------------------------ MODULE MCAccountProtection ------------------------
(* Small instances of AccountProtection.                                   *)
EXTENDS AccountProtection, TLC

CONSTANTS m1, m2, p1, p2, a1, a2

\* One pick in each of two plugin processes.
TwoProcesses == p1 :> m1 @@ p2 :> m2
\* Both picks in one process.
OneProcess == p1 :> m1 @@ p2 :> m1

LimitOne == a1 :> {1} @@ a2 :> {1}
CapacityOne == a1 :> 1 @@ a2 :> 1

FirstPreferred == a1 :> 2 @@ a2 :> 1
OnePriority == a1 :> 1

\* Both credentials are visible to the host under one auth id.
SharedAuthId == a1 :> {a2} @@ a2 :> {a1}
OneNoTwins == a1 :> {}
\* The plan of a1 resolves to either of two limits.
OneLimitVaries == a1 :> {1, 2}
OneCapacityTwo == a1 :> 2

\* The two processes with their picks are interchangeable.
SwapProcesses == {m1 :> m2 @@ m2 :> m1 @@ p1 :> p2 @@ p2 :> p1}

=============================================================================
