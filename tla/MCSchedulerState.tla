-------------------------- MODULE MCSchedulerState --------------------------
(* Small instances of SchedulerState.                                      *)
EXTENDS SchedulerState, TLC

CONSTANTS m1, m2, p1, p2, r1, s1, w1, w2, v1

\* Two picks, the worker, a maintenance and two writers of process m1; a writer
\* of process m2, which shares the database.
Placed == p1 :> m1 @@ p2 :> m1 @@ r1 :> m1 @@ s1 :> m1 @@ w1 :> m1 @@ w2 :> m1 @@ v1 :> m2
Placement == [x \in Actors |-> Placed[x]]

\* The safety run lets a few of the actors move in a behaviour, while m1 may be
\* restarted or reconfigured: a pick and both refreshers beside a writer of m2,
\* or picks that populate the cache themselves, beside writers.
VARIABLE cast
Casts == {{p1, r1, s1, v1}, {p1, p2, w1}, {p1, p2, v1}, {p1, w1, v1}}

MovesIn(c) == \A x \in Actors \ c : pc'[x] = pc[x]
CastInit == Init /\ cast \in Casts
CastNext == Next /\ MovesIn(cast) /\ UNCHANGED cast
CastSpec == CastInit /\ [][CastNext]_<< vars, cast >>

\* The liveness run lets everybody move.
FairCastInit == Init /\ cast = Actors
FairCastSpec == FairCastInit /\ [][CastNext]_<< vars, cast >> /\ Fairness

=============================================================================
