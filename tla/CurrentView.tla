---------------------------- MODULE CurrentView ----------------------------
(***************************************************************************)
(* What scheduler.pick is promised by each of its caches of the shared     *)
(* file, however they are refreshed, invalidated and shared: one view of   *)
(* the stored state, taken at once, no older than the state when the pick  *)
(* began, or than a later change it has to see, and no newer than what is  *)
(* committed.  A view once served does not change until the pick returns.  *)
(***************************************************************************)
EXTENDS Integers

CONSTANTS Clients

VARIABLES
  version,   \* the changes committed so far
  floor,     \* per client: the version it has to see at least, or NoVersion
  seen       \* per client: the version of the view it was served, or NoVersion

NoVersion == -1

Init ==
  /\ version = 0
  /\ floor = [c \in Clients |-> NoVersion]
  /\ seen = [c \in Clients |-> NoVersion]

\* A change is committed; some of the clients still waiting for their view have
\* to see it.
Change ==
  /\ version' = version + 1
  /\ \E S \in SUBSET {c \in Clients : floor[c] # NoVersion /\ seen[c] = NoVersion} :
       floor' = [c \in Clients |-> IF c \in S THEN version + 1 ELSE floor[c]]
  /\ UNCHANGED seen

\* A client begins, or begins again before it was served.
Begin(c) ==
  /\ seen[c] = NoVersion
  /\ floor' = [floor EXCEPT ![c] = version]
  /\ UNCHANGED << version, seen >>

Serve(c) ==
  /\ floor[c] # NoVersion /\ seen[c] = NoVersion
  /\ \E v \in floor[c] .. version : seen' = [seen EXCEPT ![c] = v]
  /\ UNCHANGED << version, floor >>

\* Clients return, or their process dies.
Leave(S) ==
  /\ floor' = [c \in Clients |-> IF c \in S THEN NoVersion ELSE floor[c]]
  /\ seen' = [c \in Clients |-> IF c \in S THEN NoVersion ELSE seen[c]]
  /\ UNCHANGED version

Next ==
  \/ Change
  \/ \E c \in Clients : Begin(c) \/ Serve(c)
  \/ \E S \in SUBSET Clients : Leave(S)

Spec == Init /\ [][Next]_<< version, floor, seen >>

=============================================================================
