------------------------- MODULE ConcurrencyBudget -------------------------
(***************************************************************************)
(* What the account protection promises: a counting semaphore per account  *)
(* whose units are leases.  A unit is taken only below the capacity, one   *)
(* at a time; a usage callback gives back at most one; units lapse only    *)
(* when time passes.  Nothing else changes the count: no cleanup, rollback *)
(* or crash gives a unit back early or takes one.                          *)
(***************************************************************************)
EXTENDS Integers

CONSTANTS
  Accounts,
  Capacity   \* [Accounts -> Nat]

VARIABLES time, held

Init ==
  /\ time = 0
  /\ held = [a \in Accounts |-> 0]

Acquire(a) ==
  /\ held[a] < Capacity[a]
  /\ held' = [held EXCEPT ![a] = @ + 1]
  /\ UNCHANGED time

Release(a) ==
  /\ held[a] > 0
  /\ held' = [held EXCEPT ![a] = @ - 1]
  /\ UNCHANGED time

Lapse ==
  /\ time' = time + 1
  /\ held' \in [Accounts -> Nat]
  /\ \A a \in Accounts : held'[a] <= held[a]

Next == Lapse \/ \E a \in Accounts : Acquire(a) \/ Release(a)

Spec == Init /\ [][Next]_<< time, held >>

=============================================================================
