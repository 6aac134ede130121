--------------------------- MODULE MCRestrictions ---------------------------
(* Who acts in the behaviours that are checked: few actors at a time, and  *)
(* every pair of actors whose statements can interleave in some scene.    *)
EXTENDS Restrictions

CONSTANTS c1, q1

Scene(cast, answers, probes) == [cast |-> cast, answers |-> answers, probes |-> probes]

\* Full rounds against one callback, one probe, or 403s from both.
Repairs == {
  Scene({c1, "dashboard", "administrator"}, {"ok", "limited"}, {}),
  Scene({c1, "dashboard", "administrator"}, {"ok", "deactivated"}, {}),
  Scene({q1, "dashboard", "administrator"}, {}, {"ok", "limited", "deactivated"}),
  Scene({c1, q1, "dashboard"}, {"forbidden"}, {"forbidden"})}

\* The rounds the manager decides to run, with restarts.
ManagedRounds == {
  Scene({c1, "maintenance", "crash"}, {"ok", "limited"}, {}),
  Scene({c1, "maintenance", "administrator"}, {"ok", "unauthorized"}, {})}

\* Callbacks, probes and picks without a round.
Reports == {
  Scene({c1, q1}, {"ok", "limited"}, {"limited", "throttled", "ok", "forbidden", "unauthorized"}),
  Scene({c1, q1, "pick", "administrator"}, {"limited", "unauthorized"}, {})}

AllScenes == Repairs \cup ManagedRounds \cup Reports

\* One request that is answered with a 401, and the file is replaced.
OneReplacement == {Scene({c1, "maintenance", "administrator"}, {"unauthorized"}, {})}
=============================================================================
