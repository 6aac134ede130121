------------------------- MODULE MCPrivacyRevision -------------------------
(* Small instances of PrivacyRevision.  The picks are interchangeable, but  *)
(* one run checks liveness with the rest, which symmetry does not allow.    *)
EXTENDS PrivacyRevision

CONSTANTS p1, p2, o1

=============================================================================
