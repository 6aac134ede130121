-------------------------- MODULE MCStoreMigration --------------------------
(* Small instances of StoreMigration.                                      *)
EXTENDS StoreMigration

CONSTANTS p1, p2, s1, s2, k1, k2

Id(form, k, s) == [form |-> form, key |-> k, secret |-> s]
Row(nr, table, provider, id, alias, active, at, reset, released) ==
  [nr |-> nr, table |-> table, provider |-> provider, id |-> id, alias |-> alias,
   active |-> active, at |-> at, reset |-> reset, released |-> released]
File(version, rows, bound, markers, reservations, secret) ==
  [db |-> [version |-> version, rows |-> rows, bound |-> bound, markers |-> markers,
           reservations |-> reservations],
   secretFile |-> secret]

Raw(k) == Id("raw", k, None)
V0(k) == Id("v0", k, None)

\* An early release: a ban known by its key and by its v0 fingerprint, one of them
\* released later, and an invalid credential only known by its v0 fingerprint.
Early == File(1, { Row(1, "ban", "", V0(k1), FALSE, TRUE, 1, 2, 0),
                   Row(2, "ban", "Codex", Raw(k1), FALSE, FALSE, 1, 2, 2),
                   Row(3, "invalid", "", V0(k2), FALSE, TRUE, 1, 0, 0) }, None, {}, 1, None)

\* Resets in milliseconds, and rows that meet in two spellings and two forms.
Mixed == File(2, { Row(1, "ban", "codex", V0(k1), FALSE, TRUE, 2, 2000, 0),
                   Row(2, "ban", "", V0(k1), TRUE, TRUE, 1, 3000, 0),
                   Row(3, "ban", "", Raw(k1), FALSE, FALSE, 1, 3000, 0),
                   Row(4, "ban", "other", V0(k2), FALSE, TRUE, 1, 3000, 0) }, None, {}, 0, s1)

\* Grok accounts, with a usage event of the same key.
Grok == File(2, { Row(1, "xai", "", V0(k1), FALSE, TRUE, 2, 0, 0),
                  Row(2, "xai", "xai", Raw(k1), FALSE, TRUE, 1, 2, 0),
                  Row(3, "invalid", "", V0(k2), TRUE, TRUE, 1, 0, 0),
                  Row(4, "usage", "", Raw(k1), FALSE, FALSE, 1, 0, 0) }, None, {}, 0, s1)

\* Fingerprints of a secret nobody recorded.
Unbound == File(2, { Row(1, "invalid", "", Id("v1", k1, s1), FALSE, TRUE, 1, 0, 0),
                     Row(2, "invalid", "", V0(k2), TRUE, FALSE, 1, 0, 0),
                     Row(3, "invalid", "", Raw(k2), FALSE, TRUE, 1, 0, 0) }, None, {}, 1, s1)

\* A bound file of version 4, quarantined, with two rows of one credential.
Quarantined == File(4, { Row(1, "ban", "", Id("legacy", k1, s1), FALSE, TRUE, 2, 3, 0),
                         Row(2, "ban", "", Id("v1", k1, s1), FALSE, TRUE, 1, 2, 0),
                         Row(3, "invalid", "", Id("legacy", k2, s1), FALSE, TRUE, 1, 0, 0) },
                    s1, { [provider |-> "codex", id |-> Id("legacy", k1, s1)],
                          [provider |-> "codex", id |-> Id("legacy", k2, s1)] }, 1, s1)

AllDatabases == {Early, Mixed, Grok, Unbound, Quarantined}
=============================================================================
