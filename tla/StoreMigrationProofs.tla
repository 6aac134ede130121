------------------------ MODULE StoreMigrationProofs ------------------------
(***************************************************************************)
(* Proofs about StoreMigration, for any number of processes, keys and      *)
(* secrets, any files that earlier versions leave and any bounds.          *)
(***************************************************************************)
EXTENDS StoreMigration, FiniteSetTheorems, NaturalsInduction, TLAPS

-----------------------------------------------------------------------------
(* The order in which rows of one credential are preferred                 *)

\* The ranks of two rows are compared like words of four numbers, the number of the
\* row last.
Ahead(a, b) ==
  \/ a[1] > b[1]
  \/ a[1] = b[1] /\ a[2] > b[2]
  \/ a[1] = b[1] /\ a[2] = b[2] /\ a[3] > b[3]
  \/ a[1] = b[1] /\ a[2] = b[2] /\ a[3] = b[3] /\ a[4] > b[4]

\* A rank has four numbers, the last of them the row's own.
LEMMA RankType ==
  ASSUME NEW r \in Rows
  PROVE  /\ Rank(r)[1] \in Nat /\ Rank(r)[2] \in Nat /\ Rank(r)[3] \in Nat
         /\ Rank(r)[4] = r.nr /\ r.nr \in Nat
  <1>1. /\ r.at \in Nat /\ r.released \in Nat /\ r.reset \in Nat /\ r.nr \in Nat
        /\ Num(r.active) \in 0 .. 1
    BY DEF Rows, Num
  <1>2. CASE r.table = "ban"
    BY <1>1, <1>2 DEF Rank
  <1>3. CASE r.table # "ban"
    BY <1>1, <1>3 DEF Rank
  <1> QED
    BY <1>2, <1>3

\* Outranks compares ranks.
LEMMA OutranksIsAhead ==
  ASSUME NEW r, NEW q
  PROVE  Outranks(r, q) <=> Ahead(Rank(r), Rank(q))
  <1> DEFINE a == Rank(r)
             b == Rank(q)
             Tied(i) == \A j \in 1 .. i - 1 : a[j] = b[j]
  <1>1. Outranks(r, q) <=> \E i \in 1 .. 4 : a[i] > b[i] /\ Tied(i)
    BY DEF Outranks
  <1>2. /\ Tied(1)
        /\ Tied(2) <=> a[1] = b[1]
        /\ Tied(3) <=> a[1] = b[1] /\ a[2] = b[2]
        /\ Tied(4) <=> a[1] = b[1] /\ a[2] = b[2] /\ a[3] = b[3]
    <2> HIDE DEF a, b
    <2>1. \A j \in Int : ~(1 <= j /\ j <= 0)
      OBVIOUS
    <2>2. \A j \in Int : 1 <= j /\ j <= 1 <=> j = 1
      OBVIOUS
    <2>3. \A j \in Int : 1 <= j /\ j <= 2 <=> j = 1 \/ j = 2
      OBVIOUS
    <2>4. \A j \in Int : 1 <= j /\ j <= 3 <=> j = 1 \/ j = 2 \/ j = 3
      OBVIOUS
    <2>5. Tied(1)
      BY <2>1
    <2>6. Tied(2) <=> a[1] = b[1]
      BY <2>2
    <2>7. Tied(3) <=> a[1] = b[1] /\ a[2] = b[2]
      BY <2>3
    <2>8. Tied(4) <=> a[1] = b[1] /\ a[2] = b[2] /\ a[3] = b[3]
      BY <2>4
    <2> QED
      BY <2>5, <2>6, <2>7, <2>8
  <1>3. 1 .. 4 = {1, 2, 3, 4}
    OBVIOUS
  <1> DEFINE Decides(i) == a[i] > b[i] /\ Tied(i)
  <1>4. (\E i \in 1 .. 4 : Decides(i)) <=> Decides(1) \/ Decides(2) \/ Decides(3) \/ Decides(4)
    <2> HIDE DEF Decides
    <2>1. (\E i \in {1, 2, 3, 4} : Decides(i))
             <=> Decides(1) \/ Decides(2) \/ Decides(3) \/ Decides(4)
      BY Zenon
    <2> QED
      BY <1>3, <2>1
  <1> HIDE DEF Tied
  <1> QED
    BY <1>1, <1>2, <1>4 DEF Ahead

\* It is a strict order, total on rows with different numbers.
LEMMA OutranksIsAnOrder ==
  ASSUME NEW r \in Rows, NEW q \in Rows, NEW s \in Rows
  PROVE  /\ ~Outranks(r, r)
         /\ Outranks(r, q) => ~Outranks(q, r)
         /\ Outranks(r, q) /\ Outranks(q, s) => Outranks(r, s)
         /\ r.nr # q.nr => Outranks(r, q) \/ Outranks(q, r)
  <1>1. \A x \in {r, q, s} : /\ Rank(x)[1] \in Nat /\ Rank(x)[2] \in Nat /\ Rank(x)[3] \in Nat
                             /\ Rank(x)[4] = x.nr /\ x.nr \in Nat
    BY RankType
  <1> QED
    BY <1>1, OutranksIsAhead DEF Ahead

Numbered(rows) == \A r, q \in rows : r.nr = q.nr => r = q

\* A finite set of rows has a best one: one that the fewest others outrank.
LEMMA BestExists ==
  ASSUME NEW S \in SUBSET Rows, S # {}, IsFiniteSet(S), Numbered(S)
  PROVE  Best(S) \in S /\ \A q \in S \ {Best(S)} : Outranks(Best(S), q)
  <1> DEFINE above(r) == {q \in S : Outranks(q, r)}
             sizes == {Cardinality(above(r)) : r \in S}
             less == {ss \in Nat \X Nat : ss[1] < ss[2]}
  <1>1. \A r \in S : IsFiniteSet(above(r)) /\ Cardinality(above(r)) \in Nat
    <2> TAKE r \in S
    <2>1. above(r) \subseteq S
      OBVIOUS
    <2> HIDE DEF above
    <2> QED
      BY <2>1, FS_Subset, FS_CardinalityType
  <1>2. PICK n \in sizes : \A m \in sizes : ~(m < n)
    <2>1. sizes \subseteq Nat /\ sizes # {}
      <3> HIDE DEF above
      <3> QED
        BY <1>1
    <2>2. IsWellFoundedOn(less, Nat)
      BY NatLessThanWellFounded DEF OpToRel
    <2>3. \A x, y \in Nat : << y, x >> \in less <=> y < x
      OBVIOUS
    <2> HIDE DEF less, sizes
    <2>4. PICK x \in sizes : \A y \in sizes : ~(<< y, x >> \in less)
      BY <2>1, <2>2, WFMin
    <2> QED
      BY <2>1, <2>3, <2>4
  <1>3. PICK r \in S : n = Cardinality(above(r))
    BY <1>2
  <1>4. above(r) = {}
    <2> SUFFICES ASSUME NEW q \in above(r)
                 PROVE  FALSE
      OBVIOUS
    <2>1. q \in S /\ Outranks(q, r)
      OBVIOUS
    <2>2. above(q) \subseteq above(r) /\ q \notin above(q)
      BY <2>1, OutranksIsAnOrder
    <2>3. Cardinality(above(q)) < Cardinality(above(r))
      <3>1. above(q) # above(r)
        BY <2>2
      <3>2. IsFiniteSet(above(r)) /\ Cardinality(above(r)) \in Nat /\ Cardinality(above(q)) \in Nat
        BY <1>1, <2>1
      <3> HIDE DEF above
      <3> QED
        BY <2>2, <3>1, <3>2, FS_Subset
    <2>4. Cardinality(above(q)) \in sizes
      BY <2>1
    <2> QED
      BY <1>2, <1>3, <2>3, <2>4
  <1>5. \A q \in S \ {r} : Outranks(r, q)
    <2> TAKE q \in S \ {r}
    <2>1. r.nr # q.nr /\ ~Outranks(q, r)
      BY <1>4 DEF Numbered
    <2> QED
      BY <2>1, OutranksIsAnOrder
  <1> QED
    BY <1>5 DEF Best

\* What outranks every other is the best.
LEMMA BestIs ==
  ASSUME NEW S \in SUBSET Rows, NEW b \in S, \A q \in S \ {b} : Outranks(b, q)
  PROVE  Best(S) = b
  <1>1. Best(S) \in S /\ \A q \in S \ {Best(S)} : Outranks(Best(S), q)
    BY DEF Best
  <1>2. CASE Best(S) # b
    <2>1. Outranks(b, Best(S)) /\ Outranks(Best(S), b)
      BY <1>1, <1>2
    <2> QED
      BY <1>1, <2>1, OutranksIsAnOrder
  <1> QED
    BY <1>2

\* The rank depends on nothing but these columns.
Same(r, q) ==
  /\ r.nr = q.nr /\ r.table = q.table /\ r.alias = q.alias /\ r.active = q.active
  /\ r.at = q.at /\ r.reset = q.reset /\ r.released = q.released

\* Rows that agree on those columns have the same rank.
LEMMA SameRank ==
  ASSUME NEW r, NEW q, Same(r, q)
  PROVE  Rank(r) = Rank(q)
  BY DEF Same, Rank

-----------------------------------------------------------------------------
(* What every stage keeps of the rows                                      *)

Restrictive == {"invalid", "ban", "xai"}
Unmasked == {"raw", "v0"}

\* The original rows that say something of the credential of key k, in seconds; b is
\* the secret the file is bound to in the end.
Sources(table, k, b, file) ==
  {[r EXCEPT !.reset = IF file.version < 4 THEN Seconds(r) ELSE @] :
     r \in {q \in file.rows : /\ q.table = table /\ q.id.key = k
                              /\ Canonical(q) = Own(table) /\ q.id.secret \in {None, b}}}

\* The rows that still do.
Class(rows, table, k, b) ==
  {r \in rows : /\ r.table = table /\ r.id.key = k
                /\ Canonical(r) = Own(table) /\ r.id.secret \in {None, b}}

\* Each is an original row but for its name, and the best original is among them.
BestIsKept(rows, table, k, b, file) ==
  /\ \A r \in Class(rows, table, k, b) : \E o \in Sources(table, k, b, file) : Same(r, o)
  /\ Sources(table, k, b, file) # {} =>
       \E r \in Class(rows, table, k, b) : Same(r, Best(Sources(table, k, b, file)))

Kept(rows, b, file, released) ==
  \A table \in Restrictive, k \in Keys :
    << table, k >> \notin released => BestIsKept(rows, table, k, b, file)

Orderly(data, file) ==
  /\ data \in Database /\ IsFiniteSet(data.rows) /\ Numbered(data.rows)
  /\ data.bound \in Secrets
  /\ \A r \in data.rows : r.id.secret = None <=> r.id.form \in Unmasked
  /\ \A x \in data.rows \cup data.markers :
       x.id.secret = data.bound \/ \E q \in file.rows : q.id = x.id

Canonized(rows) == \A r \in rows : r.provider = Canonical(r)
Merged(rows) == \A r, q \in rows : r.table # "usage" /\ SameKey(r, q) => r = q
InSeconds(rows) == \A r \in rows : r.reset <= Milliseconds
Masked(rows) == \A r \in rows : r.id.form \in {"v1", "legacy"}

\* The restrictions in force at t that only a marker can enforce have one.
Orphan(r, b, t) == Restricts(r, t) /\ ~r.alias /\ r.id.form = "legacy" /\ r.id.secret = b
Tag(r, id) == [provider |-> Canonical(r), id |-> id]
Marked(rows, b, markers, t) == \A r \in rows : Orphan(r, b, t) => Tag(r, r.id) \in markers

\* A file of the current version.
Sound(data, file, released, t) ==
  /\ Orderly(data, file)
  /\ Canonized(data.rows) /\ Merged(data.rows) /\ InSeconds(data.rows) /\ Masked(data.rows)
  /\ Kept(data.rows, data.bound, file, released)
  /\ Marked(data.rows, data.bound, data.markers, t)

\* A file as an earlier version leaves it.
Left(file) ==
  /\ file \in Database /\ IsFiniteSet(file.rows) /\ Numbered(file.rows)
  /\ \A r \in file.rows : r.id.secret = None <=> r.id.form \in Unmasked
  /\ file.version < 3 => file.bound = None /\ file.markers = {}
  /\ file.version >= 3 =>
       /\ file.bound \in Secrets /\ Masked(file.rows)
       /\ Marked(file.rows, file.bound, file.markers, 1)
       /\ \A m \in file.markers : m.id.secret = file.bound
  /\ \A r \in file.rows :
       (IF file.version < 4 THEN Seconds(r) ELSE r.reset) <= Milliseconds
  /\ file.version = Current => Canonized(file.rows) /\ Merged(file.rows)

\* The databases an instance starts from are files that earlier versions leave.
LEMMA FilesAreLeft ==
  ASSUME NEW d \in Databases
  PROVE  Left(d.db) /\ d.secretFile \in Secrets \cup {None, Partial}
  <1> DEFINE file == d.db
  <1>1. file \in Database /\ d.secretFile \in Secrets \cup {None, Partial}
    BY DatabasesAssumption
  <1>2. IsFiniteSet(file.rows) /\ Numbered(file.rows)
    BY DatabasesAssumption DEF Numbered
  <1>3. \A r \in file.rows : r.id.secret = None <=> r.id.form \in Unmasked
    BY DatabasesAssumption DEF Unmasked
  <1>4. file.version < 3 => file.bound = None /\ file.markers = {}
    BY DatabasesAssumption
  <1>5. ASSUME file.version >= 3
        PROVE  /\ file.bound \in Secrets /\ Masked(file.rows)
               /\ Marked(file.rows, file.bound, file.markers, 1)
               /\ \A m \in file.markers : m.id.secret = file.bound
    <2>1. file.bound \in Secrets
      BY <1>1, <1>5, DatabasesAssumption DEF Database
    <2>2. Masked(file.rows) /\ \A m \in file.markers : m.id.secret = file.bound
      BY <1>5, DatabasesAssumption DEF Masked
    <2>3. Marked(file.rows, file.bound, file.markers, 1)
      BY <1>5, DatabasesAssumption DEF Marked, Orphan, Tag
    <2> QED
      BY <2>1, <2>2, <2>3
  <1>6. \A r \in file.rows :
          (IF file.version < 4 THEN Seconds(r) ELSE r.reset) <= Milliseconds
    BY DatabasesAssumption
  <1>7. file.version = Current => Canonized(file.rows) /\ Merged(file.rows)
    BY DatabasesAssumption DEF Canonized, Merged
  <1> QED
    BY <1>1, <1>2, <1>3, <1>4, <1>5, <1>6, <1>7 DEF Left

-----------------------------------------------------------------------------
(* Rows, one by one                                                        *)

\* The columns of a row, one by one.
LEMMA RowFields ==
  ASSUME NEW r \in Rows
  PROVE  /\ r.nr \in Nat /\ r.table \in Tables /\ r.provider \in Spellings /\ r.id \in Identities
         /\ r.alias \in BOOLEAN /\ r.active \in BOOLEAN
         /\ r.at \in Nat /\ r.reset \in Nat /\ r.released \in Nat
         /\ r.id.form \in Forms /\ r.id.key \in Keys /\ r.id.secret \in Secrets \cup {None}
  BY DEF Rows, Identities

\* A canonical provider is a spelling, and canonical.
LEMMA CanonicalIsCanonical ==
  ASSUME NEW r \in Rows
  PROVE  /\ Canonical(r) \in Spellings
         /\ \A q : q.table = r.table /\ q.provider = Canonical(r) => Canonical(q) = Canonical(r)
         /\ [r EXCEPT !.provider = Canonical(r)] \in Rows
  <1>1. /\ r.provider = "" => Canonical(r) = Own(r.table)
        /\ r.provider = "Codex" => Canonical(r) = "codex"
        /\ r.provider \notin {"", "Codex"} => Canonical(r) = r.provider
        /\ Own(r.table) \in {"xai", "codex"}
    BY Zenon DEF Canonical, Own
  <1>2. Canonical(r) \in Spellings \ {"", "Codex"}
    BY <1>1, RowFields, Zenon DEF Spellings
  <1>3. ASSUME NEW q, q.provider = Canonical(r)
        PROVE  Canonical(q) = Canonical(r)
    BY <1>2, <1>3, Zenon DEF Canonical
  <1>4. Canonical(r) \in Spellings
    BY <1>2, Zenon
  <1>5. [r EXCEPT !.provider = Canonical(r)] \in Rows
    BY <1>4 DEF Rows
  <1> QED
    BY <1>3, <1>4, <1>5, Zenon

\* It depends on the table and on the spelling alone.
LEMMA SameCanonical ==
  ASSUME NEW r, NEW q, r.table = q.table, r.provider = q.provider
  PROVE  Canonical(r) = Canonical(q)
  BY Zenon DEF Canonical

\* Time only lifts restrictions.
LEMMA RestrictsEarlier ==
  ASSUME NEW r \in Rows, NEW t \in Nat, NEW u \in Nat, t <= u, Restricts(r, u)
  PROVE  Restricts(r, t)
  <1>1. r.table \in Tables /\ r.reset \in Nat
    BY RowFields
  <1>2. CASE r.table = "invalid"
    BY <1>2 DEF Restricts
  <1>3. CASE r.table = "ban"
    BY <1>1, <1>3 DEF Restricts
  <1>4. CASE r.table = "xai"
    BY <1>1, <1>4 DEF Restricts
  <1>5. CASE r.table = "usage"
    BY <1>5 DEF Restricts
  <1> QED
    BY <1>1, <1>2, <1>3, <1>4, <1>5 DEF Tables

\* As time passes, fewer restrictions need a marker.
LEMMA MarkedLater ==
  ASSUME NEW rows \in SUBSET Rows, NEW b, NEW markers, NEW t \in Nat, NEW u \in Nat, t <= u,
         Marked(rows, b, markers, t)
  PROVE  Marked(rows, b, markers, u)
  BY RestrictsEarlier DEF Marked, Orphan

\* Seconds are a number, no larger, and lift no restriction.
LEMMA SecondsShrink ==
  ASSUME NEW row, row.reset \in Nat
  PROVE  /\ Seconds(row) \in Nat /\ Seconds(row) <= row.reset
         /\ row.reset # 0 => Seconds(row) # 0
  <1> DEFINE n == row.reset
  <1>1. Milliseconds \in Nat /\ Milliseconds > 0 /\ n \in Nat
    BY ConstantsAssumption
  <1>2. Seconds(row) = n \/ (n > Milliseconds /\ Seconds(row) = n \div Milliseconds)
    BY DEF Seconds
  <1> HIDE DEF n
  <1>3. n > Milliseconds =>
          n \div Milliseconds \in Nat /\ n \div Milliseconds <= n /\ n \div Milliseconds >= 1
    BY <1>1, Z3
  <1>4. Seconds(row) \in Nat /\ Seconds(row) <= n /\ (n # 0 => Seconds(row) # 0)
    BY <1>1, <1>2, <1>3
  <1> QED
    BY <1>4 DEF n

\* Sources are rows of the credential, finitely many, one of which is the best.
LEMMA SourcesAreRows ==
  ASSUME NEW file, Left(file), NEW table, NEW k, NEW b
  PROVE  LET S == Sources(table, k, b, file) IN
         /\ S \subseteq Rows /\ IsFiniteSet(S) /\ Numbered(S)
         /\ S # {} => Best(S) \in S /\ \A o \in S \ {Best(S)} : Outranks(Best(S), o)
  <1> DEFINE S == Sources(table, k, b, file)
             T == {q \in file.rows : /\ q.table = table /\ q.id.key = k
                                     /\ Canonical(q) = Own(table) /\ q.id.secret \in {None, b}}
             InS(r) == [r EXCEPT !.reset = IF file.version < 4 THEN Seconds(r) ELSE @]
             f == [r \in T |-> InS(r)]
  <1>1. file.rows \subseteq Rows /\ IsFiniteSet(file.rows) /\ Numbered(file.rows)
    BY DEF Left, Database
  <1>2. S = {InS(r) : r \in T}
    BY DEF Sources
  <1>3. \A r \in T : InS(r) \in Rows /\ InS(r).nr = r.nr
    <2> TAKE r \in T
    <2>1. r \in Rows
      BY <1>1
    <2>2. Seconds(r) \in Nat
      BY <2>1, RowFields, SecondsShrink
    <2> QED
      BY <2>1, <2>2 DEF Rows
  <1>4. S \subseteq Rows
    BY <1>2, <1>3
  <1>5. Numbered(S)
    <2> SUFFICES ASSUME NEW x \in S, NEW y \in S, x.nr = y.nr
                 PROVE  x = y
      BY DEF Numbered
    <2>1. PICK r \in T : x = InS(r)
      BY <1>2
    <2>2. PICK q \in T : y = InS(q)
      BY <1>2
    <2>3. r.nr = q.nr
      BY <1>3, <2>1, <2>2
    <2>4. r = q
      BY <1>1, <2>3 DEF Numbered
    <2> QED
      BY <2>1, <2>2, <2>4
  <1>6. IsFiniteSet(S)
    <2>1. IsFiniteSet(T)
      <3>1. T \subseteq file.rows
        OBVIOUS
      <3> HIDE DEF T
      <3> QED
        BY <1>1, <3>1, FS_Subset
    <2>2. f \in Surjection(T, S)
      <3> HIDE DEF T, InS
      <3> QED
        BY <1>2 DEF Surjection
    <2> QED
      BY <2>1, <2>2, FS_Surjection
  <1> HIDE DEF S
  <1>7. S # {} => Best(S) \in S /\ \A o \in S \ {Best(S)} : Outranks(Best(S), o)
    BY <1>4, <1>5, <1>6, BestExists
  <1> QED
    BY <1>4, <1>5, <1>6, <1>7 DEF S

\* What has the contents of the best source outranks what has those of another.
LEMMA BestOutranks ==
  ASSUME NEW file, Left(file), NEW table, NEW k, NEW b,
         NEW o \in Sources(table, k, b, file),
         NEW w, NEW q, Same(w, Best(Sources(table, k, b, file))), Same(q, o), w.nr # q.nr
  PROVE  Outranks(w, q)
  <1> DEFINE S == Sources(table, k, b, file)
  <1>1. Best(S) \in S /\ \A x \in S \ {Best(S)} : Outranks(Best(S), x)
    BY SourcesAreRows
  <1>2. Outranks(Best(S), o)
    BY <1>1 DEF Same
  <1>3. Rank(w) = Rank(Best(S)) /\ Rank(q) = Rank(o)
    BY SameRank
  <1> QED
    BY <1>2, <1>3, OutranksIsAhead

\* The argument of every stage: if each row left is an old one but for its name, and the
\* best one stays in each credential not released, then what was kept still is.
LEMMA KeptStays ==
  ASSUME NEW rows, NEW after, NEW b, NEW file, NEW released, NEW more, released \subseteq more,
         Kept(rows, b, file, released),
         \A table \in Restrictive, k \in Keys : << table, k >> \notin more =>
           /\ \A x \in Class(after, table, k, b) :
                \E r \in Class(rows, table, k, b) : Same(x, r)
           /\ Sources(table, k, b, file) # {} =>
                \A w \in Class(rows, table, k, b) :
                  Same(w, Best(Sources(table, k, b, file)))
                    => \E x \in Class(after, table, k, b) : Same(x, w)
  PROVE  Kept(after, b, file, more)
  <1> SUFFICES ASSUME NEW table \in Restrictive, NEW k \in Keys, << table, k >> \notin more
               PROVE  BestIsKept(after, table, k, b, file)
    BY DEF Kept
  <1> DEFINE S == Sources(table, k, b, file)
  <1>1. BestIsKept(rows, table, k, b, file)
    BY DEF Kept
  <1>2. \A x, y, z : Same(x, y) /\ Same(y, z) => Same(x, z)
    BY DEF Same
  <1>3. \A x \in Class(after, table, k, b) : \E o \in S : Same(x, o)
    BY <1>1, <1>2 DEF BestIsKept
  <1>4. S # {} => \E x \in Class(after, table, k, b) : Same(x, Best(S))
    BY <1>1, <1>2 DEF BestIsKept
  <1> QED
    BY <1>3, <1>4 DEF BestIsKept

\* Rows go only when a better one of the same key stays.
Pruned(before, after) ==
  /\ after \subseteq before
  /\ \A x \in before \ after :
       x.table # "usage" /\ \E y \in after : SameKey(y, x) /\ Outranks(y, x)

\* Rows that go leave the best one behind.
LEMMA PruningKeeps ==
  ASSUME NEW file, Left(file), NEW before \in SUBSET Rows, Numbered(before), NEW after,
         Pruned(before, after), NEW b, NEW released, Kept(before, b, file, released)
  PROVE  Kept(after, b, file, released)
  <1>1. ASSUME NEW table \in Restrictive, NEW k \in Keys, << table, k >> \notin released
        PROVE  /\ \A x \in Class(after, table, k, b) :
                    \E r \in Class(before, table, k, b) : Same(x, r)
               /\ Sources(table, k, b, file) # {} =>
                    \A w \in Class(before, table, k, b) :
                      Same(w, Best(Sources(table, k, b, file)))
                        => \E x \in Class(after, table, k, b) : Same(x, w)
    <2> DEFINE S == Sources(table, k, b, file)
    <2>1. Class(after, table, k, b) \subseteq Class(before, table, k, b)
      BY DEF Class, Pruned
    <2>2. \A x : Same(x, x)
      BY DEF Same
    <2>3. ASSUME S # {}, NEW w \in Class(before, table, k, b), Same(w, Best(S)),
                 w \notin Class(after, table, k, b)
          PROVE  FALSE
      <3>1. w \in before \ after
        BY <2>3 DEF Class
      <3>2. PICK y \in after : SameKey(y, w) /\ Outranks(y, w)
        BY <3>1 DEF Pruned
      <3>3. y \in Rows /\ w \in Rows /\ y \in before /\ w \in before
        BY <3>1 DEF Pruned
      <3>4. Canonical(y) = Canonical(w)
        BY <3>2, SameCanonical DEF SameKey
      <3>5. y \in Class(before, table, k, b)
        BY <3>2, <3>3, <3>4 DEF Class, SameKey
      <3>6. PICK o \in S : Same(y, o)
        BY <1>1, <3>5 DEF Kept, BestIsKept
      <3>7. y # w /\ ~Outranks(w, y)
        BY <3>2, <3>3, OutranksIsAnOrder
      <3>8. y.nr # w.nr
        BY <3>3, <3>7 DEF Numbered
      <3> QED
        BY <2>3, <3>6, <3>7, <3>8, BestOutranks
    <2> QED
      BY <2>1, <2>2, <2>3
  <1> QED
    BY <1>1, KeptStays

\* To have the same primary key is an equivalence.
LEMMA SameKeyIsEquality ==
  /\ \A r : SameKey(r, r)
  /\ \A r, q : SameKey(r, q) => SameKey(q, r)
  /\ \A r, q, s : SameKey(r, q) /\ SameKey(q, s) => SameKey(r, s)
  BY DEF SameKey

\* The row of a rewrite takes the place of the old one, and the best of those it meets
\* stays.
LEMMA WithPrunes ==
  ASSUME NEW rows \in SUBSET Rows, IsFiniteSet(rows), Numbered(rows),
         NEW old \in rows, NEW new \in Rows, new.nr = old.nr
  PROVE  LET before == (rows \ {old}) \cup {new} IN
         /\ before \subseteq Rows /\ IsFiniteSet(before) /\ Numbered(before)
         /\ Pruned(before, With(rows, old, new))
         /\ Merged(rows) => Merged(With(rows, old, new))
  <1> DEFINE before == (rows \ {old}) \cup {new}
             met == {r \in rows \ {old} : r.table # "usage" /\ SameKey(r, new)}
             meeting == {new} \cup met
             w == Best(meeting)
             after == With(rows, old, new)
  <1>1. after = (rows \ ({old} \cup met)) \cup {w}
    BY DEF With
  <1>2. before \subseteq Rows /\ Numbered(before)
    BY DEF Numbered
  <1>3. IsFiniteSet(before)
    <2>1. IsFiniteSet(rows \ {old})
      BY FS_Subset
    <2> QED
      BY <2>1, FS_AddElement
  <1>4. meeting \subseteq before /\ meeting # {}
    OBVIOUS
  <1>5. w \in meeting /\ \A q \in meeting \ {w} : Outranks(w, q)
    <2>1. IsFiniteSet(meeting) /\ Numbered(meeting) /\ meeting \in SUBSET Rows
      <3> HIDE DEF meeting, before
      <3> QED
        BY <1>2, <1>3, <1>4, FS_Subset DEF Numbered
    <2> HIDE DEF meeting
    <2> QED
      BY <1>4, <2>1, BestExists
  <1>6. \A x \in meeting : SameKey(x, new)
    BY SameKeyIsEquality
  <1> HIDE DEF w
  <1>7. Pruned(before, after)
    <2>1. after \subseteq before
      BY <1>1, <1>5
    <2>2. ASSUME NEW x \in before \ after
          PROVE  x.table # "usage" /\ \E y \in after : SameKey(y, x) /\ Outranks(y, x)
      <3>1. x \in meeting \ {w} /\ w \in after
        BY <1>1, <2>2
      <3>2. Outranks(w, x) /\ SameKey(w, x)
        BY <1>5, <1>6, <3>1, SameKeyIsEquality
      <3>3. x.table # "usage"
        <4>1. CASE x \in met
          BY <4>1
        <4>2. CASE x = new
          <5>1. w \in met
            BY <1>5, <3>1, <4>2
          <5> QED
            BY <3>2, <5>1 DEF SameKey
        <4> QED
          BY <3>1, <4>1, <4>2
      <3> QED
        BY <3>1, <3>2, <3>3
    <2> HIDE DEF before, after
    <2> QED
      BY <2>1, <2>2 DEF Pruned
  <1>8. ASSUME Merged(rows), NEW x \in after, NEW y \in after, x.table # "usage", SameKey(x, y)
        PROVE  x = y
    <2>1. ASSUME NEW r \in rows \ ({old} \cup met), r.table # "usage"
          PROVE  ~SameKey(r, w)
      BY <1>5, <1>6, <2>1, SameKeyIsEquality
    <2>2. y.table # "usage" /\ SameKey(y, x)
      BY <1>8 DEF SameKey
    <2>3. CASE x = w
      BY <1>1, <1>8, <2>1, <2>2, <2>3
    <2>4. CASE y = w
      BY <1>1, <1>8, <2>1, <2>4
    <2>5. CASE x # w /\ y # w
      BY <1>1, <1>8, <2>5 DEF Merged
    <2> QED
      BY <2>3, <2>4, <2>5
  <1>9. Merged(rows) => Merged(after)
    BY <1>8 DEF Merged
  <1> QED
    BY <1>2, <1>3, <1>7, <1>9

\* So does the rebuild of the tables.
LEMMA KeepBestPrunes ==
  ASSUME NEW before \in SUBSET Rows, IsFiniteSet(before), Numbered(before)
  PROVE  Pruned(before, KeepBest(before)) /\ Merged(KeepBest(before))
  <1> DEFINE after == KeepBest(before)
  <1>1. after = {r \in before : \/ r.table = "usage"
                                \/ \A q \in before \ {r} : SameKey(q, r) => Outranks(r, q)}
    BY DEF KeepBest
  <1>2. ASSUME NEW x \in before \ after
        PROVE  x.table # "usage" /\ \E y \in after : SameKey(y, x) /\ Outranks(y, x)
    <2> DEFINE like == {q \in before : SameKey(q, x)}
               y == Best(like)
    <2>1. x.table # "usage"
      BY <1>1, <1>2
    <2>2. x \in like /\ like \subseteq before
      BY <1>2, SameKeyIsEquality
    <2>3. y \in like /\ \A q \in like \ {y} : Outranks(y, q)
      <3>1. IsFiniteSet(like) /\ Numbered(like) /\ like \in SUBSET Rows
        <4> HIDE DEF like
        <4> QED
          BY <2>2, FS_Subset DEF Numbered
      <3> HIDE DEF like
      <3> QED
        BY <2>2, <3>1, BestExists
    <2> HIDE DEF y
    <2>4. y \in after
      BY <1>1, <2>3, SameKeyIsEquality
    <2>5. y # x
      BY <1>2, <2>4
    <2> QED
      BY <2>1, <2>2, <2>3, <2>4, <2>5
  <1>3. Pruned(before, after)
    <2>1. after \subseteq before
      BY <1>1
    <2> HIDE DEF after
    <2> QED
      BY <1>2, <2>1 DEF Pruned
  <1>4. ASSUME NEW x \in after, NEW y \in after, x.table # "usage", SameKey(x, y), x # y
        PROVE  FALSE
    <2>1. y.table # "usage" /\ SameKey(y, x)
      BY <1>4 DEF SameKey
    <2>2. Outranks(x, y) /\ Outranks(y, x)
      BY <1>1, <1>4, <2>1
    <2> QED
      BY <1>1, <1>4, <2>2, OutranksIsAnOrder
  <1> QED
    BY <1>3, <1>4 DEF Merged

-----------------------------------------------------------------------------
(* The stages of an upgrade                                                *)

\* Whether the restrictions in force name a key in the legacy form only where another
\* column names the credential as well.
Known(rows, t) == \A r \in rows : Restricts(r, t) /\ r.id.form = "legacy" => r.alias

\* Row x says what row r says, or less.
Weaker(x, r) ==
  /\ x.id = r.id /\ x.alias = r.alias /\ Canonical(x) = Canonical(r)
  /\ \A t \in Nat : Restricts(x, t) => Restricts(r, t)

\* Rows that say less need no more names and no more markers.
LEMMA WeakerRows ==
  ASSUME NEW rows, NEW after, \A x \in after : \E r \in rows : Weaker(x, r), NEW t \in Nat,
         NEW b, NEW markers
  PROVE  /\ Masked(rows) => Masked(after)
         /\ Known(rows, t) => Known(after, t)
         /\ Marked(rows, b, markers, t) => Marked(after, b, markers, t)
  BY DEF Weaker, Masked, Known, Marked, Orphan, Tag

\* A table stays orderly with fewer or changed rows, as long as no identity is new.
LEMMA OrderlyStays ==
  ASSUME NEW data, NEW file, Orderly(data, file), NEW rows \in SUBSET Rows,
         IsFiniteSet(rows), Numbered(rows), \A x \in rows : \E r \in data.rows : x.id = r.id
  PROVE  Orderly([data EXCEPT !.rows = rows], file)
  <1> DEFINE new == [data EXCEPT !.rows = rows]
  <1>1. new \in Database /\ new.rows = rows /\ new.bound = data.bound /\ new.markers = data.markers
    BY DEF Orderly, Database
  <1> HIDE DEF new
  <1>2. \A r \in rows : r.id.secret = None <=> r.id.form \in Unmasked
    BY DEF Orderly
  <1>3. \A x \in rows \cup new.markers :
          x.id.secret = data.bound \/ \E q \in file.rows : q.id = x.id
    BY <1>1 DEF Orderly
  <1>4. new.bound \in Secrets
    BY <1>1 DEF Orderly
  <1>5. Orderly(new, file)
    BY <1>1, <1>2, <1>3, <1>4 DEF Orderly
  <1> QED
    BY <1>5 DEF new

\* A part of a table is finite, numbered and has no new identity.
LEMMA SubsetIsOrderly ==
  ASSUME NEW data, NEW file, Orderly(data, file), NEW rows \in SUBSET data.rows
  PROVE  /\ rows \subseteq Rows /\ IsFiniteSet(rows) /\ Numbered(rows)
         /\ \A x \in rows : \E r \in data.rows : x.id = r.id
  <1>1. data.rows \in SUBSET Rows /\ IsFiniteSet(data.rows) /\ Numbered(data.rows)
    BY DEF Orderly, Database
  <1>2. IsFiniteSet(rows)
    BY <1>1, FS_Subset
  <1> QED
    BY <1>1, <1>2 DEF Numbered

\* A map that keeps the numbers keeps a table finite and numbered.
LEMMA MappedRows ==
  ASSUME NEW rows, IsFiniteSet(rows), Numbered(rows), NEW f, DOMAIN f = rows,
         \A r \in rows : f[r].nr = r.nr
  PROVE  IsFiniteSet({f[r] : r \in rows}) /\ Numbered({f[r] : r \in rows})
  <1> DEFINE image == {f[r] : r \in rows}
             g == [r \in rows |-> f[r]]
  <1>1. IsFiniteSet(image)
    <2>1. g \in Surjection(rows, image)
      BY DEF Surjection
    <2> HIDE DEF g, image
    <2> QED
      BY <2>1, FS_Surjection
  <1>2. Numbered(image)
    BY DEF Numbered
  <1> QED
    BY <1>1, <1>2

\* Binding: an unbound file gets a secret, a bound one keeps its own.
LEMMA BoundFile ==
  ASSUME NEW file, Left(file), NEW s \in Secrets
  PROVE  /\ file.version < 3 => Orderly([file EXCEPT !.bound = s], file)
         /\ file.version >= 3 => Orderly(file, file)
  <1> DEFINE new == [file EXCEPT !.bound = s]
  <1>1. new \in Database /\ new.rows = file.rows /\ new.markers = file.markers /\ new.bound = s
    BY DEF Left, Database
  <1> HIDE DEF new
  <1>2. ASSUME file.version < 3
        PROVE  Orderly(new, file)
    BY <1>1, <1>2 DEF Left, Orderly
  <1>3. ASSUME file.version >= 3
        PROVE  Orderly(file, file)
    BY <1>3 DEF Left, Orderly
  <1> QED
    BY <1>2, <1>3 DEF new

\* Normalizing: from here on the resets are seconds, and the rows are the sources.
Normalized(rows, version) ==
  IF version >= 4 THEN rows ELSE {[r EXCEPT !.reset = Seconds(r)] : r \in rows}

\* The stage `normalizeStoredResetColumns` keeps everything but the milliseconds.
LEMMA NormalizingEstablishes ==
  ASSUME NEW file, Left(file), NEW data, Orderly(data, file), data.rows = file.rows,
         NEW released
  PROVE  LET rows == Normalized(data.rows, file.version) IN
         /\ Orderly([data EXCEPT !.rows = rows], file)
         /\ InSeconds(rows) /\ Kept(rows, data.bound, file, released)
         /\ \A x \in rows : \E r \in data.rows : Weaker(x, r)
  <1> DEFINE InS(r) == [r EXCEPT !.reset = IF file.version < 4 THEN Seconds(r) ELSE @]
             f == [r \in file.rows |-> InS(r)]
             rows == {f[r] : r \in file.rows}
  <1>1. /\ file.rows \in SUBSET Rows /\ IsFiniteSet(file.rows) /\ Numbered(file.rows)
        /\ file.version \in Nat
    BY DEF Left, Database
  <1>2. \A r \in file.rows :
          /\ f[r] \in Rows /\ f[r].nr = r.nr /\ f[r].table = r.table /\ f[r].id = r.id
          /\ f[r].provider = r.provider /\ f[r].alias = r.alias /\ f[r].active = r.active
          /\ f[r].reset \in Nat /\ f[r].reset <= r.reset /\ (r.reset # 0 => f[r].reset # 0)
          /\ f[r].reset = IF file.version < 4 THEN Seconds(r) ELSE r.reset
    <2> TAKE r \in file.rows
    <2>1. r \in Rows /\ r.reset \in Nat
      BY <1>1, RowFields
    <2>2. Seconds(r) \in Nat /\ Seconds(r) <= r.reset
          /\ (r.reset # 0 => Seconds(r) # 0)
      BY <2>1, SecondsShrink
    <2> QED
      BY <2>1, <2>2 DEF Rows
  <1> HIDE DEF f
  <1>3. Normalized(data.rows, file.version) = rows
    <2>1. CASE file.version >= 4
      <3>1. \A r \in file.rows : f[r] = r
        BY <1>1, <2>1 DEF Rows, f
      <3>2. rows = file.rows
        BY <3>1
      <3> QED
        BY <2>1, <3>2 DEF Normalized
    <2>2. CASE ~(file.version >= 4)
      <3> DEFINE g(r) == [r EXCEPT !.reset = Seconds(r)]
      <3>1. \A r \in file.rows : f[r] = g(r)
        BY <1>1, <2>2 DEF f
      <3>2. rows = {g(r) : r \in file.rows}
        <4> HIDE DEF g
        <4> QED
          BY <3>1
      <3> QED
        BY <2>2, <3>2 DEF Normalized
    <2> QED
      BY <2>1, <2>2
  <1>4. \A r \in file.rows : Weaker(f[r], r)
    <2> TAKE r \in file.rows
    <2>1. r \in Rows /\ r.table \in Tables /\ r.reset \in Nat
      BY <1>1, RowFields
    <2>2. Canonical(f[r]) = Canonical(r)
      BY <1>2, SameCanonical
    <2>3. ASSUME NEW t \in Nat, Restricts(f[r], t)
          PROVE  Restricts(r, t)
      <3>1. r.active /\ Canonical(r) = Own(r.table)
        BY <1>2, <2>2, <2>3 DEF Restricts
      <3> DEFINE n == f[r].reset
      <3>0. /\ n \in Nat /\ n <= r.reset /\ (r.reset # 0 => n # 0) /\ r.reset \in Nat
            /\ r.table = "ban" => n > t
            /\ r.table = "xai" => n = 0 \/ n > t
        BY <1>2, <2>1, <2>3 DEF Restricts
      <3> HIDE DEF n
      <3>2. CASE r.table = "invalid"
        BY <3>1, <3>2 DEF Restricts
      <3>3. CASE r.table = "ban"
        BY <3>0, <3>1, <3>3 DEF Restricts
      <3>4. CASE r.table = "xai"
        BY <3>0, <3>1, <3>4 DEF Restricts
      <3>5. CASE r.table = "usage"
        BY <1>2, <2>3, <3>5 DEF Restricts
      <3> QED
        BY <2>1, <3>2, <3>3, <3>4, <3>5 DEF Tables
    <2> QED
      BY <1>2, <2>2, <2>3 DEF Weaker
  <1>5. ASSUME NEW table, NEW k, NEW b
        PROVE  Class(rows, table, k, b) = Sources(table, k, b, file)
    <2>1. \A r \in file.rows : Canonical(f[r]) = Canonical(r)
      BY <1>4 DEF Weaker
    <2>2. Sources(table, k, b, file)
            = {f[r] : r \in {q \in file.rows : /\ q.table = table /\ q.id.key = k
                                               /\ Canonical(q) = Own(table)
                                               /\ q.id.secret \in {None, b}}}
      BY DEF Sources, f
    <2> QED
      BY <1>2, <2>1, <2>2 DEF Class
  <1>6. Kept(rows, data.bound, file, released)
    <2> SUFFICES ASSUME NEW table \in Restrictive, NEW k \in Keys
                 PROVE  BestIsKept(rows, table, k, data.bound, file)
      BY DEF Kept
    <2> DEFINE S == Sources(table, k, data.bound, file)
    <2>1. Class(rows, table, k, data.bound) = S
      BY <1>5
    <2>2. S # {} => Best(S) \in S
      BY SourcesAreRows
    <2>3. \A x : Same(x, x)
      BY DEF Same
    <2> QED
      BY <2>1, <2>2, <2>3 DEF BestIsKept
  <1>7. InSeconds(rows)
    BY <1>2 DEF InSeconds, Left
  <1>8. Orderly([data EXCEPT !.rows = rows], file)
    <2>1. IsFiniteSet(rows) /\ Numbered(rows)
      <3>1. DOMAIN f = file.rows
        BY DEF f
      <3> QED
        BY <1>1, <1>2, <3>1, MappedRows
    <2>2. rows \in SUBSET Rows /\ \A x \in rows : \E r \in data.rows : x.id = r.id
      BY <1>2
    <2> HIDE DEF rows
    <2> QED
      BY <2>1, <2>2, OrderlyStays
  <1> QED
    BY <1>3, <1>4, <1>6, <1>7, <1>8

\* Migrating the providers: from here on they are canonical, and a credential has one
\* row per name.
LEMMA MigratingEstablishes ==
  ASSUME NEW file, Left(file), NEW data, Orderly(data, file), NEW released,
         InSeconds(data.rows), Kept(data.rows, data.bound, file, released)
  PROVE  LET rows == KeepBest({[r EXCEPT !.provider = Canonical(r)] : r \in data.rows}) IN
         /\ Orderly([data EXCEPT !.rows = rows], file)
         /\ InSeconds(rows) /\ Canonized(rows) /\ Merged(rows)
         /\ Kept(rows, data.bound, file, released)
         /\ \A x \in rows : \E r \in data.rows : Weaker(x, r)
  <1> DEFINE g(r) == [r EXCEPT !.provider = Canonical(r)]
             f == [r \in data.rows |-> g(r)]
             before == {f[r] : r \in data.rows}
             rows == KeepBest(before)
  <1>1. data.rows \in SUBSET Rows /\ IsFiniteSet(data.rows) /\ Numbered(data.rows)
    BY DEF Orderly, Database
  <1>2. ASSUME NEW r \in data.rows
        PROVE  /\ f[r] \in Rows /\ f[r].provider = Canonical(r) /\ Canonical(f[r]) = Canonical(r)
               /\ f[r].id = r.id /\ Same(f[r], r)
    <2>1. r \in Rows /\ f[r] = g(r)
      BY <1>1
    <2>2. g(r) \in Rows /\ \A q : q.table = r.table /\ q.provider = Canonical(r)
                                    => Canonical(q) = Canonical(r)
      BY <2>1, CanonicalIsCanonical
    <2>3. g(r).provider = Canonical(r) /\ g(r).table = r.table /\ g(r).id = r.id /\ Same(g(r), r)
      BY <2>1 DEF Rows, Same
    <2> HIDE DEF g, f
    <2> QED
      BY <2>1, <2>2, <2>3
  <1>3. before = {g(r) : r \in data.rows}
    <2>1. \A r \in data.rows : f[r] = g(r)
      OBVIOUS
    <2> HIDE DEF g, f
    <2> QED
      BY <2>1
  <1>4. DOMAIN f = data.rows
    OBVIOUS
  <1> HIDE DEF f
  <1>5. before \in SUBSET Rows /\ IsFiniteSet(before) /\ Numbered(before)
    <2>1. \A r \in data.rows : f[r].nr = r.nr
      BY <1>2 DEF Same
    <2>2. IsFiniteSet(before) /\ Numbered(before)
      BY <1>1, <1>4, <2>1, MappedRows
    <2> QED
      BY <1>2, <2>2
  <1>6. Pruned(before, rows) /\ Merged(rows)
    <2> HIDE DEF before
    <2> QED
      BY <1>5, KeepBestPrunes
  <1>7. Kept(before, data.bound, file, released)
    <2>1. ASSUME NEW table, NEW k, NEW x \in Class(before, table, k, data.bound)
          PROVE  \E r \in Class(data.rows, table, k, data.bound) : Same(x, r)
      <3>1. PICK r \in data.rows : x = f[r]
        BY <2>1 DEF Class
      <3>2. r.table = x.table
        BY <1>2, <3>1 DEF Same
      <3>3. r \in Class(data.rows, table, k, data.bound)
        BY <1>2, <2>1, <3>1, <3>2 DEF Class
      <3> QED
        BY <1>2, <3>1, <3>3
    <2>2. ASSUME NEW table, NEW k, NEW w \in Class(data.rows, table, k, data.bound)
          PROVE  \E x \in Class(before, table, k, data.bound) : Same(x, w)
      <3>1. w \in data.rows /\ f[w] \in before
        BY <2>2 DEF Class
      <3>2. f[w].table = w.table
        BY <1>2, <3>1 DEF Same
      <3>3. f[w] \in Class(before, table, k, data.bound)
        BY <1>2, <2>2, <3>1, <3>2 DEF Class
      <3> QED
        BY <1>2, <3>1, <3>3
    <2> HIDE DEF before
    <2> QED
      BY <2>1, <2>2, KeptStays
  <1>8. Kept(rows, data.bound, file, released)
    <2> HIDE DEF before, rows
    <2> QED
      BY <1>5, <1>6, <1>7, PruningKeeps
  <1>9. rows \subseteq before
    BY <1>6 DEF Pruned
  <1> HIDE DEF rows
  <1>10. \A x \in rows : \E r \in data.rows : Weaker(x, r)
    <2> TAKE x \in rows
    <2>1. PICK r \in data.rows : x = f[r]
      BY <1>9
    <2>2. Same(x, r) /\ x.id = r.id /\ Canonical(x) = Canonical(r)
      BY <1>2, <2>1
    <2>3. \A t \in Nat : Restricts(x, t) => Restricts(r, t)
      BY <2>2 DEF Restricts, Same
    <2> QED
      BY <2>2, <2>3 DEF Weaker, Same
  <1>11. Canonized(rows) /\ InSeconds(rows)
    <2>1. ASSUME NEW x \in rows
          PROVE  x.provider = Canonical(x) /\ x.reset <= Milliseconds
      <3>1. PICK r \in data.rows : x = f[r]
        BY <1>9
      <3>2. x.provider = Canonical(r) /\ Canonical(x) = Canonical(r) /\ x.reset = r.reset
        BY <1>2, <3>1 DEF Same
      <3> QED
        BY <3>2 DEF InSeconds
    <2> QED
      BY <2>1 DEF Canonized, InSeconds
  <1>12. Orderly([data EXCEPT !.rows = rows], file)
    <2>1. rows \in SUBSET Rows /\ IsFiniteSet(rows) /\ Numbered(rows)
      <3> HIDE DEF before
      <3> QED
        BY <1>5, <1>9, FS_Subset DEF Numbered
    <2>2. \A x \in rows : \E r \in data.rows : x.id = r.id
      BY <1>10 DEF Weaker
    <2> QED
      BY <2>1, <2>2, OrderlyStays
  <1> QED
    BY <1>3, <1>6, <1>8, <1>10, <1>11, <1>12 DEF rows

\* Renaming one row within its credential, and merging it with the row it meets.
Renames(old, id, b) ==
  /\ id \in Identities /\ id.key = old.id.key
  /\ \/ id = old.id
     \/ old.id.secret \in {None, b} /\ id.secret = b /\ id.form \notin Unmasked

\* `mergeAuthStateCollisionV3`: what a table has established stays, whichever row it meets.
LEMMA RenamingKeeps ==
  ASSUME NEW file, Left(file), NEW data, Orderly(data, file), NEW released,
         NEW old \in data.rows, NEW id, Renames(old, id, data.bound),
         InSeconds(data.rows), Canonized(data.rows), Merged(data.rows),
         Kept(data.rows, data.bound, file, released)
  PROVE  LET new == [old EXCEPT !.id = id]
             rows == With(data.rows, old, new) IN
         /\ rows \subseteq (data.rows \ {old}) \cup {new}
         /\ new.nr = old.nr /\ new.id = id /\ new.alias = old.alias
         /\ Canonical(new) = Canonical(old)
         /\ \A t \in Nat : Restricts(new, t) <=> Restricts(old, t)
         /\ Orderly([data EXCEPT !.rows = rows], file)
         /\ InSeconds(rows) /\ Canonized(rows) /\ Merged(rows)
         /\ Kept(rows, data.bound, file, released)
  <1> DEFINE new == [old EXCEPT !.id = id]
             before == (data.rows \ {old}) \cup {new}
             rows == With(data.rows, old, new)
  <1>1. /\ data.rows \in SUBSET Rows /\ IsFiniteSet(data.rows) /\ Numbered(data.rows)
        /\ data.bound \in Secrets /\ None \notin Secrets /\ old \in Rows
    BY ConstantsAssumption DEF Orderly, Database
  <1>2. /\ new \in Rows /\ new.id = id /\ new.table = old.table /\ new.provider = old.provider
        /\ new.nr = old.nr /\ new.alias = old.alias /\ new.reset = old.reset
        /\ new.active = old.active /\ Same(new, old)
    BY <1>1 DEF Rows, Renames, Same
  <1> HIDE DEF new
  <1>3. Canonical(new) = Canonical(old)
    BY <1>2, SameCanonical
  <1>4. \A t \in Nat : Restricts(new, t) <=> Restricts(old, t)
    BY <1>2, <1>3 DEF Restricts
  <1>5. /\ before \subseteq Rows /\ IsFiniteSet(before) /\ Numbered(before)
        /\ Pruned(before, rows) /\ Merged(rows)
    BY <1>1, <1>2, WithPrunes
  <1>6. rows \subseteq before
    BY <1>5 DEF Pruned
  <1> HIDE DEF rows
  <1>7. Kept(before, data.bound, file, released)
    <2>1. ASSUME NEW table, NEW k
          PROVE  new \in Class(before, table, k, data.bound)
                   <=> old \in Class(data.rows, table, k, data.bound)
      <3>1. new.id.key = old.id.key
        BY <1>2 DEF Renames
      <3>2. new.id.secret \in {None, data.bound} <=> old.id.secret \in {None, data.bound}
        BY <1>2 DEF Renames
      <3> QED
        BY <1>2, <1>3, <3>1, <3>2 DEF Class
    <2>2. ASSUME NEW table, NEW k, NEW x \in Class(before, table, k, data.bound)
          PROVE  \E r \in Class(data.rows, table, k, data.bound) : Same(x, r)
      <3>1. CASE x = new
        BY <1>2, <2>1, <2>2, <3>1
      <3>2. CASE x # new
        <4>1. x \in Class(data.rows, table, k, data.bound) /\ Same(x, x)
          BY <2>2, <3>2 DEF Class, Same
        <4> QED
          BY <4>1
      <3> QED
        BY <3>1, <3>2
    <2>3. ASSUME NEW table, NEW k, NEW w \in Class(data.rows, table, k, data.bound)
          PROVE  \E x \in Class(before, table, k, data.bound) : Same(x, w)
      <3>1. CASE w = old
        BY <1>2, <2>1, <2>3, <3>1
      <3>2. CASE w # old
        <4>1. w \in Class(before, table, k, data.bound) /\ Same(w, w)
          BY <2>3, <3>2 DEF Class, Same
        <4> QED
          BY <4>1
      <3> QED
        BY <3>1, <3>2
    <2> HIDE DEF before
    <2> QED
      BY <2>2, <2>3, KeptStays
  <1>8. Kept(rows, data.bound, file, released)
    <2> HIDE DEF before
    <2> QED
      BY <1>5, <1>7, PruningKeeps
  <1>9. InSeconds(rows)
    BY <1>2, <1>6 DEF InSeconds
  <1>10. Canonized(rows)
    BY <1>2, <1>3, <1>6 DEF Canonized
  <1>11. Orderly([data EXCEPT !.rows = rows], file)
    <2> DEFINE after == [data EXCEPT !.rows = rows]
    <2>1. rows \in SUBSET Rows /\ IsFiniteSet(rows) /\ Numbered(rows)
      <3> HIDE DEF before
      <3> QED
        BY <1>5, <1>6, FS_Subset DEF Numbered
    <2>2. /\ after \in Database /\ after.rows = rows /\ after.bound = data.bound
          /\ after.markers = data.markers
      BY <2>1 DEF Orderly, Database
    <2> HIDE DEF after
    <2>3. ASSUME NEW x \in rows
          PROVE  /\ x.id.secret = None <=> x.id.form \in Unmasked
                 /\ x.id.secret = data.bound \/ \E q \in file.rows : q.id = x.id
      <3>1. CASE x \in data.rows
        BY <3>1 DEF Orderly
      <3>2. CASE x = new /\ id = old.id
        BY <1>2, <3>2 DEF Orderly
      <3>3. CASE x = new /\ id # old.id
        BY <1>1, <1>2, <3>3 DEF Renames
      <3> QED
        BY <1>6, <2>3, <3>1, <3>2, <3>3
    <2>4. \A m \in data.markers : m.id.secret = data.bound \/ \E q \in file.rows : q.id = m.id
      BY DEF Orderly
    <2>5. Orderly(after, file)
      BY <1>1, <2>1, <2>2, <2>3, <2>4 DEF Orderly
    <2> QED
      BY <2>5 DEF after
  <1> QED
    BY <1>2, <1>3, <1>4, <1>5, <1>6, <1>8, <1>9, <1>10, <1>11 DEF new, rows

\* What both rewrites make of an identity, and that it is a renaming.
LEMMA ProtectedRenames ==
  ASSUME NEW r \in Rows, r.id.secret = None <=> r.id.form \in Unmasked, NEW b \in Secrets, NEW keys
  PROVE  LET id == Protected(r.id, keys, b) IN
         /\ Renames(r, id, b) /\ id.form \in {"v1", "legacy"}
         /\ id.form = "legacy" => \/ id = r.id
                                  \/ /\ r.id.form = "v0" /\ r.id.key \notin keys
                                     /\ id = Legacy(r.id.key, b)
  <1> DEFINE id == r.id
  <1>1. id \in Identities /\ id.form \in Forms /\ id.key \in Keys
    BY RowFields
  <1>2. CASE id.form = "raw" \/ (id.form = "v0" /\ id.key \in keys)
    <2>1. Protected(id, keys, b) = V1(id.key, b)
      BY <1>2 DEF Protected
    <2>2. id.secret = None
      BY <1>2 DEF Unmasked
    <2> QED
      BY <1>1, <2>1, <2>2 DEF Renames, V1, Unmasked, Identities, Forms
  <1>3. CASE id.form = "v0" /\ id.key \notin keys
    <2>1. Protected(id, keys, b) = Legacy(id.key, b)
      BY <1>3 DEF Protected
    <2>2. id.secret = None
      BY <1>3 DEF Unmasked
    <2> QED
      BY <1>1, <1>3, <2>1, <2>2 DEF Renames, Legacy, Unmasked, Identities, Forms
  <1>4. CASE id.form \in {"v1", "legacy"}
    <2>1. Protected(id, keys, b) = id
      BY <1>4 DEF Protected
    <2> QED
      BY <1>1, <1>4, <2>1 DEF Renames
  <1> QED
    BY <1>1, <1>2, <1>3, <1>4 DEF Forms

\* A reconciliation renames a row within its credential, and once.
LEMMA ResolvedRenames ==
  ASSUME NEW r \in Rows, NEW b \in Secrets, NEW keys, NEW markers
  PROVE  LET id == Resolved(r.id, markers, keys, b) IN
         /\ Renames(r, id, b)
         /\ id = r.id \/ id.form = "v1"
         /\ r.id.form \in {"v1", "legacy"} => id.form \in {"v1", "legacy"}
         /\ Resolved(id, markers, keys, b) = id
  <1> DEFINE id == r.id
  <1>1. id \in Identities /\ id.form \in Forms /\ id.key \in Keys
    BY RowFields
  <1>2. CASE id \in {m.id : m \in markers} /\ id = Legacy(id.key, b) /\ id.key \in keys
    <2>1. Resolved(id, markers, keys, b) = V1(id.key, b)
      BY <1>2 DEF Resolved
    <2>2. id.secret = b
      BY <1>2 DEF Legacy
    <2>3. /\ V1(id.key, b) \in Identities /\ V1(id.key, b).key = id.key
          /\ V1(id.key, b).secret = b /\ V1(id.key, b).form = "v1"
      BY <1>1 DEF V1, Identities, Forms
    <2>4. V1(id.key, b) # Legacy(V1(id.key, b).key, b)
      BY <2>3 DEF Legacy
    <2>5. Resolved(V1(id.key, b), markers, keys, b) = V1(id.key, b)
      BY <2>4 DEF Resolved
    <2> QED
      BY <2>1, <2>2, <2>3, <2>5 DEF Renames, Unmasked
  <1>3. CASE ~(id \in {m.id : m \in markers} /\ id = Legacy(id.key, b) /\ id.key \in keys)
    <2>1. Resolved(id, markers, keys, b) = id
      BY <1>3 DEF Resolved
    <2> QED
      BY <1>1, <2>1 DEF Renames
  <1> QED
    BY <1>2, <1>3

\* While rows are rewritten: what was rewritten is protected, and the restrictions that
\* only a marker will enforce have one, those still to be rewritten as well.
Rewriting(data, todo, unproven, keys, t) ==
  /\ \A r \in data.rows : r.nr \notin todo => r.id.form \in {"v1", "legacy"}
  /\ Marked(data.rows, data.bound, unproven, t)
  /\ \A r \in data.rows :
       Restricts(r, t) /\ ~r.alias /\ r.id.form = "v0" /\ r.id.key \notin keys
         => Tag(r, Legacy(r.id.key, data.bound)) \in unproven
  /\ \A m \in unproven : m \in Markers /\ m.id.secret = data.bound

\* As time passes, fewer restrictions wait for a marker.
LEMMA RewritingLater ==
  ASSUME NEW data, data.rows \subseteq Rows, NEW todo, NEW unproven, NEW keys,
         NEW t \in Nat, NEW u \in Nat, t <= u, Rewriting(data, todo, unproven, keys, t)
  PROVE  Rewriting(data, todo, unproven, keys, u)
  <1>1. Marked(data.rows, data.bound, unproven, u)
    BY MarkedLater DEF Rewriting
  <1>2. \A r \in data.rows : Restricts(r, u) => Restricts(r, t)
    BY RestrictsEarlier
  <1> QED
    BY <1>1, <1>2 DEF Rewriting

\* As time passes, fewer restrictions need another column.
LEMMA KnownLater ==
  ASSUME NEW rows \in SUBSET Rows, NEW t \in Nat, NEW u \in Nat, t <= u, Known(rows, t)
  PROVE  Known(rows, u)
  BY RestrictsEarlier DEF Known

\* A sound file stays sound as time passes.
LEMMA SoundLater ==
  ASSUME NEW data, NEW file, NEW released, NEW t \in Nat, NEW u \in Nat, t <= u,
         Sound(data, file, released, t)
  PROVE  Sound(data, file, released, u)
  <1>1. data.rows \in SUBSET Rows
    BY DEF Sound, Orderly, Database
  <1>2. Marked(data.rows, data.bound, data.markers, u)
    BY <1>1, MarkedLater DEF Sound
  <1> QED
    BY <1>2 DEF Sound

\* The rewrite of a row by the upgrade.
Protecting(data, old, keys) ==
  [data EXCEPT !.rows = With(data.rows, old,
                             [old EXCEPT !.id = Protected(old.id, keys, data.bound)])]

Progress(data, file, released, todo, unproven, keys, t) ==
  /\ Orderly(data, file) /\ InSeconds(data.rows) /\ Canonized(data.rows) /\ Merged(data.rows)
  /\ Kept(data.rows, data.bound, file, released)
  /\ Rewriting(data, todo, unproven, keys, t)

\* One row rewritten by the upgrade is progress.
LEMMA ProtectingKeeps ==
  ASSUME NEW file, Left(file), NEW data, NEW released, NEW old \in data.rows, NEW todo,
         NEW unproven, NEW keys, NEW t \in Nat,
         Progress(data, file, released, todo, unproven, keys, t)
  PROVE  LET after == Protecting(data, old, keys) IN
         /\ Progress(after, file, released, todo \ {old.nr}, unproven, keys, t)
         /\ after.bound = data.bound
  <1> DEFINE id == Protected(old.id, keys, data.bound)
             new == [old EXCEPT !.id = id]
             rows == With(data.rows, old, new)
             after == [data EXCEPT !.rows = rows]
  <1>0. /\ Orderly(data, file) /\ InSeconds(data.rows) /\ Canonized(data.rows)
        /\ Merged(data.rows) /\ Kept(data.rows, data.bound, file, released)
        /\ Rewriting(data, todo, unproven, keys, t)
    BY DEF Progress
  <1>1. old \in Rows /\ data.bound \in Secrets /\ (old.id.secret = None <=> old.id.form \in Unmasked)
    BY <1>0 DEF Orderly, Database
  <1>2. /\ Renames(old, id, data.bound) /\ id.form \in {"v1", "legacy"}
        /\ id.form = "legacy" => \/ id = old.id
                                 \/ /\ old.id.form = "v0" /\ old.id.key \notin keys
                                    /\ id = Legacy(old.id.key, data.bound)
    BY <1>1, ProtectedRenames
  <1> HIDE DEF id
  <1>3. /\ rows \subseteq (data.rows \ {old}) \cup {new}
        /\ new.nr = old.nr /\ new.id = id /\ new.alias = old.alias
        /\ Canonical(new) = Canonical(old)
        /\ \A u \in Nat : Restricts(new, u) <=> Restricts(old, u)
        /\ Orderly([data EXCEPT !.rows = rows], file)
        /\ InSeconds(rows) /\ Canonized(rows) /\ Merged(rows)
        /\ Kept(rows, data.bound, file, released)
    BY <1>0, <1>2, RenamingKeeps
  <1>4. after.rows = rows /\ after.bound = data.bound
    BY <1>0 DEF Orderly, Database
  <1> HIDE DEF rows, new, after
  <1>5. Numbered(data.rows)
    BY <1>0 DEF Orderly
  <1>6. Marked(rows, data.bound, unproven, t)
    <2> SUFFICES ASSUME NEW x \in rows, Orphan(x, data.bound, t)
                 PROVE  Tag(x, x.id) \in unproven
      BY DEF Marked
    <2>1. CASE x \in data.rows
      BY <1>0, <2>1 DEF Rewriting, Marked
    <2>2. CASE x = new
      <3>1. Restricts(old, t) /\ ~old.alias /\ id.form = "legacy" /\ Tag(x, x.id) = Tag(old, id)
        BY <1>3, <2>2 DEF Orphan, Tag
      <3>2. CASE id = old.id
        BY <1>0, <1>3, <2>2, <3>1, <3>2 DEF Orphan, Rewriting, Marked
      <3>3. CASE id # old.id
        BY <1>0, <1>2, <3>1, <3>3 DEF Rewriting
      <3> QED
        BY <3>2, <3>3
    <2> QED
      BY <1>3, <2>1, <2>2
  <1>7. ASSUME NEW x \in rows, x.nr \notin todo \ {old.nr}
        PROVE  x.id.form \in {"v1", "legacy"}
    <2>1. CASE x = new
      BY <1>2, <1>3, <2>1
    <2>2. CASE x # new
      <3>1. x \in data.rows /\ x # old
        BY <1>3, <2>2
      <3>2. x.nr # old.nr
        BY <1>5, <3>1 DEF Numbered
      <3> QED
        BY <1>0, <1>7, <3>1, <3>2 DEF Rewriting
    <2> QED
      BY <2>1, <2>2
  <1>8. ASSUME NEW x \in rows, Restricts(x, t), ~x.alias, x.id.form = "v0", x.id.key \notin keys
        PROVE  Tag(x, Legacy(x.id.key, data.bound)) \in unproven
    <2>1. x # new
      BY <1>2, <1>3, <1>8
    <2> QED
      BY <1>0, <1>3, <1>8, <2>1 DEF Rewriting
  <1>9. Rewriting(after, todo \ {old.nr}, unproven, keys, t)
    BY <1>0, <1>4, <1>6, <1>7, <1>8 DEF Rewriting
  <1>10. Progress(after, file, released, todo \ {old.nr}, unproven, keys, t)
    BY <1>3, <1>4, <1>9 DEF Progress, after
  <1>11. after = Protecting(data, old, keys)
    BY DEF after, rows, new, id, Protecting
  <1> QED
    BY <1>4, <1>10, <1>11

\* The rewrite of a row by the reconciliation: it resolves legacy forms and makes none.
Resolving(data, old, markers, keys) ==
  [data EXCEPT !.rows = With(data.rows, old,
                             [old EXCEPT !.id = Resolved(old.id, markers, keys, data.bound)])]

\* As seen by the file and by the processes that have read markers.
Follows(new, data, file, released, t) ==
  /\ Sound(new, file, released, t)
  /\ new.bound = data.bound /\ new.version = data.version
  /\ new.reservations = data.reservations /\ new.markers = data.markers
  /\ \A more : Marked(data.rows, data.bound, more, t) => Marked(new.rows, data.bound, more, t)

\* One row rewritten by the reconciliation leaves a sound file sound, and is resolved.
LEMMA ResolvingKeeps ==
  ASSUME NEW file, Left(file), NEW data, NEW released, NEW t \in Nat,
         Sound(data, file, released, t), NEW old \in data.rows, NEW markers, NEW keys
  PROVE  LET new == Resolving(data, old, markers, keys) IN
         /\ Follows(new, data, file, released, t)
         /\ \A x \in new.rows :
              \/ x \in data.rows /\ x.nr # old.nr
              \/ Resolved(x.id, markers, keys, data.bound) = x.id
  <1> DEFINE id == Resolved(old.id, markers, keys, data.bound)
             new == [old EXCEPT !.id = id]
             rows == With(data.rows, old, new)
             after == [data EXCEPT !.rows = rows]
  <1>1. /\ old \in Rows /\ data.bound \in Secrets /\ Numbered(data.rows)
        /\ Orderly(data, file) /\ data \in Database
    BY DEF Sound, Orderly, Database
  <1>2. /\ Renames(old, id, data.bound)
        /\ id = old.id \/ id.form = "v1"
        /\ old.id.form \in {"v1", "legacy"} => id.form \in {"v1", "legacy"}
        /\ Resolved(id, markers, keys, data.bound) = id
    BY <1>1, ResolvedRenames
  <1> HIDE DEF id
  <1>3. /\ rows \subseteq (data.rows \ {old}) \cup {new}
        /\ new.nr = old.nr /\ new.id = id /\ new.alias = old.alias
        /\ Canonical(new) = Canonical(old)
        /\ \A u \in Nat : Restricts(new, u) <=> Restricts(old, u)
        /\ Orderly([data EXCEPT !.rows = rows], file)
        /\ InSeconds(rows) /\ Canonized(rows) /\ Merged(rows)
        /\ Kept(rows, data.bound, file, released)
    BY <1>1, <1>2, RenamingKeeps DEF Sound
  <1>4. /\ after.rows = rows /\ after.bound = data.bound /\ after.version = data.version
        /\ after.reservations = data.reservations /\ after.markers = data.markers
    BY <1>1 DEF Database
  <1> HIDE DEF rows, new, after
  <1>5. ASSUME NEW more, Marked(data.rows, data.bound, more, t)
        PROVE  Marked(rows, data.bound, more, t)
    <2> SUFFICES ASSUME NEW x \in rows, Orphan(x, data.bound, t)
                 PROVE  Tag(x, x.id) \in more
      BY DEF Marked
    <2>1. CASE x \in data.rows
      BY <1>5, <2>1 DEF Marked
    <2>2. CASE x = new
      <3>1. id = old.id
        BY <1>2, <1>3, <2>2 DEF Orphan
      <3>2. Orphan(old, data.bound, t) /\ Tag(x, x.id) = Tag(old, old.id)
        BY <1>3, <2>2, <3>1 DEF Orphan, Tag
      <3> QED
        BY <1>5, <3>2 DEF Marked
    <2> QED
      BY <1>3, <2>1, <2>2
  <1>6. Masked(rows)
    BY <1>2, <1>3 DEF Masked, Sound
  <1>7. \A x \in rows : \/ x \in data.rows /\ x.nr # old.nr
                        \/ Resolved(x.id, markers, keys, data.bound) = x.id
    <2> TAKE x \in rows
    <2>1. CASE x = new
      BY <1>2, <1>3, <2>1
    <2>2. CASE x # new
      BY <1>1, <1>3, <2>2 DEF Numbered
    <2> QED
      BY <2>1, <2>2
  <1>8. Orderly(after, file)
    BY <1>3 DEF after
  <1>9. Sound(after, file, released, t)
    BY <1>3, <1>4, <1>5, <1>6, <1>8 DEF Sound
  <1>10. Follows(after, data, file, released, t)
    BY <1>4, <1>5, <1>9 DEF Follows
  <1>11. after = Resolving(data, old, markers, keys)
    BY DEF after, rows, new, id, Resolving
  <1> QED
    BY <1>4, <1>7, <1>10, <1>11

-----------------------------------------------------------------------------
(* The invariant                                                           *)

Places == {"closed", "upgrade", "verify", "markers", "reconcile", "open"}
Views == [version : Nat, markers : SUBSET Markers, keys : SUBSET Keys]
Stages == {"secret", "write", "resets", "reservations", "providers", "identities",
           "rewrite", "version"}
Transactions == [owner : Processes, stage : Stages, db : Database, from : Nat,
                 todo : SUBSET Nat, unproven : SUBSET Markers]

Typed ==
  /\ now \in Nat /\ now >= 1 /\ configured \subseteq Keys
  /\ secretFile \in Secrets \cup {None, Partial}
  /\ cached \in [Processes -> Secrets \cup {None}]
  /\ pc \in [Processes -> Places] /\ seen \in [Processes -> Views]
  /\ tx = NoTx \/ tx \in Transactions

\* The file is untouched, or sound.
FileInv ==
  /\ Left(original)
  /\ ~Upgraded => db = original
  /\ Upgraded => Sound(db, original, lifted, now)

\* The markers a process has read are those of all restrictions in force that need one,
\* although they may have been reduced since.
Covers(rows, b, file, markers, t) ==
  /\ Marked(rows, b, markers, t)
  /\ \A m \in markers : m.id.secret = b \/ \E q \in file.rows : q.id = m.id

\* A process past the verification holds the secret of the file.
PlaceOK(place, secret, view) ==
  /\ place \notin {"closed", "upgrade"} => Upgraded
  /\ place \in {"markers", "reconcile", "open"} => secret = db.bound
  /\ place = "reconcile" => Covers(db.rows, db.bound, original, view.markers, now)

ProcInv == \A p \in Processes : PlaceOK(pc[p], cached[p], seen[p])

\* Before the rewrite: in an old file every restriction in force has a name that the
\* rewrite can protect or another column; a file of version 3 has its markers already.
Prepared(data, file, t) ==
  IF file.version < 3 THEN Known(data.rows, t)
  ELSE Masked(data.rows) /\ Marked(data.rows, data.bound, data.markers, t)

\* What each stage of an upgrade finds in the copy.
Staged(stage, data, file, released, t) ==
  /\ stage \in {"secret", "write"} => data = file
  /\ stage \notin {"secret", "write"} => Orderly(data, file)
  /\ stage = "resets" => data.rows = file.rows
  /\ stage \in {"resets", "reservations", "providers", "identities"} => Prepared(data, file, t)
  /\ stage \in {"reservations", "providers", "identities", "rewrite", "version"}
       => InSeconds(data.rows) /\ Kept(data.rows, data.bound, file, released)
  /\ stage \in {"identities", "rewrite", "version"} => Canonized(data.rows) /\ Merged(data.rows)
  /\ stage = "version"
       => Masked(data.rows) /\ Marked(data.rows, data.bound, data.markers, t)

UpgradeOK ==
  LET p == tx.owner IN
  /\ pc[p] = "upgrade" /\ ~Upgraded /\ tx.from = original.version
  /\ Staged(tx.stage, tx.db, original, lifted, now)
  /\ tx.stage \notin {"secret", "write", "version"} /\ original.version < 3
       => cached[p] = tx.db.bound
  /\ tx.stage = "rewrite"
       => original.version < 3 /\ Rewriting(tx.db, tx.todo, tx.unproven, seen[p].keys, now)

ReconcileOK ==
  LET p == tx.owner IN
  /\ pc[p] = "reconcile" /\ Upgraded /\ tx.stage = "rewrite"
  /\ Sound(tx.db, original, lifted, now)
  /\ tx.db.bound = db.bound /\ tx.db.version = Current
  /\ tx.db.reservations = db.reservations /\ tx.db.markers = db.markers
  /\ \A r \in tx.db.rows :
       r.nr \in tx.todo \/ Resolved(r.id, seen[p].markers, seen[p].keys, db.bound) = r.id
  /\ \A q \in Processes :
       pc[q] = "reconcile" => Marked(tx.db.rows, db.bound, seen[q].markers, now)

TxInv == tx # NoTx => UpgradeOK \/ ReconcileOK

IInv == Typed /\ FileInv /\ ProcInv /\ TxInv

\* What a stage finds stays true as time passes.
LEMMA StagedLater ==
  ASSUME NEW stage, NEW data, data.rows \subseteq Rows, NEW file, NEW released,
         NEW t \in Nat, NEW u \in Nat, t <= u, Staged(stage, data, file, released, t)
  PROVE  Staged(stage, data, file, released, u)
  <1>1. Prepared(data, file, t) => Prepared(data, file, u)
    BY KnownLater, MarkedLater DEF Prepared
  <1>2. Marked(data.rows, data.bound, data.markers, t)
          => Marked(data.rows, data.bound, data.markers, u)
    BY MarkedLater
  <1> QED
    BY <1>1, <1>2 DEF Staged

\* What the types say of the rows, for the file, its copy and the original.
LEMMA Rowed ==
  ASSUME IInv
  PROVE  /\ db.rows \subseteq Rows /\ original.rows \subseteq Rows
         /\ db \in Database /\ original \in Database
         /\ tx # NoTx => /\ tx \in Transactions /\ tx.owner \in Processes /\ tx.stage \in Stages
                         /\ tx.db \in Database /\ tx.db.rows \subseteq Rows
  <1>1. original \in Database
    BY DEF IInv, FileInv, Left
  <1>2. db \in Database
    BY <1>1 DEF IInv, FileInv, Sound, Orderly
  <1>3. tx # NoTx => tx \in Transactions /\ tx.owner \in Processes /\ tx.stage \in Stages
                     /\ tx.db \in Database
    BY DEF IInv, Typed, Transactions
  <1> QED
    BY <1>1, <1>2, <1>3 DEF Database

\* Time and what happens to the environment disturb nothing.
LEMMA EnvironmentStep ==
  ASSUME IInv, now' \in Nat, now <= now', configured' \subseteq Keys,
         secretFile' \in Secrets \cup {None, Partial}, UNCHANGED << db, procs, tx, history >>
  PROVE  IInv'
  <1>1. now \in Nat /\ now >= 1 /\ db.rows \subseteq Rows
    BY Rowed DEF IInv, Typed
  <1>2. Typed'
    BY <1>1 DEF IInv, Typed, procs
  <1>3. FileInv'
    <2>1. Sound(db, original, lifted, now) => Sound(db, original, lifted, now')
      BY <1>1, SoundLater
    <2> QED
      BY <2>1 DEF IInv, FileInv, Upgraded, history
  <1>4. ProcInv'
    <2>1. \A markers : Covers(db.rows, db.bound, original, markers, now)
                         => Covers(db.rows, db.bound, original, markers, now')
      BY <1>1, MarkedLater DEF Covers
    <2> QED
      BY <2>1 DEF IInv, ProcInv, PlaceOK, Upgraded, procs, history
  <1>5. TxInv'
    <2> SUFFICES ASSUME tx # NoTx
                 PROVE  UpgradeOK' \/ ReconcileOK'
      BY DEF TxInv
    <2>1. tx.db.rows \subseteq Rows
      BY Rowed
    <2>2. CASE UpgradeOK
      <3>1. Staged(tx.stage, tx.db, original, lifted, now')
        BY <1>1, <2>1, <2>2, StagedLater DEF UpgradeOK
      <3>2. tx.stage = "rewrite"
              => Rewriting(tx.db, tx.todo, tx.unproven, seen[tx.owner].keys, now')
        BY <1>1, <2>1, <2>2, RewritingLater DEF UpgradeOK
      <3> QED
        BY <2>2, <3>1, <3>2 DEF UpgradeOK, Upgraded, procs, history
    <2>3. CASE ReconcileOK
      <3>1. Sound(tx.db, original, lifted, now')
        BY <1>1, <2>3, SoundLater DEF ReconcileOK
      <3>2. \A markers : Marked(tx.db.rows, db.bound, markers, now)
                           => Marked(tx.db.rows, db.bound, markers, now')
        BY <1>1, <2>1, MarkedLater
      <3> QED
        BY <2>3, <3>1, <3>2 DEF ReconcileOK, Upgraded, procs, history
    <2> QED
      BY <2>2, <2>3 DEF IInv, TxInv
  <1> QED
    BY <1>2, <1>3, <1>4, <1>5 DEF IInv

\* A process moves; the transaction under way goes on, if it is another's, or is
\* abandoned.
LEMMA LocalStep ==
  ASSUME IInv, NEW p \in Processes,
         NEW place \in Places, NEW secret \in Secrets \cup {None}, NEW view \in Views,
         pc' = [pc EXCEPT ![p] = place], cached' = [cached EXCEPT ![p] = secret],
         seen' = [seen EXCEPT ![p] = view], UNCHANGED << db, env, history >>,
         tx' = NoTx \/ (tx' = tx /\ tx.owner # p),
         PlaceOK(place, secret, view), place = "reconcile" => view.markers = db.markers
  PROVE  IInv'
  <1>1. Typed'
    BY DEF IInv, Typed, env
  <1>2. FileInv'
    BY DEF IInv, FileInv, Upgraded, env, history
  <1>3. ASSUME NEW q \in Processes
        PROVE  /\ q = p => pc'[q] = place /\ cached'[q] = secret /\ seen'[q] = view
               /\ q # p => pc'[q] = pc[q] /\ cached'[q] = cached[q] /\ seen'[q] = seen[q]
    BY DEF IInv, Typed
  <1>4. ProcInv'
    BY <1>3 DEF IInv, ProcInv, PlaceOK, Upgraded, env, history
  <1>5. TxInv'
    <2> SUFFICES ASSUME tx' # NoTx
                 PROVE  UpgradeOK' \/ ReconcileOK'
      BY DEF TxInv
    <2>1. tx' = tx /\ tx.owner \in Processes /\ tx.owner # p /\ tx # NoTx
      BY Rowed
    <2>2. /\ pc'[tx.owner] = pc[tx.owner] /\ cached'[tx.owner] = cached[tx.owner]
          /\ seen'[tx.owner] = seen[tx.owner]
      BY <1>3, <2>1
    <2>3. CASE UpgradeOK
      BY <2>1, <2>2, <2>3 DEF UpgradeOK, Upgraded, env, history
    <2>4. CASE ReconcileOK
      <3>1. Marked(tx.db.rows, db.bound, db.markers, now)
        BY <2>4 DEF ReconcileOK, Sound
      <3>2. \A q \in Processes :
              pc'[q] = "reconcile" => Marked(tx.db.rows, db.bound, seen'[q].markers, now)
        BY <1>3, <2>4, <3>1 DEF ReconcileOK
      <3> QED
        BY <2>1, <2>2, <2>4, <3>2 DEF ReconcileOK, Upgraded, env, history
    <2> QED
      BY <2>1, <2>3, <2>4 DEF IInv, TxInv
  <1> QED
    BY <1>1, <1>2, <1>4, <1>5 DEF IInv

\* The owner of the transaction goes on with its upgrade.
LEMMA UpgradeStep ==
  ASSUME IInv, NEW p \in Processes, pc[p] = "upgrade", ~Upgraded,
         pc' = pc, cached' \in [Processes -> Secrets \cup {None}],
         seen' \in [Processes -> Views], UNCHANGED << db, configured, now, history >>,
         secretFile' \in Secrets \cup {None, Partial},
         tx' \in Transactions, tx'.owner = p, UpgradeOK'
  PROVE  IInv'
  <1>1. Typed'
    BY DEF IInv, Typed
  <1>2. FileInv'
    BY DEF IInv, FileInv, Upgraded, history
  <1>3. ProcInv'
    BY DEF IInv, ProcInv, PlaceOK, Upgraded, history
  <1> QED
    BY <1>1, <1>2, <1>3 DEF IInv, TxInv

-----------------------------------------------------------------------------
(* Processes                                                               *)

\* Who owns the transaction is upgrading or reconciling.
LEMMA Owning ==
  ASSUME IInv, NEW p \in Processes, tx.owner = p
  PROVE  /\ tx # NoTx /\ tx \in Transactions /\ tx.stage \in Stages /\ tx.db \in Database
         /\ \/ UpgradeOK /\ pc[p] = "upgrade"
            \/ ReconcileOK /\ pc[p] = "reconcile" /\ tx.stage = "rewrite"
  <1>1. tx # NoTx
    BY ConstantsAssumption DEF NoTx
  <1> QED
    BY <1>1, Rowed DEF IInv, TxInv, UpgradeOK, ReconcileOK

\* What a process finds as its secret is one, or nothing.
LEMMA SecretType ==
  ASSUME IInv, NEW p \in Processes
  PROVE  Secret(p) \in Secrets \cup {None}
  BY DEF IInv, Typed, Secret

\* A process closes, in the middle of a transaction or not.
LEMMA ClosingStep ==
  ASSUME IInv, NEW p \in Processes, NEW secret \in Secrets \cup {None},
         pc' = [pc EXCEPT ![p] = "closed"], cached' = [cached EXCEPT ![p] = secret],
         seen' = [seen EXCEPT ![p] = Unread],
         tx' = IF tx.owner = p THEN NoTx ELSE tx, UNCHANGED << db, env, history >>
  PROVE  IInv'
  <1>1. "closed" \in Places /\ Unread \in Views
    BY DEF Places, Views, Unread, Markers
  <1>2. PlaceOK("closed", secret, Unread)
    BY DEF PlaceOK
  <1>3. tx' = NoTx \/ (tx' = tx /\ tx.owner # p)
    OBVIOUS
  <1> QED
    BY <1>1, <1>2, <1>3, LocalStep

\* A process that changes nothing of its own, in the form EXCEPT has.
LEMMA Unchanged ==
  ASSUME IInv, NEW p \in Processes
  PROVE  /\ cached = [cached EXCEPT ![p] = cached[p]] /\ cached[p] \in Secrets \cup {None}
         /\ seen = [seen EXCEPT ![p] = seen[p]] /\ seen[p] \in Views
         /\ pc[p] \in Places
  BY DEF IInv, Typed

\* A failure or a crash discards the copy and leaves the file as it was.
LEMMA FailStep ==
  ASSUME IInv, NEW p \in Processes, Fail(p) \/ Crash(p)
  PROVE  IInv'
  <1>1. CASE Fail(p)
    BY <1>1, Unchanged, ClosingStep DEF Fail, Goto
  <1>2. CASE Crash(p)
    BY <1>2, ClosingStep DEF Crash, Goto, Cache
  <1> QED
    BY <1>1, <1>2

\* An opening that finds the file current verifies it, and upgrades it otherwise.
LEMMA ReadVersionStep ==
  ASSUME IInv, NEW p \in Processes, ReadVersion(p)
  PROVE  IInv'
  <1> DEFINE place == IF db.version = Current THEN "verify" ELSE "upgrade"
             view == [seen[p] EXCEPT !.version = db.version]
  <1>1. place \in Places /\ view \in Views /\ PlaceOK(place, cached[p], view)
    <2>1. db.version \in Nat
      BY Rowed DEF Database
    <2>2. view \in Views
      BY <2>1, Unchanged DEF Views
    <2> QED
      BY <2>2 DEF Places, PlaceOK, Upgraded
  <1>2. tx = NoTx \/ tx.owner # p
    BY Owning DEF ReadVersion
  <1>3. /\ pc' = [pc EXCEPT ![p] = place] /\ seen' = [seen EXCEPT ![p] = view]
        /\ cached' = [cached EXCEPT ![p] = cached[p]] /\ tx' = tx
        /\ UNCHANGED << db, env, history >> /\ place # "reconcile"
    BY Unchanged DEF ReadVersion, Goto
  <1> HIDE DEF place, view
  <1> QED
    BY <1>1, <1>2, <1>3, Unchanged, LocalStep

\* After the verification a process holds the secret of the file.
LEMMA VerifyBindingStep ==
  ASSUME IInv, NEW p \in Processes, VerifyBinding(p)
  PROVE  IInv'
  <1>1. CASE db.bound # None /\ Secret(p) = db.bound
    <2>1. PlaceOK("markers", Secret(p), seen[p])
      BY <1>1 DEF VerifyBinding, IInv, ProcInv, PlaceOK
    <2>2. tx = NoTx \/ tx.owner # p
      BY Owning DEF VerifyBinding
    <2>3. /\ pc' = [pc EXCEPT ![p] = "markers"] /\ cached' = [cached EXCEPT ![p] = Secret(p)]
          /\ seen' = [seen EXCEPT ![p] = seen[p]] /\ tx' = tx /\ UNCHANGED << db, env, history >>
      BY <1>1, Unchanged DEF VerifyBinding, Goto, Cache
    <2>4. "markers" \in Places
      BY DEF Places
    <2> QED
      BY <2>1, <2>2, <2>3, <2>4, SecretType, Unchanged, LocalStep
  <1>2. CASE ~(db.bound # None /\ Secret(p) = db.bound)
    BY <1>2, SecretType, ClosingStep DEF VerifyBinding, Refuse, Goto, Cache
  <1> QED
    BY <1>1, <1>2

\* The markers read are those of every restriction that needs one now.
LEMMA LoadMarkersStep ==
  ASSUME IInv, NEW p \in Processes, LoadMarkers(p)
  PROVE  IInv'
  <1>1. Upgraded /\ cached[p] = db.bound
    BY DEF LoadMarkers, IInv, ProcInv, PlaceOK
  <1>2. tx = NoTx \/ tx.owner # p
    BY Owning DEF LoadMarkers
  <1>3. CASE db.markers = {}
    <2>1. "open" \in Places /\ Unread \in Views /\ PlaceOK("open", cached[p], Unread)
      BY <1>1 DEF Places, Views, Unread, PlaceOK
    <2> QED
      BY <1>2, <1>3, <2>1, Unchanged, LocalStep DEF LoadMarkers, Goto
  <1>4. CASE db.markers # {}
    <2> DEFINE view == [version |-> 0, markers |-> db.markers, keys |-> configured]
    <2>1. view \in Views /\ view.markers = db.markers
      BY Rowed DEF Views, Database, IInv, Typed
    <2>2. Covers(db.rows, db.bound, original, db.markers, now)
      BY <1>1 DEF IInv, FileInv, Sound, Orderly, Covers
    <2>3. "reconcile" \in Places /\ PlaceOK("reconcile", cached[p], view)
      BY <1>1, <2>1, <2>2 DEF Places, PlaceOK
    <2>4. /\ pc' = [pc EXCEPT ![p] = "reconcile"] /\ seen' = [seen EXCEPT ![p] = view]
          /\ cached' = [cached EXCEPT ![p] = cached[p]] /\ tx' = tx
          /\ UNCHANGED << db, env, history >>
      BY <1>4, Unchanged DEF LoadMarkers, Goto
    <2> HIDE DEF view
    <2> QED
      BY <1>2, <2>1, <2>3, <2>4, Unchanged, LocalStep
  <1> QED
    BY <1>3, <1>4

\* Closing the store leaves the file alone.
LEMMA CloseStep ==
  ASSUME IInv, NEW p \in Processes, Close(p)
  PROVE  IInv'
  <1>1. "closed" \in Places /\ PlaceOK("closed", cached[p], seen[p])
    BY DEF Places, PlaceOK
  <1>2. tx = NoTx \/ tx.owner # p
    BY Owning DEF Close
  <1>3. /\ pc' = [pc EXCEPT ![p] = "closed"] /\ cached' = [cached EXCEPT ![p] = cached[p]]
        /\ seen' = [seen EXCEPT ![p] = seen[p]] /\ tx' = tx /\ UNCHANGED << db, env, history >>
    BY Unchanged DEF Close, Goto
  <1> QED
    BY <1>1, <1>2, <1>3, Unchanged, LocalStep

-----------------------------------------------------------------------------
(* The steps of an upgrade                                                 *)

\* A stage may be entered when the copy is what it expects.
LEMMA EnterStep ==
  ASSUME IInv, NEW p \in Processes, tx.owner = p, pc[p] = "upgrade",
         NEW stage \in Stages \ {"rewrite"}, NEW data \in Database, Enter(stage, data),
         Staged(stage, data, original, lifted, now),
         stage \notin {"secret", "write", "version"} /\ original.version < 3
           => cached'[p] = data.bound,
         cached' \in [Processes -> Secrets \cup {None}],
         secretFile' \in Secrets \cup {None, Partial},
         UNCHANGED << db, configured, now, pc, seen, history >>
  PROVE  IInv'
  <1>1. tx \in Transactions /\ UpgradeOK
    BY Owning
  <1>2. /\ tx' \in Transactions /\ tx'.owner = p /\ tx'.stage = stage /\ tx'.db = data
        /\ tx'.from = tx.from
    BY <1>1 DEF Enter, Transactions
  <1>3. ~Upgraded /\ tx.from = original.version
    BY <1>1 DEF UpgradeOK
  <1>4. UpgradeOK'
    BY <1>2, <1>3 DEF UpgradeOK, Upgraded, history
  <1>5. seen' \in [Processes -> Views]
    BY DEF IInv, Typed
  <1> QED
    BY <1>2, <1>3, <1>4, <1>5, UpgradeStep

\* What an upgrade finds at a stage.
LEMMA AtStage ==
  ASSUME IInv, NEW p \in Processes, NEW stage, In(p, stage), stage # "rewrite"
  PROVE  /\ tx.owner = p /\ tx.stage = stage /\ pc[p] = "upgrade" /\ ~Upgraded
         /\ tx.from = original.version /\ tx.db \in Database /\ stage \in Stages
         /\ Staged(stage, tx.db, original, lifted, now)
         /\ stage \notin {"secret", "write", "version"} /\ original.version < 3
              => cached[p] = tx.db.bound
         /\ Left(original) /\ original \in Database
         /\ cached \in [Processes -> Secrets \cup {None}]
         /\ secretFile \in Secrets \cup {None, Partial}
         /\ now \in Nat /\ now >= 1
  <1>1. tx.owner = p /\ tx.stage = stage
    BY DEF In
  <1>2. tx.db \in Database /\ UpgradeOK /\ pc[p] = "upgrade" /\ stage \in Stages
    BY <1>1, Owning
  <1>3. /\ Left(original) /\ original \in Database
        /\ cached \in [Processes -> Secrets \cup {None}]
        /\ secretFile \in Secrets \cup {None, Partial}
        /\ now \in Nat /\ now >= 1
    BY Rowed DEF IInv, FileInv, Typed
  <1> QED
    BY <1>1, <1>2, <1>3 DEF UpgradeOK

\* The copy begins as the file, which is untouched if it is old.
LEMMA BeginStep ==
  ASSUME IInv, NEW p \in Processes, Begin(p)
  PROVE  IInv'
  <1>1. CASE db.version = Current
    <2>1. PlaceOK("verify", cached[p], seen[p]) /\ "verify" \in Places
      BY <1>1 DEF PlaceOK, Upgraded, Places
    <2>2. /\ pc' = [pc EXCEPT ![p] = "verify"] /\ cached' = [cached EXCEPT ![p] = cached[p]]
          /\ seen' = [seen EXCEPT ![p] = seen[p]] /\ tx' = tx /\ tx = NoTx
          /\ UNCHANGED << db, env, history >>
      BY <1>1, Unchanged DEF Begin, Goto, Idle
    <2> QED
      BY <2>1, <2>2, Unchanged, LocalStep
  <1>2. CASE db.version # Current
    <2>1. /\ pc[p] = "upgrade" /\ pc' = pc /\ UNCHANGED << db, env, cached, seen, history >>
          /\ tx' = [owner |-> p, stage |-> "secret", db |-> db, from |-> db.version,
                    todo |-> {}, unproven |-> {}]
      BY <1>2 DEF Begin, Upgrading
    <2>2. ~Upgraded /\ db = original /\ db \in Database /\ db.version \in Nat
      BY <1>2, Rowed DEF IInv, FileInv, Upgraded, Database
    <2>3. tx' \in Transactions /\ tx'.owner = p /\ tx'.stage = "secret" /\ tx'.db = db
          /\ tx'.from = db.version
      BY <2>1, <2>2 DEF Transactions, Stages
    <2>4. UpgradeOK'
      BY <2>1, <2>2, <2>3 DEF UpgradeOK, Upgraded, Staged, history
    <2>5. /\ cached' \in [Processes -> Secrets \cup {None}] /\ seen' \in [Processes -> Views]
          /\ secretFile' \in Secrets \cup {None, Partial}
      BY <2>1 DEF IInv, Typed, env
    <2>6. UNCHANGED << db, configured, now, history >>
      BY <2>1 DEF env
    <2> QED
      BY <2>1, <2>2, <2>3, <2>4, <2>5, <2>6, UpgradeStep
  <1> QED
    BY <1>1, <1>2

\* A restriction in force of an old file that only a fingerprint of unknown origin names
\* refuses the binding.
LEMMA BindingIsKnown ==
  ASSUME NEW rows, NEW s, NEW keys, NEW t,
         \A r \in rows : Restricts(r, t)
            => ~DependsOnlyOn(r, {"v1", "legacy"}, {V1(k, s) : k \in keys})
  PROVE  Known(rows, t)
  <1> SUFFICES ASSUME NEW r \in rows, Restricts(r, t), r.id.form = "legacy", ~r.alias
               PROVE  FALSE
    BY DEF Known
  <1>1. r.id \in {V1(k, s) : k \in keys}
    BY DEF DependsOnlyOn
  <1> QED
    BY <1>1 DEF V1

\* `bindAPIKeyFingerprintSecret`, with a secret at hand.
LEMMA BindSecretStep ==
  ASSUME IInv, NEW p \in Processes, BindSecret(p)
  PROVE  IInv'
  <1>1. /\ tx.owner = p /\ pc[p] = "upgrade" /\ tx.from = original.version
        /\ tx.db = original /\ original \in Database /\ Left(original)
        /\ cached \in [Processes -> Secrets \cup {None}]
        /\ secretFile \in Secrets \cup {None, Partial} /\ now \in Nat /\ now >= 1
    BY AtStage DEF BindSecret, Staged
  <1>2. original.version \in Nat /\ original.rows \subseteq Rows /\ "resets" \in Stages \ {"rewrite"}
    BY <1>1 DEF Database, Stages
  <1>3. CASE tx.from >= 3
    <2>1. Orderly(original, original)
      BY <1>1, <1>3, ConstantsAssumption, BoundFile DEF Left
    <2>2. Prepared(original, original, now)
      BY <1>1, <1>2, <1>3, MarkedLater DEF Left, Prepared
    <2>3. Staged("resets", original, original, lifted, now)
      BY <2>1, <2>2 DEF Staged
    <2>4. /\ Enter("resets", original) /\ UNCHANGED << db, configured, now, pc, seen, history >>
          /\ cached' = cached /\ secretFile' = secretFile
      BY <1>1, <1>3 DEF BindSecret, procs, env
    <2> QED
      BY <1>1, <1>2, <1>3, <2>3, <2>4, EnterStep
  <1>4. CASE ~(tx.from >= 3) /\ Binds(Secret(p))
    <2> DEFINE s == Secret(p)
               data == [original EXCEPT !.bound = s]
    <2>1. s \in Secrets /\ original.version < 3
      BY <1>1, <1>2, <1>4, SecretType DEF Binds
    <2>2. Orderly(data, original)
      BY <1>1, <2>1, BoundFile
    <2>3. data \in Database /\ data.rows = original.rows /\ data.bound = s
      BY <1>1, <2>1 DEF Database
    <2>4. Known(original.rows, now)
      <3>1. original.bound = None
        BY <1>1, <2>1 DEF Left
      <3>2. \A r \in original.rows : Restricts(r, now)
               => ~DependsOnlyOn(r, {"v1", "legacy"}, {V1(k, s) : k \in configured})
        BY <1>1, <1>4, <3>1 DEF Binds, InForce
      <3> HIDE DEF s
      <3> QED
        BY <3>2, BindingIsKnown
    <2>5. /\ Enter("resets", data) /\ cached' = [cached EXCEPT ![p] = s]
          /\ UNCHANGED << db, configured, now, pc, seen, history >> /\ secretFile' = secretFile
      BY <1>1, <1>4 DEF BindSecret, Cache, env
    <2> HIDE DEF data, s
    <2>6. Staged("resets", data, original, lifted, now)
      BY <2>1, <2>2, <2>3, <2>4 DEF Staged, Prepared
    <2>7. cached'[p] = data.bound /\ cached' \in [Processes -> Secrets \cup {None}]
      BY <1>1, <2>1, <2>3, <2>5
    <2> QED
      BY <1>1, <1>2, <2>3, <2>5, <2>6, <2>7, EnterStep
  <1>5. CASE ~(tx.from >= 3) /\ ~Binds(Secret(p))
    BY <1>5, SecretType, ClosingStep DEF BindSecret, Refuse, Goto, Cache
  <1> QED
    BY <1>3, <1>4, <1>5

\* Creating the secret file binds nothing yet; writing it binds the copy.
LEMMA SecretFileStep ==
  ASSUME IInv, NEW p \in Processes, CreateSecret(p) \/ WriteSecret(p)
  PROVE  IInv'
  <1>1. "secret" \in Stages \ {"rewrite"} /\ "write" \in Stages \ {"rewrite"}
    BY DEF Stages
  <1>2. CASE CreateSecret(p)
    <2>1. /\ tx.owner = p /\ pc[p] = "upgrade" /\ tx.db = original /\ original \in Database
          /\ cached \in [Processes -> Secrets \cup {None}]
      BY <1>2, AtStage DEF CreateSecret, Staged
    <2>2. Staged("write", original, original, lifted, now)
      BY DEF Staged
    <2>3. /\ Enter("write", original) /\ secretFile' = Partial /\ cached' = cached
          /\ UNCHANGED << db, configured, now, pc, seen, history >>
      BY <1>2, <2>1 DEF CreateSecret, procs
    <2> QED
      BY <1>1, <2>1, <2>2, <2>3, EnterStep
  <1>3. CASE WriteSecret(p)
    <2>1. /\ tx.owner = p /\ pc[p] = "upgrade" /\ tx.db = original /\ original \in Database
          /\ cached \in [Processes -> Secrets \cup {None}]
          /\ secretFile \in Secrets \cup {None, Partial}
      BY <1>3, AtStage DEF WriteSecret, Staged
    <2>2. Staged("secret", original, original, lifted, now)
      BY DEF Staged
    <2>3. /\ Enter("secret", original) /\ secretFile' \in Secrets \cup {None, Partial}
          /\ cached' \in [Processes -> Secrets \cup {None}]
          /\ UNCHANGED << db, configured, now, pc, seen, history >>
      BY <1>3, <2>1 DEF WriteSecret, Cache
    <2> QED
      BY <1>1, <2>1, <2>2, <2>3, EnterStep
  <1> QED
    BY <1>2, <1>3

\* Rows that say less are prepared for the rewrite as well.
LEMMA WeakerIsPrepared ==
  ASSUME NEW data, NEW rows, \A x \in rows : \E r \in data.rows : Weaker(x, r), NEW file,
         NEW t \in Nat, Prepared(data, file, t), NEW new,
         new.rows = rows, new.bound = data.bound, new.markers = data.markers
  PROVE  Prepared(new, file, t)
  <1>1. /\ Masked(data.rows) => Masked(rows)
        /\ Known(data.rows, t) => Known(rows, t)
        /\ Marked(data.rows, data.bound, data.markers, t)
             => Marked(rows, data.bound, data.markers, t)
    BY WeakerRows
  <1> QED
    BY <1>1 DEF Prepared

\* The stage of version 4.
LEMMA NormalizeResetsStep ==
  ASSUME IInv, NEW p \in Processes, NormalizeResets(p)
  PROVE  IInv'
  <1> DEFINE data == tx.db
             rows == Normalized(data.rows, original.version)
             new == [data EXCEPT !.rows = rows]
  <1>1. /\ tx.owner = p /\ pc[p] = "upgrade" /\ tx.from = original.version
        /\ data \in Database /\ Left(original) /\ original.version \in Nat
        /\ Orderly(data, original) /\ data.rows = original.rows /\ Prepared(data, original, now)
        /\ original.version < 3 => cached[p] = data.bound
        /\ cached \in [Processes -> Secrets \cup {None}]
        /\ secretFile \in Secrets \cup {None, Partial} /\ now \in Nat
    BY AtStage DEF NormalizeResets, Staged, Database
  <1>2. /\ Orderly(new, original) /\ InSeconds(rows) /\ Kept(rows, data.bound, original, lifted)
        /\ \A x \in rows : \E r \in data.rows : Weaker(x, r)
    BY <1>1, NormalizingEstablishes
  <1>3. /\ new.rows = rows /\ new.bound = data.bound /\ new.markers = data.markers
        /\ new \in Database
    BY <1>1, <1>2 DEF Database, Orderly
  <1>4. Enter("reservations", new)
    <2>1. CASE tx.from >= 4
      <3>1. new = data
        BY <1>1, <2>1 DEF Normalized, Database
      <3> QED
        BY <2>1, <3>1 DEF NormalizeResets
    <2>2. CASE ~(tx.from >= 4)
      BY <1>1, <2>2 DEF NormalizeResets, Normalized
    <2> QED
      BY <2>1, <2>2
  <1> HIDE DEF rows, new
  <1>5. Prepared(new, original, now)
    BY <1>1, <1>2, <1>3, WeakerIsPrepared
  <1>6. Staged("reservations", new, original, lifted, now)
    BY <1>2, <1>3, <1>5 DEF Staged
  <1>7. /\ UNCHANGED << db, configured, now, pc, seen, history >>
        /\ cached' = cached /\ secretFile' = secretFile
    BY DEF NormalizeResets, env, procs
  <1>8. "reservations" \in Stages \ {"rewrite"}
    BY DEF Stages
  <1> QED
    BY <1>1, <1>3, <1>4, <1>6, <1>7, <1>8, EnterStep

\* The stage of version 5, which no row sees.
LEMMA DiscardReservationsStep ==
  ASSUME IInv, NEW p \in Processes, DiscardReservations(p)
  PROVE  IInv'
  <1> DEFINE data == tx.db
             new == IF tx.from >= 5 THEN data ELSE [data EXCEPT !.reservations = 0]
  <1>1. /\ tx.owner = p /\ pc[p] = "upgrade" /\ data \in Database
        /\ Staged("reservations", data, original, lifted, now)
        /\ original.version < 3 => cached[p] = data.bound
        /\ cached \in [Processes -> Secrets \cup {None}]
        /\ secretFile \in Secrets \cup {None, Partial}
    BY AtStage DEF DiscardReservations
  <1>2. /\ new \in Database /\ new.rows = data.rows /\ new.bound = data.bound
        /\ new.markers = data.markers
    BY <1>1 DEF Database
  <1>3. /\ Enter("providers", new) /\ UNCHANGED << db, configured, now, pc, seen, history >>
        /\ cached' = cached /\ secretFile' = secretFile
    BY DEF DiscardReservations, env, procs
  <1> HIDE DEF new
  <1>4. Staged("providers", new, original, lifted, now)
    BY <1>1, <1>2 DEF Staged, Orderly, Prepared
  <1>5. "providers" \in Stages \ {"rewrite"}
    BY DEF Stages
  <1> QED
    BY <1>1, <1>2, <1>3, <1>4, <1>5, EnterStep

\* The stage of version 6.
LEMMA MigrateProviderKeysStep ==
  ASSUME IInv, NEW p \in Processes, MigrateProviderKeys(p)
  PROVE  IInv'
  <1> DEFINE data == tx.db
             rows == KeepBest({[r EXCEPT !.provider = Canonical(r)] : r \in data.rows})
             new == [data EXCEPT !.rows = rows]
  <1>1. /\ tx.owner = p /\ pc[p] = "upgrade" /\ data \in Database /\ Left(original)
        /\ Orderly(data, original) /\ Prepared(data, original, now)
        /\ InSeconds(data.rows) /\ Kept(data.rows, data.bound, original, lifted)
        /\ original.version < 3 => cached[p] = data.bound
        /\ cached \in [Processes -> Secrets \cup {None}]
        /\ secretFile \in Secrets \cup {None, Partial} /\ now \in Nat
    BY AtStage DEF MigrateProviderKeys, Staged
  <1>2. /\ Enter("identities", new) /\ UNCHANGED << db, configured, now, pc, seen, history >>
        /\ cached' = cached /\ secretFile' = secretFile
    BY DEF MigrateProviderKeys, env, procs
  <1>3. /\ Orderly(new, original) /\ InSeconds(rows) /\ Canonized(rows) /\ Merged(rows)
        /\ Kept(rows, data.bound, original, lifted)
        /\ \A x \in rows : \E r \in data.rows : Weaker(x, r)
    BY <1>1, MigratingEstablishes
  <1> HIDE DEF rows
  <1>4. /\ new.rows = rows /\ new.bound = data.bound /\ new.markers = data.markers
        /\ new \in Database
    BY <1>1, <1>3 DEF Database, Orderly
  <1> HIDE DEF new
  <1>5. Prepared(new, original, now)
    BY <1>1, <1>3, <1>4, WeakerIsPrepared
  <1>6. Staged("identities", new, original, lifted, now)
    BY <1>3, <1>4, <1>5 DEF Staged
  <1>7. "identities" \in Stages \ {"rewrite"}
    BY DEF Stages
  <1> QED
    BY <1>1, <1>2, <1>4, <1>6, <1>7, EnterStep

\* When the rewrite begins, the restrictions it cannot resolve are known.
LEMMA RewritingBegins ==
  ASSUME NEW data \in Database, Canonized(data.rows), NEW t, Known(data.rows, t),
         data.bound \in Secrets, NEW keys, NEW unproven,
         unproven = {Mark(r, Legacy(r.id.key, data.bound)) :
                       r \in {q \in data.rows : Restricts(q, t)
                                                  /\ DependsOnlyOn(q, {"v0"}, V0Of(keys))}}
  PROVE  Rewriting(data, {r.nr : r \in data.rows}, unproven, keys, t)
  <1>1. data.rows \subseteq Rows
    BY DEF Database
  <1>2. Marked(data.rows, data.bound, unproven, t)
    BY DEF Known, Marked, Orphan
  <1>3. ASSUME NEW r \in data.rows, Restricts(r, t), ~r.alias, r.id.form = "v0",
               r.id.key \notin keys
        PROVE  Tag(r, Legacy(r.id.key, data.bound)) \in unproven
    <2>1. r.id \notin V0Of(keys)
      BY <1>3 DEF V0Of
    <2>2. DependsOnlyOn(r, {"v0"}, V0Of(keys))
      BY <1>3, <2>1 DEF DependsOnlyOn
    <2>3. Mark(r, Legacy(r.id.key, data.bound)) = Tag(r, Legacy(r.id.key, data.bound))
      BY DEF Canonized, Mark, Tag
    <2> QED
      BY <1>3, <2>2, <2>3
  <1>4. ASSUME NEW m \in unproven
        PROVE  m \in Markers /\ m.id.secret = data.bound
    <2>1. PICK r \in data.rows : m = Mark(r, Legacy(r.id.key, data.bound))
      OBVIOUS
    <2>2. r.provider \in Spellings /\ r.id.key \in Keys
      BY <1>1, RowFields
    <2>3. Legacy(r.id.key, data.bound) \in Identities
      BY <2>2 DEF Legacy, Identities, Forms
    <2>4. m = [provider |-> r.provider, id |-> Legacy(r.id.key, data.bound)]
      BY <2>1 DEF Mark
    <2>5. m \in Markers
      BY <2>2, <2>3, <2>4, Zenon DEF Markers
    <2>6. m.id.secret = data.bound
      BY <2>4 DEF Legacy
    <2> QED
      BY <2>5, <2>6
  <1>5. \A r \in data.rows : r.nr \in {q.nr : q \in data.rows}
    OBVIOUS
  <1> QED
    BY <1>2, <1>3, <1>4, <1>5 DEF Rewriting

\* The markers of the restrictions that cannot be resolved are written first.
LEMMA BeginRewriteStep ==
  ASSUME IInv, NEW p \in Processes, BeginRewrite(p)
  PROVE  IInv'
  <1> DEFINE data == tx.db
  <1>1. /\ tx.owner = p /\ pc[p] = "upgrade" /\ ~Upgraded /\ tx.from = original.version
        /\ data \in Database /\ Staged("identities", data, original, lifted, now)
        /\ original.version < 3 => cached[p] = data.bound
        /\ cached \in [Processes -> Secrets \cup {None}]
        /\ secretFile \in Secrets \cup {None, Partial}
        /\ original.version \in Nat
    BY AtStage DEF BeginRewrite, Database
  <1>2. tx \in Transactions /\ configured \subseteq Keys /\ seen \in [Processes -> Views]
    BY <1>1, Owning DEF IInv, Typed
  <1>3. /\ UNCHANGED << db, configured, now, history >> /\ pc' = pc /\ cached' = cached
        /\ secretFile' = secretFile
    BY DEF BeginRewrite, env
  <1>4. CASE tx.from >= 3
    <2>1. /\ tx' = [tx EXCEPT !.stage = "version"] /\ seen' = [seen EXCEPT ![p].keys = {}]
      BY <1>4 DEF BeginRewrite
    <2>2. /\ tx' \in Transactions /\ tx'.owner = p /\ tx'.stage = "version" /\ tx'.db = data
          /\ tx'.from = tx.from
      BY <1>1, <1>2, <2>1 DEF Transactions, Stages
    <2>3. seen' \in [Processes -> Views]
      BY <1>2, <2>1 DEF Views
    <2>4. Staged("version", data, original, lifted, now)
      BY <1>1, <1>4 DEF Staged, Prepared
    <2>5. UpgradeOK'
      BY <1>1, <1>3, <2>2, <2>4 DEF UpgradeOK, Upgraded, history
    <2> QED
      BY <1>1, <1>3, <2>2, <2>3, <2>5, UpgradeStep
  <1>5. CASE ~(tx.from >= 3)
    <2> DEFINE todo == {r.nr : r \in data.rows}
               unproven == {Mark(r, Legacy(r.id.key, data.bound)) :
                              r \in {q \in data.rows : Restricts(q, now)
                                       /\ DependsOnlyOn(q, {"v0"}, V0Of(configured))}}
    <2>1. original.version < 3 /\ cached[p] = data.bound
      BY <1>1, <1>5
    <2>2. tx' = [tx EXCEPT !.stage = "rewrite", !.todo = todo, !.unproven = unproven]
          /\ seen' = [seen EXCEPT ![p].keys = configured]
      BY <1>5, <2>1 DEF BeginRewrite, Unproven, InForce
    <2>3. Rewriting(data, todo, unproven, configured, now)
      BY <1>1, <2>1, RewritingBegins DEF Staged, Prepared, Orderly
    <2>4. todo \subseteq Nat /\ unproven \subseteq Markers
      <3>1. \A r \in data.rows : r.nr \in Nat
        BY <1>1, RowFields DEF Database
      <3>2. unproven \subseteq Markers
        BY <2>3 DEF Rewriting
      <3> QED
        BY <3>1, <3>2
    <2> HIDE DEF todo, unproven
    <2>5. /\ tx' \in Transactions /\ tx'.owner = p /\ tx'.stage = "rewrite" /\ tx'.db = data
          /\ tx'.from = tx.from /\ tx'.todo = todo /\ tx'.unproven = unproven
      BY <1>1, <1>2, <2>2, <2>4 DEF Transactions, Stages
    <2>6. seen' \in [Processes -> Views] /\ seen'[p].keys = configured
      BY <1>2, <2>2 DEF Views
    <2>7. Staged("rewrite", data, original, lifted, now)
      BY <1>1 DEF Staged
    <2>8. UpgradeOK'
      BY <1>1, <1>3, <2>1, <2>3, <2>5, <2>6, <2>7 DEF UpgradeOK, Upgraded, history
    <2> QED
      BY <1>1, <1>3, <2>5, <2>6, <2>8, UpgradeStep
  <1> QED
    BY <1>4, <1>5

\* A row is taken from the list and rewritten, unless a merge has removed it.
LEMMA RewritingARow ==
  ASSUME NEW p, NEW rows, NEW nr
  PROVE  LET after == RowRewritten(p, rows, nr) IN
         \/ after = rows /\ \A r \in rows : r.nr # nr
         \/ \E old \in rows :
              old.nr = nr /\ after = With(rows, old, [old EXCEPT !.id = Rewritten(p, old.id)])
  <1> DEFINE old == CHOOSE r \in rows : r.nr = nr
  <1>1. CASE \E r \in rows : r.nr = nr
    <2>1. old \in rows /\ old.nr = nr
      BY <1>1
    <2>2. RowRewritten(p, rows, nr) = With(rows, old, [old EXCEPT !.id = Rewritten(p, old.id)])
      BY <1>1, Zenon DEF RowRewritten
    <2> HIDE DEF old
    <2> QED
      BY <2>1, <2>2
  <1>2. CASE ~(\E r \in rows : r.nr = nr)
    BY <1>2, Zenon DEF RowRewritten
  <1> QED
    BY <1>1, <1>2

\* A row rewritten by the upgrade.
LEMMA UpgradeRewriteStep ==
  ASSUME IInv, NEW p \in Processes, RewriteRow(p), pc[p] = "upgrade"
  PROVE  IInv'
  <1> DEFINE data == tx.db
             keys == seen[p].keys
             Fits(new, left) ==
               /\ Progress(new, original, lifted, left, tx.unproven, keys, now)
               /\ new.bound = data.bound
  <1>1. /\ tx.owner = p /\ tx.stage = "rewrite" /\ UNCHANGED << db, env, procs, history >>
    BY DEF RewriteRow, In
  <1>2. UpgradeOK /\ tx \in Transactions /\ data \in Database
    BY <1>1, Owning
  <1>3. PICK nr \in tx.todo :
          tx' = [tx EXCEPT !.todo = @ \ {nr},
                           !.db = [tx.db EXCEPT !.rows = RowRewritten(p, tx.db.rows, nr)]]
    BY Zenon DEF RewriteRow
  <1> DEFINE rows == RowRewritten(p, data.rows, nr)
             new == [data EXCEPT !.rows = rows]
             left == tx.todo \ {nr}
  <1>4. \/ rows = data.rows /\ \A r \in data.rows : r.nr # nr
        \/ \E old \in data.rows :
             /\ old.nr = nr
             /\ rows = With(data.rows, old, [old EXCEPT !.id = Rewritten(p, old.id)])
    BY RewritingARow
  <1>5. tx' = [tx EXCEPT !.todo = left, !.db = new]
    BY <1>3
  <1> HIDE DEF rows
  <1>6. /\ Left(original) /\ now \in Nat
        /\ Progress(data, original, lifted, tx.todo, tx.unproven, keys, now)
        /\ original.version < 3 /\ cached[p] = data.bound /\ ~Upgraded
        /\ tx.from = original.version
    BY <1>1, <1>2 DEF UpgradeOK, Staged, Progress, IInv, FileInv, Typed
  <1>7. Fits(new, left)
    <2>1. CASE rows = data.rows /\ \A r \in data.rows : r.nr # nr
      <3>1. new = data
        BY <1>2, <2>1 DEF Database
      <3>2. Progress(data, original, lifted, left, tx.unproven, keys, now)
        BY <1>6, <2>1 DEF Rewriting, Progress
      <3> HIDE DEF new
      <3> QED
        BY <3>1, <3>2
    <2>2. ASSUME NEW old \in data.rows, old.nr = nr,
                 rows = With(data.rows, old, [old EXCEPT !.id = Rewritten(p, old.id)])
          PROVE  Fits(new, left)
      <3>1. Rewritten(p, old.id) = Protected(old.id, keys, data.bound)
        BY <1>6 DEF Rewritten
      <3>2. new = Protecting(data, old, keys)
        BY <2>2, <3>1 DEF Protecting
      <3> HIDE DEF new, data, keys
      <3>3. /\ Progress(Protecting(data, old, keys), original, lifted, tx.todo \ {old.nr},
                        tx.unproven, keys, now)
            /\ Protecting(data, old, keys).bound = data.bound
        BY <1>6, <2>2, ProtectingKeeps
      <3> QED
        BY <2>2, <3>2, <3>3
    <2> HIDE DEF Fits
    <2> QED
      BY <1>4, <2>1, <2>2
  <1>8. /\ tx' \in Transactions /\ tx'.owner = p /\ tx'.stage = "rewrite" /\ tx'.db = new
        /\ tx'.from = tx.from /\ tx'.todo = left /\ tx'.unproven = tx.unproven
    <2>1. new \in Database
      BY <1>7 DEF Progress, Orderly
    <2> HIDE DEF new
    <2> QED
      BY <1>1, <1>2, <1>5, <2>1 DEF Transactions
  <1> HIDE DEF new
  <1>9. Staged("rewrite", new, original, lifted, now)
    BY <1>7 DEF Staged, Progress
  <1>10. UpgradeOK'
    BY <1>1, <1>2, <1>6, <1>7, <1>8, <1>9 DEF UpgradeOK, Progress, Upgraded, env, procs, history
  <1>11. /\ cached' \in [Processes -> Secrets \cup {None}] /\ seen' \in [Processes -> Views]
        /\ secretFile' \in Secrets \cup {None, Partial}
        /\ UNCHANGED << db, configured, now, history >> /\ pc' = pc
    BY <1>1 DEF IInv, Typed, env, procs
  <1> QED
    BY <1>6, <1>8, <1>10, <1>11, UpgradeStep

\* When every row is rewritten, the copy is a sound file.
LEMMA FinishRewriteStep ==
  ASSUME IInv, NEW p \in Processes, FinishRewrite(p)
  PROVE  IInv'
  <1> DEFINE data == tx.db
             more == {m \in data.markers : m.provider \notin {u.provider : u \in tx.unproven}}
                       \cup tx.unproven
             new == [data EXCEPT !.markers = more]
  <1>1. tx.owner = p /\ tx.stage = "rewrite" /\ pc[p] = "upgrade" /\ tx.todo = {}
    BY DEF FinishRewrite, In
  <1>2. UpgradeOK /\ tx \in Transactions /\ data \in Database
    BY <1>1, Owning
  <1>3. /\ Orderly(data, original) /\ Rewriting(data, {}, tx.unproven, seen[p].keys, now)
        /\ InSeconds(data.rows) /\ Canonized(data.rows) /\ Merged(data.rows)
        /\ Kept(data.rows, data.bound, original, lifted)
        /\ cached[p] = data.bound /\ original.version < 3
    BY <1>1, <1>2 DEF UpgradeOK, Staged
  <1>4. /\ Enter("version", new) /\ UNCHANGED << db, configured, now, pc, seen, history >>
        /\ cached' = cached /\ secretFile' = secretFile
    BY DEF FinishRewrite, env, procs
  <1>5. more \in SUBSET Markers
    BY <1>2 DEF Database, Transactions
  <1>6. /\ new \in Database /\ new.rows = data.rows /\ new.bound = data.bound
        /\ new.markers = more
    <2> HIDE DEF more
    <2> QED
      BY <1>2, <1>5 DEF Database
  <1>7. Orderly(new, original)
    BY <1>3, <1>6 DEF Orderly, Rewriting
  <1>8. Masked(data.rows) /\ Marked(data.rows, data.bound, more, now)
    BY <1>3 DEF Masked, Rewriting, Marked
  <1> HIDE DEF more, new
  <1>9. Staged("version", new, original, lifted, now)
    BY <1>3, <1>6, <1>7, <1>8 DEF Staged
  <1>10. /\ cached' \in [Processes -> Secrets \cup {None}]
         /\ secretFile' \in Secrets \cup {None, Partial} /\ "version" \in Stages \ {"rewrite"}
    BY <1>4 DEF IInv, Typed, Stages
  <1> QED
    BY <1>1, <1>4, <1>6, <1>9, <1>10, EnterStep

\* What is published is sound, and bound to the secret of its process.
LEMMA CommitUpgradeStep ==
  ASSUME IInv, NEW p \in Processes, CommitUpgrade(p)
  PROVE  IInv'
  <1> DEFINE data == tx.db
  <1>1. /\ pc[p] = "upgrade" /\ ~Upgraded /\ data \in Database
        /\ Staged("version", data, original, lifted, now)
    BY AtStage DEF CommitUpgrade
  <1>2. /\ db' = [data EXCEPT !.version = Current] /\ tx' = NoTx
        /\ pc' = [pc EXCEPT ![p] = "verify"] /\ cached' = cached
        /\ seen' = [seen EXCEPT ![p] = Unread] /\ UNCHANGED << env, history >>
    BY DEF CommitUpgrade, Goto
  <1>3. /\ db' \in Database /\ db'.rows = data.rows /\ db'.bound = data.bound
        /\ db'.markers = data.markers /\ db'.version = Current
    BY <1>1, <1>2 DEF Database, Current
  <1>4. Sound(db', original, lifted, now)
    BY <1>1, <1>3 DEF Staged, Sound, Orderly
  <1>5. Typed'
    <2>1. "verify" \in Places /\ Unread \in Views
      BY DEF Places, Views, Unread
    <2> QED
      BY <1>2, <2>1 DEF IInv, Typed, env
  <1>6. FileInv'
    BY <1>2, <1>3, <1>4 DEF IInv, FileInv, Upgraded, env, history
  <1>7. ProcInv'
    <2> SUFFICES ASSUME NEW q \in Processes
                 PROVE  PlaceOK(pc[q], cached[q], seen[q])'
      BY DEF ProcInv
    <2>1. pc'[q] \in {"closed", "upgrade", "verify"}
      BY <1>1, <1>2 DEF IInv, Typed, ProcInv, PlaceOK
    <2> QED
      BY <1>3, <2>1 DEF PlaceOK, Upgraded
  <1> QED
    BY <1>2, <1>5, <1>6, <1>7 DEF IInv, TxInv

-----------------------------------------------------------------------------
(* Reconciliation                                                          *)

\* A reconciliation under way changes nothing but its copy.
LEMMA ReconcileStep ==
  ASSUME IInv, NEW p \in Processes, UNCHANGED << db, env, procs, history >>,
         tx' \in Transactions, ReconcileOK'
  PROVE  IInv'
  <1>1. Typed' /\ FileInv' /\ ProcInv'
    BY DEF IInv, Typed, FileInv, ProcInv, PlaceOK, Upgraded, env, procs, history
  <1> QED
    BY <1>1 DEF IInv, TxInv

\* The copy of a reconciliation begins as the file, which is sound; the markers read
\* before still cover what needs one.
LEMMA BeginReconcileStep ==
  ASSUME IInv, NEW p \in Processes, BeginReconcile(p)
  PROVE  IInv'
  <1> DEFINE todo == {r.nr : r \in {q \in db.rows : Rewritten(p, q.id) # q.id}}
  <1>1. /\ pc[p] = "reconcile" /\ UNCHANGED << db, env, procs, history >>
        /\ tx' = [owner |-> p, stage |-> "rewrite", db |-> db, from |-> Current,
                  todo |-> todo, unproven |-> {}]
    BY DEF BeginReconcile
  <1>2. Upgraded /\ cached[p] = db.bound
    BY <1>1 DEF IInv, ProcInv, PlaceOK
  <1>3. Sound(db, original, lifted, now) /\ db \in Database
    BY <1>2, Rowed DEF IInv, FileInv
  <1>4. todo \subseteq Nat
    BY <1>3, RowFields DEF Database
  <1>5. \A r \in db.rows :
          r.nr \in todo \/ Resolved(r.id, seen[p].markers, seen[p].keys, db.bound) = r.id
    BY <1>1, <1>2 DEF Rewritten
  <1>6. \A q \in Processes :
          pc[q] = "reconcile" => Marked(db.rows, db.bound, seen[q].markers, now)
    BY DEF IInv, ProcInv, PlaceOK, Covers
  <1> HIDE DEF todo
  <1>7. tx' \in Transactions
    BY <1>1, <1>3, <1>4 DEF Transactions, Stages, Current
  <1>8. /\ tx'.owner = p /\ tx'.stage = "rewrite" /\ tx'.db = db /\ tx'.todo = todo
        /\ db.version = Current
    BY <1>1, <1>2 DEF Upgraded
  <1>9. ReconcileOK'
    BY <1>1, <1>2, <1>3, <1>5, <1>6, <1>8 DEF ReconcileOK, Upgraded, env, procs, history
  <1> QED
    BY <1>1, <1>7, <1>9, ReconcileStep

\* A row rewritten by the reconciliation.
LEMMA ReconcileRewriteStep ==
  ASSUME IInv, NEW p \in Processes, RewriteRow(p), pc[p] = "reconcile"
  PROVE  IInv'
  <1> DEFINE data == tx.db
             keys == seen[p].keys
             markers == seen[p].markers
             Clear(x) == Resolved(x.id, markers, keys, data.bound) = x.id
             Fits(new, left) == /\ Follows(new, data, original, lifted, now)
                                /\ \A x \in new.rows : x.nr \in left \/ Clear(x)
  <1>1. /\ tx.owner = p /\ tx.stage = "rewrite" /\ UNCHANGED << db, env, procs, history >>
    BY DEF RewriteRow, In
  <1>2. ReconcileOK /\ tx \in Transactions /\ data \in Database
    BY <1>1, Owning
  <1>3. PICK nr \in tx.todo :
          tx' = [tx EXCEPT !.todo = @ \ {nr},
                           !.db = [tx.db EXCEPT !.rows = RowRewritten(p, tx.db.rows, nr)]]
    BY Zenon DEF RewriteRow
  <1> DEFINE rows == RowRewritten(p, data.rows, nr)
             new == [data EXCEPT !.rows = rows]
             left == tx.todo \ {nr}
  <1>4. \/ rows = data.rows /\ \A r \in data.rows : r.nr # nr
        \/ \E old \in data.rows :
             /\ old.nr = nr
             /\ rows = With(data.rows, old, [old EXCEPT !.id = Rewritten(p, old.id)])
    BY RewritingARow
  <1>5. tx' = [tx EXCEPT !.todo = left, !.db = new]
    BY <1>3
  <1> HIDE DEF rows
  <1>6. /\ Left(original) /\ now \in Nat /\ Upgraded /\ cached[p] = db.bound
        /\ Sound(data, original, lifted, now) /\ data.bound = db.bound
        /\ data.version = Current /\ data.reservations = db.reservations
        /\ data.markers = db.markers
        /\ \A r \in data.rows : r.nr \in tx.todo \/ Clear(r)
        /\ \A q \in Processes :
             pc[q] = "reconcile" => Marked(data.rows, db.bound, seen[q].markers, now)
    BY <1>1, <1>2 DEF ReconcileOK, IInv, FileInv, Typed, ProcInv, PlaceOK
  <1>7. Fits(new, left)
    <2>1. CASE rows = data.rows /\ \A r \in data.rows : r.nr # nr
      <3>1. new = data
        BY <1>2, <2>1 DEF Database
      <3>2. \A x \in data.rows : x.nr \in left \/ Clear(x)
        BY <1>6, <2>1
      <3>3. Follows(data, data, original, lifted, now)
        BY <1>6 DEF Follows
      <3> HIDE DEF new, Clear
      <3> QED
        BY <3>1, <3>2, <3>3
    <2>2. ASSUME NEW old \in data.rows, old.nr = nr,
                 rows = With(data.rows, old, [old EXCEPT !.id = Rewritten(p, old.id)])
          PROVE  Fits(new, left)
      <3>1. Rewritten(p, old.id) = Resolved(old.id, markers, keys, data.bound)
        BY <1>6 DEF Rewritten
      <3>2. new = Resolving(data, old, markers, keys)
        BY <2>2, <3>1 DEF Resolving
      <3> HIDE DEF new, data, keys, markers
      <3>3. /\ Follows(Resolving(data, old, markers, keys), data, original, lifted, now)
            /\ \A x \in Resolving(data, old, markers, keys).rows :
                 \/ x \in data.rows /\ x.nr # old.nr
                 \/ Clear(x)
        BY <1>6, <2>2, ResolvingKeeps
      <3>4. \A x \in new.rows : x.nr \in left \/ Clear(x)
        <4> HIDE DEF Clear
        <4> QED
          BY <1>6, <2>2, <3>2, <3>3
      <3> QED
        BY <3>2, <3>3, <3>4
    <2> HIDE DEF Fits
    <2> QED
      BY <1>4, <2>1, <2>2
  <1>8. /\ tx' \in Transactions /\ tx'.owner = p /\ tx'.stage = "rewrite" /\ tx'.db = new
        /\ tx'.todo = left
    <2>1. new \in Database
      BY <1>7 DEF Follows, Sound, Orderly
    <2> HIDE DEF new
    <2> QED
      BY <1>1, <1>2, <1>5, <2>1 DEF Transactions
  <1> HIDE DEF new
  <1>9. ReconcileOK'
    <2>1. /\ Sound(new, original, lifted, now) /\ new.bound = db.bound
          /\ new.version = Current /\ new.reservations = db.reservations
          /\ new.markers = db.markers
      BY <1>6, <1>7 DEF Follows
    <2>2. \A q \in Processes :
            pc[q] = "reconcile" => Marked(new.rows, db.bound, seen[q].markers, now)
      BY <1>6, <1>7 DEF Follows
    <2>3. \A x \in new.rows : x.nr \in left \/ Resolved(x.id, markers, keys, db.bound) = x.id
      BY <1>6, <1>7
    <2> QED
      BY <1>1, <1>2, <1>6, <1>8, <2>1, <2>2, <2>3
         DEF ReconcileOK, Upgraded, env, procs, history
  <1> QED
    BY <1>1, <1>8, <1>9, ReconcileStep

\* The database of an upgraded file changes, and the restrictions that need a marker do
\* not become more.
LEMMA FileStep ==
  ASSUME IInv, UNCHANGED << env, original >>, Upgraded, tx' = NoTx,
         pc' \in [Processes -> Places], cached' = cached, seen' \in [Processes -> Views],
         \A q \in Processes : \/ pc'[q] = pc[q] /\ seen'[q] = seen[q]
                              \/ pc'[q] = "open" /\ pc[q] = "reconcile",
         db'.version = Current, db'.bound = db.bound, Sound(db', original, lifted', now),
         \A q \in Processes : pc[q] = "reconcile" /\ Marked(db.rows, db.bound, seen[q].markers, now)
                                => Marked(db'.rows, db.bound, seen[q].markers, now)
  PROVE  IInv'
  <1>1. Typed'
    BY DEF IInv, Typed, env
  <1>2. FileInv'
    BY DEF IInv, FileInv, Upgraded, env
  <1>3. ProcInv'
    <2> SUFFICES ASSUME NEW q \in Processes
                 PROVE  PlaceOK(pc[q], cached[q], seen[q])'
      BY DEF ProcInv
    <2>1. PlaceOK(pc[q], cached[q], seen[q])
      BY DEF IInv, ProcInv
    <2>2. CASE pc'[q] = pc[q] /\ seen'[q] = seen[q]
      BY <2>1, <2>2 DEF PlaceOK, Covers, Upgraded, env
    <2>3. CASE pc'[q] = "open" /\ pc[q] = "reconcile"
      BY <2>1, <2>3 DEF PlaceOK, Upgraded
    <2> QED
      BY <2>2, <2>3
  <1> QED
    BY <1>1, <1>2, <1>3 DEF IInv, TxInv

\* Every row is rewritten, so that a fingerprint still quarantined is unresolved.
LEMMA CommitReconcileStep ==
  ASSUME IInv, NEW p \in Processes, CommitReconcile(p)
  PROVE  IInv'
  <1> DEFINE data == tx.db
             more == {m \in data.markers : m.provider \notin {n.provider : n \in seen[p].markers}}
                       \cup Referenced(p)
  <1>1. /\ tx.owner = p /\ tx.stage = "rewrite" /\ tx.todo = {} /\ pc[p] = "reconcile"
        /\ db' = [data EXCEPT !.markers = more] /\ tx' = NoTx
        /\ pc' = [pc EXCEPT ![p] = "open"] /\ seen' = [seen EXCEPT ![p] = Unread]
        /\ cached' = cached /\ UNCHANGED << env, history >>
    BY DEF CommitReconcile, In, Goto
  <1>2. ReconcileOK /\ data \in Database
    BY <1>1, Owning
  <1>3. /\ Upgraded /\ Sound(data, original, lifted, now) /\ data.bound = db.bound
        /\ data.version = Current /\ cached[p] = db.bound
        /\ \A r \in data.rows : Resolved(r.id, seen[p].markers, seen[p].keys, db.bound) = r.id
        /\ \A q \in Processes :
             pc[q] = "reconcile" => Marked(data.rows, db.bound, seen[q].markers, now)
        /\ Covers(db.rows, db.bound, original, seen[p].markers, now)
        /\ seen[p].markers \subseteq Markers
    BY <1>1, <1>2 DEF ReconcileOK, IInv, ProcInv, PlaceOK, Typed, Views
  <1>4. Referenced(p) \subseteq seen[p].markers
    BY DEF Referenced
  <1>5. more \in SUBSET Markers
    BY <1>2, <1>3, <1>4 DEF Database
  <1>6. Marked(data.rows, data.bound, more, now)
    <2> SUFFICES ASSUME NEW r \in data.rows, Orphan(r, data.bound, now)
                 PROVE  Tag(r, r.id) \in more
      BY DEF Marked
    <2>1. Tag(r, r.id) \in data.markers /\ Tag(r, r.id) \in seen[p].markers
      BY <1>1, <1>3 DEF Sound, Marked
    <2>2. CASE Tag(r, r.id).provider \notin {n.provider : n \in seen[p].markers}
      BY <2>1, <2>2
    <2>3. Tag(r, r.id) \in Referenced(p)
      <3> DEFINE m == Tag(r, r.id)
      <3>1. m.id = r.id /\ r.provider = m.provider /\ InForce(r)
        BY <1>3 DEF Tag, Sound, Canonized, Orphan, InForce
      <3>2. Resolved(m.id, {m}, seen[p].keys, cached[p]) = m.id
        <4>1. r.id \in {n.id : n \in seen[p].markers}
          BY <2>1, <3>1
        <4>2. Resolved(r.id, seen[p].markers, seen[p].keys, db.bound) = r.id
          BY <1>3
        <4>3. ~(r.id = Legacy(r.id.key, db.bound) /\ r.id.key \in seen[p].keys)
          BY <4>1, <4>2 DEF Resolved, Legacy, V1
        <4> HIDE DEF m
        <4> QED
          BY <1>3, <3>1, <4>3 DEF Resolved
      <3> HIDE DEF m
      <3> QED
        BY <2>1, <3>1, <3>2 DEF m, Referenced
    <2> QED
      BY <2>3
  <1>7. \A m \in more : m.id.secret = data.bound \/ \E q \in original.rows : q.id = m.id
    BY <1>3, <1>4 DEF Sound, Orderly, Covers
  <1> HIDE DEF more
  <1>8. /\ db' \in Database /\ db'.rows = data.rows /\ db'.bound = data.bound
        /\ db'.markers = more /\ db'.version = Current
    BY <1>1, <1>2, <1>3, <1>5 DEF Database
  <1>9. Sound(db', original, lifted, now)
    BY <1>3, <1>6, <1>7, <1>8 DEF Sound, Orderly
  <1>10. /\ pc' \in [Processes -> Places] /\ seen' \in [Processes -> Views]
         /\ \A q \in Processes : \/ pc'[q] = pc[q] /\ seen'[q] = seen[q]
                                 \/ pc'[q] = "open" /\ pc[q] = "reconcile"
    <2>1. "open" \in Places /\ Unread \in Views
      BY DEF Places, Views, Unread
    <2> QED
      BY <1>1, <2>1 DEF IInv, Typed
  <1> QED
    BY <1>1, <1>3, <1>8, <1>9, <1>10, FileStep DEF history

-----------------------------------------------------------------------------
(* Open processes                                                          *)

\* An open process has a sound file and its secret.
LEMMA OpenProcess ==
  ASSUME IInv, NEW p \in Processes, pc[p] = "open"
  PROVE  /\ Upgraded /\ cached[p] = db.bound /\ Sound(db, original, lifted, now)
         /\ db \in Database /\ Left(original) /\ now \in Nat /\ configured \subseteq Keys
         /\ pc \in [Processes -> Places] /\ seen \in [Processes -> Views]
  BY Rowed DEF IInv, ProcInv, PlaceOK, FileInv, Typed

\* A reservation is no row.
LEMMA ReserveStep ==
  ASSUME IInv, NEW p \in Processes, Reserve(p)
  PROVE  IInv'
  <1>1. /\ pc[p] = "open" /\ tx' = NoTx /\ UNCHANGED << env, procs, history >>
        /\ db' = [db EXCEPT !.reservations = @ + 1]
    BY DEF Reserve, Idle
  <1>2. /\ Upgraded /\ Sound(db, original, lifted, now) /\ db \in Database
        /\ pc \in [Processes -> Places] /\ seen \in [Processes -> Views]
    BY <1>1, OpenProcess
  <1>3. /\ db' \in Database /\ db'.rows = db.rows /\ db'.bound = db.bound
        /\ db'.markers = db.markers /\ db'.version = Current
    BY <1>1, <1>2 DEF Database, Upgraded
  <1>4. Sound(db', original, lifted, now)
    BY <1>2, <1>3 DEF Sound, Orderly
  <1> QED
    BY <1>1, <1>2, <1>3, <1>4, FileStep DEF procs, history

\* There is always a number that no row has or had.
LEMMA NewNrIsNew ==
  ASSUME NEW rows, IsFiniteSet(rows), IsFiniteSet(original.rows)
  PROVE  NewNr(rows) \in Nat /\ \A r \in rows : r.nr # NewNr(rows)
  <1> DEFINE all == rows \cup original.rows
             old == {r.nr : r \in all}
             n == Cardinality(old)
             f == [r \in all |-> r.nr]
  <1>1. IsFiniteSet(old) /\ n \in Nat
    <2>1. IsFiniteSet(all)
      BY FS_Union
    <2>2. f \in Surjection(all, old)
      BY DEF Surjection
    <2> HIDE DEF f, all
    <2>3. IsFiniteSet(old)
      BY <2>1, <2>2, FS_Surjection
    <2> QED
      BY <2>3, FS_CardinalityType
  <1> HIDE DEF old
  <1>2. \E nr \in 1 .. 1 + n : nr \notin old
    <2> SUFFICES ASSUME 1 .. 1 + n \subseteq old
                 PROVE  FALSE
      OBVIOUS
    <2> HIDE DEF n
    <2>1. Cardinality(1 .. 1 + n) = 1 + n
      BY <1>1, FS_Interval
    <2>2. Cardinality(1 .. 1 + n) <= n
      BY <1>1, FS_Subset DEF n
    <2> QED
      BY <1>1, <2>1, <2>2
  <1>3. NewNr(rows) = CHOOSE nr \in 1 .. 1 + n : nr \notin old
    BY DEF NewNr, old
  <1> HIDE DEF n
  <1>4. NewNr(rows) \in 1 .. 1 + n /\ NewNr(rows) \notin old
    BY <1>2, <1>3
  <1>5. \A r \in rows : r.nr \in old
    BY DEF old
  <1> QED
    BY <1>1, <1>4, <1>5

\* A row of usage says nothing of a credential.
LEMMA UsageIsHarmless ==
  ASSUME NEW file, NEW data, NEW released, NEW t \in Nat, Sound(data, file, released, t),
         NEW u \in Rows, u.table = "usage", u.provider = "codex", u.reset = 0,
         u.id.form = "v1", u.id.secret = data.bound, \A r \in data.rows : r.nr # u.nr
  PROVE  LET after == [data EXCEPT !.rows = @ \cup {u}] IN
         /\ Sound(after, file, released, t)
         /\ \A more : Marked(data.rows, data.bound, more, t)
                        => Marked(data.rows \cup {u}, data.bound, more, t)
  <1> DEFINE rows == data.rows \cup {u}
             after == [data EXCEPT !.rows = rows]
  <1>1. /\ data \in Database /\ data.rows \subseteq Rows /\ IsFiniteSet(data.rows)
        /\ Numbered(data.rows) /\ data.bound \in Secrets /\ None \notin Secrets
        /\ Orderly(data, file)
    BY ConstantsAssumption DEF Sound, Orderly, Database
  <1>2. /\ after \in Database /\ after.rows = rows /\ after.bound = data.bound
        /\ after.markers = data.markers
    BY <1>1 DEF Database
  <1>3. IsFiniteSet(rows) /\ Numbered(rows)
    BY <1>1, FS_AddElement DEF Numbered
  <1>4. u.id.secret # None /\ u.id.form \notin Unmasked
    BY <1>1 DEF Unmasked
  <1> HIDE DEF after
  <1>5. Orderly(after, file)
    BY <1>1, <1>2, <1>3, <1>4 DEF Orderly
  <1>6. Canonical(u) = u.provider
    BY Zenon DEF Canonical
  <1>7. Canonized(rows)
    BY <1>6 DEF Canonized, Sound
  <1>8. Merged(rows)
    BY DEF Merged, Sound, SameKey
  <1>9. InSeconds(rows) /\ Masked(rows)
    <2>1. 0 <= Milliseconds
      BY ConstantsAssumption
    <2> QED
      BY <2>1 DEF InSeconds, Masked, Sound
  <1>10. ASSUME NEW table \in Restrictive, NEW k, NEW b
         PROVE  Class(rows, table, k, b) = Class(data.rows, table, k, b)
    BY DEF Class, Restrictive
  <1>11. Kept(rows, data.bound, file, released)
    BY <1>10 DEF Kept, BestIsKept, Sound
  <1>12. ASSUME NEW more, Marked(data.rows, data.bound, more, t)
         PROVE  Marked(rows, data.bound, more, t)
    BY <1>12 DEF Marked, Orphan
  <1>13. Sound(after, file, released, t)
    BY <1>2, <1>5, <1>7, <1>8, <1>9, <1>11, <1>12 DEF Sound
  <1> QED
    BY <1>12, <1>13 DEF after

\* A logged request is written under the secret of the file.
LEMMA RecordUsageStep ==
  ASSUME IInv, NEW p \in Processes, RecordUsage(p)
  PROVE  IInv'
  <1>1. pc[p] = "open" /\ tx' = NoTx /\ UNCHANGED << env, procs, history >>
    BY DEF RecordUsage, Idle
  <1>2. /\ Upgraded /\ cached[p] = db.bound /\ Sound(db, original, lifted, now)
        /\ db \in Database /\ Left(original) /\ now \in Nat /\ configured \subseteq Keys
        /\ pc \in [Processes -> Places] /\ seen \in [Processes -> Views]
    BY <1>1, OpenProcess
  <1> DEFINE Row(k) ==
        [nr |-> NewNr(db.rows), table |-> "usage", provider |-> "codex", id |-> V1(k, cached[p]),
         alias |-> FALSE, active |-> FALSE, at |-> now, reset |-> 0, released |-> 0]
  <1>3. PICK k \in configured : db' = [db EXCEPT !.rows = @ \cup {Row(k)}]
    BY DEF RecordUsage
  <1> DEFINE u == Row(k)
  <1>4. NewNr(db.rows) \in Nat /\ \A r \in db.rows : r.nr # NewNr(db.rows)
    BY <1>2, NewNrIsNew DEF Sound, Orderly, Left
  <1>5. V1(k, cached[p]) \in Identities /\ V1(k, cached[p]).form = "v1"
        /\ V1(k, cached[p]).secret = db.bound
    BY <1>2 DEF V1, Identities, Forms, Sound, Orderly
  <1>6. u \in Rows
    <2>1. "codex" \in Spellings /\ "usage" \in Tables
      BY Zenon DEF Spellings, Tables
    <2> QED
      BY <1>2, <1>4, <1>5, <2>1 DEF Rows
  <1>7. /\ u.table = "usage" /\ u.provider = "codex" /\ u.reset = 0
        /\ u.id.form = "v1" /\ u.id.secret = db.bound /\ \A r \in db.rows : r.nr # u.nr
    BY <1>4, <1>5
  <1> HIDE DEF Row
  <1>8. /\ Sound(db', original, lifted, now)
        /\ \A more : Marked(db.rows, db.bound, more, now)
                       => Marked(db.rows \cup {u}, db.bound, more, now)
    BY <1>2, <1>3, <1>6, <1>7, UsageIsHarmless
  <1>9. db'.version = Current /\ db'.bound = db.bound /\ db'.rows = db.rows \cup {u}
    BY <1>2, <1>3 DEF Database, Upgraded
  <1> QED
    BY <1>1, <1>2, <1>8, <1>9, FileStep DEF procs, history

\* A release is an answer of the administrator for one credential.
Freed(r, t) == [r EXCEPT !.active = FALSE, !.released = t]
Freeing(data, r, t) == [data EXCEPT !.rows = (data.rows \ {r}) \cup {Freed(r, t)}]

\* A release changes one row, of a credential the administrator has answered for.
LEMMA ReleaseIsLocal ==
  ASSUME NEW file, Left(file), NEW data, NEW released, NEW t \in Nat,
         Sound(data, file, released, t), NEW r \in data.rows
  PROVE  LET after == Freeing(data, r, t) IN
         /\ Sound(after, file, released \cup {<< r.table, r.id.key >>}, t)
         /\ after.version = data.version /\ after.bound = data.bound
         /\ \A markers : Marked(data.rows, data.bound, markers, t)
                           => Marked(after.rows, data.bound, markers, t)
  <1> DEFINE freed == Freed(r, t)
             rows == (data.rows \ {r}) \cup {freed}
             after == Freeing(data, r, t)
             more == released \cup {<< r.table, r.id.key >>}
  <1>1. /\ data \in Database /\ data.rows \subseteq Rows /\ IsFiniteSet(data.rows)
        /\ Numbered(data.rows) /\ Orderly(data, file) /\ r \in Rows
    BY DEF Sound, Orderly, Database
  <1>2. /\ freed \in Rows /\ freed.nr = r.nr /\ freed.table = r.table /\ freed.id = r.id
        /\ freed.provider = r.provider /\ freed.reset = r.reset /\ freed.active = FALSE
    BY <1>1 DEF Rows, Freed
  <1>3. /\ after \in Database /\ after.rows = rows /\ after.bound = data.bound
        /\ after.markers = data.markers /\ after.version = data.version
    BY <1>1, <1>2 DEF Database, Freeing
  <1> HIDE DEF freed, after
  <1>4. Canonical(freed) = Canonical(r) /\ ~Restricts(freed, t)
    BY <1>2, SameCanonical DEF Restricts
  <1>5. IsFiniteSet(rows) /\ Numbered(rows)
    <2>1. IsFiniteSet(data.rows \ {r})
      BY <1>1, FS_Subset
    <2>2. IsFiniteSet(rows)
      BY <2>1, FS_AddElement
    <2> QED
      BY <1>1, <1>2, <2>2 DEF Numbered
  <1>6. Orderly(after, file)
    BY <1>1, <1>2, <1>3, <1>5 DEF Orderly
  <1>7. Canonized(rows) /\ InSeconds(rows) /\ Masked(rows)
    BY <1>2, <1>4 DEF Canonized, InSeconds, Masked, Sound
  <1>8. Merged(rows)
    BY <1>2 DEF Merged, Sound, SameKey
  <1>9. Kept(rows, data.bound, file, more)
    <2>1. ASSUME NEW table \in Restrictive, NEW k \in Keys, << table, k >> \notin more
          PROVE  Class(rows, table, k, data.bound) = Class(data.rows, table, k, data.bound)
      <3>1. ~(r.table = table /\ r.id.key = k)
        BY <2>1
      <3> QED
        BY <1>2, <3>1 DEF Class
    <2>2. \A x : Same(x, x)
      BY DEF Same
    <2>3. Kept(data.rows, data.bound, file, released) /\ released \subseteq more
      BY DEF Sound
    <2> HIDE DEF rows, more
    <2> QED
      BY <2>1, <2>3 DEF Kept, BestIsKept
  <1>10. ASSUME NEW markers, Marked(data.rows, data.bound, markers, t)
         PROVE  Marked(rows, data.bound, markers, t)
    BY <1>4, <1>10 DEF Marked, Orphan
  <1>11. Sound(after, file, more, t)
    BY <1>3, <1>6, <1>7, <1>8, <1>9, <1>10 DEF Sound
  <1> QED
    BY <1>3, <1>10, <1>11 DEF after

\* A release by an open process.
LEMMA ReleaseStep ==
  ASSUME IInv, NEW p \in Processes, Release(p)
  PROVE  IInv'
  <1>1. /\ pc[p] = "open" /\ tx' = NoTx /\ UNCHANGED << env, procs, original >>
    BY DEF Release, Idle
  <1>2. /\ Upgraded /\ Sound(db, original, lifted, now) /\ db \in Database /\ Left(original)
        /\ now \in Nat /\ pc \in [Processes -> Places] /\ seen \in [Processes -> Views]
    BY <1>1, OpenProcess
  <1>3. PICK r \in db.rows : /\ db' = Freeing(db, r, now)
                             /\ lifted' = lifted \cup {<< r.table, r.id.key >>}
    BY Zenon DEF Release, Freeing, Freed
  <1>4. /\ Sound(db', original, lifted', now)
        /\ db'.version = Current /\ db'.bound = db.bound
        /\ \A markers : Marked(db.rows, db.bound, markers, now)
                          => Marked(db'.rows, db.bound, markers, now)
    BY <1>2, <1>3, ReleaseIsLocal DEF Upgraded
  <1> QED
    BY <1>1, <1>2, <1>4, FileStep DEF procs

-----------------------------------------------------------------------------
(* Every step                                                              *)

\* A file of this version is sound as it is found.
LEMMA CurrentIsSound ==
  ASSUME NEW file, Left(file), file.version = Current
  PROVE  Sound(file, file, {}, 1)
  <1>1. file.bound \in Secrets /\ file.version >= 3 /\ file.version >= 4
    BY DEF Left, Current
  <1>2. Orderly(file, file)
    BY <1>1, BoundFile
  <1>3. LET rows == Normalized(file.rows, file.version) IN
        InSeconds(rows) /\ Kept(rows, file.bound, file, {})
    BY <1>2, NormalizingEstablishes
  <1>4. Normalized(file.rows, file.version) = file.rows
    BY <1>1 DEF Normalized
  <1> QED
    BY <1>1, <1>2, <1>3, <1>4 DEF Left, Sound

\* A file as it is found satisfies the invariant.
LEMMA InitInv == Init => IInv
  <1> SUFFICES ASSUME Init
               PROVE  IInv
    OBVIOUS
  <1>1. PICK d \in Databases : db = d.db /\ secretFile = d.secretFile /\ original = d.db
    BY DEF Init
  <1>2. Left(original) /\ secretFile \in Secrets \cup {None, Partial}
    BY <1>1, FilesAreLeft
  <1>3. Typed
    <2>1. "closed" \in Places /\ Unread \in Views
      BY DEF Places, Views, Unread
    <2> QED
      BY <1>2, <2>1 DEF Init, Typed
  <1>4. FileInv
    BY <1>1, <1>2, CurrentIsSound DEF Init, FileInv, Upgraded
  <1>5. ProcInv
    BY DEF Init, ProcInv, PlaceOK
  <1> QED
    BY <1>3, <1>4, <1>5 DEF Init, IInv, TxInv

\* Every step preserves the invariant, one lemma for each action.
LEMMA NextInv == IInv /\ [Next]_vars => IInv'
  <1> SUFFICES ASSUME IInv, [Next]_vars
               PROVE  IInv'
    OBVIOUS
  <1>1. now \in Nat /\ configured \subseteq Keys /\ secretFile \in Secrets \cup {None, Partial}
    BY DEF IInv, Typed
  <1>2. CASE UNCHANGED vars
    BY <1>1, <1>2, EnvironmentStep DEF vars, env, procs, history
  <1>3. ASSUME NEW p \in Processes, Step(p)
        PROVE  IInv'
    <2>1. CASE ReadVersion(p) \/ Begin(p) \/ BindSecret(p) \/ CreateSecret(p) \/ WriteSecret(p)
      BY <2>1, ReadVersionStep, BeginStep, BindSecretStep, SecretFileStep
    <2>2. CASE NormalizeResets(p) \/ DiscardReservations(p) \/ MigrateProviderKeys(p)
      BY <2>2, NormalizeResetsStep, DiscardReservationsStep, MigrateProviderKeysStep
    <2>3. CASE BeginRewrite(p) \/ FinishRewrite(p) \/ CommitUpgrade(p)
      BY <2>3, BeginRewriteStep, FinishRewriteStep, CommitUpgradeStep
    <2>4. CASE RewriteRow(p)
      <3>1. pc[p] = "upgrade" \/ pc[p] = "reconcile"
        BY <2>4, Owning DEF RewriteRow, In
      <3> QED
        BY <2>4, <3>1, UpgradeRewriteStep, ReconcileRewriteStep
    <2>5. CASE VerifyBinding(p) \/ LoadMarkers(p) \/ BeginReconcile(p) \/ CommitReconcile(p)
      BY <2>5, VerifyBindingStep, LoadMarkersStep, BeginReconcileStep, CommitReconcileStep
    <2> QED
      BY <1>3, <2>1, <2>2, <2>3, <2>4, <2>5 DEF Step
  <1>4. ASSUME NEW p \in Processes,
               Fail(p) \/ Crash(p) \/ RecordUsage(p) \/ Reserve(p) \/ Release(p) \/ Close(p)
        PROVE  IInv'
    BY <1>4, FailStep, RecordUsageStep, ReserveStep, ReleaseStep, CloseStep
  <1>5. CASE Reconfigure \/ ReplaceSecret \/ Tick
    <2>1. CASE Reconfigure
      <3>1. configured' \subseteq Keys
        BY <1>1, <2>1 DEF Reconfigure
      <3> QED
        BY <1>1, <2>1, <3>1, EnvironmentStep DEF Reconfigure
    <2>2. CASE ReplaceSecret
      BY <1>1, <2>2, EnvironmentStep DEF ReplaceSecret
    <2>3. CASE Tick
      BY <1>1, <2>3, EnvironmentStep DEF Tick
    <2> QED
      BY <1>5, <2>1, <2>2, <2>3
  <1> QED
    BY <1>2, <1>3, <1>4, <1>5 DEF Next

\* The invariant holds throughout.
LEMMA Invariant == Spec => []IInv
  BY InitInv, NextInv, PTL DEF Spec

-----------------------------------------------------------------------------
(* The properties                                                          *)

\* An upgrade is all or nothing, whatever fails, crashes or runs beside it.
THEOREM UpgradesAreWhole == Spec => []UpgradeIsWhole
  <1>1. IInv => UpgradeIsWhole
    <2> SUFFICES ASSUME IInv
                 PROVE  UpgradeIsWhole
      OBVIOUS
    <2>1. CASE ~Upgraded
      BY <2>1 DEF IInv, FileInv, UpgradeIsWhole
    <2>2. CASE Upgraded
      <3>1. /\ db.bound \in Secrets /\ Masked(db.rows) /\ Canonized(db.rows)
            /\ InSeconds(db.rows) /\ Merged(db.rows)
        BY <2>2 DEF IInv, FileInv, Sound, Orderly
      <3>2. db.bound # None
        BY <3>1, ConstantsAssumption
      <3>3. \A r \in db.rows : /\ r.id.form \in {"v1", "legacy"} /\ r.provider = Canonical(r)
                               /\ r.reset <= Milliseconds
        BY <3>1 DEF Masked, Canonized, InSeconds
      <3>4. \A r, q \in db.rows : r.table # "usage" /\ SameKey(r, q) => r = q
        BY <3>1 DEF Merged
      <3> QED
        BY <2>2, <3>2, <3>3, <3>4 DEF UpgradeIsWhole
    <2> QED
      BY <2>1, <2>2
  <1> QED
    BY Invariant, <1>1, PTL

\* No fingerprint of another secret is written.
THEOREM FingerprintsMatchTheSecret == Spec => []FingerprintsAreBound
  <1>1. IInv => FingerprintsAreBound
    BY DEF IInv, FileInv, FingerprintsAreBound, Sound, Orderly
  <1> QED
    BY Invariant, <1>1, PTL

\* The rows the properties speak of are the sources the invariant speaks of.
LEMMA OriginalsAreSources ==
  ASSUME NEW table, NEW k
  PROVE  Originals(table, k) = Sources(table, k, db.bound, original)
  BY DEF Originals, Sources

\* A row of a sound file that still says something of a credential names it by its
\* fingerprint, or by one whose key was unknown.
LEMMA ClassIsProtected ==
  ASSUME NEW data, NEW file, NEW released, NEW t, Sound(data, file, released, t),
         NEW table, NEW k, NEW r \in Class(data.rows, table, k, data.bound)
  PROVE  /\ r \in data.rows /\ r \in Rows /\ r.table = table /\ r.provider = Own(table)
         /\ r.id \in {V1(k, data.bound), Legacy(k, data.bound)}
  <1>1. /\ r \in data.rows /\ r.table = table /\ r.id.key = k
        /\ Canonical(r) = Own(table) /\ r.id.secret \in {None, data.bound}
    BY DEF Class
  <1>2. r \in Rows /\ r.id \in Identities
    BY <1>1, RowFields DEF Sound, Orderly, Database
  <1>3. r.id.form \in {"v1", "legacy"} /\ r.provider = Canonical(r)
    BY <1>1 DEF Sound, Masked, Canonized
  <1>4. r.id.secret = data.bound
    BY <1>1, <1>3 DEF Sound, Orderly, Unmasked
  <1>5. r.id = [form |-> r.id.form, key |-> k, secret |-> data.bound]
    BY <1>1, <1>2, <1>4 DEF Identities
  <1> QED
    BY <1>1, <1>2, <1>3, <1>5 DEF V1, Legacy

\* No upgrade and no reconciliation loses a restriction.
THEOREM NoRestrictionIsLost == Spec => []RestrictionsSurvive
  <1>1. IInv => RestrictionsSurvive
    <2> SUFFICES ASSUME IInv, Upgraded, NEW table \in {"invalid", "ban", "xai"}, NEW k \in Keys,
                        Originals(table, k) # {}, << table, k >> \notin lifted,
                        InForce(Best(Originals(table, k)))
                 PROVE  Refused(table, k)
      BY DEF RestrictionsSurvive
    <2> DEFINE S == Sources(table, k, db.bound, original)
    <2>1. Sound(db, original, lifted, now) /\ Left(original)
      BY DEF IInv, FileInv
    <2>2. BestIsKept(db.rows, table, k, db.bound, original)
      BY <2>1 DEF Sound, Kept, Restrictive
    <2>3. S # {} /\ InForce(Best(S))
      BY OriginalsAreSources
    <2>4. Best(S) \in S
      BY <2>1, <2>3, SourcesAreRows
    <2>5. PICK r \in Class(db.rows, table, k, db.bound) : Same(r, Best(S))
      BY <2>2, <2>3 DEF BestIsKept
    <2> HIDE DEF S
    <2>6. /\ r \in db.rows /\ r.table = table /\ r.provider = Own(table)
          /\ r.id \in {V1(k, db.bound), Legacy(k, db.bound)} /\ Canonical(r) = r.provider
      <3>1. /\ r \in db.rows /\ r.table = table /\ r.provider = Own(table)
            /\ r.id \in {V1(k, db.bound), Legacy(k, db.bound)}
        BY <2>1, ClassIsProtected
      <3>2. \A x \in db.rows : x.provider = Canonical(x)
        BY <2>1 DEF Sound, Canonized
      <3> QED
        BY <3>1, <3>2
    <2>7. InForce(r)
      BY <2>3, <2>5, <2>6 DEF InForce, Restricts, Same
    <2>8. CASE r.alias \/ r.id = V1(k, db.bound)
      <3>1. r.alias => r.id.key = k
        BY <2>6 DEF V1, Legacy
      <3> QED
        BY <2>6, <2>7, <2>8, <3>1 DEF Refused
    <2>9. CASE ~r.alias /\ r.id = Legacy(k, db.bound)
      <3>1. Orphan(r, db.bound, now)
        BY <2>7, <2>9 DEF Orphan, InForce, Legacy
      <3>2. Tag(r, r.id) \in db.markers /\ Tag(r, r.id).provider = Own(table)
        BY <2>1, <2>6, <3>1 DEF Sound, Marked, Tag
      <3> QED
        BY <3>2 DEF Refused
    <2> QED
      BY <2>6, <2>8, <2>9
  <1> QED
    BY Invariant, <1>1, PTL

\* The row that is left of several is the best of them, in the order of the sources.
THEOREM TheBestRowIsKept == Spec => []MergeKeepsBest
  <1>1. IInv => MergeKeepsBest
    <2> SUFFICES ASSUME IInv, Upgraded, NEW table \in {"invalid", "ban", "xai"}, NEW k \in Keys,
                        Cardinality(Remaining(table, k)) = 1,
                        \A r \in Remaining(table, k) : r.id.form = "v1",
                        << table, k >> \notin lifted
                 PROVE  Remaining(table, k) = {BestOriginal(table, k)}
      BY DEF MergeKeepsBest
    <2> DEFINE left == Remaining(table, k)
    <2> DEFINE S == Sources(table, k, db.bound, original)
               C == Class(db.rows, table, k, db.bound)
    <2>1. Sound(db, original, lifted, now) /\ Left(original)
      BY DEF IInv, FileInv
    <2>2. BestIsKept(db.rows, table, k, db.bound, original)
      BY <2>1 DEF Sound, Kept, Restrictive
    <2>3. left = C
      <3>1. \A r \in db.rows : r.provider = Canonical(r)
        BY <2>1 DEF Sound, Canonized
      <3>2. \A r \in C : r.id.secret = db.bound
        BY <2>1, ClassIsProtected DEF V1, Legacy
      <3> QED
        BY <3>1, <3>2 DEF Class, Remaining
    <2>4. PICK r : left = {r}
      <3>1. IsFiniteSet(left)
        <4>1. left \subseteq db.rows /\ IsFiniteSet(db.rows)
          BY <2>1 DEF Sound, Orderly, Remaining
        <4> QED
          BY <4>1, FS_Subset
      <3> QED
        BY <3>1, FS_Singleton
    <2>5. /\ r \in Rows /\ r.table = table /\ r.provider = Own(table) /\ r.id = V1(k, db.bound)
      <3>1. r \in C /\ r.id.form = "v1"
        BY <2>3, <2>4
      <3> HIDE DEF C
      <3> QED
        BY <2>1, <3>1, ClassIsProtected DEF C, V1, Legacy
    <2>6. S # {}
      BY <2>2, <2>3, <2>4 DEF BestIsKept
    <2>7. Same(r, Best(S)) /\ Best(S) \in Rows
      <3>1. Best(S) \in Rows
        BY <2>1, <2>6, SourcesAreRows
      <3>2. \E q \in C : Same(q, Best(S))
        BY <2>2, <2>6 DEF BestIsKept
      <3> HIDE DEF S, C
      <3> QED
        BY <2>3, <2>4, <3>1, <3>2
    <2>8. Best(S) = Best(Originals(table, k))
      BY OriginalsAreSources
    <2> HIDE DEF S, C
    <2>9. r = [Best(S) EXCEPT !.id = V1(k, db.bound), !.provider = Own(table)]
      BY <2>5, <2>7 DEF Rows, Same
    <2> QED
      BY <2>4, <2>8, <2>9 DEF BestOriginal
  <1> QED
    BY Invariant, <1>1, PTL

\* What open processes have reserved survives every later opening.
THEOREM ReservationsSurvive == Spec => ReservationsAreKept
  <1>1. IInv /\ [Next]_vars => [Upgraded => db'.reservations >= db.reservations]_db
    <2> SUFFICES ASSUME IInv, Next, Upgraded, db' # db
                 PROVE  db'.reservations >= db.reservations
      BY DEF vars
    <2>1. db \in Database /\ db.reservations \in Nat
      BY Rowed DEF Database
    <2>2. ASSUME NEW p \in Processes, CommitUpgrade(p)
          PROVE  FALSE
      BY <2>2, AtStage DEF CommitUpgrade
    <2>3. ASSUME NEW p \in Processes, CommitReconcile(p)
          PROVE  db'.reservations = db.reservations
      <3>1. tx.owner = p /\ pc[p] = "reconcile"
        BY <2>3 DEF CommitReconcile, In
      <3>2. ReconcileOK /\ tx.db \in Database
        BY <3>1, Owning
      <3>3. tx.db.reservations = db.reservations
        BY <3>2 DEF ReconcileOK
      <3>4. db'.reservations = tx.db.reservations
        BY <2>3, <3>2 DEF CommitReconcile, Database
      <3> QED
        BY <3>3, <3>4
    <2>4. ASSUME NEW p \in Processes, RecordUsage(p) \/ Reserve(p) \/ Release(p)
          PROVE  db'.reservations >= db.reservations
      <3>1. CASE RecordUsage(p)
        <4>1. PICK rows : db' = [db EXCEPT !.rows = rows]
          BY <3>1, Zenon DEF RecordUsage
        <4> QED
          BY <2>1, <4>1 DEF Database
      <3>2. CASE Reserve(p)
        <4>1. db' = [db EXCEPT !.reservations = @ + 1]
          BY <3>2 DEF Reserve
        <4> QED
          BY <2>1, <4>1 DEF Database
      <3>3. CASE Release(p)
        <4>1. PICK r : db' = Freeing(db, r, now)
          BY <3>3, Zenon DEF Release, Freeing, Freed
        <4> QED
          BY <2>1, <4>1 DEF Database, Freeing
      <3> QED
        BY <2>4, <3>1, <3>2, <3>3
    <2>5. ASSUME NEW p \in Processes, ~CommitUpgrade(p), ~CommitReconcile(p), Step(p)
          PROVE  db' = db
      <3>1. CASE ReadVersion(p) \/ Begin(p) \/ BindSecret(p) \/ CreateSecret(p) \/ WriteSecret(p)
        BY <3>1, Zenon DEF ReadVersion, Begin, BindSecret, CreateSecret, WriteSecret
      <3>2. CASE NormalizeResets(p) \/ DiscardReservations(p) \/ MigrateProviderKeys(p)
        BY <3>2, Zenon DEF NormalizeResets, DiscardReservations, MigrateProviderKeys
      <3>3. CASE BeginRewrite(p) \/ RewriteRow(p) \/ FinishRewrite(p)
        BY <3>3, Zenon DEF BeginRewrite, RewriteRow, FinishRewrite
      <3>4. CASE VerifyBinding(p) \/ LoadMarkers(p) \/ BeginReconcile(p)
        BY <3>4, Zenon DEF VerifyBinding, LoadMarkers, BeginReconcile
      <3> QED
        BY <2>5, <3>1, <3>2, <3>3, <3>4 DEF Step
    <2>6. ASSUME NEW p \in Processes, Fail(p) \/ Crash(p) \/ Close(p)
          PROVE  db' = db
      BY <2>6, Zenon DEF Fail, Crash, Close
    <2>7. CASE Reconfigure \/ ReplaceSecret \/ Tick
      BY <2>7, Zenon DEF Reconfigure, ReplaceSecret, Tick
    <2> QED
      BY <2>1, <2>2, <2>3, <2>4, <2>5, <2>6, <2>7 DEF Next
  <1> QED
    BY Invariant, <1>1, PTL DEF Spec, ReservationsAreKept
=============================================================================
