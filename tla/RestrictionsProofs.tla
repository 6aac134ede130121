------------------------- MODULE RestrictionsProofs -------------------------
(***************************************************************************)
(* Proofs about Restrictions, for any number of callbacks, any scenes,     *)
(* threshold, ban length and bounds.                                       *)
(***************************************************************************)
EXTENDS Restrictions, WellFoundedInduction, TLAPS

(* Facts about the rows of the logs and the steps of a round.              *)

\* A set of bounded naturals that is not empty has a greatest element.
LEMMA GreatestExists ==
  ASSUME NEW S \in SUBSET Nat, S # {}, NEW bound \in Nat, \A s \in S : s <= bound
  PROVE  \E m \in S : \A s \in S : s <= m
  <1> DEFINE less == {ss \in Nat \X Nat : ss[1] < ss[2]}
             T == {bound - s : s \in S}
  <1>1. T \subseteq Nat /\ T # {}
    <2>1. \A s \in S : s \in Nat /\ bound - s \in Nat
      OBVIOUS
    <2>2. T \subseteq Nat
      BY <2>1
    <2>3. PICK s \in S : TRUE
      OBVIOUS
    <2>4. bound - s \in T
      BY <2>3
    <2> QED
      BY <2>2, <2>4
  <1>2. IsWellFoundedOn(less, Nat)
    BY NatLessThanWellFounded DEF OpToRel
  <1>3. \A x, y \in Nat : << y, x >> \in less <=> y < x
    OBVIOUS
  <1> HIDE DEF less
  <1>4. PICK x \in T : \A y \in T : ~(<< y, x >> \in less)
    <2> HIDE DEF T
    <2> QED
      BY <1>1, <1>2, WFMin
  <1>5. PICK m \in S : x = bound - m
    BY <1>4
  <1>6. \A s \in S : s <= m
    <2> TAKE s \in S
    <2>1. bound - s \in T /\ x \in Nat /\ bound - s \in Nat
      BY <1>1
    <2>2. ~(bound - s < x)
      BY <1>3, <1>4, <2>1
    <2> QED
      BY <1>5, <2>1, <2>2
  <1> QED
    BY <1>6

\* The latest row of a log that is not empty is one of its rows, and no row is later.
LEMMA LatestIsNewest ==
  ASSUME NEW log \in Seq(Event), log # << >>
  PROVE  \E i \in DOMAIN log :
           /\ Latest(log) = log[i] /\ log[i] \in Event /\ i \in Nat /\ log[i].at \in Nat
           /\ \A j \in DOMAIN log :
                /\ log[j].at \in Nat /\ j \in Nat
                /\ log[j].at < log[i].at \/ (log[j].at = log[i].at /\ j <= i)
  <1> USE BoundsAssumption DEF Time
  <1> DEFINE times == {log[i].at : i \in DOMAIN log}
  <1>1. /\ DOMAIN log = 1 .. Len(log) /\ Len(log) \in Nat \ {0}
        /\ \A i \in DOMAIN log : log[i] \in Event /\ log[i].at \in 0 .. Horizon
    <2>1. Len(log) \in Nat /\ DOMAIN log = 1 .. Len(log) /\ \A i \in DOMAIN log : log[i] \in Event
      OBVIOUS
    <2>2. Len(log) # 0
      BY <2>1
    <2>3. \A e \in Event : e.at \in 0 .. Horizon
      BY DEF Event
    <2> QED
      BY <2>1, <2>2, <2>3
  <1>2. PICK t \in times : \A u \in times : u <= t
    <2>1. times \in SUBSET Nat /\ times # {} /\ \A u \in times : u <= Horizon
      BY <1>1
    <2> HIDE DEF times
    <2> QED
      BY <2>1, GreatestExists
  <1> DEFINE places == {i \in DOMAIN log : log[i].at = t}
  <1>3. PICK i \in places : \A j \in places : j <= i
    <2>1. places \in SUBSET Nat /\ places # {} /\ \A j \in places : j <= Len(log)
      BY <1>1
    <2> HIDE DEF places
    <2> QED
      BY <1>1, <2>1, GreatestExists
  <1>4. \A j \in DOMAIN log : log[j].at < log[i].at \/ (log[j].at = log[i].at /\ j <= i)
    <2> TAKE j \in DOMAIN log
    <2>1. log[j].at \in times /\ log[j].at \in Nat /\ log[i].at = t /\ t \in Nat
      BY <1>1, <1>3
    <2>2. log[j].at <= t
      BY <1>2, <2>1
    <2> QED
      BY <1>3, <2>1, <2>2
  <1>5. \E k \in DOMAIN log : \A j \in DOMAIN log :
          log[j].at < log[k].at \/ (log[j].at = log[k].at /\ j <= k)
    BY <1>3, <1>4
  <1> DEFINE newest == CHOOSE k \in DOMAIN log : \A j \in DOMAIN log :
                         log[j].at < log[k].at \/ (log[j].at = log[k].at /\ j <= k)
  <1>6. /\ newest \in DOMAIN log
        /\ \A j \in DOMAIN log : log[j].at < log[newest].at \/ (log[j].at = log[newest].at /\ j <= newest)
    BY <1>5
  <1>7. Latest(log) = log[newest]
    BY DEF Latest
  <1> HIDE DEF newest
  <1> QED
    BY <1>1, <1>6, <1>7

LEMMA LatestIsARow ==
  ASSUME NEW log \in Seq(Event), log # << >>
  PROVE  Latest(log) \in Event
  BY LatestIsNewest

\* Every phase before the last one is followed by one.
LEMMA PhaseFollows ==
  ASSUME NEW ph \in {"backfill", "deactivatedUsage", "deactivatedRuns", "replaced"} \cup LiftPhases
  PROVE  PhaseAfter(ph) \in PhaseNames
  <1>1. PICK i \in 1 .. 9 : Phases[i] = ph
    <2>1. /\ Phases[1] = "backfill" /\ Phases[2] = "deactivatedUsage" /\ Phases[3] = "deactivatedRuns"
          /\ Phases[4] = "reconcile" /\ Phases[5] = "recoverInvalid" /\ Phases[6] = "recoverBan"
          /\ Phases[7] = "replaced" /\ Phases[8] = "missingInvalid" /\ Phases[9] = "missingBan"
      BY DEF Phases
    <2> QED
      BY <2>1 DEF LiftPhases
  <1>2. DOMAIN Phases = 1 .. 10 /\ Phases[10] = "refresh"
    BY DEF Phases
  <1> DEFINE found == CHOOSE k \in DOMAIN Phases : Phases[k] = ph
  <1>3. found \in DOMAIN Phases /\ Phases[found] = ph
    BY <1>1, <1>2
  <1>4. PhaseAfter(ph) = Phases[found + 1]
    BY DEF PhaseAfter
  <1> HIDE DEF found
  <1>5. ph # "refresh"
    BY DEF LiftPhases
  <1>6. found + 1 \in DOMAIN Phases
    BY <1>2, <1>3, <1>5
  <1> QED
    BY <1>4, <1>6 DEF PhaseNames


-----------------------------------------------------------------------------
(* Types                                                                   *)

\* The moments and the resets are what the clock can reach.
LEMMA Bounds ==
  /\ Moments = 0 .. Horizon /\ Time = 1 .. Horizon /\ Time \subseteq Moments
  /\ 0 \in Moments /\ 1 \in Time /\ Horizon \in Nat
  /\ Resets \subseteq Nat /\ Horizon + Fallback \in Resets
  /\ \A t \in Time : t + Fallback \in Resets
  BY BoundsAssumption DEF Moments, Time, Resets

LEMMA AnswersTyped ==
  ASSUME NEW kinds, NEW a \in Answers(kinds)
  PROVE  a.kind \in Kinds /\ a.reset \in Resets \cup {0}
  <1>1. a \in AllAnswers
    BY DEF Answers
  <1> QED
    BY <1>1, Bounds DEF AllAnswers, Kinds

LEMMA TypesInit == Init => TypeOK
  <1> SUFFICES ASSUME Init PROVE TypeOK
    OBVIOUS
  <1>1. NoWork \in Jobs
    BY Bounds DEF NoWork, Jobs, Kinds
  <1>2. Resting \in Rounds
    BY Bounds DEF Resting, Rounds
  <1>3. /\ usage \in Seq(Event) /\ runs \in Seq(Event)
        /\ stale \in BOOLEAN /\ quiet \in BOOLEAN /\ throughout \in BOOLEAN
    <2>1. usage = << >> /\ runs = << >> /\ stale = FALSE /\ quiet = FALSE /\ throughout = FALSE
      BY DEF Init
    <2>2. << >> \in Seq(Event)
      OBVIOUS
    <2> QED
      BY <2>1, <2>2
  <1>7. clock \in Time /\ maint \in Rounds
    <2>1. clock = 1 /\ maint = Resting
      BY DEF Init
    <2> QED
      BY <1>2, <2>1, Bounds
  <1>6. work \in [Reporters -> Jobs]
    <2>1. work = [r \in Reporters |-> NoWork]
      BY DEF Init
    <2> QED
      BY <1>1, <2>1
  <1>4. /\ ban \in BanRows
        /\ invalid \in [active : BOOLEAN, at : Moments]
        /\ file \in [present : BOOLEAN, mtime : Moments]
    BY Bounds DEF Init, BanRows
  <1>5. pick \in [pc : {"idle", "bans", "invalids", "publish"}, now : Moments, banned : BOOLEAN, invalid : BOOLEAN]
    BY Bounds DEF Init, NoPick
  <1> QED
    BY <1>3, <1>4, <1>5, <1>6, <1>7 DEF TypeOK

\* The history variables are Booleans, and the manager's memory has no type.
LEMMA HistoryTyped ==
  ASSUME ObserveHistory
  PROVE  throughout' \in BOOLEAN /\ quiet' \in BOOLEAN
  BY DEF ObserveHistory

LEMMA AnnounceTyped ==
  ASSUME NEW changed \in BOOLEAN, AnnounceIf(changed)
  PROVE  stale' \in BOOLEAN
  BY DEF AnnounceIf

\* A reporter that goes on, ends, or begins anew.
Ats == {"idle", "sent", "post", "writing", "clearing", "recording", "counting", "reconcile", "lifting"}
LEMMA WorkTyped ==
  ASSUME TypeOK, NEW r \in Reporters
  PROVE  /\ [work EXCEPT ![r] = NoWork] \in [Reporters -> Jobs]
         /\ \A at \in Ats : [work EXCEPT ![r].pc = at] \in [Reporters -> Jobs]
         /\ \A at \in Ats, t \in Moments :
              [work EXCEPT ![r] = [NoWork EXCEPT !.pc = at, !.started = t]] \in [Reporters -> Jobs]
         /\ \A at \in Ats, kind \in Kinds, reset \in Resets \cup {0} :
              [work EXCEPT ![r].pc = at, ![r].kind = kind, ![r].reset = reset] \in [Reporters -> Jobs]
         /\ \A at \in Ats, t \in Moments, kind \in Kinds, reset \in Resets \cup {0} :
              [work EXCEPT ![r].pc = at, ![r].finished = t, ![r].kind = kind, ![r].reset = reset]
                \in [Reporters -> Jobs]
         /\ \A at \in Ats, b \in BOOLEAN :
              [work EXCEPT ![r].pc = at, ![r].lifted = b] \in [Reporters -> Jobs]
  <1>1. work \in [Reporters -> Jobs] /\ work[r] \in Jobs
    BY DEF TypeOK
  <1>2. NoWork \in Jobs
    BY Bounds DEF NoWork, Jobs, Kinds
  <1>3. \A job \in Jobs : [work EXCEPT ![r] = job] \in [Reporters -> Jobs]
    BY <1>1
  <1>4. ASSUME NEW at \in Ats PROVE [work EXCEPT ![r].pc = at] \in [Reporters -> Jobs]
    <2>1. [work[r] EXCEPT !.pc = at] \in Jobs
      BY <1>1 DEF Jobs, Ats
    <2> QED
      BY <1>1, <1>3, <2>1
  <1>5. ASSUME NEW at \in Ats, NEW t \in Moments
        PROVE  [work EXCEPT ![r] = [NoWork EXCEPT !.pc = at, !.started = t]] \in [Reporters -> Jobs]
    <2>1. [NoWork EXCEPT !.pc = at, !.started = t] \in Jobs
      BY <1>2 DEF Jobs, Ats
    <2> QED
      BY <1>3, <2>1
  <1>6. ASSUME NEW at \in Ats, NEW kind \in Kinds, NEW reset \in Resets \cup {0}
        PROVE  [work EXCEPT ![r].pc = at, ![r].kind = kind, ![r].reset = reset] \in [Reporters -> Jobs]
    <2>1. [work[r] EXCEPT !.pc = at, !.kind = kind, !.reset = reset] \in Jobs
      BY <1>1 DEF Jobs, Ats
    <2>2. [work EXCEPT ![r].pc = at, ![r].kind = kind, ![r].reset = reset]
            = [work EXCEPT ![r] = [work[r] EXCEPT !.pc = at, !.kind = kind, !.reset = reset]]
      BY <1>1
    <2> QED
      BY <1>3, <2>1, <2>2
  <1>7. ASSUME NEW at \in Ats, NEW t \in Moments, NEW kind \in Kinds, NEW reset \in Resets \cup {0}
        PROVE  [work EXCEPT ![r].pc = at, ![r].finished = t, ![r].kind = kind, ![r].reset = reset]
                 \in [Reporters -> Jobs]
    <2>1. [work[r] EXCEPT !.pc = at, !.finished = t, !.kind = kind, !.reset = reset] \in Jobs
      BY <1>1 DEF Jobs, Ats
    <2>2. [work EXCEPT ![r].pc = at, ![r].finished = t, ![r].kind = kind, ![r].reset = reset]
            = [work EXCEPT ![r] = [work[r] EXCEPT !.pc = at, !.finished = t, !.kind = kind, !.reset = reset]]
      BY <1>1
    <2> QED
      BY <1>3, <2>1, <2>2
  <1>8. ASSUME NEW at \in Ats, NEW b \in BOOLEAN
        PROVE  [work EXCEPT ![r].pc = at, ![r].lifted = b] \in [Reporters -> Jobs]
    <2>1. [work[r] EXCEPT !.pc = at, !.lifted = b] \in Jobs
      BY <1>1 DEF Jobs, Ats
    <2>2. [work EXCEPT ![r].pc = at, ![r].lifted = b]
            = [work EXCEPT ![r] = [work[r] EXCEPT !.pc = at, !.lifted = b]]
      BY <1>1
    <2> QED
      BY <1>3, <2>1, <2>2
  <1> QED
    BY <1>2, <1>3, <1>4, <1>5, <1>6, <1>7, <1>8

\* The rows that the steps write.
LEMMA RowsTyped ==
  ASSUME TypeOK
  PROVE  /\ [ban EXCEPT !.active = FALSE] \in BanRows
         /\ [ban EXCEPT !.active = FALSE, !.released = clock] \in BanRows
         /\ Expire(ban, clock) \in BanRows
         /\ [invalid EXCEPT !.active = FALSE] \in [active : BOOLEAN, at : Moments]
         /\ \A at \in Moments : [active |-> TRUE, at |-> at] \in [active : BOOLEAN, at : Moments]
         /\ \A at \in Moments, reset \in Resets \cup {0} : Ban(at, reset) \in BanRows
  BY Bounds DEF TypeOK, BanRows, Expire, Ban

LEMMA BackfilledBanTyped ==
  ASSUME TypeOK, NEW e \in Event
  PROVE  BackfilledBan(e) \in BanRows
  <1>1. ban \in BanRows /\ e.at \in Moments /\ e.reset \in Resets \cup {0} /\ ban.active \in BOOLEAN
        /\ ban.released \in Moments
    BY DEF TypeOK, BanRows, Event, Moments
  <1>2. \A b \in BOOLEAN, t \in Moments :
          [active |-> b, at |-> e.at, reset |-> e.reset, released |-> t] \in BanRows
    BY <1>1 DEF BanRows
  <1> QED
    BY <1>1, <1>2, Bounds DEF BackfilledBan

\* What the steps of a round leave behind.
LEMMA RoundsTyped ==
  ASSUME TypeOK
  PROVE  /\ Resting \in Rounds
         /\ \A b \in BOOLEAN, ph \in PhaseNames, now \in Moments :
              /\ [maint EXCEPT !.pc = ph, !.writing = FALSE, !.row = NoWork] \in Rounds
              /\ [maint EXCEPT !.pc = ph, !.present = b] \in Rounds
              /\ [Resting EXCEPT !.pc = ph, !.now = now, !.authoritative = b] \in Rounds
              /\ [Resting EXCEPT !.pc = ph] \in Rounds
              /\ [maint EXCEPT !.writing = b] \in Rounds
         /\ \A e \in Event : [maint EXCEPT !.writing = TRUE, !.row = e] \in Rounds
  <1>1. maint \in Rounds
    BY DEF TypeOK
  <1>2. Resting \in Rounds
    BY Bounds DEF Rounds, Resting
  <1>3. ASSUME NEW b \in BOOLEAN, NEW ph \in PhaseNames, NEW now \in Moments
        PROVE  /\ [maint EXCEPT !.pc = ph, !.writing = FALSE, !.row = NoWork] \in Rounds
               /\ [maint EXCEPT !.pc = ph, !.present = b] \in Rounds
               /\ [Resting EXCEPT !.pc = ph, !.now = now, !.authoritative = b] \in Rounds
               /\ [Resting EXCEPT !.pc = ph] \in Rounds
               /\ [maint EXCEPT !.writing = b] \in Rounds
    BY <1>1, <1>2 DEF Rounds
  <1>4. ASSUME NEW e \in Event PROVE [maint EXCEPT !.writing = TRUE, !.row = e] \in Rounds
    BY <1>1 DEF Rounds
  <1> QED
    BY <1>2, <1>3, <1>4

LEMMA AppendTyped ==
  ASSUME NEW log \in Seq(Event), NEW t \in Moments, NEW kind \in Kinds, NEW reset \in Resets \cup {0}
  PROVE  Append(log, [at |-> t, kind |-> kind, reset |-> reset]) \in Seq(Event)
  <1>1. [at |-> t, kind |-> kind, reset |-> reset] \in Event
    BY DEF Event, Moments
  <1> QED
    BY <1>1

LEMMA GoesTyped ==
  ASSUME TypeOK, NEW r \in Reporters, (\E at \in Ats : Goes(r, at)) \/ Ends(r) \/ AfterState(r)
  PROVE  work' \in [Reporters -> Jobs]
  <1>1. Ends(r) \/ \E at \in Ats : Goes(r, at)
    BY DEF AfterState, Ats
  <1> QED
    <2>1. CASE Ends(r)
      BY <2>1, WorkTyped DEF Ends
    <2>2. ASSUME NEW at \in Ats, Goes(r, at) PROVE work' \in [Reporters -> Jobs]
      <3>1. [work EXCEPT ![r].pc = at] \in [Reporters -> Jobs]
        BY WorkTyped
      <3> QED
        BY <2>2, <3>1 DEF Goes
    <2> QED
      BY <1>1, <2>1, <2>2

\* A step types the state when it types what it changes.
LEMMA ReporterTyped ==
  ASSUME TypeOK, NEW r \in Reporters, Report(r) \/ GivesUp(r)
  PROVE  TypeOK'
  <1>1. UNCHANGED << clock, usage, runs, file, maint, pick >> /\ ObserveHistory
    BY DEF Report, BeginWrite, BelowThreshold, CommitWrite, ClearInvalid, ClearBan, GivesUp, Observe, reports
  <1>2. work[r] \in Jobs /\ clock \in Time /\ work[r].started \in Moments /\ work[r].reset \in Resets \cup {0}
    BY DEF TypeOK, Jobs
  <1>3. stale' \in BOOLEAN
    <2>1. UNCHANGED stale \/ AnnounceIf(TRUE) \/ AnnounceIf(work[r].pc = "writing")
      BY DEF Report, BeginWrite, BelowThreshold, CommitWrite, ClearInvalid, ClearBan, GivesUp, Announce, OweIf
    <2> QED
      BY <2>1, AnnounceTyped DEF TypeOK
  <1>4. ban' \in BanRows
    <2>1. ASSUME CommitWrite(r) PROVE ban' = ban \/ \E t \in Moments, reset \in Resets \cup {0} : ban' = Ban(t, reset)
      BY <1>2, <2>1, Bounds DEF CommitWrite, UpsertBan, UpsertInvalid, UpsertForbidden
    <2>2. ASSUME Report(r) \/ GivesUp(r), ~CommitWrite(r) PROVE ban' \in {ban, [ban EXCEPT !.active = FALSE]}
      BY <2>2 DEF Report, BeginWrite, BelowThreshold, ClearInvalid, ClearBan, GivesUp, LiftBan
    <2>3. ban \in BanRows
      BY DEF TypeOK
    <2>4. CASE CommitWrite(r)
      BY <2>1, <2>3, <2>4, RowsTyped
    <2>5. CASE ~CommitWrite(r)
      BY <2>2, <2>3, <2>5, RowsTyped
    <2> QED
      BY <2>4, <2>5
  <1>5. invalid' \in [active : BOOLEAN, at : Moments]
    <2>1. ASSUME CommitWrite(r) PROVE invalid' = invalid \/ \E t \in Moments : invalid' = [active |-> TRUE, at |-> t]
      BY <1>2, <2>1, Bounds DEF CommitWrite, UpsertBan, UpsertInvalid, UpsertForbidden
    <2>2. ASSUME Report(r) \/ GivesUp(r), ~CommitWrite(r)
          PROVE  invalid' \in {invalid, [invalid EXCEPT !.active = FALSE]}
      BY <2>2 DEF Report, BeginWrite, BelowThreshold, ClearInvalid, ClearBan, GivesUp, LiftInvalid
    <2> QED
      BY <2>1, <2>2, RowsTyped DEF TypeOK
  <1>6. work' \in [Reporters -> Jobs]
    <2>1. ASSUME BeginWrite(r) \/ BelowThreshold(r) \/ CommitWrite(r) \/ ClearBan(r) \/ GivesUp(r)
          PROVE  work' \in [Reporters -> Jobs]
      <3>1. Goes(r, "writing") \/ Goes(r, "reconcile") \/ Ends(r) \/ AfterState(r)
        BY <2>1 DEF BeginWrite, BelowThreshold, CommitWrite, ClearBan, GivesUp
      <3>2. "writing" \in Ats /\ "reconcile" \in Ats
        BY DEF Ats
      <3> QED
        BY <3>1, <3>2, GoesTyped
    <2>2. ASSUME ClearInvalid(r) PROVE work' \in [Reporters -> Jobs]
      <3>1. RecoversInvalid(r) \in BOOLEAN
        BY DEF RecoversInvalid, TypeOK
      <3>2. work' = [work EXCEPT ![r].pc = "clearing", ![r].lifted = RecoversInvalid(r)]
        BY <2>2 DEF ClearInvalid
      <3> QED
        BY <3>1, <3>2, WorkTyped DEF Ats
    <2> QED
      BY <2>1, <2>2 DEF Report
  <1> QED
    BY <1>1, <1>3, <1>4, <1>5, <1>6, HistoryTyped DEF TypeOK

\* The rest of the state when only some of it is touched.
LEMMA TypesKept ==
  ASSUME TypeOK, ObserveHistory,
         clock' \in Time, usage' \in Seq(Event), runs' \in Seq(Event), ban' \in BanRows,
         invalid' \in [active : BOOLEAN, at : Moments], file' \in [present : BOOLEAN, mtime : Moments],
         work' \in [Reporters -> Jobs], maint' \in Rounds,
         pick' \in [pc : {"idle", "bans", "invalids", "publish"}, now : Moments, banned : BOOLEAN, invalid : BOOLEAN],
         stale' \in BOOLEAN
  PROVE  TypeOK'
  BY HistoryTyped DEF TypeOK

LEMMA RequestsTyped ==
  ASSUME TypeOK, \E c \in Callbacks : Send(c) \/ \E a \in Answers(scene.answers) : RecordUsage(c, a)
  PROVE  TypeOK'
  <1>1. PICK c \in Callbacks : Send(c) \/ \E a \in Answers(scene.answers) : RecordUsage(c, a)
    OBVIOUS
  <1>2. c \in Reporters /\ clock \in Moments /\ "sent" \in Ats /\ "post" \in Ats
    BY Bounds DEF Reporters, Ats, TypeOK
  <1>3. UNCHANGED << clock, runs, ban, invalid, file, maint, pick, stale >> /\ ObserveHistory
    BY <1>1 DEF Send, RecordUsage, Observe, reports
  <1>4. usage' \in Seq(Event) /\ work' \in [Reporters -> Jobs]
    <2>1. CASE Send(c)
      <3>1. usage' = usage /\ work' = [work EXCEPT ![c] = [NoWork EXCEPT !.pc = "sent", !.started = clock]]
        BY <2>1 DEF Send, reports
      <3> QED
        BY <1>2, <3>1, WorkTyped DEF TypeOK
    <2>2. ASSUME NEW a \in Answers(scene.answers), RecordUsage(c, a)
          PROVE  usage' \in Seq(Event) /\ work' \in [Reporters -> Jobs]
      <3>1. /\ usage' = Append(usage, [at |-> work[c].started, kind |-> a.kind, reset |-> a.reset])
            /\ work' = [work EXCEPT ![c].pc = "post", ![c].kind = a.kind, ![c].reset = a.reset]
        BY <2>2 DEF RecordUsage
      <3>2. a.kind \in Kinds /\ a.reset \in Resets \cup {0}
        BY AnswersTyped
      <3>3. work[c].started \in Moments /\ usage \in Seq(Event)
        BY <1>2 DEF TypeOK, Jobs
      <3> QED
        BY <1>2, <3>1, <3>2, <3>3, WorkTyped, AppendTyped
    <2> QED
      BY <1>1, <2>1, <2>2
  <1> QED
    BY <1>3, <1>4, TypesKept DEF TypeOK

LEMMA TriggerTyped ==
  ASSUME TypeOK,
         \/ StartTrigger \/ RecordRun \/ TriggerReconciles \/ TriggerLifts
         \/ \E a \in Answers(scene.probes) : AnswerProbe(a)
  PROVE  TypeOK'
  <1>1. /\ Trigger \in Reporters /\ clock \in Moments
        /\ {"sent", "post", "recording", "counting", "reconcile", "lifting"} \subseteq Ats
    BY Bounds DEF Reporters, Ats, TypeOK
  <1>2. UNCHANGED << clock, usage, file, maint, pick, stale >> /\ ObserveHistory
    BY DEF StartTrigger, RecordRun, TriggerReconciles, TriggerLifts, AnswerProbe, OweIf, Observe, reports
  <1>3. CASE StartTrigger
    <2>1. /\ runs' = runs /\ ban' = Expire(ban, clock)
          /\ invalid' \in {invalid, [invalid EXCEPT !.active = FALSE]}
          /\ work' = [work EXCEPT ![Trigger] = [NoWork EXCEPT !.pc = "sent", !.started = clock]]
      BY <1>3 DEF StartTrigger, reports
    <2>2. invalid' \in [active : BOOLEAN, at : Moments] /\ ban' \in BanRows
      BY <2>1, RowsTyped DEF TypeOK
    <2> QED
      BY <1>1, <1>2, <2>1, <2>2, WorkTyped, TypesKept DEF TypeOK
  <1>4. ASSUME NEW a \in Answers(scene.probes), AnswerProbe(a) PROVE TypeOK'
    <2>1. /\ UNCHANGED << runs, ban, invalid >>
          /\ \E at \in Ats : work' = [work EXCEPT ![Trigger].pc = at, ![Trigger].finished = clock,
                                                 ![Trigger].kind = a.kind, ![Trigger].reset = a.reset]
      BY <1>1, <1>4 DEF AnswerProbe, reports
    <2>2. a.kind \in Kinds /\ a.reset \in Resets \cup {0}
      BY AnswersTyped
    <2>3. work' \in [Reporters -> Jobs]
      <3>1. PICK at \in Ats : work' = [work EXCEPT ![Trigger].pc = at, ![Trigger].finished = clock,
                                                  ![Trigger].kind = a.kind, ![Trigger].reset = a.reset]
        BY <2>1
      <3>2. [work EXCEPT ![Trigger].pc = at, ![Trigger].finished = clock,
                         ![Trigger].kind = a.kind, ![Trigger].reset = a.reset] \in [Reporters -> Jobs]
        BY <1>1, <2>2, WorkTyped
      <3> QED
        BY <3>1, <3>2
    <2> QED
      BY <1>2, <2>1, <2>3, TypesKept DEF TypeOK
  <1>5. CASE RecordRun
    <2>1. /\ UNCHANGED << ban, invalid >>
          /\ runs' = Append(runs, [at |-> work[Trigger].finished, kind |-> work[Trigger].kind,
                                   reset |-> work[Trigger].reset])
          /\ \E at \in Ats : Goes(Trigger, at)
      BY <1>1, <1>5 DEF RecordRun
    <2>2. work[Trigger] \in Jobs
      BY <1>1 DEF TypeOK
    <2>3. runs' \in Seq(Event)
      BY <2>1, <2>2, AppendTyped DEF TypeOK, Jobs
    <2> QED
      BY <1>1, <1>2, <2>1, <2>3, GoesTyped, TypesKept DEF TypeOK
  <1>6. CASE TriggerReconciles \/ TriggerLifts
    <2>1. /\ UNCHANGED << runs, invalid >> /\ ban' \in {ban, [ban EXCEPT !.active = FALSE]}
          /\ (\E at \in Ats : Goes(Trigger, at)) \/ Ends(Trigger)
      BY <1>1, <1>6 DEF TriggerReconciles, TriggerLifts, LiftBan, reports
    <2>2. ban' \in BanRows
      BY <2>1, RowsTyped DEF TypeOK
    <2> QED
      BY <1>1, <1>2, <2>1, <2>2, GoesTyped, TypesKept DEF TypeOK
  <1> QED
    BY <1>3, <1>4, <1>5, <1>6

LEMMA AdministratorTyped ==
  ASSUME TypeOK, Release \/ ReplaceFile \/ RemoveFile
  PROVE  TypeOK'
  <1>1. UNCHANGED << clock, usage, runs, invalid, work, maint, pick, stale >> /\ ObserveHistory
    BY DEF Release, ReplaceFile, RemoveFile, OweIf, Observe, reports
  <1>2. ban' \in BanRows
    <2>1. ban' \in {ban, [ban EXCEPT !.active = FALSE, !.released = clock]}
      BY DEF Release, ReplaceFile, RemoveFile
    <2> QED
      BY <2>1, RowsTyped DEF TypeOK
  <1>3. file' \in [present : BOOLEAN, mtime : Moments]
    <2>1. file \in [present : BOOLEAN, mtime : Moments] /\ clock \in Moments
      BY Bounds DEF TypeOK
    <2>2. file' = file \/ file' = [present |-> TRUE, mtime |-> clock] \/ file' = [file EXCEPT !.present = FALSE]
      BY DEF Release, ReplaceFile, RemoveFile
    <2>3. [present |-> TRUE, mtime |-> clock] \in [present : BOOLEAN, mtime : Moments]
      BY <2>1
    <2>4. [file EXCEPT !.present = FALSE] \in [present : BOOLEAN, mtime : Moments]
      BY <2>1
    <2> QED
      BY <2>1, <2>2, <2>3, <2>4
  <1> QED
    BY <1>1, <1>2, <1>3, TypesKept DEF TypeOK

LEMMA PickTyped ==
  ASSUME TypeOK, StartPick \/ ReadBans \/ ReadInvalids \/ EndPick \/ AnnounceLift \/ Tick
  PROVE  TypeOK'
  <1>1. UNCHANGED << usage, runs, ban, invalid, file, work, maint >> /\ ObserveHistory
    BY DEF StartPick, ReadBans, ReadInvalids, EndPick, AnnounceLift, Tick, Observe, reports
  <1>2. clock' \in Time
    BY Bounds DEF StartPick, ReadBans, ReadInvalids, EndPick, AnnounceLift, Tick, TypeOK
  <1>3. stale' \in BOOLEAN
    BY DEF StartPick, ReadBans, ReadInvalids, EndPick, AnnounceLift, Tick, TypeOK
  <1>4. pick' \in [pc : {"idle", "bans", "invalids", "publish"}, now : Moments, banned : BOOLEAN, invalid : BOOLEAN]
    <2>1. /\ pick \in [pc : {"idle", "bans", "invalids", "publish"}, now : Moments, banned : BOOLEAN,
                       invalid : BOOLEAN]
          /\ clock \in Moments /\ ban.active \in BOOLEAN /\ invalid.active \in BOOLEAN /\ 0 \in Moments
      BY Bounds DEF TypeOK, BanRows
    <2>2. CASE StartPick
      <3>1. pick' = [pc |-> "bans", now |-> clock, banned |-> FALSE, invalid |-> FALSE]
        BY <2>2 DEF StartPick, NoPick
      <3> QED
        BY <2>1, <3>1
    <2>5. CASE EndPick
      <3>1. pick' = [pc |-> "idle", now |-> 0, banned |-> FALSE, invalid |-> FALSE]
        BY <2>5 DEF EndPick, NoPick
      <3> QED
        BY <2>1, <3>1
    <2>3. CASE ReadBans \/ ReadInvalids
      BY <2>1, <2>3 DEF ReadBans, ReadInvalids
    <2>4. CASE AnnounceLift \/ Tick
      BY <2>1, <2>4 DEF AnnounceLift, Tick
    <2> QED
      BY <2>2, <2>3, <2>4, <2>5
  <1> QED
    BY <1>1, <1>2, <1>3, <1>4, TypesKept DEF TypeOK

-----------------------------------------------------------------------------
(* A round writes what it read: no phase begins with a write to do, and    *)
(* the row to backfill is one of the log's.                                *)

BackfillPhases == {"backfill", "deactivatedUsage", "deactivatedRuns"}
RowRead ==
  maint.writing => maint.pc \in LiftPhases \/ (maint.pc \in BackfillPhases /\ maint.row \in Event)

Types == TypeOK /\ RowRead

LEMMA ReadsTyped ==
  ASSUME Types, ReadBackfill \/ ReadLift \/ ClearReplaced \/ EndMaintenance \/ MaintenanceFails
  PROVE  maint' \in Rounds /\ RowRead'
  <1>1. maint \in Rounds /\ Resting \in Rounds /\ TypeOK /\ RowRead
    BY RoundsTyped DEF Types, TypeOK
  <1>2. Resting.writing = FALSE
    BY DEF Resting
  <1>3. CASE EndMaintenance \/ MaintenanceFails
    BY <1>1, <1>2, <1>3 DEF EndMaintenance, MaintenanceFails, RowRead
  <1>4. ASSUME Advance, maint.pc \in BackfillPhases \cup LiftPhases
        PROVE  maint' \in Rounds /\ RowRead'
    <2>1. PhaseAfter(maint.pc) \in PhaseNames
      BY <1>4, PhaseFollows DEF BackfillPhases
    <2>2. maint' = [maint EXCEPT !.pc = PhaseAfter(maint.pc), !.writing = FALSE, !.row = NoWork]
      BY <1>4 DEF Advance
    <2>3. maint'.writing = FALSE
      BY <1>1, <2>2 DEF Rounds
    <2> QED
      BY <1>1, <2>1, <2>2, <2>3, RoundsTyped, Bounds DEF RowRead
  <1>5. CASE ReadBackfill
    <2>1. CASE BackfillWanted
      <3>1. maint' = [maint EXCEPT !.writing = TRUE, !.row = Latest(BackfillLog)] /\ maint.pc \in BackfillPhases
        BY <1>5, <2>1 DEF ReadBackfill, BackfillPhases
      <3>2. BackfillLog \in Seq(Event) /\ BackfillLog # << >>
        BY <1>1, <2>1 DEF BackfillWanted, BackfillLog, Backfillable, DeactivatedIn, TypeOK
      <3>3. Latest(BackfillLog) \in Event
        BY <3>2, LatestIsARow
      <3>4. maint'.pc = maint.pc /\ maint'.row = Latest(BackfillLog)
        BY <1>1, <3>1 DEF Rounds
      <3> QED
        BY <1>1, <3>1, <3>3, <3>4, RoundsTyped DEF RowRead
    <2>2. CASE ~BackfillWanted
      BY <1>4, <1>5, <2>2 DEF ReadBackfill, BackfillPhases
    <2> QED
      BY <2>1, <2>2
  <1>6. CASE ReadLift
    <2>1. CASE Advance
      BY <1>4, <1>6, <2>1 DEF ReadLift
    <2>2. CASE ~Advance
      <3>1. maint' = [maint EXCEPT !.writing = TRUE] /\ maint.pc \in LiftPhases
        BY <1>6, <2>2 DEF ReadLift
      <3>2. PhaseNames # {} /\ 0 \in Moments
        BY Bounds, PhaseFollows DEF LiftPhases
      <3>3. maint' \in Rounds
        BY <1>1, <3>1 DEF Rounds
      <3>4. maint'.pc = maint.pc
        BY <1>1, <3>1 DEF Rounds
      <3> QED
        BY <3>1, <3>3, <3>4 DEF RowRead
    <2> QED
      BY <2>1, <2>2
  <1>7. CASE ClearReplaced
    <2>1. /\ maint' = [maint EXCEPT !.pc = PhaseAfter("replaced"), !.present = file.present \/ ~maint.authoritative]
          /\ maint.pc = "replaced"
      BY <1>7 DEF ClearReplaced
    <2>2. ~maint.writing /\ maint.writing \in BOOLEAN /\ (file.present \/ ~maint.authoritative) \in BOOLEAN
      BY <1>1, <2>1 DEF RowRead, LiftPhases, BackfillPhases, Rounds
    <2>3. PhaseAfter("replaced") \in PhaseNames
      BY PhaseFollows
    <2>4. maint' \in Rounds
      BY <1>1, <2>1, <2>2, <2>3 DEF Rounds
    <2>5. maint'.writing = maint.writing
      BY <1>1, <2>1 DEF Rounds
    <2> QED
      BY <2>2, <2>4, <2>5 DEF RowRead
  <1> QED
    BY <1>3, <1>5, <1>6, <1>7

LEMMA WritesTyped ==
  ASSUME Types, WriteBackfill \/ WriteLift
  PROVE  /\ maint' \in Rounds /\ RowRead'
         /\ ban' \in BanRows /\ invalid' \in [active : BOOLEAN, at : Moments]
  <1>1. /\ maint \in Rounds /\ TypeOK /\ RowRead /\ ban \in BanRows
        /\ invalid \in [active : BOOLEAN, at : Moments]
    BY DEF Types, TypeOK
  <1>2. maint.writing /\ maint.pc \in BackfillPhases \cup LiftPhases /\ Advance
    BY DEF WriteBackfill, WriteLift, BackfillPhases
  <1>3. maint' \in Rounds /\ RowRead'
    <2>1. PhaseAfter(maint.pc) \in PhaseNames
      BY <1>2, PhaseFollows DEF BackfillPhases
    <2>2. maint' = [maint EXCEPT !.pc = PhaseAfter(maint.pc), !.writing = FALSE, !.row = NoWork]
      BY <1>2 DEF Advance
    <2>3. maint'.writing = FALSE
      BY <1>1, <2>2 DEF Rounds
    <2> QED
      BY <1>1, <2>1, <2>2, <2>3, RoundsTyped, Bounds DEF RowRead
  <1>4. ASSUME WriteBackfill PROVE ban' \in BanRows /\ invalid' \in [active : BOOLEAN, at : Moments]
    <2>1. maint.row \in Event
      <3>1. maint.pc \notin LiftPhases
        BY <1>4 DEF WriteBackfill, LiftPhases
      <3> QED
        BY <1>1, <1>2, <3>1 DEF RowRead
    <2>2. maint.row.at \in Moments
      BY <2>1 DEF Event, Moments
    <2>3. \/ ban' = BackfilledBan(maint.row) /\ invalid' = invalid
          \/ ban' = ban /\ invalid' = [active |-> TRUE, at |-> maint.row.at]
      BY <1>4 DEF WriteBackfill
    <2>4. BackfilledBan(maint.row) \in BanRows
      BY <1>1, <2>1, BackfilledBanTyped
    <2>5. [active |-> TRUE, at |-> maint.row.at] \in [active : BOOLEAN, at : Moments]
      BY <2>2
    <2> QED
      BY <1>1, <2>3, <2>4, <2>5
  <1>5. ASSUME WriteLift PROVE ban' \in BanRows /\ invalid' \in [active : BOOLEAN, at : Moments]
    <2>1. \/ invalid' = [invalid EXCEPT !.active = FALSE] /\ ban' = ban
          \/ ban' = [ban EXCEPT !.active = FALSE] /\ invalid' = invalid
      BY <1>5 DEF WriteLift, LiftInvalid, LiftBan
    <2> QED
      BY <1>1, <2>1, RowsTyped
  <1> QED
    BY <1>3, <1>4, <1>5

LEMMA MaintenanceTyped ==
  ASSUME Types, MaintenanceStep \/ MaintenanceFails
  PROVE  Types'
  <1>1. TypeOK
    BY DEF Types
  <1>2. UNCHANGED << clock, usage, runs, file, work, pick >> /\ ObserveHistory
    BY DEF MaintenanceStep, ReadBackfill, WriteBackfill, ReadLift, WriteLift, ClearReplaced, EndMaintenance,
           MaintenanceFails, Observe, reports
  <1>3. maint' \in Rounds /\ RowRead'
    BY ReadsTyped, WritesTyped DEF MaintenanceStep
  <1>4. ban' \in BanRows /\ invalid' \in [active : BOOLEAN, at : Moments]
    <2>1. ASSUME ReadBackfill \/ ReadLift \/ ClearReplaced \/ EndMaintenance \/ MaintenanceFails
          PROVE  ban' = ban /\ invalid' \in {invalid, [invalid EXCEPT !.active = FALSE]}
      BY <2>1 DEF ReadBackfill, ReadLift, ClearReplaced, EndMaintenance, MaintenanceFails, LiftInvalid
    <2>2. ban \in BanRows /\ invalid \in [active : BOOLEAN, at : Moments]
      BY <1>1 DEF TypeOK
    <2>3. CASE WriteBackfill \/ WriteLift
      BY <2>3, WritesTyped
    <2>4. CASE ReadBackfill \/ ReadLift \/ ClearReplaced \/ EndMaintenance \/ MaintenanceFails
      BY <1>1, <2>1, <2>2, <2>4, RowsTyped
    <2> QED
      BY <2>3, <2>4 DEF MaintenanceStep
  <1>5. stale' \in BOOLEAN
    <2>1. UNCHANGED stale \/ \E changed \in BOOLEAN : AnnounceIf(changed)
      <3>1. ASSUME ReadBackfill \/ WriteBackfill PROVE UNCHANGED stale \/ AnnounceIf(TRUE)
        BY <3>1 DEF ReadBackfill, WriteBackfill, Announce
      <3>2. ASSUME MaintenanceFails PROVE AnnounceIf(maint.writing /\ maint.pc \notin LiftPhases)
        BY <3>2 DEF MaintenanceFails
      <3>3. ASSUME ReadLift \/ WriteLift \/ ClearReplaced \/ EndMaintenance PROVE UNCHANGED stale
        BY <3>3 DEF ReadLift, WriteLift, ClearReplaced, EndMaintenance, OweIf
      <3>4. (maint.writing /\ maint.pc \notin LiftPhases) \in BOOLEAN
        BY <1>1 DEF TypeOK, Rounds
      <3> QED
        BY <3>1, <3>2, <3>3, <3>4 DEF MaintenanceStep
    <2>2. stale \in BOOLEAN
      BY <1>1 DEF TypeOK
    <2> QED
      BY <2>1, <2>2, AnnounceTyped
  <1> QED
    BY <1>1, <1>2, <1>3, <1>4, <1>5, TypesKept DEF TypeOK, Types

LEMMA RoundTyped ==
  ASSUME Types, NEW full \in BOOLEAN, NEW authoritative \in BOOLEAN, Round(full, authoritative)
  PROVE  Types'
  <1>1. TypeOK /\ clock \in Moments /\ "backfill" \in PhaseNames /\ "refresh" \in PhaseNames
    <2>1. Phases[1] = "backfill" /\ Phases[10] = "refresh" /\ DOMAIN Phases = 1 .. 10
      BY DEF Phases
    <2>2. Phases[1] \in PhaseNames /\ Phases[10] \in PhaseNames
      BY <2>1 DEF PhaseNames
    <2> QED
      BY <2>1, <2>2, Bounds DEF Types, TypeOK
  <1>2. UNCHANGED << clock, usage, runs, invalid, file, work, pick, stale >> /\ ObserveHistory
    BY DEF Round, OweIf, Observe, reports
  <1>3. ban' \in BanRows
    BY <1>1, RowsTyped DEF Round
  <1>4. maint' \in Rounds /\ RowRead'
    <2>1. \/ maint' = [Resting EXCEPT !.pc = "backfill", !.now = clock, !.authoritative = authoritative]
          \/ maint' = [Resting EXCEPT !.pc = "refresh"]
      BY DEF Round
    <2>2. maint'.writing = FALSE
      BY <2>1 DEF Resting
    <2>3. maint' \in Rounds
      <3>1. [Resting EXCEPT !.pc = "backfill", !.now = clock, !.authoritative = authoritative] \in Rounds
        BY <1>1, RoundsTyped
      <3>2. [Resting EXCEPT !.pc = "refresh"] \in Rounds
        BY <1>1, RoundsTyped
      <3> QED
        BY <2>1, <3>1, <3>2
    <2> QED
      BY <2>2, <2>3 DEF RowRead
  <1> QED
    BY <1>1, <1>2, <1>3, <1>4, TypesKept DEF TypeOK, Types

LEMMA RestartTyped ==
  ASSUME Types, Restart
  PROVE  Types'
  <1>1. TypeOK
    BY DEF Types
  <1>2. UNCHANGED << clock, usage, runs, ban, invalid, file >> /\ ObserveHistory /\ stale' = FALSE
    BY DEF Restart, reports
  <1>3. maint' \in Rounds /\ RowRead'
    <2>1. maint' = Resting /\ Resting.writing = FALSE
      BY DEF Restart, Resting
    <2> QED
      BY <1>1, <2>1, RoundsTyped DEF RowRead
  <1>4. work' \in [Reporters -> Jobs]
    <2>1. NoWork \in Jobs
      BY Bounds DEF NoWork, Jobs, Kinds
    <2> QED
      BY <2>1 DEF Restart
  <1>5. pick' \in [pc : {"idle", "bans", "invalids", "publish"}, now : Moments, banned : BOOLEAN, invalid : BOOLEAN]
    <2>1. pick' = [pc |-> "idle", now |-> 0, banned |-> FALSE, invalid |-> FALSE]
      BY DEF Restart, NoPick
    <2> QED
      BY <2>1, Bounds
  <1> QED
    BY <1>1, <1>2, <1>3, <1>4, <1>5, TypesKept DEF TypeOK, Types

LEMMA TypesStep == Types /\ [Next]_vars => Types'
  <1> SUFFICES ASSUME Types, [Next]_vars PROVE Types'
    OBVIOUS
  <1>1. CASE UNCHANGED vars
    BY <1>1 DEF vars, reports, Types, TypeOK, RowRead
  <1>2. ASSUME TypeOK', maint' = maint PROVE Types'
    BY <1>2 DEF Types, RowRead
  <1>3. ASSUME \/ \E c \in Callbacks : Send(c) \/ \E a \in Answers(scene.answers) : RecordUsage(c, a)
               \/ StartTrigger \/ RecordRun \/ TriggerReconciles \/ TriggerLifts
               \/ \E a \in Answers(scene.probes) : AnswerProbe(a)
               \/ \E r \in Reporters : Report(r) \/ GivesUp(r)
               \/ Release \/ ReplaceFile \/ RemoveFile
               \/ StartPick \/ ReadBans \/ ReadInvalids \/ EndPick \/ AnnounceLift \/ Tick
        PROVE  Types'
    <2>1. TypeOK
      BY DEF Types
    <2>2. TypeOK'
      BY <1>3, <2>1, RequestsTyped, TriggerTyped, ReporterTyped, AdministratorTyped, PickTyped
    <2>3. maint' = maint
      BY <1>3 DEF Send, RecordUsage, StartTrigger, RecordRun, TriggerReconciles, TriggerLifts, AnswerProbe,
             Report, BeginWrite, BelowThreshold, CommitWrite, ClearInvalid, ClearBan, GivesUp,
             Release, ReplaceFile, RemoveFile, StartPick, ReadBans, ReadInvalids, EndPick, AnnounceLift, Tick
    <2> QED
      BY <1>2, <2>2, <2>3
  <1>4. ASSUME NEW authoritative \in BOOLEAN, StartMaintenance(authoritative) \/ RefreshDashboard(authoritative)
        PROVE  Types'
    <2>1. (manager.file # file) \in BOOLEAN
      OBVIOUS
    <2>2. \E full \in BOOLEAN : Round(full, authoritative)
      BY <1>4, <2>1 DEF StartMaintenance, RefreshDashboard
    <2> QED
      BY <2>2, RoundTyped
  <1>5. CASE MaintenanceStep \/ MaintenanceFails
    BY <1>5, MaintenanceTyped
  <1>6. CASE Restart
    BY <1>6, RestartTyped
  <1> QED
    BY <1>1, <1>3, <1>4, <1>5, <1>6 DEF Next

LEMMA TypesInitially == Init => Types
  <1>1. Init => ~maint.writing
    BY DEF Init, Resting
  <1> QED
    BY <1>1, TypesInit DEF Types, RowRead

\* Every row, job and round has its type, whatever the administrator, the callbacks,
\* the trigger, failed rounds and restarts do: a round never writes a row it did not read.
THEOREM TypesHold == Spec => []Types
  BY TypesInitially, TypesStep, PTL DEF Spec

-----------------------------------------------------------------------------
(* Releases, and what a pick sees                                          *)

\* A ban and a pick are records whatever their columns hold.
IsBan(row) == row = [active |-> row.active, at |-> row.at, reset |-> row.reset, released |-> row.released]
Shaped ==
  /\ IsBan(ban)
  /\ pick = [pc |-> pick.pc, now |-> pick.now, banned |-> pick.banned, invalid |-> pick.invalid]

\* While no change was announced to a pick, nothing was inserted since it began: a ban
\* in force now is one it read, and a credential restricted all the time was seen to
\* be once both tables are read.
NothingMissed ==
  /\ clock \in Nat /\ pick.now \in Nat /\ pick.now <= clock
  /\ pick.pc \in {"idle", "bans", "invalids", "publish"}
  /\ pick.pc \in {"invalids", "publish"} /\ ~stale /\ ban.active /\ ban.reset > clock => pick.banned
  /\ pick.pc = "publish" /\ ~stale /\ throughout => pick.banned \/ pick.invalid

IInv == Shaped /\ ReleasedIsInactive /\ NothingMissed

LEMMA IInvInit == Init => IInv
  BY DEF Init, IInv, Shaped, IsBan, ReleasedIsInactive, NothingMissed, NoPick

-----------------------------------------------------------------------------
(* The steps of everybody but the pick insert nothing, or announce it.     *)

Released == [ban EXCEPT !.active = FALSE, !.released = clock]
Lifted == [ban EXCEPT !.active = FALSE]

\* A step that leaves the ban, or lifts it.
Calm ==
  /\ pick' = pick /\ clock' = clock
  /\ pick.pc # "idle" /\ stale => stale'
  /\ ban' \in {ban, Lifted, Released}
  /\ throughout' => throughout \/ pick.pc = "idle"

\* A step that writes a ban, or an invalidation, and announces it.
Inserts ==
  /\ pick' = pick /\ clock' = clock
  /\ pick.pc # "idle" => stale'
  /\ IsBan(ban') /\ ReleasedIsInactive'

LEMMA CalmKeeps ==
  ASSUME IInv, Calm
  PROVE  IInv'
  <1>1. ban = [active |-> ban.active, at |-> ban.at, reset |-> ban.reset, released |-> ban.released]
    BY DEF IInv, Shaped, IsBan
  <1>2. /\ ban' = [active |-> ban'.active, at |-> ban'.at, reset |-> ban'.reset, released |-> ban'.released]
        /\ ban' = ban \/ ban'.active = FALSE
    BY <1>1 DEF Calm, Lifted, Released
  <1>3. Shaped' /\ ReleasedIsInactive'
    BY <1>2 DEF IInv, Shaped, IsBan, ReleasedIsInactive, Calm
  <1>4. NothingMissed'
    BY <1>2 DEF IInv, NothingMissed, Calm
  <1> QED
    BY <1>3, <1>4 DEF IInv

LEMMA InsertsKeep ==
  ASSUME IInv, Inserts
  PROVE  IInv'
  BY DEF IInv, Shaped, NothingMissed, Inserts

\* The history of a pick that goes on.
LEMMA History ==
  ASSUME ObserveHistory, pick' = pick
  PROVE  throughout' => throughout \/ pick.pc = "idle"
  BY DEF ObserveHistory

LEMMA AnnouncedStays ==
  ASSUME NEW changed, AnnounceIf(changed)
  PROVE  stale => stale'
  BY DEF AnnounceIf

\* Ban makes a fresh row; a backfill keeps a release that is newer than its evidence.
LEMMA BanShape ==
  ASSUME NEW t, NEW reset, ban' = Ban(t, reset)
  PROVE  IsBan(ban') /\ ReleasedIsInactive'
  BY DEF Ban, IsBan, ReleasedIsInactive

LEMMA BackfilledBanShape ==
  ASSUME IInv, NEW e, ban' = BackfilledBan(e)
  PROVE  IsBan(ban') /\ ReleasedIsInactive'
  <1> DEFINE newer == ban.released = 0 \/ e.at > ban.released
             written == (~ban.active \/ e.reset >= ban.reset) /\ (newer \/ ban.active)
  <1>1. CASE ~written
    <2>1. ban' = ban
      BY <1>1 DEF BackfilledBan
    <2> QED
      BY <2>1 DEF IInv, Shaped, IsBan, ReleasedIsInactive
  <1>2. CASE written
    <2>1. ban' = [active |-> ban.active \/ (newer /\ e.reset > maint.now),
                  at |-> e.at, reset |-> e.reset,
                  released |-> IF e.at > ban.released THEN 0 ELSE ban.released]
      BY <1>2 DEF BackfilledBan
    <2>2. IsBan(ban')
      BY <2>1 DEF IsBan
    <2>3. ban'.released = IF e.at > ban.released THEN 0 ELSE ban.released
      BY <2>1
    <2>4. CASE ban'.released # 0
      <3>1. ban.released # 0 /\ ~(e.at > ban.released)
        BY <2>3, <2>4
      <3>2. ~ban.active /\ ~newer
        BY <3>1 DEF IInv, ReleasedIsInactive
      <3> QED
        BY <1>2, <3>2
    <2>5. CASE ban'.released = 0
      BY <2>2, <2>5 DEF ReleasedIsInactive
    <2> QED
      BY <2>4, <2>5
  <1> QED
    BY <1>1, <1>2

-----------------------------------------------------------------------------
(* One step per action.                                                    *)

LEMMA ReporterKeeps ==
  ASSUME IInv, NEW r, Report(r) \/ GivesUp(r)
  PROVE  IInv'
  <1>1. ASSUME BeginWrite(r) \/ BelowThreshold(r) \/ ClearInvalid(r) \/ GivesUp(r) PROVE Calm
    <2>1. pick' = pick /\ clock' = clock /\ ban' = ban /\ ObserveHistory
      BY <1>1 DEF BeginWrite, BelowThreshold, ClearInvalid, GivesUp, Observe
    <2>2. UNCHANGED stale \/ \E changed \in BOOLEAN : AnnounceIf(changed)
      BY <1>1 DEF BeginWrite, BelowThreshold, ClearInvalid, GivesUp, Announce
    <2> QED
      BY <2>1, <2>2, History, AnnouncedStays DEF Calm
  <1>2. ASSUME ClearBan(r) PROVE Calm
    <2>1. /\ pick' = pick /\ clock' = clock /\ stale' = stale /\ ObserveHistory
          /\ ban' \in {ban, Lifted}
      BY <1>2 DEF ClearBan, LiftBan, Lifted, OweIf, Observe
    <2> QED
      BY <2>1, History DEF Calm
  <1>3. ASSUME CommitWrite(r) PROVE Inserts
    <2>1. pick' = pick /\ clock' = clock /\ (pick.pc # "idle" => stale')
      BY <1>3 DEF CommitWrite, Announce, AnnounceIf
    <2>2. CASE UpsertBan(r)
      <3>1. PICK t, reset : ban' = Ban(t, reset)
        BY <2>2 DEF UpsertBan
      <3> QED
        BY <2>1, <3>1, BanShape DEF Inserts
    <2>3. CASE UpsertInvalid(r) \/ UpsertForbidden(r)
      <3>1. ban' = ban
        BY <2>3 DEF UpsertInvalid, UpsertForbidden
      <3> QED
        BY <2>1, <3>1 DEF Inserts, IInv, Shaped, ReleasedIsInactive
    <2> QED
      BY <1>3, <2>2, <2>3 DEF CommitWrite
  <1> QED
    BY <1>1, <1>2, <1>3, CalmKeeps, InsertsKeep DEF Report

\* The expiry of bans lifts one.
LEMMA ExpiryLifts == Expire(ban, clock) \in {ban, Lifted}
  BY DEF Expire, Lifted

LEMMA OthersAreCalm ==
  ASSUME \/ \E c \in Callbacks : Send(c) \/ \E a \in Answers(scene.answers) : RecordUsage(c, a)
         \/ StartTrigger
         \/ \E a \in Answers(scene.probes) : AnswerProbe(a)
         \/ RecordRun \/ TriggerReconciles \/ TriggerLifts
         \/ Release \/ ReplaceFile \/ RemoveFile
         \/ AnnounceLift
  PROVE  Calm
  <1> DEFINE Same == pick' = pick /\ clock' = clock /\ stale' = stale /\ ObserveHistory
  <1>1. ASSUME \/ \E c \in Callbacks : Send(c) \/ \E a \in Answers(scene.answers) : RecordUsage(c, a)
               \/ \E a \in Answers(scene.probes) : AnswerProbe(a)
               \/ RecordRun \/ TriggerReconciles
               \/ ReplaceFile \/ RemoveFile
        PROVE  Same /\ ban' = ban
    BY <1>1 DEF Send, RecordUsage, AnswerProbe, RecordRun, TriggerReconciles, ReplaceFile, RemoveFile, Observe
  <1>2. ASSUME StartTrigger
        PROVE  Same /\ ban' \in {ban, Lifted}
    BY <1>2, ExpiryLifts DEF StartTrigger, OweIf, Observe
  <1>3. ASSUME TriggerLifts
        PROVE  Same /\ ban' = Lifted
    BY <1>3 DEF TriggerLifts, LiftBan, Lifted, OweIf, Observe
  <1>4. ASSUME Release
        PROVE  Same /\ ban' = Released
    BY <1>4 DEF Release, Released, OweIf, Observe
  <1>5. CASE AnnounceLift
    <2>1. pick' = pick /\ clock' = clock /\ (pick.pc # "idle" => stale') /\ ban' = ban /\ ObserveHistory
      BY <1>5 DEF AnnounceLift, Observe
    <2> QED
      BY <2>1, History DEF Calm
  <1>6. CASE Same /\ ban' \in {ban, Lifted, Released}
    BY <1>6, History DEF Calm
  <1>7. ~AnnounceLift => Same /\ ban' \in {ban, Lifted, Released}
    <2> HIDE DEF Same
    <2> QED
      BY <1>1, <1>2, <1>3, <1>4
  <1> QED
    BY <1>5, <1>6, <1>7

LEMMA MaintenanceKeeps ==
  ASSUME IInv,
         \/ \E authoritative \in BOOLEAN : StartMaintenance(authoritative) \/ RefreshDashboard(authoritative)
         \/ MaintenanceStep \/ MaintenanceFails
  PROVE  IInv'
  <1>1. ASSUME \E authoritative \in BOOLEAN : StartMaintenance(authoritative) \/ RefreshDashboard(authoritative)
        PROVE  Calm
    <2>1. PICK full, authoritative : Round(full, authoritative)
      BY <1>1 DEF StartMaintenance, RefreshDashboard
    <2>2. pick' = pick /\ clock' = clock /\ stale' = stale /\ ban' \in {ban, Lifted} /\ ObserveHistory
      BY <2>1, ExpiryLifts DEF Round, OweIf, Observe
    <2> QED
      BY <2>2, History DEF Calm
  <1>2. ASSUME ReadBackfill \/ ReadLift \/ ClearReplaced \/ EndMaintenance \/ MaintenanceFails
        PROVE  Calm
    <2>1. pick' = pick /\ clock' = clock /\ ban' = ban /\ ObserveHistory
      BY <1>2 DEF ReadBackfill, ReadLift, ClearReplaced, EndMaintenance, MaintenanceFails, Observe
    <2>2. UNCHANGED stale \/ \E changed : AnnounceIf(changed)
      <3>1. ASSUME ReadBackfill PROVE UNCHANGED stale \/ AnnounceIf(TRUE)
        BY <3>1 DEF ReadBackfill, Announce
      <3>2. ASSUME MaintenanceFails PROVE \E changed : AnnounceIf(changed)
        BY <3>2 DEF MaintenanceFails
      <3>3. ASSUME ReadLift \/ ClearReplaced \/ EndMaintenance PROVE UNCHANGED stale
        BY <3>3 DEF ReadLift, ClearReplaced, EndMaintenance, OweIf
      <3> QED
        BY <1>2, <3>1, <3>2, <3>3
    <2> QED
      BY <2>1, <2>2, History, AnnouncedStays DEF Calm
  <1>3. ASSUME WriteLift PROVE Calm
    <2>1. pick' = pick /\ clock' = clock /\ stale' = stale /\ ban' \in {ban, Lifted} /\ ObserveHistory
      BY <1>3 DEF WriteLift, LiftBan, Lifted, OweIf, Observe
    <2> QED
      BY <2>1, History DEF Calm
  <1>4. ASSUME WriteBackfill PROVE Inserts
    <2>1. pick' = pick /\ clock' = clock /\ (pick.pc # "idle" => stale')
      BY <1>4 DEF WriteBackfill, Announce, AnnounceIf
    <2>2. ban' = BackfilledBan(maint.row) \/ ban' = ban
      BY <1>4 DEF WriteBackfill
    <2> QED
      BY <2>1, <2>2, BackfilledBanShape DEF Inserts, IInv, Shaped, ReleasedIsInactive
  <1> QED
    BY <1>1, <1>2, <1>3, <1>4, CalmKeeps, InsertsKeep DEF MaintenanceStep

LEMMA ResetsAreNumbers ==
  ASSUME Types
  PROVE  ban.reset \in Nat
  <1>1. ban \in BanRows
    BY DEF Types, TypeOK
  <1>2. ban.reset \in Resets \cup {0}
    BY <1>1 DEF BanRows
  <1>3. \A t \in Resets \cup {0} : t \in Nat
    BY BoundsAssumption DEF Resets
  <1> QED
    BY <1>2, <1>3

\* The reads of a pick, each of one table.
LEMMA PickKeeps ==
  ASSUME Types, IInv, StartPick \/ ReadBans \/ ReadInvalids \/ EndPick \/ Restart
  PROVE  IInv'
  <1>1. ban' = ban /\ clock' = clock /\ ObserveHistory
    BY DEF StartPick, ReadBans, ReadInvalids, EndPick, Restart, Observe
  <1>2. ReleasedIsInactive' /\ IsBan(ban') /\ clock \in Nat
    BY <1>1 DEF IInv, Shaped, ReleasedIsInactive, NothingMissed
  <1>3. pick = [pc |-> pick.pc, now |-> pick.now, banned |-> pick.banned, invalid |-> pick.invalid]
    BY DEF IInv, Shaped
  <1>4. CASE StartPick
    <2>1. pick' = [pc |-> "bans", now |-> clock, banned |-> FALSE, invalid |-> FALSE]
      BY <1>4 DEF StartPick, NoPick
    <2> QED
      BY <1>1, <1>2, <2>1 DEF IInv, Shaped, NothingMissed
  <1>5. CASE EndPick \/ Restart
    <2>1. pick' = [pc |-> "idle", now |-> 0, banned |-> FALSE, invalid |-> FALSE]
      BY <1>5 DEF EndPick, Restart, NoPick
    <2> QED
      BY <1>1, <1>2, <2>1 DEF IInv, Shaped, NothingMissed
  <1>6. CASE ReadBans
    <2>1. /\ pick' = [pc |-> "invalids", now |-> pick.now, banned |-> ban.active /\ ban.reset > pick.now,
                      invalid |-> pick.invalid]
          /\ stale' = stale
      BY <1>3, <1>6 DEF ReadBans
    <2>2. NothingMissed'
      <3>1. pick'.banned <=> ban.active /\ ban.reset > pick.now
        BY <2>1
      <3>2. pick.now \in Nat /\ pick.now <= clock /\ ban.reset \in Nat
        BY ResetsAreNumbers DEF IInv, NothingMissed
      <3>3. ban.active /\ ban.reset > clock => pick'.banned
        BY <1>2, <3>1, <3>2
      <3> QED
        BY <1>1, <1>2, <2>1, <3>2, <3>3 DEF NothingMissed
    <2> QED
      BY <1>2, <2>1, <2>2 DEF IInv, Shaped
  <1>7. CASE ReadInvalids
    <2>1. /\ pick' = [pc |-> "publish", now |-> pick.now, banned |-> pick.banned, invalid |-> invalid.active]
          /\ stale' = stale /\ invalid' = invalid /\ pick.pc = "invalids"
      BY <1>3, <1>7 DEF ReadInvalids
    <2>2. throughout' => (ban.active /\ ban.reset > clock) \/ invalid.active
      BY <1>1, <2>1 DEF ObserveHistory, Restricted
    <2> QED
      BY <1>1, <1>2, <2>1, <2>2 DEF IInv, Shaped, NothingMissed
  <1> QED
    BY <1>4, <1>5, <1>6, <1>7

LEMMA TickKeeps ==
  ASSUME Types, IInv, Tick
  PROVE  IInv'
  <1>1. /\ pick' = pick /\ ban' = ban /\ stale' = stale /\ ObserveHistory
        /\ clock' = clock + 1
    BY DEF Tick, Observe
  <1>2. throughout' => throughout \/ pick.pc = "idle"
    BY <1>1, History
  <1>3. clock \in Nat /\ pick.now \in Nat /\ pick.now <= clock /\ ban.reset \in Nat
    BY ResetsAreNumbers DEF IInv, NothingMissed
  <1>4. ban.active /\ ban.reset > clock' => ban.active /\ ban.reset > clock
    BY <1>1, <1>3
  <1>5. NothingMissed'
    BY <1>1, <1>2, <1>3, <1>4 DEF IInv, NothingMissed
  <1>6. Shaped' /\ ReleasedIsInactive'
    BY <1>1 DEF IInv, Shaped, IsBan, ReleasedIsInactive
  <1> QED
    BY <1>5, <1>6 DEF IInv

LEMMA IInvStep == Types /\ IInv /\ [Next]_vars => IInv'
  <1> SUFFICES ASSUME Types, IInv, [Next]_vars PROVE IInv'
    OBVIOUS
  <1>1. CASE UNCHANGED vars
    BY <1>1 DEF vars, IInv, Shaped, IsBan, ReleasedIsInactive, NothingMissed
  <1>2. CASE Next
    BY <1>2, ReporterKeeps, OthersAreCalm, CalmKeeps, MaintenanceKeeps, PickKeeps, TickKeeps DEF Next
  <1> QED
    BY <1>1, <1>2

\* Whatever callbacks, expiry, reconciliation, backfill and crashes do to the row, a
\* ban marked as released by the administrator is inactive.
THEOREM ReleasedStaysInactive == Spec => []ReleasedIsInactive
  <1>1. IInv => ReleasedIsInactive
    BY DEF IInv
  <1> QED
    BY <1>1, IInvInit, IInvStep, TypesHold, PTL DEF Spec

\* Reading the two tables one after the other misses no credential that was restricted
\* during the whole pick, unless a change was announced that refuses the snapshot.
THEOREM PicksSeeRestrictions == Spec => []PublishedPicksSeeRestriction
  <1>1. IInv => PublishedPicksSeeRestriction
    BY DEF IInv, NothingMissed, PublishedPicksSeeRestriction, Publishable
  <1> QED
    BY <1>1, IInvInit, IInvStep, TypesHold, PTL DEF Spec


-----------------------------------------------------------------------------
(* What a full round settles                                               *)

\* The ban of the newest 429 is recorded, unless another row speaks against it.
BanSettled ==
  Backfillable /\ file.present =>
    \/ BackfilledBan(Latest(usage)) = ban
    \/ \E e \in Entries(runs) : e.kind = "ok" /\ e.at = Latest(usage).at
    \/ Outlived

\* The invalidation in force is that of a 402 the round has found.
Founded ==
  /\ invalid.active
  /\ \E log \in {usage, runs} : DeactivatedIn(log) /\ invalid.at = Latest(log).at

\* What a step has read still holds when it writes.
StillWanted ==
  maint.writing =>
    /\ maint.pc \notin {"replaced", "refresh"}
    /\ maint.pc = "backfill" => Backfillable /\ maint.row = Latest(usage)
    /\ maint.pc = "deactivatedUsage" => DeactivatedIn(usage) /\ maint.row = Latest(usage)
    /\ maint.pc = "deactivatedRuns" => DeactivatedIn(runs) /\ maint.row = Latest(runs)
    /\ maint.pc = "reconcile" => QuotaLow
    /\ maint.pc = "recoverInvalid" => RecoveredInvalid
    /\ maint.pc = "recoverBan" => RecoveredBan
    /\ maint.pc \in {"missingInvalid", "missingBan"} => ~maint.present

Gone == ~file.present /\ maint.authoritative
LastPhases == {"missingInvalid", "missingBan", "refresh"}
LatePhases == {"recoverBan", "replaced"} \cup LastPhases

\* What the phases of a round that are over have established, and the later ones keep.
Settling ==
  quiet =>
    /\ maint.pc # "idle" /\ maint.now = clock
    /\ StillWanted
    /\ maint.pc # "backfill" => BanSettled
    /\ maint.pc \notin {"backfill", "deactivatedUsage"} /\ DeactivatedIn(usage) => Founded
    /\ maint.pc \notin {"backfill", "deactivatedUsage", "deactivatedRuns"} /\ DeactivatedIn(runs) => Founded
    /\ maint.pc \in LatePhases => ~RecoveredInvalid
    /\ maint.pc \in LatePhases \ {"recoverBan"} => ~RecoveredBan
    /\ maint.pc \in LastPhases => ~Replaced(invalid) /\ maint.present = ~Gone
    /\ maint.pc \in {"missingBan", "refresh"} /\ Gone => ~invalid.active
    /\ maint.pc = "refresh" /\ Gone => ~(ban.active /\ ban.reset > clock)

\* The ban and the fields of a round, as the types give them.
LEMMA RowTypes ==
  ASSUME Types
  PROVE  /\ ban \in BanRows /\ maint \in Rounds /\ invalid \in [active : BOOLEAN, at : Moments]
         /\ usage \in Seq(Event) /\ runs \in Seq(Event) /\ clock \in Nat
         /\ ban.at \in Nat /\ ban.reset \in Nat /\ ban.released \in Nat /\ ban.active \in BOOLEAN
  <1>1. /\ ban \in BanRows /\ maint \in Rounds /\ invalid \in [active : BOOLEAN, at : Moments]
        /\ usage \in Seq(Event) /\ runs \in Seq(Event) /\ clock \in Time
    BY DEF Types, TypeOK
  <1>2. ban.at \in Moments /\ ban.reset \in Resets \cup {0} /\ ban.released \in Moments /\ ban.active \in BOOLEAN
    BY <1>1 DEF BanRows
  <1>3. (\A t \in Moments : t \in Nat) /\ (\A t \in Resets \cup {0} : t \in Nat)
    BY Bounds
  <1> QED
    BY <1>1, <1>2, <1>3, Bounds

\* The times of a row are numbers.
LEMMA RowTimes ==
  ASSUME NEW e \in Event
  PROVE  e.at \in Nat /\ e.reset \in Nat
  <1>1. e.at \in Time \cup {0} /\ e.reset \in Resets \cup {0}
    BY DEF Event
  <1>2. \A t \in Time \cup {0} : t \in Nat
    BY Bounds
  <1>3. \A t \in Resets \cup {0} : t \in Nat
    BY Bounds
  <1> QED
    BY <1>1, <1>2, <1>3

\* Which phase follows which.
LEMMA PhaseOrder ==
  /\ PhaseAfter("backfill") = "deactivatedUsage" /\ PhaseAfter("deactivatedUsage") = "deactivatedRuns"
  /\ PhaseAfter("deactivatedRuns") = "reconcile" /\ PhaseAfter("reconcile") = "recoverInvalid"
  /\ PhaseAfter("recoverInvalid") = "recoverBan" /\ PhaseAfter("recoverBan") = "replaced"
  /\ PhaseAfter("replaced") = "missingInvalid" /\ PhaseAfter("missingInvalid") = "missingBan"
  /\ PhaseAfter("missingBan") = "refresh"
  <1>1. DOMAIN Phases = 1 .. 10
    BY DEF Phases
  <1>2. /\ Phases[1] = "backfill" /\ Phases[2] = "deactivatedUsage" /\ Phases[3] = "deactivatedRuns"
        /\ Phases[4] = "reconcile" /\ Phases[5] = "recoverInvalid" /\ Phases[6] = "recoverBan"
        /\ Phases[7] = "replaced" /\ Phases[8] = "missingInvalid" /\ Phases[9] = "missingBan"
        /\ Phases[10] = "refresh"
    BY DEF Phases
  <1>3. \A i, j \in 1 .. 10 : Phases[i] = Phases[j] => i = j
    BY <1>2
  <1>4. ASSUME NEW i \in 1 .. 9 PROVE PhaseAfter(Phases[i]) = Phases[i + 1]
    <2> DEFINE found == CHOOSE k \in DOMAIN Phases : Phases[k] = Phases[i]
    <2>1. i \in DOMAIN Phases
      BY <1>1
    <2>2. found \in DOMAIN Phases /\ Phases[found] = Phases[i]
      BY <2>1
    <2>3. found = i
      <3> HIDE DEF found
      <3> QED
        BY <1>1, <1>3, <2>1, <2>2
    <2>4. PhaseAfter(Phases[i]) = Phases[found + 1]
      BY DEF PhaseAfter
    <2> HIDE DEF found
    <2> QED
      BY <2>3, <2>4
  <1> DEFINE follows(i) == PhaseAfter(Phases[i]) = Phases[i + 1]
  <1>5. \A i \in 1 .. 9 : follows(i)
    BY <1>4
  <1>6. /\ follows(1) /\ follows(2) /\ follows(3) /\ follows(4) /\ follows(5) /\ follows(6)
        /\ follows(7) /\ follows(8) /\ follows(9)
    <2> HIDE DEF follows
    <2> QED
      BY <1>5
  <1> QED
    BY <1>2, <1>6

\* A probe that lifts the ban of the newest 429 succeeded in the same second.
LEMMA LowQuotaIsATie ==
  ASSUME Types, maint.now = clock, Backfillable, QuotaLow
  PROVE  \E e \in Entries(runs) : e.kind = "ok" /\ e.at = Latest(usage).at
  <1>1. /\ usage \in Seq(Event) /\ usage # << >> /\ runs \in Seq(Event)
        /\ Latest(usage).kind = "limited" /\ Latest(usage).reset > clock
        /\ ~LaterSuccess(Latest(usage).at)
    BY RowTypes DEF Backfillable
  <1>2. PICK i \in DOMAIN usage :
          /\ Latest(usage) = usage[i] /\ usage[i] \in Event /\ i \in Nat /\ usage[i].at \in Nat
          /\ \A j \in DOMAIN usage : /\ usage[j].at \in Nat /\ j \in Nat
                                     /\ usage[j].at < usage[i].at \/ (usage[j].at = usage[i].at /\ j <= i)
    BY <1>1, LatestIsNewest
  <1> DEFINE kinds == {"ok", "limited"}
  <1>3. i \in SnapshotsIn(usage, kinds) /\ SnapshotsIn(usage, kinds) \subseteq DOMAIN usage
    BY <1>1, <1>2 DEF SnapshotsIn
  <1>4. NewestIn(usage, kinds) = {usage[i]}
    <2>1. \A k \in SnapshotsIn(usage, kinds) :
            usage[k].at < usage[i].at \/ (usage[k].at = usage[i].at /\ k <= i)
      BY <1>2, <1>3
    <2>2. \A j \in SnapshotsIn(usage, kinds) :
            (usage[i].at < usage[j].at \/ (usage[i].at = usage[j].at /\ i <= j)) => j = i
      <3> TAKE j \in SnapshotsIn(usage, kinds)
      <3>1. /\ j \in DOMAIN usage /\ j \in Nat /\ i \in Nat /\ usage[j].at \in Nat /\ usage[i].at \in Nat
            /\ usage[j].at < usage[i].at \/ (usage[j].at = usage[i].at /\ j <= i)
        BY <1>2, <1>3
      <3> QED
        BY <3>1
    <2> HIDE DEF kinds
    <2>3. \A e \in NewestIn(usage, kinds) : e = usage[i]
      BY <1>3, <2>2 DEF NewestIn
    <2>4. usage[i] \in NewestIn(usage, kinds)
      BY <1>3, <2>1 DEF NewestIn
    <2> QED
      BY <2>3, <2>4
  <1>5. PICK d \in NewestSnapshots : d.kind = "ok"
    BY DEF QuotaLow
  <1>6. /\ d \in NewestIn(usage, kinds) \cup NewestIn(runs, {"ok"})
        /\ \A c \in NewestIn(usage, kinds) : c.at <= d.at
    BY <1>5 DEF NewestSnapshots
  <1>7. d # usage[i]
    BY <1>1, <1>2, <1>5
  <1>8. d \in NewestIn(runs, {"ok"}) /\ usage[i].at <= d.at
    <2> HIDE DEF kinds
    <2> QED
      BY <1>4, <1>6, <1>7
  <1>9. d \in Entries(runs) /\ d.at \in Nat
    <2>1. PICK k \in DOMAIN runs : d = runs[k]
      BY <1>8 DEF NewestIn, SnapshotsIn
    <2>2. runs # << >> /\ runs[k].at \in Nat
      BY <1>1, <2>1, LatestIsNewest
    <2> QED
      BY <2>1, <2>2 DEF Entries
  <1>10. ~(d.at > usage[i].at)
    BY <1>1, <1>2, <1>5, <1>9 DEF LaterSuccess, Log
  <1> QED
    BY <1>2, <1>5, <1>8, <1>9, <1>10

\* Recording the newest 429 a second time changes nothing.
LEMMA BackfillIsSettled ==
  ASSUME Types, Backfillable, ban' = BackfilledBan(Latest(usage)), usage' = usage, maint'.now = maint.now
  PROVE  BackfilledBan(Latest(usage))' = ban'
  <1> DEFINE e == Latest(usage)
             newer == ban.released = 0 \/ e.at > ban.released
             written == (~ban.active \/ e.reset >= ban.reset) /\ (newer \/ ban.active)
             kept == IF e.at > ban.released THEN 0 ELSE ban.released
  <1>1. e \in Event /\ e.reset > maint.now
    BY RowTypes, LatestIsARow DEF Backfillable
  <1>2. e.at \in Nat /\ e.reset \in Nat
    <2> HIDE DEF e
    <2> QED
      BY <1>1, RowTimes
  <1>3. Latest(usage)' = e
    OBVIOUS
  <1> HIDE DEF e
  <1>4. CASE ~written
    <2>1. ban' = ban
      BY <1>4 DEF BackfilledBan, e
    <2> QED
      BY <1>3, <1>4, <2>1 DEF BackfilledBan
  <1>5. CASE written
    <2>1. ban' = [active |-> ban.active \/ (newer /\ e.reset > maint.now), at |-> e.at, reset |-> e.reset,
                  released |-> kept]
      BY <1>5 DEF BackfilledBan, e
    <2>2. ban.active \/ (newer /\ e.reset > maint.now)
      BY <1>1, <1>5
    <2>3. ban' = [active |-> TRUE, at |-> e.at, reset |-> e.reset, released |-> kept]
      BY <2>1, <2>2
    <2>4. kept \in Nat /\ (IF e.at > kept THEN 0 ELSE kept) = kept
      BY <1>2, RowTypes
    <2> HIDE DEF kept
    <2>5. ban'.active = TRUE /\ ban'.reset = e.reset /\ ban'.released = kept
      BY <2>3
    <2>6. e.reset >= e.reset
      BY <1>2
    <2>7. BackfilledBan(e)' =
            [active |-> TRUE, at |-> e.at, reset |-> e.reset,
             released |-> IF e.at > kept THEN 0 ELSE kept]
      BY <1>3, <2>5, <2>6 DEF BackfilledBan, e
    <2> QED
      BY <1>3, <2>3, <2>4, <2>7 DEF e
  <1> QED
    BY <1>4, <1>5

\* A ban that a success ended although the newest 429 stands resets after it.
LEMMA RecoveredIsOutlived ==
  ASSUME Types, Backfillable, BackfilledBan(Latest(usage)) = ban, RecoveredBan
  PROVE  Outlived
  <1> DEFINE e == Latest(usage)
  <1>1. e \in Event /\ ~LaterSuccess(e.at)
    BY RowTypes, LatestIsARow DEF Backfillable
  <1>2. e.at \in Nat /\ e.reset \in Nat
    <2> HIDE DEF e
    <2> QED
      BY <1>1, RowTimes
  <1> HIDE DEF e
  <1>3. ban.active /\ LaterSuccess(ban.at)
    BY DEF RecoveredBan
  <1>4. ban.at # e.at
    BY <1>1, <1>3
  <1>5. ~(e.reset >= ban.reset)
    <2> SUFFICES ASSUME e.reset >= ban.reset PROVE FALSE
      OBVIOUS
    <2>1. BackfilledBan(e).at = e.at
      BY <1>3 DEF BackfilledBan
    <2> QED
      BY <1>4, <2>1 DEF e
  <1> QED
    BY <1>2, <1>3, <1>5, RowTypes DEF Outlived, e

\* A 402 the round has found is neither recovered nor replaced nor missing.
LEMMA FoundedStands ==
  ASSUME Types, Founded
  PROVE  ~RecoveredInvalid /\ ~Replaced(invalid) /\ ~Gone
  <1>1. PICK log \in {usage, runs} : DeactivatedIn(log) /\ invalid.at = Latest(log).at
    BY DEF Founded
  <1>2. /\ ~LaterSuccess(invalid.at)
        /\ IF file.present THEN file.mtime <= invalid.at ELSE ~maint.authoritative
    BY <1>1 DEF DeactivatedIn
  <1>3. invalid.at \in Nat /\ file.mtime \in Nat
    <2>1. invalid \in [active : BOOLEAN, at : Moments] /\ file \in [present : BOOLEAN, mtime : Moments]
      BY DEF Types, TypeOK
    <2>2. \A t \in Moments : t \in Nat
      BY Bounds
    <2> QED
      BY <2>1, <2>2
  <1> QED
    BY <1>2, <1>3 DEF RecoveredInvalid, Replaced, Gone

-----------------------------------------------------------------------------
(* One step of a round at a time.                                          *)

\* Within a quiet round, only the two rows and the round itself change.
Steady ==
  /\ usage' = usage /\ runs' = runs /\ file' = file /\ clock' = clock
  /\ maint'.now = maint.now /\ maint'.authoritative = maint.authoritative

LEMMA SteadyLogs ==
  ASSUME Steady
  PROVE  /\ Backfillable' <=> Backfillable
         /\ DeactivatedIn(usage)' <=> DeactivatedIn(usage)
         /\ DeactivatedIn(runs)' <=> DeactivatedIn(runs)
         /\ Latest(usage)' = Latest(usage) /\ Latest(runs)' = Latest(runs)
         /\ Log' = Log /\ Gone' = Gone
  <1>1. Log' = Log /\ Gone' = Gone /\ Latest(usage)' = Latest(usage) /\ Latest(runs)' = Latest(runs)
    BY DEF Steady, Log, Entries, Gone, Latest
  <1>2. Backfillable' <=> Backfillable
    BY <1>1 DEF Steady, Backfillable, LaterSuccess
  <1>3. (DeactivatedIn(usage)' <=> DeactivatedIn(usage)) /\ (DeactivatedIn(runs)' <=> DeactivatedIn(runs))
    BY <1>1 DEF Steady, DeactivatedIn, LaterSuccess
  <1> QED
    BY <1>1, <1>2, <1>3

LEMMA BanUntouched ==
  ASSUME Steady, ban' = ban
  PROVE  (BanSettled' <=> BanSettled) /\ (RecoveredBan' <=> RecoveredBan) /\ (QuotaLow' <=> QuotaLow)
  <1>1. BackfilledBan(Latest(usage))' = BackfilledBan(Latest(usage))
    BY SteadyLogs DEF Steady, BackfilledBan
  <1>2. (Outlived' <=> Outlived) /\ (RecoveredBan' <=> RecoveredBan)
    BY SteadyLogs DEF Steady, Outlived, RecoveredBan, LaterSuccess
  <1>3. QuotaLow' <=> QuotaLow
    BY DEF Steady, QuotaLow, NewestSnapshots, NewestIn, SnapshotsIn
  <1>4. Entries(runs)' = Entries(runs) /\ file' = file
    BY DEF Steady, Entries
  <1>5. BanSettled' <=> BanSettled
    BY <1>1, <1>2, <1>4, SteadyLogs DEF BanSettled
  <1> QED
    BY <1>2, <1>3, <1>5

LEMMA InvalidUntouched ==
  ASSUME Steady, invalid' = invalid
  PROVE  /\ Founded' <=> Founded
         /\ RecoveredInvalid' <=> RecoveredInvalid
         /\ Replaced(invalid)' <=> Replaced(invalid)
  <1>1. Founded <=> /\ invalid.active
                    /\ \/ DeactivatedIn(usage) /\ invalid.at = Latest(usage).at
                       \/ DeactivatedIn(runs) /\ invalid.at = Latest(runs).at
    BY DEF Founded
  <1>2. Founded' <=> /\ invalid'.active
                     /\ \/ DeactivatedIn(usage)' /\ invalid'.at = Latest(usage)'.at
                        \/ DeactivatedIn(runs)' /\ invalid'.at = Latest(runs)'.at
    BY DEF Founded
  <1>3. Founded' <=> Founded
    BY <1>1, <1>2, SteadyLogs
  <1>4. RecoveredInvalid' <=> RecoveredInvalid
    BY SteadyLogs DEF RecoveredInvalid, LaterSuccess
  <1>5. Replaced(invalid)' <=> Replaced(invalid)
    BY DEF Steady, Replaced
  <1> QED
    BY <1>3, <1>4, <1>5

\* A round that goes on to its next phase has nothing in hand.
LEMMA Advances ==
  ASSUME Types, Advance
  PROVE  /\ maint'.pc = PhaseAfter(maint.pc) /\ maint'.writing = FALSE
         /\ maint'.now = maint.now /\ maint'.authoritative = maint.authoritative
         /\ maint'.present = maint.present
  <1>1. maint \in Rounds
    BY RowTypes
  <1>2. maint = [pc |-> maint.pc, now |-> maint.now, writing |-> maint.writing, row |-> maint.row,
                 authoritative |-> maint.authoritative, present |-> maint.present]
    BY <1>1 DEF Rounds
  <1> QED
    BY <1>2 DEF Advance

LEMMA LiftsMeans ==
  /\ Lifts("reconcile") <=> QuotaLow
  /\ Lifts("recoverInvalid") <=> RecoveredInvalid
  /\ Lifts("recoverBan") <=> RecoveredBan
  /\ Lifts("missingInvalid") <=> MissingInvalid
  /\ Lifts("missingBan") <=> MissingBan
  BY DEF Lifts

\* A step that only reads changes neither row: it begins to write what it wants, or
\* goes on because there is nothing to do.
LEMMA ReadsSettle ==
  ASSUME Types, Settling, quiet, ReadBackfill \/ ReadLift
  PROVE  Settling'
  <1> DEFINE ph == maint.pc
             wanted == \/ ph = "backfill" /\ Backfillable
                       \/ ph = "deactivatedUsage" /\ DeactivatedIn(usage)
                       \/ ph = "deactivatedRuns" /\ DeactivatedIn(runs)
                       \/ ph = "reconcile" /\ QuotaLow
                       \/ ph = "recoverInvalid" /\ RecoveredInvalid
                       \/ ph = "recoverBan" /\ RecoveredBan
                       \/ ph = "missingInvalid" /\ MissingInvalid
                       \/ ph = "missingBan" /\ MissingBan
             begins == /\ maint'.pc = ph /\ maint'.writing = TRUE /\ wanted
                       /\ maint'.present = maint.present
                       /\ ph \in {"backfill", "deactivatedUsage"} => maint'.row = Latest(usage)
                       /\ ph = "deactivatedRuns" => maint'.row = Latest(runs)
             goesOn == /\ maint'.pc = PhaseAfter(ph) /\ maint'.writing = FALSE
                       /\ wanted => ph = "reconcile"
                       /\ maint'.present = maint.present
                       /\ ph \in {"backfill", "deactivatedUsage", "deactivatedRuns"} \cup LiftPhases
  <1>1. maint = [pc |-> maint.pc, now |-> maint.now, writing |-> maint.writing, row |-> maint.row,
                 authoritative |-> maint.authoritative, present |-> maint.present]
    BY RowTypes DEF Rounds
  <1>2. Steady /\ ban' = ban /\ invalid' = invalid /\ (begins \/ goesOn)
    <2>1. CASE ReadBackfill
      <3>1. /\ usage' = usage /\ runs' = runs /\ file' = file /\ clock' = clock
            /\ ban' = ban /\ invalid' = invalid
            /\ ph \in {"backfill", "deactivatedUsage", "deactivatedRuns"}
        BY <2>1 DEF ReadBackfill, reports
      <3>2. BackfillWanted <=> wanted
        BY <3>1 DEF BackfillWanted, BackfillLog
      <3>3. /\ ph \in {"backfill", "deactivatedUsage"} => BackfillLog = usage
            /\ ph = "deactivatedRuns" => BackfillLog = runs
        BY DEF BackfillLog
      <3>4. CASE BackfillWanted
        <4>1. maint' = [maint EXCEPT !.writing = TRUE, !.row = Latest(BackfillLog)]
          BY <2>1, <3>4 DEF ReadBackfill
        <4> HIDE DEF wanted
        <4>2. begins
          BY <1>1, <3>2, <3>3, <3>4, <4>1
        <4>3. Steady
          BY <1>1, <3>1, <4>1 DEF Steady
        <4> QED
          BY <3>1, <4>2, <4>3
      <3>5. CASE ~BackfillWanted
        <4>1. Advance
          BY <2>1, <3>5 DEF ReadBackfill
        <4> HIDE DEF wanted
        <4>2. goesOn
          BY <3>1, <3>2, <3>5, <4>1, Advances
        <4>3. Steady
          BY <3>1, <4>1, Advances DEF Steady
        <4> QED
          BY <3>1, <4>2, <4>3
      <3> QED
        BY <3>4, <3>5
    <2>2. CASE ReadLift
      <3>1. /\ usage' = usage /\ runs' = runs /\ file' = file /\ clock' = clock
            /\ ban' = ban /\ invalid' = invalid /\ ph \in LiftPhases
        BY <2>2 DEF ReadLift, reports
      <3>2. Lifts(ph) <=> wanted
        BY <3>1, LiftsMeans DEF LiftPhases
      <3>3. CASE Lifts(ph) /\ maint' = [maint EXCEPT !.writing = TRUE]
        <4> HIDE DEF wanted
        <4>1. begins
          BY <1>1, <3>1, <3>2, <3>3 DEF LiftPhases
        <4>2. Steady
          BY <1>1, <3>1, <3>3 DEF Steady
        <4> QED
          BY <3>1, <4>1, <4>2
      <3>4. CASE Keeps(ph) /\ Advance
        <4>1. ph # "reconcile" => ~Lifts(ph)
          BY <3>4 DEF Keeps
        <4> HIDE DEF wanted
        <4>2. goesOn
          BY <3>1, <3>2, <3>4, <4>1, Advances
        <4>3. Steady
          BY <3>1, <3>4, Advances DEF Steady
        <4> QED
          BY <3>1, <4>2, <4>3
      <3> QED
        BY <2>2, <3>3, <3>4 DEF ReadLift
    <2> QED
      BY <2>1, <2>2
  <1>3. /\ maint'.now = clock' /\ Gone' = Gone /\ maint'.present = maint.present
        /\ (ban.active /\ ban.reset > clock)' <=> (ban.active /\ ban.reset > clock)
        /\ invalid'.active = invalid.active
    BY <1>2, SteadyLogs DEF Steady, Settling
  <1>4. CASE begins
    <2>1. StillWanted'
      BY <1>2, <1>3, <1>4, SteadyLogs, BanUntouched, InvalidUntouched
         DEF StillWanted, MissingInvalid, MissingBan
    <2> QED
      BY <1>2, <1>3, <1>4, <2>1, SteadyLogs, BanUntouched, InvalidUntouched
         DEF Settling, LatePhases, LastPhases
  <1>5. CASE goesOn
    <2>1. StillWanted'
      BY <1>5 DEF StillWanted
    <2>2. /\ ph = "backfill" => BanSettled
          /\ ph = "missingInvalid" /\ Gone => ~invalid.active
          /\ ph = "missingBan" /\ Gone => ~(ban.active /\ ban.reset > clock)
      BY <1>5 DEF BanSettled, Settling, LastPhases, MissingInvalid, MissingBan
    <2> QED
      BY <1>2, <1>3, <1>5, <2>1, <2>2, PhaseOrder, SteadyLogs, BanUntouched, InvalidUntouched
         DEF Settling, LatePhases, LastPhases, LiftPhases
  <1> QED
    BY <1>2, <1>4, <1>5

\* A ban that is lifted keeps its date and its reset.
LEMMA LiftedBan ==
  ASSUME Types, LiftBan
  PROVE  ban'.active = FALSE /\ ban'.at = ban.at /\ ban'.reset = ban.reset
  BY RowTypes DEF LiftBan, BanRows

LEMMA LiftedInvalid ==
  ASSUME Types, LiftInvalid
  PROVE  invalid'.active = FALSE
  BY RowTypes DEF LiftInvalid

\* The three backfills write what they read.
LEMMA WriteBackfillSettles ==
  ASSUME Types, Settling, quiet, WriteBackfill
  PROVE  Settling'
  <1> DEFINE ph == maint.pc
  <1>1. /\ Advance /\ maint.writing
        /\ usage' = usage /\ runs' = runs /\ file' = file /\ clock' = clock
        /\ ph \in {"backfill", "deactivatedUsage", "deactivatedRuns"}
        /\ ph = "backfill" => ban' = BackfilledBan(maint.row) /\ invalid' = invalid
        /\ ph # "backfill" => ban' = ban /\ invalid' = [active |-> TRUE, at |-> maint.row.at]
    BY DEF WriteBackfill, reports
  <1>2. Steady /\ maint'.pc = PhaseAfter(ph) /\ ~maint'.writing /\ StillWanted'
    BY <1>1, Advances DEF Steady, StillWanted
  <1>3. maint'.now = clock' /\ StillWanted /\ BanSettled \in BOOLEAN
    BY <1>2 DEF Steady, Settling, BanSettled
  <1>4. CASE ph = "backfill"
    <2>1. maint'.pc = "deactivatedUsage"
      BY <1>2, <1>4, PhaseOrder
    <2>2. Backfillable /\ maint.row = Latest(usage)
      BY <1>1, <1>3, <1>4 DEF StillWanted
    <2>3. BackfilledBan(Latest(usage))' = ban'
      BY <1>1, <1>2, <1>4, <2>2, BackfillIsSettled DEF Steady
    <2>4. BanSettled'
      BY <2>3 DEF BanSettled
    <2> QED
      BY <1>2, <1>3, <2>1, <2>4 DEF Settling, LatePhases, LastPhases
  <1>5. ASSUME NEW log \in {usage, runs}, DeactivatedIn(log), maint.row = Latest(log), ph # "backfill"
        PROVE  Founded' /\ BanSettled'
    <2>1. invalid'.active = TRUE /\ invalid'.at = Latest(log).at /\ ban' = ban
      BY <1>1, <1>5
    <2>2. \/ DeactivatedIn(usage)' /\ invalid'.at = Latest(usage)'.at
          \/ DeactivatedIn(runs)' /\ invalid'.at = Latest(runs)'.at
      BY <1>2, <1>5, <2>1, SteadyLogs
    <2>3. Founded'
      BY <2>1, <2>2 DEF Founded
    <2>4. BanSettled'
      BY <1>2, <1>5, <2>1, BanUntouched DEF Settling
    <2> QED
      BY <2>3, <2>4
  <1>6. CASE ph = "deactivatedUsage"
    <2>1. maint'.pc = "deactivatedRuns"
      BY <1>2, <1>6, PhaseOrder
    <2>2. DeactivatedIn(usage) /\ maint.row = Latest(usage)
      BY <1>1, <1>3, <1>6 DEF StillWanted
    <2>3. Founded' /\ BanSettled'
      BY <1>5, <1>6, <2>2
    <2> QED
      BY <1>2, <1>3, <2>1, <2>3 DEF Settling, LatePhases, LastPhases
  <1>7. CASE ph = "deactivatedRuns"
    <2>1. maint'.pc = "reconcile"
      BY <1>2, <1>7, PhaseOrder
    <2>2. DeactivatedIn(runs) /\ maint.row = Latest(runs)
      BY <1>1, <1>3, <1>7 DEF StillWanted
    <2>3. Founded' /\ BanSettled'
      BY <1>5, <1>7, <2>2
    <2> QED
      BY <1>2, <1>3, <2>1, <2>3 DEF Settling, LatePhases, LastPhases
  <1> QED
    BY <1>1, <1>4, <1>6, <1>7

\* A phase lifts the ban only if no 429 still speaks for it, or the exceptions hold.
LEMMA LiftsOfBanSettle ==
  ASSUME Types, Settling, quiet, WriteLift, maint.pc \in {"reconcile", "recoverBan", "missingBan"}
  PROVE  Settling'
  <1> DEFINE ph == maint.pc
  <1>1. /\ Advance /\ maint.writing /\ LiftBan
        /\ usage' = usage /\ runs' = runs /\ file' = file /\ clock' = clock /\ invalid' = invalid
    BY DEF WriteLift, reports
  <1>2. /\ Steady /\ maint'.pc = PhaseAfter(ph) /\ ~maint'.writing /\ StillWanted'
        /\ maint'.present = maint.present
    BY <1>1, Advances DEF Steady, StillWanted
  <1>3. ban'.active = FALSE /\ ban'.at = ban.at /\ ban'.reset = ban.reset
    BY <1>1, LiftedBan
  <1>4. /\ maint'.now = clock' /\ StillWanted /\ BanSettled /\ maint.now = clock
        /\ ~RecoveredBan' /\ ~(ban.active /\ ban.reset > clock)'
        /\ invalid'.active = invalid.active /\ Gone' = Gone
    BY <1>1, <1>2, <1>3, SteadyLogs DEF Steady, Settling, RecoveredBan
  <1>5. BanSettled'
    <2> SUFFICES ASSUME Backfillable, file.present
                 PROVE  \/ \E e \in Entries(runs) : e.kind = "ok" /\ e.at = Latest(usage).at
                        \/ Outlived
      <3>1. Entries(runs)' = Entries(runs) /\ file' = file
        BY <1>1 DEF Entries
      <3>2. Outlived' <=> Outlived
        BY <1>2, <1>3, SteadyLogs DEF Outlived, LaterSuccess
      <3> QED
        BY <1>2, <3>1, <3>2, SteadyLogs DEF BanSettled
    <2>1. CASE ph = "reconcile"
      BY <1>1, <1>4, <2>1, LowQuotaIsATie DEF StillWanted
    <2>2. CASE ph = "recoverBan"
      <3>1. RecoveredBan
        BY <1>1, <1>4, <2>2 DEF StillWanted
      <3> QED
        BY <1>4, <3>1, RecoveredIsOutlived DEF BanSettled
    <2>3. CASE ph = "missingBan"
      <3>1. ~maint.present /\ maint.present = ~Gone
        BY <1>1, <1>4, <2>3 DEF StillWanted, Settling, LastPhases
      <3> QED
        BY <3>1 DEF Gone
    <2> QED
      BY <2>1, <2>2, <2>3
  <1> QED
    BY <1>2, <1>4, <1>5, <1>1, PhaseOrder, SteadyLogs, InvalidUntouched
       DEF Settling, LatePhases, LastPhases

\* A phase lifts an invalidation only if it is not that of a 402 the round has found.
LEMMA LiftsOfInvalidSettle ==
  ASSUME Types, Settling, quiet,
         \/ WriteLift /\ maint.pc \in {"recoverInvalid", "missingInvalid"}
         \/ ClearReplaced
  PROVE  Settling'
  <1> DEFINE ph == maint.pc
  <1>1. /\ usage' = usage /\ runs' = runs /\ file' = file /\ clock' = clock /\ ban' = ban
        /\ maint'.pc = PhaseAfter(ph) /\ maint'.now = maint.now /\ maint'.authoritative = maint.authoritative
        /\ ph \in {"recoverInvalid", "missingInvalid"} =>
             LiftInvalid /\ maint.writing /\ maint'.present = maint.present /\ ~maint'.writing
        /\ ph = "replaced" =>
             /\ IF Replaced(invalid) THEN LiftInvalid ELSE invalid' = invalid
             /\ maint'.present = (file.present \/ ~maint.authoritative)
             /\ maint'.writing = maint.writing
        /\ ph \in {"recoverInvalid", "replaced", "missingInvalid"}
    <2>1. CASE WriteLift /\ maint.pc \in {"recoverInvalid", "missingInvalid"}
      <3>1. /\ Advance /\ maint.writing /\ LiftInvalid
            /\ usage' = usage /\ runs' = runs /\ file' = file /\ clock' = clock /\ ban' = ban
        BY <2>1 DEF WriteLift, reports
      <3> QED
        BY <2>1, <3>1, Advances
    <2>2. CASE ClearReplaced
      <3>1. maint = [pc |-> maint.pc, now |-> maint.now, writing |-> maint.writing, row |-> maint.row,
                     authoritative |-> maint.authoritative, present |-> maint.present]
        BY RowTypes DEF Rounds
      <3>2. maint' = [maint EXCEPT !.pc = PhaseAfter("replaced"), !.present = file.present \/ ~maint.authoritative]
        BY <2>2 DEF ClearReplaced
      <3>3. /\ maint'.pc = PhaseAfter("replaced") /\ maint'.now = maint.now
            /\ maint'.authoritative = maint.authoritative
            /\ maint'.present = (file.present \/ ~maint.authoritative)
            /\ maint'.writing = maint.writing
        BY <3>1, <3>2
      <3> QED
        BY <2>2, <3>3 DEF ClearReplaced, reports
    <2> QED
      BY <2>1, <2>2
  <1>2. Steady /\ maint'.now = clock' /\ Gone' = Gone
    BY <1>1, SteadyLogs DEF Steady, Settling
  <1>3. /\ ph \in {"recoverInvalid", "missingInvalid"} => invalid'.active = FALSE
        /\ ph = "replaced" => IF Replaced(invalid) THEN invalid'.active = FALSE ELSE invalid' = invalid
    BY <1>1, LiftedInvalid
  <1>4. \/ ~DeactivatedIn(usage) /\ ~DeactivatedIn(runs)
        \/ Founded /\ ph = "replaced" /\ invalid' = invalid
    <2> SUFFICES ASSUME DeactivatedIn(usage) \/ DeactivatedIn(runs)
                 PROVE  Founded /\ ph = "replaced" /\ invalid' = invalid
      OBVIOUS
    <2>1. Founded
      BY <1>1 DEF Settling
    <2>2. ~RecoveredInvalid /\ ~Replaced(invalid) /\ ~Gone
      BY <2>1, FoundedStands
    <2>3. ph # "recoverInvalid"
      BY <1>1, <2>2 DEF Settling, StillWanted
    <2>4. ph # "missingInvalid"
      BY <1>1, <2>2 DEF Settling, StillWanted, LastPhases
    <2> QED
      BY <1>1, <1>3, <2>1, <2>2, <2>3, <2>4
  <1>5. /\ DeactivatedIn(usage)' => Founded'
        /\ DeactivatedIn(runs)' => Founded'
    BY <1>2, <1>4, SteadyLogs, InvalidUntouched
  <1>6. CASE ph = "recoverInvalid"
    <2>1. ~RecoveredInvalid' /\ maint'.pc = "recoverBan" /\ StillWanted'
      BY <1>1, <1>3, <1>6, PhaseOrder DEF RecoveredInvalid, StillWanted
    <2> QED
      BY <1>1, <1>2, <1>5, <1>6, <2>1, BanUntouched DEF Settling, LatePhases, LastPhases
  <1>7. CASE ph = "replaced"
    <2>1. maint'.pc = "missingInvalid"
      BY <1>1, <1>7, PhaseOrder
    <2>2. ~RecoveredInvalid' /\ ~Replaced(invalid)'
      <3>1. CASE Replaced(invalid)
        BY <1>3, <1>7, <3>1 DEF RecoveredInvalid, Replaced
      <3>2. CASE ~Replaced(invalid)
        <4>1. invalid' = invalid /\ ~RecoveredInvalid
          BY <1>3, <1>7, <3>2 DEF Settling, LatePhases, LastPhases
        <4> QED
          BY <1>2, <3>2, <4>1, InvalidUntouched
      <3> QED
        BY <3>1, <3>2
    <2>3. maint'.present = ~Gone'
      BY <1>1, <1>2, <1>7, RowTypes DEF Gone
    <2>4. StillWanted'
      <3>1. ~maint.writing /\ maint'.writing = maint.writing
        BY <1>1, <1>7 DEF Settling, StillWanted
      <3> QED
        BY <3>1 DEF StillWanted
    <2> QED
      BY <1>1, <1>2, <1>5, <1>7, <2>1, <2>2, <2>3, <2>4, BanUntouched DEF Settling, LatePhases, LastPhases
  <1>8. CASE ph = "missingInvalid"
    <2>1. /\ ~RecoveredInvalid' /\ ~Replaced(invalid)' /\ maint'.pc = "missingBan" /\ StillWanted'
          /\ invalid'.active = FALSE /\ maint'.present = maint.present
      BY <1>1, <1>3, <1>8, PhaseOrder DEF RecoveredInvalid, Replaced, StillWanted
    <2> QED
      BY <1>1, <1>2, <1>5, <1>8, <2>1, BanUntouched DEF Settling, LatePhases, LastPhases
  <1> QED
    BY <1>1, <1>6, <1>7, <1>8

-----------------------------------------------------------------------------
(* Who ends the quiet, and the invariant.                                  *)

\* A step that leaves maintenance alone, or ends its round, ends the quiet.
LEMMA Disturbed ==
  ASSUME Settling, ObserveHistory, maint' = maint \/ maint'.pc = "idle"
  PROVE  Settling'
  <1>1. quiet => maint.pc # "idle"
    BY DEF Settling
  <1>2. ~quiet'
    BY <1>1 DEF ObserveHistory
  <1> QED
    BY <1>2 DEF Settling

\* A full round begins with nothing settled, a light one is not watched.
LEMMA RoundStarts ==
  ASSUME Settling, maint.pc = "idle",
         NEW full, NEW authoritative, Round(full, authoritative)
  PROVE  Settling'
  <1>1. ~quiet /\ ObserveHistory /\ clock' = clock
    BY DEF Settling, Round, Observe
  <1>2. /\ full => maint'.pc = "backfill" /\ maint'.now = clock /\ maint'.writing = FALSE
        /\ ~full => maint'.pc = "refresh"
    BY DEF Round, Resting
  <1>3. quiet' => maint'.pc = "backfill"
    BY <1>1 DEF ObserveHistory
  <1> QED
    BY <1>1, <1>2, <1>3 DEF Settling, StillWanted, LatePhases, LastPhases

LEMMA OthersDisturb ==
  ASSUME Settling,
         \/ \E c \in Callbacks : Send(c) \/ \E a \in Answers(scene.answers) : RecordUsage(c, a)
         \/ StartTrigger
         \/ \E a \in Answers(scene.probes) : AnswerProbe(a)
         \/ \E r \in Reporters : Report(r) \/ GivesUp(r)
         \/ RecordRun \/ TriggerReconciles \/ TriggerLifts
         \/ EndMaintenance \/ MaintenanceFails \/ Restart
         \/ Release \/ ReplaceFile \/ RemoveFile
         \/ AnnounceLift
         \/ StartPick \/ ReadBans \/ ReadInvalids \/ EndPick
         \/ Tick
  PROVE  Settling'
  <1>1. ASSUME \/ \E c \in Callbacks : Send(c) \/ \E a \in Answers(scene.answers) : RecordUsage(c, a)
               \/ StartTrigger
               \/ \E a \in Answers(scene.probes) : AnswerProbe(a)
               \/ RecordRun \/ TriggerReconciles \/ TriggerLifts
        PROVE  ObserveHistory /\ maint' = maint
    BY <1>1 DEF Send, RecordUsage, StartTrigger, AnswerProbe, RecordRun, TriggerReconciles, TriggerLifts, Observe
  <1>2. ASSUME NEW r \in Reporters, Report(r) \/ GivesUp(r)
        PROVE  ObserveHistory /\ maint' = maint
    BY <1>2 DEF Report, BeginWrite, BelowThreshold, CommitWrite, ClearInvalid, ClearBan, GivesUp, Observe
  <1>3. ASSUME EndMaintenance \/ MaintenanceFails \/ Restart
        PROVE  ObserveHistory /\ maint'.pc = "idle"
    BY <1>3 DEF EndMaintenance, MaintenanceFails, Restart, Resting, Observe
  <1>4. ASSUME Release \/ ReplaceFile \/ RemoveFile \/ AnnounceLift
               \/ StartPick \/ ReadBans \/ ReadInvalids \/ EndPick \/ Tick
        PROVE  ObserveHistory /\ maint' = maint
    BY <1>4 DEF Release, ReplaceFile, RemoveFile, AnnounceLift, StartPick, ReadBans, ReadInvalids, EndPick,
                Tick, Observe
  <1> QED
    BY <1>1, <1>2, <1>3, <1>4, Disturbed

\* A round that was disturbed promises nothing.
LEMMA NotQuiet ==
  ASSUME Settling, ~quiet, maint.pc # "idle", ObserveHistory
  PROVE  Settling'
  BY DEF Settling, ObserveHistory

LEMMA StepsAreObserved ==
  ASSUME MaintenanceStep
  PROVE  ObserveHistory /\ (EndMaintenance \/ maint.pc # "idle")
  <1>1. ASSUME ReadBackfill \/ WriteBackfill
        PROVE  ObserveHistory /\ maint.pc # "idle"
    BY <1>1 DEF ReadBackfill, WriteBackfill, Observe
  <1>2. ASSUME ReadLift \/ WriteLift \/ ClearReplaced
        PROVE  ObserveHistory /\ maint.pc # "idle"
    BY <1>2 DEF ReadLift, WriteLift, ClearReplaced, LiftPhases, Observe
  <1>3. ASSUME EndMaintenance
        PROVE  ObserveHistory
    BY <1>3 DEF EndMaintenance
  <1> QED
    BY <1>1, <1>2, <1>3 DEF MaintenanceStep

LEMMA SettlingInit == Init => Settling
  BY DEF Init, Settling

LEMMA SettlingStep == Types /\ Settling /\ [Next]_vars => Settling'
  <1> SUFFICES ASSUME Types, Settling, [Next]_vars PROVE Settling'
    OBVIOUS
  <1>1. CASE UNCHANGED vars
    <2>1. /\ Steady /\ ban' = ban /\ invalid' = invalid /\ maint' = maint /\ quiet' = quiet
          /\ clock' = clock
      BY <1>1 DEF vars, reports, Steady
    <2>2. StillWanted' <=> StillWanted
      BY <2>1, SteadyLogs, BanUntouched, InvalidUntouched DEF StillWanted
    <2> QED
      BY <2>1, <2>2, SteadyLogs, BanUntouched, InvalidUntouched DEF Settling
  <1>2. CASE MaintenanceStep
    <2>1. CASE EndMaintenance
      BY <2>1, OthersDisturb
    <2>2. CASE ~EndMaintenance /\ ~quiet
      BY <1>2, <2>2, StepsAreObserved, NotQuiet
    <2>3. CASE ~EndMaintenance /\ quiet
      <3>1. WriteLift => maint.pc \in LiftPhases
        BY DEF WriteLift
      <3>2. CASE ReadBackfill \/ ReadLift
        BY <2>3, <3>2, ReadsSettle
      <3>3. CASE WriteBackfill
        BY <2>3, <3>3, WriteBackfillSettles
      <3>4. CASE WriteLift
        BY <2>3, <3>1, <3>4, LiftsOfBanSettle, LiftsOfInvalidSettle DEF LiftPhases
      <3>5. CASE ClearReplaced
        BY <2>3, <3>5, LiftsOfInvalidSettle
      <3> QED
        BY <1>2, <2>3, <3>2, <3>3, <3>4, <3>5 DEF MaintenanceStep
    <2> QED
      BY <2>1, <2>2, <2>3
  <1>3. CASE \E authoritative \in BOOLEAN : StartMaintenance(authoritative) \/ RefreshDashboard(authoritative)
    <2>1. PICK full, authoritative : Round(full, authoritative) /\ maint.pc = "idle"
      BY <1>3 DEF StartMaintenance, RefreshDashboard
    <2> QED
      BY <2>1, RoundStarts
  <1>4. CASE Next /\ ~MaintenanceStep
             /\ ~\E authoritative \in BOOLEAN : StartMaintenance(authoritative) \/ RefreshDashboard(authoritative)
    BY <1>4, OthersDisturb DEF Next
  <1> QED
    BY <1>1, <1>2, <1>3, <1>4

\* What a full round has done, that nobody disturbed, the next one would not undo: it
\* would record no ban and no invalidation, and lift none, except where the newest 429
\* is contradicted by a probe of the same second, or is of a ban outlived.
THEOREM RoundsSettle == Spec => []MaintenanceSettles
  <1>1. Settling => MaintenanceSettles
    BY DEF Settling, BanSettled, Founded, Gone, LatePhases, LastPhases, MaintenanceSettles
  <1> QED
    BY <1>1, SettlingInit, SettlingStep, TypesHold, PTL DEF Spec

=============================================================================
