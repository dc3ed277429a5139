---------------------------- MODULE OutboxProofs ----------------------------
(***************************************************************************)
(* Proofs about Outbox, for any notices and bounds and any finite number   *)
(* of runs: the rows keep their shapes, no run stores an outcome that is   *)
(* not true, and deliveries and attempts beyond the first and the last are *)
(* accounted for by the stale claims taken back.                           *)
(***************************************************************************)
EXTENDS Outbox, FiniteSetTheorems, TLAPS

\* The parts of TypeOK about the rows and about the runs.
NoticesTyped ==
    /\ notice \in [Notice -> NoticeRow]
    /\ \A r \in Notice : notice[r].claimedBy # None \/ notice[r].stale =>
                           notice[r].status = "PROCESSING"

RunsTyped ==
    /\ run \in [Run -> RunRecord]
    /\ \A w \in Run : run[w].cur # None <=>
                        run[w].pc \in {"reading", "delivering", "delivered", "failing"}

CountsTyped ==
    /\ sent \in [Notice -> Nat]
    /\ recovered \in [Notice -> Nat]
    /\ deaths \in 0 .. MaxDeaths /\ slow \in 0 .. MaxSlow

LEMMA TypeParts == TypeOK <=> NoticesTyped /\ RunsTyped /\ CountsTyped
BY DEF TypeOK, NoticesTyped, RunsTyped, CountsTyped

\* A run at a row has a row of the table.
LEMMA AtNotice ==
    ASSUME TypeOK, NEW w \in Run,
           run[w].pc \in {"reading", "delivering", "delivered", "failing"}
    PROVE  run[w].cur \in Notice
BY DEF TypeOK, RunRecord

\* What RunsKnow says of a record, given the rows and the messages sent.
Knows(rec, rows, out) ==
    /\ rec.cur # None => rec.seen <= rows[rec.cur].attempts
    /\ rec.pc = "delivered" => out[rec.cur] >= 1

\* Attempts and messages only grow, and run w has a record that knows.
LEMMA KnowledgeKept ==
    ASSUME Inv, NEW w \in Run, NEW rec \in RunRecord,
           run' = [run EXCEPT ![w] = rec],
           NoticesTyped', CountsTyped',
           \A r \in Notice : notice[r].attempts <= notice'[r].attempts /\ sent[r] <= sent'[r],
           Knows(rec, notice', sent')
    PROVE  RunsKnow'
<1>1. run'[w] = rec /\ \A v \in Run : v # w => run'[v] = run[v]
  BY DEF Inv, TypeOK
<1>2. ASSUME NEW v \in Run, v # w
      PROVE  Knows(run[v], notice', sent')
  <2>1. run[v] \in RunRecord /\ Knows(run[v], notice, sent)
    BY DEF Inv, TypeOK, RunsKnow, Knows
  <2>2. CASE run[v].cur = None
    BY <2>2, <2>1 DEF Knows, Inv, TypeOK
  <2>3. CASE run[v].cur # None
    <3>1. PICK r \in Notice : r = run[v].cur
      BY <2>1, <2>3 DEF RunRecord
    <3>2. /\ notice[r].attempts \in Nat /\ notice'[r].attempts \in Nat
          /\ sent[r] \in Nat /\ sent'[r] \in Nat /\ run[v].seen \in Nat
      BY <2>1 DEF Inv, TypeOK, NoticesTyped, CountsTyped, NoticeRow, RunRecord
    <3> QED BY <2>1, <3>1, <3>2 DEF Knows
  <2> QED BY <2>2, <2>3
<1> QED BY <1>1, <1>2 DEF RunsKnow, Knows

\* Outcomes that were true stay true, and those that are new are true.
LEMMA OutcomesKept ==
    ASSUME Inv, NoticesTyped', CountsTyped',
           \A r \in Notice : notice[r].attempts <= notice'[r].attempts /\ sent[r] <= sent'[r],
           \A r \in Notice :
               \/ notice'[r].status = notice[r].status
               \/ notice'[r].status \in {"none", "PENDING", "PROCESSING"}
               \/ notice'[r].status = "SENT" /\ sent'[r] >= 1
               \/ notice'[r].status = "FAILED" /\ notice'[r].attempts >= MaxAttempts
    PROVE  OutcomeTrue'
<1> SUFFICES ASSUME NEW r \in Notice
             PROVE  /\ notice'[r].status = "SENT" => sent'[r] >= 1
                    /\ notice'[r].status = "FAILED" => notice'[r].attempts >= MaxAttempts
  BY DEF OutcomeTrue
<1>1. /\ notice[r].attempts \in Nat /\ notice'[r].attempts \in Nat
      /\ sent[r] \in Nat /\ sent'[r] \in Nat /\ MaxAttempts \in Nat
  BY OutboxAssumption DEF Inv, TypeOK, NoticesTyped, CountsTyped, NoticeRow
<1>2. /\ notice[r].status = "SENT" => sent[r] >= 1
      /\ notice[r].status = "FAILED" => notice[r].attempts >= MaxAttempts
  BY DEF Inv, OutcomeTrue
<1> QED BY <1>1, <1>2

-----------------------------------------------------------------------------
(* Steps of a run *)

\* A step of run w that changes no row.
LEMMA RunMoves ==
    ASSUME Inv, NEW w \in Run, NEW rec \in RunRecord,
           run' = [run EXCEPT ![w] = rec],
           rec.cur # None <=> rec.pc \in {"reading", "delivering", "delivered", "failing"},
           Knows(rec, notice, sent'),
           UNCHANGED notice, CountsTyped',
           \A r \in Notice : sent[r] <= sent'[r]
    PROVE  Inv'
<1>1. RunsTyped'
  BY DEF Inv, TypeOK, RunsTyped
<1>2. NoticesTyped'
  BY DEF Inv, TypeOK, NoticesTyped
<1>3. \A r \in Notice : notice[r].attempts <= notice'[r].attempts
  BY DEF Inv, TypeOK, NoticeRow
<1>4. RunsKnow'
  BY <1>2, <1>3, KnowledgeKept
<1>5. OutcomeTrue'
  BY <1>2, <1>3, OutcomesKept
<1>6. TypeOK'
  BY <1>1, <1>2 DEF TypeOK, NoticesTyped, RunsTyped, CountsTyped
<1> QED BY <1>4, <1>5, <1>6 DEF Inv

LEMMA ScanSteps ==
    ASSUME Inv, NEW w \in Run,
           \/ \E S \in SUBSET Notice : Find(w, S)
           \/ \E r \in Notice : Skip(w, r)
           \/ Finish(w)
    PROVE  Inv'
<1>1. run[w] \in RunRecord /\ (run[w].pc \in {"finding", "claiming"} => run[w].cur = None)
  BY DEF Inv, TypeOK
<1>2. UNCHANGED <<notice, sent, recovered, deaths, slow>>
  BY DEF Find, Skip, Finish, bounds
<1>3. CountsTyped' /\ \A r \in Notice : sent[r] <= sent'[r]
  BY <1>2 DEF Inv, TypeOK, CountsTyped
<1>4. ASSUME NEW S \in SUBSET Notice, Find(w, S) PROVE Inv'
  <2> DEFINE rec == [run[w] EXCEPT !.pc = "claiming", !.todo = S]
  <2>1. run' = [run EXCEPT ![w] = rec] /\ rec \in RunRecord /\ rec.pc = "claiming" /\ rec.cur = None
    BY <1>1, <1>4 DEF Find, RunRecord
  <2> HIDE DEF rec
  <2> QED BY <2>1, <1>2, <1>3, RunMoves DEF Knows
<1>5. ASSUME NEW r \in Notice, Skip(w, r) PROVE Inv'
  <2> DEFINE rec == [run[w] EXCEPT !.todo = run[w].todo \ {r}]
  <2>1. run' = [run EXCEPT ![w] = rec] /\ rec \in RunRecord /\ rec.pc = "claiming" /\ rec.cur = None
    BY <1>1, <1>5 DEF Skip, RunRecord
  <2> HIDE DEF rec
  <2> QED BY <2>1, <1>2, <1>3, RunMoves DEF Knows
<1>6. CASE Finish(w)
  <2>1. IdleRun \in RunRecord /\ IdleRun.pc = "idle" /\ IdleRun.cur = None
    BY DEF IdleRun, RunRecord
  <2>2. Knows(IdleRun, notice, sent')
    BY <2>1 DEF Knows
  <2>3. run' = [run EXCEPT ![w] = IdleRun]
    BY <1>6 DEF Finish
  <2> QED BY <2>1, <2>2, <2>3, <1>2, <1>3, RunMoves
<1> QED BY <1>4, <1>5, <1>6

LEMMA DeliverySteps ==
    ASSUME Inv, NEW w \in Run,
           Read(w) \/ Deliver(w) \/ DeliveryFails(w) \/ MarkSentFails(w)
    PROVE  Inv'
<1>1. PICK r \in Notice : r = run[w].cur
  BY AtNotice DEF Inv, Read, Deliver, DeliveryFails, MarkSentFails
<1>2. /\ run[w] \in RunRecord /\ run[w].seen \in Nat /\ notice[r].attempts \in Nat
      /\ run[w].seen <= notice[r].attempts /\ r # None
  BY <1>1, OutboxAssumption DEF Inv, TypeOK, RunRecord, NoticeRow, RunsKnow
<1>3. UNCHANGED <<notice, recovered, deaths, slow>>
  BY DEF Read, Deliver, DeliveryFails, MarkSentFails, bounds
<1>4. CASE Read(w)
  <2> DEFINE rec == [run[w] EXCEPT !.pc = "delivering", !.seen = notice[r].attempts]
  <2>1. run' = [run EXCEPT ![w] = rec] /\ UNCHANGED sent
    BY <1>1, <1>4 DEF Read
  <2>2. rec \in RunRecord /\ rec.pc = "delivering" /\ rec.cur = r /\ rec.seen = notice[r].attempts
    BY <1>1, <1>2 DEF RunRecord
  <2>3. CountsTyped' /\ \A q \in Notice : sent[q] <= sent'[q]
    BY <2>1, <1>3 DEF Inv, TypeOK, CountsTyped
  <2> HIDE DEF rec
  <2>4. Knows(rec, notice, sent')
    BY <2>2, <1>2 DEF Knows
  <2> QED BY <2>1, <2>2, <2>3, <2>4, <1>2, <1>3, RunMoves
<1>5. CASE Deliver(w) \/ DeliveryFails(w)
  <2>1. PICK out \in 0 .. 1, pc \in {"delivered", "failing"} :
          /\ sent' = [sent EXCEPT ![r] = sent[r] + out]
          /\ run' = [run EXCEPT ![w] = [run[w] EXCEPT !.pc = pc]]
          /\ pc = "delivered" => out = 1
    BY <1>1, <1>5 DEF Deliver, DeliveryFails
  <2> DEFINE rec == [run[w] EXCEPT !.pc = pc]
  <2>2. rec \in RunRecord /\ rec.pc = pc /\ rec.cur = r /\ rec.seen = run[w].seen
    BY <1>1, <1>2 DEF RunRecord
  <2>3. CountsTyped' /\ \A q \in Notice : sent[q] <= sent'[q]
    BY <2>1, <1>3 DEF Inv, TypeOK, CountsTyped
  <2>4. pc = "delivered" => sent'[r] >= 1
    BY <2>1 DEF Inv, TypeOK
  <2>5. run' = [run EXCEPT ![w] = rec]
    BY <2>1
  <2> HIDE DEF rec
  <2> QED BY <2>2, <2>3, <2>4, <2>5, <1>2, <1>3, RunMoves DEF Knows
<1>6. CASE MarkSentFails(w)
  <2> DEFINE rec == [run[w] EXCEPT !.pc = "failing"]
  <2>1. run' = [run EXCEPT ![w] = rec] /\ UNCHANGED sent
    BY <1>6 DEF MarkSentFails
  <2>2. rec \in RunRecord /\ rec.pc = "failing" /\ rec.cur = r /\ rec.seen = run[w].seen
    BY <1>1, <1>2 DEF RunRecord
  <2>3. CountsTyped' /\ \A q \in Notice : sent[q] <= sent'[q]
    BY <2>1, <1>3 DEF Inv, TypeOK, CountsTyped
  <2> HIDE DEF rec
  <2> QED BY <2>1, <2>2, <2>3, <1>2, <1>3, RunMoves DEF Knows
<1> QED BY <1>4, <1>5, <1>6

-----------------------------------------------------------------------------
(* Steps on the rows *)

\* A step of run w that changes rows.
LEMMA RowsChange ==
    ASSUME Inv, NEW w \in Run, NEW rec \in RunRecord,
           run' = [run EXCEPT ![w] = rec],
           rec.cur # None <=> rec.pc \in {"reading", "delivering", "delivered", "failing"},
           Knows(rec, notice', sent'),
           NoticesTyped', CountsTyped', UNCHANGED sent,
           \A r \in Notice : notice[r].attempts <= notice'[r].attempts,
           \A r \in Notice :
               \/ notice'[r].status = notice[r].status
               \/ notice'[r].status \in {"none", "PENDING", "PROCESSING"}
               \/ notice'[r].status = "SENT" /\ sent'[r] >= 1
               \/ notice'[r].status = "FAILED" /\ notice'[r].attempts >= MaxAttempts
    PROVE  Inv'
<1>1. RunsTyped'
  BY DEF Inv, TypeOK, RunsTyped
<1>2. \A r \in Notice : sent[r] <= sent'[r]
  BY DEF Inv, TypeOK
<1>3. RunsKnow'
  BY <1>2, KnowledgeKept
<1>4. OutcomeTrue'
  BY <1>2, OutcomesKept
<1>5. TypeOK'
  BY <1>1 DEF TypeOK, NoticesTyped, RunsTyped, CountsTyped
<1> QED BY <1>3, <1>4, <1>5 DEF Inv

LEMMA RecoverStep ==
    ASSUME Inv, NEW w \in Run, Recover(w)
    PROVE  Inv'
<1> DEFINE rec == [run[w] EXCEPT !.pc = "finding"]
<1>1. run' = [run EXCEPT ![w] = rec] /\ UNCHANGED <<sent, deaths, slow>>
  BY DEF Recover, bounds
<1>2. rec \in RunRecord /\ rec.pc = "finding" /\ rec.cur = None
  BY DEF Recover, Inv, TypeOK, RunRecord
<1>3. PICK new \in [Notice -> NoticeRow] :
        /\ notice' = [r \in Notice |-> IF Stale(r) THEN new[r] ELSE notice[r]]
        /\ \A r \in Notice : /\ new[r].attempts = notice[r].attempts
                             /\ new[r].status = "PENDING"
                             /\ new[r].claimedBy = None /\ ~new[r].stale
  <2> DEFINE new == [r \in Notice |->
                       Unclaimed([notice[r] EXCEPT !.status = "PENDING", !.due = TRUE])]
  <2>1. \A r \in Notice : notice[r] \in NoticeRow
    BY DEF Inv, TypeOK
  <2>2. \A r \in Notice : /\ new[r] \in NoticeRow
                          /\ new[r].attempts = notice[r].attempts
                          /\ new[r].status = "PENDING"
                          /\ new[r].claimedBy = None /\ ~new[r].stale
    BY <2>1 DEF Unclaimed, NoticeRow
  <2>3. notice' = [r \in Notice |-> IF Stale(r) THEN new[r] ELSE notice[r]]
    BY DEF Recover
  <2> QED BY <2>2, <2>3
<1>4. NoticesTyped'
  BY <1>3 DEF Inv, TypeOK, NoticesTyped
<1>5. CountsTyped'
  <2>1. recovered' = [r \in Notice |-> recovered[r] + (IF Stale(r) THEN 1 ELSE 0)]
    BY DEF Recover
  <2>2. \A r \in Notice : recovered[r] + (IF Stale(r) THEN 1 ELSE 0) \in Nat
    BY DEF Inv, TypeOK
  <2> QED BY <1>1, <2>1, <2>2 DEF Inv, TypeOK, CountsTyped
<1>6. \A r \in Notice : notice[r].attempts \in Nat
  BY DEF Inv, TypeOK, NoticeRow
<1>7. \A r \in Notice : /\ notice[r].attempts <= notice'[r].attempts
                        /\ \/ notice'[r].status = notice[r].status
                           \/ notice'[r].status = "PENDING"
  BY <1>3, <1>6
<1> HIDE DEF rec
<1> QED BY <1>1, <1>2, <1>4, <1>5, <1>7, RowsChange DEF Knows

LEMMA ClaimStep ==
    ASSUME Inv, NEW w \in Run, NEW r \in Notice, Claim(w, r)
    PROVE  Inv'
<1> DEFINE rec ==
             [run[w] EXCEPT !.pc = "reading", !.todo = run[w].todo \ {r}, !.cur = r, !.seen = 0]
<1>1. run' = [run EXCEPT ![w] = rec] /\ UNCHANGED <<sent, recovered, deaths, slow>>
  BY DEF Claim, bounds
<1>2. run[w] \in RunRecord /\ r # None
  BY OutboxAssumption DEF Inv, TypeOK
<1>3. rec \in RunRecord /\ rec.pc = "reading" /\ rec.cur = r /\ rec.seen = 0
  BY <1>2 DEF RunRecord
<1>8. PICK new \in NoticeRow :
        /\ notice' = [notice EXCEPT ![r] = new]
        /\ new.status = "PROCESSING" /\ new.attempts = notice[r].attempts + 1
  <2>1. PICK row \in NoticeRow, old \in BOOLEAN : row = notice[r] /\ old = run[w].old
    BY <1>2 DEF Inv, TypeOK, RunRecord
  <2> DEFINE new == [row EXCEPT !.status = "PROCESSING", !.attempts = row.attempts + 1,
                                !.claimedBy = w, !.stale = old]
  <2>2. row.attempts + 1 \in Nat
    BY DEF NoticeRow
  <2>3. new \in NoticeRow
    BY <2>2 DEF NoticeRow
  <2>4. new.status = "PROCESSING" /\ new.attempts = row.attempts + 1
    BY DEF NoticeRow
  <2>5. notice' = [notice EXCEPT ![r] = new]
    BY <2>1 DEF Claim
  <2> HIDE DEF new
  <2> QED BY <2>1, <2>3, <2>4, <2>5
<1>9. notice'[r] = new /\ \A q \in Notice : q # r => notice'[q] = notice[q]
  BY <1>8 DEF Inv, TypeOK
<1>4. NoticesTyped'
  BY <1>8, <1>9 DEF Inv, TypeOK, NoticesTyped
<1>5. CountsTyped'
  BY <1>1 DEF Inv, TypeOK, CountsTyped
<1>6. \A q \in Notice : /\ notice[q].attempts <= notice'[q].attempts
                        /\ \/ notice'[q].status = notice[q].status
                           \/ notice'[q].status = "PROCESSING"
  BY <1>8, <1>9 DEF Inv, TypeOK, NoticeRow
<1>7. 0 <= notice'[r].attempts
  BY <1>9 DEF NoticeRow
<1> HIDE DEF rec
<1> QED BY <1>1, <1>2, <1>3, <1>4, <1>5, <1>6, <1>7, RowsChange DEF Knows

LEMMA StoreSteps ==
    ASSUME Inv, NEW w \in Run, MarkSent(w) \/ MarkFailed(w)
    PROVE  Inv'
<1>1. PICK r \in Notice : r = run[w].cur
  BY AtNotice DEF Inv, MarkSent, MarkFailed
<1>2. /\ run[w] \in RunRecord /\ run[w].seen \in Nat /\ notice[r] \in NoticeRow
      /\ run[w].seen <= notice[r].attempts /\ r # None
      /\ MaxAttempts \in Nat
  BY <1>1, OutboxAssumption DEF Inv, TypeOK, RunRecord, RunsKnow
<1> DEFINE rec == [run[w] EXCEPT !.pc = "claiming", !.cur = None, !.seen = 0]
<1>3. rec \in RunRecord /\ rec.pc = "claiming" /\ rec.cur = None
  BY <1>2 DEF RunRecord
<1>4. run' = [run EXCEPT ![w] = rec] /\ UNCHANGED <<sent, recovered, deaths, slow>>
  BY DEF MarkSent, MarkFailed, Store, bounds
<1>5. PICK new \in NoticeRow :
        /\ notice' = [notice EXCEPT ![r] = new]
        /\ new.claimedBy = None /\ ~new.stale /\ new.attempts = notice[r].attempts
        /\ \/ new.status = "SENT" /\ sent[r] >= 1
           \/ new.status = "PENDING"
           \/ new.status = "FAILED" /\ notice[r].attempts >= MaxAttempts
  <2>1. CASE MarkSent(w)
    <3> DEFINE new == Unclaimed([notice[r] EXCEPT !.status = "SENT"])
    <3>1. /\ new \in NoticeRow /\ new.claimedBy = None /\ ~new.stale
          /\ new.attempts = notice[r].attempts /\ new.status = "SENT"
      BY <1>2 DEF Unclaimed, NoticeRow
    <3>2. notice' = [notice EXCEPT ![r] = new]
      BY <2>1, <1>1 DEF MarkSent, Store
    <3>3. sent[r] >= 1
      BY <2>1, <1>1 DEF MarkSent, Inv, RunsKnow
    <3> QED BY <3>1, <3>2, <3>3
  <2>2. CASE MarkFailed(w)
    <3>1. PICK st \in {"FAILED", "PENDING"} :
            /\ st = IF LastAttempt(run[w].seen) THEN "FAILED" ELSE "PENDING"
            /\ st = "FAILED" => run[w].seen >= MaxAttempts
      BY DEF LastAttempt
    <3> DEFINE new == Unclaimed([notice[r] EXCEPT !.status = st, !.due = FALSE])
    <3>2. /\ new \in NoticeRow /\ new.claimedBy = None /\ ~new.stale
          /\ new.attempts = notice[r].attempts /\ new.status = st
      BY <1>2 DEF Unclaimed, NoticeRow
    <3>3. notice' = [notice EXCEPT ![r] = new]
      BY <2>2, <1>1, <3>1 DEF MarkFailed, Store
    <3>4. st = "FAILED" => notice[r].attempts >= MaxAttempts
      BY <1>2, <3>1 DEF NoticeRow
    <3> QED BY <3>1, <3>2, <3>3, <3>4
  <2> QED BY <2>1, <2>2
<1> HIDE DEF rec
<1>6. notice'[r] = new /\ \A q \in Notice : q # r => notice'[q] = notice[q]
  BY <1>5 DEF Inv, TypeOK
<1>7. NoticesTyped'
  BY <1>5, <1>6 DEF Inv, TypeOK, NoticesTyped
<1>8. CountsTyped'
  BY <1>4 DEF Inv, TypeOK, CountsTyped
<1>9. \A q \in Notice : notice[q].attempts <= notice'[q].attempts
  BY <1>5, <1>6, <1>2 DEF Inv, TypeOK, NoticeRow
<1> QED BY <1>3, <1>4, <1>5, <1>6, <1>7, <1>8, <1>9, RowsChange DEF Knows

\* A row that keeps its attempts and its status, and is claimed or stale only when
\* it was already, or is being delivered.
SameRow(row, next) ==
    /\ next.attempts = row.attempts
    /\ next.status = row.status
    /\ next.claimedBy # None \/ next.stale =>
         row.claimedBy # None \/ row.stale \/ row.status = "PROCESSING"

LEMMA TroubleSteps ==
    ASSUME Inv, NEW w \in Run, Die(w) \/ Age(w)
    PROVE  Inv'
<1>1. PICK rec \in RunRecord :
        /\ run' = [run EXCEPT ![w] = rec]
        /\ rec.cur # None <=> rec.pc \in {"reading", "delivering", "delivered", "failing"}
        /\ Knows(rec, notice, sent)
  <2>1. CASE Die(w)
    <3>1. IdleRun \in RunRecord /\ IdleRun.pc = "idle" /\ IdleRun.cur = None
      BY DEF IdleRun, RunRecord
    <3> QED BY <2>1, <3>1 DEF Die, Knows
  <2>2. CASE Age(w)
    <3> DEFINE rec == [run[w] EXCEPT !.old = TRUE]
    <3>1. run[w] \in RunRecord /\ Knows(run[w], notice, sent)
      BY DEF Inv, TypeOK, RunsKnow, Knows
    <3>2. rec \in RunRecord /\ rec.pc = run[w].pc /\ rec.cur = run[w].cur /\ rec.seen = run[w].seen
      BY <3>1 DEF RunRecord
    <3>3. run' = [run EXCEPT ![w] = rec]
      BY <2>2 DEF Age
    <3>4. Knows(rec, notice, sent)
      BY <3>1, <3>2 DEF Knows
    <3>5. rec.cur # None <=> rec.pc \in {"reading", "delivering", "delivered", "failing"}
      BY <3>2 DEF Inv, TypeOK
    <3> QED BY <3>2, <3>3, <3>4, <3>5
  <2> QED BY <2>1, <2>2
<1>2. UNCHANGED sent /\ CountsTyped'
  BY OutboxAssumption DEF Die, Age, Inv, TypeOK, CountsTyped
<1>3. /\ notice' \in [Notice -> NoticeRow]
      /\ \A r \in Notice : SameRow(notice[r], notice'[r])
  <2>1. CASE Die(w)
    <3> DEFINE new == [r \in Notice |-> [notice[r] EXCEPT !.claimedBy = None]]
    <3>1. \A r \in Notice : new[r] \in NoticeRow /\ SameRow(notice[r], new[r])
      BY DEF Inv, TypeOK, NoticeRow, SameRow
    <3>2. notice' = [r \in Notice |-> IF notice[r].claimedBy = w THEN new[r] ELSE notice[r]]
      BY <2>1 DEF Die
    <3> HIDE DEF new
    <3> QED BY <3>1, <3>2 DEF Inv, TypeOK, SameRow
  <2>2. CASE Age(w)
    <3> DEFINE new == [r \in Notice |-> [notice[r] EXCEPT !.stale = TRUE]]
    <3>1. \A r \in Notice : /\ new[r] \in NoticeRow
                            /\ notice[r].claimedBy = w => SameRow(notice[r], new[r])
      <4> SUFFICES ASSUME NEW r \in Notice
                   PROVE  /\ new[r] \in NoticeRow
                          /\ notice[r].claimedBy = w => SameRow(notice[r], new[r])
        OBVIOUS
      <4>1. PICK row \in NoticeRow : row = notice[r]
        BY DEF Inv, TypeOK
      <4>2. row.claimedBy = w => row.status = "PROCESSING"
        BY <4>1, OutboxAssumption DEF Inv, TypeOK
      <4> QED BY <4>1, <4>2 DEF NoticeRow, SameRow
    <3>2. notice' = [r \in Notice |-> IF notice[r].claimedBy = w THEN new[r] ELSE notice[r]]
      BY <2>2 DEF Age
    <3> HIDE DEF new
    <3> QED BY <3>1, <3>2 DEF Inv, TypeOK, SameRow
  <2> QED BY <2>1, <2>2
<1>4. NoticesTyped'
  BY <1>3 DEF Inv, TypeOK, NoticesTyped, SameRow
<1>5. \A r \in Notice : notice[r].attempts <= notice'[r].attempts
  BY <1>3 DEF Inv, TypeOK, NoticeRow, SameRow
<1>6. Knows(rec, notice', sent')
  BY <1>1, <1>2, <1>3 DEF Knows, RunRecord, SameRow
<1> QED BY <1>1, <1>2, <1>3, <1>4, <1>5, <1>6, RowsChange DEF SameRow

LEMMA RowSteps ==
    ASSUME Inv,
           \/ \E r \in Notice : OrphanAges(r) \/ BecomesDue(r)
           \/ \E S \in SUBSET Notice : Enqueue(S)
    PROVE  Inv'
<1>1. UNCHANGED <<run, sent, recovered, deaths, slow>>
  BY DEF OrphanAges, BecomesDue, Enqueue, bounds
<1>2. /\ notice' \in [Notice -> NoticeRow]
      /\ \A q \in Notice :
           \/ SameRow(notice[q], notice'[q])
           \/ /\ notice'[q].attempts = notice[q].attempts
              /\ notice'[q].status = "PENDING"
              /\ notice'[q].claimedBy = None /\ ~notice'[q].stale
  <2>1. ASSUME NEW r \in Notice, OrphanAges(r) \/ BecomesDue(r)
        PROVE  <1>2!1 /\ \A q \in Notice : SameRow(notice[q], notice'[q])
    <3>1. PICK new \in NoticeRow : /\ notice' = [notice EXCEPT ![r] = new]
                                   /\ SameRow(notice[r], new)
      <4>1. notice[r] \in NoticeRow
        BY DEF Inv, TypeOK
      <4>2. CASE OrphanAges(r)
        BY <4>1, <4>2 DEF OrphanAges, NoticeRow, SameRow
      <4>3. CASE BecomesDue(r)
        <5> DEFINE new == [notice[r] EXCEPT !.due = TRUE]
        <5>1. new \in NoticeRow /\ SameRow(notice[r], new)
          BY <4>1 DEF NoticeRow, SameRow
        <5>2. notice' = [notice EXCEPT ![r] = new]
          BY <4>3 DEF BecomesDue
        <5> QED BY <5>1, <5>2
      <4> QED BY <2>1, <4>2, <4>3
    <3> QED BY <3>1 DEF Inv, TypeOK, SameRow
  <2>2. ASSUME NEW S \in SUBSET Notice, Enqueue(S) PROVE <1>2
    <3> DEFINE new == [q \in Notice |->
                         [notice[q] EXCEPT !.status = "PENDING", !.due = TRUE]]
    <3>1. ASSUME NEW q \in Notice
          PROVE  /\ new[q] \in NoticeRow /\ new[q].attempts = notice[q].attempts
                 /\ new[q].status = "PENDING"
                 /\ q \in S => new[q].claimedBy = None /\ ~new[q].stale
      <4>1. PICK row \in NoticeRow : row = notice[q]
        BY DEF Inv, TypeOK
      <4>2. q \in S => row.claimedBy = None /\ ~row.stale
        BY <4>1, <2>2 DEF Enqueue, Inv, TypeOK
      <4> QED BY <4>1, <4>2 DEF NoticeRow
    <3>2. notice' = [q \in Notice |-> IF q \in S THEN new[q] ELSE notice[q]]
      BY <2>2 DEF Enqueue
    <3> HIDE DEF new
    <3> QED BY <3>1, <3>2 DEF Inv, TypeOK, SameRow
  <2> QED BY <2>1, <2>2
<1>3. NoticesTyped'
  BY <1>2 DEF Inv, TypeOK, NoticesTyped, SameRow
<1>4. RunsTyped' /\ CountsTyped'
  BY <1>1 DEF Inv, TypeOK, RunsTyped, CountsTyped
<1>5. \A q \in Notice : notice[q].attempts <= notice'[q].attempts /\ sent[q] <= sent'[q]
  BY <1>1, <1>2 DEF Inv, TypeOK, NoticeRow, SameRow
<1>6. OutcomeTrue'
  BY <1>2, <1>3, <1>4, <1>5, OutcomesKept DEF SameRow
<1>7. RunsKnow'
  BY <1>1, <1>2 DEF Inv, TypeOK, RunRecord, RunsKnow, SameRow
<1>8. TypeOK'
  BY <1>3, <1>4 DEF TypeOK, NoticesTyped, RunsTyped, CountsTyped
<1> QED BY <1>6, <1>7, <1>8 DEF Inv

-----------------------------------------------------------------------------
(* The invariant *)

LEMMA InitInv == Init => Inv
<1> SUFFICES ASSUME Init PROVE Inv
  OBVIOUS
<1>1. NoNotice \in NoticeRow /\ IdleRun \in RunRecord
  BY DEF NoNotice, NoticeRow, IdleRun, RunRecord
<1>2. TypeOK
  BY <1>1, OutboxAssumption DEF Init, TypeOK, NoNotice, IdleRun
<1>3. RunsKnow /\ OutcomeTrue
  BY DEF Init, RunsKnow, OutcomeTrue, NoNotice, IdleRun
<1> QED BY <1>2, <1>3 DEF Inv

LEMMA NextInv == Inv /\ [Next]_vars => Inv'
<1> SUFFICES ASSUME Inv, [Next]_vars PROVE Inv'
  OBVIOUS
<1>1. CASE UNCHANGED vars
  BY <1>1 DEF vars, bounds, Inv, TypeOK, RunsKnow, OutcomeTrue
<1>2. ASSUME NEW w \in Run, Recover(w) \/ RunStep(w) \/ Die(w) \/ Age(w)
      PROVE  Inv'
  <2>1. CASE Recover(w)
    BY <2>1, RecoverStep
  <2>2. CASE \/ \E S \in SUBSET Notice : Find(w, S)
             \/ \E r \in Notice : Skip(w, r)
             \/ Finish(w)
    BY <2>2, ScanSteps
  <2>3. CASE \E r \in Notice : Claim(w, r)
    BY <2>3, ClaimStep
  <2>4. CASE Read(w) \/ Deliver(w) \/ DeliveryFails(w) \/ MarkSentFails(w)
    BY <2>4, DeliverySteps
  <2>5. CASE MarkSent(w) \/ MarkFailed(w)
    BY <2>5, StoreSteps
  <2>6. CASE Die(w) \/ Age(w)
    BY <2>6, TroubleSteps
  <2> QED BY <1>2, <2>1, <2>2, <2>3, <2>4, <2>5, <2>6 DEF RunStep
<1>3. CASE \/ \E r \in Notice : OrphanAges(r) \/ BecomesDue(r)
           \/ \E S \in SUBSET Notice : Enqueue(S)
  BY <1>3, RowSteps
<1> QED BY <1>1, <1>2, <1>3 DEF Next

\* What a run knows of its row stays true, whatever the other runs, deaths and late
\* runs do to it: the invariant the two theorems below rest on.
THEOREM Invariance == Spec => []Inv
BY InitInv, NextInv, PTL DEF Spec

\* Rows and runs keep their shapes, and a claim is kept on a row in delivery only.
THEOREM TypeCorrectness == Spec => []TypeOK
<1>1. Inv => TypeOK
  BY DEF Inv
<1> QED BY <1>1, Invariance, PTL

\* A notice marked SENT has gone out and one marked FAILED has used up its attempts,
\* for any number of overlapping runs, however late the one that stores the outcome.
THEOREM OutcomesTrue == Spec => []OutcomeTrue
<1>1. Inv => OutcomeTrue
  BY DEF Inv
<1> QED BY <1>1, Invariance, PTL

-----------------------------------------------------------------------------
(* Counting the runs at a row *)

Deliverers(r) == {w \in Run : run[w].cur = r}

Waiting(r) == IF notice[r].status = "PENDING" THEN 1 ELSE 0

\* Those that have not called the service yet.
Unsent(r) == {w \in Deliverers(r) : run[w].pc \in {"reading", "delivering"}}

\* A run may put its row back if it reads, or has read, fewer attempts than the
\* last one has.
Returns(rec, attempts) == (IF rec.pc = "reading" THEN attempts ELSE rec.seen) < MaxAttempts

Returners(r) == {w \in Deliverers(r) : Returns(run[w], notice[r].attempts)}

\* Beyond the last attempt, each attempt more has used up a claim taken back, and
\* so will each run that may put the row back, and the row that waits.
Accounted(r) ==
    /\ notice[r].status = "none" => Deliverers(r) = {} /\ notice[r].attempts = 0
    /\ Cardinality(Deliverers(r)) + Waiting(r) <= 1 + recovered[r]
    /\ sent[r] + Cardinality(Unsent(r)) <= notice[r].attempts
    /\ notice[r].attempts >= MaxAttempts =>
         notice[r].attempts + Cardinality(Returners(r)) + Waiting(r) <= MaxAttempts + recovered[r]

Accounts == \A r \in Notice : Accounted(r)

LEMMA Smaller ==
    ASSUME NEW T \in SUBSET Run, NEW S \in SUBSET T
    PROVE  /\ Cardinality(S) \in Nat /\ Cardinality(T) \in Nat
           /\ Cardinality(S) <= Cardinality(T)
           /\ \A w \in T \ S : Cardinality(S) + 1 <= Cardinality(T)
<1>1. IsFiniteSet(T)
  BY OutboxAssumption, FS_Subset
<1>2. IsFiniteSet(S) /\ Cardinality(S) \in Nat /\ Cardinality(T) \in Nat
      /\ Cardinality(S) <= Cardinality(T)
  BY <1>1, FS_Subset, FS_CardinalityType
<1>3. ASSUME NEW w \in T \ S
      PROVE  Cardinality(S) + 1 <= Cardinality(T)
  <2>1. IsFiniteSet(S \cup {w}) /\ Cardinality(S \cup {w}) = Cardinality(S) + 1
    BY <1>2, <1>3, FS_AddElement
  <2>2. Cardinality(S \cup {w}) <= Cardinality(T)
    BY <1>1, FS_Subset
  <2> QED BY <2>1, <2>2
<1> QED BY <1>2, <1>3

LEMMA OneMore ==
    ASSUME NEW S \in SUBSET Run, NEW w \in Run, NEW T \in SUBSET (S \cup {w})
    PROVE  Cardinality(T) <= Cardinality(S) + 1
<1>1. IsFiniteSet(S)
  BY OutboxAssumption, FS_Subset
<1>2. IsFiniteSet(S \cup {w}) /\ Cardinality(S) \in Nat
      /\ Cardinality(S \cup {w}) \in Nat /\ Cardinality(S \cup {w}) <= Cardinality(S) + 1
  BY <1>1, FS_AddElement, FS_CardinalityType
<1>3. Cardinality(T) <= Cardinality(S \cup {w}) /\ Cardinality(T) \in Nat
  BY <1>2, FS_Subset, FS_CardinalityType
<1> QED BY <1>2, <1>3

LEMMA Numbers ==
    ASSUME TypeOK, NEW r \in Notice
    PROVE  /\ Deliverers(r) \in SUBSET Run
           /\ Unsent(r) \in SUBSET Deliverers(r) /\ Returners(r) \in SUBSET Deliverers(r)
           /\ Cardinality(Deliverers(r)) \in Nat /\ Waiting(r) \in {0, 1}
           /\ Cardinality(Unsent(r)) \in Nat /\ Cardinality(Returners(r)) \in Nat
           /\ Cardinality(Returners(r)) <= Cardinality(Deliverers(r))
           /\ sent[r] \in Nat /\ recovered[r] \in Nat /\ notice[r].attempts \in Nat
           /\ MaxAttempts \in Nat
<1>1. /\ Deliverers(r) \in SUBSET Run
      /\ Unsent(r) \in SUBSET Deliverers(r) /\ Returners(r) \in SUBSET Deliverers(r)
  BY DEF Deliverers, Unsent, Returners
<1>2. sent[r] \in Nat /\ recovered[r] \in Nat /\ notice[r].attempts \in Nat
      /\ MaxAttempts \in Nat
  BY OutboxAssumption DEF TypeOK, NoticeRow
<1> QED BY <1>1, <1>2, Smaller DEF Waiting

\* Nobody comes to the row, and the row does not come to wait.
LEMMA StaysAccounted ==
    ASSUME TypeOK, NEW r \in Notice, Accounted(r),
           UNCHANGED <<sent[r], recovered[r], notice[r].attempts>>,
           notice'[r].status \in {"none", "PENDING"} => notice'[r].status = notice[r].status,
           Deliverers(r)' \subseteq Deliverers(r),
           Unsent(r)' \subseteq Unsent(r),
           Returners(r)' \subseteq Returners(r)
    PROVE  Accounted(r)'
<1>1. PICK d, u, b, d1, u1, b1 :
        /\ d = Cardinality(Deliverers(r)) /\ d1 = Cardinality(Deliverers(r)')
        /\ u = Cardinality(Unsent(r)) /\ u1 = Cardinality(Unsent(r)')
        /\ b = Cardinality(Returners(r)) /\ b1 = Cardinality(Returners(r)')
  OBVIOUS
<1>2. d1 <= d /\ u1 <= u /\ b1 <= b
      /\ d \in Nat /\ u \in Nat /\ b \in Nat /\ d1 \in Nat /\ u1 \in Nat /\ b1 \in Nat
  BY <1>1, Numbers, Smaller
<1>3. Waiting(r) \in {0, 1} /\ Waiting(r)' \in {0, 1} /\ Waiting(r)' <= Waiting(r)
  BY DEF Waiting
<1>4. notice'[r].status = "none" => Deliverers(r)' = {} /\ notice'[r].attempts = 0
  BY DEF Accounted
<1>5. d1 + Waiting(r)' <= 1 + recovered[r] /\ sent[r] + u1 <= notice[r].attempts
  BY <1>1, <1>2, <1>3, Numbers DEF Accounted
<1>6. notice[r].attempts >= MaxAttempts =>
        notice[r].attempts + b1 + Waiting(r)' <= MaxAttempts + recovered[r]
  BY <1>1, <1>2, <1>3, Numbers DEF Accounted
<1> QED BY <1>1, <1>4, <1>5, <1>6 DEF Accounted

\* A run that becomes rec, from old, comes to no row and gains no right there.
Follows(rec, old) ==
    \A r \in Notice : rec.cur = r =>
        /\ old.cur = r
        /\ rec.pc \in {"reading", "delivering"} => old.pc \in {"reading", "delivering"}
        /\ Returns(rec, notice[r].attempts) => Returns(old, notice[r].attempts)

\* A row neither tried again nor put back.
RowRests(r) ==
    /\ notice'[r].attempts = notice[r].attempts
    /\ notice'[r].status \in {"none", "PENDING"} => notice'[r].status = notice[r].status

LEMMA Moving ==
    ASSUME TypeOK, NEW w \in Run, NEW rec \in RunRecord, run' = [run EXCEPT ![w] = rec],
           NEW r \in Notice, UNCHANGED (notice[r].attempts), Follows(rec, run[w])
    PROVE  /\ Deliverers(r)' \subseteq Deliverers(r)
           /\ Unsent(r)' \subseteq Unsent(r)
           /\ Returners(r)' \subseteq Returners(r)
<1>1. run'[w] = rec /\ \A v \in Run : v # w => run'[v] = run[v]
  BY DEF TypeOK
<1>0. rec.cur = r =>
        /\ run[w].cur = r
        /\ rec.pc \in {"reading", "delivering"} => run[w].pc \in {"reading", "delivering"}
        /\ Returns(rec, notice[r].attempts) => Returns(run[w], notice[r].attempts)
  BY DEF Follows
<1>2. Deliverers(r)' \subseteq Deliverers(r)
  BY <1>0, <1>1 DEF Deliverers
<1>3. Unsent(r)' \subseteq Unsent(r)
  BY <1>0, <1>1, <1>2 DEF Unsent, Deliverers
<1>4. ASSUME NEW v \in Returners(r)'
      PROVE  v \in Returners(r)
  <2>1. /\ v \in Run /\ v \in Deliverers(r) /\ run'[v].cur = r
        /\ Returns(run'[v], notice[r].attempts)
    BY <1>2, <1>4 DEF Returners, Deliverers
  <2>2. CASE v = w
    BY <1>0, <1>1, <2>1, <2>2 DEF Returners
  <2>3. CASE v # w
    BY <1>1, <2>1, <2>3 DEF Returners, Deliverers
  <2> QED BY <2>2, <2>3
<1> QED BY <1>2, <1>3, <1>4

\* A step of run w that counts for nothing at row r.
LEMMA RunRests ==
    ASSUME TypeOK, NEW w \in Run, NEW rec \in RunRecord, run' = [run EXCEPT ![w] = rec],
           NEW r \in Notice, Accounted(r), UNCHANGED <<sent[r], recovered[r]>>,
           RowRests(r), Follows(rec, run[w])
    PROVE  Accounted(r)'
<1>1. /\ notice'[r].attempts = notice[r].attempts
      /\ notice'[r].status \in {"none", "PENDING"} => notice'[r].status = notice[r].status
  BY DEF RowRests
<1>2. /\ Deliverers(r)' \subseteq Deliverers(r)
      /\ Unsent(r)' \subseteq Unsent(r)
      /\ Returners(r)' \subseteq Returners(r)
  BY <1>1, Moving
<1> QED BY <1>1, <1>2, StaysAccounted

LEMMA ScansFollow ==
    ASSUME TypeOK, NEW w \in Run,
           \/ \E S \in SUBSET Notice : Find(w, S)
           \/ \E r \in Notice : Skip(w, r)
           \/ Finish(w) \/ MarkSent(w) \/ MarkFailed(w) \/ Die(w) \/ Recover(w)
    PROVE  \E rec \in RunRecord : run' = [run EXCEPT ![w] = rec] /\ rec.cur = None
<1>1. run[w] \in RunRecord
  BY DEF TypeOK
<1>2. run[w].pc \in {"idle", "finding", "claiming"} => run[w].cur = None
  BY DEF TypeOK
<1>3. ASSUME NEW S \in SUBSET Notice, Find(w, S)
      PROVE  \E rec \in RunRecord : run' = [run EXCEPT ![w] = rec] /\ rec.cur = None
  <2> DEFINE rec == [run[w] EXCEPT !.pc = "claiming", !.todo = S]
  <2>1. run' = [run EXCEPT ![w] = rec] /\ rec \in RunRecord /\ rec.cur = None
    BY <1>1, <1>2, <1>3 DEF Find, RunRecord
  <2> HIDE DEF rec
  <2> QED BY <2>1
<1>4. ASSUME NEW r \in Notice, Skip(w, r)
      PROVE  \E rec \in RunRecord : run' = [run EXCEPT ![w] = rec] /\ rec.cur = None
  <2> DEFINE rec == [run[w] EXCEPT !.todo = run[w].todo \ {r}]
  <2>1. run' = [run EXCEPT ![w] = rec] /\ rec \in RunRecord /\ rec.cur = None
    BY <1>1, <1>2, <1>4 DEF Skip, RunRecord
  <2> HIDE DEF rec
  <2> QED BY <2>1
<1>5. CASE Finish(w) \/ Die(w)
  <2>1. IdleRun \in RunRecord /\ IdleRun.cur = None
    BY DEF IdleRun, RunRecord
  <2> QED BY <1>5, <2>1 DEF Finish, Die
<1>6. CASE MarkSent(w) \/ MarkFailed(w)
  <2> DEFINE rec == [run[w] EXCEPT !.pc = "claiming", !.cur = None, !.seen = 0]
  <2>1. run' = [run EXCEPT ![w] = rec] /\ rec \in RunRecord /\ rec.cur = None
    BY <1>1, <1>6 DEF MarkSent, MarkFailed, Store, RunRecord
  <2> HIDE DEF rec
  <2> QED BY <2>1
<1>7. CASE Recover(w)
  <2> DEFINE rec == [run[w] EXCEPT !.pc = "finding"]
  <2>1. run' = [run EXCEPT ![w] = rec] /\ rec \in RunRecord /\ rec.cur = None
    BY <1>1, <1>2, <1>7 DEF Recover, RunRecord
  <2> HIDE DEF rec
  <2> QED BY <2>1
<1> QED BY <1>3, <1>4, <1>5, <1>6, <1>7

LEMMA NowhereFollows ==
    ASSUME NEW rec, NEW old, rec.cur = None
    PROVE  Follows(rec, old)
BY OutboxAssumption DEF Follows

LEMMA QuietSteps ==
    ASSUME TypeOK, Accounts, NEW w \in Run,
           \/ \E S \in SUBSET Notice : Find(w, S)
           \/ \E r \in Notice : Skip(w, r)
           \/ Finish(w) \/ Read(w) \/ MarkSentFails(w) \/ MarkSent(w) \/ Die(w) \/ Age(w)
    PROVE  Accounts'
<1> SUFFICES ASSUME NEW q \in Notice PROVE Accounted(q)'
  BY DEF Accounts
<1>1. run[w] \in RunRecord /\ notice[q] \in NoticeRow /\ Accounted(q)
  BY DEF TypeOK, Accounts
<1>2. UNCHANGED <<sent, recovered>>
  BY DEF Find, Skip, Finish, Read, MarkSentFails, MarkSent, Store, Die, Age
<1>3. RowRests(q)
  <2>1. CASE UNCHANGED notice
    BY <2>1 DEF RowRests
  <2>2. CASE MarkSent(w)
    <3>1. PICK r \in Notice : r = run[w].cur
      BY <2>2, AtNotice DEF MarkSent
    <3>2. PICK row \in NoticeRow : row = notice[r]
      BY DEF TypeOK
    <3> DEFINE new == Unclaimed([row EXCEPT !.status = "SENT"])
    <3>3. new.attempts = row.attempts /\ new.status = "SENT"
      BY DEF Unclaimed, NoticeRow
    <3>4. notice' = [notice EXCEPT ![r] = new]
      BY <2>2, <3>1, <3>2 DEF MarkSent, Store
    <3> HIDE DEF new
    <3> QED BY <3>2, <3>3, <3>4 DEF TypeOK, RowRests
  <2>3. CASE Die(w)
    BY <1>1, <2>3 DEF Die, NoticeRow, RowRests
  <2>4. CASE Age(w)
    BY <1>1, <2>4 DEF Age, NoticeRow, RowRests
  <2> QED BY <2>1, <2>2, <2>3, <2>4 DEF Find, Skip, Finish, Read, MarkSentFails
<1>4. \E rec \in RunRecord : run' = [run EXCEPT ![w] = rec] /\ Follows(rec, run[w])
  <2>1. CASE Read(w)
    <3>1. PICK r \in Notice : r = run[w].cur
      BY <2>1, AtNotice DEF Read
    <3> DEFINE rec == [run[w] EXCEPT !.pc = "delivering", !.seen = notice[r].attempts]
    <3>2. notice[r].attempts \in Nat
      BY DEF TypeOK, NoticeRow
    <3>3. /\ run' = [run EXCEPT ![w] = rec] /\ rec \in RunRecord /\ rec.cur = r
          /\ rec.pc = "delivering" /\ rec.seen = notice[r].attempts
          /\ run[w].pc = "reading"
      BY <1>1, <2>1, <3>1, <3>2 DEF Read, RunRecord
    <3> HIDE DEF rec
    <3>4. Returns(rec, notice[r].attempts) => Returns(run[w], notice[r].attempts)
      BY <3>3 DEF Returns
    <3>5. Follows(rec, run[w])
      BY <3>1, <3>3, <3>4 DEF Follows
    <3> QED BY <3>3, <3>5
  <2>2. CASE MarkSentFails(w)
    <3> DEFINE rec == [run[w] EXCEPT !.pc = "failing"]
    <3>1. /\ run' = [run EXCEPT ![w] = rec] /\ rec \in RunRecord /\ rec.cur = run[w].cur
          /\ rec.pc = "failing" /\ rec.seen = run[w].seen /\ run[w].pc = "delivered"
      BY <1>1, <2>2 DEF MarkSentFails, RunRecord
    <3> HIDE DEF rec
    <3>2. \A n : Returns(rec, n) <=> Returns(run[w], n)
      BY <3>1 DEF Returns
    <3>3. Follows(rec, run[w])
      BY <3>1, <3>2 DEF Follows
    <3> QED BY <3>1, <3>3
  <2>3. CASE Age(w)
    <3> DEFINE rec == [run[w] EXCEPT !.old = TRUE]
    <3>1. /\ run' = [run EXCEPT ![w] = rec] /\ rec \in RunRecord /\ rec.cur = run[w].cur
          /\ rec.pc = run[w].pc /\ rec.seen = run[w].seen
      BY <1>1, <2>3 DEF Age, RunRecord
    <3> HIDE DEF rec
    <3>2. \A n : Returns(rec, n) <=> Returns(run[w], n)
      BY <3>1 DEF Returns
    <3>3. Follows(rec, run[w])
      BY <3>1, <3>2 DEF Follows
    <3> QED BY <3>1, <3>3
  <2>4. CASE \/ \E S \in SUBSET Notice : Find(w, S)
             \/ \E r \in Notice : Skip(w, r)
             \/ Finish(w) \/ MarkSent(w) \/ Die(w)
    <3>1. PICK rec \in RunRecord : run' = [run EXCEPT ![w] = rec] /\ rec.cur = None
      BY <2>4, ScansFollow
    <3> QED BY <3>1, NowhereFollows
  <2> QED BY <2>1, <2>2, <2>3, <2>4
<1> QED BY <1>1, <1>2, <1>3, <1>4, RunRests

\* A call to the service uses up the message of its attempt.
LEMMA DeliveryCounted ==
    ASSUME TypeOK, Accounts, NEW w \in Run, Deliver(w) \/ DeliveryFails(w)
    PROVE  Accounts'
<1> SUFFICES ASSUME NEW q \in Notice PROVE Accounted(q)'
  BY DEF Accounts
<1>1. PICK r \in Notice : r = run[w].cur
  BY AtNotice DEF Deliver, DeliveryFails
<1>2. PICK out \in 0 .. 1, pc \in {"delivered", "failing"} :
        /\ sent' = [sent EXCEPT ![r] = sent[r] + out]
        /\ run' = [run EXCEPT ![w] = [run[w] EXCEPT !.pc = pc]]
  BY <1>1 DEF Deliver, DeliveryFails
<1>3. UNCHANGED <<notice, recovered>> /\ run[w].pc = "delivering" /\ run[w] \in RunRecord
  BY DEF Deliver, DeliveryFails, TypeOK
<1> DEFINE rec == [run[w] EXCEPT !.pc = pc]
<1>4. /\ run' = [run EXCEPT ![w] = rec] /\ rec \in RunRecord /\ rec.cur = r
      /\ rec.pc \in {"delivered", "failing"} /\ rec.seen = run[w].seen
  BY <1>1, <1>2, <1>3 DEF RunRecord
<1> HIDE DEF rec
<1>5. \A n : Returns(rec, n) <=> Returns(run[w], n)
  BY <1>3, <1>4 DEF Returns
<1>6. Follows(rec, run[w])
  BY <1>1, <1>4, <1>5 DEF Follows
<1>7. Accounted(q) /\ RowRests(q)
  BY <1>3 DEF Accounts, RowRests
<1>8. CASE q # r
  BY <1>2, <1>3, <1>4, <1>6, <1>7, <1>8, RunRests DEF TypeOK
<1>9. CASE q = r
  <2>1. /\ Deliverers(r)' \subseteq Deliverers(r)
        /\ Unsent(r)' \subseteq Unsent(r)
        /\ Returners(r)' \subseteq Returners(r)
    BY <1>3, <1>4, <1>6, Moving
  <2>2. w \in Unsent(r) \ Unsent(r)'
    BY <1>1, <1>3, <1>4 DEF Unsent, Deliverers, TypeOK
  <2>3. PICK d, u, b, d1, u1, b1 :
          /\ d = Cardinality(Deliverers(r)) /\ d1 = Cardinality(Deliverers(r)')
          /\ u = Cardinality(Unsent(r)) /\ u1 = Cardinality(Unsent(r)')
          /\ b = Cardinality(Returners(r)) /\ b1 = Cardinality(Returners(r)')
    OBVIOUS
  <2>4. d1 <= d /\ b1 <= b /\ d \in Nat /\ b \in Nat /\ d1 \in Nat /\ b1 \in Nat
    BY <2>1, <2>3, Numbers, Smaller
  <2>5. u \in Nat /\ u1 \in Nat /\ u1 + 1 <= u
    BY <2>1, <2>2, <2>3, Numbers, Smaller
  <2>6. sent'[r] <= sent[r] + 1 /\ sent[r] \in Nat /\ sent'[r] \in Nat
    BY <1>2 DEF TypeOK
  <2>7. Waiting(r)' = Waiting(r)
    BY <1>3 DEF Waiting
  <2>8. /\ d + Waiting(r) <= 1 + recovered[r] /\ sent[r] + u <= notice[r].attempts
        /\ notice[r].status = "none" => Deliverers(r) = {} /\ notice[r].attempts = 0
        /\ notice[r].attempts >= MaxAttempts =>
             notice[r].attempts + b + Waiting(r) <= MaxAttempts + recovered[r]
    BY <1>7, <1>9, <2>3 DEF Accounted
  <2>9. /\ d1 + Waiting(r)' <= 1 + recovered[r]
        /\ sent'[r] + u1 <= notice[r].attempts
        /\ notice[r].attempts >= MaxAttempts =>
             notice[r].attempts + b1 + Waiting(r)' <= MaxAttempts + recovered[r]
    BY <2>4, <2>5, <2>6, <2>7, <2>8, Numbers
  <2> QED BY <1>3, <1>9, <2>1, <2>3, <2>8, <2>9 DEF Accounted
<1> QED BY <1>8, <1>9

\* A run that puts its row back stops being one that may.
LEMMA FailureCounted ==
    ASSUME TypeOK, Accounts, NEW w \in Run, MarkFailed(w)
    PROVE  Accounts'
<1> SUFFICES ASSUME NEW q \in Notice PROVE Accounted(q)'
  BY DEF Accounts
<1>1. PICK r \in Notice : r = run[w].cur
  BY AtNotice DEF MarkFailed
<1>2. UNCHANGED <<sent, recovered>> /\ run[w].pc = "failing" /\ run[w] \in RunRecord
  BY DEF MarkFailed, Store, TypeOK
<1>3. PICK rec \in RunRecord : run' = [run EXCEPT ![w] = rec] /\ rec.cur = None
  BY ScansFollow
<1>4. PICK st \in {"FAILED", "PENDING"} :
        /\ st = IF LastAttempt(run[w].seen) THEN "FAILED" ELSE "PENDING"
        /\ st = "PENDING" => run[w].seen < MaxAttempts
  BY <1>2, OutboxAssumption DEF LastAttempt, RunRecord
<1>5. notice'[r].status = st /\ notice'[r].attempts = notice[r].attempts
      /\ \A p \in Notice : p # r => notice'[p] = notice[p]
  <2>1. PICK row \in NoticeRow : row = notice[r]
    BY DEF TypeOK
  <2> DEFINE new == Unclaimed([row EXCEPT !.status = st, !.due = FALSE])
  <2>2. new.attempts = row.attempts /\ new.status = st
    BY DEF Unclaimed, NoticeRow
  <2>3. notice' = [notice EXCEPT ![r] = new]
    BY <1>1, <1>4, <2>1 DEF MarkFailed, Store
  <2> HIDE DEF new
  <2> QED BY <2>1, <2>2, <2>3 DEF TypeOK
<1>6. Accounted(q) /\ Follows(rec, run[w])
  BY <1>3, NowhereFollows DEF Accounts
<1>7. CASE q # r \/ st = "FAILED"
  <2>1. RowRests(q)
    BY <1>5, <1>7 DEF RowRests
  <2> QED BY <1>2, <1>3, <1>6, <2>1, RunRests
<1>8. CASE q = r /\ st = "PENDING"
  <2>1. /\ Deliverers(r)' \subseteq Deliverers(r)
        /\ Unsent(r)' \subseteq Unsent(r)
        /\ Returners(r)' \subseteq Returners(r)
    BY <1>3, <1>5, <1>6, Moving
  <2>2. w \in Deliverers(r) /\ w \notin Deliverers(r)'
    BY <1>1, <1>3, OutboxAssumption DEF Deliverers, TypeOK
  <2>3. Returns(run[w], notice[r].attempts)
    BY <1>2, <1>4, <1>8 DEF Returns
  <2>4. w \in Returners(r) /\ w \notin Returners(r)'
    BY <2>2, <2>3 DEF Returners
  <2>5. PICK d, u, b, d1, u1, b1 :
          /\ d = Cardinality(Deliverers(r)) /\ d1 = Cardinality(Deliverers(r)')
          /\ u = Cardinality(Unsent(r)) /\ u1 = Cardinality(Unsent(r)')
          /\ b = Cardinality(Returners(r)) /\ b1 = Cardinality(Returners(r)')
    OBVIOUS
  <2>6. d \in Nat /\ d1 \in Nat /\ d1 + 1 <= d
    BY <2>1, <2>2, <2>5, Numbers, Smaller
  <2>7. b \in Nat /\ b1 \in Nat /\ b1 + 1 <= b
    BY <2>1, <2>4, <2>5, Numbers, Smaller
  <2>8. u \in Nat /\ u1 \in Nat /\ u1 <= u
    BY <2>1, <2>5, Numbers, Smaller
  <2>9. Waiting(r)' = 1 /\ Waiting(r) \in {0, 1}
    BY <1>5, <1>8 DEF Waiting
  <2>10. /\ d + Waiting(r) <= 1 + recovered[r] /\ sent[r] + u <= notice[r].attempts
         /\ notice[r].attempts >= MaxAttempts =>
              notice[r].attempts + b + Waiting(r) <= MaxAttempts + recovered[r]
    BY <1>6, <1>8, <2>5 DEF Accounted
  <2>11. /\ d1 + Waiting(r)' <= 1 + recovered[r]
         /\ sent[r] + u1 <= notice[r].attempts
         /\ notice[r].attempts >= MaxAttempts =>
              notice[r].attempts + b1 + Waiting(r)' <= MaxAttempts + recovered[r]
    BY <2>6, <2>7, <2>8, <2>9, <2>10, Numbers
  <2> QED BY <1>2, <1>5, <1>8, <2>5, <2>11 DEF Accounted
<1> QED BY <1>4, <1>7, <1>8

\* A claim takes the place of the row that waited; past the last attempt it puts
\* nothing back, and at the last one there are no more runs than claims taken back.
LEMMA ClaimCounted ==
    ASSUME TypeOK, Accounts, NEW w \in Run, NEW r \in Notice, Claim(w, r)
    PROVE  Accounts'
<1> SUFFICES ASSUME NEW q \in Notice PROVE Accounted(q)'
  BY DEF Accounts
<1> DEFINE rec ==
             [run[w] EXCEPT !.pc = "reading", !.todo = run[w].todo \ {r}, !.cur = r, !.seen = 0]
<1>1. /\ UNCHANGED <<sent, recovered>> /\ run[w].pc = "claiming" /\ run[w] \in RunRecord
      /\ run[w].cur = None /\ notice[r].status = "PENDING" /\ r # None
  BY OutboxAssumption DEF Claim, TypeOK
<1>2. /\ run' = [run EXCEPT ![w] = rec] /\ rec \in RunRecord /\ rec.cur = r
      /\ rec.pc = "reading"
  BY <1>1 DEF Claim, RunRecord
<1> HIDE DEF rec
<1>3. /\ notice'[r].status = "PROCESSING" /\ notice'[r].attempts = notice[r].attempts + 1
      /\ \A p \in Notice : p # r => notice'[p] = notice[p]
  <2>1. PICK row \in NoticeRow, old \in BOOLEAN : row = notice[r] /\ old = run[w].old
    BY <1>1 DEF TypeOK, RunRecord
  <2> DEFINE new == [row EXCEPT !.status = "PROCESSING", !.attempts = row.attempts + 1,
                                !.claimedBy = w, !.stale = old]
  <2>2. new.status = "PROCESSING" /\ new.attempts = row.attempts + 1
    BY DEF NoticeRow
  <2>3. notice' = [notice EXCEPT ![r] = new]
    BY <2>1 DEF Claim
  <2> HIDE DEF new
  <2> QED BY <2>1, <2>2, <2>3 DEF TypeOK
<1>4. Accounted(q)
  BY DEF Accounts
<1>5. run'[w] = rec /\ \A v \in Run : v # w => run'[v] = run[v]
  BY <1>2 DEF TypeOK
<1>6. CASE q # r
  <2>1. RowRests(q)
    BY <1>3, <1>6 DEF RowRests
  <2>2. /\ Deliverers(q)' \subseteq Deliverers(q)
        /\ Unsent(q)' \subseteq Unsent(q)
        /\ Returners(q)' \subseteq Returners(q)
    <3>1. notice'[q] = notice[q]
      BY <1>3, <1>6
    <3>2. Deliverers(q)' \subseteq Deliverers(q) /\ w \notin Deliverers(q)'
      BY <1>2, <1>5, <1>6 DEF Deliverers
    <3> QED BY <1>5, <3>1, <3>2 DEF Unsent, Returners, Deliverers
  <2> QED BY <1>1, <1>4, <2>1, <2>2, StaysAccounted DEF RowRests
<1>7. CASE q = r
  <2>1. Deliverers(r)' \subseteq Deliverers(r) \cup {w}
    BY <1>5 DEF Deliverers
  <2>2. Unsent(r)' \subseteq Unsent(r) \cup {w}
    BY <1>5, <2>1 DEF Unsent, Deliverers
  <2>3. notice'[r].attempts >= MaxAttempts =>
          /\ Returners(r)' \subseteq Deliverers(r)
          /\ notice[r].attempts >= MaxAttempts => Returners(r)' \subseteq Returners(r)
    <3> SUFFICES ASSUME notice'[r].attempts >= MaxAttempts, NEW v \in Returners(r)'
                 PROVE  /\ v \in Deliverers(r)
                        /\ notice[r].attempts >= MaxAttempts => v \in Returners(r)
      OBVIOUS
    <3>1. v \in Run /\ v \in Deliverers(r)' /\ Returns(run'[v], notice'[r].attempts)
      BY DEF Returners, Deliverers
    <3>2. notice'[r].attempts \in Nat /\ MaxAttempts \in Nat
      BY <1>3, OutboxAssumption DEF TypeOK, NoticeRow
    <3>3. run'[v].pc # "reading" /\ run'[v].seen < MaxAttempts
      BY <3>1, <3>2 DEF Returns
    <3>4. v # w
      BY <1>2, <1>5, <3>3
    <3>5. v \in Deliverers(r) /\ run'[v] = run[v]
      BY <1>5, <3>1, <3>4 DEF Deliverers
    <3>6. Returns(run[v], notice[r].attempts)
      BY <3>3, <3>5 DEF Returns
    <3> QED BY <3>5, <3>6 DEF Returners
  <2>4. PICK d, u, b, d1, u1, b1 :
          /\ d = Cardinality(Deliverers(r)) /\ d1 = Cardinality(Deliverers(r)')
          /\ u = Cardinality(Unsent(r)) /\ u1 = Cardinality(Unsent(r)')
          /\ b = Cardinality(Returners(r)) /\ b1 = Cardinality(Returners(r)')
    OBVIOUS
  <2>5. /\ Deliverers(r)' \in SUBSET Run /\ Unsent(r)' \in SUBSET Run
        /\ Returners(r)' \in SUBSET Run
    BY DEF Deliverers, Unsent, Returners
  <2>6. d \in Nat /\ u \in Nat /\ b \in Nat /\ d1 \in Nat /\ u1 \in Nat /\ b1 \in Nat
    BY <2>4, <2>5, Numbers, Smaller
  <2>7. d1 <= d + 1 /\ u1 <= u + 1
    <3>1. Deliverers(r) \in SUBSET Run /\ Unsent(r) \in SUBSET Run
      BY Numbers
    <3> QED BY <2>1, <2>2, <2>4, <3>1, OneMore
  <2>8. notice'[r].attempts >= MaxAttempts =>
          b1 <= d /\ (notice[r].attempts >= MaxAttempts => b1 <= b)
    <3>1. Deliverers(r) \in SUBSET Run /\ Returners(r) \in SUBSET Run
      BY Numbers
    <3> QED BY <2>3, <2>4, <3>1, Smaller
  <2>9. Waiting(r)' = 0 /\ Waiting(r) = 1
    BY <1>1, <1>3 DEF Waiting
  <2>10. /\ d + 1 <= 1 + recovered[r] /\ sent[r] + u <= notice[r].attempts
         /\ notice[r].attempts >= MaxAttempts =>
              notice[r].attempts + b + 1 <= MaxAttempts + recovered[r]
    BY <1>4, <1>7, <2>4, <2>9 DEF Accounted
  <2>11. /\ d1 + Waiting(r)' <= 1 + recovered[r]
         /\ sent[r] + u1 <= notice'[r].attempts
         /\ notice'[r].attempts >= MaxAttempts =>
              notice'[r].attempts + b1 + Waiting(r)' <= MaxAttempts + recovered[r]
    BY <1>3, <2>6, <2>7, <2>8, <2>9, <2>10, Numbers
  <2> QED BY <1>1, <1>3, <1>7, <2>4, <2>11 DEF Accounted
<1> QED BY <1>6, <1>7

\* A claim taken back is what a second delivery, or one attempt more, uses up.
LEMMA RecoveryCounted ==
    ASSUME TypeOK, Accounts, NEW w \in Run, Recover(w)
    PROVE  Accounts'
<1> SUFFICES ASSUME NEW q \in Notice PROVE Accounted(q)'
  BY DEF Accounts
<1>1. PICK rec \in RunRecord : run' = [run EXCEPT ![w] = rec] /\ rec.cur = None
  BY ScansFollow
<1>2. Accounted(q) /\ Follows(rec, run[w]) /\ UNCHANGED sent
  BY <1>1, NowhereFollows DEF Accounts, Recover
<1>3. CASE ~Stale(q)
  <2>1. notice'[q] = notice[q]
    BY <1>3 DEF Recover
  <2>3. recovered'[q] = recovered[q] + 0
    BY <1>3 DEF Recover
  <2>4. recovered'[q] = recovered[q]
    BY <2>3, Numbers
  <2> QED BY <1>1, <1>2, <2>1, <2>4, RunRests DEF RowRests
<1>4. CASE Stale(q)
  <2>1. /\ notice'[q].status = "PENDING" /\ notice'[q].attempts = notice[q].attempts
        /\ recovered'[q] = recovered[q] + 1
    <3>1. PICK row \in NoticeRow : row = notice[q]
      BY DEF TypeOK
    <3> DEFINE new == Unclaimed([row EXCEPT !.status = "PENDING", !.due = TRUE])
    <3>2. new.attempts = row.attempts /\ new.status = "PENDING"
      BY DEF Unclaimed, NoticeRow
    <3>3. notice'[q] = new
      BY <1>4, <3>1 DEF Recover
    <3> HIDE DEF new
    <3>4. recovered'[q] = recovered[q] + 1
      BY <1>4 DEF Recover
    <3> QED BY <3>1, <3>2, <3>3, <3>4
  <2>2. /\ Deliverers(q)' \subseteq Deliverers(q)
        /\ Unsent(q)' \subseteq Unsent(q)
        /\ Returners(q)' \subseteq Returners(q)
    BY <1>1, <1>2, <2>1, Moving
  <2>3. PICK d, u, b, d1, u1, b1 :
          /\ d = Cardinality(Deliverers(q)) /\ d1 = Cardinality(Deliverers(q)')
          /\ u = Cardinality(Unsent(q)) /\ u1 = Cardinality(Unsent(q)')
          /\ b = Cardinality(Returners(q)) /\ b1 = Cardinality(Returners(q)')
    OBVIOUS
  <2>4. d1 <= d /\ u1 <= u /\ b1 <= b
        /\ d \in Nat /\ u \in Nat /\ b \in Nat /\ d1 \in Nat /\ u1 \in Nat /\ b1 \in Nat
    BY <2>2, <2>3, Numbers, Smaller
  <2>5. Waiting(q) = 0 /\ Waiting(q)' = 1
    BY <1>4, <2>1 DEF Waiting, Stale
  <2>6. /\ d + 0 <= 1 + recovered[q] /\ sent[q] + u <= notice[q].attempts
        /\ notice[q].attempts >= MaxAttempts =>
             notice[q].attempts + b + 0 <= MaxAttempts + recovered[q]
    BY <1>2, <2>3, <2>5 DEF Accounted
  <2>7. /\ d1 + Waiting(q)' <= 1 + recovered'[q]
        /\ sent[q] + u1 <= notice[q].attempts
        /\ notice[q].attempts >= MaxAttempts =>
             notice[q].attempts + b1 + Waiting(q)' <= MaxAttempts + recovered'[q]
    BY <2>1, <2>4, <2>5, <2>6, Numbers
  <2> QED BY <1>2, <2>1, <2>3, <2>7 DEF Accounted
<1> QED BY <1>3, <1>4

\* A new row has no runs and no attempts; time moves nobody.
LEMMA RowsCounted ==
    ASSUME TypeOK, Accounts,
           \/ \E r \in Notice : OrphanAges(r) \/ BecomesDue(r)
           \/ \E S \in SUBSET Notice : Enqueue(S)
    PROVE  Accounts'
<1> SUFFICES ASSUME NEW q \in Notice PROVE Accounted(q)'
  BY DEF Accounts
<1>1. UNCHANGED <<run, sent, recovered>> /\ Accounted(q) /\ notice[q] \in NoticeRow
  BY DEF OrphanAges, BecomesDue, Enqueue, Accounts, TypeOK
<1>2. \/ RowRests(q)
      \/ /\ notice[q].status = "none" /\ notice'[q].status = "PENDING"
         /\ notice'[q].attempts = notice[q].attempts
  <2>1. ASSUME NEW r \in Notice, OrphanAges(r) \/ BecomesDue(r)
        PROVE  RowRests(q)
    BY <1>1, <2>1 DEF OrphanAges, BecomesDue, RowRests, TypeOK, NoticeRow
  <2>2. ASSUME NEW S \in SUBSET Notice, Enqueue(S)
        PROVE  \/ RowRests(q)
               \/ /\ notice[q].status = "none" /\ notice'[q].status = "PENDING"
                  /\ notice'[q].attempts = notice[q].attempts
    BY <1>1, <2>2 DEF Enqueue, RowRests, NoticeRow
  <2> QED BY <2>1, <2>2
<1>3. notice'[q].attempts = notice[q].attempts
  BY <1>2 DEF RowRests
<1>4. /\ Deliverers(q)' = Deliverers(q) /\ Unsent(q)' = Unsent(q)
      /\ Returners(q)' = Returners(q)
  BY <1>1, <1>3 DEF Deliverers, Unsent, Returners
<1>5. CASE RowRests(q)
  BY <1>1, <1>3, <1>4, <1>5, StaysAccounted DEF RowRests
<1>6. CASE notice[q].status = "none" /\ notice'[q].status = "PENDING"
  <2>1. Deliverers(q) = {} /\ notice[q].attempts = 0
    BY <1>1, <1>6 DEF Accounted
  <2>2. Cardinality(Deliverers(q)) = 0
    BY <2>1, FS_EmptySet
  <2>3. Waiting(q)' = 1
    BY <1>6 DEF Waiting
  <2>4. 0 + 1 <= 1 + recovered[q] /\ ~(0 >= MaxAttempts)
    BY Numbers, OutboxAssumption
  <2>5. sent[q] + Cardinality(Unsent(q)) <= notice[q].attempts
    BY <1>1 DEF Accounted
  <2> QED BY <1>1, <1>3, <1>4, <1>6, <2>1, <2>2, <2>3, <2>4, <2>5 DEF Accounted
<1> QED BY <1>2, <1>5, <1>6

LEMMA InitAccounts == Init => Accounts
<1> SUFFICES ASSUME Init, NEW r \in Notice PROVE Accounted(r)
  BY DEF Accounts
<1>1. Deliverers(r) = {} /\ Unsent(r) = {} /\ r # None
  BY OutboxAssumption DEF Init, Deliverers, Unsent, IdleRun
<1>2. Cardinality(Deliverers(r)) = 0 /\ Cardinality(Unsent(r)) = 0
  BY <1>1, FS_EmptySet
<1>3. notice[r].status = "none" /\ notice[r].attempts = 0 /\ sent[r] = 0 /\ recovered[r] = 0
  BY DEF Init, NoNotice
<1>4. Waiting(r) = 0
  BY <1>3 DEF Waiting
<1> QED BY <1>1, <1>2, <1>3, <1>4, OutboxAssumption DEF Accounted

LEMMA NextAccounts == TypeOK /\ Accounts /\ [Next]_vars => Accounts'
<1> SUFFICES ASSUME TypeOK, Accounts, [Next]_vars PROVE Accounts'
  OBVIOUS
<1>1. CASE UNCHANGED vars
  BY <1>1 DEF vars, bounds, Accounts, Accounted, Deliverers, Unsent, Returners, Waiting
<1>2. ASSUME NEW w \in Run, Recover(w) \/ RunStep(w) \/ Die(w) \/ Age(w)
      PROVE  Accounts'
  <2>1. CASE Recover(w)
    BY <2>1, RecoveryCounted
  <2>2. CASE \E r \in Notice : Claim(w, r)
    BY <2>2, ClaimCounted
  <2>3. CASE Deliver(w) \/ DeliveryFails(w)
    BY <2>3, DeliveryCounted
  <2>4. CASE MarkFailed(w)
    BY <2>4, FailureCounted
  <2>5. CASE \/ \E S \in SUBSET Notice : Find(w, S)
             \/ \E r \in Notice : Skip(w, r)
             \/ Finish(w) \/ Read(w) \/ MarkSentFails(w) \/ MarkSent(w) \/ Die(w) \/ Age(w)
    BY <2>5, QuietSteps
  <2> QED BY <1>2, <2>1, <2>2, <2>3, <2>4, <2>5 DEF RunStep
<1>3. CASE \/ \E r \in Notice : OrphanAges(r) \/ BecomesDue(r)
           \/ \E S \in SUBSET Notice : Enqueue(S)
  BY <1>3, RowsCounted
<1> QED BY <1>1, <1>2, <1>3 DEF Next

\* For every row the runs, the messages and the attempts stay accounted for by the
\* claims taken back: the invariant the two theorems below rest on.
THEOREM AccountsHold == Spec => []Accounts
<1>1. TypeOK /\ Accounts /\ [Next]_vars => Accounts'
  BY NextAccounts
<1> QED BY InitAccounts, <1>1, TypeCorrectness, PTL DEF Spec

\* Two runs deliver one row only after a stale claim was taken back, for any number
\* of runs, overlapping in any way, dying or late.
THEOREM OneDelivererHolds == Spec => []OneDeliverer
<1>1. TypeOK /\ Accounts => OneDeliverer
  BY DEF Accounts, Accounted, Deliverers, Waiting, OneDeliverer
<1> QED BY <1>1, AccountsHold, TypeCorrectness, PTL

\* No attempt sends two messages, and only claims taken back can carry a row past
\* MAX_DELIVERY_ATTEMPTS, each by one.
THEOREM AttemptsAccountedHold == Spec => []AttemptsAccounted
<1>1. ASSUME TypeOK, Accounts, NEW r \in Notice
      PROVE  sent[r] <= notice[r].attempts /\ notice[r].attempts <= MaxAttempts + recovered[r]
  <2>1. PICK u, b : u = Cardinality(Unsent(r)) /\ b = Cardinality(Returners(r))
    OBVIOUS
  <2>2. u \in Nat /\ b \in Nat
    BY <1>1, <2>1, Numbers
  <2>3. /\ sent[r] + u <= notice[r].attempts
        /\ notice[r].attempts >= MaxAttempts =>
             notice[r].attempts + b + Waiting(r) <= MaxAttempts + recovered[r]
    BY <1>1, <2>1 DEF Accounts, Accounted
  <2> QED BY <1>1, <2>2, <2>3, Numbers
<1>2. TypeOK /\ Accounts => AttemptsAccounted
  BY <1>1 DEF AttemptsAccounted
<1> QED BY <1>2, AccountsHold, TypeCorrectness, PTL
=============================================================================
