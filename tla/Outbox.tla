------------------------------- MODULE Outbox -------------------------------
(***************************************************************************)
(* The outbox of security notifications of apps/api                        *)
(* (SecurityNotificationOutboxService): rows written by a change of email  *)
(* or phone, and the cron runs, in every process and overlapping, that     *)
(* claim them, deliver them and store the outcome.                         *)
(*                                                                         *)
(* A Run is a place for one run of processPending at a time.  Of the times *)
(* only what the conditions ask is kept: is nextAttemptAt past (due), is   *)
(* claimedAt older than STALE_CLAIM_MS (stale).  claimedAt is the time the *)
(* run began, so a claim grows stale with the run that made it, and is     *)
(* stale from the start when a run of that age makes it.                   *)
(* Which 20 due rows come first is left open.  sent and recovered are       *)
(* history: no code reads them.                                            *)
(***************************************************************************)
EXTENDS Integers, FiniteSets

CONSTANTS
    Notice,      \* rows of security_notification_outbox
    Run,         \* concurrent runs of processPending
    MaxAttempts, \* MAX_DELIVERY_ATTEMPTS
    BatchSize,   \* take
    MaxDeaths,   \* bound on runs that die
    MaxSlow,     \* bound on runs that last longer than STALE_CLAIM_MS
    None         \* no notice, no run

ASSUME OutboxAssumption ==
    /\ MaxAttempts \in Nat \ {0} /\ BatchSize \in Nat \ {0}
    /\ MaxDeaths \in Nat /\ MaxSlow \in Nat
    /\ None \notin Notice \cup Run
    /\ IsFiniteSet(Run)

VARIABLES
    notice,    \* the rows
    run,       \* where each run is and what it has read
    sent,      \* messages that have gone out, per row
    recovered, \* stale claims taken back, per row
    deaths, slow

bounds == <<deaths, slow>>
vars == <<notice, run, sent, recovered, bounds>>

-----------------------------------------------------------------------------
NoticeRow ==
    [status : {"none", "PENDING", "PROCESSING", "SENT", "FAILED"}, attempts : Nat, due : BOOLEAN,
     claimedBy : Run \cup {None}, stale : BOOLEAN]

RunRecord ==
    [pc : {"idle", "finding", "claiming", "reading", "delivering", "delivered", "failing"},
     old : BOOLEAN, todo : SUBSET Notice, cur : Notice \cup {None}, seen : Nat]

NoNotice == [status |-> "none", attempts |-> 0, due |-> FALSE, claimedBy |-> None, stale |-> FALSE]
IdleRun == [pc |-> "idle", old |-> FALSE, todo |-> {}, cur |-> None, seen |-> 0]

\* claimedAt is null.
\* (UnclaimedLate: it keeps its time.)
UnclaimedLate(row) == [row EXCEPT !.claimedBy = None]
Unclaimed(row) == [row EXCEPT !.claimedBy = None, !.stale = FALSE]

Stale(r) == notice[r].status = "PROCESSING" /\ notice[r].stale
Candidates == {r \in Notice : notice[r].status = "PENDING" /\ notice[r].due}

\* Run w stores an outcome for its row, whoever has claimed the row by now, and
\* turns to the next.
Store(w, row) ==
    /\ notice' = [notice EXCEPT ![run[w].cur] = Unclaimed(row)]
    /\ run' = [run EXCEPT ![w] = [@ EXCEPT !.pc = "claiming", !.cur = None, !.seen = 0]]
    /\ UNCHANGED <<sent, recovered, bounds>>

Init ==
    /\ notice = [r \in Notice |-> NoNotice]
    /\ run = [w \in Run |-> IdleRun]
    /\ sent = [r \in Notice |-> 0]
    /\ recovered = [r \in Notice |-> 0]
    /\ deaths = 0 /\ slow = 0

-----------------------------------------------------------------------------
\* A change of email or phone commits with the rows for the contacts it concerns.
Enqueue(S) ==
    /\ S # {} /\ \A r \in S : notice[r].status = "none"
    /\ notice' = [r \in Notice |->
                    IF r \in S THEN [notice[r] EXCEPT !.status = "PENDING", !.due = TRUE]
                               ELSE notice[r]]
    /\ UNCHANGED <<run, sent, recovered, bounds>>

(* processPending *)

\* (RecoverNothing: stale claims stay.)
RecoverNothing(w) ==
    /\ run[w].pc = "idle"
    /\ run' = [run EXCEPT ![w].pc = "finding"]
    /\ UNCHANGED <<notice, sent, recovered, bounds>>

Recover(w) ==
    /\ run[w].pc = "idle"
    /\ notice' = [r \in Notice |->
                    IF Stale(r)
                      THEN Unclaimed([notice[r] EXCEPT !.status = "PENDING", !.due = TRUE])
                      ELSE notice[r]]
    /\ recovered' = [r \in Notice |-> recovered[r] + (IF Stale(r) THEN 1 ELSE 0)]
    /\ run' = [run EXCEPT ![w].pc = "finding"]
    /\ UNCHANGED <<sent, bounds>>

Find(w, S) ==
    /\ run[w].pc = "finding"
    /\ S \subseteq Candidates
    /\ S = Candidates \/ Cardinality(S) = BatchSize
    /\ Cardinality(S) <= BatchSize
    /\ run' = [run EXCEPT ![w] = [@ EXCEPT !.pc = "claiming", !.todo = S]]
    /\ UNCHANGED <<notice, sent, recovered, bounds>>

\* claimAndDeliver: the row may have become somebody else's since it was found,
\* and may have come back, due or not.
\* (ClaimUnguarded: whatever its status.)
ClaimUnguarded(w, r) ==
    /\ run[w].pc = "claiming"
    /\ r \in run[w].todo
    /\ notice' = [notice EXCEPT ![r] = [@ EXCEPT !.status = "PROCESSING",
                    !.attempts = notice[r].attempts + 1, !.claimedBy = w, !.stale = run[w].old]]
    /\ run' = [run EXCEPT ![w] =
                 [@ EXCEPT !.pc = "reading", !.todo = run[w].todo \ {r}, !.cur = r, !.seen = 0]]
    /\ UNCHANGED <<sent, recovered, bounds>>
Claim(w, r) ==
    /\ run[w].pc = "claiming"
    /\ r \in run[w].todo
    /\ notice[r].status = "PENDING"
    /\ notice' = [notice EXCEPT ![r] = [@ EXCEPT !.status = "PROCESSING",
                    !.attempts = notice[r].attempts + 1, !.claimedBy = w, !.stale = run[w].old]]
    /\ run' = [run EXCEPT ![w] =
                 [@ EXCEPT !.pc = "reading", !.todo = run[w].todo \ {r}, !.cur = r, !.seen = 0]]
    /\ UNCHANGED <<sent, recovered, bounds>>

Skip(w, r) ==
    /\ run[w].pc = "claiming"
    /\ r \in run[w].todo
    /\ notice[r].status # "PENDING"
    /\ run' = [run EXCEPT ![w].todo = @ \ {r}]
    /\ UNCHANGED <<notice, sent, recovered, bounds>>

Finish(w) ==
    /\ run[w].pc = "claiming"
    /\ run[w].todo = {}
    /\ run' = [run EXCEPT ![w] = IdleRun]
    /\ UNCHANGED <<notice, sent, recovered, bounds>>

\* attemptCount is read after the claim, and may be that of a later one.
Read(w) ==
    /\ run[w].pc = "reading"
    /\ run' = [run EXCEPT ![w] = [@ EXCEPT !.pc = "delivering",
                                           !.seen = notice[run[w].cur].attempts]]
    /\ UNCHANGED <<notice, sent, recovered, bounds>>

\* The mail or SMS service answers ...
Deliver(w) ==
    /\ run[w].pc = "delivering"
    /\ sent' = [sent EXCEPT ![run[w].cur] = @ + 1]
    /\ run' = [run EXCEPT ![w].pc = "delivered"]
    /\ UNCHANGED <<notice, recovered, bounds>>

\* ... or the call throws, after the message has gone out or before.
DeliveryFails(w) ==
    /\ run[w].pc = "delivering"
    /\ \E out \in 0 .. 1 : sent' = [sent EXCEPT ![run[w].cur] = @ + out]
    /\ run' = [run EXCEPT ![w].pc = "failing"]
    /\ UNCHANGED <<notice, recovered, bounds>>

MarkSent(w) ==
    /\ run[w].pc = "delivered"
    /\ Store(w, [notice[run[w].cur] EXCEPT !.status = "SENT"])

\* The update throws within the try.
MarkSentFails(w) ==
    /\ run[w].pc = "delivered"
    /\ run' = [run EXCEPT ![w].pc = "failing"]
    /\ UNCHANGED <<notice, sent, recovered, bounds>>

\* (LastAttemptLate, LastAttemptEarly: one attempt more or less.)
LastAttemptLate(n) == n > MaxAttempts
LastAttemptEarly(n) == n + 1 >= MaxAttempts
LastAttempt(n) == n >= MaxAttempts

MarkFailed(w) ==
    /\ run[w].pc = "failing"
    /\ Store(w, [notice[run[w].cur] EXCEPT
                   !.status = IF LastAttempt(run[w].seen) THEN "FAILED" ELSE "PENDING",
                   !.due = FALSE])

-----------------------------------------------------------------------------
\* The process dies, or a statement outside the try throws.
Die(w) ==
    /\ run[w].pc # "idle"
    /\ deaths < MaxDeaths
    /\ deaths' = deaths + 1
    /\ notice' = [r \in Notice |-> IF notice[r].claimedBy = w
                                     THEN [notice[r] EXCEPT !.claimedBy = None]
                                     ELSE notice[r]]
    /\ run' = [run EXCEPT ![w] = IdleRun]
    /\ UNCHANGED <<sent, recovered, slow>>

\* It is STALE_CLAIM_MS since run w began.
Age(w) ==
    /\ run[w].pc # "idle" /\ ~run[w].old
    /\ slow < MaxSlow
    /\ slow' = slow + 1
    /\ run' = [run EXCEPT ![w].old = TRUE]
    /\ notice' = [r \in Notice |-> IF notice[r].claimedBy = w
                                     THEN [notice[r] EXCEPT !.stale = TRUE]
                                     ELSE notice[r]]
    /\ UNCHANGED <<sent, recovered, deaths>>

\* It is STALE_CLAIM_MS since a run that died after claiming r began.
OrphanAges(r) ==
    /\ notice[r].status = "PROCESSING" /\ notice[r].claimedBy = None /\ ~notice[r].stale
    /\ notice' = [notice EXCEPT ![r].stale = TRUE]
    /\ UNCHANGED <<run, sent, recovered, bounds>>

BecomesDue(r) ==
    /\ notice[r].status = "PENDING" /\ ~notice[r].due
    /\ notice' = [notice EXCEPT ![r].due = TRUE]
    /\ UNCHANGED <<run, sent, recovered, bounds>>

RunStep(w) ==
    \/ \E S \in SUBSET Notice : Find(w, S)
    \/ \E r \in Notice : Claim(w, r) \/ Skip(w, r)
    \/ Finish(w) \/ Read(w) \/ Deliver(w) \/ DeliveryFails(w)
    \/ MarkSent(w) \/ MarkSentFails(w) \/ MarkFailed(w)

Next ==
    \/ \E w \in Run : Recover(w) \/ RunStep(w) \/ Die(w) \/ Age(w)
    \/ \E r \in Notice : OrphanAges(r) \/ BecomesDue(r)
    \/ \E S \in SUBSET Notice : Enqueue(S)

Spec == Init /\ [][Next]_vars

\* Every statement and every call to a service ends, cron starts runs for ever,
\* and time passes.
FairSpec ==
    /\ Spec
    /\ \A w \in Run : WF_vars(RunStep(w)) /\ WF_vars(Recover(w))
    /\ \A r \in Notice : WF_vars(OrphanAges(r)) /\ WF_vars(BecomesDue(r))

-----------------------------------------------------------------------------
(* Properties *)

\* Rows and records keep their shapes; a run is at a row from its claim to the
\* outcome, and a row that names its run or is stale is claimed.
TypeOK ==
    /\ notice \in [Notice -> NoticeRow]
    /\ run \in [Run -> RunRecord]
    /\ sent \in [Notice -> Nat]
    /\ recovered \in [Notice -> Nat]
    /\ deaths \in 0 .. MaxDeaths /\ slow \in 0 .. MaxSlow
    /\ \A w \in Run : run[w].cur # None <=>
                        run[w].pc \in {"reading", "delivering", "delivered", "failing"}
    /\ \A r \in Notice : notice[r].claimedBy # None \/ notice[r].stale =>
                           notice[r].status = "PROCESSING"

\* Two runs deliver the same row only after a stale claim has been taken back, and
\* never more of them than that accounts for; a row that waits counts as one.
OneDeliverer ==
    \A r \in Notice :
        Cardinality({w \in Run : run[w].cur = r})
          + (IF notice[r].status = "PENDING" THEN 1 ELSE 0) <= 1 + recovered[r]

\* No attempt sends two messages, and the bound on attempts is exceeded at most
\* once for every claim taken back, though a late run may return to PENDING a row
\* that another has given up, or sent.
AttemptsAccounted ==
    \A r \in Notice :
        /\ sent[r] <= notice[r].attempts
        /\ notice[r].attempts <= MaxAttempts + recovered[r]

\* The outcome stored is true, whichever run stored it last: a SENT notice has gone
\* out, and a FAILED one has been tried often enough.
OutcomeTrue ==
    \A r \in Notice :
        /\ notice[r].status = "SENT" => sent[r] >= 1
        /\ notice[r].status = "FAILED" => notice[r].attempts >= MaxAttempts

\* Every notice is sent or given up for good, when runs stop dying and being slow.
Settles == \A r \in Notice : <>[](notice[r].status \in {"none", "SENT", "FAILED"})

-----------------------------------------------------------------------------
(* The inductive invariant behind OutcomeTrue *)

\* What a run has read of its row is not more than the row has, and a run that is
\* about to store SENT has sent it.
RunsKnow ==
    \A w \in Run :
        /\ run[w].cur # None => run[w].seen <= notice[run[w].cur].attempts
        /\ run[w].pc = "delivered" => sent[run[w].cur] >= 1

Inv == TypeOK /\ RunsKnow /\ OutcomeTrue
=============================================================================
