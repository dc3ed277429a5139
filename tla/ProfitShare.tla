----------------------------- MODULE ProfitShare -----------------------------
(***************************************************************************)
(* The commission shares of one order under one rule with one member       *)
(* (ProfitSharingService of apps/api): their recalculation by the rule,    *)
(* the clawback of refunds by the 'order.refunded' event, by the nightly   *)
(* reconciliation and by a recalculation, the settlement cron, and the     *)
(* clerk who settles, cancels, restores and deletes single records.        *)
(*                                                                         *)
(* None of it runs in a transaction: every await of the service is a place *)
(* where the others step in.  Rows are found by what they say and updated  *)
(* by their id.  mishaps records which of the things that should be rare   *)
(* have happened; no code reads it.                                        *)
(***************************************************************************)
EXTENDS Integers, Mishaps

CONSTANTS
    Module,       \* modules of the rule
    Refundable,   \* those with isRefundable
    Months,       \* months each is spread over (amortizationType MONTHLY)
    Ratio,        \* the module's shareRatio times the member's, in parts of
    RatioBase,    \* this many
    OrderAmount,
    Refund,       \* refunds of the order
    Amount,       \* their refundAmount, as they are entered
    Edits,        \* what a clerk may change it to
    Refunder,      \* running 'order.refunded' handlers
    Batch,        \* running reconciliations and recalculations
    MaxCopies,    \* bound on the rows alike there can be at a time
    Allowed,      \* the mishaps that may happen
    MaxMishaps    \* bound on how many kinds of them do

\* What may go on at a time; two of them that met, or an accident.
Activity == {"refund", "reconcile", "recalculate", "settlement", "clerk"}
Accident ==
    {"unheard", "reverted", "lowered", "cancelled", "deleted", "death", "uncalculated"}
ShareMishap == {{a, b} : a, b \in Activity} \cup {{a} : a \in Accident}

ASSUME ProfitAssumption ==
    /\ IsFiniteSet(Module) /\ Refundable \subseteq Module
    /\ OrderAmount \in Nat \ {0}
    /\ Months \in [Module -> Nat \ {0}]
    /\ RatioBase \in Nat \ {0} /\ Ratio \in [Module -> 0 .. RatioBase]
    /\ IsFiniteSet(Refund) /\ Amount \in [Refund -> Nat \ {0}]
    /\ Edits \subseteq Nat \ {0}
    /\ Refunder \cap Batch = {}
    /\ MaxCopies \in Nat \ {0}
    /\ Allowed \subseteq ShareMishap /\ MaxMishaps \in Nat

VARIABLES
    refund,    \* status of the order_refunds rows
    amount,    \* their refundAmount
    records,   \* the order's rows in profit_share_records
    runs,      \* where handlers and batches are, and what they have read
    clerk,     \* the operation on records under way
    mishaps

refunds == <<refund, amount>>
profitVars == <<refunds, records, runs, clerk, mishaps>>

-----------------------------------------------------------------------------
Run == Refunder \cup Batch

Status == {"PENDING", "SETTLED", "CANCELLED", "CLAWBACK"}
Live == {"PENDING", "SETTLED"}

Copy == 1 .. MaxCopies

\* A clawback's amount is written negative in the table, and no more limited
\* by the order's than its refunds are.
ShareRow == [module : Module, month : Nat, copy : Copy, amount : Nat, status : Status]

\* What tells rows apart; a clawback has month 0.
Id(r) == <<r.module, r.month, r.copy>>

RunPc ==
    {"idle", "finding", "picking", "adding", "turning", "reading", "publishing",
     "weighing", "deleting", "reconciling"}

NoRun == [pc |-> "idle", job |-> "refund", then |-> "idle", amount |-> 0, seen |-> 0,
          refunds |-> {}, rest |-> {}, row |-> <<>>]

\* from is the status an operation asks for, to the one it writes.
ClerkOp == {[from |-> "PENDING", to |-> "SETTLED"], [from |-> "SETTLED", to |-> "PENDING"],
            [from |-> "PENDING", to |-> "CANCELLED"],
            [from |-> "CANCELLED", to |-> "PENDING"]}
         \cup {[from |-> s, to |-> "gone"] : s \in Status}

NoClerk == [ids |-> {}, to |-> "none"]

\* A sum of amounts counts their units, so that it is a matter of sets.
Units(key, number) == {key} \X (1 .. number)

TotalOf(set) == Cardinality(UNION {Units(Id(r), r.amount) : r \in set})
Clawed(m) == TotalOf({r \in records : r.module = m /\ r.status = "CLAWBACK"})
Settled == {f \in Refund : refund[f] = "SETTLED"}
SettledSum == Cardinality(UNION {Units(f, amount[f]) : f \in Settled})
Least(a, b) == IF a < b THEN a ELSE b
Most(a, b) == IF a < b THEN b ELSE a

\* Math.round(whole * part / base), the quotient taken exactly.
Rounded(whole, part, base) == (2 * whole * part + base) \div (2 * base)

\* What the member earns of a sum by the module: of the order it is a share,
\* of its refunds what a recalculation takes back.
Earns(m, sum) == Rounded(sum, Ratio[m], RatioBase)
Share == [m \in Module |-> Earns(m, OrderAmount)]

\* What handleRefundClawback takes of an amount for a part of the order.
Portion(earned, part) == Rounded(earned, part, OrderAmount)

\* What it wants taken back, in all, for a row.
ClawbackTarget(earned, part) == Portion(earned, Least(part, OrderAmount))

\* The settled refunds as a query reads them.
SettledRows == {<<f, amount[f]>> : f \in Settled}

RefundableRows == {r \in records : r.module \in Refundable /\ r.status \in Live}

Put(p, run) == runs' = [runs EXCEPT ![p] = run]
At(p, pc) == runs[p].pc = pc

Note(kinds) ==
    /\ Recordable(kinds, mishaps, Allowed, MaxMishaps)
    /\ mishaps' = mishaps \cup kinds

Busy == {p \in Run : ~At(p, "idle")}

\* What is going on, when another activity begins.
Meets(activity) ==
    {{activity, runs[p].job} : p \in Busy}
        \cup IfSo({activity, "clerk"}, clerk # NoClerk)

\* Rows nobody holds: neither the table nor a run or the clerk.
Known ==
    {Id(r) : r \in records} \cup clerk.ids
        \cup UNION {{Id(r) : r \in runs[p].rest} : p \in Run}

Unused(r) == {k \in Copy : <<r.module, r.month, k>> \notin Known}

\* The row with an id of its own.
Fresh(r) == [r EXCEPT !.copy = CHOOSE k \in Unused(r) : TRUE]

Insert(rows) ==
    /\ \A r \in rows : Unused(r) # {}
    /\ records' = records \cup {Fresh(r) : r \in rows}

-----------------------------------------------------------------------------
ProfitInit ==
    /\ refund = [f \in Refund |-> "SUBMITTED"] /\ amount = Amount
    /\ records = {}
    /\ runs = [p \in Run |-> NoRun]
    /\ clerk = NoClerk
    /\ mishaps = {}

-----------------------------------------------------------------------------
(* OrderRefundService *)

\* The event carries the amount of this refund, and may be sent again.
SettleRefund(f, h) ==
    /\ refund[f] # "deleted" /\ At(h, "idle")
    /\ refund' = [refund EXCEPT ![f] = "SETTLED"]
    /\ Put(h, [NoRun EXCEPT !.pc = "finding", !.amount = amount[f]])
    /\ Note(Meets("refund"))
    /\ UNCHANGED <<amount, records, clerk>>

\* What Stripe settled is stored as it is, and nobody hears of it.
SyncSettled(f) ==
    /\ refund[f] = "SUBMITTED"
    /\ refund' = [refund EXCEPT ![f] = "SETTLED"]
    /\ Note(Meets("refund") \cup {{"unheard"}})
    /\ UNCHANGED <<amount, records, runs, clerk>>

RevertRefund(f) ==
    /\ refund[f] = "SETTLED"
    /\ \E status \in {"SUBMITTED", "deleted"} : refund' = [refund EXCEPT ![f] = status]
    /\ Note({{"reverted"}})
    /\ UNCHANGED <<amount, records, runs, clerk>>

\* A settled refund may be changed too, and no event tells of it.
EditRefund(f) ==
    /\ refund[f] # "deleted"
    /\ \E a \in Edits \ {amount[f]} :
         /\ amount' = [amount EXCEPT ![f] = a]
         /\ Note(IF refund[f] = "SETTLED"
                 THEN Meets("refund") \cup IfSo({"lowered"}, a < amount[f])
                 ELSE {})
    /\ UNCHANGED <<refund, records, runs, clerk>>

-----------------------------------------------------------------------------
(* handleRefundClawback *)

\* (FindPending: of the rows that are not settled yet only.)
FindPending(p) ==
    /\ At(p, "finding")
    /\ Put(p, [runs[p] EXCEPT !.pc = "picking",
                              !.rest = {r \in RefundableRows : r.status = "PENDING"}])
    /\ UNCHANGED <<refunds, records, clerk, mishaps>>
FindRecords(p) ==
    /\ At(p, "finding")
    /\ Put(p, [runs[p] EXCEPT !.pc = "picking", !.rest = RefundableRows])
    /\ UNCHANGED <<refunds, records, clerk, mishaps>>

\* The loop over the rows it found; every row of a module is compared with
\* all that was taken back from the module.  (SumNothing: it is not.)
SumNothing(p) ==
    /\ At(p, "picking")
    /\ \/ \E r \in runs[p].rest : Put(p, [runs[p] EXCEPT !.pc = "adding", !.row = Id(r)])
       \/ /\ runs[p].rest = {}
          /\ Put(p, IF runs[p].then = "idle" THEN NoRun
                    ELSE [runs[p] EXCEPT !.pc = runs[p].then, !.amount = 0])
    /\ UNCHANGED <<refunds, records, clerk, mishaps>>
SumClawbacks(p) ==
    /\ At(p, "picking")
    /\ \/ \E r \in runs[p].rest :
            Put(p, [runs[p] EXCEPT !.pc = "adding", !.row = Id(r), !.seen = Clawed(r.module)])
       \/ /\ runs[p].rest = {}
          /\ Put(p, IF runs[p].then = "idle" THEN NoRun
                    ELSE [runs[p] EXCEPT !.pc = runs[p].then, !.amount = 0])
    /\ UNCHANGED <<refunds, records, clerk, mishaps>>

AddClawback(p) ==
    /\ At(p, "adding")
    /\ \E r \in runs[p].rest :
        /\ Id(r) = runs[p].row
        /\ LET missing == ClawbackTarget(r.amount, runs[p].amount) - runs[p].seen
           IN IF missing > 0
              THEN Insert({[module |-> r.module, month |-> 0, copy |-> 1, amount |-> missing,
                            status |-> "CLAWBACK"]})
              ELSE UNCHANGED records
        /\ Put(p, [runs[p] EXCEPT !.pc = "picking", !.rest = @ \ {r}, !.row = <<>>, !.seen = 0])
    /\ UNCHANGED <<refunds, clerk, mishaps>>

-----------------------------------------------------------------------------
(* reconcileRefundClawbacks *)

\* The cron and the endpoint.
Reconcile(p) ==
    /\ At(p, "idle")
    /\ Put(p, [NoRun EXCEPT !.pc = "turning", !.job = "reconcile", !.then = "turning",
                            !.refunds = SettledRows])
    /\ Note(Meets("reconcile"))
    /\ UNCHANGED <<refunds, records, clerk>>

\* The next of the refunds it found: are there shares to take it from?
CheckShares(p) ==
    /\ At(p, "turning")
    /\ \E row \in runs[p].refunds :
         Put(p, [runs[p] EXCEPT !.pc = IF RefundableRows = {} THEN "reading" ELSE "finding",
                                !.amount = row[2], !.refunds = @ \ {row}])
    /\ UNCHANGED <<refunds, records, clerk, mishaps>>

FinishReconcile(p) ==
    /\ At(p, "turning") /\ runs[p].refunds = {}
    /\ Put(p, NoRun)
    /\ UNCHANGED <<refunds, records, clerk, mishaps>>

-----------------------------------------------------------------------------
(* calculateProfitShare, generateRecordsForOrder *)

\* The order with its settled refunds.
ReadOrder(p) ==
    /\ At(p, "reading")
    /\ Put(p, [runs[p] EXCEPT !.pc = "publishing", !.seen = SettledSum])
    /\ UNCHANGED <<refunds, records, clerk, mishaps>>

\* The last month takes what the division leaves.
MonthlyShare(m, month) ==
    LET even == Share[m] \div Months[m]
    IN IF month = Months[m] THEN Share[m] - even * (Months[m] - 1) ELSE even

Earned(m, month) ==
    [module |-> m, month |-> month, copy |-> 1, amount |-> MonthlyShare(m, month),
     status |-> "PENDING"]

TakenBack(m, refunded) ==
    [module |-> m, month |-> 0, copy |-> 1, amount |-> Earns(m, refunded),
     status |-> "CLAWBACK"]

\* A clawback is generated only if it rounds to more than nothing.
Generated(refunded) ==
    (UNION {{Earned(m, i) : i \in 1 .. Months[m]} : m \in Module})
        \cup {TakenBack(m, refunded) : m \in {x \in Refundable : Earns(x, refunded) > 0}}

\* Nothing asks whether the order has shares by now.
PublishShares(p) ==
    /\ At(p, "publishing")
    /\ Insert(Generated(runs[p].seen))
    /\ Put(p, IF runs[p].then = "reconciling"
              THEN [NoRun EXCEPT !.pc = "reconciling", !.job = "recalculate"]
              ELSE [runs[p] EXCEPT !.pc = "finding", !.seen = 0])
    /\ UNCHANGED <<refunds, clerk, mishaps>>

-----------------------------------------------------------------------------
(* calculateForSpecificRule *)

\* An order with a settled row is locked.
Recalculate(p) ==
    /\ At(p, "idle")
    /\ LET locked == \E r \in records : r.status = "SETTLED"
       IN Put(p, [NoRun EXCEPT !.pc = IF locked THEN "weighing" ELSE "deleting",
                               !.job = "recalculate",
                               !.then = IF locked THEN "reconciling" ELSE "deleting"])
    /\ Note(Meets("recalculate"))
    /\ UNCHANGED <<refunds, records, clerk>>

\* A locked order keeps its rows, and is charged for the sum of its refunds.
WeighLocked(p) ==
    /\ At(p, "weighing")
    /\ Put(p, [runs[p] EXCEPT !.pc = IF SettledSum > 0 THEN "finding" ELSE "reconciling",
                              !.amount = SettledSum])
    /\ UNCHANGED <<refunds, records, clerk, mishaps>>

\* (DeleteNothing: the rows stay.)
DeleteNothing(p) ==
    /\ At(p, "deleting")
    /\ Put(p, [runs[p] EXCEPT !.pc = "reading", !.then = "reconciling"])
    /\ UNCHANGED <<refunds, records, clerk, mishaps>>
DeleteUnsettled(p) ==
    /\ At(p, "deleting")
    /\ records' = {r \in records : r.status = "SETTLED"}
    /\ Put(p, [runs[p] EXCEPT !.pc = "reading", !.then = "reconciling"])
    /\ UNCHANGED <<refunds, clerk, mishaps>>

StartReconcile(p) ==
    /\ At(p, "reconciling")
    /\ Put(p, [NoRun EXCEPT !.pc = "turning", !.job = "recalculate", !.then = "turning",
                            !.refunds = SettledRows])
    /\ UNCHANGED <<refunds, records, clerk, mishaps>>

-----------------------------------------------------------------------------
(* Settlement, and ProfitSharingRecordService *)

\* The cron: one update of the rows whose settlementTime has come.
SettleDue ==
    /\ \E due \in SUBSET Module :
         LET rows == {r \in records : r.module \in due /\ r.status = "PENDING"}
         IN /\ rows # {}
            /\ records' = (records \ rows) \cup {[r EXCEPT !.status = "SETTLED"] : r \in rows}
    /\ Note(Meets("settlement"))
    /\ UNCHANGED <<refunds, runs, clerk>>

\* One record, or with settleMemberPayslip all that are pending.
ClerkRead ==
    /\ clerk = NoClerk
    /\ \/ \E op \in ClerkOp, r \in records :
            /\ r.status = op.from
            /\ clerk' = [ids |-> {Id(r)}, to |-> op.to]
            /\ Note(Meets("clerk") \cup IfSo({"cancelled"}, op.to = "CANCELLED")
                      \cup IfSo({"deleted"}, op.to = "gone"))
       \/ LET pending == {r \in records : r.status = "PENDING"}
          IN /\ pending # {}
             /\ clerk' = [ids |-> {Id(r) : r \in pending}, to |-> "SETTLED"]
             /\ Note(Meets("clerk"))
    /\ UNCHANGED <<refunds, records, runs>>

\* A row that is gone meanwhile is no error worth a state.
ClerkWrite ==
    /\ clerk # NoClerk
    /\ LET rows == {r \in records : Id(r) \in clerk.ids}
       IN records' = (records \ rows) \cup
            IF clerk.to = "gone" THEN {}
            ELSE {[r EXCEPT !.status = clerk.to] : r \in rows}
    /\ clerk' = NoClerk
    /\ UNCHANGED <<refunds, runs, mishaps>>

\* The process dies or a query fails.
Die(p) ==
    /\ p \in Busy
    /\ Put(p, NoRun)
    /\ Note({{"death"}})
    /\ UNCHANGED <<refunds, records, clerk>>

\* Only what calculateProfitShare throws is caught, by the reconciliation,
\* which goes on with the clawback.
CatchFailure(p) ==
    /\ runs[p].pc \in {"reading", "publishing"} /\ runs[p].then = "turning"
    /\ Put(p, [runs[p] EXCEPT !.pc = "finding", !.seen = 0])
    /\ Note({{"uncalculated"}})
    /\ UNCHANGED <<refunds, records, clerk>>

-----------------------------------------------------------------------------
Step(p) ==
    \/ FindRecords(p) \/ SumClawbacks(p) \/ AddClawback(p)
    \/ CheckShares(p) \/ FinishReconcile(p) \/ ReadOrder(p) \/ PublishShares(p)
    \/ WeighLocked(p) \/ DeleteUnsettled(p) \/ StartReconcile(p)

ProfitNext ==
    \/ \E f \in Refund : \E h \in Refunder : SettleRefund(f, h)
    \/ \E f \in Refund : SyncSettled(f) \/ RevertRefund(f) \/ EditRefund(f)
    \/ \E p \in Batch : Reconcile(p) \/ Recalculate(p)
    \/ \E p \in Run : Step(p) \/ Die(p) \/ CatchFailure(p)
    \/ SettleDue \/ ClerkRead \/ ClerkWrite

ProfitSpec == ProfitInit /\ [][ProfitNext]_profitVars

-----------------------------------------------------------------------------
(* Properties *)

ProfitTypeOK ==
    /\ refund \in [Refund -> {"SUBMITTED", "SETTLED", "deleted"}]
    /\ amount \in [Refund -> Nat \ {0}]
    /\ records \subseteq ShareRow
    /\ \A x, y \in records : Id(x) = Id(y) => x = y
    /\ \A p \in Run : runs[p].rest \subseteq ShareRow
    /\ \A p \in Run : runs[p].amount \in Nat /\ runs[p].seen \in Nat
    /\ clerk.ids \subseteq Module \X Nat \X Copy
    /\ mishaps \subseteq Allowed

\* What the refunds come to of the member's share of a module, rounded either
\* way: from the share or, as a recalculation does, from the ratio.  It is
\* more than the share if they come to more than the order.
Owed(m) == Most(Portion(Share[m], SettledSum), Earns(m, SettledSum))

\* A refund was taken back or lowered, a row cancelled or deleted; or two
\* activities that write clawbacks met.
ChargesTwice ==
    {{"reverted"}, {"lowered"}, {"cancelled"}, {"deleted"}}
        \cup {{a, b} : a, b \in {"refund", "reconcile"}}
        \cup {{"recalculate", a} : a \in {"refund", "reconcile", "recalculate"}}

\* A refund never costs the member more than the refunds that are settled
\* come to, unless one of those happened.  The clerk and the settlement may
\* meet any of them.  [handleRefundClawback computes what is missing from
\* rows it read; generateRecordsForOrder adds its own.]
NeverOverClawed ==
    (\E m \in Module : Clawed(m) > Owed(m)) => Among(ChargesTwice, mishaps)

Shares == {r \in records : r.status # "CLAWBACK"}

\* A row was cancelled or deleted, a recalculation was met by anything but a
\* refund, or reconciliations met.
ChangesShares ==
    {{"cancelled"}, {"deleted"}, {"reconcile"}}
        \cup {{"recalculate", a} : a \in Activity \ {"refund"}}

\* Once an order has shares, and nothing is calculating, each module has paid
\* or will pay its share once, neither lost nor doubled, unless one of those
\* happened; but the rule must have a refundable module (SharesOnce).
\* [calculateForSpecificRule deletes and creates again; calculateProfitShare
\* asks nothing.]
SharesIntact ==
    /\ Shares # {} /\ Busy = {} /\ Refundable # {}
    /\ \E m \in Module : TotalOf({r \in Shares : r.module = m}) # Share[m]
    => Among(ChangesShares, mishaps)

\* A reconciliation met a refund being settled or edited, a clerk restoring
\* rows or a recalculation, or a recalculation met anything; or a
\* reconciliation could not calculate shares, and went on without.
Disturbs ==
    {{"refund", "reconcile"}, {"clerk", "reconcile"}, {"uncalculated"}}
        \cup {{"recalculate", a} : a \in Activity}

\* A reconciliation that comes to its end leaves no row short of what any one
\* of the settled refunds asks of it: whichever of them no event told of,
\* whichever handler or recalculation died, though amounts were edited before
\* and rows settled or another reconciliation run meanwhile, unless it was
\* disturbed.  [reconcileRefundClawbacks is the backstop of the event
\* handler.]
ReconcileCovers ==
    [][\A p \in Batch :
         FinishReconcile(p) /\ ~Among(Disturbs, mishaps)
         => \A r \in RefundableRows, f \in Settled :
              Clawed(r.module) >= ClawbackTarget(r.amount, amount[f])]_profitVars

-----------------------------------------------------------------------------
CumulativeClawed ==
    mishaps = {} /\ Busy = {} /\ clerk = NoClerk
        => \A r \in RefundableRows : Clawed(r.module) >= ClawbackTarget(r.amount, SettledSum)

SharesOnce ==
    mishaps = {} => \A m \in Module :
        TotalOf({r \in records : r.module = m /\ r.status \in Live}) <= Share[m]
=============================================================================
