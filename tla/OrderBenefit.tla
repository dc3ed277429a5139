---------------------------- MODULE OrderBenefit ----------------------------
(***************************************************************************)
(* The benefit period of one order of apps/api (OrderService): operators   *)
(* freeze, unfreeze and extend it, and edit the order.  Each of the three  *)
(* reads the order, computes the new values from what it read, and writes  *)
(* them with a row of order_benefit_adjustments in one transaction that    *)
(* does not look at the order again.                                       *)
(*                                                                         *)
(* Time is counted in ticks, PerDay of them a day; a request is over       *)
(* within a tick.                                                          *)
(***************************************************************************)
EXTENDS Integers, Sequences, Mishaps

CONSTANTS
    Operator,      \* concurrent requests
    PerDay,        \* ticks of a day
    Horizon,       \* bound on the time
    MaxAdjust,     \* bound on the adjustments
    MaxDisturbed,  \* bound on the kinds of disturbed
    None           \* frozenAt and benefitEnd when they are null

ASSUME BenefitAssumption ==
    /\ PerDay \in Nat \ {0} /\ Horizon \in Nat /\ MaxAdjust \in Nat /\ MaxDisturbed \in Nat
    /\ None \notin Nat

VARIABLES
    clock,
    order,        \* status, benefitEnd, frozenAt and frozenDays of the row
    adjustments,  \* the order's adjustments, as created
    request,      \* what each operator is doing, with the order it read
    firstEnd,     \* history: benefitEnd as the order was created
    frozenFor,    \* history: ticks the order has been FROZEN
    thaws,        \* history: how often it was unfrozen, for how many days in all
    disturbed     \* history: "met", two adjustments; "edited", by hand

benefitVars ==
    <<clock, order, adjustments, request, firstEnd, frozenFor, thaws, disturbed>>

-----------------------------------------------------------------------------
OrderStatus == {"PAID", "FROZEN", "COMPLETED"}

Order ==
    [status : OrderStatus, end : Nat \cup {None}, frozenAt : Nat \cup {None},
     frozenDays : Nat]

Adjustment ==
    [type : {"FREEZE", "UNFREEZE", "EXTENSION"}, days : Nat, before : Nat, after : Nat]

\* An order is created with an end or without one.
FirstEnd == {2 * PerDay, None}
FirstOrder(end) == [status |-> "PAID", end |-> end, frozenAt |-> None, frozenDays |-> 0]

Nothing == [kind |-> "none", read |-> FirstOrder(None)]

AtLeastOne(n) == IF n < 1 THEN 1 ELSE n

\* Math.ceil of a time in days.  (WholeDaysOf: Math.floor.)
WholeDaysOf(ticks) == ticks \div PerDay
DaysOf(ticks) == (ticks + PerDay - 1) \div PerDay

\* The end that was read, or now for an order without one.
CurrentEnd(o) == IF o.end = None THEN clock ELSE o.end

\* A row with days, from that end.
Row(type, o, days) ==
    [type |-> type, days |-> days, before |-> CurrentEnd(o),
     after |-> CurrentEnd(o) + days * PerDay]

Disturb(kinds) ==
    /\ Recordable(kinds, disturbed, {"met", "edited"}, MaxDisturbed)
    /\ disturbed' = disturbed \cup kinds

-----------------------------------------------------------------------------
BenefitInit ==
    /\ clock = 0
    /\ firstEnd \in FirstEnd
    /\ order = FirstOrder(firstEnd)
    /\ adjustments = <<>>
    /\ request = [p \in Operator |-> Nothing]
    /\ frozenFor = 0
    /\ thaws = [times |-> 0, days |-> 0]
    /\ disturbed = {}

\* findActiveOrder, and the checks on what it found.
Ask(p, kind) ==
    /\ request[p].kind = "none"
    /\ request' = [request EXCEPT ![p] = [kind |-> kind, read |-> order]]
    /\ Disturb(IfSo("met", \E q \in Operator : request[q].kind # "none"))
    /\ UNCHANGED <<clock, order, adjustments, firstEnd, frozenFor, thaws>>

\* (AskUnfreezeBlind: frozenAt is not looked at.)
AskUnfreezeBlind(p) == order.status = "FROZEN" /\ Ask(p, "unfreeze")
AskFreeze(p) ==
    order.status = "PAID" /\ order.end # None /\ order.end > clock /\ Ask(p, "freeze")
AskUnfreeze(p) == order.status = "FROZEN" /\ order.frozenAt # None /\ Ask(p, "unfreeze")
AskExtend(p) == order.status \in {"PAID", "FROZEN"} /\ Ask(p, "extend")

\* executeBenefitAdjustment
Adjust(p, written, row) ==
    /\ Len(adjustments) < MaxAdjust
    /\ order' = written
    /\ adjustments' = Append(adjustments, row)
    /\ request' = [request EXCEPT ![p] = Nothing]
    /\ thaws' = IF row.type = "UNFREEZE"
                THEN [times |-> thaws.times + 1, days |-> thaws.days + row.days] ELSE thaws
    /\ UNCHANGED <<clock, firstEnd, frozenFor, disturbed>>

Freeze(p) ==
    /\ request[p].kind = "freeze"
    /\ Adjust(p, [order EXCEPT !.status = "FROZEN", !.frozenAt = clock],
              Row("FREEZE", request[p].read, 0))

FrozenDays(o) == AtLeastOne(DaysOf(clock - o.frozenAt))

\* (UnfreezeReplaces: frozenDays is set, not incremented.)
UnfreezeReplaces(p) ==
    LET row == Row("UNFREEZE", request[p].read, FrozenDays(request[p].read))
    IN /\ request[p].kind = "unfreeze"
       /\ Adjust(p, [status |-> "PAID", frozenAt |-> None, end |-> row.after,
                     frozenDays |-> row.days], row)
Unfreeze(p) ==
    LET o == request[p].read
        row == Row("UNFREEZE", o, FrozenDays(o))
    IN /\ request[p].kind = "unfreeze"
       /\ Adjust(p, [status |-> "PAID", frozenAt |-> None, end |-> row.after,
                     frozenDays |-> o.frozenDays + row.days], row)

Extend(p) ==
    /\ request[p].kind = "extend"
    /\ LET row == Row("EXTENSION", request[p].read, 1)
       IN Adjust(p, [order EXCEPT !.end = row.after], row)

\* update and updateStatus set what they are given, frozenAt never and no
\* end to null.
Edit ==
    /\ \E status \in OrderStatus, end \in {order.end, 2 * PerDay} :
         order' = [order EXCEPT !.status = status, !.end = end]
    /\ Disturb({"edited"})
    /\ UNCHANGED <<clock, adjustments, request, firstEnd, frozenFor, thaws>>

BenefitTick ==
    /\ clock < Horizon
    /\ \A p \in Operator : request[p].kind = "none"
    /\ clock' = clock + 1
    /\ frozenFor' = frozenFor + (IF order.status = "FROZEN" THEN 1 ELSE 0)
    /\ UNCHANGED <<order, adjustments, request, firstEnd, thaws, disturbed>>

BenefitNext ==
    \/ \E p \in Operator :
         \/ AskFreeze(p) \/ AskUnfreeze(p) \/ AskExtend(p)
         \/ Freeze(p) \/ Unfreeze(p) \/ Extend(p)
    \/ Edit \/ BenefitTick

BenefitSpec == BenefitInit /\ [][BenefitNext]_benefitVars

-----------------------------------------------------------------------------
(* Properties *)

BenefitTypeOK ==
    /\ clock \in 0 .. Horizon /\ order \in Order /\ firstEnd \in FirstEnd
    /\ \A i \in DOMAIN adjustments : adjustments[i] \in Adjustment
    /\ \A p \in Operator :
         request[p].kind \in {"none", "freeze", "unfreeze", "extend"} /\ request[p].read \in Order
    /\ \A p \in Operator : request[p].kind = "unfreeze" => request[p].read.frozenAt # None

\* The end the first i adjustments left.
EndAfter(i) == IF i = 0 THEN firstEnd ELSE adjustments[i].after

\* An adjustment starts from the end there was, or from the time it was made.
StartsFrom(row, end) == IF end = None THEN row.before \in 0 .. clock ELSE row.before = end

\* The adjustments account for the order: each starts from the end the one
\* before it left (the first from that of the order, or from its own time if
\* the order had none), the last one left the end the order has, and
\* frozenDays is what was given for freezing, unless the order was edited or
\* two requests met.  [freeze, unfreeze, extend: read, compute, write
\* absolute values.]
BenefitAccounted ==
    disturbed = {} =>
        /\ \A i \in DOMAIN adjustments : StartsFrom(adjustments[i], EndAfter(i - 1))
        /\ order.end = EndAfter(Len(adjustments))
        /\ order.frozenDays = thaws.days

\* Time spent frozen is given back, in whole days: never less than it was,
\* and less than a day more for each unfreezing that lasted.  [unfreeze:
\* Math.max(1, Math.ceil(...)).]
FrozenTimeGiven ==
    disturbed = {} /\ order.status = "PAID" =>
        /\ order.frozenDays * PerDay >= frozenFor
        /\ order.frozenDays * PerDay <= frozenFor + thaws.times * PerDay
=============================================================================
