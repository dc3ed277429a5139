----------------------------- MODULE OrderProofs -----------------------------
(***************************************************************************)
(* Proofs about OrderBenefit and StripeSync, for any number of operators,  *)
(* syncs and refunds and any bounds.                                       *)
(*                                                                         *)
(* OrderBenefit: while no two requests have met and nothing was edited by  *)
(* hand, at most one request is under way and what it read is still the    *)
(* order; so each adjustment is a step from the one before, and the days   *)
(* given keep up with the ticks spent frozen.                              *)
(*                                                                         *)
(* StripeSync: what a sync stores was so of its object once.  While no two *)
(* syncs of an object have met, what it looked up is still so when it      *)
(* writes, and while none began with an older state than one before, what  *)
(* it stores is the latest known.                                          *)
(***************************************************************************)
EXTENDS MCOrder, ProfitShareProofs, WellFoundedInduction, SequenceTheorems, TLAPS

-----------------------------------------------------------------------------
(* Arithmetic *)

LEMMA QuotientInt ==
    ASSUME NEW n \in Int, NEW d \in Nat \ {0}
    PROVE  n \div d \in Int
OBVIOUS

LEMMA Distributes ==
    ASSUME NEW a \in Nat, NEW b \in Nat, NEW d \in Nat
    PROVE  (a + b) * d = a * d + b * d /\ a * d \in Nat
OBVIOUS

\* The days given for a time are its days rounded up, and at least one.
LEMMA RoundedUp ==
    ASSUME NEW t \in Int
    PROVE  /\ AtLeastOne(DaysOf(t)) \in Nat
           /\ t \in Nat => /\ AtLeastOne(DaysOf(t)) * PerDay >= t
                           /\ AtLeastOne(DaysOf(t)) * PerDay <= t + PerDay
<1> DEFINE d == DaysOf(t)
<1>1. PerDay \in Nat \ {0}
  BY BenefitAssumption
<1>2. d \in Int
  BY <1>1, QuotientInt DEF DaysOf
<1>3. AtLeastOne(d) = IF d < 1 THEN 1 ELSE d
  BY DEF AtLeastOne
<1>4. AtLeastOne(d) \in Nat
  <2> HIDE DEF d
  <2> QED BY <1>2, <1>3
<1>5. ASSUME t \in Nat
      PROVE  AtLeastOne(d) * PerDay >= t /\ AtLeastOne(d) * PerDay <= t + PerDay
  <2>1. d \in Nat /\ d * PerDay <= t + PerDay - 1 /\ t + PerDay - 1 < d * PerDay + PerDay
    <3>1. t + PerDay - 1 \in Nat
      BY <1>1, <1>5
    <3> QED BY <1>1, <3>1, Quotient DEF DaysOf
  <2>2. d * PerDay \in Nat
    BY <2>1, <1>1, Distributes
  <2>3. CASE d < 1
    <3>1. d = 0
      BY <2>1, <2>3
    <3>2. d * PerDay = 0
      BY <3>1, <1>1
    <3>3. t = 0
      <4> HIDE DEF d
      <4> QED BY <2>1, <3>2, <1>1, <1>5
    <3>4. AtLeastOne(d) = 1 /\ 1 * PerDay = PerDay
      <4> HIDE DEF d
      <4> QED BY <1>3, <2>3, <1>1
    <3> HIDE DEF d
    <3> QED BY <3>3, <3>4, <1>1
  <2>4. CASE ~(d < 1)
    <3>1. AtLeastOne(d) = d
      BY <1>3, <2>4
    <3> HIDE DEF d
    <3> QED BY <2>1, <2>2, <3>1, <1>1, <1>5
  <2> QED BY <2>3, <2>4
<1> QED BY <1>4, <1>5

-----------------------------------------------------------------------------
(* The invariant *)

Kinds == {"none", "freeze", "unfreeze", "extend"}

Types ==
    /\ clock \in 0 .. Horizon /\ order \in Order /\ firstEnd \in FirstEnd
    /\ adjustments \in Seq(Adjustment)
    /\ request \in [Operator -> [kind : Kinds, read : Order]]
    /\ \A p \in Operator :
         /\ request[p].kind = "freeze" => request[p].read.end # None
         /\ request[p].kind = "unfreeze" => request[p].read.frozenAt # None
    /\ frozenFor \in Nat
    /\ thaws \in [times : Nat, days : Nat]

\* One request at a time, and the order is what it read.
Undisturbed ==
    /\ \A p, q \in Operator :
         request[p].kind # "none" /\ request[q].kind # "none" => p = q
    /\ \A p \in Operator :
         /\ request[p].kind # "none" => request[p].read = order
         /\ request[p].kind = "freeze" => order.status = "PAID"
         /\ request[p].kind = "unfreeze" => order.status = "FROZEN"
    /\ order.status \in {"PAID", "FROZEN"}
    /\ order.status = "FROZEN" => order.frozenAt \in 0 .. clock

Chain ==
    /\ \A i \in DOMAIN adjustments : StartsFrom(adjustments[i], EndAfter(i - 1))
    /\ order.end = EndAfter(Len(adjustments))
    /\ order.frozenDays = thaws.days

\* Ticks spent frozen before the freezing that is not over yet.
FrozenBefore == frozenFor - (IF order.status = "FROZEN" THEN clock - order.frozenAt ELSE 0)

Repaid ==
    /\ order.frozenDays * PerDay >= FrozenBefore
    /\ order.frozenDays * PerDay <= FrozenBefore + thaws.times * PerDay

BenefitInv ==
    /\ Types
    /\ disturbed = {} => Undisturbed /\ Chain /\ Repaid

-----------------------------------------------------------------------------
LEMMA Rows ==
    ASSUME Types, NEW o \in Order, NEW days \in Nat,
           NEW type \in {"FREEZE", "UNFREEZE", "EXTENSION"}
    PROVE  /\ Row(type, o, days) \in Adjustment
           /\ Row(type, o, days).after = CurrentEnd(o) + days * PerDay
           /\ Row(type, o, days).days = days
           /\ Row(type, o, days).type = type
           /\ StartsFrom(Row(type, o, days), o.end)
<1>1. days * PerDay \in Nat
  BY BenefitAssumption, Distributes
<1>2. clock \in Nat /\ clock \in 0 .. clock
  BY DEF Types
<1>3. CurrentEnd(o) \in Nat
  BY <1>2 DEF Order, CurrentEnd
<1>4. CurrentEnd(o) + days * PerDay \in Nat
  BY <1>1, <1>3
<1>5. StartsFrom(Row(type, o, days), o.end)
  BY <1>2 DEF StartsFrom, Row, CurrentEnd
<1> QED BY <1>3, <1>4, <1>5 DEF Row, Adjustment

\* What unfreezing writes.
LEMMA Thaw ==
    ASSUME Types, NEW p \in Operator, request[p].kind = "unfreeze"
    PROVE  /\ request[p].read \in Order
           /\ FrozenDays(request[p].read) \in Nat
<1>1. request[p].read \in Order /\ request[p].read.frozenAt # None
  BY DEF Types
<1>2. request[p].read.frozenAt \in Nat
  BY <1>1 DEF Order
<1>3. clock - request[p].read.frozenAt \in Int
  BY <1>2 DEF Types
<1> QED BY <1>1, <1>3, RoundedUp DEF FrozenDays

\* An adjustment keeps the types when what it writes has them.
LEMMA AdjustTypes ==
    ASSUME Types, NEW p \in Operator, NEW written \in Order, NEW row \in Adjustment,
           Adjust(p, written, row)
    PROVE  Types'
<1>1. Nothing \in [kind : Kinds, read : Order] /\ Nothing.kind = "none"
  BY DEF Nothing, FirstOrder, Order, OrderStatus, Kinds
<1>2. /\ order' = written
      /\ adjustments' = Append(adjustments, row)
      /\ request' = [request EXCEPT ![p] = Nothing]
      /\ thaws' = IF row.type = "UNFREEZE"
                  THEN [times |-> thaws.times + 1, days |-> thaws.days + row.days] ELSE thaws
      /\ clock' = clock /\ frozenFor' = frozenFor /\ firstEnd' = firstEnd
  BY DEF Adjust
<1>3. adjustments' \in Seq(Adjustment)
  BY <1>2 DEF Types
<1>4. request' \in [Operator -> [kind : Kinds, read : Order]]
  BY <1>1, <1>2 DEF Types
<1>5. \A q \in Operator :
        /\ request'[q].kind = "freeze" => request'[q].read.end # None
        /\ request'[q].kind = "unfreeze" => request'[q].read.frozenAt # None
  BY <1>1, <1>2 DEF Types
<1>6. thaws' \in [times : Nat, days : Nat]
  <2>1. row.days \in Nat
    BY DEF Adjustment
  <2> QED BY <1>2, <2>1 DEF Types
<1> QED BY <1>2, <1>3, <1>4, <1>5, <1>6 DEF Types

\* After an adjustment nobody is at work, and the row is the last.
LEMMA AdjustChain ==
    ASSUME Types, Undisturbed, Chain, disturbed = {}, NEW p \in Operator,
           request[p].kind # "none",
           NEW written \in Order, NEW row \in Adjustment, Adjust(p, written, row),
           StartsFrom(row, order.end), written.end = row.after
    PROVE  /\ \A q \in Operator : request'[q].kind = "none"
           /\ \A i \in DOMAIN adjustments' : StartsFrom(adjustments[i], EndAfter(i - 1))'
           /\ written.end = EndAfter(Len(adjustments))'
<1>1. /\ adjustments' = Append(adjustments, row)
      /\ request' = [request EXCEPT ![p] = Nothing]
      /\ clock' = clock /\ firstEnd' = firstEnd
  BY DEF Adjust
<1>2. adjustments \in Seq(Adjustment) /\ Len(adjustments) \in Nat
  BY DEF Types
<1>3. /\ Len(adjustments') = Len(adjustments) + 1
      /\ \A i \in 1 .. Len(adjustments) : adjustments'[i] = adjustments[i]
      /\ adjustments'[Len(adjustments) + 1] = row
      /\ DOMAIN adjustments' = 1 .. Len(adjustments) + 1
      /\ DOMAIN adjustments = 1 .. Len(adjustments)
  BY <1>1, <1>2
<1>4. \A q \in Operator : request'[q].kind = "none"
  BY <1>1 DEF Undisturbed, Types, Nothing
<1>5. ASSUME NEW i \in 0 .. Len(adjustments)
      PROVE  EndAfter(i)' = EndAfter(i)
  BY <1>1, <1>2, <1>3 DEF EndAfter
<1>6. ASSUME NEW i \in 1 .. Len(adjustments) + 1
      PROVE  StartsFrom(adjustments[i], EndAfter(i - 1))'
  <2>1. i - 1 \in 0 .. Len(adjustments)
    BY <1>2
  <2>2. EndAfter(i - 1)' = EndAfter(i - 1)
    BY <1>5, <2>1
  <2>3. StartsFrom(adjustments'[i], EndAfter(i - 1))
    <3>1. CASE i \in 1 .. Len(adjustments)
      BY <1>3, <3>1 DEF Chain
    <3>2. CASE i = Len(adjustments) + 1
      <4>1. i - 1 = Len(adjustments)
        BY <1>2, <3>2
      <4> QED BY <1>3, <3>2, <4>1 DEF Chain
    <3> QED BY <1>2, <3>1, <3>2
  <2> QED BY <1>1, <2>2, <2>3 DEF StartsFrom
<1>7. EndAfter(Len(adjustments))' = row.after
  BY <1>2, <1>3 DEF EndAfter
<1> QED BY <1>3, <1>4, <1>6, <1>7

-----------------------------------------------------------------------------
LEMMA FirstOrders ==
    /\ 2 * PerDay \in Nat
    /\ \A end \in FirstEnd : FirstOrder(end) \in Order
    /\ Nothing \in [kind : Kinds, read : Order]
<1>1. 2 * PerDay \in Nat
  BY BenefitAssumption
<1> QED BY <1>1 DEF FirstOrder, FirstEnd, Nothing, Kinds, Order, OrderStatus

LEMMA InitInv == BenefitInit => BenefitInv
<1> SUFFICES ASSUME BenefitInit PROVE BenefitInv
  OBVIOUS
<1> USE DEF BenefitInit
<1>1. Types
  <2>1. adjustments \in Seq(Adjustment) /\ 0 \in 0 .. Horizon
    BY BenefitAssumption
  <2>2. request \in [Operator -> [kind : Kinds, read : Order]]
    BY FirstOrders
  <2>3. \A p \in Operator : request[p].kind = "none"
    BY DEF Nothing
  <2> QED BY <2>1, <2>2, <2>3, FirstOrders DEF Types
<1>2. Undisturbed
  BY DEF Undisturbed, Nothing, FirstOrder
<1>3. Chain
  BY DEF Chain, EndAfter, FirstOrder
<1>4. Repaid
  <2>1. 0 * PerDay = 0
    BY BenefitAssumption
  <2> QED BY <2>1 DEF Repaid, FrozenBefore, FirstOrder
<1> QED BY <1>1, <1>2, <1>3, <1>4 DEF BenefitInv

\* Whoever asks while nobody else does reads the order as it is.
LEMMA AskKeeps ==
    ASSUME BenefitInv, NEW p \in Operator, NEW kind \in {"freeze", "unfreeze", "extend"},
           Ask(p, kind),
           kind = "freeze" => order.status = "PAID" /\ order.end # None,
           kind = "unfreeze" => order.status = "FROZEN" /\ order.frozenAt # None
    PROVE  BenefitInv'
<1>1. /\ request' = [request EXCEPT ![p] = [kind |-> kind, read |-> order]]
      /\ clock' = clock /\ order' = order /\ adjustments' = adjustments
      /\ firstEnd' = firstEnd /\ frozenFor' = frozenFor /\ thaws' = thaws
      /\ disturbed' = disturbed \cup IfSo("met", \E q \in Operator : request[q].kind # "none")
  BY DEF Ask, Disturb
<1>2. Types
  BY DEF BenefitInv
<1>3. Types'
  <2>1. request' \in [Operator -> [kind : Kinds, read : Order]]
    BY <1>1, <1>2 DEF Types, Kinds
  <2>2. \A q \in Operator :
          /\ request'[q].kind = "freeze" => request'[q].read.end # None
          /\ request'[q].kind = "unfreeze" => request'[q].read.frozenAt # None
    BY <1>1, <1>2 DEF Types
  <2> QED BY <1>1, <1>2, <2>1, <2>2 DEF Types
<1>4. ASSUME disturbed' = {}
      PROVE  Undisturbed' /\ Chain' /\ Repaid'
  <2>1. disturbed = {} /\ \A q \in Operator : request[q].kind = "none"
    BY <1>1, <1>4 DEF IfSo
  <2>2. Undisturbed /\ Chain /\ Repaid
    BY <2>1 DEF BenefitInv
  <2>3. /\ request'[p] = [kind |-> kind, read |-> order]
        /\ \A q \in Operator : q # p => request'[q].kind = "none"
    BY <1>1, <1>2, <2>1 DEF Types
  <2>4. Undisturbed'
    BY <1>1, <2>2, <2>3 DEF Undisturbed
  <2>5. Chain' /\ Repaid'
    BY <1>1, <2>2 DEF Chain, StartsFrom, EndAfter, Repaid, FrozenBefore
  <2> QED BY <2>4, <2>5
<1> QED BY <1>3, <1>4 DEF BenefitInv

LEMMA FreezeKeeps ==
    ASSUME BenefitInv, NEW p \in Operator, Freeze(p)
    PROVE  BenefitInv'
<1> DEFINE written == [order EXCEPT !.status = "FROZEN", !.frozenAt = clock]
           row == Row("FREEZE", request[p].read, 0)
<1>1. Types /\ request[p].kind = "freeze" /\ Adjust(p, written, row)
  BY DEF BenefitInv, Freeze
<1>2. written \in Order /\ written.end = order.end /\ written.frozenDays = order.frozenDays
      /\ written.status = "FROZEN" /\ written.frozenAt = clock
  <2>1. order \in [status : OrderStatus, end : Nat \cup {None},
                   frozenAt : Nat \cup {None}, frozenDays : Nat]
        /\ clock \in Nat /\ "FROZEN" \in OrderStatus
    BY <1>1 DEF Types, Order, OrderStatus
  <2> QED BY <2>1 DEF Order
<1>3. request[p].read \in Order
  BY <1>1 DEF Types
<1>4. /\ row \in Adjustment /\ StartsFrom(row, request[p].read.end)
      /\ row.after = CurrentEnd(request[p].read) + 0 * PerDay /\ row.type = "FREEZE"
  BY <1>1, <1>3, Rows
<1>5. /\ order' = written /\ clock' = clock /\ frozenFor' = frozenFor
      /\ thaws' = thaws /\ disturbed' = disturbed
  BY <1>1, <1>4 DEF Adjust
<1>6. Types'
  <2> HIDE DEF written, row
  <2> QED BY <1>1, <1>2, <1>4, AdjustTypes
<1>7. ASSUME disturbed' = {}
      PROVE  Undisturbed' /\ Chain' /\ Repaid'
  <2>1. disturbed = {} /\ Undisturbed /\ Chain /\ Repaid
    BY <1>5, <1>7 DEF BenefitInv
  <2>2. request[p].read = order /\ order.status = "PAID" /\ order.end # None
    BY <1>1, <2>1 DEF Undisturbed, Types
  <2>3. StartsFrom(row, order.end) /\ row.after = written.end
    <3>1. order.end \in Nat /\ 0 * PerDay = 0 /\ CurrentEnd(order) = order.end
      BY <1>1, <2>2, BenefitAssumption DEF Types, Order, CurrentEnd
    <3> HIDE DEF row, written
    <3> QED BY <1>2, <1>4, <2>2, <3>1
  <2>4. /\ \A q \in Operator : request'[q].kind = "none"
        /\ \A i \in DOMAIN adjustments' : StartsFrom(adjustments[i], EndAfter(i - 1))'
        /\ written.end = EndAfter(Len(adjustments))'
    <3> HIDE DEF row, written
    <3> QED BY <1>1, <1>2, <1>4, <2>1, <2>3, AdjustChain
  <2>5. clock \in Nat /\ clock \in 0 .. clock
    BY <1>1 DEF Types
  <2>6. Undisturbed'
    <3> HIDE DEF row, written
    <3> QED BY <1>2, <1>5, <2>4, <2>5 DEF Undisturbed
  <2>7. Chain'
    <3> HIDE DEF row, written
    <3> QED BY <1>2, <1>5, <2>1, <2>4 DEF Chain
  <2>8. FrozenBefore' = FrozenBefore
    <3>1. frozenFor - (clock - clock) = frozenFor - 0
      BY <2>5, <1>1 DEF Types
    <3> HIDE DEF row, written
    <3> QED BY <1>2, <1>5, <2>2, <3>1 DEF FrozenBefore
  <2>9. Repaid'
    <3> HIDE DEF row, written
    <3> QED BY <1>2, <1>5, <2>1, <2>8 DEF Repaid
  <2> QED BY <2>6, <2>7, <2>9
<1> HIDE DEF row, written
<1> QED BY <1>6, <1>7 DEF BenefitInv

LEMMA ExtendKeeps ==
    ASSUME BenefitInv, NEW p \in Operator, Extend(p)
    PROVE  BenefitInv'
<1> DEFINE row == Row("EXTENSION", request[p].read, 1)
           written == [order EXCEPT !.end = row.after]
<1>1. Types /\ request[p].kind = "extend" /\ Adjust(p, written, row)
  BY DEF BenefitInv, Extend
<1>2. request[p].read \in Order
  BY <1>1 DEF Types
<1>3. /\ row \in Adjustment /\ StartsFrom(row, request[p].read.end)
      /\ row.type = "EXTENSION"
  BY <1>1, <1>2, Rows
<1>4. row.after \in Nat
  BY <1>3 DEF Adjustment
<1>5. /\ written \in Order /\ written.end = row.after /\ written.frozenDays = order.frozenDays
      /\ written.status = order.status /\ written.frozenAt = order.frozenAt
  <2> HIDE DEF row
  <2> QED BY <1>1, <1>4 DEF Types, Order
<1>6. /\ order' = written /\ clock' = clock /\ frozenFor' = frozenFor
      /\ thaws' = thaws /\ disturbed' = disturbed
  <2> HIDE DEF row, written
  <2> QED BY <1>1, <1>3 DEF Adjust
<1> HIDE DEF row, written
<1>7. Types'
  BY <1>1, <1>3, <1>5, AdjustTypes
<1>8. ASSUME disturbed' = {}
      PROVE  Undisturbed' /\ Chain' /\ Repaid'
  <2>1. disturbed = {} /\ Undisturbed /\ Chain /\ Repaid
    BY <1>6, <1>8 DEF BenefitInv
  <2>2. request[p].read = order
    BY <1>1, <2>1 DEF Undisturbed
  <2>3. /\ \A q \in Operator : request'[q].kind = "none"
        /\ \A i \in DOMAIN adjustments' : StartsFrom(adjustments[i], EndAfter(i - 1))'
        /\ written.end = EndAfter(Len(adjustments))'
    BY <1>1, <1>3, <1>5, <2>1, <2>2, AdjustChain
  <2>4. Undisturbed'
    BY <1>5, <1>6, <2>1, <2>3 DEF Undisturbed
  <2>5. Chain'
    BY <1>5, <1>6, <2>1, <2>3 DEF Chain
  <2>6. Repaid'
    BY <1>5, <1>6, <2>1 DEF Repaid, FrozenBefore
  <2> QED BY <2>4, <2>5, <2>6
<1> QED BY <1>7, <1>8 DEF BenefitInv

\* The days given for one freezing, added to those of the ones before.
LEMMA Repays ==
    ASSUME NEW before \in Int, NEW t \in Nat, NEW had \in Nat, NEW given \in Nat,
           NEW times \in Nat,
           had * PerDay >= before, had * PerDay <= before + times * PerDay,
           given * PerDay >= t, given * PerDay <= t + PerDay
    PROVE  /\ (had + given) * PerDay >= before + t
           /\ (had + given) * PerDay <= before + t + (times + 1) * PerDay
<1>1. PerDay \in Nat
  BY BenefitAssumption
<1>2. (had + given) * PerDay = had * PerDay + given * PerDay
      /\ had * PerDay \in Nat /\ given * PerDay \in Nat
  BY <1>1, Distributes
<1>3. (times + 1) * PerDay = times * PerDay + PerDay /\ times * PerDay \in Nat
  <2>1. (times + 1) * PerDay = times * PerDay + 1 * PerDay /\ times * PerDay \in Nat
    BY <1>1, Distributes
  <2> QED BY <1>1, <2>1
<1> DEFINE h == had * PerDay
           g == given * PerDay
           w == times * PerDay
<1>4. h \in Nat /\ g \in Nat /\ w \in Nat
  BY <1>2, <1>3
<1>5. /\ h + g >= before + t
      /\ h + g <= before + t + (w + PerDay)
  <2>1. h >= before /\ h <= before + w /\ g >= t /\ g <= t + PerDay
    OBVIOUS
  <2> HIDE DEF h, g, w
  <2> QED BY <1>1, <1>4, <2>1
<1> QED BY <1>2, <1>3, <1>5

LEMMA UnfreezeKeeps ==
    ASSUME BenefitInv, NEW p \in Operator, Unfreeze(p)
    PROVE  BenefitInv'
<1>1. PICK o : o = request[p].read
  OBVIOUS
<1>2. PICK days : days = FrozenDays(o)
  OBVIOUS
<1>3. PICK row : row = Row("UNFREEZE", o, days)
  OBVIOUS
<1>4. PICK written :
        written = [status |-> "PAID", frozenAt |-> None, end |-> row.after,
                   frozenDays |-> o.frozenDays + row.days]
  OBVIOUS
<1>5. Types /\ request[p].kind = "unfreeze" /\ Adjust(p, written, row)
  BY <1>1, <1>2, <1>3, <1>4 DEF BenefitInv, Unfreeze
<1>6. o \in Order /\ days \in Nat
  BY <1>1, <1>2, <1>5, Thaw
<1>7. /\ row \in Adjustment /\ StartsFrom(row, o.end)
      /\ row.days = days /\ row.type = "UNFREEZE"
  BY <1>3, <1>5, <1>6, Rows
<1>8. row.after \in Nat /\ o.frozenDays \in Nat /\ o.frozenDays + days \in Nat
  BY <1>6, <1>7 DEF Adjustment, Order
<1>9. /\ written \in Order /\ written.end = row.after /\ written.status = "PAID"
      /\ written.frozenDays = o.frozenDays + days
  BY <1>4, <1>7, <1>8 DEF Order, OrderStatus
<1>10. /\ order' = written /\ clock' = clock /\ frozenFor' = frozenFor
       /\ thaws' = [times |-> thaws.times + 1, days |-> thaws.days + days]
       /\ disturbed' = disturbed
  BY <1>5, <1>7 DEF Adjust
<1>11. Types'
  BY <1>5, <1>7, <1>9, AdjustTypes
<1>12. ASSUME disturbed' = {}
       PROVE  Undisturbed' /\ Chain' /\ Repaid'
  <2>1. disturbed = {} /\ Undisturbed /\ Chain /\ Repaid
    BY <1>10, <1>12 DEF BenefitInv
  <2>2. o = order /\ order.status = "FROZEN" /\ order.frozenAt \in 0 .. clock
    BY <1>1, <1>5, <2>1 DEF Undisturbed
  <2>3. /\ \A q \in Operator : request'[q].kind = "none"
        /\ \A i \in DOMAIN adjustments' : StartsFrom(adjustments[i], EndAfter(i - 1))'
        /\ written.end = EndAfter(Len(adjustments))'
    BY <1>5, <1>7, <1>9, <2>1, <2>2, AdjustChain
  <2>4. Undisturbed'
    BY <1>9, <1>10, <2>3 DEF Undisturbed
  <2>5. Chain'
    BY <1>9, <1>10, <2>1, <2>2, <2>3 DEF Chain
  <2>6. PICK t : t = clock - order.frozenAt
    OBVIOUS
  <2>7. clock \in Nat /\ t \in Nat /\ frozenFor \in Nat /\ thaws.times \in Nat
    BY <1>5, <2>2, <2>6 DEF Types
  <2>8. days * PerDay >= t /\ days * PerDay <= t + PerDay
    BY <1>2, <2>2, <2>6, <2>7, RoundedUp DEF FrozenDays
  <2>9. PICK before : before = frozenFor - t
    OBVIOUS
  <2>10. before \in Int /\ before + t = frozenFor
    BY <2>7, <2>9
  <2>11. FrozenBefore = before
    BY <2>2, <2>6, <2>9 DEF FrozenBefore
  <2>12. FrozenBefore' = frozenFor
    BY <1>9, <1>10, <2>7 DEF FrozenBefore
  <2>13. /\ o.frozenDays * PerDay >= before
         /\ o.frozenDays * PerDay <= before + thaws.times * PerDay
    BY <2>1, <2>2, <2>11 DEF Repaid
  <2>14. /\ (o.frozenDays + days) * PerDay >= frozenFor
         /\ (o.frozenDays + days) * PerDay <= frozenFor + (thaws.times + 1) * PerDay
    BY <1>6, <1>8, <2>7, <2>8, <2>10, <2>13, Repays
  <2>15. Repaid'
    BY <1>9, <1>10, <2>12, <2>14 DEF Repaid
  <2> QED BY <2>4, <2>5, <2>15
<1> QED BY <1>11, <1>12 DEF BenefitInv

LEMMA EditKeeps ==
    ASSUME BenefitInv, Edit
    PROVE  BenefitInv'
<1>1. PICK status \in OrderStatus, end \in {order.end, 2 * PerDay} :
        order' = [order EXCEPT !.status = status, !.end = end]
  BY DEF Edit
<1>2. order' \in Order
  BY <1>1, FirstOrders DEF BenefitInv, Types, Order
<1>3. Types'
  BY <1>2 DEF Edit, BenefitInv, Types
<1>4. disturbed' # {}
  BY DEF Edit, Disturb
<1> QED BY <1>3, <1>4 DEF BenefitInv

LEMMA TickKeeps ==
    ASSUME BenefitInv, BenefitTick
    PROVE  BenefitInv'
<1>1. /\ clock < Horizon /\ clock' = clock + 1
      /\ \A p \in Operator : request[p].kind = "none"
      /\ frozenFor' = frozenFor + (IF order.status = "FROZEN" THEN 1 ELSE 0)
      /\ order' = order /\ adjustments' = adjustments /\ request' = request
      /\ firstEnd' = firstEnd /\ thaws' = thaws /\ disturbed' = disturbed
  BY DEF BenefitTick
<1>2. Types
  BY DEF BenefitInv
<1>3. clock' \in 0 .. Horizon /\ frozenFor' \in Nat
  BY <1>1, <1>2, BenefitAssumption DEF Types
<1>4. Types'
  BY <1>1, <1>2, <1>3 DEF Types
<1>5. ASSUME disturbed' = {}
      PROVE  Undisturbed' /\ Chain' /\ Repaid'
  <2>1. Undisturbed /\ Chain /\ Repaid
    BY <1>1, <1>5 DEF BenefitInv
  <2>2. clock \in Nat /\ frozenFor \in Nat
    BY <1>2 DEF Types
  <2>3. order.status = "FROZEN" => order.frozenAt \in 0 .. clock + 1
    BY <2>1, <2>2 DEF Undisturbed
  <2>4. Undisturbed'
    BY <1>1, <2>1, <2>3 DEF Undisturbed
  <2>5. Chain'
    <3>1. ASSUME NEW i \in DOMAIN adjustments
          PROVE  StartsFrom(adjustments[i], EndAfter(i - 1))'
      <4>1. StartsFrom(adjustments[i], EndAfter(i - 1))
        BY <2>1 DEF Chain
      <4>2. EndAfter(i - 1)' = EndAfter(i - 1)
        BY <1>1 DEF EndAfter
      <4>3. \A n \in 0 .. clock : n \in 0 .. clock + 1
        BY <2>2
      <4> QED BY <1>1, <4>1, <4>2, <4>3 DEF StartsFrom
    <3> QED BY <1>1, <2>1, <3>1 DEF Chain, EndAfter
  <2>6. FrozenBefore' = FrozenBefore
    <3>1. CASE order.status = "FROZEN"
      <4>1. order.frozenAt \in Nat
        BY <2>1, <2>2, <3>1 DEF Undisturbed
      <4>3. order' = order /\ order.status = "FROZEN" /\ clock' = clock + 1
            /\ frozenFor' = frozenFor + 1
            /\ order'.status = "FROZEN" /\ order'.frozenAt = order.frozenAt
        BY <1>1, <3>1
      <4>2. frozenFor + 1 - (clock + 1 - order.frozenAt) = frozenFor - (clock - order.frozenAt)
        BY <2>2, <4>1
      <4>4. FrozenBefore = frozenFor - (clock - order.frozenAt)
        BY <4>3 DEF FrozenBefore
      <4>5. FrozenBefore' = frozenFor + 1 - (clock + 1 - order.frozenAt)
        BY <2>2, <4>1, <4>3 DEF FrozenBefore
      <4> QED BY <4>2, <4>4, <4>5
    <3>2. CASE order.status # "FROZEN"
      BY <1>1, <2>2, <3>2 DEF FrozenBefore
    <3> QED BY <3>1, <3>2
  <2>7. Repaid'
    BY <1>1, <2>1, <2>6 DEF Repaid
  <2> QED BY <2>4, <2>5, <2>7
<1> QED BY <1>4, <1>5 DEF BenefitInv

LEMMA NextKeeps == BenefitInv /\ [BenefitNext]_benefitVars => BenefitInv'
<1> SUFFICES ASSUME BenefitInv, [BenefitNext]_benefitVars
             PROVE  BenefitInv'
  OBVIOUS
<1>1. ASSUME NEW p \in Operator, AskFreeze(p) PROVE BenefitInv'
  BY <1>1, AskKeeps DEF AskFreeze
<1>2. ASSUME NEW p \in Operator, AskUnfreeze(p) PROVE BenefitInv'
  BY <1>2, AskKeeps DEF AskUnfreeze
<1>3. ASSUME NEW p \in Operator, AskExtend(p) PROVE BenefitInv'
  BY <1>3, AskKeeps DEF AskExtend
<1>4. ASSUME NEW p \in Operator, Freeze(p) PROVE BenefitInv'
  BY <1>4, FreezeKeeps
<1>5. ASSUME NEW p \in Operator, Unfreeze(p) PROVE BenefitInv'
  BY <1>5, UnfreezeKeeps
<1>6. ASSUME NEW p \in Operator, Extend(p) PROVE BenefitInv'
  BY <1>6, ExtendKeeps
<1>7. CASE Edit
  BY <1>7, EditKeeps
<1>8. CASE BenefitTick
  BY <1>8, TickKeeps
<1>9. CASE UNCHANGED benefitVars
  BY <1>9 DEF benefitVars, BenefitInv, Types, Undisturbed, Chain, StartsFrom,
              EndAfter, Repaid, FrozenBefore
<1> QED BY <1>1, <1>2, <1>3, <1>4, <1>5, <1>6, <1>7, <1>8, <1>9 DEF BenefitNext

-----------------------------------------------------------------------------
(* Theorems *)

\* The strengthened invariant holds in every reachable state.
THEOREM BenefitInvHolds == BenefitSpec => []BenefitInv
<1> QED BY InitInv, NextKeeps, PTL DEF BenefitSpec

LEMMA BenefitTyped == BenefitInv => BenefitTypeOK
BY DEF BenefitInv, Types, BenefitTypeOK, Kinds

\* The order, its adjustments and the requests keep their types, and nobody
\* unfreezes an order whose frozenAt was read as null.
THEOREM BenefitTypesHold == BenefitSpec => []BenefitTypeOK
BY BenefitTyped, BenefitInvHolds, PTL

\* The adjustments of an order account for its benefit end and its frozen
\* days while no two requests met and nobody edited it, however many are
\* made (OrderService.freeze, unfreeze and extend).
THEOREM BenefitAccountedHolds == BenefitSpec => []BenefitAccounted
<1>1. BenefitInv => BenefitAccounted
  BY DEF BenefitInv, Chain, BenefitAccounted
<1> QED BY <1>1, BenefitInvHolds, PTL

\* An order that is not frozen has been given back all the time it was, and
\* less than a day more for each unfreezing, whatever the length of a day
\* (OrderService.unfreeze).
THEOREM FrozenTimeGivenHolds == BenefitSpec => []FrozenTimeGiven
<1>1. BenefitInv => FrozenTimeGiven
  <2> SUFFICES ASSUME BenefitInv, disturbed = {}, order.status = "PAID"
               PROVE  /\ order.frozenDays * PerDay >= frozenFor
                      /\ order.frozenDays * PerDay <= frozenFor + thaws.times * PerDay
    BY DEF FrozenTimeGiven
  <2>1. Repaid /\ frozenFor \in Nat
    BY DEF BenefitInv, Types
  <2>2. FrozenBefore = frozenFor
    BY <2>1 DEF FrozenBefore
  <2> QED BY <2>1, <2>2 DEF Repaid
<1> QED BY <1>1, BenefitInvHolds, PTL

-----------------------------------------------------------------------------
(* What the operators give *)

LEMMA Ages ==
    /\ StripeStatus = {"open", "processing", "canceled", "paid",
                       "none", "pending", "succeeded", "failed"}
    /\ Age["open"] = 0 /\ Age["processing"] = 1 /\ Age["canceled"] = 2 /\ Age["paid"] = 2
    /\ Age["none"] = 0 /\ Age["pending"] = 1 /\ Age["succeeded"] = 2 /\ Age["failed"] = 3
    /\ \A s \in StripeStatus : Age[s] \in 0 .. 3
BY DEF StripeStatus, Age

LEMMA AgeNat == \A s \in StripeStatus : Age[s] \in Nat
BY Ages

LEMMA NewestOrderIs ==
    ASSUME orders \in Seq(OrderRow), NEW keys
    PROVE  /\ NewestOrder(keys) \in 0 .. Len(orders)
           /\ NewestOrder(keys) = 0 => \A i \in DOMAIN orders : orders[i].key \notin keys
           /\ NewestOrder(keys) # 0 => orders[NewestOrder(keys)].key \in keys
<1> DEFINE matching == {i \in DOMAIN orders : orders[i].key \in keys}
<1>1. DOMAIN orders = 1 .. Len(orders) /\ Len(orders) \in Nat
  OBVIOUS
<1>2. CASE matching = {}
  BY <1>1, <1>2 DEF NewestOrder
<1>3. CASE matching # {}
  <2> DEFINE Left == {Len(orders) - i : i \in matching}
  <2>1. Left \subseteq Nat /\ Left # {}
    BY <1>1, <1>3
  <2>2. PICK R : R = OpToRel(<, Nat)
    OBVIOUS
  <2>3. IsWellFoundedOn(R, Nat)
    BY <2>2, NatLessThanWellFounded
  <2>4. PICK x \in Left : \A y \in Left : <<y, x>> \notin R
    BY <2>1, <2>3, WFMin
  <2>5. \A y \in Nat : y < x => <<y, x>> \in R
    BY <2>1, <2>2 DEF OpToRel
  <2>6. PICK last \in matching : x = Len(orders) - last
    BY <2>4
  <2>7. ASSUME NEW j \in matching PROVE j <= last
    <3>1. Len(orders) - j \in Left
      OBVIOUS
    <3>2. ~(Len(orders) - j < x)
      BY <3>1, <2>1, <2>4, <2>5
    <3> QED BY <3>2, <2>6, <1>1
  <2>8. LastOf(matching) \in matching
    BY <2>7 DEF LastOf
  <2>9. NewestOrder(keys) = LastOf(matching)
    BY <1>3 DEF NewestOrder
  <2> QED BY <2>8, <2>9, <1>1
<1> QED BY <1>2, <1>3

\* What has just been recorded stays in the record.
LEMMA Happens ==
    ASSUME NEW kinds, Happen(kinds)
    PROVE  kinds \subseteq SyncMishap /\ syncMishaps' = syncMishaps \cup kinds
BY DEF Happen, Recordable

-----------------------------------------------------------------------------
(* The invariant *)

Working == {"retrieving", "finding", "storing", "linking", "upserting"}
Active(h) == sync[h].pc \in Working

SyncRecord ==
    [pc : Working \cup {"idle", "picking"}, of : Object, status : StripeStatus,
     type : Key \cup {"refund"}, found : Nat, rest : SUBSET (StripeRefund \X StripeStatus),
     event : Event \cup {NoEvent}]

\* A state the object has, or had before.
Seen(o, s) == s = stripe[o] \/ Age[s] < Age[stripe[o]]

SyncShapes ==
    /\ stripe \in [Object -> StripeStatus] /\ latest \in [Object -> StripeStatus]
    /\ stripe["payment"] \in {"open", "processing", "canceled", "paid"}
    /\ events \subseteq Event /\ answered \subseteq events
    /\ orders \in Seq(OrderRow)
    /\ refundRows \in [StripeRefund -> [status : {"none", "PENDING", "SETTLED"}, order : Nat]]
    /\ \A r \in StripeRefund : refundRows[r].order <= Len(orders)
    /\ sync \in [Syncer -> SyncRecord]
    /\ syncMishaps \subseteq SyncMishap

PaidEvent == [type |-> "intent", of |-> "payment", status |-> "paid"]
RefundEvent(r, status) == [type |-> "refund", of |-> r, status |-> status]

\* What Stripe has sent was so when it was sent, and what it became last
\* has been sent.
Sent ==
    /\ \A e \in events :
         /\ Seen(e.of, e.status)
         /\ e.type = "refund" <=> e.of \in StripeRefund
         /\ e.type = "refund" => e.status # "none"
         /\ e.type # "refund" => e.status \in {"processing", "paid"}
         /\ e.type = "charge" => e.status = "paid"
         /\ e.type = "intent" => e.status = "paid"
    /\ stripe["payment"] = "paid" => PaidEvent \in events
    /\ \A r \in StripeRefund : stripe[r] # "none" => RefundEvent(r, stripe[r]) \in events
    /\ \A o \in Object : Seen(o, latest[o])

\* A sync knows something that was so of an object of its kind.
Sound(s) ==
    /\ s.found <= Len(orders)
    /\ s.pc \notin Working => s.type = "intent" /\ s.found = 0
    /\ s.pc = "retrieving" => s.type = "charge"
    /\ s.pc \in {"retrieving", "finding", "storing"} => s.of = "payment" /\ s.type \in Key
    /\ s.pc \in {"linking", "upserting"} => s.of \in StripeRefund /\ s.status # "none"
    /\ s.pc \in Working => Seen(s.of, s.status) /\ Age[s.status] <= Age[latest[s.of]]
    /\ s.type = "charge" => s.status = "paid"
    /\ s.event # NoEvent =>
         /\ s.pc \in Working /\ s.event \in events /\ s.event.of = s.of
         /\ s.event.type \in {"intent", "refund"} => s.status = s.event.status /\ s.type = s.event.type
    /\ \A listed \in s.rest : listed[2] # "none" /\ Seen(listed[1], listed[2])
Syncing == \A h \in Syncer : Sound(sync[h])

Alone ==
    "met" \notin syncMishaps =>
        \A g, h \in Syncer : Active(g) /\ Active(h) /\ sync[g].of = sync[h].of => g = h

Confirmed ==
    "unconfirmed" \notin syncMishaps =>
        \A h \in Syncer : Active(h) /\ sync[h].type = "session" => sync[h].status # "open"

NoCharge ==
    "fallback" \notin syncMishaps =>
        /\ \A i \in DOMAIN orders : orders[i].key # "charge"
        /\ \A h \in Syncer : sync[h].pc \in {"finding", "storing"} => sync[h].type # "charge"

\* A row under a charge is of a paid one.
Charges == \A i \in DOMAIN orders : orders[i].key = "charge" => orders[i].status = "PAID"

\* What a sync looked up is still so.
Found(s) ==
    IF s.found = 0 THEN \A i \in DOMAIN orders : orders[i].key # KeyOf(s)
    ELSE orders[s.found].key = KeyOf(s)
Keyed ==
    "met" \notin syncMishaps /\ "unconfirmed" \notin syncMishaps =>
        /\ \A i, j \in DOMAIN orders : orders[i].key = orders[j].key => i = j
        /\ \A i \in DOMAIN orders : orders[i].key # "session"
        /\ \A h \in Syncer : sync[h].pc = "storing" => Found(sync[h])

InOrder ==
    "met" \notin syncMishaps /\ "reordered" \notin syncMishaps =>
        \A h \in Syncer : Active(h) => Age[sync[h].status] >= Age[latest[sync[h].of]]

\* What has been answered is stored.
Stored ==
    "met" \notin syncMishaps /\ "reordered" \notin syncMishaps /\ "unconfirmed" \notin syncMishaps =>
        /\ PaidEvent \in answered =>
             /\ latest["payment"] = "paid"
             /\ \E i \in DOMAIN orders : orders[i].key = "intent"
             /\ \A i \in DOMAIN orders : orders[i].key = "intent" => orders[i].status = "PAID"
        /\ \A r \in StripeRefund : RefundEvent(r, stripe[r]) \in answered =>
             latest[r] = stripe[r] /\ refundRows[r].status = RefundStatusOf(stripe[r])

Linked ==
    "early" \notin syncMishaps =>
        /\ \A r \in StripeRefund : refundRows[r].status # "none" => refundRows[r].order # 0
        /\ \A h \in Syncer : sync[h].pc = "upserting" => sync[h].found # 0

Steady == Sent /\ Syncing /\ Alone /\ Confirmed /\ InOrder
SyncInv == SyncShapes /\ Steady /\ NoCharge /\ Charges /\ Keyed /\ Stored /\ Linked

-----------------------------------------------------------------------------
LEMMA Payment ==
    "payment" \in Object /\ StripeRefund \subseteq Object /\ "payment" \notin StripeRefund
BY SyncAssumption DEF Object

LEMMA NoSyncIs ==
    /\ NoSync \in SyncRecord
    /\ NoSync.pc = "idle" /\ NoSync.of = "payment" /\ NoSync.type = "intent" /\ NoSync.status = "open"
    /\ NoSync.found = 0 /\ NoSync.rest = {} /\ NoSync.event = NoEvent
BY Payment, Ages DEF NoSync, SyncRecord, Key, Working

LEMMA SyncStarts == SyncInit => SyncInv
<1> SUFFICES ASSUME SyncInit PROVE SyncInv
  OBVIOUS
<1>1. SyncShapes
  <2>1. orders = <<>> /\ orders \in Seq(OrderRow) /\ Len(orders) = 0
    BY DEF SyncInit
  <2>2. refundRows = [r \in StripeRefund |-> [status |-> "none", order |-> 0]]
    BY DEF SyncInit, NoRefund
  <2>3. stripe \in [Object -> StripeStatus] /\ latest = stripe /\ stripe["payment"] = "open"
    BY Payment, Ages DEF SyncInit
  <2>4. sync \in [Syncer -> SyncRecord]
    BY NoSyncIs DEF SyncInit
  <2> QED BY <2>1, <2>2, <2>3, <2>4 DEF SyncInit, SyncShapes
<1>2. DOMAIN orders = {} /\ Len(orders) = 0
  BY DEF SyncInit
<1>3. \A h \in Syncer : sync[h] = NoSync
  BY DEF SyncInit
<1>4. Sent
  <2>1. \A o \in Object : latest[o] = stripe[o]
    BY DEF SyncInit
  <2>2. stripe["payment"] = "open" /\ \A r \in StripeRefund : stripe[r] = "none"
    BY Payment DEF SyncInit
  <2> QED BY <2>1, <2>2 DEF SyncInit, Sent, Seen
<1>5. Syncing
  BY <1>2, <1>3, NoSyncIs DEF Syncing, Sound, Working
<1>6. \A h \in Syncer : ~Active(h) /\ sync[h].pc = "idle"
  BY <1>3, NoSyncIs DEF Active, Working
<1>7. Alone /\ Confirmed /\ InOrder /\ NoCharge /\ Charges /\ Keyed
  BY <1>2, <1>6 DEF Alone, Confirmed, InOrder, NoCharge, Charges, Keyed
<1>8. Stored
  BY DEF SyncInit, Stored
<1>9. Linked
  <2>1. \A r \in StripeRefund : refundRows[r].status = "none"
    BY DEF SyncInit, NoRefund
  <2> QED BY <1>6, <2>1 DEF Linked
<1> QED BY <1>1, <1>4, <1>5, <1>7, <1>8, <1>9 DEF SyncInv, Steady

-----------------------------------------------------------------------------
(* Stripe *)

\* What has been seen of an object is still seen of it when it has grown
\* older.
LEMMA Grown ==
    ASSUME SyncShapes, NEW o \in Object, NEW status \in StripeStatus,
           Age[stripe[o]] < Age[status], stripe' = [stripe EXCEPT ![o] = status],
           NEW p \in Object, NEW s \in StripeStatus, Seen(p, s)
    PROVE  Seen(p, s)'
<1>1. Age[s] \in Nat /\ Age[stripe[o]] \in Nat /\ Age[status] \in Nat
  BY Ages DEF SyncShapes
<1>2. stripe'[o] = status /\ (p # o => stripe'[p] = stripe[p])
  BY DEF SyncShapes
<1>3. CASE p = o
  <2>1. Age[s] < Age[status]
    BY <1>1, <1>3 DEF Seen
  <2> QED BY <1>2, <1>3, <2>1 DEF Seen
<1>4. CASE p # o
  BY <1>2, <1>4 DEF Seen
<1> QED BY <1>3, <1>4

LEMMA ChangeKeeps ==
    ASSUME SyncInv, NEW o \in Object, NEW status \in StripeStatus, NEW types,
           Change(o, status, types), Age[stripe[o]] < Age[status],
           o = "payment" => /\ status \in {"processing", "canceled", "paid"}
                            /\ types \subseteq Key
                            /\ types # {} => status \in {"processing", "paid"}
                            /\ types \cap {"intent", "charge"} # {} => status = "paid"
                            /\ status = "paid" => "intent" \in types,
           o # "payment" => status # "none" /\ types = {"refund"}
    PROVE  SyncInv'
<1> USE Payment
<1>1. SyncShapes /\ Sent /\ Syncing /\ Stored
  BY DEF SyncInv, Steady
<1>2. /\ stripe' = [stripe EXCEPT ![o] = status]
      /\ events' = events \cup [type : types, of : {o}, status : {status}]
      /\ UNCHANGED <<answered, orders, refundRows, sync, latest, syncMishaps>>
  BY DEF Change, storedVars
<1>3. stripe'[o] = status /\ \A p \in Object : p # o => stripe'[p] = stripe[p]
  BY <1>1, <1>2 DEF SyncShapes
<1>4. \A p \in Object, s \in StripeStatus : Seen(p, s) => Seen(p, s)'
  BY <1>1, <1>2, Grown
<1>5. ASSUME NEW e \in events', e \notin events
      PROVE  e.type \in types /\ e.of = o /\ e.status = status /\ e \in Event
  <2>1. e \in [type : types, of : {o}, status : {status}]
    BY <1>2, <1>5
  <2> QED BY <2>1 DEF Event, Object
<1>6. SyncShapes'
  <2>1. events' \subseteq Event
    BY <1>1, <1>5 DEF SyncShapes
  <2>2. stripe'["payment"] \in {"open", "processing", "canceled", "paid"}
    BY <1>1, <1>3 DEF SyncShapes
  <2>3. stripe' \in [Object -> StripeStatus]
    BY <1>1, <1>2 DEF SyncShapes
  <2> QED BY <1>1, <1>2, <2>1, <2>2, <2>3 DEF SyncShapes
<1>7. Sent'
  <2>1. ASSUME NEW e \in events'
        PROVE  /\ Seen(e.of, e.status)'
               /\ e.type = "refund" <=> e.of \in StripeRefund
               /\ e.type = "refund" => e.status # "none"
               /\ e.type # "refund" => e.status \in {"processing", "paid"}
               /\ e.type = "charge" => e.status = "paid"
               /\ e.type = "intent" => e.status = "paid"
    <3>1. CASE e \in events
      <4>1. e.of \in Object /\ e.status \in StripeStatus
        BY <1>1, <3>1 DEF SyncShapes, Event
      <4> QED BY <1>1, <1>4, <3>1, <4>1 DEF Sent
    <3>2. CASE e \notin events
      <4>1. e.type \in types /\ e.of = o /\ e.status = status
        BY <1>5, <3>2
      <4>2. Seen(e.of, e.status)'
        BY <1>3, <4>1 DEF Seen
      <4> QED BY <4>1, <4>2 DEF Key, Object
    <3> QED BY <3>1, <3>2
  <2>2. stripe'["payment"] = "paid" => PaidEvent \in events'
    <3>1. CASE o = "payment"
      BY <1>2, <1>3, <3>1 DEF PaidEvent
    <3>2. CASE o # "payment"
      BY <1>1, <1>2, <1>3, <3>2 DEF Sent
    <3> QED BY <3>1, <3>2
  <2>3. ASSUME NEW r \in StripeRefund, stripe'[r] # "none"
        PROVE  RefundEvent(r, stripe'[r]) \in events'
    <3>1. CASE o = r
      BY <1>2, <1>3, <3>1 DEF RefundEvent
    <3>2. CASE o # r
      BY <1>1, <1>2, <1>3, <2>3, <3>2 DEF Sent
    <3> QED BY <3>1, <3>2
  <2>4. \A p \in Object : Seen(p, latest[p])'
    BY <1>1, <1>2, <1>4 DEF Sent, SyncShapes, Seen
  <2> QED BY <2>1, <2>2, <2>3, <2>4 DEF Sent
<1>8. Syncing'
  <2> SUFFICES ASSUME NEW h \in Syncer PROVE Sound(sync[h])'
    BY <1>2 DEF Syncing
  <2>1. sync[h] \in SyncRecord /\ Sound(sync[h])
    BY <1>1 DEF SyncShapes, Syncing
  <2>2. sync[h].of \in Object /\ sync[h].status \in StripeStatus
    BY <2>1 DEF SyncRecord
  <2>3. ASSUME NEW listed \in sync[h].rest
        PROVE  listed[2] # "none" /\ Seen(listed[1], listed[2])'
    <3>1. listed[1] \in Object /\ listed[2] \in StripeStatus
      BY <2>1 DEF SyncRecord
    <3> QED BY <2>1, <1>4, <3>1 DEF Sound
  <2>4. sync[h].pc \in Working => Seen(sync[h].of, sync[h].status)'
    BY <2>1, <2>2, <1>2, <1>4 DEF Sound, Seen
  <2> QED BY <2>1, <2>3, <2>4, <1>2 DEF Sound, Seen
<1>9. (Alone /\ Confirmed /\ NoCharge /\ Charges /\ Keyed /\ InOrder /\ Linked)'
  BY <1>2 DEF SyncInv, Steady, Alone, Confirmed, NoCharge, Charges, Keyed, Found, InOrder, Linked, Active
<1>10. Stored'
  <2>1. ASSUME NEW r \in StripeRefund, RefundEvent(r, stripe'[r]) \in answered
        PROVE  r # o
    <3> SUFFICES ASSUME r = o PROVE FALSE
      OBVIOUS
    <3>1. RefundEvent(r, status) \in events
      BY <1>1, <1>3, <2>1 DEF SyncShapes
    <3>2. Seen(r, status)
      BY <1>1, <3>1 DEF Sent, RefundEvent
    <3>3. Age[stripe[r]] \in Nat /\ Age[status] \in Nat
      BY <1>1, Ages DEF SyncShapes
    <3> QED BY <3>2, <3>3 DEF Seen
  <2> QED BY <1>1, <1>2, <1>3, <2>1 DEF Stored
<1> QED BY <1>6, <1>7, <1>8, <1>9, <1>10 DEF SyncInv, Steady

LEMMA StripeKeeps ==
    ASSUME SyncInv, Confirm \/ Pay \/ CancelPayment \/ \E r \in StripeRefund : MoveRefund(r)
    PROVE  SyncInv'
<1> USE Payment, Ages
<1>1. CASE Confirm
  BY <1>1, ChangeKeeps DEF Confirm, Key
<1>2. CASE Pay
  <2>1. CASE stripe["payment"] = "open" /\ Change("payment", "paid", {"session", "intent", "charge"})
    BY <2>1, ChangeKeeps DEF Key
  <2>2. CASE stripe["payment"] = "processing" /\ Change("payment", "paid", {"intent", "charge"})
    BY <2>2, ChangeKeeps DEF Key
  <2> QED BY <1>2, <2>1, <2>2 DEF Pay
<1>3. CASE CancelPayment
  BY <1>3, ChangeKeeps DEF CancelPayment, Key
<1>4. ASSUME NEW r \in StripeRefund, MoveRefund(r)
      PROVE  SyncInv'
  <2>1. PICK status \in {"pending", "succeeded", "failed"} :
          Age[status] > Age[stripe[r]] /\ Change(r, status, {"refund"})
    BY <1>4 DEF MoveRefund
  <2>2. stripe[r] \in StripeStatus
    BY DEF SyncInv, SyncShapes
  <2>3. Age[stripe[r]] < Age[status]
    BY <2>1, <2>2
  <2> QED BY <2>1, <2>3, ChangeKeeps
<1> QED BY <1>1, <1>2, <1>3, <1>4

-----------------------------------------------------------------------------
(* Syncs *)

\* A sync goes on to s, and what is known of the objects does not get older.
Learned(s) ==
    /\ latest' \in [Object -> StripeStatus]
    /\ \A o \in Object : Age[latest[o]] <= Age[latest'[o]] /\ Seen(o, latest'[o])
    /\ \A o \in Object : (s.pc \in Working /\ s.of = o) \/ latest'[o] = latest[o]

Steps(h, s) ==
    /\ s \in SyncRecord
    /\ sync' = [sync EXCEPT ![h] = s]
    /\ UNCHANGED <<stripe, events>>
    /\ syncMishaps \subseteq syncMishaps' /\ syncMishaps' \subseteq SyncMishap
    /\ Learned(s)
    /\ Sound(s)'
    /\ s.pc \in Working =>
         /\ "met" \notin syncMishaps' =>
              \A g \in Syncer : g # h => ~(Active(g) /\ sync[g].of = s.of)
         /\ "unconfirmed" \notin syncMishaps' /\ s.type = "session" => s.status # "open"
         /\ "met" \notin syncMishaps' /\ "reordered" \notin syncMishaps' =>
              Age[s.status] >= Age[latest'[s.of]]

LEMMA SteadyKeeps ==
    ASSUME SyncShapes, Steady, NEW h \in Syncer, NEW s, Steps(h, s),
           Len(orders) \in Nat, Len(orders') \in Nat, Len(orders) <= Len(orders')
    PROVE  Steady'
<1>1. sync'[h] = s /\ \A g \in Syncer : g # h => sync'[g] = sync[g]
  BY DEF SyncShapes, Steps
<1>2. \A g \in Syncer : sync[g] \in SyncRecord
  BY DEF SyncShapes
<1>3. \A p \in Object, x \in StripeStatus : Seen(p, x) <=> Seen(p, x)'
  BY DEF Steps, Seen
<1>4. Sent'
  BY <1>3 DEF Sent, Steady, Steps, Learned, Seen
<1>5. Syncing'
  <2> SUFFICES ASSUME NEW g \in Syncer, g # h PROVE Sound(sync[g])'
    BY <1>1 DEF Syncing, Steps, Sound
  <2>1. sync'[g] = sync[g] /\ sync[g] \in SyncRecord /\ Sound(sync[g])
    BY <1>1, <1>2 DEF Steady, Syncing
  <2>2. PICK t : t = sync[g]
    OBVIOUS
  <2>3. t \in SyncRecord /\ Sound(t)
    BY <2>1, <2>2
  <2>4. t.pc \in Working => Age[t.status] <= Age[latest'[t.of]]
    <3> SUFFICES ASSUME t.pc \in Working PROVE Age[t.status] <= Age[latest'[t.of]]
      OBVIOUS
    <3>1. t.of \in Object /\ t.status \in StripeStatus
      BY <2>3 DEF SyncRecord
    <3>2. Age[t.status] <= Age[latest[t.of]] /\ Age[latest[t.of]] <= Age[latest'[t.of]]
      BY <2>3, <3>1 DEF Sound, Steps, Learned
    <3>3. latest[t.of] \in StripeStatus /\ latest'[t.of] \in StripeStatus
      BY <3>1 DEF SyncShapes, Steps, Learned
    <3>4. Age[t.status] \in Nat /\ Age[latest[t.of]] \in Nat /\ Age[latest'[t.of]] \in Nat
      BY <3>1, <3>3, AgeNat
    <3> QED BY <3>2, <3>4
  <2>5. t.found <= Len(orders')
    <3>1. t.found \in Nat /\ t.found <= Len(orders)
      BY <2>3 DEF Sound, SyncRecord
    <3> QED BY <3>1
  <2>6. Sound(t)'
    BY <2>3, <2>4, <2>5 DEF Sound, Steps, Seen
  <2> QED BY <2>1, <2>2, <2>6 DEF Sound, Seen
<1>6. Alone'
  BY <1>1 DEF Alone, Active, Steady, Steps
<1>7. Confirmed'
  BY <1>1 DEF Confirmed, Active, Steady, Steps
<1>8. InOrder'
  <2> SUFFICES ASSUME "met" \notin syncMishaps', "reordered" \notin syncMishaps',
                      NEW g \in Syncer, Active(g)', g # h
               PROVE  Age[sync'[g].status] >= Age[latest'[sync'[g].of]]
    BY <1>1 DEF InOrder, Active, Steps
  <2>1. sync'[g] = sync[g] /\ sync[g].of \in Object /\ Active(g)
    BY <1>1, <1>2 DEF SyncRecord, Active
  <2>2. "met" \notin syncMishaps /\ "reordered" \notin syncMishaps
    BY DEF Steps
  <2>3. Age[sync[g].status] >= Age[latest[sync[g].of]]
    BY <2>1, <2>2 DEF Steady, InOrder
  <2>4. latest'[sync[g].of] = latest[sync[g].of]
    BY <2>1 DEF Steps, Learned
  <2> QED BY <2>1, <2>3, <2>4
<1> QED BY <1>4, <1>5, <1>6, <1>7, <1>8 DEF Steady

\* A sync that goes on and stores nothing.
LEMMA StepKeeps ==
    ASSUME SyncInv, NEW h \in Syncer, NEW s, Steps(h, s),
           UNCHANGED <<answered, orders, refundRows>>,
           s.pc = "storing" /\ "met" \notin syncMishaps' /\ "unconfirmed" \notin syncMishaps' => Found(s),
           s.pc \in {"finding", "storing"} /\ s.type = "charge" => "fallback" \in syncMishaps',
           s.pc = "upserting" /\ s.found = 0 => "early" \in syncMishaps'
    PROVE  SyncInv'
<1>1. SyncShapes /\ Steady
  BY DEF SyncInv
<1>2. Len(orders) \in Nat
  BY <1>1 DEF SyncShapes
<1>3. Steady'
  BY <1>1, <1>2, SteadyKeeps
<1>4. sync'[h] = s /\ \A g \in Syncer : g # h => sync'[g] = sync[g]
  BY <1>1 DEF SyncShapes, Steps
<1>5. SyncShapes'
  BY <1>1, <1>4 DEF SyncShapes, Steps, Learned
<1>6. NoCharge'
  BY <1>4 DEF SyncInv, NoCharge, Steps
<1>7. Charges'
  BY DEF SyncInv, Charges
<1>8. Keyed'
  BY <1>4 DEF SyncInv, Keyed, Found, Steps
<1>9. Linked'
  BY <1>4 DEF SyncInv, Linked, Steps
<1>10. Stored'
  <2>1. ASSUME NEW o \in Object, latest[o] = stripe[o] PROVE latest'[o] = stripe[o]
    <3>1. Age[latest[o]] <= Age[latest'[o]] /\ Seen(o, latest'[o])
      BY DEF Steps, Learned, Seen
    <3>2. Age[latest[o]] \in Nat /\ Age[latest'[o]] \in Nat
      BY <1>1, <1>5, AgeNat DEF SyncShapes
    <3> QED BY <3>1, <3>2, <2>1 DEF Seen
  <2>2. ASSUME latest["payment"] = "paid" PROVE latest'["payment"] = "paid"
    <3>1. Seen("payment", "paid") /\ stripe["payment"] \in {"open", "processing", "canceled", "paid"}
      BY <1>1, <2>2, Payment DEF Steady, Sent, SyncShapes
    <3>2. stripe["payment"] = "paid"
      BY <3>1, Ages DEF Seen
    <3> QED BY <2>1, <2>2, <3>2, Payment
  <2> QED BY <2>1, <2>2, Payment DEF SyncInv, Stored, Steps
<1> QED BY <1>3, <1>5, <1>6, <1>7, <1>8, <1>9, <1>10 DEF SyncInv

LEMMA BeginKeeps ==
    ASSUME SyncInv, NEW h \in Syncer, NEW s \in SyncRecord, NEW accidents, Begin(h, s, accidents),
           s.found = 0, s.pc \in {"retrieving", "finding", "linking"},
           s.pc = "retrieving" <=> s.type = "charge",
           s.pc \in {"retrieving", "finding"} => s.of = "payment" /\ s.type \in Key,
           s.pc = "linking" => s.of \in StripeRefund /\ s.status # "none",
           Seen(s.of, s.status),
           s.type = "charge" => s.status = "paid",
           s.type = "session" /\ s.status = "open" => "unconfirmed" \in accidents,
           s.event # NoEvent =>
             /\ s.event \in events /\ s.event.of = s.of
             /\ s.event.type \in {"intent", "refund"} => s.status = s.event.status /\ s.type = s.event.type,
           \A listed \in s.rest : listed[2] # "none" /\ Seen(listed[1], listed[2])
    PROVE  SyncInv'
<1>1. SyncShapes /\ Steady /\ s.of \in Object /\ s.status \in StripeStatus /\ s.pc \in Working
  BY DEF SyncInv, SyncRecord, Working
<1>2. /\ sync' = [sync EXCEPT ![h] = s]
      /\ latest' = [latest EXCEPT ![s.of] = IF Age[s.status] > Age[@] THEN s.status ELSE @]
      /\ UNCHANGED <<stripe, events, answered, orders, refundRows>>
  BY DEF Begin, Proceed, storedVars
<1>3. PICK kinds :
        kinds = accidents
          \cup IfSo("met", \E other \in Syncer \ ({h} \cup Idlers) :
                             sync[other].of = s.of /\ sync[other].pc # "picking")
          \cup IfSo("reordered", Age[s.status] < Age[latest[s.of]])
  OBVIOUS
<1>4. Happen(kinds)
  BY <1>3 DEF Begin
<1>5. /\ syncMishaps \subseteq syncMishaps' /\ syncMishaps' \subseteq SyncMishap
      /\ accidents \subseteq syncMishaps'
      /\ Age[s.status] < Age[latest[s.of]] => "reordered" \in syncMishaps'
      /\ (\E other \in Syncer \ ({h} \cup Idlers) :
            sync[other].of = s.of /\ sync[other].pc # "picking") => "met" \in syncMishaps'
  BY <1>1, <1>3, <1>4, Happens DEF IfSo, SyncShapes
<1>6. Age[s.status] \in Nat /\ Age[latest[s.of]] \in Nat /\ latest[s.of] \in StripeStatus
  BY <1>1, AgeNat DEF SyncShapes
<1>7. /\ latest'[s.of] = IF Age[s.status] > Age[latest[s.of]] THEN s.status ELSE latest[s.of]
      /\ \A o \in Object : o # s.of => latest'[o] = latest[o]
      /\ latest' \in [Object -> StripeStatus]
  BY <1>1, <1>2, <1>6 DEF SyncShapes
<1>8. Age[s.status] <= Age[latest'[s.of]] /\ Age[latest[s.of]] <= Age[latest'[s.of]]
  BY <1>6, <1>7
<1>9. Learned(s)
  <2>1. \A o \in Object : Seen(o, latest[o])
    BY <1>1 DEF Steady, Sent
  <2>2. \A o \in Object : latest[o] \in StripeStatus
    BY <1>1 DEF SyncShapes
  <2>3. \A o \in Object : Age[latest[o]] <= Age[latest[o]]
    BY <2>2, AgeNat
  <2> QED BY <2>1, <2>3, <1>1, <1>7, <1>8 DEF Learned, Seen
<1>10. Sound(s)'
  <2>1. Len(orders) \in Nat
    BY <1>1 DEF SyncShapes
  <2> QED BY <1>1, <1>2, <1>8, <2>1 DEF Sound, Seen
<1>11. ASSUME "met" \notin syncMishaps', NEW g \in Syncer, g # h, Active(g), sync[g].of = s.of
       PROVE  FALSE
  BY <1>5, <1>11 DEF Active, Working, Idlers, OfSync
<1>12. "reordered" \notin syncMishaps' => Age[s.status] >= Age[latest'[s.of]]
  BY <1>5, <1>6, <1>7
<1>13. Steps(h, s)
  BY <1>2, <1>5, <1>9, <1>10, <1>11, <1>12 DEF Steps
<1> QED BY <1>2, <1>13, StepKeeps

\* A sync that goes on with the object it has.
LEMMA GoesOn ==
    ASSUME SyncInv, NEW h \in Syncer, NEW s \in SyncRecord, Active(h), s.pc \in Working,
           sync' = [sync EXCEPT ![h] = s], UNCHANGED <<stripe, events, latest>>,
           syncMishaps \subseteq syncMishaps', syncMishaps' \subseteq SyncMishap,
           s.of = sync[h].of, s.status = sync[h].status,
           s.type = sync[h].type \/ s.type = "intent", Sound(s)'
    PROVE  Steps(h, s)
<1>1. SyncShapes /\ Steady
  BY DEF SyncInv
<1>2. Learned(s)
  <2>1. \A o \in Object : latest[o] \in StripeStatus
    BY <1>1 DEF SyncShapes
  <2>2. \A o \in Object : Age[latest[o]] <= Age[latest[o]]
    BY <2>1, AgeNat
  <2> QED BY <1>1, <2>2 DEF Learned, Steady, Sent, SyncShapes
<1>3. "met" \notin syncMishaps' => \A g \in Syncer : g # h => ~(Active(g) /\ sync[g].of = s.of)
  BY <1>1 DEF Steady, Alone
<1>4. "unconfirmed" \notin syncMishaps' /\ s.type = "session" => s.status # "open"
  BY <1>1 DEF Steady, Confirmed
<1>5. "met" \notin syncMishaps' /\ "reordered" \notin syncMishaps' =>
        Age[s.status] >= Age[latest'[s.of]]
  BY <1>1 DEF Steady, InOrder
<1> QED BY <1>2, <1>3, <1>4, <1>5 DEF Steps

\* A sync that ends, or goes back to its list.
LEMMA Stops ==
    ASSUME SyncShapes, Steady, NEW h \in Syncer, NEW s \in SyncRecord, s.pc \notin Working,
           sync' = [sync EXCEPT ![h] = s], UNCHANGED <<stripe, events, latest>>,
           syncMishaps \subseteq syncMishaps', syncMishaps' \subseteq SyncMishap,
           s.type = "intent", s.found = 0, s.event = NoEvent, Len(orders') \in Nat,
           \A listed \in s.rest : listed[2] # "none" /\ Seen(listed[1], listed[2])
    PROVE  Steps(h, s)
<1>1. Learned(s)
  <2>1. \A o \in Object : latest[o] \in StripeStatus
    BY DEF SyncShapes
  <2>2. \A o \in Object : Age[latest[o]] <= Age[latest[o]]
    BY <2>1, AgeNat
  <2> QED BY <2>2 DEF Learned, Steady, Sent, SyncShapes
<1>2. Sound(s)'
  BY DEF Sound, Seen, Working
<1> QED BY <1>1, <1>2 DEF Steps

LEMMA DeliverKeeps ==
    ASSUME SyncInv, NEW h \in Syncer, NEW e \in events, Deliver(h, e)
    PROVE  SyncInv'
<1>1. SyncShapes /\ Sent
  BY DEF SyncInv, Steady
<1>2. e \in Event /\ e.type \in Key \cup {"refund"} /\ e.of \in Object /\ e.status \in StripeStatus
  BY <1>1 DEF SyncShapes, Event
<1>3. /\ Seen(e.of, e.status) /\ (e.type = "refund" <=> e.of \in StripeRefund)
      /\ e.type = "refund" => e.status # "none"
      /\ e.type # "refund" => e.status \in {"processing", "paid"}
      /\ e.type = "charge" => e.status = "paid"
  BY <1>1 DEF Sent
<1>4. PICK s : s = [NoSync EXCEPT !.pc = FirstStep(e.type), !.of = e.of, !.status = e.status,
                                  !.type = e.type,
                                  !.event = IF e \in answered THEN NoEvent ELSE e]
  OBVIOUS
<1>5. FirstStep(e.type) = IF e.type = "charge" THEN "retrieving"
                          ELSE IF e.type = "refund" THEN "linking" ELSE "finding"
  BY DEF FirstStep
<1>6. /\ s \in SyncRecord /\ s.pc = FirstStep(e.type) /\ s.of = e.of /\ s.status = e.status
      /\ s.type = e.type /\ s.event \in {NoEvent, e} /\ s.found = 0 /\ s.rest = {}
  BY <1>2, <1>4, <1>5, NoSyncIs DEF SyncRecord, Working
<1>7. Begin(h, s, {})
  BY <1>4 DEF Deliver
<1>8. e.of \in StripeRefund \/ e.of = "payment"
  BY <1>2 DEF Object
<1> QED BY <1>2, <1>3, <1>5, <1>6, <1>7, <1>8, BeginKeeps DEF Key

LEMMA SyncOrderKeeps ==
    ASSUME SyncInv, NEW h \in Syncer, NEW type \in Key, SyncOrder(h, type)
    PROVE  SyncInv'
<1>1. SyncShapes
  BY DEF SyncInv
<1>2. stripe["payment"] \in StripeStatus
  BY <1>1, Payment DEF SyncShapes
<1>3. PICK s : s = [NoSync EXCEPT !.pc = FirstStep(type), !.status = stripe["payment"],
                                  !.type = type]
  OBVIOUS
<1>4. FirstStep(type) = IF type = "charge" THEN "retrieving" ELSE "finding"
  BY DEF FirstStep, Key
<1>5. /\ s \in SyncRecord /\ s.pc = FirstStep(type) /\ s.of = "payment"
      /\ s.status = stripe["payment"] /\ s.type = type /\ s.event = NoEvent
      /\ s.found = 0 /\ s.rest = {}
  BY <1>2, <1>3, <1>4, NoSyncIs DEF SyncRecord, Working
<1>6. PICK accidents : /\ accidents = IfSo("unconfirmed", type = "session" /\ stripe["payment"] = "open")
                       /\ Begin(h, s, accidents)
  BY <1>3 DEF SyncOrder
<1>7. type = "session" /\ stripe["payment"] = "open" => "unconfirmed" \in accidents
  BY <1>6 DEF IfSo
<1>8. Seen(s.of, s.status)
  BY <1>5 DEF Seen
<1>9. type = "charge" => stripe["payment"] = "paid"
  BY DEF SyncOrder
<1> QED BY <1>4, <1>5, <1>6, <1>7, <1>8, <1>9, BeginKeeps

LEMMA ListRefundsKeeps ==
    ASSUME SyncInv, NEW h \in Syncer, ListRefunds(h)
    PROVE  SyncInv'
<1>1. SyncShapes /\ Steady
  BY DEF SyncInv
<1>2. PICK listed \in SUBSET {r \in StripeRefund : stripe[r] # "none"} :
        Proceed(h, [NoSync EXCEPT !.pc = "picking", !.rest = {<<r, stripe[r]>> : r \in listed}])
  BY DEF ListRefunds
<1>3. PICK s : s = [NoSync EXCEPT !.pc = "picking", !.rest = {<<r, stripe[r]>> : r \in listed}]
  OBVIOUS
<1>4. \A x \in {<<r, stripe[r]>> : r \in listed} :
        x \in StripeRefund \X StripeStatus /\ x[2] # "none" /\ Seen(x[1], x[2])
  BY <1>1, Payment DEF Seen, SyncShapes
<1>5. /\ s \in SyncRecord /\ s.pc = "picking" /\ s.type = "intent" /\ s.found = 0
      /\ s.event = NoEvent /\ s.rest = {<<r, stripe[r]>> : r \in listed}
  BY <1>3, <1>4, NoSyncIs DEF SyncRecord
<1>6. /\ sync' = [sync EXCEPT ![h] = s]
      /\ UNCHANGED <<stripe, events, answered, orders, refundRows, latest, syncMishaps>>
  BY <1>2, <1>3 DEF ListRefunds, Proceed, storedVars
<1>7. syncMishaps \subseteq syncMishaps' /\ syncMishaps' \subseteq SyncMishap /\ Len(orders') \in Nat
  BY <1>1, <1>6 DEF SyncShapes
<1>8. s.pc \notin Working /\ \A x \in s.rest : x[2] # "none" /\ Seen(x[1], x[2])
  BY <1>4, <1>5 DEF Working
<1>9. Steps(h, s)
  BY <1>1, <1>5, <1>6, <1>7, <1>8, Stops
<1> QED BY <1>5, <1>6, <1>9, StepKeeps

LEMMA PickRefundKeeps ==
    ASSUME SyncInv, NEW h \in Syncer, PickRefund(h)
    PROVE  SyncInv'
<1>1. sync[h] \in SyncRecord /\ Sound(sync[h])
  BY DEF SyncInv, SyncShapes, Steady, Syncing
<1>2. sync[h].pc = "picking"
  BY DEF PickRefund, OfSync
<1>3. PICK listed \in sync[h].rest :
        Begin(h, [sync[h] EXCEPT !.pc = "linking", !.of = listed[1], !.status = listed[2],
                                 !.rest = @ \ {listed}], {})
  BY DEF PickRefund
<1>4. listed \in StripeRefund \X StripeStatus /\ listed[2] # "none" /\ Seen(listed[1], listed[2])
  BY <1>1 DEF Sound, SyncRecord
<1>5. PICK s : s = [sync[h] EXCEPT !.pc = "linking", !.of = listed[1], !.status = listed[2],
                                   !.rest = @ \ {listed}]
  OBVIOUS
<1>6. sync[h].found = 0 /\ sync[h].type = "intent" /\ sync[h].event = NoEvent
  BY <1>1, <1>2 DEF Sound, Working
<1>7. /\ s \in SyncRecord /\ s.pc = "linking" /\ s.of = listed[1] /\ s.status = listed[2]
      /\ s.type = "intent" /\ s.found = 0 /\ s.event = NoEvent /\ s.rest \subseteq sync[h].rest
  BY <1>1, <1>4, <1>5, <1>6, Payment DEF SyncRecord, Working
<1>8. \A x \in s.rest : x[2] # "none" /\ Seen(x[1], x[2])
  BY <1>1, <1>7 DEF Sound
<1> QED BY <1>3, <1>4, <1>5, <1>7, <1>8, BeginKeeps

-----------------------------------------------------------------------------
(* Orders *)

LEMMA RetrieveKeeps ==
    ASSUME SyncInv, NEW h \in Syncer, Retrieve(h)
    PROVE  SyncInv'
<1>1. SyncShapes /\ Steady /\ sync[h] \in SyncRecord /\ Sound(sync[h])
  BY DEF SyncInv, SyncShapes, Steady, Syncing
<1>2. sync[h].pc = "retrieving" /\ Active(h)
  BY DEF Retrieve, OfSync, Active, Working
<1>3. sync[h].type = "charge" /\ sync[h].of = "payment" /\ sync[h].status = "paid"
  BY <1>1, <1>2 DEF Sound
<1>4. stripe["payment"] = "paid"
  <2>1. Seen("payment", "paid")
    BY <1>1, <1>2, <1>3 DEF Sound, Working
  <2>2. stripe["payment"] \in {"open", "processing", "canceled", "paid"}
    BY <1>1 DEF SyncShapes
  <2> QED BY <2>1, <2>2, Ages DEF Seen
<1>5. UNCHANGED <<stripe, events, answered, orders, refundRows, latest>>
  BY DEF Retrieve, storedVars
<1>6. ASSUME NEW type \in {"intent", "charge"}, NEW s,
             s = [sync[h] EXCEPT !.pc = "finding", !.type = type],
             sync' = [sync EXCEPT ![h] = s],
             syncMishaps \subseteq syncMishaps', syncMishaps' \subseteq SyncMishap,
             type = "charge" => "fallback" \in syncMishaps'
      PROVE  SyncInv'
  <2>1. /\ s \in SyncRecord /\ s.pc = "finding" /\ s.of = "payment" /\ s.status = "paid"
        /\ s.event = sync[h].event /\ s.rest = sync[h].rest /\ s.found = sync[h].found
    BY <1>1, <1>3, <1>6 DEF SyncRecord, Key, Working
  <2>2. s.type = type
    BY <1>1, <1>6 DEF SyncRecord
  <2>3. s.event # NoEvent => s.event.type # "intent" /\ s.event.type # "refund"
    BY <1>1, <1>3, <2>1 DEF Sound
  <2>4. Sound(s)'
    BY <1>1, <1>2, <1>3, <1>5, <1>6, <2>1, <2>2, <2>3 DEF Sound, Seen, Working, Key
  <2>5. Steps(h, s)
    BY <1>1, <1>2, <1>3, <1>5, <1>6, <2>1, <2>2, <2>4, GoesOn DEF Working
  <2> QED BY <1>5, <1>6, <2>1, <2>2, <2>5, StepKeeps
<1>7. CASE /\ Proceed(h, [sync[h] EXCEPT !.pc = "finding", !.type = "intent",
                                         !.status = stripe["payment"]])
           /\ UNCHANGED syncMishaps
  <2>1. PICK s : s = [sync[h] EXCEPT !.pc = "finding", !.type = "intent", !.status = stripe["payment"]]
    OBVIOUS
  <2>2. s = [sync[h] EXCEPT !.pc = "finding", !.type = "intent"]
    BY <1>1, <1>3, <1>4, <2>1 DEF SyncRecord
  <2>3. sync' = [sync EXCEPT ![h] = s] /\ syncMishaps' = syncMishaps /\ syncMishaps \subseteq SyncMishap
    BY <1>1, <1>7, <2>1 DEF Proceed, SyncShapes
  <2> QED BY <1>6, <2>2, <2>3
<1>8. CASE /\ Proceed(h, [sync[h] EXCEPT !.pc = "finding"])
           /\ Happen({"fallback"})
  <2>1. PICK s : s = [sync[h] EXCEPT !.pc = "finding"]
    OBVIOUS
  <2>2. s = [sync[h] EXCEPT !.pc = "finding", !.type = "charge"]
    BY <1>1, <1>3, <2>1 DEF SyncRecord
  <2>3. /\ syncMishaps \subseteq syncMishaps' /\ syncMishaps' \subseteq SyncMishap
        /\ "fallback" \in syncMishaps'
    BY <1>1, <1>8, Happens DEF SyncShapes
  <2>4. sync' = [sync EXCEPT ![h] = s]
    BY <1>8, <2>1 DEF Proceed
  <2> QED BY <1>6, <2>2, <2>3, <2>4
<1> QED BY <1>7, <1>8 DEF Retrieve

LEMMA FindOrderKeeps ==
    ASSUME SyncInv, NEW h \in Syncer, FindOrder(h)
    PROVE  SyncInv'
<1>1. SyncShapes /\ Steady /\ sync[h] \in SyncRecord /\ Sound(sync[h])
  BY DEF SyncInv, SyncShapes, Steady, Syncing
<1>2. sync[h].pc = "finding" /\ Active(h)
  BY DEF FindOrder, OfSync, Active, Working
<1>3. PICK found : found = NewestOrder({KeyOf(sync[h])})
  OBVIOUS
<1>4. /\ found \in 0 .. Len(orders)
      /\ found = 0 => \A i \in DOMAIN orders : orders[i].key # KeyOf(sync[h])
      /\ found # 0 => orders[found].key = KeyOf(sync[h])
  BY <1>1, <1>3, NewestOrderIs DEF SyncShapes
<1>5. PICK s : s = [sync[h] EXCEPT !.pc = "storing", !.found = found]
  OBVIOUS
<1>6. sync' = [sync EXCEPT ![h] = s] /\ UNCHANGED <<stripe, events, answered, orders, refundRows, latest, syncMishaps>>
  BY <1>3, <1>5 DEF FindOrder, Proceed, storedVars
<1>7. Len(orders) \in Nat /\ found \in Nat /\ found <= Len(orders)
  BY <1>1, <1>4 DEF SyncShapes
<1>8. /\ s \in SyncRecord /\ s.pc = "storing" /\ s.found = found /\ s.of = sync[h].of
      /\ s.status = sync[h].status /\ s.type = sync[h].type /\ s.event = sync[h].event
      /\ s.rest = sync[h].rest
  BY <1>1, <1>5, <1>7 DEF SyncRecord, Working
<1>9. Sound(s)'
  BY <1>1, <1>2, <1>6, <1>7, <1>8 DEF Sound, Seen, Working
<1>10. Found(s)
  BY <1>4, <1>8 DEF Found, KeyOf
<1>11. s.type = "charge" => "fallback" \in syncMishaps
  BY <1>2, <1>8 DEF SyncInv, NoCharge
<1>12. Steps(h, s)
  BY <1>1, <1>2, <1>6, <1>8, <1>9, GoesOn DEF Working, SyncShapes
<1> QED BY <1>6, <1>8, <1>10, <1>11, <1>12, StepKeeps

LEMMA LinkOrderKeeps ==
    ASSUME SyncInv, NEW h \in Syncer, LinkOrder(h)
    PROVE  SyncInv'
<1>1. SyncShapes /\ Steady /\ sync[h] \in SyncRecord /\ Sound(sync[h])
  BY DEF SyncInv, SyncShapes, Steady, Syncing
<1>2. sync[h].pc = "linking" /\ Active(h)
  BY DEF LinkOrder, OfSync, Active, Working
<1>3. PICK found : found = NewestOrder({"intent", "charge"})
  OBVIOUS
<1>4. found \in 0 .. Len(orders) /\ Len(orders) \in Nat
  BY <1>1, <1>3, NewestOrderIs DEF SyncShapes
<1>5. PICK s : s = [sync[h] EXCEPT !.pc = "upserting", !.found = found]
  OBVIOUS
<1>6. /\ sync' = [sync EXCEPT ![h] = s] /\ Happen(IfSo("early", found = 0))
      /\ UNCHANGED <<stripe, events, answered, orders, refundRows, latest>>
  BY <1>3, <1>5 DEF LinkOrder, Proceed, storedVars
<1>7. /\ syncMishaps \subseteq syncMishaps' /\ syncMishaps' \subseteq SyncMishap
      /\ found = 0 => "early" \in syncMishaps'
  <2>1. PICK kinds : kinds = IfSo("early", found = 0)
    OBVIOUS
  <2>2. kinds \subseteq SyncMishap /\ syncMishaps' = syncMishaps \cup kinds
    BY <1>6, <2>1, Happens
  <2> QED BY <1>1, <2>1, <2>2 DEF SyncShapes, IfSo
<1>8. /\ s \in SyncRecord /\ s.pc = "upserting" /\ s.found = found /\ s.of = sync[h].of
      /\ s.status = sync[h].status /\ s.type = sync[h].type /\ s.event = sync[h].event
      /\ s.rest = sync[h].rest
  <2>1. found \in Nat
    BY <1>4
  <2> QED BY <1>1, <1>5, <2>1 DEF SyncRecord, Working
<1>9. Sound(s)'
  BY <1>1, <1>2, <1>4, <1>6, <1>8 DEF Sound, Seen, Working
<1>10. Steps(h, s)
  BY <1>1, <1>2, <1>6, <1>7, <1>8, <1>9, GoesOn DEF Working
<1> QED BY <1>6, <1>7, <1>8, <1>10, StepKeeps

-----------------------------------------------------------------------------
(* Syncs end *)

LEMMA BackToList ==
    ASSUME SyncInv, NEW h \in Syncer, NEW s,
           s = NoSync \/ s = [NoSync EXCEPT !.pc = "picking", !.rest = sync[h].rest],
           sync' = [sync EXCEPT ![h] = s], UNCHANGED <<stripe, events, latest, syncMishaps>>,
           Len(orders') \in Nat
    PROVE  Steps(h, s) /\ s.pc \notin Working
<1>1. SyncShapes /\ Steady /\ sync[h] \in SyncRecord /\ Sound(sync[h])
  BY DEF SyncInv, SyncShapes, Steady, Syncing
<1>2. /\ s \in SyncRecord /\ s.pc \in {"idle", "picking"} /\ s.type = "intent" /\ s.found = 0
      /\ s.event = NoEvent /\ s.rest \subseteq sync[h].rest
  BY <1>1, NoSyncIs DEF SyncRecord, Working
<1>3. \A listed \in s.rest : listed[2] # "none" /\ Seen(listed[1], listed[2])
  BY <1>1, <1>2 DEF Sound
<1>4. s.pc \notin Working
  BY <1>2 DEF Working
<1>5. syncMishaps \subseteq syncMishaps' /\ syncMishaps' \subseteq SyncMishap
  BY <1>1 DEF SyncShapes
<1> QED BY <1>1, <1>2, <1>3, <1>4, <1>5, Stops

LEMMA SyncFailsKeeps ==
    ASSUME SyncInv, NEW h \in Syncer, SyncFails(h)
    PROVE  SyncInv'
<1>1. UNCHANGED <<stripe, events, answered, orders, refundRows, latest, syncMishaps>>
  BY DEF SyncFails, storedVars
<1>2. PICK s : /\ s = NoSync \/ s = [NoSync EXCEPT !.pc = "picking", !.rest = sync[h].rest]
               /\ sync' = [sync EXCEPT ![h] = s]
  BY DEF SyncFails, Proceed
<1>3. Len(orders') \in Nat
  BY <1>1 DEF SyncInv, SyncShapes
<1>4. Steps(h, s) /\ s.pc \notin Working
  BY <1>1, <1>2, <1>3, BackToList
<1> QED BY <1>1, <1>4, StepKeeps DEF Working

LEMMA EndSyncIs ==
    ASSUME NEW h \in Syncer, EndSync(h)
    PROVE  /\ answered' = answered \cup ({sync[h].event} \ {NoEvent})
           /\ \E s : /\ s = NoSync \/ s = [NoSync EXCEPT !.pc = "picking", !.rest = sync[h].rest]
                     /\ sync' = [sync EXCEPT ![h] = s]
BY DEF EndSync, Proceed

LEMMA UpsertRefundKeeps ==
    ASSUME SyncInv, NEW h \in Syncer, UpsertRefund(h)
    PROVE  SyncInv'
<1>1. SyncShapes /\ Steady /\ sync[h] \in SyncRecord /\ Sound(sync[h]) /\ Stored
  BY DEF SyncInv, SyncShapes, Steady, Syncing
<1>2. sync[h].pc = "upserting" /\ Active(h)
  BY DEF UpsertRefund, OfSync, Active, Working
<1>3. UNCHANGED <<stripe, events, orders, latest, syncMishaps>>
  BY DEF UpsertRefund
<1>4. answered' = answered \cup ({sync[h].event} \ {NoEvent})
  BY EndSyncIs DEF UpsertRefund
<1>5. PICK s : /\ s = NoSync \/ s = [NoSync EXCEPT !.pc = "picking", !.rest = sync[h].rest]
               /\ sync' = [sync EXCEPT ![h] = s]
  BY EndSyncIs DEF UpsertRefund
<1>6. Len(orders) \in Nat /\ Len(orders') \in Nat /\ Len(orders) <= Len(orders')
  BY <1>1, <1>3 DEF SyncShapes
<1>7. Steps(h, s) /\ s.pc \notin Working
  BY <1>3, <1>5, <1>6, BackToList
<1>8. Steady'
  BY <1>1, <1>6, <1>7, SteadyKeeps
<1>9. sync'[h] = s /\ \A g \in Syncer : g # h => sync'[g] = sync[g]
  BY <1>1, <1>5 DEF SyncShapes
<1>10. PICK r \in StripeRefund : r = sync[h].of
  BY <1>1, <1>2 DEF Sound
<1>11. PICK row : row = [status |-> RefundStatusOf(sync[h].status), order |-> sync[h].found]
  OBVIOUS
<1>12. /\ row.status = RefundStatusOf(sync[h].status) /\ row.order = sync[h].found
       /\ row \in [status : {"none", "PENDING", "SETTLED"}, order : Nat] /\ row.order <= Len(orders)
  BY <1>1, <1>11 DEF Sound, SyncRecord, RefundStatusOf
<1>13. refundRows' = [refundRows EXCEPT ![r] = row]
  BY <1>10, <1>11 DEF UpsertRefund
<1>14. refundRows'[r] = row /\ \A q \in StripeRefund : q # r => refundRows'[q] = refundRows[q]
  BY <1>1, <1>13 DEF SyncShapes
<1>15. sync[h].event # NoEvent => /\ sync[h].event \in events /\ sync[h].event.of = r
                                  /\ sync[h].event.type \in {"intent", "refund"} => sync[h].status = sync[h].event.status
  BY <1>1, <1>10 DEF Sound
<1>16. SyncShapes'
  <2>1. answered' \subseteq events'
    BY <1>1, <1>3, <1>4, <1>15 DEF SyncShapes
  <2>2. refundRows' \in [StripeRefund -> [status : {"none", "PENDING", "SETTLED"}, order : Nat]]
    BY <1>1, <1>12, <1>13 DEF SyncShapes
  <2>3. \A q \in StripeRefund : refundRows'[q].order <= Len(orders')
    BY <1>1, <1>3, <1>12, <1>14 DEF SyncShapes
  <2>4. sync' \in [Syncer -> SyncRecord]
    BY <1>1, <1>5, <1>7 DEF SyncShapes, Steps
  <2> QED BY <1>1, <1>3, <2>1, <2>2, <2>3, <2>4 DEF SyncShapes
<1>17. Charges' /\ NoCharge' /\ Keyed'
  BY <1>3, <1>7, <1>9 DEF SyncInv, Charges, NoCharge, Keyed, Found, Working
<1>18. Linked'
  BY <1>2, <1>3, <1>7, <1>9, <1>12, <1>14 DEF SyncInv, Linked, Working
<1>19. Stored'
  <2> SUFFICES ASSUME "met" \notin syncMishaps, "reordered" \notin syncMishaps,
                      "unconfirmed" \notin syncMishaps
               PROVE  Stored'
    BY <1>3 DEF Stored
  <2>1. PaidEvent \in answered' => PaidEvent \in answered
    <3>1. PaidEvent.of # r
      BY Payment DEF PaidEvent
    <3> QED BY <1>4, <1>15, <3>1
  <2>2. ASSUME NEW q \in StripeRefund, RefundEvent(q, stripe[q]) \in answered'
        PROVE  latest[q] = stripe[q] /\ refundRows'[q].status = RefundStatusOf(stripe[q])
    <3>1. CASE q # r
      <4>1. RefundEvent(q, stripe[q]).of # r
        BY <3>1 DEF RefundEvent
      <4>2. RefundEvent(q, stripe[q]) \in answered
        BY <1>4, <1>15, <2>2, <4>1
      <4> QED BY <1>1, <1>14, <3>1, <4>2 DEF Stored
    <3>2. CASE q = r
      <4>1. /\ Seen(r, sync[h].status) /\ Age[sync[h].status] <= Age[latest[r]]
            /\ Age[sync[h].status] >= Age[latest[r]]
        BY <1>1, <1>2, <1>10 DEF Sound, Working, Steady, InOrder
      <4>2. Seen(r, latest[r])
        BY <1>1, Payment DEF Steady, Sent
      <4>3. /\ Age[stripe[r]] \in Nat /\ Age[latest[r]] \in Nat /\ Age[sync[h].status] \in Nat
        BY <1>1, AgeNat, Payment DEF SyncShapes, SyncRecord
      <4>4. CASE RefundEvent(r, stripe[r]) \in answered
        <5>1. latest[r] = stripe[r]
          BY <1>1, <4>4 DEF Stored
        <5>2. sync[h].status = stripe[r]
          BY <4>1, <4>3, <5>1 DEF Seen
        <5> QED BY <1>12, <1>14, <3>2, <5>1, <5>2
      <4>5. CASE RefundEvent(r, stripe[r]) = sync[h].event /\ sync[h].event # NoEvent
        <5>1. sync[h].status = stripe[r]
          BY <1>15, <4>5 DEF RefundEvent
        <5>2. latest[r] = stripe[r]
          BY <4>1, <4>2, <4>3, <5>1 DEF Seen
        <5> QED BY <1>12, <1>14, <3>2, <5>1, <5>2
      <4> QED BY <1>4, <2>2, <3>2, <4>4, <4>5
    <3> QED BY <3>1, <3>2
  <2>3. stripe' = stripe /\ latest' = latest /\ orders' = orders
    BY <1>3
  <2> QED BY <1>1, <2>1, <2>2, <2>3 DEF Stored
<1> QED BY <1>8, <1>16, <1>17, <1>18, <1>19 DEF SyncInv

LEMMA RowOf ==
    ASSUME NEW s \in SyncRecord, s.type \in Key
    PROVE  /\ OrderStatusOf(s) \in {"UNPAID", "PAID", "CANCELLED"} /\ KeyOf(s) \in Key
           /\ s.status = "paid" => OrderStatusOf(s) = "PAID"
           /\ KeyOf(s) = IF s.type = "session"
                         THEN IF s.status = "open" THEN "session" ELSE "intent"
                         ELSE s.type
<1>1. KeyOf(s) = IF s.type = "session" THEN IF s.status = "open" THEN "session" ELSE "intent"
                 ELSE s.type
  BY DEF KeyOf, KeyOfSession
<1>2. OrderStatusOf(s) \in {"UNPAID", "PAID", "CANCELLED"}
  <2>1. CASE s.status = "paid"
    BY <2>1 DEF OrderStatusOf
  <2>2. CASE s.status # "paid" /\ s.status = "canceled" /\ s.type = "intent"
    BY <2>2 DEF OrderStatusOf
  <2>3. CASE s.status # "paid" /\ ~(s.status = "canceled" /\ s.type = "intent")
    BY <2>3 DEF OrderStatusOf
  <2> QED BY <2>1, <2>2, <2>3
<1>3. s.status = "paid" => OrderStatusOf(s) = "PAID"
  BY DEF OrderStatusOf
<1> QED BY <1>1, <1>2, <1>3 DEF Key

LEMMA Replaced ==
    ASSUME NEW q \in Seq(OrderRow), NEW n \in 1 .. Len(q), NEW row \in OrderRow, NEW r,
           r = [q EXCEPT ![n] = row]
    PROVE  /\ r \in Seq(OrderRow) /\ Len(r) = Len(q) /\ Len(q) <= Len(r) /\ r[n] = row
           /\ \A i \in 1 .. Len(q) : i # n => r[i] = q[i]
<1>1. Len(q) \in Nat /\ Len(q) <= Len(q)
  <2>1. Len(q) \in Nat
    BY LenProperties
  <2>2. \A k \in Nat : k <= k
    OBVIOUS
  <2> QED BY <2>1, <2>2, Zenon
<1>2. /\ [q EXCEPT ![n] = row] \in Seq(OrderRow) /\ Len([q EXCEPT ![n] = row]) = Len(q)
      /\ \A i \in 1 .. Len(q) : [q EXCEPT ![n] = row][i] = IF i = n THEN row ELSE q[i]
  BY ExceptSeq
<1> QED BY <1>1, <1>2

LEMMA Appended ==
    ASSUME NEW q \in Seq(OrderRow), NEW row \in OrderRow, NEW r, r = Append(q, row)
    PROVE  /\ r \in Seq(OrderRow) /\ Len(r) = Len(q) + 1 /\ r[Len(q) + 1] = row
           /\ \A i \in 1 .. Len(q) : r[i] = q[i]
BY AppendProperties

\* The row is written in place of the one found, or after all others.
LEMMA Written ==
    ASSUME NEW q \in Seq(OrderRow), NEW found \in 0 .. Len(q), NEW row \in OrderRow, NEW r,
           r = IF found # 0 THEN [q EXCEPT ![found] = row] ELSE Append(q, row)
    PROVE  /\ r \in Seq(OrderRow) /\ Len(q) \in Nat /\ Len(q) <= Len(r)
           /\ \E n \in DOMAIN r :
                /\ r[n] = row
                /\ n = found \/ (found = 0 /\ n \notin DOMAIN q)
                /\ \A i \in DOMAIN r : i # n => i \in DOMAIN q /\ r[i] = q[i]
                /\ DOMAIN q \subseteq DOMAIN r
<1>1. Len(q) \in Nat /\ DOMAIN q = 1 .. Len(q)
  OBVIOUS
<1>2. CASE found # 0
  <2>1. found \in 1 .. Len(q) /\ r = [q EXCEPT ![found] = row]
    BY <1>1, <1>2
  <2>2. /\ r \in Seq(OrderRow) /\ Len(r) = Len(q) /\ r[found] = row
        /\ \A i \in 1 .. Len(q) : i # found => r[i] = q[i]
    BY <2>1, Replaced
  <2>3. DOMAIN r = 1 .. Len(r) /\ Len(r) = Len(q)
    BY <2>2, LenProperties
  <2>4. found \in DOMAIN r /\ \A i \in DOMAIN r : i # found => i \in DOMAIN q /\ r[i] = q[i]
    BY <1>1, <2>1, <2>2, <2>3
  <2>5. DOMAIN q \subseteq DOMAIN r
    BY <1>1, <2>3
  <2>6. Len(q) <= Len(r)
    BY <2>1, Replaced
  <2> QED BY <1>1, <2>2, <2>4, <2>5, <2>6
<1>3. CASE found = 0
  <2>1. r = Append(q, row)
    BY <1>3
  <2>2. PICK n : n = Len(q) + 1
    OBVIOUS
  <2>3. /\ r \in Seq(OrderRow) /\ Len(r) = n /\ r[n] = row
        /\ \A i \in 1 .. Len(q) : r[i] = q[i]
    BY <2>1, <2>2, Appended
  <2>4. DOMAIN r = 1 .. n /\ n \in Nat
    BY <1>1, <2>2, <2>3
  <2>5. n \in 1 .. n /\ n \notin 1 .. Len(q) /\ Len(q) <= n
    BY <1>1, <2>2
  <2>6. \A i \in 1 .. n : i # n => i \in 1 .. Len(q)
    BY <1>1, <2>2
  <2>7. 1 .. Len(q) \subseteq 1 .. n
    BY <1>1, <2>2
  <2> QED BY <1>1, <1>3, <2>3, <2>4, <2>5, <2>6, <2>7
<1> QED BY <1>2, <1>3

LEMMA StoreOrderKeeps ==
    ASSUME SyncInv, NEW h \in Syncer, StoreOrder(h)
    PROVE  SyncInv'
<1>1. /\ SyncShapes /\ Steady /\ sync[h] \in SyncRecord /\ Sound(sync[h]) /\ Stored
      /\ orders \in Seq(OrderRow)
  BY DEF SyncInv, SyncShapes, Steady, Syncing
<1>2. sync[h].pc = "storing" /\ Active(h) /\ sync[h].of = "payment" /\ sync[h].type \in Key
  BY <1>1 DEF StoreOrder, OfSync, Active, Working, Sound
<1>3. UNCHANGED <<stripe, events, refundRows, latest, syncMishaps>>
  BY DEF StoreOrder
<1>4. answered' = answered \cup ({sync[h].event} \ {NoEvent})
  BY EndSyncIs DEF StoreOrder
<1>5. PICK s : /\ s = NoSync \/ s = [NoSync EXCEPT !.pc = "picking", !.rest = sync[h].rest]
               /\ sync' = [sync EXCEPT ![h] = s]
  BY EndSyncIs DEF StoreOrder
<1>6. PICK row : row = [key |-> KeyOf(sync[h]), status |-> OrderStatusOf(sync[h])]
  OBVIOUS
<1>7. /\ row \in OrderRow /\ row.key = KeyOf(sync[h]) /\ row.status = OrderStatusOf(sync[h])
      /\ sync[h].status = "paid" => row.status = "PAID"
      /\ row.key = IF sync[h].type = "session"
                   THEN IF sync[h].status = "open" THEN "session" ELSE "intent"
                   ELSE sync[h].type
  BY <1>1, <1>2, <1>6, RowOf DEF OrderRow
<1>8. sync[h].found \in 0 .. Len(orders) /\ Len(orders) \in Nat
  BY <1>1 DEF Sound, SyncRecord, SyncShapes
<1>9. orders' = IF sync[h].found # 0 THEN [orders EXCEPT ![sync[h].found] = row]
                ELSE Append(orders, row)
  BY <1>6 DEF StoreOrder
<1>10. orders' \in Seq(OrderRow) /\ Len(orders) <= Len(orders') /\ Len(orders') \in Nat
  BY <1>1, <1>7, <1>8, <1>9, Written
<1>11. PICK n \in DOMAIN orders' :
         /\ orders'[n] = row
         /\ n = sync[h].found \/ (sync[h].found = 0 /\ n \notin DOMAIN orders)
         /\ \A i \in DOMAIN orders' : i # n => i \in DOMAIN orders /\ orders'[i] = orders[i]
         /\ DOMAIN orders \subseteq DOMAIN orders'
  BY <1>1, <1>7, <1>8, <1>9, Written
<1>12. Steps(h, s) /\ s.pc \notin Working
  BY <1>3, <1>5, <1>10, BackToList
<1>13. Steady'
  BY <1>1, <1>8, <1>10, <1>12, SteadyKeeps
<1>14. sync'[h] = s /\ \A g \in Syncer : g # h => sync'[g] = sync[g]
  BY <1>1, <1>5 DEF SyncShapes
<1>15. sync[h].event # NoEvent =>
         /\ sync[h].event \in events /\ sync[h].event.of = "payment"
         /\ sync[h].event.type = "intent" =>
              sync[h].status = sync[h].event.status /\ sync[h].type = "intent"
  BY <1>1, <1>2 DEF Sound
<1>16. SyncShapes'
  <2>1. answered' \subseteq events'
    BY <1>1, <1>3, <1>4, <1>15 DEF SyncShapes
  <2>2. \A q \in StripeRefund : refundRows'[q].order <= Len(orders')
    <3> SUFFICES ASSUME NEW q \in StripeRefund PROVE refundRows[q].order <= Len(orders')
      BY <1>3
    <3>1. refundRows[q].order \in Nat /\ refundRows[q].order <= Len(orders)
      BY <1>1 DEF SyncShapes
    <3> QED BY <1>8, <1>10, <3>1
  <2>3. sync' \in [Syncer -> SyncRecord]
    BY <1>1, <1>5, <1>12 DEF SyncShapes, Steps
  <2> QED BY <1>1, <1>3, <1>10, <2>1, <2>2, <2>3 DEF SyncShapes
<1>17. Charges'
  <2>1. row.key = "charge" => row.status = "PAID"
    BY <1>1, <1>7 DEF Sound
  <2> QED BY <1>11, <2>1 DEF SyncInv, Charges
<1>18. NoCharge'
  <2>1. "fallback" \notin syncMishaps => row.key # "charge"
    BY <1>2, <1>7 DEF SyncInv, NoCharge
  <2> QED BY <1>3, <1>11, <1>12, <1>14, <2>1 DEF SyncInv, NoCharge, Working
<1>19. Linked'
  BY <1>3, <1>12, <1>14 DEF SyncInv, Linked, Working
<1>20. ASSUME "met" \notin syncMishaps, "unconfirmed" \notin syncMishaps
       PROVE  /\ \A i \in DOMAIN orders' : i # n => orders'[i].key # row.key
              /\ row.key # "session"
              /\ \A g \in Syncer : g # h => sync[g].pc # "storing"
  <2>1. /\ \A i, j \in DOMAIN orders : orders[i].key = orders[j].key => i = j
        /\ Found(sync[h])
    BY <1>2, <1>20 DEF SyncInv, Keyed
  <2>2. \A i \in DOMAIN orders' : i # n => orders'[i].key # row.key
    <3>1. CASE sync[h].found = 0
      BY <1>7, <1>11, <2>1, <3>1 DEF Found
    <3>2. CASE sync[h].found # 0
      <4>1. n = sync[h].found /\ n \in DOMAIN orders /\ orders[n].key = row.key
        BY <1>1, <1>7, <1>8, <1>11, <2>1, <3>2 DEF Found, SyncShapes
      <4> QED BY <1>11, <2>1, <4>1
    <3> QED BY <3>1, <3>2
  <2>3. row.key # "session"
    BY <1>1, <1>2, <1>7, <1>20 DEF Steady, Confirmed, Key
  <2>4. ASSUME NEW g \in Syncer, g # h, sync[g].pc = "storing" PROVE FALSE
    <3>1. Active(g) /\ sync[g].of = "payment"
      BY <1>1, <2>4 DEF Active, Working, Steady, Syncing, Sound
    <3> QED BY <1>1, <1>2, <1>20, <2>4, <3>1 DEF Steady, Alone
  <2> QED BY <2>2, <2>3, <2>4
<1>21. Keyed'
  <2> SUFFICES ASSUME "met" \notin syncMishaps, "unconfirmed" \notin syncMishaps PROVE Keyed'
    BY <1>3 DEF Keyed
  <2>1. \A i, j \in DOMAIN orders' : orders'[i].key = orders'[j].key => i = j
    BY <1>11, <1>20 DEF SyncInv, Keyed
  <2>2. \A i \in DOMAIN orders' : orders'[i].key # "session"
    BY <1>11, <1>20 DEF SyncInv, Keyed
  <2>3. \A g \in Syncer : sync'[g].pc # "storing"
    BY <1>12, <1>14, <1>20 DEF Working
  <2> QED BY <2>1, <2>2, <2>3 DEF Keyed
<1>22. Stored'
  <2> SUFFICES ASSUME "met" \notin syncMishaps, "reordered" \notin syncMishaps,
                      "unconfirmed" \notin syncMishaps
               PROVE  Stored'
    BY <1>3 DEF Stored
  <2>1. ASSUME NEW q \in StripeRefund, RefundEvent(q, stripe[q]) \in answered'
        PROVE  latest[q] = stripe[q] /\ refundRows[q].status = RefundStatusOf(stripe[q])
    <3>1. RefundEvent(q, stripe[q]).of # "payment"
      BY Payment DEF RefundEvent
    <3>2. RefundEvent(q, stripe[q]) \in answered
      BY <1>4, <1>15, <2>1, <3>1
    <3> QED BY <1>1, <3>2 DEF Stored
  <2>2. /\ Seen("payment", sync[h].status) /\ Age[sync[h].status] <= Age[latest["payment"]]
        /\ Age[sync[h].status] >= Age[latest["payment"]]
        /\ Seen("payment", latest["payment"])
    BY <1>1, <1>2, Payment DEF Sound, Working, Steady, InOrder, Sent
  <2>3. /\ sync[h].status \in StripeStatus /\ latest["payment"] \in StripeStatus
        /\ stripe["payment"] \in {"open", "processing", "canceled", "paid"}
    BY <1>1, Payment DEF SyncShapes, SyncRecord
  <2>4. latest["payment"] = "paid" <=> sync[h].status = "paid"
    BY <2>2, <2>3, Ages DEF Seen
  <2>5. ASSUME PaidEvent \in answered'
        PROVE  /\ latest["payment"] = "paid"
               /\ \E i \in DOMAIN orders' : orders'[i].key = "intent"
               /\ \A i \in DOMAIN orders' : orders'[i].key = "intent" => orders'[i].status = "PAID"
    <3>1. CASE PaidEvent \in answered
      <4>1. latest["payment"] = "paid" /\ row.status = "PAID"
        BY <1>1, <1>7, <2>4, <3>1 DEF Stored
      <4>2. PICK i \in DOMAIN orders : orders[i].key = "intent"
        BY <1>1, <3>1 DEF Stored
      <4>3. orders'[i].key = "intent"
        <5>1. CASE i # n
          BY <1>11, <4>2, <5>1
        <5>2. CASE i = n
          <6>1. n = sync[h].found /\ sync[h].found # 0
            BY <1>1, <1>11, <4>2, <5>2 DEF SyncShapes
          <6>2. orders[n].key = row.key
            BY <1>2, <1>7, <6>1 DEF SyncInv, Keyed, Found
          <6> QED BY <1>11, <4>2, <5>2, <6>2
        <5> QED BY <5>1, <5>2
      <4>4. i \in DOMAIN orders'
        BY <1>11, <4>2
      <4>5. \A j \in DOMAIN orders' : orders'[j].key = "intent" => orders'[j].status = "PAID"
        BY <1>1, <1>11, <3>1, <4>1 DEF Stored
      <4> QED BY <4>1, <4>3, <4>4, <4>5
    <3>2. CASE PaidEvent = sync[h].event /\ sync[h].event # NoEvent
      <4>1. sync[h].status = "paid" /\ sync[h].type = "intent"
        BY <1>15, <3>2 DEF PaidEvent
      <4>2. row.key = "intent" /\ row.status = "PAID"
        BY <1>7, <4>1
      <4> QED BY <1>11, <1>20, <2>4, <4>1, <4>2
    <3> QED BY <1>4, <2>5, <3>1, <3>2
  <2>6. stripe' = stripe /\ latest' = latest /\ refundRows' = refundRows
    BY <1>3
  <2> QED BY <2>1, <2>5, <2>6 DEF Stored
<1> QED BY <1>13, <1>16, <1>17, <1>18, <1>19, <1>21, <1>22 DEF SyncInv

-----------------------------------------------------------------------------
(* The theorems *)

LEMMA SyncNextKeeps == SyncInv /\ [SyncNext]_syncVars => SyncInv'
<1> SUFFICES ASSUME SyncInv, [SyncNext]_syncVars PROVE SyncInv'
  OBVIOUS
<1>1. CASE Confirm \/ Pay \/ CancelPayment \/ \E r \in StripeRefund : MoveRefund(r)
  BY <1>1, StripeKeeps
<1>2. ASSUME NEW h \in Syncer, NEW e \in events, Deliver(h, e) PROVE SyncInv'
  BY <1>2, DeliverKeeps
<1>3. ASSUME NEW h \in Syncer, NEW type \in Key, SyncOrder(h, type) PROVE SyncInv'
  BY <1>3, SyncOrderKeeps
<1>4. ASSUME NEW h \in Syncer, ListRefunds(h) PROVE SyncInv'
  BY <1>4, ListRefundsKeeps
<1>5. ASSUME NEW h \in Syncer, PickRefund(h) PROVE SyncInv'
  BY <1>5, PickRefundKeeps
<1>6. ASSUME NEW h \in Syncer, Retrieve(h) PROVE SyncInv'
  BY <1>6, RetrieveKeeps
<1>7. ASSUME NEW h \in Syncer, FindOrder(h) PROVE SyncInv'
  BY <1>7, FindOrderKeeps
<1>8. ASSUME NEW h \in Syncer, StoreOrder(h) PROVE SyncInv'
  BY <1>8, StoreOrderKeeps
<1>9. ASSUME NEW h \in Syncer, LinkOrder(h) PROVE SyncInv'
  BY <1>9, LinkOrderKeeps
<1>10. ASSUME NEW h \in Syncer, UpsertRefund(h) PROVE SyncInv'
  BY <1>10, UpsertRefundKeeps
<1>11. ASSUME NEW h \in Syncer, SyncFails(h) PROVE SyncInv'
  BY <1>11, SyncFailsKeeps
<1>12. CASE UNCHANGED syncVars
  BY <1>12 DEF syncVars, SyncInv, SyncShapes, Steady, Sent, Seen, Syncing, Sound, Alone, Active,
               Confirmed, InOrder, NoCharge, Charges, Keyed, Found, Stored, Linked
<1> QED BY <1>1, <1>2, <1>3, <1>4, <1>5, <1>6, <1>7, <1>8, <1>9, <1>10, <1>11, <1>12 DEF SyncNext

\* In every behaviour what the syncs know was so of their object, two of one
\* object have met if both are at work, and what was answered is stored,
\* each unless something was recorded that breaks it: the invariant the
\* theorems below rest on.  [StripeEventService, StripeOrderSyncService,
\* StripeRefundSyncService and StripeRepository]
THEOREM SyncInvHolds == SyncSpec => []SyncInv
BY SyncStarts, SyncNextKeeps, PTL DEF SyncSpec

LEMMA SyncTyped == SyncInv => SyncTypeOK
<1> SUFFICES ASSUME SyncInv PROVE SyncTypeOK
  OBVIOUS
<1>1. SyncShapes /\ \A h \in Syncer : Sound(sync[h]) /\ sync[h] \in SyncRecord
  BY DEF SyncInv, SyncShapes, Steady, Syncing
<1>2. \A i \in DOMAIN orders : orders[i] \in OrderRow
  BY <1>1 DEF SyncShapes
<1>3. \A h \in Syncer : sync[h].found \in 0 .. Len(orders)
  BY <1>1 DEF Sound, SyncRecord, SyncShapes
<1>4. \A r \in StripeRefund : /\ refundRows[r].status \in {"none", "PENDING", "SETTLED"}
                              /\ refundRows[r].order \in 0 .. Len(orders)
  BY <1>1 DEF SyncShapes
<1> QED BY <1>1, <1>2, <1>3, <1>4 DEF SyncTypeOK, SyncShapes

\* The rows and the syncs have their types, and no refund and no sync names
\* an order that is not there.  [StripeRepository]
THEOREM SyncTypesHold == SyncSpec => []SyncTypeOK
BY SyncInvHolds, SyncTyped, PTL

LEMMA AllIntents == SyncInv => OneOrderPerPayment
<1> SUFFICES ASSUME SyncInv, "met" \notin syncMishaps, "fallback" \notin syncMishaps,
                    "unconfirmed" \notin syncMishaps
             PROVE  Len(orders) <= 1
  BY DEF OneOrderPerPayment, Among
<1>1. /\ \A i, j \in DOMAIN orders : orders[i].key = orders[j].key => i = j
      /\ \A i \in DOMAIN orders : orders[i].key # "session" /\ orders[i].key # "charge"
  BY DEF SyncInv, Keyed, NoCharge
<1>2. orders \in Seq(OrderRow) /\ Len(orders) \in Nat /\ DOMAIN orders = 1 .. Len(orders)
  BY DEF SyncInv, SyncShapes
<1>3. \A i \in DOMAIN orders : orders[i].key \in Key
  <2>1. \A i \in DOMAIN orders : orders[i] \in OrderRow
    BY <1>2
  <2> QED BY <2>1 DEF OrderRow
<1>4. \A i \in DOMAIN orders : orders[i].key = "intent"
  BY <1>1, <1>3 DEF Key
<1>5. ASSUME Len(orders) > 1 PROVE FALSE
  <2>1. 1 \in DOMAIN orders /\ 2 \in DOMAIN orders
    BY <1>2, <1>5
  <2>2. orders[1].key = orders[2].key
    BY <1>4, <2>1
  <2>3. 1 = 2
    BY <1>1, <2>1, <2>2
  <2> QED BY <2>3
<1> QED BY <1>2, <1>5

\* A payment makes one order at most, for any number of webhook calls,
\* endpoints and jobs, unless two of them met, a charge's payment could not
\* be retrieved, or a session came before its payment.
\* [StripeRepository.upsertOrder]
THEOREM OneOrderPerPaymentHolds == SyncSpec => []OneOrderPerPayment
BY SyncInvHolds, AllIntents, PTL

LEMMA AnsweredIsStored == SyncInv => SyncedWhenQuiet
<1> SUFFICES ASSUME SyncInv, Quiet, "met" \notin syncMishaps, "reordered" \notin syncMishaps,
                    "unconfirmed" \notin syncMishaps
             PROVE  /\ stripe["payment"] = "paid" =>
                         /\ orders # <<>>
                         /\ \A i \in DOMAIN orders : orders[i].status = "PAID"
                    /\ \A r \in StripeRefund : stripe[r] # "none" =>
                         /\ refundRows[r].status = RefundStatusOf(stripe[r])
                         /\ "early" \notin syncMishaps => refundRows[r].order # 0
  BY DEF SyncedWhenQuiet, Among
<1>1. events \subseteq answered /\ Sent /\ Stored
  BY DEF SyncInv, Steady, Quiet
<1>2. ASSUME stripe["payment"] = "paid"
      PROVE  orders # <<>> /\ \A i \in DOMAIN orders : orders[i].status = "PAID"
  <2>1. /\ \E i \in DOMAIN orders : orders[i].key = "intent"
        /\ \A i \in DOMAIN orders : orders[i].key = "intent" => orders[i].status = "PAID"
    BY <1>1, <1>2 DEF Sent, Stored
  <2>2. \A i \in DOMAIN orders : /\ orders[i].key # "session"
                                 /\ orders[i].key = "charge" => orders[i].status = "PAID"
    BY DEF SyncInv, Keyed, Charges
  <2>3. \A i \in DOMAIN orders : orders[i].key \in Key
    <3>1. \A i \in DOMAIN orders : orders[i] \in OrderRow
      BY DEF SyncInv, SyncShapes
    <3> QED BY <3>1 DEF OrderRow
  <2> QED BY <2>1, <2>2, <2>3 DEF Key
<1>3. ASSUME NEW r \in StripeRefund, stripe[r] # "none"
      PROVE  /\ refundRows[r].status = RefundStatusOf(stripe[r])
             /\ "early" \notin syncMishaps => refundRows[r].order # 0
  <2>1. refundRows[r].status = RefundStatusOf(stripe[r])
    BY <1>1, <1>3 DEF Sent, Stored
  <2>2. refundRows[r].status # "none"
    BY <2>1 DEF RefundStatusOf
  <2> QED BY <2>1, <2>2 DEF SyncInv, Linked
<1> QED BY <1>2, <1>3

\* When no sync is at work and Stripe has an answer to every event, the rows
\* say what Stripe says, whatever failed and however often it was sent;
\* unless two syncs met, or an older state was stored after a newer one.
\* [StripeRepository.upsertOrder and upsertRefund]
THEOREM SyncedWhenQuietHolds == SyncSpec => []SyncedWhenQuiet
BY SyncInvHolds, AnsweredIsStored, PTL

-----------------------------------------------------------------------------
(* The three together, as the runs check them *)

OrderInv ==
    /\ part \in {"shares", "benefit", "stripe"}
    /\ part = "shares" => ProfitInv
    /\ part = "benefit" => BenefitInv
    /\ part = "stripe" => SyncInv

\* Whichever part of what is kept of an order a behaviour is of, its state
\* keeps its shape.
THEOREM OrderTypesHold == OrderSpec => []OrderTypeOK
<1>1. OrderInit => OrderInv
  BY StartsOK, InitInv, SyncStarts DEF OrderInit, OrderInv
<1>2. OrderInv /\ [InShares \/ InBenefit \/ InStripe]_orderVars => OrderInv'
  <2> SUFFICES ASSUME OrderInv, [InShares \/ InBenefit \/ InStripe]_orderVars PROVE OrderInv'
    OBVIOUS
  <2>1. UNCHANGED part
    BY DEF InShares, InBenefit, InStripe, orderVars
  <2>2. part = "shares" => [ProfitNext]_profitVars
    BY DEF InShares, InBenefit, InStripe, orderVars
  <2>3. part = "benefit" => [BenefitNext]_benefitVars
    BY DEF InShares, InBenefit, InStripe, orderVars
  <2>4. part = "stripe" => [SyncNext]_syncVars
    BY DEF InShares, InBenefit, InStripe, orderVars
  <2> QED BY <2>1, <2>2, <2>3, <2>4, SharesStayOK, NextKeeps, SyncNextKeeps DEF OrderInv
<1>3. OrderInv => OrderTypeOK
  BY ProfitTyped, BenefitTyped, SyncTyped DEF OrderInv, OrderTypeOK
<1> QED BY <1>1, <1>2, <1>3, PTL DEF OrderSpec

=============================================================================
