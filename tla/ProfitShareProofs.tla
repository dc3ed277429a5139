-------------------------- MODULE ProfitShareProofs --------------------------
(***************************************************************************)
(* Proofs about ProfitShare, for any modules, months, amounts, refunds and *)
(* runs: nothing is taken back twice, shares are neither lost nor doubled, *)
(* and a reconciliation covers what it is for, as long as what the         *)
(* properties except has not happened.  An amount counts as many units     *)
(* (TotalOf), so the sums are cardinalities, and what is said of them      *)
(* rests on the facts about those.                                         *)
(***************************************************************************)
EXTENDS ProfitShare, FiniteSetTheorems, FunctionTheorems, TLAPS

-----------------------------------------------------------------------------
(* Arithmetic *)

LEMMA Product ==
    ASSUME NEW a \in Nat, NEW b \in Nat
    PROVE  a * b \in Nat
OBVIOUS

LEMMA ProductGrows ==
    ASSUME NEW a \in Nat, NEW b \in Nat, NEW c \in Nat, a <= b
    PROVE  a * c <= b * c /\ c * a <= c * b
<1>1. b - a \in Nat /\ b = a + (b - a)
  OBVIOUS
<1>2. (b - a) * c \in Nat
  BY <1>1, Product
<1>3. b * c = a * c + (b - a) * c
  OBVIOUS
<1>4. a * c \in Nat /\ b * c \in Nat
  BY Product
<1>5. a * c <= b * c
  BY <1>2, <1>3, <1>4
<1> QED BY <1>5

LEMMA Quotient ==
    ASSUME NEW n \in Nat, NEW d \in Nat \ {0}
    PROVE  n \div d \in Nat /\ (n \div d) * d <= n /\ n < (n \div d) * d + d
BY Z3

LEMMA QuotientGrows ==
    ASSUME NEW n \in Nat, NEW k \in Nat, n <= k, NEW d \in Nat \ {0}
    PROVE  n \div d <= k \div d
<1>1. PICK q \in Nat : q = n \div d /\ q * d <= n
  BY Quotient
<1>2. PICK e \in Nat : e = k \div d /\ k < e * d + d
  BY Quotient
<1>3. CASE q >= e + 1
  <2>1. (e + 1) * d <= q * d
    BY <1>3, ProductGrows
  <2>2. (e + 1) * d = e * d + d
    OBVIOUS
  <2>3. q * d \in Nat /\ e * d \in Nat
    BY Product
  <2> QED BY <1>1, <1>2, <2>1, <2>2, <2>3
<1> QED BY <1>1, <1>2, <1>3

LEMMA RoundedNat ==
    ASSUME NEW whole \in Nat, NEW part \in Nat, NEW base \in Nat \ {0}
    PROVE  Rounded(whole, part, base) \in Nat
<1>1. 2 * whole * part + base \in Nat /\ 2 * base \in Nat \ {0}
  <2>1. (2 * whole) * part \in Nat
    BY Product
  <2> QED BY <2>1
<1> QED BY <1>1, Quotient DEF Rounded

\* More of a larger sum is no less.
LEMMA RoundedGrows ==
    ASSUME NEW few \in Nat, NEW whole \in Nat, few <= whole,
           NEW part \in Nat, NEW more \in Nat, part <= more, NEW base \in Nat \ {0}
    PROVE  Rounded(few, part, base) <= Rounded(whole, more, base)
<1>1. (2 * few) * part <= (2 * whole) * part
  BY ProductGrows
<1>2. (2 * whole) * part <= (2 * whole) * more
  BY ProductGrows
<1>3. /\ (2 * few) * part \in Nat /\ (2 * whole) * part \in Nat
      /\ (2 * whole) * more \in Nat
  BY Product
<1>4. PICK n \in Nat : n = 2 * few * part + base
  BY <1>3
<1>5. PICK k \in Nat : k = 2 * whole * more + base
  BY <1>3
<1>6. n <= k
  BY <1>1, <1>2, <1>3, <1>4, <1>5
<1>7. 2 * base \in Nat \ {0}
  OBVIOUS
<1>8. n \div (2 * base) <= k \div (2 * base)
  BY <1>6, <1>7, QuotientGrows
<1> QED BY <1>4, <1>5, <1>8 DEF Rounded

LEMMA EarnsGrows ==
    ASSUME NEW m \in Module, NEW sum \in Nat, NEW more \in Nat, sum <= more
    PROVE  /\ Earns(m, sum) \in Nat /\ Earns(m, more) \in Nat
           /\ Earns(m, sum) <= Earns(m, more)
<1>1. Ratio[m] \in Nat /\ Ratio[m] <= Ratio[m] /\ RatioBase \in Nat \ {0}
  BY ProfitAssumption
<1> QED BY <1>1, RoundedNat, RoundedGrows DEF Earns

LEMMA ShareNat == \A m \in Module : Share[m] \in Nat /\ Share[m] <= Share[m]
<1> SUFFICES ASSUME NEW m \in Module PROVE Share[m] \in Nat /\ Share[m] <= Share[m]
  OBVIOUS
<1>1. PICK n \in Nat : n = Earns(m, OrderAmount)
  <2>1. OrderAmount \in Nat /\ OrderAmount <= OrderAmount
    BY ProfitAssumption
  <2> QED BY <2>1, EarnsGrows
<1> QED BY <1>1 DEF Share

LEMMA PortionNat ==
    ASSUME NEW earned \in Nat, NEW part \in Nat
    PROVE  Portion(earned, part) \in Nat
BY RoundedNat, ProfitAssumption DEF Portion

LEMMA PortionGrows ==
    ASSUME NEW few \in Nat, NEW earned \in Nat, few <= earned,
           NEW part \in Nat, NEW more \in Nat, part <= more
    PROVE  Portion(few, part) <= Portion(earned, more)
BY RoundedGrows, ProfitAssumption DEF Portion

LEMMA MostIs ==
    ASSUME NEW a \in Nat, NEW b \in Nat, NEW c \in Nat, NEW d \in Nat, a <= b, c <= d
    PROVE  /\ Most(c, a) \in Nat /\ c <= Most(c, a) /\ a <= Most(c, a)
           /\ Most(c, a) <= Most(d, b) /\ Most(d, b) \in Nat
BY DEF Most

\* What is owed of a sum, rounded either way.
LEMMA MostGrows ==
    ASSUME NEW m \in Module, NEW sum \in Nat, NEW more \in Nat, sum <= more
    PROVE  /\ Most(Portion(Share[m], sum), Earns(m, sum)) \in Nat
           /\ Portion(Share[m], sum) <= Most(Portion(Share[m], sum), Earns(m, sum))
           /\ Earns(m, sum) <= Most(Portion(Share[m], sum), Earns(m, sum))
           /\ Most(Portion(Share[m], sum), Earns(m, sum))
                <= Most(Portion(Share[m], more), Earns(m, more))
           /\ Most(Portion(Share[m], more), Earns(m, more)) \in Nat
<1>1. PICK a \in Nat, b \in Nat : a = Earns(m, sum) /\ b = Earns(m, more) /\ a <= b
  BY EarnsGrows
<1>2. PICK c \in Nat, d \in Nat :
        c = Portion(Share[m], sum) /\ d = Portion(Share[m], more) /\ c <= d
  <2>1. Share[m] \in Nat /\ Share[m] <= Share[m]
    BY ShareNat
  <2>2. Portion(Share[m], sum) \in Nat /\ Portion(Share[m], more) \in Nat
    BY <2>1, PortionNat
  <2>3. Portion(Share[m], sum) <= Portion(Share[m], more)
    BY <2>1, PortionGrows
  <2> QED BY <2>2, <2>3
<1>3. /\ Most(c, a) \in Nat /\ c <= Most(c, a) /\ a <= Most(c, a)
      /\ Most(c, a) <= Most(d, b) /\ Most(d, b) \in Nat
  BY <1>1, <1>2, MostIs
<1> QED BY <1>1, <1>2, <1>3

\* What a clawback aims at is no more than the refunds come to.
LEMMA TargetBounded ==
    ASSUME NEW few \in Nat, NEW earned \in Nat, few <= earned,
           NEW part \in Nat, NEW more \in Nat, part <= more
    PROVE  /\ ClawbackTarget(few, part) \in Nat
           /\ ClawbackTarget(few, part) <= Portion(earned, more)
<1>1. Least(part, OrderAmount) \in Nat /\ Least(part, OrderAmount) <= more
  BY ProfitAssumption DEF Least
<1> QED BY <1>1, PortionNat, PortionGrows DEF ClawbackTarget

\* The months' shares: the last takes what the division leaves.
LEMMA Even ==
    ASSUME NEW m \in Module
    PROVE  LET even == Share[m] \div Months[m] n == Months[m]
           IN /\ even \in Nat /\ n \in Nat \ {0} /\ Share[m] \in Nat
              /\ even * (n - 1) \in Nat /\ even * n <= Share[m]
              /\ even * n = even * (n - 1) + even
<1>1. Share[m] \in Nat /\ Months[m] \in Nat \ {0}
  BY ShareNat, ProfitAssumption
<1>2. PICK n \in Nat \ {0} : n = Months[m]
  BY <1>1
<1>3. PICK even \in Nat : even = Share[m] \div n /\ even * n <= Share[m]
  BY <1>1, <1>2, Quotient
<1>4. n - 1 \in Nat
  BY <1>2
<1>5. even * (n - 1) \in Nat
  BY <1>4, Product
<1>6. even * n = even * (n - 1) + even
  BY <1>3, <1>2
<1> QED BY <1>1, <1>2, <1>3, <1>5, <1>6

LEMMA MonthlyShares ==
    ASSUME NEW m \in Module, NEW i \in Nat
    PROVE  MonthlyShare(m, i) \in Nat /\ MonthlyShare(m, i) <= Share[m]
<1>1. PICK even \in Nat : even = Share[m] \div Months[m]
  BY Even
<1>2. PICK most \in Nat : most = even * (Months[m] - 1)
  BY <1>1, Even
<1>3. Share[m] \in Nat /\ most + even <= Share[m]
  BY <1>1, <1>2, Even
<1> QED BY <1>1, <1>2, <1>3 DEF MonthlyShare

-----------------------------------------------------------------------------
RowKey == Module \X Nat \X Copy
Job == {"refund", "reconcile", "recalculate"}

\* A settled refund as it was read.
RefundRow == Refund \X (Nat \ {0})

RunRecord ==
    [pc : RunPc, job : Job, then : {"idle", "turning", "reconciling", "deleting"},
     amount : Nat, seen : Nat, refunds : SUBSET RefundRow, rest : SUBSET ShareRow,
     row : {<<>>} \cup RowKey]

ClerkRecord == [ids : SUBSET RowKey, to : {"none", "gone"} \cup Status]

RefundsFit(status, sums) ==
    /\ status \in [Refund -> {"SUBMITTED", "SETTLED", "deleted"}]
    /\ sums \in [Refund -> Nat \ {0}]

Shapes ==
    /\ RefundsFit(refund, amount)
    /\ records \subseteq ShareRow
    /\ runs \in [Run -> RunRecord]
    /\ clerk \in ClerkRecord
    /\ mishaps \subseteq Allowed

\* A clawback has no month, and a share has the amount of its month.
Sized(r) ==
    /\ r.status = "CLAWBACK" <=> r.month = 0
    /\ r.month # 0 => r.month <= Months[r.module] /\ r.amount = MonthlyShare(r.module, r.month)

Held(r) == Sized(r) /\ r.status \in Live /\ r.module \in Refundable

RowsOK ==
    /\ \A x, y \in records : Id(x) = Id(y) => x = y
    /\ \A r \in records : Sized(r)
    /\ \A p \in Run : \A r \in runs[p].rest : Held(r)

\* Where a run of each job can be.
Clawing == {"finding", "picking", "adding"}
Calculating == {"reading", "publishing"}

Placed(r) ==
    \/ r.pc = "idle"
    \/ r.job = "refund" /\ r.then = "idle" /\ r.pc \in Clawing
    \/ /\ r.job \in {"reconcile", "recalculate"} /\ r.then = "turning"
       /\ r.pc \in {"turning"} \cup Clawing \cup Calculating
    \/ /\ r.job = "recalculate" /\ r.then = "reconciling"
       /\ r.pc \in {"weighing"} \cup Clawing \cup Calculating
    \/ r.job = "recalculate" /\ r.then # "turning" /\ r.pc = "reconciling"
    \/ r.job = "recalculate" /\ r.then = "deleting" /\ r.pc = "deleting"

PlacesOK ==
    \A p \in Run :
      /\ Placed(runs[p])
      /\ runs[p].pc \notin {"picking", "adding"} => runs[p].rest = {}
      /\ runs[p].pc = "adding" => \E r \in runs[p].rest : Id(r) = runs[p].row

\* What is under way together has met.
Meetings ==
    /\ \A p, q \in Busy : p # q => {runs[p].job, runs[q].job} \in mishaps
    /\ clerk # NoClerk => \A p \in Busy : {runs[p].job, "clerk"} \in mishaps

ClerkOK ==
    /\ clerk.to = "none" => clerk.ids = {}
    /\ clerk.to # "CLAWBACK"
    /\ clerk.to = "CANCELLED" => {"cancelled"} \in mishaps
    /\ clerk.to = "gone" => {"deleted"} \in mishaps
    /\ clerk.to # "gone" => \A i \in clerk.ids : i[2] # 0
    /\ \A r \in records : r.status = "CANCELLED" => {"cancelled"} \in mishaps

ProfitInv == Shapes /\ RowsOK /\ PlacesOK /\ Meetings /\ ClerkOK

-----------------------------------------------------------------------------
(* Sums *)

LEMMA UnitsAre ==
    ASSUME NEW key, NEW number \in Nat
    PROVE  IsFiniteSet(Units(key, number)) /\ Cardinality(Units(key, number)) = number
<1>1. IsFiniteSet({key}) /\ Cardinality({key}) = 1
  BY FS_Singleton
<1>2. IsFiniteSet(1 .. number) /\ Cardinality(1 .. number) = number
  BY FS_Interval
<1>3. /\ IsFiniteSet({key} \X (1 .. number))
      /\ Cardinality({key} \X (1 .. number)) = Cardinality({key}) * Cardinality(1 .. number)
  BY <1>1, <1>2, FS_Product, Zenon
<1> QED BY <1>1, <1>2, <1>3 DEF Units

UnitsOf(S) == UNION {Units(Id(r), r.amount) : r \in S}

LEMMA UnitsFinite ==
    ASSUME NEW S \in SUBSET ShareRow, IsFiniteSet(S)
    PROVE  IsFiniteSet(UnitsOf(S))
<1>1. PICK T : T = {Units(Id(r), r.amount) : r \in S}
  OBVIOUS
<1>2. PICK f : f = [r \in S |-> Units(Id(r), r.amount)]
  OBVIOUS
<1>3. f \in Surjection(S, T)
  BY <1>1, <1>2 DEF Surjection
<1>4. IsFiniteSet(T)
  BY <1>3, FS_Surjection
<1>5. \A U \in T : IsFiniteSet(U)
  BY <1>1, UnitsAre DEF ShareRow
<1> QED BY <1>1, <1>4, <1>5, FS_UNION DEF UnitsOf

\* More rows come to no less.
LEMMA TotalGrows ==
    ASSUME NEW T \in SUBSET ShareRow, IsFiniteSet(T), NEW S \in SUBSET T
    PROVE  TotalOf(S) \in Nat /\ TotalOf(T) \in Nat /\ TotalOf(S) <= TotalOf(T)
<1>1. IsFiniteSet(UnitsOf(T)) /\ UnitsOf(S) \subseteq UnitsOf(T)
  BY UnitsFinite DEF UnitsOf
<1>2. IsFiniteSet(UnitsOf(S)) /\ Cardinality(UnitsOf(S)) <= Cardinality(UnitsOf(T))
  BY <1>1, FS_Subset
<1> QED BY <1>1, <1>2, FS_CardinalityType DEF TotalOf, UnitsOf

LEMMA TotalAdds ==
    ASSUME NEW S \in SUBSET ShareRow, IsFiniteSet(S), NEW c \in ShareRow,
           \A r \in S : Id(r) # Id(c)
    PROVE  TotalOf(S \cup {c}) = TotalOf(S) + c.amount
<1>1. PICK U : U = Units(Id(c), c.amount)
  OBVIOUS
<1>2. IsFiniteSet(U) /\ Cardinality(U) = c.amount
  BY <1>1, UnitsAre DEF ShareRow
<1>3. UnitsOf(S \cup {c}) = UnitsOf(S) \cup U
  BY <1>1 DEF UnitsOf
<1>4. UnitsOf(S) \cap U = {}
  BY <1>1 DEF UnitsOf, Units
<1>5. IsFiniteSet(UnitsOf(S)) /\ Cardinality(UnitsOf(S)) \in Nat
  BY UnitsFinite, FS_CardinalityType
<1>6. /\ Cardinality(UnitsOf(S) \cup U)
           = Cardinality(UnitsOf(S)) + Cardinality(U) - Cardinality(UnitsOf(S) \cap U)
      /\ Cardinality(UnitsOf(S) \cap U) = 0
  BY <1>2, <1>4, <1>5, FS_Union, FS_EmptySet
<1>7. c.amount \in Nat
  BY DEF ShareRow
<1>8. TotalOf(S) = Cardinality(UnitsOf(S))
  BY DEF TotalOf, UnitsOf
<1>9. TotalOf(S \cup {c}) = Cardinality(UnitsOf(S) \cup U)
  BY <1>3 DEF TotalOf, UnitsOf
<1> QED BY <1>2, <1>5, <1>6, <1>7, <1>8, <1>9

LEMMA TotalNone == TotalOf({}) = 0
BY FS_EmptySet DEF TotalOf

\* There are finitely many rows with ids of their own.
LEMMA RowsFinite ==
    ASSUME NEW S \in SUBSET ShareRow, \A x, y \in S : Id(x) = Id(y) => x = y,
           \A r \in S : Sized(r)
    PROVE  IsFiniteSet(S)
<1>1. PICK f : f = [m \in Module |-> ({m} \X (0 .. Months[m])) \X Copy]
  OBVIOUS
<1>2. PICK T : T = {f[m] : m \in Module}
  OBVIOUS
<1>3. IsFiniteSet(T)
  <2>1. f \in Surjection(Module, T)
    BY <1>1, <1>2 DEF Surjection
  <2> QED BY <2>1, FS_Surjection, ProfitAssumption
<1>4. \A U \in T : IsFiniteSet(U)
  <2> SUFFICES ASSUME NEW m \in Module PROVE IsFiniteSet(f[m])
    BY <1>1, <1>2
  <2>1. IsFiniteSet({m}) /\ IsFiniteSet(0 .. Months[m]) /\ IsFiniteSet(Copy)
    <3>1. Months[m] \in Int /\ MaxCopies \in Int
      BY ProfitAssumption
    <3>2. IsFiniteSet(0 .. Months[m]) /\ IsFiniteSet(1 .. MaxCopies)
      BY <3>1, FS_Interval
    <3> QED BY <3>2, FS_Singleton DEF Copy
  <2> QED BY <1>1, <2>1, FS_Product
<1>5. IsFiniteSet(UNION T)
  BY <1>3, <1>4, FS_UNION
<1>6. PICK g : g = [r \in S |-> <<<<r.module, r.month>>, r.copy>>]
  OBVIOUS
<1>7. g \in [S -> UNION T]
  <2> SUFFICES ASSUME NEW r \in S PROVE <<<<r.module, r.month>>, r.copy>> \in UNION T
    BY <1>6
  <2>1. r.module \in Module /\ r.month \in Nat /\ r.copy \in Copy
    BY DEF ShareRow
  <2>2. r.month \in 0 .. Months[r.module]
    BY <2>1, ProfitAssumption DEF Sized
  <2>3. <<<<r.module, r.month>>, r.copy>> \in f[r.module]
    BY <1>1, <2>1, <2>2
  <2> QED BY <1>2, <2>1, <2>3
<1>8. g \in Injection(S, UNION T)
  BY <1>6, <1>7 DEF Injection, IsInjective, Id
<1> QED BY <1>5, <1>8, FS_Injection

-----------------------------------------------------------------------------
(* Rows *)

LEMMA FreshIs ==
    ASSUME NEW r \in ShareRow, Unused(r) # {}
    PROVE  /\ Fresh(r) \in ShareRow /\ Id(Fresh(r)) \notin Known
           /\ Fresh(r).module = r.module /\ Fresh(r).month = r.month
           /\ Fresh(r).amount = r.amount /\ Fresh(r).status = r.status
<1>1. PICK k : k = CHOOSE i \in Unused(r) : TRUE
  OBVIOUS
<1>2. k \in Unused(r)
  BY <1>1
<1>3. k \in Copy /\ <<r.module, r.month, k>> \notin Known
  BY <1>2 DEF Unused
<1> QED BY <1>1, <1>3 DEF Fresh, ShareRow, Id

\* Rows that can be inserted together.
Insertable(rows) ==
    /\ rows \subseteq ShareRow
    /\ \A r \in rows : Sized(r) /\ r.status \in {"PENDING", "CLAWBACK"}
    /\ \A x, y \in rows : x.module = y.module /\ x.month = y.month => x = y

LEMMA Inserted ==
    ASSUME Shapes, RowsOK, NEW rows, Insertable(rows), Insert(rows)
    PROVE  /\ records' \subseteq ShareRow
           /\ \A x, y \in records' : Id(x) = Id(y) => x = y
           /\ \A r \in records' : Sized(r)
           /\ \A r \in records' : r.status = "CANCELLED" => r \in records
<1>1. \A r \in rows : /\ Fresh(r) \in ShareRow /\ Id(Fresh(r)) \notin Known
                      /\ Fresh(r).module = r.module /\ Fresh(r).month = r.month
                      /\ Fresh(r).amount = r.amount /\ Fresh(r).status = r.status
  BY FreshIs DEF Insert, Insertable
<1>2. PICK new : new = {Fresh(r) : r \in rows} /\ records' = records \cup new
  BY DEF Insert
<1>3. \A x \in new : /\ x \in ShareRow /\ Id(x) \notin Known /\ Sized(x)
                     /\ x.status # "CANCELLED"
  BY <1>1, <1>2 DEF Insertable, Sized
<1>4. \A x \in records : Id(x) \in Known
  BY DEF Known
<1>5. \A x, y \in new : Id(x) = Id(y) => x = y
  <2> SUFFICES ASSUME NEW x \in rows, NEW y \in rows, Id(Fresh(x)) = Id(Fresh(y))
               PROVE  Fresh(x) = Fresh(y)
    BY <1>2
  <2>1. x.module = y.module /\ x.month = y.month
    BY <1>1 DEF Id
  <2> QED BY <2>1 DEF Insertable
<1> QED BY <1>2, <1>3, <1>4, <1>5 DEF Shapes, RowsOK

\* What an order generates: each month's share, and clawbacks of what is
\* refunded.
LEMMA EarnedIs ==
    ASSUME NEW m \in Module, NEW i \in Nat
    PROVE  /\ Earned(m, i) \in ShareRow /\ Earned(m, i).module = m /\ Earned(m, i).month = i
           /\ Earned(m, i).amount = MonthlyShare(m, i) /\ Earned(m, i).status = "PENDING"
<1>1. PICK n \in Nat : n = MonthlyShare(m, i)
  BY MonthlyShares
<1>2. 1 \in Copy
  BY ProfitAssumption DEF Copy
<1> QED BY <1>1, <1>2 DEF Earned, ShareRow, Status

LEMMA TakenBackIs ==
    ASSUME NEW m \in Module, NEW refunded \in Nat
    PROVE  /\ TakenBack(m, refunded) \in ShareRow
           /\ TakenBack(m, refunded).module = m /\ TakenBack(m, refunded).month = 0
           /\ TakenBack(m, refunded).amount = Earns(m, refunded)
           /\ TakenBack(m, refunded).status = "CLAWBACK"
<1>1. refunded <= refunded
  OBVIOUS
<1>2. PICK n \in Nat : n = Earns(m, refunded)
  BY <1>1, EarnsGrows
<1>3. 1 \in Copy
  BY ProfitAssumption DEF Copy
<1> QED BY <1>2, <1>3 DEF TakenBack, ShareRow, Status

LEMMA InGenerated ==
    ASSUME NEW refunded, NEW r
    PROVE  r \in Generated(refunded) <=>
             \/ \E m \in Module : \E i \in 1 .. Months[m] : r = Earned(m, i)
             \/ \E m \in Refundable : Earns(m, refunded) > 0 /\ r = TakenBack(m, refunded)
<1>1. ASSUME NEW m \in Module, NEW i \in 1 .. Months[m], r = Earned(m, i)
      PROVE  r \in Generated(refunded)
  <2>1. r \in {Earned(m, k) : k \in 1 .. Months[m]}
    BY <1>1
  <2>2. {Earned(m, k) : k \in 1 .. Months[m]}
          \in {{Earned(x, k) : k \in 1 .. Months[x]} : x \in Module}
    OBVIOUS
  <2>3. r \in UNION {{Earned(x, k) : k \in 1 .. Months[x]} : x \in Module}
    BY <2>1, <2>2, Zenon
  <2> QED BY <2>3, Zenon DEF Generated
<1>2. ASSUME NEW m \in Refundable, Earns(m, refunded) > 0, r = TakenBack(m, refunded)
      PROVE  r \in Generated(refunded)
  BY <1>2 DEF Generated
<1>3. ASSUME r \in Generated(refunded)
      PROVE  \/ \E m \in Module : \E i \in 1 .. Months[m] : r = Earned(m, i)
             \/ \E m \in Refundable : Earns(m, refunded) > 0 /\ r = TakenBack(m, refunded)
  <2>1. CASE r \in UNION {{Earned(x, k) : k \in 1 .. Months[x]} : x \in Module}
    <3>1. PICK S \in {{Earned(x, k) : k \in 1 .. Months[x]} : x \in Module} : r \in S
      BY <2>1
    <3>2. PICK m \in Module : S = {Earned(m, k) : k \in 1 .. Months[m]}
      BY <3>1
    <3> QED BY <3>1, <3>2
  <2>2. CASE r \in {TakenBack(m, refunded) :
                      m \in {x \in Refundable : Earns(x, refunded) > 0}}
    BY <2>2
  <2> QED BY <1>3, <2>1, <2>2, Zenon DEF Generated
<1> QED BY <1>1, <1>2, <1>3

LEMMA GeneratedRows ==
    ASSUME NEW refunded \in Nat
    PROVE  /\ Insertable(Generated(refunded))
           /\ \A m \in Module : \A i \in 1 .. Months[m] :
                \E r \in Generated(refunded) :
                  r.module = m /\ r.month = i /\ r.status = "PENDING"
           /\ \A r \in Generated(refunded) : r.status = "CLAWBACK" =>
                r.module \in Refundable /\ r.amount = Earns(r.module, refunded)
<1>1. \A m \in Module : Months[m] \in Nat \ {0}
  BY ProfitAssumption
<1>2. ASSUME NEW r \in Generated(refunded)
      PROVE  \/ /\ r.module \in Module /\ r.month \in 1 .. Months[r.module]
                /\ r = Earned(r.module, r.month)
             \/ /\ r.module \in Refundable /\ r.module \in Module
                /\ r = TakenBack(r.module, refunded)
  <2>1. CASE \E m \in Module : \E i \in 1 .. Months[m] : r = Earned(m, i)
    <3>1. PICK m \in Module : \E i \in 1 .. Months[m] : r = Earned(m, i)
      BY <2>1
    <3>2. PICK i \in 1 .. Months[m] : r = Earned(m, i)
      BY <3>1
    <3>3. i \in Nat
      BY <1>1
    <3> QED BY <3>2, <3>3, EarnedIs
  <2>2. CASE \E m \in Refundable : r = TakenBack(m, refunded)
    <3>1. PICK m \in Refundable : r = TakenBack(m, refunded)
      BY <2>2
    <3>2. m \in Module
      BY ProfitAssumption
    <3> QED BY <3>1, <3>2, TakenBackIs
  <2> QED BY <2>1, <2>2, InGenerated, Zenon
<1>3. ASSUME NEW r \in Generated(refunded)
      PROVE  /\ r \in ShareRow /\ Sized(r) /\ r.status \in {"PENDING", "CLAWBACK"}
             /\ r.month # 0 => r = Earned(r.module, r.month)
             /\ r.month = 0 => r = TakenBack(r.module, refunded)
             /\ r.status = "CLAWBACK" =>
                  r.module \in Refundable /\ r.amount = Earns(r.module, refunded)
  <2>1. CASE /\ r.module \in Module /\ r.month \in 1 .. Months[r.module]
             /\ r = Earned(r.module, r.month)
    <3>1. r.month \in Nat \ {0} /\ r.month <= Months[r.module]
      BY <1>1, <2>1
    <3>2. /\ r \in ShareRow /\ r.amount = MonthlyShare(r.module, r.month)
          /\ r.status = "PENDING"
      BY <2>1, <3>1, EarnedIs
    <3> QED BY <2>1, <3>1, <3>2 DEF Sized
  <2>2. CASE /\ r.module \in Refundable /\ r.module \in Module
             /\ r = TakenBack(r.module, refunded)
    <3>1. /\ r \in ShareRow /\ r.month = 0 /\ r.status = "CLAWBACK"
          /\ r.amount = Earns(r.module, refunded)
      BY <2>2, TakenBackIs
    <3> QED BY <2>2, <3>1 DEF Sized
  <2> QED BY <1>2, <2>1, <2>2
<1>4. \A x, y \in Generated(refunded) : x.module = y.module /\ x.month = y.month => x = y
  BY <1>3
<1>5. ASSUME NEW m \in Module, NEW i \in 1 .. Months[m]
      PROVE  \E r \in Generated(refunded) :
               r.module = m /\ r.month = i /\ r.status = "PENDING"
  <2>1. i \in Nat
    BY <1>1
  <2>2. Earned(m, i) \in Generated(refunded)
    BY InGenerated, Zenon
  <2> QED BY <2>1, <2>2, EarnedIs
<1> QED BY <1>3, <1>4, <1>5 DEF Insertable

-----------------------------------------------------------------------------
(* The types, and where runs and the clerk can be *)

LEMMA NoRunIs == NoRun \in RunRecord /\ NoRun.pc = "idle" /\ NoRun.rest = {} /\ Placed(NoRun)
BY DEF NoRun, RunRecord, RunPc, Job, Placed

LEMMA NoClerkIs == NoClerk \in ClerkRecord /\ NoClerk.ids = {} /\ NoClerk.to = "none"
BY DEF NoClerk, ClerkRecord

LEMMA StartsOK == ProfitInit => ProfitInv
<1> SUFFICES ASSUME ProfitInit PROVE ProfitInv
  OBVIOUS
<1>1. \A p \in Run : runs[p] = NoRun
  BY DEF ProfitInit
<1>2. Shapes
  BY NoRunIs, NoClerkIs, ProfitAssumption DEF ProfitInit, Shapes, RefundsFit
<1>3. RowsOK /\ PlacesOK
  BY <1>1, NoRunIs DEF ProfitInit, RowsOK, PlacesOK
<1>4. Meetings /\ ClerkOK
  BY <1>1, NoRunIs, NoClerkIs DEF ProfitInit, Meetings, ClerkOK, Busy, At
<1> QED BY <1>2, <1>3, <1>4 DEF ProfitInv

\* A run's own record, as it should be.
Fits(r) ==
    /\ r \in RunRecord /\ Placed(r)
    /\ \A x \in r.rest : Held(x)
    /\ r.pc \notin {"picking", "adding"} => r.rest = {}
    /\ r.pc = "adding" => \E x \in r.rest : Id(x) = r.row

LEMMA RunFits == ASSUME ProfitInv, NEW p \in Run PROVE Fits(runs[p])
BY DEF ProfitInv, Shapes, RowsOK, PlacesOK, Fits

RowsFit(rows) ==
    /\ rows \subseteq ShareRow
    /\ \A x, y \in rows : Id(x) = Id(y) => x = y
    /\ \A r \in rows : Sized(r)
    /\ \A r \in rows : r.status = "CANCELLED" => {"cancelled"} \in mishaps

LEMMA RowsFitNow == ASSUME ProfitInv PROVE RowsFit(records)
BY DEF ProfitInv, Shapes, RowsOK, ClerkOK, RowsFit

\* A run that is under way goes on or ends.
LEMMA RunGoesOn ==
    ASSUME ProfitInv, NEW p \in Run, NEW r, Fits(r), runs' = [runs EXCEPT ![p] = r],
           UNCHANGED <<refunds, clerk>>, RowsFit(records'),
           mishaps \subseteq mishaps', mishaps' \subseteq Allowed,
           r.pc = "idle" \/ (runs[p].pc # "idle" /\ r.job = runs[p].job)
    PROVE  ProfitInv'
<1>1. runs'[p] = r /\ \A q \in Run : q # p => runs'[q] = runs[q]
  BY DEF ProfitInv, Shapes
<1>2. Shapes'
  BY <1>1 DEF ProfitInv, Shapes, Fits, RowsFit, refunds
<1>3. RowsOK' /\ PlacesOK'
  <2>1. \A q \in Run : Fits(runs'[q])
    BY <1>1, RunFits
  <2> QED BY <2>1 DEF RowsFit, RowsOK, PlacesOK, Fits
<1>4. Meetings'
  <2>1. \A q \in Run : runs'[q].pc # "idle" => runs[q].pc # "idle" /\ runs'[q].job = runs[q].job
    BY <1>1
  <2> QED BY <2>1 DEF ProfitInv, Meetings, Busy, At
<1>5. ClerkOK'
  BY DEF ProfitInv, ClerkOK, RowsFit
<1> QED BY <1>2, <1>3, <1>4, <1>5 DEF ProfitInv

\* A run begins, and what it meets is noted.
LEMMA RunBegins ==
    ASSUME ProfitInv, NEW p \in Run, NEW r, Fits(r), runs' = [runs EXCEPT ![p] = r],
           UNCHANGED <<records, clerk>>, RefundsFit(refund', amount'),
           Note(Meets(r.job)), At(p, "idle")
    PROVE  ProfitInv'
<1>1. runs'[p] = r /\ \A q \in Run : q # p => runs'[q] = runs[q]
  BY DEF ProfitInv, Shapes
<1>2. /\ mishaps' = mishaps \cup Meets(r.job) /\ mishaps' \subseteq Allowed
  BY DEF Note, Recordable, ProfitInv, Shapes
<1>3. Shapes'
  BY <1>1, <1>2 DEF ProfitInv, Shapes, Fits
<1>4. RowsOK' /\ PlacesOK'
  <2>1. \A q \in Run : Fits(runs'[q])
    BY <1>1, RunFits
  <2> QED BY <2>1 DEF ProfitInv, RowsOK, PlacesOK, Fits
<1>5. Meetings'
  <2>1. \A q \in Busy : {r.job, runs[q].job} \in mishaps'
    BY <1>2 DEF Meets
  <2>2. clerk # NoClerk => {r.job, "clerk"} \in mishaps'
    BY <1>2 DEF Meets, IfSo
  <2>3. \A q \in Run : q # p /\ runs'[q].pc # "idle" => q \in Busy /\ runs'[q].job = runs[q].job
    BY <1>1 DEF Busy, At
  <2>4. ASSUME NEW x \in Busy', NEW y \in Busy', x # y
        PROVE  {runs'[x].job, runs'[y].job} \in mishaps'
    <3>1. CASE x = p
      BY <1>1, <2>1, <2>3, <2>4, <3>1 DEF Busy, At
    <3>2. CASE y = p
      <4>1. {runs'[x].job, r.job} = {r.job, runs[x].job}
        BY <1>1, <2>4, <3>2
      <4> QED BY <1>1, <2>1, <2>3, <2>4, <3>2, <4>1 DEF Busy, At
    <3>3. CASE x # p /\ y # p
      BY <1>2, <2>3, <2>4, <3>3 DEF ProfitInv, Meetings, Busy, At
    <3> QED BY <3>1, <3>2, <3>3
  <2>5. ASSUME clerk' # NoClerk, NEW x \in Busy'
        PROVE  {runs'[x].job, "clerk"} \in mishaps'
    <3>1. CASE x = p
      BY <1>1, <2>2, <2>5, <3>1
    <3>2. CASE x # p
      BY <1>2, <2>3, <2>5, <3>2 DEF ProfitInv, Meetings, Busy, At
    <3> QED BY <3>1, <3>2
  <2> QED BY <2>4, <2>5 DEF Meetings
<1>6. ClerkOK'
  BY <1>2 DEF ProfitInv, ClerkOK
<1> QED BY <1>3, <1>4, <1>5, <1>6 DEF ProfitInv

-----------------------------------------------------------------------------
(* What each step of a run does *)

Turns(p, r) ==
    /\ Fits(r) /\ runs' = [runs EXCEPT ![p] = r]
    /\ runs'[p] = r /\ \A q \in Run : q # p => runs'[q] = runs[q]

LEMMA Turned ==
    ASSUME ProfitInv, NEW p \in Run, NEW r, Fits(r), Put(p, r)
    PROVE  Turns(p, r)
BY DEF Turns, Put, ProfitInv, Shapes

Same(r, s) == r.job = s.job /\ r.then = s.then /\ r.refunds = s.refunds

LEMMA SumUnits ==
    ASSUME NEW S \in SUBSET Refund, NEW sums \in [Refund -> Nat \ {0}], NEW U,
           U = UNION {Units(f, sums[f]) : f \in S}
    PROVE  /\ IsFiniteSet(U) /\ Cardinality(U) \in Nat
           /\ \A f \in S : sums[f] <= Cardinality(U) /\ sums[f] \in Nat
<1>1. IsFiniteSet(S)
  BY ProfitAssumption, FS_Subset
<1>2. PICK T : T = {Units(f, sums[f]) : f \in S}
  OBVIOUS
<1>3. PICK g : g = [f \in S |-> Units(f, sums[f])]
  OBVIOUS
<1>4. g \in Surjection(S, T)
  BY <1>2, <1>3 DEF Surjection
<1>5. \A f \in S : sums[f] \in Nat /\ IsFiniteSet(Units(f, sums[f]))
                   /\ Cardinality(Units(f, sums[f])) = sums[f]
  BY UnitsAre
<1>6. U = UNION T /\ IsFiniteSet(U)
  <2>1. IsFiniteSet(T)
    BY <1>1, <1>4, FS_Surjection
  <2> QED BY <1>2, <1>5, <2>1, FS_UNION
<1>7. Cardinality(U) \in Nat
  BY <1>6, FS_CardinalityType
<1>8. ASSUME NEW f \in S PROVE sums[f] <= Cardinality(U)
  <2>1. Units(f, sums[f]) \in SUBSET U
    BY <1>2, <1>6
  <2> QED BY <1>5, <1>6, <2>1, FS_Subset
<1> QED BY <1>5, <1>6, <1>7, <1>8

LEMMA Sums ==
    ASSUME ProfitInv
    PROVE  /\ IsFiniteSet(records) /\ SettledSum \in Nat
           /\ \A m : Clawed(m) \in Nat
           /\ \A f \in Settled : amount[f] <= SettledSum /\ amount[f] \in Nat
<1>1. IsFiniteSet(records) /\ records \in SUBSET ShareRow
  BY RowsFinite DEF ProfitInv, Shapes, RowsOK
<1>2. \A m : Clawed(m) \in Nat
  BY <1>1, TotalGrows DEF Clawed
<1>3. Settled \in SUBSET Refund /\ amount \in [Refund -> Nat \ {0}]
  BY DEF Settled, ProfitInv, Shapes, RefundsFit
<1>4. SettledSum \in Nat /\ \A f \in Settled : amount[f] <= SettledSum /\ amount[f] \in Nat
  BY <1>3, SumUnits DEF SettledSum
<1> QED BY <1>1, <1>2, <1>4

LEMMA OwedNat == ASSUME ProfitInv, NEW m \in Module PROVE Owed(m) \in Nat
<1>1. SettledSum \in Nat /\ SettledSum <= SettledSum
  BY Sums
<1> QED BY <1>1, MostGrows DEF Owed

\* The refunds as a query reads them.
LEMMA RowsRead ==
    ASSUME ProfitInv
    PROVE  /\ SettledRows \in SUBSET RefundRow
           /\ \A f \in Settled : <<f, amount[f]>> \in SettledRows
           /\ \A row \in SettledRows : row[2] <= SettledSum
<1>1. \A f \in Settled : f \in Refund /\ amount[f] \in Nat \ {0}
  BY DEF Settled, ProfitInv, Shapes, RefundsFit
<1> QED BY <1>1, Sums DEF SettledRows, RefundRow

LEMMA FindDoes ==
    ASSUME ProfitInv, NEW p \in Run, FindRecords(p)
    PROVE  \E r : /\ Turns(p, r) /\ Same(r, runs[p]) /\ r.pc = "picking"
                  /\ r.rest = RefundableRows /\ r.amount = runs[p].amount
                  /\ runs[p].pc = "finding"
<1>1. PICK r : r = [runs[p] EXCEPT !.pc = "picking", !.rest = RefundableRows]
  OBVIOUS
<1>2. runs[p] \in RunRecord /\ Placed(runs[p]) /\ runs[p].pc = "finding"
  BY RunFits DEF Fits, FindRecords, At
<1>3. RefundableRows \in SUBSET ShareRow
  BY DEF RefundableRows, ProfitInv, Shapes
<1>4. /\ r \in RunRecord /\ r.pc = "picking" /\ r.rest = RefundableRows
      /\ r.amount = runs[p].amount /\ Same(r, runs[p])
  BY <1>1, <1>2, <1>3 DEF RunRecord, RunPc, Same
<1>5. Placed(r)
  BY <1>2, <1>4 DEF Placed, Clawing, Calculating, Same
<1>6. \A x \in r.rest : Held(x)
  BY <1>4 DEF RefundableRows, Held, ProfitInv, RowsOK
<1>7. Fits(r)
  BY <1>4, <1>5, <1>6 DEF Fits
<1> QED BY <1>1, <1>2, <1>4, <1>7, Turned DEF FindRecords

LEMMA SumDoes ==
    ASSUME ProfitInv, NEW p \in Run, SumClawbacks(p)
    PROVE  \/ \E r, x : /\ Turns(p, r) /\ Same(r, runs[p]) /\ r.pc = "adding"
                        /\ x \in r.rest /\ r.row = Id(x) /\ r.seen = Clawed(x.module)
                        /\ r.rest = runs[p].rest /\ r.amount = runs[p].amount
                        /\ runs[p].pc = "picking"
           \/ /\ runs[p].pc = "picking" /\ runs[p].rest = {}
              /\ \/ Turns(p, NoRun)
                 \/ \E r : /\ Turns(p, r) /\ Same(r, runs[p]) /\ r.rest = {}
                           /\ r.pc = r.then /\ r.pc \in {"turning", "reconciling"}
<1>1. runs[p] \in RunRecord /\ Placed(runs[p]) /\ runs[p].pc = "picking"
      /\ \A x \in runs[p].rest : Held(x)
  BY RunFits DEF Fits, SumClawbacks, At
<1>2. ASSUME NEW x \in runs[p].rest,
             Put(p, [runs[p] EXCEPT !.pc = "adding", !.row = Id(x), !.seen = Clawed(x.module)])
      PROVE  \E r : /\ Turns(p, r) /\ Same(r, runs[p]) /\ r.pc = "adding"
                    /\ x \in r.rest /\ r.row = Id(x) /\ r.seen = Clawed(x.module)
                    /\ r.rest = runs[p].rest /\ r.amount = runs[p].amount
    <2>1. PICK r : r = [runs[p] EXCEPT !.pc = "adding", !.row = Id(x), !.seen = Clawed(x.module)]
      OBVIOUS
    <2>2. Id(x) \in RowKey /\ Clawed(x.module) \in Nat
      BY <1>1, Sums DEF RunRecord, ShareRow, Id, RowKey
    <2>3. /\ r \in RunRecord /\ Same(r, runs[p]) /\ r.pc = "adding" /\ r.rest = runs[p].rest
          /\ r.amount = runs[p].amount /\ r.row = Id(x) /\ r.seen = Clawed(x.module)
      BY <1>1, <2>1, <2>2 DEF RunRecord, RunPc, Same
    <2>4. Placed(r)
      BY <1>1, <2>3 DEF Placed, Clawing, Calculating, Same
    <2>5. Fits(r)
      BY <1>1, <2>3, <2>4 DEF Fits
    <2> QED BY <1>2, <2>1, <2>3, <2>5, Turned
<1>3. ASSUME runs[p].rest = {}, runs[p].then = "idle", Put(p, NoRun)
      PROVE  Turns(p, NoRun)
  <2>1. Fits(NoRun)
    BY NoRunIs DEF Fits
  <2> QED BY <1>3, <2>1, Turned
<1>4. ASSUME runs[p].rest = {}, runs[p].then # "idle",
             Put(p, [runs[p] EXCEPT !.pc = runs[p].then, !.amount = 0])
      PROVE  \E r : /\ Turns(p, r) /\ Same(r, runs[p]) /\ r.rest = {}
                    /\ r.pc = r.then /\ r.pc \in {"turning", "reconciling"}
    <2>1. PICK r : r = [runs[p] EXCEPT !.pc = runs[p].then, !.amount = 0]
      OBVIOUS
    <2>2. runs[p].then \in {"turning", "reconciling"}
      BY <1>1, <1>4 DEF Placed
    <2>3. /\ r \in RunRecord /\ Same(r, runs[p]) /\ r.pc = r.then /\ r.rest = {}
          /\ r.then = runs[p].then
      BY <1>1, <1>4, <2>1, <2>2 DEF RunRecord, RunPc, Same
    <2>4. Placed(r)
      BY <1>1, <2>2, <2>3 DEF Placed, Clawing, Calculating, Same
    <2>5. Fits(r)
      BY <2>2, <2>3, <2>4 DEF Fits
    <2> QED BY <1>4, <2>1, <2>2, <2>3, <2>5, Turned
<1> QED BY <1>1, <1>2, <1>3, <1>4 DEF SumClawbacks

LEMMA TargetNat ==
    ASSUME NEW earned \in Nat, NEW part \in Nat
    PROVE  ClawbackTarget(earned, part) \in Nat
<1>1. earned <= earned /\ part <= part
  OBVIOUS
<1> QED BY <1>1, TargetBounded

\* A clawback is one more row, or none.
Charge(m, missing) ==
    \/ missing <= 0 /\ UNCHANGED records
    \/ /\ missing > 0
       /\ \E c \in ShareRow : /\ c.status = "CLAWBACK" /\ c.module = m /\ c.amount = missing
                              /\ records' = records \cup {c}
                              /\ \A y \in records : Id(y) # Id(c)

LEMMA AddDoes ==
    ASSUME ProfitInv, NEW p \in Run, AddClawback(p)
    PROVE  /\ runs[p].pc = "adding" /\ RowsFit(records')
           /\ \E r, x : /\ Turns(p, r) /\ Same(r, runs[p]) /\ r.pc = "picking"
                        /\ x \in runs[p].rest /\ Id(x) = runs[p].row /\ Held(x)
                        /\ x \in ShareRow
                        /\ r.rest = runs[p].rest \ {x} /\ r.amount = runs[p].amount
                        /\ Charge(x.module,
                                  ClawbackTarget(x.amount, runs[p].amount) - runs[p].seen)
<1>1. runs[p] \in RunRecord /\ Placed(runs[p]) /\ runs[p].pc = "adding"
      /\ \A x \in runs[p].rest : Held(x)
  BY RunFits DEF Fits, AddClawback, At
<1>2. PICK x \in runs[p].rest :
        /\ Id(x) = runs[p].row
        /\ LET missing == ClawbackTarget(x.amount, runs[p].amount) - runs[p].seen
           IN IF missing > 0
              THEN Insert({[module |-> x.module, month |-> 0, copy |-> 1, amount |-> missing,
                            status |-> "CLAWBACK"]})
              ELSE UNCHANGED records
        /\ Put(p, [runs[p] EXCEPT !.pc = "picking", !.rest = @ \ {x}, !.row = <<>>, !.seen = 0])
  BY DEF AddClawback
<1>3. x \in ShareRow /\ Held(x)
  BY <1>1 DEF RunRecord
<1>4. PICK r : r = [runs[p] EXCEPT !.pc = "picking", !.rest = @ \ {x}, !.row = <<>>, !.seen = 0]
  OBVIOUS
<1>5. /\ r \in RunRecord /\ Same(r, runs[p]) /\ r.pc = "picking"
      /\ r.rest = runs[p].rest \ {x} /\ r.amount = runs[p].amount
  BY <1>1, <1>4 DEF RunRecord, RunPc, Same
<1>6. Placed(r)
  BY <1>1, <1>5 DEF Placed, Clawing, Calculating, Same
<1>7. Turns(p, r)
  <2>1. Fits(r)
    BY <1>1, <1>5, <1>6 DEF Fits
  <2> QED BY <1>2, <1>4, <2>1, Turned
<1>8. PICK missing \in Int :
        missing = ClawbackTarget(x.amount, runs[p].amount) - runs[p].seen
  <2>1. x.amount \in Nat /\ runs[p].amount \in Nat /\ runs[p].seen \in Nat
    BY <1>1, <1>3 DEF ShareRow, RunRecord
  <2>2. ClawbackTarget(x.amount, runs[p].amount) \in Nat
    BY <2>1, TargetNat
  <2> QED BY <2>1, <2>2
<1>9. Charge(x.module, missing) /\ RowsFit(records')
  <2>1. CASE missing <= 0
    <3>1. UNCHANGED records
      BY <1>2, <1>8, <2>1
    <3> QED BY <2>1, <3>1, RowsFitNow DEF Charge
  <2>2. CASE missing > 0
    <3>1. PICK c : c = [module |-> x.module, month |-> 0, copy |-> 1, amount |-> missing,
                        status |-> "CLAWBACK"]
      OBVIOUS
    <3>2. Insert({c})
      BY <1>2, <1>8, <2>2, <3>1
    <3>3. c \in ShareRow /\ Sized(c) /\ c.status = "CLAWBACK" /\ c.module = x.module
          /\ c.amount = missing
      <4>1. x.module \in Module /\ missing \in Nat /\ 1 \in Copy
        BY <1>3, <1>8, <2>2, ProfitAssumption DEF ShareRow, Copy
      <4> QED BY <3>1, <4>1 DEF ShareRow, Sized, Status
    <3>4. Insertable({c})
      BY <3>3 DEF Insertable
    <3>5. Unused(c) # {} /\ records' = records \cup {Fresh(c)}
      BY <3>2 DEF Insert
    <3>6. /\ Fresh(c) \in ShareRow /\ Id(Fresh(c)) \notin Known
          /\ Fresh(c).module = x.module /\ Fresh(c).amount = missing
          /\ Fresh(c).status = "CLAWBACK"
      BY <3>3, <3>5, FreshIs
    <3>7. \A y \in records : Id(y) # Id(Fresh(c))
      BY <3>6 DEF Known
    <3>8. RowsFit(records')
      BY <3>2, <3>4, Inserted DEF ProfitInv, ClerkOK, RowsFit
    <3> QED BY <2>2, <3>5, <3>6, <3>7, <3>8 DEF Charge
  <2> QED BY <1>8, <2>1, <2>2
<1> QED BY <1>1, <1>2, <1>3, <1>5, <1>7, <1>8, <1>9

LEMMA CheckDoes ==
    ASSUME ProfitInv, NEW p \in Run, CheckShares(p)
    PROVE  \E r, row : /\ Turns(p, r) /\ r.job = runs[p].job /\ r.then = "turning"
                       /\ row \in runs[p].refunds /\ r.refunds = runs[p].refunds \ {row}
                       /\ row \in RefundRow /\ r.amount = row[2] /\ r.rest = {}
                       /\ runs[p].pc = "turning" /\ runs[p].then = "turning"
                       /\ \/ r.pc = "reading" /\ RefundableRows = {}
                          \/ r.pc = "finding" /\ RefundableRows # {}
<1>1. runs[p] \in RunRecord /\ Placed(runs[p]) /\ runs[p].pc = "turning" /\ runs[p].rest = {}
  BY RunFits DEF Fits, CheckShares, At
<1>2. PICK row \in runs[p].refunds :
        Put(p, [runs[p] EXCEPT !.pc = IF RefundableRows = {} THEN "reading" ELSE "finding",
                               !.amount = row[2], !.refunds = @ \ {row}])
  BY DEF CheckShares
<1>3. PICK pc : pc = IF RefundableRows = {} THEN "reading" ELSE "finding"
  OBVIOUS
<1>4. PICK r : r = [runs[p] EXCEPT !.pc = pc, !.amount = row[2], !.refunds = @ \ {row}]
  OBVIOUS
<1>5. row \in RefundRow /\ row[2] \in Nat
  BY <1>1 DEF RunRecord, RefundRow
<1>6. runs[p].then = "turning" /\ runs[p].job \in {"reconcile", "recalculate"}
  BY <1>1 DEF Placed, Clawing, Calculating
<1>7. /\ r \in RunRecord /\ r.job = runs[p].job /\ r.then = "turning" /\ r.pc = pc
      /\ r.rest = {} /\ r.amount = row[2] /\ r.refunds = runs[p].refunds \ {row}
  BY <1>1, <1>3, <1>4, <1>5, <1>6 DEF RunRecord, RunPc
<1>8. pc \in {"reading", "finding"}
  BY <1>3
<1>9. Fits(r)
  BY <1>6, <1>7, <1>8 DEF Fits, Placed, Clawing, Calculating
<1> QED BY <1>1, <1>2, <1>3, <1>4, <1>5, <1>6, <1>7, <1>9, Turned

LEMMA ReadDoes ==
    ASSUME ProfitInv, NEW p \in Run, ReadOrder(p)
    PROVE  \E r : /\ Turns(p, r) /\ Same(r, runs[p]) /\ r.pc = "publishing"
                  /\ r.seen = SettledSum /\ r.rest = {} /\ r.amount = runs[p].amount
                  /\ runs[p].pc = "reading"
<1>1. runs[p] \in RunRecord /\ Placed(runs[p]) /\ runs[p].pc = "reading" /\ runs[p].rest = {}
  BY RunFits DEF Fits, ReadOrder, At
<1>2. PICK r : r = [runs[p] EXCEPT !.pc = "publishing", !.seen = SettledSum]
  OBVIOUS
<1>3. /\ r \in RunRecord /\ Same(r, runs[p]) /\ r.pc = "publishing" /\ r.seen = SettledSum
      /\ r.rest = {} /\ r.amount = runs[p].amount
  BY <1>1, <1>2, Sums DEF RunRecord, RunPc, Same
<1>4. Fits(r)
  BY <1>1, <1>3 DEF Fits, Placed, Clawing, Calculating, Same
<1> QED BY <1>1, <1>2, <1>3, <1>4, Turned DEF ReadOrder

LEMMA PublishDoes ==
    ASSUME ProfitInv, NEW p \in Run, PublishShares(p)
    PROVE  /\ runs[p].pc = "publishing" /\ RowsFit(records') /\ runs[p].seen \in Nat
           /\ Insert(Generated(runs[p].seen))
           /\ \E r : /\ Turns(p, r) /\ r.job = runs[p].job /\ r.rest = {}
                     /\ \/ runs[p].then = "reconciling" /\ r.pc = "reconciling" /\ r.refunds = {}
                           /\ r.then = "idle"
                        \/ /\ runs[p].then = "turning" /\ r.pc = "finding" /\ Same(r, runs[p])
                           /\ r.amount = runs[p].amount
<1>1. runs[p] \in RunRecord /\ Placed(runs[p]) /\ runs[p].pc = "publishing"
      /\ runs[p].rest = {} /\ runs[p].seen \in Nat
  BY RunFits DEF Fits, PublishShares, At, RunRecord
<1>2. Insert(Generated(runs[p].seen))
  BY DEF PublishShares
<1>3. RowsFit(records')
  BY <1>1, <1>2, GeneratedRows, Inserted DEF ProfitInv, ClerkOK, RowsFit
<1>4. CASE runs[p].then = "reconciling"
  <2>1. PICK r : r = [NoRun EXCEPT !.pc = "reconciling", !.job = "recalculate"]
    OBVIOUS
  <2>2. /\ r \in RunRecord /\ r.pc = "reconciling" /\ r.job = "recalculate"
        /\ r.rest = {} /\ r.refunds = {} /\ r.then = "idle"
    BY <2>1 DEF NoRun, RunRecord, RunPc, Job
  <2>3. runs[p].job = "recalculate"
    BY <1>1, <1>4 DEF Placed
  <2>4. Fits(r)
    BY <2>2 DEF Fits, Placed
  <2> QED BY <1>1, <1>2, <1>3, <1>4, <2>1, <2>2, <2>3, <2>4, Turned DEF PublishShares
<1>5. CASE runs[p].then # "reconciling"
  <2>1. PICK r : r = [runs[p] EXCEPT !.pc = "finding", !.seen = 0]
    OBVIOUS
  <2>2. /\ r \in RunRecord /\ r.pc = "finding" /\ Same(r, runs[p]) /\ r.rest = {}
        /\ r.amount = runs[p].amount
    BY <1>1, <2>1 DEF RunRecord, RunPc, Same
  <2>3. runs[p].then = "turning" /\ runs[p].job \in {"reconcile", "recalculate"}
    BY <1>1, <1>5 DEF Placed, Clawing
  <2>4. Fits(r)
    BY <2>2, <2>3 DEF Fits, Placed, Clawing, Same
  <2>5. Turns(p, r) /\ r.job = runs[p].job
    BY <1>5, <2>1, <2>2, <2>4, Turned DEF PublishShares, Same
  <2> QED BY <1>1, <1>2, <1>3, <2>2, <2>3, <2>5
<1> QED BY <1>4, <1>5

LEMMA WeighDoes ==
    ASSUME ProfitInv, NEW p \in Run, WeighLocked(p)
    PROVE  \E r : /\ Turns(p, r) /\ Same(r, runs[p]) /\ r.pc \in {"finding", "reconciling"}
                  /\ r.amount = SettledSum /\ r.rest = {}
                  /\ r.then = "reconciling"
                  /\ runs[p].pc = "weighing"
<1>1. runs[p] \in RunRecord /\ Placed(runs[p]) /\ runs[p].pc = "weighing" /\ runs[p].rest = {}
  BY RunFits DEF Fits, WeighLocked, At
<1>2. PICK pc \in {"finding", "reconciling"} :
        pc = IF SettledSum > 0 THEN "finding" ELSE "reconciling"
  OBVIOUS
<1>3. PICK r : r = [runs[p] EXCEPT !.pc = pc, !.amount = SettledSum]
  OBVIOUS
<1>4. runs[p].job = "recalculate" /\ runs[p].then = "reconciling"
  BY <1>1 DEF Placed, Clawing, Calculating
<1>5. /\ r \in RunRecord /\ Same(r, runs[p]) /\ r.pc = pc /\ r.rest = {}
      /\ r.amount = SettledSum
  BY <1>1, <1>2, <1>3, Sums DEF RunRecord, RunPc, Same
<1>6. Fits(r)
  BY <1>2, <1>4, <1>5 DEF Fits, Placed, Clawing, Same
<1> QED BY <1>1, <1>2, <1>3, <1>4, <1>5, <1>6, Turned DEF WeighLocked, Same

LEMMA DeleteDoes ==
    ASSUME ProfitInv, NEW p \in Run, DeleteUnsettled(p)
    PROVE  /\ runs[p].pc = "deleting" /\ runs[p].job = "recalculate" /\ RowsFit(records')
           /\ \E r : /\ Turns(p, r) /\ r.job = "recalculate" /\ r.pc = "reading"
                     /\ r.refunds = runs[p].refunds /\ r.rest = {}
                     /\ r.then = "reconciling"
<1>1. runs[p] \in RunRecord /\ Placed(runs[p]) /\ runs[p].pc = "deleting" /\ runs[p].rest = {}
  BY RunFits DEF Fits, DeleteUnsettled, At
<1>2. PICK r : r = [runs[p] EXCEPT !.pc = "reading", !.then = "reconciling"]
  OBVIOUS
<1>3. runs[p].job = "recalculate"
  BY <1>1 DEF Placed, Clawing, Calculating
<1>4. /\ r \in RunRecord /\ r.job = "recalculate" /\ r.pc = "reading" /\ r.rest = {}
      /\ r.then = "reconciling" /\ r.refunds = runs[p].refunds
  BY <1>1, <1>2, <1>3 DEF RunRecord, RunPc
<1>5. Fits(r)
  BY <1>4 DEF Fits, Placed, Calculating
<1>6. RowsFit(records')
  BY RowsFitNow DEF DeleteUnsettled, RowsFit
<1> QED BY <1>1, <1>2, <1>3, <1>4, <1>5, <1>6, Turned DEF DeleteUnsettled

LEMMA RestartDoes ==
    ASSUME ProfitInv, NEW p \in Run, StartReconcile(p)
    PROVE  \E r : /\ Turns(p, r) /\ r.job = "recalculate" /\ r.pc = "turning" /\ r.rest = {}
                  /\ r.then = "turning" /\ r.refunds = SettledRows
                  /\ runs[p].pc = "reconciling" /\ runs[p].job = "recalculate"
<1>1. runs[p].pc = "reconciling" /\ Placed(runs[p])
  BY RunFits DEF Fits, StartReconcile, At
<1>2. PICK r : r = [NoRun EXCEPT !.pc = "turning", !.job = "recalculate",
                                 !.then = "turning", !.refunds = SettledRows]
  OBVIOUS
<1>3. runs[p].job = "recalculate"
  BY <1>1 DEF Placed, Clawing, Calculating
<1>4. /\ r \in RunRecord /\ r.pc = "turning" /\ r.job = "recalculate" /\ r.rest = {}
      /\ r.then = "turning" /\ r.refunds = SettledRows
  BY <1>2, RowsRead DEF NoRun, RunRecord, RunPc, Job
<1>5. Fits(r)
  BY <1>4 DEF Fits, Placed
<1> QED BY <1>1, <1>2, <1>3, <1>4, <1>5, Turned DEF StartReconcile

LEMMA DieDoes ==
    ASSUME ProfitInv, NEW p \in Run, Die(p)
    PROVE  p \in Busy /\ Turns(p, NoRun)
<1>1. Fits(NoRun)
  BY NoRunIs DEF Fits
<1> QED BY <1>1, Turned DEF Die

LEMMA CatchDoes ==
    ASSUME ProfitInv, NEW p \in Run, CatchFailure(p)
    PROVE  /\ {"uncalculated"} \in mishaps'
           /\ \E r : /\ Turns(p, r) /\ Same(r, runs[p]) /\ r.pc = "finding" /\ r.rest = {}
                     /\ r.amount = runs[p].amount
                     /\ runs[p].pc \in Calculating /\ r.then = "turning"
<1>1. runs[p] \in RunRecord /\ Placed(runs[p])
      /\ (runs[p].pc \notin {"picking", "adding"} => runs[p].rest = {})
  BY RunFits DEF Fits
<1>2. /\ runs[p].pc \in {"reading", "publishing"} /\ runs[p].then = "turning"
      /\ Put(p, [runs[p] EXCEPT !.pc = "finding", !.seen = 0])
      /\ {"uncalculated"} \in mishaps'
  BY DEF CatchFailure, Note
<1>3. PICK r : r = [runs[p] EXCEPT !.pc = "finding", !.seen = 0]
  OBVIOUS
<1>4. /\ r \in RunRecord /\ r.pc = "finding" /\ Same(r, runs[p]) /\ r.rest = {}
      /\ r.amount = runs[p].amount
  BY <1>1, <1>2, <1>3 DEF RunRecord, RunPc, Same
<1>5. runs[p].job \in {"reconcile", "recalculate"}
  BY <1>1, <1>2 DEF Placed, Clawing
<1>6. Fits(r)
  BY <1>2, <1>4, <1>5 DEF Fits, Placed, Clawing, Same
<1> QED BY <1>2, <1>3, <1>4, <1>6, Turned DEF Calculating, Same

LEMMA FinishDoes ==
    ASSUME ProfitInv, NEW p \in Run, FinishReconcile(p)
    PROVE  Turns(p, NoRun) /\ runs[p].pc = "turning" /\ runs[p].refunds = {}
<1>1. Fits(NoRun)
  BY NoRunIs DEF Fits
<1> QED BY <1>1, Turned DEF FinishReconcile, At

LEMMA SettleDoes ==
    ASSUME ProfitInv, NEW f \in Refund, NEW h \in Refunder, SettleRefund(f, h)
    PROVE  /\ h \in Run /\ At(h, "idle") /\ Note(Meets("refund")) /\ amount[f] \in Nat
           /\ RefundsFit(refund', amount')
           /\ Settled' = Settled \cup {f}
           /\ \E r : /\ Turns(h, r) /\ r.job = "refund" /\ r.pc = "finding" /\ r.rest = {}
                     /\ r.refunds = {} /\ r.amount = amount[f]
                     /\ r.then = "idle"
<1>1. h \in Run /\ amount[f] \in Nat
  BY DEF Run, ProfitInv, Shapes, RefundsFit
<1>2. PICK r : r = [NoRun EXCEPT !.pc = "finding", !.amount = amount[f]]
  OBVIOUS
<1>3. /\ r \in RunRecord /\ r.pc = "finding" /\ r.job = "refund" /\ r.rest = {}
      /\ r.then = "idle" /\ r.refunds = {} /\ r.amount = amount[f]
  BY <1>1, <1>2 DEF NoRun, RunRecord, RunPc, Job
<1>4. Fits(r)
  BY <1>3 DEF Fits, Placed, Clawing
<1>5. Turns(h, r)
  BY <1>1, <1>2, <1>4, Turned DEF SettleRefund
<1>6. /\ RefundsFit(refund', amount')
      /\ Settled' = Settled \cup {f}
  BY DEF SettleRefund, Settled, ProfitInv, Shapes, RefundsFit
<1> QED BY <1>1, <1>3, <1>5, <1>6 DEF SettleRefund

LEMMA ReconcileDoes ==
    ASSUME ProfitInv, NEW p \in Run, Reconcile(p)
    PROVE  /\ At(p, "idle") /\ Note(Meets("reconcile"))
           /\ \E r : /\ Turns(p, r) /\ r.job = "reconcile" /\ r.pc = "turning" /\ r.rest = {}
                     /\ r.then = "turning" /\ r.refunds = SettledRows
<1>1. PICK r : r = [NoRun EXCEPT !.pc = "turning", !.job = "reconcile", !.then = "turning",
                                 !.refunds = SettledRows]
  OBVIOUS
<1>2. /\ r \in RunRecord /\ r.pc = "turning" /\ r.job = "reconcile" /\ r.rest = {}
      /\ r.then = "turning" /\ r.refunds = SettledRows
  BY <1>1, RowsRead DEF NoRun, RunRecord, RunPc, Job
<1>3. Fits(r)
  BY <1>2 DEF Fits, Placed
<1> QED BY <1>1, <1>2, <1>3, Turned DEF Reconcile

LEMMA RecalculateDoes ==
    ASSUME ProfitInv, NEW p \in Run, Recalculate(p)
    PROVE  /\ At(p, "idle") /\ Note(Meets("recalculate"))
           /\ \E r : /\ Turns(p, r) /\ r.job = "recalculate" /\ r.rest = {} /\ r.refunds = {}
                     /\ \/ r.pc = "weighing" /\ r.then = "reconciling"
                        \/ /\ r.pc = "deleting" /\ r.then = "deleting"
                           /\ \A x \in records : x.status # "SETTLED"
<1>1. PICK locked \in BOOLEAN : locked = \E r \in records : r.status = "SETTLED"
  OBVIOUS
<1>2. PICK r : r = [NoRun EXCEPT !.pc = IF locked THEN "weighing" ELSE "deleting",
                                 !.job = "recalculate",
                                 !.then = IF locked THEN "reconciling" ELSE "deleting"]
  OBVIOUS
<1>3. /\ r \in RunRecord /\ r.job = "recalculate" /\ r.rest = {} /\ r.refunds = {}
      /\ locked => r.pc = "weighing" /\ r.then = "reconciling"
      /\ ~locked => r.pc = "deleting" /\ r.then = "deleting"
  BY <1>1, <1>2 DEF NoRun, RunRecord, RunPc, Job
<1>4. Fits(r)
  BY <1>1, <1>3 DEF Fits, Placed
<1>5. Put(p, r)
  BY <1>1, <1>2 DEF Recalculate
<1> QED BY <1>1, <1>3, <1>4, <1>5, Turned DEF Recalculate

-----------------------------------------------------------------------------
(* What the settlement and the clerk do *)

Alike(x, y) ==
    Id(x) = Id(y) /\ x.module = y.module /\ x.month = y.month /\ x.amount = y.amount

\* Rows take another status, and keep the rest.
Restates(rows, s) ==
    /\ \A x \in records : \E y \in records' :
         Alike(x, y) /\ (IF x \in rows THEN y.status = s ELSE y = x)
    /\ \A y \in records' : \E x \in records :
         Alike(x, y) /\ (IF x \in rows THEN y.status = s ELSE y = x)
    /\ {c \in records' : c.status = "CLAWBACK"} = {c \in records : c.status = "CLAWBACK"}

LEMMA Restated ==
    ASSUME ProfitInv, NEW rows \in SUBSET records, NEW s \in Status \ {"CLAWBACK"},
           \A r \in rows : r.month # 0,
           s = "CANCELLED" => {"cancelled"} \in mishaps,
           records' = (records \ rows) \cup {[r EXCEPT !.status = s] : r \in rows}
    PROVE  Restates(rows, s) /\ RowsFit(records')
<1>1. RowsFit(records)
  BY RowsFitNow
<1>2. PICK f : f = [r \in rows |-> [r EXCEPT !.status = s]]
  OBVIOUS
<1>3. \A r \in rows : f[r] \in ShareRow /\ Alike(r, f[r]) /\ f[r].status = s
  BY <1>1, <1>2 DEF RowsFit, ShareRow, Alike, Id
<1>4. records' = (records \ rows) \cup {f[r] : r \in rows}
  BY <1>2
<1>5. \A r \in rows : r.status # "CLAWBACK" /\ f[r].status # "CLAWBACK"
  BY <1>1, <1>3 DEF RowsFit, Sized
<1>6. Restates(rows, s)
  <2>1. \A x \in records : \E y \in records' :
          Alike(x, y) /\ (IF x \in rows THEN y.status = s ELSE y = x)
    BY <1>3, <1>4 DEF Alike
  <2>2. \A y \in records' : \E x \in records :
          Alike(x, y) /\ (IF x \in rows THEN y.status = s ELSE y = x)
    BY <1>3, <1>4 DEF Alike
  <2>3. {c \in records' : c.status = "CLAWBACK"} = {c \in records : c.status = "CLAWBACK"}
    BY <1>4, <1>5
  <2> QED BY <2>1, <2>2, <2>3 DEF Restates
<1>7. \A r \in rows : Sized(f[r])
  <2> SUFFICES ASSUME NEW r \in rows PROVE Sized(f[r])
    OBVIOUS
  <2>1. Sized(r)
    BY <1>1 DEF RowsFit
  <2> QED BY <1>3, <1>5, <2>1 DEF Sized, Alike
<1>8. RowsFit(records')
  <2>1. records' \subseteq ShareRow
    BY <1>1, <1>3, <1>4 DEF RowsFit
  <2>2. \A x, y \in records' : Id(x) = Id(y) => x = y
    <3> SUFFICES ASSUME NEW x \in records', NEW y \in records', Id(x) = Id(y)
                 PROVE  x = y
      OBVIOUS
    <3>1. PICK u \in records : Alike(u, x) /\ (IF u \in rows THEN x = f[u] ELSE x = u)
      BY <1>3, <1>4 DEF Alike
    <3>2. PICK v \in records : Alike(v, y) /\ (IF v \in rows THEN y = f[v] ELSE y = v)
      BY <1>3, <1>4 DEF Alike
    <3>3. u = v
      BY <1>1, <3>1, <3>2 DEF RowsFit, Alike
    <3> QED BY <3>1, <3>2, <3>3
  <2>3. \A r \in records' : Sized(r)
    BY <1>1, <1>4, <1>7 DEF RowsFit
  <2>4. \A r \in records' : r.status = "CANCELLED" => {"cancelled"} \in mishaps
    BY <1>1, <1>3, <1>4 DEF RowsFit
  <2> QED BY <2>1, <2>2, <2>3, <2>4 DEF RowsFit
<1> QED BY <1>6, <1>8

LEMMA DueDoes ==
    ASSUME ProfitInv, SettleDue
    PROVE  /\ RowsFit(records')
           /\ \E rows \in SUBSET records : /\ \A r \in rows : r.status = "PENDING"
                                           /\ Restates(rows, "SETTLED")
<1>1. PICK due \in SUBSET Module :
        LET rows == {r \in records : r.module \in due /\ r.status = "PENDING"}
        IN records' = (records \ rows) \cup {[r EXCEPT !.status = "SETTLED"] : r \in rows}
  BY DEF SettleDue
<1>2. PICK rows \in SUBSET records :
        rows = {r \in records : r.module \in due /\ r.status = "PENDING"}
  OBVIOUS
<1>3. \A r \in rows : r.month # 0 /\ r.status = "PENDING"
  BY <1>2, RowsFitNow DEF RowsFit, Sized
<1>4. "SETTLED" \in Status \ {"CLAWBACK"}
  BY DEF Status
<1>5. records' = (records \ rows) \cup {[r EXCEPT !.status = "SETTLED"] : r \in rows}
  BY <1>1, <1>2
<1>6. Restates(rows, "SETTLED") /\ RowsFit(records')
  BY <1>3, <1>4, <1>5, Restated
<1> QED BY <1>3, <1>6

\* The clerk writes what was asked, or takes rows away.
LEMMA WriteDoes ==
    ASSUME ProfitInv, ClerkWrite
    PROVE  /\ RowsFit(records') /\ clerk # NoClerk /\ clerk' = NoClerk
           /\ \/ clerk.to = "gone" /\ {"deleted"} \in mishaps /\ records' \subseteq records
              \/ /\ clerk.to \in {"PENDING", "SETTLED", "CANCELLED"}
                 /\ clerk.to = "CANCELLED" => {"cancelled"} \in mishaps
                 /\ \E rows \in SUBSET records : /\ Restates(rows, clerk.to)
                                                 /\ \A r \in rows : r.month # 0
<1>1. PICK rows \in SUBSET records : rows = {r \in records : Id(r) \in clerk.ids}
  OBVIOUS
<1>2. records' = (records \ rows) \cup IF clerk.to = "gone" THEN {}
                                       ELSE {[r EXCEPT !.status = clerk.to] : r \in rows}
  BY <1>1 DEF ClerkWrite
<1>3. clerk # NoClerk /\ clerk' = NoClerk
  BY DEF ClerkWrite
<1>4. clerk.to # "none"
  <2>1. clerk.to = "none" => clerk = NoClerk
    BY DEF ProfitInv, ClerkOK, Shapes, ClerkRecord, NoClerk
  <2> QED BY <1>3, <2>1
<1>5. CASE clerk.to = "gone"
  <2>1. records' \subseteq records /\ {"deleted"} \in mishaps
    BY <1>2, <1>5 DEF ProfitInv, ClerkOK
  <2>2. RowsFit(records')
    BY <2>1, RowsFitNow DEF RowsFit
  <2> QED BY <1>3, <1>5, <2>1, <2>2
<1>6. CASE clerk.to # "gone"
  <2>1. clerk.to \in Status \ {"CLAWBACK"}
    BY <1>4, <1>6 DEF ProfitInv, Shapes, ClerkRecord, ClerkOK
  <2>2. \A r \in rows : r.month # 0
    BY <1>1, <1>6 DEF ProfitInv, ClerkOK, Id
  <2>3. clerk.to = "CANCELLED" => {"cancelled"} \in mishaps
    BY DEF ProfitInv, ClerkOK
  <2>4. records' = (records \ rows) \cup {[r EXCEPT !.status = clerk.to] : r \in rows}
    BY <1>2, <1>6
  <2>5. Restates(rows, clerk.to) /\ RowsFit(records')
    BY <2>1, <2>2, <2>3, <2>4, Restated
  <2> QED BY <1>3, <2>1, <2>2, <2>3, <2>5 DEF Status
<1> QED BY <1>5, <1>6

ClerkFits(c, kinds) ==
    /\ c \in ClerkRecord
    /\ c.to = "none" => c.ids = {}
    /\ c.to # "CLAWBACK"
    /\ c.to = "CANCELLED" => {"cancelled"} \in kinds
    /\ c.to = "gone" => {"deleted"} \in kinds
    /\ c.to # "gone" => \A i \in c.ids : i[2] # 0

LEMMA ReadingDoes ==
    ASSUME ProfitInv, ClerkRead
    PROVE  /\ ClerkFits(clerk', mishaps') /\ UNCHANGED <<refunds, records, runs>>
           /\ mishaps \subseteq mishaps' /\ mishaps' \subseteq Allowed
           /\ Meets("clerk") \subseteq mishaps'
<1>1. \A r \in records : /\ Id(r) \in RowKey /\ r.status \in Status
                         /\ r.status # "CLAWBACK" => Id(r)[2] # 0
  BY RowsFitNow DEF RowsFit, ShareRow, Id, RowKey, Sized
<1>2. mishaps \subseteq Allowed
  BY DEF ProfitInv, Shapes
<1>3. ASSUME NEW op \in ClerkOp, NEW r \in records, r.status = op.from,
             clerk' = [ids |-> {Id(r)}, to |-> op.to],
             Note(Meets("clerk") \cup IfSo({"cancelled"}, op.to = "CANCELLED")
                    \cup IfSo({"deleted"}, op.to = "gone"))
      PROVE  /\ ClerkFits(clerk', mishaps')
             /\ mishaps \subseteq mishaps' /\ mishaps' \subseteq Allowed
             /\ Meets("clerk") \subseteq mishaps'
  <2>1. /\ op.to \in {"PENDING", "SETTLED", "CANCELLED", "gone"}
        /\ op.to # "gone" => op.from # "CLAWBACK"
    BY DEF ClerkOp, Status
  <2>2. /\ mishaps \subseteq mishaps' /\ mishaps' \subseteq Allowed
        /\ Meets("clerk") \subseteq mishaps'
        /\ op.to = "CANCELLED" => {"cancelled"} \in mishaps'
        /\ op.to = "gone" => {"deleted"} \in mishaps'
    BY <1>2, <1>3 DEF Note, Recordable, IfSo
  <2>3. clerk'.ids = {Id(r)} /\ clerk'.to = op.to
    BY <1>3
  <2>4. clerk' \in ClerkRecord
    BY <1>1, <1>3, <2>1 DEF ClerkRecord, Status
  <2>5. clerk'.to # "gone" => \A i \in clerk'.ids : i[2] # 0
    BY <1>1, <1>3, <2>1, <2>3
  <2> QED BY <2>1, <2>2, <2>3, <2>4, <2>5 DEF ClerkFits
<1>4. ASSUME NEW pending, pending = {r \in records : r.status = "PENDING"},
             clerk' = [ids |-> {Id(r) : r \in pending}, to |-> "SETTLED"],
             Note(Meets("clerk"))
      PROVE  /\ ClerkFits(clerk', mishaps')
             /\ mishaps \subseteq mishaps' /\ mishaps' \subseteq Allowed
             /\ Meets("clerk") \subseteq mishaps'
  <2>1. /\ mishaps \subseteq mishaps' /\ mishaps' \subseteq Allowed
        /\ Meets("clerk") \subseteq mishaps'
    BY <1>2, <1>4 DEF Note, Recordable
  <2>2. clerk'.ids = {Id(r) : r \in pending} /\ clerk'.to = "SETTLED"
    BY <1>4
  <2>3. \A i \in clerk'.ids : i \in RowKey /\ i[2] # 0
    BY <1>1, <1>4, <2>2
  <2>4. clerk' \in ClerkRecord
    <3>1. {Id(r) : r \in pending} \in SUBSET RowKey
      BY <2>2, <2>3
    <3> QED BY <1>4, <3>1 DEF ClerkRecord, Status
  <2> QED BY <2>1, <2>2, <2>3, <2>4 DEF ClerkFits
<1>5. UNCHANGED <<refunds, records, runs>>
  BY DEF ClerkRead
<1>6. CASE \E op \in ClerkOp, r \in records :
             /\ r.status = op.from
             /\ clerk' = [ids |-> {Id(r)}, to |-> op.to]
             /\ Note(Meets("clerk") \cup IfSo({"cancelled"}, op.to = "CANCELLED")
                       \cup IfSo({"deleted"}, op.to = "gone"))
  BY <1>3, <1>5, <1>6
<1>7. CASE LET pending == {r \in records : r.status = "PENDING"}
           IN /\ pending # {}
              /\ clerk' = [ids |-> {Id(r) : r \in pending}, to |-> "SETTLED"]
              /\ Note(Meets("clerk"))
  <2>1. PICK pending : pending = {r \in records : r.status = "PENDING"}
    OBVIOUS
  <2>2. clerk' = [ids |-> {Id(r) : r \in pending}, to |-> "SETTLED"] /\ Note(Meets("clerk"))
    BY <1>7, <2>1
  <2> QED BY <1>4, <1>5, <2>1, <2>2
<1> QED BY <1>6, <1>7 DEF ClerkRead

LEMMA RunStepKeeps ==
    ASSUME ProfitInv, NEW p \in Run, Step(p)
    PROVE  ProfitInv' /\ UNCHANGED <<refunds, clerk, mishaps>>
<1>0. RowsFit(records) /\ mishaps \subseteq Allowed
  BY RowsFitNow DEF ProfitInv, Shapes
<1> DEFINE Goes(r) == /\ Turns(p, r) /\ RowsFit(records') /\ UNCHANGED <<refunds, clerk, mishaps>>
                      /\ r.pc = "idle" \/ (runs[p].pc # "idle" /\ r.job = runs[p].job)
<1>1. ASSUME NEW r, Goes(r)
      PROVE  ProfitInv' /\ UNCHANGED <<refunds, clerk, mishaps>>
  BY <1>0, <1>1, RunGoesOn DEF Turns
<1>2. CASE FindRecords(p)
  BY <1>0, <1>1, <1>2, FindDoes DEF FindRecords, Same
<1>3. CASE SumClawbacks(p)
  BY <1>0, <1>1, <1>3, SumDoes, NoRunIs DEF SumClawbacks, Same
<1>4. CASE AddClawback(p)
  BY <1>0, <1>1, <1>4, AddDoes DEF AddClawback, Same
<1>5. CASE CheckShares(p)
  BY <1>0, <1>1, <1>5, CheckDoes DEF CheckShares, Same
<1>6. CASE FinishReconcile(p)
  BY <1>0, <1>1, <1>6, FinishDoes, NoRunIs DEF FinishReconcile
<1>7. CASE ReadOrder(p)
  BY <1>0, <1>1, <1>7, ReadDoes DEF ReadOrder, Same
<1>8. CASE PublishShares(p)
  BY <1>0, <1>1, <1>8, PublishDoes DEF PublishShares, Same
<1>9. CASE WeighLocked(p)
  BY <1>0, <1>1, <1>9, WeighDoes DEF WeighLocked, Same
<1>10. CASE DeleteUnsettled(p)
  BY <1>0, <1>1, <1>10, DeleteDoes DEF DeleteUnsettled, Same
<1>11. CASE StartReconcile(p)
  BY <1>0, <1>1, <1>11, RestartDoes DEF StartReconcile, Same
<1> HIDE DEF Goes
<1> QED BY <1>2, <1>3, <1>4, <1>5, <1>6, <1>7, <1>8, <1>9, <1>10, <1>11 DEF Step

LEMMA FailKeeps ==
    ASSUME ProfitInv, NEW p \in Run, Die(p) \/ CatchFailure(p)
    PROVE  ProfitInv'
<1>1. RowsFit(records') /\ mishaps \subseteq mishaps' /\ mishaps' \subseteq Allowed
      /\ UNCHANGED <<refunds, clerk>>
  BY RowsFitNow DEF Die, CatchFailure, Note, Recordable, RowsFit, ProfitInv, Shapes
<1>2. ASSUME NEW r, Turns(p, r), r.pc = "idle" \/ (runs[p].pc # "idle" /\ r.job = runs[p].job)
      PROVE  ProfitInv'
  BY <1>1, <1>2, RunGoesOn DEF Turns
<1>3. CASE Die(p)
  BY <1>2, <1>3, DieDoes, NoRunIs
<1>4. CASE CatchFailure(p)
  BY <1>2, <1>4, CatchDoes DEF Same, Calculating
<1> QED BY <1>3, <1>4

\* The settlement and the clerk leave runs as they are.
LEMMA RunsStay ==
    ASSUME ProfitInv, UNCHANGED runs, RowsFit(records'), ClerkFits(clerk', mishaps'),
           RefundsFit(refund', amount'),
           mishaps \subseteq mishaps', mishaps' \subseteq Allowed,
           clerk' # NoClerk => \A p \in Busy : {runs[p].job, "clerk"} \in mishaps'
    PROVE  ProfitInv'
<1>1. Shapes'
  BY DEF ProfitInv, Shapes, RowsFit, ClerkFits
<1>2. RowsOK' /\ PlacesOK'
  BY DEF ProfitInv, RowsOK, PlacesOK, RowsFit
<1>3. Meetings'
  BY DEF ProfitInv, Meetings, Busy, At
<1>4. ClerkOK'
  BY DEF ClerkOK, ClerkFits, RowsFit
<1> QED BY <1>1, <1>2, <1>3, <1>4 DEF ProfitInv

LEMMA ClerkFitsNow ==
    ASSUME ProfitInv, mishaps \subseteq mishaps'
    PROVE  ClerkFits(clerk, mishaps') /\ ClerkFits(NoClerk, mishaps')
BY NoClerkIs DEF ClerkFits, ProfitInv, Shapes, ClerkOK

LEMMA SharesStayOK == ProfitInv /\ [ProfitNext]_profitVars => ProfitInv'
<1> SUFFICES ASSUME ProfitInv, [ProfitNext]_profitVars PROVE ProfitInv'
  OBVIOUS
<1>0. RowsFit(records) /\ mishaps \subseteq Allowed
      /\ RefundsFit(refund, amount)
      /\ (clerk # NoClerk => \A p \in Busy : {runs[p].job, "clerk"} \in mishaps)
  BY RowsFitNow DEF ProfitInv, Shapes, Meetings
<1>1. ASSUME NEW f \in Refund, NEW h \in Refunder, SettleRefund(f, h)
      PROVE  ProfitInv'
  <2>1. UNCHANGED <<records, clerk>>
    BY <1>1 DEF SettleRefund
  <2> QED BY <1>1, <2>1, SettleDoes, RunBegins DEF Turns
<1>2. ASSUME NEW f \in Refund, SyncSettled(f) \/ RevertRefund(f) \/ EditRefund(f)
      PROVE  ProfitInv'
  <2>1. UNCHANGED <<records, runs, clerk>> /\ mishaps \subseteq mishaps' /\ mishaps' \subseteq Allowed
    BY <1>0, <1>2 DEF SyncSettled, RevertRefund, EditRefund, Note, Recordable
  <2>2. RefundsFit(refund', amount')
    BY <1>0, <1>2, ProfitAssumption DEF SyncSettled, RevertRefund, EditRefund, RefundsFit
  <2> QED BY <1>0, <2>1, <2>2, ClerkFitsNow, RunsStay DEF RowsFit
<1>3. ASSUME NEW p \in Batch, Reconcile(p)
      PROVE  ProfitInv'
  <2>1. UNCHANGED <<refunds, records, clerk>> /\ p \in Run
    BY <1>3 DEF Reconcile, Run
  <2> QED BY <1>0, <1>3, <2>1, ReconcileDoes, RunBegins DEF Turns, refunds
<1>4. ASSUME NEW p \in Batch, Recalculate(p)
      PROVE  ProfitInv'
  <2>1. UNCHANGED <<refunds, records, clerk>> /\ p \in Run
    BY <1>4 DEF Recalculate, Run
  <2> QED BY <1>0, <1>4, <2>1, RecalculateDoes, RunBegins DEF Turns, refunds
<1>5. ASSUME NEW p \in Run, Step(p)
      PROVE  ProfitInv'
  BY <1>5, RunStepKeeps
<1>6. ASSUME NEW p \in Run, Die(p) \/ CatchFailure(p)
      PROVE  ProfitInv'
  BY <1>6, FailKeeps
<1>7. CASE SettleDue
  <2>1. UNCHANGED <<refunds, runs, clerk>> /\ mishaps \subseteq mishaps' /\ mishaps' \subseteq Allowed
    BY <1>0, <1>7 DEF SettleDue, Note, Recordable
  <2> QED BY <1>0, <1>7, <2>1, DueDoes, ClerkFitsNow, RunsStay DEF refunds
<1>8. CASE ClerkRead
  <2>1. \A p \in Busy : {runs[p].job, "clerk"} \in mishaps'
    <3>1. Meets("clerk") \subseteq mishaps'
      BY <1>8, ReadingDoes
    <3>2. \A p \in Busy : {"clerk", runs[p].job} \in Meets("clerk")
      BY DEF Meets
    <3>3. \A p \in Busy : {"clerk", runs[p].job} = {runs[p].job, "clerk"}
      OBVIOUS
    <3> QED BY <3>1, <3>2, <3>3
  <2>2. UNCHANGED <<refunds, records, runs>> /\ ClerkFits(clerk', mishaps')
        /\ mishaps \subseteq mishaps' /\ mishaps' \subseteq Allowed
    BY <1>8, ReadingDoes
  <2>3. RowsFit(records')
    BY <1>0, <2>2 DEF RowsFit
  <2> QED BY <1>0, <2>1, <2>2, <2>3, RunsStay DEF refunds
<1>9. CASE ClerkWrite
  <2>1. UNCHANGED <<refunds, runs, mishaps>>
    BY <1>9 DEF ClerkWrite
  <2> QED BY <1>0, <1>9, <2>1, WriteDoes, ClerkFitsNow, RunsStay DEF refunds
<1>10. CASE UNCHANGED profitVars
  <2>1. UNCHANGED <<refunds, records, runs, clerk, mishaps>>
    BY <1>10 DEF profitVars
  <2> QED BY <1>0, <2>1, ClerkFitsNow, RunsStay DEF refunds
<1> QED BY <1>1, <1>2, <1>3, <1>4, <1>5, <1>6, <1>7, <1>8, <1>9, <1>10 DEF ProfitNext

\* Rows, runs and the clerk keep their shapes and places, and whatever is
\* under way together has met (ProfitSharingService, ProfitSharingRecordService).
THEOREM ProfitInvHolds == ProfitSpec => []ProfitInv
BY StartsOK, SharesStayOK, PTL DEF ProfitSpec

LEMMA ProfitTyped == ProfitInv => ProfitTypeOK
<1> SUFFICES ASSUME ProfitInv PROVE ProfitTypeOK
  OBVIOUS
<1>1. \A p \in Run : runs[p].rest \subseteq ShareRow /\ runs[p].amount \in Nat
                     /\ runs[p].seen \in Nat
  BY DEF ProfitInv, Shapes, RunRecord
<1> QED BY <1>1 DEF ProfitInv, Shapes, RowsOK, ClerkRecord, RowKey, ProfitTypeOK, RefundsFit

\* Every row has an id of its own, whoever inserts rows at a time.
THEOREM ProfitTypesHold == ProfitSpec => []ProfitTypeOK
BY ProfitTyped, ProfitInvHolds, PTL

-----------------------------------------------------------------------------
Clear(kinds) == ~Among(kinds, mishaps)

\* As long as nothing charges twice: what a run charges is settled, and what
\* is to be published finds nothing taken back.
Clawbacks == {r \in records : r.status = "CLAWBACK"}

Charging(r) ==
    r.pc # "idle" =>
      /\ \A row \in r.refunds : row[2] <= SettledSum
      /\ r.pc \in Clawing \/ (r.pc \in Calculating /\ r.then = "turning") =>
           r.amount <= SettledSum
      /\ r.rest # {} => RefundableRows # {}
      /\ r.pc = "adding" => Clawed(r.row[1]) <= r.seen
      /\ r.pc \in Calculating => Clawbacks = {}
      /\ r.pc = "publishing" => r.seen <= SettledSum

Charged ==
    /\ \A m \in Module : Clawed(m) <= Owed(m)
    /\ Clawbacks # {} => RefundableRows # {}
    /\ \A p \in Run : Charging(runs[p])

ChargedInv == Clear(ChargesTwice) => Charged

LEMMA AloneCharging ==
    ASSUME ProfitInv, Clear(ChargesTwice), NEW p \in Run, NEW q \in Run,
           runs[p].pc # "idle", runs[q].pc # "idle"
    PROVE  p = q
<1>1. runs[p].job \in Job /\ runs[q].job \in Job
  BY DEF ProfitInv, Shapes, RunRecord
<1>2. \A a, b \in Job : {a, b} \in ChargesTwice
  BY DEF ChargesTwice, Job
<1>3. p # q => {runs[p].job, runs[q].job} \in mishaps
  BY DEF ProfitInv, Meetings, Busy, At
<1> QED BY <1>1, <1>2, <1>3 DEF Clear, Among

\* While nothing charges twice one run is under way at a time, so a step of
\* it changes what is said of no other.
LEMMA ChargedWhen ==
    ASSUME ProfitInv, ProfitInv', Clear(ChargesTwice), Clear(ChargesTwice)',
           NEW p \in Run, NEW r, Turns(p, r), runs[p].pc # "idle" \/ r.pc # "idle",
           Charging(r)', \A m \in Module : Clawed(m)' <= Owed(m)',
           Clawbacks' # {} => RefundableRows' # {}
    PROVE  Charged'
<1>1. ASSUME NEW q \in Run, q # p
      PROVE  runs'[q].pc = "idle"
  <2>1. CASE runs[p].pc # "idle"
    BY <1>1, <2>1, AloneCharging DEF Turns
  <2>2. CASE r.pc # "idle"
    <3>1. \A x, y \in Run : runs'[x].pc # "idle" /\ runs'[y].pc # "idle" => x = y
      <4>1. \A a, b \in Job : {a, b} \in ChargesTwice
        BY DEF ChargesTwice, Job
      <4> QED BY <4>1 DEF ProfitInv, Shapes, RunRecord, Meetings, Busy, At, Clear, Among
    <3> QED BY <1>1, <2>2, <3>1 DEF Turns
  <2> QED BY <2>1, <2>2
<1>2. \A q \in Run : Charging(runs[q])'
  <2> SUFFICES ASSUME NEW q \in Run PROVE Charging(runs[q])'
    OBVIOUS
  <2>1. CASE q = p
    BY <2>1 DEF Turns, Charging
  <2>2. CASE q # p
    BY <1>1, <2>2 DEF Charging
  <2> QED BY <2>1, <2>2
<1> QED BY <1>2 DEF Charged

LEMMA SameSums ==
    ASSUME UNCHANGED <<refunds, records>>
    PROVE  /\ RefundableRows' = RefundableRows /\ Clawbacks' = Clawbacks /\ Shares' = Shares
           /\ Settled' = Settled /\ SettledSum' = SettledSum /\ amount' = amount
           /\ \A m : Clawed(m)' = Clawed(m) /\ Owed(m)' = Owed(m)
BY DEF refunds, RefundableRows, Clawbacks, Shares, Settled, SettledSum, Clawed, Owed

\* A clawback adds its amount to its module's.
LEMMA ChargeSums ==
    ASSUME ProfitInv, NEW m \in Module, NEW missing \in Int, Charge(m, missing)
    PROVE  /\ Clawed(m)' = IF missing > 0 THEN Clawed(m) + missing ELSE Clawed(m)
           /\ \A k : k # m => Clawed(k)' = Clawed(k)
           /\ RefundableRows' = RefundableRows /\ Shares' = Shares
<1>1. CASE missing <= 0
  <2>1. UNCHANGED records
    BY <1>1 DEF Charge
  <2> QED BY <1>1, <2>1 DEF Clawed, RefundableRows, Shares
<1>2. CASE missing > 0
  <2>1. PICK c \in ShareRow : /\ c.status = "CLAWBACK" /\ c.module = m /\ c.amount = missing
                              /\ records' = records \cup {c}
                              /\ \A y \in records : Id(y) # Id(c)
    BY <1>2 DEF Charge
  <2>2. PICK S : S = {r \in records : r.module = m /\ r.status = "CLAWBACK"}
    OBVIOUS
  <2>3. {r \in records' : r.module = m /\ r.status = "CLAWBACK"} = S \cup {c}
    BY <2>1, <2>2
  <2>4. S \in SUBSET ShareRow /\ IsFiniteSet(S)
    <3>1. S \in SUBSET records
      BY <2>2
    <3> QED BY <3>1, Sums, FS_Subset DEF ProfitInv, Shapes
  <2>5. TotalOf(S \cup {c}) = TotalOf(S) + c.amount
    BY <2>1, <2>2, <2>4, TotalAdds
  <2>6. Clawed(m) = TotalOf(S) /\ Clawed(m)' = TotalOf(S \cup {c})
    BY <2>2, <2>3 DEF Clawed
  <2>7. \A k : k # m => {r \in records' : r.module = k /\ r.status = "CLAWBACK"}
                          = {r \in records : r.module = k /\ r.status = "CLAWBACK"}
    BY <2>1
  <2>8. RefundableRows' = RefundableRows /\ Shares' = Shares
    BY <2>1 DEF RefundableRows, Shares, Live
  <2> QED BY <1>2, <2>1, <2>5, <2>6, <2>7, <2>8 DEF Clawed
<1> QED BY <1>1, <1>2

LEMMA SettledGrows ==
    ASSUME ProfitInv, ProfitInv', Settled \subseteq Settled',
           \A f \in Settled : amount[f] <= amount'[f]
    PROVE  /\ SettledSum <= SettledSum' /\ \A m \in Module : Owed(m) <= Owed(m)' /\ Owed(m)' \in Nat
           /\ \A f \in Settled' : amount'[f] <= SettledSum'
           /\ SettledSum \in Nat /\ SettledSum' \in Nat
<1>1. /\ Settled \in SUBSET Refund /\ amount \in [Refund -> Nat \ {0}]
      /\ Settled' \in SUBSET Refund /\ amount' \in [Refund -> Nat \ {0}]
  BY DEF Settled, ProfitInv, Shapes, RefundsFit
<1>2. PICK S : S = UNION {Units(f, amount[f]) : f \in Settled}
  OBVIOUS
<1>3. PICK T : T = UNION {Units(f, amount'[f]) : f \in Settled'}
  OBVIOUS
<1>4. /\ SettledSum = Cardinality(S) /\ SettledSum \in Nat
      /\ \A f \in Settled : amount[f] \in Nat
  BY <1>1, <1>2, SumUnits DEF SettledSum
<1>5. /\ SettledSum' = Cardinality(T) /\ SettledSum' \in Nat /\ IsFiniteSet(T)
      /\ \A f \in Settled' : amount'[f] <= SettledSum' /\ amount'[f] \in Nat
  <2>1. SettledSum' = Cardinality(T)
    BY <1>3 DEF SettledSum
  <2> QED BY <1>1, <1>3, <2>1, SumUnits
<1>6. S \in SUBSET T
  <2> SUFFICES ASSUME NEW f \in Settled, NEW u \in Units(f, amount[f]) PROVE u \in T
    BY <1>2
  <2>1. u \in Units(f, amount'[f])
    BY <1>4, <1>5 DEF Units
  <2> QED BY <1>3, <2>1
<1>7. SettledSum <= SettledSum'
  BY <1>4, <1>5, <1>6, FS_Subset
<1>8. ASSUME NEW m \in Module PROVE Owed(m) <= Owed(m)' /\ Owed(m)' \in Nat
  BY <1>4, <1>5, <1>7, MostGrows DEF Owed
<1> QED BY <1>4, <1>5, <1>7, <1>8

LEMMA ChargedFirst == ProfitInit => ChargedInv
<1> SUFFICES ASSUME ProfitInit PROVE Charged
  BY DEF ChargedInv
<1>1. \A m : Clawed(m) = 0 /\ Clawbacks = {}
  BY TotalNone DEF ProfitInit, Clawed, Clawbacks
<1>2. ProfitInv
  BY StartsOK
<1>3. \A m \in Module : Owed(m) \in Nat
  BY <1>2, OwedNat
<1>4. \A p \in Run : runs[p].pc = "idle"
  BY NoRunIs DEF ProfitInit
<1> QED BY <1>1, <1>3, <1>4 DEF Charged, Charging

\* Steps of a run that leave rows and refunds as they are.
LEMMA ReadsCharged ==
    ASSUME ProfitInv, ProfitInv', Clear(ChargesTwice), Clear(ChargesTwice)', Charged,
           NEW p \in Run, NEW r, Turns(p, r), runs[p].pc # "idle" \/ r.pc # "idle",
           UNCHANGED <<refunds, records>>, Charging(r)
    PROVE  Charged'
<1>1. Charging(r)'
  BY SameSums DEF Charging
<1> QED BY <1>1, SameSums, ChargedWhen DEF Charged

LEMMA AddCharged ==
    ASSUME ProfitInv, ProfitInv', Clear(ChargesTwice), Clear(ChargesTwice)', Charged,
           NEW p \in Run, AddClawback(p)
    PROVE  Charged'
<1>1. PICK r, x : /\ Turns(p, r) /\ Same(r, runs[p]) /\ r.pc = "picking"
                  /\ x \in runs[p].rest /\ Id(x) = runs[p].row /\ Held(x)
                  /\ x \in ShareRow
                  /\ r.rest = runs[p].rest \ {x} /\ r.amount = runs[p].amount
                  /\ Charge(x.module, ClawbackTarget(x.amount, runs[p].amount) - runs[p].seen)
  BY AddDoes
<1>2. runs[p].pc = "adding" /\ Charging(runs[p]) /\ runs[p] \in RunRecord
      /\ UNCHANGED <<refund, amount>>
  BY AddDoes DEF Charged, ProfitInv, Shapes, AddClawback, refunds
<1>3. PICK m \in Module : m = x.module
  BY <1>1 DEF ShareRow
<1>4. Clawed(m) <= runs[p].seen /\ runs[p].amount <= SettledSum /\ RefundableRows # {}
      /\ \A row \in runs[p].refunds : row[2] <= SettledSum
  BY <1>1, <1>2, <1>3 DEF Charging, Clawing, Id
<1>5. runs[p].amount \in Nat /\ runs[p].seen \in Nat /\ SettledSum \in Nat /\ Clawed(m) \in Nat
  BY <1>2, Sums DEF RunRecord
<1>6. PICK part \in Nat : part = x.amount /\ part <= Share[m]
  BY <1>1, <1>3, MonthlyShares DEF Held, Sized, Live, ShareRow
<1>7. PICK target \in Nat : target = ClawbackTarget(x.amount, runs[p].amount) /\ target <= Owed(m)
  <2>1. Share[m] \in Nat
    BY ShareNat
  <2>2. PICK n \in Nat : /\ n = ClawbackTarget(x.amount, runs[p].amount)
                         /\ n <= Portion(Share[m], SettledSum)
    BY <1>4, <1>5, <1>6, <2>1, TargetBounded
  <2>3. SettledSum <= SettledSum
    BY <1>5
  <2>4. Portion(Share[m], SettledSum) <= Owed(m) /\ Owed(m) \in Nat
    BY <1>5, <2>3, MostGrows DEF Owed
  <2>5. Portion(Share[m], SettledSum) \in Nat
    BY <1>5, <2>1, PortionNat
  <2> QED BY <2>2, <2>4, <2>5
<1>8. PICK missing \in Int : missing = target - runs[p].seen
  BY <1>5
<1>9. Charge(m, missing)
  BY <1>1, <1>3, <1>7, <1>8
<1>10. /\ Clawed(m)' = IF missing > 0 THEN Clawed(m) + missing ELSE Clawed(m)
       /\ \A k : k # m => Clawed(k)' = Clawed(k)
       /\ RefundableRows' = RefundableRows
  BY <1>9, ChargeSums
<1>11. /\ Settled' = Settled /\ SettledSum' = SettledSum /\ \A k : Owed(k)' = Owed(k)
  BY <1>2 DEF Settled, SettledSum, Owed
<1>12. Owed(m) \in Nat /\ Clawed(m) <= Owed(m)
  BY OwedNat DEF Charged
<1>13. Clawed(m)' <= Owed(m)
  BY <1>4, <1>5, <1>7, <1>8, <1>10, <1>12
<1>14. \A k \in Module : Clawed(k)' <= Owed(k)'
  BY <1>10, <1>11, <1>13 DEF Charged
<1>15. Charging(r)'
  BY <1>1, <1>4, <1>10, <1>11 DEF Charging, Same, Calculating
<1> QED BY <1>1, <1>2, <1>4, <1>10, <1>14, <1>15, ChargedWhen

LEMMA PublishCharged ==
    ASSUME ProfitInv, ProfitInv', Clear(ChargesTwice), Clear(ChargesTwice)', Charged,
           NEW p \in Run, PublishShares(p)
    PROVE  Charged'
<1>1. PICK r : /\ Turns(p, r) /\ r.job = runs[p].job /\ r.rest = {}
               /\ \/ runs[p].then = "reconciling" /\ r.pc = "reconciling" /\ r.refunds = {}
                     /\ r.then = "idle"
                  \/ /\ runs[p].then = "turning" /\ r.pc = "finding" /\ Same(r, runs[p])
                     /\ r.amount = runs[p].amount
  BY PublishDoes
<1>2. /\ runs[p].pc = "publishing" /\ runs[p].seen \in Nat
      /\ Insert(Generated(runs[p].seen)) /\ UNCHANGED <<refund, amount>>
  BY PublishDoes DEF PublishShares, refunds
<1>3. PICK seen \in Nat : seen = runs[p].seen /\ seen <= SettledSum
  BY <1>2 DEF Charged, Charging
<1>4. Clawbacks = {} /\ (\A row \in runs[p].refunds : row[2] <= SettledSum)
      /\ (runs[p].then = "turning" => runs[p].amount <= SettledSum)
  BY <1>2 DEF Charged, Charging, Calculating
<1>5. /\ Settled' = Settled /\ SettledSum' = SettledSum /\ \A k : Owed(k)' = Owed(k)
  BY <1>2 DEF Settled, SettledSum, Owed
<1>6. PICK new : new = {Fresh(x) : x \in Generated(seen)} /\ records' = records \cup new
  BY <1>2, <1>3 DEF Insert
<1>7. \A x \in Generated(seen) :
        /\ Fresh(x) \in ShareRow /\ x \in ShareRow
        /\ Fresh(x).module = x.module /\ Fresh(x).month = x.month
        /\ Fresh(x).amount = x.amount /\ Fresh(x).status = x.status
  BY <1>2, <1>3, FreshIs, GeneratedRows DEF Insert, Insertable
<1>8. \A c \in Clawbacks' : /\ c \in new /\ c \in ShareRow /\ c.month = 0
                            /\ c.module \in Refundable
                            /\ c.amount = Earns(c.module, seen)
  <2> SUFFICES ASSUME NEW c \in Clawbacks'
               PROVE  /\ c \in new /\ c \in ShareRow /\ c.month = 0
                      /\ c.module \in Refundable
                      /\ c.amount = Earns(c.module, seen)
    OBVIOUS
  <2>1. c \in new /\ c.status = "CLAWBACK"
    BY <1>4, <1>6 DEF Clawbacks
  <2>2. PICK x \in Generated(seen) : c = Fresh(x)
    BY <1>6, <2>1
  <2>3. x.module \in Refundable /\ x.amount = Earns(x.module, seen) /\ x.month = 0
    BY <1>7, <2>1, <2>2, GeneratedRows DEF Insertable, Sized
  <2> QED BY <1>7, <2>1, <2>2, <2>3
<1>9. \A c, d \in Clawbacks' : c.module = d.module => c = d
  <2> SUFFICES ASSUME NEW c \in Clawbacks', NEW d \in Clawbacks', c.module = d.module
               PROVE  c = d
    OBVIOUS
  <2>1. PICK x \in Generated(seen) : c = Fresh(x)
    BY <1>6, <1>8
  <2>2. PICK y \in Generated(seen) : d = Fresh(y)
    BY <1>6, <1>8
  <2>3. x.module = y.module /\ x.month = y.month
    BY <1>7, <1>8, <2>1, <2>2
  <2>4. x = y
    BY <2>3, GeneratedRows DEF Insertable
  <2> QED BY <2>1, <2>2, <2>4
<1>10. ASSUME NEW m \in Module PROVE Clawed(m)' <= Owed(m)'
  <2>1. PICK S : S = {c \in records' : c.module = m /\ c.status = "CLAWBACK"}
    OBVIOUS
  <2>2. Clawed(m)' = TotalOf(S)
    BY <2>1 DEF Clawed
  <2>3. \A c \in S : c \in Clawbacks' /\ c.module = m
    BY <2>1 DEF Clawbacks
  <2>4. SettledSum \in Nat /\ SettledSum <= SettledSum
    BY Sums
  <2>5. Earns(m, seen) \in Nat /\ Owed(m) \in Nat /\ Earns(m, seen) <= Owed(m)
    <3>1. PICK a \in Nat, b \in Nat : a = Earns(m, seen) /\ b = Earns(m, SettledSum) /\ a <= b
      BY <1>3, <2>4, EarnsGrows
    <3>2. b <= Owed(m) /\ Owed(m) \in Nat
      BY <2>4, <3>1, MostGrows DEF Owed
    <3> QED BY <3>1, <3>2
  <2>6. CASE S = {}
    BY <1>5, <2>2, <2>5, <2>6, TotalNone
  <2>7. CASE S # {}
    <3>1. PICK c \in S : S = {c}
      BY <1>9, <2>3, <2>7
    <3>2. c \in ShareRow /\ c.amount = Earns(m, seen)
      BY <1>8, <2>3
    <3>3. TotalOf({} \cup {c}) = TotalOf({}) + c.amount
      <4>1. {} \in SUBSET ShareRow /\ IsFiniteSet({})
        BY FS_EmptySet
      <4> QED BY <3>2, <4>1, TotalAdds
    <3>4. {} \cup {c} = S
      BY <3>1
    <3>5. TotalOf(S) = 0 + Earns(m, seen)
      BY <3>2, <3>3, <3>4, TotalNone
    <3> QED BY <1>5, <2>2, <2>5, <3>5
  <2> QED BY <2>6, <2>7
<1>11. Clawbacks' # {} => RefundableRows' # {}
  <2> SUFFICES ASSUME NEW c \in Clawbacks' PROVE RefundableRows' # {}
    OBVIOUS
  <2>1. PICK m \in Module : m \in Refundable /\ m = c.module
    BY <1>8, ProfitAssumption
  <2>2. 1 \in 1 .. Months[m]
    BY ProfitAssumption
  <2>3. PICK x \in Generated(seen) : x.module = m /\ x.status = "PENDING"
    BY <2>2, GeneratedRows
  <2>4. Fresh(x) \in RefundableRows'
    BY <1>6, <1>7, <2>1, <2>3 DEF RefundableRows, Live
  <2> QED BY <2>4
<1>12. Charging(r)'
  BY <1>1, <1>4, <1>5 DEF Charging, Same, Calculating, Clawing
<1> QED BY <1>1, <1>2, <1>10, <1>11, <1>12, ChargedWhen

LEMMA DeleteCharged ==
    ASSUME ProfitInv, ProfitInv', Clear(ChargesTwice), Clear(ChargesTwice)', Charged,
           NEW p \in Run, DeleteUnsettled(p)
    PROVE  Charged'
<1>1. PICK r : /\ Turns(p, r) /\ r.job = "recalculate" /\ r.pc = "reading"
               /\ r.refunds = runs[p].refunds /\ r.rest = {}
               /\ r.then = "reconciling"
  BY DeleteDoes
<1>2. runs[p].pc = "deleting" /\ Charging(runs[p]) /\ UNCHANGED <<refund, amount>>
      /\ records' = {x \in records : x.status = "SETTLED"}
  BY DeleteDoes DEF Charged, DeleteUnsettled, refunds
<1>3. Clawbacks' = {} /\ \A m : {x \in records' : x.module = m /\ x.status = "CLAWBACK"} = {}
  BY <1>2 DEF Clawbacks
<1>4. SettledSum' = SettledSum /\ \A m : Clawed(m)' = 0 /\ Owed(m)' = Owed(m)
  BY <1>2, <1>3, TotalNone DEF Clawed, Owed, SettledSum, Settled
<1>5. \A m \in Module : Owed(m) \in Nat
  BY OwedNat
<1>6. Charging(r)'
  BY <1>1, <1>2, <1>3, <1>4 DEF Charging, Clawing
<1> QED BY <1>1, <1>2, <1>3, <1>4, <1>5, <1>6, ChargedWhen

LEMMA StepCharged ==
    ASSUME ProfitInv, ProfitInv', Clear(ChargesTwice), Clear(ChargesTwice)', Charged,
           NEW p \in Run, Step(p)
    PROVE  Charged'
<1>1. Charging(runs[p])
  BY DEF Charged
<1>2. ASSUME NEW r, Turns(p, r), runs[p].pc # "idle", UNCHANGED <<refunds, records>>, Charging(r)
      PROVE  Charged'
  BY <1>2, ReadsCharged
<1>3. CASE FindRecords(p)
  <2>1. PICK r : /\ Turns(p, r) /\ Same(r, runs[p]) /\ r.pc = "picking"
                 /\ r.rest = RefundableRows /\ r.amount = runs[p].amount
                 /\ runs[p].pc = "finding"
    BY <1>3, FindDoes
  <2>2. Charging(r)
    BY <1>1, <2>1 DEF Charging, Same, Clawing, Calculating
  <2> QED BY <1>2, <1>3, <2>1, <2>2 DEF FindRecords
<1>4. CASE SumClawbacks(p)
  <2>1. UNCHANGED <<refunds, records>>
    BY <1>4 DEF SumClawbacks
  <2>2. ASSUME NEW r, NEW x, Turns(p, r), Same(r, runs[p]), r.pc = "adding",
               r.row = Id(x), r.seen = Clawed(x.module), r.rest = runs[p].rest,
               r.amount = runs[p].amount, runs[p].pc = "picking"
        PROVE  Charged'
    <3>1. r.row[1] = x.module /\ Clawed(x.module) <= Clawed(x.module)
      BY <2>2, Sums DEF Id
    <3>2. Charging(r)
      BY <1>1, <2>2, <3>1 DEF Charging, Same, Clawing, Calculating
    <3> QED BY <1>2, <2>1, <2>2, <3>2
  <2>3. ASSUME NEW r, Turns(p, r), Same(r, runs[p]), r.rest = {},
               r.pc \in {"turning", "reconciling"}, runs[p].pc = "picking"
        PROVE  Charged'
    <3>1. Charging(r)
      BY <1>1, <2>3 DEF Charging, Same, Clawing, Calculating
    <3> QED BY <1>2, <2>1, <2>3, <3>1
  <2>4. ASSUME Turns(p, NoRun), runs[p].pc = "picking"
        PROVE  Charged'
    <3>1. Charging(NoRun)
      BY NoRunIs DEF Charging
    <3> QED BY <1>2, <2>1, <2>4, <3>1
  <2> QED BY <1>4, <2>2, <2>3, <2>4, SumDoes
<1>5. CASE AddClawback(p)
  BY <1>5, AddCharged
<1>6. CASE CheckShares(p)
  <2>1. PICK r, row : /\ Turns(p, r) /\ r.then = "turning"
                    /\ row \in runs[p].refunds /\ r.refunds = runs[p].refunds \ {row}
                    /\ r.amount = row[2] /\ r.rest = {}
                    /\ runs[p].pc = "turning"
                    /\ \/ r.pc = "reading" /\ RefundableRows = {}
                       \/ r.pc = "finding" /\ RefundableRows # {}
    BY <1>6, CheckDoes
  <2>2. \A x \in runs[p].refunds : x[2] <= SettledSum
    BY <1>1, <2>1 DEF Charging
  <2>3. row[2] <= SettledSum
    BY <2>1, <2>2
  <2>4. RefundableRows = {} => Clawbacks = {}
    BY DEF Charged
  <2>5. Charging(r)
    BY <2>1, <2>2, <2>3, <2>4 DEF Charging, Clawing, Calculating
  <2> QED BY <1>2, <1>6, <2>1, <2>5 DEF CheckShares
<1>7. CASE FinishReconcile(p)
  <2>1. Charging(NoRun)
    BY NoRunIs DEF Charging
  <2> QED BY <1>2, <1>7, <2>1, FinishDoes DEF FinishReconcile
<1>8. CASE ReadOrder(p)
  <2>1. PICK r : /\ Turns(p, r) /\ Same(r, runs[p]) /\ r.pc = "publishing"
                 /\ r.seen = SettledSum /\ r.rest = {} /\ r.amount = runs[p].amount
                 /\ runs[p].pc = "reading"
    BY <1>8, ReadDoes
  <2>2. SettledSum <= SettledSum
    BY Sums
  <2>3. Charging(r)
    BY <1>1, <2>1, <2>2 DEF Charging, Same, Clawing, Calculating
  <2> QED BY <1>2, <1>8, <2>1, <2>3 DEF ReadOrder
<1>9. CASE PublishShares(p)
  BY <1>9, PublishCharged
<1>10. CASE WeighLocked(p)
  <2>1. PICK r : /\ Turns(p, r) /\ Same(r, runs[p]) /\ r.pc \in {"finding", "reconciling"}
                 /\ r.amount = SettledSum /\ r.rest = {}
                 /\ runs[p].pc = "weighing"
    BY <1>10, WeighDoes
  <2>2. SettledSum <= SettledSum
    BY Sums
  <2>3. Charging(r)
    BY <1>1, <2>1, <2>2 DEF Charging, Same, Clawing, Calculating
  <2> QED BY <1>2, <1>10, <2>1, <2>3 DEF WeighLocked
<1>11. CASE DeleteUnsettled(p)
  BY <1>11, DeleteCharged
<1>12. CASE StartReconcile(p)
  <2>1. PICK r : /\ Turns(p, r) /\ r.pc = "turning" /\ r.rest = {} /\ r.refunds = SettledRows
                 /\ runs[p].pc = "reconciling"
    BY <1>12, RestartDoes
  <2>2. Charging(r)
    BY <2>1, RowsRead DEF Charging, Clawing, Calculating
  <2> QED BY <1>2, <1>12, <2>1, <2>2 DEF StartReconcile
<1> QED BY <1>3, <1>4, <1>5, <1>6, <1>7, <1>8, <1>9, <1>10, <1>11, <1>12 DEF Step

\* A row that takes another status is no clawback, and stays live unless it
\* is cancelled.
LEMMA RestatedSums ==
    ASSUME NEW rows, NEW s \in Live, Restates(rows, s), UNCHANGED refunds
    PROVE  /\ Clawbacks' = Clawbacks /\ Settled' = Settled /\ SettledSum' = SettledSum
           /\ amount' = amount
           /\ \A m : Clawed(m)' = Clawed(m) /\ Owed(m)' = Owed(m)
           /\ \A x \in RefundableRows : \E y \in RefundableRows' : Alike(x, y)
<1>1. Clawbacks' = Clawbacks
  BY DEF Restates, Clawbacks
<1>2. \A m : {r \in records : r.module = m /\ r.status = "CLAWBACK"}
               = {r \in Clawbacks : r.module = m}
  BY DEF Clawbacks
<1>3. \A m : {r \in records' : r.module = m /\ r.status = "CLAWBACK"}
               = {r \in Clawbacks' : r.module = m}
  BY DEF Clawbacks
<1>4. \A m : Clawed(m)' = Clawed(m)
  BY <1>1, <1>2, <1>3 DEF Clawed
<1>5. Settled' = Settled /\ SettledSum' = SettledSum /\ \A m : Owed(m)' = Owed(m)
  BY DEF refunds, Settled, SettledSum, Owed
<1>6. ASSUME NEW x \in RefundableRows PROVE \E y \in RefundableRows' : Alike(x, y)
  <2>1. x \in records /\ x.module \in Refundable /\ x.status \in Live
    BY DEF RefundableRows
  <2>2. PICK y \in records' : Alike(x, y) /\ (IF x \in rows THEN y.status = s ELSE y = x)
    BY <2>1 DEF Restates
  <2>3. y.module \in Refundable /\ y.status \in Live
    BY <2>1, <2>2 DEF Alike
  <2> QED BY <2>2, <2>3 DEF RefundableRows
<1> QED BY <1>1, <1>4, <1>5, <1>6 DEF refunds

LEMMA RestatesCharged ==
    ASSUME NEW rows, NEW s \in Live, Restates(rows, s), UNCHANGED <<refunds, runs>>, Charged
    PROVE  Charged'
<1>1. /\ Clawbacks' = Clawbacks /\ Settled' = Settled /\ SettledSum' = SettledSum
      /\ \A m : Clawed(m)' = Clawed(m) /\ Owed(m)' = Owed(m)
      /\ RefundableRows # {} => RefundableRows' # {}
  BY RestatedSums
<1>2. \A p \in Run : Charging(runs[p])'
  <2> SUFFICES ASSUME NEW p \in Run PROVE Charging(runs[p])'
    OBVIOUS
  <2>1. Charging(runs[p])
    BY DEF Charged
  <2> QED BY <1>1, <2>1 DEF Charging
<1> QED BY <1>1, <1>2 DEF Charged

LEMMA NeverForgets == [ProfitNext]_profitVars => mishaps \subseteq mishaps'
BY DEF ProfitNext, profitVars, SettleRefund, SyncSettled, RevertRefund,
       EditRefund, Reconcile, Recalculate, Step,
       FindRecords, SumClawbacks, AddClawback, CheckShares, FinishReconcile, ReadOrder,
       PublishShares, WeighLocked, DeleteUnsettled, StartReconcile, Die, CatchFailure, SettleDue,
       ClerkRead, ClerkWrite, Note

\* A refund that comes or grows takes nothing back, and adds to what is owed.
LEMMA GrowthCharged ==
    ASSUME ProfitInv, ProfitInv', Charged, UNCHANGED records, Settled \subseteq Settled',
           \A f \in Settled : amount[f] <= amount'[f]
    PROVE  /\ \A m \in Module : Clawed(m)' <= Owed(m)'
           /\ Clawbacks' # {} => RefundableRows' # {}
<1>1. \A m : Clawed(m)' = Clawed(m) /\ Clawed(m) \in Nat
  BY Sums DEF Clawed
<1>2. Clawbacks' = Clawbacks /\ RefundableRows' = RefundableRows
  BY DEF Clawbacks, RefundableRows
<1>3. ASSUME NEW m \in Module PROVE Clawed(m)' <= Owed(m)'
  <2>1. Owed(m) \in Nat /\ Owed(m)' \in Nat /\ Owed(m) <= Owed(m)' /\ Clawed(m) <= Owed(m)
    BY OwedNat, SettledGrows DEF Charged
  <2> QED BY <1>1, <2>1
<1> QED BY <1>2, <1>3 DEF Charged

\* What is settled or edited unheard meets no run while nothing charges twice.
LEMMA UnheardCharged ==
    ASSUME ProfitInv, ProfitInv', Clear(ChargesTwice), Clear(ChargesTwice)', Charged,
           NEW f \in Refund, SyncSettled(f) \/ EditRefund(f)
    PROVE  Charged'
<1>1. UNCHANGED <<records, runs>> /\ RefundsFit(refund, amount)
  BY DEF SyncSettled, EditRefund, ProfitInv, Shapes
<1>2. Settled \subseteq Settled' /\ \A g \in Settled : amount[g] <= amount'[g]
  <2>1. CASE SyncSettled(f)
    <3>1. Settled \subseteq Settled' /\ amount' = amount /\ \A g \in Settled : amount[g] \in Nat
      BY <1>1, <2>1, Sums DEF SyncSettled, Settled, RefundsFit
    <3> QED BY <3>1
  <2>2. CASE EditRefund(f)
    <3>1. PICK a \in Edits : /\ amount' = [amount EXCEPT ![f] = a]
                             /\ refund[f] = "SETTLED" /\ a < amount[f] => {"lowered"} \in mishaps'
      BY <2>2 DEF EditRefund, Note, IfSo
    <3>2. {"lowered"} \notin mishaps'
      BY DEF Clear, Among, ChargesTwice
    <3>3. a \in Nat /\ \A g \in Refund : amount[g] \in Nat
      BY <1>1, ProfitAssumption DEF RefundsFit
    <3>4. Settled' = Settled /\ Settled \subseteq Refund
      BY <2>2 DEF EditRefund, Settled
    <3>5. ASSUME NEW g \in Settled PROVE amount[g] <= amount'[g]
      <4>1. CASE g = f
        BY <1>1, <3>1, <3>2, <3>3, <4>1 DEF Settled, RefundsFit
      <4>2. CASE g # f
        BY <1>1, <3>1, <3>3, <3>4, <4>2 DEF RefundsFit
      <4> QED BY <4>1, <4>2
    <3> QED BY <3>4, <3>5
  <2> QED BY <2>1, <2>2
<1>3. \A m \in Module : Clawed(m)' <= Owed(m)'
  BY <1>1, <1>2, GrowthCharged
<1>4. Clawbacks' # {} => RefundableRows' # {}
  BY <1>1, <1>2, GrowthCharged
<1>5. CASE refund[f] = "SETTLED" \/ SyncSettled(f)
  <2>1. Meets("refund") \subseteq mishaps'
    BY <1>5 DEF SyncSettled, EditRefund, Note
  <2>2. \A p \in Run : runs[p].pc # "idle" => {"refund", runs[p].job} \in mishaps'
    BY <2>1 DEF Meets, Busy, At
  <2>3. \A p \in Run : {"refund", runs[p].job} \in ChargesTwice
    <3>1. \A p \in Run : runs[p].job \in Job
      BY DEF ProfitInv, Shapes, RunRecord
    <3>2. \A a \in Job : {"refund", a} \in ChargesTwice
      BY DEF ChargesTwice, Job
    <3> QED BY <3>1, <3>2
  <2>4. \A p \in Run : runs[p].pc = "idle"
    BY <2>2, <2>3 DEF Clear, Among
  <2>5. \A p \in Run : Charging(runs[p])'
    BY <1>1, <2>4 DEF Charging
  <2> QED BY <1>3, <1>4, <2>5 DEF Charged
<1>6. CASE refund[f] # "SETTLED" /\ EditRefund(f)
  <2>1. Settled' = Settled /\ \A g \in Settled : amount'[g] = amount[g]
    <3>1. Settled' = Settled /\ Settled \subseteq Refund /\ f \notin Settled
      BY <1>6 DEF EditRefund, Settled
    <3>2. PICK a : amount' = [amount EXCEPT ![f] = a]
      BY <1>6 DEF EditRefund
    <3> QED BY <1>1, <3>1, <3>2 DEF RefundsFit
  <2>2. {Units(g, amount'[g]) : g \in Settled'} = {Units(g, amount[g]) : g \in Settled}
    BY <2>1
  <2>3. SettledSum' = SettledSum
    BY <2>2 DEF SettledSum
  <2>4. /\ RefundableRows' = RefundableRows /\ Clawbacks' = Clawbacks
        /\ \A m : Clawed(m)' = Clawed(m)
    BY <1>1 DEF RefundableRows, Clawbacks, Clawed
  <2>5. \A p \in Run : Charging(runs[p])'
    <3> SUFFICES ASSUME NEW p \in Run PROVE Charging(runs[p])'
      OBVIOUS
    <3>1. Charging(runs[p])
      BY DEF Charged
    <3> QED BY <1>1, <2>3, <2>4, <3>1 DEF Charging
  <2> QED BY <1>3, <1>4, <2>5 DEF Charged
<1> QED BY <1>5, <1>6

LEMMA ChargedNext == ProfitInv /\ ProfitInv' /\ ChargedInv /\ [ProfitNext]_profitVars => ChargedInv'
<1> SUFFICES ASSUME ProfitInv, ProfitInv', ChargedInv, [ProfitNext]_profitVars,
                    Clear(ChargesTwice)'
             PROVE  Charged'
  BY DEF ChargedInv
<1>1. Clear(ChargesTwice) /\ Charged
  <2>1. mishaps \subseteq mishaps'
    BY NeverForgets
  <2> QED BY <2>1 DEF ChargedInv, Clear, Among
<1>2. ASSUME NEW f \in Refund, NEW h \in Refunder, SettleRefund(f, h)
      PROVE  Charged'
  <2>1. PICK r : /\ Turns(h, r) /\ r.pc = "finding" /\ r.rest = {}
                 /\ r.refunds = {} /\ r.amount = amount[f]
    BY <1>2, SettleDoes
  <2>2. h \in Run /\ Settled' = Settled \cup {f} /\ UNCHANGED <<records, amount>>
    BY <1>2, SettleDoes DEF SettleRefund
  <2>3. \A g \in Settled : amount[g] <= amount'[g]
    BY <2>2, Sums
  <2>4. amount[f] <= SettledSum'
    BY <2>2, <2>3, SettledGrows
  <2>5. Charging(r)'
    BY <2>1, <2>4 DEF Charging, Clawing, Calculating
  <2>6. /\ \A m \in Module : Clawed(m)' <= Owed(m)'
        /\ Clawbacks' # {} => RefundableRows' # {}
    BY <1>1, <2>2, <2>3, GrowthCharged
  <2> QED BY <1>1, <2>1, <2>2, <2>5, <2>6, ChargedWhen
<1>3. ASSUME NEW f \in Refund, SyncSettled(f) \/ RevertRefund(f) \/ EditRefund(f)
      PROVE  Charged'
  <2>1. CASE RevertRefund(f)
    <3>1. {"reverted"} \in mishaps' /\ {"reverted"} \in ChargesTwice
      BY <2>1 DEF RevertRefund, Note, ChargesTwice
    <3> QED BY <3>1 DEF Clear, Among
  <2> QED BY <1>1, <1>3, <2>1, UnheardCharged
<1>4. ASSUME NEW p \in Batch, Reconcile(p)
      PROVE  Charged'
  <2>1. PICK r : /\ Turns(p, r) /\ r.pc = "turning" /\ r.rest = {} /\ r.refunds = SettledRows
    BY <1>4, ReconcileDoes DEF Run
  <2>2. Charging(r)
    BY <2>1, RowsRead DEF Charging, Clawing, Calculating
  <2>3. UNCHANGED <<refunds, records>> /\ p \in Run
    BY <1>4 DEF Reconcile, Run
  <2> QED BY <1>1, <2>1, <2>2, <2>3, ReadsCharged
<1>5. ASSUME NEW p \in Batch, Recalculate(p)
      PROVE  Charged'
  <2>1. PICK r : /\ Turns(p, r) /\ r.rest = {} /\ r.refunds = {}
                 /\ r.pc \in {"weighing", "deleting"}
    BY <1>5, RecalculateDoes DEF Run
  <2>2. Charging(r)
    BY <2>1 DEF Charging, Clawing, Calculating
  <2>3. UNCHANGED <<refunds, records>> /\ p \in Run
    BY <1>5 DEF Recalculate, Run
  <2> QED BY <1>1, <2>1, <2>2, <2>3, ReadsCharged
<1>6. ASSUME NEW p \in Run, Step(p)
      PROVE  Charged'
  BY <1>1, <1>6, StepCharged
<1>7. ASSUME NEW p \in Run, Die(p) \/ CatchFailure(p)
      PROVE  Charged'
  <2>1. UNCHANGED <<refunds, records>> /\ Charging(runs[p])
    BY <1>1, <1>7 DEF Die, CatchFailure, Charged
  <2>2. CASE Die(p)
    <3>1. Charging(NoRun) /\ Turns(p, NoRun) /\ runs[p].pc # "idle"
      BY <2>2, NoRunIs, DieDoes DEF Charging, Busy, At
    <3> QED BY <1>1, <2>1, <3>1, ReadsCharged
  <2>3. CASE CatchFailure(p)
    <3>1. PICK r : /\ Turns(p, r) /\ Same(r, runs[p]) /\ r.pc = "finding" /\ r.rest = {}
                   /\ r.amount = runs[p].amount
                   /\ runs[p].pc \in Calculating /\ r.then = "turning"
      BY <2>3, CatchDoes
    <3>2. Charging(r) /\ runs[p].pc # "idle"
      BY <2>1, <3>1 DEF Charging, Same, Clawing, Calculating
    <3> QED BY <1>1, <2>1, <3>1, <3>2, ReadsCharged
  <2> QED BY <1>7, <2>2, <2>3
<1>8. CASE SettleDue
  <2>1. UNCHANGED <<refunds, runs>> /\ "SETTLED" \in Live
    BY <1>8 DEF SettleDue, Live
  <2> QED BY <1>1, <1>8, <2>1, DueDoes, RestatesCharged
<1>9. CASE ClerkRead
  <2>1. UNCHANGED <<refunds, records, runs>>
    BY <1>9 DEF ClerkRead
  <2>2. \A p \in Run : Charging(runs[p])'
    <3> SUFFICES ASSUME NEW p \in Run PROVE Charging(runs[p])'
      OBVIOUS
    <3>1. Charging(runs[p])
      BY <1>1 DEF Charged
    <3> QED BY <2>1, <3>1, SameSums DEF Charging
  <2> QED BY <1>1, <2>1, <2>2, SameSums DEF Charged
<1>10. CASE ClerkWrite
  <2>1. UNCHANGED <<refunds, runs>>
    BY <1>10 DEF ClerkWrite
  <2>2. {"deleted"} \notin mishaps /\ {"cancelled"} \notin mishaps
    BY <1>1 DEF Clear, Among, ChargesTwice
  <2>3. PICK rows : Restates(rows, clerk.to) /\ clerk.to \in Live
    BY <1>10, <2>2, WriteDoes DEF Live
  <2> QED BY <1>1, <2>1, <2>3, RestatesCharged
<1>11. CASE UNCHANGED profitVars
  <2>1. UNCHANGED <<refunds, records, runs>>
    BY <1>11 DEF profitVars
  <2>2. \A p \in Run : Charging(runs[p])'
    <3> SUFFICES ASSUME NEW p \in Run PROVE Charging(runs[p])'
      OBVIOUS
    <3>1. Charging(runs[p])
      BY <1>1 DEF Charged
    <3> QED BY <2>1, <3>1, SameSums DEF Charging
  <2> QED BY <1>1, <2>1, <2>2, SameSums DEF Charged
<1> QED BY <1>2, <1>3, <1>4, <1>5, <1>6, <1>7, <1>8, <1>9, <1>10, <1>11 DEF ProfitNext

\* A member is never charged more than the settled refunds come to of what
\* the member earns, rounded either way, unless a refund was reverted or
\* lowered, a row cancelled or deleted, or what charges met
\* (handleRefundClawback, generateRecordsForOrder).
THEOREM NeverOverClawedHolds == ProfitSpec => []NeverOverClawed
<1>1. ProfitInv /\ ChargedInv => NeverOverClawed
  <2> SUFFICES ASSUME ProfitInv, Charged, NEW m \in Module PROVE ~(Clawed(m) > Owed(m))
    BY DEF ChargedInv, Clear, NeverOverClawed
  <2>1. Clawed(m) \in Nat
    BY Sums
  <2>2. Owed(m) \in Nat
    BY OwedNat
  <2> QED BY <2>1, <2>2 DEF Charged
<1> QED BY <1>1, ChargedFirst, ChargedNext, ProfitInvHolds, PTL DEF ProfitSpec

-----------------------------------------------------------------------------
(* The shares of a module add up to the module's share *)

\* The units of a share split by months: the same in each, and the rest in
\* the last.
LEMMA MonthsAddUp ==
    ASSUME NEW n \in Nat \ {0}, NEW even \in Nat, NEW last \in Nat
    PROVE  LET V == ((1 .. n - 1) \X (1 .. even)) \cup ({n} \X (1 .. last))
           IN IsFiniteSet(V) /\ Cardinality(V) = (n - 1) * even + last
<1>1. IsFiniteSet(1 .. n - 1) /\ Cardinality(1 .. n - 1) = n - 1
  BY FS_Interval
<1>2. IsFiniteSet(1 .. even) /\ Cardinality(1 .. even) = even
  BY FS_Interval
<1>3. PICK A : A = (1 .. n - 1) \X (1 .. even)
  OBVIOUS
<1>4. IsFiniteSet(A) /\ Cardinality(A) = (n - 1) * even
  BY <1>1, <1>2, <1>3, FS_Product
<1>5. PICK B : B = {n} \X (1 .. last)
  OBVIOUS
<1>6. IsFiniteSet(B) /\ Cardinality(B) = last
  BY <1>5, UnitsAre DEF Units
<1>7. A \cap B = {}
  BY <1>3, <1>5
<1>8. /\ IsFiniteSet(A \cup B)
      /\ Cardinality(A \cup B) = Cardinality(A) + Cardinality(B) - Cardinality(A \cap B)
  BY <1>4, <1>6, FS_Union
<1>9. Cardinality(A \cap B) = 0
  BY <1>7, FS_EmptySet
<1>10. n - 1 \in Nat /\ (n - 1) * even \in Nat
  <2>1. n - 1 \in Nat
    OBVIOUS
  <2> QED BY <2>1, Product
<1> QED BY <1>3, <1>4, <1>5, <1>6, <1>8, <1>9, <1>10

LEMMA WholeSum ==
    ASSUME NEW m \in Module, NEW S \in SUBSET ShareRow,
           \A r \in S : /\ r.module = m /\ r.month \in 1 .. Months[m]
                        /\ r.amount = MonthlyShare(m, r.month),
           \A x, y \in S : x.month = y.month => x = y,
           \A i \in 1 .. Months[m] : \E r \in S : r.month = i
    PROVE  TotalOf(S) = Share[m]
<1>1. PICK n \in Nat \ {0} : n = Months[m]
  BY Even
<1>2. PICK even \in Nat : /\ even = Share[m] \div n /\ even * (n - 1) \in Nat
                          /\ even * (n - 1) + even <= Share[m]
  BY <1>1, Even
<1>3. Share[m] \in Nat
  BY Even
<1>4. PICK most \in Nat : most = even * (n - 1)
  BY <1>2
<1>5. PICK last \in Nat : last = Share[m] - most
  BY <1>2, <1>3, <1>4
<1>6. \A i \in 1 .. n : MonthlyShare(m, i) = IF i = n THEN last ELSE even
  BY <1>1, <1>2, <1>4, <1>5 DEF MonthlyShare
<1>7. PICK V : V = ((1 .. n - 1) \X (1 .. even)) \cup ({n} \X (1 .. last))
  OBVIOUS
<1>8. IsFiniteSet(V) /\ Cardinality(V) = (n - 1) * even + last
  BY <1>7, MonthsAddUp
<1>9. PICK f : f = [u \in UnitsOf(S) |-> <<u[1][2], u[2]>>]
  OBVIOUS
<1>10. \A u \in UnitsOf(S) : \E r \in S :
         u[1] = Id(r) /\ u[1][2] = r.month /\ u[2] \in 1 .. r.amount /\ u = <<Id(r), u[2]>>
  BY DEF UnitsOf, Units, Id
<1>11. f \in [UnitsOf(S) -> V]
  <2> SUFFICES ASSUME NEW u \in UnitsOf(S) PROVE <<u[1][2], u[2]>> \in V
    BY <1>9
  <2>1. PICK r \in S : u[1][2] = r.month /\ u[2] \in 1 .. r.amount
    BY <1>10
  <2>2. PICK i \in 1 .. n : i = r.month
    BY <1>1
  <2>3. r.amount = IF i = n THEN last ELSE even
    BY <1>6, <2>2
  <2>4. CASE i = n
    BY <1>7, <2>1, <2>2, <2>3, <2>4
  <2>5. CASE i # n
    <3>1. i \in 1 .. n - 1
      BY <2>2, <2>5
    <3> QED BY <1>7, <2>1, <2>2, <2>3, <2>5, <3>1
  <2> QED BY <2>4, <2>5
<1>12. f \in Injection(UnitsOf(S), V)
  <2> SUFFICES ASSUME NEW u \in UnitsOf(S), NEW v \in UnitsOf(S), f[u] = f[v] PROVE u = v
    BY <1>11 DEF Injection, IsInjective
  <2>1. PICK x \in S : u[1][2] = x.month /\ u = <<Id(x), u[2]>>
    BY <1>10
  <2>2. PICK y \in S : v[1][2] = y.month /\ v = <<Id(y), v[2]>>
    BY <1>10
  <2>3. x.month = y.month /\ u[2] = v[2]
    BY <1>9, <2>1, <2>2
  <2> QED BY <2>1, <2>2, <2>3
<1>13. f \in Surjection(UnitsOf(S), V)
  <2> SUFFICES ASSUME NEW v \in V PROVE \E u \in UnitsOf(S) : f[u] = v
    BY <1>11 DEF Surjection
  <2>1. PICK i \in 1 .. n, j \in Nat : v = <<i, j>> /\ j \in 1 .. (IF i = n THEN last ELSE even)
    BY <1>7
  <2>2. PICK r \in S : r.month = i
    BY <1>1
  <2>3. r.amount = IF i = n THEN last ELSE even
    BY <1>6, <2>2
  <2>4. j \in 1 .. r.amount
    BY <2>1, <2>3
  <2>5. <<Id(r), j>> \in Units(Id(r), r.amount)
    BY <2>4 DEF Units
  <2>6. <<Id(r), j>> \in UnitsOf(S)
    BY <2>5 DEF UnitsOf
  <2>7. f[<<Id(r), j>>] = v
    BY <1>9, <2>1, <2>2, <2>6 DEF Id
  <2> QED BY <2>6, <2>7
<1>14. Cardinality(UnitsOf(S)) = Cardinality(V)
  BY <1>8, <1>12, <1>13, FS_Injection
<1>15. (n - 1) * even = most
  BY <1>1, <1>4
<1> QED BY <1>3, <1>5, <1>8, <1>14, <1>15 DEF TotalOf, UnitsOf

-----------------------------------------------------------------------------
\* A module's shares are there, each month's once.
Whole(m) ==
    \A i \in 1 .. Months[m] :
        \E r \in Shares : /\ r.module = m /\ r.month = i
                          /\ \A x \in Shares : x.module = m /\ x.month = i => x = r

Calculates(r) ==
    /\ r.pc \in Calculating => Shares = {}
    /\ r.pc = "deleting" => \A x \in records : x.status # "SETTLED"

Calculated ==
    /\ Shares = {} \/ \A m \in Module : Whole(m)
    /\ \A p \in Run : Calculates(runs[p])

SharesInv == Refundable # {} /\ Clear(ChangesShares) => Calculated

\* One reconciliation or recalculation is under way at a time.
LEMMA AloneCalculating ==
    ASSUME ProfitInv, Clear(ChangesShares), NEW p \in Run, NEW q \in Run,
           runs[p].pc \in {"deleting"} \cup Calculating,
           runs[q].pc \in {"deleting"} \cup Calculating
    PROVE  p = q
<1>1. \A x \in Run : runs[x].pc \in {"deleting"} \cup Calculating =>
        runs[x].pc # "idle" /\ runs[x].job \in {"reconcile", "recalculate"}
  BY DEF ProfitInv, PlacesOK, Placed, Clawing, Calculating
<1>2. \A a, b \in {"reconcile", "recalculate"} : {a, b} \in ChangesShares
  <2>1. /\ {"reconcile", "reconcile"} = {"reconcile"}
        /\ {"reconcile", "recalculate"} = {"recalculate", "reconcile"}
    OBVIOUS
  <2>2. {"reconcile"} \in ChangesShares
    BY DEF ChangesShares
  <2>3. \A a \in {"reconcile", "recalculate"} : {"recalculate", a} \in ChangesShares
    BY DEF ChangesShares, Activity
  <2> QED BY <2>1, <2>2, <2>3
<1>3. p # q => {runs[p].job, runs[q].job} \in mishaps
  BY <1>1 DEF ProfitInv, Meetings, Busy, At
<1> QED BY <1>1, <1>2, <1>3 DEF Clear, Among

LEMMA NewRun ==
    ASSUME NEW p \in Run, NEW r, Turns(p, r), Calculates(r)',
           \A q \in Run : q # p => Calculates(runs[q])'
    PROVE  \A q \in Run : Calculates(runs[q])'
<1> SUFFICES ASSUME NEW q \in Run PROVE Calculates(runs[q])'
  OBVIOUS
<1>1. CASE q = p
  BY <1>1 DEF Turns, Calculates
<1> QED BY <1>1

\* Steps that leave the rows as they are.
LEMMA ReadsShares ==
    ASSUME Calculated, NEW p \in Run, NEW r, Turns(p, r), UNCHANGED records, Calculates(r)
    PROVE  Calculated'
<1>1. Shares' = Shares /\ \A m \in Module : Whole(m)' <=> Whole(m)
  BY DEF Shares, Whole
<1>2. Calculates(r)'
  BY <1>1 DEF Calculates
<1>3. \A q \in Run : q # p => Calculates(runs[q])'
  BY <1>1 DEF Calculated, Calculates, Turns
<1>4. \A q \in Run : Calculates(runs[q])'
  BY <1>2, <1>3, NewRun
<1> QED BY <1>1, <1>4 DEF Calculated

\* An order with shares has one under way: the rule has a refundable module.
LEMMA NoSharesWhen ==
    ASSUME ProfitInv, Clear(ChangesShares), Refundable # {}, Calculated, RefundableRows = {}
    PROVE  Shares = {}
<1> SUFFICES ASSUME \A m \in Module : Whole(m) PROVE FALSE
  BY DEF Calculated
<1>1. PICK m \in Module : m \in Refundable
  BY ProfitAssumption
<1>2. 1 \in 1 .. Months[m]
  BY ProfitAssumption
<1>3. PICK r \in Shares : r.module = m
  BY <1>2 DEF Whole
<1>4. {"cancelled"} \notin mishaps
  BY DEF Clear, Among, ChangesShares
<1>5. r.status \in Live
  BY <1>3, <1>4, RowsFitNow DEF Shares, RowsFit, ShareRow, Status, Live
<1> QED BY <1>1, <1>3, <1>5 DEF RefundableRows, Shares

LEMMA AddShares ==
    ASSUME ProfitInv, Calculated, NEW p \in Run, AddClawback(p)
    PROVE  Calculated'
<1>1. PICK r, x : /\ Turns(p, r) /\ r.pc = "picking"
                  /\ x \in runs[p].rest /\ x \in ShareRow
                  /\ Charge(x.module, ClawbackTarget(x.amount, runs[p].amount) - runs[p].seen)
  BY AddDoes
<1>2. Shares' = Shares /\ \A y \in records' : y \in records \/ y.status = "CLAWBACK"
  BY <1>1 DEF Charge, Shares
<1>3. \A m \in Module : Whole(m)' <=> Whole(m)
  BY <1>2 DEF Whole
<1>4. Calculates(r)'
  BY <1>1 DEF Calculates, Calculating
<1>5. \A q \in Run : q # p => Calculates(runs[q])'
  BY <1>1, <1>2 DEF Calculated, Calculates, Turns
<1>6. \A q \in Run : Calculates(runs[q])'
  BY <1>1, <1>4, <1>5, NewRun
<1> QED BY <1>2, <1>3, <1>6 DEF Calculated

LEMMA DeleteShares ==
    ASSUME ProfitInv, Calculated, NEW p \in Run, DeleteUnsettled(p)
    PROVE  Calculated'
<1>1. PICK r : Turns(p, r) /\ r.pc = "reading"
  BY DeleteDoes
<1>2. records' = {}
  BY DeleteDoes DEF DeleteUnsettled, Calculated, Calculates
<1>3. Shares' = {}
  BY <1>2 DEF Shares
<1>4. \A q \in Run : Calculates(runs[q])'
  BY <1>2, <1>3 DEF Calculates
<1> QED BY <1>3, <1>4 DEF Calculated

LEMMA PublishWhole ==
    ASSUME ProfitInv, ProfitInv', Clear(ChangesShares), Calculated, NEW p \in Run,
           PublishShares(p)
    PROVE  Calculated'
<1>1. PICK r : Turns(p, r) /\ r.pc \in {"reconciling", "finding"}
  BY PublishDoes
<1>2. PICK seen \in Nat : seen = runs[p].seen
  BY PublishDoes
<1>3. Insert(Generated(seen)) /\ runs[p].pc = "publishing"
  BY <1>2, PublishDoes
<1>4. Shares = {}
  BY <1>3 DEF Calculated, Calculates, Calculating
<1>5. \A x \in Generated(seen) :
        /\ Fresh(x).module = x.module /\ Fresh(x).month = x.month
        /\ Fresh(x).status = x.status
  BY <1>3, FreshIs, GeneratedRows DEF Insert, Insertable
<1>6. \A y \in Shares' : \E x \in Generated(seen) : y = Fresh(x)
  BY <1>3, <1>4 DEF Insert, Shares
<1>7. ASSUME NEW m \in Module PROVE Whole(m)'
  <2> SUFFICES ASSUME NEW i \in 1 .. Months[m]
               PROVE  \E y \in Shares' : /\ y.module = m /\ y.month = i
                                         /\ \A z \in Shares' : z.module = m /\ z.month = i => z = y
    BY DEF Whole
  <2>1. PICK x \in Generated(seen) : x.module = m /\ x.month = i /\ x.status = "PENDING"
    BY GeneratedRows
  <2>2. Fresh(x) \in Shares' /\ Fresh(x).module = m /\ Fresh(x).month = i
    BY <1>3, <1>5, <2>1 DEF Insert, Shares
  <2>3. ASSUME NEW z \in Shares', z.module = m, z.month = i
        PROVE  z = Fresh(x)
    <3>1. PICK y \in Generated(seen) : z = Fresh(y)
      BY <1>6
    <3>2. y.module = x.module /\ y.month = x.month
      BY <1>5, <2>1, <2>3, <3>1
    <3>3. y = x
      BY <3>2, GeneratedRows DEF Insertable
    <3> QED BY <3>1, <3>3
  <2> QED BY <2>2, <2>3
<1>8. Calculates(r)'
  BY <1>1 DEF Calculates, Calculating
<1>9. \A q \in Run : q # p => Calculates(runs[q])'
  <2> SUFFICES ASSUME NEW q \in Run, q # p PROVE Calculates(runs[q])'
    OBVIOUS
  <2>1. runs[q].pc \notin {"deleting"} \cup Calculating
    BY <1>3, AloneCalculating DEF Calculating
  <2> QED BY <1>1, <2>1 DEF Calculates, Turns
<1>10. \A q \in Run : Calculates(runs[q])'
  BY <1>1, <1>8, <1>9, NewRun
<1> QED BY <1>7, <1>10 DEF Calculated

LEMMA StepShares ==
    ASSUME ProfitInv, ProfitInv', Clear(ChangesShares), Refundable # {}, Calculated,
           NEW p \in Run, Step(p)
    PROVE  Calculated'
<1>1. Calculates(runs[p])
  BY DEF Calculated
<1>2. CASE FindRecords(p)
  BY <1>2, FindDoes, ReadsShares DEF FindRecords, Calculates, Calculating
<1>3. CASE SumClawbacks(p)
  <2>1. UNCHANGED records /\ NoRun.pc \notin {"deleting"} \cup Calculating
    BY <1>3, NoRunIs DEF SumClawbacks, Calculating
  <2>2. \E r : Turns(p, r) /\ r.pc \notin {"deleting"} \cup Calculating
    BY <1>3, <2>1, SumDoes DEF Calculating
  <2> QED BY <2>1, <2>2, ReadsShares DEF Calculates
<1>4. CASE AddClawback(p)
  BY <1>4, AddShares
<1>5. CASE CheckShares(p)
  <2>1. PICK r : Turns(p, r) /\ (r.pc = "finding" \/ (r.pc = "reading" /\ RefundableRows = {}))
    BY <1>5, CheckDoes
  <2>2. Calculates(r)
    BY <2>1, NoSharesWhen DEF Calculates, Calculating
  <2> QED BY <1>5, <2>1, <2>2, ReadsShares DEF CheckShares
<1>6. CASE FinishReconcile(p)
  BY <1>6, FinishDoes, NoRunIs, ReadsShares DEF FinishReconcile, Calculates, Calculating
<1>7. CASE ReadOrder(p)
  BY <1>1, <1>7, ReadDoes, ReadsShares DEF ReadOrder, Calculates, Calculating
<1>8. CASE PublishShares(p)
  BY <1>8, PublishWhole
<1>9. CASE WeighLocked(p)
  <2>1. \E r : Turns(p, r) /\ r.pc \notin {"deleting"} \cup Calculating
    BY <1>9, WeighDoes DEF Calculating
  <2> QED BY <1>9, <2>1, ReadsShares DEF WeighLocked, Calculates
<1>10. CASE DeleteUnsettled(p)
  BY <1>10, DeleteShares
<1>11. CASE StartReconcile(p)
  BY <1>11, RestartDoes, ReadsShares DEF StartReconcile, Calculates, Calculating
<1> QED BY <1>2, <1>3, <1>4, <1>5, <1>6, <1>7, <1>8, <1>9, <1>10, <1>11 DEF Step

\* Rows that take another status are the same shares.
LEMMA RestatedShares ==
    ASSUME ProfitInv, ProfitInv', NEW rows, NEW s \in Live, Restates(rows, s)
    PROVE  /\ Shares = {} => Shares' = {}
           /\ \A m \in Module : Whole(m) => Whole(m)'
<1>1. RowsFit(records) /\ (\A x, y \in records' : Id(x) = Id(y) => x = y)
      /\ (\A x \in records' : Sized(x))
  BY RowsFitNow DEF ProfitInv, RowsOK
<1>2. \A y \in Shares' : \E x \in Shares : Alike(x, y)
  <2> SUFFICES ASSUME NEW y \in Shares' PROVE \E x \in Shares : Alike(x, y)
    OBVIOUS
  <2>1. y \in records' /\ y.month # 0
    BY <1>1 DEF Shares, Sized
  <2>2. PICK x \in records : Alike(x, y)
    BY <2>1 DEF Restates
  <2>3. x.month # 0
    BY <2>1, <2>2 DEF Alike
  <2>4. x.status # "CLAWBACK"
    BY <1>1, <2>3 DEF RowsFit, Sized
  <2> QED BY <2>2, <2>4 DEF Shares
<1>3. \A x \in Shares : \E y \in Shares' : Alike(x, y)
  BY DEF Restates, Shares, Live
<1>4. ASSUME NEW m \in Module, Whole(m) PROVE Whole(m)'
  <2> SUFFICES ASSUME NEW i \in 1 .. Months[m]
               PROVE  \E y \in Shares' : /\ y.module = m /\ y.month = i
                                         /\ \A z \in Shares' : z.module = m /\ z.month = i => z = y
    BY DEF Whole
  <2>1. PICK x \in Shares : /\ x.module = m /\ x.month = i
                            /\ \A z \in Shares : z.module = m /\ z.month = i => z = x
    BY <1>4 DEF Whole
  <2>2. PICK y \in Shares' : Alike(x, y)
    BY <1>3
  <2>3. ASSUME NEW z \in Shares', z.module = m, z.month = i
        PROVE  z = y
    <3>1. PICK u \in Shares : Alike(u, z)
      BY <1>2
    <3>2. u = x
      BY <2>1, <2>3, <3>1 DEF Alike
    <3> QED BY <1>1, <2>2, <3>1, <3>2 DEF Alike, Shares
  <2> QED BY <2>1, <2>2, <2>3 DEF Alike
<1> QED BY <1>2, <1>4

LEMMA RestatesShares ==
    ASSUME ProfitInv, ProfitInv', NEW rows, NEW s \in Live, Restates(rows, s),
           UNCHANGED runs, Calculated, \A p \in Run : runs[p].pc # "deleting"
    PROVE  Calculated'
<1>1. \A p \in Run : Calculates(runs[p])'
  BY RestatedShares DEF Calculated, Calculates
<1> QED BY <1>1, RestatedShares DEF Calculated

LEMMA SharesNext == ProfitInv /\ ProfitInv' /\ SharesInv /\ [ProfitNext]_profitVars => SharesInv'
<1> SUFFICES ASSUME ProfitInv, ProfitInv', SharesInv, [ProfitNext]_profitVars,
                    Refundable # {}, Clear(ChangesShares)'
             PROVE  Calculated'
  BY DEF SharesInv
<1>1. Clear(ChangesShares) /\ Calculated
  <2>1. mishaps \subseteq mishaps'
    BY NeverForgets
  <2> QED BY <2>1 DEF SharesInv, Clear, Among
<1>2. \A p \in Run : runs[p].pc = "deleting" => runs[p].job = "recalculate" /\ p \in Busy
  BY DEF ProfitInv, PlacesOK, Placed, Clawing, Calculating, Busy, At
<1>3. ASSUME NEW f \in Refund, NEW h \in Refunder, SettleRefund(f, h)
      PROVE  Calculated'
  <2>1. UNCHANGED records
    BY <1>3 DEF SettleRefund
  <2> QED BY <1>1, <1>3, <2>1, SettleDoes, ReadsShares DEF Calculates, Calculating
<1>4. ASSUME UNCHANGED <<records, runs>>
      PROVE  Calculated'
  <2>1. Shares' = Shares /\ \A m \in Module : Whole(m)' <=> Whole(m)
    BY <1>4 DEF Shares, Whole
  <2>2. \A q \in Run : Calculates(runs[q])'
    BY <1>1, <1>4, <2>1 DEF Calculated, Calculates
  <2> QED BY <1>1, <2>1, <2>2 DEF Calculated
<1>5. ASSUME NEW p \in Batch, Reconcile(p)
      PROVE  Calculated'
  <2>1. UNCHANGED records /\ p \in Run
    BY <1>5 DEF Reconcile, Run
  <2> QED BY <1>1, <1>5, <2>1, ReconcileDoes, ReadsShares DEF Calculates, Calculating
<1>6. ASSUME NEW p \in Batch, Recalculate(p)
      PROVE  Calculated'
  <2>1. UNCHANGED records /\ p \in Run
    BY <1>6 DEF Recalculate, Run
  <2> QED BY <1>1, <1>6, <2>1, RecalculateDoes, ReadsShares DEF Calculates, Calculating
<1>7. ASSUME NEW p \in Run, Step(p)
      PROVE  Calculated'
  BY <1>1, <1>7, StepShares
<1>8. ASSUME NEW p \in Run, Die(p) \/ CatchFailure(p)
      PROVE  Calculated'
  <2>1. UNCHANGED records /\ NoRun.pc \notin {"deleting"} \cup Calculating
    BY <1>8, NoRunIs DEF Die, CatchFailure, Calculating
  <2>2. \E r : Turns(p, r) /\ r.pc \notin {"deleting"} \cup Calculating
    BY <1>8, <2>1, DieDoes, CatchDoes DEF Calculating
  <2> QED BY <1>1, <2>1, <2>2, ReadsShares DEF Calculates
<1>9. CASE SettleDue
  <2>1. UNCHANGED runs /\ "SETTLED" \in Live /\ Meets("settlement") \subseteq mishaps'
    BY <1>9 DEF SettleDue, Live, Note
  <2>2. {"settlement", "recalculate"} \in ChangesShares
    <3>1. {"recalculate", "settlement"} \in ChangesShares
      BY DEF ChangesShares, Activity
    <3>2. {"settlement", "recalculate"} = {"recalculate", "settlement"}
      OBVIOUS
    <3> QED BY <3>1, <3>2
  <2>3. \A p \in Run : runs[p].pc # "deleting"
    BY <1>2, <2>1, <2>2 DEF Meets, Clear, Among
  <2> QED BY <1>1, <1>9, <2>1, <2>3, DueDoes, RestatesShares
<1>10. CASE ClerkRead
  BY <1>4, <1>10 DEF ClerkRead
<1>11. CASE ClerkWrite
  <2>1. UNCHANGED runs /\ clerk # NoClerk
    BY <1>11 DEF ClerkWrite
  <2>2. {"deleted"} \notin mishaps /\ {"cancelled"} \notin mishaps
        /\ {"recalculate", "clerk"} \notin mishaps
    BY <1>1 DEF Clear, Among, ChangesShares, Activity
  <2>3. PICK rows : Restates(rows, clerk.to) /\ clerk.to \in Live
    BY <1>11, <2>2, WriteDoes DEF Live
  <2>4. \A p \in Run : runs[p].pc # "deleting"
    BY <1>2, <2>1, <2>2 DEF ProfitInv, Meetings
  <2> QED BY <1>1, <2>1, <2>3, <2>4, RestatesShares
<1>12. ASSUME NEW f \in Refund, SyncSettled(f) \/ RevertRefund(f) \/ EditRefund(f)
      PROVE  Calculated'
  BY <1>4, <1>12 DEF SyncSettled, RevertRefund, EditRefund
<1>13. CASE UNCHANGED profitVars
  BY <1>4, <1>13 DEF profitVars
<1> QED BY <1>3, <1>5, <1>6, <1>7, <1>8, <1>9, <1>10, <1>11, <1>12, <1>13 DEF ProfitNext

\* Once the shares of an order are calculated, those of each module add up to
\* the module's share, unless a row was cancelled or deleted, reconciliations
\* met, or a recalculation met anything but a refund
\* (calculateForSpecificRule, calculateProfitShare).
THEOREM SharesIntactHolds == ProfitSpec => []SharesIntact
<1>1. ProfitInit => SharesInv
  <2> SUFFICES ASSUME ProfitInit PROVE Calculated
    BY DEF SharesInv
  <2>1. Shares = {} /\ \A p \in Run : runs[p].pc = "idle"
    BY NoRunIs DEF ProfitInit, Shares
  <2> QED BY <2>1 DEF Calculated, Calculates, Calculating
<1>2. ProfitInv /\ SharesInv => SharesIntact
  <2> SUFFICES ASSUME ProfitInv, Calculated, Shares # {}, NEW m \in Module
               PROVE  TotalOf({r \in Shares : r.module = m}) = Share[m]
    BY DEF SharesInv, Clear, SharesIntact
  <2>1. PICK S : S = {r \in Shares : r.module = m}
    OBVIOUS
  <2>2. S \in SUBSET ShareRow
    BY <2>1, RowsFitNow DEF RowsFit, Shares
  <2>3. \A r \in S : /\ r.module = m /\ r.month \in 1 .. Months[m]
                     /\ r.amount = MonthlyShare(m, r.month)
    <3> SUFFICES ASSUME NEW r \in S
                 PROVE  /\ r.module = m /\ r.month \in 1 .. Months[m]
                        /\ r.amount = MonthlyShare(m, r.month)
      OBVIOUS
    <3>1. r.module = m /\ r.status # "CLAWBACK" /\ Sized(r) /\ r.month \in Nat
      BY <2>1, RowsFitNow DEF RowsFit, Shares, ShareRow
    <3>2. Months[m] \in Nat
      BY ProfitAssumption
    <3> QED BY <3>1, <3>2 DEF Sized
  <2>4. Whole(m)
    BY DEF Calculated
  <2>5. \A x, y \in S : x.month = y.month => x = y
    BY <2>1, <2>3, <2>4 DEF Whole
  <2>6. \A i \in 1 .. Months[m] : \E r \in S : r.month = i
    BY <2>1, <2>4 DEF Whole
  <2> QED BY <2>1, <2>2, <2>3, <2>5, <2>6, WholeSum
<1> QED BY <1>1, <1>2, SharesNext, ProfitInvHolds, PTL DEF ProfitSpec

-----------------------------------------------------------------------------
\* All that a refund asks of what there is has been taken back.
Covered(f) ==
    \A r \in RefundableRows : Clawed(r.module) >= ClawbackTarget(r.amount, amount[f])

\* And rows to come are like those there are.
Secured(f) == Covered(f) /\ (Refundable = {} \/ RefundableRows # {})

Like(x, y) == x.module = y.module /\ x.month = y.month

Complete ==
    \A m \in Refundable : \A i \in 1 .. Months[m] :
        \E r \in RefundableRows : r.module = m /\ r.month = i

\* A row is covered, or the run has still to come to one like it.
Coming(r) ==
    \A x \in RefundableRows :
      \/ Clawed(x.module) >= ClawbackTarget(x.amount, r.amount)
      \/ \E y \in r.rest : Like(x, y)

Covering(r) ==
    r.pc # "idle" /\ r.then = "turning" =>
      /\ \A f \in Settled : <<f, amount[f]>> \notin r.refunds =>
           Secured(f) \/ (r.pc # "turning" /\ r.amount = amount[f])
      /\ r.pc \in Calculating => RefundableRows = {} \/ Complete
      /\ r.pc \in Clawing => Refundable = {} \/ RefundableRows # {}
      /\ r.pc \in {"picking", "adding"} => Coming(r)
      /\ r.pc = "adding" => r.seen <= Clawed(r.row[1])

Covers == \A p \in Run : Covering(runs[p])

CoveredInv == Clear(Disturbs) => Covers

\* Rows alike have the same amount.
LEMMA LiveRow ==
    ASSUME NEW r \in ShareRow, Sized(r), r.status \in Live
    PROVE  /\ r.module \in Module /\ r.amount \in Nat /\ r.month \in Nat \ {0}
           /\ r.month \in 1 .. Months[r.module]
           /\ r.amount = MonthlyShare(r.module, r.month)
<1>1. r.module \in Module /\ r.amount \in Nat /\ r.month \in Nat /\ r.month # 0
  BY DEF ShareRow, Sized, Live
<1>2. Months[r.module] \in Nat
  BY <1>1, ProfitAssumption
<1> QED BY <1>1, <1>2 DEF Sized

LEMMA LiveRows ==
    ASSUME ProfitInv, NEW r \in RefundableRows
    PROVE  r \in records /\ r \in ShareRow /\ Sized(r) /\ r.status \in Live /\ r.module \in Refundable
BY RowsFitNow DEF RowsFit, RefundableRows

\* Nothing was settled or edited that is, no clawback is gone, and the rows
\* are like those there were.
Advances ==
    /\ Settled' \subseteq Settled /\ \A f \in Settled' : amount'[f] = amount[f]
    /\ \A m \in Module : Clawed(m) \in Nat /\ Clawed(m)' \in Nat /\ Clawed(m) <= Clawed(m)'
    /\ \A z \in RefundableRows' : \E x \in RefundableRows : Like(x, z)
    /\ \A x \in RefundableRows : \E z \in RefundableRows' : Like(x, z)

LEMMA Compared ==
    ASSUME ProfitInv, ProfitInv', Advances, NEW z \in RefundableRows'
    PROVE  \E x \in RefundableRows :
             /\ Like(x, z) /\ x.amount = z.amount /\ x.module \in Module /\ x.amount \in Nat
             /\ Clawed(x.module) \in Nat /\ Clawed(z.module)' \in Nat
             /\ Clawed(x.module) <= Clawed(z.module)'
<1>1. PICK x \in RefundableRows : Like(x, z)
  BY DEF Advances
<1>2. x.module \in Module /\ x.amount \in Nat /\ x.amount = MonthlyShare(x.module, x.month)
  BY LiveRows, LiveRow
<1>3. z \in ShareRow /\ Sized(z) /\ z.status \in Live
  BY DEF RefundableRows, ProfitInv, Shapes, RowsOK
<1>4. z.amount = MonthlyShare(z.module, z.month)
  BY <1>3, LiveRow
<1> QED BY <1>1, <1>2, <1>4 DEF Like, Advances

LEMMA SecuredKept ==
    ASSUME ProfitInv, ProfitInv', Advances, NEW f \in Settled', Secured(f)
    PROVE  Secured(f)'
<1>1. ASSUME NEW z \in RefundableRows'
      PROVE  Clawed(z.module)' >= ClawbackTarget(z.amount, amount'[f])
  <2>1. PICK x \in RefundableRows :
             /\ x.amount = z.amount /\ x.amount \in Nat
             /\ Clawed(x.module) \in Nat /\ Clawed(z.module)' \in Nat
             /\ Clawed(x.module) <= Clawed(z.module)'
    BY Compared
  <2>2. PICK target \in Nat : target = ClawbackTarget(x.amount, amount[f])
    <3>1. amount[f] \in Nat
      BY Sums DEF Advances
    <3> QED BY <2>1, <3>1, TargetNat
  <2>3. Clawed(x.module) >= target
    BY <2>2 DEF Secured, Covered
  <2>4. amount'[f] = amount[f]
    BY DEF Advances
  <2> QED BY <2>1, <2>2, <2>3, <2>4
<1>2. Refundable = {} \/ RefundableRows' # {}
  BY DEF Secured, Advances
<1> QED BY <1>1, <1>2 DEF Secured, Covered

LEMMA ComingKept ==
    ASSUME ProfitInv, ProfitInv', Advances, NEW r, r.amount \in Nat, Coming(r)
    PROVE  Coming(r)'
<1> SUFFICES ASSUME NEW z \in RefundableRows'
             PROVE  \/ Clawed(z.module)' >= ClawbackTarget(z.amount, r.amount)
                    \/ \E y \in r.rest : Like(z, y)
  BY DEF Coming
<1>1. PICK x \in RefundableRows :
             /\ Like(x, z) /\ x.amount = z.amount /\ x.amount \in Nat
             /\ Clawed(x.module) \in Nat /\ Clawed(z.module)' \in Nat
             /\ Clawed(x.module) <= Clawed(z.module)'
  BY Compared
<1>2. PICK target \in Nat : target = ClawbackTarget(x.amount, r.amount)
  BY <1>1, TargetNat
<1>3. CASE Clawed(x.module) >= target
  BY <1>1, <1>2, <1>3
<1>4. CASE \E y \in r.rest : Like(x, y)
  BY <1>1, <1>4 DEF Like
<1> QED BY <1>2, <1>3, <1>4 DEF Coming

LEMMA CoveringKept ==
    ASSUME ProfitInv, ProfitInv', Advances, NEW r, Fits(r), Covering(r)
    PROVE  Covering(r)'
<1> SUFFICES ASSUME r.pc # "idle", r.then = "turning"
             PROVE  /\ \A f \in Settled' : <<f, amount'[f]>> \notin r.refunds =>
                         Secured(f)' \/ (r.pc # "turning" /\ r.amount = amount'[f])
                    /\ r.pc \in Calculating => RefundableRows' = {} \/ Complete'
                    /\ r.pc \in Clawing => Refundable = {} \/ RefundableRows' # {}
                    /\ r.pc \in {"picking", "adding"} => Coming(r)'
                    /\ r.pc = "adding" => r.seen <= Clawed(r.row[1])'
  BY DEF Covering
<1>1. /\ \A f \in Settled : <<f, amount[f]>> \notin r.refunds =>
           Secured(f) \/ (r.pc # "turning" /\ r.amount = amount[f])
      /\ r.pc \in Calculating => RefundableRows = {} \/ Complete
      /\ r.pc \in Clawing => Refundable = {} \/ RefundableRows # {}
      /\ r.pc \in {"picking", "adding"} => Coming(r)
      /\ r.pc = "adding" => r.seen <= Clawed(r.row[1])
  BY DEF Covering
<1>2. r \in RunRecord /\ r.amount \in Nat /\ r.seen \in Nat
  BY DEF Fits, RunRecord
<1>3. \A f \in Settled' : <<f, amount'[f]>> \notin r.refunds =>
        Secured(f)' \/ (r.pc # "turning" /\ r.amount = amount'[f])
  <2> SUFFICES ASSUME NEW f \in Settled', Secured(f) PROVE Secured(f)'
    BY <1>1 DEF Advances
  <2> QED BY SecuredKept
<1>4. r.pc \in Calculating => RefundableRows' = {} \/ Complete'
  <2>1. RefundableRows = {} => RefundableRows' = {}
    BY DEF Advances
  <2>2. Complete => Complete'
    BY DEF Advances, Complete, Like
  <2> QED BY <1>1, <2>1, <2>2
<1>5. r.pc \in Clawing => Refundable = {} \/ RefundableRows' # {}
  BY <1>1 DEF Advances
<1>6. r.pc \in {"picking", "adding"} => Coming(r)'
  BY <1>1, <1>2, ComingKept
<1>7. r.pc = "adding" => r.seen <= Clawed(r.row[1])'
  <2> SUFFICES ASSUME r.pc = "adding" PROVE r.seen <= Clawed(r.row[1])'
    OBVIOUS
  <2>1. PICK m \in Module : m = r.row[1]
    BY <1>2 DEF Fits, RunRecord, ShareRow, Id
  <2>2. Clawed(m) \in Nat /\ Clawed(m)' \in Nat /\ Clawed(m) <= Clawed(m)'
    BY DEF Advances
  <2> QED BY <1>1, <1>2, <2>1, <2>2
<1> QED BY <1>3, <1>4, <1>5, <1>6, <1>7

\* A step that advances, and a run of its own that covers.
LEMMA GoesCovers ==
    ASSUME ProfitInv, ProfitInv', Advances, Covers, NEW p \in Run, NEW r, Turns(p, r),
           Covering(r)'
    PROVE  Covers'
<1> SUFFICES ASSUME NEW q \in Run PROVE Covering(runs[q])'
  BY DEF Covers
<1>1. CASE q = p
  BY <1>1 DEF Turns, Covering, Coming
<1>2. CASE q # p
  <2>1. PICK s : s = runs[q]
    OBVIOUS
  <2>2. Fits(s) /\ Covering(s) /\ runs'[q] = s
    BY <1>2, <2>1, RunFits DEF Covers, Turns
  <2>3. Covering(s)'
    BY <2>2, CoveringKept
  <2> QED BY <2>2, <2>3 DEF Covering, Coming
<1> QED BY <1>1, <1>2

LEMMA StaysCovered ==
    ASSUME ProfitInv, ProfitInv', Advances, Covers, UNCHANGED runs
    PROVE  Covers'
<1> SUFFICES ASSUME NEW q \in Run PROVE Covering(runs[q])'
  BY DEF Covers
<1>1. PICK s : s = runs[q]
  OBVIOUS
<1>2. Fits(s) /\ Covering(s) /\ runs'[q] = s
  BY <1>1, RunFits DEF Covers
<1>3. Covering(s)'
  BY <1>2, CoveringKept
<1> QED BY <1>2, <1>3 DEF Covering, Coming

\* What is not part of a reconciliation meets none.
LEMMA MeetsNone ==
    ASSUME ProfitInv, Clear(Disturbs), NEW p \in Run, NEW q \in Run, p # q,
           runs[p].pc # "idle", runs[p].then # "turning", runs[q].pc # "idle"
    PROVE  runs[q].then # "turning"
<1>1. Placed(runs[p]) /\ Placed(runs[q]) /\ runs[p].job \in Job /\ runs[q].job \in Job
  BY DEF ProfitInv, PlacesOK, Shapes, RunRecord
<1>2. {runs[q].job, runs[p].job} \in mishaps
  BY DEF ProfitInv, Meetings, Busy, At
<1>3. \A a \in Job : {"recalculate", a} \in Disturbs
  BY DEF Disturbs, Activity, Job
<1>4. \A a \in Job : {a, "recalculate"} = {"recalculate", a}
  OBVIOUS
<1>5. runs[p].job # "recalculate" /\ runs[q].job # "recalculate"
  BY <1>1, <1>2, <1>3, <1>4 DEF Clear, Among
<1>6. runs[p].job = "refund"
  BY <1>1, <1>5 DEF Placed, Job
<1>7. {"reconcile", "refund"} \in Disturbs
  <2>1. {"reconcile", "refund"} = {"refund", "reconcile"}
    OBVIOUS
  <2> QED BY <2>1 DEF Disturbs
<1>8. runs[q].job # "reconcile"
  BY <1>2, <1>6, <1>7 DEF Clear, Among
<1> QED BY <1>1, <1>5, <1>8 DEF Placed, Job

LEMMA ElseCovers ==
    ASSUME ProfitInv, Clear(Disturbs), NEW p \in Run, runs[p].pc # "idle",
           runs[p].then # "turning", NEW r, Turns(p, r), Covering(r)'
    PROVE  Covers'
<1> SUFFICES ASSUME NEW q \in Run PROVE Covering(runs[q])'
  BY DEF Covers
<1>1. CASE q = p
  BY <1>1 DEF Turns, Covering, Coming
<1>2. CASE q # p
  <2>1. runs'[q] = runs[q] /\ (runs[q].pc = "idle" \/ runs[q].then # "turning")
    BY <1>2, MeetsNone DEF Turns
  <2> QED BY <2>1 DEF Covering
<1> QED BY <1>1, <1>2

LEMMA SameAdvances ==
    ASSUME ProfitInv, UNCHANGED records, Settled' \subseteq Settled,
           \A f \in Settled' : amount'[f] = amount[f]
    PROVE  Advances
<1>1. RefundableRows' = RefundableRows /\ \A m : Clawed(m)' = Clawed(m)
  BY DEF RefundableRows, Clawed
<1>2. \A m : Clawed(m) \in Nat
  BY Sums
<1> QED BY <1>1, <1>2 DEF Advances, Like

LEMMA ReadsCovers ==
    ASSUME ProfitInv, ProfitInv', Covers, NEW p \in Run, NEW r, Turns(p, r),
           UNCHANGED <<refunds, records>>, Covering(r)
    PROVE  Covers'
<1>1. Advances
  BY SameAdvances DEF Settled, refunds
<1>2. Covering(r)'
  BY <1>1, CoveringKept DEF Turns
<1> QED BY <1>1, <1>2, GoesCovers

LEMMA AddCovers ==
    ASSUME ProfitInv, ProfitInv', Covers, NEW p \in Run, AddClawback(p)
    PROVE  Covers'
<1>1. PICK r, x : /\ Turns(p, r) /\ Same(r, runs[p]) /\ r.pc = "picking"
                  /\ x \in runs[p].rest /\ Id(x) = runs[p].row /\ Held(x)
                  /\ x \in ShareRow
                  /\ r.rest = runs[p].rest \ {x} /\ r.amount = runs[p].amount
                  /\ Charge(x.module, ClawbackTarget(x.amount, runs[p].amount) - runs[p].seen)
  BY AddDoes
<1>2. PICK s : s = runs[p] /\ s.pc = "adding" /\ Fits(s) /\ Covering(s)
  BY AddDoes, RunFits DEF Covers
<1>3. UNCHANGED <<refund, amount>> /\ s.amount \in Nat /\ s.seen \in Nat
  BY <1>2 DEF AddClawback, Fits, RunRecord, refunds
<1>4. /\ x.module \in Module /\ x.amount \in Nat
      /\ x.amount = MonthlyShare(x.module, x.month)
  BY <1>1, LiveRow DEF Held
<1>5. PICK target \in Nat : target = ClawbackTarget(x.amount, s.amount)
  BY <1>3, <1>4, TargetNat
<1>6. PICK missing \in Int : missing = target - s.seen
  BY <1>3
<1>7. Charge(x.module, missing)
  BY <1>1, <1>2, <1>5, <1>6
<1>8. /\ Clawed(x.module)' = IF missing > 0 THEN Clawed(x.module) + missing ELSE Clawed(x.module)
      /\ \A k : k # x.module => Clawed(k)' = Clawed(k)
      /\ RefundableRows' = RefundableRows
  BY <1>4, <1>7, ChargeSums
<1>9. \A m : Clawed(m) \in Nat
  BY Sums
<1>10. Advances
  <2>1. Settled' = Settled
    BY <1>3 DEF Settled
  <2>2. \A m \in Module : Clawed(m)' \in Nat /\ Clawed(m) <= Clawed(m)'
    BY <1>8, <1>9
  <2> QED BY <1>3, <1>8, <1>9, <2>1, <2>2 DEF Advances, Like
<1>11. Covering(s)'
  BY <1>2, <1>10, CoveringKept
<1>12. ASSUME s.then = "turning" PROVE Coming(r)'
  <2>1. Coming(s)' /\ s.seen <= Clawed(s.row[1])
    BY <1>2, <1>11, <1>12 DEF Covering
  <2>2. s.row[1] = x.module
    BY <1>1, <1>2 DEF Id
  <2>3. Clawed(x.module)' >= target
    BY <1>3, <1>6, <1>8, <1>9, <2>1, <2>2
  <2> SUFFICES ASSUME NEW z \in RefundableRows'
               PROVE  \/ Clawed(z.module)' >= ClawbackTarget(z.amount, r.amount)
                      \/ \E y \in r.rest : Like(z, y)
    BY DEF Coming
  <2>4. CASE Clawed(z.module)' >= ClawbackTarget(z.amount, s.amount)
    BY <1>1, <1>2, <2>4
  <2>5. CASE \E y \in s.rest : Like(z, y)
    <3>1. PICK y \in s.rest : Like(z, y)
      BY <2>5
    <3>2. CASE y # x
      BY <1>1, <1>2, <3>1, <3>2
    <3>3. CASE y = x
      <4>1. z.module = x.module /\ z.month = x.month
        BY <3>1, <3>3 DEF Like
      <4>2. z \in ShareRow /\ Sized(z) /\ z.status \in Live
        BY DEF RefundableRows, ProfitInv, Shapes, RowsOK
      <4>3. z.amount = x.amount
        BY <1>4, <4>1, <4>2, LiveRow
      <4> QED BY <1>1, <1>2, <1>5, <2>3, <4>1, <4>3
    <3> QED BY <3>2, <3>3
  <2> QED BY <2>1, <2>4, <2>5 DEF Coming
<1>13. Covering(r)'
  BY <1>1, <1>2, <1>11, <1>12 DEF Covering, Same, Clawing, Calculating
<1> QED BY <1>1, <1>10, <1>13, GoesCovers

\* What is calculated is alike to what there is, if there is anything.
LEMMA PublishCovers ==
    ASSUME ProfitInv, ProfitInv', Clear(Disturbs), Covers, NEW p \in Run, PublishShares(p)
    PROVE  Covers'
<1>1. PICK r : /\ Turns(p, r) /\ r.job = runs[p].job /\ r.rest = {}
               /\ \/ runs[p].then = "reconciling" /\ r.pc = "reconciling" /\ r.refunds = {}
                     /\ r.then = "idle"
                  \/ /\ runs[p].then = "turning" /\ r.pc = "finding" /\ Same(r, runs[p])
                     /\ r.amount = runs[p].amount
  BY PublishDoes
<1>2. PICK s : s = runs[p] /\ s.pc = "publishing" /\ Fits(s) /\ Covering(s)
  BY PublishDoes, RunFits DEF Covers
<1>3. CASE s.then # "turning"
  <2>1. Covering(r)'
    BY <1>1, <1>2, <1>3 DEF Covering
  <2> QED BY <1>1, <1>2, <1>3, <2>1, ElseCovers
<1>4. CASE s.then = "turning"
  <2>1. PICK seen \in Nat : seen = runs[p].seen
    BY PublishDoes
  <2>2. Insert(Generated(seen)) /\ Settled' = Settled /\ amount' = amount
    BY <2>1, PublishDoes DEF PublishShares, Settled, refunds
  <2>3. \A x \in Generated(seen) :
          /\ Fresh(x).module = x.module /\ Fresh(x).month = x.month
          /\ Fresh(x).status = x.status
    BY <2>2, FreshIs, GeneratedRows DEF Insert, Insertable
  <2>4. records \subseteq records'
    BY <2>2 DEF Insert
  <2>5. Complete'
    <3> SUFFICES ASSUME NEW m \in Refundable, NEW i \in 1 .. Months[m]
                 PROVE  \E y \in RefundableRows' : y.module = m /\ y.month = i
      BY DEF Complete
    <3>1. m \in Module
      BY ProfitAssumption
    <3>2. PICK x \in Generated(seen) : x.module = m /\ x.month = i /\ x.status = "PENDING"
      BY <3>1, GeneratedRows
    <3>3. Fresh(x) \in records' /\ Fresh(x).module = m /\ Fresh(x).month = i
          /\ Fresh(x).status \in Live
      BY <2>2, <2>3, <3>2 DEF Insert, Live
    <3> QED BY <3>3 DEF RefundableRows
  <2>6. Refundable = {} \/ RefundableRows' # {}
    <3> SUFFICES ASSUME NEW m \in Refundable PROVE RefundableRows' # {}
      OBVIOUS
    <3>1. 1 \in 1 .. Months[m]
      BY ProfitAssumption
    <3> QED BY <2>5, <3>1 DEF Complete
  <2>7. \A m \in Module : Clawed(m) \in Nat /\ Clawed(m)' \in Nat /\ Clawed(m) <= Clawed(m)'
    <3> SUFFICES ASSUME NEW m \in Module
                 PROVE  Clawed(m) \in Nat /\ Clawed(m)' \in Nat /\ Clawed(m) <= Clawed(m)'
      OBVIOUS
    <3>1. PICK A : A = {x \in records : x.module = m /\ x.status = "CLAWBACK"}
      OBVIOUS
    <3>2. PICK B : B = {x \in records' : x.module = m /\ x.status = "CLAWBACK"}
      OBVIOUS
    <3>3. records' \in SUBSET ShareRow /\ IsFiniteSet(records')
      BY RowsFinite DEF ProfitInv, Shapes, RowsOK
    <3>4. B \in SUBSET ShareRow /\ IsFiniteSet(B)
      <4>1. B \in SUBSET records'
        BY <3>2
      <4> QED BY <3>3, <4>1, FS_Subset
    <3>5. A \in SUBSET B
      BY <2>4, <3>1, <3>2
    <3>6. TotalOf(A) \in Nat /\ TotalOf(B) \in Nat /\ TotalOf(A) <= TotalOf(B)
      BY <3>4, <3>5, TotalGrows
    <3> QED BY <3>1, <3>2, <3>6 DEF Clawed
  <2>8. RefundableRows \subseteq RefundableRows'
    BY <2>4 DEF RefundableRows
  <2>9. CASE Complete \/ Refundable = {}
    <3>1. \A z \in RefundableRows' : \E x \in RefundableRows : Like(x, z)
      <4> SUFFICES ASSUME NEW z \in RefundableRows', Complete
                   PROVE  \E x \in RefundableRows : Like(x, z)
        BY <2>9 DEF RefundableRows
      <4>1. z \in ShareRow /\ Sized(z) /\ z.status \in Live /\ z.module \in Refundable
        BY DEF RefundableRows, ProfitInv, Shapes, RowsOK
      <4>2. z.month \in 1 .. Months[z.module]
        BY <4>1, LiveRow
      <4> QED BY <4>1, <4>2 DEF Complete, Like
    <3>2. Advances
      BY <2>2, <2>7, <2>8, <3>1 DEF Advances, Like
    <3>3. Covering(s)'
      BY <1>2, <3>2, CoveringKept
    <3>4. Covering(r)'
      BY <1>1, <1>2, <1>4, <2>6, <3>3 DEF Covering, Same, Clawing, Calculating
    <3> QED BY <1>1, <3>2, <3>4, GoesCovers
  <2>10. CASE ~Complete /\ Refundable # {}
    <3>1. RefundableRows = {}
      BY <1>2, <1>4, <2>10 DEF Covering, Calculating
    <3>2. \A f : ~Secured(f)
      BY <2>10, <3>1 DEF Secured
    <3>3. ASSUME NEW q \in Run, q # p PROVE Covering(runs[q])'
      <4>1. PICK t : t = runs[q]
        OBVIOUS
      <4>2. runs'[q] = t /\ Covering(t)
        BY <1>1, <3>3, <4>1 DEF Turns, Covers
      <4>3. t.pc # "idle" /\ t.then = "turning" => t.pc \notin Clawing
        BY <2>10, <3>1, <4>2 DEF Covering
      <4>4. Covering(t)'
        BY <2>2, <2>5, <3>2, <4>2, <4>3 DEF Covering, Clawing
      <4> QED BY <4>2, <4>4 DEF Covering, Coming
    <3>4. Covering(r)'
      BY <1>1, <1>2, <1>4, <2>2, <2>6, <3>2 DEF Covering, Same, Clawing, Calculating
    <3> SUFFICES ASSUME NEW q \in Run PROVE Covering(runs[q])'
      BY DEF Covers
    <3>5. CASE q = p
      BY <1>1, <3>4, <3>5 DEF Turns, Covering, Coming
    <3> QED BY <3>3, <3>5
  <2> QED BY <2>9, <2>10
<1> QED BY <1>3, <1>4

LEMMA SumCovers ==
    ASSUME ProfitInv, ProfitInv', Covers, NEW p \in Run, SumClawbacks(p)
    PROVE  Covers'
<1>1. UNCHANGED <<refunds, records>>
  BY DEF SumClawbacks
<1>2. PICK s : s = runs[p] /\ Fits(s) /\ Covering(s)
  BY RunFits DEF Covers
<1>3. ASSUME NEW r, NEW x, Turns(p, r), Same(r, s), r.pc = "adding", r.row = Id(x),
             r.seen = Clawed(x.module), r.rest = s.rest, r.amount = s.amount, s.pc = "picking"
      PROVE  Covers'
  <2>1. r.seen <= Clawed(r.row[1])
    BY <1>3, Sums DEF Id
  <2>2. Coming(s) => Coming(r)
    BY <1>3 DEF Coming
  <2>3. Covering(r)
    BY <1>2, <1>3, <2>1, <2>2 DEF Covering, Same, Clawing, Calculating
  <2> QED BY <1>1, <1>3, <2>3, ReadsCovers
<1>4. ASSUME Turns(p, NoRun) PROVE Covers'
  <2>1. Covering(NoRun)
    BY NoRunIs DEF Covering
  <2> QED BY <1>1, <1>4, <2>1, ReadsCovers
<1>5. ASSUME NEW r, Turns(p, r), Same(r, s), r.pc = r.then, r.pc \in {"turning", "reconciling"},
             s.pc = "picking", s.rest = {}
      PROVE  Covers'
  <2>1. ASSUME r.then = "turning", NEW f \in Settled, <<f, amount[f]>> \notin r.refunds
        PROVE  Secured(f)
    <3>1. Secured(f) \/ s.amount = amount[f]
      BY <1>2, <1>5, <2>1 DEF Covering, Same
    <3>2. (Refundable = {} \/ RefundableRows # {}) /\ Coming(s)
      BY <1>2, <1>5, <2>1 DEF Covering, Same, Clawing
    <3>3. s.amount = amount[f] => Covered(f)
      BY <1>5, <3>2 DEF Coming, Covered
    <3> QED BY <3>1, <3>2, <3>3 DEF Secured
  <2>2. Covering(r)
    BY <1>5, <2>1 DEF Covering, Clawing, Calculating
  <2> QED BY <1>1, <1>5, <2>2, ReadsCovers
<1> QED BY <1>2, <1>3, <1>4, <1>5, SumDoes

LEMMA StepCovers ==
    ASSUME ProfitInv, ProfitInv', Clear(Disturbs), Covers, NEW p \in Run, Step(p)
    PROVE  Covers'
<1>1. PICK s : s = runs[p] /\ Fits(s) /\ Covering(s)
  BY RunFits DEF Covers
<1>2. ASSUME NEW r, Turns(p, r), UNCHANGED <<refunds, records>>, Covering(r)
      PROVE  Covers'
  BY <1>2, ReadsCovers
<1>3. CASE FindRecords(p)
  <2>1. PICK r : /\ Turns(p, r) /\ Same(r, s) /\ r.pc = "picking"
                 /\ r.rest = RefundableRows /\ r.amount = s.amount /\ s.pc = "finding"
    BY <1>1, <1>3, FindDoes
  <2>2. Coming(r)
    BY <2>1 DEF Coming, Like
  <2>3. Covering(r)
    BY <1>1, <2>1, <2>2 DEF Covering, Same, Clawing, Calculating
  <2> QED BY <1>2, <1>3, <2>1, <2>3 DEF FindRecords
<1>4. CASE SumClawbacks(p)
  BY <1>4, SumCovers
<1>5. CASE AddClawback(p)
  BY <1>5, AddCovers
<1>6. CASE CheckShares(p)
  <2>1. PICK r, row : /\ Turns(p, r)
                    /\ row \in s.refunds /\ r.refunds = s.refunds \ {row}
                    /\ r.amount = row[2]
                    /\ s.pc = "turning" /\ s.then = "turning"
                    /\ \/ r.pc = "reading" /\ RefundableRows = {}
                       \/ r.pc = "finding" /\ RefundableRows # {}
    BY <1>1, <1>6, CheckDoes
  <2>2. ASSUME NEW f \in Settled, <<f, amount[f]>> \notin r.refunds
        PROVE  Secured(f) \/ r.amount = amount[f]
    <3>1. CASE <<f, amount[f]>> \notin s.refunds
      BY <1>1, <2>1, <3>1 DEF Covering
    <3>2. CASE <<f, amount[f]>> \in s.refunds
      BY <2>1, <2>2, <3>2
    <3> QED BY <3>1, <3>2
  <2>3. Covering(r)
    BY <2>1, <2>2 DEF Covering, Clawing, Calculating
  <2> QED BY <1>2, <1>6, <2>1, <2>3 DEF CheckShares
<1>7. CASE FinishReconcile(p)
  <2>1. Covering(NoRun)
    BY NoRunIs DEF Covering
  <2> QED BY <1>2, <1>7, <2>1, FinishDoes DEF FinishReconcile
<1>8. CASE ReadOrder(p)
  <2>1. PICK r : /\ Turns(p, r) /\ Same(r, s) /\ r.pc = "publishing"
                 /\ r.amount = s.amount /\ s.pc = "reading"
    BY <1>1, <1>8, ReadDoes
  <2>2. Covering(r)
    BY <1>1, <2>1 DEF Covering, Same, Clawing, Calculating
  <2> QED BY <1>2, <1>8, <2>1, <2>2 DEF ReadOrder
<1>9. CASE PublishShares(p)
  BY <1>9, PublishCovers
<1>10. CASE WeighLocked(p)
  <2>1. PICK r : Turns(p, r) /\ r.then = "reconciling"
    BY <1>10, WeighDoes
  <2>2. Covering(r)
    BY <2>1 DEF Covering
  <2> QED BY <1>2, <1>10, <2>1, <2>2 DEF WeighLocked
<1>11. CASE DeleteUnsettled(p)
  <2>1. PICK r : Turns(p, r) /\ r.then = "reconciling" /\ s.pc = "deleting"
    BY <1>1, <1>11, DeleteDoes
  <2>2. Covering(r)' /\ s.then # "turning"
    BY <1>1, <2>1 DEF Covering, Fits, Placed, Clawing, Calculating
  <2> QED BY <1>1, <2>1, <2>2, ElseCovers
<1>12. CASE StartReconcile(p)
  <2>1. PICK r : /\ Turns(p, r) /\ r.pc = "turning" /\ r.refunds = SettledRows
    BY <1>12, RestartDoes
  <2>2. Covering(r)
    BY <2>1, RowsRead DEF Covering, Clawing, Calculating
  <2> QED BY <1>2, <1>12, <2>1, <2>2 DEF StartReconcile
<1> QED BY <1>3, <1>4, <1>5, <1>6, <1>7, <1>8, <1>9, <1>10, <1>11, <1>12 DEF Step

\* The settlement makes rows settled that were pending.
LEMMA DueAdvances ==
    ASSUME ProfitInv, SettleDue
    PROVE  Advances
<1>1. PICK rows \in SUBSET records : /\ \A r \in rows : r.status = "PENDING"
                                     /\ Restates(rows, "SETTLED")
  BY DueDoes
<1>2. "SETTLED" \in Live /\ "PENDING" \in Live /\ UNCHANGED refunds
  BY DEF Live, SettleDue
<1>3. /\ Settled' = Settled /\ amount' = amount /\ \A m : Clawed(m)' = Clawed(m)
      /\ \A x \in RefundableRows : \E y \in RefundableRows' : Alike(x, y)
  BY <1>1, <1>2, RestatedSums
<1>4. \A z \in RefundableRows' : \E x \in RefundableRows : Like(x, z)
  <2> SUFFICES ASSUME NEW z \in RefundableRows' PROVE \E x \in RefundableRows : Like(x, z)
    OBVIOUS
  <2>1. z \in records' /\ z.module \in Refundable /\ z.status \in Live
    BY DEF RefundableRows
  <2>2. PICK x \in records : Alike(x, z) /\ (x \in rows \/ z = x)
    BY <1>1, <2>1 DEF Restates
  <2>3. x.status \in Live
    BY <1>1, <1>2, <2>1, <2>2
  <2> QED BY <2>1, <2>2, <2>3 DEF RefundableRows, Alike, Like
<1>5. \A m : Clawed(m) \in Nat
  BY Sums
<1> QED BY <1>3, <1>4, <1>5 DEF Advances, Alike, Like

LEMMA CoveredNext ==
    ProfitInv /\ ProfitInv' /\ CoveredInv /\ [ProfitNext]_profitVars => CoveredInv'
<1> SUFFICES ASSUME ProfitInv, ProfitInv', CoveredInv, [ProfitNext]_profitVars,
                    Clear(Disturbs)'
             PROVE  Covers'
  BY DEF CoveredInv
<1>1. Clear(Disturbs) /\ Covers
  <2>1. mishaps \subseteq mishaps'
    BY NeverForgets
  <2> QED BY <2>1 DEF CoveredInv, Clear, Among
<1>2. \A p \in Run : runs[p].pc # "idle" /\ runs[p].then = "turning" =>
        p \in Busy /\ runs[p].job \in {"reconcile", "recalculate"}
  BY DEF ProfitInv, PlacesOK, Placed, Busy, At
<1>3. \A a \in {"refund", "clerk"} : \A b \in {"reconcile", "recalculate"} :
        {a, b} \in Disturbs /\ {b, a} \in Disturbs
  <2>1. /\ {"refund", "reconcile"} \in Disturbs /\ {"clerk", "reconcile"} \in Disturbs
        /\ {"recalculate", "refund"} \in Disturbs /\ {"recalculate", "clerk"} \in Disturbs
    BY DEF Disturbs, Activity
  <2>2. /\ {"reconcile", "refund"} = {"refund", "reconcile"}
        /\ {"reconcile", "clerk"} = {"clerk", "reconcile"}
        /\ {"refund", "recalculate"} = {"recalculate", "refund"}
        /\ {"clerk", "recalculate"} = {"recalculate", "clerk"}
    OBVIOUS
  <2> QED BY <2>1, <2>2
<1>4. ASSUME UNCHANGED <<records, runs>>, Settled' \subseteq Settled,
             \A f \in Settled' : amount'[f] = amount[f]
      PROVE  Covers'
  BY <1>1, <1>4, SameAdvances, StaysCovered
<1>5. ASSUME NEW f \in Refund, NEW h \in Refunder, SettleRefund(f, h)
      PROVE  Covers'
  <2>1. PICK r : Turns(h, r) /\ r.then = "idle"
    BY <1>5, SettleDoes
  <2>2. Meets("refund") \subseteq mishaps'
    BY <1>5 DEF SettleRefund, Note
  <2>3. \A q \in Run : runs[q].pc = "idle" \/ runs[q].then # "turning"
    BY <1>2, <1>3, <2>2 DEF Meets, Clear, Among
  <2> SUFFICES ASSUME NEW q \in Run PROVE Covering(runs[q])'
    BY DEF Covers
  <2>4. runs'[q].pc = "idle" \/ runs'[q].then # "turning"
    BY <2>1, <2>3 DEF Turns
  <2> QED BY <2>4 DEF Covering
<1>6. ASSUME NEW f \in Refund, RevertRefund(f)
      PROVE  Covers'
  <2>1. Settled' \subseteq Settled
    BY <1>6 DEF RevertRefund, Settled, ProfitInv, Shapes, RefundsFit
  <2> QED BY <1>4, <1>6, <2>1 DEF RevertRefund
<1>7. ASSUME NEW p \in Batch, Reconcile(p)
      PROVE  Covers'
  <2>1. p \in Run /\ UNCHANGED <<refunds, records>>
    BY <1>7 DEF Run, Reconcile
  <2>2. PICK r : Turns(p, r) /\ r.pc = "turning" /\ r.refunds = SettledRows
    BY <1>7, <2>1, ReconcileDoes
  <2>3. Covering(r)
    BY <2>2, RowsRead DEF Covering, Clawing, Calculating
  <2> QED BY <1>1, <2>1, <2>2, <2>3, ReadsCovers
<1>8. ASSUME NEW p \in Batch, Recalculate(p)
      PROVE  Covers'
  <2>1. p \in Run /\ UNCHANGED <<refunds, records>>
    BY <1>8 DEF Run, Recalculate
  <2>2. PICK r : Turns(p, r) /\ r.then # "turning"
    BY <1>8, <2>1, RecalculateDoes
  <2>3. Covering(r)
    BY <2>2 DEF Covering
  <2> QED BY <1>1, <2>1, <2>2, <2>3, ReadsCovers
<1>9. ASSUME NEW p \in Run, Step(p)
      PROVE  Covers'
  BY <1>1, <1>9, StepCovers
<1>10. ASSUME NEW p \in Run, Die(p) \/ CatchFailure(p)
      PROVE  Covers'
  <2>1. CASE Die(p)
    <3>1. Turns(p, NoRun) /\ Covering(NoRun) /\ UNCHANGED <<refunds, records>>
      BY <2>1, DieDoes, NoRunIs DEF Covering, Die
    <3> QED BY <1>1, <3>1, ReadsCovers
  <2>2. CASE CatchFailure(p)
    BY <2>2, CatchDoes DEF Clear, Among, Disturbs
  <2> QED BY <1>10, <2>1, <2>2
<1>11. CASE SettleDue
  BY <1>1, <1>11, DueAdvances, StaysCovered DEF SettleDue
<1>12. CASE ClerkRead
  BY <1>4, <1>12 DEF ClerkRead, Settled, refunds
<1>13. CASE ClerkWrite
  <2>1. UNCHANGED runs /\ clerk # NoClerk
    BY <1>13 DEF ClerkWrite
  <2>2. \A q \in Run : runs[q].pc = "idle" \/ runs[q].then # "turning"
    BY <1>1, <1>2, <1>3, <2>1 DEF ProfitInv, Meetings, Clear, Among
  <2> QED BY <2>1, <2>2 DEF Covers, Covering
<1>14. CASE UNCHANGED profitVars
  BY <1>4, <1>14 DEF profitVars, Settled, refunds
<1>15. ASSUME NEW f \in Refund, SyncSettled(f) \/ EditRefund(f)
      PROVE  Covers'
  <2>1. CASE SyncSettled(f) \/ refund[f] = "SETTLED"
    <3>1. Meets("refund") \subseteq mishaps' /\ UNCHANGED runs
      BY <1>15, <2>1 DEF SyncSettled, EditRefund, Note
    <3>2. \A q \in Run : runs[q].pc = "idle" \/ runs[q].then # "turning"
      BY <1>2, <1>3, <3>1 DEF Meets, Clear, Among
    <3> QED BY <3>1, <3>2 DEF Covers, Covering
  <2>2. CASE EditRefund(f) /\ refund[f] # "SETTLED"
    <3>1. PICK a : amount' = [amount EXCEPT ![f] = a] /\ UNCHANGED <<refund, records, runs>>
      BY <2>2 DEF EditRefund
    <3>2. Settled' = Settled /\ \A g \in Settled' : amount'[g] = amount[g]
      BY <2>2, <3>1 DEF Settled, ProfitInv, Shapes, RefundsFit
    <3> QED BY <1>4, <3>1, <3>2
  <2> QED BY <1>15, <2>1, <2>2
<1> QED BY <1>5, <1>6, <1>7, <1>8, <1>9, <1>10, <1>11, <1>12, <1>13, <1>14, <1>15
        DEF ProfitNext

\* A reconciliation comes to its end only when all that any one of the
\* settled refunds asks of the rows there are has been taken back: whichever
\* of them no event told of, however many runs died, whatever was edited or
\* taken back before, unless it was disturbed (reconcileRefundClawbacks, the
\* backstop of the event handler).
THEOREM ReconcileCoversHolds == ProfitSpec => ReconcileCovers
<1>1. ProfitInit => CoveredInv
  <2> SUFFICES ASSUME ProfitInit PROVE Covers
    BY DEF CoveredInv
  <2>1. \A p \in Run : runs[p].pc = "idle"
    BY NoRunIs DEF ProfitInit
  <2> QED BY <2>1 DEF Covers, Covering
<1>2. ASSUME ProfitInv, CoveredInv
      PROVE  [\A p \in Batch :
               FinishReconcile(p) /\ ~Among(Disturbs, mishaps)
               => \A r \in RefundableRows, f \in Settled :
                    Clawed(r.module) >= ClawbackTarget(r.amount, amount[f])]_profitVars
  <2> SUFFICES ASSUME NEW p \in Batch, FinishReconcile(p), ~Among(Disturbs, mishaps),
                      NEW r \in RefundableRows, NEW f \in Settled
               PROVE  Clawed(r.module) >= ClawbackTarget(r.amount, amount[f])
    OBVIOUS
  <2>1. p \in Run
    BY DEF Run
  <2>2. runs[p].pc = "turning" /\ runs[p].refunds = {}
    BY <1>2, <2>1, FinishDoes
  <2>3. Covering(runs[p])
    BY <1>2, <2>1 DEF CoveredInv, Clear, Covers
  <2>4. runs[p].then = "turning"
    BY <1>2, <2>1, <2>2 DEF ProfitInv, PlacesOK, Placed, Clawing, Calculating
  <2>5. Secured(f)
    BY <2>2, <2>3, <2>4 DEF Covering
  <2> QED BY <2>5 DEF Secured, Covered
<1> QED BY <1>1, <1>2, CoveredNext, ProfitInvHolds, PTL DEF ProfitSpec, ReconcileCovers

=============================================================================
