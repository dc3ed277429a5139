------------------------------ MODULE MCOrder ------------------------------
(***************************************************************************)
(* What apps/api keeps of an order: the commission shares with their       *)
(* clawbacks, the benefit period, and what Stripe says of its payment and  *)
(* refunds.  They share no state here, so a behaviour is one of one of     *)
(* them: part says of which.                                               *)
(***************************************************************************)
EXTENDS ProfitShare, OrderBenefit, StripeSync, TLC

CONSTANTS sales, fee, f1, f2, r1, p1, p2, q1, q2

VARIABLE part

MCMonths == [m \in Module |-> 1]
MCThreeQuarters == [m \in Module |-> 3]
MCSeventeen == [m \in Module |-> 17]
MCAmount == f1 :> 1 @@ f2 :> 3
MCExcess == f1 :> 3 @@ f2 :> 4
MCAllowed == ShareMishap

\* Requests of a kind are interchangeable in every property.
Requests == Permutations({p1, p2}) \cup Permutations({q1, q2})

orderVars == <<part, profitVars, benefitVars, syncVars>>

\* (The two first states of the benefit make a difference to it alone.)
OrderInit ==
    /\ part \in {"shares", "benefit", "stripe"}
    /\ ProfitInit /\ BenefitInit /\ SyncInit
    /\ part # "benefit" => firstEnd = None

InShares == part = "shares" /\ ProfitNext /\ UNCHANGED <<part, benefitVars, syncVars>>
InBenefit == part = "benefit" /\ BenefitNext /\ UNCHANGED <<part, profitVars, syncVars>>
InStripe == part = "stripe" /\ SyncNext /\ UNCHANGED <<part, profitVars, benefitVars>>

OrderSpec == OrderInit /\ [][InShares \/ InBenefit \/ InStripe]_orderVars

\* For TLC: what is claimed of a payment excepts syncs of an object that met,
\* so that a run need not go on from there.
SyncsApart == "met" \notin syncMishaps

\* The state of each keeps its shape.
OrderTypeOK ==
    CASE part = "shares" -> ProfitTypeOK
      [] part = "benefit" -> BenefitTypeOK
      [] part = "stripe" -> SyncTypeOK
=============================================================================
