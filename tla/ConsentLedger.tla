---------------------------- MODULE ConsentLedger ----------------------------
(***************************************************************************)
(* What the authorization server promises about one consent of one user,   *)
(* with no tokens, handlers, locks or transactions in sight: it is asked   *)
(* for once, decided once, redeemed at most once, and once refused or      *)
(* closed it never opens again.                                            *)
(***************************************************************************)
CONSTANT Request

VARIABLE grant      \* how far each consent has come

State == {"none", "pending", "refused", "approved", "active", "closed"}

Init == grant = [r \in Request |-> "none"]

Ask(r) == grant[r] = "none" /\ grant' = [grant EXCEPT ![r] = "pending"]

Approve(r) == grant[r] = "pending" /\ grant' = [grant EXCEPT ![r] = "approved"]

\* The code becomes the one session of this consent.
Redeem(r) == grant[r] = "approved" /\ grant' = [grant EXCEPT ![r] = "active"]

\* Denial, expiry, revocation, the disabling of a client: all end in this.
Withdraw(R) ==
    /\ \A r \in R : grant[r] \in {"pending", "approved", "active"}
    /\ grant' = [r \in Request |->
                   IF r \notin R THEN grant[r]
                   ELSE IF grant[r] = "pending" THEN "refused" ELSE "closed"]

Next ==
    \/ \E r \in Request : Ask(r) \/ Approve(r) \/ Redeem(r)
    \/ \E R \in SUBSET Request : Withdraw(R)

Spec == Init /\ [][Next]_grant
=============================================================================
