------------------------------- MODULE OtpCode -------------------------------
(***************************************************************************)
(* The verification codes of one target and type, requested from one       *)
(* address (OtpService and VerificationCodeRepository of apps/api):        *)
(* requests that send a code and requests that verify one.                 *)
(*                                                                         *)
(* A request is a row of statements without a transaction.  Sending counts *)
(* what was sent, creates the row, sends, and then ends the other rows and *)
(* counts itself; verifying reads the latest row and then updates it.      *)
(* crossed records which of the things that should be rare have happened.  *)
(***************************************************************************)
EXTENDS Mishaps

LOCAL INSTANCE FiniteSetsExt

CONSTANTS
    Sender, Verifier,  \* concurrent requests
    MaxCode,           \* bound on the codes sent
    Tries,             \* wrong guesses a code bears (5 in the code)
    Limit,             \* sends within an hour (5 in the code)
    MaxCrossed         \* bound on the kinds of mishaps

ASSUME OtpAssumption ==
    MaxCode \in Nat /\ Tries \in Nat \ {0} /\ Limit \in Nat \ {0} /\ MaxCrossed \in Nat

VARIABLES
    codes,     \* the rows in verification_codes, in the order of createdAt
    expired,   \* codes up to this one have expired
    limit,     \* the row in code_send_limits: sendCount, and is lastSentAt recent?
    sender, verifier,
    accepted,  \* history: how often each code was accepted
    newest,    \* history: the last code a request was told was sent
    crossed

otpVars == <<codes, expired, limit, sender, verifier, accepted, newest, crossed>>

-----------------------------------------------------------------------------
Code == 1 .. MaxCode
CodeRow == [state : {"none", "live", "used", "gone"}, tries : Nat]

Away == [pc |-> "idle", code |-> 0, recent |-> FALSE]
Unasked == [pc |-> "idle", code |-> 0, right |-> FALSE]

OtpMishap == {"sends", "verifications", "death"}

Cross(kinds) ==
    /\ Recordable(kinds, crossed, OtpMishap, MaxCrossed)
    /\ crossed' = crossed \cup kinds

Sending(s, pc) == sender[s].pc = pc
SendOn(s, pc) == sender' = [sender EXCEPT ![s].pc = pc]
Verifying(v, pc) == verifier[v].pc = pc
Answer(v) == verifier' = [verifier EXCEPT ![v] = Unasked]

\* The rows findLatestActiveCode chooses from.
Active == {c \in Code : codes[c].state = "live" /\ c > expired}

-----------------------------------------------------------------------------
OtpInit ==
    /\ codes = [c \in Code |-> [state |-> "none", tries |-> 0]]
    /\ expired = 0
    /\ limit = [count |-> 0, recent |-> FALSE]
    /\ sender = [s \in Sender |-> Away]
    /\ verifier = [v \in Verifier |-> Unasked]
    /\ accepted = [c \in Code |-> 0]
    /\ newest = 0
    /\ crossed = {}

-----------------------------------------------------------------------------
(* sendCodeInternal *)

\* Codes of the hour before; and of the day, from this address.
CheckSendLimit(s) ==
    /\ Sending(s, "idle")
    /\ ~limit.recent \/ limit.count < Limit
    /\ SendOn(s, "creating")
    /\ Cross(IfSo("sends", \E t \in Sender : ~Sending(t, "idle")))
    /\ UNCHANGED <<codes, expired, limit, verifier, accepted, newest>>

CreateCode(s) ==
    /\ Sending(s, "creating")
    /\ \E c \in Code :
        /\ codes[c].state = "none" /\ \A b \in Code : b < c => codes[b].state # "none"
        /\ codes' = [codes EXCEPT ![c].state = "live"]
        /\ sender' = [sender EXCEPT ![s] = [pc |-> "sending", code |-> c, recent |-> FALSE]]
    /\ UNCHANGED <<expired, limit, verifier, accepted, newest, crossed>>

DeliverCode(s) ==
    /\ Sending(s, "sending")
    /\ SendOn(s, "invalidating") \/ SendOn(s, "deleting")
    /\ UNCHANGED <<codes, expired, limit, verifier, accepted, newest, crossed>>

DeleteCode(s) ==
    /\ Sending(s, "deleting")
    /\ codes' = [codes EXCEPT ![sender[s].code].state = "gone"]
    /\ sender' = [sender EXCEPT ![s] = Away]
    /\ UNCHANGED <<expired, limit, verifier, accepted, newest, crossed>>

\* Every other unused row.  (InvalidateAll: its own as well.)
InvalidateAll(s) ==
    /\ Sending(s, "invalidating")
    /\ codes' = [c \in Code |-> IF codes[c].state = "live"
                                 THEN [codes[c] EXCEPT !.state = "used"] ELSE codes[c]]
    /\ SendOn(s, "looking")
    /\ UNCHANGED <<expired, limit, verifier, accepted, newest, crossed>>
InvalidateActiveCodes(s) ==
    /\ Sending(s, "invalidating")
    /\ codes' = [c \in Code |-> IF codes[c].state = "live" /\ c # sender[s].code
                                 THEN [codes[c] EXCEPT !.state = "used"] ELSE codes[c]]
    /\ SendOn(s, "looking")
    /\ UNCHANGED <<expired, limit, verifier, accepted, newest, crossed>>

\* upsertSendLimit: is there a recent row?  Then the increment is the
\* database's.
ReadSendLimit(s) ==
    /\ Sending(s, "looking")
    /\ sender' = [sender EXCEPT ![s].pc = "counting", ![s].recent = limit.recent]
    /\ UNCHANGED <<codes, expired, limit, verifier, accepted, newest, crossed>>

CountSend(s) ==
    /\ Sending(s, "counting")
    /\ limit' = [count |-> IF sender[s].recent THEN limit.count + 1 ELSE 1, recent |-> TRUE]
    /\ newest' = sender[s].code
    /\ sender' = [sender EXCEPT ![s] = Away]
    /\ UNCHANGED <<codes, expired, verifier, accepted, crossed>>

-----------------------------------------------------------------------------
(* verifyCode *)

FindLatest(v) ==
    /\ Verifying(v, "idle")
    /\ Active # {} /\ codes[Max(Active)].tries < Tries
    /\ \E right \in BOOLEAN :
        verifier' = [verifier EXCEPT ![v] =
            [pc |-> IF right THEN "marking" ELSE "trying", code |-> Max(Active), right |-> right]]
    /\ Cross(IfSo("verifications", \E w \in Verifier : ~Verifying(w, "idle")))
    /\ UNCHANGED <<codes, expired, limit, sender, accepted, newest>>

\* An update of a row that is gone throws.
IncrementAttempts(v) ==
    /\ Verifying(v, "trying")
    /\ LET c == verifier[v].code
       IN IF codes[c].state = "gone"
          THEN Answer(v) /\ UNCHANGED codes
          ELSE /\ codes' = [codes EXCEPT ![c].tries = codes[c].tries + 1]
               /\ IF codes[c].tries + 1 >= Tries
                  THEN verifier' = [verifier EXCEPT ![v].pc = "marking"]
                  ELSE Answer(v)
    /\ UNCHANGED <<expired, limit, sender, accepted, newest, crossed>>

\* (MarkForgotten: the row of a code that was accepted stays as it is.)
MarkForgotten(v) ==
    /\ Verifying(v, "marking")
    /\ LET c == verifier[v].code
       IN IF codes[c].state = "gone"
          THEN UNCHANGED <<codes, accepted>>
          ELSE /\ UNCHANGED codes
               /\ accepted' = IF verifier[v].right
                              THEN [accepted EXCEPT ![c] = accepted[c] + 1] ELSE accepted
    /\ Answer(v)
    /\ UNCHANGED <<expired, limit, sender, newest, crossed>>
MarkUsed(v) ==
    /\ Verifying(v, "marking")
    /\ LET c == verifier[v].code
       IN IF codes[c].state = "gone"
          THEN UNCHANGED <<codes, accepted>>
          ELSE /\ codes' = [codes EXCEPT ![c].state = "used"]
               /\ accepted' = IF verifier[v].right
                              THEN [accepted EXCEPT ![c] = accepted[c] + 1] ELSE accepted
    /\ Answer(v)
    /\ UNCHANGED <<expired, limit, sender, newest, crossed>>

-----------------------------------------------------------------------------
\* Five minutes pass since a code was created.
ExpireCode ==
    /\ expired < MaxCode /\ codes[expired + 1].state # "none"
    /\ expired' = expired + 1
    /\ UNCHANGED <<codes, limit, sender, verifier, accepted, newest, crossed>>

\* An hour passes without a code being sent.
HourPasses ==
    /\ limit.recent
    /\ \A s \in Sender : Sending(s, "idle")
    /\ \A v \in Verifier : Verifying(v, "idle")
    /\ limit' = [limit EXCEPT !.recent = FALSE]
    /\ expired' = Max({c \in Code : codes[c].state # "none"})
    /\ UNCHANGED <<codes, sender, verifier, accepted, newest, crossed>>

\* A process dies or a statement fails.
OtpDeath ==
    /\ \/ \E s \in Sender : /\ ~Sending(s, "idle")
                            /\ sender' = [sender EXCEPT ![s] = Away] /\ UNCHANGED verifier
       \/ \E v \in Verifier : ~Verifying(v, "idle") /\ Answer(v) /\ UNCHANGED sender
    /\ Cross({"death"})
    /\ UNCHANGED <<codes, expired, limit, accepted, newest>>

OtpNext ==
    \/ \E s \in Sender :
         \/ CheckSendLimit(s) \/ CreateCode(s) \/ DeliverCode(s) \/ DeleteCode(s)
         \/ InvalidateActiveCodes(s) \/ ReadSendLimit(s) \/ CountSend(s)
    \/ \E v \in Verifier : FindLatest(v) \/ IncrementAttempts(v) \/ MarkUsed(v)
    \/ ExpireCode \/ HourPasses \/ OtpDeath

OtpSpec == OtpInit /\ [][OtpNext]_otpVars

-----------------------------------------------------------------------------
(* Properties *)

OtpTypeOK ==
    /\ codes \in [Code -> CodeRow]
    /\ expired \in 0 .. MaxCode /\ newest \in 0 .. MaxCode
    /\ limit \in [count : Nat, recent : BOOLEAN]
    /\ \A s \in Sender : /\ sender[s].code \in 0 .. MaxCode
                         /\ ~Sending(s, "idle") /\ ~Sending(s, "creating") =>
                              codes[sender[s].code].state \in {"live", "used"}
    /\ \A v \in Verifier : ~Verifying(v, "idle") => verifier[v].code \in Code
    /\ crossed \subseteq OtpMishap

\* A code is accepted once, and not when it was guessed wrong Tries times,
\* unless two verifications met: each reads the row and then updates it.
\* [verifyCode, incrementAttemptCount, markVerificationCodeUsed]
AcceptedOnce ==
    \A c \in Code : accepted[c] + (IF codes[c].tries >= Tries THEN 1 ELSE 0) > 1
                        => Among({"verifications"}, crossed)

\* The code a user was last told of can be used until it has been, has been
\* guessed wrong too often or has expired, whatever other sends failed,
\* unless two sends met (each ends the other's code) or a process died between
\* two statements.  [sendCodeInternal: create, send, then invalidate]
NewestWorks ==
    newest # 0 /\ (\A s \in Sender : Sending(s, "idle")) /\ (\A v \in Verifier : Verifying(v, "idle"))
        => \/ Active # {} /\ newest = Max(Active)
           \/ accepted[newest] > 0 \/ codes[newest].tries >= Tries \/ newest <= expired
           \/ Among({"sends", "death"}, crossed)
=============================================================================
