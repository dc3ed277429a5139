---------------------------- MODULE RecordsProofs ----------------------------
(***************************************************************************)
(* Proofs about the components that keep rows outside of a transaction     *)
(* (those of the folders are in DriveTreeProofs), for any number of        *)
(* requests, codes, tries and listeners.                                   *)
(*                                                                         *)
(* OtpCode: a code is accepted once, and the code a user was last told of  *)
(* works, as long as what the properties except has not happened.          *)
(*                                                                         *)
(* TaskScheduler: what row and queue say of each other at rest, unless     *)
(* what each property excepts has happened.                                *)
(***************************************************************************)
EXTENDS MCRecords, DriveTreeProofs, WellFoundedInduction, TLAPS

LOCAL INSTANCE FiniteSetsExt

-----------------------------------------------------------------------------
SendPc == {"idle", "creating", "sending", "deleting", "invalidating", "looking", "counting"}
VerifyPc == {"idle", "trying", "marking"}

OtpShapes ==
    /\ codes \in [Code -> CodeRow]
    /\ expired \in 0 .. MaxCode /\ newest \in 0 .. MaxCode
    /\ limit \in [count : Nat, recent : BOOLEAN]
    /\ sender \in [Sender -> [pc : SendPc, code : 0 .. MaxCode, recent : BOOLEAN]]
    /\ verifier \in [Verifier -> [pc : VerifyPc, code : 0 .. MaxCode, right : BOOLEAN]]
    /\ accepted \in [Code -> Nat]
    /\ crossed \subseteq OtpMishap

\* A sender that has created its code.
Holds(s) == sender[s].pc \notin {"idle", "creating"}

\* A sender's code is its own and is not deleted by others.  A recent send
\* has left a row, and a code that was told of has one.
Rows ==
    /\ \A s \in Sender : Holds(s) =>
         sender[s].code \in Code /\ codes[sender[s].code].state \in {"live", "used"}
    /\ \A s, t \in Sender : Holds(s) /\ Holds(t) /\ sender[s].code = sender[t].code => s = t
    /\ \A v \in Verifier : ~Verifying(v, "idle") =>
         verifier[v].code \in Code /\ codes[verifier[v].code].state # "none"
    /\ limit.recent => \E c \in Code : codes[c].state # "none"
    /\ newest # 0 => codes[newest].state # "none"
    /\ \A b, c \in Code : b < c /\ codes[c].state # "none" => codes[b].state # "none"

\* As long as no two verifications met: who verifies is alone, and while it
\* may accept a code nobody has, and the tries are not used up.
Alone ==
    "verifications" \notin crossed =>
      /\ \A v, w \in Verifier : ~Verifying(v, "idle") /\ ~Verifying(w, "idle") => v = w
      /\ \A v \in Verifier : ~Verifying(v, "idle") =>
           LET c == verifier[v].code
           IN /\ accepted[c] = 0
              /\ Verifying(v, "trying") => codes[c].tries < Tries /\ ~verifier[v].right
              /\ verifier[v].right => codes[c].tries < Tries
      /\ \A c \in Code : accepted[c] > 0 => codes[c].state \in {"used", "gone"}

\* Nothing but a verification or its age has ended the code.
Good(c) ==
    codes[c].state = "live" \/ accepted[c] > 0 \/ codes[c].tries >= Tries \/ c <= expired

\* As long as no two sends met and none died: who sends is alone, no code is
\* above its own, and all that live are below the newest or its own.
OneSend ==
    ~Among({"sends", "death"}, crossed) =>
      /\ \A s, t \in Sender : ~Sending(s, "idle") /\ ~Sending(t, "idle") => s = t
      /\ \A s \in Sender : Holds(s) =>
           /\ Good(sender[s].code)
           /\ newest < sender[s].code
           /\ \A c \in Code : codes[c].state # "none" => c <= sender[s].code
      /\ \A c \in Code : codes[c].state = "live" /\ newest < c =>
           \E s \in Sender : Holds(s) /\ sender[s].code = c
      /\ \/ newest = 0 \/ Good(newest)
         \/ \E s \in Sender : sender[s].pc \in {"looking", "counting"}

\* A verification that may not accept its code has used up the tries.
Marking ==
    \A v \in Verifier : Verifying(v, "marking") =>
        verifier[v].right \/ codes[verifier[v].code].tries >= Tries

OtpInv == OtpShapes /\ Rows /\ Marking /\ Alone /\ AcceptedOnce /\ OneSend

-----------------------------------------------------------------------------
\* The last of some codes.
LEMMA LastCode ==
    ASSUME NEW S \in SUBSET Code, S # {}
    PROVE  Max(S) \in S /\ \A c \in S : c <= Max(S)
<1> DEFINE Left == {MaxCode - c : c \in S}
<1>1. Left \subseteq Nat
  <2> SUFFICES ASSUME NEW c \in S PROVE MaxCode - c \in Nat
    OBVIOUS
  <2> QED BY OtpAssumption DEF Code
<1>2. PICK R : R = OpToRel(<, Nat)
  OBVIOUS
<1>3. IsWellFoundedOn(R, Nat)
  BY <1>2, NatLessThanWellFounded
<1>4. PICK x \in Left : \A y \in Left : <<y, x>> \notin R
  <2>1. Left # {}
    OBVIOUS
  <2> QED BY <2>1, <1>1, <1>3, WFMin
<1>5. \A y \in Nat : y < x => <<y, x>> \in R
  BY <1>1, <1>2 DEF OpToRel
<1>6. PICK last \in S : x = MaxCode - last
  BY <1>4
<1>7. ASSUME NEW c \in S PROVE last >= c
  <2>1. MaxCode - c \in Left
    OBVIOUS
  <2>2. ~(MaxCode - c < x)
    BY <2>1, <1>1, <1>4, <1>5
  <2> QED BY <2>2, <1>6, OtpAssumption DEF Code
<1>8. Max(S) \in S /\ \A c \in S : Max(S) >= c
  BY <1>7 DEF Max
<1> QED BY <1>8 DEF Code

LEMMA Crossing ==
    ASSUME NEW kinds, Cross(kinds), crossed \subseteq OtpMishap
    PROVE  crossed \subseteq crossed' /\ kinds \subseteq crossed' /\ crossed' \subseteq OtpMishap
BY DEF Cross, Recordable

-----------------------------------------------------------------------------
LEMMA OtpInitInv == OtpInit => OtpInv
<1> SUFFICES ASSUME OtpInit PROVE OtpInv
  OBVIOUS
<1>1. OtpShapes
  BY OtpAssumption DEF OtpInit, OtpShapes, CodeRow, SendPc, VerifyPc, Away, Unasked, OtpMishap
<1>2. Rows
  BY DEF OtpInit, Rows, Holds, Away, Unasked, Verifying
<1>3. Marking
  BY DEF OtpInit, Marking, Verifying, Unasked
<1>4. Alone
  BY DEF OtpInit, Alone, Verifying, Unasked
<1>5. AcceptedOnce
  BY OtpAssumption DEF OtpInit, AcceptedOnce
<1>6. OneSend
  BY DEF OtpInit, OneSend, Sending, Holds, Away
<1> QED BY <1>1, <1>2, <1>3, <1>4, <1>5, <1>6 DEF OtpInv

-----------------------------------------------------------------------------
(* Sending *)

LEMMA CheckSendLimitKeeps == ASSUME OtpInv, NEW s \in Sender, CheckSendLimit(s) PROVE OtpInv'
<1> USE DEF OtpInv
<1>1. /\ sender' = [sender EXCEPT ![s].pc = "creating"]
      /\ sender[s].pc = "idle"
      /\ UNCHANGED <<codes, expired, limit, verifier, accepted, newest>>
  BY DEF CheckSendLimit, SendOn, Sending
<1>2. /\ crossed \subseteq crossed' /\ crossed' \subseteq OtpMishap
      /\ (\E t \in Sender : ~Sending(t, "idle")) => "sends" \in crossed'
  BY Crossing DEF CheckSendLimit, IfSo, OtpShapes
<1>3. OtpShapes'
  BY <1>1, <1>2 DEF OtpShapes, SendPc
<1>4. /\ sender'[s].pc = "creating" /\ \A t \in Sender : t # s => sender'[t] = sender[t]
      /\ \A t \in Sender : Holds(t)' <=> Holds(t)
      /\ \A t \in Sender : Holds(t) => sender'[t] = sender[t]
  BY <1>1 DEF OtpShapes, Holds
<1>5. Rows'
  BY <1>1, <1>4 DEF Rows, Verifying
<1>6. Marking'
  BY <1>1 DEF Marking, Verifying
<1>7. Alone' /\ AcceptedOnce'
  BY <1>1, <1>2 DEF Alone, Verifying, AcceptedOnce, Among
<1>8. OneSend'
  <2> SUFFICES ASSUME ~Among({"sends", "death"}, crossed') PROVE OneSend'
    BY DEF OneSend
  <2>1. ~Among({"sends", "death"}, crossed) /\ \A t \in Sender : Sending(t, "idle")
    BY <1>2 DEF Among
  <2> QED BY <2>1, <1>1, <1>4 DEF OneSend, Sending, Holds, Good
<1> QED BY <1>3, <1>5, <1>6, <1>7, <1>8

LEMMA CreateCodeKeeps == ASSUME OtpInv, NEW s \in Sender, CreateCode(s) PROVE OtpInv'
<1> USE DEF OtpInv
<1>1. PICK c \in Code :
        /\ codes[c].state = "none" /\ \A b \in Code : b < c => codes[b].state # "none"
        /\ codes' = [codes EXCEPT ![c].state = "live"]
        /\ sender' = [sender EXCEPT ![s] = [pc |-> "sending", code |-> c, recent |-> FALSE]]
  BY DEF CreateCode
<1>2. /\ sender[s].pc = "creating"
      /\ UNCHANGED <<expired, limit, verifier, accepted, newest, crossed>>
  BY DEF CreateCode, Sending
<1>3. /\ sender'[s] = [pc |-> "sending", code |-> c, recent |-> FALSE]
      /\ \A t \in Sender : t # s => sender'[t] = sender[t]
      /\ codes'[c].state = "live" /\ codes'[c].tries = codes[c].tries
      /\ \A b \in Code : b # c => codes'[b] = codes[b]
  BY <1>1 DEF OtpShapes, CodeRow
<1>4. OtpShapes'
  BY <1>1, <1>2 DEF OtpShapes, SendPc, CodeRow, Code
<1>5. \A b \in Code : codes[b].state # "none" => b < c
  BY <1>1 DEF Rows, Code
<1>6. Rows'
  <2>1. \A t \in Sender : Holds(t)' => t = s \/ (Holds(t) /\ sender'[t] = sender[t] /\ sender[t].code # c)
    BY <1>1, <1>3 DEF Holds, Rows
  <2>2. Holds(s)' /\ sender'[s].code = c
    BY <1>3 DEF Holds
  <2>3. \A b \in Code : codes[b].state # "none" => codes'[b].state # "none"
    BY <1>3
  <2>4. \A a, b \in Code : a < b /\ codes'[b].state # "none" => codes'[a].state # "none"
    BY <1>1, <1>3 DEF Rows
  <2>5. /\ \A t \in Sender : Holds(t)' =>
             sender'[t].code \in Code /\ codes'[sender'[t].code].state \in {"live", "used"}
        /\ \A t, u \in Sender : Holds(t)' /\ Holds(u)' /\ sender'[t].code = sender'[u].code => t = u
    BY <2>1, <2>2, <1>3 DEF Rows
  <2>6. /\ \A v \in Verifier : verifier[v].pc # "idle" =>
             verifier[v].code \in Code /\ codes'[verifier[v].code].state # "none"
        /\ limit.recent => \E b \in Code : codes'[b].state # "none"
        /\ newest # 0 => codes'[newest].state # "none"
    BY <1>3, <2>3 DEF Rows, Verifying, OtpShapes, Code
  <2> QED BY <2>4, <2>5, <2>6, <1>2 DEF Rows, Verifying
<1>7. Marking'
  BY <1>1, <1>2, <1>3 DEF Marking, Verifying, Rows
<1>8. Alone' /\ AcceptedOnce'
  <2>1. \A b \in Code : codes'[b].tries = codes[b].tries
    BY <1>3
  <2>2. "verifications" \notin crossed => accepted[c] = 0
    BY <1>1 DEF Alone, OtpShapes
  <2>3. \A b \in Code : b # c => codes'[b].state = codes[b].state
    BY <1>3
  <2>4. AcceptedOnce'
    BY <2>1, <1>2 DEF AcceptedOnce
  <2>5. \A v \in Verifier : verifier[v].pc # "idle" => verifier[v].code \in Code
    BY DEF Rows, Verifying
  <2>6. Alone'
    BY <2>1, <2>2, <2>3, <2>5, <1>2 DEF Alone, Verifying, OtpShapes
  <2> QED BY <2>4, <2>6
<1>9. OneSend'
  <2> SUFFICES ASSUME ~Among({"sends", "death"}, crossed) PROVE OneSend'
    BY <1>2 DEF OneSend
  <2>1. \A t \in Sender : t # s => sender[t].pc = "idle" /\ sender'[t].pc = "idle"
    BY <1>2, <1>3 DEF OneSend, Sending
  <2>2. newest < c
    BY <1>5 DEF Rows, OtpShapes, Code
  <2>3. /\ Holds(s)' /\ sender'[s].code = c /\ sender'[s].pc = "sending"
        /\ \A t \in Sender : t # s => ~Holds(t)'
        /\ \A t \in Sender : ~Holds(t) /\ sender[t].pc \notin {"looking", "counting"}
    BY <1>2, <1>3, <2>1 DEF Holds
  <2>4. Good(c)' /\ \A b \in Code : b # c => (Good(b)' <=> Good(b))
    BY <1>2, <1>3 DEF Good
  <2>5. \A b \in Code : codes'[b].state # "none" => b <= c
    BY <1>3, <1>5 DEF Code
  <2>6. newest = 0 \/ Good(newest)'
    <3>1. newest \in Code /\ newest # c => (Good(newest)' <=> Good(newest))
      BY <1>2, <2>4
    <3> QED BY <3>1, <2>2, <2>3, <2>4 DEF OneSend, OtpShapes, Code
  <2>7. \A b \in Code : codes'[b].state = "live" /\ newest < b => b = c
    BY <2>3, <1>3 DEF OneSend
  <2>8. \A t, u \in Sender : ~Sending(t, "idle")' /\ ~Sending(u, "idle")' => t = u
    BY <2>1 DEF Sending
  <2> QED BY <2>2, <2>3, <2>4, <2>5, <2>6, <2>7, <2>8, <1>2 DEF OneSend
<1> QED BY <1>4, <1>6, <1>7, <1>8, <1>9

\* A sender goes on with what it has, and nothing else changes.
LEMMA SenderGoesOn ==
    ASSUME OtpInv, NEW s \in Sender, NEW r \in [pc : SendPc, code : 0 .. MaxCode, recent : BOOLEAN],
           sender' = [sender EXCEPT ![s] = r], Holds(s),
           r.pc \notin {"idle", "creating"}, r.code = sender[s].code,
           sender[s].pc \in {"looking", "counting"} => r.pc \in {"looking", "counting"},
           UNCHANGED <<codes, expired, limit, verifier, accepted, newest, crossed>>
    PROVE  OtpInv'
<1> USE DEF OtpInv
<1>1. /\ sender'[s] = r /\ \A t \in Sender : t # s => sender'[t] = sender[t]
      /\ \A t \in Sender : Holds(t)' <=> Holds(t)
      /\ \A t \in Sender : sender'[t].code = sender[t].code
      /\ \A t \in Sender : sender'[t].pc = "idle" <=> sender[t].pc = "idle"
      /\ \A t \in Sender : sender[t].pc \in {"looking", "counting"} =>
                             sender'[t].pc \in {"looking", "counting"}
  BY DEF OtpShapes, Holds
<1>2. OtpShapes'
  BY DEF OtpShapes
<1>3. Rows'
  BY <1>1 DEF Rows, Verifying
<1>4. Marking' /\ Alone' /\ AcceptedOnce'
  BY DEF Marking, Alone, Verifying, AcceptedOnce
<1>5. OneSend'
  BY <1>1 DEF OneSend, Sending, Good
<1> QED BY <1>2, <1>3, <1>4, <1>5

LEMMA DeliverCodeKeeps == ASSUME OtpInv, NEW s \in Sender, DeliverCode(s) PROVE OtpInv'
<1>1. PICK pc \in {"invalidating", "deleting"} : SendOn(s, pc)
  BY DEF DeliverCode
<1>2. PICK r : r = [sender[s] EXCEPT !.pc = pc]
  OBVIOUS
<1>3. sender[s].pc = "sending" /\ sender[s] \in [pc : SendPc, code : 0 .. MaxCode, recent : BOOLEAN]
  BY DEF DeliverCode, Sending, OtpInv, OtpShapes
<1>4. /\ r \in [pc : SendPc, code : 0 .. MaxCode, recent : BOOLEAN] /\ r.pc = pc
      /\ r.code = sender[s].code /\ sender' = [sender EXCEPT ![s] = r]
  BY <1>1, <1>2, <1>3 DEF SendOn, SendPc
<1> QED BY <1>3, <1>4, SenderGoesOn DEF DeliverCode, Holds

LEMMA ReadSendLimitKeeps == ASSUME OtpInv, NEW s \in Sender, ReadSendLimit(s) PROVE OtpInv'
<1>1. PICK r : r = [sender[s] EXCEPT !.pc = "counting", !.recent = limit.recent]
  OBVIOUS
<1>2. /\ sender[s].pc = "looking" /\ limit.recent \in BOOLEAN
      /\ sender[s] \in [pc : SendPc, code : 0 .. MaxCode, recent : BOOLEAN]
  BY DEF ReadSendLimit, Sending, OtpInv, OtpShapes
<1>3. /\ r \in [pc : SendPc, code : 0 .. MaxCode, recent : BOOLEAN] /\ r.pc = "counting"
      /\ r.code = sender[s].code /\ sender' = [sender EXCEPT ![s] = r]
  BY <1>1, <1>2 DEF ReadSendLimit, SendPc
<1> QED BY <1>2, <1>3, SenderGoesOn DEF ReadSendLimit, Holds

LEMMA DeleteCodeKeeps == ASSUME OtpInv, NEW s \in Sender, DeleteCode(s) PROVE OtpInv'
<1> USE DEF OtpInv
<1> DEFINE c == sender[s].code
<1>1. /\ sender[s].pc = "deleting" /\ Holds(s)
      /\ codes' = [codes EXCEPT ![c].state = "gone"]
      /\ sender' = [sender EXCEPT ![s] = Away]
      /\ UNCHANGED <<expired, limit, verifier, accepted, newest, crossed>>
  BY DEF DeleteCode, Sending, Holds
<1>2. c \in Code /\ codes[c].state \in {"live", "used"}
  BY <1>1 DEF Rows
<1>3. /\ sender'[s] = Away /\ \A t \in Sender : t # s => sender'[t] = sender[t]
      /\ codes'[c].state = "gone" /\ codes'[c].tries = codes[c].tries
      /\ \A b \in Code : b # c => codes'[b] = codes[b]
      /\ ~Holds(s)'
      /\ \A t \in Sender : t # s => (Holds(t)' <=> Holds(t))
  BY <1>1, <1>2 DEF OtpShapes, CodeRow, Holds, Away
<1> HIDE DEF c
<1>4. OtpShapes'
  BY <1>1, <1>2, OtpAssumption DEF OtpShapes, SendPc, CodeRow, Away
<1>5. \A b \in Code : /\ codes[b].state # "none" <=> codes'[b].state # "none"
                      /\ codes'[b].tries = codes[b].tries
                      /\ codes'[b].state = "live" => codes[b].state = "live"
                      /\ codes'[b].state = "gone" \/ codes'[b].state = codes[b].state
  BY <1>2, <1>3
<1>6. Rows'
  <2>1. \A t \in Sender : Holds(t)' =>
          t # s /\ Holds(t) /\ sender'[t] = sender[t] /\ sender[t].code # c
    BY <1>1, <1>3 DEF Rows, c
  <2>2. /\ \A t \in Sender : Holds(t)' =>
             sender'[t].code \in Code /\ codes'[sender'[t].code].state \in {"live", "used"}
        /\ \A t, u \in Sender : Holds(t)' /\ Holds(u)' /\ sender'[t].code = sender'[u].code => t = u
    BY <2>1, <1>3 DEF Rows
  <2>3. /\ \A v \in Verifier : verifier[v].pc # "idle" =>
             verifier[v].code \in Code /\ codes'[verifier[v].code].state # "none"
        /\ limit.recent => \E b \in Code : codes'[b].state # "none"
        /\ newest # 0 => codes'[newest].state # "none"
        /\ \A a, b \in Code : a < b /\ codes'[b].state # "none" => codes'[a].state # "none"
    BY <1>5 DEF Rows, Verifying, OtpShapes, Code
  <2> QED BY <2>2, <2>3, <1>1 DEF Rows, Verifying
<1>7. Marking'
  BY <1>1, <1>5 DEF Marking, Verifying, Rows
<1>8. Alone'
  BY <1>1, <1>5 DEF Alone, Verifying, Rows, OtpShapes
<1>9. AcceptedOnce'
  BY <1>1, <1>5 DEF AcceptedOnce
<1>10. OneSend'
  <2> SUFFICES ASSUME ~Among({"sends", "death"}, crossed) PROVE OneSend'
    BY <1>1 DEF OneSend
  <2>1. \A t \in Sender : sender'[t].pc = "idle"
    BY <1>1, <1>3 DEF OneSend, Sending, Away
  <2>2. newest = 0 \/ Good(newest)
    BY <1>1 DEF OneSend, Sending
  <2>3. newest = 0 \/ Good(newest)'
    <3>1. newest < c
      BY <1>1 DEF OneSend, c
    <3> QED BY <3>1, <2>2, <1>1, <1>3 DEF Good, OtpShapes, Code
  <2>4. \A b \in Code : ~(codes'[b].state = "live" /\ newest < b)
    <3>1. \A t \in Sender : Holds(t) => t = s
      BY <1>1 DEF OneSend, Sending, Holds
    <3>2. \A b \in Code : codes[b].state = "live" /\ newest < b => b = c
      BY <3>1 DEF OneSend, c
    <3> QED BY <3>2, <1>3, <1>5
  <2> QED BY <2>1, <2>3, <2>4, <1>1 DEF OneSend, Sending, Holds
<1> QED BY <1>4, <1>6, <1>7, <1>8, <1>9, <1>10

LEMMA InvalidateKeeps == ASSUME OtpInv, NEW s \in Sender, InvalidateActiveCodes(s) PROVE OtpInv'
<1> USE DEF OtpInv
<1>0. PICK mine : mine = sender[s].code
  OBVIOUS
<1>1. /\ sender[s].pc = "invalidating" /\ Holds(s)
      /\ codes' = [c \in Code |-> IF codes[c].state = "live" /\ c # mine
                                  THEN [codes[c] EXCEPT !.state = "used"] ELSE codes[c]]
      /\ sender' = [sender EXCEPT ![s].pc = "looking"]
      /\ UNCHANGED <<expired, limit, verifier, accepted, newest, crossed>>
  BY <1>0 DEF InvalidateActiveCodes, Sending, SendOn, Holds
<1>2. /\ sender'[s].pc = "looking" /\ \A t \in Sender : t # s => sender'[t] = sender[t]
      /\ \A t \in Sender : (Holds(t)' <=> Holds(t)) /\ sender'[t].code = sender[t].code
      /\ \A t \in Sender : sender'[t].pc = "idle" <=> sender[t].pc = "idle"
  BY <1>1 DEF OtpShapes, Holds
<1>3. \A b \in Code : codes[b] \in CodeRow
  BY DEF OtpShapes
<1>4. \A b \in Code :
        /\ codes[b].state # "none" <=> codes'[b].state # "none"
        /\ codes'[b].tries = codes[b].tries
        /\ codes'[b].state = codes[b].state \/ (codes[b].state = "live" /\ codes'[b].state = "used")
        /\ codes'[b].state = "live" => b = mine
        /\ b = mine => codes'[b] = codes[b]
  BY <1>1, <1>3 DEF CodeRow
<1>5. OtpShapes'
  <2>1. codes' \in [Code -> CodeRow]
    BY <1>1, <1>3 DEF CodeRow
  <2>2. sender' \in [Sender -> [pc : SendPc, code : 0 .. MaxCode, recent : BOOLEAN]]
    BY <1>1 DEF OtpShapes, SendPc
  <2> QED BY <2>1, <2>2, <1>1 DEF OtpShapes
<1>6. mine \in Code
  BY <1>0, <1>1 DEF Rows
<1>7. Rows'
  <2>1. /\ \A t \in Sender : Holds(t)' =>
             sender'[t].code \in Code /\ codes'[sender'[t].code].state \in {"live", "used"}
        /\ \A t, u \in Sender : Holds(t)' /\ Holds(u)' /\ sender'[t].code = sender'[u].code => t = u
    BY <1>2, <1>4 DEF Rows
  <2>2. /\ \A v \in Verifier : verifier[v].pc # "idle" =>
             verifier[v].code \in Code /\ codes'[verifier[v].code].state # "none"
        /\ limit.recent => \E b \in Code : codes'[b].state # "none"
        /\ newest # 0 => codes'[newest].state # "none"
        /\ \A a, b \in Code : a < b /\ codes'[b].state # "none" => codes'[a].state # "none"
    <3>1. newest # 0 => newest \in Code
      BY DEF OtpShapes, Code
    <3>2. \A b \in Code : codes[b].state # "none" <=> codes'[b].state # "none"
      BY <1>4
    <3> QED BY <3>1, <3>2 DEF Rows, Verifying
  <2> QED BY <2>1, <2>2, <1>1 DEF Rows, Verifying
<1>8. Marking'
  BY <1>1, <1>4 DEF Marking, Verifying, Rows
<1>9. Alone'
  BY <1>1, <1>4 DEF Alone, Verifying, Rows, OtpShapes
<1>10. AcceptedOnce'
  BY <1>1, <1>4 DEF AcceptedOnce
<1>11. OneSend'
  <2> SUFFICES ASSUME ~Among({"sends", "death"}, crossed) PROVE OneSend'
    BY <1>1 DEF OneSend
  <2>1. \A t, u \in Sender : ~Sending(t, "idle")' /\ ~Sending(u, "idle")' => t = u
    BY <1>2 DEF OneSend, Sending
  <2>2. Good(mine) /\ newest < mine
    BY <1>0, <1>1 DEF OneSend
  <2>3. Good(mine)'
    BY <2>2, <1>1, <1>4, <1>6 DEF Good
  <2>4. \A t \in Sender : Holds(t)' => t = s
    BY <1>1, <1>2 DEF OneSend, Holds, Sending
  <2>5. \A b \in Code : codes'[b].state # "none" => b <= mine
    BY <1>0, <1>1, <1>4 DEF OneSend
  <2>6. Holds(s)' /\ sender'[s].code = mine /\ sender'[s].pc = "looking"
    BY <1>0, <1>1, <1>2
  <2> QED BY <2>1, <2>2, <2>3, <2>4, <2>5, <2>6, <1>1, <1>4 DEF OneSend
<1> QED BY <1>5, <1>7, <1>8, <1>9, <1>10, <1>11

LEMMA CountSendKeeps == ASSUME OtpInv, NEW s \in Sender, CountSend(s) PROVE OtpInv'
<1> USE DEF OtpInv
<1> DEFINE c == sender[s].code
<1>1. /\ sender[s].pc = "counting" /\ Holds(s) /\ c \in Code
      /\ codes[c].state \in {"live", "used"}
      /\ newest' = c
      /\ sender' = [sender EXCEPT ![s] = Away]
      /\ UNCHANGED <<codes, expired, verifier, accepted, crossed>>
  BY DEF CountSend, Sending, Holds, Rows
<1>2. limit' \in [count : Nat, recent : BOOLEAN]
  BY DEF CountSend, OtpShapes
<1> HIDE DEF c
<1>3. /\ sender'[s] = Away /\ \A t \in Sender : t # s => sender'[t] = sender[t]
      /\ ~Holds(s)'
      /\ \A t \in Sender : t # s => (Holds(t)' <=> Holds(t))
  BY <1>1 DEF OtpShapes, Holds, Away
<1>4. OtpShapes'
  BY <1>1, <1>2, OtpAssumption DEF OtpShapes, SendPc, Away, Code
<1>5. Rows'
  <2>1. limit'.recent => \E b \in Code : codes'[b].state # "none"
    BY <1>1
  <2>2. newest' # 0 => codes'[newest'].state # "none"
    BY <1>1
  <2> QED BY <2>1, <2>2, <1>1, <1>3 DEF Rows, Verifying
<1>6. Marking' /\ Alone' /\ AcceptedOnce'
  BY <1>1 DEF Marking, Alone, Verifying, AcceptedOnce
<1>7. OneSend'
  <2> SUFFICES ASSUME ~Among({"sends", "death"}, crossed) PROVE OneSend'
    BY <1>1 DEF OneSend
  <2>1. \A t \in Sender : sender'[t].pc = "idle"
    BY <1>1, <1>3 DEF OneSend, Sending, Away
  <2>2. Good(c) /\ \A b \in Code : codes[b].state # "none" => b <= c
    BY <1>1 DEF OneSend, c
  <2>3. \A b \in Code : codes'[b].state = "live" => ~(newest' < b)
    BY <2>2, <1>1 DEF Code
  <2>4. Good(newest)'
    BY <2>2, <1>1 DEF Good
  <2> QED BY <2>1, <2>3, <2>4, <1>1 DEF OneSend, Sending, Holds
<1> QED BY <1>4, <1>5, <1>6, <1>7

-----------------------------------------------------------------------------
(* Verifying *)

\* What becomes of a code that a verification updates.
Outcome(c, v) ==
    \/ UNCHANGED <<codes, accepted>>
    \/ /\ codes' = [codes EXCEPT ![c].tries = codes[c].tries + 1]
       /\ UNCHANGED accepted /\ Verifying(v, "trying")
    \/ /\ codes' = [codes EXCEPT ![c].state = "used"] /\ Verifying(v, "marking")
       /\ codes[c].state # "gone"
       /\ accepted' = IF verifier[v].right
                      THEN [accepted EXCEPT ![c] = accepted[c] + 1] ELSE accepted

\* An update keeps what senders rely on.
LEMMA UpdateKeepsSends ==
    ASSUME OtpInv, NEW v \in Verifier, ~Verifying(v, "idle"), Outcome(verifier[v].code, v),
           UNCHANGED <<expired, limit, sender, newest, crossed>>
    PROVE  /\ OneSend' /\ codes' \in [Code -> CodeRow] /\ accepted' \in [Code -> Nat]
           /\ \A b \in Code : /\ codes[b].state # "none" <=> codes'[b].state # "none"
                              /\ codes'[b].state = codes[b].state \/ codes'[b].state = "used"
                              /\ codes'[b].tries >= codes[b].tries
                              /\ codes[b].state = "gone" => codes'[b].state = "gone"
<1> USE DEF OtpInv
<1> DEFINE c == verifier[v].code
<1>1. c \in Code /\ codes[c].state # "none" /\ codes \in [Code -> CodeRow] /\ accepted \in [Code -> Nat]
  BY DEF Rows, OtpShapes
<1>2. Outcome(c, v)
  OBVIOUS
<1>3. Verifying(v, "marking") => verifier[v].right \/ codes[c].tries >= Tries
  BY DEF Marking
<1> HIDE DEF c
<1>4. codes' \in [Code -> CodeRow] /\ accepted' \in [Code -> Nat]
  BY <1>1, <1>2 DEF Outcome, CodeRow
<1>5. \A b \in Code : /\ codes[b].state # "none" <=> codes'[b].state # "none"
                      /\ codes'[b].state = codes[b].state \/ codes'[b].state = "used"
                      /\ codes'[b].tries >= codes[b].tries
                      /\ codes[b].state = "gone" => codes'[b].state = "gone"
                      /\ accepted'[b] >= accepted[b]
  BY <1>1, <1>2 DEF Outcome, CodeRow
<1>6. \A b \in Code : Good(b) => Good(b)'
  <2> SUFFICES ASSUME NEW b \in Code, Good(b) PROVE Good(b)'
    OBVIOUS
  <2>1. codes[b].tries \in Nat /\ codes'[b].tries \in Nat /\ accepted[b] \in Nat /\ accepted'[b] \in Nat
    BY <1>1, <1>4 DEF CodeRow
  <2>2. CASE codes[b].state = "live" /\ codes'[b].state # "live"
    <3>1. b = c /\ Verifying(v, "marking")
          /\ accepted' = IF verifier[v].right
                         THEN [accepted EXCEPT ![c] = accepted[c] + 1] ELSE accepted
      BY <2>2, <1>1, <1>2 DEF Outcome, CodeRow
    <3>2. accepted'[b] > 0 \/ codes[b].tries >= Tries
      BY <3>1, <1>1, <1>3
    <3> QED BY <3>2, <1>5, <2>1, OtpAssumption DEF Good
  <2>3. CASE ~(codes[b].state = "live" /\ codes'[b].state # "live")
    BY <2>3, <1>5, <2>1, OtpAssumption DEF Good
  <2> QED BY <2>2, <2>3
<1>7. OneSend'
  <2> SUFFICES ASSUME ~Among({"sends", "death"}, crossed) PROVE OneSend'
    BY DEF OneSend
  <2>1. \A t \in Sender : Holds(t) => sender[t].code \in Code
    BY DEF Rows
  <2>2. newest = 0 \/ newest \in Code
    BY DEF OtpShapes, Code
  <2>3. \A t \in Sender : Holds(t) => Good(sender[t].code)'
    BY <2>1, <1>6 DEF OneSend
  <2>4. newest = 0 \/ Good(newest)' \/ \E t \in Sender : sender[t].pc \in {"looking", "counting"}
    BY <2>2, <1>6 DEF OneSend, Good
  <2>5. /\ \A b \in Code : codes'[b].state = "live" => codes[b].state = "live"
        /\ \A b \in Code : codes'[b].state # "none" => codes[b].state # "none"
    BY <1>5
  <2> QED BY <2>1, <2>3, <2>4, <2>5 DEF OneSend, Sending, Holds, Good
<1> QED BY <1>4, <1>5, <1>7

LEMMA FindLatestKeeps == ASSUME OtpInv, NEW v \in Verifier, FindLatest(v) PROVE OtpInv'
<1> USE DEF OtpInv
<1>1. PICK c : c = Max(Active)
  OBVIOUS
<1>2. /\ c \in Code /\ codes[c].state = "live" /\ codes[c].tries < Tries
      /\ verifier[v].pc = "idle"
      /\ UNCHANGED <<codes, expired, limit, sender, accepted, newest>>
  <2>1. Active \in SUBSET Code
    BY DEF Active
  <2>2. c \in Active
    BY <1>1, <2>1, LastCode DEF FindLatest
  <2> QED BY <1>1, <2>2 DEF FindLatest, Active, Verifying
<1>3. PICK right \in BOOLEAN :
        verifier' = [verifier EXCEPT ![v] =
            [pc |-> IF right THEN "marking" ELSE "trying", code |-> c, right |-> right]]
  BY <1>1 DEF FindLatest
<1>4. /\ crossed \subseteq crossed' /\ crossed' \subseteq OtpMishap
      /\ (\E w \in Verifier : ~Verifying(w, "idle")) => "verifications" \in crossed'
  BY Crossing DEF FindLatest, IfSo, OtpShapes
<1>5. /\ verifier'[v] = [pc |-> IF right THEN "marking" ELSE "trying", code |-> c, right |-> right]
      /\ \A w \in Verifier : w # v => verifier'[w] = verifier[w]
  BY <1>3 DEF OtpShapes
<1>6. OtpShapes'
  BY <1>2, <1>3, <1>4 DEF OtpShapes, VerifyPc, Code
<1>7. Rows'
  BY <1>2, <1>5 DEF Rows, Verifying, Holds
<1>8. Marking'
  BY <1>2, <1>5 DEF Marking, Verifying
<1>9. Alone'
  <2> SUFFICES ASSUME "verifications" \notin crossed' PROVE Alone'
    BY DEF Alone
  <2>1. Alone /\ "verifications" \notin crossed /\ \A w \in Verifier : Verifying(w, "idle")
    BY <1>4
  <2>2. accepted[c] = 0
    BY <2>1, <1>2 DEF Alone, OtpShapes
  <2>3. \A w \in Verifier : ~Verifying(w, "idle")' => w = v
    BY <2>1, <1>5 DEF Verifying
  <2> QED BY <2>1, <2>2, <2>3, <1>2, <1>5 DEF Alone, Verifying
<1>10. AcceptedOnce'
  BY <1>2, <1>4 DEF AcceptedOnce, Among
<1>11. OneSend'
  BY <1>2, <1>4 DEF OneSend, Sending, Holds, Good, Among
<1> QED BY <1>6, <1>7, <1>8, <1>9, <1>10, <1>11

LEMMA IncrementAttemptsKeeps == ASSUME OtpInv, NEW v \in Verifier, IncrementAttempts(v) PROVE OtpInv'
<1> USE DEF OtpInv
<1>0. PICK c : c = verifier[v].code
  OBVIOUS
<1>1. /\ verifier[v].pc = "trying" /\ c \in Code /\ codes[c].state # "none"
      /\ UNCHANGED <<expired, limit, sender, accepted, newest, crossed>>
  BY <1>0 DEF IncrementAttempts, Verifying, Rows
<1>2. \/ UNCHANGED codes /\ verifier' = [verifier EXCEPT ![v] = Unasked]
      \/ /\ codes' = [codes EXCEPT ![c].tries = codes[c].tries + 1]
         /\ \/ /\ codes[c].tries + 1 >= Tries
               /\ verifier' = [verifier EXCEPT ![v].pc = "marking"]
            \/ verifier' = [verifier EXCEPT ![v] = Unasked]
  BY <1>0 DEF IncrementAttempts, Answer
<1>3. /\ OneSend' /\ codes' \in [Code -> CodeRow]
      /\ \A b \in Code : /\ codes[b].state # "none" <=> codes'[b].state # "none"
                         /\ codes'[b].tries >= codes[b].tries
  <2>1. Outcome(verifier[v].code, v) /\ ~Verifying(v, "idle")
    BY <1>0, <1>1, <1>2 DEF Outcome, Verifying
  <2> QED BY <2>1, <1>1, UpdateKeepsSends
<1>4. /\ verifier' \in [Verifier -> [pc : VerifyPc, code : 0 .. MaxCode, right : BOOLEAN]]
      /\ \A w \in Verifier : w # v => verifier'[w] = verifier[w]
      /\ \/ verifier'[v].pc = "idle"
         \/ /\ verifier'[v].pc = "marking" /\ verifier'[v].code = c
            /\ verifier'[v].right = verifier[v].right /\ codes'[c].tries >= Tries
  <2>1. verifier \in [Verifier -> [pc : VerifyPc, code : 0 .. MaxCode, right : BOOLEAN]]
    BY DEF OtpShapes
  <2>2. CASE verifier' = [verifier EXCEPT ![v] = Unasked]
    BY <2>1, <2>2, OtpAssumption DEF VerifyPc, Unasked
  <2>3. CASE /\ codes' = [codes EXCEPT ![c].tries = codes[c].tries + 1]
             /\ codes[c].tries + 1 >= Tries
             /\ verifier' = [verifier EXCEPT ![v].pc = "marking"]
    <3>1. codes'[c].tries >= Tries
      BY <2>3, <1>1 DEF OtpShapes, CodeRow
    <3> QED BY <3>1, <2>1, <2>3, <1>0 DEF VerifyPc
  <2> QED BY <2>2, <2>3, <1>2
<1>5. /\ \A b \in Code : codes'[b].state = codes[b].state
      /\ \A b \in Code : b # c => codes'[b] = codes[b]
      /\ \A b \in Code : codes'[b].tries \in Nat /\ codes[b].tries \in Nat
  BY <1>1, <1>2, <1>3 DEF OtpShapes, CodeRow
<1>6. OtpShapes'
  BY <1>1, <1>3, <1>4 DEF OtpShapes
<1>7. Rows'
  <2>1. newest # 0 => newest \in Code
    BY DEF OtpShapes, Code
  <2> QED BY <2>1, <1>0, <1>1, <1>4, <1>5 DEF Rows, Verifying, Holds
<1>8. Marking'
  <2>1. ASSUME NEW w \in Verifier, verifier'[w].pc = "marking", w # v
        PROVE  verifier'[w].right \/ codes'[verifier'[w].code].tries >= Tries
    <3>1. verifier[w].code \in Code /\ (verifier[w].right \/ codes[verifier[w].code].tries >= Tries)
      BY <2>1, <1>4 DEF Marking, Rows, Verifying
    <3> QED BY <3>1, <2>1, <1>3, <1>4, <1>5, OtpAssumption
  <2> QED BY <2>1, <1>4 DEF Marking, Verifying
<1>9. Alone' /\ AcceptedOnce'
  <2>1. CASE "verifications" \in crossed
    BY <2>1, <1>1 DEF Alone, AcceptedOnce, Among
  <2>2. CASE "verifications" \notin crossed
    <3>1. /\ \A w \in Verifier : w # v => verifier[w].pc = "idle"
          /\ accepted[c] = 0 /\ ~verifier[v].right
      BY <1>0, <1>1, <2>2 DEF Alone, Verifying
    <3>2. \A w \in Verifier : w # v => verifier'[w].pc = "idle"
      BY <3>1, <1>4
    <3>3. Alone'
      BY <2>2, <3>1, <3>2, <1>1, <1>4, <1>5 DEF Alone, Verifying
    <3>4. AcceptedOnce'
      BY <2>2, <3>1, <1>1, <1>5 DEF AcceptedOnce, Among
    <3> QED BY <3>3, <3>4
  <2> QED BY <2>1, <2>2
<1> QED BY <1>3, <1>6, <1>7, <1>8, <1>9

LEMMA MarkUsedKeeps == ASSUME OtpInv, NEW v \in Verifier, MarkUsed(v) PROVE OtpInv'
<1> USE DEF OtpInv
<1>0. PICK c : c = verifier[v].code
  OBVIOUS
<1>1. /\ verifier[v].pc = "marking" /\ c \in Code /\ codes[c].state # "none"
      /\ verifier' = [verifier EXCEPT ![v] = Unasked]
      /\ UNCHANGED <<expired, limit, sender, newest, crossed>>
  BY <1>0 DEF MarkUsed, Verifying, Rows, Answer
<1>2. \/ UNCHANGED <<codes, accepted>>
      \/ /\ codes' = [codes EXCEPT ![c].state = "used"] /\ codes[c].state # "gone"
         /\ accepted' = IF verifier[v].right
                        THEN [accepted EXCEPT ![c] = accepted[c] + 1] ELSE accepted
  BY <1>0 DEF MarkUsed
<1>3. /\ OneSend' /\ codes' \in [Code -> CodeRow] /\ accepted' \in [Code -> Nat]
      /\ \A b \in Code : /\ codes[b].state # "none" <=> codes'[b].state # "none"
                         /\ codes'[b].state = codes[b].state \/ codes'[b].state = "used"
                         /\ codes[b].state = "gone" => codes'[b].state = "gone"
  <2>1. Outcome(verifier[v].code, v) /\ ~Verifying(v, "idle")
    BY <1>0, <1>1, <1>2 DEF Outcome, Verifying
  <2> QED BY <2>1, <1>1, UpdateKeepsSends
<1>4. /\ verifier' \in [Verifier -> [pc : VerifyPc, code : 0 .. MaxCode, right : BOOLEAN]]
      /\ \A w \in Verifier : w # v => verifier'[w] = verifier[w]
      /\ verifier'[v].pc = "idle"
  BY <1>1, OtpAssumption DEF OtpShapes, VerifyPc, Unasked
<1>5. \A b \in Code : codes'[b].tries = codes[b].tries
  BY <1>2 DEF OtpShapes, CodeRow
<1>6. OtpShapes'
  BY <1>1, <1>3, <1>4 DEF OtpShapes
<1>7. Rows'
  <2>1. newest # 0 => newest \in Code
    BY DEF OtpShapes, Code
  <2> QED BY <2>1, <1>1, <1>3, <1>4 DEF Rows, Verifying, Holds
<1>8. Marking'
  BY <1>4, <1>5 DEF Marking, Verifying, Rows
<1>9. Alone' /\ AcceptedOnce'
  <2>1. CASE "verifications" \in crossed
    BY <2>1, <1>1 DEF Alone, AcceptedOnce, Among
  <2>2. CASE "verifications" \notin crossed
    <3>1. /\ \A w \in Verifier : w # v => verifier[w].pc = "idle"
          /\ accepted[c] = 0 /\ (verifier[v].right => codes[c].tries < Tries)
      BY <1>0, <1>1, <2>2 DEF Alone, Verifying
    <3>2. \A w \in Verifier : verifier'[w].pc = "idle"
      BY <3>1, <1>4
    <3>3. \A b \in Code : b # c => accepted'[b] = accepted[b]
      BY <1>2 DEF OtpShapes
    <3>4. /\ accepted'[c] > 0 => codes'[c].state \in {"used", "gone"}
          /\ accepted'[c] + (IF codes'[c].tries >= Tries THEN 1 ELSE 0) <= 1
      <4>1. /\ accepted \in [Code -> Nat] /\ codes \in [Code -> CodeRow]
            /\ codes[c].tries \in Nat /\ codes'[c].tries = codes[c].tries
        BY <1>1, <1>5 DEF OtpShapes, CodeRow
      <4>2. CASE UNCHANGED <<codes, accepted>>
        BY <4>2, <3>1
      <4>3. CASE /\ codes' = [codes EXCEPT ![c].state = "used"] /\ verifier[v].right
                 /\ accepted' = [accepted EXCEPT ![c] = accepted[c] + 1]
        <5>1. accepted'[c] = 1 /\ codes'[c].state = "used"
          BY <4>1, <4>3, <3>1, <1>1 DEF CodeRow
        <5> QED BY <5>1, <4>1, <4>3, <3>1, OtpAssumption
      <4>4. CASE UNCHANGED accepted
        BY <4>4, <3>1
      <4> QED BY <4>2, <4>3, <4>4, <1>2
    <3>5. Alone'
      BY <2>2, <3>2, <3>3, <3>4, <1>1, <1>3 DEF Alone, Verifying
    <3>6. AcceptedOnce'
      <4>1. accepted'[c] \in Nat
        BY <1>1, <1>3
      <4>2. ~(accepted'[c] + (IF codes'[c].tries >= Tries THEN 1 ELSE 0) > 1)
        BY <3>4, <4>1
      <4>3. \A b \in Code : b # c => ~(accepted'[b] + (IF codes'[b].tries >= Tries THEN 1 ELSE 0) > 1)
        BY <2>2, <3>3, <1>5 DEF AcceptedOnce, Among
      <4> QED BY <4>2, <4>3 DEF AcceptedOnce
    <3> QED BY <3>5, <3>6
  <2> QED BY <2>1, <2>2
<1> QED BY <1>3, <1>6, <1>7, <1>8, <1>9

-----------------------------------------------------------------------------
(* Time and deaths *)

\* Codes only expire.
LEMMA ExpiresKeeps ==
    ASSUME OtpInv, expired' \in 0 .. MaxCode, limit' \in [count : Nat, recent : BOOLEAN],
           limit'.recent => limit.recent,
           UNCHANGED <<codes, sender, verifier, accepted, newest, crossed>>,
           \A c \in Code : codes[c].state # "none" /\ Good(c) => Good(c)'
    PROVE  OtpInv'
<1> USE DEF OtpInv
<1>1. OtpShapes'
  BY DEF OtpShapes
<1>2. Rows'
  BY DEF Rows, Verifying, Holds
<1>3. Marking' /\ Alone' /\ AcceptedOnce'
  BY DEF Marking, Alone, Verifying, AcceptedOnce
<1>4. OneSend'
  <2> SUFFICES ASSUME ~Among({"sends", "death"}, crossed) PROVE OneSend'
    BY DEF OneSend
  <2>1. \A s \in Sender : Holds(s) => Good(sender[s].code)'
    BY DEF OneSend, Rows, Good
  <2>2. newest = 0 \/ Good(newest)' \/ \E s \in Sender : sender[s].pc \in {"looking", "counting"}
    <3>1. newest = 0 \/ newest \in Code
      BY DEF OtpShapes, Code
    <3> QED BY <3>1 DEF OneSend, Good, Rows
  <2> QED BY <2>1, <2>2 DEF OneSend, Sending, Holds, Good
<1> QED BY <1>1, <1>2, <1>3, <1>4

LEMMA ExpireCodeKeeps == ASSUME OtpInv, ExpireCode PROVE OtpInv'
<1>1. expired' = expired + 1 /\ expired' \in 0 .. MaxCode
  BY OtpAssumption DEF ExpireCode, OtpInv, OtpShapes
<1>2. \A c \in Code : Good(c) => Good(c)'
  BY <1>1 DEF ExpireCode, Good, OtpInv, OtpShapes, Code
<1> QED BY <1>1, <1>2, ExpiresKeeps DEF ExpireCode, OtpInv, OtpShapes

LEMMA HourPassesKeeps == ASSUME OtpInv, HourPasses PROVE OtpInv'
<1> DEFINE Sent == {c \in Code : codes[c].state # "none"}
<1>1. Sent # {} /\ limit.recent /\ expired' = Max(Sent)
  BY DEF HourPasses, OtpInv, Rows
<1>2. expired' \in Code /\ \A c \in Sent : c <= expired'
  BY <1>1, LastCode
<1>3. expired' \in 0 .. MaxCode
  BY <1>2 DEF Code
<1>4. \A c \in Code : codes[c].state # "none" /\ Good(c) => Good(c)'
  BY <1>2 DEF HourPasses, Good
<1>5. limit' \in [count : Nat, recent : BOOLEAN] /\ ~limit'.recent
  BY DEF HourPasses, OtpInv, OtpShapes
<1> QED BY <1>3, <1>4, <1>5, ExpiresKeeps DEF HourPasses

LEMMA OtpDeathKeeps == ASSUME OtpInv, OtpDeath PROVE OtpInv'
<1> USE DEF OtpInv
<1>1. /\ crossed \subseteq crossed' /\ crossed' \subseteq OtpMishap /\ "death" \in crossed'
      /\ UNCHANGED <<codes, expired, limit, accepted, newest>>
  BY Crossing DEF OtpDeath, OtpShapes
<1>2. /\ sender' \in [Sender -> [pc : SendPc, code : 0 .. MaxCode, recent : BOOLEAN]]
      /\ verifier' \in [Verifier -> [pc : VerifyPc, code : 0 .. MaxCode, right : BOOLEAN]]
      /\ \A s \in Sender : sender'[s] = sender[s] \/ sender'[s].pc = "idle"
      /\ \A v \in Verifier : verifier'[v] = verifier[v] \/ verifier'[v].pc = "idle"
  <2>1. CASE \E s \in Sender : sender' = [sender EXCEPT ![s] = Away] /\ UNCHANGED verifier
    BY <2>1, OtpAssumption DEF OtpShapes, Away, SendPc
  <2>2. CASE \E v \in Verifier : Answer(v) /\ UNCHANGED sender
    BY <2>2, OtpAssumption DEF OtpShapes, Answer, Unasked, VerifyPc
  <2> QED BY <2>1, <2>2 DEF OtpDeath
<1>3. OtpShapes'
  BY <1>1, <1>2 DEF OtpShapes
<1>4. \A s \in Sender : Holds(s)' => Holds(s) /\ sender'[s] = sender[s]
  BY <1>2 DEF Holds
<1>5. Rows'
  BY <1>1, <1>2, <1>4 DEF Rows, Verifying
<1>6. Marking' /\ Alone' /\ AcceptedOnce'
  BY <1>1, <1>2 DEF Marking, Alone, Verifying, AcceptedOnce, Among
<1>7. OneSend'
  BY <1>1 DEF OneSend, Among
<1> QED BY <1>3, <1>5, <1>6, <1>7

-----------------------------------------------------------------------------
LEMMA OtpNextKeeps == OtpInv /\ [OtpNext]_otpVars => OtpInv'
<1> SUFFICES ASSUME OtpInv, [OtpNext]_otpVars PROVE OtpInv'
  OBVIOUS
<1>1. CASE \E s \in Sender :
             \/ CheckSendLimit(s) \/ CreateCode(s) \/ DeliverCode(s) \/ DeleteCode(s)
             \/ InvalidateActiveCodes(s) \/ ReadSendLimit(s) \/ CountSend(s)
  BY <1>1, CheckSendLimitKeeps, CreateCodeKeeps, DeliverCodeKeeps, DeleteCodeKeeps,
     InvalidateKeeps, ReadSendLimitKeeps, CountSendKeeps
<1>2. CASE \E v \in Verifier : FindLatest(v) \/ IncrementAttempts(v) \/ MarkUsed(v)
  BY <1>2, FindLatestKeeps, IncrementAttemptsKeeps, MarkUsedKeeps
<1>3. CASE ExpireCode \/ HourPasses \/ OtpDeath
  BY <1>3, ExpireCodeKeeps, HourPassesKeeps, OtpDeathKeeps
<1>4. CASE UNCHANGED otpVars
  BY <1>4 DEF otpVars, OtpInv, OtpShapes, Rows, Holds, Marking, Verifying, Alone, AcceptedOnce,
              OneSend, Good, Sending
<1> QED BY <1>1, <1>2, <1>3, <1>4 DEF OtpNext

\* For any requests, codes and tries: the invariant of the codes, their
\* senders and verifiers holds. [OtpService]
THEOREM OtpInvHolds == OtpSpec => []OtpInv
BY OtpInitInv, OtpNextKeeps, PTL DEF OtpSpec

LEMMA OtpTyped == OtpInv => OtpTypeOK
BY DEF OtpInv, OtpShapes, Rows, Holds, OtpTypeOK, Sending, Verifying

\* Rows and requests keep their shapes, and the code of a request that sends
\* is not taken away by another. [OtpService.sendCodeInternal, verifyCode]
THEOREM OtpTypesHold == OtpSpec => []OtpTypeOK
BY OtpTyped, OtpInvHolds, PTL

\* A code is accepted once, and not after its last try, however sends and
\* verifications follow on each other, unless two verifications met.
\* [verifyCode, markVerificationCodeUsed]
THEOREM AcceptedOnceHolds == OtpSpec => []AcceptedOnce
<1>1. OtpInv => AcceptedOnce
  BY DEF OtpInv
<1> QED BY <1>1, OtpInvHolds, PTL

\* The code a user was last told of is the one a verification finds, until it
\* was accepted, guessed wrong too often or has expired, whatever other sends
\* failed, unless two sends met or a process died. [sendCodeInternal]
THEOREM NewestWorksHolds == OtpSpec => []NewestWorks
<1>1. OtpInv => NewestWorks
  <2> SUFFICES ASSUME OtpInv, newest # 0, \A s \in Sender : Sending(s, "idle"),
                      ~Among({"sends", "death"}, crossed),
                      ~(accepted[newest] > 0 \/ codes[newest].tries >= Tries \/ newest <= expired)
               PROVE  Active # {} /\ newest = Max(Active)
    BY DEF NewestWorks
  <2>1. newest \in Code /\ expired \in 0 .. MaxCode
    BY DEF OtpInv, OtpShapes, Code
  <2>2. Good(newest) /\ \A c \in Code : codes[c].state = "live" => ~(newest < c)
    BY DEF OtpInv, OneSend, Sending, Holds
  <2>3. newest \in Active
    BY <2>1, <2>2 DEF Good, Active, Code
  <2>4. Active \in SUBSET Code
    BY DEF Active
  <2>5. Max(Active) \in Active /\ newest <= Max(Active)
    BY <2>3, <2>4, LastCode
  <2>6. ~(newest < Max(Active))
    BY <2>2, <2>4, <2>5 DEF Active
  <2>7. PICK last \in Code : last = Max(Active)
    BY <2>4, <2>5
  <2>8. newest = last
    BY <2>1, <2>5, <2>6, <2>7 DEF Code
  <2> QED BY <2>3, <2>7, <2>8
<1> QED BY <1>1, OtpInvHolds, PTL

-----------------------------------------------------------------------------
Is(a, ops) == admin[a].op \in ops
Asks(ops) == \E a \in Admin : Is(a, ops)
Clear(kinds) == ~Among(kinds, incidents)

\* A job that will start by itself.
JobOn == scheduler # "none" \/ own = "waiting"

\* Iterations wait without a scheduler; there is a job of any kind.
Leftover == left > 0
Queued == scheduler # "none" \/ Leftover \/ own # "none" \/ extra # "none" \/ ticking

At == {"rest", "removing", "adding", "rolling back", "pausing", "writing"}
Event == {"none", "active", "completed", "failed"}

TaskShapes ==
    /\ TaskTypeOK
    /\ admin \in [Admin -> [op : Op, at : At, read : TaskStatus]]
    /\ listener \in [Listener -> [event : Event, at : {"rest", "finding", "writing"}]]
    /\ incidents \subseteq TaskIncident

\* What a request is at, given what it asks.
Stages ==
    /\ \A a \in Admin : admin[a].at \in
         CASE Is(a, {"none"}) -> {"rest"}
           [] Is(a, {"create"}) -> {"adding", "writing", "rolling back"}
           [] Is(a, {"update"}) -> {"removing", "adding", "writing"}
           [] Is(a, {"edit"}) -> {"writing"}
           [] Is(a, {"pause", "remove"}) -> {"removing", "writing"}
           [] Is(a, {"resume"}) -> {"adding", "writing"}
           [] Is(a, {"run now"}) -> {"adding"}
           [] OTHER -> {"pausing", "writing"}
    /\ \A a \in Admin : Is(a, {"update"}) => type = "CRON"
    /\ \A a \in Admin : admin[a].at = "rolling back" => {"redis"} \in incidents
    /\ \A l \in Listener : listener[l].event = "none" <=> listener[l].at = "rest"

\* Before the task is created there is nothing of it.
NotYet ==
    ~task.exists /\ ~task.deleted =>
      /\ ~task.jobId /\ task.status = "SCHEDULED"
      /\ ~Queued
      /\ \A l \in Listener : listener[l].event = "none"
      /\ \A a \in Admin : Is(a, {"none", "pause queue", "resume queue"})

\* Requests under way together, and a request and a run, have met.
TaskMeetings ==
    /\ \A a, b \in Working : a # b => {admin[a].op, admin[b].op} \in incidents
    /\ \A a \in Working : Running \/ Hearing # {} => {admin[a].op, "run"} \in incidents
    /\ \A l, m \in Hearing : l # m => {"late"} \in incidents

\* A row without a job was not created to the end.
PlacedJob ==
    Clear({{"redis"}, {"death"}}) /\ Present /\ ~task.jobId => Asks({"create"})

Basics == TaskShapes /\ Stages /\ NotYet /\ TaskMeetings /\ PlacedJob

-----------------------------------------------------------------------------
(* What an action does, in the words of the invariants. *)

Others(a) == \A b \in Admin : b # a => admin'[b] = admin[b]
JobsKept == UNCHANGED <<scheduler, left, own, extra, ticking, queue>>

LEMMA Pair == \A x, y : {x, y} = {y, x}
OBVIOUS

LEMMA Happening ==
    ASSUME NEW kinds, Happen(kinds), incidents \subseteq TaskIncident
    PROVE  incidents \subseteq incidents' /\ kinds \subseteq incidents' /\ incidents' \subseteq TaskIncident
BY TaskAssumption DEF Happen, Recordable

\* A request that moves on, or ends.
LEMMA Going ==
    ASSUME TaskShapes, NEW a \in Admin, NEW at \in At, GoTo(a, at)
    PROVE  /\ admin' \in [Admin -> [op : Op, at : At, read : TaskStatus]]
           /\ admin'[a].op = admin[a].op /\ admin'[a].at = at /\ admin'[a].read = admin[a].read
           /\ Others(a)
BY DEF TaskShapes, GoTo, Others

LEMMA Ending ==
    ASSUME TaskShapes, NEW a \in Admin, Rest(a)
    PROVE  /\ admin' \in [Admin -> [op : Op, at : At, read : TaskStatus]]
           /\ admin'[a].op = "none" /\ admin'[a].at = "rest" /\ Others(a)
BY DEF TaskShapes, Rest, Resting, Others, Op, At, TaskStatus

LEMMA Beginning ==
    ASSUME TaskShapes, NEW a \in Admin, NEW what \in Op, what # "none", NEW at \in At, NEW kinds,
           Begin(a, what, at, kinds)
    PROVE  /\ admin' \in [Admin -> [op : Op, at : At, read : TaskStatus]]
           /\ admin[a].op = "none"
           /\ admin'[a].op = what /\ admin'[a].at = at /\ admin'[a].read = task.status
           /\ Others(a)
           /\ UNCHANGED <<type, listener>> /\ JobsKept
           /\ incidents \subseteq incidents' /\ incidents' \subseteq TaskIncident
           /\ kinds \subseteq incidents'
           /\ \A b \in Working : {what, admin[b].op} \in incidents' /\ {admin[b].op, what} \in incidents'
           /\ Running \/ Hearing # {} => {what, "run"} \in incidents'
<1>1. /\ admin[a].op = "none" /\ UNCHANGED <<type, listener>> /\ JobsKept
      /\ admin' = [admin EXCEPT ![a] = [op |-> what, at |-> at, read |-> task.status]]
      /\ Happen({{what, admin[b].op} : b \in Working}
                    \cup IfSo({what, "run"}, Running \/ Hearing # {}) \cup kinds)
  BY DEF Begin, jobs, JobsKept
<1>2. task.status \in TaskStatus
  BY DEF TaskShapes, TaskTypeOK
<1>3. /\ admin' \in [Admin -> [op : Op, at : At, read : TaskStatus]]
      /\ admin'[a].op = what /\ admin'[a].at = at /\ admin'[a].read = task.status /\ Others(a)
  BY <1>1, <1>2 DEF TaskShapes, Others
<1>4. /\ incidents \subseteq incidents' /\ incidents' \subseteq TaskIncident
      /\ {{what, admin[b].op} : b \in Working}
            \cup IfSo({what, "run"}, Running \/ Hearing # {}) \cup kinds \subseteq incidents'
  BY <1>1, Happening DEF TaskShapes
<1>5. \A b \in Working : {what, admin[b].op} \in incidents' /\ {admin[b].op, what} \in incidents'
  BY <1>4, Pair
<1>6. Running \/ Hearing # {} => {what, "run"} \in incidents'
  BY <1>4 DEF IfSo
<1> QED BY <1>1, <1>3, <1>4, <1>5, <1>6

\* What a removal does to the queue, if that answers.
LEMMA Removing ==
    ASSUME TaskShapes, NEW a \in Admin, RemoveJob(a)
    PROVE  /\ admin[a].at = "removing"
           /\ GoTo(a, IF admin[a].op = "update" THEN "adding" ELSE "writing")
           /\ UNCHANGED <<type, task, extra, ticking, queue, listener>>
           /\ incidents \subseteq incidents' /\ incidents' \subseteq TaskIncident
           /\ left' = left \/ {"left"} \in incidents'
           /\ {"redis"} \notin incidents' =>
                IF type = "CRON"
                THEN scheduler' = "none" /\ UNCHANGED own
                ELSE own' = (IF own = "active" THEN own ELSE "none") /\ UNCHANGED scheduler
<1>1. CASE type = "CRON" /\ DropScheduler /\ UNCHANGED own
  <2>1. /\ incidents \subseteq incidents' /\ incidents' \subseteq TaskIncident
        /\ IfSo({"left"}, scheduler = "due") \subseteq incidents'
    BY <1>1, Happening DEF DropScheduler, TaskShapes
  <2>2. left' = left \/ {"left"} \in incidents'
    BY <1>1, <2>1 DEF DropScheduler, IfSo
  <2> QED BY <1>1, <2>1, <2>2 DEF RemoveJob, DropScheduler
<1>2. CASE /\ type = "ONCE" /\ own' = (IF own = "active" THEN own ELSE "none")
           /\ UNCHANGED <<scheduler, left, incidents>>
  BY <1>2 DEF RemoveJob, TaskShapes
<1>3. CASE Happen({{"redis"}}) /\ UNCHANGED <<scheduler, left, own>>
  BY <1>3, Happening DEF RemoveJob, TaskShapes
<1> QED BY <1>1, <1>2, <1>3 DEF RemoveJob

\* What a request finds that begins, and where it begins.
LEMMA Creating ==
    ASSUME TaskShapes, NEW a \in Admin, Create(a)
    PROVE  /\ ~task.exists /\ ~task.deleted
           /\ task' = [task EXCEPT !.exists = TRUE]
           /\ Begin(a, "create", "adding", {})
BY DEF Create

LEMMA Asking ==
    ASSUME TaskShapes, NEW a \in Admin, AskTask(a)
    PROVE  /\ Present /\ UNCHANGED task
           /\ \E what \in Op, at \in At : \E kinds :
                /\ what # "none" /\ Begin(a, what, at, kinds)
                /\ what = "remove" /\ extra = "waiting" => {"left"} \in kinds
                /\ \/ /\ what = "update" /\ type = "CRON" /\ task.status # "PAUSED"
                      /\ at = IF task.jobId THEN "removing" ELSE "adding"
                   \/ what = "edit" /\ at = "writing"
                   \/ /\ what = "pause" /\ task.status # "PAUSED"
                      /\ at = IF task.jobId THEN "removing" ELSE "writing"
                   \/ what = "resume" /\ task.status = "PAUSED" /\ at = "adding"
                   \/ what = "remove" /\ at = IF task.jobId THEN "removing" ELSE "writing"
                   \/ what = "run now" /\ at = "adding"
<1>1. {"update", "edit", "pause", "resume", "remove", "run now"} \subseteq Op \ {"none"}
      /\ {"removing", "adding", "writing"} \subseteq At
  BY DEF Op, At
<1>2. Present /\ UNCHANGED task
  BY DEF AskTask
<1>3. CASE type = "CRON" /\ task.status # "PAUSED"
             /\ Begin(a, "update", IF task.jobId THEN "removing" ELSE "adding", {})
  BY <1>1, <1>2, <1>3
<1>4. CASE Begin(a, "edit", "writing", {})
  BY <1>1, <1>2, <1>4
<1>5. CASE task.status # "PAUSED"
             /\ Begin(a, "pause", IF task.jobId THEN "removing" ELSE "writing", {})
  BY <1>1, <1>2, <1>5
<1>6. CASE task.status = "PAUSED" /\ Begin(a, "resume", "adding", {})
  BY <1>1, <1>2, <1>6
<1>7. CASE Begin(a, "remove", IF task.jobId THEN "removing" ELSE "writing",
                 IfSo({"left"}, extra = "waiting"))
  <2>1. extra = "waiting" => {"left"} \in IfSo({"left"}, extra = "waiting")
    BY DEF IfSo
  <2> QED BY <1>1, <1>2, <1>7, <2>1
<1>8. CASE Begin(a, "run now", "adding", {})
  BY <1>1, <1>2, <1>8
<1> QED BY <1>3, <1>4, <1>5, <1>6, <1>7, <1>8 DEF AskTask

LEMMA AskingQueue ==
    ASSUME TaskShapes, NEW a \in Admin, AskQueue(a)
    PROVE  /\ UNCHANGED task
           /\ \E kinds : \E what \in {"pause queue", "resume queue"} :
                /\ Begin(a, what, "pausing", kinds)
                /\ what = "resume queue" /\ task.status = "PAUSED" /\ scheduler = "none" /\ own # "waiting"
                     => {"resumed queue"} \in kinds
<1>1. CASE Begin(a, "pause queue", "pausing", {})
  BY <1>1 DEF AskQueue
<1>2. CASE Begin(a, "resume queue", "pausing",
                 IfSo({"resumed queue"}, task.status = "PAUSED" /\ scheduler = "none" /\ own # "waiting"))
  BY <1>2 DEF AskQueue, IfSo
<1> QED BY <1>1, <1>2 DEF AskQueue, Scheduled

\* What the worker tells, and the listener that hears it.
LEMMA Emitting ==
    ASSUME TaskShapes, NEW event \in Event, event # "none", NEW kinds, Emit(event, kinds)
    PROVE  /\ incidents \subseteq incidents' /\ incidents' \subseteq TaskIncident
           /\ kinds \subseteq incidents'
           /\ Hearing # {} => {"late"} \in incidents'
           /\ listener' \in [Listener -> [event : Event, at : {"rest", "finding", "writing"}]]
           /\ \E l \in Listener :
                /\ listener[l].event = "none"
                /\ listener'[l].event = event /\ listener'[l].at = "finding"
                /\ \A m \in Listener : m # l => listener'[m] = listener[m]
<1>1. PICK l \in Listener :
        /\ listener[l].event = "none"
        /\ listener' = [listener EXCEPT ![l] = [event |-> event, at |-> "finding"]]
        /\ Happen(IfSo({"late"}, Hearing # {}) \cup kinds)
  BY DEF Emit
<1>2. /\ incidents \subseteq incidents' /\ incidents' \subseteq TaskIncident
      /\ IfSo({"late"}, Hearing # {}) \cup kinds \subseteq incidents'
  BY <1>1, Happening DEF TaskShapes
<1>3. Hearing # {} => {"late"} \in incidents'
  BY <1>2 DEF IfSo
<1>4. /\ listener' \in [Listener -> [event : Event, at : {"rest", "finding", "writing"}]]
      /\ listener'[l].event = event /\ listener'[l].at = "finding"
      /\ \A m \in Listener : m # l => listener'[m] = listener[m]
  BY <1>1 DEF TaskShapes
<1> QED BY <1>1, <1>2, <1>3, <1>4

\* A listener that goes on has nothing else to say; or it falls silent.
LEMMA Hushing ==
    ASSUME TaskShapes, NEW l \in Listener, Silence(l)
    PROVE  /\ listener' \in [Listener -> [event : Event, at : {"rest", "finding", "writing"}]]
           /\ listener'[l].event = "none" /\ listener'[l].at = "rest"
           /\ \A m \in Listener : m # l => listener'[m] = listener[m]
BY DEF TaskShapes, Silence, Silent, Event

\* A write of the row leaves one that is gone as it is.
LEMMA Updating ==
    ASSUME TaskShapes, NEW row, Update(row),
           row \in [exists : BOOLEAN, deleted : BOOLEAN, jobId : BOOLEAN, status : TaskStatus]
    PROVE  task' \in [exists : BOOLEAN, deleted : BOOLEAN, jobId : BOOLEAN, status : TaskStatus]
BY DEF TaskShapes, TaskTypeOK, Update

-----------------------------------------------------------------------------
(* The shapes, the stages and the meetings. *)

LEMMA BasicsInit == TaskInit => Basics
<1> SUFFICES ASSUME TaskInit PROVE Basics
  OBVIOUS
<1>1. /\ \A a \in Admin : admin[a] = Resting
      /\ \A l \in Listener : listener[l] = Silent
      /\ Working = {} /\ Hearing = {}
  BY DEF TaskInit, Working, Hearing, Resting, Silent
<1>0. left \in Nat /\ ~Leftover
  BY SMT DEF TaskInit, Leftover
<1>2. TaskTypeOK
  BY <1>0, <1>1 DEF Leftover, TaskInit, TaskTypeOK, TaskStatus, JobState, SchedulerState, Op, Resting, Silent
<1>3. TaskShapes
  BY <1>2 DEF TaskInit, TaskShapes, Resting, Silent, Op, At, Event, TaskStatus, TaskIncident
<1>4. Stages
  <2>1. \A a \in Admin : admin[a].op = "none" /\ admin[a].at = "rest"
    BY <1>1 DEF Resting
  <2>2. \A l \in Listener : listener[l].event = "none" /\ listener[l].at = "rest"
    BY <1>1 DEF Silent
  <2> QED BY <2>1, <2>2 DEF Stages, Is
<1>5. NotYet
  BY <1>0, <1>1 DEF NotYet, Queued, TaskInit, Is, Resting, Silent
<1>6. TaskMeetings
  BY <1>1 DEF TaskMeetings
<1>7. PlacedJob
  BY DEF PlacedJob, Present, TaskInit
<1> QED BY <1>3, <1>4, <1>5, <1>6, <1>7 DEF Basics

LEMMA BeginKeepsBasics ==
    ASSUME Basics, NEW a \in Admin, NEW what \in Op, what # "none", NEW at \in At, NEW kinds,
           Begin(a, what, at, kinds),
           at \in CASE what = "create" -> {"adding"}
                    [] what = "update" -> {"removing", "adding"}
                    [] what = "edit" -> {"writing"}
                    [] what \in {"pause", "remove"} -> {"removing", "writing"}
                    [] what \in {"resume", "run now"} -> {"adding"}
                    [] OTHER -> {"pausing"},
           what = "update" => type = "CRON",
           \/ what = "create" /\ task' = [task EXCEPT !.exists = TRUE]
           \/ what \in {"pause queue", "resume queue"} /\ task' = task
           \/ Present /\ task' = task
    PROVE  Basics'
<1> USE DEF Basics
<1>1. /\ admin' \in [Admin -> [op : Op, at : At, read : TaskStatus]]
      /\ admin[a].op = "none"
      /\ admin'[a].op = what /\ admin'[a].at = at
      /\ Others(a)
      /\ UNCHANGED <<type, listener, scheduler, left, own, extra, ticking, queue>>
      /\ incidents \subseteq incidents' /\ incidents' \subseteq TaskIncident
      /\ \A b \in Working : {what, admin[b].op} \in incidents' /\ {admin[b].op, what} \in incidents'
      /\ Running \/ Hearing # {} => {what, "run"} \in incidents'
  BY Beginning DEF JobsKept
<1>2. /\ task'.deleted = task.deleted /\ task'.jobId = task.jobId /\ task'.status = task.status
      /\ task'.exists = (IF what = "create" /\ task' # task THEN TRUE ELSE task.exists)
      /\ task' \in [exists : BOOLEAN, deleted : BOOLEAN, jobId : BOOLEAN, status : TaskStatus]
  BY DEF TaskShapes, TaskTypeOK
<1>3. TaskShapes'
  <2>1. TaskTypeOK'
    BY <1>1, <1>2 DEF TaskShapes, TaskTypeOK, Event
  <2> QED BY <2>1, <1>1 DEF TaskShapes
<1>4. Stages'
  BY <1>1 DEF Stages, Is, Others, Op
<1>5. NotYet'
  BY <1>1, <1>2 DEF NotYet, Queued, Leftover, Is, Others, Present
<1>6. TaskMeetings'
  <2>1. Hearing' = Hearing /\ Running' = Running
    BY <1>1 DEF Hearing, Running
  <2>2. Working' = Working \cup {a} /\ a \notin Working
    BY <1>1 DEF Working, Others
  <2>3. \A b \in Working : admin'[b] = admin[b]
    BY <1>1 DEF Working, Others
  <2> QED BY <1>1, <2>1, <2>2, <2>3 DEF TaskMeetings
<1>7. PlacedJob'
  <2>1. ASSUME Asks({"create"}) PROVE Asks({"create"})'
    BY <2>1, <1>1 DEF Asks, Is, Others
  <2>2. what = "create" => Asks({"create"})'
    BY <1>1 DEF Asks, Is
  <2>3. Clear({{"redis"}, {"death"}})' => Clear({{"redis"}, {"death"}})
    BY <1>1 DEF Clear, Among
  <2> QED BY <1>2, <2>1, <2>2, <2>3 DEF PlacedJob, Present
<1> QED BY <1>3, <1>4, <1>5, <1>6, <1>7

LEMMA CreateKeepsBasics == ASSUME Basics, NEW a \in Admin, Create(a) PROVE Basics'
<1>1. task' = [task EXCEPT !.exists = TRUE] /\ Begin(a, "create", "adding", {})
  BY Creating DEF Basics
<1>2. "create" \in Op /\ "adding" \in At
  BY DEF Op, At
<1> QED BY <1>1, <1>2, BeginKeepsBasics

LEMMA AskTaskKeepsBasics == ASSUME Basics, NEW a \in Admin, AskTask(a) PROVE Basics'
<1>1. PICK what \in Op, at \in At :
        /\ what # "none" /\ \E kinds : Begin(a, what, at, kinds)
        /\ Present /\ UNCHANGED task
        /\ \/ what = "update" /\ type = "CRON" /\ at \in {"removing", "adding"}
           \/ what = "edit" /\ at = "writing"
           \/ what \in {"pause", "remove"} /\ at \in {"removing", "writing"}
           \/ what \in {"resume", "run now"} /\ at = "adding"
  BY Asking DEF Basics
<1> QED BY <1>1, BeginKeepsBasics

LEMMA AskQueueKeepsBasics == ASSUME Basics, NEW a \in Admin, AskQueue(a) PROVE Basics'
<1>1. PICK kinds : \E what \in {"pause queue", "resume queue"} : Begin(a, what, "pausing", kinds)
  BY AskingQueue DEF Basics
<1>2. UNCHANGED task
  BY AskingQueue DEF Basics
<1>3. PICK what \in {"pause queue", "resume queue"} : Begin(a, what, "pausing", kinds)
  BY <1>1
<1>4. what \in Op /\ "pausing" \in At
  BY DEF Op, At
<1> QED BY <1>2, <1>3, <1>4, BeginKeepsBasics

\* What a request does to the queue leaves the row as it was.
LEMMA GoingKeepsBasics ==
    ASSUME Basics, NEW a \in Admin, admin[a].op # "none",
           admin' \in [Admin -> [op : Op, at : At, read : TaskStatus]], Others(a),
           \/ /\ admin'[a].op = admin[a].op
              /\ admin'[a].at \in
                   CASE admin[a].op = "create" -> {"writing", "rolling back"}
                     [] admin[a].op = "update" -> {"adding", "writing"}
                     [] OTHER -> {"writing"}
              /\ admin[a].op # "run now"
              /\ admin'[a].at = "rolling back" => {"redis"} \in incidents'
           \/ admin'[a].op = "none" /\ admin'[a].at = "rest" /\ admin[a].op # "create",
           UNCHANGED <<type, task, ticking, listener>>,
           scheduler' \in SchedulerState, scheduler' # "none" => type = "CRON",
           left' \in Nat, left' > 0 => type = "CRON",
           own' \in JobState, own' # "none" => type = "ONCE", own' = "active" => own = "active",
           extra' \in JobState \ {"kept"}, extra' = "active" => extra = "active",
           queue' \in {"open", "paused"},
           \/ UNCHANGED <<scheduler, left, own, extra>>
           \/ admin[a].op \notin {"pause queue", "resume queue"},
           incidents \subseteq incidents', incidents' \subseteq TaskIncident
    PROVE  Basics'
<1> USE DEF Basics
<1>1. TaskShapes'
  <2>1. TaskTypeOK'
    BY DEF TaskShapes, TaskTypeOK, Event
  <2> QED BY <2>1 DEF TaskShapes
<1>2. Stages'
  BY DEF Stages, Is, Others, TaskShapes
<1>3. NotYet'
  BY DEF NotYet, Queued, Leftover, Is, Others, Present, TaskShapes
<1>4. TaskMeetings'
  <2>1. Hearing' = Hearing /\ (Running' => Running)
    BY DEF Hearing, Running, TaskShapes, TaskTypeOK
  <2>2. \A b \in Working' : b \in Working /\ admin'[b].op = admin[b].op
    BY DEF Working, Others
  <2> QED BY <2>1, <2>2 DEF TaskMeetings
<1>5. PlacedJob'
  <2>1. ASSUME Asks({"create"}) PROVE Asks({"create"})'
    BY <2>1 DEF Asks, Is, Others
  <2>2. Clear({{"redis"}, {"death"}})' => Clear({{"redis"}, {"death"}})
    BY DEF Clear, Among
  <2> QED BY <2>1, <2>2 DEF PlacedJob, Present
<1> QED BY <1>1, <1>2, <1>3, <1>4, <1>5

LEMMA RemoveJobKeepsBasics == ASSUME Basics, NEW a \in Admin, RemoveJob(a) PROVE Basics'
<1> DEFINE at == IF admin[a].op = "update" THEN "adding" ELSE "writing"
<1>1. /\ admin[a].at = "removing" /\ GoTo(a, at)
      /\ UNCHANGED <<type, task, extra, ticking, queue, listener>>
  BY DEF RemoveJob
<1>2. admin[a].op \in {"update", "pause", "remove"} /\ at \in At
  BY <1>1 DEF Basics, Stages, Is, TaskShapes, Op, At
<1>3. /\ admin' \in [Admin -> [op : Op, at : At, read : TaskStatus]]
      /\ admin'[a].op = admin[a].op /\ admin'[a].at = at /\ Others(a)
  BY <1>1, <1>2, Going DEF Basics
<1>4. incidents \subseteq incidents' /\ incidents' \subseteq TaskIncident
  BY Happening DEF RemoveJob, DropScheduler, Basics, TaskShapes
<1>5. /\ scheduler' = "none" \/ scheduler' = scheduler
      /\ left' = left \/ (type = "CRON" /\ left' = left + 1)
      /\ own' = "none" \/ own' = own
  BY DEF RemoveJob, DropScheduler
<1>6. TaskTypeOK /\ "none" \in JobState /\ "none" \in SchedulerState
  BY DEF Basics, TaskShapes, JobState, SchedulerState
<1>7. /\ scheduler' \in SchedulerState /\ (scheduler' # "none" => type = "CRON")
      /\ left' \in Nat /\ (left' > 0 => type = "CRON")
  BY <1>5, <1>6 DEF TaskTypeOK
<1>8. /\ own' \in JobState /\ (own' # "none" => type = "ONCE") /\ (own' = "active" => own = "active")
      /\ extra' \in JobState \ {"kept"} /\ queue' \in {"open", "paused"}
  BY <1>1, <1>5, <1>6 DEF TaskTypeOK
<1> QED BY <1>1, <1>2, <1>3, <1>4, <1>7, <1>8, GoingKeepsBasics

LEMMA AddJobKeepsBasics == ASSUME Basics, NEW a \in Admin, AddJob(a) PROVE Basics'
<1>1. /\ admin[a].at = "adding" /\ admin[a].op # "run now" /\ GoTo(a, "writing")
      /\ UNCHANGED <<type, task, left, extra, ticking, queue, listener, incidents>>
  BY DEF AddJob
<1>2. admin[a].op \in {"create", "update", "resume"} /\ "writing" \in At
  BY <1>1 DEF Basics, Stages, Is, TaskShapes, Op, At
<1>3. /\ admin' \in [Admin -> [op : Op, at : At, read : TaskStatus]]
      /\ admin'[a].op = admin[a].op /\ admin'[a].at = "writing" /\ Others(a)
  BY <1>1, <1>2, Going DEF Basics
<1>4. \/ type = "CRON" /\ scheduler' = "delayed" /\ own' = own
      \/ type = "ONCE" /\ scheduler' = scheduler /\ own' = (IF own = "none" THEN "waiting" ELSE own)
  BY DEF AddJob, Basics, TaskShapes, TaskTypeOK
<1>5. TaskTypeOK /\ "waiting" \in JobState /\ "delayed" \in SchedulerState
  BY DEF Basics, TaskShapes, JobState, SchedulerState
<1>6. /\ scheduler' \in SchedulerState /\ (scheduler' # "none" => type = "CRON")
      /\ left' \in Nat /\ (left' > 0 => type = "CRON")
  BY <1>1, <1>4, <1>5 DEF TaskTypeOK
<1>7. own' \in JobState /\ (own' # "none" => type = "ONCE") /\ (own' = "active" => own = "active")
  BY <1>4, <1>5 DEF TaskTypeOK
<1>8. extra' \in JobState \ {"kept"} /\ queue' \in {"open", "paused"}
  BY <1>1, <1>5 DEF TaskTypeOK
<1>9. incidents \subseteq incidents' /\ incidents' \subseteq TaskIncident
  BY <1>1 DEF Basics, TaskShapes
<1> QED BY <1>1, <1>2, <1>3, <1>6, <1>7, <1>8, <1>9, GoingKeepsBasics

LEMMA AddFailsKeepsBasics == ASSUME Basics, NEW a \in Admin, AddFails(a) PROVE Basics'
<1>1. /\ admin[a].at = "adding"
      /\ IF admin[a].op = "create" THEN GoTo(a, "rolling back") ELSE Rest(a)
      /\ Happen({{"redis"}})
      /\ UNCHANGED <<type, task, scheduler, left, own, extra, ticking, queue, listener>>
  BY DEF AddFails, jobs
<1>2. admin[a].op # "none" /\ "rolling back" \in At
  BY <1>1 DEF Basics, Stages, Is, TaskShapes, Op, At
<1>3. /\ admin' \in [Admin -> [op : Op, at : At, read : TaskStatus]] /\ Others(a)
      /\ \/ /\ admin[a].op = "create" /\ admin'[a].op = "create"
            /\ admin'[a].at = "rolling back"
         \/ admin[a].op # "create" /\ admin'[a].op = "none" /\ admin'[a].at = "rest"
  BY <1>1, <1>2, Going, Ending DEF Basics
<1>4. incidents \subseteq incidents' /\ incidents' \subseteq TaskIncident /\ {"redis"} \in incidents'
  BY <1>1, Happening DEF Basics, TaskShapes
<1>5. TaskShapes
  BY DEF Basics
<1> QED BY <1>1, <1>2, <1>3, <1>4, <1>5, GoingKeepsBasics DEF TaskShapes, TaskTypeOK

LEMMA RunNowKeepsBasics == ASSUME Basics, NEW a \in Admin, RunNow(a) PROVE Basics'
<1>1. /\ admin[a].op = "run now" /\ extra' = "waiting" /\ Rest(a)
      /\ UNCHANGED <<type, task, scheduler, left, own, ticking, queue, listener, incidents>>
  BY DEF RunNow, Doing
<1>2. /\ admin' \in [Admin -> [op : Op, at : At, read : TaskStatus]] /\ Others(a)
      /\ admin'[a].op = "none" /\ admin'[a].at = "rest"
  BY <1>1, Ending DEF Basics
<1>3. TaskShapes /\ "waiting" \in JobState
  BY DEF Basics, JobState
<1> QED BY <1>1, <1>2, <1>3, GoingKeepsBasics DEF TaskShapes, TaskTypeOK

LEMMA PauseQueueKeepsBasics == ASSUME Basics, NEW a \in Admin, PauseQueue(a) PROVE Basics'
<1>1. /\ admin[a].at = "pausing" /\ GoTo(a, "writing")
      /\ queue' \in {"open", "paused"}
      /\ UNCHANGED <<type, task, scheduler, left, own, extra, ticking, listener, incidents>>
  BY DEF PauseQueue
<1>2. admin[a].op \in {"pause queue", "resume queue"} /\ "writing" \in At
  BY <1>1 DEF Basics, Stages, Is, TaskShapes, Op, At
<1>3. /\ admin' \in [Admin -> [op : Op, at : At, read : TaskStatus]]
      /\ admin'[a].op = admin[a].op /\ admin'[a].at = "writing" /\ Others(a)
  BY <1>1, <1>2, Going DEF Basics
<1>4. TaskShapes
  BY DEF Basics
<1> QED BY <1>1, <1>2, <1>3, <1>4, GoingKeepsBasics DEF TaskShapes, TaskTypeOK

\* The row written last.
LEMMA WritingKeepsBasics ==
    ASSUME Basics, NEW a \in Admin, admin[a].op # "none", Rest(a),
           UNCHANGED <<type, jobs, listener>>,
           incidents \subseteq incidents', incidents' \subseteq TaskIncident,
           task' \in [exists : BOOLEAN, deleted : BOOLEAN, jobId : BOOLEAN, status : TaskStatus],
           task.deleted => task'.deleted,
           ~task.exists /\ task' # task => task'.deleted,
           admin[a].op = "create" /\ ~task'.jobId => ~task'.exists \/ task'.deleted,
           task.exists => task'.exists \/ task'.deleted,
           task.jobId => task'.jobId, task'.exists => task.exists
    PROVE  Basics'
<1> USE DEF Basics
<1>1. /\ admin' \in [Admin -> [op : Op, at : At, read : TaskStatus]]
      /\ admin'[a].op = "none" /\ admin'[a].at = "rest" /\ Others(a)
  BY Ending
<1>2. UNCHANGED <<type, scheduler, left, own, extra, ticking, queue, listener>>
  BY DEF jobs
<1>3. TaskShapes'
  <2>1. TaskTypeOK'
    BY <1>1, <1>2 DEF TaskShapes, TaskTypeOK
  <2> QED BY <2>1, <1>1, <1>2 DEF TaskShapes
<1>4. Stages'
  BY <1>1, <1>2 DEF Stages, Is, Others, TaskShapes
<1>5. NotYet'
  BY <1>1, <1>2 DEF NotYet, Queued, Leftover, Is, Others, TaskShapes, TaskTypeOK
<1>6. TaskMeetings'
  <2>1. Hearing' = Hearing /\ Running' = Running
    BY <1>2 DEF Hearing, Running
  <2>2. \A b \in Working' : b \in Working /\ admin'[b].op = admin[b].op
    BY <1>1 DEF Working, Others
  <2> QED BY <2>1, <2>2 DEF TaskMeetings
<1>7. PlacedJob'
  <2>1. SUFFICES ASSUME Clear({{"redis"}, {"death"}})', Present', ~task'.jobId
                 PROVE  Asks({"create"})'
    BY DEF PlacedJob
  <2>2. Clear({{"redis"}, {"death"}}) /\ Present /\ ~task.jobId
    BY <2>1 DEF Clear, Among, Present
  <2>3. PICK b \in Admin : Is(b, {"create"})
    BY <2>2 DEF PlacedJob, Asks
  <2>4. b # a
    BY <2>1, <2>3 DEF Is, Present
  <2> QED BY <2>3, <2>4, <1>1 DEF Asks, Is, Others
<1> QED BY <1>3, <1>4, <1>5, <1>6, <1>7

LEMMA RollBackKeepsBasics == ASSUME Basics, NEW a \in Admin, RollBack(a) PROVE Basics'
<1>1. /\ admin[a].op = "create" /\ Rest(a)
      /\ task' = [task EXCEPT !.exists = FALSE, !.deleted = TRUE]
      /\ UNCHANGED <<type, jobs, listener, incidents>>
  BY DEF RollBack, Doing
<1>2. task \in [exists : BOOLEAN, deleted : BOOLEAN, jobId : BOOLEAN, status : TaskStatus]
  BY DEF Basics, TaskShapes, TaskTypeOK
<1>3. /\ task' \in [exists : BOOLEAN, deleted : BOOLEAN, jobId : BOOLEAN, status : TaskStatus]
      /\ ~task'.exists /\ task'.deleted /\ task'.jobId = task.jobId
  BY <1>1, <1>2
<1>4. incidents' \subseteq TaskIncident
  BY <1>1 DEF Basics, TaskShapes
<1> QED BY <1>1, <1>2, <1>3, <1>4, WritingKeepsBasics

\* What a request writes: the status, that there is a job, that it is gone.
LEMMA RowWritten ==
    ASSUME Basics, NEW a \in Admin, WriteRow(a)
    PROVE  /\ task' \in [exists : BOOLEAN, deleted : BOOLEAN, jobId : BOOLEAN, status : TaskStatus]
           /\ ~task.exists => task' = task
           /\ task'.exists = task.exists
           /\ task.exists => task'.deleted = (task.deleted \/ Is(a, {"remove"}))
           /\ task.exists =>
                task'.jobId = (task.jobId \/ Is(a, {"create", "update", "resume"}))
           /\ task.exists => task'.status =
                CASE Is(a, {"update", "edit"}) -> admin[a].read
                  [] Is(a, {"pause"}) -> "PAUSED"
                  [] Is(a, {"resume"}) -> "SCHEDULED"
                  [] Is(a, {"pause queue"}) /\ task.status = "SCHEDULED" -> "PAUSED"
                  [] Is(a, {"resume queue"}) /\ task.status = "PAUSED" -> "SCHEDULED"
                  [] OTHER -> task.status
<1>1. task \in [exists : BOOLEAN, deleted : BOOLEAN, jobId : BOOLEAN, status : TaskStatus]
      /\ admin[a].read \in TaskStatus /\ {"PAUSED", "SCHEDULED"} \subseteq TaskStatus
  BY DEF Basics, TaskShapes, TaskTypeOK, TaskStatus
<1>2. CASE ~task.exists
  BY <1>1, <1>2 DEF WriteRow, Update
<1>3. CASE task.exists
  <2> DEFINE what == admin[a].op
  <2>1. task' =
            CASE what = "create" -> [task EXCEPT !.jobId = TRUE]
              [] what = "update" -> [task EXCEPT !.jobId = TRUE, !.status = admin[a].read]
              [] what = "edit" -> [task EXCEPT !.status = admin[a].read]
              [] what = "pause" -> [task EXCEPT !.status = "PAUSED"]
              [] what = "resume" -> [task EXCEPT !.status = "SCHEDULED", !.jobId = TRUE]
              [] what = "remove" -> [task EXCEPT !.deleted = TRUE]
              [] what = "pause queue" /\ task.status = "SCHEDULED" ->
                    [task EXCEPT !.status = "PAUSED"]
              [] what = "resume queue" /\ task.status = "PAUSED" ->
                    [task EXCEPT !.status = "SCHEDULED"]
              [] OTHER -> task
    BY <1>3 DEF WriteRow, Update
  <2>2. CASE what \in {"create", "update", "edit", "pause"}
    BY <1>1, <1>3, <2>1, <2>2 DEF Is
  <2>3. CASE what \in {"resume", "remove"}
    BY <1>1, <1>3, <2>1, <2>3 DEF Is
  <2>4. CASE what \notin {"create", "update", "edit", "pause", "resume", "remove"}
    BY <1>1, <1>3, <2>1, <2>4 DEF Is
  <2> QED BY <2>2, <2>3, <2>4
<1> QED BY <1>2, <1>3

LEMMA WriteRowKeepsBasics == ASSUME Basics, NEW a \in Admin, WriteRow(a) PROVE Basics'
<1>1. /\ admin[a].at = "writing" /\ Rest(a)
      /\ UNCHANGED <<type, jobs, listener, incidents>>
  BY DEF WriteRow
<1>2. admin[a].op # "none" /\ incidents' \subseteq TaskIncident
  BY <1>1 DEF Basics, Stages, Is, TaskShapes
<1>3. task \in [exists : BOOLEAN, deleted : BOOLEAN, jobId : BOOLEAN, status : TaskStatus]
  BY DEF Basics, TaskShapes, TaskTypeOK
<1>4. /\ task' \in [exists : BOOLEAN, deleted : BOOLEAN, jobId : BOOLEAN, status : TaskStatus]
      /\ task'.exists = task.exists
      /\ task.deleted => task'.deleted
      /\ task.jobId => task'.jobId
      /\ ~task.exists => task' = task
      /\ admin[a].op = "create" /\ task.exists => task'.jobId
  BY <1>3, RowWritten DEF Is
<1> QED BY <1>1, <1>2, <1>3, <1>4, WritingKeepsBasics

LEMMA ForceStatusKeepsBasics == ASSUME Basics, NEW a \in Admin, ForceStatus(a) PROVE Basics'
<1>1. /\ admin[a].op = "edit" /\ Rest(a) /\ Happen({{"forced"}})
      /\ UNCHANGED <<type, jobs, listener>>
  BY DEF ForceStatus, Doing
<1>2. incidents \subseteq incidents' /\ incidents' \subseteq TaskIncident
  BY <1>1, Happening DEF Basics, TaskShapes
<1>3. task \in [exists : BOOLEAN, deleted : BOOLEAN, jobId : BOOLEAN, status : TaskStatus]
  BY DEF Basics, TaskShapes, TaskTypeOK
<1>4. PICK status \in TaskStatus : Update([task EXCEPT !.status = status])
  BY DEF ForceStatus
<1>5. /\ task' \in [exists : BOOLEAN, deleted : BOOLEAN, jobId : BOOLEAN, status : TaskStatus]
      /\ task'.exists = task.exists /\ task'.deleted = task.deleted /\ task'.jobId = task.jobId
      /\ ~task.exists => task' = task
  BY <1>3, <1>4 DEF Update
<1> QED BY <1>1, <1>2, <1>3, <1>5, WritingKeepsBasics

\* The worker leaves the row and the requests alone.
LEMMA WorkingKeepsBasics ==
    ASSUME Basics,
           UNCHANGED <<type, task, queue, admin>>,
           scheduler' \in SchedulerState, scheduler' # "none" <=> scheduler # "none",
           left' \in Nat, Leftover' => Leftover,
           own' \in JobState, own' # "none" => own # "none",
           extra' \in JobState \ {"kept"}, extra' # "none" => extra # "none",
           ticking' \in BOOLEAN, ticking' => scheduler # "none" \/ Leftover \/ ticking,
           listener' \in [Listener -> [event : Event, at : {"rest", "finding", "writing"}]],
           incidents \subseteq incidents', incidents' \subseteq TaskIncident,
           \A m \in Listener : listener'[m].event = "none" <=> listener'[m].at = "rest",
           (Running \/ Hearing # {})' =>
              Running \/ Hearing # {} \/ \A a \in Working : {admin[a].op, "run"} \in incidents',
           \A m \in Hearing' : m \notin Hearing =>
              /\ Queued
              /\ Hearing # {} => {"late"} \in incidents',
           \A l, m \in Hearing' : l \notin Hearing /\ m \notin Hearing => l = m
    PROVE  Basics'
<1> USE DEF Basics
<1>1. TaskShapes'
  <2>1. TaskTypeOK'
    BY DEF TaskShapes, TaskTypeOK, Event, Leftover
  <2> QED BY <2>1 DEF TaskShapes
<1>2. Stages'
  BY DEF Stages, Is
<1>3. NotYet'
  <2>1. SUFFICES ASSUME ~task.exists, ~task.deleted
                 PROVE  /\ ~Queued'
                        /\ \A l \in Listener : listener'[l].event = "none"
    BY DEF NotYet, Is
  <2>2. Hearing = {}
    BY <2>1 DEF NotYet, Hearing
  <2>3. Hearing' = {}
    BY <2>1, <2>2 DEF NotYet
  <2> QED BY <2>1, <2>3 DEF NotYet, Queued, Hearing
<1>4. TaskMeetings'
  <2>1. Working' = Working
    BY DEF Working
  <2>2. (\A a, b \in Working : a # b => {admin[a].op, admin[b].op} \in incidents)'
    BY <2>1 DEF TaskMeetings
  <2>3. (\A a \in Working : Running \/ Hearing # {} => {admin[a].op, "run"} \in incidents)'
    BY <2>1 DEF TaskMeetings
  <2>4. (\A l, m \in Hearing : l # m => {"late"} \in incidents)'
    BY DEF TaskMeetings
  <2> QED BY <2>2, <2>3, <2>4 DEF TaskMeetings
<1>5. PlacedJob'
  <2>1. Clear({{"redis"}, {"death"}})' => Clear({{"redis"}, {"death"}})
    BY DEF Clear, Among
  <2> QED BY <2>1 DEF PlacedJob, Present, Asks, Is
<1> QED BY <1>1, <1>2, <1>3, <1>4, <1>5

\* A run that begins: of which job, and what it meets.
LEMMA Starting ==
    ASSUME TaskShapes, StartJob
    PROVE  /\ queue = "open" /\ ~Running /\ Running'
           /\ scheduler' \in SchedulerState /\ (scheduler' # "none" <=> scheduler # "none")
           /\ left' \in Nat /\ left' <= left
           /\ \/ /\ scheduler # "none" \/ Leftover
                 /\ ticking' = TRUE /\ UNCHANGED <<own, extra>>
              \/ own = "waiting" /\ own' = "active" /\ UNCHANGED <<ticking, extra>>
              \/ extra = "waiting" /\ extra' = "active" /\ UNCHANGED <<ticking, own>>
           /\ UNCHANGED <<type, task, queue, admin>>
           /\ incidents \subseteq incidents' /\ incidents' \subseteq TaskIncident
           /\ \A a \in Working : {admin[a].op, "run"} \in incidents'
           /\ task.status = "PAUSED" => {"pause", "run"} \in incidents'
           /\ Hearing # {} => {"late"} \in incidents'
           /\ listener' \in [Listener -> [event : Event, at : {"rest", "finding", "writing"}]]
           /\ \E l \in Listener :
                /\ listener[l].event = "none"
                /\ listener'[l].event = "active" /\ listener'[l].at = "finding"
                /\ \A m \in Listener : m # l => listener'[m] = listener[m]
<1> DEFINE kinds == {{admin[a].op, "run"} : a \in Working}
                      \cup IfSo({"pause", "run"}, task.status = "PAUSED")
<1>1. /\ queue = "open" /\ ~Running /\ Emit("active", kinds) /\ "active" \in Event
      /\ UNCHANGED <<type, task, queue, admin>>
  BY DEF StartJob, Event
<1>2. /\ scheduler' \in SchedulerState /\ (scheduler' # "none" <=> scheduler # "none")
      /\ left' \in Nat /\ left' <= left
      /\ \/ /\ scheduler # "none" \/ Leftover
            /\ ticking' = TRUE /\ UNCHANGED <<own, extra>>
         \/ own = "waiting" /\ own' = "active" /\ UNCHANGED <<ticking, extra>>
         \/ extra = "waiting" /\ extra' = "active" /\ UNCHANGED <<ticking, own>>
  BY DEF StartJob, TaskShapes, TaskTypeOK, SchedulerState, Leftover
<1>3. Running'
  BY <1>2 DEF Running
<1>4. /\ incidents \subseteq incidents' /\ incidents' \subseteq TaskIncident
      /\ kinds \subseteq incidents'
      /\ Hearing # {} => {"late"} \in incidents'
      /\ listener' \in [Listener -> [event : Event, at : {"rest", "finding", "writing"}]]
      /\ \E l \in Listener :
           /\ listener[l].event = "none"
           /\ listener'[l].event = "active" /\ listener'[l].at = "finding"
           /\ \A m \in Listener : m # l => listener'[m] = listener[m]
  <2> HIDE DEF kinds
  <2> QED BY <1>1, Emitting
<1>5. \A a \in Working : {admin[a].op, "run"} \in incidents'
  BY <1>4
<1>6. task.status = "PAUSED" => {"pause", "run"} \in incidents'
  BY <1>4 DEF IfSo
<1> QED BY <1>1, <1>2, <1>3, <1>4, <1>5, <1>6

\* A run that ends.
LEMMA Finishing ==
    ASSUME TaskShapes, FinishJob
    PROVE  /\ Running /\ ticking' = FALSE
           /\ own' = IF own = "active" THEN "kept" ELSE own
           /\ extra' = IF extra = "active" THEN "none" ELSE extra
           /\ UNCHANGED <<type, task, scheduler, left, queue, admin>>
           /\ incidents \subseteq incidents' /\ incidents' \subseteq TaskIncident
           /\ Hearing # {} => {"late"} \in incidents'
           /\ listener' \in [Listener -> [event : Event, at : {"rest", "finding", "writing"}]]
           /\ \E l \in Listener :
                /\ listener[l].event = "none"
                /\ listener'[l].event \in {"completed", "failed"} /\ listener'[l].at = "finding"
                /\ \A m \in Listener : m # l => listener'[m] = listener[m]
<1>1. PICK event \in {"completed", "failed"} : Emit(event, {})
  BY DEF FinishJob
<1>2. event \in Event /\ event # "none"
  BY DEF Event
<1>3. /\ incidents \subseteq incidents' /\ incidents' \subseteq TaskIncident
      /\ Hearing # {} => {"late"} \in incidents'
      /\ listener' \in [Listener -> [event : Event, at : {"rest", "finding", "writing"}]]
      /\ \E l \in Listener :
           /\ listener[l].event = "none"
           /\ listener'[l].event = event /\ listener'[l].at = "finding"
           /\ \A m \in Listener : m # l => listener'[m] = listener[m]
  BY <1>1, <1>2, Emitting
<1> QED BY <1>3 DEF FinishJob

LEMMA StartJobKeepsBasics == ASSUME Basics, StartJob PROVE Basics'
<1>1. TaskShapes
  BY DEF Basics
<1>2. PICK l \in Listener :
        /\ listener[l].event = "none"
        /\ listener'[l].event = "active" /\ listener'[l].at = "finding"
        /\ \A m \in Listener : m # l => listener'[m] = listener[m]
  BY <1>1, Starting
<1>3. /\ UNCHANGED <<type, task, queue, admin>>
      /\ scheduler' \in SchedulerState /\ (scheduler' # "none" <=> scheduler # "none")
      /\ left' \in Nat /\ left' <= left /\ left \in Nat
      /\ incidents \subseteq incidents' /\ incidents' \subseteq TaskIncident
      /\ \A a \in Working : {admin[a].op, "run"} \in incidents'
      /\ Hearing # {} => {"late"} \in incidents'
      /\ listener' \in [Listener -> [event : Event, at : {"rest", "finding", "writing"}]]
  BY <1>1, Starting DEF TaskShapes, TaskTypeOK
<1>4. /\ own' \in JobState /\ (own' # "none" => own # "none")
      /\ extra' \in JobState \ {"kept"} /\ (extra' # "none" => extra # "none")
      /\ Queued
  BY <1>1, Starting DEF Queued, TaskShapes, TaskTypeOK, JobState
<1>5. ticking' \in BOOLEAN /\ (ticking' => scheduler # "none" \/ Leftover \/ ticking)
  <2>1. CASE (scheduler # "none" \/ Leftover) /\ ticking' = TRUE
    BY <2>1
  <2>2. CASE ticking' = ticking
    BY <2>2, <1>1 DEF TaskShapes, TaskTypeOK
  <2> QED BY <1>1, Starting, <2>1, <2>2
<1>6. \A m \in Listener : listener'[m].event = "none" <=> listener'[m].at = "rest"
  BY <1>2 DEF Basics, Stages
<1>7. \A m \in Hearing' : m \notin Hearing => m = l
  BY <1>2 DEF Hearing
<1>8. Leftover' => Leftover
  BY <1>3 DEF Leftover
<1> QED BY <1>3, <1>4, <1>5, <1>6, <1>7, <1>8, WorkingKeepsBasics

LEMMA FinishJobKeepsBasics == ASSUME Basics, FinishJob PROVE Basics'
<1>1. TaskShapes
  BY DEF Basics
<1>2. PICK l \in Listener :
        /\ listener[l].event = "none"
        /\ listener'[l].event \in {"completed", "failed"} /\ listener'[l].at = "finding"
        /\ \A m \in Listener : m # l => listener'[m] = listener[m]
  BY <1>1, Finishing
<1>3. /\ UNCHANGED <<type, task, scheduler, left, queue, admin>>
      /\ incidents \subseteq incidents' /\ incidents' \subseteq TaskIncident
      /\ Hearing # {} => {"late"} \in incidents'
      /\ listener' \in [Listener -> [event : Event, at : {"rest", "finding", "writing"}]]
      /\ Running /\ ticking' = FALSE
  BY <1>1, Finishing
<1>4. /\ own' \in JobState /\ (own' # "none" => own # "none")
      /\ extra' \in JobState \ {"kept"} /\ (extra' # "none" => extra # "none")
  BY <1>1, Finishing DEF TaskShapes, TaskTypeOK, JobState
<1>5. /\ Queued
      /\ scheduler \in SchedulerState /\ left \in Nat
  BY <1>1, <1>3 DEF Running, Queued, Leftover, TaskShapes, TaskTypeOK
<1>6. \A m \in Listener : listener'[m].event = "none" <=> listener'[m].at = "rest"
  BY <1>2 DEF Basics, Stages
<1>7. \A m \in Hearing' : m \notin Hearing => m = l
  BY <1>2 DEF Hearing
<1>8. Leftover' = Leftover
  BY <1>3 DEF Leftover
<1> QED BY <1>3, <1>4, <1>5, <1>6, <1>7, <1>8, WorkingKeepsBasics

LEMMA ForgetJobKeepsBasics == ASSUME Basics, ForgetJob PROVE Basics'
<1>1. /\ own = "kept" /\ own' = "none"
      /\ UNCHANGED <<type, task, scheduler, left, extra, ticking, queue, admin, listener, incidents>>
  BY DEF ForgetJob
<1>2. TaskShapes /\ "none" \in JobState
  BY DEF Basics, JobState
<1>3. /\ Hearing' = Hearing /\ (Running' => Running)
      /\ \A m \in Listener : listener'[m].event = "none" <=> listener'[m].at = "rest"
  BY <1>1 DEF Hearing, Running, Basics, Stages
<1>4. Leftover' = Leftover
  BY <1>1 DEF Leftover
<1> QED BY <1>1, <1>2, <1>3, <1>4, WorkingKeepsBasics DEF TaskShapes, TaskTypeOK

LEMMA IterationDueKeepsBasics == ASSUME Basics, IterationDue PROVE Basics'
<1>1. /\ scheduler = "delayed" /\ scheduler' = "due"
      /\ UNCHANGED <<type, task, left, own, extra, ticking, queue, admin, listener, incidents>>
  BY DEF IterationDue
<1>2. TaskShapes /\ "due" \in SchedulerState
  BY DEF Basics, SchedulerState
<1>3. /\ Hearing' = Hearing /\ Running' = Running
      /\ \A m \in Listener : listener'[m].event = "none" <=> listener'[m].at = "rest"
  BY <1>1 DEF Hearing, Running, Basics, Stages
<1>4. Leftover' = Leftover
  BY <1>1 DEF Leftover
<1> QED BY <1>1, <1>2, <1>3, <1>4, WorkingKeepsBasics DEF TaskShapes, TaskTypeOK

\* A listener looks for its task: what it says stays, or it falls silent.
LEMMA Finding ==
    ASSUME TaskShapes, NEW l \in Listener, FindTask(l)
    PROVE  /\ UNCHANGED <<type, task, jobs, admin, incidents>>
           /\ listener[l].at = "finding"
           /\ listener' \in [Listener -> [event : Event, at : {"rest", "finding", "writing"}]]
           /\ \A m \in Listener : m # l => listener'[m] = listener[m]
           /\ \/ /\ Present
                 /\ ~(listener[l].event = "completed" /\ type = "CRON" /\ task.status = "PAUSED")
                 /\ listener'[l].event = listener[l].event /\ listener'[l].at = "writing"
              \/ /\ \/ ~Present
                    \/ listener[l].event = "completed" /\ type = "CRON" /\ task.status = "PAUSED"
                 /\ listener'[l].event = "none" /\ listener'[l].at = "rest"
<1>1. /\ UNCHANGED <<type, task, jobs, admin, incidents>> /\ listener[l].at = "finding"
  BY DEF FindTask
<1>2. CASE /\ Present
           /\ ~(listener[l].event = "completed" /\ type = "CRON" /\ task.status = "PAUSED")
  <2>1. listener' = [listener EXCEPT ![l].at = "writing"]
    BY <1>2 DEF FindTask
  <2>2. /\ listener' \in [Listener -> [event : Event, at : {"rest", "finding", "writing"}]]
        /\ listener'[l].event = listener[l].event /\ listener'[l].at = "writing"
        /\ \A m \in Listener : m # l => listener'[m] = listener[m]
    BY <2>1 DEF TaskShapes
  <2> QED BY <1>1, <1>2, <2>2
<1>3. CASE \/ ~Present
           \/ listener[l].event = "completed" /\ type = "CRON" /\ task.status = "PAUSED"
  <2>1. Silence(l)
    BY <1>3 DEF FindTask
  <2> QED BY <1>1, <1>3, <2>1, Hushing
<1> QED BY <1>2, <1>3

\* A listener that has told its status is silent.
LEMMA Telling ==
    ASSUME TaskShapes, NEW l \in Listener, TellStatus(l)
    PROVE  /\ UNCHANGED <<type, jobs, admin, incidents>>
           /\ listener[l].at = "writing"
           /\ listener' \in [Listener -> [event : Event, at : {"rest", "finding", "writing"}]]
           /\ listener'[l].event = "none" /\ listener'[l].at = "rest"
           /\ \A m \in Listener : m # l => listener'[m] = listener[m]
           /\ task' \in [exists : BOOLEAN, deleted : BOOLEAN, jobId : BOOLEAN, status : TaskStatus]
           /\ ~task.exists => task' = task
           /\ task.exists => task'.status = Told(listener[l].event)
           /\ task'.exists = task.exists /\ task'.deleted = task.deleted /\ task'.jobId = task.jobId
<1>1. /\ UNCHANGED <<type, jobs, admin, incidents>> /\ listener[l].at = "writing"
      /\ Silence(l) /\ Update([task EXCEPT !.status = Told(listener[l].event)])
  BY DEF TellStatus
<1>2. task \in [exists : BOOLEAN, deleted : BOOLEAN, jobId : BOOLEAN, status : TaskStatus]
      /\ Told(listener[l].event) \in TaskStatus
  BY DEF TaskShapes, TaskTypeOK, Told, TaskStatus
<1>3. /\ task' \in [exists : BOOLEAN, deleted : BOOLEAN, jobId : BOOLEAN, status : TaskStatus]
      /\ ~task.exists => task' = task
      /\ task.exists => task'.status = Told(listener[l].event)
      /\ task'.exists = task.exists /\ task'.deleted = task.deleted /\ task'.jobId = task.jobId
  BY <1>1, <1>2 DEF Update
<1> QED BY <1>1, <1>3, Hushing

\* Listeners that find and tell leave the queue and the requests alone.
LEMMA ListeningKeepsBasics ==
    ASSUME Basics, NEW l \in Listener, UNCHANGED <<type, jobs, admin, incidents>>,
           listener[l].at # "rest",
           listener' \in [Listener -> [event : Event, at : {"rest", "finding", "writing"}]],
           listener'[l].event = "none" <=> listener'[l].at = "rest",
           \A m \in Listener : m # l => listener'[m] = listener[m],
           task' \in [exists : BOOLEAN, deleted : BOOLEAN, jobId : BOOLEAN, status : TaskStatus],
           ~task.exists => task' = task, task'.exists = task.exists,
           task'.deleted = task.deleted, task'.jobId = task.jobId
    PROVE  Basics'
<1> USE DEF Basics
<1>1. UNCHANGED <<scheduler, left, own, extra, ticking, queue>>
  BY DEF jobs
<1>2. TaskShapes'
  <2>1. TaskTypeOK'
    BY <1>1 DEF TaskShapes, TaskTypeOK, Event
  <2> QED BY <2>1, <1>1 DEF TaskShapes
<1>3. Stages'
  BY DEF Stages, Is
<1>4. NotYet'
  BY <1>1 DEF NotYet, Queued, Is, Stages
<1>5. TaskMeetings'
  <2>1. Working' = Working /\ Running' = Running
    BY <1>1 DEF Working, Running
  <2>2. Hearing' \subseteq Hearing
    BY DEF Hearing, Stages
  <2> QED BY <2>1, <2>2 DEF TaskMeetings
<1>6. PlacedJob'
  BY DEF PlacedJob, Present, Asks, Is, Clear, Among
<1> QED BY <1>2, <1>3, <1>4, <1>5, <1>6

LEMMA FindTaskKeepsBasics == ASSUME Basics, NEW l \in Listener, FindTask(l) PROVE Basics'
<1>1. TaskShapes
  BY DEF Basics
<1>2. /\ UNCHANGED <<type, task, jobs, admin, incidents>>
      /\ listener[l].at = "finding"
      /\ listener' \in [Listener -> [event : Event, at : {"rest", "finding", "writing"}]]
      /\ \A m \in Listener : m # l => listener'[m] = listener[m]
  BY <1>1, Finding
<1>3. listener'[l].event = "none" <=> listener'[l].at = "rest"
  BY <1>1, <1>2, Finding DEF Basics, Stages
<1> QED BY <1>1, <1>2, <1>3, ListeningKeepsBasics DEF TaskShapes, TaskTypeOK

LEMMA TellStatusKeepsBasics == ASSUME Basics, NEW l \in Listener, TellStatus(l) PROVE Basics'
<1>1. TaskShapes
  BY DEF Basics
<1> QED BY <1>1, Telling, ListeningKeepsBasics

LEMMA TaskDeathKeepsBasics == ASSUME Basics, TaskDeath PROVE Basics'
<1> USE DEF Basics
<1>1. /\ admin' = [a \in Admin |-> Resting] /\ listener' = [l \in Listener |-> Silent]
      /\ ticking' = FALSE
      /\ left' = IF ticking THEN left + 1 ELSE left
      /\ own' = IF own = "active" THEN "waiting" ELSE own
      /\ extra' = IF extra = "active" THEN "waiting" ELSE extra
      /\ UNCHANGED <<type, task, scheduler, queue>>
      /\ Happen({{"death"}})
  BY DEF TaskDeath
<1>2. {{"death"}} \subseteq incidents' /\ incidents' \subseteq TaskIncident
  BY <1>1, Happening DEF TaskShapes
<1>3. /\ \A a \in Admin : admin'[a].op = "none" /\ admin'[a].at = "rest"
      /\ \A l \in Listener : listener'[l].event = "none" /\ listener'[l].at = "rest"
  BY <1>1 DEF Resting, Silent
<1>4. TaskShapes'
  <2>1. /\ admin' \in [Admin -> [op : Op, at : At, read : TaskStatus]]
        /\ listener' \in [Listener -> [event : Event, at : {"rest", "finding", "writing"}]]
    BY <1>1 DEF Resting, Silent, Op, At, TaskStatus, Event
  <2>2. left' \in Nat /\ (Leftover' => Leftover \/ ticking)
    BY <1>1, SMT DEF TaskShapes, TaskTypeOK, Leftover
  <2>3. own' \in JobState /\ extra' \in JobState \ {"kept"}
        /\ (own' # "none" => own # "none")
    BY <1>1 DEF TaskShapes, TaskTypeOK, JobState
  <2>4. \A a \in Admin : admin'[a].op \in Op /\ admin'[a].read \in TaskStatus
    BY <2>1
  <2>5. \A l \in Listener : listener'[l].event \in {"none", "active", "completed", "failed"}
    BY <2>1 DEF Event
  <2>6. TaskTypeOK'
    BY <1>1, <2>2, <2>3, <2>4, <2>5 DEF TaskShapes, TaskTypeOK, Leftover
  <2> QED BY <1>2, <2>1, <2>6 DEF TaskShapes
<1>5. Stages'
  BY <1>3 DEF Stages, Is
<1>6. NotYet'
  <2>1. Queued' => Queued
    <3>1. Leftover' => Leftover \/ ticking
      BY <1>1, SMT DEF TaskShapes, TaskTypeOK, Leftover
    <3> QED BY <1>1, <3>1 DEF Queued
  <2> QED BY <1>1, <1>3, <2>1 DEF NotYet, Is
<1>7. TaskMeetings'
  <2>1. Working' = {} /\ Hearing' = {}
    BY <1>3 DEF Working, Hearing
  <2> QED BY <2>1 DEF TaskMeetings
<1>8. PlacedJob'
  BY <1>2 DEF PlacedJob, Clear, Among
<1> QED BY <1>4, <1>5, <1>6, <1>7, <1>8

LEMMA BasicsKept == Basics /\ [TaskNext]_taskVars => Basics'
<1> SUFFICES ASSUME Basics, [TaskNext]_taskVars PROVE Basics'
  OBVIOUS
<1>1. ASSUME NEW a \in Admin, Create(a) \/ AskTask(a) \/ AskQueue(a) PROVE Basics'
  BY <1>1, CreateKeepsBasics, AskTaskKeepsBasics, AskQueueKeepsBasics
<1>2. ASSUME NEW a \in Admin, RemoveJob(a) \/ AddJob(a) \/ AddFails(a) \/ RunNow(a) \/ PauseQueue(a)
      PROVE  Basics'
  BY <1>2, RemoveJobKeepsBasics, AddJobKeepsBasics, AddFailsKeepsBasics, RunNowKeepsBasics,
     PauseQueueKeepsBasics
<1>3. ASSUME NEW a \in Admin, RollBack(a) \/ WriteRow(a) \/ ForceStatus(a) PROVE Basics'
  BY <1>3, RollBackKeepsBasics, WriteRowKeepsBasics, ForceStatusKeepsBasics
<1>4. ASSUME IterationDue \/ StartJob \/ FinishJob \/ ForgetJob \/ TaskDeath PROVE Basics'
  BY <1>4, IterationDueKeepsBasics, StartJobKeepsBasics, FinishJobKeepsBasics,
     ForgetJobKeepsBasics, TaskDeathKeepsBasics
<1>5. ASSUME NEW l \in Listener, FindTask(l) \/ TellStatus(l) PROVE Basics'
  BY <1>5, FindTaskKeepsBasics, TellStatusKeepsBasics
<1>6. CASE UNCHANGED taskVars
  BY <1>6 DEF taskVars, jobs, Basics, TaskShapes, TaskTypeOK, Stages, Is, NotYet, Queued, Leftover,
     TaskMeetings, Working, Hearing, Running, PlacedJob, Clear, Present, Asks
<1> QED BY <1>1, <1>2, <1>3, <1>4, <1>5, <1>6 DEF TaskNext

-----------------------------------------------------------------------------
(* A removed task leaves nothing in the queue. *)

Removals ==
    {{"redis"}, {"death"}, {"left"}, {"remove", "create"}, {"remove", "update"},
     {"remove", "resume"}, {"remove", "run now"}}

Schedules == {"create", "update", "resume"}

RemovalAlone == \A a, b \in Admin : Is(a, {"remove"}) => ~Is(b, Schedules)

\* What a removal is about to mark as gone is off the queue, and nobody is
\* about to put it there.
DeletedOff ==
    Clear(Removals) =>
      /\ task.deleted => ~JobOn /\ ~Asks(Schedules)
      /\ \A a \in Admin : Doing(a, "remove", "writing") => ~JobOn

LEMMA RemovalsApart == Basics /\ Clear(Removals) => RemovalAlone
<1> SUFFICES ASSUME Basics, Clear(Removals), NEW a \in Admin, NEW b \in Admin,
                    Is(a, {"remove"}), Is(b, Schedules)
             PROVE  FALSE
  BY DEF RemovalAlone
<1>1. a \in Working /\ b \in Working /\ a # b
  BY DEF Working, Is, Schedules
<1>2. {admin[a].op, admin[b].op} \in incidents
  BY <1>1 DEF Basics, TaskMeetings
<1> QED BY <1>2 DEF Is, Schedules, Clear, Among, Removals

LEMMA DeletedOffKept ==
    Basics /\ Basics' /\ DeletedOff /\ [TaskNext]_taskVars => DeletedOff'
<1> SUFFICES ASSUME Basics, Basics', DeletedOff, [TaskNext]_taskVars, Clear(Removals)'
             PROVE  DeletedOff'
  BY DEF DeletedOff
<1>1. RemovalAlone'
  BY RemovalsApart, PTL
<1>2. incidents \subseteq incidents' => Clear(Removals)
  BY DEF Clear, Among
<1>3. {"redis"} \notin incidents' /\ {"death"} \notin incidents'
  BY DEF Clear, Among, Removals
<1>4. TaskShapes
  BY DEF Basics
<1>5. ASSUME NEW a \in Admin, Create(a) PROVE DeletedOff'
  <2>1. /\ ~task.deleted /\ task' = [task EXCEPT !.exists = TRUE]
        /\ Begin(a, "create", "adding", {})
    BY <1>4, <1>5, Creating
  <2>2. ~task'.deleted
    BY <2>1, <1>4 DEF TaskShapes, TaskTypeOK
  <2>3. Is(a, Schedules)'
    BY <2>1, <1>4, Beginning DEF Is, Schedules, Op, At
  <2> QED BY <2>2, <2>3, <1>1 DEF DeletedOff, RemovalAlone, Is, Doing
<1>6. ASSUME NEW a \in Admin, AskTask(a) PROVE DeletedOff'
  <2>1. PICK what \in Op, at \in At :
          /\ what # "none" /\ \E kinds : Begin(a, what, at, kinds)
          /\ what = "remove" /\ at = "writing" => ~task.jobId
    BY <1>4, <1>6, Asking
  <2>2. Present /\ UNCHANGED task
    BY <1>4, <1>6, Asking
  <2>3. /\ admin[a].op = "none" /\ admin'[a].op = what /\ admin'[a].at = at
        /\ Others(a) /\ JobsKept /\ incidents \subseteq incidents'
    BY <2>1, <1>4, Beginning
  <2>4. ~Doing(a, "remove", "writing")'
    <3>1. SUFFICES ASSUME Doing(a, "remove", "writing")' PROVE FALSE
      OBVIOUS
    <3>2. Asks({"create"})
      BY <3>1, <2>1, <2>2, <2>3, <1>3 DEF Doing, Basics, PlacedJob, Clear, Among
    <3>3. PICK b \in Admin : Is(b, {"create"})
      BY <3>2 DEF Asks
    <3>4. Is(b, Schedules)' /\ Is(a, {"remove"})'
      BY <3>1, <3>3, <2>3 DEF Is, Others, Doing, Schedules
    <3> QED BY <3>4, <1>1 DEF RemovalAlone
  <2> QED BY <2>2, <2>3, <2>4, <1>2 DEF DeletedOff, JobOn, JobsKept, Present, Doing, Others
<1>7. ASSUME NEW a \in Admin, AskQueue(a) PROVE DeletedOff'
  <2>1. UNCHANGED task
    BY <1>4, <1>7, AskingQueue
  <2>2. PICK what \in {"pause queue", "resume queue"} :
          /\ admin'[a].op = what
          /\ Others(a) /\ JobsKept /\ incidents \subseteq incidents'
    <3>1. {"pause queue", "resume queue"} \subseteq Op /\ "pausing" \in At
      BY DEF Op, At
    <3> QED BY <3>1, <1>4, <1>7, AskingQueue, Beginning
  <2>3. ~Asks(Schedules) => ~Asks(Schedules)'
    BY <2>2 DEF Asks, Is, Schedules, Others
  <2> QED BY <2>1, <2>2, <2>3, <1>2 DEF DeletedOff, JobOn, JobsKept, Doing, Others
<1>8. ASSUME NEW a \in Admin, RemoveJob(a) PROVE DeletedOff'
  <2>1. /\ IF type = "CRON"
           THEN scheduler' = "none" /\ UNCHANGED own
           ELSE own' = (IF own = "active" THEN own ELSE "none") /\ UNCHANGED scheduler
        /\ GoTo(a, IF admin[a].op = "update" THEN "adding" ELSE "writing")
        /\ UNCHANGED task /\ incidents \subseteq incidents'
    BY <1>8, <1>3, <1>4, Removing
  <2>2. ~JobOn'
    BY <2>1, <1>4 DEF JobOn, TaskShapes, TaskTypeOK
  <2>3. \A b \in Admin : admin'[b].op = admin[b].op
    BY <2>1, <1>4 DEF GoTo, TaskShapes
  <2> QED BY <2>1, <2>2, <2>3, <1>2 DEF DeletedOff, Asks, Is
<1>9. ASSUME NEW a \in Admin, AddJob(a) PROVE DeletedOff'
  <2>1. Is(a, Schedules)
    BY <1>9, <1>4 DEF AddJob, Basics, Stages, Is, Schedules, TaskShapes, Op
  <2>2. \A b \in Admin : admin'[b].op = admin[b].op
    BY <1>9, <1>4 DEF AddJob, GoTo, TaskShapes
  <2>3. UNCHANGED <<task, incidents>>
    BY <1>9 DEF AddJob
  <2>4. ~task.deleted /\ \A b \in Admin : ~Is(b, {"remove"})
    BY <2>1, <2>2, <2>3, <1>1, <1>2 DEF DeletedOff, Asks, RemovalAlone, Is
  <2> QED BY <2>2, <2>3, <2>4 DEF DeletedOff, Doing, Is
<1>10. ASSUME NEW a \in Admin, AddFails(a) \/ RollBack(a) PROVE DeletedOff'
  <2>1. {"redis"} \in incidents'
    BY <1>10, <1>4, Happening DEF AddFails, RollBack, Doing, Basics, Stages, TaskShapes
  <2> QED BY <2>1, <1>3
<1>11. ASSUME NEW a \in Admin, RunNow(a) \/ ForceStatus(a) PROVE DeletedOff'
  <2>1. UNCHANGED scheduler /\ UNCHANGED own /\ incidents \subseteq incidents' /\ Rest(a)
    BY <1>11, <1>4, Happening DEF RunNow, ForceStatus, jobs, TaskShapes
  <2>2. task'.deleted = task.deleted
    BY <1>11, <1>4 DEF RunNow, ForceStatus, Update, TaskShapes, TaskTypeOK
  <2> QED BY <2>1, <2>2, <1>2, <1>4, Ending DEF DeletedOff, JobOn, Doing, Others, Asks, Is, Schedules
<1>12. ASSUME NEW a \in Admin, PauseQueue(a) PROVE DeletedOff'
  <2>1. /\ UNCHANGED <<task, scheduler, own, incidents>> /\ GoTo(a, "writing")
        /\ admin[a].at = "pausing" /\ "writing" \in At
    BY <1>12 DEF PauseQueue, At
  <2>2. ~Is(a, {"remove"})
    BY <2>1 DEF Basics, Stages, Is
  <2> QED BY <2>1, <2>2, <1>2, <1>4, Going DEF DeletedOff, JobOn, Doing, Others, Asks, Is
<1>13. ASSUME NEW a \in Admin, WriteRow(a) PROVE DeletedOff'
  <2>1. /\ UNCHANGED <<scheduler, own, incidents>> /\ Rest(a) /\ admin[a].at = "writing"
    BY <1>13 DEF WriteRow, jobs
  <2>2. /\ admin'[a].op = "none" /\ admin'[a].at = "rest" /\ Others(a)
    BY <2>1, <1>4, Ending
  <2>3. task'.deleted => task.deleted \/ Doing(a, "remove", "writing")
    BY <1>13, <2>1, RowWritten DEF Doing, Is
  <2>4. RemovalAlone
    BY <1>2, <2>1, RemovalsApart
  <2>5. task'.deleted => ~JobOn /\ ~Asks(Schedules)
    BY <2>1, <2>3, <2>4, <1>2 DEF DeletedOff, RemovalAlone, Asks, Is, Doing
  <2> QED BY <2>1, <2>2, <2>5, <1>2 DEF DeletedOff, JobOn, Doing, Others, Asks, Is, Schedules
<1>14. ASSUME IterationDue \/ StartJob \/ FinishJob \/ ForgetJob PROVE DeletedOff'
  <2>1. /\ UNCHANGED <<task, admin>> /\ (scheduler' # "none" => scheduler # "none")
        /\ (own' = "waiting" => own = "waiting")
        /\ incidents \subseteq incidents'
    BY <1>14, <1>4, Starting, Finishing DEF IterationDue, ForgetJob
  <2> QED BY <2>1, <1>2 DEF DeletedOff, JobOn, Asks, Is, Doing
<1>15. ASSUME NEW l \in Listener, FindTask(l) \/ TellStatus(l) PROVE DeletedOff'
  <2>1. UNCHANGED <<scheduler, own, admin, incidents>> /\ task'.deleted = task.deleted
    BY <1>15, <1>4, Finding, Telling DEF jobs
  <2> QED BY <2>1, <1>2 DEF DeletedOff, JobOn, Asks, Is, Doing
<1>16. CASE TaskDeath
  BY <1>16, <1>3, <1>4, Happening DEF TaskDeath, TaskShapes
<1>17. CASE UNCHANGED taskVars
  BY <1>17, <1>2 DEF taskVars, jobs, DeletedOff, JobOn, Asks, Is, Doing
<1> QED BY <1>5, <1>6, <1>7, <1>8, <1>9, <1>10, <1>11, <1>12, <1>13, <1>14, <1>15, <1>16, <1>17
        DEF TaskNext

\* Iterations without a scheduler are told of, and no job of runNow waits or is
\* about to when the task is gone or going.
Removed == Clear(Removals)
Removes == Asks({"remove"})
RunsNow == Asks({"run now"})
LeftTold ==
    /\ Leftover => {"left"} \in incidents \/ {"death"} \in incidents
    /\ Removed /\ (task.deleted \/ Removes) => extra # "waiting" /\ ~RunsNow

\* It is enough that nothing waits that did not, and nobody new asks.
LEMMA LeftToldStays ==
    ASSUME LeftTold, incidents \subseteq incidents',
           Leftover' => Leftover \/ {"left"} \in incidents' \/ {"death"} \in incidents',
           Removed' =>
             /\ task'.deleted \/ Removes' => task.deleted \/ Removes
             /\ extra' = "waiting" => extra = "waiting" \/ RunsNow
             /\ RunsNow' => RunsNow
    PROVE  LeftTold'
<1>1. Removed' => Removed
  BY DEF Removed, Clear, Among
<1>2. Leftover' => {"left"} \in incidents' \/ {"death"} \in incidents'
  BY DEF LeftTold
<1>3. ASSUME Removed', task'.deleted \/ Removes' PROVE extra' # "waiting" /\ ~RunsNow'
  BY <1>1, <1>3 DEF LeftTold
<1> QED BY <1>2, <1>3 DEF LeftTold

\* A request that asks no more, or asks the same.
LEMMA AskedBefore ==
    ASSUME \A b \in Admin : admin'[b].op \in {"none", admin[b].op}
    PROVE  (Removes' => Removes) /\ (RunsNow' => RunsNow)
BY DEF Removes, RunsNow, Asks, Is

LEMMA LeftToldKept ==
    Basics /\ Basics' /\ LeftTold /\ [TaskNext]_taskVars => LeftTold'
<1> SUFFICES ASSUME Basics, Basics', LeftTold, [TaskNext]_taskVars PROVE LeftTold'
  OBVIOUS
<1>1. TaskShapes
  BY DEF Basics
<1>3. Removed' =>
        {"redis"} \notin incidents' /\ {"death"} \notin incidents' /\ {"left"} \notin incidents'
  BY DEF Removed, Clear, Among, Removals
<1>4. Removed' => ~(Removes' /\ RunsNow')
  <2>1. SUFFICES ASSUME Removed', NEW a \in Admin, NEW b \in Admin,
                        admin'[a].op = "remove", admin'[b].op = "run now"
                 PROVE  FALSE
    BY DEF Removes, RunsNow, Asks, Is
  <2>2. a # b /\ a \in Working' /\ b \in Working'
    BY <2>1 DEF Working
  <2>3. {admin'[a].op, admin'[b].op} \in incidents'
    BY <2>2 DEF Basics, TaskMeetings
  <2> QED BY <2>1, <2>3 DEF Removed, Clear, Among, Removals
<1>6. ASSUME NEW a \in Admin, Create(a) \/ AskQueue(a) PROVE LeftTold'
  <2>1. \E what \in {"create", "pause queue", "resume queue"}, at \in At : \E kinds :
          Begin(a, what, at, kinds)
    BY <1>1, <1>6, Creating, AskingQueue DEF At
  <2>2. {"create", "pause queue", "resume queue"} \subseteq Op
    BY DEF Op
  <2>3. /\ admin'[a].op \in {"create", "pause queue", "resume queue"} /\ admin[a].op = "none"
        /\ Others(a) /\ JobsKept /\ incidents \subseteq incidents'
    BY <1>1, <2>1, <2>2, Beginning
  <2>4. task'.deleted = task.deleted
    BY <1>1, <1>6 DEF Create, AskQueue, TaskShapes, TaskTypeOK
  <2>5. (Removes' => Removes) /\ (RunsNow' => RunsNow)
    BY <2>3 DEF Removes, RunsNow, Asks, Is, Others
  <2>6. (Leftover' => Leftover) /\ (extra' = "waiting" => extra = "waiting")
    BY <2>3 DEF JobsKept, Leftover
  <2> QED BY <2>3, <2>4, <2>5, <2>6, LeftToldStays
<1>7. ASSUME NEW a \in Admin, AskTask(a) PROVE LeftTold'
  <2>1. PICK what \in Op, at \in At : \E kinds :
          /\ what # "none" /\ Begin(a, what, at, kinds)
          /\ what = "remove" /\ extra = "waiting" => {"left"} \in kinds
    BY <1>1, <1>7, Asking
  <2>2. Present /\ UNCHANGED task
    BY <1>1, <1>7, Asking
  <2>3. /\ admin'[a].op = what /\ admin[a].op = "none"
        /\ Others(a) /\ JobsKept /\ incidents \subseteq incidents'
        /\ what = "remove" /\ extra = "waiting" => {"left"} \in incidents'
    BY <1>1, <2>1, Beginning
  <2>6. (Leftover' => Leftover) /\ (extra' = "waiting" => extra = "waiting")
        /\ (extra = "waiting" => extra' = "waiting")
    BY <2>3 DEF JobsKept, Leftover
  <2>4. CASE what \in {"remove", "run now"}
    <3>1. Leftover' => {"left"} \in incidents' \/ {"death"} \in incidents'
      BY <2>3, <2>6 DEF LeftTold
    <3>2. ASSUME Removed', Removes' PROVE extra' # "waiting" /\ ~RunsNow'
      <4>1. ~RunsNow'
        BY <1>4, <3>2
      <4>2. what = "remove"
        BY <4>1, <2>3, <2>4 DEF RunsNow, Asks, Is
      <4> QED BY <1>3, <2>3, <2>6, <3>2, <4>1, <4>2
    <3>3. task.deleted = FALSE
      BY <1>1, <2>2 DEF Present, TaskShapes, TaskTypeOK
    <3>4. ~task'.deleted
      BY <2>2, <3>3
    <3> QED BY <3>4, <3>1, <3>2 DEF LeftTold
  <2>5. CASE what \notin {"remove", "run now"}
    <3>1. (Removes' => Removes) /\ (RunsNow' => RunsNow)
      BY <2>3, <2>5 DEF Removes, RunsNow, Asks, Is, Others
    <3> QED BY <2>2, <2>3, <2>6, <3>1, LeftToldStays
  <2> QED BY <2>4, <2>5
<1>8. ASSUME NEW a \in Admin, RemoveJob(a) PROVE LeftTold'
  <2>1. /\ UNCHANGED <<task, extra>> /\ incidents \subseteq incidents'
        /\ left' = left \/ {"left"} \in incidents'
        /\ \A b \in Admin : admin'[b].op = admin[b].op
    BY <1>1, <1>8, Removing DEF GoTo, TaskShapes
  <2>2. Leftover' => Leftover \/ {"left"} \in incidents'
    BY <2>1 DEF Leftover
  <2> QED BY <2>1, <2>2, AskedBefore, LeftToldStays
<1>9. ASSUME NEW a \in Admin,
             AddJob(a) \/ AddFails(a) \/ RollBack(a) \/ PauseQueue(a) \/ ForceStatus(a)
      PROVE  LeftTold'
  <2>1. /\ UNCHANGED <<left, extra>> /\ incidents \subseteq incidents'
        /\ RollBack(a) => {"redis"} \in incidents'
    BY <1>1, <1>9, Happening
       DEF AddJob, AddFails, RollBack, PauseQueue, ForceStatus, jobs, Doing, Basics, Stages, TaskShapes
  <2>2. \A b \in Admin : admin'[b].op \in {"none", admin[b].op}
    <3>1. Rest(a) \/ \E at \in At : GoTo(a, at)
      BY <1>9 DEF AddJob, AddFails, RollBack, PauseQueue, ForceStatus, At
    <3> QED BY <1>1, <3>1, Ending, Going DEF Others
  <2>3. ~RollBack(a) => task'.deleted = task.deleted
    BY <1>1, <1>9 DEF AddJob, AddFails, PauseQueue, ForceStatus, Update, TaskShapes, TaskTypeOK
  <2>4. (Leftover' => Leftover) /\ (extra' = "waiting" => extra = "waiting")
    BY <2>1 DEF Leftover
  <2>5. (Removes' => Removes) /\ (RunsNow' => RunsNow)
    BY <2>2, AskedBefore
  <2>6. CASE RollBack(a)
    BY <1>3, <2>1, <2>4, <2>6, LeftToldStays
  <2>7. CASE ~RollBack(a)
    BY <2>1, <2>3, <2>4, <2>5, <2>7, LeftToldStays
  <2> QED BY <2>6, <2>7
<1>10. ASSUME NEW a \in Admin, RunNow(a) PROVE LeftTold'
  <2>1. /\ UNCHANGED <<task, left, incidents>> /\ Rest(a) /\ admin[a].op = "run now"
    BY <1>10 DEF RunNow, Doing
  <2>2. \A b \in Admin : admin'[b].op \in {"none", admin[b].op}
    BY <1>1, <2>1, Ending DEF Others
  <2>3. RunsNow
    BY <2>1 DEF RunsNow, Asks, Is
  <2>4. Leftover' => Leftover
    BY <2>1 DEF Leftover
  <2>5. (Removes' => Removes) /\ (RunsNow' => RunsNow)
    BY <2>2, AskedBefore
  <2> QED BY <2>1, <2>3, <2>4, <2>5, LeftToldStays
<1>11. ASSUME NEW a \in Admin, WriteRow(a) PROVE LeftTold'
  <2>1. UNCHANGED <<left, extra, incidents>> /\ Rest(a)
    BY <1>11 DEF WriteRow, jobs
  <2>2. \A b \in Admin : admin'[b].op \in {"none", admin[b].op}
    BY <1>1, <2>1, Ending DEF Others
  <2>3. task'.deleted => task.deleted \/ Removes
    BY <1>11, RowWritten DEF Removes, Asks
  <2>4. (Leftover' => Leftover) /\ (extra' = "waiting" => extra = "waiting")
    BY <2>1 DEF Leftover
  <2>5. (Removes' => Removes) /\ (RunsNow' => RunsNow)
    BY <2>2, AskedBefore
  <2> QED BY <2>1, <2>3, <2>4, <2>5, LeftToldStays
<1>12. ASSUME IterationDue \/ StartJob \/ FinishJob \/ ForgetJob PROVE LeftTold'
  <2>1. UNCHANGED <<task, admin>> /\ incidents \subseteq incidents'
    BY <1>1, <1>12, Starting, Finishing DEF IterationDue, ForgetJob
  <2>2. extra' = "waiting" => extra = "waiting"
    BY <1>1, <1>12 DEF IterationDue, StartJob, FinishJob, ForgetJob
  <2>3. Leftover' => Leftover
    <3>1. left' = left \/ (left > 0 /\ left' = left - 1)
      BY <1>12 DEF IterationDue, StartJob, FinishJob, ForgetJob
    <3> QED BY <3>1 DEF Leftover
  <2>5. (Removes' => Removes) /\ (RunsNow' => RunsNow)
    BY <2>1 DEF Removes, RunsNow, Asks, Is
  <2> QED BY <2>1, <2>2, <2>3, <2>5, LeftToldStays
<1>13. ASSUME NEW l \in Listener, FindTask(l) \/ TellStatus(l) PROVE LeftTold'
  <2>1. UNCHANGED <<left, extra, admin, incidents>> /\ task'.deleted = task.deleted
    BY <1>1, <1>13, Finding, Telling DEF jobs
  <2>4. (Leftover' => Leftover) /\ (extra' = "waiting" => extra = "waiting")
    BY <2>1 DEF Leftover
  <2>5. (Removes' => Removes) /\ (RunsNow' => RunsNow)
    BY <2>1 DEF Removes, RunsNow, Asks, Is
  <2> QED BY <2>1, <2>4, <2>5, LeftToldStays
<1>14. CASE TaskDeath
  <2>1. {"death"} \in incidents'
    BY <1>1, <1>14, Happening DEF TaskDeath, TaskShapes
  <2> QED BY <1>3, <2>1 DEF LeftTold
<1>15. CASE UNCHANGED taskVars
  <2>1. UNCHANGED <<left, extra, admin, incidents, task>>
    BY <1>15 DEF taskVars, jobs
  <2>4. (Leftover' => Leftover) /\ (extra' = "waiting" => extra = "waiting")
    BY <2>1 DEF Leftover
  <2>5. (Removes' => Removes) /\ (RunsNow' => RunsNow)
    BY <2>1 DEF Removes, RunsNow, Asks, Is
  <2> QED BY <2>1, <2>4, <2>5, LeftToldStays
<1> QED BY <1>6, <1>7, <1>8, <1>9, <1>10, <1>11, <1>12, <1>13, <1>14, <1>15 DEF TaskNext

-----------------------------------------------------------------------------
(* Nothing is left shown as running. *)

Overtakings == {{"death"}, {"late"}, {"forced"}, {"update", "run"}, {"edit", "run"}}

Writers == {"update", "edit"}

RunAlone ==
    /\ Running \/ Hearing # {} => ~Asks(Writers)
    /\ \A l, m \in Hearing : l = m

\* What shows RUNNING runs, or a listener is about to tell otherwise; a
\* listener that is to tell it hears of a run that goes on; and no request
\* has read it that writes back what it read.
ShownRunning ==
    Clear(Overtakings) =>
      /\ Present /\ task.status = "RUNNING" => Running \/ Hearing # {}
      /\ \A l \in Listener : listener[l].event = "active" => Running
      /\ \A a \in Admin : Is(a, Writers) => admin[a].read # "RUNNING"

LEMMA RunsApart == Basics /\ Clear(Overtakings) => RunAlone
<1> SUFFICES ASSUME Basics, Clear(Overtakings) PROVE RunAlone
  OBVIOUS
<1>1. ASSUME Running \/ Hearing # {}, NEW a \in Admin, Is(a, Writers) PROVE FALSE
  <2>1. {admin[a].op, "run"} \in incidents
    BY <1>1 DEF Basics, TaskMeetings, Working, Is, Writers
  <2> QED BY <1>1, <2>1 DEF Is, Writers, Clear, Among, Overtakings
<1>2. \A l, m \in Hearing : l = m
  BY DEF Basics, TaskMeetings, Clear, Among, Overtakings
<1> QED BY <1>1, <1>2 DEF RunAlone, Asks

LEMMA ShownRunningKept ==
    Basics /\ Basics' /\ ShownRunning /\ [TaskNext]_taskVars => ShownRunning'
<1> SUFFICES ASSUME Basics, Basics', ShownRunning, [TaskNext]_taskVars, Clear(Overtakings)'
             PROVE  ShownRunning'
  BY DEF ShownRunning
<1>1. RunAlone'
  BY RunsApart, PTL
<1>2. incidents \subseteq incidents' => Clear(Overtakings)
  BY DEF Clear, Among
<1>3. /\ {"death"} \notin incidents' /\ {"late"} \notin incidents'
      /\ {"forced"} \notin incidents'
  BY DEF Clear, Among, Overtakings
<1>4. TaskShapes
  BY DEF Basics
<1>5. ASSUME NEW a \in Admin, Create(a) PROVE ShownRunning'
  <2>1. /\ ~task.exists /\ ~task.deleted /\ task' = [task EXCEPT !.exists = TRUE]
        /\ Begin(a, "create", "adding", {})
    BY <1>4, <1>5, Creating
  <2>2. task'.status # "RUNNING"
    <3>1. task'.status = task.status
      BY <2>1, <1>4 DEF TaskShapes, TaskTypeOK
    <3>2. ~task.exists /\ ~task.deleted /\ NotYet
      BY <2>1 DEF Basics
    <3>3. task.status = "SCHEDULED"
      BY <3>2 DEF NotYet
    <3> QED BY <3>1, <3>3
  <2>3. /\ JobsKept /\ UNCHANGED listener /\ Others(a) /\ incidents \subseteq incidents'
        /\ admin'[a].op = "create"
    BY <2>1, <1>4, Beginning DEF Op, At
  <2> QED BY <2>2, <2>3, <1>2 DEF ShownRunning, Running, Is, Writers, Others, JobsKept
<1>6. ASSUME NEW a \in Admin, AskTask(a) PROVE ShownRunning'
  <2>1. PICK what \in Op, at \in At : what # "none" /\ \E kinds : Begin(a, what, at, kinds)
    BY <1>4, <1>6, Asking
  <2>2. Present /\ UNCHANGED task
    BY <1>4, <1>6, Asking
  <2>3. /\ admin'[a].op = what /\ admin'[a].read = task.status /\ UNCHANGED listener
        /\ Others(a) /\ JobsKept /\ incidents \subseteq incidents'
    BY <2>1, <1>4, Beginning
  <2>4. Running' = Running /\ Hearing' = Hearing
    BY <2>3 DEF Running, Hearing, JobsKept
  <2>5. what \in Writers => task.status # "RUNNING"
    <3>1. what \in Writers => ~(Running \/ Hearing # {})
      BY <2>3, <2>4, <1>1 DEF RunAlone, Asks, Is
    <3> QED BY <3>1, <2>2, <2>3, <1>2 DEF ShownRunning
  <2> QED BY <2>2, <2>3, <2>4, <2>5, <1>2 DEF ShownRunning, Present, Is, Others
<1>7. ASSUME NEW a \in Admin, AskQueue(a) PROVE ShownRunning'
  <2>1. UNCHANGED task
    BY <1>4, <1>7, AskingQueue
  <2>2. /\ admin'[a].op \in {"pause queue", "resume queue"}
        /\ Others(a) /\ JobsKept /\ UNCHANGED listener /\ incidents \subseteq incidents'
    <3>1. {"pause queue", "resume queue"} \subseteq Op /\ "pausing" \in At
      BY DEF Op, At
    <3> QED BY <3>1, <1>4, <1>7, AskingQueue, Beginning
  <2>3. Running' = Running /\ Hearing' = Hearing
    BY <2>2 DEF Running, Hearing, JobsKept
  <2> QED BY <2>1, <2>2, <2>3, <1>2 DEF ShownRunning, Present, Is, Others, Writers
<1>8. ASSUME NEW a \in Admin,
             RemoveJob(a) \/ AddJob(a) \/ AddFails(a) \/ RunNow(a) \/ PauseQueue(a) \/ RollBack(a)
      PROVE  ShownRunning'
  <2>1. /\ UNCHANGED <<ticking, listener>>
        /\ own = "active" => own' = "active"
        /\ extra = "active" => extra' = "active"
    BY <1>8 DEF RemoveJob, AddJob, AddFails, RunNow, PauseQueue, RollBack, jobs
  <2>0. incidents \subseteq incidents'
    <3>1. CASE RemoveJob(a)
      BY <3>1, <1>4, Removing
    <3>2. CASE ~RemoveJob(a)
      BY <3>2, <1>8, <1>4, Happening DEF AddJob, AddFails, RunNow, PauseQueue, RollBack, TaskShapes
    <3> QED BY <3>1, <3>2
  <2>2. task' = task \/ ~Present'
    BY <1>8, <1>4 DEF RemoveJob, AddJob, AddFails, RunNow, PauseQueue, RollBack, Present, TaskShapes,
                      TaskTypeOK
  <2>3. \A b \in Admin :
          \/ admin'[b].op = "none"
          \/ admin'[b].op = admin[b].op /\ admin'[b].read = admin[b].read
    <3>1. \/ Rest(a)
          \/ \E at \in At : GoTo(a, at)
      BY <1>8 DEF RemoveJob, AddJob, AddFails, RunNow, PauseQueue, RollBack, At
    <3>2. CASE Rest(a)
      BY <3>2, <1>4, Ending DEF Others
    <3>3. ASSUME NEW at \in At, GoTo(a, at)
          PROVE  \A b \in Admin : admin'[b].op = admin[b].op /\ admin'[b].read = admin[b].read
      BY <3>3, <1>4, Going DEF Others
    <3> QED BY <3>1, <3>2, <3>3
  <2>4. Hearing' = Hearing /\ (Running => Running')
    BY <2>1 DEF Hearing, Running
  <2> QED BY <2>0, <2>1, <2>2, <2>3, <2>4, <1>2 DEF ShownRunning, Present, Is, Writers
<1>9. ASSUME NEW a \in Admin, WriteRow(a) PROVE ShownRunning'
  <2>1. /\ UNCHANGED <<own, extra, ticking, listener, incidents>> /\ Rest(a)
    BY <1>9 DEF WriteRow, jobs
  <2>2. /\ admin'[a].op = "none" /\ Others(a)
    BY <2>1, <1>4, Ending
  <2>3. Hearing' = Hearing /\ Running' = Running
    BY <2>1 DEF Hearing, Running
  <2>4. Present' /\ task'.status = "RUNNING" => Present /\ task.status = "RUNNING"
    BY <1>9, <1>2, <2>1, RowWritten DEF ShownRunning, Present, Is, Writers
  <2> QED BY <2>1, <2>2, <2>3, <2>4, <1>2 DEF ShownRunning, Is, Others, Writers
<1>10. ASSUME NEW a \in Admin, ForceStatus(a) PROVE ShownRunning'
  BY <1>10, <1>3, <1>4, Happening DEF ForceStatus, TaskShapes
<1>11. CASE StartJob
  <2>1. /\ Running' /\ UNCHANGED <<task, admin>> /\ incidents \subseteq incidents'
    BY <1>11, <1>4, Starting
  <2> QED BY <2>1, <1>2 DEF ShownRunning, Is
<1>12. CASE FinishJob
  <2>1. /\ UNCHANGED <<task, admin>> /\ incidents \subseteq incidents'
        /\ Hearing # {} => {"late"} \in incidents'
    BY <1>12, <1>4, Finishing
  <2>2. PICK l \in Listener :
          /\ listener'[l].event \in {"completed", "failed"}
          /\ \A m \in Listener : m # l => listener'[m] = listener[m]
    BY <1>12, <1>4, Finishing
  <2>3. Hearing = {} /\ l \in Hearing'
    BY <2>1, <2>2, <1>3 DEF Hearing
  <2> QED BY <2>1, <2>2, <2>3, <1>2 DEF ShownRunning, Is, Hearing
<1>13. CASE ForgetJob \/ IterationDue
  <2>1. /\ UNCHANGED <<task, admin, listener, incidents, ticking, extra>>
        /\ own' = "active" <=> own = "active"
    BY <1>13 DEF ForgetJob, IterationDue
  <2> QED BY <2>1, <1>2 DEF ShownRunning, Is, Present, Running, Hearing
<1>14. ASSUME NEW l \in Listener, FindTask(l) PROVE ShownRunning'
  <2>1. /\ UNCHANGED <<task, own, extra, ticking, admin, incidents>>
        /\ listener'[l].event \in {"none", listener[l].event}
        /\ listener'[l].event = "none" => ~Present \/ task.status = "PAUSED"
        /\ \A m \in Listener : m # l => listener'[m] = listener[m]
    <3>1. listener[l].event # "none"
      BY <1>14, <1>4, Finding DEF Basics, Stages
    <3> QED BY <3>1, <1>14, <1>4, Finding DEF jobs
  <2>2. Running' = Running
    BY <2>1 DEF Running
  <2>3. Present /\ task.status = "RUNNING" => (Hearing # {} => Hearing' # {})
    BY <2>1 DEF Hearing
  <2> QED BY <2>1, <2>2, <2>3, <1>2 DEF ShownRunning, Is, Present
<1>15. ASSUME NEW l \in Listener, TellStatus(l) PROVE ShownRunning'
  <2>1. /\ UNCHANGED <<own, extra, ticking, admin, incidents>>
        /\ listener[l].at = "writing" /\ listener'[l].event = "none"
        /\ \A m \in Listener : m # l => listener'[m] = listener[m]
        /\ Present' => Present /\ task'.status = Told(listener[l].event)
    BY <1>15, <1>4, Telling DEF jobs, Present
  <2>2. Running' = Running
    BY <2>1 DEF Running
  <2>3. task'.status = "RUNNING" /\ Present' => listener[l].event = "active"
    BY <2>1 DEF Told
  <2> QED BY <2>1, <2>2, <2>3, <1>2 DEF ShownRunning, Is
<1>16. CASE TaskDeath
  BY <1>16, <1>3, <1>4, Happening DEF TaskDeath, TaskShapes
<1>17. CASE UNCHANGED taskVars
  BY <1>17, <1>2 DEF taskVars, jobs, ShownRunning, Running, Hearing, Present, Is
<1> QED BY <1>5, <1>6, <1>7, <1>8, <1>9, <1>10, <1>11, <1>12, <1>13, <1>14, <1>15, <1>16, <1>17
        DEF TaskNext

-----------------------------------------------------------------------------
(* A paused task does not run by itself. *)

PauseAlone ==
    \A a, b \in Admin :
      /\ Is(a, {"pause"}) => ~Is(b, Schedules)
      /\ Is(a, {"edit"}) => ~Is(b, {"update", "resume", "resume queue"})
      /\ Is(a, {"pause queue"}) => ~Is(b, {"resume queue"})

\* A job will start by itself, or a request is going to see to it.
Wanted == JobOn \/ Asks({"create", "update"})

\* What shows PAUSED and is wanted waits for the queue, or for a request that
\* is about to write SCHEDULED.
PausedWaits ==
    Present /\ task.status = "PAUSED" /\ Wanted =>
      \/ queue = "paused"
      \/ \E a \in Admin : Doing(a, "resume queue", "writing") \/ Doing(a, "resume", "writing")

PausedOff ==
    Clear(Reschedules) =>
      /\ PausedWaits
      /\ \A a \in Admin : Is(a, {"edit"}) /\ admin[a].read = "PAUSED" /\ Wanted => queue = "paused"
      /\ \A a \in Admin : Is(a, {"update"}) => admin[a].read # "PAUSED"
      /\ \A a \in Admin : Doing(a, "pause", "writing") => ~JobOn
      /\ \A a \in Admin : Doing(a, "pause queue", "writing") => queue = "paused"

LEMMA PausesApart == Basics /\ Clear(Reschedules) => PauseAlone
<1> SUFFICES ASSUME Basics, Clear(Reschedules), NEW a \in Admin, NEW b \in Admin
             PROVE  /\ Is(a, {"pause"}) => ~Is(b, Schedules)
                    /\ Is(a, {"edit"}) => ~Is(b, {"update", "resume", "resume queue"})
                    /\ Is(a, {"pause queue"}) => ~Is(b, {"resume queue"})
  BY DEF PauseAlone
<1>1. a # b /\ admin[a].op # "none" /\ admin[b].op # "none" =>
        {admin[a].op, admin[b].op} \in incidents /\ {admin[b].op, admin[a].op} \in incidents
  BY DEF Basics, TaskMeetings, Working
<1>2. /\ {"create", "pause"} \notin incidents /\ {"update", "pause"} \notin incidents
      /\ {"pause", "resume"} \notin incidents /\ {"edit", "update"} \notin incidents
      /\ {"edit", "resume"} \notin incidents /\ {"edit", "resume queue"} \notin incidents
      /\ {"pause queue", "resume queue"} \notin incidents
  BY DEF Clear, Among, Reschedules
<1>3. Is(a, {"pause"}) => ~Is(b, Schedules)
  BY <1>1, <1>2 DEF Is, Schedules
<1>4. Is(a, {"edit"}) => ~Is(b, {"update", "resume", "resume queue"})
  BY <1>1, <1>2 DEF Is
<1>5. Is(a, {"pause queue"}) => ~Is(b, {"resume queue"})
  BY <1>1, <1>2 DEF Is
<1> QED BY <1>3, <1>4, <1>5

LEMMA PausedOffKept ==
    Basics /\ Basics' /\ PausedOff /\ [TaskNext]_taskVars => PausedOff'
<1> SUFFICES ASSUME Basics, Basics', PausedOff, [TaskNext]_taskVars, Clear(Reschedules)'
             PROVE  PausedOff'
  BY DEF PausedOff
<1>1. PauseAlone'
  BY PausesApart, PTL
<1>2. incidents \subseteq incidents' => Clear(Reschedules)
  BY DEF Clear, Among
<1>3. /\ {"death"} \notin incidents' /\ {"redis"} \notin incidents'
      /\ {"forced"} \notin incidents'
  BY DEF Clear, Among, Reschedules, Broken
<1>4. TaskShapes
  BY DEF Basics
<1>5. ASSUME NEW a \in Admin, Create(a) PROVE PausedOff'
  <2>1. /\ ~task.exists /\ ~task.deleted /\ task' = [task EXCEPT !.exists = TRUE]
        /\ Begin(a, "create", "adding", {})
    BY <1>4, <1>5, Creating
  <2>2. task'.status # "PAUSED"
    <3>1. task'.status = task.status
      BY <2>1, <1>4 DEF TaskShapes, TaskTypeOK
    <3>2. ~task.exists /\ ~task.deleted /\ NotYet
      BY <2>1 DEF Basics
    <3>3. task.status = "SCHEDULED"
      BY <3>2 DEF NotYet
    <3> QED BY <3>1, <3>3
  <2>3. /\ JobsKept /\ Others(a) /\ incidents \subseteq incidents'
        /\ admin'[a].op = "create"
    BY <2>1, <1>4, Beginning DEF Op, At
  <2>4. \A b \in Admin : Is(b, {"none", "pause queue", "resume queue"})
    <3>1. ~task.exists /\ ~task.deleted /\ NotYet
      BY <2>1 DEF Basics
    <3> QED BY <3>1 DEF NotYet
  <2> QED BY <2>2, <2>3, <2>4, <1>2 DEF PausedOff, PausedWaits, Is, Others, JobsKept, Doing
<1>6. ASSUME NEW a \in Admin, AskTask(a) PROVE PausedOff'
  <2>1. PICK what \in Op, at \in At :
          /\ what # "none" /\ \E kinds : Begin(a, what, at, kinds)
          /\ \/ what = "update" /\ task.status # "PAUSED"
             \/ what = "edit"
             \/ what = "pause" /\ at = (IF task.jobId THEN "removing" ELSE "writing")
             \/ what = "resume" /\ task.status = "PAUSED" /\ at = "adding"
             \/ what = "remove"
             \/ what = "run now"
    BY <1>4, <1>6, Asking
  <2>2. Present /\ UNCHANGED task
    BY <1>4, <1>6, Asking
  <2>3. /\ admin[a].op = "none"
        /\ admin'[a].op = what /\ admin'[a].read = task.status /\ admin'[a].at = at
        /\ Others(a) /\ JobsKept /\ incidents \subseteq incidents'
    BY <2>1, <1>4, Beginning
  <2>4. JobOn' = JobOn /\ queue' = queue /\ Present' = Present /\ UNCHANGED task
    BY <2>2, <2>3 DEF JobOn, JobsKept, Present
  <2>5. Wanted' => Wanted \/ what = "update"
    BY <2>1, <2>3, <2>4 DEF Wanted, Asks, Is, Others
  <2>6. \A b \in Admin, o \in Op, s \in At : Doing(b, o, s) => Doing(b, o, s)' \/ o = "none"
    BY <2>3 DEF Doing, Others
  <2>7. PausedWaits'
    <3>1. SUFFICES ASSUME Present, task.status = "PAUSED", Wanted' PROVE PausedWaits'
      BY <2>4 DEF PausedWaits
    <3>2. Wanted
      BY <3>1, <2>1, <2>5
    <3>3. CASE queue = "paused"
      BY <3>3, <2>4 DEF PausedWaits
    <3>4. ASSUME NEW b \in Admin, Doing(b, "resume queue", "writing") \/ Doing(b, "resume", "writing")
          PROVE  PausedWaits'
      <4>1. b # a
        BY <3>4, <2>3 DEF Doing
      <4> QED BY <3>4, <4>1, <2>3 DEF PausedWaits, Doing, Others
    <3> QED BY <3>1, <3>2, <3>3, <3>4, <2>3, <1>2 DEF PausedOff, PausedWaits
  <2>8. ASSUME NEW b \in Admin, Is(b, {"edit"})', admin'[b].read = "PAUSED", Wanted'
        PROVE  queue' = "paused"
    <3>1. what # "update" /\ Wanted
      BY <2>8, <2>3, <2>5, <1>1 DEF PauseAlone, Is
    <3>2. CASE b # a
      BY <3>1, <3>2, <2>8, <2>3, <2>4, <1>2 DEF PausedOff, Is, Others
    <3>3. CASE b = a
      <4>1. task.status = "PAUSED" /\ what = "edit"
        BY <3>3, <2>8, <2>3 DEF Is
      <4>2. \A c \in Admin : ~Is(c, {"resume queue", "resume"})
        BY <4>1, <2>3, <1>1 DEF PauseAlone, Is, Others
      <4> QED BY <3>1, <4>1, <4>2, <2>2, <2>3, <2>4, <1>2 DEF PausedOff, PausedWaits, Is, Doing
    <3> QED BY <3>2, <3>3
  <2>9. \A b \in Admin : Is(b, {"update"})' => admin'[b].read # "PAUSED"
    BY <2>1, <2>3, <1>2 DEF PausedOff, Is, Others
  <2>10. ASSUME NEW b \in Admin, Doing(b, "pause", "writing")' PROVE ~JobOn'
    <3>1. CASE b # a
      BY <3>1, <2>10, <2>3, <2>4, <1>2 DEF PausedOff, Doing, Others
    <3>2. CASE b = a
      <4>1. what = "pause" /\ ~task.jobId
        BY <3>2, <2>10, <2>1, <2>3 DEF Doing
      <4>2. Asks({"create"})
        BY <4>1, <2>2, <2>3, <1>3 DEF Basics, PlacedJob, Clear, Among
      <4>3. PICK c \in Admin : Is(c, {"create"})
        BY <4>2 DEF Asks
      <4>4. Is(c, Schedules)' /\ Is(a, {"pause"})'
        BY <4>1, <4>3, <2>3 DEF Is, Others, Schedules
      <4> QED BY <4>4, <1>1 DEF PauseAlone
    <3> QED BY <3>1, <3>2
  <2>11. \A b \in Admin : Doing(b, "pause queue", "writing")' => queue' = "paused"
    BY <2>1, <2>3, <2>4, <1>2 DEF PausedOff, Doing, Others
  <2> QED BY <2>7, <2>8, <2>9, <2>10, <2>11 DEF PausedOff
<1>7. ASSUME NEW a \in Admin, AskQueue(a) PROVE PausedOff'
  <2>1. UNCHANGED task
    BY <1>4, <1>7, AskingQueue
  <2>2. /\ admin'[a].op \in {"pause queue", "resume queue"} /\ admin'[a].at = "pausing"
        /\ admin[a].op = "none"
        /\ Others(a) /\ JobsKept /\ incidents \subseteq incidents'
    <3>1. {"pause queue", "resume queue"} \subseteq Op /\ "pausing" \in At
      BY DEF Op, At
    <3> QED BY <3>1, <1>4, <1>7, AskingQueue, Beginning
  <2>3. Wanted' => Wanted
    BY <2>2 DEF Wanted, JobOn, JobsKept, Asks, Is, Others
  <2>4. PausedWaits'
    <3>1. \A b \in Admin : Doing(b, "resume queue", "writing") \/ Doing(b, "resume", "writing")
            => Doing(b, "resume queue", "writing")' \/ Doing(b, "resume", "writing")'
      BY <2>2 DEF Doing, Others
    <3> QED BY <2>1, <2>2, <2>3, <3>1, <1>2 DEF PausedOff, PausedWaits, Present, JobsKept
  <2> QED BY <2>2, <2>3, <2>4, <1>2 DEF PausedOff, Is, Others, Doing, JobOn, JobsKept
<1>8. ASSUME NEW a \in Admin, RemoveJob(a) PROVE PausedOff'
  <2>1. /\ IF type = "CRON"
           THEN scheduler' = "none" /\ UNCHANGED own
           ELSE own' = (IF own = "active" THEN own ELSE "none") /\ UNCHANGED scheduler
        /\ GoTo(a, IF admin[a].op = "update" THEN "adding" ELSE "writing")
        /\ admin[a].at = "removing"
        /\ UNCHANGED <<task, queue>> /\ incidents \subseteq incidents'
    BY <1>8, <1>3, <1>4, Removing
  <2>2. ~JobOn'
    BY <2>1, <1>4 DEF JobOn, TaskShapes, TaskTypeOK
  <2>3. /\ \A b \in Admin : admin'[b].op = admin[b].op /\ admin'[b].read = admin[b].read
        /\ Others(a)
    BY <2>1, <1>4 DEF GoTo, TaskShapes, Others
  <2>4. Wanted' => Wanted
    BY <2>2, <2>3 DEF Wanted, Asks, Is
  <2>5. PausedWaits'
    <3>1. \A b \in Admin : Doing(b, "resume queue", "writing") \/ Doing(b, "resume", "writing")
            => Doing(b, "resume queue", "writing")' \/ Doing(b, "resume", "writing")'
      BY <2>1, <2>3 DEF Doing, Others
    <3> QED BY <2>1, <2>4, <3>1, <1>2 DEF PausedOff, PausedWaits, Present
  <2>6. \A b \in Admin : Doing(b, "pause queue", "writing")' => Doing(b, "pause queue", "writing")
    <3>1. ~Is(a, {"pause queue"})
      BY <2>1 DEF Basics, Stages, Is
    <3> QED BY <3>1, <2>3 DEF Doing, Others, Is
  <2> QED BY <2>1, <2>2, <2>3, <2>4, <2>5, <2>6, <1>2 DEF PausedOff, Is, Doing
<1>9. ASSUME NEW a \in Admin, AddJob(a) PROVE PausedOff'
  <2>1. /\ admin[a].at = "adding" /\ admin[a].op # "run now" /\ GoTo(a, "writing")
        /\ "writing" \in At
        /\ UNCHANGED <<task, queue, incidents>>
    BY <1>9 DEF AddJob, At
  <2>2. /\ \A b \in Admin : admin'[b].op = admin[b].op /\ admin'[b].read = admin[b].read
        /\ admin'[a].at = "writing" /\ Others(a)
    BY <2>1, <1>4, Going DEF Others
  <2>3. Is(a, Schedules)
    BY <2>1, <1>4 DEF Basics, Stages, Is, Schedules, TaskShapes, Op
  <2>4. PauseAlone
    BY <2>1, <1>2, PausesApart
  <2>5. PausedWaits'
    <3>1. CASE Is(a, {"resume"})
      BY <3>1, <2>2 DEF PausedWaits, Doing, Is
    <3>2. CASE Is(a, {"create", "update"})
      <4>1. Wanted
        BY <3>2 DEF Wanted, Asks
      <4>2. \A b \in Admin : Doing(b, "resume queue", "writing") \/ Doing(b, "resume", "writing")
              => Doing(b, "resume queue", "writing")' \/ Doing(b, "resume", "writing")'
        BY <2>1, <2>2 DEF Doing, Others
      <4> QED BY <2>1, <4>1, <4>2, <1>2 DEF PausedOff, PausedWaits, Present
    <3> QED BY <2>3, <3>1, <3>2 DEF Is, Schedules
  <2>6. ASSUME NEW b \in Admin, Is(b, {"edit"}), admin[b].read = "PAUSED" PROVE queue = "paused"
    <3>1. Is(a, {"create"})
      BY <2>6, <2>3, <2>4 DEF PauseAlone, Is, Schedules
    <3>2. Wanted
      BY <3>1 DEF Wanted, Asks, Is
    <3> QED BY <2>6, <3>2, <2>1, <1>2 DEF PausedOff
  <2>7. \A b \in Admin : ~Doing(b, "pause", "writing")'
    BY <2>2, <2>3, <2>4 DEF PauseAlone, Is, Doing
  <2>8. \A b \in Admin : Doing(b, "pause queue", "writing")' => Doing(b, "pause queue", "writing")
    BY <2>2, <2>3 DEF Doing, Others, Is, Schedules
  <2> QED BY <2>1, <2>2, <2>5, <2>6, <2>7, <2>8, <1>2 DEF PausedOff, Is
<1>10. ASSUME NEW a \in Admin, AddFails(a) \/ RollBack(a) PROVE PausedOff'
  <2>1. {"redis"} \in incidents'
    BY <1>10, <1>4, Happening DEF AddFails, RollBack, Doing, Basics, Stages, TaskShapes
  <2> QED BY <2>1, <1>3
<1>11. ASSUME NEW a \in Admin, RunNow(a) PROVE PausedOff'
  <2>1. /\ UNCHANGED <<task, scheduler, own, queue, incidents>> /\ Rest(a)
        /\ admin[a].op = "run now"
    BY <1>11 DEF RunNow, Doing
  <2>2. /\ admin'[a].op = "none" /\ Others(a)
    BY <2>1, <1>4, Ending
  <2>3. Wanted' => Wanted
    BY <2>1, <2>2 DEF Wanted, JobOn, Asks, Is, Others
  <2>4. PausedWaits'
    <3>1. \A b \in Admin : Doing(b, "resume queue", "writing") \/ Doing(b, "resume", "writing")
            => Doing(b, "resume queue", "writing")' \/ Doing(b, "resume", "writing")'
      BY <2>1, <2>2 DEF Doing, Others
    <3> QED BY <2>1, <2>3, <3>1, <1>2 DEF PausedOff, PausedWaits, Present
  <2> QED BY <2>1, <2>2, <2>3, <2>4, <1>2 DEF PausedOff, Is, Others, Doing, JobOn
<1>12. ASSUME NEW a \in Admin, PauseQueue(a) PROVE PausedOff'
  <2>1. /\ UNCHANGED <<task, scheduler, own, incidents>> /\ GoTo(a, "writing")
        /\ admin[a].at = "pausing" /\ "writing" \in At
        /\ queue' = IF admin[a].op = "pause queue" THEN "paused" ELSE "open"
    BY <1>12 DEF PauseQueue, At
  <2>2. Is(a, {"pause queue", "resume queue"})
    BY <2>1, <1>4 DEF Basics, Stages, Is, TaskShapes, Op
  <2>3. /\ \A b \in Admin : admin'[b].op = admin[b].op /\ admin'[b].read = admin[b].read
        /\ admin'[a].at = "writing" /\ Others(a)
    BY <2>1, <1>4, Going DEF Others
  <2>4. PauseAlone
    BY <2>1, <1>2, PausesApart
  <2>5. Wanted' <=> Wanted
    BY <2>1, <2>3 DEF Wanted, JobOn, Asks, Is
  <2>6. PausedWaits'
    BY <2>1, <2>2, <2>3 DEF PausedWaits, Doing, Is
  <2>7. ASSUME NEW b \in Admin, Is(b, {"edit"}), admin[b].read = "PAUSED", Wanted
        PROVE  queue' = "paused"
    BY <2>7, <2>1, <2>2, <2>4 DEF PauseAlone, Is
  <2>8. ASSUME NEW b \in Admin, Doing(b, "pause queue", "writing")' PROVE queue' = "paused"
    <3>1. Is(b, {"pause queue"})
      BY <2>8, <2>3 DEF Is, Doing
    <3> QED BY <3>1, <2>1, <2>2, <2>4 DEF PauseAlone, Is
  <2>9. ASSUME NEW b \in Admin, Doing(b, "pause", "writing")' PROVE ~JobOn'
    BY <2>9, <2>1, <2>2, <2>3, <1>2 DEF PausedOff, JobOn, Is, Doing, Others
  <2> QED BY <2>3, <2>5, <2>6, <2>7, <2>8, <2>9, <1>2, <2>1 DEF PausedOff, Is
<1>13. ASSUME NEW a \in Admin, WriteRow(a) PROVE PausedOff'
  <2>1. /\ UNCHANGED <<scheduler, own, queue, incidents>> /\ Rest(a) /\ admin[a].at = "writing"
    BY <1>13 DEF WriteRow, jobs
  <2>2. /\ admin'[a].op = "none" /\ Others(a)
    BY <2>1, <1>4, Ending
  <2>3. Wanted' => Wanted
    BY <2>1, <2>2 DEF Wanted, JobOn, Asks, Is, Others
  <2>4. PauseAlone
    BY <2>1, <1>2, PausesApart
  <2>5. PausedWaits'
    <3>1. SUFFICES ASSUME Present', task'.status = "PAUSED", Wanted, queue # "paused"
                   PROVE  PausedWaits'
      BY <2>1, <2>3 DEF PausedWaits
    <3>2. /\ Present
          /\ task'.status =
                CASE Is(a, {"update", "edit"}) -> admin[a].read
                  [] Is(a, {"pause"}) -> "PAUSED"
                  [] Is(a, {"resume"}) -> "SCHEDULED"
                  [] Is(a, {"pause queue"}) /\ task.status = "SCHEDULED" -> "PAUSED"
                  [] Is(a, {"resume queue"}) /\ task.status = "PAUSED" -> "SCHEDULED"
                  [] OTHER -> task.status
      BY <3>1, <1>13, RowWritten DEF Present
    <3>3. ~Is(a, {"update", "edit"})
      BY <3>1, <3>2, <2>1, <1>2 DEF PausedOff, Is
    <3>4. ~Is(a, {"pause"})
      BY <3>1, <2>1, <2>4, <1>2 DEF PausedOff, Is, Doing, Wanted, PauseAlone, Asks, Schedules
    <3>5. ~Is(a, {"pause queue"})
      BY <3>1, <2>1, <1>2 DEF PausedOff, Is, Doing
    <3>6. ~Is(a, {"resume", "resume queue"}) /\ task.status = "PAUSED"
      BY <3>1, <3>2, <3>3, <3>4, <3>5 DEF Is
    <3>7. PICK b \in Admin : Doing(b, "resume queue", "writing") \/ Doing(b, "resume", "writing")
      BY <3>1, <3>2, <3>6, <2>1, <1>2 DEF PausedOff, PausedWaits
    <3>8. b # a
      BY <3>6, <3>7 DEF Is, Doing
    <3> QED BY <3>7, <3>8, <2>2 DEF PausedWaits, Doing, Others
  <2> QED BY <2>1, <2>2, <2>3, <2>5, <1>2 DEF PausedOff, Is, Others, Doing, JobOn
<1>14. ASSUME NEW a \in Admin, ForceStatus(a) PROVE PausedOff'
  BY <1>14, <1>3, <1>4, Happening DEF ForceStatus, TaskShapes
<1>15. ASSUME IterationDue \/ StartJob \/ FinishJob \/ ForgetJob PROVE PausedOff'
  <2>1. /\ UNCHANGED <<task, queue, admin>> /\ (scheduler' # "none" => scheduler # "none")
        /\ (own' = "waiting" => own = "waiting")
        /\ incidents \subseteq incidents'
    BY <1>15, <1>4, Starting, Finishing DEF IterationDue, ForgetJob
  <2>2. Wanted' => Wanted
    BY <2>1 DEF Wanted, JobOn, Asks, Is
  <2> QED BY <2>1, <2>2, <1>2 DEF PausedOff, PausedWaits, Present, JobOn, Is, Doing
<1>16. ASSUME NEW l \in Listener, FindTask(l) \/ TellStatus(l) PROVE PausedOff'
  <2>1. /\ UNCHANGED <<scheduler, own, queue, admin, incidents>>
        /\ Present' /\ task'.status = "PAUSED" => Present /\ task.status = "PAUSED"
    BY <1>16, <1>4, Finding, Telling DEF jobs, Present, Told
  <2>2. Wanted' => Wanted
    BY <2>1 DEF Wanted, JobOn, Asks, Is
  <2> QED BY <2>1, <2>2, <1>2 DEF PausedOff, PausedWaits, JobOn, Is, Doing
<1>17. CASE TaskDeath
  BY <1>17, <1>3, <1>4, Happening DEF TaskDeath, TaskShapes
<1>18. CASE UNCHANGED taskVars
  BY <1>18, <1>2 DEF taskVars, jobs, PausedOff, PausedWaits, Wanted, JobOn, Present, Asks, Is, Doing
<1> QED BY <1>5, <1>6, <1>7, <1>8, <1>9, <1>10, <1>11, <1>12, <1>13, <1>14, <1>15, <1>16, <1>17, <1>18
        DEF TaskNext

-----------------------------------------------------------------------------
(* What shows SCHEDULED will run. *)

Unsettled == {"pause", "edit", "resume"}

ChangeAlone ==
    /\ Running \/ Hearing # {} => ~Asks(Unsettled)
    /\ \A a, b \in Admin :
         Is(a, {"pause"}) => ~Is(b, {"create", "update", "edit", "resume", "resume queue"})

\* The status of a task whose run has not begun.
Awaiting == {"SCHEDULED", "PAUSED"}

\* A request is about to put the job there, or to say that it is gone.
Pending ==
    \E a \in Admin :
      \/ Is(a, {"create", "update"}) /\ admin[a].at = "adding" /\ own = "none"
      \/ Doing(a, "pause", "writing")
      \/ Doing(a, "remove", "writing")

\* The row's word is good: a job will start by itself, or a request is going
\* to see to it; or the one run of the task has begun.
Sure == JobOn \/ Pending \/ (type = "ONCE" /\ (task.status \notin Awaiting \/ Hearing # {}))

\* A request that is going to write SCHEDULED, or that may.
Reliant(a) ==
    \/ Is(a, {"resume queue"})
    \/ Is(a, {"edit"}) /\ admin[a].read # "PAUSED"
    \/ Doing(a, "resume", "writing")
    \/ Doing(a, "update", "writing")

SureOrPaused == Present => Sure \/ (task.status = "PAUSED" /\ ~Running /\ Hearing = {})
SureToRely == Present => \A a \in Admin : Reliant(a) => Sure
PausedGone == \A a \in Admin : Doing(a, "pause", "writing") => ~JobOn /\ own = "none"

\* The one job of a task whose run has not begun has not begun, as long as
\* the listeners are silent, and neither has that of one read to be so.
OwnIdle ==
    type = "ONCE" /\ Present /\ task.status \in Awaiting =>
        own \in {"none", "waiting"} \/ Hearing # {}
ReadIdle ==
    \A a \in Admin : (Is(a, {"edit"}) /\ admin[a].read \in Awaiting) \/ Is(a, {"resume"}) =>
        own \in {"none", "waiting"}
ReadAwaiting ==
    type = "ONCE" /\ Present => \A a \in Admin :
        /\ Is(a, {"edit"}) => (admin[a].read \in Awaiting <=> task.status \in Awaiting)
        /\ Is(a, {"resume"}) => task.status \in Awaiting

ScheduledOn ==
    Clear(Unschedules) =>
      SureOrPaused /\ SureToRely /\ PausedGone /\ OwnIdle /\ ReadIdle /\ ReadAwaiting

LEMMA ChangesApart == Basics /\ Clear(Unschedules) => ChangeAlone
<1> SUFFICES ASSUME Basics, Clear(Unschedules) PROVE ChangeAlone
  OBVIOUS
<1>1. \A other \in Unsettled : {other, "run"} \notin incidents
  <2>1. \A other \in Unsettled : {other, "run"} \in Unschedules
    BY DEF Unschedules, Unsettled
  <2> QED BY <2>1 DEF Clear, Among
<1>2. ASSUME Running \/ Hearing # {}, NEW a \in Admin, Is(a, Unsettled) PROVE FALSE
  <2>1. {admin[a].op, "run"} \in incidents
    BY <1>2 DEF Basics, TaskMeetings, Working, Is, Unsettled
  <2> QED BY <1>1, <1>2, <2>1 DEF Is
<1>3. ASSUME NEW a \in Admin, NEW b \in Admin, Is(a, {"pause"}),
             Is(b, {"create", "update", "edit", "resume", "resume queue"})
      PROVE  FALSE
  <2>1. {admin[a].op, admin[b].op} \in incidents
    BY <1>3 DEF Basics, TaskMeetings, Working, Is
  <2>2. {"pause", admin[b].op} \in Unschedules
    BY <1>3 DEF Is, Unschedules
  <2> QED BY <1>3, <2>1, <2>2 DEF Is, Clear, Among
<1> QED BY <1>2, <1>3 DEF ChangeAlone, Asks

LEMMA ScheduledOnKept ==
    Basics /\ Basics' /\ ScheduledOn /\ [TaskNext]_taskVars => ScheduledOn'
<1> SUFFICES ASSUME Basics, Basics', ScheduledOn, [TaskNext]_taskVars, Clear(Unschedules)'
             PROVE  ScheduledOn'
  BY DEF ScheduledOn
<1>1. ChangeAlone'
  BY ChangesApart, PTL
<1>2. incidents \subseteq incidents' =>
        /\ ChangeAlone
        /\ SureOrPaused /\ SureToRely /\ PausedGone /\ OwnIdle /\ ReadIdle /\ ReadAwaiting
  <2>1. incidents \subseteq incidents' => Clear(Unschedules)
    BY DEF Clear, Among
  <2> QED BY <2>1, ChangesApart DEF ScheduledOn
<1>3. /\ {"death"} \notin incidents' /\ {"redis"} \notin incidents'
      /\ {"forced"} \notin incidents' /\ {"resumed queue"} \notin incidents'
      /\ {"pause", "run"} \notin incidents'
  BY DEF Clear, Among, Unschedules, Broken
<1>4. TaskShapes /\ TaskTypeOK
  BY DEF Basics, TaskShapes
<1>5. ASSUME NEW a \in Admin, Create(a) PROVE ScheduledOn'
  <2>1. /\ ~task.exists /\ ~task.deleted /\ Begin(a, "create", "adding", {})
    BY <1>4, <1>5, Creating
  <2>2. /\ JobsKept /\ Others(a) /\ incidents \subseteq incidents' /\ UNCHANGED type
        /\ admin'[a].op = "create" /\ admin'[a].at = "adding"
    BY <2>1, <1>4, Beginning DEF Op, At
  <2>3. /\ own = "none"
        /\ \A b \in Admin : Is(b, {"none", "pause queue", "resume queue"})
    BY <2>1 DEF Basics, NotYet, Queued
  <2>4. Pending'
    BY <2>2, <2>3 DEF Pending, Is, JobsKept
  <2>5. Sure'
    BY <2>4 DEF Sure
  <2>6. OwnIdle'
    BY <2>2, <2>3 DEF OwnIdle, JobsKept
  <2>7. ReadIdle' /\ PausedGone'
    BY <2>2, <2>3 DEF ReadIdle, PausedGone, Is, Doing, JobsKept, Others
  <2>8. ReadAwaiting'
    BY <2>2, <2>3 DEF ReadAwaiting, Is, Others
  <2> QED BY <2>5, <2>6, <2>7, <2>8 DEF ScheduledOn, SureOrPaused, SureToRely
<1>6. ASSUME NEW a \in Admin, AskTask(a) PROVE ScheduledOn'
  <2>1. PICK what \in Op, at \in At :
          /\ what # "none" /\ \E kinds : Begin(a, what, at, kinds)
          /\ \/ what = "update" /\ at \in {"removing", "adding"}
             \/ what = "edit"
             \/ what = "pause" /\ at = (IF task.jobId THEN "removing" ELSE "writing")
             \/ what = "resume" /\ task.status = "PAUSED" /\ at = "adding"
             \/ what = "remove"
             \/ what = "run now"
    BY <1>4, <1>6, Asking
  <2>2. Present /\ UNCHANGED task
    BY <1>4, <1>6, Asking
  <2>3. /\ admin[a].op = "none"
        /\ admin'[a].op = what /\ admin'[a].read = task.status /\ admin'[a].at = at
        /\ Others(a) /\ JobsKept /\ UNCHANGED <<type, listener>> /\ incidents \subseteq incidents'
    BY <2>1, <1>4, Beginning
  <2>4. /\ JobOn' = JobOn /\ Running' = Running /\ Hearing' = Hearing /\ Present'
    BY <2>2, <2>3 DEF JobOn, JobsKept, Running, Hearing, Present
  <2>5. Sure => Sure'
    <3>1. Pending => Pending'
      BY <2>3 DEF Pending, Is, Doing, Others, JobsKept
    <3> QED BY <3>1, <2>2, <2>3, <2>4 DEF Sure
  <2>6. SureOrPaused'
    BY <2>2, <2>3, <2>4, <2>5, <1>2 DEF SureOrPaused
  <2>7. SureToRely'
    <3>1. SUFFICES ASSUME NEW b \in Admin, Reliant(b)' PROVE Sure
      BY <2>5 DEF SureToRely
    <3>2. CASE b # a
      BY <3>1, <3>2, <2>2, <2>3, <1>2 DEF SureToRely, Reliant, Is, Doing, Others
    <3>3. CASE b = a
      <4>1. task.status # "PAUSED"
        BY <3>1, <3>3, <2>1, <2>3 DEF Reliant, Is, Doing
      <4> QED BY <4>1, <2>2, <2>3, <1>2 DEF SureOrPaused
    <3> QED BY <3>2, <3>3
  <2>8. PausedGone'
    <3>1. SUFFICES ASSUME NEW b \in Admin, Doing(b, "pause", "writing")'
                   PROVE  ~JobOn /\ own = "none"
      BY <2>3, <2>4 DEF PausedGone, JobsKept
    <3>2. CASE b # a
      BY <3>1, <3>2, <2>3, <1>2 DEF PausedGone, Doing, Others
    <3>3. CASE b = a
      <4>1. what = "pause" /\ ~task.jobId
        BY <3>1, <3>3, <2>1, <2>3 DEF Doing
      <4>2. Asks({"create"})
        BY <4>1, <2>2, <2>3, <1>3 DEF Basics, PlacedJob, Clear, Among
      <4>3. PICK c \in Admin : Is(c, {"create"})
        BY <4>2 DEF Asks
      <4>4. Is(c, {"create", "update", "edit", "resume", "resume queue"})' /\ Is(a, {"pause"})'
        BY <4>1, <4>3, <2>3 DEF Is, Others
      <4> QED BY <4>4, <1>1 DEF ChangeAlone
    <3> QED BY <3>2, <3>3
  <2>9. OwnIdle'
    BY <2>2, <2>3, <2>4, <1>2 DEF OwnIdle, JobsKept
  <2>10. ReadIdle'
    <3>1. SUFFICES ASSUME NEW b \in Admin,
                          (Is(b, {"edit"})' /\ admin'[b].read \in Awaiting) \/ Is(b, {"resume"})'
                   PROVE  own \in {"none", "waiting"}
      BY <2>3 DEF ReadIdle, JobsKept
    <3>2. CASE b # a
      BY <3>1, <3>2, <2>3, <1>2 DEF ReadIdle, Is, Others
    <3>3. CASE b = a
      <4>1. task.status \in Awaiting
        BY <3>1, <3>3, <2>1, <2>3 DEF Is, Awaiting
      <4>2. Hearing = {}
        BY <3>1, <2>3, <2>4, <1>1 DEF ChangeAlone, Asks, Is, Unsettled
      <4>3. type = "ONCE" => own \in {"none", "waiting"}
        BY <4>1, <4>2, <2>2, <2>3, <1>2 DEF OwnIdle
      <4> QED BY <4>3, <1>4 DEF TaskTypeOK
    <3> QED BY <3>2, <3>3
  <2>11. ReadAwaiting'
    <3>1. SUFFICES ASSUME type = "ONCE", NEW b \in Admin
                   PROVE  /\ Is(b, {"edit"})' => (admin'[b].read \in Awaiting <=> task.status \in Awaiting)
                          /\ Is(b, {"resume"})' => task.status \in Awaiting
      BY <2>2, <2>3 DEF ReadAwaiting
    <3>2. CASE b # a
      BY <3>1, <3>2, <2>2, <2>3, <1>2 DEF ReadAwaiting, Is, Others
    <3>3. CASE b = a
      BY <3>3, <2>1, <2>3 DEF Is, Awaiting
    <3> QED BY <3>2, <3>3
  <2> QED BY <2>6, <2>7, <2>8, <2>9, <2>10, <2>11 DEF ScheduledOn
<1>7. ASSUME NEW a \in Admin, AskQueue(a) PROVE ScheduledOn'
  <2>1. UNCHANGED task
    BY <1>4, <1>7, AskingQueue
  <2>2. PICK kinds : \E what \in {"pause queue", "resume queue"} :
          /\ Begin(a, what, "pausing", kinds)
          /\ what = "resume queue" /\ task.status = "PAUSED" /\ scheduler = "none" /\ own # "waiting"
               => {"resumed queue"} \in kinds
    BY <1>4, <1>7, AskingQueue
  <2>3. PICK what \in {"pause queue", "resume queue"} :
          /\ Begin(a, what, "pausing", kinds)
          /\ what = "resume queue" /\ task.status = "PAUSED" /\ scheduler = "none" /\ own # "waiting"
               => {"resumed queue"} \in kinds
    BY <2>2
  <2>4. /\ admin[a].op = "none"
        /\ admin'[a].op = what /\ admin'[a].at = "pausing"
        /\ Others(a) /\ JobsKept /\ UNCHANGED <<type, listener>> /\ incidents \subseteq incidents'
        /\ kinds \subseteq incidents'
    <3>1. what \in Op /\ "pausing" \in At
      BY DEF Op, At
    <3> QED BY <3>1, <2>3, <1>4, Beginning
  <2>5. /\ JobOn' = JobOn /\ Running' = Running /\ Hearing' = Hearing /\ Present' = Present
    BY <2>1, <2>4 DEF JobOn, JobsKept, Running, Hearing, Present
  <2>6. Sure => Sure'
    <3>1. Pending => Pending'
      BY <2>4 DEF Pending, Is, Doing, Others, JobsKept
    <3> QED BY <3>1, <2>1, <2>4, <2>5 DEF Sure
  <2>7. SureOrPaused'
    BY <2>1, <2>4, <2>5, <2>6, <1>2 DEF SureOrPaused
  <2>8. SureToRely'
    <3>1. SUFFICES ASSUME Present, NEW b \in Admin, Reliant(b)' PROVE Sure
      BY <2>5, <2>6 DEF SureToRely
    <3>2. CASE b # a
      BY <3>1, <3>2, <2>4, <1>2 DEF SureToRely, Reliant, Is, Doing, Others
    <3>3. CASE b = a
      <4>1. what = "resume queue"
        BY <3>1, <3>3, <2>4 DEF Reliant, Is, Doing
      <4>2. task.status = "PAUSED" => JobOn
        BY <4>1, <2>3, <2>4, <1>3 DEF JobOn
      <4> QED BY <4>2, <3>1, <2>4, <1>2 DEF SureOrPaused, Sure
    <3> QED BY <3>2, <3>3
  <2>9. PausedGone' /\ ReadIdle'
    BY <2>4, <2>5, <1>2 DEF PausedGone, ReadIdle, Is, Doing, Others, JobsKept
  <2>10. OwnIdle'
    BY <2>1, <2>4, <2>5, <1>2 DEF OwnIdle, JobsKept
  <2>11. ReadAwaiting'
    BY <2>1, <2>4, <2>5, <1>2 DEF ReadAwaiting, Is, Others
  <2> QED BY <2>7, <2>8, <2>9, <2>10, <2>11 DEF ScheduledOn
<1>8. ASSUME NEW a \in Admin, RemoveJob(a) PROVE ScheduledOn'
  <2> DEFINE at == IF admin[a].op = "update" THEN "adding" ELSE "writing"
  <2>1. /\ IF type = "CRON"
           THEN scheduler' = "none" /\ UNCHANGED own
           ELSE own' = (IF own = "active" THEN own ELSE "none") /\ UNCHANGED scheduler
        /\ GoTo(a, at) /\ admin[a].at = "removing" /\ at \in At
        /\ UNCHANGED <<type, task, extra, ticking, listener>> /\ incidents \subseteq incidents'
    BY <1>8, <1>3, <1>4, Removing DEF At
  <2>2. /\ admin'[a].op = admin[a].op /\ admin'[a].at = at /\ admin'[a].read = admin[a].read
        /\ Others(a)
    BY <2>1, <1>4, Going
  <2>3. Is(a, {"update", "pause", "remove"}) /\ (Is(a, {"update"}) => type = "CRON")
    BY <2>1, <1>4 DEF Basics, Stages, Is, TaskShapes, Op
  <2>4. own' \in {own, "none"} /\ (type = "CRON" => own' = "none")
    BY <2>1, <1>4 DEF TaskTypeOK
  <2>5. Sure'
    <3>1. Pending'
      BY <2>2, <2>3, <2>4, <2>1 DEF Pending, Is, Doing
    <3> QED BY <3>1 DEF Sure
  <2>6. PausedGone'
    <3>1. SUFFICES ASSUME NEW b \in Admin, Doing(b, "pause", "writing")'
                   PROVE  ~JobOn' /\ own' = "none"
      BY DEF PausedGone
    <3>2. Is(b, Unsettled)
      BY <3>1, <2>2 DEF Doing, Is, Others, Unsettled
    <3>3. own # "active"
      BY <3>2, <2>1, <1>2 DEF ChangeAlone, Asks, Running
    <3>4. own' = "none"
      BY <3>3, <2>1, <2>4, <1>4 DEF TaskTypeOK
    <3>5. scheduler' = "none" \/ (scheduler' = scheduler /\ type = "ONCE")
      BY <2>1, <1>4 DEF TaskTypeOK
    <3> QED BY <3>4, <3>5, <1>4 DEF JobOn, TaskTypeOK
  <2>7. Running' => Running
    BY <2>1, <2>4 DEF Running
  <2>8. OwnIdle' /\ ReadIdle' /\ ReadAwaiting'
    <3>1. OwnIdle'
      BY <2>1, <2>4, <1>2 DEF OwnIdle, Present, Hearing
    <3>2. \A b \in Admin : admin'[b].op = admin[b].op /\ admin'[b].read = admin[b].read
      BY <2>2 DEF Others
    <3>3. ReadIdle'
      BY <3>2, <2>1, <2>4, <1>2 DEF ReadIdle, Is
    <3>4. ReadAwaiting'
      BY <3>2, <2>1, <1>2 DEF ReadAwaiting, Is, Present
    <3> QED BY <3>1, <3>3, <3>4
  <2> QED BY <2>5, <2>6, <2>8 DEF ScheduledOn, SureOrPaused, SureToRely
<1>9. ASSUME NEW a \in Admin, AddJob(a) PROVE ScheduledOn'
  <2>1. /\ admin[a].at = "adding" /\ admin[a].op # "run now" /\ GoTo(a, "writing")
        /\ "writing" \in At
        /\ UNCHANGED <<type, task, extra, ticking, listener, incidents>>
        /\ IF type = "CRON"
           THEN scheduler' = "delayed" /\ UNCHANGED own
           ELSE own' = (IF own = "none" THEN "waiting" ELSE own) /\ UNCHANGED scheduler
    BY <1>9 DEF AddJob, At
  <2>2. /\ admin'[a].op = admin[a].op /\ admin'[a].at = "writing" /\ admin'[a].read = admin[a].read
        /\ Others(a)
    BY <2>1, <1>4, Going
  <2>3. Is(a, Schedules) /\ (Is(a, {"update"}) => type = "CRON")
    BY <2>1, <1>4 DEF Basics, Stages, Is, Schedules, TaskShapes, Op
  <2>4. own' = own \/ (own = "none" /\ own' = "waiting")
    BY <2>1
  <2>5. /\ \A b \in Admin : admin'[b].op = admin[b].op /\ admin'[b].read = admin[b].read
        /\ Hearing' = Hearing /\ Running' = Running /\ Present' = Present
    BY <2>1, <2>2, <2>4 DEF Others, Hearing, Running, Present
  <2>6. type = "CRON" \/ own \in {"none", "waiting"} => JobOn'
    BY <2>1, <1>4 DEF JobOn, TaskTypeOK
  <2>7. Sure => Sure'
    <3>1. CASE type = "CRON" \/ own \in {"none", "waiting"}
      BY <3>1, <2>6 DEF Sure
    <3>2. CASE type = "ONCE" /\ own \notin {"none", "waiting"}
      <4>1. ~JobOn
        BY <3>2, <1>4 DEF JobOn, TaskTypeOK
      <4>2. Pending => Pending'
        BY <3>2, <2>1, <2>2 DEF Pending, Doing, Others
      <4> QED BY <4>1, <4>2, <2>1, <2>5 DEF Sure
    <3> QED BY <3>1, <3>2, <1>4 DEF TaskTypeOK
  <2>8. SureOrPaused'
    BY <2>1, <2>5, <2>7, <1>2 DEF SureOrPaused
  <2>9. SureToRely'
    <3>1. SUFFICES ASSUME Present, NEW b \in Admin, Reliant(b)' PROVE Sure'
      BY <2>5 DEF SureToRely
    <3>2. CASE Reliant(b)
      BY <3>1, <3>2, <2>1, <2>7, <1>2 DEF SureToRely
    <3>3. CASE ~Reliant(b)
      <4>1. b = a /\ (Is(a, {"resume"}) \/ type = "CRON")
        BY <3>1, <3>3, <2>2, <2>3 DEF Reliant, Is, Doing, Others, Schedules
      <4>2. JobOn'
        BY <4>1, <2>1, <2>6, <1>2 DEF ReadIdle
      <4> QED BY <4>2 DEF Sure
    <3> QED BY <3>2, <3>3
  <2>10. PausedGone'
    BY <2>1, <2>3, <2>5, <1>2 DEF PausedGone, ChangeAlone, Is, Doing, Schedules
  <2>11. OwnIdle'
    BY <2>1, <2>4, <2>5, <1>2 DEF OwnIdle
  <2>12. ReadIdle' /\ ReadAwaiting'
    BY <2>1, <2>4, <2>5, <1>2 DEF ReadIdle, ReadAwaiting, Is
  <2> QED BY <2>8, <2>9, <2>10, <2>11, <2>12 DEF ScheduledOn
<1>10. ASSUME NEW a \in Admin, AddFails(a) \/ RollBack(a) PROVE ScheduledOn'
  <2>1. {"redis"} \in incidents'
    BY <1>10, <1>4, Happening DEF AddFails, RollBack, Doing, Basics, Stages, TaskShapes
  <2> QED BY <2>1, <1>3
<1>11. ASSUME NEW a \in Admin, RunNow(a) \/ PauseQueue(a) PROVE ScheduledOn'
  <2>1. /\ UNCHANGED <<type, task, scheduler, own, ticking, listener, incidents>>
        /\ extra' = "active" <=> extra = "active"
        /\ admin[a].at \in {"adding", "pausing"}
        /\ \/ Rest(a) /\ admin[a].op = "run now"
           \/ GoTo(a, "writing") /\ admin[a].at = "pausing" /\ "writing" \in At
    BY <1>11 DEF RunNow, PauseQueue, Doing, At
  <2>2. /\ Is(a, {"run now", "pause queue", "resume queue"})
        /\ \/ admin'[a].op = "none"
           \/ admin'[a].op = admin[a].op /\ Is(a, {"pause queue", "resume queue"})
        /\ Others(a)
    <3>1. CASE Rest(a) /\ admin[a].op = "run now"
      BY <3>1, <1>4, Ending DEF Is
    <3>2. CASE GoTo(a, "writing") /\ admin[a].at = "pausing" /\ "writing" \in At
      <4>1. Is(a, {"pause queue", "resume queue"})
        BY <3>2, <1>4 DEF Basics, Stages, Is, TaskShapes, Op
      <4>2. admin'[a].op = admin[a].op /\ Others(a)
        BY <3>2, <1>4, Going
      <4> QED BY <4>1, <4>2 DEF Is
    <3> QED BY <2>1, <3>1, <3>2
  <2>3. /\ Hearing' = Hearing /\ Running' = Running /\ Present' = Present /\ JobOn' = JobOn
    BY <2>1 DEF Hearing, Running, Present, JobOn
  <2>4. Sure => Sure'
    <3>1. Pending => Pending'
      BY <2>1, <2>2 DEF Pending, Is, Doing, Others
    <3> QED BY <3>1, <2>1, <2>3 DEF Sure
  <2>5. SureOrPaused'
    BY <2>1, <2>3, <2>4, <1>2 DEF SureOrPaused
  <2>6. SureToRely'
    BY <2>1, <2>2, <2>3, <2>4, <1>2 DEF SureToRely, Reliant, Is, Doing, Others
  <2>7. PausedGone' /\ ReadIdle'
    BY <2>1, <2>2, <2>3, <1>2 DEF PausedGone, ReadIdle, Is, Doing, Others
  <2>8. OwnIdle' /\ ReadAwaiting'
    BY <2>1, <2>2, <2>3, <1>2 DEF OwnIdle, ReadAwaiting, Is, Others
  <2> QED BY <2>5, <2>6, <2>7, <2>8 DEF ScheduledOn
<1>12. ASSUME NEW a \in Admin, WriteRow(a) PROVE ScheduledOn'
  <2>1. /\ UNCHANGED <<type, scheduler, own, extra, ticking, listener, incidents>>
        /\ Rest(a) /\ admin[a].at = "writing"
    BY <1>12 DEF WriteRow, jobs
  <2>2. /\ admin'[a].op = "none" /\ Others(a)
    BY <2>1, <1>4, Ending
  <2>3. JobOn' = JobOn /\ Running' = Running /\ Hearing' = Hearing
    BY <2>1 DEF JobOn, Running, Hearing
  <2>4. Present' =>
          /\ Present /\ ~Is(a, {"remove"})
          /\ task'.status =
                CASE Is(a, {"update", "edit"}) -> admin[a].read
                  [] Is(a, {"pause"}) -> "PAUSED"
                  [] Is(a, {"resume"}) -> "SCHEDULED"
                  [] Is(a, {"pause queue"}) /\ task.status = "SCHEDULED" -> "PAUSED"
                  [] Is(a, {"resume queue"}) /\ task.status = "PAUSED" -> "SCHEDULED"
                  [] OTHER -> task.status
    BY <1>12, RowWritten DEF Present
  <2>5. Is(a, {"update"}) => type = "CRON"
    BY DEF Basics, Stages
  <2>6. Is(a, {"pause"}) =>
          /\ ~Running /\ Hearing = {} /\ own = "none"
          /\ \A b \in Admin : ~Is(b, {"edit", "resume", "resume queue", "update"})
    BY <2>1, <1>2 DEF ChangeAlone, Asks, Is, Unsettled, PausedGone, Doing
  \* Whether a run has begun is not for a request to say.
  <2>7. ASSUME Present', type = "ONCE", ~Is(a, {"pause"})
        PROVE  task'.status \in Awaiting <=> task.status \in Awaiting
    <3>1. CASE Is(a, {"edit"})
      BY <3>1, <2>1, <2>4, <2>7, <1>2 DEF ReadAwaiting, Is
    <3>2. CASE Is(a, {"resume"})
      BY <3>2, <2>1, <2>4, <2>7, <1>2 DEF ReadAwaiting, Is, Awaiting
    <3>3. CASE ~Is(a, {"edit", "resume"})
      BY <3>3, <2>4, <2>5, <2>7 DEF Is, Awaiting
    <3> QED BY <3>1, <3>2, <3>3 DEF Is
  <2>8. ASSUME Present', Sure, ~Is(a, {"pause"}) PROVE Sure'
    <3>1. Pending => Pending'
      BY <2>1, <2>2, <2>4, <2>8 DEF Pending, Is, Doing, Others
    <3> QED BY <3>1, <2>1, <2>3, <2>7, <2>8 DEF Sure
  <2>9. SureOrPaused'
    <3>1. SUFFICES ASSUME Present', ~Is(a, {"pause"})
                   PROVE  Sure' \/ (task'.status = "PAUSED" /\ ~Running /\ Hearing = {})
      BY <2>3, <2>4, <2>6 DEF SureOrPaused, Is
    <3>2. SUFFICES ASSUME task.status = "PAUSED", ~Running, Hearing = {}, ~Sure
                   PROVE  task'.status = "PAUSED"
      BY <3>1, <2>1, <2>4, <2>8, <1>2 DEF SureOrPaused
    <3>3. ~Reliant(a)
      BY <3>1, <3>2, <2>1, <2>4, <1>2 DEF SureToRely
    <3> QED BY <3>1, <3>2, <3>3, <2>1, <2>4 DEF Reliant, Is, Doing
  <2>10. SureToRely'
    <3>1. SUFFICES ASSUME Present', NEW b \in Admin, Reliant(b)' PROVE Sure'
      BY DEF SureToRely
    <3>2. b # a /\ Reliant(b) /\ Present
      BY <3>1, <2>2, <2>4 DEF Reliant, Is, Doing, Others
    <3>3. Sure
      BY <3>2, <2>1, <1>2 DEF SureToRely
    <3>4. ~Is(a, {"pause"})
      BY <3>2, <2>6 DEF Reliant, Is, Doing
    <3> QED BY <3>1, <3>3, <3>4, <2>8
  <2>11. PausedGone' /\ ReadIdle'
    BY <2>1, <2>2, <2>3, <1>2 DEF PausedGone, ReadIdle, Is, Doing, Others
  <2>12. OwnIdle'
    <3>1. SUFFICES ASSUME type = "ONCE", Present', task'.status \in Awaiting
                   PROVE  own \in {"none", "waiting"} \/ Hearing # {}
      BY <2>1, <2>3 DEF OwnIdle
    <3>2. CASE Is(a, {"pause"})
      BY <3>2, <2>6
    <3>3. CASE ~Is(a, {"pause"})
      BY <3>1, <3>3, <2>1, <2>4, <2>7, <1>2 DEF OwnIdle
    <3> QED BY <3>2, <3>3
  <2>13. ReadAwaiting'
    <3>1. SUFFICES ASSUME type = "ONCE", Present', NEW b \in Admin, b # a, Is(b, {"edit", "resume"})
                   PROVE  /\ Is(b, {"edit"}) => (admin[b].read \in Awaiting <=> task'.status \in Awaiting)
                          /\ Is(b, {"resume"}) => task'.status \in Awaiting
      BY <2>1, <2>2 DEF ReadAwaiting, Is, Others
    <3>2. ~Is(a, {"pause"})
      BY <3>1, <2>6 DEF Is
    <3> QED BY <3>1, <3>2, <2>1, <2>4, <2>7, <1>2 DEF ReadAwaiting
  <2> QED BY <2>9, <2>10, <2>11, <2>12, <2>13 DEF ScheduledOn
<1>13. ASSUME NEW a \in Admin, ForceStatus(a) PROVE ScheduledOn'
  BY <1>13, <1>3, <1>4, Happening DEF ForceStatus, TaskShapes
\* A run of a task that is run once is heard of; another changes nothing.
<1>14. CASE StartJob \/ FinishJob
  <2>1. /\ UNCHANGED <<type, task, admin>> /\ incidents \subseteq incidents'
        /\ (scheduler' # "none" <=> scheduler # "none")
        /\ Hearing' # {} /\ (Running \/ Running')
        /\ task.status = "PAUSED" => Running
    <3>1. CASE StartJob
      <4>1. \E l \in Listener : listener'[l].event = "active"
        BY <3>1, <1>4, Starting
      <4>2. Hearing' # {}
        BY <4>1 DEF Hearing
      <4> QED BY <3>1, <4>2, <1>3, <1>4, Starting
    <3>2. CASE FinishJob
      <4>1. \E l \in Listener : listener'[l].event \in {"completed", "failed"}
        BY <3>2, <1>4, Finishing
      <4>2. Hearing' # {}
        BY <4>1 DEF Hearing
      <4> QED BY <3>2, <4>2, <1>4, Finishing
    <3> QED BY <1>14, <3>1, <3>2
  <2>2. ~Asks(Unsettled)
    BY <2>1, <1>1, <1>2 DEF ChangeAlone, Asks, Is
  <2>3. type = "CRON" => own' = own
    <3>1. type = "CRON" => own = "none"
      BY <1>4 DEF TaskTypeOK
    <3>2. type' = "CRON" => own' = "none"
      BY DEF Basics, TaskShapes, TaskTypeOK
    <3> QED BY <3>1, <3>2, <2>1
  <2>4. Sure => Sure'
    <3>1. CASE type = "ONCE"
      BY <3>1, <2>1 DEF Sure
    <3>2. CASE type = "CRON"
      BY <3>2, <2>1, <2>3 DEF Sure, JobOn, Pending, Is, Doing
    <3> QED BY <3>1, <3>2, <1>4 DEF TaskTypeOK
  <2>5. SureOrPaused'
    BY <2>1, <2>4, <1>2 DEF SureOrPaused, Present
  <2>6. SureToRely'
    BY <2>1, <2>4, <1>2 DEF SureToRely, Reliant, Present, Is, Doing
  <2>7. PausedGone' /\ OwnIdle' /\ ReadIdle' /\ ReadAwaiting'
    BY <2>1, <2>2 DEF PausedGone, OwnIdle, ReadIdle, ReadAwaiting, Asks, Is, Doing, Unsettled
  <2> QED BY <2>5, <2>6, <2>7 DEF ScheduledOn
<1>15. CASE ForgetJob \/ IterationDue
  <2>1. /\ UNCHANGED <<type, task, extra, ticking, admin, listener, incidents>>
        /\ (scheduler' # "none" <=> scheduler # "none")
        /\ own' = own \/ (own = "kept" /\ own' = "none")
    BY <1>15 DEF ForgetJob, IterationDue
  <2>2. JobOn' = JobOn /\ Running' = Running /\ Hearing' = Hearing /\ Present' = Present
    BY <2>1 DEF JobOn, Running, Hearing, Present
  <2>3. Sure => Sure'
    BY <2>1, <2>2 DEF Sure, Pending, Is, Doing
  <2>4. SureOrPaused' /\ SureToRely'
    BY <2>1, <2>2, <2>3, <1>2 DEF SureOrPaused, SureToRely, Reliant, Is, Doing
  <2>5. PausedGone' /\ OwnIdle' /\ ReadIdle'
    BY <2>1, <2>2, <1>2 DEF PausedGone, OwnIdle, ReadIdle, Is, Doing
  <2>6. ReadAwaiting'
    BY <2>1, <2>2, <1>2 DEF ReadAwaiting, Is
  <2> QED BY <2>4, <2>5, <2>6 DEF ScheduledOn
<1>16. ASSUME NEW l \in Listener, FindTask(l) PROVE ScheduledOn'
  <2>1. /\ UNCHANGED <<type, task, scheduler, own, extra, ticking, admin, incidents>>
        /\ listener[l].at = "finding"
        /\ \A m \in Listener : m # l => listener'[m] = listener[m]
        /\ \/ listener'[l].event = listener[l].event
           \/ listener'[l].event = "none" /\ (Present => type = "CRON")
    BY <1>16, <1>4, Finding DEF jobs
  <2>2. listener[l].event # "none"
    BY <2>1 DEF Basics, Stages
  <2>3. /\ JobOn' = JobOn /\ Running' = Running /\ Present' = Present
        /\ Hearing = {} => Hearing' = {}
    BY <2>1, <2>2 DEF JobOn, Running, Hearing, Present
  <2>4. Present /\ type = "ONCE" /\ Hearing # {} => Hearing' # {}
    BY <2>1, <1>4 DEF Hearing
  <2>5. Present /\ Sure => Sure'
    BY <2>1, <2>3, <2>4 DEF Sure, Pending, Is, Doing
  <2>6. SureOrPaused'
    BY <2>1, <2>3, <2>5, <1>2 DEF SureOrPaused
  <2>7. SureToRely'
    BY <2>1, <2>3, <2>5, <1>2 DEF SureToRely, Reliant, Is, Doing
  <2>8. PausedGone' /\ OwnIdle' /\ ReadIdle'
    BY <2>1, <2>3, <2>4, <1>2 DEF PausedGone, OwnIdle, ReadIdle, Is, Doing
  <2>9. ReadAwaiting'
    BY <2>1, <2>3, <1>2 DEF ReadAwaiting, Is
  <2> QED BY <2>6, <2>7, <2>8, <2>9 DEF ScheduledOn
\* What a listener tells of a task that is run once is that its run has begun.
<1>17. ASSUME NEW l \in Listener, TellStatus(l) PROVE ScheduledOn'
  <2>1. /\ UNCHANGED <<type, scheduler, own, extra, ticking, admin, incidents>>
        /\ listener[l].at = "writing"
        /\ Present' => Present /\ task'.status = Told(listener[l].event)
    BY <1>17, <1>4, Telling DEF jobs, Present
  <2>2. Hearing # {}
    BY <2>1 DEF Basics, Stages, Hearing
  <2>3. ~Asks(Unsettled)
    BY <2>1, <2>2, <1>2 DEF ChangeAlone
  <2>4. JobOn' = JobOn
    BY <2>1 DEF JobOn
  <2>5. type = "ONCE" /\ Present' => task'.status \notin Awaiting
    BY <2>1 DEF Told, Awaiting
  <2>6. Present' => Sure'
    <3>1. CASE type = "ONCE"
      BY <3>1, <2>1, <2>5 DEF Sure
    <3>2. ASSUME type = "CRON", Present' PROVE Sure'
      <4>1. Sure
        BY <3>2, <2>1, <2>2, <1>2 DEF SureOrPaused
      <4> QED BY <4>1, <3>2, <2>1, <2>4 DEF Sure, Pending, Is, Doing
    <3> QED BY <3>1, <3>2, <1>4 DEF TaskTypeOK
  <2>7. OwnIdle' /\ PausedGone' /\ ReadIdle' /\ ReadAwaiting'
    BY <2>1, <2>3, <2>5 DEF PausedGone, OwnIdle, ReadIdle, ReadAwaiting, Asks, Is, Doing, Unsettled
  <2> QED BY <2>6, <2>7 DEF ScheduledOn, SureOrPaused, SureToRely
<1>18. CASE TaskDeath
  BY <1>18, <1>3, <1>4, Happening DEF TaskDeath, TaskShapes
<1>19. CASE UNCHANGED taskVars
  <2>1. UNCHANGED <<type, task, scheduler, own, extra, ticking, admin, listener, incidents>>
    BY <1>19 DEF taskVars, jobs
  <2>2. Sure' = Sure /\ Present' = Present /\ Running' = Running /\ Hearing' = Hearing /\ JobOn' = JobOn
    BY <2>1 DEF Sure, JobOn, Pending, Hearing, Present, Running, Is, Doing
  <2> QED BY <2>1, <2>2, <1>2
          DEF ScheduledOn, SureOrPaused, SureToRely, PausedGone, OwnIdle, ReadIdle, ReadAwaiting,
              Reliant, Is, Doing
<1> QED BY <1>5, <1>6, <1>7, <1>8, <1>9, <1>10, <1>11, <1>12, <1>13, <1>14, <1>15, <1>16, <1>17,
           <1>18, <1>19
        DEF TaskNext

-----------------------------------------------------------------------------
(* The theorems. *)

TaskInv == Basics /\ DeletedOff /\ LeftTold /\ ShownRunning /\ PausedOff /\ ScheduledOn

LEMMA TaskInitInv == TaskInit => TaskInv
<1> SUFFICES ASSUME TaskInit PROVE TaskInv
  OBVIOUS
<1>1. /\ \A a \in Admin : admin[a].op = "none"
      /\ \A l \in Listener : listener[l].event = "none"
      /\ ~task.deleted /\ ~task.exists /\ scheduler = "none" /\ left = 0 /\ own = "none"
  BY DEF TaskInit, Resting, Silent
<1>2. ~JobOn /\ ~Present
  BY <1>1 DEF JobOn, Present
<1>3. DeletedOff
  BY <1>1 DEF DeletedOff, Doing
<1>4. ShownRunning
  BY <1>1, <1>2 DEF ShownRunning, Is, Writers
<1>5. PausedOff
  BY <1>1, <1>2 DEF PausedOff, PausedWaits, Is, Doing
<1>6. ScheduledOn
  BY <1>1, <1>2 DEF ScheduledOn, SureOrPaused, SureToRely, PausedGone, OwnIdle, ReadIdle, ReadAwaiting,
                    Is, Doing
<1>7. LeftTold
  <2>1. ~Leftover
    BY <1>1, SMT DEF Leftover
  <2> QED BY <1>1, <2>1 DEF LeftTold, Removes, Asks, Is
<1> QED BY <1>3, <1>4, <1>5, <1>6, <1>7, BasicsInit DEF TaskInv

LEMMA TaskNextKeeps == TaskInv /\ [TaskNext]_taskVars => TaskInv'
BY BasicsKept, DeletedOffKept, LeftToldKept, ShownRunningKept, PausedOffKept, ScheduledOnKept DEF TaskInv

\* Row, queue, requests and listeners keep the invariant, one step after the
\* other.  [TasksService and TaskProcessor]
THEOREM TaskInvHolds == TaskSpec => []TaskInv
BY TaskInitInv, TaskNextKeeps, PTL DEF TaskSpec

LEMMA TaskTyped == TaskInv => TaskTypeOK
BY DEF TaskInv, Basics, TaskShapes

\* A recurring task has a job scheduler and no job of its own, one that is run
\* once the other way round, whatever is added and removed.  [removeJob, addJob]
THEOREM TaskTypesHold == TaskSpec => []TaskTypeOK
BY TaskTyped, TaskInvHolds, PTL

LEMMA AtRestNobody ==
    ASSUME AtRest
    PROVE  /\ \A a \in Admin : admin[a].op = "none"
           /\ Hearing = {} /\ ~Running
BY DEF AtRest, Working

\* A removed task leaves nothing in the queue, neither its scheduler nor a job
\* of any kind, unless the removal found an iteration or a job of runNow
\* waiting, or met a request that was about to put something there, or the
\* queue failed or the process died.  [remove]
THEOREM DeletedIsOffHolds == TaskSpec => []DeletedIsOff
<1>1. TaskInv => DeletedIsOff
  <2>1. TaskInv /\ Removed => ~Leftover
    BY DEF TaskInv, LeftTold, Removed, Clear, Among, Removals
  <2> QED BY <2>1 DEF TaskInv, DeletedOff, LeftTold, DeletedIsOff, JobOn, Scheduled, Removed, Clear, Removals,
                      Leftover
<1> QED BY <1>1, TaskInvHolds, PTL

\* Nothing is shown RUNNING that does not run, unless the process died,
\* listeners overtook each other, or a request wrote back what it had read.
\* [onActive and the listeners that follow it]
THEOREM NotLeftRunningHolds == TaskSpec => []NotLeftRunning
<1>1. TaskInv => NotLeftRunning
  BY AtRestNobody DEF TaskInv, ShownRunning, NotLeftRunning, Clear, Overtakings
<1> QED BY <1>1, TaskInvHolds, PTL

\* A task that shows PAUSED in an open queue does not run by itself, unless
\* requests met that change the same, or its scheduler was removed when an
\* iteration was waiting already, however many runs met its pause.
\* [pauseTask, update, resumeQueue]
THEOREM PausedIsOffHolds == TaskSpec => []PausedIsOff
<1>1. TaskInv => PausedIsOff
  <2>0. TaskInv /\ Leftover => Among(Reschedules \cup {{"left"}}, incidents)
    BY DEF TaskInv, LeftTold, Among, Reschedules, Broken
  <2> SUFFICES ASSUME PausedOff, Clear(Reschedules), AtRest, Present, task.status = "PAUSED",
                      queue = "open", JobOn
               PROVE  FALSE
    BY <2>0 DEF TaskInv, PausedIsOff, JobOn, Scheduled, Clear, Among, Leftover
  <2>1. \A a \in Admin : admin[a].op = "none"
    BY AtRestNobody
  <2> QED BY <2>1 DEF PausedOff, PausedWaits, Wanted, Doing
<1> QED BY <1>1, TaskInvHolds, PTL

\* What the row says is SCHEDULED has something that will run it, unless the
\* queue failed, the process died, the status was set by hand, or a request
\* met what undoes it.  [TasksService and TaskProcessor]
THEOREM ScheduledWillRunHolds == TaskSpec => []ScheduledWillRun
<1>1. TaskInv => ScheduledWillRun
  <2> SUFFICES ASSUME ScheduledOn, Clear(Unschedules), AtRest, Present, task.status = "SCHEDULED",
                      ~JobOn
               PROVE  FALSE
    BY DEF TaskInv, ScheduledWillRun, JobOn, Scheduled, Clear
  <2>1. (\A a \in Admin : admin[a].op = "none") /\ Hearing = {}
    BY AtRestNobody
  <2>2. ~Pending
    BY <2>1 DEF Pending, Is, Doing
  <2> QED BY <2>1, <2>2 DEF ScheduledOn, SureOrPaused, Sure, Awaiting
<1> QED BY <1>1, TaskInvHolds, PTL

-----------------------------------------------------------------------------
(* The three together, as the runs check them *)

RecordsInv ==
    /\ part \in {"tree", "codes", "task"}
    /\ part = "tree" => TreeInv
    /\ part = "codes" => OtpInv
    /\ part = "task" => TaskInv

\* Whichever of the three components a behaviour is of, its state keeps its
\* shape.
THEOREM RecordsTypesHold == RecordsSpec => []RecordsTypeOK
<1>1. RecordsInit => RecordsInv
  BY TreeInvFirst, OtpInitInv, TaskInitInv DEF RecordsInit, RecordsInv
<1>2. RecordsInv /\ [InTree \/ InCodes \/ InTask]_<<part, treeVars, otpVars, taskVars>> => RecordsInv'
  <2> SUFFICES ASSUME RecordsInv,
                      [InTree \/ InCodes \/ InTask]_<<part, treeVars, otpVars, taskVars>>
               PROVE  RecordsInv'
    OBVIOUS
  <2>1. UNCHANGED part
    BY DEF InTree, InCodes, InTask
  <2>2. part = "tree" => [TreeNext]_treeVars
    BY DEF InTree, InCodes, InTask
  <2>3. part = "codes" => [OtpNext]_otpVars
    BY DEF InTree, InCodes, InTask
  <2>4. part = "task" => [TaskNext]_taskVars
    BY DEF InTree, InCodes, InTask
  <2> QED BY <2>1, <2>2, <2>3, <2>4, TreeInvNext, OtpNextKeeps, TaskNextKeeps DEF RecordsInv
<1>3. RecordsInv => RecordsTypeOK
  BY TreeTyped, OtpTyped, TaskTyped DEF RecordsInv, RecordsTypeOK
<1> QED BY <1>1, <1>2, <1>3, PTL DEF RecordsSpec

=============================================================================
