-------------------------- MODULE OAuthGrantProofs --------------------------
(***************************************************************************)
(* Proofs about OAuthGrant, for any number of clients, requests, tokens,   *)
(* scopes and concurrent handlers.  Inv is inductive.  Most actions either *)
(* move one handler and no row (HandlerMoves), move one administrator and  *)
(* no row (AdminMoves), or change rows and end a handler (RowsMove).       *)
(* OAuthGrant implements ConsentLedger.                                    *)
(***************************************************************************)
EXTENDS OAuthGrant, TLAPS

LEMMA IdleRecords == IdleHandler \in HandlerRow /\ IdleAdmin \in AdminRow
BY DEF IdleHandler, IdleAdmin, HandlerRow, AdminRow

\* A step that changes the record of handler h only.  If it takes a lock, the
\* lock was free.
LEMMA HandlerMoves ==
    ASSUME Inv, NEW h \in Handler, NEW w \in HandlerRow,
           http' = [http EXCEPT ![h] = w],
           UNCHANGED <<client, request, code, token, admin>>,
           HandlerSound(h)',
           w.pc = "codeTaken" => ~CodeLocked(w.req),
           w.pc = "rotated" => ~TokenLocked(w.tok),
           w.pc \in {"codeTaken", "rotated"} => VersionSound(w.client, w.ver)
    PROVE  Inv'
<1>1. http \in [Handler -> HandlerRow] /\ http' \in [Handler -> HandlerRow]
  BY DEF Inv, TypeOK
<1>2. http'[h] = w /\ \A g \in Handler \ {h} : http'[g] = http[g]
  BY <1>1
<1>3. TypeOK'
  BY <1>1 DEF Inv, TypeOK
<1>4. \A g \in Handler : HandlerSound(g)'
  <2> SUFFICES ASSUME NEW g \in Handler, g # h PROVE HandlerSound(g)'
    OBVIOUS
  <2>1. HandlerSound(g) BY DEF Inv
  <2> QED BY <2>1, <1>2 DEF HandlerSound, CodePresent, Unrevoked
<1>5. LocksExclusive'
  <2> SUFFICES ASSUME NEW f \in Handler, NEW g \in Handler, f # g
               PROVE  /\ ~(/\ http'[f].pc = "codeTaken" /\ http'[g].pc = "codeTaken"
                           /\ http'[f].req = http'[g].req)
                      /\ ~(/\ http'[f].pc = "rotated" /\ http'[g].pc = "rotated"
                           /\ http'[f].tok = http'[g].tok)
    BY DEF LocksExclusive
  <2>1. CASE f # h /\ g # h
    BY <2>1, <1>2 DEF Inv, LocksExclusive
  <2>2. CASE f = h
    BY <2>2, <1>2 DEF CodeLocked, TokenLocked, CodeHeld, TokenHeld
  <2>3. CASE g = h
    BY <2>3, <1>2 DEF CodeLocked, TokenLocked, CodeHeld, TokenHeld
  <2> QED BY <2>1, <2>2, <2>3
<1>6. \A a \in Admin : AdminSound(a)'
  <2> SUFFICES ASSUME NEW a \in Admin PROVE AdminSound(a)'
    OBVIOUS
  <2>1. AdminSound(a) BY DEF Inv
  <2>2. \A r \in admin[a].codes : CodeHeld(r)' => CodeHeld(r)
    BY <1>2 DEF CodeHeld, CodeLocked
  <2> QED BY <2>1, <2>2 DEF AdminSound
<1>7. ConsentsSound' /\ OneTokenPerConsent' /\ ConsentBoundsTokens'
  BY DEF Inv, ConsentsSound, OneTokenPerConsent, ConsentBoundsTokens, Unrevoked
<1>8. VersionsSound'
  BY <1>2 DEF Inv, VersionsSound, VersionSound
<1> QED BY <1>3, <1>4, <1>5, <1>6, <1>7, <1>8 DEF Inv

\* A step that changes the record of administrator a only.
LEMMA AdminMoves ==
    ASSUME Inv, NEW a \in Admin, NEW w \in AdminRow,
           admin' = [admin EXCEPT ![a] = w],
           UNCHANGED <<client, request, code, token, http>>,
           AdminSound(a)'
    PROVE  Inv'
<1>1. admin \in [Admin -> AdminRow] /\ admin' \in [Admin -> AdminRow]
  BY DEF Inv, TypeOK
<1>2. \A b \in Admin \ {a} : admin'[b] = admin[b]
  BY <1>1
<1>3. TypeOK'
  BY <1>1 DEF Inv, TypeOK
<1>4. \A h \in Handler : HandlerSound(h)'
  BY DEF Inv, HandlerSound, CodePresent, Unrevoked
<1>5. LocksExclusive' /\ VersionsSound'
  BY DEF Inv, LocksExclusive, VersionsSound, VersionSound
<1>6. \A b \in Admin : AdminSound(b)'
  <2> SUFFICES ASSUME NEW b \in Admin, b # a PROVE AdminSound(b)'
    OBVIOUS
  <2>1. AdminSound(b) BY DEF Inv
  <2> QED BY <2>1, <1>2 DEF AdminSound, CodeHeld
<1>7. ConsentsSound' /\ OneTokenPerConsent' /\ ConsentBoundsTokens'
  BY DEF Inv, ConsentsSound, OneTokenPerConsent, ConsentBoundsTokens, Unrevoked
<1> QED BY <1>3, <1>4, <1>5, <1>6, <1>7 DEF Inv

-----------------------------------------------------------------------------
(* The handler steps that change no row *)

LEMMA Ends ==
    ASSUME Inv, NEW h \in Handler, Finish(h), UNCHANGED <<rows, admin>>
    PROVE  Inv'
<1>1. HandlerSound(h)' /\ IdleHandler.pc = "idle"
  BY DEF Inv, TypeOK, Finish, IdleHandler, HandlerSound
<1> QED BY <1>1, HandlerMoves, IdleRecords DEF Finish, rows

LEMMA AuthenticateStep ==
    ASSUME Inv, NEW h \in Handler, NEW c \in Client, Authenticate(h, c)
    PROVE  Inv'
<1> DEFINE w == [http[h] EXCEPT !.pc = "authed", !.client = c]
<1>1. http' = [http EXCEPT ![h] = w] /\ UNCHANGED <<client, request, code, token, admin>>
  BY DEF Authenticate, rows
<1>2. http[h] \in HandlerRow BY DEF Inv, TypeOK
<1>3. w \in HandlerRow /\ w.pc = "authed" /\ w.client = c
  BY <1>2 DEF HandlerRow
<1>4. http'[h] = w BY <1>1 DEF Inv, TypeOK
<1>5. HandlerSound(h)' BY <1>3, <1>4 DEF HandlerSound
<1> HIDE DEF w
<1> QED BY <1>1, <1>3, <1>5, HandlerMoves

LEMMA BeginAuthorizeStep ==
    ASSUME Inv, NEW h \in Handler, NEW c \in Client, NEW S \in SUBSET Scope,
           BeginAuthorize(h, c, S)
    PROVE  Inv'
<1> DEFINE w == [http[h] EXCEPT !.pc = "authorizing", !.client = c, !.scopes = S]
<1>1. http' = [http EXCEPT ![h] = w] /\ UNCHANGED <<client, request, code, token, admin>>
  BY DEF BeginAuthorize, rows
<1>2. http[h] \in HandlerRow BY DEF Inv, TypeOK
<1>3. w \in HandlerRow /\ w.pc = "authorizing" /\ w.client = c
  BY <1>2 DEF HandlerRow
<1>4. http'[h] = w BY <1>1 DEF Inv, TypeOK
<1>5. HandlerSound(h)' BY <1>3, <1>4 DEF HandlerSound
<1> HIDE DEF w
<1> QED BY <1>1, <1>3, <1>5, HandlerMoves

LEMMA ReadRequestStep ==
    ASSUME Inv, NEW h \in Handler, NEW r \in Request, ReadRequest(h, r)
    PROVE  Inv'
<1> DEFINE w == [http[h] EXCEPT !.pc = "deciding", !.req = r]
<1>1. http' = [http EXCEPT ![h] = w] /\ UNCHANGED <<client, request, code, token, admin>>
  BY DEF ReadRequest, rows
<1>2. http[h] \in HandlerRow BY DEF Inv, TypeOK
<1>3. w \in HandlerRow /\ w.pc = "deciding" /\ w.req = r
  BY <1>2 DEF HandlerRow
<1>4. http'[h] = w BY <1>1 DEF Inv, TypeOK
<1>5. HandlerSound(h)' BY <1>1, <1>3, <1>4 DEF HandlerSound, ReadRequest
<1> HIDE DEF w
<1> QED BY <1>1, <1>3, <1>5, HandlerMoves

LEMMA ReadCodeStep ==
    ASSUME Inv, NEW h \in Handler, NEW r \in Request, ReadCode(h, r)
    PROVE  Inv'
<1> DEFINE w == [http[h] EXCEPT !.req = r,
                    !.pc = IF code[r].status = "issued" THEN "codeRead"
                                                        ELSE "dropCode"]
<1>1. http' = [http EXCEPT ![h] = w] /\ UNCHANGED <<client, request, code, token, admin>>
  BY DEF ReadCode, rows
<1>2. http[h] \in HandlerRow BY DEF Inv, TypeOK
<1>3. /\ w \in HandlerRow /\ w.pc \in {"codeRead", "dropCode"}
      /\ w.req = r /\ w.client = http[h].client
  BY <1>2 DEF HandlerRow
<1>4. http'[h] = w BY <1>1 DEF Inv, TypeOK
<1>5. /\ w.client \in Client /\ code[r].status # "none"
      /\ request[r].client = w.client
  BY <1>3 DEF ReadCode, CodePresent, Owner, Inv, HandlerSound
<1>6. HandlerSound(h)' BY <1>1, <1>3, <1>4, <1>5 DEF HandlerSound
<1> HIDE DEF w
<1> QED BY <1>1, <1>3, <1>6, HandlerMoves

LEMMA TakeCodeStep ==
    ASSUME Inv, NEW h \in Handler, TakeCode(h)
    PROVE  Inv'
<1> DEFINE r == http[h].req
           c == http[h].client
           w == [http[h] EXCEPT !.pc = "codeTaken", !.ver = client[c].version,
                    !.scopes = code[r].scopes \cap client[c].scopes]
<1>1. /\ http' = [http EXCEPT ![h] = w]
      /\ UNCHANGED <<client, request, code, token, admin>>
      /\ ~CodeLocked(r) /\ CodePresent(r) /\ client[c].status = "ACTIVE"
  BY DEF TakeCode, CodeUnspent, rows
<1>2. http[h] \in HandlerRow BY DEF Inv, TypeOK
<1>3. /\ c \in Client /\ r \in Request /\ code[r].status # "none"
      /\ request[r].client = c
  BY DEF TakeCode, Inv, HandlerSound
<1>4. client[c].version \in Nat /\ client[c].scopes \in SUBSET Scope
  BY <1>3 DEF Inv, TypeOK, ClientRow
<1>5. /\ w \in HandlerRow /\ w.pc = "codeTaken" /\ w.req = r /\ w.client = c
      /\ w.ver = client[c].version /\ w.scopes \subseteq code[r].scopes
  BY <1>2, <1>4 DEF HandlerRow
<1>6. http'[h] = w BY <1>1 DEF Inv, TypeOK
<1>7. HandlerSound(h)'
  BY <1>1, <1>3, <1>5, <1>6 DEF HandlerSound, CodePresent
<1>8. VersionSound(w.client, w.ver)
  BY <1>1, <1>4, <1>5 DEF VersionSound
<1> HIDE DEF w
<1> QED BY <1>1, <1>5, <1>7, <1>8, HandlerMoves

LEMMA ReadTokenStep ==
    ASSUME Inv, NEW h \in Handler, NEW t \in Token,
           ReadToken(h, t) \/ ReadTokenToRevoke(h, t)
    PROVE  Inv'
<1>1. PICK p \in {"tokenRead", "mustRevoke"} :
        http' = [http EXCEPT ![h] = [http[h] EXCEPT !.tok = t, !.pc = p]]
  <2>1. CASE ReadToken(h, t)
    BY <2>1 DEF ReadToken
  <2>2. CASE ReadTokenToRevoke(h, t)
    BY <2>2, [http[h] EXCEPT !.pc = "mustRevoke", !.tok = t]
             = [http[h] EXCEPT !.tok = t, !.pc = "mustRevoke"]
       DEF ReadTokenToRevoke, Inv, TypeOK, HandlerRow
  <2> QED BY <2>1, <2>2
<1> DEFINE w == [http[h] EXCEPT !.tok = t, !.pc = p]
<1>2. UNCHANGED <<client, request, code, token, admin>>
  BY DEF ReadToken, ReadTokenToRevoke, rows
<1>3. http[h] \in HandlerRow BY DEF Inv, TypeOK
<1>4. w \in HandlerRow /\ w.pc = p /\ w.tok = t /\ w.client = http[h].client
  BY <1>3 DEF HandlerRow
<1>5. http'[h] = w BY <1>1 DEF Inv, TypeOK
<1>6. /\ w.client \in Client /\ token[t].status # "none"
      /\ token[t].client = w.client
  BY <1>4 DEF ReadToken, ReadTokenToRevoke, Owner, Inv, HandlerSound
<1>7. HandlerSound(h)' BY <1>2, <1>4, <1>5, <1>6 DEF HandlerSound
<1> HIDE DEF w
<1> QED BY <1>1, <1>2, <1>4, <1>7, HandlerMoves DEF w

LEMMA RotateStep ==
    ASSUME Inv, NEW h \in Handler, Rotate(h)
    PROVE  Inv'
<1> DEFINE t == http[h].tok
           c == http[h].client
           w == [http[h] EXCEPT !.pc = "rotated", !.ver = client[c].version,
                    !.scopes = token[t].scopes \cap client[c].scopes]
<1>1. /\ http' = [http EXCEPT ![h] = w]
      /\ UNCHANGED <<client, request, code, token, admin>>
      /\ ~TokenLocked(t) /\ Unrevoked(t) /\ client[c].status = "ACTIVE"
  BY DEF Rotate, TokenUnspent, rows
<1>2. http[h] \in HandlerRow BY DEF Inv, TypeOK
<1>3. /\ c \in Client /\ t \in Token /\ token[t].status # "none"
      /\ token[t].client = c
  BY DEF Rotate, Inv, HandlerSound
<1>4. client[c].version \in Nat /\ client[c].scopes \in SUBSET Scope
  BY <1>3 DEF Inv, TypeOK, ClientRow
<1>5. /\ w \in HandlerRow /\ w.pc = "rotated" /\ w.tok = t /\ w.client = c
      /\ w.ver = client[c].version /\ w.scopes \subseteq token[t].scopes
  BY <1>2, <1>4 DEF HandlerRow
<1>6. http'[h] = w BY <1>1 DEF Inv, TypeOK
<1>7. HandlerSound(h)'
  BY <1>1, <1>3, <1>5, <1>6 DEF HandlerSound, Unrevoked
<1>8. VersionSound(w.client, w.ver)
  BY <1>1, <1>4, <1>5 DEF VersionSound
<1> HIDE DEF w
<1> QED BY <1>1, <1>5, <1>7, <1>8, HandlerMoves

LEMMA RevokeFamilyStep ==
    ASSUME Inv, NEW h \in Handler, RevokeFamily(h)
    PROVE  Inv'
<1> DEFINE F == FamilyOf(http[h].tok)
           w == [http[h] EXCEPT !.pc = "revoking", !.found = F]
<1>1. http' = [http EXCEPT ![h] = w] /\ UNCHANGED <<client, request, code, token, admin>>
  BY DEF RevokeFamily, rows
<1>2. http[h] \in HandlerRow /\ http[h].client \in Client
  BY DEF Inv, TypeOK, RevokeFamily, HandlerSound
<1>3. F \in SUBSET Token /\ \A t \in F : token[t].status # "none"
  BY DEF FamilyOf, Unrevoked
<1> HIDE DEF F
<1>4. /\ w \in HandlerRow /\ w.pc = "revoking" /\ w.found = F
      /\ w.client = http[h].client
  BY <1>2, <1>3 DEF HandlerRow
<1>5. http'[h] = w BY <1>1 DEF Inv, TypeOK
<1>6. HandlerSound(h)' BY <1>1, <1>2, <1>3, <1>4, <1>5 DEF HandlerSound
<1> HIDE DEF w
<1> QED BY <1>1, <1>4, <1>6, HandlerMoves

-----------------------------------------------------------------------------
(* The administrator steps that change no row *)

LEMMA AdminReadStep ==
    ASSUME Inv, NEW a \in Admin, NEW c \in Client, NEW S \in SUBSET Scope,
           NEW op \in {"update", "disable", "enable", "rotateSecret"},
           AdminRead(a, c, op, S)
    PROVE  Inv'
<1> DEFINE w == [admin[a] EXCEPT !.pc = "read", !.op = op, !.client = c,
                    !.scopes = S, !.changed = (S # client[c].scopes)]
<1>1. /\ admin' = [admin EXCEPT ![a] = w]
      /\ UNCHANGED <<client, request, code, token, http>>
      /\ admin[a].pc = "idle"
  BY DEF AdminRead, rows
<1>2. admin[a] \in AdminRow BY DEF Inv, TypeOK
<1>3. (S # client[c].scopes) \in BOOLEAN
  OBVIOUS
<1>4. /\ w \in AdminRow /\ w.pc = "read" /\ w.client = c
      /\ w.toks = admin[a].toks /\ w.codes = admin[a].codes
      /\ w.reqs = admin[a].reqs
  BY <1>2, <1>3 DEF AdminRow
<1>5. admin'[a] = w BY <1>1 DEF Inv, TypeOK
<1>6. AdminSound(a)' BY <1>1, <1>4, <1>5 DEF AdminSound, Inv
<1> HIDE DEF w
<1> QED BY <1>1, <1>4, <1>6, AdminMoves

LEMMA AdminUpdateClientStep ==
    ASSUME Inv, NEW a \in Admin, AdminUpdateClient(a)
    PROVE  Inv'
<1> DEFINE T == IF Revokes(a) THEN TokensOf(admin[a].client) ELSE {}
           w == [admin[a] EXCEPT !.pc = "revoking", !.toks = T]
<1>1. /\ admin' = [admin EXCEPT ![a] = w]
      /\ UNCHANGED <<client, request, code, token, http>>
      /\ admin[a].pc = "read"
  BY DEF AdminUpdateClient, rows
<1>2. admin[a] \in AdminRow BY DEF Inv, TypeOK
<1>3. T \in SUBSET Token /\ \A t \in T : token[t].status # "none"
  BY DEF TokensOf, Unrevoked
<1> HIDE DEF T
<1>4. /\ w \in AdminRow /\ w.pc = "revoking" /\ w.client = admin[a].client
      /\ w.toks = T /\ w.codes = admin[a].codes /\ w.reqs = admin[a].reqs
  BY <1>2, <1>3 DEF AdminRow
<1>5. admin'[a] = w BY <1>1 DEF Inv, TypeOK
<1>6. AdminSound(a)' BY <1>1, <1>3, <1>4, <1>5 DEF AdminSound, Inv
<1> HIDE DEF w
<1> QED BY <1>1, <1>4, <1>6, AdminMoves

LEMMA AdminDeleteCodesStep ==
    ASSUME Inv, NEW a \in Admin, AdminDeleteCodes(a)
    PROVE  Inv'
<1> DEFINE C == CodesOf(admin[a].client)
           w == [admin[a] EXCEPT !.pc = "clearing", !.codes = C]
<1>1. /\ admin' = [admin EXCEPT ![a] = w]
      /\ UNCHANGED <<client, request, code, token, http>>
      /\ admin[a].pc = "revoking"
  BY DEF AdminDeleteCodes, rows
<1>2. admin[a] \in AdminRow BY DEF Inv, TypeOK
<1>3. C \in SUBSET Request /\ \A r \in C : code[r].status # "none"
  BY DEF CodesOf, CodePresent
<1> HIDE DEF C
<1>4. /\ w \in AdminRow /\ w.pc = "clearing" /\ w.client = admin[a].client
      /\ w.toks = admin[a].toks /\ w.codes = C /\ w.reqs = admin[a].reqs
  BY <1>2, <1>3 DEF AdminRow
<1>5. admin'[a] = w BY <1>1 DEF Inv, TypeOK
<1>6. AdminSound(a)' BY <1>1, <1>3, <1>4, <1>5 DEF AdminSound, Inv
<1> HIDE DEF w
<1> QED BY <1>1, <1>4, <1>6, AdminMoves

LEMMA AdminConsumeRequestsStep ==
    ASSUME Inv, NEW a \in Admin, AdminConsumeRequests(a)
    PROVE  Inv'
<1> DEFINE R == UndecidedOf(admin[a].client)
           w == [admin[a] EXCEPT !.pc = "cancelling", !.reqs = R]
<1>1. /\ admin' = [admin EXCEPT ![a] = w]
      /\ UNCHANGED <<client, request, code, token, http>>
      /\ admin[a].pc = "clearing"
      /\ \A r \in admin[a].codes : ~CodeHeld(r)
  BY DEF AdminConsumeRequests, rows
<1>2. admin[a] \in AdminRow BY DEF Inv, TypeOK
<1>3. R \in SUBSET Request
      /\ \A r \in R : request[r].status \in {"pending", "expired"}
  BY DEF UndecidedOf
<1> HIDE DEF R
<1>4. /\ w \in AdminRow /\ w.pc = "cancelling" /\ w.client = admin[a].client
      /\ w.toks = admin[a].toks /\ w.codes = admin[a].codes /\ w.reqs = R
  BY <1>2, <1>3 DEF AdminRow
<1>5. admin'[a] = w BY <1>1 DEF Inv, TypeOK
<1>6. AdminSound(a)' BY <1>1, <1>3, <1>4, <1>5 DEF AdminSound, Inv, CodeHeld
<1> HIDE DEF w
<1> QED BY <1>1, <1>4, <1>6, AdminMoves

LEMMA AdminAbandonStep ==
    ASSUME Inv, NEW a \in Admin, AdminAbandon(a)
    PROVE  Inv'
<1>1. AdminSound(a)' BY DEF Inv, TypeOK, AdminAbandon, IdleAdmin, AdminSound
<1> QED BY <1>1, AdminMoves, IdleRecords DEF AdminAbandon, rows

-----------------------------------------------------------------------------
(* The steps that change rows *)

\* What no step undoes: a row that exists keeps its key columns.
RowsKept ==
    /\ \A r \in Request : request[r].status # "none" =>
         /\ request'[r].status # "none"
         /\ request'[r].client = request[r].client
    /\ \A r \in Request : code[r].status # "none" =>
         /\ code'[r].status # "none"
         /\ code'[r].scopes = code[r].scopes
    /\ \A t \in Token : token[t].status # "none" =>
         /\ token'[t].status # "none"
         /\ token'[t].client = token[t].client
         /\ token'[t].origin = token[t].origin
         /\ token'[t].ver = token[t].ver
         /\ token'[t].scopes = token[t].scopes

\* A step that changes rows, and no handler's or administrator's record but
\* those it ends, leaves the others sound if it takes away no row they hold.
LEMMA RowsMove ==
    ASSUME Inv, TypeOK', RowsKept,
           \A g \in Handler : http'[g] = http[g] \/ http'[g] = IdleHandler,
           \A a \in Admin : admin'[a] = admin[a] \/ admin'[a] = IdleAdmin,
           \A g \in Handler :
             /\ (http[g].pc = "codeTaken" => CodePresent(http[g].req))'
             /\ (http[g].pc = "rotated" => Unrevoked(http[g].tok))',
           \A a \in Admin : \A r \in admin[a].reqs :
             admin'[a] = admin[a] =>
               request'[r].status \in {"pending", "expired", "cancelled"}
    PROVE  /\ \A g \in Handler : HandlerSound(g)'
           /\ LocksExclusive'
           /\ \A a \in Admin : AdminSound(a)'
<1>1. IdleHandler.pc = "idle" BY DEF IdleHandler
<1>2. ASSUME NEW g \in Handler PROVE HandlerSound(g)'
  <2>1. HandlerSound(g) BY DEF Inv
  <2>2. CASE http'[g] = IdleHandler
    BY <2>2, <1>1 DEF HandlerSound, IdleHandler
  <2>3. CASE http'[g] = http[g]
    <3>1. http[g] \in HandlerRow BY DEF Inv, TypeOK
    <3>2. \A t \in http[g].found : t \in Token BY <3>1 DEF HandlerRow
    <3>3. http[g].pc \in {"codeRead", "dropCode", "codeTaken"} =>
            /\ http[g].req \in Request
            /\ code'[http[g].req].status # "none"
            /\ request'[http[g].req].client = http[g].client
            /\ code'[http[g].req].scopes = code[http[g].req].scopes
      BY <2>1 DEF HandlerSound, RowsKept, Inv, ConsentsSound
    <3>4. http[g].pc \in {"tokenRead", "rotated", "mustRevoke"} =>
            /\ http[g].tok \in Token
            /\ token'[http[g].tok].status # "none"
            /\ token'[http[g].tok].client = http[g].client
            /\ token'[http[g].tok].scopes = token[http[g].tok].scopes
      BY <2>1 DEF HandlerSound, RowsKept
    <3>5. http[g].pc = "deciding" =>
            http[g].req \in Request /\ request'[http[g].req].status # "none"
      BY <2>1 DEF HandlerSound, RowsKept
    <3>6. http[g].pc = "revoking" =>
            \A t \in http[g].found : token'[t].status # "none"
      BY <2>1, <3>2 DEF HandlerSound, RowsKept
    <3> QED BY <2>1, <2>3, <3>3, <3>4, <3>5, <3>6 DEF HandlerSound
  <2> QED BY <2>2, <2>3
<1>3. LocksExclusive'
  BY <1>1 DEF Inv, LocksExclusive
<1>4. ASSUME NEW a \in Admin PROVE AdminSound(a)'
  <2>1. AdminSound(a) BY DEF Inv
  <2>2. CASE admin'[a] = IdleAdmin
    BY <2>2 DEF AdminSound, IdleAdmin
  <2>3. CASE admin'[a] = admin[a]
    <3>1. admin[a] \in AdminRow BY DEF Inv, TypeOK
    <3>2. /\ \A t \in admin[a].toks : t \in Token
          /\ \A r \in admin[a].codes : r \in Request
      BY <3>1 DEF AdminRow
    <3>3. \A r \in Request : CodeHeld(r)' => CodeHeld(r)
      BY <1>1 DEF CodeHeld
    <3> QED BY <2>1, <2>3, <3>2, <3>3 DEF AdminSound, RowsKept
  <2> QED BY <2>2, <2>3
<1> QED BY <1>2, <1>3, <1>4

LEMMA FinishFacts ==
    ASSUME Inv, NEW h \in Handler, Finish(h)
    PROVE  /\ http' \in [Handler -> HandlerRow]
           /\ http'[h] = IdleHandler /\ IdleHandler.pc = "idle"
           /\ \A g \in Handler : g # h => http'[g] = http[g]
BY IdleRecords DEF Inv, TypeOK, Finish, IdleHandler

\* The part of ConsentsSound that is not about tokens.
CodesSound ==
    \A r \in Request :
      /\ code[r].status # "none" <=> request[r].status = "approved"
      /\ code[r].status # "none" => code[r].scopes \subseteq request[r].scopes

\* Invariants on tokens, for the steps that change requests and codes only.
LEMMA TokensStay ==
    ASSUME Inv, RowsKept, UNCHANGED <<client, token>>,
           \A g \in Handler : http'[g] = http[g] \/ http'[g] = IdleHandler,
           \A r \in Request : request[r].status = "approved" =>
             request'[r] = request[r],
           \A r \in Request : code[r].status = "gone" => code'[r].status = "gone",
           CodesSound'
    PROVE  OneTokenPerConsent' /\ ConsentBoundsTokens' /\ VersionsSound'
           /\ ConsentsSound'
<1>1. OneTokenPerConsent'
  BY DEF Inv, OneTokenPerConsent, Unrevoked
<1>2. ASSUME NEW t \in Token, token[t].status # "none"
      PROVE  token[t].origin \in Request
  BY <1>2 DEF Inv, TypeOK, TokenRow
<1>3. ConsentBoundsTokens'
  BY <1>2 DEF Inv, ConsentBoundsTokens, ConsentsSound, RowsKept
<1>4. VersionsSound'
  BY DEF Inv, VersionsSound, VersionSound, IdleHandler
<1> QED BY <1>1, <1>2, <1>3, <1>4 DEF Inv, ConsentsSound, CodesSound

LEMMA CreateRequestStep ==
    ASSUME Inv, NEW h \in Handler, NEW r \in Request, CreateRequest(h, r)
    PROVE  Inv'
<1>1. /\ http[h].pc = "authorizing" /\ request[r].status = "none" /\ Finish(h)
      /\ request' = [request EXCEPT ![r] = [status |-> "pending",
                        client |-> http[h].client, scopes |-> http[h].scopes]]
      /\ UNCHANGED <<client, code, token, admin>>
  BY DEF CreateRequest
<1>2. http[h].client \in Client /\ http[h].scopes \in SUBSET Scope
  BY <1>1 DEF Inv, TypeOK, HandlerRow, HandlerSound
<1>3. /\ request' \in [Request -> RequestRow]
      /\ request'[r].status = "pending" /\ request'[r].client = http[h].client
      /\ \A q \in Request : q # r => request'[q] = request[q]
  BY <1>1, <1>2 DEF Inv, TypeOK, RequestRow
<1>4. TypeOK'
  BY <1>1, <1>2, <1>3, FinishFacts, NoneAssumption DEF Inv, TypeOK
<1>5. RowsKept
  BY <1>1, <1>3 DEF RowsKept
<1>6. /\ \A g \in Handler : HandlerSound(g)'
      /\ LocksExclusive'
      /\ \A a \in Admin : AdminSound(a)'
  <2>1. \A a \in Admin : \A q \in admin[a].reqs :
          q \in Request /\ q # r
          /\ request[q].status \in {"pending", "expired", "cancelled"}
    BY <1>1 DEF Inv, TypeOK, AdminRow, AdminSound
  <2>2. \A g \in Handler :
          /\ (http[g].pc = "codeTaken" => CodePresent(http[g].req))'
          /\ (http[g].pc = "rotated" => Unrevoked(http[g].tok))'
    BY <1>1, FinishFacts DEF Inv, HandlerSound, CodePresent, Unrevoked
  <2> QED BY <1>1, <1>3, <1>4, <1>5, <2>1, <2>2, FinishFacts, RowsMove
<1>7. CodesSound'
  BY <1>1, <1>3 DEF Inv, ConsentsSound, CodesSound
<1>8. OneTokenPerConsent' /\ ConsentBoundsTokens' /\ VersionsSound' /\ ConsentsSound'
  <2>1. \A q \in Request : request[q].status = "approved" => request'[q] = request[q]
    BY <1>1, <1>3
  <2> QED BY <1>1, <1>5, <1>7, <2>1, FinishFacts, TokensStay
<1> QED BY <1>4, <1>6, <1>8 DEF Inv

\* Rows a handler needs are there after a step that takes away none that is
\* held.
LEMMA HeldKept ==
    ASSUME Inv,
           \A t \in Token : Unrevoked(t) /\ TokenHeld(t) => Unrevoked(t)',
           \A g \in Handler : http'[g] = http[g] \/ http'[g] = IdleHandler,
           \A q \in Request : CodePresent(q) /\ CodeHeld(q) => CodePresent(q)'
    PROVE  \A g \in Handler :
             /\ (http[g].pc = "codeTaken" => CodePresent(http[g].req))'
             /\ (http[g].pc = "rotated" => Unrevoked(http[g].tok))'
<1> SUFFICES ASSUME NEW g \in Handler
             PROVE  /\ (http[g].pc = "codeTaken" => CodePresent(http[g].req))'
                    /\ (http[g].pc = "rotated" => Unrevoked(http[g].tok))'
  OBVIOUS
<1>1. CASE http'[g] = IdleHandler
  BY <1>1 DEF IdleHandler
<1>2. CASE http'[g] = http[g]
  <2>1. HandlerSound(g) BY DEF Inv
  <2>2. http[g].pc = "codeTaken" =>
          /\ http[g].req \in Request
          /\ CodePresent(http[g].req) /\ CodeHeld(http[g].req)
    BY <2>1 DEF HandlerSound, CodeHeld
  <2>3. http[g].pc = "rotated" =>
          /\ http[g].tok \in Token
          /\ Unrevoked(http[g].tok) /\ TokenHeld(http[g].tok)
    BY <2>1 DEF HandlerSound, TokenHeld
  <2> QED BY <1>2, <2>2, <2>3 DEF CodePresent, Unrevoked
<1> QED BY <1>1, <1>2

\* The same for a step that leaves the tokens alone.
LEMMA HeldStay ==
    ASSUME Inv, UNCHANGED token,
           \A g \in Handler : http'[g] = http[g] \/ http'[g] = IdleHandler,
           \A q \in Request : CodePresent(q) /\ CodeHeld(q) => CodePresent(q)'
    PROVE  \A g \in Handler :
             /\ (http[g].pc = "codeTaken" => CodePresent(http[g].req))'
             /\ (http[g].pc = "rotated" => Unrevoked(http[g].tok))'
<1>1. \A t \in Token : Unrevoked(t) /\ TokenHeld(t) => Unrevoked(t)'
  BY DEF Unrevoked
<1> QED BY <1>1, HeldKept

LEMMA ApproveStep ==
    ASSUME Inv, NEW h \in Handler, NEW S \in SUBSET Scope, Approve(h, S)
    PROVE  Inv'
<1> DEFINE r == http[h].req
<1>1. /\ http[h].pc = "deciding" /\ S \subseteq request[r].scopes
      /\ ~RequestLocked(r) /\ request[r].status = "pending"
      /\ request' = [request EXCEPT ![r].status = "approved"]
      /\ code' = [code EXCEPT ![r] = [status |-> "issued", scopes |-> S]]
      /\ Finish(h) /\ UNCHANGED <<client, token, admin>>
  BY DEF Approve
<1>2. r \in Request
  BY <1>1 DEF Inv, HandlerSound
<1> HIDE DEF r
<1>3. /\ request' \in [Request -> RequestRow]
      /\ request'[r].status = "approved" /\ request'[r].client = request[r].client
      /\ request'[r].scopes = request[r].scopes
      /\ \A q \in Request : q # r => request'[q] = request[q]
  BY <1>1, <1>2 DEF Inv, TypeOK, RequestRow
<1>4. /\ code' \in [Request -> CodeRow]
      /\ code'[r].status = "issued" /\ code'[r].scopes = S
      /\ \A q \in Request : q # r => code'[q] = code[q]
  BY <1>1, <1>2 DEF Inv, TypeOK, CodeRow
<1>5. code[r].status = "none"
  BY <1>1, <1>2 DEF Inv, ConsentsSound
<1>6. TypeOK'
  BY <1>1, <1>2, <1>3, <1>4, FinishFacts DEF Inv, TypeOK
<1>7. RowsKept
  BY <1>1, <1>2, <1>3, <1>4, <1>5 DEF RowsKept
<1>8. /\ \A g \in Handler : HandlerSound(g)'
      /\ LocksExclusive'
      /\ \A a \in Admin : AdminSound(a)'
  <2>1. \A a \in Admin : \A q \in admin[a].reqs :
          q \in Request /\ q # r
          /\ request[q].status \in {"pending", "expired", "cancelled"}
    BY <1>1 DEF Inv, TypeOK, AdminRow, AdminSound, RequestLocked
  <2>2. \A q \in Request : CodePresent(q) => CodePresent(q)'
    BY <1>4 DEF CodePresent
  <2> QED BY <1>1, <1>3, <1>6, <1>7, <2>1, <2>2, FinishFacts, HeldStay, RowsMove
<1>9. OneTokenPerConsent' /\ ConsentBoundsTokens' /\ VersionsSound' /\ ConsentsSound'
  <2>1. \A q \in Request : request[q].status = "approved" => request'[q] = request[q]
    BY <1>1, <1>3
  <2>2. \A q \in Request : code[q].status = "gone" => code'[q].status = "gone"
    BY <1>4, <1>5
  <2>3. CodesSound'
    BY <1>1, <1>2, <1>3, <1>4 DEF Inv, ConsentsSound, CodesSound
  <2>4. \A g \in Handler : http'[g] = http[g] \/ http'[g] = IdleHandler
    BY <1>1, FinishFacts
  <2> QED BY <1>1, <1>7, <2>1, <2>2, <2>3, <2>4, TokensStay
<1> QED BY <1>6, <1>8, <1>9 DEF Inv

\* A request that nobody has decided, and no disabling holds, is denied or
\* expires.
LEMMA RefuseStep ==
    ASSUME Inv, NEW r \in Request, NEW st \in {"expired", "denied"},
           request[r].status = "pending",
           st = "denied" => ~RequestLocked(r),
           request' = [request EXCEPT ![r].status = st],
           http' = http \/ \E h \in Handler : Finish(h),
           UNCHANGED <<client, code, token, admin>>
    PROVE  Inv'
<1>1. /\ request' \in [Request -> RequestRow]
      /\ request'[r].status = st /\ request'[r].client = request[r].client
      /\ \A q \in Request : q # r => request'[q] = request[q]
  BY DEF Inv, TypeOK, RequestRow
<1>2. /\ http' \in [Handler -> HandlerRow]
      /\ \A g \in Handler : http'[g] = http[g] \/ http'[g] = IdleHandler
  BY FinishFacts DEF Inv, TypeOK
<1>3. TypeOK'
  BY <1>1, <1>2 DEF Inv, TypeOK
<1>4. RowsKept
  BY <1>1 DEF RowsKept
<1>5. /\ \A g \in Handler : HandlerSound(g)'
      /\ LocksExclusive'
      /\ \A a \in Admin : AdminSound(a)'
  <2>1. \A a \in Admin : \A q \in admin[a].reqs :
          request'[q].status \in {"pending", "expired", "cancelled"}
    BY <1>1 DEF Inv, TypeOK, AdminRow, AdminSound, RequestLocked
  <2>2. \A q \in Request : CodePresent(q) => CodePresent(q)'
    BY DEF CodePresent
  <2> QED BY <1>2, <1>3, <1>4, <2>1, <2>2, HeldStay, RowsMove
<1>6. OneTokenPerConsent' /\ ConsentBoundsTokens' /\ VersionsSound' /\ ConsentsSound'
  <2>1. \A q \in Request : request[q].status = "approved" => request'[q] = request[q]
    BY <1>1
  <2>2. CodesSound'
    BY <1>1 DEF Inv, ConsentsSound, CodesSound
  <2> QED BY <1>2, <1>4, <2>1, <2>2, TokensStay
<1> QED BY <1>3, <1>5, <1>6 DEF Inv

\* A code expires, or is deleted once it has.
LEMMA CodeEndsStep ==
    ASSUME Inv, NEW r \in Request, NEW st \in {"expired", "gone"},
           code[r].status # "none",
           st = "expired" => code[r].status = "issued",
           st = "gone" => ~CodeLocked(r),
           code' = [code EXCEPT ![r].status = st],
           http' = http \/ \E h \in Handler : Finish(h),
           UNCHANGED <<client, request, token, admin>>
    PROVE  Inv'
<1>1. /\ code' \in [Request -> CodeRow]
      /\ code'[r].status = st /\ code'[r].scopes = code[r].scopes
      /\ \A q \in Request : q # r => code'[q] = code[q]
  BY DEF Inv, TypeOK, CodeRow
<1>2. /\ http' \in [Handler -> HandlerRow]
      /\ \A g \in Handler : http'[g] = http[g] \/ http'[g] = IdleHandler
  BY FinishFacts DEF Inv, TypeOK
<1>3. TypeOK'
  BY <1>1, <1>2 DEF Inv, TypeOK
<1>4. RowsKept
  BY <1>1 DEF RowsKept
<1>5. /\ \A g \in Handler : HandlerSound(g)'
      /\ LocksExclusive'
      /\ \A a \in Admin : AdminSound(a)'
  <2>1. \A a \in Admin : \A q \in admin[a].reqs :
          request'[q].status \in {"pending", "expired", "cancelled"}
    BY DEF Inv, TypeOK, AdminRow, AdminSound
  <2>2. \A q \in Request : CodePresent(q) /\ CodeHeld(q) => CodePresent(q)'
    BY <1>1 DEF CodePresent, CodeLocked
  <2> QED BY <1>2, <1>3, <1>4, <2>1, <2>2, HeldStay, RowsMove
<1>6. OneTokenPerConsent' /\ ConsentBoundsTokens' /\ VersionsSound' /\ ConsentsSound'
  <2>1. \A q \in Request : code[q].status = "gone" => code'[q].status = "gone"
    BY <1>1
  <2>2. CodesSound'
    BY <1>1 DEF Inv, ConsentsSound, CodesSound
  <2> QED BY <1>2, <1>4, <2>1, <2>2, TokensStay
<1> QED BY <1>3, <1>5, <1>6 DEF Inv

\* Tokens that no rotation holds are revoked, or tokens expire.
LEMMA TokensEndStep ==
    ASSUME Inv, NEW T \in SUBSET Token, NEW st \in {"expired", "revoked"},
           \A t \in T : token[t].status # "none",
           st = "expired" => \A t \in T : token[t].status = "live",
           st = "revoked" => \A t \in T : ~TokenHeld(t),
           token' = [t \in Token |-> IF t \in T
                                       THEN [token[t] EXCEPT !.status = st]
                                       ELSE token[t]],
           http' = http \/ \E h \in Handler : Finish(h),
           UNCHANGED <<client, request, code, admin>>
    PROVE  Inv'
<1>1. \A t \in Token :
        /\ token'[t] \in TokenRow
        /\ token'[t].status = IF t \in T THEN st ELSE token[t].status
        /\ token'[t].client = token[t].client /\ token'[t].ver = token[t].ver
        /\ token'[t].origin = token[t].origin
        /\ token'[t].family = token[t].family
        /\ token'[t].scopes = token[t].scopes
  BY DEF Inv, TypeOK, TokenRow
<1>2. /\ http' \in [Handler -> HandlerRow]
      /\ \A g \in Handler : http'[g] = http[g] \/ http'[g] = IdleHandler
  BY FinishFacts DEF Inv, TypeOK
<1>3. TypeOK'
  BY <1>1, <1>2 DEF Inv, TypeOK
<1>4. RowsKept
  BY <1>1 DEF RowsKept
<1>5. \A t \in Token : Unrevoked(t)' => Unrevoked(t)
  BY <1>1 DEF Unrevoked
<1>6. \A t \in Token : Unrevoked(t) /\ TokenHeld(t) => Unrevoked(t)'
  BY <1>1 DEF Unrevoked
<1>7. /\ \A g \in Handler : HandlerSound(g)'
      /\ LocksExclusive'
      /\ \A a \in Admin : AdminSound(a)'
  <2>1. \A a \in Admin : \A q \in admin[a].reqs :
          request'[q].status \in {"pending", "expired", "cancelled"}
    BY DEF Inv, TypeOK, AdminRow, AdminSound
  <2>2. \A q \in Request : CodePresent(q) => CodePresent(q)'
    BY DEF CodePresent
  <2> QED BY <1>2, <1>3, <1>4, <1>6, <2>1, <2>2, HeldKept, RowsMove
<1>8. \A t \in Token : token'[t].status # "none" => token[t].status # "none"
  BY <1>1
<1>9. ConsentsSound' /\ VersionsSound' /\ ConsentBoundsTokens'
  <2>1. ConsentsSound'
    BY <1>1, <1>8 DEF Inv, ConsentsSound
  <2>2. VersionsSound'
    BY <1>1, <1>2, <1>8 DEF Inv, VersionsSound, VersionSound, IdleHandler
  <2>3. ConsentBoundsTokens'
    BY <1>1, <1>8 DEF Inv, ConsentBoundsTokens
  <2> QED BY <2>1, <2>2, <2>3
<1>10. OneTokenPerConsent'
  BY <1>1, <1>5 DEF Inv, OneTokenPerConsent
<1> QED BY <1>3, <1>7, <1>9, <1>10 DEF Inv

\* The row that a token transaction inserts.
LEMMA NewTokenFacts ==
    ASSUME Inv, NEW h \in Handler, http[h].pc \in {"codeTaken", "rotated"},
           NEW r \in Request, NEW f \in Token
    PROVE  LET n == NewToken(h, r, f) IN
           /\ n \in TokenRow /\ n.status = "live" /\ n.client = http[h].client
           /\ n.origin = r /\ n.family = f /\ n.scopes = http[h].scopes
           /\ n.client \in Client /\ VersionSound(n.client, n.ver)
<1>1. http[h] \in HandlerRow BY DEF Inv, TypeOK
<1>2. http[h].client \in Client BY DEF Inv, HandlerSound
<1>3. VersionSound(http[h].client, http[h].ver) BY DEF Inv, VersionsSound
<1> QED BY <1>1, <1>2, <1>3 DEF NewToken, TokenRow, HandlerRow

LEMMA CommitExchangeStep ==
    ASSUME Inv, NEW h \in Handler, NEW t \in Token, CommitExchange(h, t)
    PROVE  Inv'
<1> DEFINE r == http[h].req
           n == NewToken(h, r, t)
<1>1. /\ http[h].pc = "codeTaken" /\ token[t].status = "none"
      /\ code' = [code EXCEPT ![r].status = "gone"]
      /\ token' = [token EXCEPT ![t] = n]
      /\ Finish(h) /\ UNCHANGED <<client, request, admin>>
  BY DEF CommitExchange
<1>2. /\ r \in Request /\ CodePresent(r) /\ request[r].client = http[h].client
      /\ http[h].scopes \subseteq code[r].scopes
  BY <1>1 DEF Inv, HandlerSound
<1>3. /\ n \in TokenRow /\ n.status = "live" /\ n.client = http[h].client
      /\ n.origin = r /\ n.family = t /\ n.scopes = http[h].scopes
      /\ n.client \in Client /\ VersionSound(n.client, n.ver)
  BY <1>1, <1>2, NewTokenFacts
<1>4. \A g \in Handler : g # h /\ http[g].pc = "codeTaken" => http[g].req # r
  BY <1>1 DEF Inv, LocksExclusive
<1> HIDE DEF n, r
<1>5. /\ code' \in [Request -> CodeRow]
      /\ code'[r].status = "gone" /\ code'[r].scopes = code[r].scopes
      /\ \A q \in Request : q # r => code'[q] = code[q]
  BY <1>1, <1>2 DEF Inv, TypeOK, CodeRow
<1>6. /\ token' \in [Token -> TokenRow]
      /\ token'[t] = n /\ \A u \in Token : u # t => token'[u] = token[u]
  BY <1>1, <1>3 DEF Inv, TypeOK
<1>7. TypeOK'
  BY <1>1, <1>2, <1>3, <1>5, <1>6, FinishFacts, NoneAssumption DEF Inv, TypeOK
<1>8. RowsKept
  BY <1>1, <1>2, <1>5, <1>6 DEF RowsKept
<1>9. /\ \A g \in Handler : HandlerSound(g)'
      /\ LocksExclusive'
      /\ \A a \in Admin : AdminSound(a)'
  <2>1. \A a \in Admin : \A q \in admin[a].reqs :
          request'[q].status \in {"pending", "expired", "cancelled"}
    BY <1>1 DEF Inv, TypeOK, AdminRow, AdminSound
  <2>2. ASSUME NEW g \in Handler
        PROVE  /\ (http[g].pc = "codeTaken" => CodePresent(http[g].req))'
               /\ (http[g].pc = "rotated" => Unrevoked(http[g].tok))'
    <3>1. CASE g = h
      BY <1>1, <3>1, FinishFacts
    <3>2. CASE g # h
      <4>1. http'[g] = http[g] BY <1>1, <3>2, FinishFacts
      <4>2. HandlerSound(g) BY DEF Inv
      <4> QED BY <1>1, <1>4, <1>5, <1>6, <3>2, <4>1, <4>2
              DEF HandlerSound, CodePresent, Unrevoked
    <3> QED BY <3>1, <3>2
  <2>3. \A g \in Handler : http'[g] = http[g] \/ http'[g] = IdleHandler
    BY <1>1, FinishFacts
  <2> QED BY <1>1, <1>7, <1>8, <2>1, <2>2, <2>3, RowsMove
<1>10. \A u \in Token : token[u].status # "none" => token[u].origin # r
  BY <1>2 DEF Inv, ConsentsSound, CodePresent
<1>11. /\ request[r].status = "approved" /\ code[r].status # "none"
       /\ code[r].scopes \subseteq request[r].scopes
  BY <1>2 DEF Inv, ConsentsSound, CodePresent
<1>12. ConsentsSound'
  <2>1. \A u \in Token : token[u].status # "none" =>
          code'[token[u].origin].status = "gone"
    <3> SUFFICES ASSUME NEW u \in Token, token[u].status # "none"
                 PROVE  code'[token[u].origin].status = "gone"
      OBVIOUS
    <3>1. token[u].origin \in Request
      BY DEF Inv, TypeOK, TokenRow
    <3> QED BY <3>1, <1>5, <1>10 DEF Inv, ConsentsSound
  <2> QED BY <1>1, <1>2, <1>3, <1>5, <1>6, <1>11, <2>1 DEF Inv, ConsentsSound
<1>13. OneTokenPerConsent'
  BY <1>3, <1>6, <1>10 DEF Inv, OneTokenPerConsent, Unrevoked
<1>14. ConsentBoundsTokens'
  <2> SUFFICES ASSUME NEW u \in Token, token'[u].status # "none"
               PROVE  /\ request'[token'[u].origin].status = "approved"
                      /\ token'[u].client = request'[token'[u].origin].client
                      /\ token'[u].scopes \subseteq code'[token'[u].origin].scopes
                      /\ code'[token'[u].origin].scopes
                           \subseteq request'[token'[u].origin].scopes
    BY DEF ConsentBoundsTokens
  <2>1. CASE u = t
    BY <2>1, <1>1, <1>2, <1>3, <1>5, <1>6, <1>11
  <2>2. CASE u # t
    <3>1. token'[u] = token[u] /\ token[u].origin \in Request
      BY <2>2, <1>6 DEF Inv, TypeOK, TokenRow
    <3> QED BY <3>1, <1>1, <1>5, <1>10 DEF Inv, ConsentBoundsTokens
  <2> QED BY <2>1, <2>2
<1>15. VersionsSound'
  <2>1. \A g \in Handler : http'[g].pc \in {"codeTaken", "rotated"} =>
          http'[g] = http[g]
    BY <1>1, FinishFacts
  <2> QED BY <1>1, <1>3, <1>6, <2>1 DEF Inv, VersionsSound, VersionSound
<1> QED BY <1>7, <1>9, <1>12, <1>13, <1>14, <1>15 DEF Inv

LEMMA CommitRotateStep ==
    ASSUME Inv, NEW h \in Handler, NEW u \in Token, CommitRotate(h, u)
    PROVE  Inv'
<1> DEFINE t == http[h].tok
           n == NewToken(h, token[t].origin, token[t].family)
<1>1. /\ http[h].pc = "rotated" /\ token[u].status = "none"
      /\ token' = [token EXCEPT ![t].status = "revoked", ![u] = n]
      /\ Finish(h) /\ UNCHANGED <<client, request, code, admin>>
  BY DEF CommitRotate
<1>2. /\ t \in Token /\ Unrevoked(t) /\ token[t].client = http[h].client
      /\ http[h].scopes \subseteq token[t].scopes
  BY <1>1 DEF Inv, HandlerSound
<1>3. /\ token[t].origin \in Request /\ token[t].family \in Token
      /\ token[t].status # "none" /\ t # u
  BY <1>1, <1>2, NoneAssumption DEF Inv, TypeOK, TokenRow, Unrevoked
<1>4. /\ n \in TokenRow /\ n.status = "live" /\ n.client = token[t].client
      /\ n.origin = token[t].origin /\ n.family = token[t].family
      /\ n.scopes \subseteq token[t].scopes
      /\ n.client \in Client /\ VersionSound(n.client, n.ver)
  BY <1>1, <1>2, <1>3, NewTokenFacts
<1>5. \A g \in Handler : g # h /\ http[g].pc = "rotated" => http[g].tok # t
  BY <1>1 DEF Inv, LocksExclusive
<1> HIDE DEF n, t
<1>6. /\ token' \in [Token -> TokenRow] /\ token'[u] = n
      /\ token'[t] = [token[t] EXCEPT !.status = "revoked"]
      /\ \A v \in Token : v # t /\ v # u => token'[v] = token[v]
  BY <1>1, <1>2, <1>3, <1>4 DEF Inv, TypeOK, TokenRow
<1>7. /\ token'[t].status = "revoked" /\ token'[t].client = token[t].client
      /\ token'[t].origin = token[t].origin /\ token'[t].ver = token[t].ver
      /\ token'[t].family = token[t].family /\ token'[t].scopes = token[t].scopes
  BY <1>2, <1>6 DEF Inv, TypeOK, TokenRow
<1>8. TypeOK'
  BY <1>1, <1>2, <1>3, <1>4, <1>6, <1>7, FinishFacts, NoneAssumption DEF Inv, TypeOK
<1>9. RowsKept
  BY <1>1, <1>2, <1>6, <1>7 DEF RowsKept
<1>10. /\ \A g \in Handler : HandlerSound(g)'
       /\ LocksExclusive'
       /\ \A a \in Admin : AdminSound(a)'
  <2>1. \A a \in Admin : \A q \in admin[a].reqs :
          request'[q].status \in {"pending", "expired", "cancelled"}
    BY <1>1 DEF Inv, TypeOK, AdminRow, AdminSound
  <2>2. ASSUME NEW g \in Handler
        PROVE  /\ (http[g].pc = "codeTaken" => CodePresent(http[g].req))'
               /\ (http[g].pc = "rotated" => Unrevoked(http[g].tok))'
    <3>1. CASE g = h
      BY <1>1, <3>1, FinishFacts
    <3>2. CASE g # h
      <4>1. http'[g] = http[g] BY <1>1, <3>2, FinishFacts
      <4>2. HandlerSound(g) BY DEF Inv
      <4> QED BY <1>1, <1>5, <1>6, <3>2, <4>1, <4>2
              DEF HandlerSound, CodePresent, Unrevoked
    <3> QED BY <3>1, <3>2
  <2>3. \A g \in Handler : http'[g] = http[g] \/ http'[g] = IdleHandler
    BY <1>1, FinishFacts
  <2> QED BY <1>1, <1>8, <1>9, <2>1, <2>2, <2>3, RowsMove
<1>11. \A v \in Token : v # u /\ token'[v].status # "none" =>
         /\ token[v].status # "none" /\ token'[v].client = token[v].client
         /\ token'[v].origin = token[v].origin /\ token'[v].ver = token[v].ver
         /\ token'[v].scopes = token[v].scopes
  BY <1>3, <1>6, <1>7
<1>12. ConsentsSound'
  BY <1>1, <1>2, <1>3, <1>4, <1>6, <1>11 DEF Inv, ConsentsSound
<1>13. OneTokenPerConsent'
  <2> SUFFICES ASSUME NEW v \in Token, NEW x \in Token,
                      Unrevoked(v)', Unrevoked(x)', v # x,
                      token'[v].origin = token'[x].origin
               PROVE  FALSE
    BY DEF OneTokenPerConsent
  <2>1. v # t /\ x # t
    BY <1>7 DEF Unrevoked
  <2>2. \A y \in {v, x} : y # u =>
          y # t /\ Unrevoked(y) /\ token'[y].origin = token[y].origin
    BY <2>1, <1>6 DEF Unrevoked
  <2>3. \A y \in {v, x} : y # u => token[y].origin # token[t].origin
    BY <2>2, <1>2 DEF Inv, OneTokenPerConsent
  <2> QED BY <2>2, <2>3, <1>4, <1>6 DEF Inv, OneTokenPerConsent
<1>14. ConsentBoundsTokens'
  <2> SUFFICES ASSUME NEW v \in Token, token'[v].status # "none"
               PROVE  /\ request'[token'[v].origin].status = "approved"
                      /\ token'[v].client = request'[token'[v].origin].client
                      /\ token'[v].scopes \subseteq code'[token'[v].origin].scopes
                      /\ code'[token'[v].origin].scopes
                           \subseteq request'[token'[v].origin].scopes
    BY DEF ConsentBoundsTokens
  <2>1. CASE v = u
    BY <2>1, <1>1, <1>2, <1>3, <1>4, <1>6 DEF Inv, ConsentBoundsTokens
  <2>2. CASE v # u
    BY <2>2, <1>1, <1>11 DEF Inv, ConsentBoundsTokens
  <2> QED BY <2>1, <2>2
<1>15. VersionsSound'
  <2>1. \A g \in Handler : http'[g].pc \in {"codeTaken", "rotated"} =>
          http'[g] = http[g]
    BY <1>1, FinishFacts
  <2>2. \A v \in Token : token'[v].status # "none" =>
          VersionSound(token'[v].client, token'[v].ver)
    BY <1>4, <1>6, <1>11 DEF Inv, VersionsSound
  <2> QED BY <1>1, <2>1, <2>2 DEF Inv, VersionsSound, VersionSound
<1> QED BY <1>8, <1>10, <1>12, <1>13, <1>14, <1>15 DEF Inv

\* An administrator commits: the rows it holds end, and the client row changes.
LEMMA AdminCommitStep ==
    ASSUME Inv, NEW a \in Admin, AdminCommit(a)
    PROVE  Inv'
<1> DEFINE c == admin[a].client
           T == admin[a].toks
           C == admin[a].codes
           R == admin[a].reqs
           row == Updated(a, client[c])
<1>1. /\ admin[a].pc \in {"revoking", "cancelling"}
      /\ \A t \in T : ~TokenHeld(t)
      /\ client' = [client EXCEPT ![c] = row]
      /\ token' = [t \in Token |-> IF t \in T
                                      THEN [token[t] EXCEPT !.status = "revoked"]
                                      ELSE token[t]]
      /\ code' = [r \in Request |-> IF r \in C
                                       THEN [code[r] EXCEPT !.status = "gone"]
                                       ELSE code[r]]
      /\ request' = [r \in Request |->
                        IF r \in R THEN [request[r] EXCEPT !.status = "cancelled"]
                        ELSE request[r]]
      /\ admin' = [admin EXCEPT ![a] = IdleAdmin]
      /\ UNCHANGED http
  BY DEF AdminCommit
<1>2. admin[a] \in AdminRow /\ AdminSound(a)
  BY DEF Inv, TypeOK
<1>3. /\ c \in Client /\ T \in SUBSET Token /\ C \in SUBSET Request
      /\ R \in SUBSET Request
      /\ \A t \in T : token[t].status # "none"
      /\ \A r \in C : code[r].status # "none" /\ ~CodeHeld(r)
      /\ \A r \in R : request[r].status \in {"pending", "expired", "cancelled"}
  BY <1>1, <1>2 DEF AdminRow, AdminSound
<1>4. /\ row \in ClientRow
      /\ row.version >= client[c].version
      /\ row.version = client[c].version =>
           row.status = client[c].status \/ row.status = "ACTIVE"
  <2>1. client[c] \in ClientRow BY <1>3 DEF Inv, TypeOK
  <2>2. /\ row = [status |-> row.status, version |-> row.version,
                  scopes |-> row.scopes]
        /\ row.status = CASE admin[a].op = "disable" -> "DISABLED"
                          [] admin[a].op = "enable" -> "ACTIVE"
                          [] OTHER -> client[c].status
        /\ row.version = client[c].version + (IF Bumps(a) THEN 1 ELSE 0)
        /\ row.scopes = IF admin[a].op = "update" THEN admin[a].scopes
                                                  ELSE client[c].scopes
    BY DEF Updated
  <2>3. row.status \in {"ACTIVE", "DISABLED"} /\ row.scopes \in SUBSET Scope
    BY <1>2, <2>1, <2>2 DEF AdminRow, ClientRow
  <2>4. /\ row.version \in Nat \ {0} /\ row.version >= client[c].version
        /\ row.version = client[c].version => ~Bumps(a)
    BY <2>1, <2>2 DEF ClientRow
  <2>5. ~Bumps(a) => row.status = client[c].status \/ row.status = "ACTIVE"
    BY <2>2 DEF Bumps
  <2> HIDE DEF row
  <2> QED BY <2>2, <2>3, <2>4, <2>5 DEF ClientRow
<1> HIDE DEF c, T, C, R, row
<1>5. /\ client' \in [Client -> ClientRow] /\ client'[c] = row
      /\ \A d \in Client : d # c => client'[d] = client[d]
  BY <1>1, <1>3, <1>4 DEF Inv, TypeOK
<1>6. \A t \in Token :
        /\ token'[t] \in TokenRow
        /\ token'[t].status = IF t \in T THEN "revoked" ELSE token[t].status
        /\ token'[t].client = token[t].client /\ token'[t].ver = token[t].ver
        /\ token'[t].origin = token[t].origin
        /\ token'[t].family = token[t].family
        /\ token'[t].scopes = token[t].scopes
  BY <1>1 DEF Inv, TypeOK, TokenRow
<1>7. \A r \in Request :
        /\ code'[r] \in CodeRow
        /\ code'[r].status = IF r \in C THEN "gone" ELSE code[r].status
        /\ code'[r].scopes = code[r].scopes
  BY <1>1 DEF Inv, TypeOK, CodeRow
<1>8. \A r \in Request :
        /\ request'[r] \in RequestRow
        /\ request'[r].status = IF r \in R THEN "cancelled" ELSE request[r].status
        /\ request'[r].client = request[r].client
        /\ request'[r].scopes = request[r].scopes
  BY <1>1 DEF Inv, TypeOK, RequestRow
<1>9. /\ admin' \in [Admin -> AdminRow] /\ admin'[a] = IdleAdmin
      /\ \A b \in Admin : b # a => admin'[b] = admin[b]
  BY <1>1, IdleRecords DEF Inv, TypeOK
<1>10. TypeOK'
  <2>1. /\ token' \in [Token -> TokenRow] /\ code' \in [Request -> CodeRow]
        /\ request' \in [Request -> RequestRow]
    BY <1>1, <1>6, <1>7, <1>8
  <2>2. \A t \in Token : token'[t].status # "none" => token[t].status # "none"
    BY <1>3, <1>6
  <2>3. \A r \in Request : request'[r].status # "none" => request[r].status # "none"
    BY <1>3, <1>8
  <2> QED BY <1>1, <1>5, <1>6, <1>8, <1>9, <2>1, <2>2, <2>3 DEF Inv, TypeOK
<1>11. RowsKept
  BY <1>6, <1>7, <1>8 DEF RowsKept
<1>12. /\ \A g \in Handler : HandlerSound(g)'
       /\ LocksExclusive'
       /\ \A b \in Admin : AdminSound(b)'
  <2>1. \A b \in Admin : \A r \in admin[b].reqs :
          request'[r].status \in {"pending", "expired", "cancelled"}
    <3> SUFFICES ASSUME NEW b \in Admin, NEW r \in admin[b].reqs
                 PROVE  request'[r].status \in {"pending", "expired", "cancelled"}
      OBVIOUS
    <3>1. r \in Request BY DEF Inv, TypeOK, AdminRow
    <3> QED BY <3>1, <1>8 DEF Inv, AdminSound
  <2>2. \A t \in Token : Unrevoked(t) /\ TokenHeld(t) => Unrevoked(t)'
    BY <1>1, <1>6 DEF Unrevoked
  <2>3. \A r \in Request : CodePresent(r) /\ CodeHeld(r) => CodePresent(r)'
    BY <1>3, <1>7 DEF CodePresent
  <2> QED BY <1>1, <1>9, <1>10, <1>11, <2>1, <2>2, <2>3, HeldKept, RowsMove
<1>13. \A t \in Token : token'[t].status # "none" =>
         token[t].status # "none" /\ token[t].origin \in Request
         /\ token[t].client \in Client
  BY <1>3, <1>6, NoneAssumption DEF Inv, TypeOK, TokenRow
<1>14. ConsentsSound'
  <2>1. \A r \in Request : request[r].status = "approved" <=> request'[r].status = "approved"
    BY <1>3, <1>8
  <2>2. \A r \in Request : code[r].status # "none" <=> code'[r].status # "none"
    BY <1>3, <1>7
  <2>3. \A r \in Request : code[r].status = "gone" => code'[r].status = "gone"
    BY <1>7
  <2> QED BY <1>6, <1>7, <1>8, <1>13, <2>1, <2>2, <2>3 DEF Inv, ConsentsSound
<1>15. OneTokenPerConsent'
  <2>1. \A t \in Token : Unrevoked(t)' => Unrevoked(t)
    BY <1>6 DEF Unrevoked
  <2> QED BY <1>6, <2>1 DEF Inv, OneTokenPerConsent
<1>16. ConsentBoundsTokens'
  <2>1. \A r \in Request : request[r].status = "approved" => request'[r].status = "approved"
    BY <1>3, <1>8
  <2> QED BY <1>6, <1>7, <1>8, <1>13, <2>1 DEF Inv, ConsentBoundsTokens
<1>17. VersionsSound'
  <2>1. ASSUME NEW d \in Client, NEW ver \in Nat, VersionSound(d, ver)
        PROVE  /\ ver <= client'[d].version
               /\ ver = client'[d].version => client'[d].status = "ACTIVE"
    <3>1. client[d].version \in Nat /\ client'[d].version \in Nat
      BY <1>5 DEF Inv, TypeOK, ClientRow
    <3> QED BY <2>1, <3>1, <1>4, <1>5 DEF VersionSound
  <2>2. \A t \in Token : token'[t].status # "none" => token[t].ver \in Nat
    BY DEF Inv, TypeOK, TokenRow
  <2>3. \A h \in Handler : http[h].pc \in {"codeTaken", "rotated"} =>
          http[h].client \in Client /\ http[h].ver \in Nat
    BY DEF Inv, TypeOK, HandlerRow, HandlerSound
  <2>4. \A t \in Token : token'[t].status # "none" =>
          /\ token[t].ver <= client'[token[t].client].version
          /\ token[t].ver = client'[token[t].client].version =>
               client'[token[t].client].status = "ACTIVE"
    <3>1. \A t \in Token : token'[t].status # "none" =>
            VersionSound(token[t].client, token[t].ver)
      BY <1>13 DEF Inv, VersionsSound
    <3> QED BY <3>1, <1>13, <2>1, <2>2
  <2>5. \A h \in Handler : http[h].pc \in {"codeTaken", "rotated"} =>
          /\ http[h].ver <= client'[http[h].client].version
          /\ http[h].ver = client'[http[h].client].version =>
               client'[http[h].client].status = "ACTIVE"
    <3>1. \A h \in Handler : http[h].pc \in {"codeTaken", "rotated"} =>
            VersionSound(http[h].client, http[h].ver)
      BY DEF Inv, VersionsSound
    <3> QED BY <3>1, <2>1, <2>3
  <2> QED BY <1>1, <1>6, <2>4, <2>5 DEF VersionsSound, VersionSound
<1> QED BY <1>10, <1>12, <1>14, <1>15, <1>16, <1>17 DEF Inv

-----------------------------------------------------------------------------
(* Inv is inductive *)

LEMMA InitInv == Init => Inv
<1> SUFFICES ASSUME Init PROVE Inv
  OBVIOUS
<1>1. /\ \A h \in Handler : http[h] = IdleHandler
      /\ \A a \in Admin : admin[a] = IdleAdmin
      /\ \A r \in Request : request[r].status = "none" /\ code[r].status = "none"
      /\ \A t \in Token : token[t].status = "none"
  BY DEF Init, NoRequest, NoCode, NoToken
<1>2. TypeOK
  <2>1. NoRequest \in RequestRow /\ NoCode \in CodeRow /\ NoToken \in TokenRow
    BY DEF NoRequest, NoCode, NoToken, RequestRow, CodeRow, TokenRow
  <2>2. client \in [Client -> ClientRow]
    BY DEF Init, ClientRow
  <2> QED BY <1>1, <2>1, <2>2, IdleRecords DEF Init, TypeOK
<1>3. (\A h \in Handler : HandlerSound(h)) /\ LocksExclusive
  BY <1>1 DEF HandlerSound, LocksExclusive, IdleHandler
<1>4. \A a \in Admin : AdminSound(a)
  BY <1>1 DEF AdminSound, IdleAdmin
<1>5. ConsentsSound /\ OneTokenPerConsent /\ ConsentBoundsTokens
  BY <1>1 DEF ConsentsSound, OneTokenPerConsent, ConsentBoundsTokens, Unrevoked
<1>6. VersionsSound
  BY <1>1 DEF VersionsSound, IdleHandler
<1> QED BY <1>2, <1>3, <1>4, <1>5, <1>6 DEF Inv

\* A step of a handler that has started.
LEMMA HandlerStepInv ==
    ASSUME Inv, NEW h \in Handler, HandlerStep(h)
    PROVE  Inv'
<1>1. CASE \E r \in Request : CreateRequest(h, r)
  BY <1>1, CreateRequestStep
<1>2. CASE \E S \in SUBSET Scope : Approve(h, S)
  BY <1>2, ApproveStep
<1>3. CASE Deny(h)
  <2>1. http[h].req \in Request
    BY <1>3 DEF Deny, Inv, HandlerSound
  <2> QED BY <1>3, <2>1, RefuseStep DEF Deny
<1>4. CASE \/ DecideTooLate(h) \/ TakeCodeFails(h) \/ RotateTooLate(h)
           \/ RotateRefused(h) \/ InvalidInput(h)
  BY <1>4, Ends
     DEF DecideTooLate, TakeCodeFails, RotateTooLate, RotateRefused, InvalidInput
<1>5. CASE \E r \in Request : ReadCode(h, r)
  BY <1>5, ReadCodeStep
<1>6. CASE DropCode(h)
  <2>1. http[h].req \in Request /\ code[http[h].req].status # "none"
    BY <1>6 DEF DropCode, Inv, HandlerSound
  <2> QED BY <1>6, <2>1, CodeEndsStep DEF DropCode
<1>7. CASE TakeCode(h)
  BY <1>7, TakeCodeStep
<1>8. CASE \E t \in Token : CommitExchange(h, t)
  BY <1>8, CommitExchangeStep
<1>9. CASE \E t \in Token : ReadToken(h, t) \/ ReadTokenToRevoke(h, t)
  BY <1>9, ReadTokenStep
<1>10. CASE Rotate(h)
  BY <1>10, RotateStep
<1>11. CASE \E t \in Token : CommitRotate(h, t)
  BY <1>11, CommitRotateStep
<1>12. CASE RevokeFamily(h)
  BY <1>12, RevokeFamilyStep
<1>13. CASE FamilyRevoked(h)
  <2> DEFINE T == http[h].found
  <2>1. /\ \A t \in T : token[t].status # "none" /\ ~TokenHeld(t)
        /\ T \in SUBSET Token
    BY <1>13 DEF FamilyRevoked, Inv, HandlerSound, TypeOK, HandlerRow, TokenLocked
  <2>2. /\ token' = [t \in Token |-> IF t \in T
                                      THEN [token[t] EXCEPT !.status = "revoked"]
                                      ELSE token[t]]
        /\ Finish(h) /\ UNCHANGED <<client, request, code, admin>>
    BY <1>13 DEF FamilyRevoked
  <2> HIDE DEF T
  <2> QED BY <2>1, <2>2, TokensEndStep
<1> QED BY <1>1, <1>2, <1>3, <1>4, <1>5, <1>6, <1>7, <1>8, <1>9, <1>10, <1>11,
           <1>12, <1>13 DEF HandlerStep

LEMMA ExpiryInv ==
    ASSUME Inv,
           \/ \E r \in Request : ExpireRequest(r) \/ ExpireCode(r)
           \/ \E t \in Token : ExpireToken(t)
    PROVE  Inv'
<1>1. CASE \E r \in Request : ExpireRequest(r)
  BY <1>1, RefuseStep DEF ExpireRequest
<1>2. CASE \E r \in Request : ExpireCode(r)
  BY <1>2, CodeEndsStep DEF ExpireCode
<1>3. ASSUME NEW t \in Token, ExpireToken(t) PROVE Inv'
  <2>1. token' = [u \in Token |-> IF u \in {t}
                                    THEN [token[u] EXCEPT !.status = "expired"]
                                    ELSE token[u]]
    BY <1>3 DEF ExpireToken, Inv, TypeOK
  <2> QED BY <1>3, <2>1, TokensEndStep DEF ExpireToken
<1> QED BY <1>1, <1>2, <1>3

LEMMA NextInv ==
    ASSUME Inv, [Next]_vars
    PROVE  Inv'
<1>1. CASE \E h \in Handler, c \in Client :
             Authenticate(h, c) \/ \E S \in SUBSET Scope : BeginAuthorize(h, c, S)
  BY <1>1, AuthenticateStep, BeginAuthorizeStep
<1>2. CASE \E h \in Handler, r \in Request : ReadRequest(h, r)
  BY <1>2, ReadRequestStep
<1>3. CASE \E h \in Handler : HandlerStep(h) \/ Abandon(h)
  BY <1>3, HandlerStepInv, Ends DEF Abandon
<1>4. CASE \E a \in Admin, c \in Client, S \in SUBSET Scope :
             \E op \in {"update", "disable", "enable", "rotateSecret"} :
               AdminRead(a, c, op, S)
  BY <1>4, AdminReadStep
<1>5. CASE \E a \in Admin : AdminStep(a) \/ AdminAbandon(a)
  BY <1>5, AdminUpdateClientStep, AdminDeleteCodesStep, AdminConsumeRequestsStep,
     AdminCommitStep, AdminAbandonStep DEF AdminStep
<1>6. CASE \/ \E r \in Request : ExpireRequest(r) \/ ExpireCode(r)
           \/ \E t \in Token : ExpireToken(t)
  BY <1>6, ExpiryInv
<1>7. CASE UNCHANGED vars
  BY <1>7 DEF vars, Inv, TypeOK, HandlerSound, LocksExclusive, AdminSound,
     CodeHeld, ConsentsSound, VersionsSound, VersionSound, OneTokenPerConsent,
     ConsentBoundsTokens, Unrevoked, CodePresent
<1> QED BY <1>1, <1>2, <1>3, <1>4, <1>5, <1>6, <1>7 DEF Next

\* Every reachable state satisfies Inv: a handler that has read a code, a token
\* or a request finds the row it is going to change, and two transactions never
\* hold one row.
THEOREM Invariance == Spec => []Inv
<1>1. Inv /\ [Next]_vars => Inv'
  BY NextInv
<1> QED BY InitInv, <1>1, PTL DEF Spec

\* The rows and records have their shapes, and stored rows all their columns.
THEOREM TypeCorrectness == Spec => []TypeOK
<1>1. Inv => TypeOK
  BY DEF Inv
<1> QED BY Invariance, <1>1, PTL

\* One consent is never good for two usable refresh tokens, whatever the number
\* of exchanges, rotations and retries in flight.
THEOREM SingleUse == Spec => []OneTokenPerConsent
<1>1. Inv => OneTokenPerConsent
  BY DEF Inv
<1> QED BY Invariance, <1>1, PTL

\* No token goes beyond the client and the scopes its user consented to.
THEOREM ConsentRespected == Spec => []ConsentBoundsTokens
<1>1. Inv => ConsentBoundsTokens
  BY DEF Inv
<1> QED BY Invariance, <1>1, PTL

-----------------------------------------------------------------------------
(* Refused access tokens *)

\* A stored token keeps its client and version; a client's version never falls.
TokensAge ==
    /\ \A t \in Token : token[t].status # "none" =>
         /\ token'[t].status # "none"
         /\ token'[t].client = token[t].client
         /\ token'[t].ver = token[t].ver
    /\ \A c \in Client : client'[c].version >= client[c].version

LEMMA UnchangedAge ==
    ASSUME Inv, UNCHANGED <<client, token>>
    PROVE  TokensAge
BY DEF Inv, TypeOK, ClientRow, TokensAge

LEMMA StatusAge ==
    ASSUME Inv, UNCHANGED client, NEW T, NEW st, st # "none",
           token' = [t \in Token |-> IF t \in T
                                       THEN [token[t] EXCEPT !.status = st]
                                       ELSE token[t]]
    PROVE  TokensAge
<1>1. \A t \in Token :
        /\ token'[t].status = IF t \in T THEN st ELSE token[t].status
        /\ token'[t].client = token[t].client /\ token'[t].ver = token[t].ver
  BY DEF Inv, TypeOK, TokenRow
<1> QED BY <1>1 DEF Inv, TypeOK, ClientRow, TokensAge

LEMMA HandlerStepAge ==
    ASSUME Inv, NEW h \in Handler, HandlerStep(h)
    PROVE  TokensAge
<1>1. CASE \E t \in Token : CommitExchange(h, t)
  BY <1>1 DEF CommitExchange, Inv, TypeOK, ClientRow, TokensAge
<1>2. CASE \E t \in Token : CommitRotate(h, t)
  <2>1. PICK u \in Token : CommitRotate(h, u)
    BY <1>2
  <2>2. /\ token[u].status = "none" /\ UNCHANGED client
        /\ \A t \in Token \ {http[h].tok, u} : token'[t] = token[t]
    BY <2>1 DEF CommitRotate, Inv, TypeOK
  <2>3. http[h].tok \in Token /\ http[h].tok # u
    BY <2>1, <2>2 DEF CommitRotate, Inv, HandlerSound
  <2>4. token'[http[h].tok] = [token[http[h].tok] EXCEPT !.status = "revoked"]
    BY <2>1, <2>3 DEF CommitRotate, Inv, TypeOK
  <2>5. token[http[h].tok] \in TokenRow
    BY <2>3 DEF Inv, TypeOK
  <2> QED BY <2>2, <2>3, <2>4, <2>5 DEF Inv, TypeOK, ClientRow, TokenRow, TokensAge
<1>3. CASE FamilyRevoked(h)
  BY <1>3, StatusAge DEF FamilyRevoked
<1>4. CASE UNCHANGED <<client, token>>
  BY <1>4, UnchangedAge
<1> QED BY <1>1, <1>2, <1>3, <1>4 DEF HandlerStep, CreateRequest, Approve, Deny,
   DecideTooLate, ReadCode, DropCode, TakeCode, TakeCodeFails, ReadToken, Rotate,
   RotateTooLate, RotateRefused, ReadTokenToRevoke, RevokeFamily, InvalidInput, rows

LEMMA AdminCommitAge ==
    ASSUME Inv, NEW a \in Admin, AdminCommit(a)
    PROVE  TokensAge
<1> DEFINE c == admin[a].client
<1>1. /\ client' = [client EXCEPT ![c] = Updated(a, client[c])]
      /\ token' = [t \in Token |-> IF t \in admin[a].toks
                                      THEN [token[t] EXCEPT !.status = "revoked"]
                                      ELSE token[t]]
  BY DEF AdminCommit
<1>2. c \in Client
  BY DEF AdminCommit, Inv, AdminSound
<1> HIDE DEF c
<1>3. \A t \in Token : token[t].status # "none" =>
         /\ token'[t].status # "none"
         /\ token'[t].client = token[t].client
         /\ token'[t].ver = token[t].ver
  BY <1>1 DEF Inv, TypeOK, TokenRow
<1>4. Updated(a, client[c]).version >= client[c].version
  BY <1>2 DEF Inv, TypeOK, ClientRow, Updated
<1>5. \A d \in Client : client'[d].version >= client[d].version
  BY <1>1, <1>2, <1>4 DEF Inv, TypeOK, ClientRow
<1> QED BY <1>3, <1>5 DEF TokensAge

LEMMA NextAge ==
    ASSUME Inv, [Next]_vars
    PROVE  TokensAge
<1>1. CASE \E h \in Handler : HandlerStep(h)
  BY <1>1, HandlerStepAge
<1>2. CASE \E a \in Admin : AdminCommit(a)
  BY <1>2, AdminCommitAge
<1>3. ASSUME NEW t \in Token, ExpireToken(t) PROVE TokensAge
  <2>1. token' = [u \in Token |-> IF u \in {t}
                                    THEN [token[u] EXCEPT !.status = "expired"]
                                    ELSE token[u]]
    BY <1>3 DEF ExpireToken, Inv, TypeOK
  <2> QED BY <1>3, <2>1, StatusAge DEF ExpireToken
<1>4. CASE UNCHANGED <<client, token>>
  BY <1>4, UnchangedAge
<1> QED BY <1>1, <1>2, <1>3, <1>4 DEF Next, vars, rows, Authenticate,
   BeginAuthorize, ReadRequest, Abandon, AdminRead, AdminStep, AdminUpdateClient,
   AdminDeleteCodes, AdminConsumeRequests, AdminAbandon, ExpireRequest, ExpireCode

\* An access token the guard refuses is refused ever after: its version is below
\* the client's (VersionsSound), and the client's only grows.
LEMMA RefusedStays ==
    ASSUME Inv, [Next]_vars, NEW t \in Token,
           token[t].status # "none", ~Accepted(t)
    PROVE  ~Accepted(t)'
<1>1. token[t].client \in Client /\ token[t].ver \in Nat
  BY NoneAssumption DEF Inv, TypeOK, TokenRow
<1>2. /\ client[token[t].client].version \in Nat
      /\ client'[token[t].client].version \in Nat
  BY <1>1, NextInv DEF Inv, TypeOK, ClientRow
<1>3. token[t].ver < client[token[t].client].version
  <2>1. VersionSound(token[t].client, token[t].ver)
    BY DEF Inv, VersionsSound
  <2> QED BY <1>1, <1>2, <2>1 DEF VersionSound, Accepted
<1>4. /\ token'[t].client = token[t].client /\ token'[t].ver = token[t].ver
      /\ client'[token[t].client].version >= client[token[t].client].version
  BY <1>1, NextAge DEF TokensAge
<1> QED BY <1>1, <1>2, <1>3, <1>4 DEF Accepted

\* Disabling a client kills its access tokens for good, those included that were
\* being signed while it was disabled.
THEOREM RefusalIsFinal == Spec => RefusedForGood
<1>1. Inv /\ [Next]_vars =>
        [\A t \in Token :
           token[t].status # "none" /\ ~Accepted(t) => ~Accepted(t)']_vars
  BY RefusedStays
<1> QED BY Invariance, <1>1, PTL DEF Spec, RefusedForGood

-----------------------------------------------------------------------------
(***************************************************************************)
(* OAuthGrant implements ConsentLedger: seen through GrantOf, every step of *)
(* a handler, an administrator or time is one step of the ledger or none.  *)
(* Most steps that change rows withdraw some consents (Withdraws) or none. *)
(***************************************************************************)

RequestStatus ==
    {"none", "pending", "expired", "approved", "denied", "cancelled"}

\* Some refresh token of consent r can still be used.
Open(r) == \E t \in Token : token[t].origin = r /\ Unrevoked(t)

\* How far a consent has come, by its three rows.
LEMMA GrantCases ==
    ASSUME NEW r \in Request
    PROVE  /\ request[r].status = "none" => GrantOf(r) = "none"
           /\ request[r].status = "pending" => GrantOf(r) = "pending"
           /\ request[r].status \in {"expired", "denied", "cancelled"}
                => GrantOf(r) = "refused"
           /\ request[r].status = "approved" =>
                GrantOf(r) = IF CodePresent(r) THEN "approved"
                             ELSE IF Open(r) THEN "active" ELSE "closed"
BY DEF GrantOf, Open

LEMMA NextGrantCases ==
    ASSUME NEW r \in Request
    PROVE  /\ request'[r].status = "none" => GrantOf(r)' = "none"
           /\ request'[r].status = "pending" => GrantOf(r)' = "pending"
           /\ request'[r].status \in {"expired", "denied", "cancelled"}
                => GrantOf(r)' = "refused"
           /\ request'[r].status = "approved" =>
                GrantOf(r)' = IF CodePresent(r)' THEN "approved"
                              ELSE IF Open(r)' THEN "active" ELSE "closed"
BY DEF GrantOf, Open

\* What becomes of consent r in a step that does not move it.
LEMMA SameGrant ==
    ASSUME NEW r \in Request, request[r].status \in RequestStatus,
           request'[r].status = request[r].status,
           CodePresent(r)' <=> CodePresent(r),
           Open(r)' <=> Open(r)
    PROVE  GrantOf(r)' = GrantOf(r)
BY GrantCases, NextGrantCases DEF RequestStatus

-----------------------------------------------------------------------------
(* The steps of the ledger *)

Grants == [r \in Request |-> GrantOf(r)]

Withdrawn(r) ==
    \/ GrantOf(r)' = GrantOf(r)
    \/ GrantOf(r) = "pending" /\ GrantOf(r)' = "refused"
    \/ GrantOf(r) \in {"approved", "active"} /\ GrantOf(r)' = "closed"

LEMMA Withdraws ==
    ASSUME \A r \in Request : Withdrawn(r)
    PROVE  Ledger!Next
<1> DEFINE R == {r \in Request : GrantOf(r)' # GrantOf(r)}
<1>1. R \in SUBSET Request
  OBVIOUS
<1>2. Ledger!Withdraw(R)
  BY DEF Ledger!Withdraw, Withdrawn
<1> QED BY <1>1, <1>2 DEF Ledger!Next

\* One consent moves from one stage to another, and the others stay.
LEMMA Moves ==
    ASSUME NEW q \in Request,
           \A r \in Request : r # q => GrantOf(r)' = GrantOf(r)
    PROVE  /\ GrantOf(q) = "none" /\ GrantOf(q)' = "pending" => Ledger!Ask(q)
           /\ GrantOf(q) = "pending" /\ GrantOf(q)' = "approved" => Ledger!Approve(q)
           /\ GrantOf(q) = "approved" /\ GrantOf(q)' = "active" => Ledger!Redeem(q)
BY DEF Ledger!Ask, Ledger!Approve, Ledger!Redeem

LEMMA GrantFacts ==
    ASSUME Inv, NEW r \in Request
    PROVE  /\ request[r].status \in RequestStatus
           /\ CodePresent(r) => request[r].status = "approved" /\ ~Open(r)
<1>1. request[r].status \in RequestStatus
  BY DEF Inv, TypeOK, RequestRow, RequestStatus
<1>2. CodePresent(r) => request[r].status = "approved"
  BY DEF Inv, ConsentsSound, CodePresent
<1>3. Open(r) => code[r].status = "gone"
  BY DEF Open, Unrevoked, Inv, ConsentsSound
<1> QED BY <1>1, <1>2, <1>3 DEF CodePresent

\* A step in which undecided requests may be refused, codes may go and tokens
\* may be revoked, and nothing else happens to the rows.
LEMMA Shrinks ==
    ASSUME Inv,
           \A r \in Request :
             \/ request'[r].status = request[r].status
             \/ /\ request[r].status \in {"pending", "expired", "cancelled"}
                /\ request'[r].status \in {"expired", "denied", "cancelled"},
           \A r \in Request : CodePresent(r)' => CodePresent(r),
           \A t \in Token : Unrevoked(t)' => Unrevoked(t),
           \A t \in Token : token'[t].origin = token[t].origin
    PROVE  Ledger!Next
<1> SUFFICES ASSUME NEW r \in Request PROVE Withdrawn(r)
  BY Withdraws
<1>1. /\ request[r].status \in RequestStatus
      /\ CodePresent(r) => request[r].status = "approved" /\ ~Open(r)
  BY GrantFacts
<1>2. Open(r)' => Open(r)
  BY DEF Open
<1>3. CASE request'[r].status # request[r].status
  BY <1>3, GrantCases, NextGrantCases DEF Withdrawn
<1>4. CASE request'[r].status = request[r].status /\ request[r].status = "approved"
  BY <1>1, <1>2, <1>4, GrantCases, NextGrantCases DEF Withdrawn
<1>5. CASE request'[r].status = request[r].status /\ request[r].status # "approved"
  BY <1>1, <1>5, GrantCases, NextGrantCases DEF Withdrawn, RequestStatus
<1> QED BY <1>3, <1>4, <1>5

LEMMA RowsStay ==
    ASSUME Inv, UNCHANGED <<request, code, token>>
    PROVE  Ledger!Next
BY Shrinks DEF CodePresent, Unrevoked

-----------------------------------------------------------------------------
(* The steps of the server *)

LEMMA CreateRequestAsks ==
    ASSUME Inv, NEW h \in Handler, NEW q \in Request, CreateRequest(h, q)
    PROVE  Ledger!Next
<1>1. /\ request[q].status = "none" /\ request'[q].status = "pending"
      /\ \A r \in Request : r # q => request'[r] = request[r]
      /\ UNCHANGED <<code, token>>
  BY DEF CreateRequest, Inv, TypeOK
<1>2. \A r \in Request : r # q => GrantOf(r)' = GrantOf(r)
  BY <1>1, GrantFacts, SameGrant DEF Open, CodePresent, Unrevoked
<1>3. GrantOf(q) = "none" /\ GrantOf(q)' = "pending"
  BY <1>1, GrantCases, NextGrantCases
<1> QED BY <1>2, <1>3, Moves DEF Ledger!Next

LEMMA ApproveApproves ==
    ASSUME Inv, NEW h \in Handler, NEW S \in SUBSET Scope, Approve(h, S)
    PROVE  Ledger!Next
<1>1. PICK q \in Request : q = http[h].req
  BY DEF Approve, Inv, HandlerSound
<1>2. /\ request[q].status = "pending"
      /\ request' = [request EXCEPT ![q].status = "approved"]
      /\ code' = [code EXCEPT ![q] = [status |-> "issued", scopes |-> S]]
      /\ UNCHANGED token
  BY <1>1 DEF Approve
<1>3. /\ request'[q].status = "approved" /\ code'[q].status = "issued"
      /\ \A r \in Request : r # q => request'[r] = request[r] /\ code'[r] = code[r]
  BY <1>1, <1>2 DEF Inv, TypeOK, RequestRow
<1>4. \A r \in Request : r # q => GrantOf(r)' = GrantOf(r)
  BY <1>2, <1>3, GrantFacts, SameGrant DEF Open, CodePresent, Unrevoked
<1>5. GrantOf(q) = "pending"
  BY <1>1, <1>2, GrantCases
<1>6. GrantOf(q)' = "approved"
  BY <1>1, <1>3, NextGrantCases DEF CodePresent
<1>7. Ledger!Approve(q)
  BY <1>1, <1>4, <1>5, <1>6, Moves
<1> QED BY <1>1, <1>7 DEF Ledger!Next

LEMMA RefusalWithdraws ==
    ASSUME Inv, NEW q \in Request, NEW st \in {"expired", "denied"},
           request[q].status = "pending",
           request' = [request EXCEPT ![q].status = st],
           UNCHANGED <<code, token>>
    PROVE  Ledger!Next
<1>1. \A r \in Request :
        request'[r].status = IF r = q THEN st ELSE request[r].status
  BY DEF Inv, TypeOK, RequestRow
<1> QED BY <1>1, Shrinks DEF CodePresent, Unrevoked

LEMMA CodeWithdraws ==
    ASSUME Inv, NEW q \in Request, NEW st \in {"expired", "gone"},
           st = "expired" => code[q].status = "issued",
           code' = [code EXCEPT ![q].status = st],
           UNCHANGED <<request, token>>
    PROVE  Ledger!Next
<1>1. \A r \in Request :
        code'[r].status = IF r = q THEN st ELSE code[r].status
  BY DEF Inv, TypeOK, CodeRow
<1> QED BY <1>1, Shrinks DEF CodePresent, Unrevoked

LEMMA TokensWithdraw ==
    ASSUME Inv, NEW T \in SUBSET Token, NEW st \in {"expired", "revoked"},
           st = "expired" => \A t \in T : token[t].status = "live",
           token' = [t \in Token |-> IF t \in T THEN [token[t] EXCEPT !.status = st]
                                                ELSE token[t]],
           UNCHANGED <<request, code>>
    PROVE  Ledger!Next
<1>1. \A t \in Token :
        /\ token'[t].status = IF t \in T THEN st ELSE token[t].status
        /\ token'[t].origin = token[t].origin
  BY DEF Inv, TypeOK, TokenRow
<1> QED BY <1>1, Shrinks DEF CodePresent, Unrevoked

\* The code of consent r becomes its first token.
LEMMA ExchangeRedeems ==
    ASSUME Inv, NEW h \in Handler, NEW t \in Token, CommitExchange(h, t)
    PROVE  Ledger!Next
<1>0. PICK q \in Request : q = http[h].req /\ CodePresent(q)
  BY DEF CommitExchange, Inv, HandlerSound
<1> DEFINE n == NewToken(h, q, t)
<1>1. /\ http[h].pc = "codeTaken" /\ token[t].status = "none"
      /\ code' = [code EXCEPT ![q].status = "gone"]
      /\ token' = [token EXCEPT ![t] = n]
      /\ UNCHANGED request
  BY <1>0 DEF CommitExchange
<1>2. q \in Request /\ CodePresent(q)
  BY <1>0
<1>3. n.status = "live" /\ n.origin = q
  BY <1>1, <1>2, NewTokenFacts
<1> HIDE DEF n
<1>4. /\ code'[q].status = "gone"
      /\ \A r \in Request : r # q => code'[r] = code[r]
  BY <1>1, <1>2 DEF Inv, TypeOK, CodeRow
<1>5. token'[t] = n /\ \A u \in Token : u # t => token'[u] = token[u]
  BY <1>1 DEF Inv, TypeOK
<1>6. request[q].status = "approved"
  BY <1>2, GrantFacts
<1>7. GrantOf(q) = "approved"
  BY <1>2, <1>6 DEF GrantOf
<1>8. Open(q)'
  <2>1. token'[t].origin = q /\ Unrevoked(t)'
    BY <1>3, <1>5 DEF Unrevoked
  <2> QED BY <2>1 DEF Open
<1>9. GrantOf(q)' = "active"
  BY <1>1, <1>2, <1>4, <1>6, <1>8, NextGrantCases DEF CodePresent
<1>10. ASSUME NEW r \in Request, r # q PROVE GrantOf(r)' = GrantOf(r)
  <2>1. Open(r)' <=> Open(r)
    BY <1>1, <1>3, <1>5, <1>10 DEF Open, Unrevoked
  <2>2. CodePresent(r)' <=> CodePresent(r)
    BY <1>4, <1>10 DEF CodePresent
  <2> QED BY <1>1, <2>1, <2>2, GrantFacts, SameGrant
<1>11. Ledger!Redeem(q)
  BY <1>2, <1>7, <1>9, <1>10, Moves
<1> QED BY <1>2, <1>11 DEF Ledger!Next

\* The successor takes the place of the token it was rotated from.
LEMMA RotationStays ==
    ASSUME Inv, NEW h \in Handler, NEW u \in Token, CommitRotate(h, u)
    PROVE  Ledger!Next
<1> DEFINE t == http[h].tok
           q == token[t].origin
           n == NewToken(h, q, token[t].family)
<1>1. /\ http[h].pc = "rotated" /\ token[u].status = "none"
      /\ token' = [token EXCEPT ![t].status = "revoked", ![u] = n]
      /\ UNCHANGED <<request, code>>
  BY DEF CommitRotate
<1>2. t \in Token /\ Unrevoked(t)
  BY <1>1 DEF Inv, HandlerSound
<1>3. q \in Request /\ token[t].family \in Token
  BY <1>2 DEF Inv, TypeOK, TokenRow, Unrevoked
<1>4. n.status = "live" /\ n.origin = q
  BY <1>1, <1>3, NewTokenFacts
<1>5. t # u /\ token[t].origin = q
  BY <1>1, <1>2 DEF Unrevoked
<1> HIDE DEF n, q, t
<1>6. /\ token'[u] = n /\ token'[t].status = "revoked"
      /\ \A v \in Token : v # t /\ v # u => token'[v] = token[v]
  BY <1>1, <1>2, <1>5 DEF Inv, TypeOK, TokenRow
<1> SUFFICES ASSUME NEW r \in Request PROVE Withdrawn(r)
  BY Withdraws
<1>7. Open(r)' <=> Open(r)
  <2>1. CASE r = q
    BY <1>2, <1>4, <1>5, <1>6, <2>1 DEF Open, Unrevoked
  <2>2. CASE r # q
    BY <1>1, <1>4, <1>5, <1>6, <2>2 DEF Open, Unrevoked
  <2> QED BY <2>1, <2>2
<1>8. CodePresent(r)' <=> CodePresent(r)
  BY <1>1 DEF CodePresent
<1> QED BY <1>1, <1>7, <1>8, GrantFacts, SameGrant DEF Withdrawn

\* Whatever an administrator commits, consents are at most withdrawn.
LEMMA AdminWithdraws ==
    ASSUME Inv, NEW a \in Admin, AdminCommit(a)
    PROVE  Ledger!Next
<1>1. /\ token' = [t \in Token |-> IF t \in admin[a].toks
                                      THEN [token[t] EXCEPT !.status = "revoked"]
                                      ELSE token[t]]
      /\ code' = [r \in Request |-> IF r \in admin[a].codes
                                       THEN [code[r] EXCEPT !.status = "gone"]
                                       ELSE code[r]]
      /\ request' = [r \in Request |-> IF r \in admin[a].reqs
                                          THEN [request[r] EXCEPT !.status = "cancelled"]
                                          ELSE request[r]]
  BY DEF AdminCommit
<1>2. \A r \in admin[a].reqs :
        request[r].status \in {"pending", "expired", "cancelled"}
  BY DEF Inv, AdminSound
<1>3. \A t \in Token :
        /\ token'[t].status = token[t].status \/ token'[t].status = "revoked"
        /\ token'[t].origin = token[t].origin
  BY <1>1 DEF Inv, TypeOK, TokenRow
<1>4. \A r \in Request :
        code'[r].status = code[r].status \/ code'[r].status = "gone"
  BY <1>1 DEF Inv, TypeOK, CodeRow
<1>5. \A r \in Request :
        \/ request'[r].status = request[r].status
        \/ request'[r].status = "cancelled" /\ r \in admin[a].reqs
  BY <1>1 DEF Inv, TypeOK, RequestRow
<1> QED BY <1>2, <1>3, <1>4, <1>5, Shrinks DEF CodePresent, Unrevoked

LEMMA HandlerStepKeeps ==
    ASSUME Inv, NEW h \in Handler, HandlerStep(h)
    PROVE  Ledger!Next
<1>1. CASE \E r \in Request : CreateRequest(h, r)
  BY <1>1, CreateRequestAsks
<1>2. CASE \E S \in SUBSET Scope : Approve(h, S)
  BY <1>2, ApproveApproves
<1>3. CASE Deny(h)
  <2>1. http[h].req \in Request
    BY <1>3 DEF Deny, Inv, HandlerSound
  <2> QED BY <1>3, <2>1, RefusalWithdraws DEF Deny
<1>4. CASE DropCode(h)
  <2>1. http[h].req \in Request
    BY <1>4 DEF DropCode, Inv, HandlerSound
  <2> QED BY <1>4, <2>1, CodeWithdraws DEF DropCode
<1>5. CASE \E t \in Token : CommitExchange(h, t)
  BY <1>5, ExchangeRedeems
<1>6. CASE \E t \in Token : CommitRotate(h, t)
  BY <1>6, RotationStays
<1>7. CASE FamilyRevoked(h)
  <2>1. http[h].found \in SUBSET Token
    BY DEF Inv, TypeOK, HandlerRow
  <2> QED BY <1>7, <2>1, TokensWithdraw DEF FamilyRevoked
<1>8. CASE UNCHANGED <<request, code, token>>
  BY <1>8, RowsStay
<1> QED BY <1>1, <1>2, <1>3, <1>4, <1>5, <1>6, <1>7, <1>8 DEF HandlerStep,
   DecideTooLate, ReadCode, TakeCode, TakeCodeFails, ReadToken, Rotate,
   RotateTooLate, RotateRefused, ReadTokenToRevoke, RevokeFamily, InvalidInput, rows

LEMMA NextKeeps ==
    ASSUME Inv, [Next]_vars
    PROVE  Ledger!Next
<1>1. CASE \E h \in Handler : HandlerStep(h)
  BY <1>1, HandlerStepKeeps
<1>2. CASE \E a \in Admin : AdminCommit(a)
  BY <1>2, AdminWithdraws
<1>3. CASE \E r \in Request : ExpireRequest(r) \/ ExpireCode(r)
  BY <1>3, RefusalWithdraws, CodeWithdraws DEF ExpireRequest, ExpireCode
<1>4. ASSUME NEW t \in Token, ExpireToken(t) PROVE Ledger!Next
  <2>1. token' = [u \in Token |-> IF u \in {t}
                                    THEN [token[u] EXCEPT !.status = "expired"]
                                    ELSE token[u]]
    BY <1>4 DEF ExpireToken, Inv, TypeOK
  <2> QED BY <1>4, <2>1, TokensWithdraw DEF ExpireToken
<1>5. CASE UNCHANGED <<request, code, token>>
  BY <1>5, RowsStay
<1> QED BY <1>1, <1>2, <1>3, <1>4, <1>5 DEF Next, vars, rows, Authenticate,
   BeginAuthorize, ReadRequest, Abandon, AdminRead, AdminStep, AdminUpdateClient,
   AdminDeleteCodes, AdminConsumeRequests, AdminAbandon

\* The authorization server keeps the promise of ConsentLedger: a consent is
\* decided once, redeemed once, and never opens again once it is closed.
THEOREM LedgerKept == Spec => KeepsLedger
<1>1. Init => Ledger!Init
  BY GrantCases DEF Init, Ledger!Init, NoRequest
<1>2. Inv /\ [Next]_vars => [Ledger!Next]_Grants
  BY NextKeeps
<1> QED BY Invariance, <1>1, <1>2, PTL DEF Spec, KeepsLedger, Ledger!Spec, Grants
=============================================================================
