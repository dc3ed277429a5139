----------------------------- MODULE OAuthGrant -----------------------------
(***************************************************************************)
(* The OAuth 2.0 authorization server of apps/api: consent requests,       *)
(* authorization codes, refresh-token families, and the administration of  *)
(* the clients they belong to (OAuthGrantService, OAuthClientAdminService).*)
(*                                                                         *)
(* Every HTTP request is a handler that suspends at each await, so two     *)
(* handlers interleave between the statements they send to PostgreSQL.     *)
(* The database is the four row variables; they hold COMMITTED rows, under *)
(* READ COMMITTED isolation:                                               *)
(*   - a plain read sees the committed rows;                               *)
(*   - an UPDATE or DELETE finds its rows in a snapshot, waits for the     *)
(*     locks other transactions hold on them, and then acts on those that  *)
(*     still satisfy its condition.  Rows that commit while it waits are   *)
(*     not in its snapshot;                                                *)
(*   - what a transaction wrote shows when it commits; if it throws, it    *)
(*     never shows.                                                        *)
(* A row lock is not a variable: which handler holds it follows from where *)
(* that handler is (CodeHeld, TokenHeld, and the row sets of admin).       *)
(*                                                                         *)
(* One id stands for an authorization request and for the one code that    *)
(* approving it creates.  A family is named by its first token.  The       *)
(* access token signed with a refresh token is represented by the ver and  *)
(* scopes of that token's row.  "expired" is set by time and not stored.   *)
(***************************************************************************)
EXTENDS Naturals, FiniteSets

CONSTANTS
    Client,     \* OAuth clients (rows of oauth_clients that are not isSystem)
    Request,    \* ids of authorization requests, and of the codes they yield
    Token,      \* ids of refresh tokens
    Scope,      \* permission codes a client may be allowed
    Handler,    \* concurrent requests to the OAuth endpoints
    Admin,      \* concurrent requests to the client administration endpoints
    MaxVersion, \* bound on credentialVersion
    None        \* the absent id

ASSUME NoneAssumption == None \notin Client \cup Request \cup Token

ASSUME MaxVersionAssumption == MaxVersion \in Nat

VARIABLES
    client,     \* oauth_clients: status, credentialVersion, scopes
    request,    \* oauth_authorization_requests
    code,       \* oauth_auth_codes, by the request that was approved
    token,      \* oauth_tokens
    http,       \* what each handler of the OAuth endpoints has read so far
    admin       \* the same for the administration handlers

rows == <<client, request, code, token>>
vars == <<client, request, code, token, http, admin>>

-----------------------------------------------------------------------------
(* Rows and handler records *)

ClientRow == [status : {"ACTIVE", "DISABLED"}, version : Nat \ {0},
              scopes : SUBSET Scope]

\* consumedAt is null for "pending" and "expired"; the other values also say
\* who consumed the request.
RequestRow == [status : {"none", "pending", "expired", "approved", "denied",
                         "cancelled"},
               client : Client \cup {None}, scopes : SUBSET Scope]

CodeRow == [status : {"none", "issued", "expired", "gone"},
            scopes : SUBSET Scope]

TokenRow == [status : {"none", "live", "expired", "revoked"},
             client : Client \cup {None}, origin : Request \cup {None},
             family : Token \cup {None}, ver : Nat, scopes : SUBSET Scope]

HandlerRow == [pc : {"idle", "authorizing", "deciding", "authed", "codeRead",
                     "dropCode", "codeTaken", "tokenRead", "rotated",
                     "mustRevoke", "revoking"},
               client : Client \cup {None}, req : Request \cup {None},
               tok : Token \cup {None}, ver : Nat, scopes : SUBSET Scope,
               found : SUBSET Token]

AdminRow == [pc : {"idle", "read", "revoking", "clearing", "cancelling"},
             op : {"update", "disable", "enable", "rotateSecret"},
             client : Client \cup {None}, scopes : SUBSET Scope,
             changed : BOOLEAN, toks : SUBSET Token, codes : SUBSET Request,
             reqs : SUBSET Request]

IdleHandler == [pc |-> "idle", client |-> None, req |-> None, tok |-> None,
                ver |-> 0, scopes |-> {}, found |-> {}]

IdleAdmin == [pc |-> "idle", op |-> "update", client |-> None, scopes |-> {},
              changed |-> FALSE, toks |-> {}, codes |-> {}, reqs |-> {}]

NoRequest == [status |-> "none", client |-> None, scopes |-> {}]
NoCode == [status |-> "none", scopes |-> {}]
NoToken == [status |-> "none", client |-> None, origin |-> None,
            family |-> None, ver |-> 0, scopes |-> {}]

\* The row exists and its revoked column is false, whatever its expiresAt.
Unrevoked(t) == token[t].status \in {"live", "expired"}

CodePresent(r) == code[r].status \in {"issued", "expired"}

InFlight == {h \in Handler : http[h].pc # "idle"}

\* Row locks held by the transactions of the token endpoint.
CodeHeld(r) == \E h \in Handler : http[h].pc = "codeTaken" /\ http[h].req = r
TokenHeld(t) == \E h \in Handler : http[h].pc = "rotated" /\ http[h].tok = t

\* Row locks held by any transaction.
CodeLocked(r) == CodeHeld(r) \/ \E a \in Admin : r \in admin[a].codes
TokenLocked(t) == TokenHeld(t) \/ \E a \in Admin : t \in admin[a].toks
RequestLocked(r) == \E a \in Admin : r \in admin[a].reqs
ClientLocked(c) == \E a \in Admin : /\ admin[a].client = c
                                    /\ admin[a].pc \notin {"idle", "read"}

Finish(h) == http' = [http EXCEPT ![h] = IdleHandler]

-----------------------------------------------------------------------------
Init ==
    /\ client \in [Client -> [status : {"ACTIVE"}, version : {1},
                              scopes : (SUBSET Scope) \ {{}}]]
    /\ request = [r \in Request |-> NoRequest]
    /\ code = [r \in Request |-> NoCode]
    /\ token = [t \in Token |-> NoToken]
    /\ http = [h \in Handler |-> IdleHandler]
    /\ admin = [a \in Admin |-> IdleAdmin]

-----------------------------------------------------------------------------
(* Consent: create, approve or deny an authorization request *)

\* The client is read and the asked scopes S are checked against it.  The
\* bound keeps a request id for every handler in flight.
BeginAuthorize(h, c, S) ==
    /\ http[h].pc = "idle"
    /\ client[c].status = "ACTIVE"
    /\ Cardinality({r \in Request : request[r].status = "none"})
         > Cardinality(InFlight)
    /\ S # {} /\ S \subseteq client[c].scopes
    /\ http' = [http EXCEPT ![h] =
                  [@ EXCEPT !.pc = "authorizing", !.client = c,
                            !.scopes = S]]
    /\ UNCHANGED <<rows, admin>>

CreateRequest(h, r) ==
    /\ http[h].pc = "authorizing"
    /\ request[r].status = "none"
    /\ request' = [request EXCEPT ![r] = [status |-> "pending",
                       client |-> http[h].client, scopes |-> http[h].scopes]]
    /\ Finish(h)
    /\ UNCHANGED <<client, code, token, admin>>

\* requireActiveAuthorizationRequest.
ReadRequest(h, r) ==
    /\ http[h].pc = "idle"
    /\ request[r].status = "pending"
    /\ client[request[r].client].status = "ACTIVE"
    /\ http' = [http EXCEPT ![h] =
                  [@ EXCEPT !.pc = "deciding", !.req = r]]
    /\ UNCHANGED <<rows, admin>>

\* The user selected the scopes S; her permissions and membership allow them.
Approve(h, S) ==
    LET r == http[h].req IN
    /\ http[h].pc = "deciding"
    /\ S # {} /\ S \subseteq request[r].scopes
    /\ ~RequestLocked(r)
    /\ request[r].status = "pending"
    /\ request' = [request EXCEPT ![r].status = "approved"]
    /\ code' = [code EXCEPT ![r] = [status |-> "issued", scopes |-> S]]
    /\ Finish(h)
    /\ UNCHANGED <<client, token, admin>>

Deny(h) ==
    LET r == http[h].req IN
    /\ http[h].pc = "deciding"
    /\ ~RequestLocked(r)
    /\ request[r].status = "pending"
    /\ request' = [request EXCEPT ![r].status = "denied"]
    /\ Finish(h)
    /\ UNCHANGED <<client, code, token, admin>>

\* The conditional update of Approve or Deny found no row.
DecideTooLate(h) ==
    /\ http[h].pc = "deciding"
    /\ ~RequestLocked(http[h].req)
    /\ request[http[h].req].status # "pending"
    /\ Finish(h)
    /\ UNCHANGED <<rows, admin>>

-----------------------------------------------------------------------------
(* Token endpoint *)

\* The client that authenticated is the one the row belongs to.
Owner(h, c) == c = http[h].client

\* Whether deleteMany of the code counts 1.  (CodeUncounted: not looked at.)
CodeUncounted(r) == TRUE
CodeUnspent(r) == CodePresent(r)

\* Whether updateMany on revoked: false counts 1.  (TokenUncounted: likewise.)
TokenUncounted(t) == TRUE
TokenUnspent(t) == Unrevoked(t)

\* The row generateTokens inserts, of family f and for consent r.
NewToken(h, r, f) ==
    [status |-> "live", client |-> http[h].client, origin |-> r,
     family |-> f, ver |-> http[h].ver, scopes |-> http[h].scopes]

\* validateClient.  The bound keeps a token id for every handler in flight.
Authenticate(h, c) ==
    /\ http[h].pc = "idle"
    /\ client[c].status = "ACTIVE"
    /\ Cardinality({t \in Token : token[t].status = "none"})
         > Cardinality(InFlight)
    /\ http' = [http EXCEPT ![h] =
                  [@ EXCEPT !.pc = "authed", !.client = c]]
    /\ UNCHANGED <<rows, admin>>

ReadCode(h, r) ==
    /\ http[h].pc = "authed"
    /\ CodePresent(r)
    /\ Owner(h, request[r].client)
    /\ http' = [http EXCEPT ![h] =
                  [@ EXCEPT !.req = r,
                            !.pc = IF code[r].status = "issued"
                                     THEN "codeRead" ELSE "dropCode"]]
    /\ UNCHANGED <<rows, admin>>

\* An expired code is deleted before the request is refused.
DropCode(h) ==
    LET r == http[h].req IN
    /\ http[h].pc = "dropCode"
    /\ ~CodeLocked(r)
    /\ code' = [code EXCEPT ![r].status = "gone"]
    /\ Finish(h)
    /\ UNCHANGED <<client, request, token, admin>>

\* First half of the exchange transaction: delete the code, read the client.
TakeCode(h) ==
    LET r == http[h].req
        c == http[h].client IN
    /\ http[h].pc = "codeRead"
    /\ ~CodeLocked(r)
    /\ CodeUnspent(r)
    /\ client[c].status = "ACTIVE"
    /\ http' = [http EXCEPT ![h] =
                  [@ EXCEPT !.pc = "codeTaken",
                            !.ver = client[c].version,
                            !.scopes = code[r].scopes \cap client[c].scopes]]
    /\ UNCHANGED <<rows, admin>>

\* The code was used already, or the client is disabled: nothing is written.
TakeCodeFails(h) ==
    LET r == http[h].req IN
    /\ http[h].pc = "codeRead"
    /\ ~CodeLocked(r)
    /\ ~CodeUnspent(r) \/ client[http[h].client].status # "ACTIVE"
    /\ Finish(h)
    /\ UNCHANGED <<rows, admin>>

\* Second half: insert the first token t of a new family and commit.
CommitExchange(h, t) ==
    LET r == http[h].req IN
    /\ http[h].pc = "codeTaken"
    /\ token[t].status = "none"
    /\ code' = [code EXCEPT ![r].status = "gone"]
    /\ token' = [token EXCEPT ![t] = NewToken(h, r, t)]
    /\ Finish(h)
    /\ UNCHANGED <<client, request, admin>>

\* Only an unrevoked, unexpired token goes on to be rotated; any other one
\* has its family revoked.
ReadToken(h, t) ==
    /\ http[h].pc = "authed"
    /\ token[t].status # "none"
    /\ Owner(h, token[t].client)
    /\ http' = [http EXCEPT ![h] =
                  [@ EXCEPT !.tok = t,
                            !.pc = IF token[t].status = "live"
                                     THEN "tokenRead" ELSE "mustRevoke"]]
    /\ UNCHANGED <<rows, admin>>

\* First half of the rotation transaction: revoke the row if it is still
\* unrevoked, and read the client.  (RotateWidens: the successor has all the
\* scopes the client has by now.)
RotateWidens(h) ==
    LET t == http[h].tok
        c == http[h].client IN
    /\ http[h].pc = "tokenRead"
    /\ ~TokenLocked(t)
    /\ TokenUnspent(t)
    /\ client[c].status = "ACTIVE"
    /\ http' = [http EXCEPT ![h] =
                  [@ EXCEPT !.pc = "rotated",
                            !.ver = client[c].version,
                            !.scopes = client[c].scopes]]
    /\ UNCHANGED <<rows, admin>>
Rotate(h) ==
    LET t == http[h].tok
        c == http[h].client IN
    /\ http[h].pc = "tokenRead"
    /\ ~TokenLocked(t)
    /\ TokenUnspent(t)
    /\ client[c].status = "ACTIVE"
    /\ http' = [http EXCEPT ![h] =
                  [@ EXCEPT !.pc = "rotated",
                            !.ver = client[c].version,
                            !.scopes = token[t].scopes \cap client[c].scopes]]
    /\ UNCHANGED <<rows, admin>>

\* The conditional update matched no row.  The revocation of the family that
\* follows is rolled back by the exception thrown right after it.
RotateTooLate(h) ==
    /\ http[h].pc = "tokenRead"
    /\ ~TokenLocked(http[h].tok)
    /\ ~TokenUnspent(http[h].tok)
    /\ Finish(h)
    /\ UNCHANGED <<rows, admin>>

\* generateTokens throws because the client is disabled.
RotateRefused(h) ==
    /\ http[h].pc = "tokenRead"
    /\ ~TokenLocked(http[h].tok)
    /\ TokenUnspent(http[h].tok)
    /\ client[http[h].client].status # "ACTIVE"
    /\ Finish(h)
    /\ UNCHANGED <<rows, admin>>

\* Second half: insert the successor u and commit.
CommitRotate(h, u) ==
    LET t == http[h].tok IN
    /\ http[h].pc = "rotated"
    /\ token[u].status = "none"
    /\ token' = [token EXCEPT
                   ![t].status = "revoked",
                   ![u] = NewToken(h, token[t].origin, token[t].family)]
    /\ Finish(h)
    /\ UNCHANGED <<client, request, code, admin>>

-----------------------------------------------------------------------------
(* Revocation of a family, by the revoke endpoint or by a reused token *)

ReadTokenToRevoke(h, t) ==
    /\ http[h].pc = "authed"
    /\ token[t].status # "none"
    /\ Owner(h, token[t].client)
    /\ http' = [http EXCEPT ![h] =
                  [@ EXCEPT !.pc = "mustRevoke", !.tok = t]]
    /\ UNCHANGED <<rows, admin>>

FamilyOf(t) ==
    {u \in Token : token[u].family = token[t].family /\ Unrevoked(u)}

\* The snapshot of revokeFamily's updateMany ...
RevokeFamily(h) ==
    /\ http[h].pc = "mustRevoke"
    /\ http' = [http EXCEPT ![h] =
                  [@ EXCEPT !.pc = "revoking",
                            !.found = FamilyOf(http[h].tok)]]
    /\ UNCHANGED <<rows, admin>>

\* ... and its effect, once nobody else holds the rows it found.
FamilyRevoked(h) ==
    /\ http[h].pc = "revoking"
    /\ \A t \in http[h].found : ~TokenLocked(t)
    /\ token' = [t \in Token |-> IF t \in http[h].found
                                   THEN [token[t] EXCEPT !.status = "revoked"]
                                   ELSE token[t]]
    /\ Finish(h)
    /\ UNCHANGED <<client, request, code, admin>>

\* A check on the input fails: unknown code or token, another client's, wrong
\* PKCE verifier or redirect URI, scopes or organization not the user's.
InvalidInput(h) ==
    /\ http[h].pc \in {"authed", "deciding"}
    /\ Finish(h)
    /\ UNCHANGED <<rows, admin>>

\* The connection drops or the process dies: an open transaction is rolled back.
Abandon(h) ==
    /\ http[h].pc # "idle"
    /\ Finish(h)
    /\ UNCHANGED <<rows, admin>>

-----------------------------------------------------------------------------
(* Client administration *)

\* requireMutableClient, outside the transaction.  S is the scopes value that
\* update is going to write: a new one, or the one just read when the dto has
\* none; changed compares it with the row read HERE.
AdminRead(a, c, op, S) ==
    /\ admin[a].pc = "idle"
    /\ op = "disable" => client[c].status = "ACTIVE"
    /\ op = "enable" => client[c].status = "DISABLED"
    /\ IF op = "update" THEN S # {} ELSE S = client[c].scopes
    /\ client[c].version + Cardinality({b \in Admin : admin[b].pc # "idle"})
         < MaxVersion
    /\ admin' = [admin EXCEPT ![a] =
                  [@ EXCEPT !.pc = "read", !.op = op,
                            !.client = c, !.scopes = S,
                            !.changed = (S # client[c].scopes)]]
    /\ UNCHANGED <<rows, http>>

\* Does the operation revoke the refresh tokens of the client?
Revokes(a) == admin[a].op \in {"disable", "rotateSecret"} \/ admin[a].changed

\* The rows of a client that disabling takes away.
TokensOf(c) == {t \in Token : token[t].client = c /\ Unrevoked(t)}
CodesOf(c) == {r \in Request : request[r].client = c /\ CodePresent(r)}
UndecidedOf(c) == {r \in Request : /\ request[r].client = c
                                   /\ request[r].status \in {"pending", "expired"}}

\* The transaction updates the client row, which it holds from then on, and
\* takes the snapshot of revokeRefreshTokens.
AdminUpdateClient(a) ==
    LET c == admin[a].client IN
    /\ admin[a].pc = "read"
    /\ ~ClientLocked(c)
    /\ admin' = [admin EXCEPT ![a] =
                  [@ EXCEPT !.pc = "revoking",
                            !.toks = IF Revokes(a) THEN TokensOf(c) ELSE {}]]
    /\ UNCHANGED <<rows, http>>

\* disable goes on to the authorization codes when it has its tokens ...
AdminDeleteCodes(a) ==
    /\ admin[a].pc = "revoking" /\ admin[a].op = "disable"
    /\ \A t \in admin[a].toks : ~TokenHeld(t)
    /\ admin' = [admin EXCEPT ![a] =
                  [@ EXCEPT !.pc = "clearing",
                            !.codes = CodesOf(admin[a].client)]]
    /\ UNCHANGED <<rows, http>>

\* ... and to the requests nobody has decided when it has its codes.
AdminConsumeRequests(a) ==
    /\ admin[a].pc = "clearing"
    /\ \A r \in admin[a].codes : ~CodeHeld(r)
    /\ admin' = [admin EXCEPT ![a] =
                  [@ EXCEPT !.pc = "cancelling",
                            !.reqs = UndecidedOf(admin[a].client)]]
    /\ UNCHANGED <<rows, http>>

\* Does the operation increment credentialVersion?  (BumpsForScopes: disable
\* was forgotten.)
BumpsForScopes(a) == admin[a].changed
Bumps(a) == admin[a].op = "disable" \/ admin[a].changed

\* The client row as the operation leaves it.
Updated(a, row) ==
    [status  |-> CASE admin[a].op = "disable" -> "DISABLED"
                   [] admin[a].op = "enable" -> "ACTIVE"
                   [] OTHER -> row.status,
     version |-> row.version + (IF Bumps(a) THEN 1 ELSE 0),
     scopes  |-> IF admin[a].op = "update" THEN admin[a].scopes ELSE row.scopes]

\* Fault: the transaction is answered but left open, with its row locks.
AdminLeftOpen(a) ==
    /\ admin[a].pc = IF admin[a].op = "disable" THEN "cancelling" ELSE "revoking"
    /\ \A t \in admin[a].toks : ~TokenHeld(t)
    /\ admin' = [admin EXCEPT ![a] = [@ EXCEPT !.pc = "idle"]]
    /\ UNCHANGED <<rows, http>>

AdminCommit(a) ==
    LET c == admin[a].client IN
    /\ admin[a].pc = IF admin[a].op = "disable" THEN "cancelling" ELSE "revoking"
    /\ \A t \in admin[a].toks : ~TokenHeld(t)
    /\ client' = [client EXCEPT ![c] = Updated(a, @)]
    /\ token' = [t \in Token |-> IF t \in admin[a].toks
                                   THEN [token[t] EXCEPT !.status = "revoked"]
                                   ELSE token[t]]
    /\ code' = [r \in Request |-> IF r \in admin[a].codes
                                    THEN [code[r] EXCEPT !.status = "gone"]
                                    ELSE code[r]]
    /\ request' = [r \in Request |->
                     IF r \in admin[a].reqs
                       THEN [request[r] EXCEPT !.status = "cancelled"]
                       ELSE request[r]]
    /\ admin' = [admin EXCEPT ![a] = IdleAdmin]
    /\ UNCHANGED http

AdminAbandon(a) ==
    /\ admin[a].pc # "idle"
    /\ admin' = [admin EXCEPT ![a] = IdleAdmin]
    /\ UNCHANGED <<rows, http>>

-----------------------------------------------------------------------------
(* Time *)

ExpireRequest(r) ==
    /\ request[r].status = "pending"
    /\ request' = [request EXCEPT ![r].status = "expired"]
    /\ UNCHANGED <<client, code, token, http, admin>>

ExpireCode(r) ==
    /\ code[r].status = "issued"
    /\ code' = [code EXCEPT ![r].status = "expired"]
    /\ UNCHANGED <<client, request, token, http, admin>>

ExpireToken(t) ==
    /\ token[t].status = "live"
    /\ token' = [token EXCEPT ![t].status = "expired"]
    /\ UNCHANGED <<client, request, code, http, admin>>

-----------------------------------------------------------------------------
\* A handler that has started goes on to its response.
HandlerStep(h) ==
    \/ \E r \in Request : CreateRequest(h, r)
    \/ \E S \in SUBSET Scope : Approve(h, S)
    \/ Deny(h)
    \/ DecideTooLate(h)
    \/ \E r \in Request : ReadCode(h, r)
    \/ DropCode(h)
    \/ TakeCode(h)
    \/ TakeCodeFails(h)
    \/ \E t \in Token : CommitExchange(h, t)
    \/ \E t \in Token : ReadToken(h, t)
    \/ Rotate(h)
    \/ RotateTooLate(h)
    \/ RotateRefused(h)
    \/ \E t \in Token : CommitRotate(h, t)
    \/ \E t \in Token : ReadTokenToRevoke(h, t)
    \/ RevokeFamily(h)
    \/ FamilyRevoked(h)
    \/ InvalidInput(h)

AdminStep(a) ==
    \/ AdminUpdateClient(a)
    \/ AdminDeleteCodes(a)
    \/ AdminConsumeRequests(a)
    \/ AdminCommit(a)

Next ==
    \/ \E h \in Handler, c \in Client :
          Authenticate(h, c) \/ \E S \in SUBSET Scope : BeginAuthorize(h, c, S)
    \/ \E h \in Handler, r \in Request : ReadRequest(h, r)
    \/ \E h \in Handler : HandlerStep(h) \/ Abandon(h)
    \/ \E a \in Admin, c \in Client, S \in SUBSET Scope :
          \E op \in {"update", "disable", "enable", "rotateSecret"} :
            AdminRead(a, c, op, S)
    \/ \E a \in Admin : AdminStep(a) \/ AdminAbandon(a)
    \/ \E r \in Request : ExpireRequest(r) \/ ExpireCode(r)
    \/ \E t \in Token : ExpireToken(t)

Spec == Init /\ [][Next]_vars

\* Node's event loop runs every continuation, and PostgreSQL grants a row lock
\* to its waiters in the order they came, so a lock that is free again and
\* again is obtained: strong fairness.  Nothing obliges a browser or a client
\* to send a request, or a process not to die.
FairSpec == /\ Spec
            /\ \A h \in Handler : SF_vars(HandlerStep(h))
            /\ \A a \in Admin : SF_vars(AdminStep(a))

-----------------------------------------------------------------------------
(* The promise *)

\* How far consent r has come, read off the rows.
GrantOf(r) ==
    CASE request[r].status = "none" -> "none"
      [] request[r].status = "pending" -> "pending"
      [] request[r].status \in {"expired", "denied", "cancelled"} -> "refused"
      [] OTHER ->
           IF CodePresent(r) THEN "approved"
           ELSE IF \E t \in Token : token[t].origin = r /\ Unrevoked(t)
                  THEN "active" ELSE "closed"

Ledger == INSTANCE ConsentLedger
            WITH grant <- [r \in Request |-> GrantOf(r)]

-----------------------------------------------------------------------------
(* Properties *)

\* Through all the races on its rows a consent moves as ConsentLedger says: in
\* particular a session that was revoked or reused is never revived by a
\* rotation that was under way, and a refused request never yields a code.
KeepsLedger == Ledger!Spec

\* The rows and the handlers' records keep their shapes.
TypeOK ==
    /\ client \in [Client -> ClientRow]
    /\ request \in [Request -> RequestRow]
    /\ code \in [Request -> CodeRow]
    /\ token \in [Token -> TokenRow]
    /\ http \in [Handler -> HandlerRow]
    /\ admin \in [Admin -> AdminRow]
    \* an inserted row has all its columns
    /\ \A r \in Request : request[r].status # "none" => request[r].client # None
    /\ \A t \in Token : token[t].status # "none" =>
         /\ token[t].client # None
         /\ token[t].origin # None
         /\ token[t].family # None

\* However exchanges, rotations and their retries race, one consent is never
\* good for two usable refresh tokens: the code is spent once (deleteMany must
\* count 1) and each token is rotated once (updateMany on revoked: false).
OneTokenPerConsent ==
    \A t, u \in Token :
        Unrevoked(t) /\ Unrevoked(u) /\ token[t].origin = token[u].origin
          => t = u

\* Through code, exchange and any number of rotations a token keeps within what
\* the user consented to, and with the client she consented to.
ConsentBoundsTokens ==
    \A t \in Token : token[t].status # "none" =>
        LET r == token[t].origin IN
        /\ request[r].status = "approved"
        /\ token[t].client = request[r].client
        /\ token[t].scopes \subseteq code[r].scopes
        /\ code[r].scopes \subseteq request[r].scopes

\* What UnifiedAuthGuard asks of the client of an access token on every request.
Accepted(t) ==
    /\ token[t].status # "none"
    /\ client[token[t].client].status = "ACTIVE"
    /\ client[token[t].client].version = token[t].ver

\* An access token the guard refuses stays refused, whatever the administrators
\* do next: disabling kills the tokens signed before, enabling again does not
\* bring them back, not even one that was being signed during the disabling.
RefusedForGood ==
    [][\A t \in Token :
         token[t].status # "none" /\ ~Accepted(t) => ~Accepted(t)']_vars

\* No lock wait lasts for ever: every request to the server gets its answer.
HandlersFinish ==
    \A h \in Handler : http[h].pc # "idle" ~> http[h].pc = "idle"

-----------------------------------------------------------------------------
(* The inductive invariant behind the safety properties *)

\* What a handler has read is still there to be acted on: rows are never taken
\* away from a transaction that holds them.
HandlerSound(h) ==
    LET w == http[h] IN
    /\ w.pc \notin {"idle", "deciding"} => w.client \in Client
    /\ w.pc = "deciding" =>
         w.req \in Request /\ request[w.req].status # "none"
    /\ w.pc \in {"codeRead", "dropCode", "codeTaken"} =>
         /\ w.req \in Request
         /\ code[w.req].status # "none"
         /\ request[w.req].client = w.client
    /\ w.pc \in {"tokenRead", "rotated", "mustRevoke"} =>
         /\ w.tok \in Token
         /\ token[w.tok].status # "none"
         /\ token[w.tok].client = w.client
    /\ w.pc = "revoking" => \A t \in w.found : token[t].status # "none"
    /\ w.pc = "codeTaken" => /\ CodePresent(w.req)
                             /\ w.scopes \subseteq code[w.req].scopes
    /\ w.pc = "rotated" => /\ Unrevoked(w.tok)
                           /\ w.scopes \subseteq token[w.tok].scopes

\* A row lock has one holder.
LocksExclusive ==
    \A g, h \in Handler :
      /\ http[g].pc = "codeTaken" /\ http[h].pc = "codeTaken"
           /\ http[g].req = http[h].req => g = h
      /\ http[g].pc = "rotated" /\ http[h].pc = "rotated"
           /\ http[g].tok = http[h].tok => g = h

AdminSound(a) ==
    LET w == admin[a] IN
    /\ w.pc # "idle" => w.client \in Client
    /\ \A t \in w.toks : token[t].status # "none"
    /\ \A r \in w.codes : code[r].status # "none"
    /\ \A r \in w.reqs :
         request[r].status \in {"pending", "expired", "cancelled"}
    /\ w.pc \notin {"clearing", "cancelling"} => w.codes = {}
    /\ w.pc = "cancelling" => \A r \in w.codes : ~CodeHeld(r)

\* A code exists, or has existed, for the approved requests only, and for no
\* more than they asked; it is gone when the first token of its consent appears.
ConsentsSound ==
    /\ \A r \in Request :
         /\ code[r].status # "none" <=> request[r].status = "approved"
         /\ code[r].status # "none" => code[r].scopes \subseteq request[r].scopes
    /\ \A t \in Token : token[t].status # "none" =>
         code[token[t].origin].status = "gone"

\* Tokens, stored or being signed, carry a version the client has had, and the
\* present version only while the client is ACTIVE.
VersionSound(c, ver) ==
    /\ ver <= client[c].version
    /\ ver = client[c].version => client[c].status = "ACTIVE"

VersionsSound ==
    /\ \A t \in Token : token[t].status # "none" =>
         VersionSound(token[t].client, token[t].ver)
    /\ \A h \in Handler : http[h].pc \in {"codeTaken", "rotated"} =>
         VersionSound(http[h].client, http[h].ver)

\* Together with OneTokenPerConsent and ConsentBoundsTokens, what every step
\* preserves: no handler ever acts on a row it has lost.
Inv ==
    /\ TypeOK
    /\ \A h \in Handler : HandlerSound(h)
    /\ LocksExclusive
    /\ \A a \in Admin : AdminSound(a)
    /\ ConsentsSound
    /\ VersionsSound
    /\ OneTokenPerConsent
    /\ ConsentBoundsTokens

-----------------------------------------------------------------------------
(* Statements of the documentation and the tests that the code falls short of *)

\* docs/developer/api/modules/iam/oauth.md:20: disabling a client revokes all
\* its refresh tokens.  A rotation that read the client before the disabling
\* committed inserts its token after revokeRefreshTokens took its snapshot.
DisablingRevokes ==
    \A t \in Token : Unrevoked(t) => client[token[t].client].status = "ACTIVE"

\* oauth.md:22: changing the scopes increments the credential version.  update
\* compares with a row it read before its transaction, so an update that
\* changes nothing else may put back scopes another one has just replaced.
ScopeChangeBumps ==
    [][\A c \in Client : client'[c].scopes # client[c].scopes
          => client'[c].version > client[c].version]_vars

\* oauth-grant.service.spec.ts:154: the family is revoked when a rotated token
\* is used again.  When the second use is caught by the conditional update
\* (and not by the read), the revocation is rolled back.
ReuseRevokesFamily ==
    [][\A h \in Handler : RotateTooLate(h) =>
         \A t \in Token : token[t].family = token[http[h].tok].family
                              => ~Unrevoked(t)']_vars
=============================================================================
