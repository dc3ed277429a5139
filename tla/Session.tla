------------------------------ MODULE Session ------------------------------
(***************************************************************************)
(* The sessions of one user of apps/api: refresh-token rows in PostgreSQL, *)
(* the access tokens signed with them, and their revocation through the    *)
(* jti blacklist and the revoked-before mark in Redis (TokenService,       *)
(* TokenBlacklistService, RefreshTokenRepository, JwtStrategy).            *)
(*                                                                         *)
(* Handlers interleave at every await.  A row is named by its place in the *)
(* order of insertion; the access token handed out with row t is t too,    *)
(* its jti.  Users share nothing here: rows, keys and handlers belong to   *)
(* one of them.  Time is counted in ticks, Second of them to a second; an  *)
(* iat and an exp are whole seconds, Redis is exact.  What has expired is   *)
(* dropped as time passes.  A refresh token expires at any time after its  *)
(* insertion, when "expired" is set.                                       *)
(* root, closed, cut, gone and crossed are history: no code reads them.    *)
(***************************************************************************)
EXTENDS Integers, FiniteSets

CONSTANTS
    Handler,      \* concurrent requests
    Node,         \* API processes
    Second,       \* ticks to a second
    AccessTTL,    \* jwt.accessExpiresIn, in seconds
    RedisMayFail, \* may a Redis command fail, or the connection be down?
    MaxLogout,    \* bound on logouts, of one session or device or from all
    MaxToken,     \* bound on rows
    MaxRequest,   \* bound on rows and logouts together
    MaxTime,      \* bound on time
    None          \* no process

ASSUME TimesAssumption ==
    Second \in Nat \ {0} /\ AccessTTL \in Nat \ {0} /\ MaxTime \in Nat

ASSUME BoundsAssumption ==
    MaxToken \in Nat /\ MaxLogout \in Nat /\ MaxRequest \in Nat
    /\ RedisMayFail \in BOOLEAN

ASSUME SessionNone == None \notin Node

ASSUME HandlersAssumption == IsFiniteSet(Handler)

VARIABLES
    now,
    row,        \* refresh_tokens
    access,     \* iat of the access tokens that have not expired, or -1
    blacklist,  \* jwt:blacklist:access:<jti>, as the time the key expires
    mark,       \* jwt:user_revoked_before:<user>, and the time the key expires
    local,      \* per process, the jtis blacklisted while Redis failed
    http,       \* what each handler has read so far
    reset,      \* has the password been reset? (at most once)
    logouts,    \* number of logouts so far, for the bound
    closed,     \* roots of sessions the user has ended
    gone,       \* access tokens a logout has put on the Redis blacklist
    cut,        \* latest revokedBefore of a logout from all devices that succeeded
    crossed     \* has one taken its time while another was about to set the mark?

redis == <<blacklist, mark>>
store == <<row, access, redis, local, reset>>
history == <<logouts, closed, gone, cut, crossed>>
vars == <<now, store, http, history>>

-----------------------------------------------------------------------------
Token == 1 .. MaxToken
Time == Nat

Row == [status : {"none", "active", "expired", "revoked"}, root : Token \cup {0}]

NoRow == [status |-> "none", root |-> 0]
NoKey == [before |-> 0, until |-> 0]

HandlerRecord ==
    [pc : {"idle", "read", "inserting", "retiring", "guarded", "blacklisting", "dropping",
           "clearing", "revokingAll", "marking", "setting"},
     node : Node \cup {None}, tok : Token \cup {0}, all : BOOLEAN,
     iat : Nat, secs : Nat, at : Time]

IdleHandler ==
    [pc |-> "idle", node |-> None, tok |-> 0, all |-> FALSE, iat |-> 0,
     secs |-> 0, at |-> 0]

Inserted(t) == row[t].status # "none"

\* revokedAt is null, and, for what updateMany selects, expiresAt is to come.
Valid(t) == row[t].status \in {"active", "expired"}
Active(t) == row[t].status = "active"

IsNext(u) == ~Inserted(u) /\ \A t \in Token : t < u => Inserted(t)

Exp(iat) == iat + AccessTTL

\* jsonwebtoken compares exp with the clock in whole seconds.
InTime(iat, t) == t \div Second < Exp(iat)

Finish(h) == http' = [http EXCEPT ![h] = IdleHandler]

\* Rows S are revoked by the user; the sessions they were good for are closed.
RevokeRows(S) ==
    /\ row' = [t \in Token |-> IF t \in S THEN [row[t] EXCEPT !.status = "revoked"]
                                         ELSE row[t]]
    /\ closed' = closed \cup {row[t].root : t \in {u \in S : Valid(u)}}

-----------------------------------------------------------------------------
(* JwtStrategy.validate: is access token a accepted? *)

Unexpired(a) == access[a] # -1

Blacklisted(a) == blacklist[a] # 0

\* (MarkedEarlier: < for <=.)
MarkedEarlier(a) == mark # NoKey /\ access[a] * Second < mark.before
Marked(a) == mark # NoKey /\ access[a] * Second <= mark.before

\* With Redis at hand.
Accepted(a) == Unexpired(a) /\ ~Blacklisted(a) /\ ~Marked(a)

\* When a command fails or the connection is down: without the blacklist the
\* process asks its own map, without the mark it goes on.
AcceptedOffline(n, a) ==
    RedisMayFail /\ Unexpired(a) /\ (Blacklisted(a) => a \notin local[n])

\* Some access token of the user passes the guard.
Authenticated ==
    \E n \in Node, a \in Token : Accepted(a) \/ AcceptedOffline(n, a)

-----------------------------------------------------------------------------
Init ==
    /\ now = 0
    /\ row = [t \in Token |-> NoRow]
    /\ access = [t \in Token |-> -1]
    /\ blacklist = [t \in Token |-> 0]
    /\ mark = NoKey
    /\ local = [n \in Node |-> {}]
    /\ http = [h \in Handler |-> IdleHandler]
    /\ reset = FALSE
    /\ logouts = 0 /\ closed = {} /\ gone = {} /\ cut = -1 /\ crossed = FALSE

-----------------------------------------------------------------------------
(* Login and refresh *)

\* The rows there are, and one for every handler that is going to insert one.
Rows ==
    Cardinality({t \in Token : Inserted(t)})
      + Cardinality({h \in Handler : http[h].pc \in {"read", "inserting"}})

RoomForOne == Rows < MaxToken /\ Rows + logouts < MaxRequest
RoomForLogout == logouts < MaxLogout /\ Rows + logouts < MaxRequest

\* generateTokens signs and goes on to insert.
Login(h) ==
    /\ http[h].pc = "idle"
    /\ RoomForOne
    /\ http' = [http EXCEPT ![h] =
                  [@ EXCEPT !.pc = "inserting", !.iat = now \div Second]]
    /\ UNCHANGED <<now, store, history>>

\* refreshToken looks at revokedAt, and not at expiresAt.
RefreshRead(h, t) ==
    /\ http[h].pc = "idle"
    /\ RoomForOne
    /\ Valid(t)
    /\ http' = [http EXCEPT ![h] = [@ EXCEPT !.pc = "read", !.tok = t]]
    /\ UNCHANGED <<now, store, history>>

\* The user is there: sign.
\* (RefreshSignRevokes: the old row is revoked already, before its successor is inserted.)
RefreshSignRevokes(h) ==
    /\ http[h].pc = "read"
    /\ row' = [row EXCEPT ![http[h].tok].status = "revoked"]
    /\ http' = [http EXCEPT ![h] =
                  [@ EXCEPT !.pc = "inserting", !.iat = now \div Second]]
    /\ UNCHANGED <<now, access, redis, local, reset, history>>
RefreshSign(h) ==
    /\ http[h].pc = "read"
    /\ http' = [http EXCEPT ![h] =
                  [@ EXCEPT !.pc = "inserting", !.iat = now \div Second]]
    /\ UNCHANGED <<now, store, history>>

Insert(h, u) ==
    LET t == http[h].tok IN
    /\ http[h].pc = "inserting"
    /\ IsNext(u)
    /\ row' = [row EXCEPT ![u] =
                 [status |-> "active", root |-> IF t = 0 THEN u ELSE row[t].root]]
    /\ access' = [access EXCEPT ![u] = IF InTime(http[h].iat, now)
                                         THEN http[h].iat ELSE -1]
    /\ IF t = 0 THEN Finish(h)
       ELSE http' = [http EXCEPT ![h] = [@ EXCEPT !.pc = "retiring", !.iat = 0]]
    /\ UNCHANGED <<now, redis, local, reset, history>>

\* revokeToken of the old row, whatever its state is by now.
RetireOld(h) ==
    /\ http[h].pc = "retiring"
    /\ row' = [row EXCEPT ![http[h].tok].status = "revoked"]
    /\ Finish(h)
    /\ UNCHANGED <<now, access, redis, local, reset, history>>

-----------------------------------------------------------------------------
(* Logout, of one session, one device or all; the tokens and the device id in
   the request are chosen where they are used *)

\* TTL of a blacklist entry: the whole seconds left to the token, at least 1.
\* (BlacklistTtlShort: one less.)
BlacklistTtlShort(a) ==
    LET s == (Exp(access[a]) * Second - now) \div Second - 1 IN IF s < 1 THEN 1 ELSE s
BlacklistTtl(a) ==
    LET s == (Exp(access[a]) * Second - now) \div Second IN IF s < 1 THEN 1 ELSE s

BeginLogout(h, n, a) ==
    /\ http[h].pc = "idle"
    /\ Accepted(a) \/ AcceptedOffline(n, a)
    /\ RoomForLogout
    /\ logouts' = logouts + 1
    /\ http' = [http EXCEPT ![h] =
                  [@ EXCEPT !.pc = "guarded", !.node = n, !.tok = a]]
    /\ UNCHANGED <<now, store, closed, gone, cut, crossed>>

\* add: a token that has expired since is not put on the list.
TakeTtl(h) ==
    LET a == http[h].tok IN
    /\ http[h].pc = "guarded"
    /\ http' = [http EXCEPT ![h] =
                  IF Unexpired(a) THEN [@ EXCEPT !.pc = "blacklisting", !.secs = BlacklistTtl(a)]
                                  ELSE [IdleHandler EXCEPT !.pc = "dropping"]]
    /\ UNCHANGED <<now, store, history>>

Blacklist(h) ==
    LET a == http[h].tok IN
    /\ http[h].pc = "blacklisting"
    /\ blacklist' = [blacklist EXCEPT ![a] = now + http[h].secs * Second]
    /\ http' = [http EXCEPT ![h] = [IdleHandler EXCEPT !.pc = "dropping"]]
    /\ gone' = gone \cup {a}
    /\ UNCHANGED <<now, row, access, mark, local, reset, logouts, closed, cut, crossed>>

BlacklistLocally(h) ==
    LET n == http[h].node IN
    /\ RedisMayFail
    /\ http[h].pc = "blacklisting"
    /\ local' = [local EXCEPT ![n] = @ \cup {http[h].tok}]
    /\ http' = [http EXCEPT ![h] = [IdleHandler EXCEPT !.pc = "dropping"]]
    /\ UNCHANGED <<now, row, access, redis, reset, history>>

BeginLogoutAll(h) ==
    /\ http[h].pc = "idle"
    /\ Authenticated
    /\ RoomForLogout
    /\ logouts' = logouts + 1
    /\ http' = [http EXCEPT ![h] =
                  [@ EXCEPT !.pc = "dropping", !.all = TRUE]]
    /\ UNCHANGED <<now, store, closed, gone, cut, crossed>>

\* revokeToken of the token in the request, if there is one: S has it.
DropToken(h, S) ==
    /\ http[h].pc = "dropping"
    /\ Cardinality(S) <= 1 /\ \A t \in S : Inserted(t)
    /\ RevokeRows(S)
    /\ http' = [http EXCEPT ![h].pc = IF http[h].all THEN "revokingAll" ELSE "clearing"]
    /\ UNCHANGED <<now, access, redis, local, reset, logouts, gone, cut, crossed>>

\* revokeTokensByDeviceId: S are the active rows of the device in the request,
\* whichever they are, and none if it names no device.
ClearDevice(h, S) ==
    /\ http[h].pc = "clearing"
    /\ \A t \in S : Active(t)
    /\ RevokeRows(S)
    /\ Finish(h)
    /\ UNCHANGED <<now, access, redis, local, reset, logouts, gone, cut, crossed>>

\* revokeAllTokensByUserId
RevokeAll(h) ==
    /\ http[h].pc = "revokingAll"
    /\ RevokeRows({t \in Token : Active(t)})
    /\ http' = [http EXCEPT ![h].pc = "marking"]
    /\ UNCHANGED <<now, access, redis, local, reset, logouts, gone, cut, crossed>>

\* setUserRevokedBefore takes the time ...
TakeMarkTime(h) ==
    /\ http[h].pc = "marking"
    /\ http' = [http EXCEPT ![h] = [@ EXCEPT !.pc = "setting", !.at = now]]
    /\ crossed' = (crossed \/ \E g \in Handler : http[g].pc = "setting")
    /\ UNCHANGED <<now, store, logouts, closed, gone, cut>>

\* ... and sets the key for as long as an access token lasts.
SetMark(h) ==
    /\ http[h].pc = "setting"
    /\ mark' = [before |-> http[h].at, until |-> now + AccessTTL * Second]
    /\ cut' = IF http[h].at > cut THEN http[h].at ELSE cut
    /\ Finish(h)
    /\ UNCHANGED <<now, row, access, blacklist, local, reset, logouts, closed, gone, crossed>>

-----------------------------------------------------------------------------
(* Account security: one session, or all but the current one, is revoked, by a
   request whose access token was accepted some time ago *)

RevokeSession(t) ==
    /\ Active(t)
    /\ RevokeRows({t})
    /\ UNCHANGED <<now, access, redis, local, reset, http, logouts, gone, cut, crossed>>

\* Also what changePassword, changeEmail and changePhone do; keep is 0 when the
\* request has no valid cookie, and may have been retired since it was read.
RevokeOthers(keep) ==
    /\ {t \in Token : Active(t)} \ {keep} # {}
    /\ RevokeRows({t \in Token : Active(t)} \ {keep})
    /\ UNCHANGED <<now, access, redis, local, reset, http, logouts, gone, cut, crossed>>

\* resetPassword stores the new password, and that is all.
ResetPassword ==
    /\ ~reset
    /\ reset' = TRUE
    /\ UNCHANGED <<now, row, access, redis, local, http, history>>

-----------------------------------------------------------------------------
\* A statement fails or the process dies, and the handler stops: a refresh whose
\* insertion failed throws, one whose retirement failed just answers.
\* (FailGoesOn: the first of these was swallowed as well.)
FailGoesOn(h) ==
    /\ http[h].pc # "idle"
    /\ IF http[h].pc = "inserting" /\ http[h].tok # 0
         THEN http' = [http EXCEPT ![h].pc = "retiring"]
         ELSE Finish(h)
    /\ UNCHANGED <<now, store, history>>
Fail(h) ==
    /\ http[h].pc # "idle"
    /\ Finish(h)
    /\ UNCHANGED <<now, store, history>>

Expire(t) ==
    /\ Active(t)
    /\ row' = [row EXCEPT ![t].status = "expired"]
    /\ UNCHANGED <<now, access, redis, local, reset, http, history>>

Tick ==
    LET t == now + 1
        Live == {a \in Token : Unexpired(a) /\ InTime(access[a], t)} IN
    /\ now < MaxTime
    /\ now' = t
    /\ access' = [a \in Token |-> IF a \in Live THEN access[a] ELSE -1]
    /\ blacklist' = [a \in Token |-> IF t < blacklist[a] THEN blacklist[a] ELSE 0]
    /\ mark' = IF t < mark.until THEN mark ELSE NoKey
    /\ local' = [n \in Node |-> local[n] \cap Live]
    /\ gone' = gone \cap Live
    /\ UNCHANGED <<row, reset, http, logouts, closed, cut, crossed>>

Next ==
    \/ \E h \in Handler, t \in Token : RefreshRead(h, t) \/ Insert(h, t)
    \/ \E h \in Handler, n \in Node, a \in Token : BeginLogout(h, n, a)
    \/ \E h \in Handler :
          \/ Login(h) \/ RefreshSign(h) \/ RetireOld(h)
          \/ TakeTtl(h) \/ Blacklist(h) \/ BlacklistLocally(h)
          \/ BeginLogoutAll(h) \/ RevokeAll(h)
          \/ \E S \in SUBSET Token : DropToken(h, S) \/ ClearDevice(h, S)
          \/ TakeMarkTime(h) \/ SetMark(h) \/ Fail(h)
    \/ \E t \in Token : RevokeSession(t) \/ Expire(t)
    \/ \E keep \in Token \cup {0} : RevokeOthers(keep)
    \/ ResetPassword
    \/ Tick

Spec == Init /\ [][Next]_vars

-----------------------------------------------------------------------------
(* Properties *)

\* The rows, the keys and the handlers' records keep their shapes; a row that is
\* there belongs to a session, a key is there until its time has come, and a
\* handler retires, or goes on from, a row that is there.
TypeOK ==
    /\ now \in Time
    /\ row \in [Token -> Row]
    /\ access \in [Token -> Nat \cup {-1}]
    /\ blacklist \in [Token -> Time]
    /\ mark \in [before : Time, until : Time]
    /\ local \in [Node -> SUBSET Token]
    /\ http \in [Handler -> HandlerRecord]
    /\ reset \in BOOLEAN
    /\ logouts \in Nat
    /\ closed \subseteq Token
    /\ cut \in Time \cup {-1}
    /\ crossed \in BOOLEAN
    /\ gone \subseteq Token
    /\ \A t \in Token : Inserted(t) <=> row[t].root # 0
    /\ \A a \in Token : blacklist[a] # 0 => now < blacklist[a]
    /\ mark # NoKey => now < mark.until
    /\ \A h \in Handler : http[h].tok # 0 => Inserted(http[h].tok)

\* A refresh inserts the successor before it retires the old row, so wherever
\* handlers race, fail or die, a session the user has not ended keeps a row
\* that can be refreshed.
NeverStranded ==
    \A r \in Token : Inserted(r) /\ row[r].root = r /\ r \notin closed =>
        \E t \in Token : Valid(t) /\ row[t].root = r

\* Once a logout from all devices has succeeded, no access token signed up to
\* its time is accepted again: the mark outlives them all, in whole seconds and
\* in ticks, and the mark of a later one does not take it back; unless one of
\* two took its time while the other was about to set the mark, for then the
\* older time may be set last.  [setUserRevokedBefore]
LogoutAllHolds ==
    ~crossed => \A a \in Token : Unexpired(a) /\ access[a] * Second <= cut => ~Accepted(a)

\* The beginning of the last second in which access token a is in time.
LastSecond(a) == (Exp(access[a]) - 1) * Second

\* An access token put on the Redis blacklist is refused up to a second before
\* it expires.
LogoutHolds ==
    \A a \in gone : now <= LastSecond(a) => ~Accepted(a)

-----------------------------------------------------------------------------
(* The inductive invariant behind NeverStranded *)

\* Rows are named in the order they are inserted.
InOrder == \A t, u \in Token : Inserted(t) /\ u < t => Inserted(u)

\* Row t is the last of its session so far.
Newest(t) == Inserted(t) /\ \A u \in Token : Inserted(u) /\ row[u].root = row[t].root => u <= t

\* The last row of a session the user has not ended is valid.
NewestValid == \A t \in Token : Newest(t) /\ row[t].root \notin closed => Valid(t)

\* A handler retires a row only when it has inserted a later one.
SuccessorFirst ==
    \A h \in Handler : http[h].pc = "retiring" =>
        /\ http[h].tok # 0
        /\ \E u \in Token : u > http[h].tok /\ Inserted(u)
                            /\ row[u].root = row[http[h].tok].root

\* A process blacklists a token that was there, for a second at least.
Blacklisting ==
    /\ \A a \in Token : Unexpired(a) => Inserted(a)
    /\ \A h \in Handler : http[h].pc = "blacklisting" => http[h].secs >= 1
    /\ \A h \in Handler : http[h].pc \in {"guarded", "blacklisting"} => http[h].tok # 0

Inv ==
    /\ TypeOK
    /\ InOrder
    /\ NewestValid
    /\ SuccessorFirst
    /\ Blacklisting

-----------------------------------------------------------------------------
(* The inductive invariants behind LogoutAllHolds and LogoutHolds *)

\* A time is taken before it is set; when none has crossed another, one is in
\* hand at a time, and is not before the last that was set.
MarksInTurn ==
    /\ \A h \in Handler : http[h].pc = "setting" => http[h].at <= now
    /\ ~crossed => \A h \in Handler : http[h].pc = "setting" =>
         /\ http[h].at >= cut
         /\ \A g \in Handler : http[g].pc = "setting" => g = h

\* The mark lasts until every access token signed up to its time has expired.
MarkOutlives ==
    /\ cut <= now
    /\ ~crossed /\ cut # -1 =>
                   \/ mark # NoKey /\ mark.before = cut
                      /\ mark.until >= cut + AccessTTL * Second
                   \/ now >= cut + AccessTTL * Second
    /\ \A a \in Token : Unexpired(a) => InTime(access[a], now)

LogoutInv == MarksInTurn /\ MarkOutlives

\* An entry on the blacklist, there or on its way, lasts up to the token's last second.
BlacklistLasts ==
    /\ \A h \in Handler : http[h].pc = "blacklisting" /\ Unexpired(http[h].tok) =>
                          now + http[h].secs * Second > LastSecond(http[h].tok)
    /\ \A a \in gone : /\ Inserted(a)
                       /\ Unexpired(a) /\ now <= LastSecond(a) => blacklist[a] > LastSecond(a)

-----------------------------------------------------------------------------
(* Statements of comments that the code falls short of *)

\* docs/user/faq/common-questions.md:11: a refresh token is good for seven days,
\* and then the user has to log in again.  refreshToken accepts an expired row.
ExpiredNeedsLogin ==
    [][\A h \in Handler, t \in Token : RefreshRead(h, t) => Active(t)]_vars

\* token.service.ts:242: revoking the refresh tokens first leaves no way to issue
\* new ones.  A refresh that has read its row goes on to insert one.
AllRefreshTokensEnded ==
    [][\A h \in Handler : SetMark(h) =>
         \A t \in Token : Valid(t) => row[t].root \notin closed]_vars

\* jwt.strategy.ts:61: after a password reset every access token issued before
\* is refused at once.  Nothing sets the mark.
PasswordResetEndsAccess ==
    [][ResetPassword => \A a \in Token : Unexpired(a) => ~Accepted(a)']_vars
=============================================================================
