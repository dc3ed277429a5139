---------------------------- MODULE SessionProofs ----------------------------
(***************************************************************************)
(* Proofs about Session, for any numbers of handlers and processes and any *)
(* bounds: Inv is inductive, no session is lost, and logouts hold.         *)
(***************************************************************************)
EXTENDS Session, TLAPS, FiniteSetTheorems, WellFoundedInduction

LEMMA Division ==
    ASSUME NEW n \in Int, NEW d \in Nat \ {0}
    PROVE  n \div d \in Int /\ (n \in Nat => n \div d \in Nat)
OBVIOUS

LEMMA Product ==
    ASSUME NEW m \in Nat \ {0}, NEW n \in Nat \ {0}
    PROVE  m * n \in Nat \ {0}
OBVIOUS

LEMMA TtlPositive ==
    ASSUME TypeOK, NEW a \in Token
    PROVE  BlacklistTtl(a) \in Nat \ {0}
<1> DEFINE left == Exp(access[a]) * Second - now
           s == left \div Second
<1>1. left \in Int
  BY TimesAssumption DEF TypeOK, Exp, Time
<1>2. s \in Int
  BY <1>1, Division, TimesAssumption
<1>3. BlacklistTtl(a) = IF s < 1 THEN 1 ELSE s
  BY DEF BlacklistTtl
<1> HIDE DEF left, s
<1> QED BY <1>2, <1>3

\* A set of rows that is not empty has a last one: < is well-founded on Nat.
LEMMA LastRow ==
    ASSUME NEW S \in SUBSET Token, S # {}
    PROVE  \E u \in S : \A v \in S : v <= u
<1> DEFINE Left == {MaxToken - s : s \in S}
<1>1. Left \subseteq Nat
  <2> SUFFICES ASSUME NEW s \in S PROVE MaxToken - s \in Nat
    OBVIOUS
  <2> QED BY BoundsAssumption DEF Token
<1>2. Left # {}
  OBVIOUS
<1>3. PICK R : R = OpToRel(<, Nat)
  OBVIOUS
<1>4. IsWellFoundedOn(R, Nat)
  BY <1>3, NatLessThanWellFounded
<1>5. PICK x \in Left : \A y \in Left : <<y, x>> \notin R
  BY <1>1, <1>2, <1>4, WFMin
<1>6. \A y \in Nat : y < x => <<y, x>> \in R
  BY <1>1, <1>3 DEF OpToRel
<1>7. PICK u \in S : x = MaxToken - u
  BY <1>5
<1>8. ASSUME NEW v \in S PROVE v <= u
  <2>1. MaxToken - v \in Left
    OBVIOUS
  <2>2. ~(MaxToken - v < x)
    BY <2>1, <1>1, <1>5, <1>6
  <2> QED BY <2>2, <1>7, BoundsAssumption DEF Token
<1> QED BY <1>8

LEMMA IdleRecord == IdleHandler \in HandlerRecord /\ IdleHandler.pc = "idle" /\ IdleHandler.tok = 0
BY DEF IdleHandler, HandlerRecord, Time

-----------------------------------------------------------------------------
(* Two halves of TypeOK, and the steps that insert no row *)

HttpTyped ==
    /\ http \in [Handler -> HandlerRecord]
    /\ \A h \in Handler : http[h].tok # 0 => Inserted(http[h].tok)

KeysTyped ==
    /\ blacklist \in [Token -> Time]
    /\ mark \in [before : Time, until : Time]
    /\ local \in [Node -> SUBSET Token]
    /\ \A a \in Token : blacklist[a] # 0 => now < blacklist[a]
    /\ mark # NoKey => now < mark.until

StoreTyped ==
    /\ now \in Time
    /\ row \in [Token -> Row]
    /\ access \in [Token -> Nat \cup {-1}]
    /\ reset \in BOOLEAN
    /\ \A t \in Token : Inserted(t) <=> row[t].root # 0

HistoryTyped ==
    /\ logouts \in Nat
    /\ closed \subseteq Token
    /\ cut \in Time \cup {-1}
    /\ crossed \in BOOLEAN
    /\ gone \subseteq Token

LEMMA TypeParts == TypeOK <=> HttpTyped /\ KeysTyped /\ StoreTyped /\ HistoryTyped
BY DEF TypeOK, HttpTyped, KeysTyped, StoreTyped, HistoryTyped

\* A record any handler may have whatever the others do.
Fine(w) ==
    /\ w.pc # "retiring"
    /\ w.pc = "blacklisting" => w.secs >= 1
    /\ w.pc \in {"guarded", "blacklisting"} => w.tok # 0

\* Rows may be revoked or expire; the newest one of a session only when the
\* session is closed, or when it was not valid.
RowsAge ==
    /\ \A t \in Token : row'[t].root = row[t].root /\ (Inserted(t)' <=> Inserted(t))
    /\ \A t \in Token : Newest(t) /\ Valid(t) => Valid(t)' \/ row[t].root \in closed'
    /\ closed \subseteq closed'
    /\ \A a \in Token : Unexpired(a)' => Unexpired(a)

LEMMA RowsSame ==
    ASSUME Inv, UNCHANGED <<row, access, closed>>
    PROVE  RowsAge
BY DEF RowsAge, Inserted, Valid, Unexpired

LEMMA HandlerMoves ==
    ASSUME Inv, NEW h \in Handler, NEW w \in HandlerRecord,
           http' = [http EXCEPT ![h] = w], Fine(w),
           w.tok # 0 => Inserted(w.tok),
           RowsAge
    PROVE  /\ HttpTyped'
           /\ \A g \in Handler : http'[g] = http[g] \/ Fine(http'[g])
<1>1. http \in [Handler -> HandlerRecord]
  BY DEF Inv, TypeOK
<1>2. http'[h] = w /\ \A g \in Handler : g # h => http'[g] = http[g]
  BY <1>1
<1>3. http' \in [Handler -> HandlerRecord]
  BY <1>1
<1>4. ASSUME NEW g \in Handler, http'[g].tok # 0
      PROVE  row'[http'[g].tok].status # "none"
  <2>1. http'[g].tok \in Token
    BY <1>3, <1>4 DEF HandlerRecord
  <2>2. row[http'[g].tok].status # "none"
    BY <1>2, <1>4 DEF Inv, TypeOK, Inserted
  <2> QED BY <2>1, <2>2 DEF RowsAge, Inserted
<1> QED BY <1>2, <1>3, <1>4 DEF HttpTyped, Inserted

\* What is left to prove of a step that inserts no row.
LEMMA NoInsertion ==
    ASSUME Inv, TypeOK', RowsAge,
           \A g \in Handler : http'[g] = http[g] \/ Fine(http'[g])
    PROVE  Inv'
<1>1. InOrder'
  BY DEF Inv, InOrder, RowsAge
<1>2. NewestValid'
  <2> SUFFICES ASSUME NEW t \in Token, Newest(t)', row'[t].root \notin closed'
               PROVE  Valid(t)'
    BY DEF NewestValid
  <2>1. Newest(t) /\ row[t].root \notin closed'
    BY DEF Newest, RowsAge
  <2>2. Valid(t)
    BY <2>1 DEF Inv, NewestValid, RowsAge
  <2> QED BY <2>1, <2>2 DEF RowsAge
<1>3. SuccessorFirst'
  <2> SUFFICES ASSUME NEW g \in Handler, http'[g].pc = "retiring"
               PROVE  /\ http'[g].tok # 0
                      /\ \E u \in Token : u > http'[g].tok /\ Inserted(u)'
                                        /\ row'[u].root = row'[http'[g].tok].root
    BY DEF SuccessorFirst
  <2>1. http'[g] = http[g]
    BY DEF Fine
  <2>2. http[g].tok \in Token
    BY <2>1 DEF Inv, TypeOK, HandlerRecord, SuccessorFirst
  <2> QED BY <2>1, <2>2 DEF Inv, SuccessorFirst, RowsAge
<1>4. Blacklisting'
  BY DEF Inv, Blacklisting, RowsAge, Fine
<1> QED BY <1>1, <1>2, <1>3, <1>4 DEF Inv

\* A step that only moves a handler.
LEMMA OnlyHandler ==
    ASSUME Inv, NEW h \in Handler, NEW w \in HandlerRecord,
           http' = [http EXCEPT ![h] = w], Fine(w),
           w.tok # 0 => Inserted(w.tok),
           UNCHANGED <<now, row, access, blacklist, mark, local, reset, closed, gone, cut>>,
           logouts' \in Nat, crossed' \in BOOLEAN
    PROVE  Inv'
<1>1. RowsAge
  BY RowsSame
<1>2. HttpTyped' /\ \A g \in Handler : http'[g] = http[g] \/ Fine(http'[g])
  BY <1>1, HandlerMoves
<1>3. KeysTyped' /\ StoreTyped' /\ HistoryTyped'
  BY TypeParts DEF Inv, KeysTyped, StoreTyped, HistoryTyped, Inserted
<1>4. TypeOK'
  BY <1>2, <1>3 DEF TypeOK, HttpTyped, KeysTyped, StoreTyped, HistoryTyped
<1> QED BY <1>1, <1>2, <1>4, NoInsertion

-----------------------------------------------------------------------------
(* One lemma for each kind of step *)

LEMMA SecondNow ==
    ASSUME Inv PROVE now \div Second \in Nat
<1>1. now \in Nat /\ Second \in Nat \ {0}
  BY TimesAssumption DEF Inv, TypeOK, Time
<1> QED BY <1>1, Division

LEMMA SignStep ==
    ASSUME Inv, NEW h \in Handler, Login(h) \/ RefreshSign(h)
    PROVE  Inv'
<1> DEFINE w == [http[h] EXCEPT !.pc = "inserting", !.iat = now \div Second]
<1>1. /\ http' = [http EXCEPT ![h] = w]
      /\ UNCHANGED <<now, row, access, blacklist, mark, local, reset, closed, gone, cut, crossed, logouts>>
  BY DEF Login, RefreshSign, store, redis, history
<1>2. http[h] \in HandlerRecord /\ (http[h].tok # 0 => Inserted(http[h].tok))
  BY DEF Inv, TypeOK
<1>3. w \in HandlerRecord /\ w.pc = "inserting" /\ w.tok = http[h].tok
  BY <1>2, SecondNow DEF HandlerRecord
<1> HIDE DEF w
<1>4. logouts' \in Nat /\ crossed' \in BOOLEAN
  BY <1>1 DEF Inv, TypeOK
<1> QED BY <1>1, <1>2, <1>3, <1>4, OnlyHandler DEF Fine

LEMMA RefreshReadStep ==
    ASSUME Inv, NEW h \in Handler, NEW t \in Token, RefreshRead(h, t)
    PROVE  Inv'
<1> DEFINE w == [http[h] EXCEPT !.pc = "read", !.tok = t]
<1>1. /\ http' = [http EXCEPT ![h] = w] /\ Inserted(t)
      /\ UNCHANGED <<now, row, access, blacklist, mark, local, reset, closed, gone, cut, crossed, logouts>>
  BY DEF RefreshRead, store, redis, history, Valid, Inserted
<1>2. http[h] \in HandlerRecord
  BY DEF Inv, TypeOK
<1>3. w \in HandlerRecord /\ w.pc = "read" /\ w.tok = t
  BY <1>2 DEF HandlerRecord
<1> HIDE DEF w
<1>4. logouts' \in Nat /\ crossed' \in BOOLEAN
  BY <1>1 DEF Inv, TypeOK
<1> QED BY <1>1, <1>3, <1>4, OnlyHandler DEF Fine

LEMMA BeginLogoutStep ==
    ASSUME Inv, NEW h \in Handler, NEW n \in Node, NEW a \in Token, BeginLogout(h, n, a)
    PROVE  Inv'
<1> DEFINE w == [http[h] EXCEPT !.pc = "guarded", !.node = n, !.tok = a]
<1>1. /\ http' = [http EXCEPT ![h] = w] /\ Unexpired(a) /\ logouts' = logouts + 1
      /\ UNCHANGED <<now, row, access, blacklist, mark, local, reset, closed, gone, cut, crossed>>
  BY DEF BeginLogout, store, redis, Accepted, AcceptedOffline
<1>2. http[h] \in HandlerRecord /\ Inserted(a)
  BY <1>1 DEF Inv, TypeOK, Blacklisting
<1>3. w \in HandlerRecord /\ w.pc = "guarded" /\ w.tok = a
  BY <1>2 DEF HandlerRecord
<1>5. a # 0
  BY BoundsAssumption DEF Token
<1> HIDE DEF w
<1>4. logouts' \in Nat /\ crossed' \in BOOLEAN
  BY <1>1 DEF Inv, TypeOK
<1> QED BY <1>1, <1>2, <1>3, <1>4, <1>5, OnlyHandler DEF Fine

LEMMA TakeTtlStep ==
    ASSUME Inv, NEW h \in Handler, TakeTtl(h)
    PROVE  Inv'
<1> DEFINE a == http[h].tok
<1>2. /\ http[h] \in HandlerRecord /\ a \in Token /\ Inserted(a) /\ a # 0
  BY DEF TakeTtl, Inv, TypeOK, HandlerRecord, Blacklisting
<1>3. PICK s \in Nat \ {0} : s = BlacklistTtl(a)
  BY <1>2, TtlPositive DEF Inv
<1> DEFINE v == [http[h] EXCEPT !.pc = "blacklisting", !.secs = s]
           d == [IdleHandler EXCEPT !.pc = "dropping"]
<1>1. /\ http' = [http EXCEPT ![h] = IF Unexpired(a) THEN v ELSE d]
      /\ UNCHANGED <<now, row, access, blacklist, mark, local, reset, closed, gone, cut, crossed, logouts>>
  BY <1>3 DEF TakeTtl, store, redis, history
<1>4. v \in HandlerRecord /\ v.pc = "blacklisting" /\ v.tok = a /\ v.secs = s
  BY <1>2 DEF HandlerRecord
<1>9. s >= 1
  OBVIOUS
<1>5. d \in HandlerRecord /\ d.pc = "dropping" /\ d.tok = 0
  BY DEF HandlerRecord, IdleHandler, Time
<1> HIDE DEF v, d, a
<1>6. logouts' \in Nat /\ crossed' \in BOOLEAN
  BY <1>1 DEF Inv, TypeOK
<1>7. CASE Unexpired(a)
  BY <1>1, <1>2, <1>4, <1>6, <1>7, <1>9, OnlyHandler DEF Fine
<1>8. CASE ~Unexpired(a)
  BY <1>1, <1>5, <1>6, <1>8, OnlyHandler DEF Fine
<1> QED BY <1>7, <1>8

LEMMA BeginLogoutAllStep ==
    ASSUME Inv, NEW h \in Handler, BeginLogoutAll(h)
    PROVE  Inv'
<1> DEFINE w == [http[h] EXCEPT !.pc = "dropping", !.all = TRUE]
<1>1. /\ http' = [http EXCEPT ![h] = w] /\ logouts' = logouts + 1
      /\ UNCHANGED <<now, row, access, blacklist, mark, local, reset, closed, gone, cut, crossed>>
  BY DEF BeginLogoutAll, store, redis
<1>2. http[h] \in HandlerRecord /\ (http[h].tok # 0 => Inserted(http[h].tok))
  BY DEF Inv, TypeOK
<1>3. w \in HandlerRecord /\ w.pc = "dropping" /\ w.tok = http[h].tok
  BY <1>2 DEF HandlerRecord
<1> HIDE DEF w
<1>4. logouts' \in Nat /\ crossed' \in BOOLEAN
  BY <1>1 DEF Inv, TypeOK
<1> QED BY <1>1, <1>2, <1>3, <1>4, OnlyHandler DEF Fine

LEMMA TakeMarkTimeStep ==
    ASSUME Inv, NEW h \in Handler, TakeMarkTime(h)
    PROVE  Inv'
<1> DEFINE w == [http[h] EXCEPT !.pc = "setting", !.at = now]
<1>1. /\ http' = [http EXCEPT ![h] = w]
      /\ UNCHANGED <<now, row, access, blacklist, mark, local, reset, closed, gone, cut, logouts>>
      /\ crossed' \in BOOLEAN
  BY DEF TakeMarkTime, store, redis, Inv, TypeOK
<1>2. http[h] \in HandlerRecord /\ (http[h].tok # 0 => Inserted(http[h].tok))
      /\ now \in Time
  BY DEF Inv, TypeOK
<1>3. w \in HandlerRecord /\ w.pc = "setting" /\ w.tok = http[h].tok
  BY <1>2 DEF HandlerRecord
<1> HIDE DEF w
<1>4. logouts' \in Nat /\ crossed' \in BOOLEAN
  BY <1>1 DEF Inv, TypeOK
<1> QED BY <1>1, <1>2, <1>3, <1>4, OnlyHandler DEF Fine

LEMMA FailStep ==
    ASSUME Inv, NEW h \in Handler, Fail(h)
    PROVE  Inv'
<1>1. /\ http' = [http EXCEPT ![h] = IdleHandler]
      /\ UNCHANGED <<now, row, access, blacklist, mark, local, reset, closed, gone, cut, crossed, logouts>>
  BY DEF Fail, Finish, store, redis, history
<1>2. logouts' \in Nat /\ crossed' \in BOOLEAN
  BY <1>1 DEF Inv, TypeOK
<1> QED BY <1>1, <1>2, IdleRecord, OnlyHandler DEF Fine

-----------------------------------------------------------------------------
(* Steps on the keys *)

\* No row and no access token changes, and a handler moves on.
LEMMA KeysMove ==
    ASSUME Inv, NEW h \in Handler, NEW w \in HandlerRecord,
           http' = [http EXCEPT ![h] = w], Fine(w), w.tok = 0,
           UNCHANGED <<now, row, access, reset, closed>>,
           KeysTyped', HistoryTyped'
    PROVE  Inv'
<1>1. RowsAge
  BY RowsSame
<1>2. HttpTyped' /\ \A g \in Handler : http'[g] = http[g] \/ Fine(http'[g])
  BY <1>1, HandlerMoves
<1>3. StoreTyped'
  BY TypeParts DEF Inv, StoreTyped, Inserted
<1>4. TypeOK'
  BY <1>2, <1>3 DEF TypeOK, HttpTyped, KeysTyped, StoreTyped, HistoryTyped
<1> QED BY <1>1, <1>2, <1>4, NoInsertion

LEMMA DroppingRecord ==
    LET d == [IdleHandler EXCEPT !.pc = "dropping"] IN
    d \in HandlerRecord /\ d.pc = "dropping" /\ d.tok = 0
BY DEF HandlerRecord, IdleHandler, Time

LEMMA BlacklistStep ==
    ASSUME Inv, NEW h \in Handler, Blacklist(h)
    PROVE  Inv'
<1> DEFINE a == http[h].tok
           until == now + http[h].secs * Second
           d == [IdleHandler EXCEPT !.pc = "dropping"]
<1>1. /\ blacklist' = [blacklist EXCEPT ![a] = until]
      /\ http' = [http EXCEPT ![h] = d]
      /\ gone' = gone \cup {a}
      /\ UNCHANGED <<now, row, access, mark, local, reset, logouts, closed, cut, crossed>>
  BY DEF Blacklist
<1>2. a \in Token /\ http[h].secs \in Nat \ {0}
  BY DEF Blacklist, Inv, TypeOK, HandlerRecord, Blacklisting
<1>3. http[h].secs * Second \in Nat \ {0}
  BY <1>2, Product, TimesAssumption
<1>4. until \in Time /\ now < until
  BY <1>3 DEF Inv, TypeOK, Time
<1> HIDE DEF until, d, a
<1>5. KeysTyped'
  BY <1>1, <1>2, <1>4 DEF Inv, TypeOK, KeysTyped
<1>6. HistoryTyped'
  BY <1>1, <1>2 DEF Inv, TypeOK, HistoryTyped
<1>7. d \in HandlerRecord /\ d.pc = "dropping" /\ d.tok = 0
  BY DroppingRecord DEF d
<1> QED BY <1>1, <1>5, <1>6, <1>7, KeysMove DEF Fine

LEMMA BlacklistLocallyStep ==
    ASSUME Inv, NEW h \in Handler, BlacklistLocally(h)
    PROVE  Inv'
<1> DEFINE n == http[h].node
           d == [IdleHandler EXCEPT !.pc = "dropping"]
<1>1. /\ local' = [local EXCEPT ![n] = local[n] \cup {http[h].tok}]
      /\ http' = [http EXCEPT ![h] = d]
      /\ UNCHANGED <<now, row, access, blacklist, mark, reset, history>>
  BY DEF BlacklistLocally, redis
<1>2. http[h].tok \in Token
  BY DEF BlacklistLocally, Inv, TypeOK, HandlerRecord, Blacklisting
<1> HIDE DEF d, n
<1>3. KeysTyped'
  BY <1>1, <1>2 DEF Inv, TypeOK, KeysTyped
<1>4. HistoryTyped'
  BY <1>1 DEF Inv, TypeOK, HistoryTyped, history
<1>5. d \in HandlerRecord /\ d.pc = "dropping" /\ d.tok = 0
  BY DroppingRecord DEF d
<1> QED BY <1>1, <1>3, <1>4, <1>5, KeysMove DEF Fine, history

LEMMA SetMarkStep ==
    ASSUME Inv, NEW h \in Handler, SetMark(h)
    PROVE  Inv'
<1> DEFINE until == now + AccessTTL * Second
<1>1. /\ mark' = [before |-> http[h].at, until |-> until]
      /\ cut' = IF http[h].at > cut THEN http[h].at ELSE cut
      /\ http' = [http EXCEPT ![h] = IdleHandler]
      /\ UNCHANGED <<now, row, access, blacklist, local, reset, logouts, closed, gone, crossed>>
  BY DEF SetMark, Finish
<1>2. AccessTTL * Second \in Nat \ {0}
  BY Product, TimesAssumption
<1>3. until \in Time /\ now < until /\ http[h].at \in Time
  BY <1>2 DEF Inv, TypeOK, Time, HandlerRecord
<1> HIDE DEF until
<1>4. KeysTyped'
  BY <1>1, <1>3 DEF Inv, TypeOK, KeysTyped
<1>5. HistoryTyped'
  BY <1>1, <1>3 DEF Inv, TypeOK, HistoryTyped
<1> QED BY <1>1, <1>4, <1>5, IdleRecord, KeysMove DEF Fine

-----------------------------------------------------------------------------
(* Steps on the rows *)

\* Rows S are revoked or expire, and a handler may end.
LEMMA RowsMove ==
    ASSUME Inv, NEW S \in SUBSET Token, NEW st \in {"revoked", "expired"},
           \A t \in S : Inserted(t),
           row' = [t \in Token |-> IF t \in S THEN [row[t] EXCEPT !.status = st]
                                              ELSE row[t]],
           \A t \in S : Newest(t) /\ Valid(t) =>
                          st = "expired" \/ row[t].root \in closed',
           closed' \subseteq Token, closed \subseteq closed',
           UNCHANGED <<now, access, blacklist, mark, local, reset, logouts, gone, cut, crossed>>,
           \/ UNCHANGED http
           \/ \E h \in Handler, w \in HandlerRecord :
                 /\ http' = [http EXCEPT ![h] = w] /\ Fine(w)
                 /\ w.tok # 0 => Inserted(w.tok)
    PROVE  Inv'
<1>1. row' \in [Token -> Row]
  BY DEF Inv, TypeOK, Row
<1>2. \A t \in Token : /\ row'[t].root = row[t].root
                       /\ row'[t].status = IF t \in S THEN st ELSE row[t].status
  BY DEF Inv, TypeOK, Row
<1>3. RowsAge
  BY <1>2 DEF RowsAge, Inserted, Valid, Unexpired
<1>4. HttpTyped' /\ \A g \in Handler : http'[g] = http[g] \/ Fine(http'[g])
  <2>1. CASE UNCHANGED http
    <3>1. ASSUME NEW g \in Handler, http[g].tok # 0
          PROVE  row'[http[g].tok].status # "none"
      <4>1. http[g].tok \in Token /\ Inserted(http[g].tok)
        BY <3>1 DEF Inv, TypeOK, HandlerRecord
      <4> QED BY <4>1, <1>3 DEF RowsAge, Inserted
    <3> QED BY <2>1, <3>1 DEF Inv, TypeOK, HttpTyped, Inserted
  <2>2. CASE \E h \in Handler, w \in HandlerRecord :
               /\ http' = [http EXCEPT ![h] = w] /\ Fine(w)
               /\ w.tok # 0 => Inserted(w.tok)
    BY <2>2, <1>3, HandlerMoves
  <2> QED BY <2>1, <2>2
<1>5. StoreTyped'
  BY <1>1, <1>2, TypeParts DEF Inv, StoreTyped, Inserted
<1>6. KeysTyped' /\ HistoryTyped'
  BY TypeParts DEF Inv, KeysTyped, HistoryTyped
<1>7. TypeOK'
  BY <1>4, <1>5, <1>6 DEF TypeOK, HttpTyped, KeysTyped, StoreTyped, HistoryTyped
<1> QED BY <1>3, <1>4, <1>7, NoInsertion

\* Revocation by the user closes the sessions of the valid rows it revokes.
LEMMA RevokeRowsStep ==
    ASSUME Inv, NEW S \in SUBSET Token, RevokeRows(S), \A t \in S : Inserted(t),
           UNCHANGED <<now, access, blacklist, mark, local, reset, logouts, gone, cut, crossed>>,
           \/ UNCHANGED http
           \/ \E h \in Handler, w \in HandlerRecord :
                 /\ http' = [http EXCEPT ![h] = w] /\ Fine(w)
                 /\ w.tok # 0 => Inserted(w.tok)
    PROVE  Inv'
<1>1. \A t \in S : Valid(t) => row[t].root \in closed'
  BY DEF RevokeRows
<1>2. \A t \in S : row[t].root \in Token
  BY DEF Inv, TypeOK, Row
<1>3. closed' \subseteq Token /\ closed \subseteq closed'
  BY <1>2 DEF RevokeRows, Inv, TypeOK
<1> QED BY <1>1, <1>3, RowsMove DEF RevokeRows

LEMMA RevocationSteps ==
    ASSUME Inv, NEW h \in Handler, NEW S \in SUBSET Token,
           DropToken(h, S) \/ ClearDevice(h, S) \/ RevokeAll(h)
    PROVE  Inv'
<1>1. http[h] \in HandlerRecord /\ (http[h].tok # 0 => Inserted(http[h].tok))
  BY DEF Inv, TypeOK
<1>2. CASE DropToken(h, S)
  <2> DEFINE w == [http[h] EXCEPT !.pc = IF http[h].all THEN "revokingAll" ELSE "clearing"]
  <2>1. /\ http' = [http EXCEPT ![h] = w] /\ RevokeRows(S) /\ \A t \in S : Inserted(t)
        /\ UNCHANGED <<now, access, blacklist, mark, local, reset, logouts, gone, cut, crossed>>
    BY <1>2 DEF DropToken, redis, Inv, TypeOK, HandlerRecord
  <2>2. w \in HandlerRecord /\ w.pc \in {"revokingAll", "clearing"} /\ w.tok = http[h].tok
    BY <1>1 DEF HandlerRecord
  <2> HIDE DEF w
  <2>3. Fine(w)
    BY <2>2 DEF Fine
  <2> QED BY <1>1, <2>1, <2>2, <2>3, RevokeRowsStep
<1>3. CASE ClearDevice(h, S)
  <2>1. \A t \in S : Inserted(t)
    BY <1>3 DEF ClearDevice, Active, Inserted
  <2>2. Fine(IdleHandler)
    BY IdleRecord DEF Fine
  <2> QED BY <1>3, <2>1, <2>2, IdleRecord, RevokeRowsStep DEF ClearDevice, Finish, redis
<1>4. CASE RevokeAll(h)
  <2> DEFINE w == [http[h] EXCEPT !.pc = "marking"]
             A == {t \in Token : Active(t)}
  <2>1. /\ http' = [http EXCEPT ![h] = w] /\ RevokeRows(A)
        /\ UNCHANGED <<now, access, blacklist, mark, local, reset, logouts, gone, cut, crossed>>
    BY <1>4 DEF RevokeAll, redis
  <2>2. w \in HandlerRecord /\ w.pc = "marking" /\ w.tok = http[h].tok
    BY <1>1 DEF HandlerRecord
  <2>3. A \in SUBSET Token /\ \A t \in A : Inserted(t)
    BY DEF Active, Inserted
  <2> HIDE DEF w, A
  <2>4. Fine(w)
    BY <2>2 DEF Fine
  <2> QED BY <1>1, <2>1, <2>2, <2>3, <2>4, RevokeRowsStep
<1> QED BY <1>2, <1>3, <1>4

LEMMA AccountSteps ==
    ASSUME Inv, \/ \E t \in Token : RevokeSession(t)
                \/ \E keep \in Token \cup {0} : RevokeOthers(keep)
    PROVE  Inv'
<1>1. ASSUME NEW t \in Token, RevokeSession(t) PROVE Inv'
  <2>1. {t} \in SUBSET Token /\ \A u \in {t} : Inserted(u)
    BY <1>1 DEF RevokeSession, Active, Inserted
  <2> QED BY <1>1, <2>1, RevokeRowsStep DEF RevokeSession, redis
<1>2. ASSUME NEW keep, RevokeOthers(keep) PROVE Inv'
  <2> DEFINE A == {t \in Token : Active(t)} \ {keep}
  <2>1. A \in SUBSET Token /\ \A u \in A : Inserted(u)
    BY DEF Active, Inserted
  <2>2. /\ RevokeRows(A)
        /\ UNCHANGED <<now, access, blacklist, mark, local, reset, http, logouts, gone, cut, crossed>>
    BY <1>2 DEF RevokeOthers, redis
  <2> HIDE DEF A
  <2> QED BY <2>1, <2>2, RevokeRowsStep
<1> QED BY <1>1, <1>2

\* The row a refresh retires is not the newest of its session.
LEMMA RetireOldStep ==
    ASSUME Inv, NEW h \in Handler, RetireOld(h)
    PROVE  Inv'
<1>1. PICK t \in Token : t = http[h].tok /\ Inserted(t) /\ ~Newest(t)
  BY DEF RetireOld, Inv, TypeOK, HandlerRecord, SuccessorFirst, Newest, Token
<1>2. row' = [u \in Token |-> IF u \in {t} THEN [row[u] EXCEPT !.status = "revoked"]
                                            ELSE row[u]]
  BY <1>1 DEF RetireOld, Inv, TypeOK
<1>3. Fine(IdleHandler)
  BY IdleRecord DEF Fine
<1>4. closed' \subseteq Token /\ closed \subseteq closed'
  BY DEF RetireOld, history, Inv, TypeOK
<1> QED BY <1>1, <1>2, <1>3, <1>4, IdleRecord, RowsMove DEF RetireOld, Finish, redis, history

LEMMA ExpireStep ==
    ASSUME Inv, NEW t \in Token, Expire(t)
    PROVE  Inv'
<1>1. row' = [u \in Token |-> IF u \in {t} THEN [row[u] EXCEPT !.status = "expired"]
                                            ELSE row[u]]
  BY DEF Expire, Inv, TypeOK
<1>2. Inserted(t)
  BY DEF Expire, Active, Inserted
<1>3. closed' \subseteq Token /\ closed \subseteq closed'
  BY DEF Expire, history, Inv, TypeOK
<1> QED BY <1>1, <1>2, <1>3, RowsMove DEF Expire, redis, history

\* The new row is the newest of its session, and it is valid.
LEMMA InsertStep ==
    ASSUME Inv, NEW h \in Handler, NEW u \in Token, Insert(h, u)
    PROVE  Inv'
<1> DEFINE t == http[h].tok
<1>1. PICK r, i, w :
        /\ r = IF t = 0 THEN u ELSE row[t].root
        /\ i = IF InTime(http[h].iat, now) THEN http[h].iat ELSE -1
        /\ w = IF t = 0 THEN IdleHandler
                ELSE [http[h] EXCEPT !.pc = "retiring", !.iat = 0]
        /\ row' = [row EXCEPT ![u] = [status |-> "active", root |-> r]]
        /\ access' = [access EXCEPT ![u] = i]
        /\ http' = [http EXCEPT ![h] = w]
  BY DEF Insert, Finish
<1>2. UNCHANGED <<now, blacklist, mark, local, reset, logouts, closed, gone, cut, crossed>>
  BY DEF Insert, redis, history
<1>3. /\ http[h] \in HandlerRecord /\ t \in Token \cup {0}
      /\ t # 0 => Inserted(t)
  BY DEF Inv, TypeOK, HandlerRecord
<1>4. r \in Token
  BY <1>1, <1>3 DEF Inv, TypeOK, Row
<1>5. /\ w \in HandlerRecord
      /\ t = 0 => w.pc = "idle" /\ w.tok = 0
      /\ t # 0 => w.pc = "retiring" /\ w.tok = t
  <2>1. CASE t = 0
    BY <2>1, <1>1, IdleRecord
  <2>2. CASE t # 0
    BY <2>2, <1>1, <1>3 DEF HandlerRecord
  <2> QED BY <2>1, <2>2
<1>6. i \in Nat \cup {-1}
  BY <1>1, <1>3 DEF HandlerRecord
<1>7. \A v \in Token : Inserted(v) <=> v < u
  BY DEF Insert, IsNext, Inv, InOrder, Token
<1> HIDE DEF t
<1>8. /\ row' \in [Token -> Row]
      /\ row'[u].status = "active" /\ row'[u].root = r
      /\ \A v \in Token : v # u => row'[v] = row[v]
  BY <1>1, <1>4 DEF Inv, TypeOK, Row
<1>9. /\ access' \in [Token -> Nat \cup {-1}]
      /\ \A v \in Token : v # u => access'[v] = access[v]
  BY <1>1, <1>6 DEF Inv, TypeOK
<1>10. /\ http' \in [Handler -> HandlerRecord]
       /\ http'[h] = w
       /\ \A g \in Handler : g # h => http'[g] = http[g]
  BY <1>1, <1>5 DEF Inv, TypeOK
<1>11. \A v \in Token : Inserted(v)' <=> v <= u
  BY <1>7, <1>8 DEF Inserted, Token
<1>12. TypeOK'
  <2>1. HttpTyped'
    <3> SUFFICES ASSUME NEW g \in Handler, http'[g].tok # 0
                 PROVE  row'[http'[g].tok].status # "none"
      BY <1>10 DEF HttpTyped, Inserted
    <3>1. CASE g = h
      BY <3>1, <1>3, <1>5, <1>8, <1>10 DEF Inserted
    <3>2. CASE g # h
      <4>1. http'[g] = http[g] /\ http[g].tok \in Token /\ Inserted(http[g].tok)
        BY <3>2, <1>10 DEF Inv, TypeOK, HandlerRecord
      <4> QED BY <4>1, <1>8 DEF Inserted
    <3> QED BY <3>1, <3>2
  <2>2. StoreTyped'
    <3>1. \A v \in Token : Inserted(v)' <=> row'[v].root # 0
      BY <1>4, <1>8 DEF Inv, TypeOK, Inserted, Token
    <3> QED BY <3>1, <1>2, <1>8, <1>9 DEF Inv, TypeOK, StoreTyped
  <2>3. KeysTyped' /\ HistoryTyped'
    BY <1>2, TypeParts DEF Inv, KeysTyped, HistoryTyped
  <2> QED BY <2>1, <2>2, <2>3 DEF TypeOK, HttpTyped, KeysTyped, StoreTyped, HistoryTyped
<1>13. InOrder'
  BY <1>11 DEF InOrder, Token
<1>14. NewestValid'
  <2> SUFFICES ASSUME NEW v \in Token, Newest(v)', row'[v].root \notin closed'
               PROVE  Valid(v)'
    BY DEF NewestValid
  <2>1. CASE v = u
    BY <2>1, <1>8 DEF Valid
  <2>2. CASE v # u
    <3>1. Newest(v)
      BY <2>2, <1>7, <1>8, <1>11 DEF Newest, Token
    <3>2. Valid(v)
      BY <2>2, <3>1, <1>2, <1>8 DEF Inv, NewestValid
    <3> QED BY <2>2, <3>2, <1>8 DEF Valid
  <2> QED BY <2>1, <2>2
<1>15. SuccessorFirst'
  <2> SUFFICES ASSUME NEW g \in Handler, http'[g].pc = "retiring"
               PROVE  /\ http'[g].tok # 0
                      /\ \E v \in Token : v > http'[g].tok /\ Inserted(v)'
                                        /\ row'[v].root = row'[http'[g].tok].root
    BY DEF SuccessorFirst
  <2>1. CASE g = h
    <3>1. t # 0 /\ http'[g].tok = t
      BY <2>1, <1>5, <1>10
    <3>2. t \in Token /\ u > t /\ row'[t].root = r
      BY <3>1, <1>1, <1>3, <1>7, <1>8 DEF Token, t
    <3>3. Inserted(u)' /\ row'[u].root = r
      BY <1>8 DEF Inserted
    <3> QED BY <3>1, <3>2, <3>3
  <2>2. CASE g # h
    <3>1. http'[g] = http[g]
      BY <2>2, <1>10
    <3>2. PICK v \in Token : v > http[g].tok /\ Inserted(v)
                            /\ row[v].root = row[http[g].tok].root
      BY <3>1 DEF Inv, SuccessorFirst
    <3>3. http[g].tok \in Token /\ Inserted(http[g].tok) /\ http[g].tok # 0
      BY <3>1 DEF Inv, TypeOK, HandlerRecord, SuccessorFirst
    <3>4. http[g].tok # u /\ v # u
      BY <3>2, <3>3, <1>7 DEF Token
    <3>5. row'[v] = row[v] /\ row'[http[g].tok] = row[http[g].tok] /\ Inserted(v)'
      BY <3>2, <3>3, <3>4, <1>8 DEF Inserted
    <3> QED BY <3>1, <3>2, <3>3, <3>5
  <2> QED BY <2>1, <2>2
<1>16. Blacklisting'
  <2>1. \A a \in Token : Unexpired(a)' => Inserted(a)'
    BY <1>8, <1>9 DEF Inv, Blacklisting, Unexpired, Inserted
  <2> QED BY <2>1, <1>5, <1>10 DEF Inv, Blacklisting
<1> QED BY <1>12, <1>13, <1>14, <1>15, <1>16 DEF Inv

LEMMA ResetPasswordStep ==
    ASSUME Inv, ResetPassword
    PROVE  Inv'
<1>1. RowsAge
  BY RowsSame DEF ResetPassword, history
<1>2. TypeOK'
  BY DEF ResetPassword, redis, history, Inv, TypeOK, Inserted
<1> QED BY <1>1, <1>2, NoInsertion DEF ResetPassword

LEMMA TickStep ==
    ASSUME Inv, Tick
    PROVE  Inv'
<1>1. RowsAge
  BY DEF Tick, RowsAge, Inserted, Valid, Unexpired
<1>2. HttpTyped'
  BY DEF Tick, Inv, TypeOK, HttpTyped, Inserted
<1>3. StoreTyped' /\ HistoryTyped'
  BY DEF Tick, Inv, TypeOK, StoreTyped, HistoryTyped, Inserted, Time, Unexpired
<1>4. KeysTyped'
  <2>1. now' \in Time
    BY DEF Tick, Inv, TypeOK, Time
  <2>2. /\ blacklist' \in [Token -> Time]
        /\ \A a \in Token : blacklist'[a] # 0 => now' < blacklist'[a]
    BY <2>1 DEF Tick, Inv, TypeOK, Time
  <2>3. /\ mark' \in [before : Time, until : Time]
        /\ mark' # NoKey => now' < mark'.until
    BY <2>1 DEF Tick, Inv, TypeOK, NoKey, Time
  <2>4. local' \in [Node -> SUBSET Token]
    BY DEF Tick, Inv, TypeOK
  <2> QED BY <2>2, <2>3, <2>4 DEF KeysTyped, NoKey
<1>5. TypeOK'
  BY <1>2, <1>3, <1>4 DEF TypeOK, HttpTyped, KeysTyped, StoreTyped, HistoryTyped
<1> QED BY <1>1, <1>5, NoInsertion DEF Tick

-----------------------------------------------------------------------------

LEMMA InitInv == Init => Inv
<1> SUFFICES ASSUME Init PROVE Inv
  OBVIOUS
<1>1. TypeOK
  BY IdleRecord DEF Init, TypeOK, Time, Row, NoRow, NoKey, Inserted
<1>2. InOrder /\ NewestValid
  BY DEF Init, NoRow, Inserted, InOrder, NewestValid, Newest
<1>3. SuccessorFirst /\ Blacklisting
  BY IdleRecord DEF Init, SuccessorFirst, Blacklisting, Unexpired
<1> QED BY <1>1, <1>2, <1>3 DEF Inv

LEMMA NextInv ==
    ASSUME Inv, [Next]_vars
    PROVE  Inv'
<1>1. CASE \E h \in Handler, t \in Token : RefreshRead(h, t) \/ Insert(h, t)
  BY <1>1, RefreshReadStep, InsertStep
<1>2. CASE \E h \in Handler, n \in Node, a \in Token : BeginLogout(h, n, a)
  BY <1>2, BeginLogoutStep
<1>3. ASSUME NEW h \in Handler,
             \/ Login(h) \/ RefreshSign(h) \/ RetireOld(h)
             \/ TakeTtl(h) \/ Blacklist(h) \/ BlacklistLocally(h)
             \/ BeginLogoutAll(h) \/ RevokeAll(h)
             \/ \E S \in SUBSET Token : DropToken(h, S) \/ ClearDevice(h, S)
             \/ TakeMarkTime(h) \/ SetMark(h) \/ Fail(h)
      PROVE  Inv'
  <2>1. {} \in SUBSET Token
    OBVIOUS
  <2> QED BY <1>3, <2>1, SignStep, RetireOldStep, TakeTtlStep, BlacklistStep,
             BlacklistLocallyStep, BeginLogoutAllStep, RevocationSteps,
             TakeMarkTimeStep, SetMarkStep, FailStep
<1>4. CASE \/ \E t \in Token : RevokeSession(t) \/ Expire(t)
           \/ \E keep \in Token \cup {0} : RevokeOthers(keep)
  BY <1>4, AccountSteps, ExpireStep
<1>5. CASE ResetPassword \/ Tick
  BY <1>5, ResetPasswordStep, TickStep
<1>6. CASE UNCHANGED vars
  BY <1>6 DEF vars, store, redis, history, Inv, TypeOK, InOrder, NewestValid, Newest,
     Valid, Inserted, SuccessorFirst, Blacklisting, Unexpired
<1> QED BY <1>1, <1>2, <1>3, <1>4, <1>5, <1>6 DEF Next

\* The newest row of every session the user has not ended is valid, and a row is
\* retired only after its successor has been inserted.
THEOREM Invariance == Spec => []Inv
<1>1. Inv /\ [Next]_vars => Inv'
  BY NextInv
<1> QED BY InitInv, <1>1, PTL DEF Spec

\* The rows, keys and records keep their shapes, and a key is dropped in time.
THEOREM TypeCorrectness == Spec => []TypeOK
<1>1. Inv => TypeOK
  BY DEF Inv
<1> QED BY Invariance, <1>1, PTL

\* Wherever refreshes race, fail or die, a session the user has not ended keeps a
\* row that can be refreshed: its newest.
THEOREM NoSessionLost == Spec => []NeverStranded
<1>1. Inv => NeverStranded
  <2> SUFFICES ASSUME Inv, NEW r \in Token, Inserted(r), row[r].root = r, r \notin closed
               PROVE  \E t \in Token : Valid(t) /\ row[t].root = r
    BY DEF NeverStranded
  <2> DEFINE S == {t \in Token : Inserted(t) /\ row[t].root = r}
  <2>1. S \in SUBSET Token /\ S # {}
    OBVIOUS
  <2>2. PICK u \in S : \A v \in S : v <= u
    BY <2>1, LastRow
  <2>3. Newest(u) /\ u \in Token /\ row[u].root = r
    BY <2>2 DEF Newest
  <2> QED BY <2>3 DEF Inv, NewestValid
<1> QED BY Invariance, <1>1, PTL

-----------------------------------------------------------------------------
(***************************************************************************)
(* Logouts hold: those from all devices as long as none takes its time     *)
(* while another is about to set the mark.                                 *)
(***************************************************************************)

\* What is x times d or more is not less than x when divided by d.
LEMMA NotInTime ==
    ASSUME NEW n \in Nat, NEW d \in Nat \ {0}, NEW x \in Nat, n >= x * d
    PROVE  ~(n \div d < x)
<1> DEFINE q == n \div d
           r == n % d
<1>1. q \in Nat /\ r \in Nat /\ r < d /\ n = d * q + r
  OBVIOUS
<1> HIDE DEF q, r
<1> SUFFICES ASSUME q < x PROVE FALSE
  BY DEF q
<1>2. q + 1 <= x
  BY <1>1
<1>3. PICK k \in Nat : x = q + 1 + k
  <2>1. x - q - 1 \in Nat /\ x = q + 1 + (x - q - 1)
    BY <1>1, <1>2
  <2> QED BY <2>1
<1>4. x * d = d * q + d + k * d
  BY <1>1, <1>3
<1>5. k * d \in Nat /\ d * q \in Nat
  BY <1>1
<1> QED BY <1>1, <1>4, <1>5

LEMMA Distributes ==
    ASSUME NEW x \in Nat, NEW y \in Nat, NEW d \in Nat
    PROVE  /\ (x + y) * d = x * d + y * d
           /\ x * d \in Nat /\ y * d \in Nat
OBVIOUS

LEMMA Lifetime == AccessTTL * Second \in Nat \ {0}
BY Product, TimesAssumption

-----------------------------------------------------------------------------

\* Neither clock nor mark nor access tokens change, and no handler takes a time.
Quiet ==
    /\ UNCHANGED <<now, access, mark, cut, crossed>>
    /\ \A g \in Handler : http'[g] = http[g] \/ http'[g].pc # "setting"

LEMMA QuietStep ==
    ASSUME LogoutInv, Quiet
    PROVE  LogoutInv'
<1>1. MarkOutlives'
  BY DEF LogoutInv, MarkOutlives, Quiet, Unexpired
<1>2. MarksInTurn'
  BY DEF LogoutInv, MarksInTurn, Quiet
<1> QED BY <1>1, <1>2 DEF LogoutInv

\* Handler h moves on to record w, with no time to set.
LEMMA QuietMove ==
    ASSUME Inv, LogoutInv, NEW h \in Handler, NEW w,
           http' = [http EXCEPT ![h] = w],
           UNCHANGED <<now, access, mark, cut, crossed>>,
           w.pc # "setting"
    PROVE  LogoutInv'
<1>1. http'[h] = w /\ \A g \in Handler : g # h => http'[g] = http[g]
  BY DEF Inv, TypeOK
<1>2. Quiet
  BY <1>1 DEF Quiet
<1> QED BY <1>2, QuietStep

LEMMA QuietRecords ==
    IdleHandler.pc # "setting" /\ [IdleHandler EXCEPT !.pc = "dropping"].pc # "setting"
BY DEF IdleHandler

LEMMA TokenSteps ==
    ASSUME Inv, LogoutInv, NEW h \in Handler,
           \/ Login(h) \/ RefreshSign(h) \/ RetireOld(h) \/ Fail(h) \/ BeginLogoutAll(h)
           \/ \E t \in Token : RefreshRead(h, t)
           \/ \E n \in Node, a \in Token : BeginLogout(h, n, a)
    PROVE  LogoutInv'
<1>1. http[h] \in HandlerRecord
  BY DEF Inv, TypeOK
<1>2. CASE Login(h) \/ RefreshSign(h)
  <2> DEFINE w == [http[h] EXCEPT !.pc = "inserting", !.iat = now \div Second]
  <2>1. http' = [http EXCEPT ![h] = w] /\ UNCHANGED <<now, access, mark, cut, crossed>>
    BY <1>2 DEF Login, RefreshSign, store, redis, history
  <2>2. w.pc # "setting"
    BY <1>1 DEF HandlerRecord
  <2> HIDE DEF w
  <2> QED BY <2>1, <2>2, QuietMove
<1>3. CASE RetireOld(h) \/ Fail(h)
  <2>1. http' = [http EXCEPT ![h] = IdleHandler] /\ UNCHANGED <<now, access, mark, cut, crossed>>
    BY <1>3 DEF RetireOld, Fail, Finish, store, redis, history
  <2> QED BY <2>1, QuietRecords, QuietMove
<1>4. ASSUME NEW t \in Token, RefreshRead(h, t) PROVE LogoutInv'
  <2> DEFINE w == [http[h] EXCEPT !.pc = "read", !.tok = t]
  <2>1. http' = [http EXCEPT ![h] = w] /\ UNCHANGED <<now, access, mark, cut, crossed>>
    BY <1>4 DEF RefreshRead, store, redis, history
  <2>2. w.pc # "setting"
    BY <1>1 DEF HandlerRecord
  <2> HIDE DEF w
  <2> QED BY <2>1, <2>2, QuietMove
<1>5. ASSUME NEW n \in Node, NEW a \in Token, BeginLogout(h, n, a) PROVE LogoutInv'
  <2> DEFINE w == [http[h] EXCEPT !.pc = "guarded", !.node = n, !.tok = a]
  <2>1. http' = [http EXCEPT ![h] = w] /\ UNCHANGED <<now, access, mark, cut, crossed>>
    BY <1>5 DEF BeginLogout, store, redis
  <2>2. w.pc # "setting"
    BY <1>1 DEF HandlerRecord
  <2> HIDE DEF w
  <2> QED BY <2>1, <2>2, QuietMove
<1>6. CASE BeginLogoutAll(h)
  <2> DEFINE w == [http[h] EXCEPT !.pc = "dropping", !.all = TRUE]
  <2>1. http' = [http EXCEPT ![h] = w] /\ UNCHANGED <<now, access, mark, cut, crossed>>
    BY <1>6 DEF BeginLogoutAll, store, redis
  <2>2. w.pc # "setting"
    BY <1>1 DEF HandlerRecord
  <2> HIDE DEF w
  <2> QED BY <2>1, <2>2, QuietMove
<1> QED BY <1>2, <1>3, <1>4, <1>5, <1>6

LEMMA LogoutSteps ==
    ASSUME Inv, LogoutInv, NEW h \in Handler, NEW S \in SUBSET Token,
           \/ TakeTtl(h) \/ Blacklist(h) \/ BlacklistLocally(h)
           \/ DropToken(h, S) \/ ClearDevice(h, S) \/ RevokeAll(h)
    PROVE  LogoutInv'
<1>1. http[h] \in HandlerRecord
  BY DEF Inv, TypeOK
<1>2. CASE TakeTtl(h)
  <2> DEFINE a == http[h].tok
  <2>1. PICK s : s = BlacklistTtl(a)
    OBVIOUS
  <2> DEFINE v == [http[h] EXCEPT !.pc = "blacklisting", !.secs = s]
             d == [IdleHandler EXCEPT !.pc = "dropping"]
  <2>2. /\ http' = [http EXCEPT ![h] = IF Unexpired(a) THEN v ELSE d]
        /\ UNCHANGED <<now, access, mark, cut, crossed>>
    BY <1>2, <2>1 DEF TakeTtl, store, redis, history
  <2>3. v.pc # "setting" /\ d.pc # "setting"
    BY <1>1, QuietRecords DEF HandlerRecord
  <2> HIDE DEF v, d, a
  <2>4. CASE Unexpired(a)
    BY <2>2, <2>3, <2>4, QuietMove
  <2>5. CASE ~Unexpired(a)
    BY <2>2, <2>3, <2>5, QuietMove
  <2> QED BY <2>4, <2>5
<1>3. CASE Blacklist(h) \/ BlacklistLocally(h)
  <2> DEFINE d == [IdleHandler EXCEPT !.pc = "dropping"]
  <2>1. http' = [http EXCEPT ![h] = d] /\ UNCHANGED <<now, access, mark, cut, crossed>>
    BY <1>3 DEF Blacklist, BlacklistLocally, redis, history
  <2>2. d.pc # "setting"
    BY QuietRecords
  <2> HIDE DEF d
  <2> QED BY <2>1, <2>2, QuietMove
<1>4. CASE DropToken(h, S)
  <2> DEFINE w == [http[h] EXCEPT !.pc = IF http[h].all THEN "revokingAll" ELSE "clearing"]
  <2>1. http' = [http EXCEPT ![h] = w] /\ UNCHANGED <<now, access, mark, cut, crossed>>
    BY <1>4 DEF DropToken, redis
  <2>2. w.pc # "setting"
    BY <1>1 DEF HandlerRecord
  <2> HIDE DEF w
  <2> QED BY <2>1, <2>2, QuietMove
<1>5. CASE ClearDevice(h, S)
  BY <1>5, QuietRecords, QuietMove DEF ClearDevice, Finish, redis
<1>6. CASE RevokeAll(h)
  <2> DEFINE w == [http[h] EXCEPT !.pc = "marking"]
  <2>1. http' = [http EXCEPT ![h] = w] /\ UNCHANGED <<now, access, mark, cut, crossed>>
    BY <1>6 DEF RevokeAll, redis
  <2>2. w.pc # "setting"
    BY <1>1 DEF HandlerRecord
  <2> HIDE DEF w
  <2> QED BY <2>1, <2>2, QuietMove
<1> QED BY <1>2, <1>3, <1>4, <1>5, <1>6

-----------------------------------------------------------------------------
(* The steps of a logout from all devices that matter *)

\* Who takes a time while another has one in hand has crossed it.
LEMMA TakeMarkTimeInTurn ==
    ASSUME Inv, LogoutInv, NEW h \in Handler, TakeMarkTime(h)
    PROVE  LogoutInv'
<1> DEFINE w == [http[h] EXCEPT !.pc = "setting", !.at = now]
<1>1. /\ http' = [http EXCEPT ![h] = w]
      /\ crossed' = (crossed \/ \E g \in Handler : http[g].pc = "setting")
      /\ UNCHANGED <<now, access, mark, cut>>
  BY DEF TakeMarkTime, store, redis
<1>2. w.pc = "setting" /\ w.at = now
  BY DEF Inv, TypeOK, HandlerRecord
<1> HIDE DEF w
<1>3. http'[h] = w /\ \A g \in Handler : g # h => http'[g] = http[g]
  BY <1>1 DEF Inv, TypeOK
<1>4. now \in Nat /\ now >= cut
  BY DEF LogoutInv, MarkOutlives, Inv, TypeOK, Time
<1>5. ASSUME ~crossed' PROVE ~crossed /\ \A g \in Handler : http[g].pc # "setting"
  BY <1>1, <1>5
<1>6. MarksInTurn'
  BY <1>1, <1>2, <1>3, <1>4, <1>5 DEF LogoutInv, MarksInTurn
<1>7. MarkOutlives'
  BY <1>1, <1>5 DEF LogoutInv, MarkOutlives, Unexpired
<1> QED BY <1>6, <1>7 DEF LogoutInv

\* When none was crossed, no time is as late as the one that is set.
LEMMA SetMarkInTurn ==
    ASSUME Inv, LogoutInv, NEW h \in Handler, SetMark(h)
    PROVE  LogoutInv'
<1>1. PICK life \in Nat \ {0} : life = AccessTTL * Second
  BY Lifetime
<1>2. PICK at \in Nat : at = http[h].at /\ at <= now /\ (~crossed => cut <= at)
  BY DEF SetMark, LogoutInv, MarksInTurn, Inv, TypeOK, HandlerRecord, Time
<1>3. now \in Nat /\ cut \in Nat \cup {-1} /\ cut <= now
  BY DEF Inv, TypeOK, Time, LogoutInv, MarkOutlives
<1>4. /\ mark' = [before |-> at, until |-> now + life]
      /\ cut' = IF at > cut THEN at ELSE cut
      /\ http' = [http EXCEPT ![h] = IdleHandler]
      /\ UNCHANGED <<now, access, crossed>>
  BY <1>1, <1>2 DEF SetMark, Finish
<1>5. cut' <= now /\ (~crossed => cut' = at)
  BY <1>2, <1>3, <1>4
<1>6. http'[h] = IdleHandler /\ \A g \in Handler : g # h => http'[g] = http[g]
  BY <1>4 DEF Inv, TypeOK
<1>7. ~crossed => \A g \in Handler : http'[g].pc # "setting"
  BY <1>6, QuietRecords DEF SetMark, LogoutInv, MarksInTurn
<1>8. \A g \in Handler : http'[g].pc = "setting" => http'[g].at <= now
  BY <1>6, QuietRecords DEF LogoutInv, MarksInTurn
<1>9. MarksInTurn'
  BY <1>4, <1>7, <1>8 DEF MarksInTurn
<1>10. MarkOutlives'
  <2>1. mark' # NoKey /\ mark'.before = at /\ mark'.until = now + life
    BY <1>3, <1>4 DEF NoKey
  <2>2. mark'.until >= at + life
    BY <1>2, <1>3, <2>1
  <2>3. \A a \in Token : Unexpired(a)' => InTime(access'[a], now')
    BY <1>4 DEF LogoutInv, MarkOutlives, Unexpired
  <2> QED BY <1>1, <1>4, <1>5, <2>1, <2>2, <2>3 DEF MarkOutlives
<1> QED BY <1>9, <1>10 DEF LogoutInv

LEMMA InsertInTime ==
    ASSUME Inv, LogoutInv, NEW h \in Handler, NEW u \in Token, Insert(h, u)
    PROVE  LogoutInv'
<1> DEFINE t == http[h].tok
<1>1. PICK w : /\ w = IF t = 0 THEN IdleHandler
                       ELSE [http[h] EXCEPT !.pc = "retiring", !.iat = 0]
               /\ http' = [http EXCEPT ![h] = w]
  BY DEF Insert, Finish
<1>2. /\ access' = [access EXCEPT ![u] = IF InTime(http[h].iat, now)
                                            THEN http[h].iat ELSE -1]
      /\ UNCHANGED <<now, mark, cut, crossed>>
  BY DEF Insert, redis, history
<1>3. w.pc \in {"idle", "retiring"}
  BY <1>1 DEF Inv, TypeOK, HandlerRecord, IdleHandler
<1>4. http'[h] = w /\ \A g \in Handler : g # h => http'[g] = http[g]
  BY <1>1 DEF Inv, TypeOK
<1>5. MarksInTurn'
  BY <1>2, <1>3, <1>4 DEF LogoutInv, MarksInTurn
<1>6. \A a \in Token : Unexpired(a)' => InTime(access'[a], now')
  <2>1. \A a \in Token : a # u => access'[a] = access[a]
    BY <1>2 DEF Inv, TypeOK
  <2>2. access'[u] = IF InTime(http[h].iat, now) THEN http[h].iat ELSE -1
    BY <1>2 DEF Inv, TypeOK
  <2> QED BY <1>2, <2>1, <2>2 DEF Unexpired, LogoutInv, MarkOutlives
<1> QED BY <1>2, <1>5, <1>6 DEF LogoutInv, MarkOutlives

\* A mark is dropped when all it stands against has expired.
LEMMA TickOutlives ==
    ASSUME Inv, LogoutInv, Tick
    PROVE  LogoutInv'
<1>1. PICK life \in Nat \ {0} : life = AccessTTL * Second
  BY Lifetime
<1>2. now \in Nat /\ now' = now + 1 /\ UNCHANGED <<http, cut, crossed>> /\ cut \in Nat \cup {-1}
  BY DEF Tick, Inv, TypeOK, Time
<1>3. MarksInTurn'
  <2>1. \A h \in Handler : http[h].at \in Nat
    BY DEF Inv, TypeOK, HandlerRecord, Time
  <2>2. \A h \in Handler : http[h].pc = "setting" => http[h].at <= now'
    BY <1>2, <2>1 DEF LogoutInv, MarksInTurn
  <2> QED BY <1>2, <2>2 DEF LogoutInv, MarksInTurn
<1>4. \A a \in Token : Unexpired(a)' => InTime(access'[a], now')
  BY DEF Tick, Unexpired
<1>5. ~crossed' /\ cut' # -1 =>
                   \/ mark' # NoKey /\ mark'.before = cut' /\ mark'.until >= cut' + life
                   \/ now' >= cut' + life
  <2> SUFFICES ASSUME ~crossed, cut # -1, ~(now' >= cut + life)
               PROVE  mark' # NoKey /\ mark'.before = cut /\ mark'.until >= cut + life
    BY <1>2
  <2>1. mark # NoKey /\ mark.before = cut /\ mark.until >= cut + life
    BY <1>1, <1>2 DEF LogoutInv, MarkOutlives
  <2>2. mark.until \in Nat
    BY DEF Inv, TypeOK, Time
  <2>3. now' < mark.until
    BY <1>1, <1>2, <2>1, <2>2
  <2>4. mark' = mark
    BY <1>2, <2>3 DEF Tick
  <2> QED BY <2>1, <2>4
<1>6. cut' <= now'
  BY <1>2 DEF LogoutInv, MarkOutlives
<1> QED BY <1>1, <1>3, <1>4, <1>5, <1>6 DEF LogoutInv, MarkOutlives

LEMMA RowSteps ==
    ASSUME LogoutInv,
           \/ \E t \in Token : RevokeSession(t) \/ Expire(t)
           \/ \E keep \in Token \cup {0} : RevokeOthers(keep)
           \/ ResetPassword \/ UNCHANGED vars
    PROVE  LogoutInv'
<1>1. UNCHANGED <<now, access, mark, cut, crossed, http>>
  BY DEF RevokeSession, Expire, RevokeOthers, ResetPassword, vars, store, redis, history
<1>2. Quiet
  BY <1>1 DEF Quiet
<1> QED BY <1>2, QuietStep

-----------------------------------------------------------------------------

LEMMA InitLogoutInv == Init => LogoutInv
<1> SUFFICES ASSUME Init PROVE LogoutInv
  OBVIOUS
<1>1. \A h \in Handler : http[h].pc = "idle"
  BY IdleRecord DEF Init
<1>2. MarksInTurn
  BY <1>1 DEF MarksInTurn
<1>3. MarkOutlives
  BY DEF Init, MarkOutlives, Unexpired
<1> QED BY <1>2, <1>3 DEF LogoutInv

LEMMA NextLogoutInv ==
    ASSUME Inv, LogoutInv, [Next]_vars
    PROVE  LogoutInv'
<1>1. ASSUME NEW h \in Handler, NEW t \in Token, RefreshRead(h, t) \/ Insert(h, t)
      PROVE  LogoutInv'
  BY <1>1, TokenSteps, InsertInTime
<1>2. ASSUME NEW h \in Handler, NEW n \in Node, NEW a \in Token, BeginLogout(h, n, a)
      PROVE  LogoutInv'
  BY <1>2, TokenSteps
<1>3. ASSUME NEW h \in Handler,
             \/ Login(h) \/ RefreshSign(h) \/ RetireOld(h)
             \/ TakeTtl(h) \/ Blacklist(h) \/ BlacklistLocally(h)
             \/ BeginLogoutAll(h) \/ RevokeAll(h)
             \/ \E S \in SUBSET Token : DropToken(h, S) \/ ClearDevice(h, S)
             \/ TakeMarkTime(h) \/ SetMark(h) \/ Fail(h)
      PROVE  LogoutInv'
  <2>1. CASE Login(h) \/ RefreshSign(h) \/ RetireOld(h) \/ Fail(h) \/ BeginLogoutAll(h)
    BY <2>1, TokenSteps
  <2>2. CASE \/ TakeTtl(h) \/ Blacklist(h) \/ BlacklistLocally(h) \/ RevokeAll(h)
             \/ \E S \in SUBSET Token : DropToken(h, S) \/ ClearDevice(h, S)
    <3>1. {} \in SUBSET Token
      OBVIOUS
    <3> QED BY <2>2, <3>1, LogoutSteps
  <2>3. CASE TakeMarkTime(h) \/ SetMark(h)
    BY <2>3, TakeMarkTimeInTurn, SetMarkInTurn
  <2> QED BY <1>3, <2>1, <2>2, <2>3
<1>4. CASE \/ \E t \in Token : RevokeSession(t) \/ Expire(t)
           \/ \E keep \in Token \cup {0} : RevokeOthers(keep)
           \/ ResetPassword \/ UNCHANGED vars
  BY <1>4, RowSteps
<1>5. CASE Tick
  BY <1>5, TickOutlives
<1> QED BY <1>1, <1>2, <1>3, <1>4, <1>5 DEF Next

LEMMA Refused ==
    ASSUME Inv, LogoutInv
    PROVE  LogoutAllHolds
<1> SUFFICES ASSUME ~crossed, NEW a \in Token, Unexpired(a), access[a] * Second <= cut, Accepted(a)
             PROVE  FALSE
  BY DEF LogoutAllHolds
<1>1. PICK iat \in Nat, s \in Nat : iat = access[a] /\ s = iat * Second
  BY TimesAssumption, Distributes DEF Inv, TypeOK, Unexpired
<1>2. now \in Nat /\ cut \in Nat /\ s <= cut
  BY <1>1 DEF Inv, TypeOK, Time
<1>3. CASE mark # NoKey /\ mark.before = cut
  BY <1>1, <1>2, <1>3 DEF Accepted, Marked
<1>4. CASE now >= cut + AccessTTL * Second
  <2>1. (iat + AccessTTL) * Second = s + AccessTTL * Second /\ AccessTTL * Second \in Nat
    BY <1>1, TimesAssumption, Distributes
  <2>2. now >= (iat + AccessTTL) * Second
    BY <1>2, <1>4, <2>1
  <2>3. ~(now \div Second < iat + AccessTTL)
    BY <1>2, <2>2, NotInTime, TimesAssumption
  <2> QED BY <1>1, <2>3 DEF LogoutInv, MarkOutlives, InTime, Exp
<1> QED BY <1>2, <1>3, <1>4 DEF LogoutInv, MarkOutlives

\* However many logouts from all devices there are, no access token signed up
\* to the time of one that succeeded is accepted again, unless one took its
\* time while another was about to set the mark: the last mark is the latest,
\* and stands until those tokens have expired (setUserRevokedBefore).
THEOREM LogoutAllFinal == Spec => []LogoutAllHolds
<1>1. LogoutInv /\ Inv /\ [Next]_vars => LogoutInv'
  BY NextLogoutInv
<1>2. Inv /\ LogoutInv => LogoutAllHolds
  BY Refused
<1> QED BY InitLogoutInv, Invariance, <1>1, <1>2, PTL DEF Spec

-----------------------------------------------------------------------------
(* The blacklist *)

\* What is left of a division by d is less than d.
LEMMA RoundedDown ==
    ASSUME NEW m \in Int, NEW d \in Nat \ {0}
    PROVE  (m \div d) * d > m - d
OBVIOUS

LEMMA TtlLasts ==
    ASSUME Inv, NEW a \in Token, Unexpired(a)
    PROVE  now + BlacklistTtl(a) * Second > LastSecond(a)
<1>1. PICK end \in Int : end = Exp(access[a]) * Second /\ LastSecond(a) = end - Second
  <2>1. PICK e \in Int : e = Exp(access[a])
    BY TimesAssumption DEF Inv, TypeOK, Exp
  <2>2. e * Second \in Int /\ (e - 1) * Second = e * Second - Second
    BY <2>1, TimesAssumption
  <2> QED BY <2>1, <2>2 DEF LastSecond
<1>2. now \in Nat /\ Second \in Nat \ {0}
  BY TimesAssumption DEF Inv, TypeOK, Time
<1>3. PICK s \in Int : s = (end - now) \div Second
  BY <1>1, <1>2, Division
<1>4. s * Second > end - now - Second
  <2>1. PICK m \in Int : m = end - now
    BY <1>2
  <2>2. (m \div Second) * Second > m - Second
    BY <1>2, RoundedDown
  <2>3. m \div Second = s
    BY <2>1, <1>3
  <2>4. s * Second > m - Second
    BY <2>2, <2>3
  <2> QED BY <2>1, <2>4
<1>5. PICK ttl \in Int : ttl = BlacklistTtl(a) /\ ttl >= s
  <2>1. BlacklistTtl(a) = IF s < 1 THEN 1 ELSE s
    BY <1>1, <1>3 DEF BlacklistTtl
  <2> QED BY <2>1
<1>6. ttl * Second >= s * Second /\ ttl * Second \in Int
  <2>1. PICK k \in Nat : ttl = s + k
    <3>1. ttl - s \in Nat /\ ttl = s + (ttl - s)
      BY <1>5
    <3> QED BY <3>1
  <2>2. ttl * Second = s * Second + k * Second /\ k * Second \in Nat
    BY <2>1, <1>2
  <2> QED BY <2>2, <1>2
<1>7. s * Second \in Int
  BY <1>2
<1> QED BY <1>1, <1>2, <1>4, <1>5, <1>6, <1>7

\* No access token and no entry changes, no row goes, and no handler is about to
\* add an entry that was not.
Listless ==
    /\ UNCHANGED <<now, access, blacklist, gone>>
    /\ \A t \in Token : Inserted(t) => Inserted(t)'
    /\ \A g \in Handler : http'[g] = http[g] \/ http'[g].pc # "blacklisting"

LEMMA ListlessStep ==
    ASSUME Inv, BlacklistLasts, Listless
    PROVE  BlacklistLasts'
<1>1. \A a \in gone : a \in Token
  BY DEF Inv, TypeOK
<1>2. /\ \A h \in Handler :
            http'[h].pc = "blacklisting" /\ access[http'[h].tok] # -1 =>
              now + http'[h].secs * Second > (Exp(access[http'[h].tok]) - 1) * Second
      /\ \A a \in gone :
            /\ Inserted(a)'
            /\ access[a] # -1 /\ now <= (Exp(access[a]) - 1) * Second =>
                 blacklist[a] > (Exp(access[a]) - 1) * Second
  BY <1>1 DEF BlacklistLasts, Listless, Unexpired, LastSecond
<1> QED BY <1>2 DEF BlacklistLasts, Listless, Unexpired, LastSecond, Exp

LEMMA RowsStay ==
    ASSUME Inv, NEW S \in SUBSET Token, RevokeRows(S) \/ UNCHANGED row
    PROVE  \A t \in Token : Inserted(t) => Inserted(t)'
BY DEF RevokeRows, Inserted, Inv, TypeOK, Row

LEMMA ListlessSteps ==
    ASSUME Inv, BlacklistLasts, NEW h \in Handler, NEW S \in SUBSET Token,
           \/ Login(h) \/ RefreshSign(h) \/ RetireOld(h) \/ Fail(h)
           \/ \E t \in Token : RefreshRead(h, t)
           \/ \E n \in Node, a \in Token : BeginLogout(h, n, a)
           \/ BlacklistLocally(h) \/ BeginLogoutAll(h)
           \/ DropToken(h, S) \/ ClearDevice(h, S) \/ RevokeAll(h)
           \/ TakeMarkTime(h) \/ SetMark(h)
    PROVE  BlacklistLasts'
<1>1. http \in [Handler -> HandlerRecord] /\ http[h] \in HandlerRecord
  BY DEF Inv, TypeOK
<1>2. UNCHANGED <<now, access, blacklist, gone>>
  BY DEF Login, RefreshSign, RetireOld, Fail, RefreshRead, BeginLogout, BlacklistLocally,
     BeginLogoutAll, DropToken, ClearDevice, RevokeAll, TakeMarkTime, SetMark,
     store, redis, history
<1>3. \A t \in Token : Inserted(t) => Inserted(t)'
  <2>1. CASE DropToken(h, S) \/ ClearDevice(h, S)
    BY <2>1, RowsStay DEF DropToken, ClearDevice
  <2>2. CASE RevokeAll(h)
    <3>1. {t \in Token : Active(t)} \in SUBSET Token
      OBVIOUS
    <3> QED BY <2>2, <3>1, RowsStay DEF RevokeAll
  <2>3. CASE RetireOld(h)
    BY <2>3 DEF RetireOld, Inserted, Inv, TypeOK, Row
  <2>4. CASE \/ Login(h) \/ RefreshSign(h) \/ Fail(h)
             \/ \E t \in Token : RefreshRead(h, t)
             \/ \E n \in Node, a \in Token : BeginLogout(h, n, a)
             \/ BlacklistLocally(h) \/ BeginLogoutAll(h) \/ TakeMarkTime(h) \/ SetMark(h)
    BY <2>4 DEF Login, RefreshSign, Fail, RefreshRead, BeginLogout, BlacklistLocally,
       BeginLogoutAll, TakeMarkTime, SetMark, store, redis, history, Inserted
  <2> QED BY <2>1, <2>2, <2>3, <2>4
<1>4. \A g \in Handler : g # h => http'[g] = http[g]
  BY <1>1 DEF Login, RefreshSign, RetireOld, Fail, RefreshRead, BeginLogout, BlacklistLocally,
     BeginLogoutAll, DropToken, ClearDevice, RevokeAll, TakeMarkTime, SetMark, Finish
<1>5. http'[h].pc # "blacklisting"
  <2>1. CASE \/ RetireOld(h) \/ Fail(h) \/ BlacklistLocally(h) \/ ClearDevice(h, S)
             \/ SetMark(h)
    BY <2>1, <1>1 DEF RetireOld, Fail, BlacklistLocally, ClearDevice, SetMark, Finish, IdleHandler
  <2>2. CASE Login(h) \/ RefreshSign(h) \/ (\E t \in Token : RefreshRead(h, t))
             \/ (\E n \in Node, a \in Token : BeginLogout(h, n, a))
    BY <2>2, <1>1 DEF Login, RefreshSign, RefreshRead, BeginLogout, HandlerRecord
  <2>3. CASE BeginLogoutAll(h) \/ DropToken(h, S) \/ RevokeAll(h) \/ TakeMarkTime(h)
    BY <2>3, <1>1 DEF BeginLogoutAll, DropToken, RevokeAll, TakeMarkTime, HandlerRecord
  <2> QED BY <2>1, <2>2, <2>3
<1> QED BY <1>2, <1>3, <1>4, <1>5, ListlessStep DEF Listless

LEMMA AccountListless ==
    ASSUME Inv, BlacklistLasts,
           \/ \E t \in Token : RevokeSession(t) \/ Expire(t)
           \/ \E keep \in Token \cup {0} : RevokeOthers(keep)
           \/ ResetPassword \/ UNCHANGED vars
    PROVE  BlacklistLasts'
<1>1. UNCHANGED <<now, access, blacklist, gone, http>>
  BY DEF RevokeSession, Expire, RevokeOthers, ResetPassword, vars, store, redis, history
<1>2. \A t \in Token : Inserted(t) => Inserted(t)'
  <2>1. CASE \E t \in Token : RevokeSession(t)
    <3>1. PICK t \in Token : RevokeRows({t}) /\ {t} \in SUBSET Token
      BY <2>1 DEF RevokeSession
    <3> QED BY <3>1, RowsStay
  <2>2. CASE \E keep \in Token \cup {0} : RevokeOthers(keep)
    <3>1. PICK keep : RevokeRows({t \in Token : Active(t)} \ {keep})
      BY <2>2 DEF RevokeOthers
    <3>2. {t \in Token : Active(t)} \ {keep} \in SUBSET Token
      OBVIOUS
    <3> QED BY <3>1, <3>2, RowsStay
  <2>3. CASE \E t \in Token : Expire(t)
    BY <2>3 DEF Expire, Inserted, Inv, TypeOK, Row
  <2>4. CASE ResetPassword \/ UNCHANGED vars
    BY <2>4 DEF ResetPassword, vars, store, Inserted
  <2> QED BY <2>1, <2>2, <2>3, <2>4
<1> QED BY <1>1, <1>2, ListlessStep DEF Listless

\* The TTL is taken for the token the handler is about to put on the list.
LEMMA TakeTtlLasts ==
    ASSUME Inv, BlacklistLasts, NEW h \in Handler, TakeTtl(h)
    PROVE  BlacklistLasts'
<1> DEFINE a == http[h].tok
<1>1. UNCHANGED <<now, row, access, blacklist, gone>>
  BY DEF TakeTtl, store, redis, history
<1>2. \A g \in Handler : g # h => http'[g] = http[g]
  BY DEF TakeTtl, Inv, TypeOK
<1>3. a \in Token
  BY DEF TakeTtl, Inv, TypeOK, HandlerRecord, Blacklisting
<1>4. /\ http'[h].pc = "blacklisting" => Unexpired(a) /\ http'[h].tok = a
      /\ http'[h].pc = "blacklisting" => http'[h].secs = BlacklistTtl(a)
  BY DEF TakeTtl, Inv, TypeOK, HandlerRecord, IdleHandler
<1>5. http'[h].pc = "blacklisting" =>
        now + http'[h].secs * Second > LastSecond(a)
  BY <1>3, <1>4, TtlLasts
<1> HIDE DEF a
<1>6. \A g \in Handler : http'[g].pc = "blacklisting" /\ access'[http'[g].tok] # -1 =>
        now' + http'[g].secs * Second > (Exp(access'[http'[g].tok]) - 1) * Second
  <2>1. CASE \E g \in Handler : g = h /\ http'[g].pc = "blacklisting"
    BY <1>1, <1>2, <1>4, <1>5 DEF BlacklistLasts, Unexpired, LastSecond
  <2>2. CASE http'[h].pc # "blacklisting"
    BY <2>2, <1>1, <1>2 DEF BlacklistLasts, Unexpired, LastSecond
  <2> QED BY <2>1, <2>2
<1>7. \A b \in gone : Inserted(b)' /\ (Unexpired(b)' <=> Unexpired(b)) /\ LastSecond(b)' = LastSecond(b)
  BY <1>1 DEF BlacklistLasts, Inserted, Unexpired, LastSecond
<1> QED BY <1>1, <1>6, <1>7 DEF BlacklistLasts, Unexpired, LastSecond, Exp

LEMMA BlacklistEntryLasts ==
    ASSUME Inv, BlacklistLasts, NEW h \in Handler, Blacklist(h)
    PROVE  BlacklistLasts'
<1> DEFINE a == http[h].tok
           until == now + http[h].secs * Second
<1>1. /\ blacklist' = [blacklist EXCEPT ![a] = until]
      /\ gone' = gone \cup {a}
      /\ UNCHANGED <<now, row, access>>
  BY DEF Blacklist
<1>2. a \in Token /\ Inserted(a)
  BY DEF Blacklist, Inv, TypeOK, HandlerRecord, Blacklisting
<1>3. Unexpired(a) => until > LastSecond(a)
  BY DEF Blacklist, BlacklistLasts
<1>4. \A g \in Handler : http'[g] = http[g] \/ http'[g].pc # "blacklisting"
  BY DEF Blacklist, Inv, TypeOK, IdleHandler
<1> HIDE DEF a, until
<1>5. \A b \in gone' : b \in Token
  BY <1>1, <1>2 DEF Inv, TypeOK
<1>6. \A b \in gone' : /\ Inserted(b)
                       /\ Unexpired(b) /\ now <= LastSecond(b) => blacklist'[b] > LastSecond(b)
  BY <1>1, <1>2, <1>3, <1>5 DEF BlacklistLasts, Inv, TypeOK
<1>7. \A g \in Handler : http'[g].pc = "blacklisting" /\ access'[http'[g].tok] # -1 =>
        now' + http'[g].secs * Second > (Exp(access'[http'[g].tok]) - 1) * Second
  BY <1>1, <1>4 DEF BlacklistLasts, Unexpired, LastSecond
<1>8. \A b \in gone' : /\ Inserted(b)'
                       /\ access'[b] # -1 /\ now' <= (Exp(access'[b]) - 1) * Second =>
                            blacklist'[b] > (Exp(access'[b]) - 1) * Second
  BY <1>1, <1>6 DEF Inserted, Unexpired, LastSecond
<1> QED BY <1>7, <1>8 DEF BlacklistLasts, Unexpired, LastSecond, Exp

\* A new token is on nobody's list.
LEMMA InsertLasts ==
    ASSUME Inv, BlacklistLasts, NEW h \in Handler, NEW u \in Token, Insert(h, u)
    PROVE  BlacklistLasts'
<1>1. ~Inserted(u) /\ UNCHANGED <<now, blacklist, gone>>
  BY DEF Insert, IsNext, redis, history
<1>2. \A t \in Token : t # u => access'[t] = access[t] /\ row'[t] = row[t]
  BY DEF Insert, Inv, TypeOK
<1>3. \A g \in Handler : http'[g].pc = "blacklisting" => http'[g] = http[g]
  <2>1. http[h] \in HandlerRecord /\ \A g \in Handler : g # h => http'[g] = http[g]
    BY DEF Insert, Finish, Inv, TypeOK
  <2>2. CASE http[h].tok = 0
    BY <2>1, <2>2, IdleRecord DEF Insert, Finish, Inv, TypeOK
  <2>3. CASE http[h].tok # 0
    BY <2>1, <2>3 DEF Insert, Inv, TypeOK, HandlerRecord
  <2> QED BY <2>1, <2>2, <2>3
<1>4. \A g \in Handler : http[g].pc = "blacklisting" =>
                           http[g].tok \in Token /\ http[g].tok # u
  BY <1>1 DEF Inv, TypeOK, HandlerRecord, Blacklisting
<1>5. \A a \in gone : a \in Token /\ a # u
  BY <1>1 DEF BlacklistLasts, Inv, TypeOK
<1>6. \A g \in Handler : http'[g].pc = "blacklisting" /\ access'[http'[g].tok] # -1 =>
        now' + http'[g].secs * Second > (Exp(access'[http'[g].tok]) - 1) * Second
  BY <1>1, <1>2, <1>3, <1>4 DEF BlacklistLasts, Unexpired, LastSecond
<1>7. \A a \in gone' : /\ Inserted(a)'
                       /\ access'[a] # -1 /\ now' <= (Exp(access'[a]) - 1) * Second =>
                            blacklist'[a] > (Exp(access'[a]) - 1) * Second
  BY <1>1, <1>2, <1>5 DEF BlacklistLasts, Inserted, Unexpired, LastSecond
<1> QED BY <1>6, <1>7 DEF BlacklistLasts, Unexpired, LastSecond, Exp

LEMMA TickLasts ==
    ASSUME Inv, BlacklistLasts, Tick
    PROVE  BlacklistLasts'
<1>1. now \in Nat /\ now' = now + 1 /\ UNCHANGED <<row, http>>
  BY DEF Tick, Inv, TypeOK, Time
<1>2. \A a \in Token : access'[a] # -1 => access'[a] = access[a] /\ access[a] # -1
  BY DEF Tick, Unexpired
<1>3. \A a \in Token : blacklist'[a] = IF now' < blacklist[a] THEN blacklist[a] ELSE 0
  BY DEF Tick
<1>4. gone' \subseteq gone /\ \A a \in gone : a \in Token
  BY DEF Tick, Inv, TypeOK
<1>5. \A g \in Handler : http[g].pc = "blacklisting" =>
                           http[g].tok \in Token /\ http[g].secs \in Nat
  BY DEF Inv, TypeOK, HandlerRecord, Blacklisting
<1>6. ASSUME NEW g \in Handler, http'[g].pc = "blacklisting", access'[http'[g].tok] # -1
      PROVE  now' + http'[g].secs * Second > (Exp(access'[http'[g].tok]) - 1) * Second
  <2>1. PICK left \in Nat : left = http[g].secs * Second
    BY <1>1, <1>5, <1>6, TimesAssumption
  <2>2. PICK last \in Int : last = (Exp(access[http[g].tok]) - 1) * Second
    <3>1. http[g].tok \in Token
      BY <1>1, <1>5, <1>6
    <3>2. PICK e \in Int : e = Exp(access[http[g].tok]) - 1
      BY <3>1, TimesAssumption DEF Inv, TypeOK, Exp
    <3> QED BY <3>2, TimesAssumption
  <2>3. now + left > last
    BY <2>1, <2>2, <1>1, <1>2, <1>5, <1>6 DEF BlacklistLasts, Unexpired, LastSecond
  <2>4. access'[http'[g].tok] = access[http[g].tok] /\ http'[g].secs = http[g].secs
    BY <1>1, <1>2, <1>5, <1>6
  <2> QED BY <2>1, <2>2, <2>3, <2>4, <1>1
<1>7. ASSUME NEW a \in gone', access'[a] # -1, now' <= (Exp(access'[a]) - 1) * Second
      PROVE  blacklist'[a] > (Exp(access'[a]) - 1) * Second
  <2>1. a \in gone /\ a \in Token /\ access'[a] = access[a] /\ access[a] # -1
    BY <1>2, <1>4, <1>7
  <2>2. PICK last \in Int : last = (Exp(access[a]) - 1) * Second
    <3>1. PICK e \in Int : e = Exp(access[a]) - 1
      BY <2>1, TimesAssumption DEF Inv, TypeOK, Exp
    <3> QED BY <3>1, TimesAssumption
  <2>3. now <= last /\ now' <= last
    BY <1>1, <1>7, <2>1, <2>2
  <2>4. blacklist[a] > last
    BY <2>1, <2>2, <2>3 DEF BlacklistLasts, Unexpired, LastSecond
  <2>5. blacklist[a] \in Nat
    BY <2>1 DEF Inv, TypeOK, Time
  <2>6. blacklist'[a] = blacklist[a]
    BY <1>1, <1>3, <2>1, <2>3, <2>4, <2>5
  <2> QED BY <2>1, <2>2, <2>4, <2>6
<1>8. \A a \in gone' : Inserted(a)'
  BY <1>1, <1>4 DEF BlacklistLasts, Inserted
<1> QED BY <1>6, <1>7, <1>8 DEF BlacklistLasts, Unexpired, LastSecond, Exp

LEMMA InitLasts == Init => BlacklistLasts
BY IdleRecord DEF Init, BlacklistLasts

LEMMA NextLasts ==
    ASSUME Inv, BlacklistLasts, [Next]_vars
    PROVE  BlacklistLasts'
<1> {} \in SUBSET Token
  OBVIOUS
<1>1. ASSUME NEW h \in Handler, NEW t \in Token, RefreshRead(h, t) \/ Insert(h, t)
      PROVE  BlacklistLasts'
  BY <1>1, ListlessSteps, InsertLasts
<1>2. ASSUME NEW h \in Handler, NEW n \in Node, NEW a \in Token, BeginLogout(h, n, a)
      PROVE  BlacklistLasts'
  BY <1>2, ListlessSteps
<1>3. ASSUME NEW h \in Handler,
             \/ Login(h) \/ RefreshSign(h) \/ RetireOld(h)
             \/ TakeTtl(h) \/ Blacklist(h) \/ BlacklistLocally(h)
             \/ BeginLogoutAll(h) \/ RevokeAll(h)
             \/ \E S \in SUBSET Token : DropToken(h, S) \/ ClearDevice(h, S)
             \/ TakeMarkTime(h) \/ SetMark(h) \/ Fail(h)
      PROVE  BlacklistLasts'
  BY <1>3, ListlessSteps, TakeTtlLasts, BlacklistEntryLasts
<1>4. CASE \/ \E t \in Token : RevokeSession(t) \/ Expire(t)
           \/ \E keep \in Token \cup {0} : RevokeOthers(keep)
           \/ ResetPassword \/ UNCHANGED vars
  BY <1>4, AccountListless
<1>5. CASE Tick
  BY <1>5, TickLasts
<1> QED BY <1>1, <1>2, <1>3, <1>4, <1>5 DEF Next

\* However handlers race and whenever Redis fails, an access token that a logout
\* has put on the Redis blacklist is refused up to its last second.
THEOREM LogoutFinal == Spec => []LogoutHolds
<1>1. Inv /\ BlacklistLasts /\ [Next]_vars => BlacklistLasts'
  BY NextLasts
<1>2. Inv /\ BlacklistLasts => LogoutHolds
  <2> SUFFICES ASSUME Inv, BlacklistLasts, NEW a \in gone, now <= LastSecond(a), Accepted(a)
               PROVE  FALSE
    BY DEF LogoutHolds
  <2>1. a \in Token /\ Unexpired(a) /\ blacklist[a] = 0
    BY DEF Inv, TypeOK, Accepted, Blacklisted
  <2>2. blacklist[a] > LastSecond(a)
    BY <2>1 DEF BlacklistLasts
  <2>3. LastSecond(a) \in Int /\ now \in Nat
    <3>1. PICK e \in Int : e = Exp(access[a]) - 1
      BY <2>1, TimesAssumption DEF Inv, TypeOK, Exp
    <3> QED BY <3>1, TimesAssumption DEF LastSecond, Inv, TypeOK, Time
  <2> QED BY <2>1, <2>2, <2>3
<1> QED BY InitLasts, Invariance, <1>1, <1>2, PTL DEF Spec
=============================================================================
