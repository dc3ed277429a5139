--------------------------- MODULE DriveTreeProofs ---------------------------
(***************************************************************************)
(* Proofs about DriveTree, for any folders and files, any number of        *)
(* handlers and any meetings of theirs: rows stay referable, and what a    *)
(* trashing or a purge has counted stays true until it writes, or the      *)
(* operation that made it false has been seen to meet it.                  *)
(***************************************************************************)
EXTENDS DriveTree, TLAPS

-----------------------------------------------------------------------------
Pc == {"idle", "writing", "parent", "walking", "collecting", "counting", "gathering",
       "descending"}

OpRecord == [kind : Kind, pc : Pc, id : Node \cup {Root}, to : Place, at : Place,
             front : SUBSET (Node \cup {Root}), seen : SUBSET Node]

Pairs == {{j, k} : j \in Kind, k \in Kind}

RowsOK ==
    /\ node \in [Node -> {"none", "active", "trashed", "purged"}]
    /\ parent \in [Node -> Place]
    /\ bound \subseteq {f \in File : Exists(f)}
    /\ \A n \in Node : Exists(n) => Referable(parent[n])

\* What a handler has read is still so, or whoever changed it met it.
Sound(r) ==
    r.pc # "idle" =>
      /\ r.id \in Node /\ r.front \subseteq Node
      /\ r.kind = "create" => node[r.id] = "none"
      /\ r.kind = "bind" => r.id \in File /\ (node[r.id] = "trashed" => Met("bind", "trash"))
      /\ r.kind = "trash" /\ r.pc = "writing" =>
           r.seen \cap bound = {} \/ Met("bind", "trash")
      /\ r.kind = "purge" =>
           \A n \in r.seen : node[n] \in {"trashed", "purged"} \/ Met("purge", "restore")
      /\ r.kind = "purge" /\ r.pc = "writing" =>
           r.seen \cap bound = {} \/ Met("purge", "bind")

OpsOK ==
    /\ op \in [Handler -> OpRecord]
    /\ \A h \in Handler : Sound(op[h])

\* Handlers at work have met, and no two create the same row.
Meetings ==
    /\ met \subseteq Pairs
    /\ \A g, h \in Handler : g # h /\ ~Free(g) /\ ~Free(h) =>
         /\ Met(op[g].kind, op[h].kind)
         /\ op[g].kind = "create" /\ op[h].kind = "create" => op[g].id # op[h].id

TreeInv == RowsOK /\ OpsOK /\ Meetings /\ BoundKeptOutOfTrash

-----------------------------------------------------------------------------
LEMMA NoOpOK == NoOp \in OpRecord /\ Sound(NoOp) /\ NoOp.pc = "idle"
BY DEF NoOp, OpRecord, Sound, Kind, Pc, Place

\* What was read stays so while rows do not change and meetings are kept.
LEMMA StaysSound ==
    ASSUME NEW r \in OpRecord, Sound(r), UNCHANGED <<node, bound>>, met \subseteq met'
    PROVE  Sound(r)'
BY DEF Sound, Met

\* A handler takes another record, and no row changes.
LEMMA Reads ==
    ASSUME TreeInv, NEW h \in Handler, NEW r \in OpRecord,
           op' = [op EXCEPT ![h] = r], UNCHANGED <<node, parent, bound>>,
           met \subseteq met', met' \subseteq Pairs,
           Sound(r)',
           r.pc # "idle" =>
             \A g \in Handler : g # h /\ ~Free(g) =>
               /\ {r.kind, op[g].kind} \in met'
               /\ r.kind = "create" /\ op[g].kind = "create" => r.id # op[g].id
    PROVE  TreeInv'
<1>1. /\ op' \in [Handler -> OpRecord] /\ op'[h] = r
      /\ \A g \in Handler : g # h => op'[g] = op[g]
  BY DEF TreeInv, OpsOK
<1>2. RowsOK'
  BY DEF TreeInv, RowsOK, Exists, Referable
<1>3. OpsOK'
  <2>1. ASSUME NEW g \in Handler, g # h
        PROVE  Sound(op[g])'
    <3>1. op'[g] = op[g] /\ op[g] \in OpRecord /\ Sound(op[g])
      BY <1>1, <2>1 DEF TreeInv, OpsOK
    <3>2. PICK o \in OpRecord : o = op[g] /\ o = op'[g]
      BY <3>1
    <3>3. Sound(o)'
      BY <3>1, <3>2, StaysSound
    <3> QED BY <3>2, <3>3 DEF Sound, Met
  <2>2. Sound(op[h])'
    BY <1>1 DEF Sound, Met
  <2> QED BY <1>1, <2>1, <2>2 DEF OpsOK
<1>4. Meetings'
  <2> SUFFICES ASSUME NEW f \in Handler, NEW g \in Handler, f # g, ~Free(f)', ~Free(g)'
               PROVE  /\ Met(op[f].kind, op[g].kind)'
                      /\ op'[f].kind = "create" /\ op'[g].kind = "create" =>
                           op'[f].id # op'[g].id
    BY DEF Meetings
  <2>1. CASE f # h /\ g # h
    BY <1>1, <2>1 DEF TreeInv, Meetings, Met, Free
  <2>2. CASE f = h
    BY <1>1, <2>2 DEF Met, Free
  <2>3. CASE g = h
    <3>1. op'[f] = op[f] /\ op'[g] = r /\ ~Free(f) /\ r.pc # "idle"
      BY <1>1, <2>3 DEF Free
    <3>2. {r.kind, op[f].kind} = {op[f].kind, r.kind}
      OBVIOUS
    <3> QED BY <2>3, <3>1, <3>2 DEF Met
  <2> QED BY <2>1, <2>2, <2>3
<1>5. BoundKeptOutOfTrash'
  BY DEF TreeInv, BoundKeptOutOfTrash, Met
<1> QED BY <1>2, <1>3, <1>4, <1>5 DEF TreeInv

\* A handler turns to its next step, having read no more.
LEMMA Turned ==
    ASSUME TreeInv, NEW h \in Handler, NEW pc \in Pc, Turn(h, pc), ~Free(h),
           UNCHANGED <<node, parent, bound, met>>,
           pc = "writing" => \/ op[h].kind \in {"create", "move", "restore", "bind"}
                             \/ op[h].seen \cap bound = {}
    PROVE  TreeInv'
<1>1. op[h] \in OpRecord /\ Sound(op[h])
  BY DEF TreeInv, OpsOK
<1>2. [op[h] EXCEPT !.pc = pc] \in OpRecord
  BY <1>1 DEF OpRecord
<1>3. PICK r \in OpRecord : r = [op[h] EXCEPT !.pc = pc]
  BY <1>2
<1>4. /\ r.pc = pc /\ r.kind = op[h].kind /\ r.id = op[h].id
      /\ r.seen = op[h].seen /\ r.front = op[h].front
  BY <1>1, <1>3 DEF OpRecord
<1>5. op' = [op EXCEPT ![h] = r]
  BY <1>1, <1>3 DEF Turn, TreeInv, OpsOK
<1>6. Sound(r)'
  <2>1. Sound(r)
    BY <1>1, <1>4 DEF Sound, Free
  <2> QED BY <2>1, StaysSound
<1>7. \A g \in Handler : g # h /\ ~Free(g) =>
        /\ {r.kind, op[g].kind} \in met'
        /\ r.kind = "create" /\ op[g].kind = "create" => r.id # op[g].id
  BY <1>4 DEF TreeInv, Meetings, Met
<1>8. met \subseteq met' /\ met' \subseteq Pairs
      /\ UNCHANGED <<node, parent, bound>>
  BY DEF TreeInv, Meetings
<1> QED BY <1>5, <1>6, <1>7, <1>8, Reads

\* A handler is done, without a change to the rows.
LEMMA Quits ==
    ASSUME TreeInv, NEW h \in Handler, End(h), UNCHANGED <<node, parent, bound, met>>
    PROVE  TreeInv'
<1>1. PICK r \in OpRecord : r = NoOp /\ Sound(r) /\ r.pc = "idle"
  BY NoOpOK
<1>2. op' = [op EXCEPT ![h] = r]
  BY <1>1 DEF End
<1>3. Sound(r)'
  BY <1>1 DEF Sound
<1>4. met \subseteq met' /\ met' \subseteq Pairs
      /\ UNCHANGED <<node, parent, bound>>
  BY DEF TreeInv, Meetings
<1> QED BY <1>1, <1>2, <1>3, <1>4, Reads

\* What a handler that begins takes.
LEMMA Started ==
    ASSUME TreeInv, NEW h \in Handler, NEW kind \in Kind, NEW pc \in Pc,
           NEW id \in Node, NEW to \in Place, Start(h, kind, pc, id, to),
           UNCHANGED <<node, parent, bound>>,
           kind = "create" => node[id] = "none" /\ \A g \in Handler : op[g].id # id,
           kind = "bind" => id \in File /\ node[id] # "trashed",
           kind \in {"trash", "purge"} => pc # "writing"
    PROVE  TreeInv'
<1>1. [kind |-> kind, pc |-> pc, id |-> id, to |-> to, at |-> to, front |-> {id}, seen |-> {}]
        \in OpRecord
  BY DEF OpRecord
<1>2. PICK r \in OpRecord :
        r = [kind |-> kind, pc |-> pc, id |-> id, to |-> to, at |-> to,
             front |-> {id}, seen |-> {}]
  BY <1>1
<1>3. r.kind = kind /\ r.pc = pc /\ r.seen = {} /\ r.front = {id} /\ r.id = id
  BY <1>2
<1>4. op' = [op EXCEPT ![h] = r]
      /\ met' = met \cup {{kind, op[g].kind} : g \in {i \in Handler : ~Free(i)}}
  BY <1>2 DEF Start
<1>5. Sound(r)'
  <2>1. Sound(r)
    BY <1>3 DEF Sound
  <2> QED BY <1>4, <2>1, StaysSound
<1>6. met' \subseteq Pairs
  <2>1. \A g \in Handler : op[g].kind \in Kind
    BY DEF TreeInv, OpsOK, OpRecord
  <2>2. \A g \in Handler : {kind, op[g].kind} \in Pairs
    BY <2>1 DEF Pairs
  <2> QED BY <1>4, <2>2 DEF TreeInv, Meetings
<1>7. \A g \in Handler : ~Free(g) => {r.kind, op[g].kind} \in met'
  BY <1>3, <1>4
<1>8. \A g \in Handler : r.kind = "create" => r.id # op[g].id
  BY <1>3
<1> QED BY <1>4, <1>5, <1>6, <1>7, <1>8, Reads
\* A handler goes on to read, with more seen.
LEMMA Goes ==
    ASSUME TreeInv, NEW h \in Handler, ~Free(h), NEW r \in OpRecord,
           op' = [op EXCEPT ![h] = r], UNCHANGED <<node, parent, bound, met>>,
           r.kind = op[h].kind, r.id = op[h].id, r.pc \notin {"idle", "writing"},
           r.front \subseteq Node,
           r.kind = "purge" =>
             \A n \in r.seen : n \in op[h].seen \/ node[n] = "trashed"
    PROVE  TreeInv'
<1>1. op[h] \in OpRecord /\ Sound(op[h])
  BY DEF TreeInv, OpsOK
<1>2. Sound(r)'
  <2>1. Sound(r)
    BY <1>1 DEF Sound, Free
  <2> QED BY <2>1, StaysSound
<1>3. \A g \in Handler : g # h /\ ~Free(g) =>
        /\ {r.kind, op[g].kind} \in met'
        /\ r.kind = "create" /\ op[g].kind = "create" => r.id # op[g].id
  BY DEF TreeInv, Meetings, Met
<1>4. met \subseteq met' /\ met' \subseteq Pairs /\ UNCHANGED <<node, parent, bound>>
  BY DEF TreeInv, Meetings
<1> QED BY <1>2, <1>3, <1>4, Reads

\* A handler writes and is done.
LEMMA Writes ==
    ASSUME TreeInv, NEW h \in Handler, End(h), UNCHANGED met,
           RowsOK', BoundKeptOutOfTrash',
           \A g \in Handler : g # h /\ ~Free(g) => Sound(op[g])'
    PROVE  TreeInv'
<1>1. /\ op' \in [Handler -> OpRecord] /\ op'[h] = NoOp
      /\ \A g \in Handler : g # h => op'[g] = op[g]
  BY NoOpOK DEF End, TreeInv, OpsOK
<1>2. OpsOK'
  <2>1. Sound(op[h])'
    BY <1>1, NoOpOK DEF Sound
  <2>2. ASSUME NEW g \in Handler, g # h, Free(g)
        PROVE  Sound(op[g])'
    BY <1>1, <2>2 DEF Sound, Free
  <2> QED BY <1>1, <2>1, <2>2 DEF OpsOK
<1>3. Meetings'
  BY <1>1, NoOpOK DEF TreeInv, Meetings, Met, Free
<1> QED BY <1>2, <1>3 DEF TreeInv

\* What is known of a handler at work, and of another one.
LEMMA Known ==
    ASSUME TreeInv, NEW h \in Handler, ~Free(h)
    PROVE  /\ op[h] \in OpRecord /\ Sound(op[h]) /\ op[h].id \in Node
           /\ \A g \in Handler : g # h /\ ~Free(g) =>
                /\ op[g] \in OpRecord /\ Sound(op[g])
                /\ Met(op[g].kind, op[h].kind)
                /\ op[g].kind = "create" /\ op[h].kind = "create" => op[g].id # op[h].id
<1>1. op[h] \in OpRecord /\ Sound(op[h])
  BY DEF TreeInv, OpsOK
<1>2. op[h].id \in Node
  BY <1>1 DEF Sound, Free
<1>3. \A g \in Handler : op[g] \in OpRecord /\ Sound(op[g])
  BY DEF TreeInv, OpsOK
<1> QED BY <1>1, <1>2, <1>3 DEF TreeInv, Meetings

-----------------------------------------------------------------------------
LEMMA CreateWrites ==
    ASSUME TreeInv, NEW a \in Handler, CreateWrite(a)
    PROVE  TreeInv'
<1>1. ~Free(a) /\ op[a].kind = "create" /\ End(a) /\ UNCHANGED <<bound, met>>
  BY DEF CreateWrite, In, Free
<1>2. PICK n \in Node : n = op[a].id /\ node[n] = "none"
  BY <1>1, Known DEF Sound, Free
<1>3. PICK p \in Place : p = op[a].to /\ Referable(p)
  BY <1>1, Known DEF OpRecord, CreateWrite
<1>4. node' = [node EXCEPT ![n] = "active"] /\ parent' = [parent EXCEPT ![n] = p]
  BY <1>2, <1>3 DEF CreateWrite
<1>5. /\ node' \in [Node -> {"none", "active", "trashed", "purged"}]
      /\ node'[n] = "active" /\ \A m \in Node : m # n => node'[m] = node[m]
      /\ parent' \in [Node -> Place]
      /\ parent'[n] = p /\ \A m \in Node : m # n => parent'[m] = parent[m]
  BY <1>4 DEF TreeInv, RowsOK
<1>6. \A m \in Node : Exists(m) => Exists(m)'
  BY <1>5 DEF Exists
<1>7. \A q \in Place : Referable(q) => Referable(q)'
  BY <1>6 DEF Referable, Place, Node
<1>8. RowsOK'
  <2>1. bound' \subseteq {f \in File : Exists(f)'}
    BY <1>1, <1>6 DEF TreeInv, RowsOK, Node
  <2>2. ASSUME NEW m \in Node, Exists(m)'
        PROVE  Referable(parent[m])'
    <3>1. CASE m = n
      BY <1>3, <1>5, <1>7, <3>1 DEF Referable
    <3>2. CASE m # n
      <4>1. Exists(m) /\ parent[m] \in Place /\ parent'[m] = parent[m]
        BY <1>5, <2>2, <3>2 DEF Exists, TreeInv, RowsOK
      <4>2. PICK q \in Place : q = parent[m] /\ q = parent'[m] /\ Referable(q)
        BY <4>1 DEF TreeInv, RowsOK
      <4> QED BY <1>7, <4>2 DEF Referable
    <3> QED BY <3>1, <3>2
  <2> QED BY <1>5, <2>1, <2>2 DEF RowsOK
<1>9. BoundKeptOutOfTrash'
  BY <1>1, <1>5 DEF TreeInv, RowsOK, BoundKeptOutOfTrash, Met, Node
<1>10. ASSUME NEW g \in Handler, g # a, ~Free(g)
       PROVE  Sound(op[g])'
  <2>1. op'[g] = op[g]
    BY <1>1, <1>10 DEF End, TreeInv, OpsOK
  <2>2. PICK r \in OpRecord : r = op[g] /\ Sound(r) /\ (r.kind = "create" => r.id # n)
    BY <1>1, <1>2, <1>10, Known
  <2>3. \A m \in r.seen : m \in Node
    BY DEF OpRecord
  <2> QED BY <1>1, <1>2, <1>5, <1>10, <2>1, <2>2, <2>3 DEF Sound, Met, Free
<1> QED BY <1>1, <1>8, <1>9, <1>10, Writes

\* A move or a binding gives a row a parent that is there.
LEMMA Placed ==
    ASSUME TreeInv, NEW n \in Node, NEW p \in Place, Referable(p),
           parent' = [parent EXCEPT ![n] = p], UNCHANGED node,
           bound' \subseteq {f \in File : Exists(f)}
    PROVE  RowsOK'
<1>1. /\ parent' \in [Node -> Place] /\ parent'[n] = p
      /\ \A m \in Node : m # n => parent'[m] = parent[m]
  BY DEF TreeInv, RowsOK
<1>2. ASSUME NEW m \in Node, Exists(m)'
      PROVE  Referable(parent[m])'
  BY <1>1, <1>2 DEF TreeInv, RowsOK, Referable, Exists
<1> QED BY <1>1, <1>2 DEF TreeInv, RowsOK, Exists

LEMMA MoveWrites ==
    ASSUME TreeInv, NEW a \in Handler, MoveWrite(a)
    PROVE  TreeInv'
<1>1. ~Free(a) /\ End(a) /\ UNCHANGED <<node, bound, met>>
  BY DEF MoveWrite, In, Free
<1>2. PICK n \in Node, p \in Place :
        Referable(p) /\ parent' = [parent EXCEPT ![n] = p]
  BY <1>1, Known DEF OpRecord, MoveWrite
<1>3. RowsOK'
  BY <1>1, <1>2, Placed DEF TreeInv, RowsOK
<1>4. BoundKeptOutOfTrash'
  BY <1>1 DEF TreeInv, BoundKeptOutOfTrash, Met
<1>5. ASSUME NEW g \in Handler, g # a, ~Free(g)
      PROVE  Sound(op[g])'
  <2>1. op'[g] = op[g]
    BY <1>1, <1>5 DEF End, TreeInv, OpsOK
  <2>2. Sound(op[g])
    BY <1>1, <1>5, Known
  <2> QED BY <1>1, <2>1, <2>2 DEF Sound, Met
<1> QED BY <1>1, <1>3, <1>4, <1>5, Writes

LEMMA BindWrites ==
    ASSUME TreeInv, NEW a \in Handler, BindWrite(a)
    PROVE  TreeInv'
<1>1. ~Free(a) /\ op[a].kind = "bind" /\ op[a].pc = "writing" /\ End(a)
      /\ UNCHANGED <<node, met>>
  BY DEF BindWrite, In, Free
<1>2. PICK f \in File : f = op[a].id /\ (node[f] = "trashed" => Met("bind", "trash"))
  BY <1>1, Known DEF Sound
<1>3. CASE f \in bound
  BY <1>1, <1>2, <1>3, Quits DEF BindWrite
<1>4. CASE f \notin bound
  <2>1. Exists(f) /\ bound' = bound \cup {f} /\ f \in Node
    BY <1>2, <1>4 DEF BindWrite, Node
  <2>2. PICK p \in Place : Referable(p) /\ parent' = [parent EXCEPT ![f] = p]
    BY <1>1, <1>2, <1>4, Known DEF OpRecord, BindWrite
  <2>3. RowsOK'
    BY <1>1, <2>1, <2>2, Placed DEF TreeInv, RowsOK
  <2>4. BoundKeptOutOfTrash'
    BY <1>1, <1>2, <2>1 DEF TreeInv, BoundKeptOutOfTrash, Met
  <2>5. ASSUME NEW g \in Handler, g # a, ~Free(g)
        PROVE  Sound(op[g])'
    <3>1. op'[g] = op[g]
      BY <1>1, <2>5 DEF End, TreeInv, OpsOK
    <3>2. Sound(op[g]) /\ Met(op[g].kind, "bind")
      BY <1>1, <2>5, Known
    <3>3. op[g].kind = "trash" => Met("bind", "trash")
      <4>1. {"trash", "bind"} = {"bind", "trash"}
        OBVIOUS
      <4> QED BY <3>2, <4>1 DEF Met
    <3> QED BY <1>1, <2>1, <3>1, <3>2, <3>3 DEF Sound, Met
  <2> QED BY <1>1, <2>3, <2>4, <2>5, Writes
<1> QED BY <1>3, <1>4

\* Into the trash, or out of it: the rows that are there stay there.
LEMMA Marked ==
    ASSUME TreeInv, NEW S \in SUBSET Node, NEW state \in {"active", "trashed"},
           Mark(S, state), UNCHANGED <<parent, bound>>
    PROVE  /\ RowsOK'
           /\ \A n \in Node : node'[n] = IF n \in S /\ Exists(n) THEN state ELSE node[n]
<1>1. \A n \in Node : node'[n] = IF n \in S /\ Exists(n) THEN state ELSE node[n]
  BY DEF Mark
<1>2. node' \in [Node -> {"none", "active", "trashed", "purged"}]
  BY DEF Mark, TreeInv, RowsOK
<1>3. \A n \in Node : Exists(n) <=> Exists(n)'
  BY <1>1 DEF Exists
<1>4. bound' \subseteq {f \in File : Exists(f)'}
  BY <1>3 DEF TreeInv, RowsOK, Node
<1>5. \A n \in Node : Exists(n)' => Referable(parent[n])'
  BY <1>3 DEF TreeInv, RowsOK, Referable, Place, Node
<1> QED BY <1>1, <1>2, <1>4, <1>5 DEF TreeInv, RowsOK

LEMMA TrashWrites ==
    ASSUME TreeInv, NEW a \in Handler, TrashWrite(a)
    PROVE  TreeInv'
<1>1. ~Free(a) /\ op[a].kind = "trash" /\ op[a].pc = "writing" /\ End(a)
      /\ UNCHANGED <<parent, bound, met>>
  BY DEF TrashWrite, In, Free
<1>2. PICK S \in SUBSET Node : S = op[a].seen /\ (S \cap bound = {} \/ Met("bind", "trash"))
  BY <1>1, Known DEF OpRecord, Sound
<1>3. /\ RowsOK'
      /\ \A n \in Node : node'[n] = IF n \in S /\ Exists(n) THEN "trashed" ELSE node[n]
  BY <1>1, <1>2, Marked DEF TrashWrite
<1>4. BoundKeptOutOfTrash'
  <2>1. bound \subseteq Node
    BY DEF TreeInv, RowsOK, Node
  <2> QED BY <1>1, <1>2, <1>3, <2>1 DEF TreeInv, BoundKeptOutOfTrash, Met
<1>5. ASSUME NEW g \in Handler, g # a, ~Free(g)
      PROVE  Sound(op[g])'
  <2>1. op'[g] = op[g]
    BY <1>1, <1>5 DEF End, TreeInv, OpsOK
  <2>2. Sound(op[g]) /\ Met(op[g].kind, "trash") /\ op[g].seen \subseteq Node
    BY <1>1, <1>5, Known DEF OpRecord
  <2> QED BY <1>1, <1>3, <2>1, <2>2 DEF Sound, Met, Exists
<1> QED BY <1>1, <1>3, <1>4, <1>5, Writes

LEMMA RestoreWrites ==
    ASSUME TreeInv, NEW a \in Handler, RestoreWrite(a)
    PROVE  TreeInv'
<1>1. ~Free(a) /\ op[a].kind = "restore" /\ End(a) /\ UNCHANGED <<parent, bound, met>>
  BY DEF RestoreWrite, In, Free
<1>2. PICK S \in SUBSET Node : S = op[a].seen
  BY <1>1, Known DEF OpRecord
<1>3. /\ RowsOK'
      /\ \A n \in Node : node'[n] = IF n \in S /\ Exists(n) THEN "active" ELSE node[n]
  BY <1>1, <1>2, Marked DEF RestoreWrite
<1>4. BoundKeptOutOfTrash'
  <2>1. bound \subseteq Node
    BY DEF TreeInv, RowsOK, Node
  <2> QED BY <1>1, <1>3, <2>1 DEF TreeInv, BoundKeptOutOfTrash, Met
<1>5. ASSUME NEW g \in Handler, g # a, ~Free(g)
      PROVE  Sound(op[g])'
  <2>1. op'[g] = op[g]
    BY <1>1, <1>5 DEF End, TreeInv, OpsOK
  <2>2. Sound(op[g]) /\ Met(op[g].kind, "restore") /\ op[g].seen \subseteq Node
    BY <1>1, <1>5, Known DEF OpRecord
  <2> QED BY <1>1, <1>3, <2>1, <2>2 DEF Sound, Met, Exists
<1> QED BY <1>1, <1>3, <1>4, <1>5, Writes

LEMMA PurgeWrites ==
    ASSUME TreeInv, NEW c \in Handler, PurgeWrite(c)
    PROVE  TreeInv'
<1>1. ~Free(c) /\ End(c) /\ UNCHANGED <<parent, met>>
  BY DEF PurgeWrite, In, Free
<1>2. PICK S \in SUBSET Node : S = op[c].seen
  BY <1>1, Known DEF OpRecord
<1>3. /\ \A n \in S : Exists(n)
      /\ Children(S) \subseteq S
      /\ node' = [n \in Node |-> IF n \in S THEN "purged" ELSE node[n]]
      /\ bound' = bound \ S
  BY <1>2 DEF PurgeWrite
<1>4. RowsOK'
  <2>1. node' \in [Node -> {"none", "active", "trashed", "purged"}]
    BY <1>3 DEF TreeInv, RowsOK
  <2>2. \A n \in Node : Exists(n)' <=> Exists(n) /\ n \notin S
    BY <1>3 DEF Exists
  <2>3. bound' \subseteq {f \in File : Exists(f)'}
    BY <1>3, <2>2 DEF TreeInv, RowsOK, Node
  <2>4. ASSUME NEW n \in Node, Exists(n)'
        PROVE  Referable(parent[n])'
    <3>1. Exists(n) /\ n \notin S /\ parent[n] \in Place
      BY <2>2, <2>4 DEF TreeInv, RowsOK
    <3>2. PICK q \in Place : q = parent[n] /\ q = parent'[n] /\ Referable(q)
      BY <1>1, <3>1 DEF TreeInv, RowsOK
    <3>3. q \notin S
      BY <1>3, <3>1, <3>2 DEF Children
    <3> QED BY <2>2, <3>2, <3>3 DEF Referable, Place, Node
  <2> QED BY <1>1, <2>1, <2>3, <2>4 DEF TreeInv, RowsOK
<1>5. BoundKeptOutOfTrash'
  <2>1. bound \subseteq Node
    BY DEF TreeInv, RowsOK, Node
  <2> QED BY <1>1, <1>3, <2>1 DEF TreeInv, BoundKeptOutOfTrash, Met
<1>6. ASSUME NEW g \in Handler, g # c, ~Free(g)
      PROVE  Sound(op[g])'
  <2>1. op'[g] = op[g]
    BY <1>1, <1>6 DEF End, TreeInv, OpsOK
  <2>2. Sound(op[g]) /\ op[g].seen \subseteq Node
    BY <1>1, <1>6, Known DEF OpRecord
  <2> QED BY <1>1, <1>3, <2>1, <2>2 DEF Sound, Met, Exists
<1> QED BY <1>1, <1>4, <1>5, <1>6, Writes
-----------------------------------------------------------------------------
LEMMA BeginKeeps ==
    ASSUME TreeInv, NEW a \in Handler, Begins(a)
    PROVE  TreeInv'
<1>1. ASSUME NEW n \in Node, NEW p \in Place, CreateRead(a, n, p)
      PROVE  TreeInv'
  BY <1>1, Started DEF CreateRead, Kind, Pc
<1>2. ASSUME NEW n \in Node, NEW p \in Place, MoveRead(a, n, p)
      PROVE  TreeInv'
  BY <1>2, Started DEF MoveRead, Kind, Pc
<1>3. ASSUME NEW n \in Node, TrashRead(a, n)
      PROVE  TreeInv'
  BY <1>3, Started DEF TrashRead, Kind, Pc, Place
<1>4. ASSUME NEW n \in Node, RestoreRead(a, n)
      PROVE  TreeInv'
  <2>1. parent[n] \in Place
    BY DEF TreeInv, RowsOK
  <2> QED BY <1>4, <2>1, Started DEF RestoreRead, Kind, Pc
<1>5. ASSUME NEW f \in File, NEW p \in Folder, BindRead(a, f, p)
      PROVE  TreeInv'
  <2>1. f \in Node /\ p \in Place /\ node[f] = "active"
    BY <1>5 DEF BindRead, Node, Place
  <2> QED BY <1>5, <2>1, Started DEF BindRead, Kind, Pc
<1> QED BY <1>1, <1>2, <1>3, <1>4, <1>5 DEF Begins

LEMMA MoveWalks ==
    ASSUME TreeInv, NEW a \in Handler, MoveWalk(a)
    PROVE  TreeInv'
<1>1. ~Free(a) /\ op[a].kind = "move" /\ op[a].pc = "walking"
      /\ UNCHANGED <<node, parent, bound, met>>
  BY DEF MoveWalk, In, Free
<1>2. PICK at \in Place : at = op[a].at
  BY <1>1, Known DEF OpRecord
<1>3. CASE at = Root
  BY <1>1, <1>2, <1>3, Turned DEF MoveWalk, Pc
<1>4. CASE at # Root /\ (at = op[a].id \/ at \in op[a].seen)
  BY <1>1, <1>2, <1>4, Quits DEF MoveWalk
<1>5. CASE ~(at = Root) /\ ~(at = op[a].id \/ at \in op[a].seen)
  <2>1. at \in Node
    BY <1>5 DEF Place, Node
  <2>2. PICK next \in Place : next = IF Exists(at) THEN parent[at] ELSE Root
    BY <2>1 DEF TreeInv, RowsOK, Place
  <2>3. op' = [op EXCEPT ![a].at = next, ![a].seen = op[a].seen \cup {at}]
    BY <1>2, <1>5, <2>2 DEF MoveWalk
  <2>4. op[a] \in OpRecord /\ Sound(op[a])
    BY <1>1, Known
  <2>5. [op[a] EXCEPT !.at = next, !.seen = op[a].seen \cup {at}] \in OpRecord
    BY <2>1, <2>4 DEF OpRecord
  <2>6. PICK r \in OpRecord : r = [op[a] EXCEPT !.at = next, !.seen = op[a].seen \cup {at}]
    BY <2>5
  <2>7. r.kind = "move" /\ r.id = op[a].id /\ r.pc = "walking" /\ r.front = op[a].front
    BY <1>1, <2>4, <2>6 DEF OpRecord
  <2>8. r.front \subseteq Node
    BY <1>1, <2>4, <2>7 DEF Sound
  <2>9. op' = [op EXCEPT ![a] = r]
    BY <2>3, <2>6 DEF TreeInv, OpsOK
  <2> QED BY <1>1, <2>7, <2>8, <2>9, Goes
<1> QED BY <1>3, <1>4, <1>5

LEMMA Collects ==
    ASSUME TreeInv, NEW a \in Handler, NEW next \in {"counting", "writing"},
           op[a].kind \in {"trash", "restore"},
           next = "writing" => op[a].kind = "restore", Collect(a, next)
    PROVE  TreeInv'
<1>1. ~Free(a) /\ op[a].pc = "collecting" /\ UNCHANGED <<node, parent, bound, met>>
  BY DEF Collect, Free
<1>2. op[a] \in OpRecord /\ Sound(op[a]) /\ op[a].front \subseteq Node
  BY <1>1, Known DEF Sound
<1>3. PICK level \in SUBSET Node : level = op[a].front \ op[a].seen
  BY <1>2
<1>4. PICK below \in SUBSET Node :
        below = {n \in Children(level) : op[a].kind = "restore" \/ node[n] = "active"}
  BY DEF Children
<1>5. CASE level = {}
  <2>1. Turn(a, next)
    BY <1>3, <1>5 DEF Collect
  <2> QED BY <1>1, <2>1, Turned DEF Pc
<1>6. CASE level # {}
  <2>1. op' = [op EXCEPT ![a].seen = op[a].seen \cup level, ![a].front = below]
    BY <1>3, <1>4, <1>6 DEF Collect
  <2>2. [op[a] EXCEPT !.seen = op[a].seen \cup level, !.front = below] \in OpRecord
    BY <1>2 DEF OpRecord
  <2>3. PICK r \in OpRecord : r = [op[a] EXCEPT !.seen = op[a].seen \cup level, !.front = below]
    BY <2>2
  <2>4. r.kind = op[a].kind /\ r.id = op[a].id /\ r.pc = "collecting" /\ r.front = below
    BY <1>1, <1>2, <2>3 DEF OpRecord
  <2>5. op' = [op EXCEPT ![a] = r]
    BY <2>1, <2>3 DEF TreeInv, OpsOK
  <2> QED BY <1>1, <2>4, <2>5, Goes
<1> QED BY <1>5, <1>6

LEMMA AdvanceKeeps ==
    ASSUME TreeInv, NEW a \in Handler, Advance(a)
    PROVE  TreeInv'
<1>1. CASE MoveParent(a)
  BY <1>1, Turned DEF MoveParent, In, Free, Pc
<1>2. CASE TrashCollect(a)
  BY <1>2, Collects DEF TrashCollect
<1>3. CASE TrashCount(a)
  BY <1>3, Turned, Quits DEF TrashCount, In, Free, Pc
<1>4. CASE RestoreParent(a)
  BY <1>4, Turned DEF RestoreParent, In, Free, Pc
<1>5. CASE RestoreCollect(a)
  BY <1>5, Collects DEF RestoreCollect
<1> QED BY <1>1, <1>2, <1>3, <1>4, <1>5, CreateWrites, MoveWalks, MoveWrites, TrashWrites,
           RestoreWrites, BindWrites DEF Advance

LEMMA PurgeKeeps ==
    ASSUME TreeInv, NEW c \in Handler, Purge(c)
    PROVE  TreeInv'
<1>1. CASE PurgeGather(c)
  <2>1. ~Free(c) /\ op[c].kind = "purge" /\ UNCHANGED <<node, parent, bound, met>>
    BY <1>1 DEF PurgeGather, In, Free
  <2>2. op[c] \in OpRecord /\ op[c].front \subseteq Node
    BY <2>1, Known DEF Sound, Free
  <2>3. PICK seen \in SUBSET Node :
          seen = op[c].seen \cup {n \in op[c].front : node[n] = "trashed"}
    BY <2>2 DEF OpRecord
  <2>4. op' = [op EXCEPT ![c].pc = "descending", ![c].seen = seen]
    BY <1>1, <2>3 DEF PurgeGather
  <2>5. [op[c] EXCEPT !.pc = "descending", !.seen = seen] \in OpRecord
    BY <2>2 DEF OpRecord, Pc
  <2>6. PICK r \in OpRecord : r = [op[c] EXCEPT !.pc = "descending", !.seen = seen]
    BY <2>5
  <2>7. r.kind = op[c].kind /\ r.id = op[c].id /\ r.pc = "descending"
        /\ r.front = op[c].front /\ r.seen = seen
    BY <2>2, <2>6 DEF OpRecord
  <2>8. op' = [op EXCEPT ![c] = r]
    BY <2>4, <2>6 DEF TreeInv, OpsOK
  <2> QED BY <2>1, <2>2, <2>3, <2>7, <2>8, Goes
<1>2. CASE PurgeDescend(c)
  <2>1. ~Free(c) /\ op[c].kind = "purge" /\ UNCHANGED <<node, parent, bound, met>>
    BY <1>2 DEF PurgeDescend, In, Free
  <2>2. op[c] \in OpRecord
    BY <2>1, Known
  <2>3. PICK below \in SUBSET Node :
          below = {n \in Children(op[c].front) : node[n] = "trashed"}
    BY DEF Children
  <2>4. PICK pc \in {"counting", "gathering"} :
          pc = IF below = {} THEN "counting" ELSE "gathering"
    OBVIOUS
  <2>5. op' = [op EXCEPT ![c].front = below, ![c].pc = pc]
    BY <1>2, <2>3, <2>4 DEF PurgeDescend
  <2>6. [op[c] EXCEPT !.front = below, !.pc = pc] \in OpRecord
    BY <2>2 DEF OpRecord, Pc
  <2>7. PICK r \in OpRecord : r = [op[c] EXCEPT !.front = below, !.pc = pc]
    BY <2>6
  <2>8. r.kind = op[c].kind /\ r.id = op[c].id /\ r.pc = pc
        /\ r.front = below /\ r.seen = op[c].seen
    BY <2>2, <2>7 DEF OpRecord
  <2>9. op' = [op EXCEPT ![c] = r]
    BY <2>5, <2>7 DEF TreeInv, OpsOK
  <2> QED BY <2>1, <2>8, <2>9, Goes
<1>3. CASE PurgeCount(c)
  BY <1>3, Turned, Quits DEF PurgeCount, In, Free, Pc
<1> QED BY <1>1, <1>2, <1>3, PurgeWrites DEF Purge

-----------------------------------------------------------------------------
LEMMA TreeInvFirst == TreeInit => TreeInv
<1> SUFFICES ASSUME TreeInit PROVE TreeInv
  OBVIOUS
<1> USE DEF TreeInit
<1>1. RowsOK
  BY DEF RowsOK, Place, Referable
<1>2. OpsOK
  BY NoOpOK DEF OpsOK
<1>3. Meetings
  BY NoOpOK DEF Meetings, Free
<1> QED BY <1>1, <1>2, <1>3 DEF TreeInv, BoundKeptOutOfTrash

LEMMA TreeInvNext == TreeInv /\ [TreeNext]_treeVars => TreeInv'
<1> SUFFICES ASSUME TreeInv, [TreeNext]_treeVars
             PROVE  TreeInv'
  OBVIOUS
<1>1. ASSUME NEW a \in Actor, Begins(a) \/ Advance(a)
      PROVE  TreeInv'
  BY <1>1, BeginKeeps, AdvanceKeeps DEF Handler
<1>2. ASSUME NEW c \in Purger, NEW n \in Node, PurgeRead(c, n)
      PROVE  TreeInv'
  <2>1. c \in Handler /\ Root \in Place
    BY DEF Handler, Place
  <2> QED BY <1>2, <2>1, Started DEF PurgeRead, Kind, Pc
<1>3. ASSUME NEW c \in Purger, Purge(c)
      PROVE  TreeInv'
  BY <1>3, PurgeKeeps DEF Handler
<1>4. ASSUME NEW h \in Handler, Quit(h)
      PROVE  TreeInv'
  BY <1>4, Quits DEF Quit
<1>5. CASE UNCHANGED treeVars
  <2>1. UNCHANGED <<node, parent, bound, op, met>>
    BY <1>5 DEF treeVars
  <2>2. RowsOK'
    BY <2>1 DEF TreeInv, RowsOK, Exists, Referable
  <2>3. OpsOK'
    BY <2>1 DEF TreeInv, OpsOK, Sound, Met
  <2>4. Meetings' /\ BoundKeptOutOfTrash'
    BY <2>1 DEF TreeInv, Meetings, BoundKeptOutOfTrash, Met, Free
  <2> QED BY <2>2, <2>3, <2>4 DEF TreeInv
<1> QED BY <1>1, <1>2, <1>3, <1>4, <1>5 DEF TreeNext

\* The strengthened invariant holds in every reachable state.
THEOREM TreeInvHolds == TreeSpec => []TreeInv
<1> QED BY TreeInvFirst, TreeInvNext, PTL DEF TreeSpec

LEMMA TreeTyped == TreeInv => TreeTypeOK
<1> SUFFICES ASSUME TreeInv PROVE TreeTypeOK
  OBVIOUS
<1>1. \A h \in Handler :
        /\ op[h].kind \in Kind /\ op[h].id \in Node \cup {Root}
        /\ {op[h].to, op[h].at} \subseteq Place
        /\ op[h].front \subseteq Node \cup {Root}
        /\ op[h].seen \subseteq Node
  BY DEF TreeInv, OpsOK, OpRecord
<1>2. met \subseteq {{j, k} : j \in Kind, k \in Kind}
  BY DEF TreeInv, Meetings, Pairs
<1>3. RowsOK
  BY DEF TreeInv
<1> QED BY <1>1, <1>2, <1>3 DEF RowsOK, TreeTypeOK

\* Rows and handlers keep their shapes, every parent is there, and what is
\* bound is a file that is there.
THEOREM TreeTypesHold == TreeSpec => []TreeTypeOK
BY TreeTyped, TreeInvHolds, PTL

\* However many requests and cleanups there are, a file that a business record
\* refers to is in the trash only if its binding met a trashing
\* (DriveService.trashNode and bindFileToTarget).
THEOREM BoundKeptOutOfTrashHolds == TreeSpec => []BoundKeptOutOfTrash
<1> QED BY TreeInvHolds, PTL DEF TreeInv

\* A purge takes away only what is in the trash and bound to nothing, unless
\* a restore or a binding met a purge (DriveCleanupService.purgeNode).
THEOREM PurgeHarmlessHolds == TreeSpec => PurgeHarmless
<1> DEFINE Harmless ==
      \A n \in Node : node'[n] = "purged" /\ node[n] # "purged" =>
        /\ node[n] = "trashed" \/ Met("purge", "restore")
        /\ n \notin bound \/ Met("purge", "bind")
<1>1. TreeInv /\ [TreeNext]_treeVars => [Harmless]_treeVars
  <2> SUFFICES ASSUME TreeInv, TreeNext, NEW n \in Node,
                      node'[n] = "purged", node[n] # "purged"
               PROVE  /\ node[n] = "trashed" \/ Met("purge", "restore")
                      /\ n \notin bound \/ Met("purge", "bind")
    OBVIOUS
  <2>1. ASSUME NEW c \in Handler, PurgeWrite(c)
        PROVE  /\ node[n] = "trashed" \/ Met("purge", "restore")
               /\ n \notin bound \/ Met("purge", "bind")
    <3>1. n \in op[c].seen
      BY <2>1 DEF PurgeWrite
    <3>2. Sound(op[c]) /\ op[c].kind = "purge" /\ op[c].pc = "writing"
      BY <2>1 DEF PurgeWrite, In, TreeInv, OpsOK
    <3>3. node[n] \in {"trashed", "purged"} \/ Met("purge", "restore")
      BY <3>1, <3>2 DEF Sound
    <3>4. op[c].seen \cap bound = {} \/ Met("purge", "bind")
      BY <3>2 DEF Sound
    <3> QED BY <3>1, <3>3, <3>4
  <2>2. ASSUME NEW a \in Handler, Advance(a)
        PROVE  FALSE
    <3>1. node' = node \/ CreateWrite(a) \/ TrashWrite(a) \/ RestoreWrite(a)
      BY <2>2 DEF Advance, MoveParent, MoveWalk, MoveWrite, TrashCollect, TrashCount, Collect,
                  RestoreParent, RestoreCollect, BindWrite
    <3>2. node \in [Node -> {"none", "active", "trashed", "purged"}]
      BY DEF TreeInv, RowsOK
    <3> QED BY <3>1, <3>2 DEF CreateWrite, TrashWrite, RestoreWrite, Mark
  <2>3. ASSUME \/ \E a \in Actor : Begins(a)
               \/ \E c \in Purger, m \in Node : PurgeRead(c, m)
               \/ \E c \in Purger : PurgeGather(c) \/ PurgeDescend(c) \/ PurgeCount(c)
               \/ \E h \in Handler : Quit(h)
        PROVE  FALSE
    BY <2>3 DEF Begins, CreateRead, MoveRead, TrashRead, RestoreRead, BindRead, PurgeRead,
                PurgeGather, PurgeDescend, PurgeCount, Quit
  <2> QED BY <2>1, <2>2, <2>3 DEF TreeNext, Purge, Handler
<1> QED BY <1>1, TreeInvHolds, PTL DEF TreeSpec, PurgeHarmless


-----------------------------------------------------------------------------
(* What is in the tree is not below something in the trash *)

\* No trashing has met an operation that puts something into the tree.
Unmet == \A k \in {"create", "move", "bind", "restore"} : ~Met("trash", k)

\* Where something could be put when it was read, and still can if it is there.
Standing(p) == IF p = Root THEN TRUE ELSE node[p] \in {"active", "purged"}

\* A place that was read stands.  What a restore collects hangs on what is
\* active or on what it collects; what is active below what a trashing has
\* collected, it has collected or is about to.
Hangs(r) ==
    r.pc # "idle" =>
      /\ r.kind \in {"create", "bind"} => Standing(r.to)
      /\ r.kind = "move" /\ r.pc # "parent" => Standing(r.to)
      /\ r.kind = "restore" /\ r.pc = "parent" =>
           /\ r.front = {r.id} /\ r.seen = {}
           /\ Exists(r.id) => Target(parent[r.id]) \/ parent[r.id] = r.to
      /\ r.kind = "restore" /\ r.pc # "parent" =>
           \A n \in r.seen \cup r.front :
             Exists(n) => Target(parent[n]) \/ parent[n] \in r.seen
      /\ r.kind = "restore" /\ r.pc = "writing" => r.front \subseteq r.seen
      /\ r.kind = "trash" =>
           /\ \A n \in Node : node[n] = "active" /\ parent[n] \in r.seen =>
                n \in r.seen \cup r.front
           /\ r.pc # "collecting" => r.front \subseteq r.seen

Upright == \A n \in Node : node[n] = "active" => Target(parent[n])

Hung == Upright /\ \A h \in Handler : Hangs(op[h])

HungInv == Unmet => Hung

\* A handler takes another record, and no row changes.
LEMMA HungReads ==
    ASSUME TreeInv, Hung, NEW h \in Handler, NEW r \in OpRecord,
           op' = [op EXCEPT ![h] = r], UNCHANGED <<node, parent>>, Hangs(r)
    PROVE  Hung'
<1>1. op'[h] = r /\ \A g \in Handler : g # h => op'[g] = op[g]
  BY DEF TreeInv, OpsOK
<1>2. Upright'
  BY DEF Hung, Upright, Target
<1>3. ASSUME NEW g \in Handler
      PROVE  Hangs(op[g])'
  <2>1. Hangs(op'[g])
    BY <1>1 DEF Hung
  <2> QED BY <2>1 DEF Hangs, Standing, Exists, Target
<1> QED BY <1>2, <1>3 DEF Hung

\* A handler writes and is done.
LEMMA HungWrites ==
    ASSUME TreeInv, NEW h \in Handler, End(h), Upright',
           \A g \in Handler : g # h /\ ~Free(g) => Hangs(op[g])'
    PROVE  Hung'
<1>1. op'[h].pc = "idle" /\ \A g \in Handler : g # h => op'[g] = op[g]
  BY NoOpOK DEF End, TreeInv, OpsOK
<1>2. ASSUME NEW g \in Handler
      PROVE  Hangs(op[g])'
  BY <1>1 DEF Hangs, Free
<1> QED BY <1>2 DEF Hung

\* Handlers that put something into the tree keep away from trashings.
LEMMA KeepsAway ==
    ASSUME TreeInv, Unmet, NEW h \in Handler, ~Free(h),
           NEW g \in Handler, g # h, ~Free(g)
    PROVE  /\ op[h].kind \in {"create", "move", "bind", "restore"} => op[g].kind # "trash"
           /\ op[h].kind = "trash" => op[g].kind \notin {"create", "move", "bind", "restore"}
<1>1. Met(op[g].kind, op[h].kind) /\ Met(op[h].kind, op[g].kind)
  BY DEF TreeInv, Meetings
<1> QED BY <1>1 DEF Unmet

\* What others hold, when something is put into the tree.
LEMMA HangsOnGrowth ==
    ASSUME RowsOK, NEW r \in OpRecord, Sound(r), Hangs(r), r.kind # "trash",
           \A n \in Node : /\ node[n] = "active" => node'[n] = "active"
                           /\ node[n] = "purged" => node'[n] = "purged",
           \A n \in Node : Exists(n)' =>
             Target(parent[n])' \/ (Exists(n) /\ parent'[n] = parent[n])
    PROVE  Hangs(r)'
<1>1. r.pc # "idle" => r.id \in Node /\ r.front \subseteq Node
  BY DEF Sound
<1>2. r.to \in Place /\ r.seen \subseteq Node
  BY DEF OpRecord
<1>3. \A p \in Place : Standing(p) => Standing(p)'
  BY DEF Standing, Place, Node
<1>4. ASSUME NEW n \in Node, Target(parent[n]), parent'[n] = parent[n]
      PROVE  Target(parent[n])'
  BY <1>4 DEF Target, Place, Node, RowsOK
<1> QED BY <1>1, <1>2, <1>3, <1>4 DEF Hangs

\* Something is put into the tree, at a place that can be seen there, or what
\* was there stays where it was.
LEMMA Grows ==
    ASSUME TreeInv, Unmet, Hung, NEW h \in Handler, ~Free(h), End(h),
           op[h].kind \in {"create", "move", "bind", "restore"},
           \A n \in Node : /\ node[n] = "active" => node'[n] = "active"
                           /\ node[n] = "purged" => node'[n] = "purged",
           \A n \in Node : Exists(n)' =>
             Target(parent[n])' \/ (Exists(n) /\ parent'[n] = parent[n]),
           \A n \in Node : node'[n] = "active" /\ node[n] # "active" => Target(parent[n])'
    PROVE  Hung'
<1>1. ASSUME NEW g \in Handler, g # h, ~Free(g)
      PROVE  Hangs(op[g])'
  <2>1. op'[g] = op[g]
    BY <1>1 DEF End, TreeInv, OpsOK
  <2>2. op[g].kind # "trash" /\ RowsOK
    BY <1>1, KeepsAway DEF TreeInv
  <2>3. PICK r \in OpRecord : r = op[g] /\ Sound(r) /\ Hangs(r)
    BY <1>1, Known DEF Hung
  <2>4. Hangs(r)'
    BY <2>2, <2>3, HangsOnGrowth
  <2> QED BY <2>1, <2>3, <2>4 DEF Hangs, Standing, Exists, Target
<1>2. Upright'
  <2> SUFFICES ASSUME NEW n \in Node, node'[n] = "active" PROVE Target(parent[n])'
    BY DEF Upright
  <2>1. CASE node[n] = "active" /\ parent'[n] = parent[n]
    <3>1. Target(parent[n]) /\ parent[n] \in Place
      BY <2>1 DEF Hung, Upright, TreeInv, RowsOK
    <3> QED BY <2>1, <3>1 DEF Target, Place, Node
  <2>2. CASE ~(node[n] = "active" /\ parent'[n] = parent[n])
    BY <2>2 DEF Exists
  <2> QED BY <2>1, <2>2
<1> QED BY <1>1, <1>2, HungWrites

LEMMA CreateHung ==
    ASSUME TreeInv, Unmet, Hung, NEW a \in Handler, CreateWrite(a)
    PROVE  Hung'
<1>1. ~Free(a) /\ op[a].kind = "create" /\ op[a].pc # "idle" /\ End(a)
  BY DEF CreateWrite, In, Free
<1>2. PICK n \in Node : n = op[a].id /\ node[n] = "none"
  BY <1>1, Known DEF Sound, Free
<1>3. PICK p \in Place : p = op[a].to /\ Referable(p) /\ Standing(p)
  BY <1>1, Known DEF OpRecord, CreateWrite, Hung, Hangs
<1>4. /\ node'[n] = "active" /\ \A m \in Node : m # n => node'[m] = node[m]
      /\ parent'[n] = p /\ \A m \in Node : m # n => parent'[m] = parent[m]
  BY <1>2, <1>3 DEF CreateWrite, TreeInv, RowsOK
<1>5. Target(parent[n])'
  BY <1>2, <1>3, <1>4 DEF Target, Standing, Referable, Exists, Place, Node
<1>6. \A m \in Node : Exists(m)' => Target(parent[m])' \/ (Exists(m) /\ parent'[m] = parent[m])
  BY <1>4, <1>5 DEF Exists
<1> QED BY <1>1, <1>2, <1>4, <1>5, <1>6, Grows

\* A move or a binding puts a row at a place that still stands.
LEMMA PlacedHung ==
    ASSUME TreeInv, Unmet, Hung, NEW a \in Handler, ~Free(a), End(a),
           op[a].kind \in {"move", "bind"}, NEW n \in Node, NEW p \in Place,
           Referable(p), Standing(p), parent' = [parent EXCEPT ![n] = p], UNCHANGED node
    PROVE  Hung'
<1>1. parent'[n] = p /\ \A m \in Node : m # n => parent'[m] = parent[m]
  BY DEF TreeInv, RowsOK
<1>2. Target(parent[n])'
  BY <1>1 DEF Target, Standing, Referable, Exists
<1>3. \A m \in Node : Exists(m)' => Target(parent[m])' \/ (Exists(m) /\ parent'[m] = parent[m])
  BY <1>1, <1>2 DEF Exists
<1> QED BY <1>3, Grows

LEMMA MoveHung ==
    ASSUME TreeInv, Unmet, Hung, NEW a \in Handler, MoveWrite(a)
    PROVE  Hung'
<1>1. ~Free(a) /\ op[a].kind = "move" /\ op[a].pc = "writing" /\ End(a) /\ UNCHANGED node
  BY DEF MoveWrite, In, Free
<1>2. op[a].id \in Node /\ op[a].to \in Place /\ Standing(op[a].to)
  BY <1>1, Known DEF OpRecord, Hung, Hangs
<1> QED BY <1>1, <1>2, PlacedHung DEF MoveWrite

LEMMA BindHung ==
    ASSUME TreeInv, Unmet, Hung, NEW a \in Handler, BindWrite(a)
    PROVE  Hung'
<1>1. ~Free(a) /\ op[a].kind = "bind" /\ op[a].pc = "writing" /\ End(a) /\ UNCHANGED node
  BY DEF BindWrite, In, Free
<1>2. op[a].id \in Node /\ op[a].to \in Place /\ Standing(op[a].to)
  BY <1>1, Known DEF OpRecord, Hung, Hangs
<1>3. CASE op[a].id \in bound
  <2>1. UNCHANGED <<node, parent>>
    BY <1>1, <1>3 DEF BindWrite
  <2>2. PICK r \in OpRecord : r = NoOp /\ r.pc = "idle"
    BY NoOpOK
  <2> QED BY <1>1, <2>1, <2>2, HungReads DEF End, Hangs
<1>4. CASE op[a].id \notin bound
  BY <1>1, <1>2, <1>4, PlacedHung DEF BindWrite
<1> QED BY <1>3, <1>4

LEMMA RestoreHung ==
    ASSUME TreeInv, Unmet, Hung, NEW a \in Handler, RestoreWrite(a)
    PROVE  Hung'
<1>1. ~Free(a) /\ op[a].kind = "restore" /\ op[a].pc = "writing" /\ End(a)
      /\ UNCHANGED <<parent, bound>>
  BY DEF RestoreWrite, In, Free
<1>2. PICK S \in SUBSET Node : S = op[a].seen
  BY <1>1, Known DEF OpRecord
<1>3. \A n \in Node : node'[n] = IF n \in S /\ Exists(n) THEN "active" ELSE node[n]
  BY <1>1, <1>2, Marked DEF RestoreWrite
<1>4. \A n \in S : Exists(n) => Target(parent[n]) \/ parent[n] \in S
  BY <1>1, <1>2 DEF Hung, Hangs
<1>5. ASSUME NEW n \in S, Exists(n)
      PROVE  Target(parent[n])'
  <2>1. Referable(parent[n]) /\ parent[n] \in Place
    BY <1>5 DEF TreeInv, RowsOK
  <2> QED BY <1>1, <1>3, <1>4, <1>5, <2>1 DEF Target, Referable, Place, Node
<1>6. \A n \in Node : /\ Exists(n)' => Exists(n) /\ parent'[n] = parent[n]
                      /\ node[n] = "active" => node'[n] = "active"
                      /\ node[n] = "purged" => node'[n] = "purged"
  BY <1>1, <1>3 DEF Exists
<1> QED BY <1>1, <1>3, <1>5, <1>6, Grows

\* The other handlers at a trashing are trashings and purges.
LEMMA TrashHung ==
    ASSUME TreeInv, Unmet, Hung, NEW a \in Handler, TrashWrite(a)
    PROVE  Hung'
<1>1. ~Free(a) /\ op[a].kind = "trash" /\ op[a].pc = "writing" /\ End(a)
      /\ UNCHANGED <<parent, bound>>
  BY DEF TrashWrite, In, Free
<1>2. PICK S \in SUBSET Node : S = op[a].seen
  BY <1>1, Known DEF OpRecord
<1>3. \A n \in Node : node'[n] = IF n \in S /\ Exists(n) THEN "trashed" ELSE node[n]
  BY <1>1, <1>2, Marked DEF TrashWrite
<1>4. \A n \in Node : node[n] = "active" /\ parent[n] \in S => n \in S
  BY <1>1, <1>2 DEF Hung, Hangs
<1>5. Upright'
  <2> SUFFICES ASSUME NEW n \in Node, node'[n] = "active" PROVE Target(parent[n])'
    BY DEF Upright
  <2>1. node[n] = "active" /\ n \notin S
    BY <1>3 DEF Exists
  <2>2. Target(parent[n]) /\ parent[n] \notin S /\ parent[n] \in Place
    BY <1>4, <2>1 DEF Hung, Upright, TreeInv, RowsOK
  <2> QED BY <1>1, <1>3, <2>2 DEF Target, Place, Node
<1>6. ASSUME NEW g \in Handler, g # a, ~Free(g)
      PROVE  Hangs(op[g])'
  <2>1. op'[g] = op[g]
    BY <1>1, <1>6 DEF End, TreeInv, OpsOK
  <2>2. op[g].kind \notin {"create", "move", "bind", "restore"} /\ Hangs(op[g])
    BY <1>1, <1>6, KeepsAway DEF Hung
  <2>3. \A n \in Node : node'[n] = "active" => node[n] = "active"
    BY <1>3
  <2> QED BY <1>1, <2>1, <2>2, <2>3 DEF Hangs
<1> QED BY <1>1, <1>5, <1>6, HungWrites

\* The key restricts: what is purged takes all that is below it along.
LEMMA PurgeHung ==
    ASSUME TreeInv, Hung, NEW c \in Handler, PurgeWrite(c)
    PROVE  Hung'
<1>1. ~Free(c) /\ End(c) /\ UNCHANGED parent
  BY DEF PurgeWrite, In, Free
<1>2. PICK S \in SUBSET Node : S = op[c].seen
  BY <1>1, Known DEF OpRecord
<1>3. /\ \A n \in Node : Exists(n) /\ parent[n] \in S => n \in S
      /\ \A n \in Node : node'[n] = IF n \in S THEN "purged" ELSE node[n]
  BY <1>2 DEF PurgeWrite, Children
<1>4. ASSUME NEW n \in Node, Exists(n)'
      PROVE  Exists(n) /\ parent[n] \notin S /\ parent[n] \in Place
             /\ (Target(parent[n]) => Target(parent[n])')
  <2>1. Exists(n) /\ n \notin S
    BY <1>3, <1>4 DEF Exists
  <2>2. parent[n] \notin S /\ parent[n] \in Place
    BY <1>3, <2>1 DEF TreeInv, RowsOK
  <2> QED BY <1>1, <1>3, <2>1, <2>2 DEF Target, Place, Node
<1>5. Upright'
  <2> SUFFICES ASSUME NEW n \in Node, node'[n] = "active" PROVE Target(parent[n])'
    BY DEF Upright
  <2>1. node[n] = "active" /\ Exists(n)'
    BY <1>3 DEF Exists
  <2> QED BY <1>4, <2>1 DEF Hung, Upright
<1>6. ASSUME NEW g \in Handler, g # c, ~Free(g)
      PROVE  Hangs(op[g])'
  <2>1. op'[g] = op[g]
    BY <1>1, <1>6 DEF End, TreeInv, OpsOK
  <2>2. PICK r \in OpRecord : r = op[g] /\ Sound(r) /\ Hangs(r)
    BY <1>6, Known DEF Hung
  <2>3. r.pc # "idle" => r.id \in Node /\ r.front \subseteq Node
    BY <2>2 DEF Sound
  <2>4. r.to \in Place /\ r.seen \subseteq Node
    BY DEF OpRecord
  <2>5. Standing(r.to) => Standing(r.to)'
    BY <1>3, <2>4 DEF Standing, Place, Node
  <2>6. \A n \in Node : node'[n] = "active" => node[n] = "active"
    BY <1>3
  <2>7. Hangs(r)'
    BY <1>1, <1>4, <2>2, <2>3, <2>4, <2>5, <2>6 DEF Hangs
  <2> QED BY <2>1, <2>2, <2>7 DEF Hangs, Standing, Exists, Target
<1> QED BY <1>1, <1>5, <1>6, HungWrites

LEMMA StartHung ==
    ASSUME TreeInv, Hung, NEW h \in Handler, NEW kind \in Kind, NEW pc \in Pc,
           NEW id \in Node, NEW to \in Place, Start(h, kind, pc, id, to),
           UNCHANGED <<node, parent>>,
           kind \in {"create", "bind"} => Target(to),
           kind \in {"move", "restore"} => pc = "parent",
           kind = "restore" => parent[id] = to,
           kind = "trash" => pc = "collecting"
    PROVE  Hung'
<1>1. [kind |-> kind, pc |-> pc, id |-> id, to |-> to, at |-> to, front |-> {id}, seen |-> {}]
        \in OpRecord
  BY DEF OpRecord
<1>2. PICK r \in OpRecord :
        r = [kind |-> kind, pc |-> pc, id |-> id, to |-> to, at |-> to,
             front |-> {id}, seen |-> {}]
  BY <1>1
<1>3. /\ r.kind = kind /\ r.pc = pc /\ r.seen = {} /\ r.front = {id} /\ r.id = id
      /\ r.to = to
  BY <1>2
<1>4. op' = [op EXCEPT ![h] = r]
  BY <1>2 DEF Start
<1>5. Target(to) => Standing(to)
  BY DEF Target, Standing
<1>6. Hangs(r)
  BY <1>3, <1>5 DEF Hangs
<1> QED BY <1>4, <1>6, HungReads

LEMMA BeginHung ==
    ASSUME TreeInv, Hung, NEW a \in Handler, Begins(a)
    PROVE  Hung'
<1>1. ASSUME NEW n \in Node, NEW p \in Place, CreateRead(a, n, p)
      PROVE  Hung'
  BY <1>1, StartHung DEF CreateRead, Kind, Pc
<1>2. ASSUME NEW n \in Node, NEW p \in Place, MoveRead(a, n, p)
      PROVE  Hung'
  BY <1>2, StartHung DEF MoveRead, Kind, Pc
<1>3. ASSUME NEW n \in Node, TrashRead(a, n)
      PROVE  Hung'
  BY <1>3, StartHung DEF TrashRead, Kind, Pc, Place
<1>4. ASSUME NEW n \in Node, RestoreRead(a, n)
      PROVE  Hung'
  <2>1. parent[n] \in Place
    BY DEF TreeInv, RowsOK
  <2> QED BY <1>4, <2>1, StartHung DEF RestoreRead, Kind, Pc
<1>5. ASSUME NEW f \in File, NEW p \in Folder, BindRead(a, f, p)
      PROVE  Hung'
  <2>1. f \in Node /\ p \in Place /\ Target(p)
    BY <1>5 DEF BindRead, Node, Place, Target
  <2> QED BY <1>5, <2>1, StartHung DEF BindRead, Kind, Pc
<1> QED BY <1>1, <1>2, <1>3, <1>4, <1>5 DEF Begins

LEMMA QuitHung ==
    ASSUME TreeInv, Hung, NEW h \in Handler, End(h), UNCHANGED <<node, parent>>
    PROVE  Hung'
<1>1. PICK r \in OpRecord : r = NoOp /\ r.pc = "idle"
  BY NoOpOK
<1> QED BY <1>1, HungReads DEF End, Hangs

\* A handler turns to its next step with what it knows.
LEMMA TurnHung ==
    ASSUME TreeInv, Hung, NEW h \in Handler, ~Free(h), NEW pc \in Pc, Turn(h, pc),
           UNCHANGED <<node, parent>>,
           \/ op[h].kind \in {"create", "bind", "purge"}
           \/ /\ op[h].kind = "move" /\ pc # "parent"
              /\ op[h].pc = "parent" => Target(op[h].to)
           \/ /\ op[h].kind = "trash"
              /\ op[h].pc = "collecting" => op[h].front \subseteq op[h].seen
           \/ /\ op[h].kind = "restore" /\ op[h].pc = "parent" /\ pc = "collecting"
              /\ Target(op[h].to)
           \/ /\ op[h].kind = "restore" /\ op[h].pc = "collecting" /\ pc = "writing"
              /\ op[h].front \subseteq op[h].seen
    PROVE  Hung'
<1>1. op[h] \in OpRecord /\ Hangs(op[h]) /\ op[h].pc # "idle"
  BY Known DEF Hung, Free
<1>2. PICK r \in OpRecord : r = [op[h] EXCEPT !.pc = pc]
  BY <1>1 DEF OpRecord
<1>3. /\ r.pc = pc /\ r.kind = op[h].kind /\ r.id = op[h].id /\ r.to = op[h].to
      /\ r.seen = op[h].seen /\ r.front = op[h].front
  BY <1>1, <1>2 DEF OpRecord
<1>4. op' = [op EXCEPT ![h] = r]
  BY <1>2 DEF Turn, TreeInv, OpsOK
<1>5. Target(r.to) => Standing(r.to)
  BY DEF Target, Standing
<1>6. Hangs(r)
  <2>1. CASE op[h].kind \in {"create", "bind", "purge"}
    BY <1>1, <1>3, <2>1 DEF Hangs
  <2>2. CASE op[h].kind = "move" /\ pc # "parent" /\ (op[h].pc = "parent" => Target(op[h].to))
    BY <1>1, <1>3, <1>5, <2>2 DEF Hangs
  <2>3. CASE op[h].kind = "trash"
               /\ (op[h].pc = "collecting" => op[h].front \subseteq op[h].seen)
    BY <1>1, <1>3, <2>3 DEF Hangs
  <2>4. CASE /\ op[h].kind = "restore" /\ op[h].pc = "parent" /\ pc = "collecting"
             /\ Target(op[h].to)
    <3>1. Exists(r.id) => Target(parent[r.id])
      BY <1>1, <1>3, <2>4 DEF Hangs
    <3> QED BY <1>1, <1>3, <2>4, <3>1 DEF Hangs
  <2>5. CASE /\ op[h].kind = "restore" /\ op[h].pc = "collecting" /\ pc = "writing"
             /\ op[h].front \subseteq op[h].seen
    BY <1>1, <1>3, <2>5 DEF Hangs
  <2> QED BY <2>1, <2>2, <2>3, <2>4, <2>5
<1> QED BY <1>4, <1>6, HungReads

LEMMA CollectHung ==
    ASSUME TreeInv, Hung, NEW a \in Handler, NEW next \in {"counting", "writing"},
           op[a].kind \in {"trash", "restore"},
           op[a].kind = "restore" => next = "writing", Collect(a, next)
    PROVE  Hung'
<1>1. ~Free(a) /\ op[a].pc = "collecting" /\ UNCHANGED <<node, parent>>
  BY DEF Collect, Free
<1>2. op[a] \in OpRecord /\ Hangs(op[a]) /\ op[a].front \subseteq Node
  BY <1>1, Known DEF Sound, Hung
<1>3. PICK level \in SUBSET Node : level = op[a].front \ op[a].seen
  BY <1>2
<1>4. PICK below \in SUBSET Node :
        below = {n \in Children(level) : op[a].kind = "restore" \/ node[n] = "active"}
  BY DEF Children
<1>5. CASE level = {}
  <2>1. Turn(a, next) /\ op[a].front \subseteq op[a].seen
    BY <1>3, <1>5 DEF Collect
  <2> QED BY <1>1, <2>1, TurnHung DEF Pc
<1>6. CASE level # {}
  <2>1. op' = [op EXCEPT ![a].seen = op[a].seen \cup level, ![a].front = below]
    BY <1>3, <1>4, <1>6 DEF Collect
  <2>2. PICK r \in OpRecord : r = [op[a] EXCEPT !.seen = op[a].seen \cup level, !.front = below]
    BY <1>2 DEF OpRecord
  <2>3. /\ r.kind = op[a].kind /\ r.id = op[a].id /\ r.pc = "collecting" /\ r.front = below
        /\ r.seen = op[a].seen \cup level
    BY <1>1, <1>2, <2>2 DEF OpRecord
  <2>4. op' = [op EXCEPT ![a] = r]
    BY <2>1, <2>2 DEF TreeInv, OpsOK
  <2>5. Hangs(r)
    <3>1. CASE op[a].kind = "trash"
      <4>1. ASSUME NEW n \in Node, node[n] = "active", parent[n] \in r.seen
            PROVE  n \in r.seen \cup r.front
        <5>1. CASE parent[n] \in op[a].seen
          BY <1>1, <1>2, <1>3, <2>3, <3>1, <4>1, <5>1 DEF Hangs
        <5>2. CASE parent[n] \in level
          BY <1>4, <2>3, <4>1, <5>2 DEF Children, Exists
        <5> QED BY <2>3, <4>1, <5>1, <5>2
      <4> QED BY <2>3, <3>1, <4>1 DEF Hangs
    <3>2. CASE op[a].kind = "restore"
      <4>1. ASSUME NEW n \in r.seen \cup r.front, Exists(n)
            PROVE  Target(parent[n]) \/ parent[n] \in r.seen
        <5>1. CASE n \in op[a].seen \cup op[a].front
          BY <1>1, <1>2, <2>3, <3>2, <4>1, <5>1 DEF Hangs
        <5>2. CASE n \in below
          BY <1>4, <2>3, <5>2 DEF Children
        <5> QED BY <1>3, <2>3, <4>1, <5>1, <5>2
      <4> QED BY <2>3, <3>2, <4>1 DEF Hangs
    <3> QED BY <3>1, <3>2
  <2> QED BY <1>1, <2>4, <2>5, HungReads
<1> QED BY <1>5, <1>6

LEMMA WalkHung ==
    ASSUME TreeInv, Hung, NEW a \in Handler, MoveWalk(a)
    PROVE  Hung'
<1>1. ~Free(a) /\ op[a].kind = "move" /\ op[a].pc = "walking" /\ UNCHANGED <<node, parent>>
  BY DEF MoveWalk, In, Free
<1>2. op[a] \in OpRecord /\ Hangs(op[a])
  BY <1>1, Known DEF Hung
<1>3. CASE Turn(a, "writing")
  BY <1>1, <1>3, TurnHung DEF Pc
<1>4. CASE End(a)
  BY <1>1, <1>4, QuitHung
<1>5. CASE ~Turn(a, "writing") /\ ~End(a)
  <2>1. PICK at \in Folder : at = op[a].at /\ at \in Node
    BY <1>2, <1>5 DEF MoveWalk, OpRecord, Place, Node
  <2>2. PICK next \in Place : next = IF Exists(at) THEN parent[at] ELSE Root
    BY <2>1 DEF TreeInv, RowsOK, Place
  <2>3. op' = [op EXCEPT ![a].at = next, ![a].seen = op[a].seen \cup {at}]
    BY <1>5, <2>1, <2>2 DEF MoveWalk
  <2>4. PICK r \in OpRecord : r = [op[a] EXCEPT !.at = next, !.seen = op[a].seen \cup {at}]
    BY <1>2, <2>1 DEF OpRecord
  <2>5. r.kind = "move" /\ r.pc = "walking" /\ r.to = op[a].to
    BY <1>1, <1>2, <2>4 DEF OpRecord
  <2>6. op' = [op EXCEPT ![a] = r]
    BY <2>3, <2>4 DEF TreeInv, OpsOK
  <2>7. Hangs(r)
    BY <1>1, <1>2, <2>5 DEF Hangs
  <2> QED BY <1>1, <2>6, <2>7, HungReads
<1> QED BY <1>3, <1>4, <1>5

LEMMA AdvanceHung ==
    ASSUME TreeInv, Unmet, Hung, NEW a \in Handler, Advance(a)
    PROVE  Hung'
<1>1. CASE MoveParent(a)
  BY <1>1, TurnHung DEF MoveParent, In, Free, Pc
<1>2. CASE TrashCollect(a)
  BY <1>2, CollectHung DEF TrashCollect
<1>3. CASE TrashCount(a)
  BY <1>3, TurnHung, QuitHung DEF TrashCount, In, Free, Pc
<1>4. CASE RestoreParent(a)
  BY <1>4, TurnHung DEF RestoreParent, In, Free, Pc
<1>5. CASE RestoreCollect(a)
  BY <1>5, CollectHung DEF RestoreCollect
<1> QED BY <1>1, <1>2, <1>3, <1>4, <1>5, CreateHung, WalkHung, MoveHung, TrashHung,
           RestoreHung, BindHung DEF Advance

\* While it reads, a purge is free to.
LEMMA PurgeReadsHung ==
    ASSUME TreeInv, Hung, NEW c \in Handler,
           PurgeGather(c) \/ PurgeDescend(c) \/ PurgeCount(c), TreeInv'
    PROVE  Hung'
<1>1. op[c].kind = "purge" /\ UNCHANGED <<node, parent>> /\ op[c] \in OpRecord
  BY DEF PurgeGather, PurgeDescend, PurgeCount, In, TreeInv, OpsOK
<1>2. \A g \in Handler : g # c => op'[g] = op[g]
  BY DEF PurgeGather, PurgeDescend, PurgeCount, Turn, End, TreeInv, OpsOK
<1>3. op'[c].kind = "purge" \/ op'[c].pc = "idle"
  BY <1>1, NoOpOK DEF PurgeGather, PurgeDescend, PurgeCount, Turn, End, TreeInv, OpsOK, OpRecord
<1>4. Upright'
  BY <1>1 DEF Hung, Upright, Target
<1>5. ASSUME NEW g \in Handler
      PROVE  Hangs(op[g])'
  <2>1. CASE g = c
    BY <1>3, <2>1 DEF Hangs
  <2>2. CASE g # c
    <3>1. Hangs(op'[g])
      BY <1>2, <2>2 DEF Hung
    <3> QED BY <1>1, <3>1 DEF Hangs, Standing, Exists, Target
  <2> QED BY <2>1, <2>2
<1> QED BY <1>4, <1>5 DEF Hung

\* Meetings are remembered.
LEMMA MetKept ==
    ASSUME [TreeNext]_treeVars
    PROVE  met \subseteq met'
<1>1. ASSUME NEW a \in Actor, Begins(a)
      PROVE  met \subseteq met'
  BY <1>1 DEF Begins, CreateRead, MoveRead, TrashRead, RestoreRead, BindRead, Start
<1>2. ASSUME NEW c \in Purger, NEW n \in Node, PurgeRead(c, n)
      PROVE  met \subseteq met'
  BY <1>2 DEF PurgeRead, Start
<1>3. ASSUME \/ \E a \in Actor : Advance(a)
             \/ \E c \in Purger : Purge(c)
             \/ \E h \in Handler : Quit(h)
             \/ UNCHANGED treeVars
      PROVE  met' = met
  BY <1>3 DEF Advance, CreateWrite, MoveParent, MoveWalk, MoveWrite, TrashCollect, TrashCount,
        TrashWrite, RestoreParent, RestoreCollect, RestoreWrite, BindWrite, Collect, Purge,
        PurgeGather, PurgeDescend, PurgeCount, PurgeWrite, Quit, treeVars
<1> QED BY <1>1, <1>2, <1>3 DEF TreeNext

LEMMA HungFirst == TreeInit => HungInv
<1> SUFFICES ASSUME TreeInit PROVE Hung
  BY DEF HungInv
<1>1. Upright
  BY DEF TreeInit, Upright, Target
<1>2. \A h \in Handler : Hangs(op[h])
  BY NoOpOK DEF TreeInit, Hangs
<1> QED BY <1>1, <1>2 DEF Hung

LEMMA HungNext == TreeInv /\ HungInv /\ [TreeNext]_treeVars => HungInv'
<1> SUFFICES ASSUME TreeInv, HungInv, [TreeNext]_treeVars, Unmet'
             PROVE  Hung'
  BY DEF HungInv
<1>0. Unmet /\ Hung /\ TreeInv'
  BY MetKept, TreeInvNext DEF HungInv, Unmet, Met
<1>1. ASSUME NEW a \in Actor, Begins(a) \/ Advance(a)
      PROVE  Hung'
  BY <1>0, <1>1, BeginHung, AdvanceHung DEF Handler
<1>2. ASSUME NEW c \in Purger, NEW n \in Node, PurgeRead(c, n)
      PROVE  Hung'
  <2>1. c \in Handler /\ Root \in Place
    BY DEF Handler, Place
  <2> QED BY <1>0, <1>2, <2>1, StartHung DEF PurgeRead, Kind, Pc
<1>3. ASSUME NEW c \in Purger, Purge(c)
      PROVE  Hung'
  BY <1>0, <1>3, PurgeReadsHung, PurgeHung DEF Purge, Handler
<1>4. ASSUME NEW h \in Handler, Quit(h)
      PROVE  Hung'
  BY <1>0, <1>4, QuitHung DEF Quit
<1>5. CASE UNCHANGED treeVars
  <2>1. UNCHANGED <<node, parent, op>>
    BY <1>5 DEF treeVars
  <2> QED BY <1>0, <2>1 DEF Hung, Upright, Hangs, Standing, Exists, Target
<1> QED BY <1>1, <1>2, <1>3, <1>4, <1>5 DEF TreeNext

\* Nothing in the tree is below something in the trash, whatever restores,
\* moves, creations and bindings meet each other and the purge, for any
\* folders and handlers, unless one of them met a trashing
\* (DriveService.trashNode, which reads the subtree before it marks it).
THEOREM ReachableUnlessMetHolds == TreeSpec => []ReachableUnlessMet
<1>1. TreeInv /\ HungInv => ReachableUnlessMet
  BY DEF HungInv, Hung, Upright, Unmet, Target, ReachableUnlessMet
<1> QED BY <1>1, TreeInvFirst, TreeInvNext, HungFirst, HungNext, PTL DEF TreeSpec


-----------------------------------------------------------------------------
(* The tree stays a tree *)

\* What a move has walked is a way up from its destination, through rows that
\* have been there, on which it did not meet what it moves.
Walked(r) ==
    r.kind = "move" =>
      /\ r.pc = "parent" => r.seen = {} /\ r.at = r.to
      /\ r.pc \in {"walking", "writing"} =>
           /\ r.to \in r.seen \cup {r.at}
           /\ r.seen \subseteq Folder /\ r.id \notin r.seen
           /\ \A x \in r.seen :
                node[x] # "none" /\ (Exists(x) => parent[x] \in r.seen \cup {r.at})
           /\ r.at # Root => node[r.at] # "none"
           /\ r.pc = "writing" => r.at = Root

\* Rows that have all their parents among themselves.
Knot(S) == S # {} /\ (\A n \in S : Exists(n)) /\ \A n \in S : parent[n] \in S

Acyclic == \A S \in SUBSET Node : ~Knot(S)

Rooted == Acyclic /\ \A h \in Handler : Walked(op[h])

RootedInv == ~Met("move", "move") => Rooted

\* What was walked stays a way up while what is there keeps its parent, or is
\* a file, and nothing that has been there is created.
LEMMA StaysWalked ==
    ASSUME NEW r \in OpRecord, Walked(r),
           \A n \in Folder : node[n] # "none" =>
             node'[n] # "none" /\ (Exists(n)' => Exists(n) /\ parent'[n] = parent[n])
    PROVE  Walked(r)'
<1>1. r.at # Root => r.at \in Folder
  BY DEF OpRecord, Place
<1> QED BY <1>1 DEF Walked

\* Rows that have their parents among themselves after a step had them before,
\* when nothing was put below something else.
LEMMA StaysAcyclic ==
    ASSUME Acyclic, \A n \in Node : Exists(n)' => Exists(n) /\ parent'[n] = parent[n]
    PROVE  Acyclic'
BY DEF Acyclic, Knot

\* A row that nothing is below can be put anywhere but below itself.
LEMMA LeafAcyclic ==
    ASSUME TreeInv, Acyclic, NEW n \in Node, NEW p \in Place, p # n, parent'[n] = p,
           \A m \in Node : Exists(m) => parent[m] # n,
           \A m \in Node : m # n => (Exists(m)' => Exists(m)) /\ parent'[m] = parent[m]
    PROVE  Acyclic'
<1> SUFFICES ASSUME NEW S \in SUBSET Node, Knot(S)' PROVE FALSE
  BY DEF Acyclic
<1>1. S # {} /\ \A m \in S : Exists(m)' /\ parent'[m] \in S
  BY DEF Knot
<1>2. PICK T \in SUBSET Node : T = S \ {n}
  OBVIOUS
<1>3. T # {}
  BY <1>1, <1>2
<1>4. \A m \in T : Exists(m) /\ parent[m] \in T
  BY <1>1, <1>2
<1> QED BY <1>3, <1>4 DEF Acyclic, Knot

\* The way up from the destination ends at the root without meeting what is
\* moved, so no rows have their parents among themselves after the move.
LEMMA MoveAcyclic ==
    ASSUME TreeInv, Acyclic, NEW a \in Handler, Walked(op[a]), MoveWrite(a)
    PROVE  Acyclic'
<1> SUFFICES ASSUME NEW S \in SUBSET Node, Knot(S)' PROVE FALSE
  BY DEF Acyclic
<1>1. ~Free(a) /\ op[a].kind = "move" /\ op[a].pc = "writing" /\ UNCHANGED node
  BY DEF MoveWrite, In, Free
<1>2. PICK id \in Node, to \in Place, seen \in SUBSET Node :
        id = op[a].id /\ to = op[a].to /\ seen = op[a].seen
  BY <1>1, Known DEF OpRecord
<1>3. parent'[id] = to /\ \A n \in Node : n # id => parent'[n] = parent[n]
  BY <1>2 DEF MoveWrite, TreeInv, RowsOK
<1>4. /\ to \in seen \cup {Root} /\ id \notin seen
      /\ \A x \in seen : Exists(x) => parent[x] \in seen \cup {Root}
  BY <1>1, <1>2 DEF Walked
<1>5. S # {} /\ \A n \in S : Exists(n) /\ parent'[n] \in S
  BY <1>1 DEF Knot, Exists
<1>6. Root \notin S
  BY TreeAssumption DEF Node
<1>7. CASE id \notin S
  BY <1>3, <1>5, <1>7 DEF Acyclic, Knot
<1>8. CASE id \in S
  <2>1. PICK T \in SUBSET Node : T = S \cap seen
    OBVIOUS
  <2>2. to \in T
    BY <1>3, <1>4, <1>5, <1>6, <1>8, <2>1
  <2>3. \A x \in T : Exists(x) /\ parent[x] \in T
    BY <1>3, <1>4, <1>5, <1>6, <2>1
  <2> QED BY <2>2, <2>3 DEF Acyclic, Knot
<1> QED BY <1>7, <1>8

\* A handler takes another record, and no row changes.
LEMMA RootedReads ==
    ASSUME TreeInv, Rooted, NEW h \in Handler, NEW r \in OpRecord,
           op' = [op EXCEPT ![h] = r], UNCHANGED <<node, parent>>, Walked(r)
    PROVE  Rooted'
<1>1. op'[h] = r /\ \A g \in Handler : g # h => op'[g] = op[g]
  BY DEF TreeInv, OpsOK
<1>2. Acyclic'
  BY DEF Rooted, Acyclic, Knot, Exists
<1>3. ASSUME NEW g \in Handler
      PROVE  Walked(op[g])'
  <2>1. Walked(op'[g])
    BY <1>1 DEF Rooted
  <2> QED BY <2>1 DEF Walked, Exists
<1> QED BY <1>2, <1>3 DEF Rooted

\* A handler writes and is done; what others have walked stays a way up.
LEMMA RootedWrites ==
    ASSUME TreeInv, Rooted, NEW h \in Handler, End(h), Acyclic',
           \A n \in Folder : node[n] # "none" =>
             node'[n] # "none" /\ (Exists(n)' => Exists(n) /\ parent'[n] = parent[n])
    PROVE  Rooted'
<1>1. op'[h].kind = "create" /\ \A g \in Handler : g # h => op'[g] = op[g]
  BY DEF End, NoOp, TreeInv, OpsOK
<1>2. ASSUME NEW g \in Handler
      PROVE  Walked(op[g])'
  <2>1. CASE g = h
    BY <1>1, <2>1 DEF Walked
  <2>2. CASE g # h
    <3>1. PICK r \in OpRecord : r = op[g] /\ r = op'[g] /\ Walked(r)
      BY <1>1, <2>2 DEF Rooted, TreeInv, OpsOK
    <3>2. Walked(r)'
      BY <3>1, StaysWalked
    <3> QED BY <3>1, <3>2 DEF Walked, Exists
  <2> QED BY <2>1, <2>2
<1> QED BY <1>2 DEF Rooted

LEMMA CreateRooted ==
    ASSUME TreeInv, Rooted, NEW a \in Handler, CreateWrite(a)
    PROVE  Rooted'
<1>1. ~Free(a) /\ op[a].kind = "create" /\ End(a)
  BY DEF CreateWrite, In, Free
<1>2. PICK n \in Node : n = op[a].id /\ node[n] = "none"
  BY <1>1, Known DEF Sound, Free
<1>3. PICK p \in Place : p = op[a].to /\ Referable(p)
  BY <1>1, Known DEF OpRecord, CreateWrite
<1>4. /\ node'[n] = "active" /\ \A m \in Node : m # n => node'[m] = node[m]
      /\ parent'[n] = p /\ \A m \in Node : m # n => parent'[m] = parent[m]
  BY <1>2, <1>3 DEF CreateWrite, TreeInv, RowsOK
<1>5. p # n
  BY <1>2, <1>3, TreeAssumption DEF Referable, Exists, Node
<1>6. \A m \in Node : Exists(m) => parent[m] # n
  BY <1>2, TreeAssumption DEF TreeInv, RowsOK, Referable, Exists, Node
<1>7. Acyclic'
  <2>1. \A m \in Node : m # n => (Exists(m)' => Exists(m)) /\ parent'[m] = parent[m]
    BY <1>4 DEF Exists
  <2> QED BY <1>4, <1>5, <1>6, <2>1, LeafAcyclic DEF Rooted
<1>8. \A m \in Folder : node[m] # "none" =>
        node'[m] # "none" /\ (Exists(m)' => Exists(m) /\ parent'[m] = parent[m])
  BY <1>2, <1>4 DEF Exists, Node
<1> QED BY <1>1, <1>7, <1>8, RootedWrites

\* A file has nothing below it.
LEMMA BindRooted ==
    ASSUME TreeInv, Rooted, NEW a \in Handler, BindWrite(a)
    PROVE  Rooted'
<1>1. ~Free(a) /\ op[a].kind = "bind" /\ op[a].pc = "writing" /\ End(a) /\ UNCHANGED node
  BY DEF BindWrite, In, Free
<1>2. PICK f \in File : f = op[a].id
  BY <1>1, Known DEF Sound
<1>3. f \in Node /\ f \notin Place
  BY TreeAssumption DEF Node, Place
<1>4. CASE f \in bound
  <2>1. UNCHANGED parent
    BY <1>1, <1>2, <1>4 DEF BindWrite
  <2>2. Acyclic'
    BY <1>1, <2>1, StaysAcyclic DEF Rooted, Exists
  <2> QED BY <1>1, <2>1, <2>2, RootedWrites DEF Exists
<1>5. CASE f \notin bound
  <2>1. PICK p \in Place : parent' = [parent EXCEPT ![f] = p]
    BY <1>1, <1>2, <1>5, Known DEF OpRecord, BindWrite
  <2>2. parent'[f] = p /\ \A m \in Node : m # f => parent'[m] = parent[m]
    BY <1>3, <2>1 DEF TreeInv, RowsOK
  <2>3. p # f /\ \A m \in Node : parent[m] # f
    BY <1>3 DEF TreeInv, RowsOK
  <2>4. \A m \in Node : Exists(m)' => Exists(m)
    BY <1>1 DEF Exists
  <2>5. Acyclic'
    BY <1>3, <2>2, <2>3, <2>4, LeafAcyclic DEF Rooted
  <2>6. \A m \in Folder : m # f /\ m \in Node
    BY <1>3, TreeAssumption DEF Node
  <2> QED BY <1>1, <2>2, <2>4, <2>5, <2>6, RootedWrites
<1> QED BY <1>4, <1>5

\* Trash, restore and purge put nothing below anything else.
LEMMA MarkRooted ==
    ASSUME TreeInv, Rooted, NEW h \in Handler,
           TrashWrite(h) \/ RestoreWrite(h) \/ PurgeWrite(h)
    PROVE  Rooted'
<1>1. End(h) /\ UNCHANGED parent
  BY DEF TrashWrite, RestoreWrite, PurgeWrite
<1>2. \A n \in Node : /\ Exists(n)' => Exists(n)
                      /\ node[n] # "none" => node'[n] # "none"
  BY DEF TrashWrite, RestoreWrite, PurgeWrite, Mark, Exists
<1>3. Acyclic'
  BY <1>1, <1>2, StaysAcyclic DEF Rooted
<1> QED BY <1>1, <1>2, <1>3, RootedWrites DEF Node

\* No other move is under way.
LEMMA MoveRooted ==
    ASSUME TreeInv, Rooted, ~Met("move", "move"), NEW a \in Handler, MoveWrite(a)
    PROVE  Rooted'
<1>1. ~Free(a) /\ op[a].kind = "move" /\ End(a)
  BY DEF MoveWrite, In, Free
<1>2. Acyclic'
  BY MoveAcyclic DEF Rooted
<1>3. ASSUME NEW g \in Handler
      PROVE  Walked(op[g])'
  <2>1. CASE g = a
    <3>1. op'[g].kind = "create"
      BY <1>1, <2>1 DEF End, NoOp, TreeInv, OpsOK
    <3> QED BY <3>1 DEF Walked
  <2>2. CASE g # a
    <3>1. op'[g] = op[g]
      BY <1>1, <2>2 DEF End, TreeInv, OpsOK
    <3>2. op[g].kind # "move" \/ op[g].pc = "idle"
      BY <1>1, <2>2 DEF TreeInv, Meetings, Free
    <3> QED BY <3>1, <3>2 DEF Walked
  <2> QED BY <2>1, <2>2
<1> QED BY <1>2, <1>3 DEF Rooted

LEMMA WalkRooted ==
    ASSUME TreeInv, Rooted, NEW a \in Handler, MoveWalk(a)
    PROVE  Rooted'
<1>1. ~Free(a) /\ op[a].kind = "move" /\ op[a].pc = "walking" /\ UNCHANGED <<node, parent>>
  BY DEF MoveWalk, In, Free
<1>2. op[a] \in OpRecord /\ Walked(op[a])
  BY <1>1, Known DEF Rooted
<1>3. PICK at \in Place : at = op[a].at
  BY <1>2 DEF OpRecord
<1>4. CASE at = Root
  <2>1. Turn(a, "writing")
    BY <1>3, <1>4 DEF MoveWalk
  <2>2. PICK r \in OpRecord : r = [op[a] EXCEPT !.pc = "writing"]
    BY <1>2 DEF OpRecord, Pc
  <2>3. /\ r.kind = "move" /\ r.pc = "writing" /\ r.id = op[a].id /\ r.to = op[a].to
        /\ r.seen = op[a].seen /\ r.at = Root
    BY <1>1, <1>2, <1>3, <1>4, <2>2 DEF OpRecord
  <2>4. op' = [op EXCEPT ![a] = r]
    BY <2>1, <2>2 DEF Turn, TreeInv, OpsOK
  <2>5. Walked(r)
    BY <1>1, <1>2, <1>3, <1>4, <2>3 DEF Walked
  <2> QED BY <1>1, <2>4, <2>5, RootedReads
<1>5. CASE at # Root /\ (at = op[a].id \/ at \in op[a].seen)
  <2>1. End(a)
    BY <1>3, <1>5 DEF MoveWalk
  <2>2. PICK r \in OpRecord : r = NoOp /\ r.kind = "create"
    BY NoOpOK DEF NoOp
  <2> QED BY <1>1, <2>1, <2>2, RootedReads DEF End, Walked
<1>6. CASE at # Root /\ at # op[a].id /\ at \notin op[a].seen
  <2>1. at \in Folder /\ at \in Node
    BY <1>6 DEF Place, Node
  <2>2. PICK next \in Place : next = IF Exists(at) THEN parent[at] ELSE Root
    BY <2>1 DEF TreeInv, RowsOK, Place
  <2>3. op' = [op EXCEPT ![a].at = next, ![a].seen = op[a].seen \cup {at}]
    BY <1>3, <1>6, <2>2 DEF MoveWalk
  <2>4. PICK r \in OpRecord : r = [op[a] EXCEPT !.at = next, !.seen = op[a].seen \cup {at}]
    BY <1>2, <2>1 DEF OpRecord
  <2>5. /\ r.kind = "move" /\ r.pc = "walking" /\ r.id = op[a].id /\ r.to = op[a].to
        /\ r.seen = op[a].seen \cup {at} /\ r.at = next
    BY <1>1, <1>2, <2>4 DEF OpRecord
  <2>6. op' = [op EXCEPT ![a] = r]
    BY <2>3, <2>4 DEF TreeInv, OpsOK
  <2>7. next # Root => node[next] # "none"
    BY <2>1, <2>2 DEF TreeInv, RowsOK, Referable, Exists
  <2>8. Walked(r)
    BY <1>1, <1>2, <1>3, <1>6, <2>1, <2>2, <2>5, <2>7 DEF Walked
  <2> QED BY <1>1, <2>6, <2>8, RootedReads
<1> QED BY <1>4, <1>5, <1>6

\* A handler takes another record that no move has walked with.
LEMMA OtherRooted ==
    ASSUME TreeInv, TreeInv', Rooted, NEW h \in Handler, UNCHANGED <<node, parent>>,
           \A g \in Handler : g # h => op'[g] = op[g],
           Walked(op'[h])
    PROVE  Rooted'
<1>1. PICK r \in OpRecord : r = op'[h] /\ op' = [op EXCEPT ![h] = r]
  BY DEF TreeInv, OpsOK
<1> QED BY <1>1, RootedReads

LEMMA StartRooted ==
    ASSUME TreeInv, TreeInv', Rooted, NEW h \in Handler, NEW kind \in Kind, NEW pc \in Pc,
           NEW id \in Node, NEW to \in Place, Start(h, kind, pc, id, to),
           UNCHANGED <<node, parent>>, kind = "move" => pc = "parent"
    PROVE  Rooted'
<1>1. op'[h] = [kind |-> kind, pc |-> pc, id |-> id, to |-> to, at |-> to,
                front |-> {id}, seen |-> {}]
      /\ \A g \in Handler : g # h => op'[g] = op[g]
  BY DEF Start, TreeInv, OpsOK
<1>2. Walked(op'[h])
  BY <1>1 DEF Walked
<1> QED BY <1>1, <1>2, OtherRooted

LEMMA BeginRooted ==
    ASSUME TreeInv, TreeInv', Rooted, NEW a \in Handler, Begins(a)
    PROVE  Rooted'
<1>1. ASSUME NEW n \in Node, NEW p \in Place, CreateRead(a, n, p)
      PROVE  Rooted'
  BY <1>1, StartRooted DEF CreateRead, Kind, Pc
<1>2. ASSUME NEW n \in Node, NEW p \in Place, MoveRead(a, n, p)
      PROVE  Rooted'
  BY <1>2, StartRooted DEF MoveRead, Kind, Pc
<1>3. ASSUME NEW n \in Node, TrashRead(a, n)
      PROVE  Rooted'
  BY <1>3, StartRooted DEF TrashRead, Kind, Pc, Place
<1>4. ASSUME NEW n \in Node, RestoreRead(a, n)
      PROVE  Rooted'
  <2>1. parent[n] \in Place
    BY DEF TreeInv, RowsOK
  <2> QED BY <1>4, <2>1, StartRooted DEF RestoreRead, Kind, Pc
<1>5. ASSUME NEW f \in File, NEW p \in Folder, BindRead(a, f, p)
      PROVE  Rooted'
  <2>1. f \in Node /\ p \in Place
    BY DEF Node, Place
  <2> QED BY <1>5, <2>1, StartRooted DEF BindRead, Kind, Pc
<1> QED BY <1>1, <1>2, <1>3, <1>4, <1>5 DEF Begins

\* Steps of trashings, restores and purges that read.
LEMMA CollectRooted ==
    ASSUME TreeInv, TreeInv', Rooted, NEW h \in Handler,
           \/ TrashCollect(h) \/ TrashCount(h) \/ RestoreParent(h) \/ RestoreCollect(h)
           \/ PurgeGather(h) \/ PurgeDescend(h) \/ PurgeCount(h)
    PROVE  Rooted'
<1>1. UNCHANGED <<node, parent>> /\ op[h] \in OpRecord /\ op[h].kind # "move"
  BY DEF TrashCollect, TrashCount, RestoreParent, RestoreCollect, Collect, PurgeGather,
         PurgeDescend, PurgeCount, In, TreeInv, OpsOK
<1>2. \A g \in Handler : g # h => op'[g] = op[g]
  BY DEF TrashCollect, TrashCount, RestoreParent, RestoreCollect, Collect, PurgeGather,
         PurgeDescend, PurgeCount, Turn, End, TreeInv, OpsOK
<1>3. op'[h].kind \in {op[h].kind, "create"}
  BY <1>1 DEF TrashCollect, TrashCount, RestoreParent, RestoreCollect, Collect, PurgeGather,
         PurgeDescend, PurgeCount, Turn, End, NoOp, TreeInv, OpsOK, OpRecord
<1>4. Walked(op'[h])
  BY <1>1, <1>3 DEF Walked
<1> QED BY <1>1, <1>2, <1>4, OtherRooted

LEMMA ParentRooted ==
    ASSUME TreeInv, TreeInv', Rooted, NEW a \in Handler, MoveParent(a)
    PROVE  Rooted'
<1>1. /\ op[a] \in OpRecord /\ op[a].kind = "move" /\ op[a].pc = "parent"
      /\ Target(op[a].to) /\ UNCHANGED <<node, parent>>
  BY DEF MoveParent, In, TreeInv, OpsOK
<1>2. op'[a] = [op[a] EXCEPT !.pc = "walking"] /\ \A g \in Handler : g # a => op'[g] = op[g]
  BY <1>1 DEF MoveParent, Turn, TreeInv, OpsOK
<1>3. Walked(op[a])
  BY DEF Rooted
<1>4. Walked(op'[a])
  BY <1>1, <1>2, <1>3 DEF Walked, Target, OpRecord
<1> QED BY <1>1, <1>2, <1>4, OtherRooted

LEMMA QuitRooted ==
    ASSUME TreeInv, TreeInv', Rooted, NEW h \in Handler, End(h), UNCHANGED <<node, parent>>
    PROVE  Rooted'
<1>1. op'[h].kind = "create" /\ \A g \in Handler : g # h => op'[g] = op[g]
  BY DEF End, NoOp, TreeInv, OpsOK
<1> QED BY <1>1, OtherRooted DEF Walked

LEMMA RootedFirst == TreeInit => RootedInv
<1> SUFFICES ASSUME TreeInit PROVE Rooted
  BY DEF RootedInv
<1>1. Acyclic
  BY TreeAssumption DEF TreeInit, Acyclic, Knot, Node
<1>2. \A h \in Handler : Walked(op[h])
  BY DEF TreeInit, NoOp, Walked
<1> QED BY <1>1, <1>2 DEF Rooted

LEMMA RootedNext == TreeInv /\ RootedInv /\ [TreeNext]_treeVars => RootedInv'
<1> SUFFICES ASSUME TreeInv, RootedInv, [TreeNext]_treeVars, ~Met("move", "move")'
             PROVE  Rooted'
  BY DEF RootedInv
<1>0. ~Met("move", "move") /\ Rooted /\ TreeInv'
  BY MetKept, TreeInvNext DEF RootedInv, Met
<1>1. ASSUME NEW a \in Handler, Begins(a)
      PROVE  Rooted'
  BY <1>0, <1>1, BeginRooted
<1>2. ASSUME NEW a \in Handler, Advance(a)
      PROVE  Rooted'
  BY <1>0, <1>2, CreateRooted, ParentRooted, WalkRooted, MoveRooted, CollectRooted,
     MarkRooted, BindRooted DEF Advance
<1>3. ASSUME NEW c \in Purger, NEW n \in Node, PurgeRead(c, n)
      PROVE  Rooted'
  <2>1. c \in Handler /\ Root \in Place
    BY DEF Handler, Place
  <2> QED BY <1>0, <1>3, <2>1, StartRooted DEF PurgeRead, Kind, Pc
<1>4. ASSUME NEW c \in Handler, Purge(c)
      PROVE  Rooted'
  BY <1>0, <1>4, CollectRooted, MarkRooted DEF Purge
<1>5. ASSUME NEW h \in Handler, Quit(h)
      PROVE  Rooted'
  BY <1>0, <1>5, QuitRooted DEF Quit
<1>6. CASE UNCHANGED treeVars
  <2>1. UNCHANGED <<node, parent, op>>
    BY <1>6 DEF treeVars
  <2> QED BY <1>0, <2>1 DEF Rooted, Acyclic, Knot, Walked, Exists
<1> QED BY <1>1, <1>2, <1>3, <1>4, <1>5, <1>6 DEF TreeNext, Handler

\* No folder is inside itself, however deep the tree and whatever is created,
\* bound, trashed, restored or purged while a move walks up, unless two moves
\* overlapped (DriveService.moveNode and assertNotDescendant).
THEOREM NoCycleUnlessMovesHolds == TreeSpec => []NoCycleUnlessMoves
<1>1. RootedInv => NoCycleUnlessMoves
  <2> SUFFICES ASSUME RootedInv, ~Met("move", "move"), NEW S \in SUBSET {n \in Node : Exists(n)},
                      S # {}, {parent[n] : n \in S} \subseteq S
               PROVE  FALSE
    BY DEF NoCycleUnlessMoves
  <2>1. Knot(S) /\ S \in SUBSET Node
    BY DEF Knot
  <2> QED BY <2>1 DEF RootedInv, Rooted, Acyclic
<1> QED BY <1>1, TreeInvFirst, TreeInvNext, RootedFirst, RootedNext, PTL DEF TreeSpec

=============================================================================
