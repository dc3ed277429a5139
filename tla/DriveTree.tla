----------------------------- MODULE DriveTree -----------------------------
(***************************************************************************)
(* The folders and files of one space of the drive of apps/api: creation,  *)
(* moving, the trash and its purge, and the binding of a file to a         *)
(* business record (DriveService, DriveNodeRepository, DriveFileRepository, *)
(* DriveCleanupService).                                                   *)
(*                                                                         *)
(* A handler reads, checks and then writes by id; each of its statements   *)
(* is a step.  Names, permissions and failing statements are one refusal,  *)
(* Quit.  A parent must exist and a node with children cannot be deleted:  *)
(* those are foreign keys.  met is history: which pairs of operations have *)
(* been under way at the same time.                                        *)
(***************************************************************************)
EXTENDS Naturals, FiniteSets

CONSTANTS
    Folder, File, \* the rows that drive_nodes may come to hold
    Spare,        \* those that are not there at first
    Root,         \* a parentId of null
    Actor,        \* concurrent requests
    Purger,       \* processes that run the daily cleanup
    MaxMet        \* bound on the pairs of operations that meet

ASSUME TreeAssumption ==
    /\ Folder \cap File = {} /\ Spare \subseteq Folder \cup File
    /\ Root \notin Folder \cup File /\ Actor \cap Purger = {} /\ MaxMet \in Nat

VARIABLES
    node,   \* the rows: whether there, in the tree or in the trash
    parent, \* their parentId
    bound,  \* files with an active file_bindings row, SYSTEM from then on
    op,     \* what each handler has read so far
    met

treeVars == <<node, parent, bound, op, met>>

-----------------------------------------------------------------------------
Node == Folder \cup File
Place == Folder \cup {Root}
Handler == Actor \cup Purger

Kind == {"create", "move", "trash", "restore", "bind", "purge"}

NoOp == [kind |-> "create", pc |-> "idle", id |-> Root, to |-> Root, at |-> Root,
         front |-> {}, seen |-> {}]

Free(h) == op[h].pc = "idle"
In(h, kind, pc) == op[h].kind = kind /\ op[h].pc = pc

Exists(n) == node[n] \in {"active", "trashed"}
Children(S) == {n \in Node : Exists(n) /\ parent[n] \in S}

\* Where a node can be put: the root or an active folder.
Target(p) == IF p = Root THEN TRUE ELSE node[p] = "active"
\* What the foreign key asks.
Referable(p) == IF p = Root THEN TRUE ELSE Exists(p)

End(h) == op' = [op EXCEPT ![h] = NoOp]
Turn(h, pc) == op' = [op EXCEPT ![h].pc = pc]

Start(h, kind, pc, id, to) ==
    /\ Free(h)
    /\ op' = [op EXCEPT ![h] = [kind |-> kind, pc |-> pc, id |-> id, to |-> to, at |-> to,
                                front |-> {id}, seen |-> {}]]
    /\ met' = met \cup {{kind, op[g].kind} : g \in {i \in Handler : ~Free(i)}}
    /\ Cardinality(met') <= MaxMet

TreeInit ==
    /\ node = [n \in Node |-> IF n \in Spare THEN "none" ELSE "active"]
    /\ parent = [n \in Node |-> Root]
    /\ bound = {}
    /\ op = [h \in Handler |-> NoOp]
    /\ met = {}

-----------------------------------------------------------------------------
(* createFolder; for a file, createUploadSession and, up to a day later, the *)
(* transaction of completeUploadSession                                      *)

CreateRead(a, n, p) ==
    /\ node[n] = "none" /\ Target(p)
    /\ \A h \in Handler : op[h].id # n
    /\ Start(a, "create", "writing", n, p)
    /\ UNCHANGED <<node, parent, bound>>

CreateWrite(a) ==
    /\ In(a, "create", "writing")
    /\ Referable(op[a].to)
    /\ node' = [node EXCEPT ![op[a].id] = "active"]
    /\ parent' = [parent EXCEPT ![op[a].id] = op[a].to]
    /\ End(a)
    /\ UNCHANGED <<bound, met>>

-----------------------------------------------------------------------------
(* moveNode *)

\* findNode and assertMutable
MoveRead(a, n, p) ==
    /\ node[n] = "active" /\ n \notin bound
    /\ Start(a, "move", "parent", n, p)
    /\ UNCHANGED <<node, parent, bound>>

MoveParent(a) ==
    /\ In(a, "move", "parent")
    /\ Target(op[a].to)
    /\ Turn(a, "walking")
    /\ UNCHANGED <<node, parent, bound, met>>

\* assertNotDescendant, one ancestor at a time.  A node on the way that is
\* gone ends the walk.  (MoveUnchecked: not called.)
MoveUnchecked(a) ==
    /\ In(a, "move", "walking")
    /\ Turn(a, "writing")
    /\ UNCHANGED <<node, parent, bound, met>>
MoveWalk(a) ==
    /\ In(a, "move", "walking")
    /\ LET at == op[a].at IN
         IF at = Root THEN Turn(a, "writing")
         ELSE IF at = op[a].id \/ at \in op[a].seen THEN End(a)
         ELSE op' = [op EXCEPT ![a].at = IF Exists(at) THEN parent[at] ELSE Root,
                               ![a].seen = op[a].seen \cup {at}]
    /\ UNCHANGED <<node, parent, bound, met>>

MoveWrite(a) ==
    /\ In(a, "move", "writing")
    /\ Exists(op[a].id) /\ Referable(op[a].to)
    /\ parent' = [parent EXCEPT ![op[a].id] = op[a].to]
    /\ End(a)
    /\ UNCHANGED <<node, bound, met>>

-----------------------------------------------------------------------------
(* trashNode and restoreNode *)

TrashRead(a, n) ==
    /\ node[n] = "active" /\ n \notin bound
    /\ Start(a, "trash", "collecting", n, Root)
    /\ UNCHANGED <<node, parent, bound>>

\* collectSubtreeIds, a level at a time: active children, or all of them.
Collect(a, next) ==
    /\ op[a].pc = "collecting"
    /\ LET level == op[a].front \ op[a].seen
           below == {n \in Children(level) : op[a].kind = "restore" \/ node[n] = "active"} IN
         IF level = {} THEN Turn(a, next)
         ELSE op' = [op EXCEPT ![a].seen = op[a].seen \cup level, ![a].front = below]
    /\ UNCHANGED <<node, parent, bound, met>>

TrashCollect(a) == op[a].kind = "trash" /\ Collect(a, "counting")

\* (TrashUncounted: bindings are not looked at.)
TrashUncounted(a) ==
    /\ In(a, "trash", "counting")
    /\ Turn(a, "writing")
    /\ UNCHANGED <<node, parent, bound, met>>
TrashCount(a) ==
    /\ In(a, "trash", "counting")
    /\ IF op[a].seen \cap bound = {} THEN Turn(a, "writing") ELSE End(a)
    /\ UNCHANGED <<node, parent, bound, met>>

Mark(S, state) == node' = [n \in Node |-> IF n \in S /\ Exists(n) THEN state ELSE node[n]]

TrashWrite(a) ==
    /\ In(a, "trash", "writing")
    /\ Mark(op[a].seen, "trashed")
    /\ End(a)
    /\ UNCHANGED <<parent, bound, met>>

RestoreRead(a, n) ==
    /\ node[n] = "trashed"
    /\ Start(a, "restore", "parent", n, parent[n])
    /\ UNCHANGED <<node, parent, bound>>

\* (RestoreAnywhere: findActiveParent is not asked.)
RestoreAnywhere(a) ==
    /\ In(a, "restore", "parent")
    /\ Turn(a, "collecting")
    /\ UNCHANGED <<node, parent, bound, met>>
RestoreParent(a) ==
    /\ In(a, "restore", "parent")
    /\ Target(op[a].to)
    /\ Turn(a, "collecting")
    /\ UNCHANGED <<node, parent, bound, met>>

RestoreCollect(a) == op[a].kind = "restore" /\ Collect(a, "writing")

RestoreWrite(a) ==
    /\ In(a, "restore", "writing")
    /\ Mark(op[a].seen, "active")
    /\ End(a)
    /\ UNCHANGED <<parent, bound, met>>

-----------------------------------------------------------------------------
(* bindFileToTarget, into a folder of ensureFolderPath *)

BindRead(a, f, p) ==
    /\ node[f] = "active" /\ node[p] = "active"
    /\ Start(a, "bind", "writing", f, p)
    /\ UNCHANGED <<node, parent, bound>>

\* A file that is bound already is left where it is.
BindWrite(a) ==
    /\ In(a, "bind", "writing")
    /\ LET f == op[a].id IN
         IF f \in bound THEN UNCHANGED <<bound, parent>>
         ELSE /\ Exists(f) /\ Referable(op[a].to)
              /\ bound' = bound \cup {f}
              /\ parent' = [parent EXCEPT ![f] = op[a].to]
    /\ End(a)
    /\ UNCHANGED <<node, met>>

-----------------------------------------------------------------------------
(* purgeNode *)

PurgeRead(c, n) ==
    /\ node[n] = "trashed"
    /\ Start(c, "purge", "gathering", n, Root)
    /\ UNCHANGED <<node, parent, bound>>

\* collectDeletedSubtree, which keeps no set of what it has seen.
PurgeGather(c) ==
    /\ In(c, "purge", "gathering")
    /\ op' = [op EXCEPT ![c].pc = "descending", ![c].seen =
                op[c].seen \cup {n \in op[c].front : node[n] = "trashed"}]
    /\ UNCHANGED <<node, parent, bound, met>>

PurgeDescend(c) ==
    /\ In(c, "purge", "descending")
    /\ LET below == {n \in Children(op[c].front) : node[n] = "trashed"} IN
         op' = [op EXCEPT ![c].front = below,
                          ![c].pc = IF below = {} THEN "counting" ELSE "gathering"]
    /\ UNCHANGED <<node, parent, bound, met>>

\* (PurgeUncounted: bindings are not looked at.)
PurgeUncounted(c) ==
    /\ In(c, "purge", "counting")
    /\ Turn(c, "writing")
    /\ UNCHANGED <<node, parent, bound, met>>
PurgeCount(c) ==
    /\ In(c, "purge", "counting")
    /\ IF op[c].seen \cap bound = {} THEN Turn(c, "writing") ELSE End(c)
    /\ UNCHANGED <<node, parent, bound, met>>

\* purgeGraph: by id, whatever became of the nodes; a child outside the set
\* or a node that is gone rolls it back.  (PurgeCascades: the key does not
\* restrict.)
PurgeCascades(c) ==
    /\ In(c, "purge", "writing")
    /\ \A n \in op[c].seen : Exists(n)
    /\ node' = [n \in Node |-> IF n \in op[c].seen THEN "purged" ELSE node[n]]
    /\ bound' = bound \ op[c].seen
    /\ End(c)
    /\ UNCHANGED <<parent, met>>
PurgeWrite(c) ==
    /\ In(c, "purge", "writing")
    /\ LET S == op[c].seen IN
         /\ \A n \in S : Exists(n)
         /\ Children(S) \subseteq S
         /\ node' = [n \in Node |-> IF n \in S THEN "purged" ELSE node[n]]
         /\ bound' = bound \ S
    /\ End(c)
    /\ UNCHANGED <<parent, met>>

-----------------------------------------------------------------------------
\* A check refuses, a statement fails or the process dies: nothing is written.
Quit(h) ==
    /\ ~Free(h)
    /\ End(h)
    /\ UNCHANGED <<node, parent, bound, met>>

Begins(a) ==
    \/ \E n \in Node, p \in Place : CreateRead(a, n, p) \/ MoveRead(a, n, p)
    \/ \E n \in Node : TrashRead(a, n) \/ RestoreRead(a, n)
    \/ \E f \in File, p \in Folder : BindRead(a, f, p)

Advance(a) ==
    \/ CreateWrite(a)
    \/ MoveParent(a) \/ MoveWalk(a) \/ MoveWrite(a)
    \/ TrashCollect(a) \/ TrashCount(a) \/ TrashWrite(a)
    \/ RestoreParent(a) \/ RestoreCollect(a) \/ RestoreWrite(a)
    \/ BindWrite(a)

Purge(c) == PurgeGather(c) \/ PurgeDescend(c) \/ PurgeCount(c) \/ PurgeWrite(c)

TreeNext ==
    \/ \E a \in Actor : Begins(a) \/ Advance(a)
    \/ \E c \in Purger : (\E n \in Node : PurgeRead(c, n)) \/ Purge(c)
    \/ \E h \in Handler : Quit(h)

TreeSpec == TreeInit /\ [][TreeNext]_treeVars

-----------------------------------------------------------------------------
\* Two operations of these kinds have been under way at the same time.
Met(k1, k2) == {k1, k2} \in met

\* Rows and handlers keep their shapes; every parent is there (foreign key),
\* and what is bound is a file that is there.
TreeTypeOK ==
    /\ node \in [Node -> {"none", "active", "trashed", "purged"}]
    /\ parent \in [Node -> Place]
    /\ bound \subseteq {f \in File : Exists(f)}
    /\ \A h \in Handler : /\ op[h].kind \in Kind /\ op[h].id \in Node \cup {Root}
                          /\ {op[h].to, op[h].at} \subseteq Place
                          /\ op[h].front \subseteq Node \cup {Root}
                          /\ op[h].seen \subseteq Node
    /\ met \subseteq {{j, k} : j \in Kind, k \in Kind}
    /\ \A n \in Node : Exists(n) => Referable(parent[n])

\* No folder is inside itself ("cannot move a folder into itself or one below
\* it"), unless two moves overlapped: each walks up a path the other changes.
\* That is, no rows have all their parents among themselves.
NoCycleUnlessMoves ==
    \A S \in SUBSET {n \in Node : Exists(n)} :
        S # {} /\ {parent[n] : n \in S} \subseteq S => Met("move", "move")

\* A file that a business record refers to is not in the trash, unless it was
\* being bound while it, or the folder it was in, was being trashed.
BoundKeptOutOfTrash ==
    \A f \in bound : node[f] = "trashed" => Met("bind", "trash")

\* What is purged is in the trash at that moment, unless a restore met the
\* purge, and no business record refers to it, unless a binding did.
PurgeHarmless ==
    [][\A n \in Node : node'[n] = "purged" /\ node[n] # "purged" =>
          /\ node[n] = "trashed" \/ Met("purge", "restore")
          /\ n \notin bound \/ Met("purge", "bind")]_treeVars

\* What is in the tree is not below something in the trash, where no listing
\* shows it and where it keeps the folder from being purged.
ReachableUnlessMet ==
    \A n \in Node : node[n] = "active" /\ parent[n] # Root /\ node[parent[n]] # "active" =>
        \E k \in {"create", "move", "bind", "restore"} : Met("trash", k)
=============================================================================
