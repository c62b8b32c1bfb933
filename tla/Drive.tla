-------------------------------- MODULE Drive --------------------------------
(***************************************************************************)
(* The drive of one user (internal/drive): folders and files, the trash,   *)
(* the quota, recursive copies, and the files in the blob store with the   *)
(* janitor that sweeps them.  SQLite runs on one connection, so a          *)
(* statement or a transaction is one step; a handler that needs several is *)
(* a request in reqs, and every other handler may run in between.  Reads   *)
(* that follow each other in a request without a write are one step.       *)
(*                                                                         *)
(* Ids are handed out in order; the blob of file n is called n (a blob     *)
(* path is random and never used twice).  Every file has size 1.  Names,   *)
(* stars and content types are left out.                                   *)
(*                                                                         *)
(* Bounds: N nodes; Pairs, the kinds of requests that may be open together *)
(* (each kind may be open alone); MaxTime seconds;                         *)
(* MaxEvents changes of the limits, sweeps, restarts and failed statements. *)
(***************************************************************************)
EXTENDS Integers, Sequences, FiniteSets

CONSTANTS N, DefaultQuota, Quotas, Pairs, MaxTime, MaxEvents
ASSUME DriveAssumption ==
    /\ N \in Nat \ {0} /\ MaxTime \in Nat /\ MaxEvents \in Nat
    /\ DefaultQuota \in Nat /\ Quotas \subseteq Nat

VARIABLES
    node,       \* drive_nodes
    next,       \* the next id (and blob path)
    disk,       \* blob store, namespace drive
    now,        \* the clock, in the seconds deleted_at is truncated to
    stored,     \* server_settings "module.drive.config": quota_bytes
    quota,      \* Service.cfg: quota_bytes, 0 is unlimited
    reqs,       \* requests between two of their statements
    listed,     \* sweepOrphanBlobs: the blobs it has listed
    events,     \* limit changes, sweeps, restarts and failed statements so far
    stray,      \* history: live nodes put below a folder that was not live
    swept,      \* history: blobs in flight when a sweep read the rows
    knot,       \* history: a move was committed under another one's walk
    limit,      \* history: the largest quota so far
    surge       \* history: the usage, or the tree by a move, grew between a
                \* Restore's check and its write

vars == <<node, next, disk, now, stored, quota, reqs, listed, events,
          stray, swept, knot, limit, surge>>

Ids == 1..N
Root == 0                                  \* parent_id NULL
Never == -1                                \* deleted_at NULL
Absent == [st |-> "absent", kind |-> "folder", parent |-> Root, at |-> Never]

Rows    == {n \in Ids : node[n].st # "absent"}
Live    == {n \in Ids : node[n].st = "live"}
Trashed == {n \in Ids : node[n].st = "trash"}
Files   == {n \in Rows : node[n].kind = "file"}

\* GetNode and IsFolder, for a parent or a target.
LiveFolder(p) == p = Root \/ (p \in Live /\ node[p].kind = "folder")

\* The recursive common table expressions: n and what is below it, through S.
Subtree(S, n) ==
    LET f[k \in 0..N] == IF k = 0 THEN {n} \cap S
                         ELSE LET above == f[k-1]
                              IN  above \cup {c \in S : node[c].parent \in above}
    IN  f[N]

\* Below a cycle UNION ALL never ends: the statement runs until its request is
\* cancelled, without effect.
OnCycle(n) ==
    LET f[k \in 1..N] == IF k = 1 THEN {node[n].parent} \ {Root}
                         ELSE LET below == f[k-1]
                              IN  below \cup ({node[a].parent : a \in below} \ {Root})
    IN  n \in f[N]

ListChildren(p) == {c \in Live : node[c].parent = p}
TotalSize == Cardinality(Live \cap Files)
SubtreeSize(n) == Cardinality(Subtree(Live, n) \cap Files)
SubtreeSizeAny(n) == Cardinality(Subtree(Rows, n) \cap Files)
Fits(extra, q) == q <= 0 \/ TotalSize + extra <= q

Init ==
    /\ node = [n \in Ids |-> Absent] /\ next = 1
    /\ disk = {} /\ now = 0
    /\ quota = DefaultQuota /\ stored = quota       \* no row: ParseConfig("")
    /\ reqs = {} /\ listed = {} /\ events = 0
    /\ stray = {} /\ swept = {} /\ knot = FALSE /\ limit = quota /\ surge = FALSE

-----------------------------------------------------------------------------
(* Bookkeeping of the history variables and of the request set. *)

Homeless(nodes, n) ==
    /\ nodes[n].st = "live" /\ nodes[n].parent # Root
    /\ nodes[nodes[n].parent].st # "live"

\* The rows become nodes; those in placed got a new parent or a new life.
SetRows(nodes, placed) ==
    /\ node' = nodes
    /\ stray' = {n \in stray \cup placed : Homeless(nodes, n)}

Open(r) ==
    /\ Cardinality(reqs) <= 1 /\ \A q \in reqs : {q.op, r.op} \in Pairs
    /\ reqs' = reqs \cup {r}
Close(r) == reqs' = reqs \ {r}
Become(r, s) == reqs' = (reqs \ {r}) \cup {s}

\* Every other request of the given kinds that is open learns of the commit.
Crossing(rs, ops) == {IF q.op \in ops THEN [q EXCEPT !.crossed = TRUE] ELSE q : q \in rs}

\* Somebody puts n into p, or takes it out of there, while a copy is building p
\* or taking it back.
Meddle(rs, n, p) ==
    {IF q.op \in {"copy", "undo"} /\ {n, p} \cap q.made # {}
     THEN [q EXCEPT !.crossed = TRUE] ELSE q : q \in rs}

NewRow(kind, p) == [st |-> "live", kind |-> kind, parent |-> p, at |-> Never]
HasParent(p) == p = Root \/ p \in Rows                       \* the foreign key

\* deleteBlob ignores the error of the store.
DeleteBlobs(bs) ==
    \/ disk' = disk \ bs /\ UNCHANGED events
    \/ bs # {} /\ disk' = disk /\ events < MaxEvents /\ events' = events + 1

-----------------------------------------------------------------------------
(* createFolder, uploadFile *)

CreateFolder(p) ==
    /\ LiveFolder(p)
    /\ Open([op |-> "mkdir", to |-> p])
    /\ UNCHANGED <<node, next, disk, now, stored, quota, listed, events,
                   stray, swept, knot, limit, surge>>

CreateNode(r) ==
    /\ r.op = "mkdir"
    /\ \/ /\ HasParent(r.to) /\ next <= N
          /\ SetRows([node EXCEPT ![next] = NewRow("folder", r.to)], {next})
          /\ next' = next + 1
          /\ reqs' = Meddle(reqs \ {r}, next, r.to)
       \/ /\ ~HasParent(r.to)
          /\ Close(r) /\ UNCHANGED <<node, next, stray>>
    /\ UNCHANGED <<disk, now, stored, quota, listed, events, swept, knot, limit, surge>>

\* The parent is checked, the limits are read and the body goes to the store.
Upload(p) ==
    /\ LiveFolder(p) /\ next <= N
    /\ Open([op |-> "upload", id |-> next, to |-> p, quota |-> quota])
    /\ disk' = disk \cup {next} /\ next' = next + 1
    /\ UNCHANGED <<node, now, stored, quota, listed, events,
                   stray, swept, knot, limit, surge>>

\* Fault: the sum and the insert are two transactions, and the sum was taken
\* when the request began.
CreateNodeUnchecked(r) ==
    /\ r.op = "upload" /\ HasParent(r.to)
    /\ SetRows([node EXCEPT ![r.id] = NewRow("file", r.to)], {r.id})
    /\ reqs' = Crossing(Meddle(reqs \ {r}, r.id, r.to), {"restore"})
    /\ UNCHANGED <<next, disk, now, stored, quota, listed, events, swept, knot, limit, surge>>

CreateNodeWithQuota(r) ==
    /\ r.op = "upload" /\ HasParent(r.to) /\ Fits(1, r.quota)
    /\ SetRows([node EXCEPT ![r.id] = NewRow("file", r.to)], {r.id})
    /\ reqs' = Crossing(Meddle(reqs \ {r}, r.id, r.to), {"restore"})
    /\ UNCHANGED <<next, disk, now, stored, quota, listed, events, swept, knot, limit, surge>>

UploadRejected(r) ==
    /\ r.op = "upload"
    /\ ~HasParent(r.to) \/ ~Fits(1, r.quota)
    /\ DeleteBlobs({r.id})
    /\ Close(r)
    /\ UNCHANGED <<node, next, now, stored, quota, listed,
                   stray, swept, knot, limit, surge>>

-----------------------------------------------------------------------------
(* patchFile: Move; copyFile: Copy.  Both walk up from the target. *)

Move(n, p) ==
    /\ n \in Live /\ LiveFolder(p)
    /\ p # node[n].parent                                     \* else a no-op
    /\ Open([op |-> "move", id |-> n, to |-> p, cur |-> p, crossed |-> FALSE])
    /\ UNCHANGED <<node, next, disk, now, stored, quota, listed, events,
                   stray, swept, knot, limit, surge>>

Copy(n, p) ==
    /\ n \in Live /\ LiveFolder(p)
    /\ Open([op |-> "copywalk", id |-> n, kind |-> node[n].kind, to |-> p,
             cur |-> IF node[n].kind = "folder" THEN p ELSE Root])
    /\ UNCHANGED <<node, next, disk, now, stored, quota, listed, events,
                   stray, swept, knot, limit, surge>>

\* Fault: the walk asks for the target itself only.
IsDescendantOneStep(r) ==
    /\ r.op \in {"move", "copywalk"} /\ r.cur # Root
    /\ IF r.cur = r.id THEN Close(r) ELSE Become(r, [r EXCEPT !.cur = Root])
    /\ UNCHANGED <<node, next, disk, now, stored, quota, listed, events,
                   stray, swept, knot, limit, surge>>

\* One SELECT of the walk: up to the node itself (ErrCircularMove), or to the
\* root or a row that is gone.
IsDescendant(r) ==
    /\ r.op \in {"move", "copywalk"} /\ r.cur # Root
    /\ IF r.cur = r.id THEN Close(r)
       ELSE Become(r, [r EXCEPT !.cur = IF @ \in Rows THEN node[@].parent ELSE Root])
    /\ UNCHANGED <<node, next, disk, now, stored, quota, listed, events,
                   stray, swept, knot, limit, surge>>

UpdateNode(r) ==
    /\ r.op = "move" /\ r.cur = Root
    /\ IF r.id \in Live /\ HasParent(r.to)
       THEN /\ SetRows([node EXCEPT ![r.id].parent = r.to], {r.id})
            /\ reqs' = Crossing(Meddle(Meddle(reqs \ {r}, r.id, r.to), node[r.id].parent, Root),
                                {"move", "restore"})
            /\ knot' = (knot \/ r.crossed)
       ELSE Close(r) /\ UNCHANGED <<node, stray, knot>>
    /\ UNCHANGED <<next, disk, now, stored, quota, listed, events, swept, limit, surge>>

\* ensureCopyQuota, then copyTree: todo are the copies still to make.
EnsureCopyQuota(r) ==
    /\ r.op = "copywalk" /\ r.cur = Root
    /\ IF Fits(IF r.kind = "file" THEN 1 ELSE SubtreeSize(r.id), quota)
       THEN Become(r, [op |-> "copy", made |-> {}, crossed |-> FALSE,
                       todo |-> <<[src |-> r.id, kind |-> r.kind,
                                   to |-> r.to, levels |-> {}]>>])
       ELSE Close(r)
    /\ UNCHANGED <<node, next, disk, now, stored, quota, listed, events,
                   stray, swept, knot, limit, surge>>

\* A folder: its row, and then the children it has at that moment.
CopyFolder(r) ==
    /\ r.op = "copy" /\ r.todo # <<>> /\ next <= N
    /\ LET t == Head(r.todo) IN
         /\ t.kind = "folder" /\ HasParent(t.to)
         /\ SetRows([node EXCEPT ![next] = NewRow("folder", t.to)], {next})
         /\ reqs' = Meddle(reqs \ {r}, next, t.to) \cup
              {[r EXCEPT !.made = @ \cup {next},
                         !.todo = <<[t EXCEPT !.kind = "made", !.to = next, !.levels = @ \cup {next}]>>
                                    \o Tail(@)]}
    /\ next' = next + 1
    /\ UNCHANGED <<disk, now, stored, quota, listed, events, swept, knot, limit, surge>>

CopyChildren(r) ==
    /\ r.op = "copy" /\ r.todo # <<>>
    /\ LET t == Head(r.todo)
           kids == {<<c, node[c].kind>> : c \in ListChildren(t.src)}
       IN  /\ t.kind = "made"
           /\ \E order \in [1..Cardinality(kids) -> kids] :
                /\ \A k \in kids : \E i \in DOMAIN order : order[i] = k
                /\ Become(r, [r EXCEPT !.todo = [i \in DOMAIN order |->
                                            [t EXCEPT !.src = order[i][1], !.kind = order[i][2]]] \o Tail(@)])
    /\ UNCHANGED <<node, next, disk, now, stored, quota, listed, events,
                   stray, swept, knot, limit, surge>>

\* A file: open the source and save the copy, then insert the row under the
\* quota there is by then.
CopyBlob(r) ==
    /\ r.op = "copy" /\ r.todo # <<>> /\ next <= N
    /\ LET t == Head(r.todo) IN
         /\ t.kind = "file" /\ t.src \in disk
         /\ Become(r, [r EXCEPT !.todo = <<[t EXCEPT !.kind = "saved", !.src = next]>> \o Tail(@)])
    /\ disk' = disk \cup {next} /\ next' = next + 1
    /\ UNCHANGED <<node, now, stored, quota, listed, events,
                   stray, swept, knot, limit, surge>>

CopyFile(r) ==
    /\ r.op = "copy" /\ r.todo # <<>>
    /\ LET t == Head(r.todo) IN
         /\ t.kind = "saved" /\ HasParent(t.to) /\ Fits(1, quota)
         /\ SetRows([node EXCEPT ![t.src] = NewRow("file", t.to)], {t.src})
         /\ reqs' = Crossing(Meddle(reqs \ {r}, t.src, t.to), {"restore"}) \cup
                      {[r EXCEPT !.made = @ \cup {t.src}, !.todo = Tail(@)]}
    /\ UNCHANGED <<next, disk, now, stored, quota, listed, events, swept, knot, limit, surge>>

\* The parent is gone, the source's blob is gone, or the quota is used up.
Refused(t) ==
    \/ t.kind = "folder" /\ ~HasParent(t.to)
    \/ t.kind = "file" /\ t.src \notin disk
    \/ t.kind = "saved" /\ ~(HasParent(t.to) /\ Fits(1, quota))

\* A statement of the copy returns an error, for one of these reasons or
\* because it fails or its request was cancelled, and the recursion unwinds.
CopyFails(r) ==
    /\ r.op = "copy" /\ r.todo # <<>>
    /\ LET t == Head(r.todo)
           blobs == IF t.kind = "saved" THEN {t.src} ELSE {}
       IN  /\ \/ Refused(t) /\ DeleteBlobs(blobs)
              \/ events < MaxEvents /\ events' = events + 1 /\ disk' \in {disk, disk \ blobs}
           /\ Become(r, [op |-> "undo", levels |-> t.levels, made |-> r.made,
                         crossed |-> r.crossed, kept |-> FALSE])
    /\ UNCHANGED <<node, next, now, stored, quota, listed,
                   stray, swept, knot, limit, surge>>

CopyDone(r) ==
    /\ (r.op = "copy" /\ r.todo = <<>>) \/ (r.op = "undo" /\ r.levels = {})
    /\ Close(r)
    /\ UNCHANGED <<node, next, disk, now, stored, quota, listed, events,
                   stray, swept, knot, limit, surge>>

-----------------------------------------------------------------------------
(* deleteFile, restoreFile, emptyTrash *)

\* Rows go, and then their blobs, which nobody else can name any more.
Drop(gone, blobs) ==
    /\ SetRows([n \in Ids |-> IF n \in gone THEN Absent ELSE node[n]], {})
    /\ DeleteBlobs(blobs)

Below(tops) == UNION {Subtree(Rows, n) : n \in tops}

\* Fault: only the innermost folder is taken away.
UndoCopyInnermost(r) ==
    /\ r.op = "undo"
    /\ \E n \in r.levels :
         /\ \A m \in r.levels : m <= n
         /\ ~OnCycle(n) /\ Drop(Below({n}), Below({n}) \cap Files)
         /\ Become(r, [r EXCEPT !.levels = {}])
    /\ UNCHANGED <<next, now, stored, quota, listed, swept, knot, limit, surge>>

\* copyTree deletes the copy of every folder it has not finished, the innermost
\* first.  The deletion may fail too, as all of them do when the request was
\* cancelled, and that is ignored; kept tells that it was the outermost one's.
UndoCopy(r) ==
    /\ r.op = "undo"
    /\ \E n \in r.levels :
         /\ \A m \in r.levels : m <= n
         /\ \/ /\ ~OnCycle(n) /\ Drop(Below({n}), Below({n}) \cap Files)
               /\ Become(r, [r EXCEPT !.levels = @ \ {n}])
            \/ /\ IF OnCycle(n) THEN events' = events ELSE events < MaxEvents /\ events' = events + 1
               /\ Become(r, [r EXCEPT !.levels = @ \ {n}, !.kept = (r.levels = {n})])
               /\ UNCHANGED <<node, disk, stray>>
    /\ UNCHANGED <<next, now, stored, quota, listed, swept, knot, limit, surge>>

\* Fault: the folder and its direct children only.
TrashOneLevel(n) ==
    /\ n \in Live
    /\ SetRows([m \in Ids |-> IF m \in {n} \cup ListChildren(n)
                              THEN [node[m] EXCEPT !.st = "trash", !.at = now] ELSE node[m]], {})
    /\ UNCHANGED <<next, disk, now, stored, quota, reqs, listed, events,
                   swept, knot, limit, surge>>

Trash(n) ==
    /\ n \in Live /\ ~OnCycle(n)
    /\ SetRows([m \in Ids |-> IF m \in Subtree(Live, n)
                              THEN [node[m] EXCEPT !.st = "trash", !.at = now] ELSE node[m]], {})
    /\ UNCHANGED <<next, disk, now, stored, quota, reqs, listed, events,
                   swept, knot, limit, surge>>

\* The sizes and the marker are read, and then the rows that carry the marker
\* come back.
Restore(n) ==
    /\ n \in Trashed /\ Fits(SubtreeSizeAny(n), quota)
    /\ Open([op |-> "restore", id |-> n, marker |-> node[n].at, crossed |-> FALSE])
    /\ UNCHANGED <<node, next, disk, now, stored, quota, listed, events,
                   stray, swept, knot, limit, surge>>

Returning(r) == {m \in Subtree(Rows, r.id) : node[m].st = "trash" /\ node[m].at = r.marker}

RestoreRows(r) ==
    /\ r.op = "restore" /\ (r.id \in Rows => ~OnCycle(r.id))
    /\ SetRows([m \in Ids |-> IF m \in Returning(r)
                              THEN [node[m] EXCEPT !.st = "live", !.at = Never] ELSE node[m]],
               Returning(r))
    /\ reqs' = IF Returning(r) \cap Files = {} THEN reqs \ {r} ELSE Crossing(reqs \ {r}, {"restore"})
    /\ surge' = (surge \/ (r.crossed /\ Returning(r) \cap Files # {}))
    /\ UNCHANGED <<next, disk, now, stored, quota, listed, events, swept, knot, limit>>

DeletePermanent(n) ==
    /\ n \in Rows /\ ~OnCycle(n)
    /\ Drop(Below({n}), Below({n}) \cap Files)
    /\ UNCHANGED <<next, now, stored, quota, reqs, listed, swept, knot, limit, surge>>

\* The blobs are those of trashed rows; a live row below a trashed folder goes
\* with it by ON DELETE CASCADE and leaves its blob to the janitor.
EmptyTrash ==
    /\ Trashed # {}
    /\ Drop(Below(Trashed), Trashed \cap Files)
    /\ UNCHANGED <<next, now, stored, quota, reqs, listed, swept, knot, limit, surge>>

-----------------------------------------------------------------------------
(* putConfig: the row, then the live limits.  sweepOrphanBlobs: list the    *)
(* store, read the rows, delete the difference.                            *)

PutConfig(q) ==
    /\ events < MaxEvents /\ q # quota
    /\ stored' = q /\ events' = events + 1
    /\ Open([op |-> "config", quota |-> q])
    /\ UNCHANGED <<node, next, disk, now, quota, listed, stray, swept, knot, limit, surge>>

Largest(a, b) == IF a = 0 \/ b = 0 THEN 0 ELSE IF a > b THEN a ELSE b

SetConfig(r) ==
    /\ r.op = "config"
    /\ quota' = r.quota /\ limit' = Largest(limit, r.quota)
    /\ Close(r)
    /\ UNCHANGED <<node, next, disk, now, stored, listed, events, stray, swept, knot, surge>>

\* The blobs that are in the store before their row.
Saved ==
    {q.id : q \in {r \in reqs : r.op = "upload"}} \cup
    {Head(q.todo).src : q \in {r \in reqs : r.op = "copy" /\ r.todo # <<>> /\ Head(r.todo).kind = "saved"}}

SweepList ==
    /\ listed = {} /\ disk # {}
    /\ listed' = disk
    /\ events < MaxEvents /\ events' = events + 1
    /\ UNCHANGED <<node, next, disk, now, stored, quota, reqs,
                   stray, swept, knot, limit, surge>>

\* Fault: only live rows keep their blobs.
SweepDeleteTrashed ==
    /\ listed # {}
    /\ disk' = disk \ (listed \ (Files \cap Live)) /\ listed' = {}
    /\ swept' = swept \cup (listed \cap Saved)
    /\ UNCHANGED <<node, next, now, stored, quota, reqs, events, stray, knot, limit, surge>>

SweepDelete ==
    /\ listed # {}
    /\ disk' = disk \ (listed \ Files) /\ listed' = {}
    /\ swept' = swept \cup (listed \cap Saved)
    /\ UNCHANGED <<node, next, now, stored, quota, reqs, events, stray, knot, limit, surge>>

Tick ==
    /\ now < MaxTime /\ now' = now + 1
    /\ UNCHANGED <<node, next, disk, stored, quota, reqs, listed, events,
                   stray, swept, knot, limit, surge>>

\* The process dies and starts again: the row gives the limits (drive.New).
Restart ==
    /\ events < MaxEvents /\ events' = events + 1
    /\ reqs' = {} /\ listed' = {}
    /\ quota' = stored /\ limit' = Largest(limit, stored)
    /\ UNCHANGED <<node, next, disk, now, stored, stray, swept, knot, surge>>

-----------------------------------------------------------------------------
(* The HTTP handlers; a row is named by an id its user has seen. *)

Parents == Ids \cup {Root}

createFolder == \E p \in Parents : CreateFolder(p)
uploadFile   == \E p \in Parents : Upload(p)
patchFile    == \E n \in Ids, p \in Parents : Move(n, p)
copyFile     == \E n \in Ids, p \in Parents : Copy(n, p)
deleteFile   == \E n \in Ids : Trash(n) \/ DeletePermanent(n)
restoreFile  == \E n \in Ids : Restore(n)
emptyTrash   == EmptyTrash
putConfig    == \E q \in Quotas : PutConfig(q)

NewRequest ==
    \/ createFolder \/ uploadFile \/ patchFile \/ copyFile
    \/ deleteFile \/ restoreFile \/ emptyTrash \/ putConfig

RequestStep(r) ==
    \/ CreateNode(r) \/ CreateNodeWithQuota(r) \/ UploadRejected(r)
    \/ IsDescendant(r) \/ UpdateNode(r)
    \/ EnsureCopyQuota(r) \/ CopyFolder(r) \/ CopyChildren(r) \/ CopyBlob(r) \/ CopyFile(r)
    \/ CopyFails(r) \/ UndoCopy(r) \/ CopyDone(r)
    \/ RestoreRows(r) \/ SetConfig(r)

Janitor == SweepList \/ SweepDelete

Next ==
    \/ NewRequest
    \/ \E r \in reqs : RequestStep(r)
    \/ Janitor \/ Tick \/ Restart

Spec == Init /\ [][Next]_vars

-----------------------------------------------------------------------------
(* Properties. *)

\* The folders form a forest: no folder is below itself, unless a move was
\* committed while another one was walking up to look for the cycle.
NoFolderBelowItself == knot \/ \A n \in Rows : ~OnCycle(n)

\* ListNodes: a folder's view, and the trash, which shows a trashed row only
\* when its parent is not trashed too.
FolderView(p) == {n \in Live : node[n].parent = p}
TrashView == {n \in Trashed : node[n].parent \notin Trashed}

\* Trash, Restore, Copy, Move and the permanent deletes keep subtrees together:
\* a user who opens folders from the top sees every live row, and a user who
\* restores what the trash shows, and then what it shows after that, can get
\* every trashed row.  Rows that were put below a folder trashed meanwhile are
\* the exception: no listing shows them and EmptyTrash takes them along.
ListingsComplete ==
    \/ knot
    \/ /\ Live \subseteq UNION {Subtree(Live, n) : n \in FolderView(Root) \cup stray}
       /\ Trashed \subseteq UNION {Subtree(Rows, n) : n \in TrashView}
       /\ \A n \in stray : Homeless(node, n)

\* The usage never exceeds the largest quota there has been, however uploads,
\* copies and restores overlap, unless it grew, or a move put more below the
\* folder that comes back, while a Restore was between its check and its write.
QuotaHeld == surge \/ limit <= 0 \/ TotalSize <= limit

\* The row of a file, live or in the trash, has its blob, unless its upload, or
\* the copy that made it, was in flight when a sweep read the rows.
RowKeepsBlob == Files \subseteq disk \cup swept

\* The undoing of a failed copy takes nothing that the copy did not make, and
\* leaves nothing of it, also when deletions of inner folders failed, unless the
\* deletion of the outermost folder did or the user worked in the copy.
FailedCopyIsUndone ==
    [][\A r \in reqs : r.op = "undo" /\ ~r.crossed =>
         /\ UndoCopy(r) => Rows \ Rows' \subseteq r.made
         /\ CopyDone(r) /\ ~r.kept => Rows \cap r.made = {}]_vars
=============================================================================
