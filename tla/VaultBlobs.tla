----------------------------- MODULE VaultBlobs -----------------------------
(***************************************************************************)
(* The files of the vault's attachments.  A file is written to the blob    *)
(* store before its row is inserted and removed after its row is deleted,  *)
(* by request handlers (internal/passwords/handler/handler.go) that share  *)
(* no transaction with the database; the janitor                           *)
(* (internal/passwords/vault/janitor.go) sweeps what they leave behind.    *)
(* Rows are those of VaultServer.                                          *)
(*                                                                         *)
(* Bounds: a blob path is random and never used twice, so Blobs bounds the *)
(* uploads; an imported bundle has one item; MaxCrashes bounds restarts.   *)
(***************************************************************************)
EXTENDS VaultServer

CONSTANT MaxCrashes
ASSUME CrashAssumption == MaxCrashes \in Nat

VARIABLES
    disk,       \* paths in the blob store, namespace vault-attachments
    used,       \* paths ever handed out by Save
    pending,    \* files saved by a request whose rows are not in yet
    doomed,     \* paths a running handler is about to delete
    sweep,      \* sweepOrphanBlobs: its phase and the paths it works on
    crossed,    \* history variable: files in flight when a sweep read the rows
    crashes     \* restarts so far

blobVars == <<disk, used, pending, doomed, sweep, crossed, crashes>>
fileVars == <<vars, blobVars>>

Idle == [phase |-> "idle", blobs |-> {}]
Request == [kind : {"upload", "import"}, item : ItemIds, blob : Blobs]

BlobsInit ==
    /\ Init
    /\ disk = {} /\ used = {} /\ pending = {} /\ doomed = {}
    /\ sweep = Idle
    /\ crossed = {} /\ crashes = 0

-----------------------------------------------------------------------------
(* uploadAttachment and importVault: Save, then the rows, or a cleanup. *)

SaveBlob(kind, i) ==
    \E b \in Blobs \ used :
        /\ disk' = disk \cup {b} /\ used' = used \cup {b}
        /\ pending' = pending \cup {[kind |-> kind, item |-> i, blob |-> b]}
        /\ UNCHANGED <<vars, doomed, sweep, crossed, crashes>>

CommitUpload(p) ==
    /\ CreateAttachment(p.item, p.blob)
    /\ pending' = pending \ {p}
    /\ UNCHANGED <<disk, used, doomed, sweep, crossed, crashes>>

Imports(i) == {p \in pending : p.kind = "import" /\ p.item = i}

\* The item of the bundle may be a tombstone.
CommitImport(i) ==
    /\ Imports(i) # {}
    /\ \E gone \in SUBSET {i} :
         ImportBundle({i}, [x \in {i} |-> NoFolder], gone, [x \in {i} |-> NextRev],
                      {[item |-> p.item, blob |-> p.blob] : p \in Imports(i)})
    /\ pending' = pending \ Imports(i)
    /\ UNCHANGED <<disk, used, doomed, sweep, crossed, crashes>>

\* The rows are refused (the item is not there, or is there already) or the
\* statement fails: cleanup.
Reject(failed) ==
    /\ failed # {}
    /\ pending' = pending \ failed
    /\ doomed' = doomed \cup {p.blob : p \in failed}
    /\ UNCHANGED <<vars, disk, used, sweep, crossed, crashes>>

RejectUpload(p) == Reject({p})
RejectImport(i) == Reject(Imports(i))

Upload ==
    \/ \E kind \in {"upload", "import"}, i \in ItemIds : SaveBlob(kind, i)
    \/ \E p \in pending : p.kind = "upload" /\ CommitUpload(p)
    \/ \E p \in pending : p.kind = "upload" /\ RejectUpload(p)
    \/ \E i \in ItemIds : CommitImport(i)
    \/ \E i \in ItemIds : RejectImport(i)

-----------------------------------------------------------------------------
(* deleteAttachment, deleteItem, purgeItem, emptyTrash: the rows, then the  *)
(* files one by one, best effort.                                           *)

RowsThenFiles ==
    /\ \/ \E a \in attachments : DeleteAttachment(a)
       \/ \E i \in ItemIds, r \in Revs : SoftDeleteItem(i, r)
       \/ \E i \in ItemIds : PurgeItem(i)
       \/ EmptyTrash
    /\ doomed' = doomed \cup {a.blob : a \in attachments \ attachments'}
    /\ UNCHANGED <<disk, used, pending, sweep, crossed, crashes>>

RemoveFile(b) ==
    /\ b \in doomed
    /\ disk' \in {disk, disk \ {b}}             \* the error of Delete is ignored
    /\ doomed' = doomed \ {b}
    /\ UNCHANGED <<vars, used, pending, sweep, crossed, crashes>>

\* Steps that touch no file.
RowsOnly ==
    /\ \E i \in ItemIds :
         \/ CreateItem(i, NoFolder)
         \/ RestoreItem(i)
         \/ JanitorPurgeItems({i})
    /\ UNCHANGED blobVars

-----------------------------------------------------------------------------
(* sweepOrphanBlobs: list the store, read the rows, delete the difference. *)

\* Fault: another namespace is listed.
SweepListElsewhere ==
    /\ sweep = Idle
    /\ UNCHANGED sweep
    /\ UNCHANGED <<vars, disk, used, pending, doomed, crossed, crashes>>

SweepList ==
    /\ sweep = Idle
    /\ sweep' = IF disk = {} THEN Idle ELSE [phase |-> "listed", blobs |-> disk]
    /\ UNCHANGED <<vars, disk, used, pending, doomed, crossed, crashes>>

Saved == {p.blob : p \in pending}

\* Fault: no path of the listing is found among the rows.
SweepReadUnfiltered ==
    /\ sweep.phase = "listed"
    /\ sweep' = [phase |-> "delete", blobs |-> sweep.blobs]
    /\ crossed' = crossed \cup (sweep.blobs \cap Saved)
    /\ UNCHANGED <<vars, disk, used, pending, doomed, crashes>>

SweepRead ==
    /\ sweep.phase = "listed"
    /\ sweep' = IF sweep.blobs \subseteq UsedBlobs THEN Idle
                ELSE [phase |-> "delete", blobs |-> sweep.blobs \ UsedBlobs]
    /\ crossed' = crossed \cup (sweep.blobs \cap Saved)
    /\ UNCHANGED <<vars, disk, used, pending, doomed, crashes>>

\* The query fails: the sweep is given up until the next tick.
SweepAbort ==
    /\ sweep.phase = "listed"
    /\ sweep' = Idle
    /\ UNCHANGED <<vars, disk, used, pending, doomed, crossed, crashes>>

SweepDone(b) ==
    /\ sweep.phase = "delete" /\ b \in sweep.blobs
    /\ sweep' = IF sweep.blobs = {b} THEN Idle ELSE [sweep EXCEPT !.blobs = @ \ {b}]
    /\ UNCHANGED <<vars, used, pending, doomed, crossed, crashes>>

SweepRemove(b) == SweepDone(b) /\ disk' = disk \ {b}
SweepSkip(b)   == SweepDone(b) /\ disk' = disk      \* Delete failed, logged

Sweep ==
    \/ SweepList
    \/ SweepRead
    \/ SweepAbort
    \/ \E b \in Blobs : SweepRemove(b) \/ SweepSkip(b)

\* The process dies: requests and the sweep are gone, rows and files stay.
Crash ==
    /\ crashes < MaxCrashes
    /\ crashes' = crashes + 1
    /\ pending' = {} /\ doomed' = {} /\ sweep' = Idle
    /\ UNCHANGED <<vars, disk, used, crossed>>

BlobsNext ==
    Upload \/ RowsThenFiles \/ (\E b \in Blobs : RemoveFile(b)) \/ RowsOnly \/ Sweep \/ Crash

\* The janitor's ticker always fires again, and a query or a Delete does not
\* fail for ever.
BlobsFairness ==
    /\ WF_fileVars(SweepList)
    /\ SF_fileVars(SweepRead)
    /\ \A b \in Blobs : SF_fileVars(SweepRemove(b))

BlobsSpec == BlobsInit /\ [][BlobsNext]_fileVars /\ BlobsFairness

-----------------------------------------------------------------------------
(* Properties. *)

\* A file belongs to one request or to one row or to a cleanup, never to two:
\* whoever holds it may delete it without asking the others.
OneOwner ==
    /\ pending \subseteq Request
    /\ \A p, q \in pending : p.blob = q.blob => p = q
    /\ Saved \cap (UsedBlobs \cup doomed) = {}
    /\ doomed \cap UsedBlobs = {}

\* A row has its file, whatever handlers, sweeps and restarts interleave, unless
\* its upload was between Save and INSERT at the moment a sweep that had listed
\* the file read the rows.  In particular an upload that overlaps only the
\* listing is safe: the sweep lists before it reads.
RowKeepsFile == UsedBlobs \subseteq disk \cup crossed

\* A file that no row, request or cleanup wants is removed in the end, also the
\* files a crash or a failed Delete has left.
Orphans == disk \ (UsedBlobs \cup Saved)
OrphansCollected == \A b \in Blobs : (b \in Orphans) ~> (b \notin disk)

\* janitor.go: the sweep removes blobs that no row references.  A row may have
\* come since it looked.
SweepSparesRows == UsedBlobs \subseteq disk
=============================================================================
