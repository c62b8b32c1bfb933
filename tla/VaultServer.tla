---------------------------- MODULE VaultServer ----------------------------
(***************************************************************************)
(* One user's password vault as the server stores it                       *)
(* (internal/passwords/vault/repository.go).  The pool has one connection  *)
(* (internal/db/db.go), so a SQL statement and a transaction are each one  *)
(* atomic step; every action below is one of them.                         *)
(*                                                                         *)
(* Data is abstracted to what the sync protocol can tell apart.  The       *)
(* ciphertext of a row is named by the revision that first stored it, so   *)
(* "the same content" is equality of numbers; restoring an old snapshot is *)
(* the only way for a row to carry content older than its revision.        *)
(***************************************************************************)
EXTENDS Integers, FiniteSets, Functions

CONSTANTS
    ItemIds,        \* ids of vault_items
    FolderIds,      \* ids of vault_folders
    NoFolder,       \* folder_id NULL: the item is unfiled
    Blobs,          \* paths of attachment blobs
    MaxRev,         \* bound on vault_sync_state.current_rev
    KeepPerItem,    \* revisionKeepPerItem of the janitor
    SameRevHardCeiling  \* most rows of one revision that a sync page takes

Ids == ItemIds \cup FolderIds

ASSUME IdsAssumption ==
    /\ IsFiniteSet(Ids)
    /\ ItemIds \cap FolderIds = {}
    /\ NoFolder \notin FolderIds
ASSUME BoundsAssumption == MaxRev \in Nat /\ KeepPerItem \in Nat \ {0}
ASSUME CeilingAssumption == SameRevHardCeiling \in Nat \ {0}

VARIABLES
    currentRev,     \* vault_sync_state.current_rev
    row,            \* vault_items and vault_folders, by id
    history,        \* vault_item_revisions, by item
    attachments     \* vault_attachments

vars == <<currentRev, row, history, attachments>>

Revs == 0 .. MaxRev
Row == [st : {"absent", "live", "trashed"}, rev : Revs,
        folder : FolderIds \cup {NoFolder}, content : Revs]
Snapshot == [rev : Revs, folder : FolderIds \cup {NoFolder}, content : Revs]
Attachment == [item : ItemIds, blob : Blobs]

Absent == [st |-> "absent", rev |-> 0, folder |-> NoFolder, content |-> 0]

\* The tables hold what the schema says they hold.
TypeOK ==
    /\ currentRev \in Revs
    /\ row \in [Ids -> Row]
    /\ history \in [ItemIds -> SUBSET Snapshot]
    /\ attachments \in SUBSET Attachment

Init ==
    /\ currentRev = 0
    /\ row = [x \in Ids |-> Absent]
    /\ history = [i \in ItemIds |-> {}]
    /\ attachments = {}

-----------------------------------------------------------------------------
(* Helpers shared by the handlers. *)

Live(x)    == row[x].st = "live"
Trashed(x) == row[x].st = "trashed"

\* ensureFolderOwned: no folder, or a folder that is there and not tombstoned.
FolderUsable(f) == f = NoFolder \/ (f \in FolderIds /\ row[f].st = "live")

\* restoreFolderID: a link that cannot be used any more is cleared.
UsableFolder(f) == IF FolderUsable(f) THEN f ELSE NoFolder

\* bumpRev: the next revision, taken and stamped inside one transaction.
NextRev == currentRev + 1

BumpRev == currentRev < MaxRev /\ currentRev' = NextRev

\* The row a handler writes, stamped with the revision it took.
Stamped(st, folder, content) ==
    [st |-> st, rev |-> NextRev, folder |-> folder, content |-> content]

\* archiveItemSnapshot: the history of item i with its current row added.
Archived(i) ==
    history[i] \cup
        {[rev |-> row[i].rev, folder |-> row[i].folder, content |-> row[i].content]}

-----------------------------------------------------------------------------
(* Folders. *)

CreateFolder(f) ==
    /\ row[f].st = "absent"                     \* else the INSERT fails
    /\ BumpRev
    /\ row' = [row EXCEPT ![f] = Stamped("live", NoFolder, NextRev)]
    /\ UNCHANGED <<history, attachments>>

UpdateFolder(f, ifRev) ==
    /\ Live(f) /\ row[f].rev = ifRev            \* else 404 or 409
    /\ BumpRev
    /\ row' = [row EXCEPT ![f] = Stamped("live", NoFolder, NextRev)]
    /\ UNCHANGED <<history, attachments>>

\* Fault: the items lose their link without taking the new revision.
SoftDeleteFolderUnstamped(f, ifRev) ==
    /\ Live(f) /\ row[f].rev = ifRev
    /\ BumpRev
    /\ row' = [x \in Ids |->
                IF x = f THEN Stamped("trashed", NoFolder, row[x].content)
                ELSE IF row[x].folder = f THEN [row[x] EXCEPT !.folder = NoFolder]
                ELSE row[x]]
    /\ UNCHANGED <<history, attachments>>

\* The live items of the folder lose their link and take the SAME revision.
SoftDeleteFolder(f, ifRev) ==
    /\ Live(f) /\ row[f].rev = ifRev
    /\ BumpRev
    /\ row' = [x \in Ids |->
                IF x = f THEN Stamped("trashed", NoFolder, row[x].content)
                ELSE IF x \in ItemIds /\ Live(x) /\ row[x].folder = f
                     THEN Stamped("live", NoFolder, row[x].content)
                ELSE row[x]]
    /\ UNCHANGED <<history, attachments>>

\* Items that were in the folder are not filed in it again.
RestoreFolder(f) ==
    /\ Trashed(f)
    /\ BumpRev
    /\ row' = [row EXCEPT ![f] = Stamped("live", NoFolder, row[f].content)]
    /\ UNCHANGED <<history, attachments>>

-----------------------------------------------------------------------------
(* Items. *)

CreateItem(i, f) ==
    /\ row[i].st = "absent"
    /\ FolderUsable(f)
    /\ BumpRev
    /\ row' = [row EXCEPT ![i] = Stamped("live", f, NextRev)]
    /\ UNCHANGED <<history, attachments>>

\* Fault: no archiveItemSnapshot before the overwrite.
UpdateItemUnarchived(i, f, ifRev) ==
    /\ Live(i) /\ row[i].rev = ifRev
    /\ FolderUsable(f)
    /\ BumpRev
    /\ row' = [row EXCEPT ![i] = Stamped("live", f, NextRev)]
    /\ UNCHANGED <<history, attachments>>

UpdateItem(i, f, ifRev) ==
    /\ Live(i) /\ row[i].rev = ifRev
    /\ FolderUsable(f)
    /\ BumpRev
    /\ history' = [history EXCEPT ![i] = Archived(i)]
    /\ row' = [row EXCEPT ![i] = Stamped("live", f, NextRev)]
    /\ UNCHANGED attachments

\* Fault: the attachment rows stay behind on the tombstone.
SoftDeleteItemKeepFiles(i, ifRev) ==
    /\ Live(i) /\ row[i].rev = ifRev
    /\ BumpRev
    /\ row' = [row EXCEPT ![i] = Stamped("trashed", row[i].folder, row[i].content)]
    /\ UNCHANGED <<history, attachments>>

SoftDeleteItem(i, ifRev) ==
    /\ Live(i) /\ row[i].rev = ifRev
    /\ BumpRev
    /\ row' = [row EXCEPT ![i] = Stamped("trashed", row[i].folder, row[i].content)]
    /\ attachments' = {a \in attachments : a.item # i}
    /\ UNCHANGED history

RestoreItemRevision(i, snap, ifRev) ==
    /\ Live(i) /\ row[i].rev = ifRev
    /\ snap \in history[i]
    /\ BumpRev
    /\ history' = [history EXCEPT ![i] = Archived(i)]
    /\ row' = [row EXCEPT ![i] = Stamped("live", UsableFolder(snap.folder), snap.content)]
    /\ UNCHANGED attachments

\* Fault: the link of the tombstone is trusted.
RestoreItemInPlace(i) ==
    /\ Trashed(i)
    /\ BumpRev
    /\ row' = [row EXCEPT ![i] = Stamped("live", row[i].folder, row[i].content)]
    /\ UNCHANGED <<history, attachments>>

RestoreItem(i) ==
    /\ Trashed(i)
    /\ BumpRev
    /\ row' = [row EXCEPT ![i] = Stamped("live", UsableFolder(row[i].folder), row[i].content)]
    /\ UNCHANGED <<history, attachments>>

-----------------------------------------------------------------------------
(* Import: one transaction inserts the folders, then the items, each with a *)
(* revision of its own, then the attachment rows.                           *)

\* The row an import writes for id x.  A link to a folder that is not in the
\* bundle is dropped; one to a folder that comes as a tombstone is kept, and an
\* export made while the folder was being deleted holds such links.
ImportedRow(x, bundle, link, gone, stamp) ==
    [st      |-> IF x \in gone THEN "trashed" ELSE "live",
     rev     |-> stamp[x],
     folder  |-> IF x \in ItemIds /\ link[x] \in bundle \cap FolderIds THEN link[x] ELSE NoFolder,
     content |-> stamp[x]]

ImportBundle(bundle, link, gone, stamp, files) ==
    /\ bundle # {}
    /\ \A x \in bundle : row[x].st = "absent"   \* a kept id that exists fails the INSERT
    /\ \A x \in bundle \cap FolderIds, y \in bundle \cap ItemIds : stamp[x] < stamp[y]
    /\ files \subseteq [item : bundle \cap ItemIds, blob : Blobs]
    /\ currentRev + Cardinality(bundle) <= MaxRev
    /\ currentRev' = currentRev + Cardinality(bundle)
    /\ row' = [x \in Ids |-> IF x \in bundle
                             THEN ImportedRow(x, bundle, link, gone, stamp) ELSE row[x]]
    /\ attachments' = attachments \cup files
    /\ UNCHANGED history

-----------------------------------------------------------------------------
(* Attachments: no revision, no place in the sync stream. *)

UsedBlobs == {a.blob : a \in attachments}

CreateAttachment(i, b) ==
    /\ Live(i)                                  \* INSERT .. WHERE EXISTS
    /\ attachments' = attachments \cup {[item |-> i, blob |-> b]}
    /\ UNCHANGED <<currentRev, row, history>>

\* The handler looks the attachment up first, which finds none on a tombstone.
DeleteAttachment(a) ==
    /\ a \in attachments /\ Live(a.item)
    /\ attachments' = attachments \ {a}
    /\ UNCHANGED <<currentRev, row, history>>

-----------------------------------------------------------------------------
(* Hard deletes.  None of them takes a revision.  The schema cascades an    *)
(* item's deletion to its history and attachments, and a folder's deletion  *)
(* sets folder_id NULL on the rows that still name it.                      *)

HardDelete(dead) ==
    /\ row' = [x \in Ids |->
                IF x \in dead THEN Absent
                ELSE IF x \in ItemIds /\ row[x].folder \in dead
                     THEN [row[x] EXCEPT !.folder = NoFolder]
                ELSE row[x]]
    /\ history' = [i \in ItemIds |-> IF i \in dead THEN {} ELSE history[i]]
    /\ attachments' = {a \in attachments : a.item \notin dead}
    /\ UNCHANGED currentRev

TrashedItems   == {i \in ItemIds : Trashed(i)}
TrashedFolders == {f \in FolderIds : Trashed(f)}

PurgeItem(i)   == Trashed(i) /\ HardDelete({i})
PurgeFolder(f) == Trashed(f) /\ HardDelete({f})
EmptyTrash     == HardDelete(TrashedItems \cup TrashedFolders)

\* PurgeOldTombstones is two statements; "old" is any set of tombstones, since
\* an imported tombstone keeps the deletion time of its bundle.
JanitorPurgeItems(old)   == old # {} /\ old \subseteq TrashedItems /\ HardDelete(old)
JanitorPurgeFolders(old) == old # {} /\ old \subseteq TrashedFolders /\ HardDelete(old)

\* PurgeOldItemRevisions, first statement: created_at of a snapshot is the time
\* its revision was stored, so "older than the cutoff" is a prefix by revision.
JanitorAgeHistory(cutoff) ==
    /\ history' = [i \in ItemIds |-> {s \in history[i] : s.rev > cutoff}]
    /\ UNCHANGED <<currentRev, row, attachments>>

\* Second statement: at most KeepPerItem per item, the newest by created_at.
\* created_at has a resolution of a second, so edits within one second may be
\* ranked in any order and any KeepPerItem snapshots may be the ones kept.
JanitorCapHistory(kept) ==
    /\ \A i \in ItemIds :
         /\ kept[i] \subseteq history[i]
         /\ IF Cardinality(history[i]) <= KeepPerItem
            THEN kept[i] = history[i] ELSE Cardinality(kept[i]) = KeepPerItem
    /\ history' = kept
    /\ UNCHANGED <<currentRev, row, attachments>>

-----------------------------------------------------------------------------
(* What a delta sync returns. *)

Changed(rows, since) == {x \in Ids : rows[x].st # "absent" /\ rows[x].rev > since}

RevsOf(rows, S) == {rows[x].rev : x \in S}
MinRev(R) == CHOOSE r \in R : \A q \in R : r <= q
MaxRevOf(R) == CHOOSE r \in R : \A q \in R : r >= q

\* The revision of the first row, in revision order, that overflows the page.
OverflowRev(rows, S, limit) ==
    MinRev({r \in RevsOf(rows, S) :
              Cardinality({x \in S : rows[x].rev <= r}) > limit})

\* Fault: the page is cut at the limit even in the middle of a revision.
SyncPagesCutAnywhere(rows, current, since, limit) ==
    LET stream == Changed(rows, since)
        pages  == {P \in SUBSET stream :
                    /\ Cardinality(P) = limit
                    /\ \A x \in P, y \in stream \ P : rows[x].rev <= rows[y].rev}
    IN  IF Cardinality(stream) <= limit
        THEN {[ids |-> stream, cursor |-> current, more |-> FALSE]}
        ELSE {[ids |-> P, cursor |-> MaxRevOf(RevsOf(rows, P)), more |-> TRUE] : P \in pages}

\* syncChangesAtRevision: the whole group, or when it is above the ceiling as
\* many of its rows, folders before items and then in the order of their ids.
GroupReads(group) ==
    IF Cardinality(group) <= SameRevHardCeiling THEN {group}
    ELSE {G \in SUBSET group :
            /\ Cardinality(G) = SameRevHardCeiling
            /\ \A x \in G \cap ItemIds : FolderIds \cap group \subseteq G}

\* syncChanges, by the ids in any order: rows of one revision stay together up to
\* the ceiling.  What is above it is promised by more, but is not above the cursor.
SyncPages(rows, current, since, limit) ==
    LET stream   == Changed(rows, since)
        overflow == OverflowRev(rows, stream, limit)
        below    == {x \in stream : rows[x].rev < overflow}
        group    == {x \in stream : rows[x].rev = overflow}
    IN  IF Cardinality(stream) <= limit
        THEN {[ids |-> stream, cursor |-> current, more |-> FALSE]}
        ELSE IF below # {}
        THEN {[ids |-> below, cursor |-> MaxRevOf(RevsOf(rows, below)), more |-> TRUE]}
        ELSE {[ids |-> G, cursor |-> overflow, more |-> current > overflow \/ G # group] :
                G \in GroupReads(group)}

-----------------------------------------------------------------------------
(* The next-state relation: requests of the user's devices, and the janitor. *)

FolderWrite ==
    \E f \in FolderIds :
        \/ CreateFolder(f)
        \/ \E r \in Revs : UpdateFolder(f, r)
        \/ \E r \in Revs : SoftDeleteFolder(f, r)
        \/ RestoreFolder(f)

ItemWrite ==
    \E i \in ItemIds :
        \/ \E f \in FolderIds \cup {NoFolder} : CreateItem(i, f)
        \/ \E f \in FolderIds \cup {NoFolder}, r \in Revs : UpdateItem(i, f, r)
        \/ \E r \in Revs : SoftDeleteItem(i, r)
        \/ \E s \in history[i], r \in Revs : RestoreItemRevision(i, s, r)
        \/ RestoreItem(i)

FreshFiles(targets) ==
    {F \in SUBSET [item : targets, blob : Blobs \ UsedBlobs] :
        \A a, b \in F : a.blob = b.blob => a = b}

Import ==
    \E bundle \in SUBSET {x \in Ids : row[x].st = "absent"} :
    \E link \in [bundle \cap ItemIds -> FolderIds \cup {NoFolder}], gone \in SUBSET bundle :
    \E stamp \in Bijection(bundle, (currentRev + 1) .. (currentRev + Cardinality(bundle))) :
    \E files \in FreshFiles(bundle \cap ItemIds) :
        ImportBundle(bundle, link, gone, stamp, files)

AttachmentWrite ==
    \/ \E i \in ItemIds, b \in Blobs \ UsedBlobs : CreateAttachment(i, b)
    \/ \E a \in attachments : DeleteAttachment(a)

Purge ==
    \/ \E i \in ItemIds : PurgeItem(i)
    \/ \E f \in FolderIds : PurgeFolder(f)
    \/ EmptyTrash

Janitor ==
    \/ \E old \in SUBSET TrashedItems : JanitorPurgeItems(old)
    \/ \E old \in SUBSET TrashedFolders : JanitorPurgeFolders(old)
    \/ \E cutoff \in Revs : JanitorAgeHistory(cutoff)
    \/ \E kept \in [ItemIds -> SUBSET UNION {history[i] : i \in ItemIds}] :
            JanitorCapHistory(kept)

Next == FolderWrite \/ ItemWrite \/ Import \/ AttachmentWrite \/ Purge \/ Janitor

Spec == Init /\ [][Next]_vars

-----------------------------------------------------------------------------
(* Properties. *)

\* Item i is live under a folder that is tombstoned or gone: it is reachable from
\* no folder of the client's tree.
Dangles(i) == Live(i) /\ ~FolderUsable(row[i].folder)

\* Only an import leaves a live item hanging so, together with its dead folder,
\* and nothing but another folder for it, the folder's return or the folder's end
\* mends it: whatever order folder deletes, restores, history restores and purges
\* come in, none of them makes an item dangle
\* (SoftDeleteFolder, RestoreItem, restoreFolderID, ImportBundle).
DanglesOnlyByImport ==
    \A i \in ItemIds :
        Dangles(i)' => \/ Dangles(i) /\ row'[i] = row[i]
                       \/ /\ row[i].st = "absent" /\ row[row'[i].folder].st = "absent"
                          /\ row'[row'[i].folder].st = "trashed"
NoNewDangling == [][DanglesOnlyByImport]_vars

\* Two rows share a revision only when one folder delete stamped both: then
\* the group has at most one folder, which is in the trash, and its items are
\* live and unfiled.  syncChanges relies on it: a group of one revision is
\* never paged, and this is what bounds how large a group can be.
SharedRevision ==
    \A x, y \in Ids :
        (x # y /\ row[x].st # "absent" /\ row[y].st # "absent" /\ row[x].rev = row[y].rev)
        => /\ ~(x \in FolderIds /\ y \in FolderIds)
           /\ \A f \in {x, y} \cap FolderIds : Trashed(f)
           /\ \A i \in {x, y} \cap ItemIds : Live(i) /\ row[i].folder = NoFolder

\* The history of an item is a strict past of it: every snapshot is of an
\* earlier revision than the row's, and no two snapshots are of the same one
\* (archiveItemSnapshot runs before bumpRev in UpdateItem and RestoreItemRevision).
HistoryIsPast ==
    \A i \in ItemIds :
        /\ \A s \in history[i] : s.rev < row[i].rev /\ s.content <= s.rev
        /\ \A s, t \in history[i] : s.rev = t.rev => s = t

\* An attachment row's item is in the vault and a blob belongs to one attachment
\* (item_id REFERENCES .. ON DELETE CASCADE, Save's fresh paths).
AttachmentsOwned ==
    /\ \A a \in attachments : row[a.item].st # "absent"
    /\ \A a, b \in attachments : a.blob = b.blob => a = b

\* No delete leaves the files of its item behind on the tombstone, where no list
\* shows them and no sweep takes them, and none is put there: the attachments of
\* an item in the trash have come with it in an import
\* (SoftDeleteItem, CreateAttachment, ImportBundle).
StraysOnlyByImport ==
    \A a \in attachments' :
        ~Live(a.item)' => \/ a \in attachments /\ ~Live(a.item)
                          \/ row[a.item].st = "absent"
NoStrayAttachment == [][StraysOnlyByImport]_vars

\* A page is a gap-free piece of the revision stream: whatever the cursor and
\* the limit, every row between the old cursor and the new one is in it, but for
\* rows of one revision beyond the ceiling; a page that promises more moves the
\* cursor, and one that promises no more has everything and ends at the current
\* revision.  A row skipped here is lost for the device.
PageComplete(p, since) ==
    LET stream    == Changed(row, since)
        sameRev(x) == {y \in stream : row[y].rev = row[x].rev}
    IN  /\ p.ids \subseteq stream
        /\ \A x \in stream \ p.ids :
              row[x].rev <= p.cursor => Cardinality(sameRev(x)) > SameRevHardCeiling
        /\ p.more => p.cursor > since
        /\ ~p.more => p.cursor = currentRev /\ p.ids = stream
SyncPageComplete ==
    \A since \in 0 .. currentRev, limit \in 1 .. Cardinality(Ids) :
        \A p \in SyncPages(row, currentRev, since, limit) : PageComplete(p, since)

\* What an overwrite replaces is kept: whenever the content of a row that stays
\* in the vault changes, the old content is in the history afterwards.
OldContentArchived ==
    \A i \in ItemIds :
        (row[i].st # "absent" /\ row'[i].st # "absent" /\ row'[i].content # row[i].content)
        => \E s \in history'[i] : s.rev = row[i].rev /\ s.content = row[i].content
NoContentLost == [][OldContentArchived]_vars

Stream == INSTANCE VaultStream WITH
    top   <- currentRev,
    feed  <- row,
    Blank <- Absent

\* Whatever the requests and the janitor do, the devices see a stream: a change
\* of an entry carries a revision newer than all before it, or no cursor would
\* ever reach it, and no revision is taken in vain.  Without one only tombstones
\* are dropped, and what was filed under a dropped one becomes unfiled.
ServerIsStream == Stream!StreamSpec
=============================================================================
