----------------------------- MODULE VaultSync -----------------------------
(***************************************************************************)
(* One browser tab keeping a copy of the vault: delta sync, the ciphertext *)
(* cache, unlock and lock, and the tab's own writes                        *)
(* (web/src/lib/vault/store.tsx), against the server of VaultServer.  All  *)
(* other tabs and devices are the server steps of Others: devices meet     *)
(* only in the database.                                                   *)
(*                                                                         *)
(* A sync request is several statements at the server (repository.go,      *)
(* Sync): the current revision, the change stream, sometimes one revision  *)
(* group, and then each row by id.  Other writes come in between.          *)
(*                                                                         *)
(* Bounds: the tab has one sync and one write of its own in flight at a    *)
(* time.  Hydration from the cache and the merge of one page are each one  *)
(* step.                                                                   *)
(***************************************************************************)
EXTENDS VaultServer

CONSTANTS
    Limit,          \* rows per sync page
    LockDuringSync  \* BOOLEAN: may lock() run while a sync is in flight

ASSUME SyncAssumption == Limit \in Nat \ {0} /\ LockDuringSync \in BOOLEAN

VARIABLES
    unlocked,       \* keyRef.current # null
    view,           \* itemsRef and foldersRef: what the user sees, by id
    raw,            \* rawItemsRef and rawFoldersRef: ciphertext rows, by id
    cursor,         \* cursorRef
    cache,          \* the IndexedDB record: rows and cursor
    sync,           \* the sync request in flight
    reply,          \* the answer to the tab's own write, while it is in flight
    suspect         \* history variable: ids the tab may have been made to miss

tab    == <<unlocked, view, raw, cursor, cache>>
tabVars == <<tab, sync, reply, suspect>>
allVars == <<vars, tabVars>>

Empty == [x \in Ids |-> Absent]
IdleSync == [phase |-> "idle", since |-> 0, byId |-> Empty, changed |-> FALSE,
             current |-> 0, todo |-> {}, page |-> Empty, next |-> 0, more |-> FALSE]
NoReply == [kind |-> "none", id |-> NoFolder, row |-> Absent]

\* The tab keeps no tombstone, and nothing it holds is ahead of the server.
SyncTypeOK ==
    /\ unlocked \in BOOLEAN
    /\ \A t \in {view, raw, cache.rows, sync.byId} :
         t \in [Ids -> Row] /\ \A x \in Ids : t[x].st # "trashed" /\ t[x].rev <= currentRev
    /\ sync.page \in [Ids -> Row]
    /\ {cursor, cache.cursor, sync.since, sync.current, sync.next} \subseteq 0 .. currentRev
    /\ sync.phase \in {"idle", "cursor", "stream", "group", "rows"}
    /\ sync.todo \subseteq Ids /\ suspect \subseteq Ids
    /\ reply.kind \in {"none", "create", "update", "delete"}

SyncInit ==
    /\ Init
    /\ unlocked = FALSE
    /\ view = Empty /\ raw = Empty /\ cursor = 0
    /\ cache = [rows |-> Empty, cursor |-> 0]
    /\ sync = IdleSync
    /\ reply = NoReply
    /\ suspect = {}

\* The writes of every other tab and device, and the tombstone purges.
Others == (FolderWrite \/ ItemWrite \/ Import \/ Purge) /\ UNCHANGED tabVars

-----------------------------------------------------------------------------
(* One sync: syncAndDecrypt in the tab, Sync in the server. *)

\* The run starts from the cursor and a snapshot of what is on screen.
SyncBegin ==
    /\ unlocked /\ sync.phase = "idle"
    /\ sync' = [IdleSync EXCEPT !.phase = "cursor", !.since = cursor, !.byId = view]
    /\ UNCHANGED <<vars, tab, reply, suspect>>

ReadCursor ==
    /\ sync.phase = "cursor"
    /\ sync' = [sync EXCEPT !.phase = "stream", !.current = currentRev]
    /\ UNCHANGED <<vars, tab, reply, suspect>>

\* syncChanges.  When the whole page sits at one revision the group is read by
\* a second statement.
ReadStream ==
    /\ sync.phase = "stream"
    /\ \E p \in SyncPages(row, sync.current, sync.since, Limit) :
         LET stream  == Changed(row, sync.since)
             isGroup == /\ Cardinality(stream) > Limit
                        /\ p.cursor = OverflowRev(row, stream, Limit)
         IN  sync' = [sync EXCEPT !.phase = IF isGroup THEN "group" ELSE "rows",
                                  !.todo = IF isGroup THEN {} ELSE p.ids,
                                  !.current = 0, !.next = p.cursor,
                                  !.more = IF isGroup THEN sync.current > p.cursor ELSE p.more]
    /\ UNCHANGED <<vars, tab, reply, suspect>>

\* syncChangesAtRevision: the rows above the ceiling are passed by the cursor.
ReadGroup ==
    /\ sync.phase = "group"
    /\ LET group == {x \in Ids : row[x].st # "absent" /\ row[x].rev = sync.next}
       IN  \E G \in GroupReads(group) :
             /\ sync' = [sync EXCEPT !.phase = "rows", !.todo = G,
                                     !.more = @ \/ G # group]
             /\ suspect' = suspect \cup (group \ G)
    /\ UNCHANGED <<vars, tab, reply>>

\* Fault: the cursor to send is read after the rows instead of before.
ReadRowCursorLast ==
    /\ sync.phase = "rows"
    /\ \E x \in sync.todo :
         /\ row[x].st # "absent"
         /\ sync' = [sync EXCEPT !.todo = @ \ {x}, !.page = [@ EXCEPT ![x] = row[x]],
                                 !.next = IF sync.more THEN @ ELSE currentRev]
    /\ UNCHANGED <<vars, tab, reply, suspect>>

\* A row is sent as it is when it is read, not as it was in the stream; a row
\* that is gone fails the request (SyncFail).
ReadRow ==
    /\ sync.phase = "rows"
    /\ \E x \in sync.todo :
         /\ row[x].st # "absent"
         /\ sync' = [sync EXCEPT !.todo = @ \ {x}, !.page = [@ EXCEPT ![x] = row[x]]]
    /\ UNCHANGED <<vars, tab, reply, suspect>>

\* The rows of a page over a table of the tab: a tombstone removes its row.
Merged(table, page) ==
    [x \in Ids |-> IF page[x].st = "absent" THEN table[x]
                   ELSE IF page[x].st = "trashed" THEN Absent ELSE page[x]]

PageArrived ==
    sync.phase = "rows" /\ sync.todo = {}

\* A page with has_more: merged, and the loop asks for the next.
DeliverPage ==
    /\ PageArrived /\ sync.more
    /\ raw' = Merged(raw, sync.page)
    /\ sync' = [IdleSync EXCEPT !.phase = "cursor", !.since = sync.next,
                                !.byId = Merged(sync.byId, sync.page),
                                !.changed = sync.changed \/ sync.page # Empty]
    /\ UNCHANGED <<vars, unlocked, view, cursor, cache, reply, suspect>>

\* The last page: the run is committed to the screen, the cursor and the cache.
\* lock() does not cancel a run, so this may happen to a locked tab, whose raw
\* rows of the earlier pages are gone.
DeliverLast ==
    /\ PageArrived /\ ~sync.more
    /\ raw' = Merged(raw, sync.page)
    /\ view' = IF sync.changed \/ sync.page # Empty
               THEN Merged(sync.byId, sync.page) ELSE view
    /\ cursor' = sync.next
    /\ cache' = [rows |-> raw', cursor |-> sync.next]
    /\ sync' = IdleSync
    /\ suspect' = IF unlocked THEN suspect ELSE Ids
    /\ UNCHANGED <<vars, unlocked, reply>>

\* A request fails (a row is gone, a time limit, the network): the run is
\* dropped.  The raw rows keep the pages that were merged.
SyncFail ==
    /\ sync.phase # "idle"
    /\ sync' = IdleSync
    /\ UNCHANGED <<vars, tab, reply, suspect>>

SyncStep == ReadCursor \/ ReadStream \/ ReadGroup \/ ReadRow \/ DeliverPage \/ DeliverLast \/ SyncFail

-----------------------------------------------------------------------------
(* The session: unlock, lock, reload of the page. *)

\* Fault: only the decrypted tables are filled from the cache.
HydrateFromCacheViewOnly ==
    view' = cache.rows /\ raw' = Empty /\ cursor' = cache.cursor

HydrateFromCache ==
    view' = cache.rows /\ raw' = cache.rows /\ cursor' = cache.cursor

\* unlock: state is reset, then hydrated from the cache.
Unlock ==
    /\ ~unlocked /\ sync.phase = "idle"
    /\ unlocked' = TRUE
    /\ HydrateFromCache
    /\ UNCHANGED <<vars, cache, sync, reply, suspect>>

\* lock: the key bytes are zeroed, so an item answer still in flight cannot be
\* decrypted and is dropped; a folder answer and a delete need no key.
Lock ==
    /\ unlocked
    /\ LockDuringSync \/ sync.phase = "idle"
    /\ unlocked' = FALSE
    /\ view' = Empty /\ raw' = Empty /\ cursor' = 0
    /\ reply' = IF reply.id \in ItemIds /\ reply.kind \in {"create", "update"}
                THEN NoReply ELSE reply
    /\ UNCHANGED <<vars, cache, sync, suspect>>

\* The page is closed or reloaded, or the browser dies: only the cache survives.
Reload ==
    /\ unlocked' = FALSE
    /\ view' = Empty /\ raw' = Empty /\ cursor' = 0
    /\ sync' = IdleSync
    /\ reply' = NoReply
    /\ UNCHANGED <<vars, cache, suspect>>

Session == SyncBegin \/ Unlock \/ Lock \/ Reload

-----------------------------------------------------------------------------
(* The tab's own writes.  The server commits, then the answer travels. *)

Send(kind, x) ==
    /\ unlocked /\ reply = NoReply
    /\ reply' = [kind |-> kind, id |-> x, row |-> row'[x]]
    /\ UNCHANGED <<tab, sync, suspect>>

OnScreen(x) == view[x].st = "live"

SendCreate ==
    \/ \E i \in ItemIds, f \in FolderIds \cup {NoFolder} :
         (f # NoFolder => OnScreen(f)) /\ CreateItem(i, f) /\ Send("create", i)
    \/ \E f \in FolderIds : CreateFolder(f) /\ Send("create", f)

SendUpdate ==
    \/ \E i \in ItemIds, f \in FolderIds \cup {NoFolder} :
         OnScreen(i) /\ (f # NoFolder => OnScreen(f))
         /\ UpdateItem(i, f, view[i].rev) /\ Send("update", i)
    \/ \E i \in ItemIds : \E s \in history[i] :
         OnScreen(i) /\ RestoreItemRevision(i, s, view[i].rev) /\ Send("update", i)
    \/ \E f \in FolderIds :
         OnScreen(f) /\ UpdateFolder(f, view[f].rev) /\ Send("update", f)

SendDelete ==
    \/ \E i \in ItemIds : OnScreen(i) /\ SoftDeleteItem(i, view[i].rev) /\ Send("delete", i)
    \/ \E f \in FolderIds : OnScreen(f) /\ SoftDeleteFolder(f, view[f].rev) /\ Send("delete", f)

\* Rows an answer makes the tab jump over, or write over while a sync is merging.
SkippedBy(x, rev) ==
    IF ~unlocked THEN Ids
    ELSE {y \in Ids \ {x} : cursor < row[y].rev /\ row[y].rev < rev}
         \cup {y \in {x} : sync.phase # "idle"}

\* createItem, updateItem, restoreItemRevision, createFolder, renameFolder: the
\* row is put in place and the cursor and the cache take ITS revision.
ApplyPut ==
    /\ reply.kind \in {"create", "update"}
    /\ LET x == reply.id
       IN  /\ raw' = [raw EXCEPT ![x] = reply.row]
           /\ view' = IF reply.kind = "create" \/ OnScreen(x)
                      THEN [view EXCEPT ![x] = reply.row] ELSE view
           /\ cursor' = reply.row.rev
           /\ cache' = [rows |-> raw', cursor |-> reply.row.rev]
           /\ suspect' = suspect \cup SkippedBy(x, reply.row.rev)
    /\ reply' = NoReply
    /\ UNCHANGED <<vars, unlocked, sync>>

\* Another device has restored the row, and a sync has brought it or is about to.
RestoredMeanwhile(x) ==
    row[x].st = "live" /\ (row[x].rev <= cursor \/ sync.phase # "idle")

\* deleteItem, deleteFolder: the row goes, the cursor stays.
ApplyDelete ==
    /\ reply.kind = "delete"
    /\ LET x == reply.id
       IN  /\ raw' = [raw EXCEPT ![x] = Absent]
           /\ view' = [view EXCEPT ![x] = Absent]
           /\ cache' = [rows |-> raw', cursor |-> cursor]
           /\ suspect' = suspect \cup {y \in {x} : RestoredMeanwhile(y)}
    /\ reply' = NoReply
    /\ UNCHANGED <<vars, unlocked, cursor, sync>>

\* The answer is lost; the write stays.
LoseReply ==
    /\ reply # NoReply
    /\ reply' = NoReply
    /\ UNCHANGED <<vars, tab, sync, suspect>>

OwnWrite == SendCreate \/ SendUpdate \/ SendDelete \/ ApplyPut \/ ApplyDelete \/ LoseReply

SyncNext == Others \/ SyncStep \/ Session \/ OwnWrite

SyncSpec == SyncInit /\ [][SyncNext]_allVars

\* A tab that only reads.
ReaderSpec == SyncInit /\ [][Others \/ SyncStep \/ Session]_allVars

-----------------------------------------------------------------------------
(* Properties. *)

\* A copy is the server's row, but for the link to a folder purged since then: a
\* purge clears the links to it and takes no revision.
SameRow(copy, r) == copy = r \/ r = [copy EXCEPT !.folder = NoFolder]

\* A table of the tab agrees with the server on x up to a cursor: nothing at or
\* below the cursor is missing, stale, or still there after its deletion.
Agrees(table, upTo, x) ==
    (row[x].st # "absent" /\ row[x].rev <= upTo)
    => IF row[x].st = "live" THEN SameRow(table[x], row[x]) ELSE table[x] = Absent

\* Whatever others write between the statements of a sync, and however syncs,
\* failures, locks and reloads interleave, an unlocked tab shows the server's
\* version of every row its cursor has passed, the rows aside that it was made
\* to skip by its own writes, by a lock during a sync or by the ceiling of a
\* page: the next delta sync will not send them again.
ViewMirrors == unlocked => \A x \in Ids \ suspect : Agrees(view, cursor, x)

\* The same of the persisted cache, from which the next unlock starts.
CacheMirrors == \A x \in Ids \ suspect : Agrees(cache.rows, cache.cursor, x)

\* A revision names one version of a row: when the tab's copy and the server's
\* have the same revision they are the same row, links to purged folders aside, so
\* if_revision (the tab sends the revision it shows) never lets a write replace a
\* version nobody saw.
SameRevSameRow ==
    \A x \in Ids :
        (OnScreen(x) /\ row[x].st = "live" /\ view[x].rev = row[x].rev)
        => SameRow(view[x], row[x])

\* The has_more loop makes progress: the next page is asked for with a later
\* cursor than the last, although rows move up the stream meanwhile.  A run is
\* then at most as many requests as there are revisions.
NextPageIsLater ==
    (sync.phase = "rows" /\ sync'.phase = "cursor") => sync'.since > sync.since
PagesAdvance == [][NextPageIsLater]_allVars

\* docs/passwords.md, Sync: the cursor is the highest revision seen and a sync
\* returns every changed row, so nothing at or below the cursor is missing.
\* The tab's own writes break it, and so does a group of one revision above the
\* ceiling (repository.go, syncChanges, says the client falls back to a full
\* resync rather than silently losing items; it asks for the next page).
ViewComplete == unlocked => \A x \in Ids : Agrees(view, cursor, x)

\* cache.ts: the cache holds the rows and their cursor, and a delta sync
\* reconciles it with the server.  A lock during a sync breaks it.
CacheComplete == \A x \in Ids : Agrees(cache.rows, cache.cursor, x)
=============================================================================
