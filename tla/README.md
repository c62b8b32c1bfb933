# Airbrew: specifications

TLA+ models of the parts of Airbrew whose correctness depends on the order of
things: the password vault's revision stream and its copies in browsers, the
files of its attachments, the workflow engine, mail on its way in and out, the
drive's tree, the chat's event streams, the runs of the assistant, the address
book, and the accounts that may administer all this. Each module is translated
from the code it names; `PROJECT.json` maps every definition to its lines.

## 1. The system

Airbrew is one Go process over one SQLite file, serving a React application.
`internal/db/db.go` opens the database with `SetMaxOpenConns(1)`: all SQL goes
through one connection, so **a statement is atomic and so is a transaction**,
and two handlers interleave only *between* their statements or transactions.
That is the grain of every action below. Concurrency comes from HTTP requests
(one goroutine each), background loops (janitors, mail poller and outbox
sweeper, workflow scheduler), detached workflow runs, AI runs with a heartbeat,
chat event streams, and from several devices and browser tabs of one user.
Files (`internal/blob`) share no transaction with the database.

| component | state it keeps | operations | talks to | what is hard |
|---|---|---|---|---|
| vault rows (`passwords/vault/repository.go`) | per user: `current_rev`, items, folders (live, tombstone), item history, attachment rows | create, update, soft delete, restore, restore of a snapshot, purge, import, delta sync | client store, janitor | several rows per revision, links between rows that die and come back, paging of a stream that moves |
| vault client (`web/src/lib/vault/store.tsx`, `cache.ts`) | decrypted rows, ciphertext rows, cursor, IndexedDB cache, key in memory | unlock, lock, sync loop, own writes | vault API | answers that arrive after the world moved on: awaits in every operation |
| vault files (`passwords/handler/handler.go`, `vault/janitor.go`, `blob`) | files, attachment rows | upload, import, delete, purge, orphan sweep | rows and disk without a transaction | crash or sweep between file and row |
| vault envelope | wrapped vault key, version | setup, rotate (compare-and-set) | client | nothing multi-step |
| workflow definitions (`workflow/run`) | row with definition, version, `is_active`, trigger columns, token; version history | create, update, activate, deactivate, delete | scheduler, webhook receiver | read, compute, write in separate statements without a transaction |
| workflow runs (`workflow/exec`, `workflow/trigger`) | run and step rows, `last_fired_at`, in-memory dedup, goroutines | tick, run, cancel, finish, reap | definitions, mail, HTTP | restart within a minute, cancel against finish, panics |
| mail outbox (`mail/inbox`, `mail.go`) | messages, drafts, outbox with attempts, back-off and claim; raw files | send, retry, sweep | SMTP and API drivers | at-least-once delivery, leases |
| mail ingest (`mail/inbound`, `mail/inbox`, `mail/handler`) | the active provider, the running poller, what it has seen; messages, attachments, files | configure, start, stop, poll, webhook, ingest, delete message or mailbox | POP3, IMAP, push providers, blob store | pollers that overlap, connections that break, deletions under an ingest |
| drive (`drive/files`, `drive/handler`) | tree of nodes, quota, trash; files; shares | upload, move, copy, trash, restore, purge, share | blob store, janitor | check-then-act on the tree and the quota |
| chat (`chat`, `web/src/lib/chat.ts`) | rooms, members, messages with `seq`, hub of live streams; the page's cursor | open, post, read, leave, event stream with replay | hub | dropped events, replay against live delivery |
| AI (`ai/agent`, `ai/conv`, `ai/handler`) | conversations, messages, run lease | run, heartbeat, append, rename, delete, recover | providers, tools | lease expiry, stale transcripts, cuts through exchanges |
| contacts (`contacts`) | contacts, groups, memberships, picture files | create, replace, patch, group, import, picture, delete | blob store, janitor | patches over a stale read, pictures and their sweep |
| accounts (`auth`, `security`, `admin`, `bootstrap`) | users, password history, sessions, policy and its cache | register, sign in, change password, demote, suspend, delete, restore, recover at start-up | every request | the last administrator, status against sessions |
| OAuth clients, audit, modules, settings | rows | single-statement edits | each other | nothing multi-step |

What makes each correct:

* **vault rows** — a revision is taken once per change, no visible change
  escapes the stream, a page leaves no gap but what is above the ceiling, only an
  import files a live item under a dead folder, an overwrite archives what it
  replaces, history is strictly older than the row;
* **vault client** — what is at or below the cursor is on the screen and in the
  cache, as the server has it; `if_revision` never lets a version be replaced
  that nobody saw; the sync loop ends;
* **vault files** — one owner per file, rows keep their files, orphans go;
* **workflow definitions** — no hole in the history, the token answers only
  while a webhook workflow is active, what is overwritten is kept;
* **workflow runs** — a scheduled minute runs at most once, a verdict is final,
  a cancelled run stops, every run ends;
* **mail outbox** — a message is delivered at least once and not twice by two
  workers; attempts and back-off bound the retries;
* **mail ingest** — no mail leaves its server before it is stored, files belong
  to a message, mail arrives in the end;
* **drive** — the nodes form a forest a user can walk, the quota is an upper
  bound, a row keeps its file, a failed copy that is undone leaves nothing;
* **chat** — a stream's cursor passes nothing the page has not got, but for the
  losses that are named, a room is a log, two people share one direct room;
* **AI** — one run at a time per conversation, a prompt answers what its sender
  saw, the model gets a transcript it can take, the lease is given back unless a client stalls its run;
* **contacts** — pictures stay, no contact is blank, an import keeps the groups it
  could find or create;
* **accounts** — somebody can always administer, inactive accounts are signed
  out, former passwords stay former, the policy in memory is the stored one.

## 2. Modules

```
VaultServer ---------- MCVaultServer          rows, history, attachments, paging
   |- implements ----- VaultStream            what a vault promises its devices
   |--- VaultSync ---- MCVaultSync            one tab against the server
   |--- VaultBlobs --- MCVaultBlobs           attachment files, sweep, crashes
   \------------------ VaultProofs            theorems about the three
WorkflowStore -------- MCWorkflowStore        one workflow and its history
WorkflowRuns --------- MCWorkflowRuns         scheduler and engine
   \------------------ WorkflowProofs         theorems about the two
MailOutbox ----------- MCMailOutbox           send, claim, back-off, sweeper
   \------------------ MailOutboxProofs
MailIngest ----------- MCMailIngest           pollers, webhook, ingest, deletion
   \------------------ MailIngestProofs
Drive ---------------- MCDrive                tree, trash, quota, copies, sweep
   \------------------ DriveProofs
Chat ----------------- MCChat                 rooms, hub, event stream
   |- implements ----- ChatLog                what a room promises
   \------------------ ChatContactsProofs     theorems about Chat and Contacts
Contacts ------------- MCContacts             contacts, groups, pictures, import
AIRuns --------------- MCAIRuns               conversations, runs, leases
   \------------------ AIRunsProofs
Accounts ------------- MCAccounts             users, sessions, policy, recovery
   \------------------ AccountsProofs
```

`VaultSync` and `VaultBlobs` EXTEND `VaultServer` and use its actions: the
server side of the composition is the same text that is proved about.

### VaultServer

One user's vault. `row` joins `vault_items` and `vault_folders` by id, with
`st` (absent, live, trashed = `deleted_at` set), `rev` (`revision`), `folder`
(`folder_id`) and `content`. Ciphertext is named by the revision that first
stored it, so "same content" is equality of numbers. `history` is
`vault_item_revisions`, `attachments` is `vault_attachments`, `currentRev` is
`vault_sync_state.current_rev`. Every operation of `repository.go` that writes
is one action with the conditions the code checks (the row is there, it is
live, `if_revision` matches, the folder is usable); a transaction that would
return an error is a disabled action. Each request parameter is quantified over
all its values. `SyncPages` is `syncChanges` as a function of the tables, a
cursor and a limit: rows of one revision are not torn apart, up to
`SameRevHardCeiling` (50,000 in the code) of them. A group above the ceiling is
cut and the cursor is its revision all the same, so what was cut off is below the
cursor (`GroupReads`; `repository.go:595-601`). `SyncPageComplete` and the mirror
properties of `VaultSync` exempt these rows.

`VaultStream` is what the vault promises its devices: a feed of entries under a
counter. `Publish` is one write, whose entries carry every revision it took;
`Forget` drops deleted entries without a revision, which is what a purge does
(accepted by the comment at `vault/repository.go:1239`). A purge of a folder also
runs the schema's `SET NULL` over the rows that still name it, which get no
revision: `Forget` lets an entry lose its place (`Misplaced`) when that was in a
dropped one, and changes nothing else. A device that knew such a row keeps the
dead link (`StillTold`, `SameRow` of `VaultSync`).

Left out: other users (every statement is scoped by `user_id`), the favourite
and re-prompt flags (content), the envelope.

An import takes any bundle, as the code does: items and folders may come as
tombstones, a live item may be filed under a folder that comes as one
(`repository.go:853-859`; an export writes such a bundle when a folder is deleted
between its two SELECTs, `service.go:447`), and attachments may come with an item
in the trash (`repository.go:883-895`). What the vault promises of folders and
attachments is therefore said of steps: nothing but an import makes a live item
hang under a dead folder (`NoNewDangling`) or leaves attachments on a tombstone
(`NoStrayAttachment`).

### VaultSync

One tab in detail: `view` (decrypted rows on the screen), `raw` (ciphertext
rows), `cursor`, `cache` (IndexedDB), `sync` (the request in flight: `phase` is
which statement the server runs next, `page` the rows read so far), `reply` (the
answer to the tab's own write). All other devices are `Others`: any transaction
of `VaultServer` at any moment, so between any two statements of the sync. A
row that is purged between the stream and its read makes the request fail, as
`scanItem` does.

`suspect` is a history variable: the ids the tab may have been made to miss,
for one of these reasons: its own write moved the cursor past rows that no sync
delivered (`SkippedBy`), its own write landed while a sync was merging over an
older snapshot of the screen, the answer to its delete came after another device
restored the row (`RestoredMeanwhile`), an answer or the end of a sync came after
the lock, or a page was cut at the ceiling (`ReadGroup`). The mirror properties
speak of the other ids. `MCVaultSyncOwnWrites.cfg`, `MCVaultSyncLock.cfg` and
`MCVaultSyncCeiling.cfg` show that the exemption is not slack: without it they
fail.

Assumptions: one sync and one own write in flight at a time; hydration from the
cache and the merge of one page are atomic; a write of IndexedDB is not lost.

### VaultBlobs

Files on `disk`, paths ever `used` (they are random), requests between `Save`
and their rows (`pending`), paths a handler is about to delete (`doomed`), the
sweep's three steps, and `Crash`, which drops requests and sweep and keeps rows
and files. `Save` comes before any look at the item (`handler.go:961`); it is the
row's INSERT that asks for a live one, and its failure makes the handler delete
the file. `crossed` is a history variable: files between Save and INSERT when
a sweep that had listed them read the rows.

### WorkflowStore

One workflow row, its snapshots, and per client the operation in flight with the
copy of the row it read: `UpdateWorkflow`, `SetActive` and `DeleteWorkflow` are
split at their statements. A definition is abstracted to its trigger; `columns`
is the definition the trigger columns were derived from. `raced` becomes true
when a copy is written over a row that has changed since it was read; `revoked`
are tokens the row has stopped listening on.

What a race does, since nothing guards against it (documented, not a property):
an update that read an active workflow and writes after a deactivation makes it
active again with the token that was given up (`repository.go:205-232`; compare
"so revoking truly revokes", line 258); two updates take the same version n+1
and the first one's definition is in no snapshot; an activation between
`Delete`'s check and its DELETE is deleted with the workflow. Saving a new
definition of an active webhook workflow mints a new token as well
(`applyTriggerColumns`), while docs/workflow.md:152 speaks of activation only.

### WorkflowRuns

The scheduler's tick, split at its statements (list, look up memory, look up the
row, stamp, start), the goroutines of the runs, cancellation, deletion, and the
process. The graph is abstracted to how many nodes are still to be visited; a
cron expression may match any minute. The memory of dispatched minutes forgets all at
1000 workflows, which may be any moment (`alreadyDispatched`). A run begins by
the scheduler, by hand or by the webhook (`ExecuteAsync`), and each node's step
row is written before the node runs. A crash drops memory and goroutines;
`Restart` is `ReapStaleRunning` before the scheduler starts.

Behaviour worth knowing that is not a property: the minute is stamped *before*
the run is dispatched, so a crash, an error or a full stop in between loses the
minute's run (at most once, not exactly once; the comment at
`repository.go:131` says after); a panic in a node of a *scheduled* run is
caught only by `logging.Go`, and its row says running until the next start.

### MailOutbox

A message is stored before it is handed to the provider, and a sweeper retries
what was not marked sent. `row[m]` is the row of `mail_messages`: `st` joins
`is_draft` and `is_outbox` (no caller sets both), `attempts` is
`outbox_attempts`, `wait` is what is left until `outbox_next_attempt`, `claim`
until `outbox_claimed_until`; 0 is NULL and "in the past" alike, so `Tick`
counts down and no absolute time is kept. `job[w]` is where a worker is:
a handler of `Clients` (a browser tab, or a workflow's mail node, which calls
`Send` too) or the one `Sweeper` goroutine. `due` is the list the sweeper still
holds. Each SQL statement is an action and the driver call is open between its
start (`Send`, `MarkOutbox`, `Claim`) and its outcome (`DriverAccepts`,
`DriverRejects`, `AnswerLost`, `Panic`, `Crash`), so everything else may happen
during a call. `SendDraft`'s UpdateDraft and MarkOutbox are one step: both ask
for `is_draft = 1`, and the first changes only what is left out. A statement of
`RetrySend` that fails, a failing MarkSent or record, a panic, a crash, and
switching the provider off are faults, of which there are `MaxFaults`.

`accepted` counts what the provider took. `excused` is a history variable: the
messages that may be delivered twice, each for a cause the code has no answer
to: the provider's answer was lost; MarkSent failed or the process died before
it; a retry claimed the message while its first call, which takes no claim, was
running; the sweeper's `RecordOutboxAttempt`, after an error that came before
its own claim, released the claim of the button's call. `DeliveredOnce` speaks of the
others, and `MCMailOutboxFirstCall.cfg` shows that the third
cause is real.

Behaviour worth knowing that is not a property: a manual retry that fails leaves
its claim, so the next press is refused for up to two minutes; when MarkSent
fails after an accepted retry, RetrySend reports success, no attempt is counted
and the message goes out again when the claim ends, without limit if MarkSent
keeps failing; an autosave that read the draft before `SendDraft` and writes
between its two statements puts the old Message-ID and raw path back (contents
are left out of the model).

### MailIngest

The coordinator's refresh (`Sync`), up to two poll loops with what each has seen
and marked, an administrator's connection test, the webhook, the ingest they
share statement by statement, and a user who deletes a message or a mailbox.
`upstream` and `unposted` are what the servers still hold; `past` is history: the
mails stored once, and the keys whose ingest a deletion overtook. Breaks,
failing statements, lost acknowledgements, deletions, configurations and crashes
are the events, of which there are `MaxEvents`. A sweep reads its list once, a
deleted mail leaves the POP3 server at QUIT, and an IMAP fetch still hands out
what it has buffered when the connection breaks.

Assumptions: a server answers or the connection breaks (`pop3client.go` sets no
read deadline, so a silent server would hold a poller for ever); every mail has a
Message-ID; of the IMAP connection test only the ingest's verdict matters (it
returns on `ErrProbe` without draining the fetch).

Behaviour worth knowing that is not a property:

* A poller that leaves clears the coordinator's marker and calls its cancel
  function when the *configuration* is its own, also when a successor runs with
  it (`coordinator.go:100`). If every sweep outlasts the 30 seconds between
  refreshes, each poller's exit cancels the next one and no mail is ever read;
  this is why a refresh during an exit is a bounded event.
* `resolveMailbox` answers `ErrMailboxNotFound` for any error of its statement,
  so a transient failure marks the mail seen for the life of the poller
  (`imap.go:204-217` means only persistent failures to).
* After a broken POP3 connection every remaining mail of the sweep is marked
  seen, not only the one that broke (`pop3.go:107-121`).
* An ingest cancelled between `CreateMessage` and `storeInboundAttachments`
  loses the attachments for good: the next poll answers duplicate, and DELE
  removes the original.
* After a restart a mail the user deleted is read again if the server still
  has it.

### Drive

One user's tree. `node[n]` is a row of `drive_nodes` with its state (live, in
the trash, absent), kind, parent and `deleted_at` in whole seconds; the file of
a row is named like it. A request between two of its statements is a record in
`reqs`: a move or copy walking up from its target one SELECT at a time, an upload
whose bytes are stored, a copy with the nodes it has still to make (`todo`; the
bytes of a file are stored in one step, its row is inserted in the next) and has
made (`made`), a restore between its sums and its UPDATE. The recursive
statements are the operator `Subtree`; on a cycle they never end
(`OnCycle`), so the statement has no effect.

A copy that fails is undone folder by folder, the innermost first
(`UndoCopy`). Each of these deletions runs under the request's own context and
its error is dropped (`service.go:392,397`), so each may fail as well, and all do
when it was the request's cancellation that broke the copy: what it made so far
then stays. `kept` is history and says that the deletion of the *outermost* folder
failed, which would have taken all the others along. `FailedCopyIsUndone` speaks of the copies without it; a
failure of an inner deletion alone leaves nothing behind.

History: `stray` are live rows put below a folder trashed meanwhile, `swept` the
files of uploads and copies in flight when a sweep read the rows, `knot` a move committed under
another's walk, `surge` a restore whose check was overtaken, by files that were
added or by a move that put more below the folder coming back. Each names a race the
code has no answer to: two moves can make a cycle (`service.go:288`; every
recursive statement through it then runs until its request is cancelled); an
upload or copy into a folder that is trashed meanwhile makes a live row no
listing shows, and `EmptyTrash` takes it along and leaves its file to the
janitor; two restores, or a restore and an upload or a move, pass the quota
(`service.go:456`); a sweep deletes the file of an upload or a copy it has listed before its row is
there.

### Chat and ChatLog

Rooms, participants and messages of `repository.go`, the hub, and the stream of
one `Watcher`: subscribe, replay in pages from the client's cursor, the ready
frame, delivery from the bounded buffer, break and reconnect. A message's row
number is its index in `msgs`, its `seq` the number in its room, `at` its second;
the server's replay cursor is (second, row), the page's a second only, and it is
the page's that survives a break. `Publish` of a new message is a step of its
own. `lost` is history: messages that found the buffer full, whose sender died
before announcing them, that a message of a later second overtook, or that a
replay which broke off had not reached (`ReplayFails`).

`ChatLog` is what a room promises: a log that only grows, numbered without gaps,
written by people who are or were in the room, entries that only their authors
take away while they are in it, read marks that only grow while one stays. A mark
covers what its owner posts, but need not name a message: the server takes any
number (`repository.go:540-557`), so it may be ahead of the log, and is promised
neither to follow it nor to end within it. `Chat` implements it (`RoomsAreLogs`) with the log read off `msgs`, the members
off the roles.

Behaviour worth knowing: the comments of `hub.go:12-13` and `44-50` say that a
dropped event is recovered by replay on reconnect. It is if no later event is
delivered first: the next frame moves the page's cursor past it, and the replay
starts after the cursor. A replay whose page fails does not say so either: the
handler leaves its loop and sends the ready frame with `more` false
(`handler.go:303-306`, `322`), the page believes it has everything, and the next
event hides what the replay had not reached. That is why `CursorHidesNothing` exempts `lost`; the
REST lists, which the page reloads when a room is opened, are not modelled.

### AIRuns

One conversation, the requests that answer prompts in several processes, and the
lease between them. A request reads the conversation with its revision (`stream`),
takes the process's own lock and the database's lease, stores the prompt if the
revision is still the one read, and asks the model in turns; each answer that
calls tools is stored with its results in one transaction. Time counts heartbeat
intervals; a heartbeat may be `Late`, with `Beat + Late < Ttl` as 10 minutes and
30 minutes justify. A disconnect, a failing statement, a lost lease and a crash
end a run wherever it is; the release that a run defers may fail. A client that
keeps its connection open and reads no more stalls the run (`Stall`): the server
has no write timeout (`server.go:42-52`), the event writer sets no deadline
(`sse.go:56-81`), so `sendEvent` does not return.

Behaviour worth knowing: a stalled run's heartbeat goes on and renews the lease,
so the conversation is busy for as long as that client likes. Only a broken
connection, a heartbeat that fails, an administrator who deletes the lease or a
restart ends it, and `LeaseFreed` exempts it; the final answer is appended without a look at
`deleted_at` (`repository.go:365`), so a conversation deleted during a run still
gets it; a lease whose release failed blocks the conversation for up to 30
minutes; an administrator who deletes the lease of a live run lets a second run
in, until the first one's heartbeat notices (`taken`).

### Contacts

The rows of one user's book reduced to which of the identifying fields are
filled, the picture's path and the external id; groups and memberships; picture
files; and the janitor's three steps. A patch, a picture, a deletion and an
import are requests of several statements; a card is imported either from the
book's own export or from elsewhere. The categories of a card are looked up and
the missing ones created. When the listing fails the card goes on without any
(`service.go:225-228`), and a category whose `CreateGroup` fails, for whatever
reason (taken meanwhile, too long, a failing statement), is skipped
(`service.go:243-246`); the import ends well in both cases. `missed` is history and names them:
`CategoriesKept` says that the row the import wrote is in a group of every other
category of its card.

Behaviour worth knowing: two patches that overlap, each leaving the field the
other clears, leave a blank contact (`overlapped`, `service.go:118`). A list
value with a backslash loses it on re-import: `splitCommas` and `splitSemicolons`
unescape while they split, and each part is unescaped again
(`vcard.go:236-275`). `WriteVCard` gives a contact without an external id its row
id as UID, which no import looks up: re-importing an export doubles such contacts
(`MCContactsReimport.cfg`).

### Accounts

Users with status, role and password; the password history; sessions; the policy
as the number of passwords it remembers, with its cache; and start-up. The
conditional UPDATEs of `user/repository.go` that count active administrators are
`SetRolePreservingActiveAdmin` and `SetStatusPreservingActiveAdmin`; a request of
several statements (sign-in, change of password, patch of a user, restore, policy
change) is split at each. `EnsureAdmin` recovers the configured address when
there is no active administrator, in three statements that a crash may
separate. `late` sessions are those issued to an account that was no longer
active: a sign-in that had read the status before. `accident` is history: changes
of one password that overlapped or failed after the history row was written,
revocations that failed, policy changes that overlapped.

Behaviour worth knowing: a request's session is looked up without its account's
status (`auth.go:83`, `session/service.go:49`; only the console asks for it), so
one that a late sign-in or a failed revocation leaves to a suspended account
works until it ends or is revoked, which is why `InactiveSignedOut` matters;
overlapping changes of one password
put the same hash into the history twice, so that one fewer former password is
refused; two policy changes that cross may leave the cache with the other one's
value until the next change or restart.

## 3. What the runs check

| run | instance | shows |
|---|---|---|
| `vault_server` | 2 items, 2 folders, 2 blobs, 6 revisions, history cap 1, ceiling 2 (830 000 states) | `SyncPageComplete`; steps: `NoNewDangling`, `NoStrayAttachment`, `NoContentLost`; refinement of VaultStream: `ServerIsStream` |
| `vault_sync` | 1 item, 1 folder, 4 revisions, pages of 1, ceiling 2, locks during a sync too (2.7 million states) | `ViewMirrors`, `CacheMirrors` |
| `vault_blobs` | 1 item, 2 files, 4 revisions, 1 crash (38 000 states) | `RowKeepsFile`, liveness `OrphansCollected` |
| `workflow_store` | 1 webhook and 1 other definition, 2 clients, 3 versions (540 000 states) | `HistoryContiguous`, `RevokedStaysRevoked` |
| `workflow_runs` | 2 runs, 2 minutes, 2 nodes (1.5 million states) | `OncePerMinute`, `CancelStopsWalk`, `VerdictIsFinal`, liveness `AsyncRunsEnd` |
| `mail_outbox` | 1 message, 2 tabs and the sweeper, 3 attempts, lease 2 ticks against calls of 1, 2 retries by hand, 3 faults (160 000 states) | `DeliveredOnce`, `SentTruthfully`; liveness `OutboxDrains` |
| `mail_ingest` | 2 mails on a server, one of them also pushed, 2 pollers, POP3 with deletion, IMAP and push, pages of 1, 2 events (2.2 million states) | `KeptBeforeDeleted`, `FilesAccounted`; liveness `MailArrives` |
| `drive` | 4 nodes, quota 2 that may fall to 1, two moves, or an upload with a restore or a copy, 2 events (1.1 million states) | `NoFolderBelowItself`, `ListingsComplete`, `QuotaHeld`, `RowKeepsBlob`; step: `FailedCopyIsUndone` |
| `chat` | 2 users, 2 rooms, 2 messages, 2 seconds, 2 breaks, buffers and pages of 1 (567 000 states) | `CursorHidesNothing`, `DirectRoomsPaired`; refinement of ChatLog: `RoomsAreLogs` |
| `ai_runs` | 2 processes, 2 requests, 2 turns, lease of 3 intervals, heartbeat of 1, late by 1, stalled clients (984 000 states) | `OneWriter`, `PromptFollowsRead`, `RequestsWhole`; liveness `LeaseFreed` |
| `contacts` | 2 contacts, 2 groups, 3 files, 2 fields, 2 slots, 3 requests (1.1 million states) | `RowKeepsAvatar`, `NoBlankContact`; step: `CategoriesKept` |
| `accounts` | 2 accounts, 3 passwords, policies of 0 and 1, 2 slots, 3 sessions, 3 requests, 1 crash (478 000 states) | `AdminRemains`, `InactiveSignedOut`, `NoQuickReuse`, `PolicyInForce` |

Configurations to run by hand. Each checks one property that says what a comment
or a document of the repository says, and TLC finds it violated: the history
variables that excuse a race are not slack, and these are the disagreements
between the code and its own words.

| configuration (module) | property | what happens |
|---|---|---|
| `MCVaultSyncOwnWrites` (`MCVaultSync`) | `ViewComplete` | docs/passwords.md:71-73 says a delta sync returns every changed row above the cursor; another device creates a row, this tab, not yet synced, creates one and takes its revision as the cursor (`store.tsx:929`); the first row is below the cursor and never delivered |
| `MCVaultSyncLock` (`MCVaultSync`) | `CacheComplete` | cache.ts:4-10 says the cache is the last sync's rows; the tab locks while a sync waits, the sync goes on over the emptied tables and persists them with the new cursor (`store.tsx:697`) |
| `MCVaultSyncCeiling` (`MCVaultSync`) | `ViewComplete` | repository.go:590-594 says that above the ceiling the client falls back to a full resync rather than silently losing items; with a ceiling of 1, a folder delete stamps two rows with one revision, the page takes one of them with `has_more`, the client asks for the next page above that revision, and the other row never comes |
| `MCVaultBlobsRace` (`MCVaultBlobs`) | `SweepSparesRows` | janitor.go:9-12 says the sweep removes blobs no row references; it lists a file, reads the rows, the upload inserts its row, the sweep deletes the file (`janitor.go:143`) |
| `MCWorkflowStoreVersions` (`MCWorkflowStore`) | `OneSnapshotPerVersion` | the comment at run/repository.go:295-298 says snapshots are deduplicated by version; nothing is unique but the id (`0014_workflow.sql:41-49`), so creating and then editing makes two rows of version 1 |
| `MCMailOutboxFirstCall` (`MCMailOutbox`) | `DueNotBeingSent` | inbox/repository.go:571-572 says the due list leaves out what is being sent; the first call takes no claim (`service.go:284`), so the sweeper sends it too |
| `MCContactsReimport` (`MCContacts`) | `ReimportMatches` | vcard.go says the UID lets a re-import match existing records; a contact exported under its row id is created again (`vcard.go:357`) |

`MCVaultServer`, `MCVaultSync`, `MCWorkflowStore`, `MCWorkflowRuns` and
`MCVaultBlobs` define further invariants that hold on the same instances and are
no longer part of the runs, for what they say follows from the code's shape or
is proved: `SharedRevision`, `HistoryIsPast`, `SameRevSameRow`, `PagesAdvance`,
`OneOwner`, `TokenOnlyWhileListening`, `ColumnsMatch`, `ReplacedIsKept`,
`RunningIsWalked`, `StatusOnlyForward` and the type invariants.

### Bounds and why they are enough

* Ids: a dangling folder needs one folder and one item; two of each let a folder
  delete stamp several items, an import carry several rows, and two folders
  compete for an item. A shared revision of size three needs one folder and two
  items.
* `MaxRev` bounds the number of writes. Six is two more than the longest known
  scenario (create folder, create item, trash item, trash folder, restore). In
  `VaultSync` four: the tab needs a row, a move of it, and two concurrent writes.
* `Limit = 1` makes every two-row stream a two-page sync, and the folder delete
  a group larger than the page.
* The ceiling is 2 in `vault_server`, where a folder delete stamps up to three
  rows: groups below, at and above it. In `vault_sync` a group has two rows at
  most and comes whole; with a ceiling of 1 instead, where every such group is
  cut, the run passes as well (2.6 million states), and `MCVaultSyncCeiling`
  shows what is cut. `SomethingClaimed` does not go on once every row is suspect,
  after which nothing is claimed.
* Blobs are never reused, so two files are two uploads; the race needs one.
* Two clients suffice for every pair of interleaved operations; three versions
  let a stale writer collide with a later one.
* Two minutes and two runs: the same minute twice, and one minute after another.
* One message: messages share only the sweeper, and that it holds a list while
  other workers go on is a step of its own (`SweepNext`). Two tabs and the
  sweeper make three senders. Three attempts and a back-off of 1, 2, 4 ticks
  reach the cap of both; a lease of one tick more than a call is the least the
  code's 120 against 75 seconds justify. Three faults combine any two
  accidents with a crash.

* `MailIngest`: two mails, so that one fails while the other goes on; two slots,
  so that a poller that leaves meets its successor, or a connection test; two
  events combine any two of a break, a failing statement, a deletion, a change
  of the configuration and a crash; pages of one make every mailbox with two
  messages a two-page deletion.
* `Drive`: three nodes make a chain of two folders with a file, or three folders
  that two moves could close to a ring, and a fourth is there for what a copy
  makes after its first row (`LastIdCopied`); two events are a failing copy and a
  deletion of its undoing that fails too (`LastEventUndoes`); two requests are open together only in
  the `Pairs` that share what a property is about, each kind may be open alone.
  `BeforeRaces` does not follow a run beyond `knot` or `surge`, after which the
  properties excuse it. Two moves are open together only before the first event
  (`MovesFirst`), since no event touches the tree they walk. `TimeTells` lets time pass only while something in the
  trash, or about to be restored, is of the second before.
* `Chat`: a buffer and a page of one fill with the first message and page at the
  second; `ReplayMax` one makes the ready frame tell of more. `OneBusyRoom` opens
  rooms before anyone writes or watches and lets one be written to: messages of different
  rooms share only the stream, whose cursor does not know rooms. Two breaks are a
  lost connection and a replay that fails after it. Read marks go to one number
  beyond the log, one of them at a time, and none beside the stream, which does
  not look at them. The rooms are symmetric.
* `AIRuns`: two runs are two writers; a history of up to five rows has every cut
  through an exchange of a call and two results. The processes are alike, so
  `stream` sends the first request to a fixed one.
* `Contacts`: a book that begins with one contact in one group; overlapping
  requests are pairs, and the third is what came before or after.
* `Accounts`: two administrators who act on each other; three passwords, so that
  with a history of one there is a new one. `ShortRuns` follows a run while
  requests, crashes and ended sessions make three together; a third request
  changes a password or the policy.

Counters stop at their bound: at `MaxRev` writes are disabled and the reads go
on. Deadlock is checked in the runs of `VaultServer`, `VaultSync`, `VaultBlobs`,
`WorkflowRuns` and `MailOutbox`; elsewhere a behaviour really ends when its
workflow is deleted or its bounds are used up.

### Fairness

* `VaultBlobs`: weak fairness of the listing (the janitor runs at start and
  every six hours), strong fairness of the read and of each delete (an error is
  logged and the next tick tries again; errors do not last for ever).
* `WorkflowRuns`: weak fairness of `Restart` (a supervisor starts the process
  again) and of each run's goroutine (every node has a time limit through the
  run's context). The scheduler needs none. It is assumed that the UPDATE of
  `FinishRun` succeeds; its error is ignored at `engine.go:235`.
* `MailOutbox`: weak fairness of time, of a worker's next step (drivers have
  deadlines: 15 and 60 seconds over SMTP, 30 over HTTP) and of the sweeper's
  (its ticker fires every 30 seconds and panics are recovered per tick). No user
  has to act, and a provider that is switched off need not return:
  `OutboxDrains` asks nothing while there is none.
* `MailIngest`: weak fairness of the coordinator's refresh (a ticker of 30
  seconds), of each poller's next step and of its ingest. Breaks, failing
  statements and crashes are events and so end. A refresh while a cancelled
  poller has not yet left (`SyncEarly`) is such an event too, see `MailIngest`
  above. The user, the provider and the webhook need not act.
* `AIRuns`: weak fairness of time, of each run's next step (model calls and
  tools have time-outs) and of the heartbeat. Sending an event has no time-out:
  a run whose client reads no more is `stalled` and has no next step, so nothing
  is assumed of it, and `LeaseFreed` says that every lease is given back, runs
  out, or is held by such a run. Nobody has to send a prompt.
* The safety runs (`VaultServer`, `VaultSync`, `WorkflowStore`, `Drive`, `Chat`,
  `Contacts`, `Accounts`) assume none.

## 4. What is proved

Eight modules hold theorems, each EXTENDS the modules it is about, and `tlapm`
checks every proof to its last leaf. They hold for every value of the constants
that meets the named assumptions: any number of rows, users, requests, crashes,
seconds, and any cap, buffer or page. Each proof has the same shape: an inductive
invariant, that Init gives it, that each action keeps it (one lemma per action or
per group of actions that disturb the same conjuncts), and that it gives the
property. The less obvious inductive invariants were checked by TLC on the
instances of section 3 before they were proved.

| module | theorem | statement |
|---|---|---|
| `VaultProofs` | `TypeCorrect`, `Invariance` | `Spec => []TypeOK`, `[]IInv` |
| | `NeverDangling`, `NeverStray` | the action properties `NoNewDangling`, `NoStrayAttachment`, for an import of any bundle |
| | `PagesComplete` | `SyncPageComplete` for every cursor, limit and ceiling |
| | `ContentNeverLost`, `ChangesStamped` | the action properties `NoContentLost`, `ChangeIsStamped` |
| | `ServerImplementsStream` | the refinement `Spec => ServerIsStream`: every step of `VaultServer` is a step of `VaultStream` or none |
| | `CursorSuffices` | whoever knew every entry when `currentRev` was `r` knows every later entry up to `r`, but for links to purged folders |
| | `FilesImplementServer`, `TabImplementsServer` | `BlobsSpec => Spec`, `SyncSpec => Spec /\ ServerIsStream` |
| | `RevisionsShared`, `HistoryAlwaysPast`, `AttachmentsHaveItems` | parts of `IInv` that no run states |
| | `BlobsInvariance`, `FilesHaveOneOwner`, `RowsKeepTheirFiles` | `BlobsSpec => []BlobsInv`, `OneOwner`, `RowKeepsFile` |
| | `SyncInvariance`, `ViewAlwaysMirrors`, `CacheAlwaysMirrors` | `SyncSpec => []SyncInv`, `ViewMirrors`, `CacheMirrors` |
| | `RevisionNamesOneVersion`, `NextPageIsAlwaysLater` | `SameRevSameRow`, the action property `PagesAdvance` |
| `MailOutboxProofs` | `OutboxTypeCorrect`, `OutboxInvariance` | `OutboxTypeOK`, `IInv` |
| | `NeverDeliveredTwice`, `SentIsTrue`, `StatusNeverBack` | `DeliveredOnce`, `SentTruthfully`, the action property `StatusOnlyForward` |
| `MailIngestProofs` | `IngestTypeCorrect`, `IngestInvariance` | `IngestTypeOK`, `IngestInv` |
| | `AlwaysKeptFirst`, `FilesAreAccounted` | `KeptBeforeDeleted`, `FilesAccounted` |
| `WorkflowProofs` | `RunsTypeCorrect`, `RunsInvariance` | `RunsTypeOK`, `RunsInv` |
| | `MinutesRunOnce`, `CancelStops`, `RunningRunsAreWalked`, `VerdictsAreFinal` | `OncePerMinute`, `CancelStopsWalk`, `RunningIsWalked`, the action property `VerdictIsFinal` |
| | `StoreTypeCorrect`, `StoreInvariance` | `StoreTypeOK`, `StoreInv` |
| | `HistoryIsContiguous`, `RevokedTokensStayRevoked`, `ReplacedDefinitionsAreKept` | `HistoryContiguous`, `RevokedStaysRevoked`, the action property `ReplacedIsKept` |
| `AIRunsProofs` | `AIRunsTypeCorrect`, `AIRunsInvariance` | `AIRunsTypeOK`, `IInv` |
| | `OnlyOneWriter`, `PromptsFollowRead`, `TranscriptStaysWhole` | `OneWriter`, `PromptFollowsRead`, `TranscriptWhole` |
| | `RequestsStayWhole` | `RequestsWhole`, for every length of the transcript and of the cut |
| `AccountsProofs` | `AccountsTypeCorrect`, `AccountsInvariance` | `AccountsTypeOK`, `IInv` |
| | `AnAdminRemains`, `InactiveAreSignedOut`, `NoPasswordAgain`, `ThePolicyIsInForce` | `AdminRemains`, `InactiveSignedOut`, `NoQuickReuse`, `PolicyInForce` |
| `DriveProofs` | `DriveTypeCorrect`, `DriveInvariance` | `DriveTypeOK`, `DriveInv` |
| | `FoldersStayAForest`, `NothingIsUnlisted`, `QuotaIsHeld`, `RowsKeepBlobs` | `NoFolderBelowItself`, `ListingsComplete`, `QuotaHeld`, `RowKeepsBlob` |
| | `FailedCopiesAreUndone` | the action property `FailedCopyIsUndone` |
| `ChatContactsProofs` | `ContactsTypeCorrect`, `ContactsInvariance` | `ContactsTypeOK`, `ContactsInv` |
| | `RowsKeepAvatars`, `ContactsStayNamed`, `ImportsKeepCategories` | `RowKeepsAvatar`, `NoBlankContact`, the action property `CategoriesKept` |
| | `ChatTypeCorrect`, `ChatInvariance` | `ChatTypeOK`, `ChatInv` |
| | `NothingHidden`, `DirectRoomsStayPaired` | `CursorHidesNothing`, `DirectRoomsPaired` |
| | `ChatImplementsLogs` | the refinement `ChatSpec => RoomsAreLogs`: every step of `Chat` is a step of `ChatLog` or none |

Assumptions on the constants, each named in the module that declares them:
finitely many ids of the vault, items apart from folders (`IdsAssumption`); a
lease longer than a driver call (`LeaseAssumption`); a run lease longer than a
late heartbeat (`AIAssumption`); finitely many addresses and an administrator's
address among them (`AccountsAssumption`); finitely many workers of mail ingest
with names of their own (`MailIngestAssumption`); at least one field that
identifies a contact (`ContactsAssumption`); the watcher is a user, and buffers
and pages are not empty (`ChatAssumption`); disjoint kinds of definitions
(`DefsAssumption`). The other assumptions give bounds their type.

### Why the properties are not inductive, and what is added

* **VaultServer** (`IInv`). `RevisionsBounded` says that every stored revision is
  at most `currentRev`, that content is not newer than its row and that an absent
  row is blank; without it a revision just taken could equal a stored one.
  `PagesComplete` follows from `IInv` alone, through the least and greatest
  revision of a finite set of rows.
* **VaultServer implements VaultStream.** Each handler is put into one of four
  forms: one stamped row, a folder delete with its items, an import, a hard
  delete. The first three take revisions that the rows they write carry, all of
  them (`PublishForm`; for an import because its stamps are a bijection), and
  these rows change because what they carried before was not above `currentRev`
  (`RevisionsBounded`). A hard delete changes no entry but those it removes and
  those filed under one of them, whose links it clears: a `Forget`. `CursorSuffices` follows from the stream's two
  actions alone.
* **VaultBlobs** (`BlobsInv`). Whoever deletes a file owns it: a cleanup owns the
  paths in `doomed`, the sweep (`SweepTakesOrphans`) what neither a row nor a
  request names, the files that crossed its reading aside.
* **VaultSync** (`SyncInv`). A tab has two cursors, that of its tables and that
  of the run under way, and a page that is read while other devices write. What
  is in any of them is a version the server has had (`CopiesAreVersions`,
  `PageIsOfVersions`, `ReplyIsVersion`: not newer than the row, and the row
  itself when the revisions agree); for ids not in `suspect` each agrees with the
  server up to its own cursor (`TablesAgree`, `RunAgrees`); what a run has not got
  yet is above its cursor or still on its list (`RunComplete`), which is where a
  row that moves up the stream between two statements is accounted for; and a
  table that already shows the newest version is not overtaken by another one
  that does not (`NewestEverywhere`, `UpdatedIsHeld`), which is why a merge may
  skip rows whose revision it knows.
* **MailOutbox** (`IInv`). One call per message (`SoleCall`), a claim outlives the
  call it was taken for (`ClaimOutlives`; `Tick` lowers both), a call under way
  is of a message not yet accepted (`CallIsFirst`), an accepted message is
  marked, deleted or about to be (`AcceptedIsMarked`): so a claim finds neither a
  call nor an accepted message. `AttemptLeft` bounds the attempts.
* **MailIngest** (`IngestInv`). `StoredFirst`: an ingest that answers well, and
  whatever a poller has marked for deletion, is stored. `KeyInv`: no two calls
  hold the same file name, each knows at each of its statements whether the name
  has a row and files, a deletion's list is of rows that are there, and every file
  has an owner: a row, a call that will store its row, a deletion that will remove
  it.
* **WorkflowRuns** (`RunsInv`). `Schedule`: whatever was stamped, launched or run
  is at most the stamp, and a tick about to stamp is past it. `WalksOK`: a
  cancelled walk between its check and its node has its one late visit before it.
* **WorkflowStore** (`StoreInv`). The requests under way hold copies that may yet
  become the row, so history is kept below *their* versions too (`HistoryKept`),
  a definition about to be replaced is archived (`BasesKept`), and a token that a
  request has minted is nobody else's (`TokensUnique`).
* **AIRuns** (`IInv`). `WritersHoldLease`: the lease has as much left beyond the
  next heartbeat as when both were set, so a writer whose lease was not deleted
  holds it. `ReadIsCurrent`: while the revision a request read is the
  conversation's, the transcript is the one it read. `TranscriptWhole`: in what
  is stored, results stand right behind their calls. From it `RequestsWhole`
  follows: `KeptOf` a cut transcript is what comes after the results it opens with
  (`CutKeeps`), and the table of `repairToolTranscript` is, row by row, the
  subsequence of those (`RepairKeepsTail`).
* **Accounts** (`IInv`). `RecoveryInOrder` follows the three statements of the
  start-up recovery; `CachingWhatIsStored` a policy change between its two;
  `ChangeInOrder` says for the one request that is changing a password where its
  statements have left the history and that what it checked still holds. That an
  administrator remains is a statement about sets of accounts and needs them to
  be finite.
* **Drive** (`DriveInv`). That no folder is below itself is said of sets: the
  folders above a row are a set closed under parents that does not hold the row
  (`Cert`), and a walk not crossed has passed a set that does not hold its node
  (`Walked`); putting the two together gives the set for the tree after the move.
  Lemmas say that the recursive statements, functions over `0..N`, compute exactly
  what is reachable. `HomelessAreStray` makes `stray` exactly the live rows below
  a folder that is not live. `QuotaInv`: the quota a request goes by is no larger
  than the largest, and the usage with all that is below a folder coming back
  stays below it. Blobs in flight are one request's and their ids were issued
  (`BlobsInv`, `IdsKnown`). `RowsLinked` and `CopiesWhole` are for copies: a row's
  folder is a row, below what a copy has made there is nothing else, and what it
  has made hangs together below its first folder, which every task still to do
  would delete on failure. Below that folder there is then exactly what the copy
  has made, less what deletions of inner folders have already dropped, so the last
  deletion of `UndoCopy` drops the rest, unless it fails (`kept`).
* **Contacts** (`ContactsInv`). A file is one contact's or that of the upload that
  saved it, and what a request is to remove is no other contact's
  (`PicturesInv`); a patch was checked on the row as it was read
  (`PatchesChecked`); a name on a card is still to be looked up, found, or given
  up (`NamesFound`).
* **Chat** (`ChatInv`). `ClockInv`: a message not overtaken is of the last second
  there is, from when it is stored until it is published. `StreamInv`: the
  page's cursor, and the server's while it replays, are places of the stream with
  nothing due behind them; what is due is in the buffer or about to be announced
  once the replay is complete; and behind an event in the buffer nothing due is
  older. That a page of the replay holds the first rows after its cursor is shown
  by counting. `Numbered`: a message's number is its rank among its room's.
* **ChatImplementsLogs.** The log of a room is a sequence read off the rows by
  rank; a new row appends to one room's and leaves the others, a deleted one
  changes one entry. The step lemmas map posting to `Post`, reading to `Mark`,
  leaving, opening and deleting to theirs, and the hub, the stream and failures to
  stuttering.

Induction over `0..N`, where a proof needs it, is done on sets: the least
counterexample, from the library's theorem on well-founded minima (`WFMin`),
as in the lemmas `LeastNatural` and `StepByStep` of `DriveProofs`,
`RepairKeepsTail` of `AIRunsProofs` and `HasLargest` of `ChatContactsProofs`.

### Only model-checked

* All liveness: `OrphansCollected`, `AsyncRunsEnd`, `OutboxDrains`,
  `MailArrives`, `LeaseFreed`. Fairness and ENABLED are beyond the prover.

## 5. Not modelled, and what is left

Not modelled, because every operation is a single guarded statement, a read, or
a pure conversion; reasons per component in `PROJECT.json`:

* cryptography and tools in the browser, the vault's key envelope, rendering;
* the workflow graph language and its cron matching: pure functions of a
  definition, which the runs abstract to node visits and any minute;
* message formats, mail drivers, mail folders, flags and threads;
* drive shares, archives, search, stars and names;
* chat room and user listings and their pages;
* AI providers, tools, key sealing, and the registry of agents;
* listings and search of contacts, the bytes of pictures;
* rate limits, IP allowlist, login history, profiles, OAuth clients, branding,
  module switches, audit log, backups and their staged restore.

Behaviour of the modelled parts that is named here instead of being a property:
an export of the vault reads folders and items in two statements, so a folder
delete in between gives a bundle with an item under a dead folder
(`vault/service.go:447`; what its import does is in `VaultServer`, see the hazard
at `vault/repository.go:1139`); a purge removes a tombstone without a revision, and a
device that has not synced since keeps the row (`vault/repository.go:1239`,
accepted by its comment); the error of a run's last UPDATE is dropped
(`engine.go:235`).

What is left, in order:

1. `VaultSync` as a replica of `VaultStream`. Its tab is proved to mirror the
   server (`ViewAlwaysMirrors`), but of the exempted ids (`suspect`) nothing is
   claimed, so a refinement needs a stream in which a replica may lag for good.
2. The autosave that overtakes `SendDraft` (`inbox/service.go:555`), with
   contents and Message-IDs in `MailOutbox`.
