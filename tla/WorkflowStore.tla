--------------------------- MODULE WorkflowStore ---------------------------
(***************************************************************************)
(* The definition of one workflow and its history                          *)
(* (internal/workflow/run/repository.go, service.go).  No operation is a   *)
(* transaction: each reads the whole row, works on the copy, and writes    *)
(* columns of the copy back in a later statement.  Requests of several     *)
(* tabs interleave between these statements.                               *)
(*                                                                         *)
(* A definition is abstracted to its trigger.  Bounds: one workflow, made  *)
(* once; MaxVersion versions, MaxToken webhook tokens, MaxSnapshots rows   *)
(* of history.                                                             *)
(***************************************************************************)
EXTENDS Integers, Sequences

CONSTANTS
    WebhookDefs,    \* definitions with a webhook trigger
    OtherDefs,      \* definitions with a schedule or a manual trigger
    NoDef,
    Clients,        \* requests that can be in flight at a time
    MaxVersion, MaxToken, MaxSnapshots

Defs == WebhookDefs \cup OtherDefs

ASSUME DefsAssumption == WebhookDefs \cap OtherDefs = {} /\ NoDef \notin Defs
ASSUME LimitsAssumption ==
    MaxVersion \in Nat \ {0} /\ MaxToken \in Nat /\ MaxSnapshots \in Nat

VARIABLES
    wf,             \* the row of workflows
    snapshots,      \* the rows of workflow_versions, in insertion order
    req,            \* per client: the operation in flight and its copy of the row
    lastToken,      \* tokens minted so far
    revoked,        \* history variable: tokens the row has stopped listening on
    raced           \* history variable: a copy was written over a row that had changed

storeVars == <<wf, snapshots, req, lastToken, revoked, raced>>

Versions == 0 .. MaxVersion
Tokens   == 0 .. MaxToken       \* 0: webhook_token is NULL

\* "columns" is the definition trigger_type and cron_expr were derived from.
Workflow == [st : {"absent", "there", "deleted"}, def : Defs \cup {NoDef}, version : Versions,
             active : BOOLEAN, columns : Defs \cup {NoDef}, token : Tokens]
NoWorkflow == [st |-> "absent", def |-> NoDef, version |-> 0,
               active |-> FALSE, columns |-> NoDef, token |-> 0]
Snapshot == [version : Versions, def : Defs]

Idle == [op |-> "idle", base |-> NoWorkflow, copy |-> NoWorkflow, new |-> NoDef]

\* The tables hold what the schema says, and a deleted workflow leaves no
\* history (ON DELETE CASCADE).
StoreTypeOK ==
    /\ wf \in Workflow
    /\ snapshots \in Seq(Snapshot) /\ Len(snapshots) <= MaxSnapshots
    /\ (wf.st = "there" \/ snapshots = <<>>)
    /\ \A c \in Clients :
         /\ req[c].op \in {"idle", "snapshot", "save", "setActive", "delete", "created"}
         /\ {req[c].base, req[c].copy} \subseteq Workflow
         /\ req[c].new \in Defs \cup {NoDef}
    /\ lastToken \in Tokens /\ revoked \subseteq Tokens /\ raced \in BOOLEAN

StoreInit ==
    /\ wf = NoWorkflow
    /\ snapshots = <<>>
    /\ req = [c \in Clients |-> Idle]
    /\ lastToken = 0 /\ revoked = {} /\ raced = FALSE

-----------------------------------------------------------------------------
(* Helpers. *)

There == wf.st = "there"

\* Fault: one token for the life of the workflow.
ApplyTriggerColumnsSameToken(w) ==
    IF ~w.active THEN [w EXCEPT !.columns = NoDef, !.token = 0]
    ELSE [w EXCEPT !.columns = w.def, !.token = IF w.def \in WebhookDefs THEN 1 ELSE 0]

\* applyTriggerColumns: cleared, then derived from the definition; the token was
\* cleared too, so a webhook gets a fresh one each time.
ApplyTriggerColumns(w) ==
    IF ~w.active THEN [w EXCEPT !.columns = NoDef, !.token = 0]
    ELSE [w EXCEPT !.columns = w.def,
                   !.token = IF w.def \in WebhookDefs THEN lastToken + 1 ELSE 0]

\* What minting does to the counter of tokens.
Minted(w) == IF w.token > lastToken THEN w.token ELSE lastToken
Mintable == lastToken < MaxToken

\* The row is replaced by w in a statement of client c, whose copy is then done.
Write(c, w) ==
    /\ wf' = w
    /\ revoked' = IF wf.token \notin {0, w.token} THEN revoked \cup {wf.token} ELSE revoked
    /\ raced' = (raced \/ req[c].base # wf)

Proceed(c, op, base, copy, new) ==
    req' = [req EXCEPT ![c] = [op |-> op, base |-> base, copy |-> copy, new |-> new]]
Done(c) == req' = [req EXCEPT ![c] = Idle]

-----------------------------------------------------------------------------
(* CreateWorkflow: two statements. *)

Create(c) ==
    /\ wf.st = "absent" /\ req[c] = Idle
    /\ \E d \in Defs :
         LET w == [NoWorkflow EXCEPT !.st = "there", !.def = d, !.version = 1]
         IN  wf' = w /\ Proceed(c, "created", w, w, NoDef)
    /\ UNCHANGED <<snapshots, lastToken, revoked, raced>>

\* snapshotVersion.  The key of workflow_versions is a fresh row id and nothing
\* is unique on (workflow_id, version), so OR IGNORE never ignores; it does not
\* forgive a missing workflow either.
InsertSnapshot(version, def) ==
    /\ There /\ Len(snapshots) < MaxSnapshots
    /\ snapshots' = Append(snapshots, [version |-> version, def |-> def])

CreateSnapshot(c) ==
    /\ req[c].op = "created"
    /\ InsertSnapshot(1, req[c].copy.def)
    /\ Done(c)
    /\ UNCHANGED <<wf, lastToken, revoked, raced>>

-----------------------------------------------------------------------------
(* UpdateWorkflow: read; when the definition changes, snapshot the old one;  *)
(* write every column of the copy.                                           *)

\* A patch of the name only (new = NoDef) or with the stored definition goes
\* straight to the write.
BeginUpdate(c) ==
    /\ There /\ req[c] = Idle
    /\ \E d \in Defs \cup {NoDef} :
         Proceed(c, IF d \in {NoDef, wf.def} THEN "save" ELSE "snapshot", wf, wf, d)
    /\ UNCHANGED <<wf, snapshots, lastToken, revoked, raced>>

\* The copy with the new definition in it.
Redefined(w, d) ==
    ApplyTriggerColumns([w EXCEPT !.def = d, !.version = @ + 1])

\* Fault: no snapshot.
UpdateNoSnapshot(c) ==
    /\ req[c].op = "snapshot" /\ There
    /\ req[c].copy.version < MaxVersion /\ Mintable
    /\ LET w == Redefined(req[c].copy, req[c].new)
       IN  Proceed(c, "save", req[c].base, w, NoDef) /\ lastToken' = Minted(w)
    /\ UNCHANGED <<wf, snapshots, revoked, raced>>

UpdateSnapshot(c) ==
    /\ req[c].op = "snapshot"
    /\ req[c].copy.version < MaxVersion /\ Mintable
    /\ InsertSnapshot(req[c].copy.version, req[c].copy.def)
    /\ LET w == Redefined(req[c].copy, req[c].new)
       IN  Proceed(c, "save", req[c].base, w, NoDef) /\ lastToken' = Minted(w)
    /\ UNCHANGED <<wf, revoked, raced>>

\* Every column is written, is_active and webhook_token of the copy included.
\* The row may be gone: no row is updated and no error is returned.
UpdateSave(c) ==
    /\ req[c].op = "save"
    /\ IF There THEN Write(c, req[c].copy) ELSE UNCHANGED <<wf, revoked, raced>>
    /\ Done(c)
    /\ UNCHANGED <<snapshots, lastToken>>

-----------------------------------------------------------------------------
(* SetActive (Activate, Deactivate) and Delete. *)

BeginSetActive(c) ==
    /\ There /\ req[c] = Idle
    /\ Mintable
    /\ LET w == ApplyTriggerColumns([wf EXCEPT !.active = ~wf.active])
       IN  Proceed(c, "setActive", wf, w, NoDef) /\ lastToken' = Minted(w)
    /\ UNCHANGED <<wf, snapshots, revoked, raced>>

\* The definition and the version are not among the columns written.
SetActive(c) ==
    /\ req[c].op = "setActive"
    /\ LET w == req[c].copy
       IN  IF There
           THEN Write(c, [wf EXCEPT !.active = w.active, !.columns = w.columns, !.token = w.token])
           ELSE UNCHANGED <<wf, revoked, raced>>
    /\ Done(c)
    /\ UNCHANGED <<snapshots, lastToken>>

BeginDelete(c) ==
    /\ There /\ req[c] = Idle
    /\ ~wf.active                               \* else ErrActiveConflict
    /\ Proceed(c, "delete", wf, wf, NoDef)
    /\ UNCHANGED <<wf, snapshots, lastToken, revoked, raced>>

Deleted == [NoWorkflow EXCEPT !.st = "deleted"]

Delete(c) ==
    /\ req[c].op = "delete"
    /\ IF There THEN Write(c, Deleted) ELSE UNCHANGED <<wf, revoked, raced>>
    /\ snapshots' = <<>>
    /\ Done(c)
    /\ UNCHANGED lastToken

\* A statement fails, the sender goes away, or the process dies.
Abandon(c) ==
    /\ req[c] # Idle
    /\ Done(c)
    /\ UNCHANGED <<wf, snapshots, lastToken, revoked, raced>>

StoreNext ==
    \E c \in Clients :
        \/ Create(c) \/ CreateSnapshot(c)
        \/ BeginUpdate(c) \/ UpdateSnapshot(c) \/ UpdateSave(c)
        \/ BeginSetActive(c) \/ SetActive(c)
        \/ BeginDelete(c) \/ Delete(c)
        \/ Abandon(c)

StoreSpec == StoreInit /\ [][StoreNext]_storeVars

-----------------------------------------------------------------------------
(* Properties. *)

Kept(v) == \E n \in DOMAIN snapshots : snapshots[n].version = v

\* No version number before the current one is missing from the history, even
\* when updates race, a version number is taken twice, or a request stops
\* between its snapshot and its write (UpdateWorkflow: "history is contiguous").
HistoryContiguous == \A v \in 1 .. wf.version - 1 : Kept(v)

\* A workflow answers on a webhook token only while it is active and the
\* columns it is dispatched by are those of a webhook: also under races, since
\* the three columns always come from one copy.
TokenOnlyWhileListening ==
    wf.token # 0 => wf.active /\ wf.columns \in WebhookDefs

\* As long as no request has written a stale copy, the columns that the
\* scheduler and the webhook receiver dispatch by are those of the definition.
ColumnsMatch ==
    (There /\ ~raced) => wf.columns = (IF wf.active THEN wf.def ELSE NoDef)

\* As long as no request has written a stale copy, a token once given up (by a
\* deactivation or a new definition) is never listened on again.
RevokedStaysRevoked == ~raced => wf.token \notin revoked

\* A definition that is overwritten is in the history under its version, unless
\* the overwriting copy was stale: then the definition in between is lost.
OverwrittenIsKept ==
    (There /\ wf'.st = "there" /\ wf'.def # wf.def /\ ~raced')
    => \E n \in DOMAIN snapshots' : snapshots'[n] = [version |-> wf.version, def |-> wf.def]
ReplacedIsKept == [][OverwrittenIsKept]_storeVars

\* snapshotVersion: the snapshot is idempotent, a version has one row.  Creating
\* and then editing a workflow makes two rows of version 1.
OneSnapshotPerVersion ==
    \A m, n \in DOMAIN snapshots : snapshots[m].version = snapshots[n].version => m = n
=============================================================================
