------------------------------ MODULE Contacts ------------------------------
(***************************************************************************)
(* The address book of one user (internal/contacts): contacts, groups and  *)
(* memberships (contact/repository.go), the operations on them             *)
(* (contact/service.go, handler/handler.go), vCard import and export       *)
(* (contact/vcard.go), the avatar files and the sweep that removes those   *)
(* no row names (contact/janitor.go).                                      *)
(*                                                                         *)
(* A statement, a transaction or a call of the blob store is one step.  A  *)
(* contact is reduced to the Fields that identify it and are not empty.    *)
(* What an export writes, an import reads back: the values hold no         *)
(* backslash, which a name of a list loses on the way.                     *)
(*                                                                         *)
(* Bounds: MaxRequests requests in all, Slots of them at a time; ids of    *)
(* contacts, groups and files are numbers in order of issue.               *)
(***************************************************************************)
EXTENDS Integers, FiniteSets

CONSTANTS Fields, Names, Uids, MaxContacts, MaxGroups, MaxFiles, Slots, MaxRequests
ASSUME ContactsAssumption ==
    /\ {MaxContacts, MaxGroups, MaxFiles, MaxRequests} \subseteq Nat \ {0}
    /\ Fields # {}

VARIABLES
    row,        \* contacts
    group,      \* contact_groups: its name
    member,     \* contact_group_members
    files,      \* avatar files in the blob store
    req,        \* requests under way
    sweep,      \* the janitor's pass
    used,       \* requests so far, and files issued
    accident    \* history: what overlapping requests have done

vars == <<row, group, member, files, req, sweep, used, accident>>

Contacts == 1..MaxContacts
Groups == 1..MaxGroups
None == 0       \* no file, no external id
Live == {c \in Contacts : row[c].st = "live"}
Known == {g \in Groups : group[g].st = "live"}
Idle == [op |-> "idle"]

NewRow(in, uid) == [st |-> "live", uid |-> uid, filled |-> in, avatar |-> None]

\* A book with one contact, with or without a picture and an external id, in a
\* group.
Init ==
    \E uid \in Uids \cup {None}, f \in {None, 1}, n \in Names :
        /\ row = [c \in Contacts |-> IF c = 1 THEN [NewRow(Fields, uid) EXCEPT !.avatar = f]
                                     ELSE [NewRow({}, None) EXCEPT !.st = "free"]]
        /\ group = [g \in Groups |-> [st |-> IF g = 1 THEN "live" ELSE "free", name |-> n]]
        /\ member = {<<1, 1>>} /\ files = {f} \ {None}
        /\ req = [q \in Slots |-> Idle] /\ sweep = [st |-> "rest"]
        /\ used = [requests |-> 0, files |-> f]
        /\ accident = [inflight |-> {}, overlapped |-> {}, regrouped |-> {}]

FreshContact == {c \in Contacts : row[c].st = "free" /\ \A d \in 1..c-1 : row[d].st # "free"}
FreshGroup   == {g \in Groups : group[g].st = "free" /\ \A h \in 1..g-1 : group[h].st # "free"}

Begin(q) ==
    /\ req[q] = Idle /\ used.requests < MaxRequests
    /\ used' = [used EXCEPT !.requests = @ + 1]
Goto(q, r) == req' = [req EXCEPT ![q] = r]
Done(q) == Goto(q, Idle)

-----------------------------------------------------------------------------
(* Rows: contact/repository.go *)

hasAnyIdentity(in) == in # {}
HasUid(uid) == \E c \in Live : uid # None /\ row[c].uid = uid

\* The groups of a contact are replaced; ids of groups that are not there are
\* skipped.
applyMembershipTx(c, ids) == {m \in member : m[1] # c} \cup {<<c, g>> : g \in ids \cap Known}

\* nil group ids leave the memberships as they are.
Nil == {None}
Membership(c, ids) == IF ids = Nil THEN member ELSE applyMembershipTx(c, ids)

insertContactTx(c, in, uid) ==
    /\ c \in FreshContact /\ ~HasUid(uid)
    /\ row' = [row EXCEPT ![c] = NewRow(in, uid)]
updateContactTx(c, in) == c \in Live /\ row' = [row EXCEPT ![c].filled = in]

CreateWithGroups(c, in, uid, ids) == insertContactTx(c, in, uid) /\ member' = Membership(c, ids)
ReplaceWithGroups(c, in, ids) == updateContactTx(c, in) /\ member' = Membership(c, ids)

SetAvatar(c, f) == c \in Live /\ row' = [row EXCEPT ![c].avatar = f]

\* The memberships cascade.
DeleteContact(c) ==
    /\ row' = [row EXCEPT ![c].st = "gone", ![c].avatar = None]
    /\ member' = {m \in member : m[1] # c}

Named(n) == {g \in Known : group[g].name = n}
CreateGroup(g, n) ==
    /\ g \in FreshGroup /\ Named(n) = {}
    /\ group' = [group EXCEPT ![g] = [st |-> "live", name |-> n]]

-----------------------------------------------------------------------------
(* Requests of one statement or transaction: handler.go, service.go *)

\* What is left of the input when it is trimmed and empty entries are dropped.
Inputs == SUBSET Fields
GroupIds == {Nil} \cup SUBSET Groups
Create(c, in, uid, ids) == hasAnyIdentity(in) /\ CreateWithGroups(c, in, uid, ids)
Replace(c, in, ids) == hasAnyIdentity(in) /\ ReplaceWithGroups(c, in, ids)
stores == <<files, sweep>>
rest == <<stores, accident>>
\* History: the group of a name is renamed or deleted.
Regroup(g) == accident' = [accident EXCEPT !.regrouped = @ \cup {group[g].name}]

createContact(q) ==
    /\ Begin(q)
    /\ \E in \in Inputs, ids \in GroupIds, c \in Contacts : Create(c, in, None, ids)
    /\ UNCHANGED <<group, req, rest>>

replaceContact(q) ==
    /\ Begin(q)
    /\ \E in \in Inputs, ids \in GroupIds, c \in Contacts : Replace(c, in, ids)
    /\ UNCHANGED <<group, req, rest>>

setContactGroups(q) ==
    /\ Begin(q)
    /\ \E c \in Live, ids \in SUBSET Groups : member' = applyMembershipTx(c, ids)
    /\ UNCHANGED <<row, group, req, rest>>

createGroup(q) ==
    /\ Begin(q)
    /\ \E g \in Groups, n \in Names : CreateGroup(g, n)
    /\ UNCHANGED <<row, member, req, rest>>

updateGroup(q) ==
    /\ Begin(q)
    /\ \E g \in Known, n \in Names :
          Named(n) \subseteq {g} /\ group' = [group EXCEPT ![g].name = n] /\ Regroup(g)
    /\ UNCHANGED <<row, member, req, stores>>

deleteGroup(q) ==
    /\ Begin(q)
    /\ \E g \in Known :
          /\ group' = [group EXCEPT ![g].st = "gone"]
          /\ member' = {m \in member : m[2] # g} /\ Regroup(g)
    /\ UNCHANGED <<row, req, stores>>

-----------------------------------------------------------------------------
(* A partial update: service.go Patch *)

Patched(in, p) == (in \cup p.set) \ p.clear
Patches == {p \in [set : SUBSET Fields, clear : SUBSET Fields] : p.set \cap p.clear = {} /\ p.clear # {}}

\* Fault: the check looks at the patch alone, and only when it sets something.
patchContactUnread(q) ==
    /\ Begin(q)
    /\ \E c \in Live, p \in Patches : Goto(q, [op |-> "patch", c |-> c, patch |-> p, read |-> row[c].filled])
    /\ UNCHANGED <<row, group, member, rest>>

\* The blank row is refused, on the row as it is read ...
patchContact(q) ==
    /\ Begin(q)
    /\ \E c \in Live, p \in Patches :
          /\ hasAnyIdentity(Patched(row[c].filled, p))
          /\ Goto(q, [op |-> "patch", c |-> c, patch |-> p, read |-> row[c].filled])
    /\ UNCHANGED <<row, group, member, rest>>

\* ... and its columns are written.
PatchContact(q) ==
    /\ req[q].op = "patch" /\ Done(q)
    /\ LET c == req[q].c IN
         /\ row' = IF c \in Live THEN [row EXCEPT ![c].filled = Patched(@, req[q].patch)] ELSE row
         /\ accident' = [accident EXCEPT !.overlapped = IF row[c].filled # req[q].read THEN @ \cup {c} ELSE @]
    /\ UNCHANGED <<group, member, stores, used>>

-----------------------------------------------------------------------------
(* Pictures: service.go SetAvatar, ClearAvatar, Delete *)

store == <<group, member, sweep, accident>>

uploadAvatar(q) ==
    /\ Begin(q)
    /\ \E c \in Live : Goto(q, [op |-> "save", c |-> c, old |-> row[c].avatar])
    /\ UNCHANGED <<row, files, store>>

Save(q) ==
    /\ req[q].op = "save" /\ used.files < MaxFiles
    /\ LET f == used.files + 1 IN
         /\ files' = files \cup {f} /\ used' = [used EXCEPT !.files = f]
         /\ Goto(q, [op |-> "set", c |-> req[q].c, old |-> req[q].old, new |-> f])
    /\ UNCHANGED <<row, store>>

Purge(q, f) == IF f = None THEN Done(q) ELSE Goto(q, [op |-> "purge", file |-> f])

\* Fault: the path to remove is read after the write.
AvatarSavedReadsLate(q) ==
    /\ req[q].op = "set" /\ Purge(q, req[q].new)
    /\ SetAvatar(req[q].c, req[q].new) \/ (req[q].c \notin Live /\ UNCHANGED row)
    /\ UNCHANGED <<files, used, store>>

\* The row names the new file, and then the old one goes; a contact that is no
\* longer there leaves the new one to be removed.
AvatarSaved(q) ==
    /\ req[q].op = "set"
    /\ \/ SetAvatar(req[q].c, req[q].new) /\ Purge(q, req[q].old)
       \/ req[q].c \notin Live /\ Purge(q, req[q].new) /\ UNCHANGED row
    /\ UNCHANGED <<files, used, store>>

deleteAvatar(q) ==
    /\ Begin(q)
    /\ \E c \in Live : row[c].avatar # None /\ Goto(q, [op |-> "clear", c |-> c, old |-> row[c].avatar])
    /\ UNCHANGED <<row, files, store>>

ClearAvatar(q) ==
    /\ req[q].op = "clear"
    /\ \/ SetAvatar(req[q].c, None) /\ Purge(q, req[q].old)
       \/ req[q].c \notin Live /\ Done(q) /\ UNCHANGED row
    /\ UNCHANGED <<files, used, store>>

deleteContact(q) ==
    /\ Begin(q)
    /\ \E c \in Live : Goto(q, [op |-> "delete", c |-> c, old |-> row[c].avatar])
    /\ UNCHANGED <<row, files, store>>

Delete(q) ==
    /\ req[q].op = "delete" /\ DeleteContact(req[q].c) /\ Purge(q, req[q].old)
    /\ UNCHANGED <<group, used, rest>>

\* Best effort: the file may stay, for the sweep.
PurgeFile(q) ==
    /\ req[q].op = "purge" /\ Done(q)
    /\ \/ files' = files \ {req[q].file}
       \/ UNCHANGED files
    /\ UNCHANGED <<row, used, store>>

-----------------------------------------------------------------------------
(* vCards: vcard.go, service.go ImportContacts *)

GroupIDsForContacts(c) == {m[2] : m \in {m \in member : m[1] = c}}

\* UID is the row's, or else its id; CATEGORIES are the names of its groups.
WriteVCard(c) ==
    [uid |-> IF row[c].uid # None THEN row[c].uid ELSE c, filled |-> row[c].filled,
     names |-> {group[g].name : g \in GroupIDsForContacts(c)}, of |-> c]
exportVCards == {WriteVCard(c) : c \in Live}

\* A card from elsewhere, read property by property, has whatever it has.
parseOneCard == [uid : Uids \cup {None}, filled : {Fields}, names : SUBSET Names, of : {None}]

\* What a file holds: an export of now, or a card from elsewhere.
ParseVCards == exportVCards \cup parseOneCard

\* An import under way: the names it has no group for yet, the ids it has, and
\* (history) the names it has given up.
Import(card, todo, ids, missed) ==
    [op |-> "import", card |-> card, todo |-> todo, ids |-> ids, missed |-> missed]

\* A card: blank ones are refused; the groups that exist are looked up, and when
\* that fails the card goes on without groups.
importVCards(q) ==
    /\ Begin(q)
    /\ \E card \in ParseVCards :
          /\ hasAnyIdentity(card.filled)
          /\ \/ Goto(q, Import(card, {n \in card.names : Named(n) = {}},
                                {g \in Known : group[g].name \in card.names}, {}))
             \/ Goto(q, Import(card, {}, {}, card.names))
    /\ UNCHANGED <<row, group, member, rest>>

\* Fault: the id of a group that is created is not kept.
resolveGroupNamesForgets(q) ==
    /\ req[q].op = "import"
    /\ \E n \in req[q].todo, g \in Groups : CreateGroup(g, n) /\ Goto(q, [req[q] EXCEPT !.todo = @ \ {n}])
    /\ UNCHANGED <<row, member, stores, used, accident>>

\* The other groups are created; on any error (a name taken by now, or too long,
\* or the statement's) the name is left out and the import goes on.
resolveGroupNames(q) ==
    /\ req[q].op = "import"
    /\ \E n \in req[q].todo :
          \/ \E g \in Groups :
                CreateGroup(g, n) /\ Goto(q, [req[q] EXCEPT !.todo = @ \ {n}, !.ids = @ \cup {g}])
          \/ Goto(q, [req[q] EXCEPT !.todo = @ \ {n}, !.missed = @ \cup {n}]) /\ UNCHANGED group
    /\ UNCHANGED <<row, member, stores, used, accident>>

Ids(q) == IF req[q].ids = {} THEN Nil ELSE req[q].ids
Matched(q) == {c \in Live : req[q].card.uid # None /\ row[c].uid = req[q].card.uid}

\* A row of that uid is replaced; with none, or when the lookup fails, one is
\* created.  Either is refused when another request has got in between (the row is
\* gone, the uid is taken), and may fail.
ImportMatch(q) ==
    /\ req[q].op = "import" /\ req[q].todo = {}
    /\ \/ Goto(q, [req[q] EXCEPT !.op = "create"])
       \/ \E c \in Matched(q) :
             Goto(q, [op |-> "replace", c |-> c, card |-> req[q].card, ids |-> req[q].ids, missed |-> req[q].missed])
    /\ UNCHANGED <<row, group, member, used, rest>>

ImportReplace(q) ==
    /\ req[q].op = "replace" /\ Done(q)
    /\ \/ Replace(req[q].c, req[q].card.filled, Ids(q))
       \/ UNCHANGED <<row, member>>
    /\ UNCHANGED <<group, used, rest>>

ImportInsert(q) ==
    /\ req[q].op = "create" /\ Done(q)
    /\ \/ \E c \in Contacts : Create(c, req[q].card.filled, req[q].card.uid, Ids(q))
       \/ UNCHANGED <<row, member>>
    /\ UNCHANGED <<group, used, rest>>

-----------------------------------------------------------------------------
(* The sweep: janitor.go runOnce *)

SweepList ==
    /\ sweep.st = "rest" /\ files # {}
    /\ sweep' = [st |-> "listed", left |-> files]
    /\ UNCHANGED <<row, group, member, files, req, used, accident>>

\* A listed file that an upload is yet to write into its row is deleted (history).
AllAvatarPathsAll ==
    /\ sweep.st = "listed"
    /\ sweep' = [st |-> "sweep", left |-> sweep.left \ {row[c].avatar : c \in Contacts}]
    /\ accident' = [accident EXCEPT !.inflight =
                        @ \cup {f \in sweep.left : \E q \in Slots : req[q].op = "set" /\ req[q].new = f}]
    /\ UNCHANGED <<row, group, member, files, req, used>>

SweepDelete ==
    /\ sweep.st = "sweep" /\ sweep.left # {}
    /\ \E f \in sweep.left :
          /\ sweep' = [sweep EXCEPT !.left = @ \ {f}]
          /\ files' = files \ {f}
    /\ UNCHANGED <<row, group, member, req, used, accident>>

SweepDone ==
    /\ sweep.st = "sweep" /\ sweep.left = {} /\ sweep' = [st |-> "rest"]
    /\ UNCHANGED <<row, group, member, files, req, used, accident>>

Restart ==
    /\ req' = [q \in Slots |-> Idle] /\ sweep' = [st |-> "rest"]
    /\ UNCHANGED <<row, group, member, files, used, accident>>

request(q) ==
    \/ createContact(q) \/ replaceContact(q) \/ patchContact(q) \/ deleteContact(q)
    \/ setContactGroups(q) \/ createGroup(q) \/ updateGroup(q) \/ deleteGroup(q)
    \/ uploadAvatar(q) \/ deleteAvatar(q) \/ importVCards(q)

step(q) ==
    \/ PatchContact(q) \/ Save(q) \/ AvatarSaved(q) \/ ClearAvatar(q) \/ Delete(q) \/ PurgeFile(q)
    \/ resolveGroupNames(q) \/ ImportMatch(q) \/ ImportReplace(q) \/ ImportInsert(q)

janitor == SweepList \/ AllAvatarPathsAll \/ SweepDelete \/ SweepDone
Next == (\E q \in Slots : request(q) \/ step(q)) \/ janitor \/ Restart
Spec == Init /\ [][Next]_vars

-----------------------------------------------------------------------------
(* Properties. *)

\* A contact keeps its picture through overlapping uploads, clears, deletes,
\* sweeps and restarts, but for an upload whose file a sweep has listed before
\* its row named it.
RowKeepsAvatar ==
    \A c \in Live : row[c].avatar \in files \cup accident.inflight \cup {None}

\* The book holds no blank contact, but for one whose two partial updates
\* overlapped, each checked without the other.
NoBlankContact == \A c \in Live \ accident.overlapped : hasAnyIdentity(row[c].filled)

\* The row an import writes, the matched one or a new one, gets what is on the card
\* and is in a group of every name on it, but for the names whose group the import
\* could neither find nor create, and the groups that other requests renamed or
\* deleted.
CategoriesKept ==
    [][\A q \in Slots :
        req[q].op \in {"replace", "create"} /\ req'[q] = Idle /\ <<row, member>>' # <<row, member>> =>
            \E c \in Live' :
                /\ IF req[q].op = "replace" THEN c = req[q].c ELSE c \notin Live
                /\ row'[c].filled = req[q].card.filled
                /\ \A n \in req[q].card.names \ (req[q].missed \cup accident.regrouped) :
                      \E g \in Known : group[g].name = n /\ <<c, g>> \in member']_vars

\* WriteVCard: "the contact's stable id and last-updated timestamp are emitted as
\* UID and REV respectively so re-import can match existing records".
ReimportMatches ==
    [][\A q \in Slots :
        req[q].op = "create" /\ req'[q] = Idle /\ req[q].card.of \in Live => Live' \subseteq Live]_vars
=============================================================================
