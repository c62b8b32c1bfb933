-------------------------- MODULE ChatContactsProofs --------------------------
(***************************************************************************)
(* Proofs about the address book (Contacts), for any fields, names, ids,   *)
(* numbers of contacts, groups and files, and any requests that overlap;   *)
(* and about the chat (Chat), for any users, rooms, messages, requests and *)
(* sizes of buffer and page.                                               *)
(***************************************************************************)
EXTENDS Contacts, Chat, FiniteSetTheorems, SequenceTheorems, WellFoundedInduction, TLAPS

-----------------------------------------------------------------------------
(* Contacts: the types. *)

States == {"free", "live", "gone"}
Numbers == Uids \cup {None} \cup Contacts
Files == 1 .. MaxFiles
ContactRow == [st : States, uid : Numbers, filled : SUBSET Fields, avatar : {None} \cup Files]
GroupRow == [st : States, name : Names]
Card == [uid : Numbers, filled : SUBSET Fields, names : SUBSET Names, of : {None} \cup Contacts]

Patching == [op : {"patch"}, c : Contacts, patch : Patches, read : SUBSET Fields]
Reading == [op : {"save", "clear", "delete"}, c : Contacts, old : {None} \cup Files]
Setting == [op : {"set"}, c : Contacts, old : {None} \cup Files, new : Files]
Purging == [op : {"purge"}, file : Files]
Importing == [op : {"import", "create"}, card : Card, todo : SUBSET Names, ids : SUBSET Groups, missed : SUBSET Names]
Replacing == [op : {"replace"}, c : Contacts, card : Card, ids : SUBSET Groups, missed : SUBSET Names]
Request == {Idle} \cup Patching \cup Reading \cup Setting \cup Purging \cup Importing \cup Replacing

Pass == {[st |-> "rest"]} \cup [st : {"listed", "sweep"}, left : SUBSET Files]

ContactsTypeOK ==
    /\ row \in [Contacts -> ContactRow] /\ group \in [Groups -> GroupRow]
    /\ member \subseteq Contacts \X Groups /\ files \subseteq Files
    /\ req \in [Slots -> Request] /\ sweep \in Pass
    /\ used \in [requests : 0 .. MaxRequests, files : 0 .. MaxFiles]
    /\ accident \in [inflight : SUBSET Files, overlapped : SUBSET Contacts, regrouped : SUBSET Names]

-----------------------------------------------------------------------------
(* Contacts: the pictures.  A file is one contact's, or that of the upload   *)
(* that saved it; what a request is to remove is no contact's.               *)

Picture(c) == row[c].avatar
OldOps == {"save", "set", "clear", "delete"}
Saves(q, f) == req[q].op = "set" /\ req[q].new = f
Replaces(q, f) == req[q].op \in OldOps /\ req[q].old = f
Removes(q, f) == req[q].op = "purge" /\ req[q].file = f

\* What is named has been issued.
FilesIssued ==
    /\ \A c \in Contacts : Picture(c) <= used.files
    /\ \A f \in files : f <= used.files
    /\ sweep.st # "rest" => \A f \in sweep.left : f <= used.files
    /\ \A q \in Slots, f \in Files :
          Saves(q, f) \/ Replaces(q, f) \/ Removes(q, f) => f <= used.files

\* A saved file is its upload's alone.
SavedApart ==
    \A q \in Slots, f \in Files : Saves(q, f) =>
        /\ \A c \in Contacts : Picture(c) # f
        /\ \A p \in Slots : ~Replaces(p, f) /\ ~Removes(p, f) /\ (Saves(p, f) => p = q)

\* A picture is one contact's: a request may replace it there only, and none is
\* removing it.
PicturesApart ==
    \A c \in Contacts : Picture(c) # None =>
        /\ \A d \in Contacts : Picture(d) = Picture(c) => d = c
        /\ \A q \in Slots : Replaces(q, Picture(c)) => req[q].c = c
        /\ \A q \in Slots : ~Removes(q, Picture(c))

\* What the sweep deletes is neither a contact's nor an upload's, but for the
\* uploads it has overtaken; the other files are there.
SweepSpares ==
    sweep.st = "sweep" => \A f \in sweep.left \ accident.inflight :
        /\ \A c \in Contacts : Picture(c) # f
        /\ \A q \in Slots : ~Saves(q, f)

FilesKept ==
    /\ \A c \in Contacts : row[c].st # "live" => Picture(c) = None
    /\ \A c \in Contacts : Picture(c) \in files \cup accident.inflight \cup {None}
    /\ \A q \in Slots, f \in Files : Saves(q, f) => f \in files \cup accident.inflight

PicturesInv == FilesIssued /\ SavedApart /\ PicturesApart /\ SweepSpares /\ FilesKept

-----------------------------------------------------------------------------
(* Contacts: blank rows, and the names on a card. *)

\* A patch has been checked on the row as it was read.
PatchesChecked ==
    \A q \in Slots : req[q].op = "patch" => hasAnyIdentity(Patched(req[q].read, req[q].patch))

CardOps == {"import", "create", "replace"}
Todo(q) == IF req[q].op = "import" THEN req[q].todo ELSE {}

\* A name on the card of an import is yet to be made a group of, or given up, or
\* among its groups, or another request has renamed or deleted its group.
NamesOf(q) ==
    req[q].op \in CardOps =>
        \A n \in req[q].card.names \ (Todo(q) \cup req[q].missed \cup accident.regrouped) :
            \E g \in req[q].ids : g \in Known /\ group[g].name = n
NamesFound == \A q \in Slots : NamesOf(q)

ContactsInv == ContactsTypeOK /\ PicturesInv /\ NoBlankContact /\ PatchesChecked /\ NamesFound

-----------------------------------------------------------------------------
(* Contacts: what requests and rows are made of. *)

LEMMA RequestKinds ==
    ASSUME NEW x \in Request
    PROVE  /\ x.op = "patch" => x \in Patching
           /\ x.op \in {"save", "clear", "delete"} => x \in Reading
           /\ x.op = "set" => x \in Setting
           /\ x.op = "purge" => x \in Purging
           /\ x.op \in {"import", "create"} => x \in Importing
           /\ x.op = "replace" => x \in Replacing
BY DEF Request, Idle, Patching, Reading, Setting, Purging, Importing, Replacing

LEMMA RequestFields ==
    ASSUME NEW x \in Request
    PROVE  /\ x.op \in OldOps => x.c \in Contacts /\ x.old \in {None} \cup Files
           /\ x.op = "set" => x.new \in Files
           /\ x.op = "purge" => x.file \in Files
           /\ x.op = "patch" => x.c \in Contacts /\ x.patch \in Patches /\ x.read \in SUBSET Fields
           /\ x.op \in CardOps => x.card \in Card /\ x.ids \in SUBSET Groups /\ x.missed \in SUBSET Names
           /\ x.op \in {"import", "create"} => x.todo \in SUBSET Names
           /\ x.op = "replace" => x.c \in Contacts
BY RequestKinds DEF OldOps, CardOps, Patching, Reading, Setting, Purging, Importing, Replacing

LEMMA GotoTyped ==
    ASSUME req \in [Slots -> Request], NEW q \in Slots, NEW r \in Request, Goto(q, r)
    PROVE  /\ req' \in [Slots -> Request]
           /\ req'[q] = r /\ \A p \in Slots \ {q} : req'[p] = req[p]
BY DEF Goto

LEMMA PurgeTyped ==
    ASSUME req \in [Slots -> Request], NEW q \in Slots, NEW f \in {None} \cup Files, Purge(q, f)
    PROVE  /\ req' \in [Slots -> Request]
           /\ \A p \in Slots \ {q} : req'[p] = req[p]
           /\ f = None => req'[q] = Idle
           /\ f # None => req'[q] = [op |-> "purge", file |-> f]
<1>1. CASE f = None
  <2>1. Goto(q, Idle)
    BY <1>1 DEF Purge, Done
  <2> QED BY <1>1, <2>1, GotoTyped DEF Request
<1>2. CASE f # None
  <2>1. Goto(q, [op |-> "purge", file |-> f]) /\ [op |-> "purge", file |-> f] \in Request
    BY <1>2 DEF Purge, Request, Purging
  <2> QED BY <1>2, <2>1, GotoTyped
<1> QED BY <1>1, <1>2

LEMMA MembershipTyped ==
    ASSUME member \subseteq Contacts \X Groups, NEW c \in Contacts, NEW ids
    PROVE  Membership(c, ids) \subseteq Contacts \X Groups
BY DEF Membership, applyMembershipTx, Known

LEMMA CreateTyped ==
    ASSUME ContactsTypeOK, NEW in \in SUBSET Fields, NEW uid \in Numbers, NEW ids, NEW c \in Contacts,
           Create(c, in, uid, ids)
    PROVE  /\ row' \in [Contacts -> ContactRow] /\ member' \subseteq Contacts \X Groups
           /\ \A d \in Contacts : d # c => row'[d] = row[d]
           /\ row'[c].st = "live" /\ row'[c].filled = in /\ in # {} /\ row[c].st = "free" /\ row'[c].avatar = None
<1>1. /\ row \in [Contacts -> ContactRow] /\ row' = [row EXCEPT ![c] = NewRow(in, uid)] /\ row[c].st = "free"
      /\ in # {} /\ member' = Membership(c, ids)
  BY DEF ContactsTypeOK, Create, CreateWithGroups, insertContactTx, FreshContact, hasAnyIdentity
<1> DEFINE n == NewRow(in, uid)
<1>2. n \in ContactRow /\ n.st = "live" /\ n.filled = in /\ n.avatar = None
  BY DEF NewRow, ContactRow, States
<1> QED BY <1>1, <1>2, MembershipTyped DEF ContactsTypeOK

LEMMA ReplaceTyped ==
    ASSUME ContactsTypeOK, NEW in \in SUBSET Fields, NEW ids, NEW c \in Contacts, Replace(c, in, ids)
    PROVE  /\ row' \in [Contacts -> ContactRow] /\ member' \subseteq Contacts \X Groups
           /\ \A d \in Contacts : d # c => row'[d] = row[d]
           /\ row'[c].st = "live" /\ row'[c].filled = in /\ in # {} /\ row[c].st = "live"
           /\ row'[c].avatar = row[c].avatar
<1>1. /\ row \in [Contacts -> ContactRow] /\ row' = [row EXCEPT ![c].filled = in] /\ row[c].st = "live"
      /\ in # {} /\ member' = Membership(c, ids)
  BY DEF ContactsTypeOK, Replace, ReplaceWithGroups, updateContactTx, Live, hasAnyIdentity
<1> DEFINE n == [row[c] EXCEPT !.filled = in]
<1>2. n \in ContactRow /\ n.st = row[c].st /\ n.filled = in /\ n.avatar = row[c].avatar
  BY <1>1 DEF ContactRow
<1>3. row' = [row EXCEPT ![c] = n]
  BY <1>1
<1> QED BY <1>1, <1>2, <1>3, MembershipTyped DEF ContactsTypeOK

LEMMA SetAvatarTyped ==
    ASSUME row \in [Contacts -> ContactRow], NEW c \in Contacts, NEW f \in {None} \cup Files, SetAvatar(c, f)
    PROVE  /\ row' \in [Contacts -> ContactRow] /\ row[c].st = "live"
           /\ \A d \in Contacts : d # c => row'[d] = row[d]
           /\ row'[c].avatar = f /\ row'[c].st = "live" /\ row'[c].filled = row[c].filled
<1>1. row' = [row EXCEPT ![c].avatar = f] /\ row[c].st = "live"
  BY DEF SetAvatar, Live
<1> DEFINE n == [row[c] EXCEPT !.avatar = f]
<1>2. n \in ContactRow /\ n.st = row[c].st /\ n.filled = row[c].filled /\ n.avatar = f
  BY DEF ContactRow
<1>3. row' = [row EXCEPT ![c] = n]
  BY <1>1
<1> QED BY <1>1, <1>2, <1>3

LEMMA DeleteTyped ==
    ASSUME row \in [Contacts -> ContactRow], member \subseteq Contacts \X Groups, NEW c \in Contacts, DeleteContact(c)
    PROVE  /\ row' \in [Contacts -> ContactRow] /\ member' \subseteq Contacts \X Groups
           /\ \A d \in Contacts : d # c => row'[d] = row[d]
           /\ row'[c].avatar = None /\ row'[c].st = "gone" /\ row'[c].filled = row[c].filled
<1>1. row' = [row EXCEPT ![c].st = "gone", ![c].avatar = None] /\ member' \subseteq member
  BY DEF DeleteContact
<1> DEFINE n == [row[c] EXCEPT !.st = "gone", !.avatar = None]
<1>2. n \in ContactRow /\ n.st = "gone" /\ n.filled = row[c].filled /\ n.avatar = None
  BY DEF ContactRow, States
<1>3. row' = [row EXCEPT ![c] = n]
  BY <1>1
<1> QED BY <1>1, <1>2, <1>3

LEMMA CreateGroupTyped ==
    ASSUME group \in [Groups -> GroupRow], NEW g \in Groups, NEW n \in Names, CreateGroup(g, n)
    PROVE  /\ group' \in [Groups -> GroupRow] /\ group[g].st = "free"
           /\ group'[g] = [st |-> "live", name |-> n]
           /\ \A h \in Groups : h # g => group'[h] = group[h]
BY DEF CreateGroup, FreshGroup, GroupRow, States

\* Accidents stay what they were, or become more.
Accidents == [inflight : SUBSET Files, overlapped : SUBSET Contacts, regrouped : SUBSET Names]

LEMMA RegroupTyped ==
    ASSUME accident \in Accidents, group \in [Groups -> GroupRow], NEW g \in Groups, Regroup(g)
    PROVE  /\ accident' \in Accidents /\ accident'.inflight = accident.inflight
           /\ accident'.overlapped = accident.overlapped
           /\ accident'.regrouped = accident.regrouped \cup {group[g].name}
BY DEF Accidents, Regroup, GroupRow

LEMMA BeginTyped ==
    ASSUME used \in [requests : 0 .. MaxRequests, files : 0 .. MaxFiles], NEW q \in Slots, Begin(q)
    PROVE  /\ used' \in [requests : 0 .. MaxRequests, files : 0 .. MaxFiles]
           /\ used'.files = used.files /\ req[q] = Idle
<1>1. used' = [used EXCEPT !.requests = @ + 1] /\ used.requests + 1 \in 0 .. MaxRequests /\ req[q] = Idle
  BY ContactsAssumption DEF Begin
<1> QED BY <1>1

-----------------------------------------------------------------------------
(* Contacts: the steps that have nothing to do with a picture. *)

PictureOps == OldOps \cup {"purge"}

Plain(q) ==
    /\ \A c \in Contacts : row'[c].avatar = row[c].avatar /\ (row'[c].st = "live" \/ row[c].avatar = None)
    /\ files' = files /\ sweep' = sweep
    /\ used'.files = used.files /\ accident'.inflight = accident.inflight
    /\ \A p \in Slots \ {q} : req'[p] = req[p]
    /\ req'[q].op \notin PictureOps

\* What an import goes on with when it has found a row.
Match(q, c) ==
    [op |-> "replace", c |-> c, card |-> req[q].card, ids |-> req[q].ids, missed |-> req[q].missed]

OnlyLive == \A c \in Contacts : row[c].st # "live" => Picture(c) = None

LEMMA CreatePlain ==
    ASSUME ContactsTypeOK, OnlyLive, NEW q \in Slots, createContact(q) \/ replaceContact(q)
    PROVE  ContactsTypeOK' /\ Plain(q)
<1>1. /\ used' \in [requests : 0 .. MaxRequests, files : 0 .. MaxFiles]
      /\ used'.files = used.files /\ req[q] = Idle
  BY BeginTyped DEF createContact, replaceContact, ContactsTypeOK
<1>2. UNCHANGED <<group, req, files, sweep, accident>>
  BY DEF createContact, replaceContact, rest, stores
<1>3. /\ row' \in [Contacts -> ContactRow] /\ member' \subseteq Contacts \X Groups
      /\ \A c \in Contacts : row'[c].avatar = row[c].avatar /\ (row'[c].st = "live" \/ row[c].avatar = None)
  <2>1. CASE createContact(q)
    <3>1. PICK in \in SUBSET Fields, ids \in GroupIds, c \in Contacts : Create(c, in, None, ids)
      BY <2>1 DEF createContact, Inputs
    <3>2. None \in Numbers
      BY DEF Numbers
    <3> QED BY <3>1, <3>2, CreateTyped DEF OnlyLive, Picture
  <2>2. CASE replaceContact(q)
    <3>1. PICK in \in SUBSET Fields, ids \in GroupIds, c \in Contacts : Replace(c, in, ids)
      BY <2>2 DEF replaceContact, Inputs
    <3> QED BY <3>1, ReplaceTyped DEF OnlyLive, Picture
  <2> QED BY <2>1, <2>2
<1>4. req[q].op \notin PictureOps
  BY <1>1 DEF Idle, PictureOps, OldOps
<1> QED BY <1>1, <1>2, <1>3, <1>4 DEF ContactsTypeOK, Plain

LEMMA GroupsPlain ==
    ASSUME ContactsTypeOK, OnlyLive, NEW q \in Slots,
           setContactGroups(q) \/ createGroup(q) \/ updateGroup(q) \/ deleteGroup(q)
    PROVE  ContactsTypeOK' /\ Plain(q)
<1>1. /\ used' \in [requests : 0 .. MaxRequests, files : 0 .. MaxFiles]
      /\ used'.files = used.files /\ req[q] = Idle
  BY BeginTyped DEF setContactGroups, createGroup, updateGroup, deleteGroup, ContactsTypeOK
<1>2. UNCHANGED <<row, req, files, sweep>>
  BY DEF setContactGroups, createGroup, updateGroup, deleteGroup, rest, stores
<1>3. /\ group' \in [Groups -> GroupRow] /\ member' \subseteq Contacts \X Groups
      /\ accident' \in Accidents /\ accident'.inflight = accident.inflight
  <2>0. accident \in Accidents
    BY DEF ContactsTypeOK, Accidents
  <2>1. CASE setContactGroups(q)
    <3>1. PICK c \in Contacts, ids \in SUBSET Groups : member' = applyMembershipTx(c, ids)
      BY <2>1 DEF setContactGroups, Live
    <3> QED BY <2>0, <2>1, <3>1 DEF setContactGroups, ContactsTypeOK, rest, applyMembershipTx, Known
  <2>2. CASE createGroup(q)
    <3>1. PICK g \in Groups, n \in Names : CreateGroup(g, n)
      BY <2>2 DEF createGroup
    <3> QED BY <2>0, <2>2, <3>1, CreateGroupTyped DEF createGroup, ContactsTypeOK, rest
  <2>3. CASE updateGroup(q)
    <3>1. PICK g \in Groups, n \in Names : group' = [group EXCEPT ![g].name = n] /\ Regroup(g)
      BY <2>3 DEF updateGroup, Known
    <3>2. group' \in [Groups -> GroupRow]
      BY <3>1 DEF ContactsTypeOK, GroupRow
    <3> QED BY <2>0, <2>3, <3>1, <3>2, RegroupTyped DEF updateGroup, ContactsTypeOK
  <2>4. CASE deleteGroup(q)
    <3>1. PICK g \in Groups : /\ group' = [group EXCEPT ![g].st = "gone"]
                              /\ member' = {m \in member : m[2] # g} /\ Regroup(g)
      BY <2>4 DEF deleteGroup, Known
    <3>2. group' \in [Groups -> GroupRow]
      BY <3>1 DEF ContactsTypeOK, GroupRow, States
    <3> QED BY <2>0, <2>4, <3>1, <3>2, RegroupTyped DEF ContactsTypeOK
  <2> QED BY <2>1, <2>2, <2>3, <2>4
<1>4. req[q].op \notin PictureOps
  BY <1>1 DEF Idle, PictureOps, OldOps
<1> QED BY <1>1, <1>2, <1>3, <1>4 DEF ContactsTypeOK, Plain, Accidents, OnlyLive, Picture

LEMMA PatchPlain ==
    ASSUME ContactsTypeOK, OnlyLive, NEW q \in Slots, patchContact(q) \/ PatchContact(q)
    PROVE  ContactsTypeOK' /\ Plain(q)
<1>1. CASE patchContact(q)
  <2>1. PICK c \in Contacts, p \in Patches :
           Goto(q, [op |-> "patch", c |-> c, patch |-> p, read |-> row[c].filled])
    BY <1>1 DEF patchContact, Live
  <2> DEFINE r == [op |-> "patch", c |-> c, patch |-> p, read |-> row[c].filled]
  <2>2. r \in Request /\ r.op = "patch"
    BY DEF ContactsTypeOK, ContactRow, Request, Patching
  <2> HIDE DEF r
  <2>3. /\ req' \in [Slots -> Request] /\ req'[q].op \notin PictureOps
        /\ \A d \in Slots \ {q} : req'[d] = req[d]
    BY <2>1, <2>2, GotoTyped DEF ContactsTypeOK, PictureOps, OldOps, r
  <2>4. UNCHANGED <<row, group, member, files, sweep, accident>>
    BY <1>1 DEF patchContact, rest, stores
  <2>5. used' \in [requests : 0 .. MaxRequests, files : 0 .. MaxFiles] /\ used'.files = used.files
    BY <1>1, BeginTyped DEF patchContact, ContactsTypeOK
  <2> QED BY <2>3, <2>4, <2>5 DEF ContactsTypeOK, Plain, OnlyLive, Picture
<1>2. CASE PatchContact(q)
  <2>1. req[q].c \in Contacts /\ req[q].patch \in Patches
    BY <1>2, RequestFields DEF PatchContact, ContactsTypeOK
  <2> DEFINE c == req[q].c
             n == [row[c] EXCEPT !.filled = Patched(@, req[q].patch)]
  <2>2. n \in ContactRow /\ n.avatar = row[c].avatar /\ n.st = row[c].st
    BY <2>1 DEF ContactsTypeOK, ContactRow, Patched, Patches
  <2>3. row' = [row EXCEPT ![c] = n] \/ row' = row
    BY <1>2 DEF PatchContact
  <2> HIDE DEF c, n
  <2>4. /\ row' \in [Contacts -> ContactRow]
        /\ \A d \in Contacts : row'[d].avatar = row[d].avatar /\ row'[d].st = row[d].st
    BY <2>2, <2>3 DEF ContactsTypeOK
  <2>5. /\ req' \in [Slots -> Request] /\ req'[q].op \notin PictureOps
        /\ \A d \in Slots \ {q} : req'[d] = req[d]
    <3>1. Idle \in Request /\ Idle.op \notin PictureOps
      BY DEF Request, Idle, PictureOps, OldOps
    <3> QED BY <1>2, <3>1, GotoTyped DEF PatchContact, Done, ContactsTypeOK
  <2>6. accident' \in Accidents /\ accident'.inflight = accident.inflight
    BY <1>2, <2>1 DEF PatchContact, ContactsTypeOK, Accidents
  <2>7. UNCHANGED <<group, member, files, sweep, used>>
    BY <1>2 DEF PatchContact, stores
  <2> QED BY <2>4, <2>5, <2>6, <2>7 DEF ContactsTypeOK, Plain, Accidents, OnlyLive, Picture
<1> QED BY <1>1, <1>2

LEMMA ImportPlain ==
    ASSUME ContactsTypeOK, OnlyLive, NEW q \in Slots, importVCards(q) \/ resolveGroupNames(q) \/ ImportMatch(q)
    PROVE  ContactsTypeOK' /\ Plain(q)
<1>1. CASE importVCards(q)
  <2>1. PICK card, todo, ids, missed :
           /\ card \in ParseVCards /\ Goto(q, Import(card, todo, ids, missed))
           /\ todo \subseteq card.names /\ ids \subseteq Groups /\ missed \subseteq card.names
    BY <1>1 DEF importVCards, Known
  <2>2. card \in Card
    <3>1. CASE card \in parseOneCard
      BY <3>1 DEF parseOneCard, Card, Numbers
    <3>2. CASE card \in exportVCards
      <4>1. PICK c \in Contacts : card = WriteVCard(c)
        BY <3>2 DEF exportVCards, Live
      <4>2. GroupIDsForContacts(c) \subseteq Groups
        BY DEF GroupIDsForContacts, ContactsTypeOK
      <4>3. {group[g].name : g \in GroupIDsForContacts(c)} \subseteq Names
        BY <4>2 DEF ContactsTypeOK, GroupRow
      <4>4. row[c].uid \in Numbers /\ row[c].filled \in SUBSET Fields /\ c \in Numbers
        BY DEF ContactsTypeOK, ContactRow, Numbers
      <4> QED BY <4>1, <4>3, <4>4 DEF WriteVCard, Card
    <3> QED BY <2>1, <3>1, <3>2 DEF ParseVCards
  <2> DEFINE r == Import(card, todo, ids, missed)
  <2>3. r \in Request /\ r.op = "import"
    BY <2>1, <2>2 DEF Import, Request, Importing, Card
  <2> HIDE DEF r
  <2>4. /\ req' \in [Slots -> Request] /\ req'[q].op \notin PictureOps
        /\ \A d \in Slots \ {q} : req'[d] = req[d]
    BY <2>1, <2>3, GotoTyped DEF ContactsTypeOK, PictureOps, OldOps, r
  <2>5. UNCHANGED <<row, group, member, files, sweep, accident>>
    BY <1>1 DEF importVCards, rest, stores
  <2>6. used' \in [requests : 0 .. MaxRequests, files : 0 .. MaxFiles] /\ used'.files = used.files
    BY <1>1, BeginTyped DEF importVCards, ContactsTypeOK
  <2> QED BY <2>4, <2>5, <2>6 DEF ContactsTypeOK, Plain, OnlyLive, Picture
<1>2. CASE resolveGroupNames(q)
  <2>1. req[q] \in Importing /\ req[q].op = "import"
    BY <1>2, RequestKinds DEF resolveGroupNames, ContactsTypeOK
  <2>2. PICK n \in Names :
          \/ \E g \in Groups :
                CreateGroup(g, n) /\ Goto(q, [req[q] EXCEPT !.todo = @ \ {n}, !.ids = @ \cup {g}])
          \/ Goto(q, [req[q] EXCEPT !.todo = @ \ {n}, !.missed = @ \cup {n}]) /\ UNCHANGED group
    BY <1>2, <2>1 DEF resolveGroupNames, Importing
  <2>3. UNCHANGED <<row, member, files, sweep, used, accident>>
    BY <1>2 DEF resolveGroupNames, stores
  <2>4. group' \in [Groups -> GroupRow]
    BY <2>2, CreateGroupTyped DEF ContactsTypeOK
  <2>5. PICK r \in Request : Goto(q, r) /\ r.op = "import"
    <3>1. ASSUME NEW g \in Groups
          PROVE  /\ [req[q] EXCEPT !.todo = @ \ {n}, !.ids = @ \cup {g}] \in Request
                 /\ [req[q] EXCEPT !.todo = @ \ {n}, !.ids = @ \cup {g}].op = "import"
      BY <2>1 DEF Importing, Request
    <3>2. /\ [req[q] EXCEPT !.todo = @ \ {n}, !.missed = @ \cup {n}] \in Request
          /\ [req[q] EXCEPT !.todo = @ \ {n}, !.missed = @ \cup {n}].op = "import"
      BY <2>1 DEF Importing, Request
    <3> QED BY <2>2, <3>1, <3>2
  <2>6. /\ req' \in [Slots -> Request] /\ req'[q].op \notin PictureOps
        /\ \A d \in Slots \ {q} : req'[d] = req[d]
    BY <2>5, GotoTyped DEF ContactsTypeOK, PictureOps, OldOps
  <2> QED BY <2>3, <2>4, <2>6 DEF ContactsTypeOK, Plain, OnlyLive, Picture
<1>3. CASE ImportMatch(q)
  <2>1. req[q] \in Importing /\ req[q].op = "import"
    BY <1>3, RequestKinds DEF ImportMatch, ContactsTypeOK
  <2>2. PICK r \in Request : Goto(q, r) /\ r.op \in {"create", "replace"}
    <3>1. CASE Goto(q, [req[q] EXCEPT !.op = "create"])
      <4>1. [req[q] EXCEPT !.op = "create"] \in Request /\ [req[q] EXCEPT !.op = "create"].op = "create"
        BY <2>1 DEF Importing, Request
      <4> QED BY <3>1, <4>1
    <3>2. CASE \E c \in Matched(q) : Goto(q, Match(q, c))
      <4>1. PICK c \in Contacts : Goto(q, Match(q, c))
        BY <3>2 DEF Matched, Live
      <4>2. Match(q, c) \in Request /\ Match(q, c).op = "replace"
        BY <2>1 DEF Importing, Request, Replacing, Match
      <4> QED BY <4>1, <4>2
    <3> QED BY <1>3, <3>1, <3>2 DEF ImportMatch, Match
  <2>3. /\ req' \in [Slots -> Request] /\ req'[q].op \notin PictureOps
        /\ \A d \in Slots \ {q} : req'[d] = req[d]
    BY <2>2, GotoTyped DEF ContactsTypeOK, PictureOps, OldOps
  <2>4. UNCHANGED <<row, group, member, files, sweep, accident, used>>
    BY <1>3 DEF ImportMatch, rest, stores
  <2> QED BY <2>3, <2>4 DEF ContactsTypeOK, Plain, OnlyLive, Picture
<1> QED BY <1>1, <1>2, <1>3

LEMMA ImportedPlain ==
    ASSUME ContactsTypeOK, OnlyLive, NEW q \in Slots, ImportReplace(q) \/ ImportInsert(q)
    PROVE  ContactsTypeOK' /\ Plain(q)
<1>1. req[q].op \in CardOps /\ Done(q)
  BY DEF ImportReplace, ImportInsert, CardOps
<1>2. req[q].card \in Card
  BY <1>1, RequestFields DEF ContactsTypeOK
<1>3. req[q].card.filled \in SUBSET Fields /\ req[q].card.uid \in Numbers
  BY <1>2 DEF Card
<1>4. /\ req' \in [Slots -> Request] /\ req'[q].op \notin PictureOps
      /\ \A d \in Slots \ {q} : req'[d] = req[d]
  <2>1. Idle \in Request /\ Idle.op \notin PictureOps
    BY DEF Request, Idle, PictureOps, OldOps
  <2> QED BY <1>1, <2>1, GotoTyped DEF Done, ContactsTypeOK
<1>5. UNCHANGED <<group, used, files, sweep, accident>>
  BY DEF ImportReplace, ImportInsert, rest, stores
<1>6. /\ row' \in [Contacts -> ContactRow] /\ member' \subseteq Contacts \X Groups
      /\ \A c \in Contacts : row'[c].avatar = row[c].avatar /\ (row'[c].st = "live" \/ row[c].avatar = None)
  <2>1. CASE UNCHANGED <<row, member>>
    BY <2>1 DEF ContactsTypeOK, OnlyLive, Picture
  <2>2. CASE \E c \in Contacts : Create(c, req[q].card.filled, req[q].card.uid, Ids(q))
    <3>1. PICK c \in Contacts : Create(c, req[q].card.filled, req[q].card.uid, Ids(q))
      BY <2>2
    <3> QED BY <1>3, <3>1, CreateTyped DEF OnlyLive, Picture
  <2>3. CASE req[q].op = "replace" /\ Replace(req[q].c, req[q].card.filled, Ids(q))
    <3>1. req[q].c \in Contacts
      BY <2>3, RequestFields DEF ContactsTypeOK
    <3>2. PICK c \in Contacts : c = req[q].c
      BY <3>1
    <3>3. /\ row' \in [Contacts -> ContactRow] /\ member' \subseteq Contacts \X Groups
          /\ \A d \in Contacts : d # c => row'[d] = row[d]
          /\ row'[c].st = "live" /\ row'[c].avatar = row[c].avatar
      BY <1>3, <2>3, <3>2, ReplaceTyped
    <3> QED BY <3>3 DEF OnlyLive, Picture
  <2> QED BY <2>1, <2>2, <2>3 DEF ImportReplace, ImportInsert
<1> QED BY <1>4, <1>5, <1>6 DEF ContactsTypeOK, Plain

-----------------------------------------------------------------------------
(* Contacts: the pictures, step by step. *)

LEMMA PlainPictures ==
    ASSUME ContactsTypeOK, PicturesInv, NEW q \in Slots, Plain(q)
    PROVE  PicturesInv'
<1>1. \A p \in Slots, f \in Files :
          /\ Saves(p, f)' => Saves(p, f)
          /\ Replaces(p, f)' => Replaces(p, f) /\ req'[p].c = req[p].c
          /\ Removes(p, f)' => Removes(p, f)
  BY DEF Plain, Saves, Replaces, Removes, PictureOps, OldOps
<1>2. /\ \A c \in Contacts : Picture(c)' = Picture(c) /\ Picture(c) \in {None} \cup Files
      /\ \A c \in Contacts : row'[c].st # "live" => Picture(c)' = None
      /\ files' = files /\ sweep' = sweep /\ used'.files = used.files /\ accident'.inflight = accident.inflight
  BY DEF Plain, Picture, ContactsTypeOK, ContactRow
<1>3. FilesIssued'
  BY <1>1, <1>2 DEF PicturesInv, FilesIssued
<1>4. SavedApart'
  BY <1>1, <1>2 DEF PicturesInv, SavedApart
<1>5. PicturesApart'
  BY <1>1, <1>2 DEF PicturesInv, PicturesApart
<1>6. SweepSpares'
  <2>1. sweep.st = "sweep" => sweep.left \subseteq Files
    BY DEF ContactsTypeOK, Pass
  <2> QED BY <1>1, <1>2, <2>1 DEF PicturesInv, SweepSpares
<1>7. FilesKept'
  BY <1>1, <1>2 DEF PicturesInv, FilesKept
<1> QED BY <1>3, <1>4, <1>5, <1>6, <1>7 DEF PicturesInv

\* A request reads which picture it is to replace.
LEMMA ReadStep ==
    ASSUME ContactsTypeOK, PicturesInv, NEW q \in Slots,
           uploadAvatar(q) \/ deleteAvatar(q) \/ deleteContact(q)
    PROVE  ContactsTypeOK' /\ PicturesInv'
<1>1. PICK c \in Contacts, op \in {"save", "clear", "delete"} : Goto(q, [op |-> op, c |-> c, old |-> row[c].avatar])
  BY DEF uploadAvatar, deleteAvatar, deleteContact, Live
<1>2. UNCHANGED <<row, group, member, files, sweep, accident>>
  BY DEF uploadAvatar, deleteAvatar, deleteContact, store
<1>3. used' \in [requests : 0 .. MaxRequests, files : 0 .. MaxFiles] /\ used'.files = used.files
  BY BeginTyped DEF uploadAvatar, deleteAvatar, deleteContact, ContactsTypeOK
<1>4. \A d \in Contacts : Picture(d) \in {None} \cup Files
  BY DEF Picture, ContactsTypeOK, ContactRow
<1> DEFINE r == [op |-> op, c |-> c, old |-> row[c].avatar]
<1>5. r \in Request /\ r.op = op /\ r.c = c /\ r.old = Picture(c)
  BY <1>4 DEF Request, Reading, Picture
<1> HIDE DEF r
<1>6. req' \in [Slots -> Request] /\ req'[q] = r /\ \A p \in Slots \ {q} : req'[p] = req[p]
  BY <1>1, <1>5, GotoTyped DEF ContactsTypeOK, r
<1>7. \A p \in Slots, f \in Files :
          /\ Saves(p, f)' => Saves(p, f)
          /\ Replaces(p, f)' => \/ Replaces(p, f) /\ req'[p].c = req[p].c
                                \/ f = Picture(c) /\ req'[p].c = c
          /\ Removes(p, f)' => Removes(p, f)
  BY <1>5, <1>6 DEF Saves, Replaces, Removes
<1>8. \A d \in Contacts : Picture(d)' = Picture(d)
  BY <1>2 DEF Picture
<1>9. ContactsTypeOK'
  BY <1>2, <1>3, <1>6 DEF ContactsTypeOK
<1>10. FilesIssued'
  BY <1>2, <1>3, <1>7, <1>8 DEF PicturesInv, FilesIssued
<1>11. SavedApart'
  BY <1>7, <1>8 DEF PicturesInv, SavedApart
<1>12. PicturesApart'
  BY <1>4, <1>7, <1>8 DEF PicturesInv, PicturesApart
<1>13. SweepSpares'
  <2>1. sweep.st = "sweep" => sweep.left \subseteq Files
    BY DEF ContactsTypeOK, Pass
  <2> QED BY <1>2, <1>7, <1>8, <2>1 DEF PicturesInv, SweepSpares
<1>14. FilesKept'
  BY <1>2, <1>7, <1>8 DEF PicturesInv, FilesKept
<1> QED BY <1>9, <1>10, <1>11, <1>12, <1>13, <1>14 DEF PicturesInv

\* A file is saved under a name of its own.
LEMMA SaveStep ==
    ASSUME ContactsTypeOK, PicturesInv, NEW q \in Slots, Save(q)
    PROVE  ContactsTypeOK' /\ PicturesInv'
<1>1. req[q].op = "save" /\ req[q].c \in Contacts /\ req[q].old \in {None} \cup Files
  BY RequestFields DEF Save, ContactsTypeOK, OldOps
<1> DEFINE n == used.files + 1
           r == [op |-> "set", c |-> req[q].c, old |-> req[q].old, new |-> n]
<1>2. /\ n \in Files /\ files' = files \cup {n} /\ Goto(q, r)
      /\ used' \in [requests : 0 .. MaxRequests, files : 0 .. MaxFiles] /\ used'.files = n
      /\ used.files \in Nat /\ n = used.files + 1
  <2>1. used.files \in 0 .. MaxFiles /\ used.files < MaxFiles /\ used' = [used EXCEPT !.files = n]
    BY DEF Save, ContactsTypeOK
  <2>2. n \in Files /\ used.files \in Nat
    BY <2>1, ContactsAssumption DEF Files
  <2>3. used' \in [requests : 0 .. MaxRequests, files : 0 .. MaxFiles] /\ used'.files = n
    BY <2>1, <2>2 DEF ContactsTypeOK, Files
  <2> QED BY <2>2, <2>3 DEF Save
<1>3. UNCHANGED <<row, group, member, sweep, accident>>
  BY DEF Save, store
<1>4. r \in Request /\ r.op = "set" /\ r.c = req[q].c /\ r.old = req[q].old /\ r.new = n
  BY <1>1, <1>2 DEF Request, Setting
<1> HIDE DEF r, n
<1>5. req' \in [Slots -> Request] /\ req'[q] = r /\ \A p \in Slots \ {q} : req'[p] = req[p]
  BY <1>2, <1>4, GotoTyped DEF ContactsTypeOK
<1>6. \A p \in Slots, f \in Files :
          /\ Saves(p, f)' => Saves(p, f) \/ (p = q /\ f = n)
          /\ Replaces(p, f)' => Replaces(p, f) /\ req'[p].c = req[p].c
          /\ Removes(p, f)' => Removes(p, f)
  BY <1>1, <1>4, <1>5 DEF Saves, Replaces, Removes, OldOps
<1>7. \A d \in Contacts : Picture(d)' = Picture(d)
  BY <1>3 DEF Picture
<1>8. \A d \in Contacts : Picture(d) \in {None} \cup Files
  BY DEF Picture, ContactsTypeOK, ContactRow
<1>9. Files \subseteq Nat
  BY DEF Files
<1>10. /\ \A d \in Contacts : Picture(d) # n
       /\ n \notin files /\ (sweep.st # "rest" => n \notin sweep.left)
       /\ \A p \in Slots : ~Saves(p, n) /\ ~Replaces(p, n) /\ ~Removes(p, n)
  BY <1>2, <1>8, <1>9 DEF PicturesInv, FilesIssued
<1>11. ContactsTypeOK'
  BY <1>2, <1>3, <1>5 DEF ContactsTypeOK
<1>12. FilesIssued'
  <2>1. \A f \in Files : f <= used.files => f <= n
    BY <1>2, <1>9
  <2>2. /\ \A d \in Contacts : Picture(d) <= n
        /\ sweep.st # "rest" => \A f \in sweep.left : f <= n
    <3>1. sweep.st # "rest" => sweep.left \subseteq Files
      BY DEF ContactsTypeOK, Pass
    <3>2. 0 <= n
      BY <1>2
    <3> QED BY <1>8, <2>1, <3>1, <3>2 DEF PicturesInv, FilesIssued, None
  <2>3. \A f \in files' : f <= n
    BY <1>2, <2>1 DEF PicturesInv, FilesIssued, ContactsTypeOK
  <2>4. \A p \in Slots, f \in Files : (Saves(p, f) \/ Replaces(p, f) \/ Removes(p, f))' => f <= n
    BY <1>2, <1>6, <2>1 DEF PicturesInv, FilesIssued
  <2> QED BY <1>2, <1>3, <1>7, <2>2, <2>3, <2>4 DEF FilesIssued
<1>13. SavedApart'
  BY <1>6, <1>7, <1>10 DEF PicturesInv, SavedApart
<1>14. PicturesApart'
  BY <1>6, <1>7, <1>8 DEF PicturesInv, PicturesApart
<1>15. SweepSpares'
  <2>1. sweep.st = "sweep" => sweep.left \subseteq Files
    BY DEF ContactsTypeOK, Pass
  <2> QED BY <1>3, <1>6, <1>7, <1>10, <2>1 DEF PicturesInv, SweepSpares
<1>16. FilesKept'
  BY <1>2, <1>3, <1>6, <1>7 DEF PicturesInv, FilesKept
<1> QED BY <1>11, <1>12, <1>13, <1>14, <1>15, <1>16 DEF PicturesInv

\* The row of one contact gets a picture that is nobody's, or none; the request
\* goes on to remove what the row no longer names.
LEMMA NamedStep ==
    ASSUME ContactsTypeOK, PicturesInv, NEW q \in Slots, AvatarSaved(q)
    PROVE  ContactsTypeOK' /\ PicturesInv'
<1>1. /\ req[q] \in Request /\ req[q].op = "set" /\ req[q].c \in Contacts
      /\ req[q].old \in {None} \cup Files /\ req[q].new \in Files
  BY RequestFields DEF AvatarSaved, ContactsTypeOK, OldOps
<1>2. UNCHANGED <<group, member, files, sweep, used, accident>>
  BY DEF AvatarSaved, store
<1>3. PICK f \in {req[q].old, req[q].new} :
          /\ Purge(q, f)
          /\ f = req[q].old => SetAvatar(req[q].c, req[q].new)
          /\ f = req[q].new => row' = row
  <2>1. Saves(q, req[q].new) /\ Replaces(q, req[q].old)
    BY <1>1 DEF Saves, Replaces, OldOps
  <2>2. req[q].new # req[q].old
    BY <1>1, <2>1 DEF PicturesInv, SavedApart
  <2> QED BY <1>1, <2>2 DEF AvatarSaved
<1>0. PICK c \in Contacts, n \in Files : c = req[q].c /\ n = req[q].new
  BY <1>1
<1>4. /\ req' \in [Slots -> Request]
      /\ \A p \in Slots \ {q} : req'[p] = req[p]
      /\ f = None => req'[q] = Idle
      /\ f # None => req'[q] = [op |-> "purge", file |-> f]
  BY <1>1, <1>3, PurgeTyped DEF ContactsTypeOK
<1>5. /\ Saves(q, n) /\ Replaces(q, req[q].old) /\ c \in Contacts /\ n \in Files /\ n # None
  BY <1>0, <1>1 DEF Saves, Replaces, OldOps, Files, None
<1>6. \A d \in Contacts : Picture(d) \in {None} \cup Files
  BY DEF Picture, ContactsTypeOK, ContactRow
<1>7. \A p \in Slots, g \in Files :
          /\ Saves(p, g)' => Saves(p, g) /\ p # q
          /\ Replaces(p, g)' => Replaces(p, g) /\ req'[p].c = req[p].c /\ p # q
          /\ Removes(p, g)' => Removes(p, g) \/ g = f
  BY <1>4 DEF Saves, Replaces, Removes, Idle, OldOps
<1>8. /\ row' \in [Contacts -> ContactRow]
      /\ \A d \in Contacts : row'[d].st # "live" => Picture(d)' = None
      /\ \/ \A d \in Contacts : Picture(d)' = Picture(d) /\ f = n
         \/ /\ \A d \in Contacts \ {c} : Picture(d)' = Picture(d)
            /\ Picture(c)' = n /\ f = req[q].old
  <2>1. CASE f = n
    BY <1>0, <1>3, <2>1 DEF ContactsTypeOK, PicturesInv, FilesKept, Picture
  <2>2. CASE f = req[q].old
    <3>1. SetAvatar(c, n)
      BY <1>0, <1>3, <2>2
    <3> QED BY <1>5, <2>2, <3>1, SetAvatarTyped DEF ContactsTypeOK, PicturesInv, FilesKept, Picture
  <2> QED BY <1>0, <1>3, <2>1, <2>2
<1>9. \A d \in Contacts : Picture(d)' = Picture(d) \/ (d = c /\ Picture(d)' = n)
  BY <1>8
<1>10. ContactsTypeOK'
  BY <1>2, <1>4, <1>8 DEF ContactsTypeOK
<1>11. FilesIssued'
  <2>1. \A p \in Slots, g \in Files : (Saves(p, g) \/ Replaces(p, g) \/ Removes(p, g))' => g <= used.files
    BY <1>0, <1>3, <1>5, <1>7 DEF PicturesInv, FilesIssued
  <2>2. \A d \in Contacts : Picture(d)' <= used.files
    BY <1>5, <1>9 DEF PicturesInv, FilesIssued
  <2> QED BY <1>2, <2>1, <2>2 DEF PicturesInv, FilesIssued
<1>12. SavedApart'
  <2> SUFFICES ASSUME NEW p \in Slots, NEW g \in Files, Saves(p, g)'
               PROVE  /\ \A d \in Contacts : Picture(d)' # g
                      /\ \A o \in Slots : (~Replaces(o, g) /\ ~Removes(o, g) /\ (Saves(o, g) => o = p))'
    BY DEF SavedApart
  <2>1. Saves(p, g) /\ p # q
    BY <1>7
  <2>2. g # n
    BY <1>5, <2>1 DEF PicturesInv, SavedApart
  <2>3. g # req[q].old
    BY <1>5, <2>1 DEF PicturesInv, SavedApart
  <2> QED BY <1>0, <1>3, <1>7, <1>9, <2>1, <2>2, <2>3 DEF PicturesInv, SavedApart
<1>13. PicturesApart'
  <2>0. /\ \A d \in Contacts : Picture(d) # n
        /\ \A p \in Slots : ~Replaces(p, n) /\ ~Removes(p, n) /\ (Saves(p, n) => p = q)
    BY <1>5 DEF PicturesInv, SavedApart
  <2> SUFFICES ASSUME NEW d \in Contacts, Picture(d)' # None
               PROVE  /\ \A e \in Contacts : Picture(e)' = Picture(d)' => e = d
                      /\ \A p \in Slots : Replaces(p, Picture(d))' => req'[p].c = d
                      /\ \A p \in Slots : ~Removes(p, Picture(d))'
    BY DEF PicturesApart
  <2>1. CASE Picture(d)' = n
    <3>1. f = req[q].old /\ d = c
      BY <1>8, <2>0, <2>1
    <3>2. f # n
      BY <2>0, <1>5, <3>1
    <3> QED BY <1>5, <1>7, <1>9, <2>0, <2>1, <3>1, <3>2
  <2>2. CASE Picture(d)' # n
    <3>1. Picture(d)' = Picture(d) /\ Picture(d) \in Files
      BY <1>6, <1>9, <2>2
    <3>2. f # Picture(d)
      <4>1. CASE f = n
        BY <2>0, <4>1
      <4>2. CASE f = req[q].old /\ f = Picture(d)
        <5>1. d = c
          BY <1>0, <1>5, <3>1, <4>2 DEF PicturesInv, PicturesApart
        <5>2. Picture(c)' = n \/ f = n
          BY <1>8
        <5> QED BY <2>0, <2>2, <4>2, <5>1, <5>2
      <4> QED BY <1>0, <1>3, <4>1, <4>2
    <3>3. /\ \A e \in Contacts : Picture(e) = Picture(d) => e = d
          /\ \A p \in Slots : Replaces(p, Picture(d)) => req[p].c = d
          /\ \A p \in Slots : ~Removes(p, Picture(d))
      BY <3>1, <1>6, <2>2 DEF PicturesInv, PicturesApart
    <3> QED BY <1>7, <1>9, <2>2, <3>1, <3>2, <3>3
  <2> QED BY <2>1, <2>2
<1>14. SweepSpares'
  <2>1. sweep.st = "sweep" => sweep.left \subseteq Files
    BY DEF ContactsTypeOK, Pass
  <2>2. sweep.st = "sweep" => n \notin sweep.left \ accident.inflight
    BY <1>5, <2>1 DEF PicturesInv, SweepSpares
  <2> QED BY <1>2, <1>7, <1>9, <2>1, <2>2 DEF PicturesInv, SweepSpares
<1>15. FilesKept'
  <2>1. n \in files \cup accident.inflight
    BY <1>5 DEF PicturesInv, FilesKept
  <2> QED BY <1>2, <1>7, <1>8, <1>9, <2>1 DEF PicturesInv, FilesKept
<1> QED BY <1>10, <1>11, <1>12, <1>13, <1>14, <1>15 DEF PicturesInv

\* Rows may lose their pictures, and requests what they hold; a file that goes
\* or is to go is nobody's.
LEMMA LosingPictures ==
    ASSUME ContactsTypeOK, PicturesInv,
           \A c \in Contacts : Picture(c)' \in {None, Picture(c)},
           \A c \in Contacts : row'[c].st # "live" => Picture(c)' = None,
           \A p \in Slots, f \in Files :
              /\ Saves(p, f)' => Saves(p, f)
              /\ Replaces(p, f)' => Replaces(p, f) /\ req'[p].c = req[p].c
              /\ Removes(p, f)' => \/ Removes(p, f)
                                   \/ /\ \A c \in Contacts : Picture(c)' # f
                                      /\ \A o \in Slots : ~Saves(o, f)
                                      /\ f <= used.files,
           files' \subseteq files,
           \A f \in files \ (files' \cup accident.inflight) :
              (\A c \in Contacts : Picture(c)' # f) /\ (\A p \in Slots : ~Saves(p, f)'),
           sweep' = sweep \/ sweep' = [st |-> "rest"],
           used'.files = used.files, accident'.inflight = accident.inflight
    PROVE  PicturesInv'
<1>1. \A c \in Contacts : Picture(c) \in {None} \cup Files
  BY DEF Picture, ContactsTypeOK, ContactRow
<1>2. sweep.st # "rest" => sweep.left \subseteq Files
  BY DEF ContactsTypeOK, Pass
<1>3. FilesIssued'
  <2>1. \A c \in Contacts : Picture(c)' <= used.files
    <3>1. used.files \in Nat
      BY DEF ContactsTypeOK
    <3> QED BY <3>1 DEF PicturesInv, FilesIssued, None
  <2>2. \A p \in Slots, f \in Files : (Saves(p, f) \/ Replaces(p, f) \/ Removes(p, f))' => f <= used.files
    BY DEF PicturesInv, FilesIssued
  <2> QED BY <2>1, <2>2 DEF PicturesInv, FilesIssued
<1>4. SavedApart'
  <2>1. None \notin Files
    BY DEF None, Files
  <2> QED BY <2>1 DEF PicturesInv, SavedApart
<1>5. PicturesApart'
  BY <1>1 DEF PicturesInv, PicturesApart
<1>6. SweepSpares'
  <2>1. None \notin Files
    BY DEF None, Files
  <2> QED BY <1>2, <2>1 DEF PicturesInv, SweepSpares
<1>7. FilesKept'
  BY <1>1 DEF PicturesInv, FilesKept
<1> QED BY <1>3, <1>4, <1>5, <1>6, <1>7 DEF PicturesInv

LEMMA ClearStep ==
    ASSUME ContactsTypeOK, PicturesInv, NEW q \in Slots, ClearAvatar(q) \/ Delete(q)
    PROVE  ContactsTypeOK' /\ PicturesInv'
<1>1. /\ req[q] \in Request /\ req[q].op \in {"clear", "delete"} /\ req[q].c \in Contacts
      /\ req[q].old \in {None} \cup Files
  BY RequestFields DEF ClearAvatar, Delete, ContactsTypeOK, OldOps
<1>2. UNCHANGED <<group, files, sweep, used, accident>>
  BY DEF ClearAvatar, Delete, store, rest, stores
<1>3. PICK c \in Contacts, f \in {None} \cup Files :
          /\ c = req[q].c /\ Purge(q, f)
          /\ f = None \/ f = req[q].old
          /\ \/ SetAvatar(c, None) /\ member' = member
             \/ DeleteContact(c)
             \/ f = None /\ UNCHANGED <<row, member>>
  <2>1. CASE Delete(q)
    BY <1>1, <2>1 DEF Delete
  <2>2. CASE SetAvatar(req[q].c, None) /\ Purge(q, req[q].old) /\ UNCHANGED member
    BY <1>1, <2>2
  <2>3. CASE Done(q) /\ UNCHANGED <<row, member>>
    BY <1>1, <2>3 DEF Purge
  <2> QED BY <2>1, <2>2, <2>3 DEF ClearAvatar, store
<1>4. /\ req' \in [Slots -> Request]
      /\ \A p \in Slots \ {q} : req'[p] = req[p]
      /\ f = None => req'[q] = Idle
      /\ f # None => req'[q] = [op |-> "purge", file |-> f]
  BY <1>3, PurgeTyped DEF ContactsTypeOK
<1>5. \A d \in Contacts : Picture(d) \in {None} \cup Files
  BY DEF Picture, ContactsTypeOK, ContactRow
<1>6. None \notin Files
  BY DEF None, Files
<1>7. \A p \in Slots, g \in Files :
          /\ Saves(p, g)' => Saves(p, g)
          /\ Replaces(p, g)' => Replaces(p, g) /\ req'[p].c = req[p].c
          /\ Removes(p, g)' => Removes(p, g) \/ g = f
  BY <1>4, <1>6 DEF Saves, Replaces, Removes, Idle, OldOps
<1>8. /\ row' \in [Contacts -> ContactRow] /\ member' \subseteq Contacts \X Groups
      /\ \A d \in Contacts : row'[d].st # "live" => Picture(d)' = None
      /\ \A d \in Contacts : Picture(d)' \in {None, Picture(d)}
      /\ f # None => Picture(c)' = None
  <2>1. CASE SetAvatar(c, None) /\ member' = member
    <3>1. /\ row' \in [Contacts -> ContactRow]
          /\ \A d \in Contacts : d # c => row'[d] = row[d]
          /\ row'[c].avatar = None
      BY <2>1, SetAvatarTyped DEF ContactsTypeOK
    <3> QED BY <2>1, <3>1 DEF ContactsTypeOK, PicturesInv, FilesKept, Picture
  <2>2. CASE DeleteContact(c)
    <3>1. /\ row' \in [Contacts -> ContactRow] /\ member' \subseteq Contacts \X Groups
          /\ \A d \in Contacts : d # c => row'[d] = row[d]
          /\ row'[c].avatar = None
      BY <2>2, DeleteTyped DEF ContactsTypeOK
    <3> QED BY <3>1 DEF PicturesInv, FilesKept, Picture
  <2>3. CASE f = None /\ UNCHANGED <<row, member>>
    BY <2>3 DEF ContactsTypeOK, PicturesInv, FilesKept, Picture
  <2> QED BY <1>3, <2>1, <2>2, <2>3
<1>9. f \in Files => /\ \A d \in Contacts : Picture(d)' # f
                     /\ \A o \in Slots : ~Saves(o, f)
                     /\ f <= used.files
  <2> SUFFICES ASSUME f \in Files
               PROVE  /\ \A d \in Contacts : Picture(d)' # f
                      /\ \A o \in Slots : ~Saves(o, f)
                      /\ f <= used.files
    OBVIOUS
  <2>1. Replaces(q, f)
    BY <1>1, <1>3, <1>6 DEF Replaces, OldOps
  <2>2. f <= used.files /\ \A o \in Slots : ~Saves(o, f)
    BY <2>1 DEF PicturesInv, FilesIssued, SavedApart
  <2>3. \A d \in Contacts : Picture(d) = f => d = c
    BY <1>3, <1>6, <2>1 DEF PicturesInv, PicturesApart
  <2> QED BY <1>6, <1>8, <2>2, <2>3
<1>10. ContactsTypeOK'
  BY <1>2, <1>4, <1>8 DEF ContactsTypeOK
<1>11. PicturesInv'
  BY <1>2, <1>7, <1>8, <1>9, LosingPictures
<1> QED BY <1>10, <1>11

LEMMA PurgeStep ==
    ASSUME ContactsTypeOK, PicturesInv, NEW q \in Slots, PurgeFile(q)
    PROVE  ContactsTypeOK' /\ PicturesInv'
<1>1. req[q].op = "purge" /\ req[q].file \in Files /\ Goto(q, Idle)
  BY RequestFields DEF PurgeFile, ContactsTypeOK, Done
<1>2. req' \in [Slots -> Request] /\ req'[q] = Idle /\ \A p \in Slots \ {q} : req'[p] = req[p]
  BY <1>1, GotoTyped DEF ContactsTypeOK, Request
<1>3. /\ UNCHANGED <<row, used, group, member, sweep, accident>>
      /\ files' \subseteq files /\ \A f \in files \ files' : f = req[q].file
  BY DEF PurgeFile, store
<1>4. Removes(q, req[q].file)
  BY <1>1 DEF Removes
<1>5. \A p \in Slots, f \in Files :
          /\ Saves(p, f)' => Saves(p, f)
          /\ Replaces(p, f)' => Replaces(p, f) /\ req'[p].c = req[p].c
          /\ Removes(p, f)' => Removes(p, f)
  BY <1>2 DEF Saves, Replaces, Removes, Idle, OldOps
<1>6. \A c \in Contacts : Picture(c)' = Picture(c) /\ (row'[c].st # "live" => Picture(c)' = None)
  BY <1>3 DEF Picture, PicturesInv, FilesKept
<1>7. /\ \A c \in Contacts : Picture(c) # req[q].file
      /\ \A p \in Slots : ~Saves(p, req[q].file)
  <2>1. None \notin Files
    BY DEF None, Files
  <2> QED BY <1>1, <1>4, <2>1 DEF PicturesInv, PicturesApart, SavedApart
<1>8. \A f \in files \ files' : (\A c \in Contacts : Picture(c)' # f) /\ (\A p \in Slots : ~Saves(p, f)')
  BY <1>1, <1>3, <1>5, <1>6, <1>7
<1>9. ContactsTypeOK'
  BY <1>2, <1>3 DEF ContactsTypeOK
<1>10. PicturesInv'
  BY <1>3, <1>5, <1>6, <1>8, LosingPictures
<1> QED BY <1>9, <1>10

LEMMA JanitorStep ==
    ASSUME ContactsTypeOK, PicturesInv, janitor
    PROVE  ContactsTypeOK' /\ PicturesInv'
<1>1. UNCHANGED <<row, group, member, req, used>>
  BY DEF janitor, SweepList, AllAvatarPathsAll, SweepDelete, SweepDone
<1>2. /\ \A c \in Contacts : Picture(c)' = Picture(c) /\ (row'[c].st # "live" => Picture(c)' = None)
      /\ \A p \in Slots, f \in Files :
            Saves(p, f)' = Saves(p, f) /\ Replaces(p, f)' = Replaces(p, f) /\ Removes(p, f)' = Removes(p, f)
  BY <1>1 DEF Picture, PicturesInv, FilesKept, Saves, Replaces, Removes
<1>3. SavedApart' /\ PicturesApart'
  BY <1>1 DEF PicturesInv, SavedApart, PicturesApart, Saves, Replaces, Removes, Picture
<1>4. \A q \in Slots : Saves(q, req[q].new) => req[q].new \in Files
  BY RequestFields DEF Saves, ContactsTypeOK
<1>5. CASE SweepList
  <2>1. /\ files' = files /\ accident' = accident /\ sweep' = [st |-> "listed", left |-> files]
    BY <1>5 DEF SweepList
  <2>2. ContactsTypeOK'
    BY <1>1, <2>1 DEF ContactsTypeOK, Pass
  <2>3. FilesIssued'
    BY <1>1, <1>2, <2>1 DEF PicturesInv, FilesIssued
  <2>4. SweepSpares' /\ FilesKept'
    BY <1>1, <1>2, <2>1 DEF PicturesInv, SweepSpares, FilesKept
  <2> QED BY <1>3, <2>2, <2>3, <2>4 DEF PicturesInv
<1>6. CASE AllAvatarPathsAll
  <2> DEFINE S == {f \in sweep.left : \E q \in Slots : req[q].op = "set" /\ req[q].new = f}
  <2>1. /\ files' = files /\ sweep.st = "listed"
        /\ sweep' = [st |-> "sweep", left |-> sweep.left \ {row[c].avatar : c \in Contacts}]
        /\ accident' = [accident EXCEPT !.inflight = @ \cup S]
    BY <1>6 DEF AllAvatarPathsAll
  <2>2. sweep.left \subseteq Files
    BY <2>1 DEF ContactsTypeOK, Pass
  <2>3. accident' \in Accidents /\ accident'.inflight = accident.inflight \cup S
    BY <2>1, <2>2 DEF ContactsTypeOK, Accidents
  <2>4. sweep' \in Pass /\ sweep'.left = sweep.left \ {row[c].avatar : c \in Contacts} /\ sweep'.st = "sweep"
    BY <2>1, <2>2 DEF Pass
  <2>5. ContactsTypeOK'
    BY <1>1, <2>1, <2>3, <2>4 DEF ContactsTypeOK, Accidents
  <2>6. FilesIssued'
    BY <1>1, <1>2, <2>1, <2>4 DEF PicturesInv, FilesIssued
  <2>7. SweepSpares'
    BY <1>1, <1>2, <2>3, <2>4 DEF SweepSpares, Saves, Picture
  <2>8. FilesKept'
    BY <1>1, <1>2, <2>1, <2>3 DEF PicturesInv, FilesKept
  <2> QED BY <1>3, <2>5, <2>6, <2>7, <2>8 DEF PicturesInv
<1>7. CASE SweepDelete
  <2>1. PICK f \in sweep.left : sweep' = [sweep EXCEPT !.left = @ \ {f}] /\ files' = files \ {f}
    BY <1>7 DEF SweepDelete
  <2>2. sweep.st = "sweep" /\ accident' = accident /\ sweep.left \subseteq Files
    BY <1>7 DEF SweepDelete, ContactsTypeOK, Pass
  <2>3. sweep' \in Pass /\ sweep'.left = sweep.left \ {f} /\ sweep'.st = "sweep"
    BY <2>1, <2>2 DEF ContactsTypeOK, Pass
  <2>4. ContactsTypeOK'
    BY <1>1, <2>1, <2>2, <2>3 DEF ContactsTypeOK
  <2>5. FilesIssued'
    BY <1>1, <1>2, <2>1, <2>2, <2>3 DEF PicturesInv, FilesIssued
  <2>6. SweepSpares'
    BY <1>1, <1>2, <2>2, <2>3 DEF PicturesInv, SweepSpares
  <2>7. f \in accident.inflight \/ ((\A c \in Contacts : Picture(c) # f) /\ (\A q \in Slots : ~Saves(q, f)))
    BY <2>2 DEF PicturesInv, SweepSpares
  <2>8. FilesKept'
    BY <1>1, <1>2, <2>1, <2>2, <2>7 DEF PicturesInv, FilesKept
  <2> QED BY <1>3, <2>4, <2>5, <2>6, <2>8 DEF PicturesInv
<1>8. CASE SweepDone
  <2>1. sweep' = [st |-> "rest"] /\ files' = files /\ accident' = accident
    BY <1>8 DEF SweepDone
  <2>2. ContactsTypeOK'
    BY <1>1, <2>1 DEF ContactsTypeOK, Pass
  <2>3. FilesIssued' /\ SweepSpares' /\ FilesKept'
    BY <1>1, <1>2, <2>1 DEF PicturesInv, FilesIssued, SweepSpares, FilesKept
  <2> QED BY <1>3, <2>2, <2>3 DEF PicturesInv
<1> QED BY <1>5, <1>6, <1>7, <1>8 DEF janitor

LEMMA RestartStep ==
    ASSUME ContactsTypeOK, PicturesInv, Restart
    PROVE  ContactsTypeOK' /\ PicturesInv'
<1>1. /\ req' = [q \in Slots |-> Idle] /\ sweep' = [st |-> "rest"]
      /\ UNCHANGED <<row, group, member, files, used, accident>>
  BY DEF Restart
<1>2. ContactsTypeOK'
  BY <1>1 DEF ContactsTypeOK, Request, Pass
<1>3. \A p \in Slots, f \in Files : ~Saves(p, f)' /\ ~Replaces(p, f)' /\ ~Removes(p, f)'
  BY <1>1 DEF Saves, Replaces, Removes, Idle, OldOps
<1>4. \A c \in Contacts : Picture(c)' = Picture(c) /\ (row'[c].st # "live" => Picture(c)' = None)
  BY <1>1 DEF Picture, PicturesInv, FilesKept
<1>5. PicturesInv'
  BY <1>1, <1>3, <1>4, LosingPictures
<1> QED BY <1>2, <1>5

-----------------------------------------------------------------------------
(* Contacts: no step leaves a row blank, but overlapping patches. *)

RowsOnly(q) ==
    createContact(q) \/ replaceContact(q) \/ ImportReplace(q) \/ ImportInsert(q)
PictureSteps(q) ==
    \/ uploadAvatar(q) \/ deleteAvatar(q) \/ deleteContact(q)
    \/ Save(q) \/ AvatarSaved(q) \/ ClearAvatar(q) \/ Delete(q) \/ PurgeFile(q)
GroupSteps(q) == setContactGroups(q) \/ createGroup(q) \/ updateGroup(q) \/ deleteGroup(q)
CardSteps(q) == importVCards(q) \/ resolveGroupNames(q) \/ ImportMatch(q)

LEMMA StepKinds ==
    ASSUME NEW q, request(q) \/ step(q)
    PROVE  RowsOnly(q) \/ PictureSteps(q) \/ GroupSteps(q) \/ CardSteps(q) \/ patchContact(q) \/ PatchContact(q)
BY DEF request, step, RowsOnly, PictureSteps, GroupSteps, CardSteps

\* The other requests stay as they are.
LEMMA OthersStay ==
    ASSUME ContactsTypeOK, PicturesInv, NEW q \in Slots, request(q) \/ step(q)
    PROVE  \A p \in Slots \ {q} : req'[p] = req[p]
<1>0. OnlyLive
  BY DEF PicturesInv, FilesKept, OnlyLive
<1>1. CASE RowsOnly(q)
  BY <1>0, <1>1, CreatePlain, ImportedPlain DEF RowsOnly, Plain
<1>2. CASE PictureSteps(q)
  <2>1. req \in [Slots -> Request]
    BY DEF ContactsTypeOK
  <2>2. CASE \E r : Goto(q, r)
    BY <2>1, <2>2 DEF Goto
  <2>3. CASE \E f : Purge(q, f)
    BY <2>1, <2>3 DEF Purge, Done, Goto
  <2> QED BY <1>2, <2>2, <2>3 DEF PictureSteps, uploadAvatar, deleteAvatar, deleteContact, Save,
                                  AvatarSaved, ClearAvatar, Delete, PurgeFile, Done
<1>3. CASE GroupSteps(q)
  BY <1>0, <1>3, GroupsPlain DEF GroupSteps, Plain
<1>4. CASE CardSteps(q)
  BY <1>0, <1>4, ImportPlain DEF CardSteps, Plain
<1>5. CASE patchContact(q) \/ PatchContact(q)
  BY <1>0, <1>5, PatchPlain DEF Plain
<1> QED BY <1>1, <1>2, <1>3, <1>4, <1>5, StepKinds

\* What a step may make of the rows: what lives is as before or is not blank.
Filled ==
    \A c \in Contacts : row'[c].st = "live" =>
        row'[c].filled # {} \/ (row[c].st = "live" /\ row'[c].filled = row[c].filled)

LEMMA PictureFilled ==
    ASSUME ContactsTypeOK, NEW q \in Slots, PictureSteps(q)
    PROVE  Filled /\ accident' = accident /\ req'[q].op \notin CardOps \cup {"patch"}
<1>1. accident' = accident
  BY DEF PictureSteps, uploadAvatar, deleteAvatar, deleteContact, Save, AvatarSaved, ClearAvatar, Delete,
         PurgeFile, store, rest
<1>2. Filled
  <2>1. CASE UNCHANGED row
    BY <2>1 DEF Filled
  <2>2. CASE \E f \in {None} \cup Files : req[q].op \in OldOps /\ SetAvatar(req[q].c, f)
    BY <2>2, RequestFields, SetAvatarTyped DEF Filled, ContactsTypeOK
  <2>3. CASE req[q].op \in OldOps /\ DeleteContact(req[q].c)
    BY <2>3, RequestFields, DeleteTyped DEF Filled, ContactsTypeOK
  <2>4. CASE AvatarSaved(q)
    <3>1. req[q].new \in Files /\ req[q].op \in OldOps
      BY <2>4, RequestFields DEF AvatarSaved, ContactsTypeOK, OldOps
    <3> QED BY <2>1, <2>2, <2>4, <3>1 DEF AvatarSaved
  <2> QED BY <2>1, <2>2, <2>3, <2>4
          DEF PictureSteps, uploadAvatar, deleteAvatar, deleteContact, Save, ClearAvatar, Delete, PurgeFile, OldOps
<1>3. req'[q].op \notin CardOps \cup {"patch"}
  <2>0. req \in [Slots -> Request]
    BY DEF ContactsTypeOK
  <2>1. CASE \E r : Goto(q, r) /\ r.op \notin CardOps \cup {"patch"}
    BY <2>0, <2>1 DEF Goto
  <2>2. CASE \E f : Purge(q, f)
    BY <2>0, <2>2 DEF Purge, Done, Goto, Idle, CardOps
  <2>3. CASE Done(q)
    BY <2>0, <2>3 DEF Done, Goto, Idle, CardOps
  <2>4. CASE uploadAvatar(q) \/ deleteAvatar(q) \/ deleteContact(q)
    <3>1. PICK c \in Contacts, op \in {"save", "clear", "delete"} : Goto(q, [op |-> op, c |-> c, old |-> row[c].avatar])
      BY <2>4 DEF uploadAvatar, deleteAvatar, deleteContact, Live
    <3> QED BY <2>0, <3>1 DEF Goto, CardOps
  <2>5. CASE Save(q)
    BY <2>0, <2>5 DEF Save, Goto, CardOps
  <2> QED BY <2>1, <2>2, <2>3, <2>4, <2>5 DEF PictureSteps, AvatarSaved, ClearAvatar, Delete, PurgeFile
<1> QED BY <1>1, <1>2, <1>3

LEMMA RowsFilled ==
    ASSUME ContactsTypeOK, NEW q \in Slots, RowsOnly(q)
    PROVE  Filled /\ accident' = accident /\ req'[q] = Idle
<1>1. accident' = accident
  BY DEF RowsOnly, createContact, replaceContact, ImportReplace, ImportInsert, rest
<1>2. req'[q] = Idle
  BY DEF RowsOnly, createContact, replaceContact, ImportReplace, ImportInsert, Begin, Done, Goto, ContactsTypeOK
<1>3. Filled
  <2>1. CASE \E c \in Contacts, in \in SUBSET Fields, uid \in Numbers : \E ids : Create(c, in, uid, ids)
    <3>1. PICK c \in Contacts, in \in SUBSET Fields, uid \in Numbers : \E ids : Create(c, in, uid, ids)
      BY <2>1
    <3> QED BY <3>1, CreateTyped DEF Filled
  <2>2. CASE \E c \in Contacts, in \in SUBSET Fields : \E ids : Replace(c, in, ids)
    <3>1. PICK c \in Contacts, in \in SUBSET Fields : \E ids : Replace(c, in, ids)
      BY <2>2
    <3> QED BY <3>1, ReplaceTyped DEF Filled
  <2>3. CASE UNCHANGED row
    BY <2>3 DEF Filled
  <2>4. req[q].op \in CardOps => req[q].card.filled \in SUBSET Fields /\ req[q].card.uid \in Numbers
    BY RequestFields DEF ContactsTypeOK, Card
  <2>5. req[q].op = "replace" => req[q].c \in Contacts
    BY RequestFields DEF ContactsTypeOK
  <2>6. None \in Numbers
    BY DEF Numbers
  <2> QED BY <2>1, <2>2, <2>3, <2>4, <2>5, <2>6
          DEF RowsOnly, createContact, replaceContact, ImportReplace, ImportInsert, Inputs, CardOps
<1> QED BY <1>1, <1>2, <1>3

BlankInv == NoBlankContact /\ PatchesChecked

LEMMA FilledBlank ==
    ASSUME ContactsTypeOK, ContactsTypeOK', BlankInv, Filled, accident.overlapped \subseteq accident'.overlapped,
           \A p \in Slots : req'[p].op = "patch" => req'[p] = req[p]
    PROVE  BlankInv'
<1>1. NoBlankContact'
  BY DEF BlankInv, NoBlankContact, Filled, Live, hasAnyIdentity
<1>2. PatchesChecked'
  BY DEF BlankInv, PatchesChecked, hasAnyIdentity, Patched
<1> QED BY <1>1, <1>2 DEF BlankInv

LEMMA PatchBlank ==
    ASSUME ContactsTypeOK, ContactsTypeOK', BlankInv, NEW q \in Slots, patchContact(q) \/ PatchContact(q),
           \A p \in Slots \ {q} : req'[p] = req[p]
    PROVE  BlankInv'
<1>1. CASE patchContact(q)
  <2>1. PICK c \in Contacts, p \in Patches :
           /\ hasAnyIdentity(Patched(row[c].filled, p))
           /\ Goto(q, [op |-> "patch", c |-> c, patch |-> p, read |-> row[c].filled])
    BY <1>1 DEF patchContact, Live
  <2>2. req'[q] = [op |-> "patch", c |-> c, patch |-> p, read |-> row[c].filled]
    BY <2>1 DEF Goto, ContactsTypeOK
  <2>3. PatchesChecked'
    BY <2>1, <2>2 DEF BlankInv, PatchesChecked
  <2>4. NoBlankContact'
    BY <1>1 DEF patchContact, BlankInv, NoBlankContact, Live, rest
  <2> QED BY <2>3, <2>4 DEF BlankInv
<1>2. CASE PatchContact(q)
  <2>1. req[q].op = "patch" /\ req[q].c \in Contacts
    BY <1>2, RequestFields DEF PatchContact, ContactsTypeOK
  <2>2. req'[q] = Idle
    BY <1>2 DEF PatchContact, Done, Goto, ContactsTypeOK
  <2>3. PatchesChecked'
    BY <2>2 DEF BlankInv, PatchesChecked, Idle
  <2>4. hasAnyIdentity(Patched(req[q].read, req[q].patch))
    BY <2>1 DEF BlankInv, PatchesChecked
  <2>5. PICK c \in Contacts : c = req[q].c
    BY <2>1
  <2>6. /\ row' = IF c \in Live THEN [row EXCEPT ![c].filled = Patched(@, req[q].patch)] ELSE row
        /\ accident' = [accident EXCEPT !.overlapped = IF row[c].filled # req[q].read THEN @ \cup {c} ELSE @]
    BY <1>2, <2>5 DEF PatchContact
  <2>7. accident.overlapped \subseteq accident'.overlapped /\ (row[c].filled # req[q].read => c \in accident'.overlapped)
    BY <2>6 DEF ContactsTypeOK
  <2>8. /\ \A d \in Contacts \ {c} : row'[d] = row[d]
        /\ row'[c].st = row[c].st
        /\ row[c].st = "live" => row'[c].filled = Patched(row[c].filled, req[q].patch)
    <3>1. CASE c \in Live
      <4> DEFINE n == [row[c] EXCEPT !.filled = Patched(@, req[q].patch)]
      <4>1. n.st = row[c].st /\ n.filled = Patched(row[c].filled, req[q].patch)
        BY DEF ContactsTypeOK, ContactRow
      <4>2. row' = [row EXCEPT ![c] = n]
        BY <2>6, <3>1
      <4> HIDE DEF n
      <4> QED BY <4>1, <4>2 DEF ContactsTypeOK
    <3>2. CASE c \notin Live
      BY <2>6, <3>2 DEF Live
    <3> QED BY <3>1, <3>2
  <2>9. NoBlankContact'
    <3> SUFFICES ASSUME NEW d \in Contacts, row'[d].st = "live", d \notin accident'.overlapped
                 PROVE  row'[d].filled # {}
      BY DEF NoBlankContact, Live, hasAnyIdentity
    <3>1. CASE d = c
      BY <2>4, <2>7, <2>8, <3>1 DEF hasAnyIdentity
    <3>2. CASE d # c
      BY <2>7, <2>8, <3>2 DEF BlankInv, NoBlankContact, Live, hasAnyIdentity
    <3> QED BY <3>1, <3>2
  <2> QED BY <2>3, <2>9 DEF BlankInv
<1> QED BY <1>1, <1>2

-----------------------------------------------------------------------------
(* Contacts: a group of a name on a card stays one, or the name is excused.  *)

GroupsStay ==
    /\ accident.regrouped \subseteq accident'.regrouped
    /\ \A g \in Groups : group[g].st = "live" =>
          (group'[g].st = "live" /\ group'[g].name = group[g].name) \/ group[g].name \in accident'.regrouped

LEMMA GroupStep ==
    ASSUME ContactsTypeOK, NEW q \in Slots, GroupSteps(q) \/ CardSteps(q)
    PROVE  GroupsStay
<1>0. accident \in Accidents
  BY DEF ContactsTypeOK, Accidents
<1>1. CASE UNCHANGED <<group, accident>>
  BY <1>1 DEF GroupsStay
<1>2. ASSUME NEW g \in Groups, NEW n \in Names, CreateGroup(g, n), UNCHANGED accident PROVE GroupsStay
  BY <1>2, CreateGroupTyped DEF GroupsStay, ContactsTypeOK
<1>3. CASE updateGroup(q) \/ deleteGroup(q)
  <2>1. PICK g \in Groups : /\ Regroup(g)
                            /\ \A h \in Groups : h # g => group'[h] = group[h]
    BY <1>3 DEF updateGroup, deleteGroup, Known, ContactsTypeOK
  <2> QED BY <1>0, <2>1, RegroupTyped DEF GroupsStay, ContactsTypeOK
<1>4. CASE resolveGroupNames(q)
  <2>1. req[q].todo \in SUBSET Names /\ UNCHANGED accident
    BY <1>4, RequestFields DEF resolveGroupNames, ContactsTypeOK
  <2>2. PICK n \in Names : (\E g \in Groups : CreateGroup(g, n)) \/ UNCHANGED group
    BY <1>4, <2>1 DEF resolveGroupNames
  <2> QED BY <1>1, <1>2, <2>1, <2>2
<1> QED BY <1>1, <1>2, <1>3, <1>4 DEF GroupSteps, CardSteps, setContactGroups, createGroup, importVCards,
                                    ImportMatch, rest

\* A request that goes on with its card as it is keeps its groups.
LEMMA NamesStay ==
    ASSUME ContactsTypeOK, NEW p \in Slots, NamesOf(p), GroupsStay,
           req'[p].op \in CardOps =>
               /\ req[p].op \in CardOps /\ req'[p].card = req[p].card /\ req'[p].ids = req[p].ids
               /\ req'[p].missed = req[p].missed /\ Todo(p) \subseteq Todo(p)'
    PROVE  NamesOf(p)'
<1> SUFFICES ASSUME req'[p].op \in CardOps, NEW n \in req'[p].card.names,
                    n \notin Todo(p)' \cup req'[p].missed \cup accident'.regrouped
             PROVE  \E g \in req'[p].ids : g \in Known' /\ group'[g].name = n
  BY DEF NamesOf
<1>1. n \in req[p].card.names \ (Todo(p) \cup req[p].missed \cup accident.regrouped)
  BY DEF GroupsStay
<1>2. PICK g \in req[p].ids : g \in Known /\ group[g].name = n
  BY <1>1 DEF NamesOf
<1> QED BY <1>2 DEF GroupsStay, Known

LEMMA CardStep ==
    ASSUME ContactsTypeOK, NEW q \in Slots, NamesOf(q), CardSteps(q)
    PROVE  NamesOf(q)'
<1>0. req \in [Slots -> Request] /\ GroupsStay
  BY GroupStep DEF ContactsTypeOK
<1>1. CASE importVCards(q)
  <2>1. PICK card \in ParseVCards :
           \/ Goto(q, Import(card, {n \in card.names : Named(n) = {}},
                             {g \in Known : group[g].name \in card.names}, {}))
           \/ Goto(q, Import(card, {}, {}, card.names))
    BY <1>1 DEF importVCards
  <2>2. CASE Goto(q, Import(card, {}, {}, card.names))
    BY <1>0, <2>2 DEF Goto, Import, NamesOf
  <2>3. CASE Goto(q, Import(card, {n \in card.names : Named(n) = {}},
                            {g \in Known : group[g].name \in card.names}, {}))
    <3>1. /\ req'[q].op = "import" /\ req'[q].card = card /\ req'[q].todo = {n \in card.names : Named(n) = {}}
          /\ req'[q].ids = {g \in Known : group[g].name \in card.names}
      BY <1>0, <2>3 DEF Goto, Import
    <3>2. UNCHANGED group
      BY <1>1 DEF importVCards
    <3> SUFFICES ASSUME NEW n \in card.names, n \notin Todo(q)'
                 PROVE  \E g \in req'[q].ids : g \in Known' /\ group'[g].name = n
      BY <3>1 DEF NamesOf
    <3>3. PICK g \in Known : group[g].name = n
      BY <3>1 DEF Todo, Named
    <3> QED BY <3>1, <3>2, <3>3 DEF Known
  <2> QED BY <2>1, <2>2, <2>3
<1>2. CASE resolveGroupNames(q)
  <2>1. req[q] \in Importing /\ req[q].op = "import"
    BY <1>2, RequestKinds DEF resolveGroupNames, ContactsTypeOK
  <2>2. PICK n \in req[q].todo :
          \/ \E g \in Groups :
                CreateGroup(g, n) /\ Goto(q, [req[q] EXCEPT !.todo = @ \ {n}, !.ids = @ \cup {g}])
          \/ Goto(q, [req[q] EXCEPT !.todo = @ \ {n}, !.missed = @ \cup {n}])
    BY <1>2 DEF resolveGroupNames
  <2>3. n \in Names
    BY <2>1, <2>2 DEF Importing
  <2>4. /\ req'[q].op = "import" /\ req'[q].card = req[q].card /\ req[q].ids \subseteq req'[q].ids
        /\ req'[q].todo = req[q].todo \ {n} /\ req[q].missed \subseteq req'[q].missed
        /\ n \in req'[q].missed \/ \E g \in req'[q].ids : g \in Known' /\ group'[g].name = n
    <3>1. CASE \E g \in Groups :
                CreateGroup(g, n) /\ Goto(q, [req[q] EXCEPT !.todo = @ \ {n}, !.ids = @ \cup {g}])
      <4>1. PICK g \in Groups :
                CreateGroup(g, n) /\ Goto(q, [req[q] EXCEPT !.todo = @ \ {n}, !.ids = @ \cup {g}])
        BY <3>1
      <4>2. req'[q] = [req[q] EXCEPT !.todo = @ \ {n}, !.ids = @ \cup {g}]
        BY <1>0, <4>1 DEF Goto
      <4>3. /\ req'[q].op = "import" /\ req'[q].card = req[q].card /\ req'[q].ids = req[q].ids \cup {g}
            /\ req'[q].todo = req[q].todo \ {n} /\ req'[q].missed = req[q].missed
        BY <2>1, <4>2 DEF Importing
      <4>4. g \in Known' /\ group'[g].name = n
        <5>1. group'[g] = [st |-> "live", name |-> n]
          BY <2>3, <4>1, CreateGroupTyped DEF ContactsTypeOK
        <5> QED BY <5>1 DEF Known
      <4> QED BY <4>3, <4>4
    <3>2. CASE Goto(q, [req[q] EXCEPT !.todo = @ \ {n}, !.missed = @ \cup {n}])
      <4>1. req'[q] = [req[q] EXCEPT !.todo = @ \ {n}, !.missed = @ \cup {n}]
        BY <1>0, <3>2 DEF Goto
      <4>2. /\ req'[q].op = "import" /\ req'[q].card = req[q].card /\ req'[q].ids = req[q].ids
            /\ req'[q].todo = req[q].todo \ {n} /\ req'[q].missed = req[q].missed \cup {n}
        BY <2>1, <4>1 DEF Importing
      <4> QED BY <4>2
    <3> QED BY <2>2, <3>1, <3>2
  <2> SUFFICES ASSUME NEW m \in req[q].card.names, m # n,
                      m \notin Todo(q)', m \notin req'[q].missed, m \notin accident'.regrouped
               PROVE  \E g \in req'[q].ids : g \in Known' /\ group'[g].name = m
    BY <2>4 DEF NamesOf
  <2>5. m \notin Todo(q) \cup req[q].missed \cup accident.regrouped
    BY <1>0, <2>1, <2>4 DEF Todo, GroupsStay
  <2>6. PICK g \in req[q].ids : g \in Known /\ group[g].name = m
    BY <2>1, <2>5 DEF NamesOf, CardOps
  <2> QED BY <1>0, <2>4, <2>6 DEF GroupsStay, Known
<1>3. CASE ImportMatch(q)
  <2>1. req[q] \in Importing /\ req[q].op = "import" /\ req[q].todo = {}
    BY <1>3, RequestKinds DEF ImportMatch, ContactsTypeOK
  <2>2. /\ req'[q].card = req[q].card /\ req'[q].ids = req[q].ids
        /\ req'[q].missed = req[q].missed /\ Todo(q) = {}
    <3>1. CASE Goto(q, [req[q] EXCEPT !.op = "create"])
      BY <1>0, <2>1, <3>1 DEF Goto, Importing, Todo
    <3>2. CASE \E c \in Matched(q) : Goto(q, Match(q, c))
      BY <1>0, <2>1, <3>2 DEF Goto, Todo, Match
    <3> QED BY <1>3, <3>1, <3>2 DEF ImportMatch, Match
  <2> QED BY <1>0, <2>1, <2>2, NamesStay DEF CardOps
<1> QED BY <1>1, <1>2, <1>3 DEF CardSteps

-----------------------------------------------------------------------------
(* Contacts: the steps together, and the theorems. *)

LEMMA CardOp ==
    ASSUME ContactsTypeOK, NEW q \in Slots, CardSteps(q)
    PROVE  req'[q].op \in CardOps
<1>0. req \in [Slots -> Request]
  BY DEF ContactsTypeOK
<1>1. CASE importVCards(q)
  <2>1. PICK card, todo, ids, missed : Goto(q, Import(card, todo, ids, missed))
    BY <1>1 DEF importVCards
  <2> QED BY <1>0, <2>1 DEF Goto, Import, CardOps
<1>2. CASE resolveGroupNames(q) \/ ImportMatch(q)
  <2>1. req[q] \in Importing /\ req[q].op = "import"
    BY <1>2, RequestKinds DEF resolveGroupNames, ImportMatch, ContactsTypeOK
  <2>2. CASE \E n, g : Goto(q, [req[q] EXCEPT !.todo = @ \ {n}, !.ids = @ \cup {g}])
    BY <1>0, <2>1, <2>2 DEF Goto, Importing, CardOps
  <2>3. CASE \E n : Goto(q, [req[q] EXCEPT !.todo = @ \ {n}, !.missed = @ \cup {n}])
    BY <1>0, <2>1, <2>3 DEF Goto, Importing, CardOps
  <2>4. CASE Goto(q, [req[q] EXCEPT !.op = "create"])
    BY <1>0, <2>1, <2>4 DEF Goto, Importing, CardOps
  <2>5. CASE \E c : Goto(q, Match(q, c))
    BY <1>0, <2>5 DEF Goto, CardOps, Match
  <2>6. CASE resolveGroupNames(q)
    BY <2>2, <2>3, <2>6 DEF resolveGroupNames
  <2>7. CASE ImportMatch(q)
    BY <2>4, <2>5, <2>7 DEF ImportMatch, Match
  <2> QED BY <1>2, <2>6, <2>7
<1> QED BY <1>1, <1>2 DEF CardSteps

LEMMA ContactsTypePictureStep ==
    ASSUME ContactsTypeOK, PicturesInv, NEW q \in Slots, request(q) \/ step(q)
    PROVE  ContactsTypeOK' /\ PicturesInv'
<1>0. OnlyLive
  BY DEF PicturesInv, FilesKept, OnlyLive
<1>1. CASE RowsOnly(q)
  BY <1>0, <1>1, CreatePlain, ImportedPlain, PlainPictures DEF RowsOnly
<1>2. CASE PictureSteps(q)
  BY <1>2, ReadStep, SaveStep, NamedStep, ClearStep, PurgeStep DEF PictureSteps
<1>3. CASE GroupSteps(q)
  BY <1>0, <1>3, GroupsPlain, PlainPictures DEF GroupSteps
<1>4. CASE CardSteps(q)
  BY <1>0, <1>4, ImportPlain, PlainPictures DEF CardSteps
<1>5. CASE patchContact(q) \/ PatchContact(q)
  BY <1>0, <1>5, PatchPlain, PlainPictures
<1> QED BY <1>1, <1>2, <1>3, <1>4, <1>5, StepKinds

LEMMA ContactsRequestStep ==
    ASSUME ContactsInv, NEW q \in Slots, request(q) \/ step(q)
    PROVE  ContactsInv'
<1>0. ContactsTypeOK /\ PicturesInv /\ BlankInv /\ NamesFound
  BY DEF ContactsInv, BlankInv
<1>1. ContactsTypeOK' /\ PicturesInv'
  BY <1>0, ContactsTypePictureStep
<1>2. \A p \in Slots \ {q} : req'[p] = req[p]
  BY <1>0, OthersStay
<1>3. BlankInv'
  <2>1. CASE patchContact(q) \/ PatchContact(q)
    BY <1>0, <1>1, <1>2, <2>1, PatchBlank
  <2>2. CASE RowsOnly(q)
    <3>1. Filled /\ accident' = accident /\ req'[q].op # "patch"
      BY <1>0, <2>2, RowsFilled DEF Idle
    <3> QED BY <1>0, <1>1, <1>2, <3>1, FilledBlank
  <2>3. CASE PictureSteps(q)
    <3>1. Filled /\ accident' = accident /\ req'[q].op # "patch"
      BY <1>0, <2>3, PictureFilled
    <3> QED BY <1>0, <1>1, <1>2, <3>1, FilledBlank
  <2>4. CASE GroupSteps(q) \/ CardSteps(q)
    <3>1. row' = row
      BY <2>4 DEF GroupSteps, CardSteps, setContactGroups, createGroup, updateGroup, deleteGroup,
                  importVCards, resolveGroupNames, ImportMatch
    <3>2. accident.overlapped \subseteq accident'.overlapped
      <4>1. CASE UNCHANGED accident
        BY <4>1
      <4>2. CASE \E g : Regroup(g)
        BY <1>0, <4>2 DEF Regroup, ContactsTypeOK
      <4> QED BY <2>4, <4>1, <4>2
              DEF GroupSteps, CardSteps, setContactGroups, createGroup, updateGroup, deleteGroup,
                  importVCards, resolveGroupNames, ImportMatch, rest
    <3>3. req'[q].op # "patch"
      <4>1. CASE GroupSteps(q)
        BY <4>1 DEF GroupSteps, setContactGroups, createGroup, updateGroup, deleteGroup, Begin, Idle
      <4>2. CASE CardSteps(q)
        BY <1>0, <4>2, CardOp DEF CardOps
      <4> QED BY <2>4, <4>1, <4>2
    <3>4. Filled
      BY <3>1 DEF Filled
    <3> QED BY <1>0, <1>1, <1>2, <3>2, <3>3, <3>4, FilledBlank
  <2> QED BY <2>1, <2>2, <2>3, <2>4, StepKinds
<1>4. NamesFound'
  <2> SUFFICES ASSUME NEW p \in Slots PROVE NamesOf(p)'
    BY DEF NamesFound
  <2>0. NamesOf(p)
    BY <1>0 DEF NamesFound
  <2>1. GroupsStay
    <3>1. CASE GroupSteps(q) \/ CardSteps(q)
      BY <1>0, <3>1, GroupStep
    <3>2. CASE RowsOnly(q) \/ PictureSteps(q)
      <4>1. accident' = accident
        BY <1>0, <3>2, RowsFilled, PictureFilled
      <4>2. group' = group
        BY <3>2 DEF RowsOnly, PictureSteps, createContact, replaceContact, ImportReplace, ImportInsert,
                    uploadAvatar, deleteAvatar, deleteContact, Save, AvatarSaved, ClearAvatar, Delete,
                    PurgeFile, store
      <4> QED BY <4>1, <4>2 DEF GroupsStay
    <3>3. CASE patchContact(q) \/ PatchContact(q)
      <4>1. group' = group
        BY <3>3 DEF patchContact, PatchContact
      <4>2. accident'.regrouped = accident.regrouped
        BY <1>0, <3>3 DEF patchContact, PatchContact, rest, ContactsTypeOK
      <4> QED BY <4>1, <4>2 DEF GroupsStay
    <3> QED BY <3>1, <3>2, <3>3, StepKinds
  <2>2. CASE p # q
    BY <1>0, <1>2, <2>0, <2>1, <2>2, NamesStay DEF Todo
  <2>3. CASE p = q /\ CardSteps(q)
    BY <1>0, <2>0, <2>3, CardStep
  <2>4. CASE p = q /\ ~CardSteps(q)
    <3>1. req'[q] = req[q] \/ req'[q].op \notin CardOps
      <4>1. CASE RowsOnly(q)
        BY <1>0, <4>1, RowsFilled DEF Idle, CardOps
      <4>2. CASE PictureSteps(q)
        BY <1>0, <4>2, PictureFilled
      <4>3. CASE GroupSteps(q)
        BY <4>3 DEF GroupSteps, setContactGroups, createGroup, updateGroup, deleteGroup
      <4>4. CASE patchContact(q) \/ PatchContact(q)
        BY <1>0, <4>4 DEF patchContact, PatchContact, Done, Goto, ContactsTypeOK, Idle, CardOps
      <4> QED BY <2>4, <4>1, <4>2, <4>3, <4>4, StepKinds
    <3> QED BY <1>0, <2>0, <2>1, <2>4, <3>1, NamesStay DEF Todo
  <2> QED BY <2>2, <2>3, <2>4
<1> QED BY <1>1, <1>3, <1>4 DEF ContactsInv, BlankInv

LEMMA ContactsStep ==
    ASSUME ContactsInv, [Next]_vars
    PROVE  ContactsInv'
<1>0. ContactsTypeOK /\ PicturesInv /\ BlankInv /\ NamesFound
  BY DEF ContactsInv, BlankInv
<1>1. CASE \E q \in Slots : request(q) \/ step(q)
  BY <1>1, ContactsRequestStep
<1>2. CASE janitor \/ Restart
  <2>1. ContactsTypeOK' /\ PicturesInv'
    BY <1>0, <1>2, JanitorStep, RestartStep
  <2>2. /\ UNCHANGED <<row, group>>
        /\ \A p \in Slots : req'[p] = req[p] \/ req'[p] = Idle
    BY <1>2 DEF janitor, SweepList, AllAvatarPathsAll, SweepDelete, SweepDone, Restart
  <2>3. /\ accident'.overlapped = accident.overlapped
        /\ accident'.regrouped = accident.regrouped
    BY <1>0, <1>2 DEF janitor, SweepList, AllAvatarPathsAll, SweepDelete, SweepDone, Restart, ContactsTypeOK
  <2>4. Filled /\ GroupsStay
    BY <2>2, <2>3 DEF Filled, GroupsStay
  <2>5. BlankInv'
    BY <1>0, <2>1, <2>2, <2>3, <2>4, FilledBlank DEF Idle
  <2>6. \A p \in Slots : NamesOf(p)'
    BY <1>0, <2>2, <2>4, NamesStay DEF NamesFound, Todo, Idle, CardOps
  <2> QED BY <2>1, <2>5, <2>6 DEF ContactsInv, BlankInv, NamesFound
<1>3. CASE UNCHANGED vars
  BY <1>3 DEF vars, ContactsInv, ContactsTypeOK, PicturesInv, FilesIssued, SavedApart, PicturesApart,
              SweepSpares, FilesKept, NoBlankContact, PatchesChecked, NamesFound, NamesOf, Todo,
              Picture, Saves, Replaces, Removes, Live, Known
<1> QED BY <1>1, <1>2, <1>3 DEF Next

LEMMA ContactsInit ==
    ASSUME Init PROVE ContactsInv
<1>0. /\ 1 \in Contacts /\ 1 \in Files /\ 1 \in Groups /\ None \notin Files /\ None = 0
      /\ 0 \in 0 .. MaxRequests /\ {0, 1} \subseteq 0 .. MaxFiles
  BY ContactsAssumption DEF Contacts, Files, Groups, None
<1>1. PICK uid \in Uids \cup {None}, f \in {None, 1}, n \in Names :
        /\ row = [c \in Contacts |-> IF c = 1 THEN [NewRow(Fields, uid) EXCEPT !.avatar = f]
                                     ELSE [NewRow({}, None) EXCEPT !.st = "free"]]
        /\ group = [g \in Groups |-> [st |-> IF g = 1 THEN "live" ELSE "free", name |-> n]]
        /\ member = {<<1, 1>>} /\ files = {f} \ {None}
        /\ req = [q \in Slots |-> Idle] /\ sweep = [st |-> "rest"]
        /\ used = [requests |-> 0, files |-> f]
        /\ accident = [inflight |-> {}, overlapped |-> {}, regrouped |-> {}]
  BY DEF Init
<1>2. /\ row \in [Contacts -> ContactRow]
      /\ \A c \in Contacts : /\ c = 1 => row[c].st = "live" /\ row[c].filled = Fields /\ row[c].avatar = f
                             /\ c # 1 => row[c].st = "free" /\ row[c].avatar = None
  BY <1>0, <1>1 DEF ContactRow, NewRow, States, Numbers
<1>3. \A q \in Slots : req[q] = Idle
  BY <1>1
<1>4. ContactsTypeOK
  <2>1. /\ group \in [Groups -> GroupRow] /\ member \subseteq Contacts \X Groups
        /\ files \subseteq Files
    BY <1>0, <1>1 DEF GroupRow, States
  <2>2. req \in [Slots -> Request] /\ sweep \in Pass
    BY <1>1 DEF Request, Pass
  <2>3. accident \in [inflight : SUBSET Files, overlapped : SUBSET Contacts, regrouped : SUBSET Names]
    BY <1>1
  <2>4. used \in [requests : 0 .. MaxRequests, files : 0 .. MaxFiles]
    BY <1>0, <1>1
  <2> QED BY <1>2, <2>1, <2>2, <2>3, <2>4 DEF ContactsTypeOK
<1>5. \A p \in Slots, g \in Files : ~Saves(p, g) /\ ~Replaces(p, g) /\ ~Removes(p, g)
  BY <1>3 DEF Saves, Replaces, Removes, Idle, OldOps
<1>6. FilesIssued
  <2>1. \A c \in Contacts : Picture(c) <= used.files
    BY <1>0, <1>1, <1>2 DEF Picture
  <2> QED BY <1>0, <1>1, <1>5, <2>1 DEF FilesIssued
<1>7. SavedApart /\ SweepSpares
  BY <1>1, <1>5 DEF SavedApart, SweepSpares
<1>8. PicturesApart
  BY <1>0, <1>1, <1>2, <1>5 DEF PicturesApart, Picture
<1>9. FilesKept
  BY <1>0, <1>1, <1>2, <1>5 DEF FilesKept, Picture
<1>10. NoBlankContact
  BY <1>2, ContactsAssumption DEF NoBlankContact, Live, hasAnyIdentity
<1>11. PatchesChecked /\ NamesFound
  BY <1>3 DEF PatchesChecked, NamesFound, NamesOf, Idle, CardOps
<1> QED BY <1>4, <1>6, <1>7, <1>8, <1>9, <1>10, <1>11 DEF ContactsInv, PicturesInv

\* The inductive invariant of the address book: types, whose each file is, what
\* a patch has been checked on, and the groups found for the names on a card.
THEOREM ContactsInvariance == Spec => []ContactsInv
<1> QED BY ContactsInit, ContactsStep, PTL DEF Spec

\* Rows, groups, memberships, files and requests are well formed.
THEOREM ContactsTypeCorrect == Spec => []ContactsTypeOK
<1>1. ContactsInv => ContactsTypeOK
  BY DEF ContactsInv
<1> QED BY <1>1, ContactsInvariance, PTL

\* A contact keeps its picture through overlapping uploads, clears, deletes,
\* sweeps and restarts, but for an upload overtaken by a sweep (service.go
\* SetAvatar, ClearAvatar and Delete; janitor.go runOnce).
THEOREM RowsKeepAvatars == Spec => []RowKeepsAvatar
<1>1. ContactsInv => RowKeepsAvatar
  BY DEF ContactsInv, PicturesInv, FilesKept, RowKeepsAvatar, Live, Picture
<1> QED BY <1>1, ContactsInvariance, PTL

\* No create, replace, import or patch leaves a contact blank, but for two
\* patches that overlapped (service.go Patch).
THEOREM ContactsStayNamed == Spec => []NoBlankContact
<1>1. ContactsInv => NoBlankContact
  BY DEF ContactsInv
<1> QED BY <1>1, ContactsInvariance, PTL

LEMMA ImportedStep ==
    ASSUME ContactsInv, ContactsInv', [Next]_vars, NEW q \in Slots,
           req[q].op \in {"replace", "create"}, req'[q] = Idle, <<row, member>>' # <<row, member>>
    PROVE  ImportReplace(q) \/ ImportInsert(q)
<1>0. ContactsTypeOK /\ PicturesInv
  BY DEF ContactsInv
<1>1. PICK p \in Slots : request(p) \/ step(p)
  <2>1. CASE janitor \/ Restart \/ UNCHANGED vars
    BY <2>1 DEF janitor, SweepList, AllAvatarPathsAll, SweepDelete, SweepDone, Restart, vars
  <2> QED BY <2>1 DEF Next
<1>2. req'[q] # req[q]
  BY DEF Idle
<1>3. p = q
  BY <1>0, <1>1, <1>2, OthersStay
<1>4. req[q] # Idle
  BY <1>2
<1>5. step(q)
  BY <1>1, <1>3, <1>4 DEF request, createContact, replaceContact, patchContact, deleteContact, setContactGroups,
        createGroup, updateGroup, deleteGroup, uploadAvatar, deleteAvatar, importVCards, Begin
<1> QED BY <1>5 DEF step, PatchContact, Save, AvatarSaved, ClearAvatar, Delete, PurgeFile, resolveGroupNames, ImportMatch

\* The row an import writes, the matched one or a new one, gets what is on the card
\* and is in a group of every name on it, but for the names whose group could
\* neither be found nor created, and the groups that other requests renamed or
\* deleted (service.go resolveGroupNames, ImportContacts).
THEOREM ImportsKeepCategories == Spec => CategoriesKept
<1> DEFINE Written(q) ==
      req[q].op \in {"replace", "create"} /\ req'[q] = Idle /\ <<row, member>>' # <<row, member>> =>
         \E c \in Live' :
            /\ IF req[q].op = "replace" THEN c = req[q].c ELSE c \notin Live
            /\ row'[c].filled = req[q].card.filled
            /\ \A n \in req[q].card.names \ (req[q].missed \cup accident.regrouped) :
                  \E g \in Known : group[g].name = n /\ <<c, g>> \in member'
<1>1. ContactsInv /\ ContactsInv' /\ [Next]_vars => [\A q \in Slots : Written(q)]_vars
  <2> SUFFICES ASSUME ContactsInv, ContactsInv', [Next]_vars, NEW q \in Slots,
                      req[q].op \in {"replace", "create"}, req'[q] = Idle, <<row, member>>' # <<row, member>>
               PROVE  \E c \in Live' :
                        /\ IF req[q].op = "replace" THEN c = req[q].c ELSE c \notin Live
                        /\ row'[c].filled = req[q].card.filled
                        /\ \A n \in req[q].card.names \ (req[q].missed \cup accident.regrouped) :
                              \E g \in Known : group[g].name = n /\ <<c, g>> \in member'
    OBVIOUS
  <2>0. ContactsTypeOK /\ NamesOf(q)
    BY DEF ContactsInv, NamesFound
  <2>1. ImportReplace(q) \/ ImportInsert(q)
    BY ImportedStep
  <2>2. req[q].card \in Card /\ req[q].ids \in SUBSET Groups /\ req[q].op \in CardOps /\ Todo(q) = {}
    BY <2>0, RequestFields DEF ContactsTypeOK, CardOps, Todo
  <2>3. req[q].card.filled \in SUBSET Fields /\ req[q].card.uid \in Numbers
    BY <2>2 DEF Card
  <2>4. PICK c \in Contacts : /\ IF req[q].op = "replace" THEN c = req[q].c ELSE row[c].st = "free"
                              /\ row'[c].st = "live" /\ row'[c].filled = req[q].card.filled
                              /\ member' = Membership(c, Ids(q))
    <3>1. CASE ImportReplace(q)
      <4>1. /\ Replace(req[q].c, req[q].card.filled, Ids(q))
            /\ req[q].c \in Contacts /\ req[q].op = "replace"
        BY <2>0, <3>1, RequestFields DEF ImportReplace, ContactsTypeOK
      <4> QED BY <2>0, <2>3, <4>1, ReplaceTyped DEF Replace, ReplaceWithGroups, ContactsTypeOK
    <3>2. CASE ImportInsert(q)
      <4>1. PICK c \in Contacts : Create(c, req[q].card.filled, req[q].card.uid, Ids(q))
        BY <3>2 DEF ImportInsert
      <4>2. req[q].op # "replace" /\ row[c].st = "free"
        BY <3>2, <4>1 DEF ImportInsert, Create, CreateWithGroups, insertContactTx, FreshContact
      <4> QED BY <2>0, <2>3, <4>1, <4>2, CreateTyped DEF Create, CreateWithGroups, ContactsTypeOK
    <3> QED BY <2>1, <3>1, <3>2
  <2>5. ASSUME NEW n \in req[q].card.names \ (req[q].missed \cup accident.regrouped)
        PROVE  \E g \in Known : group[g].name = n /\ <<c, g>> \in member'
    <3>1. PICK g \in req[q].ids : g \in Known /\ group[g].name = n
      BY <2>0, <2>2 DEF NamesOf
    <3>2. None \notin Groups
      BY DEF None, Groups
    <3>3. Ids(q) = req[q].ids /\ Ids(q) # Nil
      BY <2>2, <3>1, <3>2 DEF Ids, Nil
    <3> QED BY <2>4, <3>1, <3>3 DEF Membership, applyMembershipTx
  <2>6. c \in Live' /\ IF req[q].op = "replace" THEN c = req[q].c ELSE c \notin Live
    BY <2>4 DEF Live
  <2> QED BY <2>4, <2>5, <2>6
<1> QED BY <1>1, ContactsInvariance, PTL DEF Spec, CategoriesKept

-----------------------------------------------------------------------------
(* Chat: the types. *)

RoomRow == [kind : {"none", "group", "direct"},
            role : [Users -> {"none", "owner", "member"}], read : [Users -> Marks]]
Message == [room : Rooms, by : Users, seq : 1 .. MaxMsgs, at : 0 .. MaxTime, live : BOOLEAN]
Key == [users : SUBSET Users, room : Rooms]

Opening == {q \in [op : {"direct"}, user : Users, other : Users] : q.user # q.other}
Sending == [op : {"send"}, user : Users, room : Rooms, at : 0 .. MaxTime, crossed : BOOLEAN]
Announcing == [op : {"announce"}, user : Users, row : 1 .. MaxMsgs]

Told == {"message.created", "message.updated"}
Event == [type : Told \cup {"other"}, row : 0 .. MaxMsgs]
Place == [at : Int, row : Nat]
Stream == [st : {"off", "replay", "live"}, buf : Seq(Event), cur : Place, sent : Nat, more : BOOLEAN]

ChatTypeOK ==
    /\ room \in [Rooms -> RoomRow] /\ direct \subseteq Key
    /\ msgs \in Seq(Message) /\ Len(msgs) <= MaxMsgs /\ now \in 0 .. MaxTime
    /\ reqs \subseteq Opening \cup Sending \cup Announcing
    /\ \A q \in reqs : q.op = "announce" => q.row \in DOMAIN msgs
    /\ conn \in Stream
    /\ \A k \in DOMAIN conn.buf : conn.buf[k].type \in Told => conn.buf[k].row \in DOMAIN msgs
    /\ got \subseteq DOMAIN msgs /\ lost \subseteq DOMAIN msgs
    /\ cursor \in Place /\ start \in Int
    /\ ever \in [Rooms -> SUBSET Users] /\ breaks \in 0 .. MaxBreaks

\* A room that has not been opened is empty; a member has been let in, and
\* messages are members' or former members'.
RoomsOpened ==
    /\ \A r \in Rooms : room[r].kind = "none" => ever[r] = {} /\ InRoom(r) = {}
    /\ \A r \in Rooms, u \in Users : In(u, r) => u \in ever[r]
    /\ \A r \in Rooms, u \in Users : ~In(u, r) => room[r].read[u] = 0
    /\ \A i \in DOMAIN msgs : msgs[i].by \in ever[msgs[i].room]
    /\ \A q \in reqs : q.op = "send" => q.user \in ever[q.room]

-----------------------------------------------------------------------------
(* Chat: direct rooms, one per pair. *)

DirectInv ==
    /\ \A r \in Rooms : room[r].kind = "direct" =>
          RoomUserIDs(r) = ever[r] /\ [users |-> ever[r], room |-> r] \in direct
    /\ \A k \in direct : room[k.room].kind = "direct" /\ k.users = ever[k.room]
    /\ \A k, l \in direct : k.users = l.users => k = l

-----------------------------------------------------------------------------
(* Chat: the numbers of the messages of a room. *)

Count(r) == Cardinality(InRoom(r))
Rank(r, i) == Cardinality({j \in InRoom(r) : j <= i})
Numbered ==
    /\ \A r \in Rooms : \A i \in InRoom(r) : msgs[i].seq = Rank(r, i)
    /\ \A r \in Rooms : \A n \in 1 .. Count(r) : \E i \in InRoom(r) : msgs[i].seq = n

-----------------------------------------------------------------------------
(* Chat: the clock and the stream.  A message that is not overtaken is of the *)
(* last second there is, from when it is stored until it is published.        *)

ClockInv ==
    /\ \A i \in DOMAIN msgs : msgs[i].at <= now
    /\ \A q \in reqs : q.op = "send" => q.at <= now
    /\ \A i, j \in DOMAIN msgs : i < j /\ msgs[i].at > msgs[j].at => j \in lost
    /\ \A q \in reqs : q.op = "send" => \A i \in DOMAIN msgs : msgs[i].at > q.at => q.crossed
    /\ \A i, j \in DOMAIN msgs : Pending(i) /\ i < j /\ msgs[i].at # msgs[j].at => i \in lost

\* A place in the stream is where it began or of a message.
Backed(c) == c.row <= Len(msgs) /\ (c.at <= start \/ \E j \in DOMAIN msgs : c.at <= msgs[j].at)

Ahead(c) == \A i \in DOMAIN msgs : Due(i) => After(i, c)

\* What is due and behind an event in the buffer is not older.
Created(i) == [type |-> "message.created", row |-> i]
BufferInOrder ==
    \A k \in DOMAIN conn.buf : conn.buf[k].type \in Told =>
        \A i \in DOMAIN msgs :
            Due(i) /\ (Pending(i) \/ \E l \in k .. Len(conn.buf) : conn.buf[l] = Created(i))
                => msgs[conn.buf[k].row].at <= msgs[i].at

StreamInv ==
    /\ Backed(cursor) /\ Ahead(cursor)
    /\ conn.st = "replay" => Backed(conn.cur) /\ Ahead(conn.cur)
    /\ conn.st = "live" \/ (conn.st = "replay" /\ ~conn.more) =>
          \A i \in DOMAIN msgs : Due(i) => Pending(i) \/ Buffered(i)
    /\ BufferInOrder

ChatInv == ChatTypeOK /\ RoomsOpened /\ DirectInv /\ Numbered /\ ClockInv /\ StreamInv

-----------------------------------------------------------------------------
(* Chat: finite sets of numbers have a largest. *)

LEMMA HasLargest ==
    ASSUME NEW N \in Nat, NEW S \in SUBSET (0 .. N), S # {}
    PROVE  \E m \in S : \A k \in S : k <= m
<1> DEFINE R == StrictSubsetOrdering(0 .. N)
           F == FiniteSubsetsOf(0 .. N)
           T == {(m + 1) .. N : m \in S}
<1>0. ASSUME NEW m \in 0 .. N PROVE (m + 1) .. N \in F
  BY FS_Interval DEF FiniteSubsetsOf
<1>1. T \subseteq F /\ T # {}
  BY <1>0
<1>2. IsWellFoundedOn(R, F)
  BY FS_StrictSubsetOrderingWellFounded
<1> HIDE DEF F, R, T
<1>3. PICK x \in T : \A y \in T : <<y, x>> \notin R
  BY <1>1, <1>2, WFMin, Zenon
<1>4. PICK m \in S : x = (m + 1) .. N
  BY <1>3 DEF T
<1>5. ASSUME NEW k \in S, m < k PROVE FALSE
  <2>1. (k + 1) .. N \in T /\ <<(k + 1) .. N, x>> \notin R
    BY <1>3 DEF T
  <2>2. (k + 1) .. N \subseteq (m + 1) .. N /\ k \in (m + 1) .. N /\ k \notin (k + 1) .. N
    BY <1>5
  <2> QED BY <1>4, <2>1, <2>2 DEF R, StrictSubsetOrdering
<1> QED BY <1>5

LEMMA LargestOf ==
    ASSUME NEW N \in Nat, NEW S \in SUBSET (0 .. N)
    PROVE  /\ Largest(S) \in 0 .. N /\ \A k \in S : k <= Largest(S)
           /\ S # {} => Largest(S) \in S
           /\ S = {} => Largest(S) = 0
<1>1. CASE S = {}
  BY <1>1 DEF Largest
<1>2. CASE S # {}
  <2>1. \E m \in S : \A k \in S : k <= m
    BY <1>2, HasLargest
  <2>2. Largest(S) \in S /\ \A k \in S : k <= Largest(S)
    BY <1>2, <2>1 DEF Largest
  <2> QED BY <1>2, <2>2
<1> QED BY <1>1, <1>2

LEMMA LargestIs ==
    ASSUME NEW N \in Nat, NEW S \in SUBSET (0 .. N), NEW m \in S, \A k \in S : k <= m
    PROVE  Largest(S) = m
BY LargestOf

LEMMA ChatBasics ==
    ASSUME ChatTypeOK
    PROVE  /\ MaxTime \in Nat /\ MaxMsgs \in Nat /\ MaxReqs \in Nat /\ MaxBreaks \in Nat
           /\ BufSize \in Nat /\ PageSize \in Nat /\ ReplayMax \in Nat /\ Watcher \in Users
           /\ Len(msgs) \in 0 .. MaxMsgs /\ DOMAIN msgs = 1 .. Len(msgs) /\ DOMAIN msgs \subseteq 1 .. MaxMsgs
           /\ \A i \in DOMAIN msgs : msgs[i] \in Message
<1>1. /\ MaxTime \in Nat /\ MaxMsgs \in Nat /\ MaxReqs \in Nat /\ MaxBreaks \in Nat
      /\ BufSize \in Nat /\ PageSize \in Nat /\ ReplayMax \in Nat /\ Watcher \in Users
  BY ChatAssumption
<1>2. Len(msgs) \in Nat /\ DOMAIN msgs = 1 .. Len(msgs) /\ \A i \in DOMAIN msgs : msgs[i] \in Message
  BY LenProperties, ElementOfSeq DEF ChatTypeOK
<1> QED BY <1>1, <1>2 DEF ChatTypeOK

LEMMA MessageFields ==
    ASSUME ChatTypeOK, NEW i \in DOMAIN msgs
    PROVE  /\ i \in 1 .. MaxMsgs /\ msgs[i].room \in Rooms /\ msgs[i].by \in Users
           /\ msgs[i].seq \in 1 .. MaxMsgs /\ msgs[i].at \in 0 .. MaxTime /\ msgs[i].live \in BOOLEAN
BY ChatBasics DEF Message

\* The newest of a set of messages, by second and row.
LEMMA HasNewest ==
    ASSUME ChatTypeOK, NEW S \in SUBSET DOMAIN msgs, S # {}
    PROVE  Newest(S) \in S /\ \A j \in S \ {Newest(S)} : Before(j, Newest(S))
<1>0. /\ MaxTime \in Nat /\ MaxMsgs \in Nat /\ DOMAIN msgs \subseteq 0 .. MaxMsgs
      /\ \A i \in DOMAIN msgs : msgs[i].at \in 0 .. MaxTime
  BY ChatBasics, MessageFields
<1> DEFINE T == {msgs[i].at : i \in S}
<1>1. PICK t \in T : \A k \in T : k <= t
  <2>1. T \in SUBSET (0 .. MaxTime) /\ T # {}
    BY <1>0
  <2> HIDE DEF T
  <2> QED BY <1>0, <2>1, HasLargest
<1> DEFINE L == {i \in S : msgs[i].at = t}
<1>2. PICK m \in L : \A k \in L : k <= m
  <2>1. L \in SUBSET (0 .. MaxMsgs) /\ L # {}
    BY <1>0, <1>1
  <2> HIDE DEF L
  <2> QED BY <1>0, <2>1, HasLargest
<1>3. m \in S /\ \A j \in S \ {m} : Before(j, m)
  <2> SUFFICES ASSUME NEW j \in S \ {m} PROVE Before(j, m)
    BY <1>2
  <2>1. msgs[j].at <= msgs[m].at /\ msgs[m].at = t
    BY <1>1, <1>2
  <2>2. msgs[j].at = t => j < m
    BY <1>0, <1>2
  <2> QED BY <1>0, <2>1, <2>2 DEF Before
<1> QED BY <1>3 DEF Newest

-----------------------------------------------------------------------------
(* Chat: what each operation does to the tables and the buffer. *)

LEMMA PushEffect ==
    ASSUME conn \in Stream, NEW hears \in BOOLEAN, NEW type \in Told \cup {"other"}, NEW i \in 0 .. MaxMsgs,
           Push(hears, type, i)
    PROVE  /\ conn' \in Stream /\ conn'.st = conn.st /\ conn'.cur = conn.cur
           /\ conn'.sent = conn.sent /\ conn'.more = conn.more
           /\ \/ conn'.buf = conn.buf
              \/ hears /\ conn'.buf = Append(conn.buf, [type |-> type, row |-> i])
           /\ hears /\ conn.st # "off" /\ Len(conn.buf) < BufSize =>
                 conn'.buf = Append(conn.buf, [type |-> type, row |-> i])
<1> DEFINE e == [type |-> type, row |-> i]
           n == [conn EXCEPT !.buf = Append(@, e)]
<1>1. e \in Event /\ conn.buf \in Seq(Event)
  BY DEF Event, Stream
<1> HIDE DEF e
<1>2. Append(conn.buf, e) \in Seq(Event)
  BY <1>1, AppendProperties
<1>3. n \in Stream /\ n.st = conn.st /\ n.cur = conn.cur /\ n.sent = conn.sent /\ n.more = conn.more
      /\ n.buf = Append(conn.buf, e)
  BY <1>2 DEF Stream
<1>4. conn' = IF hears /\ conn.st # "off" /\ Len(conn.buf) < BufSize THEN n ELSE conn
  BY DEF Push, e
<1> HIDE DEF n
<1> QED BY <1>3, <1>4 DEF e

\* The buffer gets one event more, at its end, or none.
Buffering(type, i) ==
    \/ conn'.buf = conn.buf
    \/ conn'.buf = Append(conn.buf, [type |-> type, row |-> i])

LEMMA AppendFacts ==
    ASSUME NEW S, NEW s \in Seq(S), NEW e \in S
    PROVE  /\ Append(s, e) \in Seq(S) /\ Len(Append(s, e)) = Len(s) + 1 /\ Len(s) \in Nat
           /\ DOMAIN s = 1 .. Len(s) /\ DOMAIN Append(s, e) = 1 .. (Len(s) + 1)
           /\ \A k \in 1 .. Len(s) : Append(s, e)[k] = s[k]
           /\ Append(s, e)[Len(s) + 1] = e
  BY AppendProperties, LenProperties

LEMMA BufferedRows ==
    ASSUME ChatTypeOK, conn' \in Stream, NEW type \in Told \cup {"other"}, NEW i \in 0 .. MaxMsgs, Buffering(type, i),
           DOMAIN msgs \subseteq DOMAIN msgs', type \in Told => i \in DOMAIN msgs
    PROVE  \A k \in DOMAIN conn'.buf : conn'.buf[k].type \in Told => conn'.buf[k].row \in DOMAIN msgs'
<1> DEFINE e == [type |-> type, row |-> i]
<1>1. e \in Event /\ conn.buf \in Seq(Event)
  BY DEF Event, Stream, ChatTypeOK
<1>2. CASE conn'.buf = conn.buf
  BY <1>2 DEF ChatTypeOK
<1>3. CASE conn'.buf = Append(conn.buf, e)
  <2>1. \A k \in DOMAIN conn'.buf : (k \in DOMAIN conn.buf /\ conn'.buf[k] = conn.buf[k]) \/ conn'.buf[k] = e
    <3> HIDE DEF e
    <3> QED BY <1>1, <1>3, AppendFacts
  <2> QED BY <2>1 DEF ChatTypeOK
<1> QED BY <1>2, <1>3 DEF Buffering

-----------------------------------------------------------------------------
(* Chat: rooms. *)

LEMMA AddRoomEffect ==
    ASSUME ChatTypeOK, NEW r \in Rooms, NEW kind \in {"group", "direct"}, NEW creator \in Users, NEW us \in SUBSET Users,
           creator \in us, AddRoom(r, kind, creator, us)
    PROVE  /\ room' \in [Rooms -> RoomRow] /\ ever' \in [Rooms -> SUBSET Users] /\ room[r].kind = "none"
           /\ \A s \in Rooms : s # r => room'[s] = room[s] /\ ever'[s] = ever[s]
           /\ room'[r].kind = kind /\ ever'[r] = us
           /\ \A u \in Users : In(u, r)' <=> u \in us
           /\ \A u \in Users : room'[r].read[u] = 0
<1>1. /\ room' = [room EXCEPT ![r] = NewRoom(kind, creator, us)] /\ ever' = [ever EXCEPT ![r] = us]
      /\ room[r].kind = "none"
  BY DEF AddRoom
<1>2. 0 \in Marks
  BY ChatBasics DEF Marks
<1> DEFINE n == NewRoom(kind, creator, us)
<1>3. n \in RoomRow /\ n.kind = kind /\ (\A u \in Users : n.read[u] = 0)
      /\ \A u \in Users : n.role[u] # "none" <=> u \in us
  BY <1>2 DEF NewRoom, RoomRow
<1> HIDE DEF n
<1>4. room'[r] = n /\ room' \in [Rooms -> RoomRow] /\ ever' \in [Rooms -> SUBSET Users] /\ ever'[r] = us
      /\ \A s \in Rooms : s # r => room'[s] = room[s] /\ ever'[s] = ever[s]
  BY <1>1, <1>3 DEF ChatTypeOK, n
<1>5. \A u \in Users : In(u, r)' <=> n.role[u] # "none"
  BY <1>4 DEF In, RoomUserIDs, participantRole
<1> QED BY <1>1, <1>3, <1>4, <1>5

LEMMA LeaveEffect ==
    ASSUME ChatTypeOK, NEW r \in Rooms, NEW u \in Users, LeaveRoom(u, r)
    PROVE  /\ room' \in [Rooms -> RoomRow] /\ room[r].kind = "group" /\ In(u, r)
           /\ \A s \in Rooms : s # r => room'[s] = room[s]
           /\ room'[r].kind = "group"
           /\ \A v \in Users : In(v, r)' <=> In(v, r) /\ v # u
           /\ \A v \in Users : room'[r].read[v] = IF v = u THEN 0 ELSE room[r].read[v]
<1>1. room' = [room EXCEPT ![r].role[u] = "none", ![r].read[u] = 0] /\ room[r].kind = "group" /\ In(u, r)
  BY DEF LeaveRoom
<1>2. 0 \in Marks
  BY ChatBasics DEF Marks
<1>3. room[r] \in RoomRow
  BY DEF ChatTypeOK
<1> DEFINE n == [room[r] EXCEPT !.role = [@ EXCEPT ![u] = "none"], !.read = [@ EXCEPT ![u] = 0]]
<1>4. n.kind = room[r].kind /\ n.role = [room[r].role EXCEPT ![u] = "none"] /\ n.read = [room[r].read EXCEPT ![u] = 0]
  BY <1>3 DEF RoomRow
<1>5. n \in RoomRow
  BY <1>2, <1>3 DEF RoomRow
<1>6. room' = [room EXCEPT ![r] = n]
  BY <1>1
<1> HIDE DEF n
<1>7. room'[r] = n /\ room' \in [Rooms -> RoomRow] /\ \A s \in Rooms : s # r => room'[s] = room[s]
  BY <1>5, <1>6 DEF ChatTypeOK
<1>8. \A v \in Users : In(v, r)' <=> n.role[v] # "none"
  BY <1>7 DEF In, RoomUserIDs, participantRole
<1>9. \A v \in Users : In(v, r) <=> room[r].role[v] # "none"
  BY DEF In, RoomUserIDs, participantRole
<1> QED BY <1>1, <1>3, <1>4, <1>7, <1>8, <1>9 DEF RoomRow

\* One read mark moves.
MarkedTo(r, u, to) == room' = [room EXCEPT ![r].read[u] = to]

LEMMA ReadEffect ==
    ASSUME ChatTypeOK, NEW r \in Rooms, NEW u \in Users, NEW to \in Marks, MarkedTo(r, u, to)
    PROVE  /\ room' \in [Rooms -> RoomRow]
           /\ \A s \in Rooms : s # r => room'[s] = room[s]
           /\ room'[r].kind = room[r].kind
           /\ \A s \in Rooms, v \in Users : In(v, s)' <=> In(v, s)
           /\ \A v \in Users : room'[r].read[v] = IF v = u THEN to ELSE room[r].read[v]
<1>1. room[r] \in RoomRow
  BY DEF ChatTypeOK
<1> DEFINE n == [room[r] EXCEPT !.read = [@ EXCEPT ![u] = to]]
<1>2. n.kind = room[r].kind /\ n.role = room[r].role /\ n.read = [room[r].read EXCEPT ![u] = to] /\ n \in RoomRow
  BY <1>1 DEF RoomRow
<1>3. room' = [room EXCEPT ![r] = n]
  BY DEF MarkedTo
<1> HIDE DEF n
<1>4. room'[r] = n /\ room' \in [Rooms -> RoomRow] /\ \A s \in Rooms : s # r => room'[s] = room[s]
  BY <1>2, <1>3 DEF ChatTypeOK
<1>5. \A s \in Rooms, v \in Users : In(v, s)' <=> In(v, s)
  BY <1>2, <1>4 DEF In, RoomUserIDs, participantRole
<1> QED BY <1>1, <1>2, <1>4, <1>5 DEF RoomRow

-----------------------------------------------------------------------------
(* Chat: the steps that neither store nor publish a message and do not touch *)
(* the stream but for an event about an old one.                             *)

SameMessages ==
    /\ msgs' \in Seq(Message) /\ Len(msgs') = Len(msgs)
    /\ \A i \in DOMAIN msgs :
          /\ msgs'[i].room = msgs[i].room /\ msgs'[i].by = msgs[i].by
          /\ msgs'[i].seq = msgs[i].seq /\ msgs'[i].at = msgs[i].at
          /\ msgs'[i].live => msgs[i].live

Notified ==
    /\ conn' \in Stream /\ conn'.st = conn.st /\ conn'.cur = conn.cur
    /\ conn'.sent = conn.sent /\ conn'.more = conn.more
    /\ \/ Buffering("other", 0)
       \/ \E i \in DOMAIN msgs : Buffering("other", i) \/ Buffering("message.updated", i)

Asked ==
    /\ \A q \in reqs' : q \in reqs \/ q \in Opening \/ (q \in Sending /\ q.at = now)
    /\ \A q \in reqs : q.op = "direct" \/ q \in reqs'

Calm ==
    /\ SameMessages /\ Notified /\ Asked
    /\ UNCHANGED <<now, got, cursor, breaks, start, lost>>
    /\ \A i \in DOMAIN msgs : In(Watcher, msgs[i].room)' => In(Watcher, msgs[i].room)

LEMMA CalmTyped ==
    ASSUME ChatTypeOK, Calm
    PROVE  /\ msgs' \in Seq(Message) /\ Len(msgs') <= MaxMsgs /\ DOMAIN msgs' = DOMAIN msgs
           /\ now' \in 0 .. MaxTime
           /\ reqs' \subseteq Opening \cup Sending \cup Announcing
           /\ \A q \in reqs' : q.op = "announce" => q.row \in DOMAIN msgs'
           /\ conn' \in Stream
           /\ \A k \in DOMAIN conn'.buf : conn'.buf[k].type \in Told => conn'.buf[k].row \in DOMAIN msgs'
           /\ got' \subseteq DOMAIN msgs' /\ lost' \subseteq DOMAIN msgs'
           /\ cursor' \in Place /\ start' \in Int /\ breaks' \in 0 .. MaxBreaks
<1>1. msgs' \in Seq(Message) /\ Len(msgs') <= MaxMsgs /\ DOMAIN msgs' = DOMAIN msgs
  <2>1. msgs' \in Seq(Message) /\ Len(msgs') = Len(msgs)
    BY DEF Calm, SameMessages
  <2> QED BY <2>1, LenProperties DEF ChatTypeOK
<1>2. reqs' \subseteq Opening \cup Sending \cup Announcing
  BY DEF Calm, Asked, ChatTypeOK
<1>3. \A q \in reqs' : q.op = "announce" => q.row \in DOMAIN msgs'
  BY <1>1 DEF Calm, Asked, ChatTypeOK, Opening, Sending
<1>4. /\ conn' \in Stream
      /\ \A k \in DOMAIN conn'.buf : conn'.buf[k].type \in Told => conn'.buf[k].row \in DOMAIN msgs'
  <2>1. conn' \in Stream /\ DOMAIN msgs \subseteq 0 .. MaxMsgs /\ 0 \in 0 .. MaxMsgs
    BY ChatBasics DEF Calm, Notified
  <2>2. PICK type \in {"other", "message.updated"}, i \in 0 .. MaxMsgs :
            Buffering(type, i) /\ (type \in Told => i \in DOMAIN msgs)
    BY <2>1 DEF Calm, Notified, Told
  <2> QED BY <1>1, <2>1, <2>2, BufferedRows DEF Told
<1> QED BY <1>1, <1>2, <1>3, <1>4 DEF Calm, ChatTypeOK

\* What is due and not yet published is of the last second there is.
LEMMA PendingIsLatest ==
    ASSUME ChatTypeOK, ClockInv, NEW i \in DOMAIN msgs, Pending(i), i \notin lost, NEW j \in DOMAIN msgs
    PROVE  msgs[j].at <= msgs[i].at
<1>1. msgs[i].at \in Nat /\ msgs[j].at \in Nat /\ i \in Nat /\ j \in Nat
  BY MessageFields DEF ChatTypeOK
<1>2. CASE j < i
  BY <1>1, <1>2 DEF ClockInv
<1>3. CASE i < j
  BY <1>1, <1>3 DEF ClockInv
<1>4. CASE i = j
  BY <1>1, <1>4
<1> QED BY <1>1, <1>2, <1>3, <1>4

LEMMA CalmClock ==
    ASSUME ChatTypeOK, ClockInv, Calm
    PROVE  ClockInv'
<1>1. DOMAIN msgs' = DOMAIN msgs /\ \A i \in DOMAIN msgs : msgs'[i].at = msgs[i].at /\ msgs[i].at \in Nat
  BY CalmTyped, MessageFields DEF Calm, SameMessages
<1>2. /\ \A q \in reqs' : q.op = "send" => q \in reqs \/ q.at = now
      /\ \A i \in DOMAIN msgs : Pending(i)' => Pending(i)
      /\ now' = now /\ lost' = lost /\ now \in Nat
  BY DEF Calm, Asked, Opening, Sending, Pending, ChatTypeOK
<1>3. \A i \in DOMAIN msgs : msgs[i].at <= now
  BY DEF ClockInv
<1>4. \A q \in reqs' : q.op = "send" => \A i \in DOMAIN msgs : msgs[i].at > q.at => q.crossed
  BY <1>1, <1>2, <1>3 DEF ClockInv
<1>5. \A q \in reqs' : q.op = "send" => q.at <= now
  BY <1>2 DEF ClockInv
<1>6. \A i, j \in DOMAIN msgs : i < j /\ msgs[i].at > msgs[j].at => j \in lost
  BY DEF ClockInv
<1>7. \A i, j \in DOMAIN msgs : Pending(i)' /\ i < j /\ msgs[i].at # msgs[j].at => i \in lost
  BY <1>2 DEF ClockInv
<1> QED BY <1>1, <1>2, <1>3, <1>4, <1>5, <1>6, <1>7 DEF ClockInv

LEMMA CalmStream ==
    ASSUME ChatTypeOK, ClockInv, StreamInv, Calm
    PROVE  StreamInv'
<1>1. /\ DOMAIN msgs' = DOMAIN msgs /\ Len(msgs') = Len(msgs)
      /\ \A i \in DOMAIN msgs : /\ msgs'[i].at = msgs[i].at /\ msgs'[i].room = msgs[i].room
                                /\ msgs'[i].live => msgs[i].live
  BY CalmTyped DEF Calm, SameMessages
<1>2. /\ UNCHANGED <<got, cursor, start, lost>>
      /\ conn'.st = conn.st /\ conn'.cur = conn.cur /\ conn'.more = conn.more
  BY DEF Calm, Notified
<1>3. \A i \in DOMAIN msgs : Due(i)' => Due(i)
  BY <1>1, <1>2 DEF Calm, Due, Owed, Shown
<1>4. \A i \in DOMAIN msgs : Pending(i)' <=> Pending(i)
  BY DEF Calm, Asked, Opening, Sending, Pending
<1>5. \A c : Backed(c) => Backed(c)'
  BY <1>1, <1>2 DEF Backed
<1>6. \A c : Ahead(c) => Ahead(c)'
  BY <1>1, <1>3 DEF Ahead, After
<1>7. /\ Backed(cursor)' /\ Ahead(cursor)'
      /\ conn'.st = "replay" => Backed(conn.cur)' /\ Ahead(conn.cur)'
  <2>1. /\ Backed(cursor) /\ Ahead(cursor)
        /\ conn.st = "replay" => Backed(conn.cur) /\ Ahead(conn.cur)
    BY DEF StreamInv
  <2>2. PICK c, d : c = cursor /\ d = conn.cur
    OBVIOUS
  <2>3. Backed(c)' /\ Ahead(c)' /\ (conn.st = "replay" => Backed(d)' /\ Ahead(d)')
    BY <1>5, <1>6, <2>1, <2>2
  <2>4. cursor' = c /\ conn'.cur = d
    BY <1>2, <2>2
  <2> QED BY <1>2, <2>3, <2>4 DEF Backed, Ahead, After
<1> DEFINE b == conn.buf
<1>8. b \in Seq(Event) /\ DOMAIN b = 1 .. Len(b) /\ Len(b) \in Nat
  BY LenProperties DEF ChatTypeOK, Stream
<1>9. PICK type \in {"other", "message.updated"}, m \in 0 .. MaxMsgs :
          Buffering(type, m) /\ (type \in Told => m \in DOMAIN msgs)
  <2>1. DOMAIN msgs \subseteq 0 .. MaxMsgs /\ 0 \in 0 .. MaxMsgs
    BY ChatBasics
  <2> QED BY <2>1 DEF Calm, Notified, Told
<1>10. PICK e \in Event : e = [type |-> type, row |-> m] /\ e.type = type /\ e.row = m
  <2> DEFINE x == [type |-> type, row |-> m]
  <2>1. x \in Event
    BY DEF Event, Told
  <2>2. x = [type |-> type, row |-> m] /\ x.type = type /\ x.row = m
    OBVIOUS
  <2> HIDE DEF x
  <2> QED BY <2>1, <2>2
<1>11. \/ conn'.buf = conn.buf
       \/ /\ DOMAIN conn'.buf = 1 .. (Len(conn.buf) + 1) /\ Len(conn'.buf) = Len(conn.buf) + 1
          /\ \A k \in DOMAIN conn.buf : conn'.buf[k] = conn.buf[k]
          /\ conn'.buf[Len(conn.buf) + 1] = e
  BY <1>8, <1>9, <1>10, AppendFacts DEF Buffering
<1>12. \A i \in DOMAIN msgs : Buffered(i) => Buffered(i)'
  <2> SUFFICES ASSUME NEW i \in DOMAIN msgs, NEW k \in DOMAIN conn.buf, conn.buf[k] = [type |-> "message.created", row |-> i]
               PROVE  \E l \in DOMAIN conn'.buf : conn'.buf[l] = [type |-> "message.created", row |-> i]
    BY DEF Buffered
  <2>1. k \in DOMAIN conn'.buf /\ conn'.buf[k] = conn.buf[k]
    BY <1>8, <1>11
  <2> QED BY <2>1
<1>13. conn'.st = "live" \/ (conn'.st = "replay" /\ ~conn'.more) =>
          \A i \in DOMAIN msgs : Due(i)' => Pending(i)' \/ Buffered(i)'
  BY <1>2, <1>3, <1>4, <1>12 DEF StreamInv
<1>14. BufferInOrder'
  <2> SUFFICES ASSUME NEW k \in DOMAIN conn'.buf, conn'.buf[k].type \in Told, NEW i \in DOMAIN msgs, Due(i),
                      Pending(i) \/ \E l \in k .. Len(conn'.buf) : conn'.buf[l] = Created(i)
               PROVE  msgs[conn'.buf[k].row].at <= msgs[i].at
    <3>1. \A k \in DOMAIN conn'.buf : conn'.buf[k].type \in Told => conn'.buf[k].row \in DOMAIN msgs
      BY <1>1, CalmTyped
    <3> QED BY <1>1, <1>3, <1>4, <3>1 DEF BufferInOrder, Created
  <2>1. CASE conn'.buf = conn.buf
    BY <2>1 DEF StreamInv, BufferInOrder
  <2>2. CASE /\ DOMAIN conn'.buf = 1 .. (Len(conn.buf) + 1) /\ Len(conn'.buf) = Len(conn.buf) + 1
             /\ \A j \in DOMAIN conn.buf : conn'.buf[j] = conn.buf[j]
             /\ conn'.buf[Len(conn.buf) + 1] = e
    <3>1. e # Created(i)
      BY <1>10 DEF Created
    <3>2. CASE k = Len(conn.buf) + 1
      <4>1. Pending(i)
        BY <1>8, <2>2, <3>1, <3>2
      <4>2. e.row \in DOMAIN msgs
        BY <1>9, <1>10, <2>2, <3>2
      <4> QED BY <2>2, <3>2, <4>1, <4>2, PendingIsLatest DEF Due
    <3>3. CASE k \in DOMAIN conn.buf
      <4>1. conn.buf[k].type \in Told /\ conn'.buf[k] = conn.buf[k]
        BY <2>2, <3>3
      <4>2. Pending(i) \/ \E l \in k .. Len(conn.buf) : conn.buf[l] = Created(i)
        <5>1. ASSUME NEW l \in k .. Len(conn'.buf), conn'.buf[l] = Created(i)
              PROVE  l \in k .. Len(conn.buf) /\ conn.buf[l] = Created(i)
          BY <1>8, <2>2, <3>1, <3>3, <5>1
        <5> QED BY <5>1
      <4> QED BY <3>3, <4>1, <4>2 DEF StreamInv, BufferInOrder
    <3> QED BY <1>8, <2>2, <3>2, <3>3
  <2> QED BY <1>11, <2>1, <2>2
<1> QED BY <1>2, <1>7, <1>13, <1>14, <1>1 DEF StreamInv

LEMMA SameRooms ==
    ASSUME ChatTypeOK, SameMessages
    PROVE  /\ DOMAIN msgs' = DOMAIN msgs
           /\ \A r \in Rooms : InRoom(r)' = InRoom(r) /\ Count(r)' = Count(r) /\ \A i : Rank(r, i)' = Rank(r, i)
<1>1. DOMAIN msgs' = DOMAIN msgs
  BY LenProperties DEF SameMessages, ChatTypeOK
<1>2. \A r \in Rooms : InRoom(r)' = InRoom(r)
  BY <1>1 DEF SameMessages, InRoom
<1> QED BY <1>1, <1>2 DEF Count, Rank

\* The invariants about rooms, for a step that says of the rooms no more than this.
LEMMA CalmRooms ==
    ASSUME ChatTypeOK, RoomsOpened, Numbered, Calm,
           \A s \in Rooms : room'[s].kind = "none" => room[s].kind = "none" /\ ever'[s] = ever[s],
           \A s \in Rooms : ever'[s] = ever[s] \/ room[s].kind = "none",
           \A s \in Rooms, u \in Users : In(u, s)' => u \in ever'[s],
           \A s \in Rooms, u \in Users : ~In(u, s)' => room'[s].read[u] = 0,
           \A q \in reqs' : q.op = "send" => q \in reqs \/ q.user \in ever[q.room]
    PROVE  RoomsOpened' /\ Numbered'
<1>1. /\ DOMAIN msgs' = DOMAIN msgs
      /\ \A r \in Rooms : InRoom(r)' = InRoom(r) /\ Count(r)' = Count(r) /\ \A i : Rank(r, i)' = Rank(r, i)
  BY SameRooms DEF Calm
<1>2. \A i \in DOMAIN msgs : /\ msgs'[i].room = msgs[i].room /\ msgs'[i].by = msgs[i].by
                             /\ msgs'[i].seq = msgs[i].seq /\ msgs[i].room \in Rooms
  BY MessageFields DEF Calm, SameMessages
<1>3. \A s \in Rooms : ever[s] \subseteq ever'[s]
  BY DEF RoomsOpened
<1>4. RoomsOpened'
  <2>1. \A r \in Rooms : room'[r].kind = "none" => ever'[r] = {} /\ InRoom(r)' = {}
    BY <1>1 DEF RoomsOpened
  <2>2. \A i \in DOMAIN msgs' : msgs'[i].by \in ever'[msgs'[i].room]
    BY <1>1, <1>2, <1>3 DEF RoomsOpened
  <2>3. \A q \in reqs' : q.op = "send" => q.user \in ever'[q.room]
    <3> SUFFICES ASSUME NEW q \in reqs', q.op = "send" PROVE q.user \in ever'[q.room]
      OBVIOUS
    <3>1. q.user \in ever[q.room]
      BY DEF RoomsOpened
    <3>2. q.room \in Rooms
      BY CalmTyped DEF Opening, Sending, Announcing
    <3> QED BY <1>3, <3>1, <3>2
  <2> QED BY <2>1, <2>2, <2>3 DEF RoomsOpened
<1>5. Numbered'
  <2>1. \A r \in Rooms : \A i \in InRoom(r) : msgs'[i].seq = Rank(r, i)
    BY <1>2 DEF Numbered, InRoom
  <2>2. \A r \in Rooms : \A n \in 1 .. Count(r) : \E i \in InRoom(r) : msgs'[i].seq = n
    BY <1>2 DEF Numbered, InRoom
  <2> QED BY <1>1, <2>1, <2>2 DEF Numbered
<1> QED BY <1>4, <1>5

\* No direct room is opened, left or keyed.
LEMMA CalmDirect ==
    ASSUME ChatTypeOK, DirectInv, direct' = direct,
           \A s \in Rooms : room'[s].kind = "direct" <=> room[s].kind = "direct",
           \A s \in Rooms : room[s].kind = "direct" =>
               ever'[s] = ever[s] /\ \A u \in Users : In(u, s)' <=> In(u, s)
    PROVE  DirectInv'
<1>1. \A s \in Rooms : room[s].kind = "direct" => RoomUserIDs(s)' = RoomUserIDs(s)
  BY DEF In, RoomUserIDs
<1>2. \A k \in direct : k.room \in Rooms
  BY DEF ChatTypeOK, Key
<1> QED BY <1>1, <1>2 DEF DirectInv

Pushed(type, i) == conn' = conn \/ conn' = [conn EXCEPT !.buf = Append(@, [type |-> type, row |-> i])]

LEMMA PushedEffect ==
    ASSUME ChatTypeOK, NEW type \in Told \cup {"other"}, NEW i \in 0 .. MaxMsgs, Pushed(type, i)
    PROVE  /\ conn' \in Stream /\ conn'.st = conn.st /\ conn'.cur = conn.cur
           /\ conn'.sent = conn.sent /\ conn'.more = conn.more
           /\ Buffering(type, i)
<1>1. conn \in Stream
  BY DEF ChatTypeOK
<1> DEFINE e == [type |-> type, row |-> i]
           n == [conn EXCEPT !.buf = Append(@, e)]
<1>3. e \in Event /\ conn.buf \in Seq(Event)
  BY <1>1 DEF Event, Stream
<1> HIDE DEF e
<1>4. Append(conn.buf, e) \in Seq(Event)
  BY <1>3, AppendProperties
<1>5. n \in Stream /\ n.st = conn.st /\ n.cur = conn.cur /\ n.sent = conn.sent /\ n.more = conn.more
      /\ n.buf = Append(conn.buf, e)
  BY <1>1, <1>4 DEF Stream
<1>6. conn' = conn \/ conn' = n
  BY DEF Pushed, e
<1> HIDE DEF n
<1> QED BY <1>1, <1>5, <1>6 DEF e, Buffering

LEMMA PushNotifies ==
    ASSUME ChatTypeOK, Pushed("other", 0)
    PROVE  Notified
<1>1. "other" \in Told \cup {"other"} /\ 0 \in 0 .. MaxMsgs
  BY ChatBasics
<1> QED BY <1>1, PushedEffect DEF Notified

\* Nobody says anything and no row of a message changes.
LEMMA CalmWrite ==
    ASSUME ChatTypeOK, Notified, Asked, UNCHANGED <<msgs, now, got, cursor, breaks, start, lost>>,
           \A i \in DOMAIN msgs : In(Watcher, msgs[i].room)' => In(Watcher, msgs[i].room)
    PROVE  Calm
<1>1. SameMessages
  BY DEF SameMessages, ChatTypeOK
<1>2. \A i \in DOMAIN msgs : In(Watcher, msgs[i].room)' => In(Watcher, msgs[i].room)
  OBVIOUS
<1> QED BY <1>1, <1>2 DEF Calm

LEMMA CalmKeeps ==
    ASSUME ChatInv, Calm, room' \in [Rooms -> RoomRow], direct' \subseteq Key, ever' \in [Rooms -> SUBSET Users],
           RoomsOpened', Numbered', DirectInv'
    PROVE  ChatInv'
<1>1. ChatTypeOK'
  BY CalmTyped DEF ChatInv, ChatTypeOK
<1>2. ClockInv' /\ StreamInv'
  BY CalmClock, CalmStream DEF ChatInv
<1> QED BY <1>1, <1>2 DEF ChatInv

\* The rooms stay as they are.
LEMMA RoomsStay ==
    ASSUME ChatInv, Calm, UNCHANGED <<room, direct, ever>>,
           \A q \in reqs' : q.op = "send" => q \in reqs \/ q.user \in ever[q.room]
    PROVE  ChatInv'
<1>1. ChatTypeOK /\ RoomsOpened /\ Numbered /\ DirectInv
  BY DEF ChatInv
<1>2. \A s \in Rooms, u \in Users : In(u, s)' <=> In(u, s)
  BY DEF In, RoomUserIDs, participantRole
<1>3. \A s \in Rooms, u \in Users : In(u, s)' => u \in ever'[s]
  BY <1>1, <1>2 DEF RoomsOpened
<1>4. \A s \in Rooms, u \in Users : ~In(u, s)' => room'[s].read[u] = 0
  BY <1>1, <1>2 DEF RoomsOpened
<1>6. RoomsOpened' /\ Numbered'
  <2>1. \A s \in Rooms : ever'[s] = ever[s] \/ room[s].kind = "none"
    OBVIOUS
  <2>2. \A s \in Rooms : room'[s].kind = "none" => room[s].kind = "none" /\ ever'[s] = ever[s]
    OBVIOUS
  <2> QED BY <1>1, <1>3, <1>4, <2>1, <2>2, CalmRooms
<1>7. DirectInv'
  BY <1>1, <1>2, CalmDirect
<1> QED BY <1>1, <1>6, <1>7, CalmKeeps DEF ChatTypeOK

LEMMA GroupStepKeeps ==
    ASSUME ChatInv, NEW r \in Rooms, NEW creator \in Users, NEW us \in SUBSET (Users \ {creator}),
           CreateGroupRoom(r, creator, us)
    PROVE  ChatInv'
<1> DEFINE all == us \cup {creator}
<1>0. ChatTypeOK /\ RoomsOpened /\ Numbered /\ DirectInv /\ all \in SUBSET Users /\ creator \in all
  BY DEF ChatInv
<1>1. /\ AddRoom(r, "group", creator, all) /\ Push(Watcher \in all, "other", 0)
      /\ UNCHANGED <<direct, msgs, now, reqs, got, cursor, breaks, start, lost>>
  BY DEF CreateGroupRoom, clientVars, pastVars
<1> HIDE DEF all
<1>2. /\ room' \in [Rooms -> RoomRow] /\ ever' \in [Rooms -> SUBSET Users] /\ room[r].kind = "none"
      /\ \A s \in Rooms : s # r => room'[s] = room[s] /\ ever'[s] = ever[s]
      /\ room'[r].kind = "group" /\ ever'[r] = all
      /\ \A u \in Users : In(u, r)' <=> u \in all
      /\ \A u \in Users : room'[r].read[u] = 0
  BY <1>0, <1>1, AddRoomEffect
<1>3. \A s \in Rooms : s # r => \A u \in Users : In(u, s)' <=> In(u, s)
  BY <1>2 DEF In, RoomUserIDs, participantRole
<1>4. Calm
  <2>1. Notified
    <3>1. Pushed("other", 0)
      BY <1>1 DEF Push, Pushed
    <3> QED BY <1>0, <3>1, PushNotifies
  <2>2. \A i \in DOMAIN msgs : In(Watcher, msgs[i].room)' => In(Watcher, msgs[i].room)
    <3>1. \A i \in DOMAIN msgs : msgs[i].room \in Rooms /\ msgs[i].room # r
      BY <1>0, <1>2, MessageFields DEF RoomsOpened, InRoom
    <3> QED BY <1>0, <1>1, <1>3, <3>1, ChatBasics
  <2>3. Asked
    BY <1>1 DEF Asked
  <2> QED BY <1>0, <1>1, <2>1, <2>2, <2>3, CalmWrite
<1>5. RoomsOpened' /\ Numbered'
  <2>1. \A s \in Rooms, u \in Users : In(u, s)' => u \in ever'[s]
    BY <1>0, <1>2, <1>3 DEF RoomsOpened
  <2>2. \A s \in Rooms, u \in Users : ~In(u, s)' => room'[s].read[u] = 0
    BY <1>0, <1>2, <1>3 DEF RoomsOpened
  <2>4. \A q \in reqs' : q.op = "send" => q \in reqs \/ q.user \in ever[q.room]
    BY <1>1
  <2>5. \A s \in Rooms : room'[s].kind = "none" => room[s].kind = "none" /\ ever'[s] = ever[s]
    BY <1>2
  <2>6. \A s \in Rooms : ever'[s] = ever[s] \/ room[s].kind = "none"
    BY <1>2
  <2> QED BY <1>0, <1>4, <2>1, <2>2, <2>4, <2>5, <2>6, CalmRooms
<1>6. DirectInv'
  BY <1>0, <1>1, <1>2, <1>3, CalmDirect
<1> QED BY <1>0, <1>1, <1>2, <1>4, <1>5, <1>6, CalmKeeps DEF ChatTypeOK

LEMMA AskDirectKeeps ==
    ASSUME ChatInv, NEW u \in Users, NEW v \in Users, CreateOrGetDirect(u, v)
    PROVE  ChatInv'
<1>0. ChatTypeOK
  BY DEF ChatInv
<1> DEFINE q == [op |-> "direct", user |-> u, other |-> v]
<1>1. q \in Opening
  BY DEF Opening, CreateOrGetDirect
<1>2. /\ reqs' = reqs \cup {q}
      /\ UNCHANGED <<room, direct, msgs, now, conn, got, cursor, breaks, start, ever, lost>>
  BY DEF CreateOrGetDirect, clientVars, pastVars
<1> HIDE DEF q
<1>3. Calm
  <2>1. Notified
    BY <1>0, <1>2, PushNotifies DEF Pushed
  <2>2. Asked
    BY <1>1, <1>2 DEF Asked
  <2>3. \A i \in DOMAIN msgs : In(Watcher, msgs[i].room)' => In(Watcher, msgs[i].room)
    BY <1>2 DEF In, RoomUserIDs, participantRole
  <2> QED BY <1>0, <1>2, <2>1, <2>2, <2>3, CalmWrite
<1>4. \A p \in reqs' : p.op = "send" => p \in reqs \/ p.user \in ever[p.room]
  BY <1>1, <1>2 DEF Opening
<1> QED BY <1>2, <1>3, <1>4, RoomsStay

LEMMA DirectStepKeeps ==
    ASSUME ChatInv, NEW q \in reqs, NEW r \in Rooms, InsertDirect(q, r)
    PROVE  ChatInv'
<1>0. ChatTypeOK /\ RoomsOpened /\ Numbered /\ DirectInv
  BY DEF ChatInv
<1>1. q.op = "direct" /\ q.user \in Users /\ q.other \in Users
  BY <1>0 DEF InsertDirect, ChatTypeOK, Opening, Sending, Announcing
<1>2. PICK all \in SUBSET Users : all = {q.user, q.other}
  BY <1>1
<1>3. /\ AddRoom(r, "direct", q.user, all) /\ Push(Watcher \in all, "other", 0) /\ Keyed(all) = {}
      /\ direct' = direct \cup {[users |-> all, room |-> r]} /\ reqs' = reqs \ {q}
      /\ UNCHANGED <<msgs, now, got, cursor, breaks, start, lost>>
  BY <1>2 DEF InsertDirect, clientVars, pastVars
<1>4. /\ room' \in [Rooms -> RoomRow] /\ ever' \in [Rooms -> SUBSET Users] /\ room[r].kind = "none"
      /\ \A s \in Rooms : s # r => room'[s] = room[s] /\ ever'[s] = ever[s]
      /\ room'[r].kind = "direct" /\ ever'[r] = all
      /\ \A u \in Users : In(u, r)' <=> u \in all
      /\ \A u \in Users : room'[r].read[u] = 0
  BY <1>0, <1>1, <1>2, <1>3, AddRoomEffect
<1>5. \A s \in Rooms : s # r => \A u \in Users : In(u, s)' <=> In(u, s)
  BY <1>4 DEF In, RoomUserIDs, participantRole
<1>6. Calm
  <2>1. Notified
    <3>1. Pushed("other", 0)
      BY <1>3 DEF Push, Pushed
    <3> QED BY <1>0, <3>1, PushNotifies
  <2>2. \A i \in DOMAIN msgs : In(Watcher, msgs[i].room)' => In(Watcher, msgs[i].room)
    <3>1. \A i \in DOMAIN msgs : msgs[i].room \in Rooms /\ msgs[i].room # r
      BY <1>0, <1>4, MessageFields DEF RoomsOpened, InRoom
    <3> QED BY <1>0, <1>3, <1>5, <3>1, ChatBasics
  <2>3. Asked
    BY <1>1, <1>3 DEF Asked
  <2> QED BY <1>0, <1>3, <2>1, <2>2, <2>3, CalmWrite
<1>7. RoomsOpened' /\ Numbered'
  <2>1. \A s \in Rooms, u \in Users : In(u, s)' => u \in ever'[s]
    BY <1>0, <1>4, <1>5 DEF RoomsOpened
  <2>2. \A s \in Rooms, u \in Users : ~In(u, s)' => room'[s].read[u] = 0
    BY <1>0, <1>4, <1>5 DEF RoomsOpened
  <2>4. \A p \in reqs' : p.op = "send" => p \in reqs \/ p.user \in ever[p.room]
    BY <1>3
  <2>5. \A s \in Rooms : room'[s].kind = "none" => room[s].kind = "none" /\ ever'[s] = ever[s]
    BY <1>4
  <2>6. \A s \in Rooms : ever'[s] = ever[s] \/ room[s].kind = "none"
    BY <1>4
  <2> QED BY <1>0, <1>6, <2>1, <2>2, <2>4, <2>5, <2>6, CalmRooms
<1>8. DirectInv'
  <2> DEFINE key == [users |-> all, room |-> r]
  <2>1. key.users = all /\ key.room = r /\ direct' = direct \cup {key}
    BY <1>3
  <2>2. \A k \in direct : k.room \in Rooms /\ k.room # r /\ k.users # all
    BY <1>0, <1>3, <1>4 DEF DirectInv, ChatTypeOK, Key, Keyed
  <2>3. \A s \in Rooms : room'[s].kind = "direct" =>
          RoomUserIDs(s)' = ever'[s] /\ [users |-> ever'[s], room |-> s] \in direct'
    <3> SUFFICES ASSUME NEW s \in Rooms, room'[s].kind = "direct"
                 PROVE  RoomUserIDs(s)' = ever'[s] /\ [users |-> ever'[s], room |-> s] \in direct'
      OBVIOUS
    <3>1. CASE s = r
      <4>1. RoomUserIDs(r)' \subseteq Users /\ \A u \in Users : u \in RoomUserIDs(r)' <=> u \in all
        BY <1>4 DEF RoomUserIDs, In
      <4> QED BY <1>4, <2>1, <3>1, <4>1
    <3>2. CASE s # r
      <4>1. RoomUserIDs(s)' = RoomUserIDs(s)
        BY <1>4, <3>2 DEF RoomUserIDs, participantRole
      <4> QED BY <1>0, <1>4, <2>1, <3>2, <4>1 DEF DirectInv
    <3> QED BY <3>1, <3>2
  <2>4. \A k \in direct' : room'[k.room].kind = "direct" /\ k.users = ever'[k.room]
    BY <1>0, <1>4, <2>1, <2>2 DEF DirectInv
  <2>5. \A k, l \in direct' : k.users = l.users => k = l
    BY <1>0, <2>1, <2>2 DEF DirectInv
  <2> QED BY <2>3, <2>4, <2>5 DEF DirectInv
<1>9. direct' \subseteq Key
  BY <1>0, <1>3 DEF ChatTypeOK, Key
<1> QED BY <1>4, <1>6, <1>7, <1>8, <1>9, CalmKeeps

LEMMA RefusedKeeps ==
    ASSUME ChatInv, NEW q \in reqs, DirectRefused(q)
    PROVE  ChatInv'
<1>0. ChatTypeOK
  BY DEF ChatInv
<1>1. /\ q.op = "direct" /\ reqs' = reqs \ {q}
      /\ UNCHANGED <<room, direct, msgs, now, conn, got, cursor, breaks, start, ever, lost>>
  BY DEF DirectRefused, clientVars, pastVars
<1>2. Calm
  <2>1. Notified
    BY <1>0, <1>1, PushNotifies DEF Pushed
  <2>2. Asked
    BY <1>1 DEF Asked
  <2>3. \A i \in DOMAIN msgs : In(Watcher, msgs[i].room)' => In(Watcher, msgs[i].room)
    BY <1>1 DEF In, RoomUserIDs, participantRole
  <2> QED BY <1>0, <1>1, <2>1, <2>2, <2>3, CalmWrite
<1> QED BY <1>1, <1>2, RoomsStay

\* How many messages a room has, and that no number is larger.
LEMMA Counted ==
    ASSUME ChatTypeOK, NEW r \in Rooms
    PROVE  /\ InRoom(r) \subseteq DOMAIN msgs /\ IsFiniteSet(InRoom(r))
           /\ Count(r) \in 0 .. Len(msgs)
           /\ \A i \in InRoom(r) : Rank(r, i) \in 1 .. Count(r)
<1>1. IsFiniteSet(1 .. Len(msgs)) /\ Cardinality(1 .. Len(msgs)) = Len(msgs) /\ DOMAIN msgs = 1 .. Len(msgs)
      /\ Len(msgs) \in Nat
  <2>1. DOMAIN msgs = 1 .. Len(msgs) /\ Len(msgs) \in Nat
    BY ChatBasics
  <2>2. IsFiniteSet(1 .. Len(msgs)) /\ Cardinality(1 .. Len(msgs)) = Len(msgs)
    <3>1. PICK n \in Nat : n = Len(msgs)
      BY <2>1
    <3>2. IsFiniteSet(1 .. n) /\ Cardinality(1 .. n) = (IF 1 > n THEN 0 ELSE n - 1 + 1)
      BY FS_Interval
    <3> QED BY <3>1, <3>2
  <2> QED BY <2>1, <2>2
<1>2. InRoom(r) \subseteq DOMAIN msgs
  BY DEF InRoom
<1>3. IsFiniteSet(InRoom(r)) /\ Cardinality(InRoom(r)) <= Len(msgs)
  BY <1>1, <1>2, FS_Subset
<1>4. Count(r) \in Nat
  BY <1>3, FS_CardinalityType DEF Count
<1>5. ASSUME NEW i \in InRoom(r) PROVE Rank(r, i) \in 1 .. Count(r)
  <2> DEFINE S == {j \in InRoom(r) : j <= i}
  <2>1. S \subseteq InRoom(r) /\ i \in S
    BY <1>1, <1>2, <1>5
  <2>2. IsFiniteSet(S) /\ Cardinality(S) <= Count(r) /\ Cardinality(S) \in Nat
    BY <1>3, <2>1, FS_Subset, FS_CardinalityType DEF Count
  <2>3. Cardinality(S) # 0
    BY <2>1, <2>2, FS_EmptySet
  <2> QED BY <1>4, <2>2, <2>3 DEF Rank
<1> QED BY <1>1, <1>2, <1>3, <1>4, <1>5 DEF Count

LEMMA RenameKeeps ==
    ASSUME ChatInv, NEW u \in Users, NEW r \in Rooms, RenameRoom(u, r)
    PROVE  ChatInv'
<1>0. ChatTypeOK
  BY DEF ChatInv
<1>1. /\ Push(In(Watcher, r), "other", 0)
      /\ UNCHANGED <<room, direct, msgs, now, reqs, got, cursor, breaks, start, ever, lost>>
  BY DEF RenameRoom, clientVars, pastVars
<1>2. Calm
  <2>1. Notified
    <3>1. Pushed("other", 0)
      BY <1>1 DEF Push, Pushed
    <3> QED BY <1>0, <3>1, PushNotifies
  <2>2. Asked
    BY <1>1 DEF Asked
  <2>3. \A i \in DOMAIN msgs : In(Watcher, msgs[i].room)' => In(Watcher, msgs[i].room)
    BY <1>1 DEF In, RoomUserIDs, participantRole
  <2> QED BY <1>0, <1>1, <2>1, <2>2, <2>3, CalmWrite
<1> QED BY <1>1, <1>2, RoomsStay

LEMMA LeaveKeeps ==
    ASSUME ChatInv, NEW u \in Users, NEW r \in Rooms, LeaveRoom(u, r)
    PROVE  ChatInv'
<1>0. ChatTypeOK /\ RoomsOpened /\ Numbered /\ DirectInv
  BY DEF ChatInv
<1>1. /\ Push(In(Watcher, r), "other", 0)
      /\ UNCHANGED <<direct, msgs, now, reqs, got, cursor, breaks, start, ever, lost>>
  BY DEF LeaveRoom, clientVars, pastVars
<1>2. /\ room' \in [Rooms -> RoomRow] /\ room[r].kind = "group"
      /\ \A s \in Rooms : s # r => room'[s] = room[s]
      /\ room'[r].kind = "group"
      /\ \A v \in Users : In(v, r)' <=> In(v, r) /\ v # u
      /\ \A v \in Users : room'[r].read[v] = IF v = u THEN 0 ELSE room[r].read[v]
  BY <1>0, LeaveEffect
<1>3. \A s \in Rooms : s # r => \A v \in Users : In(v, s)' <=> In(v, s)
  BY <1>2 DEF In, RoomUserIDs, participantRole
<1>4. \A s \in Rooms, v \in Users : In(v, s)' => In(v, s)
  BY <1>2, <1>3
<1>5. Calm
  <2>1. Notified
    <3>1. Pushed("other", 0)
      BY <1>1 DEF Push, Pushed
    <3> QED BY <1>0, <3>1, PushNotifies
  <2>2. Asked
    BY <1>1 DEF Asked
  <2>3. \A i \in DOMAIN msgs : In(Watcher, msgs[i].room)' => In(Watcher, msgs[i].room)
    BY <1>0, <1>1, <1>4, MessageFields, ChatBasics
  <2> QED BY <1>0, <1>1, <2>1, <2>2, <2>3, CalmWrite
<1>6. RoomsOpened' /\ Numbered'
  <2>1. \A s \in Rooms, v \in Users : In(v, s)' => v \in ever'[s]
    BY <1>0, <1>1, <1>4 DEF RoomsOpened
  <2>2. \A s \in Rooms, v \in Users : ~In(v, s)' => room'[s].read[v] = 0
    BY <1>0, <1>2, <1>3 DEF RoomsOpened
  <2>4. \A q \in reqs' : q.op = "send" => q \in reqs \/ q.user \in ever[q.room]
    BY <1>1
  <2>5. \A s \in Rooms : room'[s].kind = "none" => room[s].kind = "none" /\ ever'[s] = ever[s]
    BY <1>1, <1>2
  <2>6. \A s \in Rooms : ever'[s] = ever[s] \/ room[s].kind = "none"
    BY <1>1
  <2> QED BY <1>0, <1>5, <2>1, <2>2, <2>4, <2>5, <2>6, CalmRooms
<1>7. DirectInv'
  BY <1>0, <1>1, <1>2, <1>3, CalmDirect
<1> QED BY <1>0, <1>1, <1>2, <1>5, <1>6, <1>7, CalmKeeps DEF ChatTypeOK

LEMMA MarkTo ==
    ASSUME ChatTypeOK, Numbered, NEW u \in Users, NEW r \in Rooms, NEW seq \in Marks, MarkRead(u, r, seq)
    PROVE  \E to \in Marks : room[r].read[u] <= to /\ MarkedTo(r, u, to)
<1>0. Count(r) \in Nat /\ Count(r) <= MaxMsgs /\ MaxMsgs \in Nat
  BY Counted, ChatBasics
<1> DEFINE S == {msgs[i].seq : i \in {j \in InRoom(r) : Shown(j)}}
<1>1. Largest(S) \in 0 .. Count(r)
  <2>1. S \in SUBSET (0 .. Count(r))
    BY <1>0, Counted DEF Numbered
  <2> HIDE DEF S
  <2> QED BY <1>0, <2>1, LargestOf
<1>2. room' = [room EXCEPT ![r].read[u] = Largest({@, IF seq > 0 THEN seq ELSE Largest(S)})]
  BY DEF MarkRead
<1> HIDE DEF S
<1>3. PICK n \in Marks : n = IF seq > 0 THEN seq ELSE Largest(S)
  BY <1>0, <1>1 DEF Marks
<1>4. PICK old \in Marks : old = room[r].read[u]
  BY DEF ChatTypeOK, RoomRow
<1>5. MarkedTo(r, u, Largest({old, n}))
  BY <1>2, <1>3, <1>4 DEF MarkedTo
<1>6. Largest({old, n}) \in Marks /\ old <= Largest({old, n})
  <2>1. PICK top \in Nat : top = MaxMsgs + 1
    BY <1>0
  <2>2. {old, n} \in SUBSET (0 .. top) /\ old \in {old, n}
    BY <2>1 DEF Marks
  <2>3. Largest({old, n}) \in 0 .. top /\ old <= Largest({old, n})
    BY <2>2, LargestOf
  <2> QED BY <2>1, <2>3 DEF Marks
<1> QED BY <1>4, <1>5, <1>6

LEMMA MarkKeeps ==
    ASSUME ChatInv, NEW u \in Users, NEW r \in Rooms, NEW seq \in Marks, MarkRead(u, r, seq)
    PROVE  ChatInv'
<1>0. ChatTypeOK /\ RoomsOpened /\ Numbered /\ DirectInv
  BY DEF ChatInv
<1>1. /\ Push(In(Watcher, r), "other", 0) /\ In(u, r)
      /\ UNCHANGED <<direct, msgs, now, reqs, got, cursor, breaks, start, ever, lost>>
  BY DEF MarkRead, clientVars, pastVars
<1>2. PICK to \in Marks : MarkedTo(r, u, to)
  BY <1>0, MarkTo
<1>4. /\ room' \in [Rooms -> RoomRow]
      /\ \A s \in Rooms : s # r => room'[s] = room[s]
      /\ room'[r].kind = room[r].kind
      /\ \A s \in Rooms, v \in Users : In(v, s)' <=> In(v, s)
      /\ \A v \in Users : room'[r].read[v] = IF v = u THEN to ELSE room[r].read[v]
  BY <1>0, <1>2, ReadEffect
<1>5. Calm
  <2>1. Notified
    <3>1. Pushed("other", 0)
      BY <1>1 DEF Push, Pushed
    <3> QED BY <1>0, <3>1, PushNotifies
  <2>2. Asked
    BY <1>1 DEF Asked
  <2>3. \A i \in DOMAIN msgs : In(Watcher, msgs[i].room)' => In(Watcher, msgs[i].room)
    BY <1>0, <1>1, <1>4, MessageFields, ChatBasics
  <2> QED BY <1>0, <1>1, <2>1, <2>2, <2>3, CalmWrite
<1>6. RoomsOpened' /\ Numbered'
  <2>1. \A s \in Rooms, v \in Users : In(v, s)' => v \in ever'[s]
    BY <1>0, <1>1, <1>4 DEF RoomsOpened
  <2>2. \A s \in Rooms, v \in Users : ~In(v, s)' => room'[s].read[v] = 0
    BY <1>0, <1>1, <1>4 DEF RoomsOpened
  <2>4. \A q \in reqs' : q.op = "send" => q \in reqs \/ q.user \in ever[q.room]
    BY <1>1
  <2>5. \A s \in Rooms : room'[s].kind = "none" => room[s].kind = "none" /\ ever'[s] = ever[s]
    BY <1>1, <1>4
  <2>6. \A s \in Rooms : ever'[s] = ever[s] \/ room[s].kind = "none"
    BY <1>1
  <2> QED BY <1>0, <1>5, <2>1, <2>2, <2>4, <2>5, <2>6, CalmRooms
<1>7. DirectInv'
  BY <1>0, <1>1, <1>4, CalmDirect
<1> QED BY <1>0, <1>1, <1>4, <1>5, <1>6, <1>7, CalmKeeps DEF ChatTypeOK

LEMMA SendKeeps ==
    ASSUME ChatInv, NEW u \in Users, NEW r \in Rooms, SendMessage(u, r)
    PROVE  ChatInv'
<1>0. ChatTypeOK /\ RoomsOpened
  BY DEF ChatInv
<1> DEFINE q == [op |-> "send", user |-> u, room |-> r, at |-> now, crossed |-> FALSE]
<1>1. /\ reqs' = reqs \cup {q} /\ In(u, r)
      /\ UNCHANGED <<room, direct, msgs, now, conn, got, cursor, breaks, start, ever, lost>>
  BY DEF SendMessage, clientVars, pastVars
<1>2. q \in Sending /\ q.at = now /\ q.user = u /\ q.room = r
  BY <1>0 DEF Sending, ChatTypeOK
<1> HIDE DEF q
<1>3. Calm
  <2>1. Notified
    BY <1>0, <1>1, PushNotifies DEF Pushed
  <2>2. Asked
    BY <1>1, <1>2 DEF Asked
  <2>3. \A i \in DOMAIN msgs : In(Watcher, msgs[i].room)' => In(Watcher, msgs[i].room)
    BY <1>1 DEF In, RoomUserIDs, participantRole
  <2> QED BY <1>0, <1>1, <2>1, <2>2, <2>3, CalmWrite
<1>4. \A p \in reqs' : p.op = "send" => p \in reqs \/ p.user \in ever[p.room]
  BY <1>0, <1>1, <1>2 DEF RoomsOpened
<1> QED BY <1>1, <1>3, <1>4, RoomsStay

LEMMA EditKeeps ==
    ASSUME ChatInv, NEW u \in Users, NEW i \in DOMAIN msgs, EditMessage(u, i)
    PROVE  ChatInv'
<1>0. ChatTypeOK
  BY DEF ChatInv
<1>1. /\ Push(In(Watcher, msgs[i].room), "message.updated", i)
      /\ UNCHANGED <<room, direct, msgs, now, reqs, got, cursor, breaks, start, ever, lost>>
  BY DEF EditMessage, clientVars, pastVars
<1>2. Calm
  <2>1. Notified
    <3>1. Pushed("message.updated", i)
      BY <1>1 DEF Push, Pushed
    <3>2. "message.updated" \in Told \cup {"other"} /\ i \in 0 .. MaxMsgs
      BY <1>0, ChatBasics DEF Told
    <3> QED BY <1>0, <3>1, <3>2, PushedEffect DEF Notified
  <2>2. Asked
    BY <1>1 DEF Asked
  <2>3. \A j \in DOMAIN msgs : In(Watcher, msgs[j].room)' => In(Watcher, msgs[j].room)
    BY <1>1 DEF In, RoomUserIDs, participantRole
  <2> QED BY <1>0, <1>1, <2>1, <2>2, <2>3, CalmWrite
<1> QED BY <1>1, <1>2, RoomsStay

LEMMA DeletedRow ==
    ASSUME ChatTypeOK, NEW i \in DOMAIN msgs, msgs' = [msgs EXCEPT ![i].live = FALSE]
    PROVE  /\ SameMessages /\ DOMAIN msgs' = DOMAIN msgs /\ msgs'[i].live = FALSE
           /\ \A j \in DOMAIN msgs : j # i => msgs'[j] = msgs[j]
<1> DEFINE m == [msgs[i] EXCEPT !.live = FALSE]
<1>1. msgs[i] \in Message
  BY ChatBasics
<1>2. /\ m \in Message /\ m.room = msgs[i].room /\ m.by = msgs[i].by /\ m.seq = msgs[i].seq /\ m.at = msgs[i].at
      /\ m.live = FALSE
  BY <1>1 DEF Message
<1>3. msgs' = [msgs EXCEPT ![i] = m]
  OBVIOUS
<1> HIDE DEF m
<1>4. msgs' \in Seq(Message) /\ Len(msgs') = Len(msgs)
  <2>1. i \in 1 .. Len(msgs) /\ msgs \in Seq(Message)
    BY ChatBasics DEF ChatTypeOK
  <2>2. m \in Message
    BY <1>2
  <2>3. [msgs EXCEPT ![i] = m] \in Seq(Message) /\ Len([msgs EXCEPT ![i] = m]) = Len(msgs)
    BY <2>1, <2>2, ExceptSeq
  <2> QED BY <1>3, <2>3
<1>5. DOMAIN msgs' = DOMAIN msgs /\ msgs'[i] = m /\ \A j \in DOMAIN msgs : j # i => msgs'[j] = msgs[j]
  BY <1>3
<1> QED BY <1>2, <1>4, <1>5 DEF SameMessages

LEMMA DeleteKeeps ==
    ASSUME ChatInv, NEW u \in Users, NEW i \in DOMAIN msgs, DeleteMessage(u, i)
    PROVE  ChatInv'
<1>0. ChatTypeOK
  BY DEF ChatInv
<1>1. /\ Push(In(Watcher, msgs[i].room), "other", 0) /\ msgs' = [msgs EXCEPT ![i].live = FALSE]
      /\ UNCHANGED <<room, direct, now, reqs, got, cursor, breaks, start, ever, lost>>
  BY DEF DeleteMessage, clientVars, pastVars
<1>2. SameMessages
  BY <1>0, <1>1, DeletedRow
<1>3. Calm
  <2>1. Notified
    <3>1. Pushed("other", 0)
      BY <1>1 DEF Push, Pushed
    <3> QED BY <1>0, <3>1, PushNotifies
  <2>2. Asked
    BY <1>1 DEF Asked
  <2>3. \A j \in DOMAIN msgs : In(Watcher, msgs[j].room)' => In(Watcher, msgs[j].room)
    BY <1>1, <1>2 DEF In, RoomUserIDs, participantRole, SameMessages
  <2> QED BY <1>1, <1>2, <2>1, <2>2, <2>3 DEF Calm
<1> QED BY <1>1, <1>3, RoomsStay

-----------------------------------------------------------------------------
(* Chat: storing a message. *)

LEMMA NextNumber ==
    ASSUME ChatTypeOK, Numbered, NEW r \in Rooms
    PROVE  Largest({msgs[i].seq : i \in InRoom(r)}) = Count(r)
<1> DEFINE S == {msgs[i].seq : i \in InRoom(r)}
<1>1. Count(r) \in Nat
  BY Counted, ChatBasics
<1>2. S \in SUBSET (0 .. Count(r)) /\ (Count(r) > 0 => Count(r) \in S) /\ (Count(r) = 0 => S = {})
  BY <1>1, Counted DEF Numbered
<1> HIDE DEF S
<1>3. Largest(S) = Count(r)
  <2>1. CASE Count(r) > 0
    <3>1. PICK c \in Nat : c = Count(r) /\ c \in S /\ S \in SUBSET (0 .. c) /\ \A k \in S : k <= c
      BY <1>1, <1>2, <2>1
    <3>2. Largest(S) = c
      BY <3>1, LargestIs
    <3> QED BY <3>1, <3>2
  <2>2. CASE Count(r) = 0
    BY <1>1, <1>2, <2>2, LargestOf
  <2> QED BY <1>1, <2>1, <2>2
<1> QED BY <1>3 DEF S

LEMMA SendFields ==
    ASSUME ChatTypeOK, NEW q \in reqs, q.op = "send"
    PROVE  /\ q \in Sending /\ q.user \in Users /\ q.room \in Rooms /\ q.at \in 0 .. MaxTime /\ q.crossed \in BOOLEAN
  BY DEF ChatTypeOK, Opening, Sending, Announcing

\* The table of messages with one row more.
LEMMA StoredRow ==
    ASSUME ChatInv, NEW q \in reqs, AppendMessage(q), NEW n, n = Len(msgs) + 1
    PROVE  /\ n \in 1 .. MaxMsgs /\ n \notin DOMAIN msgs /\ \A i \in DOMAIN msgs : i < n
           /\ msgs' \in Seq(Message) /\ Len(msgs') = n /\ DOMAIN msgs' = DOMAIN msgs \cup {n}
           /\ \A i \in DOMAIN msgs : msgs'[i] = msgs[i]
           /\ msgs'[n].room = q.room /\ msgs'[n].by = q.user /\ msgs'[n].seq = Count(q.room) + 1
           /\ msgs'[n].at = q.at /\ msgs'[n].live = TRUE
<1>0. ChatTypeOK /\ Numbered /\ q.op = "send"
  BY DEF ChatInv, AppendMessage
<1>1. /\ q.user \in Users /\ q.room \in Rooms /\ q.at \in 0 .. MaxTime
  BY <1>0, SendFields
<1>2. Count(q.room) \in 0 .. Len(msgs) /\ Len(msgs) \in Nat /\ Len(msgs) < MaxMsgs /\ MaxMsgs \in Nat
  BY <1>0, <1>1, Counted, ChatBasics DEF AppendMessage, Insert
<1> DEFINE m == [room |-> q.room, by |-> q.user, seq |-> Count(q.room) + 1, at |-> q.at, live |-> TRUE]
<1>3. m \in Message
  BY <1>1, <1>2 DEF Message
<1>4. msgs' = Append(msgs, m)
  <2>1. Largest({msgs[i].seq : i \in InRoom(q.room)}) = Count(q.room)
    BY <1>0, <1>1, NextNumber
  <2> QED BY <2>1 DEF AppendMessage, Insert
<1>5. /\ m.room = q.room /\ m.by = q.user /\ m.seq = Count(q.room) + 1 /\ m.at = q.at /\ m.live = TRUE
  OBVIOUS
<1> HIDE DEF m
<1>6. /\ msgs' \in Seq(Message) /\ Len(msgs') = n /\ DOMAIN msgs = 1 .. Len(msgs) /\ DOMAIN msgs' = 1 .. n
      /\ \A i \in DOMAIN msgs : msgs'[i] = msgs[i]
      /\ msgs'[n] = m
  BY <1>0, <1>2, <1>3, <1>4, AppendFacts DEF ChatTypeOK
<1> QED BY <1>2, <1>5, <1>6

\* The requests after it: its own goes on to announce it, and those of another second
\* that are about to store one are marked.
LEMMA StoredRequests ==
    ASSUME ChatInv, NEW q \in reqs, AppendMessage(q), NEW n, n = Len(msgs) + 1
    PROVE  /\ reqs' \subseteq Opening \cup Sending \cup Announcing
           /\ \A p \in reqs' : p.op = "announce" => p.row \in DOMAIN msgs \cup {n}
           /\ \A p \in reqs' : p.op = "send" =>
                \E s \in reqs : /\ s.op = "send" /\ s.user = p.user /\ s.room = p.room /\ s.at = p.at
                                /\ s.crossed => p.crossed
                                /\ p.at # q.at => p.crossed
           /\ \A i \in DOMAIN msgs : Pending(i)' <=> Pending(i)
           /\ Pending(n)'
<1>0. ChatTypeOK /\ q.op = "send" /\ n \in 1 .. MaxMsgs /\ Len(msgs') = n /\ n \notin DOMAIN msgs
  BY StoredRow DEF ChatInv, AppendMessage
<1>1. /\ q.user \in Users /\ q.room \in Rooms /\ q.at \in 0 .. MaxTime
  BY <1>0, SendFields
<1> DEFINE a == [op |-> "announce", user |-> q.user, row |-> n]
<1>2. a \in Announcing /\ a.op = "announce" /\ a.row = n
  BY <1>0, <1>1 DEF Announcing
<1>3. reqs' = OthersCrossed(q) \cup {a}
  BY <1>0 DEF AppendMessage, Insert
<1> HIDE DEF a
<1>4. ASSUME NEW s \in Sending
      PROVE  /\ [s EXCEPT !.crossed = TRUE] \in Sending /\ [s EXCEPT !.crossed = TRUE].op = "send"
             /\ [s EXCEPT !.crossed = TRUE].user = s.user /\ [s EXCEPT !.crossed = TRUE].room = s.room
             /\ [s EXCEPT !.crossed = TRUE].at = s.at /\ [s EXCEPT !.crossed = TRUE].crossed = TRUE
  BY <1>4 DEF Sending
<1>5. ASSUME NEW p \in OthersCrossed(q)
      PROVE  \/ p \in reqs /\ ~(p.op = "send" /\ p.at # q.at)
             \/ \E s \in reqs : s.op = "send" /\ s \in Sending /\ s.at # q.at /\ p = [s EXCEPT !.crossed = TRUE]
  BY <1>0, <1>5, SendFields DEF OthersCrossed
<1>6. ASSUME NEW p \in reqs, p.op = "announce" PROVE p \in OthersCrossed(q)
  BY <1>0, <1>6 DEF OthersCrossed
<1>7. reqs' \subseteq Opening \cup Sending \cup Announcing
  BY <1>0, <1>2, <1>3, <1>4, <1>5 DEF ChatTypeOK
<1>8. ASSUME NEW p \in reqs', p.op = "announce" PROVE p = a \/ (p \in reqs /\ p.row \in DOMAIN msgs)
  BY <1>0, <1>3, <1>4, <1>5, <1>8 DEF ChatTypeOK
<1>9. ASSUME NEW p \in reqs', p.op = "send"
      PROVE  \E s \in reqs : /\ s.op = "send" /\ s.user = p.user /\ s.room = p.room /\ s.at = p.at
                             /\ s.crossed => p.crossed
                             /\ p.at # q.at => p.crossed
  <2>1. p \in OthersCrossed(q)
    BY <1>2, <1>3, <1>9
  <2>2. CASE p \in reqs /\ ~(p.op = "send" /\ p.at # q.at)
    BY <1>9, <2>2
  <2>3. CASE \E s \in reqs : s.op = "send" /\ s \in Sending /\ s.at # q.at /\ p = [s EXCEPT !.crossed = TRUE]
    <3>1. PICK s \in reqs : s.op = "send" /\ s \in Sending /\ s.at # q.at /\ p = [s EXCEPT !.crossed = TRUE]
      BY <2>3
    <3>2. s.user = p.user /\ s.room = p.room /\ s.at = p.at /\ p.crossed = TRUE
      BY <1>4, <3>1
    <3> QED BY <3>1, <3>2
  <2> QED BY <1>5, <2>1, <2>2, <2>3
<1>10. \A i \in DOMAIN msgs : Pending(i)' <=> Pending(i)
  BY <1>0, <1>2, <1>3, <1>6, <1>8 DEF Pending
<1>11. Pending(n)'
  BY <1>2, <1>3 DEF Pending
<1> QED BY <1>2, <1>7, <1>8, <1>9, <1>10, <1>11

LEMMA StoredLost ==
    ASSUME ChatInv, NEW q \in reqs, AppendMessage(q), NEW n, n = Len(msgs) + 1
    PROVE  /\ lost \subseteq lost' /\ lost' \subseteq DOMAIN msgs'
           /\ \A i \in DOMAIN msgs : Pending(i) /\ msgs[i].at # q.at => i \in lost'
           /\ q.crossed => n \in lost'
<1>0. /\ ChatTypeOK /\ q.op = "send" /\ Len(msgs') = n /\ DOMAIN msgs' = DOMAIN msgs \cup {n}
  BY StoredRow DEF ChatInv, AppendMessage
<1>1. lost' = lost \cup {m.row : m \in Overtaken(q)} \cup (IF q.crossed THEN {n} ELSE {})
  BY <1>0 DEF AppendMessage, Insert
<1>2. {m.row : m \in Overtaken(q)} \subseteq DOMAIN msgs
  BY <1>0 DEF Overtaken, ChatTypeOK
<1>3. \A i \in DOMAIN msgs : Pending(i) /\ msgs[i].at # q.at => i \in {m.row : m \in Overtaken(q)}
  BY <1>0 DEF Overtaken, Pending
<1> QED BY <1>0, <1>1, <1>2, <1>3 DEF ChatTypeOK

LEMMA StoredClock ==
    ASSUME ChatInv, NEW q \in reqs, AppendMessage(q)
    PROVE  ClockInv'
<1>1. PICK n : n = Len(msgs) + 1
  OBVIOUS
<1>2. ChatTypeOK /\ ClockInv /\ q.op = "send" /\ now' = now
  BY DEF ChatInv, AppendMessage, Insert
<1>3. /\ n \notin DOMAIN msgs /\ (\A i \in DOMAIN msgs : i < n)
      /\ DOMAIN msgs' = DOMAIN msgs \cup {n} /\ (\A i \in DOMAIN msgs : msgs'[i] = msgs[i]) /\ msgs'[n].at = q.at
      /\ n \in Nat
  <2>1. /\ n \notin DOMAIN msgs /\ (\A i \in DOMAIN msgs : i < n) /\ n \in 1 .. MaxMsgs
        /\ DOMAIN msgs' = DOMAIN msgs \cup {n} /\ (\A i \in DOMAIN msgs : msgs'[i] = msgs[i]) /\ msgs'[n].at = q.at
    BY <1>1, StoredRow
  <2> QED BY <2>1
<1>4. /\ \A p \in reqs' : p.op = "send" =>
                \E s \in reqs : /\ s.op = "send" /\ s.user = p.user /\ s.room = p.room /\ s.at = p.at
                                /\ s.crossed => p.crossed
                                /\ p.at # q.at => p.crossed
      /\ \A i \in DOMAIN msgs : Pending(i)' <=> Pending(i)
  BY <1>1, StoredRequests
<1>5. /\ lost \subseteq lost'
      /\ \A i \in DOMAIN msgs : Pending(i) /\ msgs[i].at # q.at => i \in lost'
      /\ q.crossed => n \in lost'
  BY <1>1, StoredLost
<1>6. \A i \in DOMAIN msgs : msgs[i].at \in Nat /\ i \in Nat
  BY <1>2, MessageFields, ChatBasics
<1>7. q.at \in Nat
  BY <1>2, SendFields
<1>8. \A i \in DOMAIN msgs' : msgs'[i].at <= now'
  BY <1>2, <1>3 DEF ClockInv
<1>9. \A p \in reqs' : p.op = "send" => p.at <= now'
  BY <1>2, <1>4 DEF ClockInv
<1>10. \A i, j \in DOMAIN msgs' : i < j /\ msgs'[i].at > msgs'[j].at => j \in lost'
  <2> SUFFICES ASSUME NEW i \in DOMAIN msgs', NEW j \in DOMAIN msgs', i < j, msgs'[i].at > msgs'[j].at PROVE j \in lost'
    OBVIOUS
  <2>1. CASE j = n
    <3>1. i \in DOMAIN msgs /\ msgs[i].at > q.at
      BY <1>3, <2>1
    <3> QED BY <1>2, <1>5, <2>1, <3>1 DEF ClockInv
  <2>2. CASE j \in DOMAIN msgs
    <3>1. i \in DOMAIN msgs
      BY <1>3, <1>6, <2>2
    <3> QED BY <1>2, <1>3, <1>5, <2>2, <3>1 DEF ClockInv
  <2> QED BY <1>3, <2>1, <2>2
<1>11. \A p \in reqs' : p.op = "send" => \A i \in DOMAIN msgs' : msgs'[i].at > p.at => p.crossed
  <2> SUFFICES ASSUME NEW p \in reqs', p.op = "send", NEW i \in DOMAIN msgs', msgs'[i].at > p.at PROVE p.crossed
    OBVIOUS
  <2>1. PICK s \in reqs : s.op = "send" /\ s.at = p.at /\ (s.crossed => p.crossed) /\ (p.at # q.at => p.crossed)
    BY <1>4
  <2>2. CASE i = n
    <3>1. p.at \in Nat
      BY <1>2, <2>1, SendFields
    <3> QED BY <1>3, <1>7, <2>1, <2>2, <3>1
  <2>3. CASE i \in DOMAIN msgs
    BY <1>2, <1>3, <2>1, <2>3 DEF ClockInv
  <2> QED BY <1>3, <2>2, <2>3
<1>12. \A i, j \in DOMAIN msgs' : Pending(i)' /\ i < j /\ msgs'[i].at # msgs'[j].at => i \in lost'
  <2> SUFFICES ASSUME NEW i \in DOMAIN msgs', NEW j \in DOMAIN msgs', Pending(i)', i < j, msgs'[i].at # msgs'[j].at
               PROVE  i \in lost'
    OBVIOUS
  <2>1. i \in DOMAIN msgs
    BY <1>3, <1>6
  <2>2. CASE j = n
    BY <1>3, <1>4, <1>5, <2>1, <2>2
  <2>3. CASE j \in DOMAIN msgs
    BY <1>2, <1>3, <1>4, <1>5, <2>1, <2>3 DEF ClockInv
  <2> QED BY <1>3, <2>2, <2>3
<1> QED BY <1>8, <1>9, <1>10, <1>11, <1>12 DEF ClockInv

\* Nothing stored before is of a later second than a message that is not lost.
LEMMA StoredLast ==
    ASSUME ChatInv, NEW q \in reqs, AppendMessage(q), NEW n, n = Len(msgs) + 1, n \notin lost'
    PROVE  \A i \in DOMAIN msgs : msgs[i].at <= q.at
<1>1. ChatTypeOK /\ ClockInv /\ q.op = "send" /\ (q.crossed => n \in lost')
  BY StoredLost DEF ChatInv, AppendMessage
<1>2. q.at \in Nat /\ \A i \in DOMAIN msgs : msgs[i].at \in Nat
  BY <1>1, SendFields, MessageFields
<1> QED BY <1>1, <1>2 DEF ClockInv

LEMMA StoredStream ==
    ASSUME ChatInv, NEW q \in reqs, AppendMessage(q), \A s \in Rooms, v \in Users : In(v, s)' <=> In(v, s)
    PROVE  StreamInv'
<1>1. PICK n : n = Len(msgs) + 1
  OBVIOUS
<1>2. ChatTypeOK /\ StreamInv /\ q.op = "send" /\ UNCHANGED <<conn, got, cursor, start>>
  BY DEF ChatInv, AppendMessage, Insert, clientVars, pastVars
<1>3. /\ n \in Nat /\ n \notin DOMAIN msgs /\ \A i \in DOMAIN msgs : i < n
      /\ DOMAIN msgs' = DOMAIN msgs \cup {n} /\ Len(msgs') = n /\ Len(msgs) \in Nat
      /\ \A i \in DOMAIN msgs : msgs'[i] = msgs[i]
      /\ msgs'[n].at = q.at
  <2>1. /\ n \notin DOMAIN msgs /\ (\A i \in DOMAIN msgs : i < n) /\ n \in 1 .. MaxMsgs
        /\ DOMAIN msgs' = DOMAIN msgs \cup {n} /\ (\A i \in DOMAIN msgs : msgs'[i] = msgs[i]) /\ msgs'[n].at = q.at
        /\ Len(msgs') = n
    BY <1>1, StoredRow
  <2> QED BY <1>2, <2>1, ChatBasics
<1>4. lost \subseteq lost' /\ (\A i \in DOMAIN msgs : Pending(i)' <=> Pending(i)) /\ Pending(n)'
  BY <1>1, StoredRequests, StoredLost
<1>5. q.at \in Nat /\ \A i \in DOMAIN msgs : msgs[i].at \in Nat /\ msgs[i].room \in Rooms /\ i \in Nat
  BY <1>2, SendFields, MessageFields, ChatBasics
<1>6. \A i \in DOMAIN msgs : Due(i)' => Due(i)
  BY <1>2, <1>3, <1>4, <1>5, ChatBasics DEF Due, Owed, Shown
<1>7. Due(n)' => q.at >= start /\ \A i \in DOMAIN msgs : msgs[i].at <= q.at
  <2>1. Due(n)' => n \notin lost' /\ q.at >= start
    BY <1>2, <1>3 DEF Due, Owed
  <2> QED BY <1>1, <2>1, StoredLast
<1>8. \A c \in Place : Backed(c) => Backed(c)'
  BY <1>2, <1>3 DEF Backed, Place
<1>9. \A c \in Place : Backed(c) /\ Ahead(c) => Ahead(c)'
  <2> SUFFICES ASSUME NEW c \in Place, Backed(c), Ahead(c), NEW i \in DOMAIN msgs', Due(i)'
               PROVE  msgs'[i].at > c.at \/ (msgs'[i].at = c.at /\ i > c.row)
    BY DEF Ahead, After
  <2>1. CASE i \in DOMAIN msgs
    BY <1>3, <1>6, <2>1 DEF Ahead, After
  <2>2. CASE i = n
    <3>1. q.at >= start /\ \A j \in DOMAIN msgs : msgs[j].at <= q.at
      BY <1>7, <2>2
    <3>2. c.row < n /\ c.at \in Int /\ c.row \in Nat /\ start \in Int
      BY <1>1, <1>2, <1>3 DEF Backed, Place, ChatTypeOK
    <3>3. c.at <= q.at
      BY <1>5, <3>1, <3>2 DEF Backed
    <3> QED BY <1>3, <1>5, <2>2, <3>2, <3>3
  <2> QED BY <1>3, <2>1, <2>2
<1>10. /\ Backed(cursor)' /\ Ahead(cursor)'
       /\ conn'.st = "replay" => Backed(conn.cur)' /\ Ahead(conn.cur)'
  <2>1. /\ Backed(cursor) /\ Ahead(cursor)
        /\ conn.st = "replay" => Backed(conn.cur) /\ Ahead(conn.cur)
    BY <1>2 DEF StreamInv
  <2>2. PICK c \in Place, d \in Place : c = cursor /\ d = conn.cur
    BY <1>2 DEF ChatTypeOK, Stream
  <2>3. Backed(c)' /\ Ahead(c)' /\ (conn.st = "replay" => Backed(d)' /\ Ahead(d)')
    BY <1>8, <1>9, <2>1, <2>2
  <2>4. cursor' = c /\ conn'.cur = d /\ conn'.st = conn.st
    BY <1>2, <2>2
  <2> QED BY <2>3, <2>4 DEF Backed, Ahead, After
<1>11. conn'.st = "live" \/ (conn'.st = "replay" /\ ~conn'.more) =>
          \A i \in DOMAIN msgs' : Due(i)' => Pending(i)' \/ Buffered(i)'
  BY <1>2, <1>3, <1>4, <1>6 DEF StreamInv, Buffered
<1>12. BufferInOrder'
  <2> SUFFICES ASSUME NEW k \in DOMAIN conn.buf, conn.buf[k].type \in Told, NEW i \in DOMAIN msgs', Due(i)',
                      Pending(i)' \/ \E l \in k .. Len(conn.buf) : conn.buf[l] = Created(i)
               PROVE  msgs'[conn.buf[k].row].at <= msgs'[i].at
    BY <1>2 DEF BufferInOrder, Created
  <2>1. conn.buf[k].row \in DOMAIN msgs
    BY <1>2 DEF ChatTypeOK
  <2>2. CASE i \in DOMAIN msgs
    BY <1>2, <1>3, <1>4, <1>6, <2>1, <2>2 DEF StreamInv, BufferInOrder
  <2>3. CASE i = n
    BY <1>3, <1>7, <2>1, <2>3
  <2> QED BY <1>3, <2>2, <2>3
<1> QED BY <1>2, <1>10, <1>11, <1>12 DEF StreamInv

\* The author's read mark takes in the new message, if they are still in the room.
LEMMA StoredMark ==
    ASSUME ChatInv, NEW q \in reqs, AppendMessage(q)
    PROVE  /\ room' \in [Rooms -> RoomRow]
           /\ \A s \in Rooms : room'[s].kind = room[s].kind /\ (s # q.room => room'[s] = room[s])
           /\ \A s \in Rooms, v \in Users : In(v, s)' <=> In(v, s)
           /\ \A v \in Users : room'[q.room].read[v] =
                 IF v = q.user /\ In(v, q.room) /\ room[q.room].read[v] < Count(q.room) + 1
                 THEN Count(q.room) + 1 ELSE room[q.room].read[v]
<1>0. ChatTypeOK /\ Numbered /\ q.op = "send"
  BY DEF ChatInv, AppendMessage
<1>1. /\ q.user \in Users /\ q.room \in Rooms /\ q.at \in 0 .. MaxTime
  BY <1>0, SendFields
<1>2. PICK to \in 1 .. MaxMsgs : to = Count(q.room) + 1
  <2>1. Count(q.room) \in 0 .. Len(msgs) /\ Len(msgs) \in Nat /\ Len(msgs) < MaxMsgs /\ MaxMsgs \in Nat
    BY <1>0, <1>1, Counted, ChatBasics DEF AppendMessage, Insert
  <2> QED BY <2>1
<1>3. PICK old \in Marks : old = room[q.room].read[q.user]
  BY <1>0, <1>1 DEF ChatTypeOK, RoomRow
<1>4. PICK new \in Marks : new = Largest({old, to}) /\ new = IF old < to THEN to ELSE old
  <2>1. PICK top \in Nat : top = MaxMsgs + 1
    BY <1>0, ChatBasics
  <2>2. old \in 0 .. top /\ to \in 0 .. top
    BY <1>0, <1>2, <1>3, <2>1, ChatBasics DEF Marks
  <2>3. {old, to} \in SUBSET (0 .. top)
    BY <2>2
  <2>4. CASE old < to
    <3>1. to \in {old, to} /\ \A k \in {old, to} : k <= to
      BY <2>2, <2>4
    <3>2. Largest({old, to}) = to
      BY <2>1, <2>3, <3>1, LargestIs
    <3>3. to \in Marks
      BY <1>0, <1>2, ChatBasics DEF Marks
    <3> QED BY <2>4, <3>2, <3>3
  <2>5. CASE ~(old < to)
    <3>1. old \in {old, to} /\ \A k \in {old, to} : k <= old
      BY <2>2, <2>5
    <3>2. Largest({old, to}) = old
      BY <2>1, <2>3, <3>1, LargestIs
    <3> QED BY <1>3, <2>5, <3>2
  <2> QED BY <2>4, <2>5
<1>5. room' = IF In(q.user, q.room) THEN [room EXCEPT ![q.room].read[q.user] = Largest({@, to})] ELSE room
  <2>1. Largest({msgs[i].seq : i \in InRoom(q.room)}) + 1 = to
    BY <1>0, <1>1, <1>2, NextNumber
  <2> QED BY <2>1 DEF AppendMessage, Insert
<1>6. CASE In(q.user, q.room)
  <2>1. MarkedTo(q.room, q.user, new)
    BY <1>3, <1>4, <1>5, <1>6 DEF MarkedTo
  <2>3. /\ room' \in [Rooms -> RoomRow]
        /\ \A s \in Rooms : s # q.room => room'[s] = room[s]
        /\ room'[q.room].kind = room[q.room].kind
        /\ \A s \in Rooms, v \in Users : In(v, s)' <=> In(v, s)
        /\ \A v \in Users : room'[q.room].read[v] = IF v = q.user THEN new ELSE room[q.room].read[v]
    BY <1>0, <1>1, <2>1, ReadEffect
  <2> QED BY <1>2, <1>3, <1>4, <1>6, <2>3
<1>7. CASE ~In(q.user, q.room)
  <2>1. room' = room
    BY <1>5, <1>7
  <2>2. \A s \in Rooms, v \in Users : In(v, s)' <=> In(v, s)
    BY <2>1 DEF In, RoomUserIDs, participantRole
  <2> QED BY <1>0, <1>7, <2>1, <2>2 DEF ChatTypeOK
<1> QED BY <1>6, <1>7

LEMMA StoredNumbers ==
    ASSUME ChatInv, NEW q \in reqs, AppendMessage(q), NEW n, n = Len(msgs) + 1
    PROVE  /\ \A r \in Rooms : r # q.room => InRoom(r)' = InRoom(r)
           /\ InRoom(q.room)' = InRoom(q.room) \cup {n}
           /\ \A r \in Rooms : Count(r)' = IF r = q.room THEN Count(r) + 1 ELSE Count(r)
           /\ \A r \in Rooms : \A i \in InRoom(r) : Rank(r, i)' = Rank(r, i)
           /\ Rank(q.room, n)' = Count(q.room) + 1
<1>2. ChatTypeOK /\ q.op = "send" /\ q.room \in Rooms
  BY SendFields DEF ChatInv, AppendMessage
<1>3. /\ n \notin DOMAIN msgs /\ (\A i \in DOMAIN msgs : i < n)
      /\ DOMAIN msgs' = DOMAIN msgs \cup {n} /\ (\A i \in DOMAIN msgs : msgs'[i] = msgs[i])
      /\ msgs'[n].room = q.room
  BY StoredRow
<1>4. InRoom(q.room)' = InRoom(q.room) \cup {n} /\ \A r \in Rooms : r # q.room => InRoom(r)' = InRoom(r)
  BY <1>3 DEF InRoom
<1>5. /\ \A i \in DOMAIN msgs : i \in Nat
      /\ n \in Nat
  BY <1>2, ChatBasics
<1>6. IsFiniteSet(InRoom(q.room)) /\ n \notin InRoom(q.room) /\ InRoom(q.room) \subseteq DOMAIN msgs
  BY <1>2, <1>3, Counted
<1>7. Cardinality(InRoom(q.room) \cup {n}) = Cardinality(InRoom(q.room)) + 1
  BY <1>6, FS_AddElement
<1>8. \A r \in Rooms : Count(r)' = IF r = q.room THEN Count(r) + 1 ELSE Count(r)
  BY <1>4, <1>7 DEF Count
<1>9. \A r \in Rooms : \A i \in InRoom(r) : Rank(r, i)' = Rank(r, i)
  <2> SUFFICES ASSUME NEW r \in Rooms, NEW i \in InRoom(r) PROVE Rank(r, i)' = Rank(r, i)
    OBVIOUS
  <2>1. i \in DOMAIN msgs
    BY DEF InRoom
  <2>2. {j \in InRoom(r)' : j <= i} = {j \in InRoom(r) : j <= i}
    BY <1>3, <1>4, <1>5, <2>1
  <2> QED BY <2>2 DEF Rank
<1>10. Rank(q.room, n)' = Count(q.room) + 1
  <2>1. {j \in InRoom(q.room)' : j <= n} = InRoom(q.room) \cup {n}
    BY <1>3, <1>4, <1>5, <1>6
  <2>2. n' = n
    OBVIOUS
  <2> QED BY <1>7, <2>1, <2>2 DEF Rank, Count
<1> QED BY <1>4, <1>8, <1>9, <1>10

LEMMA AppendKeeps ==
    ASSUME ChatInv, NEW q \in reqs, AppendMessage(q)
    PROVE  ChatInv'
<1>0. ChatTypeOK /\ RoomsOpened /\ Numbered /\ DirectInv /\ q.op = "send"
  BY DEF ChatInv, AppendMessage
<1>1. /\ UNCHANGED <<direct, now, conn, got, cursor, breaks, start, ever>>
      /\ q.user \in Users /\ q.room \in Rooms
  BY <1>0, SendFields DEF AppendMessage, Insert, clientVars, pastVars
<1>2. PICK n : n = Len(msgs) + 1
  OBVIOUS
<1>3. /\ n \notin DOMAIN msgs /\ (\A i \in DOMAIN msgs : i < n) /\ n \in 1 .. MaxMsgs
      /\ msgs' \in Seq(Message) /\ Len(msgs') = n
      /\ DOMAIN msgs' = DOMAIN msgs \cup {n} /\ (\A i \in DOMAIN msgs : msgs'[i] = msgs[i])
      /\ msgs'[n].by = q.user /\ msgs'[n].room = q.room /\ msgs'[n].seq = Count(q.room) + 1
  BY <1>2, StoredRow
<1>4. /\ room' \in [Rooms -> RoomRow]
      /\ \A s \in Rooms : room'[s].kind = room[s].kind /\ (s # q.room => room'[s] = room[s])
      /\ \A s \in Rooms, v \in Users : In(v, s)' <=> In(v, s)
      /\ \A v \in Users : room'[q.room].read[v] =
                 IF v = q.user /\ In(v, q.room) /\ room[q.room].read[v] < Count(q.room) + 1
                 THEN Count(q.room) + 1 ELSE room[q.room].read[v]
  BY StoredMark
<1>5. ChatTypeOK'
  <2>1. /\ reqs' \subseteq Opening \cup Sending \cup Announcing
        /\ \A p \in reqs' : p.op = "announce" => p.row \in DOMAIN msgs'
    BY <1>2, <1>3, StoredRequests
  <2>2. lost' \subseteq DOMAIN msgs'
    BY <1>2, StoredLost
  <2>3. n <= MaxMsgs
    BY <1>0, <1>3, ChatBasics
  <2>4. \A k \in DOMAIN conn'.buf : conn'.buf[k].type \in Told => conn'.buf[k].row \in DOMAIN msgs'
    BY <1>0, <1>1, <1>3 DEF ChatTypeOK
  <2>5. got' \subseteq DOMAIN msgs'
    BY <1>0, <1>1, <1>3 DEF ChatTypeOK
  <2> QED BY <1>0, <1>1, <1>3, <1>4, <2>1, <2>2, <2>3, <2>4, <2>5 DEF ChatTypeOK
<1>6. RoomsOpened'
  <2>1. q.user \in ever[q.room] /\ room[q.room].kind # "none"
    BY <1>0, <1>1 DEF RoomsOpened
  <2>2. \A r \in Rooms : room'[r].kind = "none" => ever'[r] = {} /\ InRoom(r)' = {}
    BY <1>0, <1>1, <1>2, <1>4, <2>1, StoredNumbers DEF RoomsOpened
  <2>3. \A r \in Rooms, u \in Users : In(u, r)' => u \in ever'[r]
    BY <1>0, <1>1, <1>4 DEF RoomsOpened
  <2>4. \A r \in Rooms, u \in Users : ~In(u, r)' => room'[r].read[u] = 0
    BY <1>0, <1>1, <1>4 DEF RoomsOpened
  <2>5. \A i \in DOMAIN msgs' : msgs'[i].by \in ever'[msgs'[i].room]
    BY <1>0, <1>1, <1>3, <2>1 DEF RoomsOpened
  <2>6. \A p \in reqs' : p.op = "send" => p.user \in ever'[p.room]
    <3> SUFFICES ASSUME NEW p \in reqs', p.op = "send" PROVE p.user \in ever[p.room]
      BY <1>1
    <3>1. PICK s \in reqs : s.op = "send" /\ s.user = p.user /\ s.room = p.room
      BY <1>2, StoredRequests
    <3> QED BY <1>0, <3>1 DEF RoomsOpened
  <2> QED BY <2>2, <2>3, <2>4, <2>5, <2>6 DEF RoomsOpened
<1>7. Numbered'
  <2>0. /\ \A r \in Rooms : r # q.room => InRoom(r)' = InRoom(r)
        /\ InRoom(q.room)' = InRoom(q.room) \cup {n}
        /\ \A r \in Rooms : Count(r)' = IF r = q.room THEN Count(r) + 1 ELSE Count(r)
        /\ \A r \in Rooms : \A i \in InRoom(r) : Rank(r, i)' = Rank(r, i)
        /\ Rank(q.room, n)' = Count(q.room) + 1
    BY <1>2, StoredNumbers
  <2>1. \A r \in Rooms : Count(r) \in Nat /\ InRoom(r) \subseteq DOMAIN msgs
    BY <1>0, Counted, ChatBasics
  <2>2. \A r \in Rooms : \A i \in InRoom(r)' : msgs'[i].seq = Rank(r, i)'
    <3> SUFFICES ASSUME NEW r \in Rooms, NEW i \in InRoom(r)' PROVE msgs'[i].seq = Rank(r, i)'
      OBVIOUS
    <3>1. CASE i \in InRoom(r)
      BY <1>0, <1>3, <2>0, <2>1, <3>1 DEF Numbered
    <3>2. CASE i \notin InRoom(r)
      <4>1. r = q.room /\ i = n
        BY <2>0, <3>2
      <4> QED BY <1>3, <2>0, <4>1
    <3> QED BY <3>1, <3>2
  <2>3. \A r \in Rooms : \A k \in 1 .. Count(r)' : \E i \in InRoom(r)' : msgs'[i].seq = k
    <3> SUFFICES ASSUME NEW r \in Rooms, NEW k \in 1 .. Count(r)' PROVE \E i \in InRoom(r)' : msgs'[i].seq = k
      OBVIOUS
    <3>1. CASE k \in 1 .. Count(r)
      <4>1. PICK i \in InRoom(r) : msgs[i].seq = k
        BY <1>0, <3>1 DEF Numbered
      <4>2. i \in InRoom(r)' /\ msgs'[i] = msgs[i]
        BY <1>3, <2>0, <2>1
      <4> QED BY <4>1, <4>2
    <3>2. CASE k \notin 1 .. Count(r)
      <4>1. r = q.room /\ k = Count(r) + 1
        BY <2>0, <2>1, <3>2
      <4> QED BY <1>3, <2>0, <4>1
    <3> QED BY <3>1, <3>2
  <2> QED BY <2>2, <2>3 DEF Numbered
<1>8. DirectInv'
  BY <1>0, <1>1, <1>4, CalmDirect
<1>9. ClockInv' /\ StreamInv'
  BY <1>4, StoredClock, StoredStream
<1> QED BY <1>5, <1>6, <1>7, <1>8, <1>9 DEF ChatInv

-----------------------------------------------------------------------------
(* Chat: publishing a message, and the watcher's stream. *)

\* What a step that writes to no table leaves true.
LEMMA TablesStay ==
    ASSUME ChatInv, UNCHANGED <<room, direct, msgs, ever>>, reqs' \subseteq reqs
    PROVE  /\ RoomsOpened' /\ Numbered' /\ DirectInv'
           /\ room' \in [Rooms -> RoomRow] /\ direct' \subseteq Key
           /\ msgs' \in Seq(Message) /\ Len(msgs') <= MaxMsgs
           /\ reqs' \subseteq Opening \cup Sending \cup Announcing
           /\ \A q \in reqs' : q.op = "announce" => q.row \in DOMAIN msgs'
           /\ ever' \in [Rooms -> SUBSET Users]
           /\ \A i \in DOMAIN msgs : Pending(i)' => Pending(i)
           /\ \A i \in DOMAIN msgs : Owed(i)' <=> (Shown(i) /\ In(Watcher, msgs[i].room) /\ start' >= 0 /\ msgs[i].at >= start')
<1>0. ChatTypeOK /\ RoomsOpened /\ Numbered /\ DirectInv
  BY DEF ChatInv
<1>1. /\ \A r \in Rooms : RoomUserIDs(r)' = RoomUserIDs(r) /\ InRoom(r)' = InRoom(r)
      /\ \A r \in Rooms : Count(r)' = Count(r) /\ \A i : Rank(r, i)' = Rank(r, i)
  BY DEF RoomUserIDs, participantRole, InRoom, Count, Rank
<1>2. RoomsOpened'
  BY <1>0, <1>1 DEF RoomsOpened, In
<1>3. Numbered'
  BY <1>0, <1>1 DEF Numbered
<1>4. DirectInv'
  BY <1>0, <1>1 DEF DirectInv
<1>5. \A i \in DOMAIN msgs : Pending(i)' => Pending(i)
  BY DEF Pending
<1>6. \A i \in DOMAIN msgs : Owed(i)' <=> (Shown(i) /\ In(Watcher, msgs[i].room) /\ start' >= 0 /\ msgs[i].at >= start')
  BY <1>0, <1>1, MessageFields DEF Owed, Shown, In
<1>7. \A q \in reqs' : q.op = "announce" => q.row \in DOMAIN msgs'
  BY <1>0 DEF ChatTypeOK
<1>8. /\ room' \in [Rooms -> RoomRow] /\ direct' \subseteq Key
      /\ msgs' \in Seq(Message) /\ Len(msgs') <= MaxMsgs
      /\ reqs' \subseteq Opening \cup Sending \cup Announcing
      /\ ever' \in [Rooms -> SUBSET Users]
  BY <1>0 DEF ChatTypeOK
<1> QED BY <1>2, <1>3, <1>4, <1>5, <1>6, <1>7, <1>8

LEMMA ClockStays ==
    ASSUME ChatInv, msgs' = msgs, reqs' \subseteq reqs, lost \subseteq lost', now' \in Nat, now <= now'
    PROVE  ClockInv'
<1>0. ChatTypeOK /\ ClockInv /\ now \in Nat
  BY DEF ChatInv, ChatTypeOK
<1>1. \A i \in DOMAIN msgs : msgs[i].at \in Nat /\ msgs[i].at <= now'
  BY <1>0, MessageFields DEF ClockInv
<1>2. \A q \in reqs' : q.op = "send" => q.at <= now'
  <2>1. \A q \in reqs' : q.op = "send" => q.at \in Nat /\ q.at <= now
    BY <1>0, SendFields DEF ClockInv
  <2> QED BY <1>0, <2>1
<1>3. \A i \in DOMAIN msgs : Pending(i)' => Pending(i)
  BY DEF Pending
<1>4. \A i, j \in DOMAIN msgs : i < j /\ msgs[i].at > msgs[j].at => j \in lost'
  BY <1>0 DEF ClockInv
<1>5. \A i, j \in DOMAIN msgs : Pending(i)' /\ i < j /\ msgs[i].at # msgs[j].at => i \in lost'
  BY <1>0, <1>3 DEF ClockInv
<1>6. \A q \in reqs' : q.op = "send" => \A i \in DOMAIN msgs : msgs[i].at > q.at => q.crossed
  BY <1>0 DEF ClockInv
<1> QED BY <1>1, <1>2, <1>4, <1>5, <1>6 DEF ClockInv

LEMMA PublishKeeps ==
    ASSUME ChatInv, NEW q \in reqs, Publish(q)
    PROVE  ChatInv'
<1>0. ChatTypeOK /\ ClockInv /\ StreamInv
  BY DEF ChatInv
<1>1. /\ q.op = "announce" /\ reqs' = reqs \ {q}
      /\ UNCHANGED <<room, direct, msgs, now, got, cursor, breaks, ever, start>>
  BY DEF Publish, clientVars
<1> DEFINE hears == GetMessage(q) /\ In(Watcher, msgs[q.row].room)
           full  == conn.st # "off" /\ Len(conn.buf) >= BufSize
<1>2. PICK n \in DOMAIN msgs : n = q.row /\ n \in 1 .. MaxMsgs /\ Pending(n)
  BY <1>0, <1>1, ChatBasics DEF ChatTypeOK, Pending
<1>3. /\ Push(hears, "message.created", n)
      /\ lost' = IF (hears /\ ~full) \/ (GetMessage(q) /\ ~hears) THEN lost ELSE lost \cup {n}
  BY <1>2 DEF Publish
<1>4. conn \in Stream /\ conn.buf \in Seq(Event) /\ Len(conn.buf) \in Nat /\ DOMAIN conn.buf = 1 .. Len(conn.buf)
      /\ BufSize \in Nat
  BY <1>0, LenProperties, ChatBasics DEF ChatTypeOK, Stream
<1>5. /\ conn' \in Stream /\ conn'.st = conn.st /\ conn'.cur = conn.cur
      /\ conn'.sent = conn.sent /\ conn'.more = conn.more /\ Buffering("message.created", n)
  <2>1. Pushed("message.created", n)
    BY <1>3 DEF Push, Pushed
  <2>2. "message.created" \in Told \cup {"other"} /\ n \in 0 .. MaxMsgs
    BY <1>2 DEF Told
  <2> QED BY <1>0, <2>1, <2>2, PushedEffect
<1>6. hears /\ ~full /\ conn.st # "off" => conn'.buf = Append(conn.buf, Created(n))
  <2> SUFFICES ASSUME hears, ~full, conn.st # "off" PROVE conn'.buf = Append(conn.buf, Created(n))
    OBVIOUS
  <2>1. conn' = [conn EXCEPT !.buf = Append(@, Created(n))]
    BY <1>3, <1>4 DEF Push, Created
  <2> QED BY <1>4, <2>1 DEF Stream
<1>7. PICK e \in Event : e = Created(n) /\ e.type = "message.created" /\ e.row = n
  <2>1. Created(n) \in Event
    BY <1>0, <1>2, ChatBasics DEF Created, Event, Told
  <2>2. Created(n).type = "message.created" /\ Created(n).row = n
    BY DEF Created
  <2> QED BY <2>1, <2>2
<1>8. \/ conn'.buf = conn.buf
      \/ /\ DOMAIN conn'.buf = 1 .. (Len(conn.buf) + 1) /\ Len(conn'.buf) = Len(conn.buf) + 1
         /\ \A k \in DOMAIN conn.buf : conn'.buf[k] = conn.buf[k]
         /\ conn'.buf[Len(conn.buf) + 1] = e
  <2>1. conn'.buf = conn.buf \/ conn'.buf = Append(conn.buf, e)
    BY <1>5, <1>7 DEF Buffering, Created
  <2> QED BY <1>4, <1>7, <2>1, AppendFacts
<1>9. hears /\ ~full /\ conn.st # "off" =>
         conn'.buf[Len(conn.buf) + 1] = e /\ Len(conn.buf) + 1 \in DOMAIN conn'.buf
  BY <1>4, <1>6, <1>7, AppendFacts
<1>10. lost \subseteq lost' /\ lost' \subseteq lost \cup {n}
  BY <1>3
<1>11. n \notin lost' => (hears /\ ~full) \/ ~In(Watcher, msgs[n].room)
  BY <1>2, <1>3
<1> HIDE DEF hears, full
<1>12. /\ \A i \in DOMAIN msgs : Due(i)' => Due(i)
       /\ \A i \in DOMAIN msgs : Pending(i)' => Pending(i)
       /\ \A i \in DOMAIN msgs : Pending(i) /\ i # n => Pending(i)'
       /\ \A i \in DOMAIN msgs : Due(i) <=> Owed(i) /\ i \notin got \cup lost
  <2>1. \A i \in DOMAIN msgs : Owed(i)' <=> Owed(i)
    BY <1>1, TablesStay DEF Owed
  <2>2. \A i \in DOMAIN msgs : Pending(i)' => Pending(i)
    BY <1>1 DEF Pending
  <2>3. \A i \in DOMAIN msgs : Pending(i) /\ i # n => Pending(i)'
    BY <1>1, <1>2 DEF Pending
  <2> QED BY <1>1, <1>10, <2>1, <2>2, <2>3 DEF Due
<1>13. StreamInv'
  <2>1. \A c \in Place : Backed(c) => Backed(c)'
    BY <1>1 DEF Backed
  <2>2. \A c \in Place : Ahead(c) => Ahead(c)'
    BY <1>1, <1>12 DEF Ahead, After
  <2>3. /\ Backed(cursor)' /\ Ahead(cursor)'
        /\ conn'.st = "replay" => Backed(conn.cur)' /\ Ahead(conn.cur)'
    <3>1. /\ Backed(cursor) /\ Ahead(cursor)
          /\ conn.st = "replay" => Backed(conn.cur) /\ Ahead(conn.cur)
      BY <1>0 DEF StreamInv
    <3>2. PICK c \in Place, d \in Place : c = cursor /\ d = conn.cur
      BY <1>0 DEF ChatTypeOK, Stream
    <3>3. Backed(c)' /\ Ahead(c)' /\ (conn.st = "replay" => Backed(d)' /\ Ahead(d)')
      BY <2>1, <2>2, <3>1, <3>2
    <3>4. cursor' = c /\ conn'.cur = d /\ conn'.st = conn.st
      BY <1>1, <1>5, <3>2
    <3> QED BY <3>3, <3>4 DEF Backed, Ahead, After
  <2>4. \A i \in DOMAIN msgs : Buffered(i) => Buffered(i)'
    <3> SUFFICES ASSUME NEW i \in DOMAIN msgs, NEW k \in DOMAIN conn.buf, conn.buf[k] = [type |-> "message.created", row |-> i]
                 PROVE  \E l \in DOMAIN conn'.buf : conn'.buf[l] = [type |-> "message.created", row |-> i]
      BY DEF Buffered
    <3>1. k \in DOMAIN conn'.buf /\ conn'.buf[k] = conn.buf[k]
      BY <1>4, <1>8
    <3> QED BY <3>1
  <2>5. conn'.st = "live" \/ (conn'.st = "replay" /\ ~conn'.more) =>
            \A i \in DOMAIN msgs' : Due(i)' => Pending(i)' \/ Buffered(i)'
    <3> SUFFICES ASSUME conn.st = "live" \/ (conn.st = "replay" /\ ~conn.more), NEW i \in DOMAIN msgs, Due(i)'
                 PROVE  Pending(i)' \/ Buffered(i)'
      BY <1>1, <1>5
    <3>1. Pending(i) \/ Buffered(i)
      BY <1>0, <1>12 DEF StreamInv
    <3>2. CASE i = n
      <4>1. n \notin lost' /\ In(Watcher, msgs[n].room)
        BY <1>12, <3>2 DEF Due, Owed
      <4>2. conn'.buf[Len(conn.buf) + 1] = e /\ Len(conn.buf) + 1 \in DOMAIN conn'.buf
        BY <1>9, <1>11, <4>1
      <4> QED BY <1>7, <3>2, <4>2 DEF Buffered, Created
    <3>3. CASE i # n
      BY <1>12, <2>4, <3>1, <3>3
    <3> QED BY <3>2, <3>3
  <2>6. BufferInOrder'
    <3> SUFFICES ASSUME NEW k \in DOMAIN conn'.buf, conn'.buf[k].type \in Told, NEW i \in DOMAIN msgs, Due(i),
                        Pending(i) \/ \E l \in k .. Len(conn'.buf) : conn'.buf[l] = Created(i)
                 PROVE  msgs[conn'.buf[k].row].at <= msgs[i].at
      BY <1>1, <1>12 DEF BufferInOrder, Created
    <3>0. i \notin lost
      BY DEF Due
    <3>1. CASE conn'.buf = conn.buf
      BY <1>0, <3>1 DEF StreamInv, BufferInOrder
    <3>2. CASE /\ DOMAIN conn'.buf = 1 .. (Len(conn.buf) + 1) /\ Len(conn'.buf) = Len(conn.buf) + 1
               /\ \A j \in DOMAIN conn.buf : conn'.buf[j] = conn.buf[j]
               /\ conn'.buf[Len(conn.buf) + 1] = e
      <4>1. CASE Pending(i)
        <5>1. conn'.buf[k].row \in DOMAIN msgs
          <6>1. CASE k \in DOMAIN conn.buf
            <7>1. conn'.buf[k] = conn.buf[k]
              BY <3>2, <6>1
            <7> QED BY <1>0, <6>1, <7>1 DEF ChatTypeOK
          <6>2. CASE k \notin DOMAIN conn.buf
            <7>1. k = Len(conn.buf) + 1
              BY <1>4, <3>2, <6>2
            <7> QED BY <1>2, <1>7, <3>2, <7>1
          <6> QED BY <6>1, <6>2
        <5>2. PICK j \in DOMAIN msgs : j = conn'.buf[k].row
          BY <5>1
        <5>3. msgs[j].at <= msgs[i].at
          BY <1>0, <3>0, <4>1, PendingIsLatest
        <5> QED BY <5>2, <5>3
      <4>2. CASE ~Pending(i)
        <5>1. PICK l \in k .. Len(conn'.buf) : conn'.buf[l] = Created(i)
          BY <4>2
        <5>2. i # n
          BY <1>2, <4>2
        <5>3. Created(i) # e
          BY <1>7, <5>2 DEF Created
        <5>4. l # Len(conn.buf) + 1
          BY <3>2, <5>1, <5>3
        <5>5. k \in DOMAIN conn.buf /\ l \in k .. Len(conn.buf) /\ conn.buf[l] = Created(i) /\ conn'.buf[k] = conn.buf[k]
          BY <1>4, <3>2, <5>1, <5>4
        <5> QED BY <1>0, <5>5 DEF StreamInv, BufferInOrder
      <4> QED BY <4>1, <4>2
    <3> QED BY <1>8, <3>1, <3>2
  <2> QED BY <1>1, <2>3, <2>5, <2>6 DEF StreamInv
<1>14. ClockInv'
  BY <1>0, <1>1, <1>10, ClockStays DEF ChatTypeOK
<1>15. \A k \in DOMAIN conn'.buf : conn'.buf[k].type \in Told => conn'.buf[k].row \in DOMAIN msgs'
  <2>1. "message.created" \in Told \cup {"other"} /\ n \in 0 .. MaxMsgs /\ DOMAIN msgs \subseteq DOMAIN msgs'
    BY <1>1, <1>2 DEF Told
  <2> QED BY <1>0, <1>2, <1>5, <2>1, BufferedRows
<1>16. ChatTypeOK'
  <2>1. lost' \subseteq DOMAIN msgs'
    BY <1>0, <1>1, <1>2, <1>10 DEF ChatTypeOK
  <2> QED BY <1>0, <1>1, <1>5, <1>15, <2>1, TablesStay DEF ChatTypeOK
<1> QED BY <1>1, <1>13, <1>14, <1>16, TablesStay DEF ChatInv

LEMMA OffFields ==
    /\ Off \in Stream /\ Off.st = "off" /\ Off.buf = <<>> /\ Off.cur = NoCursor /\ DOMAIN Off.buf = {}
    /\ NoCursor \in Place /\ NoCursor.at = -1 /\ NoCursor.row = 0
<1>1. NoCursor \in Place /\ NoCursor.at = -1 /\ NoCursor.row = 0
  BY DEF NoCursor, Place
<1>2. <<>> \in Seq(Event) /\ DOMAIN <<>> = {}
  BY EmptySeq
<1> QED BY <1>1, <1>2 DEF Off, Stream

\* A place keeps its backing and what is ahead of it, while nothing becomes due.
LEMMA PlacesKept ==
    ASSUME ChatInv, msgs' = msgs, start' = start, \A i \in DOMAIN msgs : Due(i)' => Due(i)
    PROVE  \A c \in Place : (Backed(c) => Backed(c)') /\ (Ahead(c) => Ahead(c)')
  BY DEF Backed, Ahead, After

\* The stream goes: the connection broke, or the client is told to open another.
LEMMA StreamGone ==
    ASSUME ChatInv, UNCHANGED <<room, direct, msgs, ever, got, start, lost>>, reqs' \subseteq reqs, conn' = Off,
           Backed(cursor)', Ahead(cursor)'
    PROVE  StreamInv'
<1>1. conn'.st = "off" /\ DOMAIN conn'.buf = {}
  BY OffFields
<1> QED BY <1>1 DEF StreamInv, BufferInOrder

LEMMA SubscribeKeeps ==
    ASSUME ChatInv, Subscribe
    PROVE  ChatInv'
<1>0. ChatTypeOK /\ StreamInv
  BY DEF ChatInv
<1>1. UNCHANGED <<room, direct, msgs, now, reqs, ever, lost, got, cursor, breaks>>
  BY DEF Subscribe, serverVars
<1>2. PICK c \in Place : c = IF cursor = NoCursor THEN [at |-> now, row |-> 0] ELSE cursor
  <2>1. [at |-> now, row |-> 0] \in Place /\ cursor \in Place
    BY <1>0 DEF ChatTypeOK, Place
  <2> QED BY <2>1
<1>3. conn' = [st |-> "replay", buf |-> <<>>, sent |-> 0, more |-> TRUE, cur |-> c]
  BY <1>2 DEF Subscribe
<1>4. conn' \in Stream /\ conn'.st = "replay" /\ conn'.cur = c /\ conn'.more = TRUE /\ DOMAIN conn'.buf = {}
  <2>1. <<>> \in Seq(Event) /\ DOMAIN <<>> = {}
    BY EmptySeq
  <2> QED BY <1>3, <2>1 DEF Stream
<1>5. start' = IF cursor = NoCursor THEN now ELSE start
  BY DEF Subscribe
<1>6. now \in Nat /\ start \in Int /\ Len(msgs) \in Nat /\ DOMAIN msgs = 1 .. Len(msgs)
  BY <1>0, ChatBasics DEF ChatTypeOK
<1>7. Backed(c)' /\ Ahead(c)' /\ Backed(cursor)' /\ Ahead(cursor)'
  <2>1. CASE cursor = NoCursor
    <3>1. c.at = now /\ c.row = 0 /\ start' = now
      BY <1>2, <1>5, <2>1
    <3>2. cursor.at = -1 /\ cursor.row = 0 /\ cursor' = cursor
      BY <1>1, <2>1, OffFields
    <3>3. \A i \in DOMAIN msgs : Due(i)' => msgs[i].at >= now
      BY <1>1, <3>1 DEF Due, Owed
    <3>4. \A i \in DOMAIN msgs : msgs[i].at \in Nat /\ i > 0
      BY <1>0, <1>6, MessageFields
    <3>5. Backed(c)' /\ Backed(cursor)'
      BY <1>1, <1>6, <3>1, <3>2 DEF Backed
    <3>6. Ahead(c)' /\ Ahead(cursor)'
      BY <1>1, <1>6, <3>1, <3>2, <3>3, <3>4 DEF Ahead, After
    <3> QED BY <3>5, <3>6
  <2>2. CASE cursor # NoCursor
    <3>1. c = cursor /\ start' = start
      BY <1>2, <1>5, <2>2
    <3>2. \A i \in DOMAIN msgs : Due(i)' => Due(i)
      BY <1>1, <3>1, TablesStay DEF Due, Owed
    <3>3. Backed(c)' /\ Ahead(c)'
      BY <1>0, <1>1, <3>1, <3>2, PlacesKept DEF StreamInv
    <3>4. cursor' = c
      BY <1>1, <3>1
    <3> QED BY <3>3, <3>4 DEF Backed, Ahead, After
  <2> QED BY <2>1, <2>2
<1>8. StreamInv'
  <2>1. Backed(conn.cur)' /\ Ahead(conn.cur)'
    BY <1>4, <1>7 DEF Backed, Ahead, After
  <2> QED BY <1>4, <1>7, <2>1 DEF StreamInv, BufferInOrder
<1>9. ClockInv'
  BY <1>1, <1>6, ClockStays
<1>10. ChatTypeOK'
  <2>1. start' \in Int
    BY <1>5, <1>6
  <2> QED BY <1>0, <1>1, <1>4, <2>1, TablesStay DEF ChatTypeOK
<1> QED BY <1>1, <1>8, <1>9, <1>10, TablesStay DEF ChatInv

\* What is due and not on the page comes after all of the page.
LEMMA PageFirst ==
    ASSUME ChatInv, NEW c \in Place, Ahead(c), NEW i \in DOMAIN msgs, Due(i), i \notin ReplayMissed(c)
    PROVE  \A p \in ReplayMissed(c) : Before(p, i)
<1>0. ChatTypeOK /\ PageSize \in Nat /\ IsFiniteSet(DOMAIN msgs)
  <2>1. ChatTypeOK
    BY DEF ChatInv
  <2>2. PICK n \in Nat : DOMAIN msgs = 1 .. n
    <3>1. Len(msgs) \in Nat /\ DOMAIN msgs = 1 .. Len(msgs)
      BY <2>1, ChatBasics
    <3> QED BY <3>1
  <2> QED BY <2>1, <2>2, ChatBasics, FS_Interval
<1>1. Missed(c) \subseteq DOMAIN msgs /\ i \in Missed(c) /\ IsFiniteSet(Missed(c))
  <2>1. Missed(c) \subseteq DOMAIN msgs /\ i \in Missed(c)
    BY DEF Missed, Ahead, Due, Owed
  <2> QED BY <1>0, <2>1, FS_Subset
<1> SUFFICES ASSUME NEW p \in ReplayMissed(c), ~Before(p, i) PROVE FALSE
  OBVIOUS
<1> DEFINE I == {j \in Missed(c) : Before(j, i)}
           P == {j \in Missed(c) : Before(j, p)}
<1>2. p \in Missed(c) /\ Cardinality(P) < PageSize /\ ~(Cardinality(I) < PageSize)
  BY <1>1 DEF ReplayMissed
<1>3. \A j \in DOMAIN msgs : msgs[j].at \in Nat /\ j \in Nat
  BY <1>0, MessageFields, ChatBasics
<1>4. Before(i, p)
  <2>1. i # p
    OBVIOUS
  <2> QED BY <1>1, <1>2, <1>3, <2>1 DEF Before
<1>5. I \subseteq P
  BY <1>1, <1>2, <1>3, <1>4 DEF Before
<1>6. P \subseteq Missed(c)
  OBVIOUS
<1> HIDE DEF I, P
<1>7. IsFiniteSet(P) /\ Cardinality(I) <= Cardinality(P) /\ IsFiniteSet(I)
  BY <1>1, <1>5, <1>6, FS_Subset
<1>8. Cardinality(I) \in Nat /\ Cardinality(P) \in Nat
  BY <1>7, FS_CardinalityType
<1> QED BY <1>0, <1>2, <1>7, <1>8

\* Where the client's cursor goes for a set of messages: nowhere, or to the start of the
\* second of one of them.
LEMMA SeenPlace ==
    ASSUME ChatTypeOK, NEW c \in Place, NEW S \in SUBSET DOMAIN msgs
    PROVE  \/ Seen(c, S) = c
           \/ \E p \in S : Seen(c, S) = [at |-> msgs[p].at, row |-> 0]
<1> DEFINE later == {i \in S : msgs[i].at > c.at}
<1>1. Seen(c, S) = IF later = {} THEN c ELSE [at |-> msgs[Newest(later)].at, row |-> 0]
  BY DEF Seen
<1>2. later \subseteq S
  OBVIOUS
<1> HIDE DEF later
<1>3. CASE later # {}
  <2>1. Newest(later) \in later
    BY <1>2, <1>3, HasNewest
  <2> QED BY <1>1, <1>2, <1>3, <2>1
<1> QED BY <1>1, <1>3

LEMMA PlaceOf ==
    ASSUME ChatTypeOK, NEW p \in DOMAIN msgs
    PROVE  /\ [at |-> msgs[p].at, row |-> 0] \in Place /\ [at |-> msgs[p].at, row |-> p] \in Place
           /\ Backed([at |-> msgs[p].at, row |-> 0]) /\ Backed([at |-> msgs[p].at, row |-> p])
<1>1. p \in 1 .. Len(msgs) /\ msgs[p].at \in Nat /\ Len(msgs) \in Nat
  BY ChatBasics, MessageFields
<1> QED BY <1>1 DEF Place, Backed

LEMMA ReplayKeeps ==
    ASSUME ChatInv, ReplayPage
    PROVE  ChatInv'
<1>0. ChatTypeOK /\ StreamInv
  BY DEF ChatInv
<1>1. /\ conn.st = "replay"
      /\ UNCHANGED <<room, direct, msgs, now, reqs, ever, lost, breaks, start>>
  BY DEF ReplayPage, Replaying, serverVars, pastVars
<1>2. PICK c \in Place : c = conn.cur
  BY <1>0 DEF ChatTypeOK, Stream
<1>3. PICK page \in SUBSET DOMAIN msgs : page = ReplayMissed(c)
  BY DEF ReplayMissed, Missed
<1>4. PICK next : next = IF page = {} THEN c ELSE [at |-> msgs[Newest(page)].at, row |-> Newest(page)]
  OBVIOUS
<1>5. /\ got' = got \cup page /\ cursor' = Seen(cursor, page)
      /\ conn' = [conn EXCEPT !.cur = next, !.sent = @ + Cardinality(page), !.more = HasMore(c)]
  BY <1>2, <1>3, <1>4 DEF ReplayPage
<1>6. next = c \/ \E p \in page : next = [at |-> msgs[p].at, row |-> p]
  <2>1. page # {} => Newest(page) \in page
    BY <1>0, HasNewest
  <2> QED BY <1>4, <2>1
<1>7. next \in Place
  BY <1>0, <1>6, PlaceOf
<1>8. Cardinality(page) \in Nat
  <2>1. PICK n \in Nat : DOMAIN msgs = 1 .. n
    <3>1. Len(msgs) \in Nat /\ DOMAIN msgs = 1 .. Len(msgs)
      BY <1>0, ChatBasics
    <3> QED BY <3>1
  <2>2. IsFiniteSet(page)
    BY <2>1, FS_Interval, FS_Subset
  <2> QED BY <2>2, FS_CardinalityType
<1>9. PICK more \in BOOLEAN : more = HasMore(c)
  BY DEF HasMore
<1>10. conn' \in Stream /\ conn'.st = conn.st /\ conn'.buf = conn.buf /\ conn'.cur = next /\ conn'.more = more
  <2>1. PICK sent \in Nat : sent = conn.sent + Cardinality(page)
    BY <1>0, <1>8 DEF ChatTypeOK, Stream
  <2>2. conn' = [conn EXCEPT !.cur = next, !.sent = sent, !.more = more]
    BY <1>5, <1>9, <2>1
  <2>3. conn \in Stream
    BY <1>0 DEF ChatTypeOK
  <2> QED BY <1>7, <2>2, <2>3 DEF Stream
<1>11. \A i \in DOMAIN msgs : Due(i)' => Due(i) /\ i \notin page
  <2>1. \A i \in DOMAIN msgs : Owed(i)' <=> Owed(i)
    BY <1>1, TablesStay DEF Owed
  <2> QED BY <1>1, <1>5, <2>1 DEF Due
<1>12. Ahead(c) /\ Backed(c) /\ Ahead(cursor) /\ Backed(cursor)
  BY <1>0, <1>1, <1>2 DEF StreamInv
<1>13. \A i \in DOMAIN msgs : Due(i)' => \A p \in page : Before(p, i)
  BY <1>3, <1>11, <1>12, PageFirst
<1>14. \A p \in page : /\ Backed([at |-> msgs[p].at, row |-> p])' /\ Backed([at |-> msgs[p].at, row |-> 0])'
                       /\ Ahead([at |-> msgs[p].at, row |-> p])' /\ Ahead([at |-> msgs[p].at, row |-> 0])'
  <2> SUFFICES ASSUME NEW p \in page
               PROVE  /\ Backed([at |-> msgs[p].at, row |-> p])' /\ Backed([at |-> msgs[p].at, row |-> 0])'
                      /\ Ahead([at |-> msgs[p].at, row |-> p])' /\ Ahead([at |-> msgs[p].at, row |-> 0])'
    OBVIOUS
  <2>1. PICK d \in Place, e \in Place : d = [at |-> msgs[p].at, row |-> p] /\ e = [at |-> msgs[p].at, row |-> 0]
    BY <1>0, PlaceOf
  <2>2. Backed(d) /\ Backed(e) /\ d.at = msgs[p].at /\ d.row = p /\ e.at = msgs[p].at /\ e.row = 0
    BY <1>0, <2>1, PlaceOf
  <2>3. Backed(d)' /\ Backed(e)'
    BY <1>1, <1>11, <2>2, PlacesKept
  <2>4. \A i \in DOMAIN msgs : Due(i)' => After(i, d) /\ After(i, e)
    <3>1. \A i \in DOMAIN msgs : msgs[i].at \in Nat /\ i \in Nat /\ i > 0
      BY <1>0, MessageFields, ChatBasics
    <3> QED BY <1>13, <2>2, <3>1 DEF After, Before
  <2>5. Ahead(d)' /\ Ahead(e)'
    BY <1>1, <2>4 DEF Ahead, After
  <2>6. [at |-> msgs[p].at, row |-> p]' = d /\ [at |-> msgs[p].at, row |-> 0]' = e
    BY <1>1, <2>1
  <2> QED BY <2>3, <2>5, <2>6 DEF Backed, Ahead, After
<1>15. \A d \in Place : Backed(d) /\ Ahead(d) => Backed(d)' /\ Ahead(d)'
  BY <1>1, <1>11, PlacesKept
<1>16. Backed(cursor)' /\ Ahead(cursor)'
  <2>1. cursor' = cursor \/ \E p \in page : cursor' = [at |-> msgs[p].at, row |-> 0]
    BY <1>0, <1>5, SeenPlace DEF ChatTypeOK
  <2>2. PICK d \in Place : d = cursor
    BY <1>0 DEF ChatTypeOK
  <2>3. CASE cursor' = cursor
    <3>1. Backed(d)' /\ Ahead(d)'
      BY <1>12, <1>15, <2>2
    <3> QED BY <2>2, <2>3, <3>1 DEF Backed, Ahead, After
  <2>4. CASE \E p \in page : cursor' = [at |-> msgs[p].at, row |-> 0]
    <3>1. PICK p \in page : cursor' = [at |-> msgs[p].at, row |-> 0]
      BY <2>4
    <3>2. cursor' = [at |-> msgs[p].at, row |-> 0]'
      BY <1>1, <3>1
    <3> QED BY <1>14, <3>2 DEF Backed, Ahead, After
  <2> QED BY <2>1, <2>3, <2>4
<1>17. Backed(conn.cur)' /\ Ahead(conn.cur)'
  <2>1. CASE next = c
    <3>1. Backed(c)' /\ Ahead(c)'
      BY <1>12, <1>15
    <3> QED BY <1>10, <2>1, <3>1 DEF Backed, Ahead, After
  <2>2. CASE \E p \in page : next = [at |-> msgs[p].at, row |-> p]
    <3>1. PICK p \in page : next = [at |-> msgs[p].at, row |-> p]
      BY <2>2
    <3>2. conn'.cur = [at |-> msgs[p].at, row |-> p]'
      BY <1>1, <1>10, <3>1
    <3> QED BY <1>14, <3>2 DEF Backed, Ahead, After
  <2> QED BY <1>6, <2>1, <2>2
<1>18. ~conn'.more => \A i \in DOMAIN msgs : ~Due(i)'
  <2> SUFFICES ASSUME ~more, NEW i \in DOMAIN msgs, Due(i)' PROVE FALSE
    BY <1>10
  <2>1. Missed(c) = page
    BY <1>3, <1>9 DEF HasMore
  <2>2. i \in Missed(c)
    BY <1>11, <1>12 DEF Missed, Ahead, Due, Owed
  <2> QED BY <1>11, <2>1, <2>2
<1>19. BufferInOrder'
  <2>1. \A i \in DOMAIN msgs : Pending(i)' => Pending(i)
    BY <1>1 DEF Pending
  <2> QED BY <1>0, <1>1, <1>10, <1>11, <2>1 DEF StreamInv, BufferInOrder, Created
<1>20. StreamInv'
  BY <1>1, <1>10, <1>16, <1>17, <1>18, <1>19 DEF StreamInv
<1>21. ClockInv'
  BY <1>0, <1>1, ClockStays DEF ChatTypeOK
<1>22. ChatTypeOK'
  <2>1. cursor' \in Place
    BY <1>0, <1>5, SeenPlace, PlaceOf DEF ChatTypeOK
  <2>2. got' \subseteq DOMAIN msgs'
    BY <1>0, <1>1, <1>5 DEF ChatTypeOK
  <2> QED BY <1>0, <1>1, <1>10, <2>1, <2>2, TablesStay DEF ChatTypeOK
<1> QED BY <1>1, <1>20, <1>21, <1>22, TablesStay DEF ChatInv

\* What a failed page leaves out is counted as lost, unless it is on its way.
LEMMA ReplayFailsKeeps ==
    ASSUME ChatInv, ReplayFails
    PROVE  ChatInv'
<1>0. ChatTypeOK /\ StreamInv
  BY DEF ChatInv
<1>1. /\ conn.st = "replay" /\ conn' = [conn EXCEPT !.more = FALSE]
      /\ breaks < MaxBreaks /\ breaks' = breaks + 1
      /\ UNCHANGED <<room, direct, msgs, now, reqs, ever, got, cursor, start>>
  BY DEF ReplayFails, Replaying
<1>2. PICK c \in Place, d \in Place : c = conn.cur /\ d = cursor
  BY <1>0 DEF ChatTypeOK, Stream
<1>3. PICK left \in SUBSET DOMAIN msgs : left = {i \in Missed(c) : ~Pending(i) /\ ~Buffered(i)}
  BY DEF Missed
<1>4. lost' = lost \cup left
  BY <1>2, <1>3 DEF ReplayFails
<1>5. /\ conn' \in Stream /\ conn'.st = conn.st /\ conn'.buf = conn.buf /\ conn'.cur = conn.cur
      /\ conn'.more = FALSE
  BY <1>0, <1>1 DEF ChatTypeOK, Stream
<1>6. \A i \in DOMAIN msgs : Due(i)' => Due(i) /\ i \notin left
  <2>1. \A i \in DOMAIN msgs : Owed(i)' <=> Owed(i)
    BY <1>1, TablesStay DEF Owed
  <2> QED BY <1>1, <1>4, <2>1 DEF Due
<1>7. Ahead(c) /\ Backed(c) /\ Ahead(d) /\ Backed(d)
  BY <1>0, <1>1, <1>2 DEF StreamInv
<1>8. Backed(cursor)' /\ Ahead(cursor)' /\ Backed(conn.cur)' /\ Ahead(conn.cur)'
  <2>1. Backed(c)' /\ Ahead(c)' /\ Backed(d)' /\ Ahead(d)'
    BY <1>1, <1>6, <1>7, PlacesKept
  <2>2. conn'.cur = c /\ cursor' = d
    BY <1>1, <1>2, <1>5
  <2> QED BY <2>1, <2>2 DEF Backed, Ahead, After
<1>9. \A i \in DOMAIN msgs : Due(i)' => Pending(i)' \/ Buffered(i)'
  <2> SUFFICES ASSUME NEW i \in DOMAIN msgs, Due(i)' PROVE Pending(i)' \/ Buffered(i)'
    OBVIOUS
  <2>1. i \in Missed(c)
    BY <1>6, <1>7 DEF Missed, Ahead, Due, Owed
  <2>2. Pending(i) \/ Buffered(i)
    BY <1>3, <1>6, <2>1
  <2> QED BY <1>1, <1>5, <2>2 DEF Pending, Buffered
<1>10. BufferInOrder'
  <2>1. \A i \in DOMAIN msgs : Pending(i)' => Pending(i)
    BY <1>1 DEF Pending
  <2> QED BY <1>0, <1>1, <1>5, <1>6, <2>1 DEF StreamInv, BufferInOrder, Created
<1>11. StreamInv'
  BY <1>1, <1>8, <1>9, <1>10 DEF StreamInv
<1>12. ClockInv'
  BY <1>0, <1>1, <1>4, ClockStays DEF ChatTypeOK
<1>13. ChatTypeOK'
  <2>1. breaks' \in 0 .. MaxBreaks
    BY <1>0, <1>1, ChatBasics DEF ChatTypeOK
  <2>2. lost' \subseteq DOMAIN msgs'
    BY <1>0, <1>1, <1>4 DEF ChatTypeOK
  <2>3. \A k \in DOMAIN conn'.buf : conn'.buf[k].type \in Told => conn'.buf[k].row \in DOMAIN msgs'
    BY <1>0, <1>1, <1>5 DEF ChatTypeOK
  <2> QED BY <1>0, <1>1, <1>5, <2>1, <2>2, <2>3, TablesStay DEF ChatTypeOK
<1> QED BY <1>1, <1>11, <1>12, <1>13, TablesStay DEF ChatInv

LEMMA ReadyKeeps ==
    ASSUME ChatInv, Ready
    PROVE  ChatInv'
<1>0. ChatTypeOK /\ StreamInv
  BY DEF ChatInv
<1>1. /\ conn.st = "replay" /\ cursor' = conn.cur
      /\ conn' = IF conn.more THEN Off ELSE [Off EXCEPT !.st = "live", !.buf = conn.buf]
      /\ UNCHANGED <<room, direct, msgs, now, reqs, ever, lost, breaks, start, got>>
  BY DEF Ready, serverVars, pastVars
<1>2. PICK c \in Place : c = conn.cur
  BY <1>0 DEF ChatTypeOK, Stream
<1>3. /\ \A i \in DOMAIN msgs : Due(i)' => Due(i)
      /\ \A i \in DOMAIN msgs : Pending(i)' <=> Pending(i)
  <2>1. \A i \in DOMAIN msgs : Owed(i)' <=> Owed(i)
    BY <1>1, TablesStay DEF Owed
  <2> QED BY <1>1, <2>1 DEF Due, Pending
<1>4. Backed(cursor)' /\ Ahead(cursor)'
  <2>1. Backed(c) /\ Ahead(c)
    BY <1>0, <1>1, <1>2 DEF StreamInv
  <2>2. Backed(c)' /\ Ahead(c)'
    BY <1>1, <1>3, <2>1, PlacesKept
  <2> QED BY <1>1, <1>2, <2>2 DEF Backed, Ahead, After
<1>5. conn' \in Stream /\ StreamInv' /\ (conn'.buf = conn.buf \/ DOMAIN conn'.buf = {})
  <2>1. CASE conn.more
    <3>1. conn' = Off
      BY <1>1, <2>1
    <3> QED BY <1>1, <1>4, <3>1, OffFields, StreamGone
  <2>2. CASE ~conn.more
    <3>1. conn' \in Stream /\ conn'.st = "live" /\ conn'.buf = conn.buf
      <4>1. conn' = [Off EXCEPT !.st = "live", !.buf = conn.buf] /\ conn.buf \in Seq(Event)
        BY <1>0, <1>1, <2>2 DEF ChatTypeOK, Stream
      <4> QED BY <4>1, OffFields DEF Stream
    <3>2. \A i \in DOMAIN msgs : Due(i) => Pending(i) \/ Buffered(i)
      BY <1>0, <1>1, <2>2 DEF StreamInv
    <3>3. \A i \in DOMAIN msgs' : Due(i)' => Pending(i)' \/ Buffered(i)'
      <4>1. \A i \in DOMAIN msgs : Buffered(i)' <=> Buffered(i)
        BY <3>1 DEF Buffered
      <4>2. msgs' = msgs
        BY <1>1
      <4> QED BY <1>3, <3>2, <4>1, <4>2
    <3>4. BufferInOrder'
      BY <1>0, <1>1, <1>3, <3>1 DEF StreamInv, BufferInOrder, Created
    <3> QED BY <1>4, <3>1, <3>3, <3>4 DEF StreamInv
  <2>3. conn.more \in BOOLEAN
    BY <1>0 DEF ChatTypeOK, Stream
  <2> QED BY <2>1, <2>2, <2>3
<1>6. ClockInv'
  BY <1>0, <1>1, ClockStays DEF ChatTypeOK
<1>7. ChatTypeOK'
  <2>1. \A k \in DOMAIN conn'.buf : conn'.buf[k].type \in Told => conn'.buf[k].row \in DOMAIN msgs'
    BY <1>0, <1>1, <1>5 DEF ChatTypeOK
  <2> QED BY <1>0, <1>1, <1>2, <1>5, <2>1, TablesStay DEF ChatTypeOK
<1> QED BY <1>1, <1>5, <1>6, <1>7, TablesStay DEF ChatInv

LEMMA TailFacts ==
    ASSUME NEW S, NEW s \in Seq(S), s # <<>>
    PROVE  /\ Tail(s) \in Seq(S) /\ Head(s) = s[1] /\ Len(s) \in Nat /\ Len(s) >= 1 /\ DOMAIN s = 1 .. Len(s)
           /\ Len(Tail(s)) = Len(s) - 1 /\ DOMAIN Tail(s) = 1 .. (Len(s) - 1)
           /\ \A k \in 1 .. (Len(s) - 1) : Tail(s)[k] = s[k + 1]
<1>1. Len(s) \in Nat /\ Len(s) # 0 /\ DOMAIN s = 1 .. Len(s)
  BY EmptySeq, LenProperties
<1>2. Tail(s) \in Seq(S) /\ Len(Tail(s)) = Len(s) - 1 /\ \A k \in 1 .. (Len(s) - 1) : Tail(s)[k] = s[k + 1]
  BY HeadTailProperties
<1>3. DOMAIN Tail(s) = 1 .. Len(Tail(s))
  BY <1>2, LenProperties
<1>4. Head(s) = s[1]
  OBVIOUS
<1> QED BY <1>1, <1>2, <1>3, <1>4

LEMMA DeliverKeeps ==
    ASSUME ChatInv, Deliver
    PROVE  ChatInv'
<1>0. ChatTypeOK /\ StreamInv
  BY DEF ChatInv
<1>1. /\ conn.st = "live" /\ conn.buf # <<>> /\ conn' = [conn EXCEPT !.buf = Tail(@)]
      /\ UNCHANGED <<room, direct, msgs, now, reqs, ever, lost, breaks, start>>
  BY DEF Deliver, serverVars, pastVars
<1>2. conn \in Stream /\ conn.buf \in Seq(Event)
  BY <1>0 DEF ChatTypeOK, Stream
<1>3. PICK b \in Seq(Event) : b = conn.buf /\ b # <<>>
  BY <1>1, <1>2
<1>4. /\ Tail(b) \in Seq(Event) /\ Head(b) = b[1] /\ Len(b) \in Nat /\ Len(b) >= 1 /\ DOMAIN b = 1 .. Len(b)
      /\ Len(Tail(b)) = Len(b) - 1 /\ DOMAIN Tail(b) = 1 .. (Len(b) - 1)
      /\ \A k \in 1 .. (Len(b) - 1) : Tail(b)[k] = b[k + 1]
  BY <1>3, TailFacts
<1>5. /\ conn' \in Stream /\ conn'.st = "live" /\ conn'.buf = Tail(b)
      /\ Len(conn'.buf) = Len(b) - 1 /\ DOMAIN conn'.buf = 1 .. (Len(b) - 1)
      /\ \A k \in 1 .. (Len(b) - 1) : conn'.buf[k] = b[k + 1]
  <2>1. conn' = [conn EXCEPT !.buf = Tail(b)]
    BY <1>1, <1>3
  <2>2. conn' \in Stream /\ conn'.st = "live" /\ conn'.buf = Tail(b)
    BY <1>1, <1>2, <1>4, <2>1 DEF Stream
  <2> QED BY <1>4, <2>2
<1>6. PICK ev \in Event : ev = b[1] /\ 1 \in DOMAIN b
  BY <1>3, <1>4, ElementOfSeq
<1>7. /\ got' = IF ev.type = "message.created" THEN got \cup {ev.row} ELSE got
      /\ cursor' = IF ev.type \in Told THEN Seen(cursor, {ev.row}) ELSE cursor
  BY <1>3, <1>4, <1>6 DEF Deliver, Told
<1>8. ev.type \in Told => ev.row \in DOMAIN msgs
  BY <1>0, <1>3, <1>6 DEF ChatTypeOK
<1>9. /\ \A i \in DOMAIN msgs : Due(i)' => Due(i) /\ ev # Created(i)
      /\ \A i \in DOMAIN msgs : Pending(i)' <=> Pending(i)
      /\ got \subseteq got' /\ got' \subseteq DOMAIN msgs
  <2>1. \A i \in DOMAIN msgs : Owed(i)' <=> Owed(i)
    BY <1>1, TablesStay DEF Owed
  <2>2. \A i \in DOMAIN msgs : Pending(i)' <=> Pending(i)
    BY <1>1 DEF Pending
  <2>3. \A i \in DOMAIN msgs : ev = Created(i) => i \in got'
    BY <1>7 DEF Created
  <2>4. got \subseteq got' /\ got' \subseteq DOMAIN msgs
    BY <1>0, <1>7, <1>8 DEF Told, ChatTypeOK
  <2> QED BY <1>1, <2>1, <2>2, <2>3, <2>4 DEF Due
<1>10. \A i \in DOMAIN msgs : Due(i)' =>
          Pending(i) \/ \E l \in 2 .. Len(b) : b[l] = Created(i)
  <2> SUFFICES ASSUME NEW i \in DOMAIN msgs, Due(i)', ~Pending(i) PROVE \E l \in 2 .. Len(b) : b[l] = Created(i)
    OBVIOUS
  <2>1. PICK l \in DOMAIN b : b[l] = Created(i)
    BY <1>0, <1>1, <1>3, <1>9 DEF StreamInv, Buffered, Created
  <2>2. l # 1
    BY <1>6, <1>9, <2>1
  <2> QED BY <1>4, <2>1, <2>2
<1>11. ev.type \in Told => \A i \in DOMAIN msgs : Due(i)' => msgs[ev.row].at <= msgs[i].at
  <2> SUFFICES ASSUME ev.type \in Told, NEW i \in DOMAIN msgs, Due(i)' PROVE msgs[ev.row].at <= msgs[i].at
    OBVIOUS
  <2>1. Pending(i) \/ \E l \in 1 .. Len(b) : b[l] = Created(i)
    BY <1>4, <1>10
  <2> QED BY <1>0, <1>3, <1>6, <1>9, <2>1 DEF StreamInv, BufferInOrder
<1>12. Backed(cursor)' /\ Ahead(cursor)' /\ cursor' \in Place
  <2>1. PICK d \in Place : d = cursor
    BY <1>0 DEF ChatTypeOK
  <2>2. CASE cursor' = cursor
    <3>1. Backed(d)' /\ Ahead(d)'
      BY <1>0, <1>1, <1>9, <2>1, PlacesKept DEF StreamInv
    <3> QED BY <2>1, <2>2, <3>1 DEF Backed, Ahead, After
  <2>3. CASE cursor' # cursor
    <3>1. PICK p \in DOMAIN msgs : p = ev.row /\ ev.type \in Told /\ cursor' = Seen(d, {p})
      BY <1>7, <1>8, <2>1, <2>3
    <3>2. cursor' = [at |-> msgs[p].at, row |-> 0]
      <4>1. {p} \in SUBSET DOMAIN msgs /\ cursor' # d
        BY <2>1, <2>3
      <4> QED BY <1>0, <3>1, <4>1, SeenPlace
    <3>3. PICK e \in Place : e = [at |-> msgs[p].at, row |-> 0]
      BY <1>0, PlaceOf
    <3>4. Backed(e) /\ e.at = msgs[p].at /\ e.row = 0
      BY <1>0, <3>3, PlaceOf
    <3>5. Backed(e)'
      BY <1>1, <1>9, <3>4, PlacesKept
    <3>6. \A i \in DOMAIN msgs : Due(i)' => After(i, e)
      <4>1. \A i \in DOMAIN msgs : msgs[i].at \in Nat /\ i \in Nat /\ i > 0
        BY <1>0, MessageFields, ChatBasics
      <4> QED BY <1>11, <3>1, <3>4, <4>1 DEF After
    <3>7. Ahead(e)'
      BY <1>1, <3>6 DEF Ahead, After
    <3>8. cursor' = e
      BY <3>2, <3>3
    <3> QED BY <3>5, <3>7, <3>8 DEF Backed, Ahead, After
  <2> QED BY <2>2, <2>3, <1>0 DEF ChatTypeOK
<1>13. \A i \in DOMAIN msgs' : Due(i)' => Pending(i)' \/ Buffered(i)'
  <2> SUFFICES ASSUME NEW i \in DOMAIN msgs, Due(i)', ~Pending(i)
               PROVE  \E k \in DOMAIN conn'.buf : conn'.buf[k] = [type |-> "message.created", row |-> i]
    BY <1>1, <1>9 DEF Buffered
  <2>1. PICK l \in 2 .. Len(b) : b[l] = Created(i)
    BY <1>10
  <2>2. l - 1 \in DOMAIN conn'.buf /\ conn'.buf[l - 1] = b[(l - 1) + 1] /\ (l - 1) + 1 = l
    BY <1>4, <1>5
  <2> QED BY <2>1, <2>2 DEF Created
<1>14. BufferInOrder'
  <2> SUFFICES ASSUME NEW k \in DOMAIN conn'.buf, conn'.buf[k].type \in Told, NEW i \in DOMAIN msgs, Due(i)'
               PROVE  (Pending(i) \/ \E l \in k .. Len(conn'.buf) : conn'.buf[l] = Created(i))
                         => msgs[conn'.buf[k].row].at <= msgs[i].at
    BY <1>1, <1>9 DEF BufferInOrder, Created
  <2>1. k + 1 \in DOMAIN conn.buf /\ conn'.buf[k] = conn.buf[k + 1] /\ k \in Nat
    BY <1>3, <1>4, <1>5
  <2>2. ASSUME NEW l \in k .. Len(conn'.buf), conn'.buf[l] = Created(i)
        PROVE  \E m \in (k + 1) .. Len(conn.buf) : conn.buf[m] = Created(i)
    <3>1. l + 1 \in (k + 1) .. Len(conn.buf) /\ conn'.buf[l] = conn.buf[l + 1]
      BY <1>3, <1>4, <1>5, <2>1
    <3> QED BY <2>2, <3>1
  <2>3. /\ conn.buf[k + 1].type \in Told /\ Due(i)
        /\ (Pending(i) \/ \E m \in (k + 1) .. Len(conn.buf) : conn.buf[m] = Created(i))
             => msgs[conn.buf[k + 1].row].at <= msgs[i].at
    BY <1>0, <1>9, <2>1 DEF StreamInv, BufferInOrder
  <2> QED BY <2>1, <2>2, <2>3
<1>15. StreamInv'
  BY <1>1, <1>5, <1>12, <1>13, <1>14 DEF StreamInv
<1>16. ClockInv'
  BY <1>0, <1>1, ClockStays DEF ChatTypeOK
<1>17. ChatTypeOK'
  <2>1. \A k \in DOMAIN conn'.buf : conn'.buf[k].type \in Told => conn'.buf[k].row \in DOMAIN msgs'
    <3> SUFFICES ASSUME NEW k \in DOMAIN conn'.buf, conn'.buf[k].type \in Told PROVE conn'.buf[k].row \in DOMAIN msgs
      BY <1>1
    <3>1. k + 1 \in DOMAIN conn.buf /\ conn'.buf[k] = conn.buf[k + 1]
      BY <1>3, <1>4, <1>5
    <3> QED BY <1>0, <3>1 DEF ChatTypeOK
  <2> QED BY <1>0, <1>1, <1>5, <1>9, <1>12, <2>1, TablesStay DEF ChatTypeOK
<1> QED BY <1>1, <1>15, <1>16, <1>17, TablesStay DEF ChatInv

LEMMA BreakKeeps ==
    ASSUME ChatInv, Break \/ ServerDies
    PROVE  ChatInv'
<1>0. ChatTypeOK /\ StreamInv
  BY DEF ChatInv
<1>1. /\ conn' = Off /\ reqs' \subseteq reqs /\ breaks < MaxBreaks /\ breaks' = breaks + 1
      /\ UNCHANGED <<room, direct, msgs, now, ever, lost, start, got, cursor>>
  BY DEF Break, ServerDies, serverVars
<1>2. \A i \in DOMAIN msgs : Due(i)' => Due(i)
  BY <1>1, TablesStay DEF Due, Owed
<1>3. Backed(cursor)' /\ Ahead(cursor)'
  <2>1. PICK c \in Place : c = cursor
    BY <1>0 DEF ChatTypeOK
  <2>2. Backed(c)' /\ Ahead(c)'
    BY <1>0, <1>1, <1>2, <2>1, PlacesKept DEF StreamInv
  <2> QED BY <1>1, <2>1, <2>2 DEF Backed, Ahead, After
<1>4. StreamInv'
  BY <1>1, <1>3, StreamGone
<1>5. ClockInv'
  BY <1>0, <1>1, ClockStays DEF ChatTypeOK
<1>6. ChatTypeOK'
  <2>1. breaks' \in 0 .. MaxBreaks
    BY <1>0, <1>1, ChatBasics DEF ChatTypeOK
  <2>2. conn' \in Stream /\ \A k \in DOMAIN conn'.buf : conn'.buf[k].type \in Told => conn'.buf[k].row \in DOMAIN msgs'
    BY <1>1, OffFields
  <2> QED BY <1>0, <1>1, <2>1, <2>2, TablesStay DEF ChatTypeOK
<1> QED BY <1>1, <1>4, <1>5, <1>6, TablesStay DEF ChatInv

LEMMA TickKeeps ==
    ASSUME ChatInv, Tick
    PROVE  ChatInv'
<1>0. ChatTypeOK /\ StreamInv
  BY DEF ChatInv
<1>1. /\ now < MaxTime /\ now' = now + 1
      /\ UNCHANGED <<room, direct, msgs, reqs, conn, got, cursor, breaks, start, ever, lost>>
  BY DEF Tick, clientVars, pastVars
<1>2. now' \in 0 .. MaxTime /\ now' \in Nat /\ now <= now'
  BY <1>0, <1>1, ChatBasics DEF ChatTypeOK
<1>3. /\ \A i \in DOMAIN msgs : Due(i)' <=> Due(i)
      /\ \A i \in DOMAIN msgs : Pending(i)' <=> Pending(i)
  <2>1. \A i \in DOMAIN msgs : Owed(i)' <=> Owed(i)
    BY <1>1, TablesStay DEF Owed
  <2> QED BY <1>1, <2>1 DEF Due, Pending
<1>4. StreamInv'
  <2>1. PICK c \in Place, d \in Place : c = cursor /\ d = conn.cur
    BY <1>0 DEF ChatTypeOK, Stream
  <2>2. Backed(c)' /\ Ahead(c)' /\ (conn.st = "replay" => Backed(d)' /\ Ahead(d)')
    BY <1>0, <1>1, <1>3, <2>1, PlacesKept DEF StreamInv
  <2>3. /\ Backed(cursor)' /\ Ahead(cursor)'
        /\ conn'.st = "replay" => Backed(conn.cur)' /\ Ahead(conn.cur)'
    BY <1>1, <2>1, <2>2 DEF Backed, Ahead, After
  <2>4. conn'.st = "live" \/ (conn'.st = "replay" /\ ~conn'.more) =>
          \A i \in DOMAIN msgs' : Due(i)' => Pending(i)' \/ Buffered(i)'
    BY <1>0, <1>1, <1>3 DEF StreamInv, Buffered
  <2>5. BufferInOrder'
    BY <1>0, <1>1, <1>3 DEF StreamInv, BufferInOrder, Created
  <2> QED BY <2>3, <2>4, <2>5 DEF StreamInv
<1>5. ClockInv'
  BY <1>0, <1>1, <1>2, ClockStays DEF ChatTypeOK
<1>6. ChatTypeOK'
  BY <1>0, <1>1, <1>2, TablesStay DEF ChatTypeOK
<1> QED BY <1>1, <1>4, <1>5, <1>6, TablesStay DEF ChatInv

LEMMA ChatStutterKeeps ==
    ASSUME ChatInv, UNCHANGED chatVars
    PROVE  ChatInv'
<1>1. UNCHANGED <<room, direct, msgs, now, reqs, conn, got, cursor, breaks, ever, start, lost>>
  BY DEF chatVars
<1>2. Calm
  <2>0. ChatTypeOK
    BY DEF ChatInv
  <2>1. Notified
    BY <2>0, <1>1, PushNotifies DEF Pushed
  <2>2. Asked
    BY <1>1 DEF Asked
  <2>3. \A i \in DOMAIN msgs : In(Watcher, msgs[i].room)' => In(Watcher, msgs[i].room)
    BY <1>1 DEF In, RoomUserIDs, participantRole
  <2> QED BY <1>1, <2>0, <2>1, <2>2, <2>3, CalmWrite
<1> QED BY <1>1, <1>2, RoomsStay

LEMMA ChatStep ==
    ASSUME ChatInv, ChatNext
    PROVE  ChatInv'
<1>1. CASE createRoom
  BY <1>1, GroupStepKeeps, AskDirectKeeps DEF createRoom
<1>2. CASE patchRoom
  BY <1>2, RenameKeeps DEF patchRoom
<1>3. CASE leaveRoom
  BY <1>3, LeaveKeeps DEF leaveRoom
<1>4. CASE markRead
  BY <1>4, MarkKeeps DEF markRead
<1>5. CASE sendMessage
  BY <1>5, SendKeeps DEF sendMessage
<1>6. CASE editMessage
  BY <1>6, EditKeeps DEF editMessage
<1>7. CASE deleteMessage
  BY <1>7, DeleteKeeps DEF deleteMessage
<1>8. CASE RequestStep
  BY <1>8, DirectStepKeeps, RefusedKeeps, AppendKeeps, PublishKeeps DEF RequestStep
<1>9. CASE events
  BY <1>9, SubscribeKeeps, ReplayKeeps, ReplayFailsKeeps, ReadyKeeps, DeliverKeeps DEF events
<1>10. CASE Break \/ ServerDies
  BY <1>10, BreakKeeps
<1>11. CASE Tick
  BY <1>11, TickKeeps
<1> QED BY <1>1, <1>2, <1>3, <1>4, <1>5, <1>6, <1>7, <1>8, <1>9, <1>10, <1>11 DEF ChatNext

LEMMA ChatStart == ChatInit => ChatInv
<1> SUFFICES ASSUME ChatInit PROVE ChatInv
  OBVIOUS
<1>1. /\ room = [r \in Rooms |-> Empty] /\ direct = {} /\ msgs = <<>> /\ now = 0 /\ reqs = {}
      /\ conn = Off /\ got = {} /\ cursor = NoCursor /\ breaks = 0
      /\ ever = [r \in Rooms |-> {}] /\ start = -1 /\ lost = {}
  BY DEF ChatInit
<1>2. /\ MaxTime \in Nat /\ MaxMsgs \in Nat /\ MaxBreaks \in Nat
  BY ChatAssumption
<1>3. msgs \in Seq(Message) /\ Len(msgs) = 0 /\ DOMAIN msgs = {}
  BY <1>1, EmptySeq
<1>4. Empty \in RoomRow /\ Empty.kind = "none" /\ \A u \in Users : Empty.role[u] = "none" /\ Empty.read[u] = 0
  BY <1>2 DEF Empty, NoOne, RoomRow, Marks
<1>5. \A r \in Rooms : InRoom(r) = {} /\ Count(r) = 0 /\ \A u \in Users : ~In(u, r)
  <2>1. \A r \in Rooms : InRoom(r) = {}
    BY <1>3 DEF InRoom
  <2>2. \A r \in Rooms, u \in Users : ~In(u, r)
    BY <1>1, <1>4 DEF In, RoomUserIDs, participantRole
  <2> QED BY <2>1, <2>2, FS_EmptySet DEF Count
<1>6. ChatTypeOK
  <2>1. conn \in Stream /\ DOMAIN conn.buf = {} /\ cursor \in Place
    BY <1>1, OffFields
  <2>2. room \in [Rooms -> RoomRow] /\ ever \in [Rooms -> SUBSET Users]
    BY <1>1, <1>4
  <2> QED BY <1>1, <1>2, <1>3, <2>1, <2>2 DEF ChatTypeOK
<1>7. RoomsOpened
  BY <1>1, <1>3, <1>4, <1>5 DEF RoomsOpened
<1>8. DirectInv
  BY <1>1, <1>4 DEF DirectInv
<1>9. Numbered
  BY <1>1, <1>4, <1>5 DEF Numbered
<1>10. ClockInv
  BY <1>1, <1>3 DEF ClockInv
<1>11. StreamInv
  BY <1>1, <1>3, OffFields DEF StreamInv, Backed, Ahead, BufferInOrder
<1> QED BY <1>6, <1>7, <1>8, <1>9, <1>10, <1>11 DEF ChatInv

-----------------------------------------------------------------------------
(* Chat: the theorems. *)

\* The invariant of the chat, for any number of users, rooms, messages, pages and any
\* size of the buffer.
THEOREM ChatInvariance == ChatSpec => []ChatInv
<1>1. ChatInv /\ [ChatNext]_chatVars => ChatInv'
  BY ChatStep, ChatStutterKeeps
<1> QED BY <1>1, ChatStart, PTL DEF ChatSpec

\* Every variable of the chat has its type, and what is buffered, announced or delivered
\* is a message of the table.
THEOREM ChatTypeCorrect == ChatSpec => []ChatTypeOK
<1>1. ChatInv => ChatTypeOK
  BY DEF ChatInv
<1> QED BY <1>1, ChatInvariance, PTL

\* The cursor of a watching client never passes a message it has not got, and a live
\* stream still holds it, or its publication is on the way; but for the messages given
\* up, by a replay page that failed among others (handler.go events, hub.go Publish).
THEOREM NothingHidden == ChatSpec => []CursorHidesNothing
<1>1. ChatInv => CursorHidesNothing
  <2> SUFFICES ASSUME ChatInv, NEW i \in DOMAIN msgs, Due(i)
               PROVE  After(i, cursor) /\ (conn.st = "live" => Pending(i) \/ Buffered(i))
    BY DEF CursorHidesNothing
  <2> QED BY DEF ChatInv, StreamInv, Ahead
<1> QED BY <1>1, ChatInvariance, PTL

\* Two people have at most one direct room, both of them are in it, and the key of the
\* pair names it.
THEOREM DirectRoomsStayPaired == ChatSpec => []DirectRoomsPaired
<1>1. ChatInv => DirectRoomsPaired
  <2> SUFFICES ASSUME ChatInv PROVE DirectRoomsPaired
    OBVIOUS
  <2>1. DirectInv
    BY DEF ChatInv
  <2>2. \A r, s \in Rooms : room[r].kind = "direct" /\ room[s].kind = "direct" /\ ever[r] = ever[s] => r = s
    <3> SUFFICES ASSUME NEW r \in Rooms, NEW s \in Rooms, room[r].kind = "direct", room[s].kind = "direct", ever[r] = ever[s]
                 PROVE  r = s
      OBVIOUS
    <3> DEFINE k == [users |-> ever[r], room |-> r]
               l == [users |-> ever[s], room |-> s]
    <3>1. k \in direct /\ l \in direct
      BY <2>1 DEF DirectInv
    <3>2. k.users = l.users /\ k.room = r /\ l.room = s
      OBVIOUS
    <3> HIDE DEF k, l
    <3>3. k = l
      BY <2>1, <3>1, <3>2 DEF DirectInv
    <3> QED BY <3>2, <3>3
  <2> QED BY <2>1, <2>2 DEF DirectRoomsPaired, DirectInv
<1> QED BY <1>1, ChatInvariance, PTL

-----------------------------------------------------------------------------
(* Chat: rooms are logs.  A set of rows in order, as the list of what they say. *)

Entry == [by : Users, no : 1 .. MaxMsgs, shown : BOOLEAN]
EntryOf(m, i) == [by |-> m[i].by, no |-> m[i].seq, shown |-> m[i].live]
PlaceIn(S, i) == Cardinality({j \in S : j <= i})
Listing(m, S) == [n \in 1 .. Cardinality(S) |-> EntryOf(m, CHOOSE i \in S : PlaceIn(S, i) = n)]

LEMMA EntriesListed ==
    /\ \A r \in Rooms : Entries(r) = Listing(msgs, InRoom(r))
    /\ \A r \in Rooms : Entries(r)' = Listing(msgs', InRoom(r)')
    /\ \A r \in Rooms : \A i : Rank(r, i) = PlaceIn(InRoom(r), i)
    /\ \A r \in Rooms : \A i : Rank(r, i)' = PlaceIn(InRoom(r)', i)
  BY DEF Entries, Nth, Listing, EntryOf, PlaceIn, Rank

LEMMA RowsFinite ==
    ASSUME NEW N \in Nat, NEW S \in SUBSET (1 .. N)
    PROVE  IsFiniteSet(S) /\ Cardinality(S) \in Nat
<1>1. IsFiniteSet(1 .. N)
  BY FS_Interval
<1>2. IsFiniteSet(S)
  BY <1>1, FS_Subset
<1> QED BY <1>2, FS_CardinalityType

\* Two rows of a set have two places.
LEMMA PlacesDiffer ==
    ASSUME NEW N \in Nat, NEW S \in SUBSET (1 .. N), NEW i \in S, NEW j \in S, PlaceIn(S, i) = PlaceIn(S, j)
    PROVE  i = j
<1>1. IsFiniteSet(S) /\ S \subseteq Nat
  BY RowsFinite
<1>2. ASSUME NEW a \in S, NEW b \in S, a < b, PlaceIn(S, a) = PlaceIn(S, b) PROVE FALSE
  <2> DEFINE A == {k \in S : k <= a}
             B == {k \in S : k <= b}
  <2>1. A \subseteq B /\ B \subseteq S /\ b \in B /\ b \notin A
    <3>1. a \in Nat /\ b \in Nat /\ a < b /\ \A k \in S : k \in Nat
      BY <1>1, <1>2
    <3>2. \A k \in S : k <= a => k <= b
      BY <3>1
    <3>3. A \subseteq B /\ B \subseteq S
      BY <3>2, Zenon
    <3>4. b <= b /\ ~(b <= a)
      BY <3>1
    <3>5. b \in B /\ b \notin A
      BY <3>4
    <3> QED BY <3>3, <3>5
  <2>2. IsFiniteSet(B)
    BY <1>1, <2>1, FS_Subset
  <2>3. Cardinality(A) = Cardinality(B)
    BY <1>2 DEF PlaceIn
  <2> HIDE DEF A, B
  <2>4. A = B
    BY <2>1, <2>2, <2>3, FS_Subset
  <2> QED BY <2>1, <2>4
<1>3. i \in Nat /\ j \in Nat
  OBVIOUS
<1>4. CASE i < j
  BY <1>2, <1>4
<1>5. CASE j < i
  BY <1>2, <1>5
<1> QED BY <1>3, <1>4, <1>5

\* The list has at every place the row that has it.
LEMMA ListedAt ==
    ASSUME NEW N \in Nat, NEW S \in SUBSET (1 .. N), NEW m, NEW i \in S
    PROVE  /\ PlaceIn(S, i) \in 1 .. Cardinality(S) /\ Listing(m, S)[PlaceIn(S, i)] = EntryOf(m, i)
           /\ Cardinality(S) \in Nat
<1>1. IsFiniteSet(S) /\ Cardinality(S) \in Nat
  BY RowsFinite
<1>2. PlaceIn(S, i) \in 1 .. Cardinality(S)
  <2> DEFINE A == {j \in S : j <= i}
  <2>1. A \subseteq S /\ i \in A
    OBVIOUS
  <2>2. IsFiniteSet(A) /\ Cardinality(A) <= Cardinality(S) /\ Cardinality(A) \in Nat
    BY <1>1, <2>1, FS_Subset, FS_CardinalityType
  <2>3. Cardinality(A) # 0
    BY <2>1, <2>2, FS_EmptySet
  <2> QED BY <1>1, <2>2, <2>3 DEF PlaceIn
<1>3. (CHOOSE j \in S : PlaceIn(S, j) = PlaceIn(S, i)) = i
  BY PlacesDiffer
<1> QED BY <1>1, <1>2, <1>3 DEF Listing

LEMMA ListTyped ==
    ASSUME NEW N \in Nat, NEW S \in SUBSET (1 .. N), NEW m,
           \A i \in S : EntryOf(m, i) \in Entry,
           \A n \in 1 .. Cardinality(S) : \E i \in S : PlaceIn(S, i) = n
    PROVE  Listing(m, S) \in Seq(Entry) /\ Len(Listing(m, S)) = Cardinality(S)
<1>1. Cardinality(S) \in Nat
  BY RowsFinite
<1>2. Listing(m, S) \in [1 .. Cardinality(S) -> Entry]
  <2>1. ASSUME NEW n \in 1 .. Cardinality(S) PROVE Listing(m, S)[n] \in Entry
    <3>1. PICK i \in S : PlaceIn(S, i) = n
      OBVIOUS
    <3>2. Listing(m, S)[n] = EntryOf(m, i)
      BY <3>1, ListedAt
    <3> QED BY <3>2
  <2> QED BY <2>1 DEF Listing
<1>3. Listing(m, S) \in Seq(Entry)
  BY <1>1, <1>2, SeqDef
<1> QED BY <1>1, <1>2, <1>3, LenProperties

\* The lists of the rooms before and after a step.
LEMMA RoomListed ==
    ASSUME ChatInv, NEW r \in Rooms
    PROVE  /\ InRoom(r) \in SUBSET (1 .. MaxMsgs) /\ MaxMsgs \in Nat /\ Cardinality(InRoom(r)) \in Nat
           /\ \A i \in InRoom(r) : EntryOf(msgs, i) \in Entry
           /\ \A i \in InRoom(r) : msgs[i].seq = PlaceIn(InRoom(r), i)
           /\ \A n \in 1 .. Cardinality(InRoom(r)) : \E i \in InRoom(r) : PlaceIn(InRoom(r), i) = n
<1>1. ChatTypeOK /\ Numbered
  BY DEF ChatInv
<1>2. InRoom(r) \in SUBSET (1 .. MaxMsgs) /\ MaxMsgs \in Nat /\ Cardinality(InRoom(r)) \in Nat /\ InRoom(r) \subseteq DOMAIN msgs
  BY <1>1, Counted, ChatBasics DEF Count
<1>3. \A i \in InRoom(r) : EntryOf(msgs, i) \in Entry
  BY <1>1, <1>2, MessageFields DEF EntryOf, Entry
<1>4. \A i \in InRoom(r) : msgs[i].seq = PlaceIn(InRoom(r), i)
  BY <1>1, EntriesListed DEF Numbered
<1>5. \A n \in 1 .. Cardinality(InRoom(r)) : \E i \in InRoom(r) : PlaceIn(InRoom(r), i) = n
  BY <1>1, <1>4 DEF Numbered, Count
<1> QED BY <1>2, <1>3, <1>4, <1>5

LogsNow == [r \in Rooms |-> Entries(r)]
MembersNow == [r \in Rooms |-> RoomUserIDs(r)]
ReadNow == [r \in Rooms |-> room[r].read]

LEMMA LogVariables ==
    /\ Log!logVars = <<LogsNow, MembersNow, ever, ReadNow>>
    /\ Log!logVars' = <<LogsNow', MembersNow', ever', ReadNow'>>
  BY DEF Log!logVars, LogsNow, MembersNow, ReadNow

LEMMA LogSteps ==
    ASSUME NEW r \in Rooms,
           \/ \E us \in SUBSET Users : Log!OpenRoom(r, us)
           \/ \E u \in Users : Log!Post(r, u) \/ Log!LeaveLog(r, u)
           \/ \E i \in DOMAIN Entries(r) : Log!Erase(r, i)
           \/ \E u \in Users : Log!Mark(r, u)
    PROVE  [Log!LogNext]_(Log!logVars)
<1>1. CASE Log!logVars' = Log!logVars
  BY <1>1
<1>2. CASE Log!logVars' # Log!logVars
  BY <1>2 DEF Log!LogNext
<1> QED BY <1>1, <1>2

\* Nothing of a log changes.
LEMMA LogStays ==
    ASSUME msgs' = msgs, room' = room, ever' = ever
    PROVE  [Log!LogNext]_(Log!logVars)
<1>1. \A r \in Rooms : Entries(r)' = Entries(r) /\ RoomUserIDs(r)' = RoomUserIDs(r)
  BY DEF Entries, Nth, InRoom, RoomUserIDs, participantRole
<1>2. LogsNow' = LogsNow /\ MembersNow' = MembersNow /\ ReadNow' = ReadNow
  BY <1>1 DEF LogsNow, MembersNow, ReadNow
<1> QED BY <1>2, LogVariables

LEMMA EntriesStay ==
    ASSUME msgs' = msgs
    PROVE  LogsNow' = LogsNow /\ \A r \in Rooms : Entries(r)' = Entries(r)
<1>1. \A r \in Rooms : Entries(r)' = Entries(r)
  BY DEF Entries, Nth, InRoom
<1> QED BY <1>1 DEF LogsNow

\* Two functions from users to numbers, as they are compared for read marks.
LEMMA ReadTyped ==
    ASSUME ChatTypeOK, NEW r \in Rooms
    PROVE  room[r].read \in [Users -> Marks]
  BY DEF ChatTypeOK, RoomRow

LEMMA OpenImplements ==
    ASSUME ChatInv, NEW r \in Rooms, NEW all \in SUBSET Users, \E u, v \in all : u # v,
           room[r].kind = "none", msgs' = msgs, ever' = [ever EXCEPT ![r] = all],
           room' \in [Rooms -> RoomRow],
           \A s \in Rooms : s # r => room'[s] = room[s],
           \A u \in Users : In(u, r)' <=> u \in all,
           \A u \in Users : room'[r].read[u] = 0
    PROVE  Log!OpenRoom(r, all)
<1>0. ChatTypeOK /\ RoomsOpened
  BY DEF ChatInv
<1>1. ever[r] = {} /\ \A u \in Users : ~In(u, r) /\ room[r].read[u] = 0
  BY <1>0 DEF RoomsOpened
<1>2. MembersNow' = [MembersNow EXCEPT ![r] = all]
  <2>1. RoomUserIDs(r)' = all
    <3>1. RoomUserIDs(r)' \subseteq Users /\ \A u \in Users : u \in RoomUserIDs(r)' <=> u \in all
      BY DEF RoomUserIDs, In
    <3> QED BY <3>1
  <2>2. \A s \in Rooms : s # r => RoomUserIDs(s)' = RoomUserIDs(s)
    BY DEF RoomUserIDs, participantRole
  <2> QED BY <2>1, <2>2 DEF MembersNow
<1>3. ReadNow' = ReadNow
  <2>1. room[r].read \in [Users -> Marks]
    BY <1>0, ReadTyped
  <2>2. room'[r].read \in [Users -> Marks]
    BY DEF RoomRow
  <2>3. room'[r].read = room[r].read
    BY <1>1, <2>1, <2>2
  <2> QED BY <2>3 DEF ReadNow
<1>4. LogsNow' = LogsNow
  BY EntriesStay
<1> QED BY <1>1, <1>2, <1>3, <1>4 DEF Log!OpenRoom, MembersNow, ReadNow, LogsNow

LEMMA GroupImplements ==
    ASSUME ChatInv, NEW r \in Rooms, NEW creator \in Users, NEW us \in SUBSET (Users \ {creator}),
           CreateGroupRoom(r, creator, us)
    PROVE  [Log!LogNext]_(Log!logVars)
<1>1. PICK all \in SUBSET Users : all = us \cup {creator}
  OBVIOUS
<1>2. /\ AddRoom(r, "group", creator, all) /\ Cardinality(all) >= 2 /\ msgs' = msgs
      /\ ChatTypeOK
  BY <1>1 DEF CreateGroupRoom, ChatInv
<1>3. \E u, v \in all : u # v
  <2>1. CASE \A u \in all : u = creator
    <3>1. all = {creator}
      BY <1>1, <2>1
    <3>2. Cardinality(all) = 1
      BY <3>1, FS_Singleton
    <3> QED BY <1>2, <3>2
  <2>2. CASE \E u \in all : u # creator
    BY <1>1, <2>2
  <2> QED BY <2>1, <2>2
<1>4. creator \in all
  BY <1>1
<1>5. /\ room' \in [Rooms -> RoomRow] /\ room[r].kind = "none"
      /\ \A s \in Rooms : s # r => room'[s] = room[s]
      /\ \A u \in Users : In(u, r)' <=> u \in all
      /\ \A u \in Users : room'[r].read[u] = 0
  BY <1>2, <1>4, AddRoomEffect
<1>6. ever' = [ever EXCEPT ![r] = all]
  BY <1>2 DEF AddRoom
<1>7. Log!OpenRoom(r, all)
  BY <1>2, <1>3, <1>5, <1>6, OpenImplements
<1> QED BY <1>7, LogSteps

LEMMA DirectImplements ==
    ASSUME ChatInv, NEW q \in reqs, NEW r \in Rooms, InsertDirect(q, r)
    PROVE  [Log!LogNext]_(Log!logVars)
<1>1. ChatTypeOK /\ q.user \in Users /\ q.other \in Users /\ q.user # q.other
  BY DEF ChatInv, InsertDirect, ChatTypeOK, Opening, Sending, Announcing
<1>2. PICK all \in SUBSET Users : all = {q.user, q.other}
  BY <1>1
<1>3. AddRoom(r, "direct", q.user, all) /\ msgs' = msgs /\ q.user \in all
  BY <1>2 DEF InsertDirect
<1>4. \E u, v \in all : u # v
  BY <1>1, <1>2
<1>5. /\ room' \in [Rooms -> RoomRow] /\ room[r].kind = "none"
      /\ \A s \in Rooms : s # r => room'[s] = room[s]
      /\ \A u \in Users : In(u, r)' <=> u \in all
      /\ \A u \in Users : room'[r].read[u] = 0
  BY <1>1, <1>3, AddRoomEffect
<1>6. ever' = [ever EXCEPT ![r] = all]
  BY <1>3 DEF AddRoom
<1>7. Log!OpenRoom(r, all)
  BY <1>3, <1>4, <1>5, <1>6, OpenImplements
<1> QED BY <1>7, LogSteps

LEMMA LeaveImplements ==
    ASSUME ChatInv, NEW u \in Users, NEW r \in Rooms, LeaveRoom(u, r)
    PROVE  [Log!LogNext]_(Log!logVars)
<1>1. ChatTypeOK /\ msgs' = msgs /\ ever' = ever
  BY DEF ChatInv, LeaveRoom
<1>2. /\ room' \in [Rooms -> RoomRow] /\ In(u, r)
      /\ \A s \in Rooms : s # r => room'[s] = room[s]
      /\ \A v \in Users : In(v, r)' <=> In(v, r) /\ v # u
      /\ \A v \in Users : room'[r].read[v] = IF v = u THEN 0 ELSE room[r].read[v]
  BY <1>1, LeaveEffect
<1>3. MembersNow' = [MembersNow EXCEPT ![r] = @ \ {u}]
  <2>1. RoomUserIDs(r)' = RoomUserIDs(r) \ {u}
    <3>1. /\ RoomUserIDs(r)' \subseteq Users /\ RoomUserIDs(r) \subseteq Users
          /\ \A v \in Users : v \in RoomUserIDs(r)' <=> v \in RoomUserIDs(r) /\ v # u
      BY <1>2 DEF RoomUserIDs, In
    <3> QED BY <3>1
  <2>2. \A s \in Rooms : s # r => RoomUserIDs(s)' = RoomUserIDs(s)
    BY <1>2 DEF RoomUserIDs, participantRole
  <2> QED BY <2>1, <2>2 DEF MembersNow
<1>4. ReadNow' = [ReadNow EXCEPT ![r] = [@ EXCEPT ![u] = 0]]
  <2>1. room[r].read \in [Users -> Marks]
    BY <1>1, ReadTyped
  <2>2. room'[r].read \in [Users -> Marks]
    BY <1>2 DEF RoomRow
  <2>3. room'[r].read = [room[r].read EXCEPT ![u] = 0]
    BY <1>2, <2>1, <2>2
  <2> QED BY <1>2, <2>3 DEF ReadNow
<1>5. LogsNow' = LogsNow
  BY <1>1, EntriesStay
<1>6. u \in MembersNow[r]
  BY <1>2 DEF MembersNow, In
<1>7. Log!LeaveLog(r, u)
  BY <1>1, <1>3, <1>4, <1>5, <1>6 DEF Log!LeaveLog, MembersNow, ReadNow, LogsNow
<1> QED BY <1>7, LogSteps

LEMMA MarkImplements ==
    ASSUME ChatInv, NEW u \in Users, NEW r \in Rooms, NEW seq \in Marks, MarkRead(u, r, seq)
    PROVE  [Log!LogNext]_(Log!logVars)
<1>1. ChatTypeOK /\ RoomsOpened /\ Numbered /\ msgs' = msgs /\ ever' = ever /\ In(u, r)
  BY DEF ChatInv, MarkRead
<1>2. PICK to \in Marks : room[r].read[u] <= to /\ MarkedTo(r, u, to)
  BY <1>1, MarkTo
<1>3. room[r].read \in [Users -> Marks] /\ to \in Nat
  BY <1>1, ReadTyped, ChatBasics DEF Marks
<1>4. /\ room' \in [Rooms -> RoomRow]
      /\ \A s \in Rooms : s # r => room'[s] = room[s]
      /\ \A s \in Rooms, v \in Users : In(v, s)' <=> In(v, s)
      /\ \A v \in Users : room'[r].read[v] = IF v = u THEN to ELSE room[r].read[v]
  BY <1>1, <1>2, ReadEffect
<1>5. MembersNow' = MembersNow
  <2>1. ASSUME NEW s \in Rooms PROVE RoomUserIDs(s)' = RoomUserIDs(s)
    <3>1. /\ RoomUserIDs(s)' \subseteq Users /\ RoomUserIDs(s) \subseteq Users
          /\ \A v \in Users : v \in RoomUserIDs(s)' <=> v \in RoomUserIDs(s)
      BY <1>4 DEF RoomUserIDs, In
    <3> QED BY <3>1
  <2> QED BY <2>1 DEF MembersNow
<1>6. ReadNow' = [ReadNow EXCEPT ![r] = [@ EXCEPT ![u] = to]]
  <2>1. room[r].read \in [Users -> Marks]
    BY <1>1, ReadTyped
  <2>2. room'[r].read \in [Users -> Marks]
    BY <1>4 DEF RoomRow
  <2>3. room'[r].read = [room[r].read EXCEPT ![u] = to]
    BY <1>4, <2>1, <2>2
  <2> QED BY <1>4, <2>3 DEF ReadNow
<1>7. LogsNow' = LogsNow
  BY <1>1, EntriesStay
<1>8. u \in MembersNow[r] /\ ReadNow[r][u] <= to
  BY <1>1, <1>2 DEF MembersNow, ReadNow, In
<1>9. ReadNow'[r][u] = to
  BY <1>3, <1>6 DEF ReadNow
<1>10. Log!Mark(r, u)
  BY <1>1, <1>3, <1>5, <1>6, <1>7, <1>8, <1>9 DEF Log!Mark, MembersNow, ReadNow, LogsNow
<1> QED BY <1>10, LogSteps

\* A list says what its rows say.
LEMMA ListsAgree ==
    ASSUME NEW m, NEW p, NEW S, \A i \in S : EntryOf(p, i) = EntryOf(m, i),
           \A n \in 1 .. Cardinality(S) : \E i \in S : PlaceIn(S, i) = n
    PROVE  Listing(p, S) = Listing(m, S)
<1>1. ASSUME NEW n \in 1 .. Cardinality(S)
      PROVE  EntryOf(p, CHOOSE i \in S : PlaceIn(S, i) = n) = EntryOf(m, CHOOSE i \in S : PlaceIn(S, i) = n)
  <2>1. (CHOOSE i \in S : PlaceIn(S, i) = n) \in S
    OBVIOUS
  <2> QED BY <2>1
<1> QED BY <1>1 DEF Listing

\* The two steps on the logs, over the lists as they are.
LEMMA EraseForm ==
    ASSUME NEW r \in Rooms, NEW k,
           k \in DOMAIN LogsNow[r], LogsNow[r][k].shown, LogsNow[r][k].by \in MembersNow[r],
           LogsNow' = [LogsNow EXCEPT ![r][k].shown = FALSE],
           UNCHANGED <<MembersNow, ever, ReadNow>>
    PROVE  Log!Erase(r, k)
  BY DEF Log!Erase, LogsNow, MembersNow, ReadNow

PostsLog(r, u) == LogsNow' = [LogsNow EXCEPT ![r] = Append(@, [by |-> u, no |-> Len(@) + 1, shown |-> TRUE])]
PostsMark(r, u) ==
    ReadNow' = [ReadNow EXCEPT ![r][u] =
                   IF u \in MembersNow[r] /\ @ < Len(LogsNow'[r]) THEN Len(LogsNow'[r]) ELSE @]

LEMMA PostForm ==
    ASSUME NEW r \in Rooms, NEW u, u \in ever[r], MembersNow' = MembersNow, ever' = ever, PostsLog(r, u), PostsMark(r, u)
    PROVE  Log!Post(r, u)
  BY DEF Log!Post, LogsNow, MembersNow, ReadNow, PostsLog, PostsMark

LEMMA DeleteImplements ==
    ASSUME ChatInv, NEW u \in Users, NEW i \in DOMAIN msgs, DeleteMessage(u, i)
    PROVE  [Log!LogNext]_(Log!logVars)
<1>1. /\ ChatTypeOK /\ msgs' = [msgs EXCEPT ![i].live = FALSE] /\ room' = room /\ ever' = ever
      /\ In(u, msgs[i].room) /\ msgs[i].by = u /\ msgs[i].live
  BY DEF ChatInv, DeleteMessage, Shown
<1>2. PICK r \in Rooms : r = msgs[i].room
  BY <1>1, MessageFields
<1>3. /\ SameMessages /\ DOMAIN msgs' = DOMAIN msgs /\ msgs'[i].live = FALSE
      /\ \A j \in DOMAIN msgs : j # i => msgs'[j] = msgs[j]
  BY <1>1, DeletedRow
<1>4. \A s \in Rooms : InRoom(s)' = InRoom(s)
  BY <1>1, <1>3, SameRooms
<1>5. PICK p : p = msgs'
  OBVIOUS
<1>6. \A s \in Rooms : s # r => Entries(s)' = Entries(s)
  <2> SUFFICES ASSUME NEW s \in Rooms, s # r PROVE Listing(p, InRoom(s)) = Listing(msgs, InRoom(s))
    BY <1>4, <1>5, EntriesListed
  <2>1. \A j \in InRoom(s) : EntryOf(p, j) = EntryOf(msgs, j)
    BY <1>2, <1>3, <1>5 DEF EntryOf, InRoom
  <2> QED BY <2>1, ListsAgree, RoomListed
<1>7. PICK S \in SUBSET (1 .. MaxMsgs) : S = InRoom(r)
  BY RoomListed
<1>8. /\ i \in S /\ MaxMsgs \in Nat
      /\ \A n \in 1 .. Cardinality(S) : \E j \in S : PlaceIn(S, j) = n
  BY <1>2, <1>7, RoomListed DEF InRoom
<1>9. PICK k \in 1 .. Cardinality(S) : k = PlaceIn(S, i)
  BY <1>8, ListedAt
<1>10. DOMAIN Listing(msgs, S) = 1 .. Cardinality(S) /\ DOMAIN Listing(p, S) = 1 .. Cardinality(S)
  BY DEF Listing
<1>11. Listing(msgs, S)[k] = EntryOf(msgs, i) /\ Listing(p, S)[k] = EntryOf(p, i)
  BY <1>8, <1>9, ListedAt
<1>12. \A n \in 1 .. Cardinality(S) : n # k => Listing(p, S)[n] = Listing(msgs, S)[n]
  <2> SUFFICES ASSUME NEW n \in 1 .. Cardinality(S), n # k PROVE Listing(p, S)[n] = Listing(msgs, S)[n]
    OBVIOUS
  <2>1. PICK j \in S : PlaceIn(S, j) = n
    BY <1>8
  <2>2. j # i /\ j \in DOMAIN msgs
    BY <1>7, <1>9, <2>1 DEF InRoom
  <2>3. EntryOf(p, j) = EntryOf(msgs, j)
    BY <1>3, <1>5, <2>2 DEF EntryOf
  <2>4. Listing(p, S)[n] = EntryOf(p, j)
    BY <1>8, <2>1, ListedAt
  <2>5. Listing(msgs, S)[n] = EntryOf(msgs, j)
    BY <1>8, <2>1, ListedAt
  <2> QED BY <2>3, <2>4, <2>5
<1>13. EntryOf(p, i) = [EntryOf(msgs, i) EXCEPT !.shown = FALSE]
  <2>1. p[i].by = msgs[i].by /\ p[i].seq = msgs[i].seq /\ p[i].live = FALSE
    BY <1>3, <1>5 DEF SameMessages
  <2>2. EntryOf(msgs, i) \in Entry
    BY <1>7, <1>8, RoomListed
  <2> DEFINE x == EntryOf(msgs, i)
             y == [x EXCEPT !.shown = FALSE]
             z == EntryOf(p, i)
  <2>3. x.by = msgs[i].by /\ x.no = msgs[i].seq /\ z.by = p[i].by /\ z.no = p[i].seq /\ z.shown = p[i].live
    BY DEF EntryOf
  <2>4. z = [by |-> p[i].by, no |-> p[i].seq, shown |-> p[i].live]
    BY DEF EntryOf
  <2> HIDE DEF x, z
  <2>5. y \in Entry /\ y.by = x.by /\ y.no = x.no /\ y.shown = FALSE
    BY <2>2 DEF Entry, x
  <2>6. x.by \in Users /\ x.no \in 1 .. MaxMsgs
    BY <2>2 DEF Entry, x
  <2>7. z \in Entry
    BY <2>1, <2>3, <2>4, <2>6 DEF Entry
  <2> HIDE DEF y
  <2>8. y = z
    BY <2>1, <2>3, <2>5, <2>7 DEF Entry
  <2> QED BY <2>8 DEF x, y, z
<1>14. Listing(p, S) = [Listing(msgs, S) EXCEPT ![k] = [@ EXCEPT !.shown = FALSE]]
  <2> DEFINE L == Listing(msgs, S)
             P == Listing(p, S)
  <2>1. P = [n \in 1 .. Cardinality(S) |-> P[n]] /\ L = [n \in 1 .. Cardinality(S) |-> L[n]]
    BY DEF Listing
  <2>2. DOMAIN L = 1 .. Cardinality(S) /\ P[k] = [L[k] EXCEPT !.shown = FALSE] /\ \A n \in 1 .. Cardinality(S) : n # k => P[n] = L[n]
    BY <1>10, <1>11, <1>12, <1>13
  <2> HIDE DEF L, P
  <2>3. P = [L EXCEPT ![k] = [@ EXCEPT !.shown = FALSE]]
    BY <2>1, <2>2
  <2> QED BY <2>3 DEF L, P
<1>15. LogsNow' = [LogsNow EXCEPT ![r][k].shown = FALSE]
  <2>1. Entries(r)' = Listing(p, S) /\ Entries(r) = Listing(msgs, S)
    BY <1>4, <1>5, <1>7, EntriesListed
  <2>2. LogsNow' = [LogsNow EXCEPT ![r] = Listing(p, S)]
    BY <1>6, <2>1 DEF LogsNow
  <2>3. LogsNow[r] = Listing(msgs, S)
    BY <2>1 DEF LogsNow
  <2>4. Listing(p, S) = [LogsNow[r] EXCEPT ![k] = [@ EXCEPT !.shown = FALSE]]
    BY <1>14, <2>3
  <2> QED BY <2>2, <2>4
<1>16. MembersNow' = MembersNow /\ ReadNow' = ReadNow
  BY <1>1 DEF MembersNow, ReadNow, RoomUserIDs, participantRole
<1>17. /\ k \in DOMAIN LogsNow[r] /\ LogsNow[r][k].shown /\ LogsNow[r][k].by \in MembersNow[r]
       /\ k \in DOMAIN Entries(r)
  <2>1. Entries(r) = Listing(msgs, S)
    BY <1>7, EntriesListed
  <2>2. EntryOf(msgs, i).shown /\ EntryOf(msgs, i).by = u
    BY <1>1 DEF EntryOf
  <2> QED BY <1>1, <1>2, <1>10, <1>11, <2>1, <2>2 DEF LogsNow, MembersNow, In
<1>18. Log!Erase(r, k)
  BY <1>1, <1>15, <1>16, <1>17, EraseForm
<1> QED BY <1>17, <1>18, LogSteps

LEMMA AppendImplements ==
    ASSUME ChatInv, NEW q \in reqs, AppendMessage(q)
    PROVE  [Log!LogNext]_(Log!logVars)
<1>1. PICK n : n = Len(msgs) + 1
  OBVIOUS
<1>2. ChatTypeOK /\ RoomsOpened /\ ChatInv' /\ q.op = "send" /\ ever' = ever
  BY AppendKeeps DEF ChatInv, AppendMessage, Insert
<1>3. q.user \in Users /\ q.room \in Rooms /\ q.user \in ever[q.room]
  BY <1>2, SendFields DEF RoomsOpened
<1>4. PICK r \in Rooms, u \in Users : r = q.room /\ u = q.user /\ u \in ever[r]
  BY <1>3
<1>5. /\ n \notin DOMAIN msgs /\ (\A i \in DOMAIN msgs : i < n) /\ n \in 1 .. MaxMsgs
      /\ \A i \in DOMAIN msgs : msgs'[i] = msgs[i]
      /\ msgs'[n].room = r /\ msgs'[n].by = u /\ msgs'[n].seq = Count(r) + 1 /\ msgs'[n].live = TRUE
  BY <1>1, <1>4, StoredRow
<1>6. /\ \A s \in Rooms : s # r => InRoom(s)' = InRoom(s)
      /\ InRoom(r)' = InRoom(r) \cup {n}
      /\ Count(r)' = Count(r) + 1
      /\ \A i \in InRoom(r) : Rank(r, i)' = Rank(r, i)
      /\ Rank(r, n)' = Count(r) + 1
  BY <1>1, <1>4, StoredNumbers
<1>0. PICK p : p = msgs'
  OBVIOUS
<1>7. PICK S \in SUBSET (1 .. MaxMsgs), T \in SUBSET (1 .. MaxMsgs), c \in Nat :
         S = InRoom(r) /\ T = S \cup {n} /\ c = Cardinality(S)
  <2>1. InRoom(r) \in SUBSET (1 .. MaxMsgs) /\ Cardinality(InRoom(r)) \in Nat
    BY RoomListed
  <2>2. InRoom(r) \cup {n} \in SUBSET (1 .. MaxMsgs)
    BY <1>5, <2>1
  <2> QED BY <2>1, <2>2
<1>8. /\ MaxMsgs \in Nat /\ n \notin S /\ S \subseteq DOMAIN msgs /\ IsFiniteSet(S)
      /\ \A k \in 1 .. c : \E i \in S : PlaceIn(S, i) = k
      /\ \A i \in S : EntryOf(msgs, i) \in Entry
  BY <1>2, <1>5, <1>7, RoomListed, Counted
<1>9. /\ Cardinality(T) = c + 1 /\ PlaceIn(T, n) = c + 1
      /\ \A i \in S : PlaceIn(T, i) = PlaceIn(S, i)
  <2>1. InRoom(r)' = T
    BY <1>6, <1>7
  <2>2. Cardinality(T) = c + 1
    BY <1>7, <1>8, FS_AddElement
  <2>3. \A i \in S : PlaceIn(T, i) = PlaceIn(S, i)
    BY <1>6, <1>7, <2>1, EntriesListed
  <2>4. PlaceIn(T, n) = c + 1
    BY <1>6, <1>7, <2>1, EntriesListed DEF Count
  <2> QED BY <2>2, <2>3, <2>4
<1>10. \A i \in S : EntryOf(p, i) = EntryOf(msgs, i)
  BY <1>0, <1>5, <1>8 DEF EntryOf
<1>11. PICK e : e = [by |-> u, no |-> c + 1, shown |-> TRUE]
  OBVIOUS
<1>12. EntryOf(p, n) = e /\ e \in Entry
  <2>1. p[n].by = u /\ p[n].seq = c + 1 /\ p[n].live = TRUE
    BY <1>0, <1>5, <1>7 DEF Count
  <2>2. c + 1 \in 1 .. MaxMsgs
    <3>1. Count(r) \in 0 .. Len(msgs) /\ Count(r) = c /\ Len(msgs) \in Nat
      BY <1>2, <1>7, Counted, ChatBasics DEF Count
    <3>2. n \in 1 .. MaxMsgs /\ MaxMsgs \in Nat
      BY <1>5, <1>8
    <3> QED BY <1>1, <3>1, <3>2
  <2>3. EntryOf(p, n) = e
    BY <1>11, <2>1 DEF EntryOf
  <2>4. e \in Entry
    BY <1>11, <2>2 DEF Entry
  <2> QED BY <2>3, <2>4
<1>13. \A k \in 1 .. Cardinality(T) : \E i \in T : PlaceIn(T, i) = k
  <2> SUFFICES ASSUME NEW k \in 1 .. (c + 1) PROVE \E i \in T : PlaceIn(T, i) = k
    BY <1>9
  <2>1. CASE k = c + 1
    BY <1>7, <1>9, <2>1
  <2>2. CASE k \in 1 .. c
    <3>1. PICK i \in S : PlaceIn(S, i) = k
      BY <1>8, <2>2
    <3> QED BY <1>7, <1>9, <3>1
  <2> QED BY <2>1, <2>2
<1>14. /\ Listing(p, T) \in Seq(Entry) /\ Len(Listing(p, T)) = c + 1
       /\ Listing(msgs, S) \in Seq(Entry) /\ Len(Listing(msgs, S)) = c
  <2>1. \A i \in T : EntryOf(p, i) \in Entry
    BY <1>7, <1>8, <1>10, <1>12
  <2>2. Listing(p, T) \in Seq(Entry) /\ Len(Listing(p, T)) = Cardinality(T)
    BY <1>8, <1>13, <2>1, ListTyped
  <2>3. Listing(msgs, S) \in Seq(Entry) /\ Len(Listing(msgs, S)) = Cardinality(S)
    BY <1>7, <1>8, ListTyped
  <2> QED BY <1>7, <1>9, <2>2, <2>3
<1>15. Listing(p, T) = Append(Listing(msgs, S), e)
  <2> DEFINE L == Listing(msgs, S)
             P == Listing(p, T)
  <2>1. /\ Append(L, e) \in Seq(Entry) /\ Len(Append(L, e)) = c + 1
        /\ \A k \in 1 .. c : Append(L, e)[k] = L[k]
        /\ Append(L, e)[c + 1] = e
    <3> HIDE DEF L
    <3> QED BY <1>12, <1>14, AppendFacts DEF L
  <2>2. ASSUME NEW k \in 1 .. (c + 1) PROVE P[k] = Append(L, e)[k]
    <3>1. CASE k = c + 1
      <4>1. P[c + 1] = EntryOf(p, n)
        <5>1. n \in T
          BY <1>7
        <5>2. Listing(p, T)[PlaceIn(T, n)] = EntryOf(p, n)
          BY <1>8, <5>1, ListedAt
        <5> QED BY <1>9, <5>2
      <4> QED BY <1>12, <2>1, <3>1, <4>1
    <3>2. CASE k \in 1 .. c
      <4>1. PICK i \in S : PlaceIn(S, i) = k
        BY <1>8, <3>2
      <4>2. L[k] = EntryOf(msgs, i)
        BY <1>8, <4>1, ListedAt
      <4>3. P[k] = EntryOf(p, i)
        <5>1. i \in T
          BY <1>7
        <5>2. Listing(p, T)[PlaceIn(T, i)] = EntryOf(p, i)
          BY <1>8, <5>1, ListedAt
        <5> QED BY <1>9, <4>1, <5>2
      <4> QED BY <1>10, <2>1, <3>2, <4>2, <4>3
    <3>3. k = c + 1 \/ k \in 1 .. c
      BY <1>7
    <3> QED BY <3>1, <3>2, <3>3, Zenon
  <2> HIDE DEF L, P
  <2>3. P \in Seq(Entry) /\ Len(P) = c + 1
    BY <1>14 DEF P
  <2>4. P = Append(L, e)
    BY <2>1, <2>2, <2>3, SeqEqual
  <2> QED BY <2>4 DEF L, P
<1>16. Entries(r) = Listing(msgs, S) /\ Entries(r)' = Listing(p, T)
  BY <1>0, <1>6, <1>7, EntriesListed
<1>17. \A s \in Rooms : s # r => Entries(s)' = Entries(s)
  <2> SUFFICES ASSUME NEW s \in Rooms, s # r PROVE Listing(p, InRoom(s)) = Listing(msgs, InRoom(s))
    BY <1>0, <1>6, EntriesListed
  <2>1. \A j \in InRoom(s) : EntryOf(p, j) = EntryOf(msgs, j)
    BY <1>0, <1>5 DEF EntryOf, InRoom
  <2> QED BY <2>1, ListsAgree, RoomListed
<1>18. PostsLog(r, u)
  <2>1. LogsNow[r] = Listing(msgs, S) /\ Len(LogsNow[r]) = c
    BY <1>14, <1>16 DEF LogsNow
  <2>2. LogsNow' = [LogsNow EXCEPT ![r] = Append(Listing(msgs, S), e)]
    BY <1>15, <1>16, <1>17 DEF LogsNow
  <2> QED BY <1>11, <2>1, <2>2 DEF PostsLog
<1>19. /\ room' \in [Rooms -> RoomRow]
       /\ \A s \in Rooms : s # r => room'[s] = room[s]
       /\ \A s \in Rooms, v \in Users : In(v, s)' <=> In(v, s)
       /\ \A v \in Users : room'[r].read[v] =
                 IF v = u /\ In(v, r) /\ room[r].read[v] < Count(r) + 1
                 THEN Count(r) + 1 ELSE room[r].read[v]
  BY <1>4, StoredMark
<1>20. MembersNow' = MembersNow
  <2>1. ASSUME NEW s \in Rooms PROVE RoomUserIDs(s)' = RoomUserIDs(s)
    <3>1. /\ RoomUserIDs(s)' \subseteq Users /\ RoomUserIDs(s) \subseteq Users
          /\ \A v \in Users : v \in RoomUserIDs(s)' <=> v \in RoomUserIDs(s)
      BY <1>19 DEF RoomUserIDs, In
    <3> QED BY <3>1
  <2> QED BY <2>1 DEF MembersNow
<1>21. PostsMark(r, u)
  <2>1. Len(LogsNow'[r]) = c + 1 /\ Count(r) = c
    BY <1>7, <1>14, <1>16 DEF LogsNow, Count
  <2>2. u \in MembersNow[r] <=> In(u, r)
    BY DEF MembersNow, In
  <2>3. ReadNow[r][u] = room[r].read[u]
    BY DEF ReadNow
  <2>4. PICK to : to = IF u \in MembersNow[r] /\ ReadNow[r][u] < Len(LogsNow'[r])
                       THEN Len(LogsNow'[r]) ELSE ReadNow[r][u]
    OBVIOUS
  <2>5. \A v \in Users : room'[r].read[v] = IF v = u THEN to ELSE room[r].read[v]
    BY <1>19, <2>1, <2>2, <2>3, <2>4
  <2>6. room[r].read \in [Users -> Marks]
    BY <1>2, ReadTyped
  <2>7. room'[r].read \in [Users -> Marks]
    BY <1>19 DEF RoomRow
  <2>8. room'[r].read = [room[r].read EXCEPT ![u] = to]
    BY <2>5, <2>6, <2>7
  <2>9. ReadNow' = [ReadNow EXCEPT ![r] = [@ EXCEPT ![u] = to]]
    BY <1>19, <2>8 DEF ReadNow
  <2> QED BY <2>4, <2>9 DEF PostsMark
<1>22. Log!Post(r, u)
  BY <1>2, <1>4, <1>18, <1>20, <1>21, PostForm
<1> QED BY <1>22, LogSteps

LEMMA StepsImplement ==
    ASSUME ChatInv, ChatNext
    PROVE  [Log!LogNext]_(Log!logVars)
<1>1. CASE createRoom
  <2>1. ASSUME NEW u \in Users, NEW v \in Users, CreateOrGetDirect(u, v)
        PROVE  [Log!LogNext]_(Log!logVars)
    BY <2>1, LogStays DEF CreateOrGetDirect
  <2> QED BY <1>1, <2>1, GroupImplements DEF createRoom
<1>2. CASE patchRoom
  <2>1. msgs' = msgs /\ room' = room /\ ever' = ever
    BY <1>2 DEF patchRoom, RenameRoom
  <2> QED BY <2>1, LogStays
<1>3. CASE leaveRoom
  BY <1>3, LeaveImplements DEF leaveRoom
<1>4. CASE markRead
  BY <1>4, MarkImplements DEF markRead
<1>5. CASE sendMessage
  <2>1. msgs' = msgs /\ room' = room /\ ever' = ever
    BY <1>5 DEF sendMessage, SendMessage
  <2> QED BY <2>1, LogStays
<1>6. CASE editMessage
  <2>1. msgs' = msgs /\ room' = room /\ ever' = ever
    BY <1>6 DEF editMessage, EditMessage
  <2> QED BY <2>1, LogStays
<1>7. CASE deleteMessage
  BY <1>7, DeleteImplements DEF deleteMessage
<1>8. CASE RequestStep
  <2>1. ASSUME NEW q \in reqs, DirectRefused(q) \/ Publish(q)
        PROVE  [Log!LogNext]_(Log!logVars)
    <3>1. msgs' = msgs /\ room' = room /\ ever' = ever
      BY <2>1 DEF DirectRefused, Publish
    <3> QED BY <3>1, LogStays
  <2> QED BY <1>8, <2>1, DirectImplements, AppendImplements DEF RequestStep
<1>9. CASE events \/ Break \/ ServerDies \/ Tick
  <2>1. msgs' = msgs /\ room' = room /\ ever' = ever
    BY <1>9 DEF events, Subscribe, ReplayPage, ReplayFails, Ready, Deliver, Break, ServerDies, Tick, serverVars
  <2> QED BY <2>1, LogStays
<1> QED BY <1>1, <1>2, <1>3, <1>4, <1>5, <1>6, <1>7, <1>8, <1>9 DEF ChatNext

LEMMA StartImplements == ChatInit => Log!LogInit
<1> SUFFICES ASSUME ChatInit PROVE Log!LogInit
  OBVIOUS
<1>1. ChatInv
  BY ChatStart
<1>2. room = [r \in Rooms |-> Empty] /\ msgs = <<>> /\ ever = [r \in Rooms |-> {}]
  BY DEF ChatInit
<1>3. \A r \in Rooms : Entries(r) = <<>>
  <2> SUFFICES ASSUME NEW r \in Rooms PROVE Entries(r) = <<>>
    OBVIOUS
  <2>1. InRoom(r) = {} /\ Cardinality(InRoom(r)) = 0
    <3>1. DOMAIN msgs = {}
      BY <1>2, EmptySeq
    <3>2. InRoom(r) = {}
      BY <3>1 DEF InRoom
    <3> QED BY <3>2, FS_EmptySet
  <2>2. Listing(msgs, InRoom(r)) \in Seq(Entry) /\ Len(Listing(msgs, InRoom(r))) = Cardinality(InRoom(r))
    BY <1>1, RoomListed, ListTyped
  <2>3. Entries(r) \in Seq(Entry) /\ Len(Entries(r)) = 0
    BY <2>1, <2>2, EntriesListed
  <2> QED BY <2>3, EmptySeq
<1>4. \A r \in Rooms : RoomUserIDs(r) = {} /\ room[r].read = [u \in Users |-> 0]
  BY <1>2 DEF RoomUserIDs, participantRole, Empty, NoOne
<1>5. LogsNow = [r \in Rooms |-> <<>>] /\ MembersNow = [r \in Rooms |-> {}] /\ ReadNow = [r \in Rooms |-> [u \in Users |-> 0]]
  BY <1>3, <1>4 DEF LogsNow, MembersNow, ReadNow
<1> QED BY <1>2, <1>5 DEF Log!LogInit, LogsNow, MembersNow, ReadNow

\* The chat implements its rooms' logs: whatever requests overlap, entries are numbered
\* from 1 without a gap in the order they are stored, only people who are or were in a room
\* write to it, only authors take entries away, and members' read marks only grow, to
\* whatever number a client names (repository.go AppendMessage, MarkRead).
THEOREM ChatImplementsLogs == ChatSpec => RoomsAreLogs
<1>1. ChatInv /\ [ChatNext]_chatVars => [Log!LogNext]_(Log!logVars)
  <2>1. ASSUME UNCHANGED chatVars PROVE [Log!LogNext]_(Log!logVars)
    <3>1. msgs' = msgs /\ room' = room /\ ever' = ever
      BY <2>1 DEF chatVars
    <3> QED BY <3>1, LogStays
  <2> QED BY <2>1, StepsImplement
<1>2. ChatSpec => []ChatInv
  BY ChatInvariance
<1>3. ChatInit => Log!LogInit
  BY StartImplements
<1> QED BY <1>1, <1>2, <1>3, PTL DEF ChatSpec, RoomsAreLogs, Log!LogSpec
=============================================================================
