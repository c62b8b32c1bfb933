---------------------------- MODULE VaultProofs ----------------------------
(***************************************************************************)
(* Proofs about the vault, for every set of ids and blobs, every bound,    *)
(* cap and page size: the rows and their revisions (VaultServer), the      *)
(* attachment files (VaultBlobs), and a tab that syncs (VaultSync).  The   *)
(* steps of the last two are steps of the server, so the server's          *)
(* invariant IInv is part of theirs.                                       *)
(***************************************************************************)
EXTENDS VaultBlobs, VaultSync, FiniteSetTheorems, TLAPS

\* Every stored revision was handed out by bumpRev, content was stored at or
\* before the revision of its row, and a row that is gone leaves nothing.
RevisionsBounded ==
    \A x \in Ids :
        /\ row[x].rev <= currentRev
        /\ row[x].content <= row[x].rev
        /\ row[x].st = "absent" => row[x] = Absent

-----------------------------------------------------------------------------
(* The values bumpRev hands out. *)

\* A bump stays within the bound and is strictly newer than every revision so far.
LEMMA BumpIsFresh ==
    ASSUME TypeOK, BumpRev
    PROVE  NextRev \in Revs /\ NextRev \in Nat /\ currentRev' = NextRev /\ currentRev < NextRev
BY BoundsAssumption DEF TypeOK, BumpRev, NextRev, Revs

\* An import hands out one revision per row of the bundle, all new and distinct.
LEMMA StampsAreFresh ==
    ASSUME TypeOK,
           NEW bundle \in SUBSET Ids,
           currentRev + Cardinality(bundle) <= MaxRev,
           NEW stamp \in Bijection(bundle, (currentRev + 1) .. (currentRev + Cardinality(bundle)))
    PROVE  /\ Cardinality(bundle) \in Nat
           /\ currentRev + Cardinality(bundle) \in Revs
           /\ \A x \in bundle : /\ stamp[x] \in Revs
                                /\ currentRev < stamp[x]
                                /\ stamp[x] <= currentRev + Cardinality(bundle)
           /\ \A x, y \in bundle : stamp[x] = stamp[y] => x = y
<1>1. Cardinality(bundle) \in Nat
  BY IdsAssumption, FS_Subset, FS_CardinalityType
<1>2. stamp \in [bundle -> (currentRev + 1) .. (currentRev + Cardinality(bundle))]
      /\ IsInjective(stamp)
  BY DEF Bijection, Injection
<1>3. \A x, y \in bundle : stamp[x] = stamp[y] => x = y
  BY <1>2 DEF IsInjective
<1>4. currentRev \in Nat
  BY BoundsAssumption DEF TypeOK, Revs
<1>5. \A x \in bundle : stamp[x] \in (currentRev + 1) .. (currentRev + Cardinality(bundle))
  BY <1>2
<1> QED
  BY <1>1, <1>3, <1>4, <1>5, BoundsAssumption DEF Revs

-----------------------------------------------------------------------------
(* Type correctness. *)

\* Writing one row of the tables keeps them well typed.
LEMMA RowWriteTyped ==
    ASSUME TypeOK, NEW x \in Ids, NEW r \in Row, row' = [row EXCEPT ![x] = r]
    PROVE  row' \in [Ids -> Row]
BY DEF TypeOK

\* A stamped row is well typed and carries the revision just taken.
LEMMA StampedRow ==
    ASSUME TypeOK, BumpRev,
           NEW st \in {"live", "trashed"}, NEW f \in FolderIds \cup {NoFolder}, NEW c \in Revs
    PROVE  /\ Stamped(st, f, c) \in Row
           /\ Stamped(st, f, c).st = st
           /\ Stamped(st, f, c).rev = NextRev
           /\ Stamped(st, f, c).folder = f
           /\ Stamped(st, f, c).content = c
BY BumpIsFresh DEF Stamped, Row

\* The links and contents the handlers put into a stamped row.
LEMMA StoredFieldsTyped ==
    ASSUME TypeOK
    PROVE  /\ NoFolder \in FolderIds \cup {NoFolder}
           /\ \A x \in Ids : /\ row[x].folder \in FolderIds \cup {NoFolder}
                              /\ row[x].content \in Revs
                              /\ UsableFolder(row[x].folder) \in FolderIds \cup {NoFolder}
           /\ \A i \in ItemIds : \A s \in history[i] :
                /\ UsableFolder(s.folder) \in FolderIds \cup {NoFolder}
                /\ s.content \in Revs
<1>1. \A x \in Ids : row[x] \in Row
  BY DEF TypeOK
<1>2. \A i \in ItemIds : \A s \in history[i] : s \in Snapshot
  BY DEF TypeOK
<1> QED
  BY <1>1, <1>2 DEF Row, Snapshot, UsableFolder

\* The history with the current row archived is well typed.
LEMMA ArchivedTyped ==
    ASSUME TypeOK, NEW i \in ItemIds
    PROVE  Archived(i) \in SUBSET Snapshot
BY DEF TypeOK, Archived, Row, Snapshot, Ids

\* A hard delete of any ids keeps the tables well typed.
LEMMA HardDeleteTyped ==
    ASSUME TypeOK, NEW dead, HardDelete(dead)
    PROVE  TypeOK'
<1>1. Absent \in Row
  BY BoundsAssumption DEF Absent, Row, Revs
<1>2. \A x \in Ids : row[x] \in Row /\ [row[x] EXCEPT !.folder = NoFolder] \in Row
  BY DEF TypeOK, Row
<1> QED
  BY <1>1, <1>2 DEF TypeOK, HardDelete

\* The type invariant holds of the empty vault.
LEMMA TypeInit == Init => TypeOK
BY BoundsAssumption DEF Init, TypeOK, Absent, Row, Revs, Attachment, Snapshot

\* Every step keeps the type invariant.
LEMMA TypeStep == TypeOK /\ [Next]_vars => TypeOK'
<1> SUFFICES ASSUME TypeOK, [Next]_vars PROVE TypeOK'
  OBVIOUS
<1> USE DEF Ids
<1>1. ASSUME NEW f \in FolderIds, CreateFolder(f) PROVE TypeOK'
  BY <1>1, BumpIsFresh, StampedRow, RowWriteTyped DEF TypeOK, CreateFolder
<1>2. ASSUME NEW f \in FolderIds, NEW r \in Revs, UpdateFolder(f, r) PROVE TypeOK'
  BY <1>2, BumpIsFresh, StampedRow, RowWriteTyped DEF TypeOK, UpdateFolder
<1>3. ASSUME NEW f \in FolderIds, NEW r \in Revs, SoftDeleteFolder(f, r) PROVE TypeOK'
  <2>1. BumpRev BY <1>3 DEF SoftDeleteFolder
  <2>2. row' \in [Ids -> Row]
    <3>1. /\ \A x \in Ids : row[x] \in Row
          /\ \A x \in Ids : Stamped("trashed", NoFolder, row[x].content) \in Row
          /\ \A x \in Ids : Stamped("live", NoFolder, row[x].content) \in Row
      BY <2>1, StampedRow, StoredFieldsTyped DEF TypeOK
    <3> QED BY <1>3, <3>1 DEF SoftDeleteFolder
  <2> QED BY <1>3, <2>1, <2>2, BumpIsFresh DEF TypeOK, SoftDeleteFolder
<1>4. ASSUME NEW f \in FolderIds, RestoreFolder(f) PROVE TypeOK'
  BY <1>4, BumpIsFresh, StampedRow, StoredFieldsTyped, RowWriteTyped DEF TypeOK, RestoreFolder
<1>5. ASSUME NEW i \in ItemIds, NEW f \in FolderIds \cup {NoFolder}, CreateItem(i, f)
      PROVE  TypeOK'
  BY <1>5, BumpIsFresh, StampedRow, RowWriteTyped DEF TypeOK, CreateItem
<1>6. ASSUME NEW i \in ItemIds, NEW f \in FolderIds \cup {NoFolder}, NEW r \in Revs,
             UpdateItem(i, f, r)
      PROVE  TypeOK'
  BY <1>6, BumpIsFresh, StampedRow, RowWriteTyped, ArchivedTyped DEF TypeOK, UpdateItem
<1>7. ASSUME NEW i \in ItemIds, NEW r \in Revs, SoftDeleteItem(i, r) PROVE TypeOK'
  BY <1>7, BumpIsFresh, StampedRow, StoredFieldsTyped, RowWriteTyped DEF TypeOK, SoftDeleteItem
<1>8. ASSUME NEW i \in ItemIds, NEW s \in history[i], NEW r \in Revs,
             RestoreItemRevision(i, s, r)
      PROVE  TypeOK'
  BY <1>8, BumpIsFresh, StampedRow, StoredFieldsTyped, RowWriteTyped, ArchivedTyped
  DEF TypeOK, RestoreItemRevision
<1>9. ASSUME NEW i \in ItemIds, RestoreItem(i) PROVE TypeOK'
  BY <1>9, BumpIsFresh, StampedRow, StoredFieldsTyped, RowWriteTyped DEF TypeOK, RestoreItem
<1>10. ASSUME NEW bundle \in SUBSET Ids,
              NEW link \in [bundle \cap ItemIds -> FolderIds \cup {NoFolder}],
              NEW gone \in SUBSET bundle,
              NEW stamp \in Bijection(bundle,
                                (currentRev + 1) .. (currentRev + Cardinality(bundle))),
              NEW files \in FreshFiles(bundle \cap ItemIds),
              ImportBundle(bundle, link, gone, stamp, files)
       PROVE  TypeOK'
  <2>1. \A x \in bundle : ImportedRow(x, bundle, link, gone, stamp) \in Row
    BY <1>10, StampsAreFresh DEF ImportBundle, ImportedRow, Row
  <2>2. files \in SUBSET Attachment
    BY DEF FreshFiles, Attachment
  <2> QED BY <1>10, <2>1, <2>2, StampsAreFresh DEF ImportBundle, TypeOK
<1>11. CASE AttachmentWrite
  BY <1>11 DEF AttachmentWrite, CreateAttachment, DeleteAttachment, TypeOK, Attachment
<1>12. CASE Purge
  BY <1>12, HardDeleteTyped DEF Purge, PurgeItem, PurgeFolder, EmptyTrash
<1>13. CASE Janitor
  <2>1. CASE \E old \in SUBSET TrashedItems : JanitorPurgeItems(old)
    BY <2>1, HardDeleteTyped DEF JanitorPurgeItems
  <2>2. CASE \E old \in SUBSET TrashedFolders : JanitorPurgeFolders(old)
    BY <2>2, HardDeleteTyped DEF JanitorPurgeFolders
  <2>3. CASE \E cutoff \in Revs : JanitorAgeHistory(cutoff)
    BY <2>3 DEF JanitorAgeHistory, TypeOK
  <2>4. ASSUME NEW kept \in [ItemIds -> SUBSET UNION {history[i] : i \in ItemIds}],
               JanitorCapHistory(kept)
        PROVE  TypeOK'
    BY <2>4 DEF JanitorCapHistory, TypeOK
  <2> QED BY <1>13, <2>1, <2>2, <2>3, <2>4 DEF Janitor
<1>14. CASE UNCHANGED vars
  BY <1>14 DEF vars, TypeOK
<1> QED
  BY <1>1, <1>2, <1>3, <1>4, <1>5, <1>6, <1>7, <1>8, <1>9, <1>10, <1>11, <1>12, <1>13, <1>14
  DEF Next, FolderWrite, ItemWrite, Import

\* The tables always hold what the schema says they hold.
THEOREM TypeCorrect == Spec => []TypeOK
BY TypeInit, TypeStep, PTL DEF Spec

-----------------------------------------------------------------------------
(* The inductive invariant.  No conjunct of it but the types is inductive    *)
(* alone: sharing a revision is excluded by the bound on stored revisions,   *)
(* history is in the past because stored revisions are, and an attachment    *)
(* keeps its item because an import only takes ids that are free.            *)

IInv ==
    /\ TypeOK
    /\ RevisionsBounded
    /\ SharedRevision
    /\ HistoryIsPast
    /\ AttachmentsOwned

\* The empty vault satisfies the inductive invariant.
LEMMA IInvInit == Init => IInv
<1> SUFFICES ASSUME Init PROVE IInv
  OBVIOUS
<1>1. TypeOK
  BY TypeInit
<1>2. RevisionsBounded
  BY DEF Init, Absent, RevisionsBounded
<1>3. SharedRevision
  BY DEF Init, Absent, SharedRevision
<1>4. HistoryIsPast
  BY DEF Init, HistoryIsPast
<1>5. AttachmentsOwned
  BY DEF Init, AttachmentsOwned
<1> QED
  BY <1>1, <1>2, <1>3, <1>4, <1>5 DEF IInv

-----------------------------------------------------------------------------
(* What the handlers do to the tables, as two shapes of step: one row takes  *)
(* the next revision, or tombstones go.                                      *)

\* Row x is replaced by a live or trashed row stamped with the next revision.
OneRowStep(x) ==
    /\ BumpRev
    /\ \E st \in {"live", "trashed"}, f \in FolderIds \cup {NoFolder}, c \in Revs :
         c <= NextRev /\ row' = [row EXCEPT ![x] = Stamped(st, f, c)]

\* Writing one stamped row keeps revisions bounded and shares none.
LEMMA OneRowKeepsRevisions ==
    ASSUME TypeOK, RevisionsBounded, SharedRevision, NEW x \in Ids, OneRowStep(x)
    PROVE  RevisionsBounded' /\ SharedRevision'
<1>1. PICK st \in {"live", "trashed"}, f \in FolderIds \cup {NoFolder}, c \in Revs :
        BumpRev /\ c <= NextRev /\ row' = [row EXCEPT ![x] = Stamped(st, f, c)]
  BY DEF OneRowStep
<1>2. currentRev \in Nat /\ currentRev' = NextRev /\ currentRev < NextRev /\ NextRev \in Nat
  BY <1>1, BumpIsFresh, BoundsAssumption DEF TypeOK, Revs
<1>3. \A y \in Ids : row[y].rev \in Nat /\ row[y].content \in Nat
  BY BoundsAssumption DEF TypeOK, Row, Revs
<1>4. /\ \A y \in Ids : y # x => row'[y] = row[y]
      /\ row'[x].st = st /\ row'[x].rev = NextRev /\ row'[x].content = c
  BY <1>1, StampedRow DEF TypeOK
<1>5. RevisionsBounded'
  <2>1. ASSUME NEW y \in Ids, y # x
        PROVE  /\ row'[y].rev <= currentRev' /\ row'[y].content <= row'[y].rev
               /\ row'[y].st = "absent" => row'[y] = Absent
    BY <1>2, <1>3, <1>4, <2>1 DEF RevisionsBounded
  <2>2. /\ row'[x].rev <= currentRev' /\ row'[x].content <= row'[x].rev
        /\ row'[x].st # "absent"
    BY <1>1, <1>2, <1>4
  <2> QED BY <2>1, <2>2 DEF RevisionsBounded, Absent
<1>6. SharedRevision'
  BY <1>2, <1>3, <1>4 DEF SharedRevision, RevisionsBounded, Trashed, Live, Ids
<1> QED
  BY <1>5, <1>6

\* The handlers that write one row.
LEMMA HandlersWriteOneRow ==
    ASSUME TypeOK, RevisionsBounded, HistoryIsPast
    PROVE  /\ \A f \in FolderIds : CreateFolder(f) \/ RestoreFolder(f) => OneRowStep(f)
           /\ \A f \in FolderIds, v \in Revs : UpdateFolder(f, v) => OneRowStep(f)
           /\ \A i \in ItemIds, f \in FolderIds \cup {NoFolder} :
                CreateItem(i, f) => OneRowStep(i)
           /\ \A i \in ItemIds, f \in FolderIds \cup {NoFolder}, v \in Revs :
                UpdateItem(i, f, v) => OneRowStep(i)
           /\ \A i \in ItemIds, v \in Revs : SoftDeleteItem(i, v) => OneRowStep(i)
           /\ \A i \in ItemIds, v \in Revs : \A s \in history[i] :
                RestoreItemRevision(i, s, v) => OneRowStep(i)
           /\ \A i \in ItemIds : RestoreItem(i) => OneRowStep(i)
<1> USE DEF Ids
<1>1. \A x \in Ids : row[x].rev \in Nat /\ row[x].content \in Nat /\ row[x].content <= currentRev
  BY BoundsAssumption DEF TypeOK, Row, Revs, RevisionsBounded
<1>2. BumpRev => NextRev \in Revs /\ NextRev \in Nat /\ currentRev < NextRev /\ currentRev \in Nat
  BY BumpIsFresh, BoundsAssumption DEF TypeOK, Revs
<1>3. \A x \in Ids, st \in {"live", "trashed"}, f \in FolderIds \cup {NoFolder}, c \in Revs :
        BumpRev /\ row' = [row EXCEPT ![x] = Stamped(st, f, c)] /\ c <= NextRev => OneRowStep(x)
  BY DEF OneRowStep
<1>4. BumpRev => NextRev <= NextRev /\ \A x \in Ids : row[x].content <= NextRev
  BY <1>1, <1>2
<1>5. BumpRev => \A i \in ItemIds : \A s \in history[i] : s.content <= NextRev
  BY <1>1, <1>2, BoundsAssumption DEF TypeOK, Snapshot, HistoryIsPast, RevisionsBounded, Revs
<1>6. \A f \in FolderIds : CreateFolder(f) \/ RestoreFolder(f) => OneRowStep(f)
  BY <1>2, <1>3, <1>4, StoredFieldsTyped DEF CreateFolder, RestoreFolder
<1>7. \A f \in FolderIds, v \in Revs : UpdateFolder(f, v) => OneRowStep(f)
  BY <1>2, <1>3, <1>4, StoredFieldsTyped DEF UpdateFolder
<1>8. \A i \in ItemIds, f \in FolderIds \cup {NoFolder} : CreateItem(i, f) => OneRowStep(i)
  BY <1>2, <1>3, <1>4 DEF CreateItem
<1>9. \A i \in ItemIds, f \in FolderIds \cup {NoFolder}, v \in Revs :
         UpdateItem(i, f, v) => OneRowStep(i)
  BY <1>2, <1>3, <1>4 DEF UpdateItem
<1>10. \A i \in ItemIds, v \in Revs : SoftDeleteItem(i, v) => OneRowStep(i)
  BY <1>3, <1>4, StoredFieldsTyped DEF SoftDeleteItem
<1>11. \A i \in ItemIds, v \in Revs : \A s \in history[i] :
         RestoreItemRevision(i, s, v) => OneRowStep(i)
  BY <1>3, <1>5, StoredFieldsTyped DEF RestoreItemRevision
<1>12. \A i \in ItemIds : RestoreItem(i) => OneRowStep(i)
  BY <1>3, <1>4, StoredFieldsTyped DEF RestoreItem
<1> QED
  BY <1>6, <1>7, <1>8, <1>9, <1>10, <1>11, <1>12

\* Everything that removes rows removes tombstones only.
LEMMA PurgesAreHardDeletes ==
    ASSUME \/ Purge
           \/ \E old \in SUBSET TrashedItems : JanitorPurgeItems(old)
           \/ \E old \in SUBSET TrashedFolders : JanitorPurgeFolders(old)
    PROVE  \E dead \in SUBSET (TrashedItems \cup TrashedFolders) : HardDelete(dead)
<1>1. ASSUME NEW i \in ItemIds, PurgeItem(i)
      PROVE  \E dead \in SUBSET (TrashedItems \cup TrashedFolders) : HardDelete(dead)
  BY <1>1 DEF PurgeItem, TrashedItems
<1>2. ASSUME NEW f \in FolderIds, PurgeFolder(f)
      PROVE  \E dead \in SUBSET (TrashedItems \cup TrashedFolders) : HardDelete(dead)
  BY <1>2 DEF PurgeFolder, TrashedFolders
<1>3. CASE EmptyTrash
  BY <1>3 DEF EmptyTrash
<1>4. CASE \E old \in SUBSET TrashedItems : JanitorPurgeItems(old)
  BY <1>4 DEF JanitorPurgeItems
<1>5. CASE \E old \in SUBSET TrashedFolders : JanitorPurgeFolders(old)
  BY <1>5 DEF JanitorPurgeFolders
<1> QED
  BY <1>1, <1>2, <1>3, <1>4, <1>5 DEF Purge

-----------------------------------------------------------------------------
(* The multi-row steps on revisions. *)

\* A folder delete shares its revision only between the folder, now in the
\* trash, and items it has just unfiled.
LEMMA FolderDeleteKeepsRevisions ==
    ASSUME TypeOK, RevisionsBounded, SharedRevision,
           NEW f \in FolderIds, NEW v \in Revs, SoftDeleteFolder(f, v)
    PROVE  RevisionsBounded' /\ SharedRevision'
<1> USE DEF Ids
<1> DEFINE hit(x) == x = f \/ (x \in ItemIds /\ Live(x) /\ row[x].folder = f)
<1>1. currentRev \in Nat /\ currentRev' = NextRev /\ currentRev < NextRev /\ NextRev \in Nat /\ BumpRev
  BY BumpIsFresh, BoundsAssumption DEF TypeOK, Revs, SoftDeleteFolder
<1>2. \A y \in Ids : row[y].rev \in Nat /\ row[y].content \in Nat /\ row[y].rev <= currentRev
                     /\ row[y].content <= row[y].rev
  BY BoundsAssumption DEF TypeOK, Row, Revs, RevisionsBounded
<1>3. \A y \in Ids : ~hit(y) => row'[y] = row[y]
  BY DEF SoftDeleteFolder
<1>4. \A y \in Ids : hit(y) => /\ row'[y].st = IF y = f THEN "trashed" ELSE "live"
                               /\ row'[y].rev = NextRev
                               /\ row'[y].folder = NoFolder
                               /\ row'[y].content = row[y].content
  <2>1. \A y \in Ids : hit(y) => row'[y] = Stamped(IF y = f THEN "trashed" ELSE "live",
                                                   NoFolder, row[y].content)
    BY DEF SoftDeleteFolder
  <2> QED BY <2>1, <1>1, StampedRow, StoredFieldsTyped
<1> HIDE DEF hit
<1>5. RevisionsBounded'
  BY <1>1, <1>2, <1>3, <1>4 DEF RevisionsBounded
<1>6. \A y \in Ids : hit(y) => y = f \/ y \in ItemIds
  BY DEF hit
<1>7. SharedRevision'
  <2> SUFFICES ASSUME NEW x \in Ids, NEW y \in Ids, x # y,
                      row'[x].st # "absent", row'[y].st # "absent", row'[x].rev = row'[y].rev
               PROVE  /\ ~(x \in FolderIds /\ y \in FolderIds)
                      /\ \A g \in {x, y} \cap FolderIds : row'[g].st = "trashed"
                      /\ \A i \in {x, y} \cap ItemIds : row'[i].st = "live" /\ row'[i].folder = NoFolder
    BY DEF SharedRevision, Trashed, Live
  <2>1. CASE hit(x) /\ hit(y)
    BY <2>1, <1>4, <1>6, IdsAssumption
  <2>2. CASE ~hit(x) /\ ~hit(y)
    BY <2>2, <1>3 DEF SharedRevision, Trashed, Live
  <2>3. CASE hit(x) /\ ~hit(y)
    BY <2>3, <1>1, <1>2, <1>3, <1>4
  <2>4. CASE ~hit(x) /\ hit(y)
    BY <2>4, <1>1, <1>2, <1>3, <1>4
  <2> QED BY <2>1, <2>2, <2>3, <2>4
<1> QED
  BY <1>5, <1>7

\* An import stamps each of its rows with a revision of its own.
LEMMA ImportKeepsRevisions ==
    ASSUME TypeOK, RevisionsBounded, SharedRevision,
           NEW bundle \in SUBSET Ids, NEW link, NEW gone, NEW files,
           NEW stamp \in Bijection(bundle,
                            (currentRev + 1) .. (currentRev + Cardinality(bundle))),
           ImportBundle(bundle, link, gone, stamp, files)
    PROVE  RevisionsBounded' /\ SharedRevision'
<1>1. /\ currentRev \in Nat /\ Cardinality(bundle) \in Nat
      /\ currentRev' = currentRev + Cardinality(bundle)
      /\ \A x \in bundle : stamp[x] \in Nat /\ currentRev < stamp[x] /\ stamp[x] <= currentRev'
      /\ \A x, y \in bundle : stamp[x] = stamp[y] => x = y
  BY StampsAreFresh, BoundsAssumption DEF ImportBundle, TypeOK, Revs
<1>2. \A y \in Ids : row[y].rev \in Nat /\ row[y].content \in Nat /\ row[y].rev <= currentRev
                     /\ row[y].content <= row[y].rev
  BY BoundsAssumption DEF TypeOK, Row, Revs, RevisionsBounded
<1>3. \A y \in Ids : y \notin bundle => row'[y] = row[y]
  BY DEF ImportBundle
<1>4. \A y \in bundle : row'[y].st # "absent" /\ row'[y].rev = stamp[y] /\ row'[y].content = stamp[y]
  BY DEF ImportBundle, ImportedRow
<1>5. RevisionsBounded'
  BY <1>1, <1>2, <1>3, <1>4 DEF RevisionsBounded
<1>6. SharedRevision'
  <2> SUFFICES ASSUME NEW x \in Ids, NEW y \in Ids, x # y,
                      row'[x].st # "absent", row'[y].st # "absent", row'[x].rev = row'[y].rev
               PROVE  /\ ~(x \in FolderIds /\ y \in FolderIds)
                      /\ \A g \in {x, y} \cap FolderIds : row'[g].st = "trashed"
                      /\ \A i \in {x, y} \cap ItemIds : row'[i].st = "live" /\ row'[i].folder = NoFolder
    BY DEF SharedRevision, Trashed, Live
  <2>1. x \notin bundle /\ y \notin bundle
    BY <1>1, <1>2, <1>3, <1>4
  <2> QED BY <2>1, <1>3 DEF SharedRevision, Trashed, Live
<1> QED
  BY <1>5, <1>6

\* A hard delete moves no revision.
LEMMA HardDeleteKeepsRevisions ==
    ASSUME TypeOK, RevisionsBounded, SharedRevision, NEW dead, HardDelete(dead)
    PROVE  RevisionsBounded' /\ SharedRevision'
<1>1. \A y \in Ids : row[y] \in Row
  BY DEF TypeOK
<1>2. \A y \in Ids : \/ row'[y] = Absent
                     \/ /\ row'[y].st = row[y].st /\ row'[y].rev = row[y].rev
                        /\ row'[y].content = row[y].content
                        /\ row'[y].folder \in {row[y].folder, NoFolder}
                        /\ row[y] = Absent => row'[y] = Absent
  BY <1>1 DEF HardDelete, Row, Absent
<1>3. currentRev \in Nat /\ currentRev' = currentRev
  BY BoundsAssumption DEF HardDelete, TypeOK, Revs
<1>4. RevisionsBounded'
  BY <1>2, <1>3 DEF RevisionsBounded, Absent
<1>5. SharedRevision'
  BY <1>2 DEF SharedRevision, Trashed, Live, Absent, Ids
<1> QED
  BY <1>4, <1>5

\* Every step keeps revisions bounded and shares one only in a folder delete.
LEMMA RevisionStep ==
    ASSUME IInv, [Next]_vars
    PROVE  RevisionsBounded' /\ SharedRevision'
<1> USE DEF IInv
<1>1. ASSUME UNCHANGED <<currentRev, row>> PROVE RevisionsBounded' /\ SharedRevision'
  BY <1>1 DEF RevisionsBounded, SharedRevision, Trashed, Live
<1>2. CASE FolderWrite
  <2>1. ASSUME NEW f \in FolderIds, CreateFolder(f) \/ RestoreFolder(f)
        PROVE  RevisionsBounded' /\ SharedRevision'
    BY <2>1, HandlersWriteOneRow, OneRowKeepsRevisions DEF Ids
  <2>2. ASSUME NEW f \in FolderIds, NEW v \in Revs, UpdateFolder(f, v)
        PROVE  RevisionsBounded' /\ SharedRevision'
    BY <2>2, HandlersWriteOneRow, OneRowKeepsRevisions DEF Ids
  <2>3. ASSUME NEW f \in FolderIds, NEW v \in Revs, SoftDeleteFolder(f, v)
        PROVE  RevisionsBounded' /\ SharedRevision'
    BY <2>3, FolderDeleteKeepsRevisions
  <2> QED BY <1>2, <2>1, <2>2, <2>3 DEF FolderWrite
<1>3. CASE ItemWrite
  <2> SUFFICES ASSUME NEW i \in ItemIds, OneRowStep(i)
               PROVE  RevisionsBounded' /\ SharedRevision'
    BY <1>3, HandlersWriteOneRow DEF ItemWrite
  <2> QED BY OneRowKeepsRevisions DEF Ids
<1>4. CASE Import
  BY <1>4, ImportKeepsRevisions DEF Import
<1>5. CASE AttachmentWrite
  BY <1>1, <1>5 DEF AttachmentWrite, CreateAttachment, DeleteAttachment
<1>6. CASE Purge
  BY <1>6, PurgesAreHardDeletes, HardDeleteKeepsRevisions
<1>7. CASE Janitor
  <2>1. CASE \/ \E old \in SUBSET TrashedItems : JanitorPurgeItems(old)
             \/ \E old \in SUBSET TrashedFolders : JanitorPurgeFolders(old)
    BY <2>1, PurgesAreHardDeletes, HardDeleteKeepsRevisions
  <2>2. CASE \E cutoff \in Revs : JanitorAgeHistory(cutoff)
    BY <2>2, <1>1 DEF JanitorAgeHistory
  <2>3. CASE \E kept \in [ItemIds -> SUBSET UNION {history[i] : i \in ItemIds}] :
                JanitorCapHistory(kept)
    BY <2>3, <1>1 DEF JanitorCapHistory
  <2> QED BY <1>7, <2>1, <2>2, <2>3 DEF Janitor
<1>8. CASE UNCHANGED vars
  BY <1>1, <1>8 DEF vars
<1> QED
  BY <1>2, <1>3, <1>4, <1>5, <1>6, <1>7, <1>8 DEF Next

-----------------------------------------------------------------------------
(* No live item comes to hang under a folder that is not live. *)

\* A write that leaves folders alone and files one item under a usable folder,
\* or puts it in the trash, leaves no item dangling.
LEMMA ItemRowKeepsFolders ==
    ASSUME TypeOK, NEW i \in ItemIds, NEW r,
           row' = [row EXCEPT ![i] = r],
           r.st = "live" => FolderUsable(r.folder)
    PROVE  DanglesOnlyByImport
<1>1. \A x \in Ids : x # i => row'[x] = row[x]
  BY DEF TypeOK
<1>2. row'[i] = r
  BY DEF TypeOK, Ids
<1>3. \A f \in FolderIds : row'[f] = row[f]
  BY <1>1, IdsAssumption DEF Ids
<1>4. \A g : FolderUsable(g) <=> FolderUsable(g)'
  BY <1>3 DEF FolderUsable
<1>5. ~Dangles(i)'
  BY <1>2, <1>4 DEF Dangles, Live
<1>6. \A j \in ItemIds : j # i /\ Dangles(j)' => Dangles(j) /\ row'[j] = row[j]
  BY <1>1, <1>4 DEF Dangles, Live, Ids
<1> QED
  BY <1>5, <1>6 DEF DanglesOnlyByImport

\* A write that leaves a folder live, or was made on one that was not, leaves
\* no item dangling.
LEMMA FolderRowKeepsFolders ==
    ASSUME TypeOK, NEW f \in FolderIds, NEW r,
           row' = [row EXCEPT ![f] = r], r.st = "live"
    PROVE  DanglesOnlyByImport
<1>1. /\ \A x \in Ids : x # f => row'[x] = row[x]
      /\ row'[f] = r
  BY DEF TypeOK, Ids
<1>2. \A i \in ItemIds : row'[i] = row[i]
  BY <1>1, IdsAssumption DEF Ids
<1>3. \A g : FolderUsable(g) => FolderUsable(g)'
  BY <1>1 DEF FolderUsable, Ids
<1>4. \A i \in ItemIds : Dangles(i)' => Dangles(i)
  BY <1>2, <1>3 DEF Dangles, Live
<1> QED
  BY <1>2, <1>4 DEF DanglesOnlyByImport

\* A purge leaves an item its folder or unfiles it, and takes no live folder.
LEMMA HardDeleteKeepsFolders ==
    ASSUME TypeOK,
           NEW dead \in SUBSET (TrashedItems \cup TrashedFolders), HardDelete(dead)
    PROVE  DanglesOnlyByImport
<1> USE DEF Ids
<1>1. \A x \in dead : x \in Ids /\ row[x].st = "trashed"
  BY DEF TrashedItems, TrashedFolders, Trashed
<1>2. \A x \in Ids : row[x] \in Row
  BY DEF TypeOK
<1>3. \A i \in ItemIds : row'[i].st = "live" =>
        row[i].st = "live" /\ (row'[i] = row[i] \/ row'[i].folder = NoFolder)
  BY <1>2 DEF HardDelete, Absent, Row
<1>4. \A f \in FolderIds : row[f].st = "live" => row'[f].st = "live"
  BY <1>1, <1>2 DEF HardDelete, Row
<1>5. \A g : FolderUsable(g) => FolderUsable(g)'
  BY <1>4 DEF FolderUsable
<1>6. FolderUsable(NoFolder)'
  BY DEF FolderUsable
<1>7. \A i \in ItemIds : Dangles(i)' => Dangles(i) /\ row'[i] = row[i]
  BY <1>3, <1>5, <1>6 DEF Dangles, Live
<1> QED
  BY <1>7 DEF DanglesOnlyByImport

\* No step but an import leaves another live item under a folder that is not live.
LEMMA FolderStep ==
    ASSUME TypeOK, [Next]_vars
    PROVE  DanglesOnlyByImport
<1>1. ASSUME UNCHANGED row PROVE DanglesOnlyByImport
  BY <1>1 DEF DanglesOnlyByImport, Dangles, Live, FolderUsable
<1>2. CASE FolderWrite
  <2>1. ASSUME NEW f \in FolderIds, CreateFolder(f) \/ RestoreFolder(f) PROVE DanglesOnlyByImport
    BY <2>1, FolderRowKeepsFolders DEF CreateFolder, RestoreFolder, Stamped
  <2>2. ASSUME NEW f \in FolderIds, NEW v \in Revs, UpdateFolder(f, v) PROVE DanglesOnlyByImport
    BY <2>2, FolderRowKeepsFolders DEF UpdateFolder, Stamped
  <2>3. ASSUME NEW f \in FolderIds, NEW v \in Revs, SoftDeleteFolder(f, v) PROVE DanglesOnlyByImport
    <3>1. \A g \in FolderIds : g # f => row'[g] = row[g]
      BY <2>3, IdsAssumption DEF SoftDeleteFolder, Ids
    <3>2. \A i \in ItemIds :
            \/ row'[i] = row[i] /\ (Live(i) => row[i].folder # f)
            \/ row'[i].folder = NoFolder
      BY <2>3, IdsAssumption DEF SoftDeleteFolder, Stamped, Ids
    <3>3. FolderUsable(NoFolder)'
      BY DEF FolderUsable
    <3>4. \A g : g # f /\ FolderUsable(g) => FolderUsable(g)'
      BY <3>1 DEF FolderUsable
    <3>5. \A i \in ItemIds : Dangles(i)' => Dangles(i) /\ row'[i] = row[i]
      BY <3>2, <3>3, <3>4 DEF Dangles, Live
    <3> QED BY <3>5 DEF DanglesOnlyByImport
  <2> QED BY <1>2, <2>1, <2>2, <2>3 DEF FolderWrite
<1>3. CASE ItemWrite
  <2>1. \A g : FolderUsable(UsableFolder(g))
    BY DEF UsableFolder, FolderUsable
  <2>2. ASSUME NEW i \in ItemIds, NEW f \in FolderIds \cup {NoFolder}, CreateItem(i, f)
        PROVE  DanglesOnlyByImport
    BY <2>2, ItemRowKeepsFolders DEF CreateItem, Stamped
  <2>3. ASSUME NEW i \in ItemIds, NEW f \in FolderIds \cup {NoFolder}, NEW v \in Revs,
               UpdateItem(i, f, v)
        PROVE  DanglesOnlyByImport
    BY <2>3, ItemRowKeepsFolders DEF UpdateItem, Stamped
  <2>4. ASSUME NEW i \in ItemIds, NEW v \in Revs, SoftDeleteItem(i, v) PROVE DanglesOnlyByImport
    BY <2>4, ItemRowKeepsFolders DEF SoftDeleteItem, Stamped
  <2>5. ASSUME NEW i \in ItemIds, NEW s \in history[i], NEW v \in Revs,
               RestoreItemRevision(i, s, v)
        PROVE  DanglesOnlyByImport
    BY <2>1, <2>5, ItemRowKeepsFolders DEF RestoreItemRevision, Stamped
  <2>6. ASSUME NEW i \in ItemIds, RestoreItem(i) PROVE DanglesOnlyByImport
    BY <2>1, <2>6, ItemRowKeepsFolders DEF RestoreItem, Stamped
  <2> QED BY <1>3, <2>2, <2>3, <2>4, <2>5, <2>6 DEF ItemWrite
<1>4. CASE Import
  <2> SUFFICES ASSUME NEW bundle \in SUBSET Ids,
                      NEW link \in [bundle \cap ItemIds -> FolderIds \cup {NoFolder}],
                      NEW gone \in SUBSET bundle, NEW stamp, NEW files,
                      ImportBundle(bundle, link, gone, stamp, files)
               PROVE  DanglesOnlyByImport
    BY <1>4 DEF Import
  <2>1. \A x \in Ids : x \notin bundle => row'[x] = row[x]
    BY DEF ImportBundle
  <2>2. \A x \in bundle :
          /\ row[x].st = "absent"
          /\ row'[x].st = IF x \in gone THEN "trashed" ELSE "live"
          /\ row'[x].folder = IF x \in ItemIds /\ link[x] \in bundle \cap FolderIds
                             THEN link[x] ELSE NoFolder
    BY DEF ImportBundle, ImportedRow
  <2>3. \A g : FolderUsable(g) => FolderUsable(g)'
    BY <2>1, <2>2 DEF FolderUsable, Ids
  <2>4. \A i \in ItemIds : i \notin bundle /\ Dangles(i)' => Dangles(i) /\ row'[i] = row[i]
    BY <2>1, <2>3 DEF Dangles, Live, Ids
  <2>5. FolderUsable(NoFolder)'
    BY DEF FolderUsable
  <2>6. \A i \in ItemIds : i \in bundle /\ Dangles(i)' =>
          /\ row[i].st = "absent" /\ row[row'[i].folder].st = "absent"
          /\ row'[row'[i].folder].st = "trashed"
    <3> SUFFICES ASSUME NEW i \in ItemIds, i \in bundle, Dangles(i)'
                 PROVE  /\ row[i].st = "absent" /\ row[row'[i].folder].st = "absent"
                        /\ row'[row'[i].folder].st = "trashed"
      OBVIOUS
    <3>1. ~FolderUsable(row[i].folder)'
      BY DEF Dangles
    <3>2. row'[i].folder \in bundle \cap FolderIds
      BY <2>2, <2>5, <3>1
    <3>3. row'[row'[i].folder].st # "live"
      BY <3>1, <3>2 DEF FolderUsable
    <3> QED BY <2>2, <3>2, <3>3
  <2> QED BY <2>4, <2>6 DEF DanglesOnlyByImport
<1>5. CASE AttachmentWrite
  BY <1>1, <1>5 DEF AttachmentWrite, CreateAttachment, DeleteAttachment
<1>6. CASE Purge
  BY <1>6, PurgesAreHardDeletes, HardDeleteKeepsFolders
<1>7. CASE Janitor
  <2>1. CASE \/ \E old \in SUBSET TrashedItems : JanitorPurgeItems(old)
             \/ \E old \in SUBSET TrashedFolders : JanitorPurgeFolders(old)
    BY <2>1, PurgesAreHardDeletes, HardDeleteKeepsFolders
  <2>2. CASE \E cutoff \in Revs : JanitorAgeHistory(cutoff)
    BY <2>2, <1>1 DEF JanitorAgeHistory
  <2>3. CASE \E kept \in [ItemIds -> SUBSET UNION {history[i] : i \in ItemIds}] :
                JanitorCapHistory(kept)
    BY <2>3, <1>1 DEF JanitorCapHistory
  <2> QED BY <1>7, <2>1, <2>2, <2>3 DEF Janitor
<1>8. CASE UNCHANGED vars
  BY <1>1, <1>8 DEF vars
<1> QED
  BY <1>2, <1>3, <1>4, <1>5, <1>6, <1>7, <1>8 DEF Next

-----------------------------------------------------------------------------
(* History. *)

\* Dropping snapshots, and moving rows to later revisions, keeps history past.
LEMMA HistoryKept ==
    ASSUME TypeOK, HistoryIsPast,
           \A i \in ItemIds : /\ history'[i] \subseteq history[i]
                              /\ history'[i] = {} \/ (row'[i].rev \in Nat /\ row[i].rev <= row'[i].rev)
    PROVE  HistoryIsPast'
<1>1. \A i \in ItemIds : row[i].rev \in Nat
  BY BoundsAssumption DEF TypeOK, Row, Revs, Ids
<1>2. \A i \in ItemIds : \A s \in history[i] : s.rev \in Nat
  BY BoundsAssumption DEF TypeOK, Snapshot, Revs
<1> QED
  BY <1>1, <1>2 DEF HistoryIsPast

\* Archiving the current row of one item and giving it a new revision keeps
\* history past: the archived revision is newer than every snapshot so far.
LEMMA ArchiveKeepsHistory ==
    ASSUME TypeOK, RevisionsBounded, HistoryIsPast, BumpRev, NEW i \in ItemIds,
           NEW f \in FolderIds \cup {NoFolder}, NEW c \in Revs,
           row' = [row EXCEPT ![i] = Stamped("live", f, c)],
           history' = [history EXCEPT ![i] = Archived(i)]
    PROVE  HistoryIsPast'
<1> USE DEF Ids
<1> DEFINE snap == [rev |-> row[i].rev, folder |-> row[i].folder, content |-> row[i].content]
<1>1. /\ row[i].rev \in Nat /\ row[i].content \in Nat /\ row[i].content <= row[i].rev
      /\ row[i].rev <= currentRev /\ currentRev \in Nat /\ NextRev \in Nat /\ currentRev < NextRev
  BY BumpIsFresh, BoundsAssumption DEF TypeOK, Row, Revs, RevisionsBounded
<1>2. \A s \in history[i] : s.rev \in Nat
  BY BoundsAssumption DEF TypeOK, Snapshot, Revs
<1>3. snap.rev = row[i].rev /\ snap.content = row[i].content
  OBVIOUS
<1> HIDE DEF snap
<1>4. history'[i] = history[i] \cup {snap}
  BY DEF TypeOK, Archived, snap
<1>5. row'[i].rev = NextRev
  BY StampedRow DEF TypeOK
<1>6. \A j \in ItemIds : j # i => row'[j] = row[j] /\ history'[j] = history[j]
  BY DEF TypeOK
<1>7. \A s \in history'[i] : s.rev < row'[i].rev /\ s.content <= s.rev
  BY <1>1, <1>2, <1>3, <1>4, <1>5 DEF HistoryIsPast
<1>8. \A s, t \in history'[i] : s.rev = t.rev => s = t
  BY <1>1, <1>2, <1>3, <1>4 DEF HistoryIsPast
<1> QED
  BY <1>6, <1>7, <1>8 DEF HistoryIsPast

\* Every step keeps history strictly in the past of its item.
LEMMA HistoryStep ==
    ASSUME IInv, [Next]_vars
    PROVE  HistoryIsPast'
<1> USE DEF IInv, Ids
<1>1. \A x \in Ids : row[x].rev \in Nat /\ row[x].rev <= currentRev
  BY BoundsAssumption DEF TypeOK, Row, Revs, RevisionsBounded
<1>2. BumpRev => NextRev \in Nat /\ currentRev < NextRev /\ currentRev \in Nat
  BY BumpIsFresh, BoundsAssumption DEF TypeOK, Revs
<1>3. ASSUME NEW x \in Ids, OneRowStep(x), UNCHANGED history PROVE HistoryIsPast'
  <2>1. PICK st \in {"live", "trashed"}, f \in FolderIds \cup {NoFolder}, c \in Revs :
          BumpRev /\ row' = [row EXCEPT ![x] = Stamped(st, f, c)]
    BY <1>3 DEF OneRowStep
  <2>2. \A y \in Ids : row'[y] = row[y] \/ row'[y].rev = NextRev
    BY <2>1, StampedRow DEF TypeOK
  <2> QED BY <1>1, <1>2, <1>3, <2>1, <2>2, HistoryKept
<1>4. ASSUME UNCHANGED row, \A i \in ItemIds : history'[i] \subseteq history[i]
      PROVE  HistoryIsPast'
  BY <1>1, <1>4, HistoryKept
<1>5. ASSUME NEW dead, HardDelete(dead) PROVE HistoryIsPast'
  <2>1. \A i \in ItemIds : row[i] \in Row
    BY DEF TypeOK
  <2>2. \A i \in ItemIds :
          /\ history'[i] \subseteq history[i]
          /\ history'[i] = {} \/ row'[i].rev = row[i].rev
    BY <1>5, <2>1 DEF HardDelete, Row
  <2> QED BY <1>1, <2>2, HistoryKept
<1>6. CASE FolderWrite
  <2>1. ASSUME NEW f \in FolderIds, CreateFolder(f) \/ RestoreFolder(f) PROVE HistoryIsPast'
    BY <2>1, <1>3, HandlersWriteOneRow DEF CreateFolder, RestoreFolder
  <2>2. ASSUME NEW f \in FolderIds, NEW v \in Revs, UpdateFolder(f, v) PROVE HistoryIsPast'
    BY <2>2, <1>3, HandlersWriteOneRow DEF UpdateFolder
  <2>3. ASSUME NEW f \in FolderIds, NEW v \in Revs, SoftDeleteFolder(f, v) PROVE HistoryIsPast'
    <3>1. \A i \in ItemIds : row'[i] = row[i] \/ row'[i].rev = NextRev
      BY <2>3 DEF SoftDeleteFolder, Stamped
    <3>2. UNCHANGED history /\ BumpRev
      BY <2>3 DEF SoftDeleteFolder
    <3> QED BY <1>1, <1>2, <3>1, <3>2, HistoryKept
  <2> QED BY <1>6, <2>1, <2>2, <2>3 DEF FolderWrite
<1>7. CASE ItemWrite
  <2>1. ASSUME NEW i \in ItemIds, NEW f \in FolderIds \cup {NoFolder}, CreateItem(i, f)
        PROVE  HistoryIsPast'
    BY <2>1, <1>3, HandlersWriteOneRow DEF CreateItem
  <2>2. ASSUME NEW i \in ItemIds, NEW f \in FolderIds \cup {NoFolder}, NEW v \in Revs,
               UpdateItem(i, f, v)
        PROVE  HistoryIsPast'
    BY <2>2, BumpIsFresh, ArchiveKeepsHistory DEF UpdateItem
  <2>3. ASSUME NEW i \in ItemIds, NEW v \in Revs, SoftDeleteItem(i, v) PROVE HistoryIsPast'
    BY <2>3, <1>3, HandlersWriteOneRow DEF SoftDeleteItem
  <2>4. ASSUME NEW i \in ItemIds, NEW s \in history[i], NEW v \in Revs,
               RestoreItemRevision(i, s, v)
        PROVE  HistoryIsPast'
    BY <2>4, StoredFieldsTyped, ArchiveKeepsHistory DEF RestoreItemRevision
  <2>5. ASSUME NEW i \in ItemIds, RestoreItem(i) PROVE HistoryIsPast'
    BY <2>5, <1>3, HandlersWriteOneRow DEF RestoreItem
  <2> QED BY <1>7, <2>1, <2>2, <2>3, <2>4, <2>5 DEF ItemWrite
<1>8. CASE Import
  <2> SUFFICES ASSUME NEW bundle \in SUBSET Ids, NEW link, NEW gone, NEW files,
                      NEW stamp \in Bijection(bundle,
                            (currentRev + 1) .. (currentRev + Cardinality(bundle))),
                      ImportBundle(bundle, link, gone, stamp, files)
               PROVE  HistoryIsPast'
    BY <1>8 DEF Import
  <2>1. \A x \in bundle : stamp[x] \in Nat /\ currentRev < stamp[x]
    BY StampsAreFresh, BoundsAssumption DEF ImportBundle, Revs
  <2>2. currentRev \in Nat
    BY BoundsAssumption DEF TypeOK, Revs
  <2>3. \A i \in ItemIds : \/ row'[i] = row[i]
                           \/ i \in bundle /\ row'[i].rev = stamp[i]
    BY DEF ImportBundle, ImportedRow
  <2>4. UNCHANGED history
    BY DEF ImportBundle
  <2> QED BY <1>1, <2>1, <2>2, <2>3, <2>4, HistoryKept
<1>9. CASE AttachmentWrite
  BY <1>4, <1>9 DEF AttachmentWrite, CreateAttachment, DeleteAttachment
<1>10. CASE Purge
  BY <1>5, <1>10, PurgesAreHardDeletes
<1>11. CASE Janitor
  <2>1. CASE \/ \E old \in SUBSET TrashedItems : JanitorPurgeItems(old)
             \/ \E old \in SUBSET TrashedFolders : JanitorPurgeFolders(old)
    BY <2>1, <1>5, PurgesAreHardDeletes
  <2>2. CASE \E cutoff \in Revs : JanitorAgeHistory(cutoff)
    BY <2>2, <1>4 DEF JanitorAgeHistory
  <2>3. CASE \E kept \in [ItemIds -> SUBSET UNION {history[i] : i \in ItemIds}] :
                JanitorCapHistory(kept)
    BY <2>3, <1>4 DEF JanitorCapHistory
  <2> QED BY <1>11, <2>1, <2>2, <2>3 DEF Janitor
<1>12. CASE UNCHANGED vars
  BY <1>4, <1>12 DEF vars
<1> QED
  BY <1>6, <1>7, <1>8, <1>9, <1>10, <1>11, <1>12 DEF Next

-----------------------------------------------------------------------------
(* Attachments. *)

\* Attachment rows that stay, on items that stay as they are or are live now, keep
\* their items and are no new strays.
LEMMA AttachmentsKept ==
    ASSUME AttachmentsOwned,
           attachments' \subseteq attachments,
           \A a \in attachments' : row'[a.item].st \in {row[a.item].st, "live"}
    PROVE  AttachmentsOwned' /\ StraysOnlyByImport
<1>1. \A a \in attachments' : row[a.item].st # "absent" /\ row'[a.item].st # "absent"
  BY DEF AttachmentsOwned
<1>2. AttachmentsOwned'
  BY <1>1 DEF AttachmentsOwned
<1>3. StraysOnlyByImport
  BY DEF StraysOnlyByImport, Live
<1> QED
  BY <1>2, <1>3

\* Every step keeps attachment rows on items that are there, one row to a blob,
\* and only an import leaves one on a tombstone.
LEMMA AttachmentStep ==
    ASSUME IInv, [Next]_vars
    PROVE  AttachmentsOwned' /\ StraysOnlyByImport
<1> USE DEF IInv, Ids
<1>1. ASSUME NEW x \in Ids, NEW f, NEW c, row' = [row EXCEPT ![x] = Stamped("live", f, c)],
             UNCHANGED attachments
      PROVE  AttachmentsOwned' /\ StraysOnlyByImport
  BY <1>1, AttachmentsKept DEF TypeOK, Attachment, Stamped
<1>2. ASSUME UNCHANGED row, attachments' \subseteq attachments PROVE AttachmentsOwned' /\ StraysOnlyByImport
  BY <1>2, AttachmentsKept
<1>3. ASSUME NEW dead \in SUBSET (TrashedItems \cup TrashedFolders), HardDelete(dead)
      PROVE  AttachmentsOwned' /\ StraysOnlyByImport
  <2>1. \A i \in ItemIds \ dead : row'[i].st = row[i].st
    <3>1. \A i \in ItemIds : row[i] \in Row
      BY DEF TypeOK
    <3> QED BY <1>3, <3>1 DEF HardDelete, Row
  <2>2. attachments' \subseteq attachments /\ \A a \in attachments' : a.item \in ItemIds \ dead
    BY <1>3 DEF HardDelete, TypeOK, Attachment
  <2> QED BY <2>1, <2>2, AttachmentsKept
<1>4. CASE FolderWrite
  <2>1. ASSUME NEW f \in FolderIds, CreateFolder(f) \/ RestoreFolder(f)
        PROVE  AttachmentsOwned' /\ StraysOnlyByImport
    BY <2>1, <1>1 DEF CreateFolder, RestoreFolder
  <2>2. ASSUME NEW f \in FolderIds, NEW v \in Revs, UpdateFolder(f, v)
        PROVE  AttachmentsOwned' /\ StraysOnlyByImport
    BY <2>2, <1>1 DEF UpdateFolder
  <2>3. ASSUME NEW f \in FolderIds, NEW v \in Revs, SoftDeleteFolder(f, v)
        PROVE  AttachmentsOwned' /\ StraysOnlyByImport
    <3>1. \A i \in ItemIds : row'[i].st \in {row[i].st, "live"}
      BY <2>3, IdsAssumption DEF SoftDeleteFolder, Stamped
    <3> QED BY <2>3, <3>1, AttachmentsKept DEF SoftDeleteFolder, TypeOK, Attachment
  <2> QED BY <1>4, <2>1, <2>2, <2>3 DEF FolderWrite
<1>5. CASE ItemWrite
  <2>1. ASSUME NEW i \in ItemIds, NEW f \in FolderIds \cup {NoFolder}, CreateItem(i, f)
        PROVE  AttachmentsOwned' /\ StraysOnlyByImport
    BY <2>1, <1>1 DEF CreateItem
  <2>2. ASSUME NEW i \in ItemIds, NEW f \in FolderIds \cup {NoFolder}, NEW v \in Revs,
               UpdateItem(i, f, v)
        PROVE  AttachmentsOwned' /\ StraysOnlyByImport
    BY <2>2, <1>1 DEF UpdateItem
  <2>3. ASSUME NEW i \in ItemIds, NEW v \in Revs, SoftDeleteItem(i, v)
        PROVE  AttachmentsOwned' /\ StraysOnlyByImport
    <3>1. \A j \in ItemIds : j # i => row'[j] = row[j]
      BY <2>3 DEF SoftDeleteItem, TypeOK
    <3> QED BY <2>3, <3>1, AttachmentsKept DEF SoftDeleteItem, TypeOK, Attachment
  <2>4. ASSUME NEW i \in ItemIds, NEW s \in history[i], NEW v \in Revs,
               RestoreItemRevision(i, s, v)
        PROVE  AttachmentsOwned' /\ StraysOnlyByImport
    BY <2>4, <1>1 DEF RestoreItemRevision
  <2>5. ASSUME NEW i \in ItemIds, RestoreItem(i) PROVE AttachmentsOwned' /\ StraysOnlyByImport
    BY <2>5, <1>1 DEF RestoreItem
  <2> QED BY <1>5, <2>1, <2>2, <2>3, <2>4, <2>5 DEF ItemWrite
<1>6. CASE Import
  <2> SUFFICES ASSUME NEW bundle \in SUBSET Ids, NEW link, NEW stamp,
                      NEW gone \in SUBSET bundle,
                      NEW files \in FreshFiles(bundle \cap ItemIds),
                      ImportBundle(bundle, link, gone, stamp, files)
               PROVE  AttachmentsOwned' /\ StraysOnlyByImport
    BY <1>6 DEF Import
  <2>1. \A x \in bundle : row[x].st = "absent" /\ row'[x].st # "absent"
    BY DEF ImportBundle, ImportedRow
  <2>2. \A x \in Ids : x \notin bundle => row'[x] = row[x]
    BY DEF ImportBundle
  <2>3. \A a \in attachments : a.item \in Ids /\ row[a.item].st # "absent"
    BY DEF AttachmentsOwned, TypeOK, Attachment
  <2>4. \A a \in attachments : row'[a.item] = row[a.item]
    BY <2>1, <2>2, <2>3
  <2>5. \A a \in files : /\ a.item \in bundle
                         /\ a.blob \notin UsedBlobs
                         /\ \A b \in files : a.blob = b.blob => a = b
    BY DEF FreshFiles
  <2>6. attachments' = attachments \cup files
    BY DEF ImportBundle
  <2>7. \A a \in attachments : a.blob \in UsedBlobs
    BY DEF UsedBlobs
  <2>8. AttachmentsOwned'
    BY <2>1, <2>3, <2>4, <2>5, <2>6, <2>7 DEF AttachmentsOwned
  <2>9. StraysOnlyByImport
    BY <2>1, <2>4, <2>5, <2>6 DEF StraysOnlyByImport, Live
  <2> QED BY <2>8, <2>9
<1>7. CASE AttachmentWrite
  <2>1. ASSUME NEW i \in ItemIds, NEW b \in Blobs \ UsedBlobs, CreateAttachment(i, b)
        PROVE  AttachmentsOwned' /\ StraysOnlyByImport
    <3>1. /\ Live(i) /\ UNCHANGED row
          /\ attachments' = attachments \cup {[item |-> i, blob |-> b]}
      BY <2>1 DEF CreateAttachment
    <3>2. \A a \in attachments : a.blob # b
      BY DEF UsedBlobs
    <3>3. AttachmentsOwned'
      BY <3>1, <3>2 DEF AttachmentsOwned, Live
    <3>4. StraysOnlyByImport
      BY <3>1 DEF StraysOnlyByImport, Live
    <3> QED BY <3>3, <3>4
  <2>2. ASSUME NEW a \in attachments, DeleteAttachment(a) PROVE AttachmentsOwned' /\ StraysOnlyByImport
    BY <2>2, <1>2 DEF DeleteAttachment
  <2> QED BY <1>7, <2>1, <2>2 DEF AttachmentWrite
<1>8. CASE Purge
  BY <1>3, <1>8, PurgesAreHardDeletes
<1>9. CASE Janitor
  <2>1. CASE \/ \E old \in SUBSET TrashedItems : JanitorPurgeItems(old)
             \/ \E old \in SUBSET TrashedFolders : JanitorPurgeFolders(old)
    BY <2>1, <1>3, PurgesAreHardDeletes
  <2>2. CASE \E cutoff \in Revs : JanitorAgeHistory(cutoff)
    BY <2>2, <1>2 DEF JanitorAgeHistory
  <2>3. CASE \E kept \in [ItemIds -> SUBSET UNION {history[i] : i \in ItemIds}] :
                JanitorCapHistory(kept)
    BY <2>3, <1>2 DEF JanitorCapHistory
  <2> QED BY <1>9, <2>1, <2>2, <2>3 DEF Janitor
<1>10. CASE UNCHANGED vars
  BY <1>2, <1>10 DEF vars
<1> QED
  BY <1>4, <1>5, <1>6, <1>7, <1>8, <1>9, <1>10 DEF Next

-----------------------------------------------------------------------------
(* The theorems. *)

\* Every step keeps the inductive invariant.
LEMMA IInvStep == IInv /\ [Next]_vars => IInv'
<1> SUFFICES ASSUME IInv, [Next]_vars PROVE IInv'
  OBVIOUS
<1>1. TypeOK'
  BY TypeStep DEF IInv
<1> QED
  BY <1>1, RevisionStep, HistoryStep, AttachmentStep DEF IInv

\* The inductive invariant holds throughout.
THEOREM Invariance == Spec => []IInv
BY IInvInit, IInvStep, PTL DEF Spec

\* Rows share a revision only after one folder delete stamped them together.
THEOREM RevisionsShared == Spec => []SharedRevision
<1>1. IInv => SharedRevision
  BY DEF IInv
<1> QED
  BY <1>1, Invariance, PTL

\* The history of an item is always strictly in its past.
THEOREM HistoryAlwaysPast == Spec => []HistoryIsPast
<1>1. IInv => HistoryIsPast
  BY DEF IInv
<1> QED
  BY <1>1, Invariance, PTL

\* Attachment rows are always on items that are there, one row to a blob.
THEOREM AttachmentsHaveItems == Spec => []AttachmentsOwned
<1>1. IInv => AttachmentsOwned
  BY DEF IInv
<1> QED
  BY <1>1, Invariance, PTL

-----------------------------------------------------------------------------
(* Action properties. *)

\* Nothing but an import leaves a live item hanging under a folder that is
\* tombstoned or gone: no order of deletes, restores and purges does.
THEOREM NeverDangling == Spec => NoNewDangling
<1>1. TypeOK /\ [Next]_vars => [DanglesOnlyByImport]_vars
  BY FolderStep
<1> QED
  BY <1>1, TypeCorrect, PTL DEF Spec, NoNewDangling

\* Nothing but an import leaves attachment rows on a tombstone.
THEOREM NeverStray == Spec => NoStrayAttachment
<1>1. IInv /\ [Next]_vars => [StraysOnlyByImport]_vars
  BY AttachmentStep
<1> QED
  BY <1>1, Invariance, PTL DEF Spec, NoStrayAttachment

\* Every change carries a revision newer than all before it, except that a purge
\* removes a tombstone and clears the links to a folder it removes.
ChangeIsStamped ==
    \A x \in Ids :
        \/ row'[x] = row[x]
        \/ row'[x].st = "absent"
        \/ row'[x].rev > currentRev /\ row'[x].rev <= currentRev'
        \/ /\ Trashed(row[x].folder) /\ row'[row[x].folder] = Absent
           /\ row'[x] = [row[x] EXCEPT !.folder = NoFolder]

\* Every step stamps what a client can see of it.
LEMMA StampStep == IInv /\ [Next]_vars => [ChangeIsStamped]_vars
<1> SUFFICES ASSUME IInv, Next PROVE ChangeIsStamped \/ UNCHANGED vars
  OBVIOUS
<1> USE DEF IInv, Ids
<1>1. BumpRev => currentRev' = NextRev /\ NextRev > currentRev /\ NextRev <= currentRev'
  BY BumpIsFresh, BoundsAssumption DEF TypeOK, Revs
<1>2. ASSUME UNCHANGED row PROVE ChangeIsStamped
  BY <1>2 DEF ChangeIsStamped
<1>3. ASSUME NEW x \in Ids, OneRowStep(x) PROVE ChangeIsStamped
  <2>1. BumpRev /\ \A y \in Ids : row'[y] = row[y] \/ row'[y].rev = NextRev
    BY <1>3, StampedRow DEF OneRowStep, TypeOK
  <2> QED BY <1>1, <2>1 DEF ChangeIsStamped
<1>4. ASSUME NEW dead \in SUBSET (TrashedItems \cup TrashedFolders), HardDelete(dead)
      PROVE  ChangeIsStamped
  <2> SUFFICES ASSUME NEW x \in Ids
               PROVE  \/ row'[x] = row[x] \/ row'[x].st = "absent"
                      \/ /\ Trashed(row[x].folder) /\ row'[row[x].folder] = Absent
                         /\ row'[x] = [row[x] EXCEPT !.folder = NoFolder]
    BY DEF ChangeIsStamped
  <2>1. \A f \in dead : f \in Ids /\ Trashed(f) /\ row'[f] = Absent
    BY <1>4 DEF HardDelete, TrashedItems, TrashedFolders
  <2>2. CASE x \in dead
    BY <1>4, <2>2 DEF HardDelete, Absent
  <2>3. CASE x \notin dead /\ x \in ItemIds /\ row[x].folder \in dead
    BY <1>4, <2>1, <2>3 DEF HardDelete
  <2>4. CASE x \notin dead /\ ~(x \in ItemIds /\ row[x].folder \in dead)
    BY <1>4, <2>4 DEF HardDelete
  <2> QED BY <2>2, <2>3, <2>4
<1>5. CASE FolderWrite
  <2>1. ASSUME NEW f \in FolderIds, NEW v \in Revs, SoftDeleteFolder(f, v) PROVE ChangeIsStamped
    <3>1. BumpRev /\ \A y \in Ids : row'[y] = row[y] \/ row'[y].rev = NextRev
      BY <2>1 DEF SoftDeleteFolder, Stamped
    <3> QED BY <1>1, <3>1 DEF ChangeIsStamped
  <2> QED BY <1>3, <1>5, <2>1, HandlersWriteOneRow DEF FolderWrite
<1>6. CASE ItemWrite
  BY <1>3, <1>6, HandlersWriteOneRow DEF ItemWrite
<1>7. CASE Import
  <2> SUFFICES ASSUME NEW bundle \in SUBSET Ids, NEW link, NEW gone, NEW files,
                      NEW stamp \in Bijection(bundle,
                            (currentRev + 1) .. (currentRev + Cardinality(bundle))),
                      ImportBundle(bundle, link, gone, stamp, files)
               PROVE  ChangeIsStamped
    BY <1>7 DEF Import
  <2>1. /\ currentRev \in Nat /\ currentRev' \in Nat
        /\ \A x \in bundle : stamp[x] \in Nat /\ currentRev < stamp[x] /\ stamp[x] <= currentRev'
    BY StampsAreFresh, BoundsAssumption DEF ImportBundle, TypeOK, Revs
  <2>2. \A x \in Ids : row'[x] = row[x] \/ (x \in bundle /\ row'[x].rev = stamp[x])
    BY DEF ImportBundle, ImportedRow
  <2> QED BY <2>1, <2>2 DEF ChangeIsStamped
<1>8. CASE AttachmentWrite
  BY <1>2, <1>8 DEF AttachmentWrite, CreateAttachment, DeleteAttachment
<1>9. CASE Purge
  BY <1>4, <1>9, PurgesAreHardDeletes
<1>10. CASE Janitor
  <2>1. CASE \/ \E old \in SUBSET TrashedItems : JanitorPurgeItems(old)
             \/ \E old \in SUBSET TrashedFolders : JanitorPurgeFolders(old)
    BY <2>1, <1>4, PurgesAreHardDeletes
  <2>2. CASE \E cutoff \in Revs : JanitorAgeHistory(cutoff)
    BY <2>2, <1>2 DEF JanitorAgeHistory
  <2>3. CASE \E kept \in [ItemIds -> SUBSET UNION {history[i] : i \in ItemIds}] :
                JanitorCapHistory(kept)
    BY <2>3, <1>2 DEF JanitorCapHistory
  <2> QED BY <1>10, <2>1, <2>2, <2>3 DEF Janitor
<1> QED
  BY <1>5, <1>6, <1>7, <1>8, <1>9, <1>10 DEF Next

\* Whatever a client can see change carries a revision above every cursor.
THEOREM ChangesStamped == Spec => [][ChangeIsStamped]_vars
BY Invariance, StampStep, PTL DEF Spec

\* Every overwrite archives what it replaces.
LEMMA ArchiveStep == IInv /\ [Next]_vars => [OldContentArchived]_vars
<1> SUFFICES ASSUME IInv, Next PROVE OldContentArchived
  OBVIOUS
<1> USE DEF IInv, Ids
<1>1. ASSUME \A i \in ItemIds : \/ row[i].st = "absent" \/ row'[i].st = "absent"
                                \/ row'[i].content = row[i].content
      PROVE  OldContentArchived
  BY <1>1 DEF OldContentArchived
<1>2. ASSUME NEW x \in Ids, row[x].st = "absent", NEW r, row' = [row EXCEPT ![x] = r]
      PROVE  OldContentArchived
  BY <1>1, <1>2 DEF TypeOK
<1>3. ASSUME NEW i \in ItemIds, NEW r, row' = [row EXCEPT ![i] = r],
             history' = [history EXCEPT ![i] = Archived(i)]
      PROVE  OldContentArchived
  <2> DEFINE snap == [rev |-> row[i].rev, folder |-> row[i].folder, content |-> row[i].content]
  <2>1. snap.rev = row[i].rev /\ snap.content = row[i].content
    OBVIOUS
  <2>2. snap \in history'[i]
    BY <1>3 DEF TypeOK, Archived
  <2>3. \A j \in ItemIds : j # i => row'[j] = row[j]
    BY <1>3 DEF TypeOK
  <2> HIDE DEF snap
  <2> QED BY <2>1, <2>2, <2>3 DEF OldContentArchived
<1>4. ASSUME NEW i \in ItemIds, NEW st, NEW f, row' = [row EXCEPT ![i] = Stamped(st, f, row[i].content)]
      PROVE  OldContentArchived
  BY <1>1, <1>4 DEF Stamped, TypeOK
<1>5. ASSUME NEW dead, HardDelete(dead) PROVE OldContentArchived
  <2>1. \A i \in ItemIds : row[i] \in Row
    BY DEF TypeOK
  <2> QED BY <1>1, <1>5, <2>1 DEF HardDelete, Absent, Row
<1>6. CASE FolderWrite
  <2>1. ASSUME NEW f \in FolderIds, NEW r, row' = [row EXCEPT ![f] = r] PROVE OldContentArchived
    BY <1>1, <2>1, IdsAssumption DEF TypeOK
  <2>2. ASSUME NEW f \in FolderIds, NEW v \in Revs, SoftDeleteFolder(f, v)
        PROVE  OldContentArchived
    BY <1>1, <2>2 DEF SoftDeleteFolder, Stamped
  <2> QED BY <1>6, <2>1, <2>2 DEF FolderWrite, CreateFolder, UpdateFolder, RestoreFolder
<1>7. CASE ItemWrite
  <2>1. ASSUME NEW i \in ItemIds, NEW f \in FolderIds \cup {NoFolder}, CreateItem(i, f)
        PROVE  OldContentArchived
    BY <1>2, <2>1 DEF CreateItem
  <2>2. ASSUME NEW i \in ItemIds, NEW f \in FolderIds \cup {NoFolder}, NEW v \in Revs,
               UpdateItem(i, f, v)
        PROVE  OldContentArchived
    BY <1>3, <2>2 DEF UpdateItem
  <2>3. ASSUME NEW i \in ItemIds, NEW v \in Revs, SoftDeleteItem(i, v) PROVE OldContentArchived
    BY <1>4, <2>3 DEF SoftDeleteItem
  <2>4. ASSUME NEW i \in ItemIds, NEW s \in history[i], NEW v \in Revs,
               RestoreItemRevision(i, s, v)
        PROVE  OldContentArchived
    BY <1>3, <2>4 DEF RestoreItemRevision
  <2>5. ASSUME NEW i \in ItemIds, RestoreItem(i) PROVE OldContentArchived
    BY <1>4, <2>5 DEF RestoreItem
  <2> QED BY <1>7, <2>1, <2>2, <2>3, <2>4, <2>5 DEF ItemWrite
<1>8. CASE Import
  <2>1. \A i \in ItemIds : row[i].st = "absent" \/ row'[i] = row[i]
    BY <1>8 DEF Import, ImportBundle
  <2> QED BY <1>1, <2>1
<1>9. CASE AttachmentWrite
  BY <1>1, <1>9 DEF AttachmentWrite, CreateAttachment, DeleteAttachment
<1>10. CASE Purge
  BY <1>5, <1>10, PurgesAreHardDeletes
<1>11. CASE Janitor
  <2>1. CASE \/ \E old \in SUBSET TrashedItems : JanitorPurgeItems(old)
             \/ \E old \in SUBSET TrashedFolders : JanitorPurgeFolders(old)
    BY <2>1, <1>5, PurgesAreHardDeletes
  <2>2. CASE \E cutoff \in Revs : JanitorAgeHistory(cutoff)
    BY <2>2, <1>1 DEF JanitorAgeHistory
  <2>3. CASE \E kept \in [ItemIds -> SUBSET UNION {history[i] : i \in ItemIds}] :
                JanitorCapHistory(kept)
    BY <2>3, <1>1 DEF JanitorCapHistory
  <2> QED BY <1>11, <2>1, <2>2, <2>3 DEF Janitor
<1> QED
  BY <1>6, <1>7, <1>8, <1>9, <1>10, <1>11 DEF Next

\* No overwrite loses the content it replaces.
THEOREM ContentNeverLost == Spec => NoContentLost
BY Invariance, ArchiveStep, PTL DEF Spec, NoContentLost

-----------------------------------------------------------------------------
(* The server implements the stream of entries (VaultStream).               *)

\* A step that takes revisions publishes, when the rows it writes carry them all.
LEMMA PublishForm ==
    ASSUME NEW W \in SUBSET Ids, TypeOK, RevisionsBounded,
           currentRev' \in Nat, currentRev' > currentRev,
           \A x \in Ids \ W : row'[x] = row[x],
           {row'[x].rev : x \in W} = (currentRev + 1) .. currentRev',
           \A x \in W :
              /\ row'[x].st \in {"live", "trashed"}
              /\ row[x].st = "trashed" => row'[x].st = "live"
              /\ row[x].st # "absent" /\ row'[x].st # row[x].st => row'[x].content = row[x].content
    PROVE  Stream!Publish
<1>1. /\ currentRev \in Nat
      /\ \A x \in Ids : row[x].rev \in Nat /\ row[x].rev <= currentRev
  BY BoundsAssumption DEF TypeOK, Row, Revs, RevisionsBounded
<1>2. \A x \in W : row'[x].rev \in (currentRev + 1) .. currentRev'
  OBVIOUS
<1>3. \A x \in W : row'[x] # row[x]
  BY <1>1, <1>2
<1>4. Stream!Touched = W
  BY <1>3 DEF Stream!Touched
<1> QED BY <1>4 DEF Stream!Publish

\* Row x is written, and what it was allows it.
EntryStep(x) ==
    /\ BumpRev
    /\ \E st \in {"live", "trashed"}, f \in FolderIds \cup {NoFolder}, c \in Revs :
         /\ row' = [row EXCEPT ![x] = Stamped(st, f, c)]
         /\ row[x].st = "trashed" => st = "live"
         /\ row[x].st # "absent" /\ st # row[x].st => c = row[x].content

LEMMA HandlersWriteEntries ==
    ASSUME TypeOK
    PROVE  /\ \A f \in FolderIds : CreateFolder(f) \/ RestoreFolder(f) => EntryStep(f)
           /\ \A f \in FolderIds, v \in Revs : UpdateFolder(f, v) => EntryStep(f)
           /\ \A i \in ItemIds, f \in FolderIds \cup {NoFolder} : CreateItem(i, f) => EntryStep(i)
           /\ \A i \in ItemIds, f \in FolderIds \cup {NoFolder}, v \in Revs : UpdateItem(i, f, v) => EntryStep(i)
           /\ \A i \in ItemIds, v \in Revs : SoftDeleteItem(i, v) => EntryStep(i)
           /\ \A i \in ItemIds, v \in Revs : \A s \in history[i] : RestoreItemRevision(i, s, v) => EntryStep(i)
           /\ \A i \in ItemIds : RestoreItem(i) => EntryStep(i)
<1>1. \A x \in Ids, st \in {"live", "trashed"}, f \in FolderIds \cup {NoFolder}, c \in Revs :
        /\ BumpRev /\ row' = [row EXCEPT ![x] = Stamped(st, f, c)]
        /\ row[x].st = "trashed" => st = "live"
        /\ row[x].st # "absent" /\ st # row[x].st => c = row[x].content
        => EntryStep(x)
  BY DEF EntryStep
<1>2. BumpRev => NextRev \in Revs
  BY BumpIsFresh
<1>3. \A f \in FolderIds : CreateFolder(f) => EntryStep(f)
  BY <1>1, <1>2 DEF CreateFolder, Ids
<1>4. \A f \in FolderIds : RestoreFolder(f) => EntryStep(f)
  BY <1>1, StoredFieldsTyped DEF RestoreFolder, Trashed, Ids
<1>5. \A f \in FolderIds, v \in Revs : UpdateFolder(f, v) => EntryStep(f)
  BY <1>1, <1>2 DEF UpdateFolder, Live, Ids
<1>6. \A i \in ItemIds, f \in FolderIds \cup {NoFolder} : CreateItem(i, f) => EntryStep(i)
  BY <1>1, <1>2 DEF CreateItem, Ids
<1>7. \A i \in ItemIds, f \in FolderIds \cup {NoFolder}, v \in Revs : UpdateItem(i, f, v) => EntryStep(i)
  BY <1>1, <1>2 DEF UpdateItem, Live, Ids
<1>8. \A i \in ItemIds, v \in Revs : SoftDeleteItem(i, v) => EntryStep(i)
  BY <1>1, StoredFieldsTyped DEF SoftDeleteItem, Live, Ids
<1>9. \A i \in ItemIds, v \in Revs : \A s \in history[i] : RestoreItemRevision(i, s, v) => EntryStep(i)
  BY <1>1, StoredFieldsTyped DEF RestoreItemRevision, Live, Ids
<1>10. \A i \in ItemIds : RestoreItem(i) => EntryStep(i)
  BY <1>1, StoredFieldsTyped DEF RestoreItem, Trashed, Ids
<1> QED BY <1>3, <1>4, <1>5, <1>6, <1>7, <1>8, <1>9, <1>10

LEMMA EntryStepPublishes ==
    ASSUME IInv, NEW x \in Ids, EntryStep(x)
    PROVE  Stream!Publish
<1>1. TypeOK /\ RevisionsBounded
  BY DEF IInv
<1>2. PICK st \in {"live", "trashed"}, f \in FolderIds \cup {NoFolder}, c \in Revs :
        /\ BumpRev /\ row' = [row EXCEPT ![x] = Stamped(st, f, c)]
        /\ row[x].st = "trashed" => st = "live"
        /\ row[x].st # "absent" /\ st # row[x].st => c = row[x].content
  BY DEF EntryStep
<1>3. currentRev \in Nat /\ currentRev' = currentRev + 1 /\ NextRev = currentRev + 1
  BY <1>1, <1>2, BoundsAssumption DEF BumpRev, NextRev, TypeOK, Revs
<1>4. /\ \A y \in Ids \ {x} : row'[y] = row[y]
      /\ row'[x].st = st /\ row'[x].rev = currentRev + 1 /\ row'[x].content = c
  BY <1>1, <1>2, <1>3, StampedRow DEF TypeOK
<1>5. {row'[y].rev : y \in {x}} = (currentRev + 1) .. currentRev'
  BY <1>3, <1>4
<1>6. currentRev' \in Nat /\ currentRev' > currentRev /\ {x} \in SUBSET Ids
  BY <1>3
<1>7. \A y \in {x} :
        /\ row'[y].st \in {"live", "trashed"}
        /\ row[y].st = "trashed" => row'[y].st = "live"
        /\ row[y].st # "absent" /\ row'[y].st # row[y].st => row'[y].content = row[y].content
  BY <1>2, <1>4
<1> QED BY <1>1, <1>4, <1>5, <1>6, <1>7, PublishForm

LEMMA FolderDeletePublishes ==
    ASSUME IInv, NEW f \in FolderIds, NEW v \in Revs, SoftDeleteFolder(f, v)
    PROVE  Stream!Publish
<1> DEFINE W == {x \in Ids : x = f \/ (x \in ItemIds /\ Live(x) /\ row[x].folder = f)}
<1>1. TypeOK /\ RevisionsBounded /\ BumpRev /\ f \in W /\ row[f].st = "live"
  BY DEF IInv, SoftDeleteFolder, Ids, Live
<1>2. currentRev \in Nat /\ currentRev' = currentRev + 1 /\ NextRev = currentRev + 1
  BY <1>1, BoundsAssumption DEF BumpRev, NextRev, TypeOK, Revs
<1>3. \A x \in Ids \ W : row'[x] = row[x]
  BY DEF SoftDeleteFolder
<1>4. \A x \in W : row'[x] = Stamped(IF x = f THEN "trashed" ELSE "live", NoFolder, row[x].content)
  BY DEF SoftDeleteFolder
<1>5. \A x \in W : /\ row'[x].st = IF x = f THEN "trashed" ELSE "live"
                   /\ row'[x].rev = currentRev + 1 /\ row'[x].content = row[x].content
  BY <1>1, <1>2, <1>4, StampedRow, StoredFieldsTyped
<1>6. \A x \in W : row[x].st = "live"
  BY <1>1 DEF Live
<1> HIDE DEF W
<1>7. {row'[x].rev : x \in W} = (currentRev + 1) .. currentRev'
  BY <1>1, <1>2, <1>5
<1>8. W \in SUBSET Ids
  BY DEF W
<1> QED BY <1>1, <1>2, <1>3, <1>5, <1>6, <1>7, <1>8, PublishForm

LEMMA ImportPublishes ==
    ASSUME IInv, NEW bundle \in SUBSET Ids, NEW link, NEW gone, NEW files,
           NEW stamp \in Bijection(bundle, (currentRev + 1) .. (currentRev + Cardinality(bundle))),
           ImportBundle(bundle, link, gone, stamp, files)
    PROVE  Stream!Publish
<1>1. TypeOK /\ RevisionsBounded
  BY DEF IInv
<1>2. currentRev \in Nat /\ Cardinality(bundle) \in Nat /\ currentRev' = currentRev + Cardinality(bundle)
      /\ \A x \in bundle : stamp[x] \in Nat /\ currentRev < stamp[x] /\ stamp[x] <= currentRev'
  BY <1>1, StampsAreFresh, BoundsAssumption DEF ImportBundle, TypeOK, Revs
<1>3. PICK x \in bundle : TRUE
  BY DEF ImportBundle
<1>4. currentRev' \in Nat /\ currentRev' > currentRev
  BY <1>2, <1>3
<1>5. \A y \in Ids \ bundle : row'[y] = row[y]
  BY DEF ImportBundle
<1>6. \A y \in bundle : /\ row'[y].st \in {"live", "trashed"} /\ row'[y].rev = stamp[y]
                        /\ row[y].st = "absent"
  BY DEF ImportBundle, ImportedRow
<1>7. {row'[y].rev : y \in bundle} = (currentRev + 1) .. currentRev'
  <2>1. \A r \in (currentRev + 1) .. currentRev' : \E y \in bundle : stamp[y] = r
    BY <1>2 DEF Bijection, Surjection
  <2>2. \A y \in bundle : stamp[y] \in (currentRev + 1) .. currentRev'
    BY <1>2
  <2> QED BY <1>6, <2>1, <2>2
<1> QED BY <1>1, <1>4, <1>5, <1>6, <1>7, PublishForm

LEMMA HardDeleteForgets ==
    ASSUME IInv, NEW dead \in SUBSET (TrashedItems \cup TrashedFolders), HardDelete(dead)
    PROVE  [Stream!StreamNext]_(Stream!streamVars)
<1>1. /\ row \in [Ids -> Row] /\ currentRev' = currentRev
      /\ \A x \in dead : x \in Ids /\ row[x].st = "trashed" /\ row'[x] = Absent
  BY DEF IInv, TypeOK, HardDelete, TrashedItems, TrashedFolders, Trashed, Ids
<1>2. \A x \in Ids \ dead :
        \/ row'[x] = row[x]
        \/ row[x].folder \in dead /\ row'[x] = [row[x] EXCEPT !.folder = NoFolder]
  BY DEF HardDelete
<1>3. CASE dead = {}
  <2>1. row' = [x \in Ids |-> row[x]]
    BY <1>3 DEF HardDelete
  <2>2. row' = row
    BY <1>1, <2>1
  <2> QED BY <1>1, <2>2 DEF Stream!streamVars
<1>4. CASE dead # {}
  <2>1. dead \subseteq Stream!Dropped
    BY <1>1 DEF Stream!Dropped
  <2>2. Stream!Touched # {}
    <3>1. PICK x \in dead : TRUE
      BY <1>4
    <3>2. row[x] # row'[x]
      BY <1>1, <3>1 DEF Absent
    <3> QED BY <1>1, <3>1, <3>2 DEF Stream!Touched
  <2>3. \A x \in Stream!Touched : row'[x] # row[x] /\ x \in Ids
    BY DEF Stream!Touched
  <2>4. \A x \in Stream!Touched \ Stream!Dropped :
          row[x].folder \in Stream!Dropped /\ row'[x] = [row[x] EXCEPT !.folder = NoFolder]
    BY <1>2, <2>1, <2>3
  <2>5. \A x \in Ids : Stream!Misplaced(row[x]) = [row[x] EXCEPT !.folder = NoFolder]
    BY DEF Stream!Misplaced, Absent
  <2>6. Stream!Forget
    BY <1>1, <2>2, <2>3, <2>4, <2>5 DEF Stream!Forget
  <2> QED BY <2>6 DEF Stream!StreamNext
<1> QED BY <1>3, <1>4

LEMMA StreamStep == IInv /\ [Next]_vars => [Stream!StreamNext]_(Stream!streamVars)
<1> SUFFICES ASSUME IInv, [Next]_vars PROVE [Stream!StreamNext]_(Stream!streamVars)
  OBVIOUS
<1>1. ASSUME Stream!Publish PROVE [Stream!StreamNext]_(Stream!streamVars)
  BY <1>1 DEF Stream!StreamNext
<1>2. ASSUME row' = row, currentRev' = currentRev PROVE [Stream!StreamNext]_(Stream!streamVars)
  BY <1>2 DEF Stream!streamVars
<1>3. TypeOK
  BY DEF IInv
<1>4. CASE FolderWrite
  <2>1. \/ \E f \in FolderIds : EntryStep(f)
        \/ \E f \in FolderIds, v \in Revs : SoftDeleteFolder(f, v)
    BY <1>3, <1>4, HandlersWriteEntries DEF FolderWrite
  <2> QED BY <1>1, <2>1, EntryStepPublishes, FolderDeletePublishes DEF Ids
<1>5. CASE ItemWrite
  <2>1. \E i \in ItemIds : EntryStep(i)
    BY <1>3, <1>5, HandlersWriteEntries DEF ItemWrite
  <2> QED BY <1>1, <2>1, EntryStepPublishes DEF Ids
<1>6. CASE Import
  BY <1>1, <1>6, ImportPublishes DEF Import
<1>7. CASE AttachmentWrite
  BY <1>2, <1>7 DEF AttachmentWrite, CreateAttachment, DeleteAttachment
<1>8. CASE Purge
  BY <1>8, PurgesAreHardDeletes, HardDeleteForgets
<1>9. CASE Janitor
  <2>1. CASE \/ \E old \in SUBSET TrashedItems : JanitorPurgeItems(old)
             \/ \E old \in SUBSET TrashedFolders : JanitorPurgeFolders(old)
    BY <2>1, PurgesAreHardDeletes, HardDeleteForgets
  <2>2. CASE \/ \E cutoff \in Revs : JanitorAgeHistory(cutoff)
             \/ \E kept \in [ItemIds -> SUBSET UNION {history[i] : i \in ItemIds}] : JanitorCapHistory(kept)
    BY <1>2, <2>2 DEF JanitorAgeHistory, JanitorCapHistory
  <2> QED BY <1>9, <2>1, <2>2 DEF Janitor
<1>10. CASE UNCHANGED vars
  BY <1>2, <1>10 DEF vars
<1> QED BY <1>4, <1>5, <1>6, <1>7, <1>8, <1>9, <1>10 DEF Next

LEMMA StreamStart == Init => Stream!StreamInit
BY DEF Init, Stream!StreamInit

\* The vault implements the stream its devices read: whatever requests and
\* janitor do, a change carries a new revision, no revision is taken in vain, and
\* without one only tombstones go, with the links to them.
THEOREM ServerImplementsStream == Spec => ServerIsStream
BY Invariance, StreamStart, StreamStep, PTL DEF Spec, ServerIsStream, Stream!StreamSpec

\* What a device was told at r stays true: a write only reaches entries above r,
\* and the rest can only be forgotten.
LEMMA ToldStep ==
    ASSUME NEW r, NEW told, r \in Nat, currentRev \in Nat, currentRev' \in Nat, r <= currentRev,
           row \in [Ids -> Row],
           Stream!StillTold(r, told), [Stream!StreamNext]_(Stream!streamVars)
    PROVE  r <= currentRev' /\ Stream!StillTold(r, told)'
<1>0. \A x \in Ids : row[x] \in Row
  OBVIOUS
<1>1. CASE Stream!Publish
  <2>1. /\ currentRev' > currentRev
        /\ {row'[x].rev : x \in Stream!Touched} = (currentRev + 1) .. currentRev'
    BY <1>1 DEF Stream!Publish
  <2>2. \A x \in Stream!Touched : row'[x].rev \in (currentRev + 1) .. currentRev'
    BY <2>1
  <2>3. \A x \in Stream!Touched : ~(row'[x].rev <= r)
    BY <2>2
  <2>4. \A x \in Ids \ Stream!Touched : row'[x] = row[x]
    BY DEF Stream!Touched
  <2> QED BY <2>1, <2>3, <2>4 DEF Stream!StillTold
<1>2. CASE Stream!Forget
  <2>1. \A x \in Ids \ Stream!Touched : row'[x] = row[x]
    BY DEF Stream!Touched
  <2>2. \A x \in Stream!Dropped : row'[x].st = "absent"
    BY DEF Stream!Dropped, Absent
  <2>3. \A x \in Stream!Touched \ Stream!Dropped :
          row'[x].st = row[x].st /\ row'[x].rev = row[x].rev /\ row'[x] = Stream!Misplaced(row[x])
    BY <1>2, <1>0 DEF Stream!Forget, Stream!Misplaced, Row, Stream!Touched
  <2>4. \A e : Stream!Misplaced(Stream!Misplaced(e)) = Stream!Misplaced(e)
    BY DEF Stream!Misplaced
  <2>5. currentRev' = currentRev
    BY <1>2 DEF Stream!Forget
  <2>6. \A x \in Stream!Touched : x \in Ids
    BY DEF Stream!Touched
  <2>7. ASSUME NEW x \in Ids, row'[x].st # "absent", row'[x].rev <= r
        PROVE  row'[x] \in {told[x], Stream!Misplaced(told[x])}
    <3>1. x \notin Stream!Dropped
      BY <2>2, <2>7
    <3>2. row[x].st # "absent" /\ row[x].rev <= r /\ row'[x] \in {row[x], Stream!Misplaced(row[x])}
      BY <2>1, <2>3, <2>7, <3>1
    <3>3. row[x] \in {told[x], Stream!Misplaced(told[x])}
      BY <3>2 DEF Stream!StillTold
    <3> QED BY <2>4, <3>2, <3>3
  <2>8. Stream!StillTold(r, told)'
    BY <2>7 DEF Stream!StillTold
  <2> QED BY <2>5, <2>8
<1>3. CASE UNCHANGED Stream!streamVars
  BY <1>3 DEF Stream!streamVars, Stream!StillTold
<1> QED BY <1>1, <1>2, <1>3 DEF Stream!StreamNext

\* A cursor is all a device needs to keep.  If it knew every row at the moment
\* the counter was r, then for ever after a row of the vault with a revision up to
\* r is what it knew, but for the link to a folder that was purged: asking for
\* what is above r misses nothing else, and a row it does not get again is either
\* as it was or forgotten.
THEOREM CursorSuffices ==
    ASSUME NEW CONSTANT r, NEW CONSTANT told
    PROVE  Spec => []( /\ currentRev = r
                       /\ row = told
                       => []Stream!StillTold(r, told))
<1> DEFINE Told == r \in Nat /\ r <= currentRev /\ Stream!StillTold(r, told)
<1> DEFINE Still == Stream!StillTold(r, told)
<1> DEFINE Known == currentRev = r /\ row = told
<1>1. IInv => currentRev \in Nat
  BY BoundsAssumption DEF IInv, TypeOK, Revs
<1>2. IInv /\ Known => Told
  <2> SUFFICES ASSUME IInv, Known PROVE Told
    OBVIOUS
  <2> QED BY <1>1 DEF Stream!StillTold
<1>3. Told /\ IInv /\ IInv' /\ [Next]_vars => Told'
  <2> SUFFICES ASSUME Told, IInv, IInv', [Next]_vars PROVE Told'
    OBVIOUS
  <2>1. currentRev \in Nat /\ currentRev' \in Nat /\ row \in [Ids -> Row]
    BY <1>1, BoundsAssumption DEF IInv, TypeOK, Revs
  <2> QED BY <2>1, StreamStep, ToldStep
<1>4. Told => Still
  OBVIOUS
<1> HIDE DEF Told, Known, Still
<1>5. Spec => [](Known => []Still)
  BY Invariance, <1>2, <1>3, <1>4, PTL DEF Spec
<1> QED BY <1>5, PTL DEF Known, Still

-----------------------------------------------------------------------------
(* A sync page has no gap. *)

\* A nonempty set of naturals has a least element, which MinRev returns.
LEMMA MinRevExists ==
    ASSUME NEW R \in SUBSET Nat, R # {}
    PROVE  MinRev(R) \in R /\ \A q \in R : MinRev(R) <= q
<1> DEFINE T == {0 .. r : r \in R}
           Order == StrictSubsetOrdering(Nat)
<1>1. \A m, q \in Nat : q < m => <<0 .. q, 0 .. m>> \in Order
  <2> SUFFICES ASSUME NEW m \in Nat, NEW q \in Nat, q < m PROVE <<0 .. q, 0 .. m>> \in Order
    OBVIOUS
  <2>1. 0 .. q \subseteq 0 .. m /\ 0 .. m \subseteq Nat /\ m \in 0 .. m /\ m \notin 0 .. q
    OBVIOUS
  <2>2. 0 .. q # 0 .. m
    BY <2>1
  <2> QED BY <2>1, <2>2 DEF StrictSubsetOrdering
<1>2. T # {} /\ T \subseteq FiniteSubsetsOf(Nat)
  <2>1. \A r \in R : 0 .. r \subseteq Nat /\ IsFiniteSet(0 .. r)
    BY FS_Interval
  <2> QED BY <2>1 DEF FiniteSubsetsOf
<1>3. IsWellFoundedOn(Order, FiniteSubsetsOf(Nat))
  BY FS_StrictSubsetOrderingWellFounded
<1> HIDE DEF Order
<1>4. \E U \in T : \A V \in T : ~(<<V, U>> \in Order)
  BY <1>2, <1>3, WFMin, Zenon
<1>5. PICK r \in R : \A q \in R : ~(<<0 .. q, 0 .. r>> \in Order)
  BY <1>4
<1>6. \A q \in R : r <= q
  <2>1. \A q \in R : q \in Nat /\ r \in Nat /\ ~(q < r)
    BY <1>1, <1>5
  <2> QED BY <2>1
<1> QED
  BY <1>6 DEF MinRev

\* A nonempty bounded set of naturals has a greatest element, which MaxRevOf
\* returns.
LEMMA MaxRevExists ==
    ASSUME NEW R \in SUBSET Nat, R # {}, NEW b \in Nat, \A r \in R : r <= b
    PROVE  MaxRevOf(R) \in R /\ \A q \in R : q <= MaxRevOf(R)
<1> DEFINE D == {b - r : r \in R}
<1>1. D \in SUBSET Nat /\ D # {}
  <2>1. \A r \in R : r \in Nat /\ b - r \in Nat
    OBVIOUS
  <2>2. PICK q \in R : TRUE
    OBVIOUS
  <2>3. b - q \in D
    OBVIOUS
  <2> QED BY <2>1, <2>3
<1>2. PICK d \in D : \A e \in D : d <= e
  BY <1>1, MinRevExists
<1>3. PICK r \in R : d = b - r
  BY <1>2
<1>4. \A q \in R : b - q \in D
  OBVIOUS
<1>5. \A q \in R : b - r <= b - q
  BY <1>2, <1>3, <1>4
<1>6. \A q \in R : r >= q
  BY <1>5
<1> QED
  BY <1>6 DEF MaxRevOf

\* What the read of a group leaves out is of a group above the ceiling.
LEMMA GroupReadsWhole ==
    ASSUME NEW group, Cardinality(group) \in Nat, NEW G \in GroupReads(group)
    PROVE  G \subseteq group /\ (G # group => Cardinality(group) > SameRevHardCeiling)
<1>1. CASE Cardinality(group) <= SameRevHardCeiling
  BY <1>1 DEF GroupReads
<1>2. CASE ~(Cardinality(group) <= SameRevHardCeiling)
  <2>1. G \subseteq group
    BY <1>2 DEF GroupReads
  <2> QED BY <1>2, <2>1, CeilingAssumption
<1> QED BY <1>1, <1>2

\* A page of a sync: it holds every changed row up to the cursor it hands back,
\* but for rows of a group above the ceiling, and a page cut inside the first
\* group of rows says so.
LEMMA PageCovers ==
    ASSUME IInv, NEW current \in Nat, current <= currentRev, NEW since \in Nat, NEW limit \in Nat,
           NEW p \in SyncPages(row, current, since, limit)
    PROVE  LET stream  == Changed(row, since)
               isGroup == Cardinality(stream) > limit /\ p.cursor = OverflowRev(row, stream, limit)
           IN  /\ p.cursor \in Nat /\ p.cursor <= currentRev
               /\ p.more \in BOOLEAN /\ p.ids \subseteq stream
               /\ p.more => since < p.cursor
               /\ ~p.more => current <= p.cursor
               /\ ~p.more \/ ~isGroup => \A x \in stream : row[x].rev <= p.cursor => x \in p.ids
               /\ isGroup =>
                    /\ since < p.cursor
                    /\ \A x \in stream : row[x].rev <= p.cursor => row[x].rev = p.cursor
                    /\ \A x \in stream \ p.ids : row[x].rev <= p.cursor =>
                         Cardinality({y \in stream : row[y].rev = row[x].rev}) > SameRevHardCeiling
<1> DEFINE stream   == Changed(row, since)
           overflow == OverflowRev(row, stream, limit)
           below    == {x \in stream : row[x].rev < overflow}
           group    == {x \in stream : row[x].rev = overflow}
<1>1. /\ currentRev \in Nat
      /\ IsFiniteSet(stream) /\ Cardinality(stream) \in Nat
      /\ \A x \in stream : row[x].rev \in Nat /\ row[x].rev <= currentRev /\ since < row[x].rev
  <2>1. currentRev \in Nat
    BY BoundsAssumption DEF IInv, TypeOK, Revs
  <2>2. stream \in SUBSET Ids
    BY DEF Changed
  <2>3. IsFiniteSet(stream) /\ Cardinality(stream) \in Nat
    BY <2>2, IdsAssumption, FS_Subset, FS_CardinalityType
  <2>4. \A x \in stream : row[x].rev \in Nat /\ row[x].rev <= currentRev /\ since < row[x].rev
    BY BoundsAssumption DEF Changed, IInv, TypeOK, RevisionsBounded, Row, Revs
  <2> QED BY <2>1, <2>3, <2>4
<1>2. CASE Cardinality(stream) <= limit
  <2>1. p = [ids |-> stream, cursor |-> current, more |-> FALSE]
    BY <1>2 DEF SyncPages
  <2>2. ~(Cardinality(stream) > limit)
    BY <1>1, <1>2
  <2> HIDE DEF stream
  <2> QED BY <2>1, <2>2 DEF stream
<1>3. CASE ~(Cardinality(stream) <= limit)
  <2>1. RevsOf(row, stream) \in SUBSET Nat /\ \A r \in RevsOf(row, stream) : r <= currentRev
    BY <1>1 DEF RevsOf
  <2>2. stream # {}
    BY <1>1, <1>3, FS_EmptySet
  <2>3. overflow \in RevsOf(row, stream)
    <3> DEFINE O == {r \in RevsOf(row, stream) :
                        Cardinality({x \in stream : row[x].rev <= r}) > limit}
    <3>1. RevsOf(row, stream) # {}
      BY <2>2 DEF RevsOf
    <3>2. PICK top \in RevsOf(row, stream) : \A q \in RevsOf(row, stream) : q <= top
      BY <1>1, <2>1, <3>1, MaxRevExists
    <3>3. {x \in stream : row[x].rev <= top} = stream
      BY <3>2 DEF RevsOf
    <3>4. Cardinality({x \in stream : row[x].rev <= top}) > limit
      <4>1. Cardinality(stream) > limit
        BY <1>1, <1>3
      <4> QED BY <3>3, <4>1, Zenon
    <3>5. top \in O
      BY <3>4
    <3>6. MinRev(O) \in O
      BY <2>1, <3>5, MinRevExists
    <3> QED BY <3>6 DEF OverflowRev
  <2>4. overflow \in Nat /\ overflow <= currentRev /\ since < overflow
    BY <1>1, <2>1, <2>3 DEF RevsOf
  <2> HIDE DEF overflow
  <2>5. CASE below # {}
    <3> DEFINE last == MaxRevOf(RevsOf(row, below))
    <3>1. RevsOf(row, below) \in SUBSET Nat /\ RevsOf(row, below) # {}
          /\ \A r \in RevsOf(row, below) : r <= currentRev
      BY <1>1, <2>5 DEF RevsOf
    <3>2. last \in RevsOf(row, below)
      BY <1>1, <3>1, MaxRevExists
    <3>3. last \in Nat /\ last < overflow /\ since < last
      BY <1>1, <3>2 DEF RevsOf
    <3>4. p = [ids |-> below, cursor |-> last, more |-> TRUE]
      BY <1>3, <2>5 DEF SyncPages, overflow
    <3> HIDE DEF last
    <3>5. \A x \in stream : row[x].rev <= last => x \in below
      BY <1>1, <2>4, <3>3
    <3>6. below \subseteq stream /\ last <= currentRev /\ last # overflow
      BY <1>1, <2>4, <3>3
    <3> HIDE DEF stream, below
    <3> QED BY <3>3, <3>4, <3>5, <3>6 DEF stream, overflow
  <2>6. CASE below = {}
    <3>1. \A x \in stream : row[x].rev <= overflow => row[x].rev = overflow
      BY <1>1, <2>4, <2>6
    <3>2. PICK G \in GroupReads(group) :
            p = [ids |-> G, cursor |-> overflow, more |-> current > overflow \/ G # group]
      BY <1>3, <2>6 DEF SyncPages, overflow
    <3>3. group \subseteq stream /\ \A x \in stream : row[x].rev <= overflow => x \in group
      BY <3>1
    <3>4. Cardinality(group) \in Nat
      BY <1>1, <3>3, FS_Subset, FS_CardinalityType
    <3>5. G \subseteq group /\ (G # group => Cardinality(group) > SameRevHardCeiling)
      BY <3>4, GroupReadsWhole
    <3>6. /\ p.ids = G /\ p.cursor = overflow /\ p.more \in BOOLEAN
          /\ ~p.more => current <= overflow /\ G = group
      <4> DEFINE promised == current > overflow \/ G # group
      <4>1. promised \in BOOLEAN /\ (~promised => current <= overflow /\ G = group)
        BY <2>4
      <4>2. p = [ids |-> G, cursor |-> overflow, more |-> promised]
        BY <3>2
      <4> HIDE DEF promised
      <4> QED BY <4>1, <4>2
    <3>7. \A x \in group : {y \in stream : row[y].rev = row[x].rev} = group
      OBVIOUS
    <3>8. \A x \in stream \ p.ids : row[x].rev <= p.cursor =>
            Cardinality({y \in stream : row[y].rev = row[x].rev}) > SameRevHardCeiling
      BY <3>3, <3>5, <3>6, <3>7
    <3>9. Cardinality(stream) > limit
      BY <1>1, <1>3
    <3> HIDE DEF stream, group
    <3> QED BY <2>4, <3>1, <3>3, <3>5, <3>6, <3>8, <3>9 DEF stream, overflow
  <2> QED BY <2>5, <2>6
<1> QED
  BY <1>2, <1>3

\* Whatever the cursor and the limit, the page a sync returns leaves out no
\* row up to the cursor it hands back, but above the ceiling, and makes progress
\* when it says more.
LEMMA PageHasNoGap == IInv => SyncPageComplete
<1> SUFFICES ASSUME IInv, NEW since \in 0 .. currentRev, NEW limit \in 1 .. Cardinality(Ids),
                    NEW p \in SyncPages(row, currentRev, since, limit)
             PROVE  PageComplete(p, since)
  BY DEF SyncPageComplete
<1>1. currentRev \in Nat /\ currentRev <= currentRev /\ since \in Nat /\ limit \in Nat
  BY BoundsAssumption, IdsAssumption, FS_CardinalityType DEF IInv, TypeOK, Revs
<1> DEFINE stream == Changed(row, since)
<1>2. /\ p.cursor \in Nat /\ p.cursor <= currentRev
      /\ p.ids \subseteq stream
      /\ p.more => since < p.cursor
      /\ ~p.more => currentRev <= p.cursor
      /\ ~p.more => \A x \in stream : row[x].rev <= p.cursor => x \in p.ids
      /\ \A x \in stream \ p.ids : row[x].rev <= p.cursor =>
           Cardinality({y \in stream : row[y].rev = row[x].rev}) > SameRevHardCeiling
  BY <1>1, PageCovers
<1>3. \A x \in stream : row[x].rev <= currentRev
  BY DEF IInv, RevisionsBounded, Changed
<1> HIDE DEF stream
<1>4. ~p.more => p.cursor = currentRev
  BY <1>1, <1>2
<1>5. ~p.more => p.ids = stream
  BY <1>2, <1>3, <1>4
<1> QED BY <1>1, <1>2, <1>4, <1>5 DEF PageComplete, stream

\* A paged sync never skips a row, but in a group of one revision above the ceiling.
THEOREM PagesComplete == Spec => []SyncPageComplete
BY Invariance, PageHasNoGap, PTL

-----------------------------------------------------------------------------
(* Attachment files.  A row keeps its file because whoever deletes a file    *)
(* owns it: a cleanup owns the paths in doomed, and the sweep what neither a *)
(* row nor a request names, the files that crossed its reading aside.        *)

FilesKnown ==
    /\ disk \subseteq used /\ doomed \subseteq used /\ Saved \subseteq used
    /\ UsedBlobs \subseteq used /\ used \subseteq Blobs
    /\ sweep.blobs \subseteq used
    /\ sweep = [phase |-> sweep.phase, blobs |-> sweep.blobs]

RequestKeepsFile == Saved \subseteq disk \cup crossed

SweepTakesOrphans ==
    sweep.phase = "delete" => sweep.blobs \cap (UsedBlobs \cup Saved) \subseteq crossed

BlobsInv ==
    /\ IInv
    /\ FilesKnown /\ OneOwner
    /\ RowKeepsFile /\ RequestKeepsFile /\ SweepTakesOrphans

LEMMA BlobsInvInit == BlobsInit => BlobsInv
BY IInvInit DEF BlobsInit, BlobsInv, FilesKnown, OneOwner, RowKeepsFile, RequestKeepsFile,
   SweepTakesOrphans, Idle, Saved, UsedBlobs, Init, Request

\* The server's side of every step is a step of the server.
LEMMA BlobsStepIsServerStep ==
    ASSUME BlobsInv, [BlobsNext]_fileVars
    PROVE  [Next]_vars
<1>1. ASSUME NEW p \in pending, CommitUpload(p) PROVE Next
  <2>1. p.item \in ItemIds /\ p.blob \in Blobs \ UsedBlobs
    BY <1>1 DEF BlobsInv, OneOwner, Request, Saved
  <2> QED BY <1>1, <2>1 DEF CommitUpload, Next, AttachmentWrite
<1>2. ASSUME NEW i \in ItemIds, CommitImport(i) PROVE Next
  <2> DEFINE link == [x \in {i} |-> NoFolder]
             stamp == [x \in {i} |-> NextRev]
             files == {[item |-> p.item, blob |-> p.blob] : p \in Imports(i)}
  <2>1. PICK gone \in SUBSET {i} : ImportBundle({i}, link, gone, stamp, files)
    BY <1>2 DEF CommitImport
  <2>2. {i} \in SUBSET {x \in Ids : row[x].st = "absent"} /\ {i} \cap ItemIds = {i}
    BY <2>1 DEF ImportBundle, Ids
  <2>3. link \in [{i} \cap ItemIds -> FolderIds \cup {NoFolder}]
    BY <2>2
  <2>4. stamp \in Bijection({i}, (currentRev + 1) .. (currentRev + Cardinality({i})))
    <3>1. currentRev \in Nat /\ Cardinality({i}) = 1
      BY FS_Singleton, BoundsAssumption DEF BlobsInv, IInv, TypeOK, Revs
    <3>2. (currentRev + 1) .. (currentRev + Cardinality({i})) = {NextRev}
      BY <3>1 DEF NextRev
    <3>3. stamp \in [{i} -> {NextRev}] /\ IsInjective(stamp) /\ \A y \in {NextRev} : \E x \in {i} : stamp[x] = y
      BY DEF IsInjective
    <3> QED BY <3>2, <3>3 DEF Bijection, Injection, Surjection
  <2>5. files \in FreshFiles({i} \cap ItemIds)
    <3>1. \A p \in Imports(i) : p.item = i /\ p.blob \in Blobs \ UsedBlobs /\ p \in pending
      BY DEF Imports, BlobsInv, OneOwner, Request, Saved
    <3>2. \A p, q \in Imports(i) : p.blob = q.blob => p = q
      BY <3>1 DEF BlobsInv, OneOwner
    <3>3. files \subseteq [item : {i} \cap ItemIds, blob : Blobs \ UsedBlobs]
      BY <2>2, <3>1
    <3>4. \A a, b \in files : a.blob = b.blob => a = b
      BY <3>1, <3>2
    <3> QED BY <3>3, <3>4 DEF FreshFiles
  <2> HIDE DEF link, stamp, files
  <2>6. Import
    BY <2>1, <2>2, <2>3, <2>4, <2>5 DEF Import
  <2> QED BY <2>6 DEF Next
<1>3. ASSUME RowsThenFiles PROVE Next
  BY <1>3 DEF RowsThenFiles, Next, AttachmentWrite, ItemWrite, Purge
<1>4. ASSUME RowsOnly PROVE Next
  <2>1. PICK i \in ItemIds : CreateItem(i, NoFolder) \/ RestoreItem(i) \/ JanitorPurgeItems({i})
    BY <1>4 DEF RowsOnly
  <2>2. JanitorPurgeItems({i}) => {i} \in SUBSET TrashedItems
    BY DEF JanitorPurgeItems
  <2> QED BY <2>1, <2>2 DEF Next, ItemWrite, Janitor
<1> QED
  BY <1>1, <1>2, <1>3, <1>4
  DEF BlobsNext, Upload, SaveBlob, RejectUpload, RejectImport, Reject, RemoveFile, Sweep, SweepList,
      SweepRead, SweepAbort, SweepRemove, SweepSkip, SweepDone, Crash, fileVars, blobVars

\* The paths the tables and the requests name after a step.
LEMMA PathsAreNames ==
    /\ \A a \in attachments : a.blob \in UsedBlobs
    /\ \A b \in UsedBlobs : \E a \in attachments : a.blob = b
    /\ \A p \in pending : p.blob \in Saved
    /\ \A b \in Saved : \E p \in pending : p.blob = b
BY DEF UsedBlobs, Saved

\* What the server's invariant says of attachments: one row to a blob.
LEMMA RemovedRowsFreeTheirFiles ==
    ASSUME IInv, attachments' \subseteq attachments
    PROVE  /\ UsedBlobs' \subseteq UsedBlobs
           /\ \A a \in attachments \ attachments' : a.blob \in UsedBlobs /\ a.blob \notin UsedBlobs'
BY DEF IInv, AttachmentsOwned, UsedBlobs

\* Deletes, purges and restores of rows only take attachment rows away.
LEMMA RowStepsOnlyRemove ==
    ASSUME RowsThenFiles \/ RowsOnly
    PROVE  attachments' \subseteq attachments
BY DEF RowsThenFiles, RowsOnly, DeleteAttachment, SoftDeleteItem, PurgeItem, EmptyTrash, HardDelete,
       CreateItem, RestoreItem, JanitorPurgeItems

\* A request that puts its file's row in hands the file over.
LEMMA CommitHandsOver ==
    ASSUME BlobsInv, NEW done \in SUBSET pending, NEW rows,
           rows = {[item |-> p.item, blob |-> p.blob] : p \in done},
           attachments' = attachments \cup rows, pending' = pending \ done
    PROVE  /\ UsedBlobs' = UsedBlobs \cup {p.blob : p \in done}
           /\ Saved' = Saved \ {p.blob : p \in done}
           /\ {p.blob : p \in done} \subseteq Saved
<1>1. \A r \in rows : r.blob \in {p.blob : p \in done}
  OBVIOUS
<1>2. \A p \in done : \E r \in rows : r.blob = p.blob
  <2>1. \A p \in done : [item |-> p.item, blob |-> p.blob] \in rows
    OBVIOUS
  <2> QED BY <2>1
<1>3. UsedBlobs' = UsedBlobs \cup {p.blob : p \in done}
  BY <1>1, <1>2 DEF UsedBlobs
<1>4. Saved' = {p.blob : p \in pending \ done}
  BY DEF Saved
<1>5. \A p \in pending \ done : p.blob \notin {q.blob : q \in done}
  BY DEF BlobsInv, OneOwner
<1> QED BY <1>3, <1>4, <1>5 DEF Saved

LEMMA BlobsInvStep == BlobsInv /\ [BlobsNext]_fileVars => BlobsInv'
<1> SUFFICES ASSUME BlobsInv, [BlobsNext]_fileVars PROVE BlobsInv'
  OBVIOUS
<1>i. IInv'
  BY BlobsStepIsServerStep, IInvStep DEF BlobsInv
<1>q. BlobsInv' <=> /\ FilesKnown' /\ OneOwner' /\ RowKeepsFile' /\ RequestKeepsFile' /\ SweepTakesOrphans'
  BY <1>i DEF BlobsInv
<1> USE DEF FilesKnown, OneOwner, RowKeepsFile, RequestKeepsFile, SweepTakesOrphans
<1>1. ASSUME NEW done \in SUBSET pending, NEW rows,
             rows = {[item |-> p.item, blob |-> p.blob] : p \in done},
             attachments' = attachments \cup rows, pending' = pending \ done,
             UNCHANGED <<disk, used, doomed, sweep, crossed, crashes>>
      PROVE  BlobsInv'
  <2> DEFINE taken == {p.blob : p \in done}
  <2>1. UsedBlobs' = UsedBlobs \cup taken /\ Saved' = Saved \ taken /\ taken \subseteq Saved
    BY <1>1, CommitHandsOver
  <2>2. \A p, q \in pending' : p.blob = q.blob => p = q
    BY <1>1 DEF BlobsInv
  <2> HIDE DEF taken
  <2> QED BY <1>1, <1>q, <2>1, <2>2 DEF BlobsInv
<1>2. ASSUME NEW kind \in {"upload", "import"}, NEW i \in ItemIds, SaveBlob(kind, i) PROVE BlobsInv'
  <2>1. PICK b \in Blobs \ used :
            /\ disk' = disk \cup {b} /\ used' = used \cup {b}
            /\ pending' = pending \cup {[kind |-> kind, item |-> i, blob |-> b]}
            /\ UNCHANGED <<vars, doomed, sweep, crossed, crashes>>
    BY <1>2 DEF SaveBlob
  <2>2. Saved' = Saved \cup {b} /\ UsedBlobs' = UsedBlobs
    <3> DEFINE new == [kind |-> kind, item |-> i, blob |-> b]
    <3>1. pending' = pending \cup {new} /\ new.blob = b
      BY <2>1
    <3> HIDE DEF new
    <3>2. Saved' = {p.blob : p \in pending \cup {new}}
      BY <3>1 DEF Saved
    <3> QED BY <2>1, <3>1, <3>2 DEF Saved, UsedBlobs, vars
  <2>3. pending' \subseteq Request
    BY <2>1 DEF BlobsInv, Request
  <2>4. \A p, q \in pending' : p.blob = q.blob => p = q
    BY <2>1, PathsAreNames DEF BlobsInv
  <2> QED BY <1>q, <2>1, <2>2, <2>3, <2>4 DEF BlobsInv
<1>3. ASSUME NEW failed \in SUBSET pending, Reject(failed) PROVE BlobsInv'
  <2>1. Saved' = Saved \ {p.blob : p \in failed} /\ {p.blob : p \in failed} \subseteq Saved
    BY <1>3 DEF Reject, Saved, BlobsInv
  <2>2. UsedBlobs' = UsedBlobs
    BY <1>3 DEF Reject, UsedBlobs, vars
  <2>3. pending' \subseteq pending /\ doomed' = doomed \cup {p.blob : p \in failed}
        /\ UNCHANGED <<disk, used, sweep, crossed, crashes>>
    BY <1>3 DEF Reject
  <2> QED BY <1>q, <2>1, <2>2, <2>3 DEF BlobsInv
<1>4. ASSUME RowsThenFiles PROVE BlobsInv'
  <2>1. attachments' \subseteq attachments
    BY <1>4, RowStepsOnlyRemove
  <2>2. /\ UsedBlobs' \subseteq UsedBlobs
        /\ \A b \in doomed' \ doomed : b \in UsedBlobs /\ b \notin UsedBlobs'
    BY <1>4, <2>1, RemovedRowsFreeTheirFiles DEF RowsThenFiles, BlobsInv
  <2>3. Saved' = Saved /\ UNCHANGED <<disk, used, pending, sweep, crossed, crashes>>
    BY <1>4 DEF RowsThenFiles, Saved
  <2> QED BY <1>q, <2>2, <2>3 DEF BlobsInv
<1>5. ASSUME RowsOnly PROVE BlobsInv'
  <2>1. UsedBlobs' \subseteq UsedBlobs
    BY <1>5, RowStepsOnlyRemove, RemovedRowsFreeTheirFiles DEF BlobsInv
  <2>2. Saved' = Saved /\ UNCHANGED blobVars
    BY <1>5 DEF RowsOnly, Saved, blobVars
  <2> QED BY <1>q, <2>1, <2>2 DEF BlobsInv, blobVars
<1>6. ASSUME NEW b \in Blobs, RemoveFile(b) PROVE BlobsInv'
  <2>1. Saved' = Saved /\ UsedBlobs' = UsedBlobs
    BY <1>6 DEF RemoveFile, Saved, UsedBlobs, vars
  <2>2. b \in doomed /\ disk \ {b} \subseteq disk' /\ disk' \subseteq disk /\ doomed' = doomed \ {b}
        /\ UNCHANGED <<used, pending, sweep, crossed>>
    BY <1>6 DEF RemoveFile
  <2> QED BY <1>q, <2>1, <2>2 DEF BlobsInv
<1>7. ASSUME Sweep PROVE BlobsInv'
  <2>1. Saved' = Saved /\ UsedBlobs' = UsedBlobs /\ UNCHANGED <<used, pending, doomed>>
    BY <1>7 DEF Sweep, SweepList, SweepRead, SweepAbort, SweepRemove, SweepSkip, SweepDone,
                Saved, UsedBlobs, vars
  <2>2. CASE SweepList \/ SweepAbort
    BY <1>q, <2>1, <2>2 DEF SweepList, SweepAbort, Idle, BlobsInv
  <2>3. CASE SweepRead
    BY <1>q, <2>1, <2>3 DEF SweepRead, Idle, BlobsInv
  <2>4. ASSUME NEW b \in Blobs, SweepRemove(b) \/ SweepSkip(b) PROVE BlobsInv'
    <3>1. /\ sweep.phase = "delete" /\ b \in sweep.blobs
          /\ sweep' = Idle \/ (sweep' = [phase |-> "delete", blobs |-> sweep.blobs \ {b}])
          /\ disk \ {b} \subseteq disk' /\ disk' \subseteq disk /\ crossed' = crossed
      BY <2>4 DEF SweepRemove, SweepSkip, SweepDone, BlobsInv
    <3> QED BY <1>q, <2>1, <3>1 DEF Idle, BlobsInv
  <2> QED BY <1>7, <2>2, <2>3, <2>4 DEF Sweep
<1>8. ASSUME Crash PROVE BlobsInv'
  <2>1. Saved' = {} /\ UsedBlobs' = UsedBlobs
    BY <1>8 DEF Crash, Saved, UsedBlobs, vars
  <2> QED BY <1>8, <1>q, <2>1 DEF Crash, Idle, BlobsInv
<1>9. CASE UNCHANGED fileVars
  <2>1. Saved' = Saved /\ UsedBlobs' = UsedBlobs
    BY <1>9 DEF fileVars, vars, blobVars, Saved, UsedBlobs
  <2> QED BY <1>9, <1>q, <2>1 DEF fileVars, blobVars, BlobsInv
<1>10. ASSUME NEW p \in pending, CommitUpload(p) PROVE BlobsInv'
  <2>1. {[item |-> p.item, blob |-> p.blob]} = {[item |-> q.item, blob |-> q.blob] : q \in {p}}
    OBVIOUS
  <2> QED BY <1>1, <1>10, <2>1 DEF CommitUpload, CreateAttachment
<1>11. ASSUME NEW i \in ItemIds, CommitImport(i) PROVE BlobsInv'
  <2>1. Imports(i) \in SUBSET pending
    BY DEF Imports
  <2> QED BY <1>1, <1>11, <2>1 DEF CommitImport, ImportBundle
<1>12. CASE Upload
  <2>1. \A i \in ItemIds : Imports(i) \in SUBSET pending
    BY DEF Imports
  <2> QED BY <1>2, <1>3, <1>10, <1>11, <1>12, <2>1 DEF Upload, RejectUpload, RejectImport
<1> QED
  BY <1>4, <1>5, <1>6, <1>7, <1>8, <1>9, <1>12 DEF BlobsNext

\* The inductive invariant of the attachment files holds throughout.
THEOREM BlobsInvariance == BlobsSpec => []BlobsInv
BY BlobsInvInit, BlobsInvStep, PTL DEF BlobsSpec

\* With its files the server is still the server: uploads, cleanups, the sweep and
\* restarts only interleave with its transactions, so every theorem about Spec
\* holds of it (handler.go, janitor.go).
THEOREM FilesImplementServer == BlobsSpec => Spec
<1>1. BlobsInit => Init
  BY DEF BlobsInit
<1> QED BY <1>1, BlobsInvariance, BlobsStepIsServerStep, PTL DEF BlobsSpec, Spec

\* Whoever deletes an attachment file owns it: no other request, cleanup or row
\* names it.
THEOREM FilesHaveOneOwner == BlobsSpec => []OneOwner
<1>1. BlobsInv => OneOwner
  BY DEF BlobsInv
<1> QED BY BlobsInvariance, <1>1, PTL

\* An attachment row never loses its file, whatever uploads, imports, deletes,
\* sweeps and restarts interleave, but for one race of an upload with a sweep.
THEOREM RowsKeepTheirFiles == BlobsSpec => []RowKeepsFile
<1>1. BlobsInv => RowKeepsFile
  BY DEF BlobsInv
<1> QED BY BlobsInvariance, <1>1, PTL

-----------------------------------------------------------------------------
(* The syncing tab.  What it holds are versions the server has had, and what *)
(* it has not been made to skip is the server's up to its cursors.           *)

InRun == sync.phase # "idle"
Present(x) == row[x].st # "absent"

\* A stored row has a revision.
RevsPositive == \A x \in Ids : Present(x) => row[x].rev > 0

TabShape ==
    /\ unlocked \in BOOLEAN
    /\ view \in [Ids -> Row] /\ raw \in [Ids -> Row]
    /\ cache = [rows |-> cache.rows, cursor |-> cache.cursor] /\ cache.rows \in [Ids -> Row]
    /\ suspect \subseteq Ids
    /\ \A c \in {cursor, cache.cursor} : c \in 0 .. currentRev

RunShape ==
    /\ sync = [phase |-> sync.phase, since |-> sync.since, byId |-> sync.byId,
               changed |-> sync.changed, current |-> sync.current, todo |-> sync.todo,
               page |-> sync.page, next |-> sync.next, more |-> sync.more]
    /\ sync.byId \in [Ids -> Row] /\ sync.page \in [Ids -> Row] /\ sync.todo \subseteq Ids
    /\ sync.changed \in BOOLEAN /\ sync.more \in BOOLEAN
    /\ sync.phase \in {"idle", "cursor", "stream", "group", "rows"}
    /\ \A c \in {sync.since, sync.current, sync.next} : c \in 0 .. currentRev

SyncShape == TabShape /\ RunShape

ReplyShape ==
    /\ reply.kind \in {"none", "create", "update", "delete"}
    /\ reply = [kind |-> reply.kind, id |-> reply.id, row |-> reply.row]
    /\ reply.kind # "none" => reply.id \in Ids
    /\ reply.row \in Row

\* A row a table of the tab holds is a version of the server's.
Copies(table) ==
    \A x \in Ids :
        /\ table[x].st # "trashed" /\ table[x].rev <= currentRev
        /\ table[x].st = "absent" => table[x] = Absent
        /\ Present(x) /\ table[x].st = "live" =>
              /\ table[x].rev <= row[x].rev
              /\ table[x].rev = row[x].rev => SameRow(table[x], row[x])
CopiesAreVersions == Copies(view) /\ Copies(raw) /\ Copies(cache.rows) /\ Copies(sync.byId)

SameVersion(r, x) == r.st = row[x].st /\ (r.st = "live" => SameRow(r, row[x]))

PageIsOfVersions ==
    \A x \in Ids :
        /\ sync.page[x].rev <= currentRev
        /\ sync.page[x].st # "absent" => sync.since < sync.page[x].rev
        /\ sync.page[x].st # "absent" /\ Present(x) =>
              /\ sync.page[x].rev <= row[x].rev
              /\ sync.page[x].rev = row[x].rev => SameVersion(sync.page[x], x)

Answered(r) == r.kind \in {"create", "update"}
ReplyIsVersion ==
    Answered(reply) =>
        /\ reply.row.st = "live" /\ reply.row.rev <= currentRev
        /\ Present(reply.id) =>
              /\ reply.row.rev <= row[reply.id].rev
              /\ reply.row.rev = row[reply.id].rev => SameRow(reply.row, row[reply.id])
        /\ \A y \in Ids \ {reply.id} : Present(y) => row[y].rev # reply.row.rev

LockedAtZero == unlocked \/ cursor = 0 \/ suspect = Ids

TablesAgree ==
    \A x \in Ids \ suspect :
        Agrees(view, cursor, x) /\ Agrees(raw, cursor, x) /\ Agrees(cache.rows, cache.cursor, x)

RunAgrees ==
    InRun => \A x \in Ids \ suspect :
        /\ Agrees(sync.byId, sync.since, x)
        /\ unlocked => Agrees(raw, sync.since, x)
        /\ unlocked /\ ~sync.changed => Agrees(view, sync.since, x)
        /\ Present(x) /\ row[x].rev <= cursor => row[x].rev <= sync.since

\* What a run has not got yet.
RunComplete ==
    /\ sync.phase # "rows" => sync.page = Empty /\ sync.todo = {}
    /\ sync.phase \in {"group", "rows"} /\ sync.more => sync.since < sync.next
    /\ sync.phase = "group" =>
          /\ sync.since < sync.next
          /\ \A x \in Ids : Present(x) /\ sync.since < row[x].rev /\ row[x].rev <= sync.next
                                => row[x].rev = sync.next
    /\ sync.phase = "rows" => \A x \in Ids : Present(x) =>
          /\ x \in sync.todo => sync.since < row[x].rev
          /\ sync.since < row[x].rev /\ row[x].rev <= sync.next
                => x \in sync.todo \cup suspect \/ SameVersion(sync.page[x], x)

\* A copy of the row as it was last written.
Newest(r, x) == row[x].st = "live" /\ r.st = "live" /\ r.rev = row[x].rev

NewestEverywhere ==
    unlocked => \A x \in Ids \ suspect :
        /\ Newest(view[x], x) =>
              /\ Newest(raw[x], x) /\ Newest(cache.rows[x], x)
              /\ InRun => Newest(sync.byId[x], x)
        /\ InRun /\ Newest(sync.byId[x], x) => Newest(raw[x], x)
        /\ InRun /\ sync.page[x].st # "absent" /\ view[x].st # "absent" => view[x].rev <= sync.page[x].rev

UpdatedIsHeld ==
    \A x \in Ids \ suspect :
        reply.kind = "update" /\ reply.id = x /\ Present(x) /\ row[x].rev = reply.row.rev =>
            /\ cache.rows[x].st = "live"
            /\ unlocked => view[x].st = "live" /\ raw[x].st = "live"
            /\ unlocked /\ InRun => sync.byId[x].st = "live" /\ sync.page[x].st # "trashed"

SyncInv ==
    /\ IInv /\ RevsPositive /\ SyncShape /\ ReplyShape
    /\ CopiesAreVersions /\ PageIsOfVersions /\ ReplyIsVersion
    /\ LockedAtZero /\ TablesAgree /\ RunAgrees /\ RunComplete
    /\ NewestEverywhere /\ UpdatedIsHeld

-----------------------------------------------------------------------------
(* What a step of the server does to the tab. *)

\* A copy has the fields of its row, the link aside.
LEMMA SameRowFields ==
    ASSUME NEW c \in Row, NEW r \in Row, SameRow(c, r)
    PROVE  c.st = r.st /\ c.rev = r.rev /\ c.content = r.content
BY DEF SameRow, Row

LEMMA ClearedRow ==
    ASSUME NEW r \in Row
    PROVE  LET c == [r EXCEPT !.folder = NoFolder]
           IN  /\ c.st = r.st /\ c.rev = r.rev /\ c.content = r.content
               /\ [c EXCEPT !.folder = NoFolder] = c
BY DEF Row

\* A copy stays one when the link of its row is cleared.
LEMMA SameRowKept ==
    ASSUME NEW x \in Ids, NEW c \in Row, SameRow(c, row[x]),
           row'[x] = row[x] \/ row'[x] = [row[x] EXCEPT !.folder = NoFolder]
    PROVE  SameRow(c, row'[x])
<1>1. CASE c = row[x]
  BY <1>1 DEF SameRow
<1>2. CASE row[x] = [c EXCEPT !.folder = NoFolder]
  BY <1>2, ClearedRow DEF SameRow
<1> QED BY <1>1, <1>2 DEF SameRow

\* A row is the version it was; its link may have gone with the folder.
SameStamp(x) ==
    /\ row'[x].st = row[x].st /\ row'[x].rev = row[x].rev
    /\ \A c \in Row : SameRow(c, row[x]) => SameRow(c, row'[x])

\* What can become of a row: a purge, a new revision, or nothing.
RowMoves(x) == row'[x].st = "absent" \/ row'[x].rev > currentRev \/ SameStamp(x)

LEMMA RowMoveStamps ==
    ASSUME NEW x, RowMoves(x)
    PROVE  \/ row'[x].st = "absent" \/ row'[x].rev > currentRev
           \/ row'[x].st = row[x].st /\ row'[x].rev = row[x].rev
<1>1. SameStamp(x) => row'[x].st = row[x].st /\ row'[x].rev = row[x].rev
  BY DEF SameStamp
<1> QED BY <1>1 DEF RowMoves

\* The counter never goes back.
LEMMA RevGrows ==
    ASSUME IInv, [Next]_vars
    PROVE  currentRev \in Nat /\ currentRev' \in Nat /\ currentRev <= currentRev'
<1>1. IInv'
  BY IInvStep
<1>2. currentRev \in Nat /\ currentRev' \in Nat
  BY <1>1, BoundsAssumption DEF IInv, TypeOK, Revs
<1>3. BumpRev => currentRev <= currentRev'
  BY <1>2 DEF BumpRev, NextRev
<1>4. ASSUME NEW dead, HardDelete(dead) PROVE currentRev' = currentRev
  BY <1>4 DEF HardDelete
<1>5. CASE FolderWrite
  <2>1. ASSUME NEW f \in FolderIds, CreateFolder(f) \/ RestoreFolder(f) PROVE BumpRev
    BY <2>1 DEF CreateFolder, RestoreFolder
  <2>2. ASSUME NEW f \in FolderIds, NEW r \in Revs, UpdateFolder(f, r) PROVE BumpRev
    BY <2>2 DEF UpdateFolder
  <2>3. ASSUME NEW f \in FolderIds, NEW r \in Revs, SoftDeleteFolder(f, r) PROVE BumpRev
    BY <2>3 DEF SoftDeleteFolder
  <2>4. BumpRev
    BY <1>5, <2>1, <2>2, <2>3 DEF FolderWrite
  <2> QED BY <1>2, <1>3, <2>4
<1>6. CASE ItemWrite
  <2>1. BumpRev
    BY <1>6 DEF ItemWrite, CreateItem, UpdateItem, SoftDeleteItem, RestoreItemRevision, RestoreItem
  <2> QED BY <1>2, <1>3, <2>1
<1>7. CASE Import
  <2>1. PICK bundle \in SUBSET Ids : currentRev' = currentRev + Cardinality(bundle)
    BY <1>7 DEF Import, ImportBundle
  <2>2. Cardinality(bundle) \in Nat
    BY IdsAssumption, FS_Subset, FS_CardinalityType
  <2> QED BY <1>2, <2>1, <2>2
<1>8. CASE AttachmentWrite
  <2>1. ASSUME NEW i \in ItemIds, NEW b, CreateAttachment(i, b) PROVE currentRev' = currentRev
    BY <2>1 DEF CreateAttachment
  <2>2. ASSUME NEW a \in attachments, DeleteAttachment(a) PROVE currentRev' = currentRev
    BY <2>2 DEF DeleteAttachment
  <2>3. currentRev' = currentRev
    BY <1>8, <2>1, <2>2, Zenon DEF AttachmentWrite
  <2> QED BY <1>2, <2>3
<1>9. CASE Purge
  <2>1. currentRev' = currentRev
    BY <1>4, <1>9, Zenon DEF Purge, PurgeItem, PurgeFolder, EmptyTrash
  <2> QED BY <1>2, <2>1
<1>10. CASE Janitor
  BY <1>2, <1>4, <1>10 DEF Janitor, JanitorPurgeItems, JanitorPurgeFolders, JanitorAgeHistory, JanitorCapHistory
<1>11. CASE UNCHANGED vars
  BY <1>2, <1>11 DEF vars
<1> QED
  BY <1>5, <1>6, <1>7, <1>8, <1>9, <1>10, <1>11 DEF Next

LEMMA ServerStep ==
    ASSUME IInv, [Next]_vars
    PROVE  /\ IInv' /\ currentRev \in Nat /\ currentRev' \in Nat /\ currentRev <= currentRev'
           /\ row \in [Ids -> Row] /\ row' \in [Ids -> Row]
           /\ \A x \in Ids : RowMoves(x) /\ row[x].rev <= currentRev /\ row'[x].rev <= currentRev'
                             /\ row[x].rev \in Nat /\ row'[x].rev \in Nat
<1>1. IInv' /\ row \in [Ids -> Row] /\ row' \in [Ids -> Row]
  BY IInvStep DEF IInv, TypeOK
<1>2. \A x \in Ids : row[x].rev <= currentRev /\ row'[x].rev <= currentRev'
  BY <1>1 DEF IInv, RevisionsBounded
<1>3. \A x \in Ids : row[x].rev \in Nat /\ row'[x].rev \in Nat
  BY <1>1, BoundsAssumption DEF Row, Revs
<1>4. [ChangeIsStamped]_vars
  BY StampStep
<1>5. ASSUME NEW x \in Ids PROVE RowMoves(x)
  <2>1. CASE UNCHANGED vars
    BY <2>1 DEF vars, RowMoves, SameStamp
  <2>2. row'[x] = row[x] \/ row'[x] = [row[x] EXCEPT !.folder = NoFolder] => SameStamp(x)
    BY <1>1, ClearedRow, SameRowKept DEF SameStamp
  <2>3. CASE ChangeIsStamped
    BY <2>2, <2>3 DEF ChangeIsStamped, RowMoves
  <2> QED BY <1>4, <2>1, <2>2, <2>3
<1> QED BY <1>1, <1>2, <1>3, <1>5, RevGrows

\* The tab's tables may be stated against the rows of the next state.
AgreesNext(table, upTo, x) ==
    (row'[x].st # "absent" /\ row'[x].rev <= upTo)
    => IF row'[x].st = "live" THEN SameRow(table[x], row'[x]) ELSE table[x] = Absent

\* What a table has up to a cursor stays true: the cursor passes no later write.
LEMMA AgreesKept ==
    ASSUME NEW x \in Ids, RowMoves(x), currentRev \in Nat, row[x].rev \in Nat, row'[x].rev \in Nat,
           row[x] \in Row, NEW table \in [Ids -> Row],
           NEW upTo \in Nat, upTo <= currentRev, Agrees(table, upTo, x)
    PROVE  AgreesNext(table, upTo, x)
<1>1. CASE row'[x].st = "absent" \/ row'[x].rev > currentRev
  BY <1>1 DEF AgreesNext
<1>2. CASE SameStamp(x)
  BY <1>2 DEF SameStamp, Agrees, AgreesNext
<1> QED BY <1>1, <1>2 DEF RowMoves

\* The same of copies: the tables hold no version the server has not had yet.
LEMMA CopiesKept ==
    ASSUME IInv, [Next]_vars, NEW table \in [Ids -> Row], Copies(table)
    PROVE  \A x \in Ids :
        /\ table[x].st # "trashed" /\ table[x].rev <= currentRev'
        /\ table[x].st = "absent" => table[x] = Absent
        /\ row'[x].st # "absent" /\ table[x].st = "live" =>
              /\ table[x].rev <= row'[x].rev
              /\ table[x].rev = row'[x].rev => SameRow(table[x], row'[x])
<1> SUFFICES ASSUME NEW x \in Ids
             PROVE  /\ table[x].st # "trashed" /\ table[x].rev <= currentRev'
                    /\ table[x].st = "absent" => table[x] = Absent
                    /\ row'[x].st # "absent" /\ table[x].st = "live" =>
                          /\ table[x].rev <= row'[x].rev
                          /\ table[x].rev = row'[x].rev => SameRow(table[x], row'[x])
  OBVIOUS
<1>1. table[x].rev \in Nat /\ table[x] \in Row
  BY BoundsAssumption DEF Row, Revs
<1>2. /\ currentRev \in Nat /\ currentRev' \in Nat /\ currentRev <= currentRev' /\ RowMoves(x)
      /\ row[x].rev <= currentRev /\ row[x].rev \in Nat /\ row'[x].rev \in Nat /\ row[x] \in Row
  BY ServerStep
<1>3. CASE row'[x].st = "absent" \/ row'[x].rev > currentRev
  BY <1>1, <1>2, <1>3 DEF Copies
<1>4. CASE SameStamp(x)
  BY <1>1, <1>2, <1>4 DEF SameStamp, Copies, Present
<1> QED BY <1>2, <1>3, <1>4 DEF RowMoves

\* A step of the server, with the tab doing nothing.
LEMMA TabKept ==
    ASSUME SyncInv, [Next]_vars, UNCHANGED <<tab, sync, suspect>>
    PROVE  /\ IInv' /\ RevsPositive' /\ SyncShape'
           /\ CopiesAreVersions' /\ PageIsOfVersions'
           /\ LockedAtZero' /\ TablesAgree' /\ RunAgrees' /\ RunComplete' /\ NewestEverywhere'
<1>0. /\ UNCHANGED <<unlocked, view, raw, cursor, cache, sync, suspect>>
      /\ SyncShape /\ IInv
  BY DEF tab, SyncInv
<1>1. /\ IInv' /\ currentRev \in Nat /\ currentRev' \in Nat /\ currentRev <= currentRev'
      /\ \A x \in Ids : RowMoves(x) /\ row[x].rev <= currentRev /\ row'[x].rev <= currentRev'
                        /\ row[x].rev \in Nat /\ row'[x].rev \in Nat
  BY <1>0, ServerStep
<1>2. \A c \in {cursor, cache.cursor, sync.since, sync.current, sync.next} :
          c \in Nat /\ c <= currentRev /\ c <= currentRev'
  BY <1>0, <1>1 DEF SyncShape, TabShape, RunShape
<1>3. \A x \in Ids : view[x].rev \in Nat /\ sync.page[x].rev \in Nat
  BY <1>0, BoundsAssumption DEF SyncShape, TabShape, RunShape, Row, Revs
<1>m. \A x \in Ids :
        \/ row'[x].st = "absent" \/ row'[x].rev > currentRev
        \/ row'[x].st = row[x].st /\ row'[x].rev = row[x].rev
  BY <1>1, RowMoveStamps
<1>4. RevsPositive'
  BY <1>1, <1>m DEF RevsPositive, SyncInv, Present
<1>5. SyncShape'
  BY <1>0, <1>1, <1>2 DEF SyncShape, TabShape, RunShape
<1>6. CopiesAreVersions'
  <2>1. Copies(view)' /\ Copies(raw)' /\ Copies(cache.rows)' /\ Copies(sync.byId)'
    <3>1. ASSUME NEW table \in {view, raw, cache.rows, sync.byId}
          PROVE  \A x \in Ids :
              /\ table[x].st # "trashed" /\ table[x].rev <= currentRev'
              /\ table[x].st = "absent" => table[x] = Absent
              /\ row'[x].st # "absent" /\ table[x].st = "live" =>
                    /\ table[x].rev <= row'[x].rev
                    /\ table[x].rev = row'[x].rev => SameRow(table[x], row'[x])
      BY <1>0, CopiesKept DEF SyncInv, SyncShape, TabShape, RunShape, CopiesAreVersions
    <3> QED BY <1>0, <3>1 DEF Copies, Present, SameRow
  <2> QED BY <2>1 DEF CopiesAreVersions
<1>7. PageIsOfVersions'
  <2> SUFFICES ASSUME NEW x \in Ids
               PROVE  /\ sync.page[x].rev <= currentRev'
                      /\ sync.page[x].st # "absent" => sync.since < sync.page[x].rev
                      /\ sync.page[x].st # "absent" /\ row'[x].st # "absent" =>
                            /\ sync.page[x].rev <= row'[x].rev
                            /\ sync.page[x].rev = row'[x].rev =>
                                  /\ sync.page[x].st = row'[x].st
                                  /\ sync.page[x].st = "live" => SameRow(sync.page[x], row'[x])
    BY <1>0 DEF PageIsOfVersions, Present, SameVersion
  <2>1. CASE row'[x].st = "absent" \/ row'[x].rev > currentRev
    BY <1>1, <1>3, <2>1 DEF SyncInv, PageIsOfVersions
  <2>2. CASE SameStamp(x)
    <3>1. SameRow(sync.page[x], row[x]) => SameRow(sync.page[x], row'[x])
      BY <1>0, <2>2 DEF SyncShape, RunShape, SameStamp
    <3>2. row'[x].st = row[x].st /\ row'[x].rev = row[x].rev
      BY <2>2 DEF SameStamp
    <3>3. /\ sync.page[x].rev <= currentRev
          /\ sync.page[x].st # "absent" => sync.since < sync.page[x].rev
          /\ sync.page[x].st # "absent" /\ row[x].st # "absent" =>
                /\ sync.page[x].rev <= row[x].rev
                /\ sync.page[x].rev = row[x].rev =>
                      /\ sync.page[x].st = row[x].st
                      /\ sync.page[x].st = "live" => SameRow(sync.page[x], row[x])
      BY DEF SyncInv, PageIsOfVersions, Present, SameVersion
    <3> QED BY <1>1, <1>3, <3>1, <3>2, <3>3
  <2> QED BY <1>1, <2>1, <2>2 DEF RowMoves
<1>8. LockedAtZero'
  BY <1>0 DEF SyncInv, LockedAtZero
<1>9. TablesAgree'
  <2> SUFFICES ASSUME NEW x \in Ids \ suspect
               PROVE  AgreesNext(view, cursor, x) /\ AgreesNext(raw, cursor, x)
                      /\ AgreesNext(cache.rows, cache.cursor, x)
    BY <1>0 DEF TablesAgree, Agrees, AgreesNext
  <2>1. row[x] \in Row /\ RowMoves(x)
    BY <1>0, <1>1 DEF IInv, TypeOK
  <2>2. view \in [Ids -> Row] /\ raw \in [Ids -> Row] /\ cache.rows \in [Ids -> Row]
    BY <1>0 DEF SyncShape, TabShape
  <2>3. Agrees(view, cursor, x) /\ Agrees(raw, cursor, x) /\ Agrees(cache.rows, cache.cursor, x)
    BY DEF SyncInv, TablesAgree
  <2> QED BY <1>1, <1>2, <2>1, <2>2, <2>3, AgreesKept
<1>10. RunAgrees'
  <2> SUFFICES ASSUME InRun, NEW x \in Ids \ suspect
               PROVE  /\ AgreesNext(sync.byId, sync.since, x)
                      /\ unlocked => AgreesNext(raw, sync.since, x)
                      /\ unlocked /\ ~sync.changed => AgreesNext(view, sync.since, x)
                      /\ row'[x].st # "absent" /\ row'[x].rev <= cursor => row'[x].rev <= sync.since
    BY <1>0 DEF RunAgrees, InRun, Agrees, AgreesNext, Present
  <2>1. row'[x].st # "absent" /\ row'[x].rev <= cursor => row'[x].rev <= sync.since
    BY <1>1, <1>2, <1>m DEF SyncInv, RunAgrees, Present
  <2>2. row[x] \in Row /\ RowMoves(x)
    BY <1>0, <1>1 DEF IInv, TypeOK
  <2>3. view \in [Ids -> Row] /\ raw \in [Ids -> Row] /\ sync.byId \in [Ids -> Row]
    BY <1>0 DEF SyncShape, TabShape, RunShape
  <2>4. /\ Agrees(sync.byId, sync.since, x)
        /\ unlocked => Agrees(raw, sync.since, x)
        /\ unlocked /\ ~sync.changed => Agrees(view, sync.since, x)
    BY DEF SyncInv, RunAgrees
  <2> QED BY <1>1, <1>2, <2>1, <2>2, <2>3, <2>4, AgreesKept
<1>11. RunComplete'
  <2>1. sync.phase = "rows" => \A x \in Ids : row'[x].st # "absent" =>
          /\ x \in sync.todo => sync.since < row'[x].rev
          /\ sync.since < row'[x].rev /\ row'[x].rev <= sync.next
                => x \in sync.todo \cup suspect \/ SameVersion(sync.page[x], x)'
    <3> SUFFICES ASSUME sync.phase = "rows", NEW x \in Ids, row'[x].st # "absent"
                 PROVE  /\ x \in sync.todo => sync.since < row'[x].rev
                        /\ sync.since < row'[x].rev /\ row'[x].rev <= sync.next
                              => \/ x \in sync.todo \cup suspect
                                 \/ /\ sync.page[x].st = row'[x].st
                                    /\ sync.page[x].st = "live" => SameRow(sync.page[x], row'[x])
      BY <1>0 DEF SameVersion
    <3>1. Present(x) => /\ x \in sync.todo => sync.since < row[x].rev
                        /\ sync.since < row[x].rev /\ row[x].rev <= sync.next
                              => x \in sync.todo \cup suspect \/ SameVersion(sync.page[x], x)
      BY DEF SyncInv, RunComplete
    <3>2. CASE row'[x].rev > currentRev
      BY <1>1, <1>2, <3>2
    <3>3. CASE SameStamp(x)
      <4>1. SameRow(sync.page[x], row[x]) => SameRow(sync.page[x], row'[x])
        BY <1>0, <3>3 DEF SyncShape, RunShape, SameStamp
      <4>2. row'[x].st = row[x].st /\ row'[x].rev = row[x].rev
        BY <3>3 DEF SameStamp
      <4> QED BY <3>1, <4>1, <4>2 DEF Present, SameVersion
    <3> QED BY <1>1, <3>2, <3>3 DEF RowMoves
  <2>2. sync.phase = "group" => \A x \in Ids :
            row'[x].st # "absent" /\ sync.since < row'[x].rev /\ row'[x].rev <= sync.next
                => row'[x].rev = sync.next
    BY <1>1, <1>2, <1>m DEF SyncInv, RunComplete, Present
  <2> QED BY <1>0, <2>1, <2>2 DEF SyncInv, RunComplete, Present, Empty
<1>12. NewestEverywhere'
  <2>1. ASSUME NEW x \in Ids, NEW r \in {view[x], raw[x], cache.rows[x], sync.byId[x]}
        PROVE  (row'[x].st = "live" /\ r.st = "live" /\ r.rev = row'[x].rev)
               <=> /\ row'[x].st # "absent" /\ ~(row'[x].rev > currentRev)
                   /\ row[x].st = "live" /\ r.st = "live" /\ r.rev = row[x].rev
    <3>1. r.rev <= currentRev
      BY DEF SyncInv, CopiesAreVersions, Copies
    <3>2. r.rev \in Nat
      BY <1>0, BoundsAssumption DEF SyncShape, TabShape, RunShape, Row, Revs
    <3> QED BY <1>1, <1>m, <3>1, <3>2
  <2> QED BY <1>0, <2>1 DEF SyncInv, NewestEverywhere, InRun, Newest
<1> QED BY <1>1, <1>4, <1>5, <1>6, <1>7, <1>8, <1>9, <1>10, <1>11, <1>12

\* An answer under way stays true of what the server has.
LEMMA AnswerKept ==
    ASSUME SyncInv, [Next]_vars, UNCHANGED <<tab, sync, suspect, reply>>
    PROVE  SyncInv'
<1>0. /\ UNCHANGED <<unlocked, view, raw, cursor, cache, sync, suspect, reply>>
      /\ SyncShape /\ ReplyShape /\ IInv
  BY DEF tab, SyncInv
<1>1. /\ currentRev \in Nat /\ currentRev' \in Nat /\ currentRev <= currentRev'
      /\ \A x \in Ids : RowMoves(x) /\ row[x].rev <= currentRev /\ row'[x].rev <= currentRev'
                        /\ row[x].rev \in Nat /\ row'[x].rev \in Nat
  BY <1>0, ServerStep
<1>m. \A x \in Ids :
        \/ row'[x].st = "absent" \/ row'[x].rev > currentRev
        \/ row'[x].st = row[x].st /\ row'[x].rev = row[x].rev
  BY <1>1, RowMoveStamps
<1>2. ReplyShape'
  BY <1>0 DEF ReplyShape
<1>3. reply.row.rev \in Nat /\ (Answered(reply) => reply.id \in Ids)
  BY <1>0, BoundsAssumption DEF ReplyShape, Row, Revs, Answered
<1>4. ReplyIsVersion'
  <2> SUFFICES ASSUME Answered(reply)
               PROVE  /\ reply.row.st = "live" /\ reply.row.rev <= currentRev'
                      /\ row'[reply.id].st # "absent" =>
                            /\ reply.row.rev <= row'[reply.id].rev
                            /\ reply.row.rev = row'[reply.id].rev => SameRow(reply.row, row'[reply.id])
                      /\ \A y \in Ids \ {reply.id} : row'[y].st # "absent" => row'[y].rev # reply.row.rev
    BY <1>0 DEF ReplyIsVersion, Answered, Present
  <2> DEFINE x == reply.id
  <2>1. /\ reply.row.st = "live" /\ reply.row.rev <= currentRev /\ x \in Ids
        /\ Present(x) => /\ reply.row.rev <= row[x].rev
                         /\ reply.row.rev = row[x].rev => SameRow(reply.row, row[x])
        /\ \A y \in Ids \ {x} : Present(y) => row[y].rev # reply.row.rev
    BY <1>3 DEF SyncInv, ReplyIsVersion
  <2>2. \A y \in Ids \ {x} : row'[y].st # "absent" => row'[y].rev # reply.row.rev
    BY <1>1, <1>3, <1>m, <2>1 DEF Present
  <2>3. reply.row.rev <= currentRev'
    BY <1>1, <1>3, <2>1
  <2>4. CASE row'[x].st = "absent" \/ row'[x].rev > currentRev
    BY <1>1, <1>3, <2>1, <2>2, <2>3, <2>4
  <2>5. CASE SameStamp(x)
    <3>1. SameRow(reply.row, row[x]) => SameRow(reply.row, row'[x])
      BY <1>0, <2>1, <2>5 DEF ReplyShape, SameStamp
    <3>2. row'[x].st = row[x].st /\ row'[x].rev = row[x].rev
      BY <2>5 DEF SameStamp
    <3>3. row'[x].st # "absent" =>
              /\ reply.row.rev <= row'[x].rev
              /\ reply.row.rev = row'[x].rev => SameRow(reply.row, row'[x])
      BY <2>1, <3>1, <3>2 DEF Present
    <3> QED BY <2>1, <2>2, <2>3, <3>3
  <2> QED BY <1>1, <2>1, <2>4, <2>5 DEF RowMoves
<1>5. UpdatedIsHeld'
  <2> SUFFICES ASSUME NEW x \in Ids \ suspect, reply.kind = "update", reply.id = x,
                      row'[x].st # "absent", row'[x].rev = reply.row.rev
               PROVE  /\ cache.rows[x].st = "live"
                      /\ unlocked => view[x].st = "live" /\ raw[x].st = "live"
                      /\ unlocked /\ InRun => sync.byId[x].st = "live" /\ sync.page[x].st # "trashed"
    BY <1>0 DEF UpdatedIsHeld, InRun, Present
  <2>1. Present(x) /\ row[x].rev = reply.row.rev
    BY <1>1, <1>3, <1>m DEF SyncInv, ReplyIsVersion, Answered, Present
  <2> QED BY <2>1 DEF SyncInv, UpdatedIsHeld
<1> QED BY <1>2, <1>4, <1>5, TabKept DEF SyncInv

\* The tab writes one row; the answer holds the version it made.
LEMMA WriteSent ==
    ASSUME SyncInv, [Next]_vars, NEW x \in Ids, NEW kind \in {"create", "update"}, NEW f, NEW c,
           BumpRev, row' = [row EXCEPT ![x] = Stamped("live", f, c)], Send(kind, x),
           kind = "update" => OnScreen(x) /\ Live(x) /\ row[x].rev = view[x].rev
    PROVE  SyncInv'
<1>0. /\ UNCHANGED <<tab, sync, suspect>> /\ UNCHANGED <<unlocked, view, raw, cursor, cache>>
      /\ SyncShape /\ IInv /\ unlocked
      /\ reply' = [kind |-> kind, id |-> x, row |-> row'[x]]
  BY DEF tab, SyncInv, Send
<1>1. /\ currentRev \in Nat /\ currentRev' \in Nat /\ currentRev <= currentRev'
      /\ row \in [Ids -> Row] /\ row' \in [Ids -> Row]
      /\ \A y \in Ids : row[y].rev <= currentRev /\ row[y].rev \in Nat
  BY <1>0, ServerStep
<1>2. row'[x] = Stamped("live", f, c) /\ \A y \in Ids \ {x} : row'[y] = row[y]
  BY <1>1
<1>3. row'[x].st = "live" /\ row'[x].rev = currentRev + 1 /\ currentRev' = currentRev + 1
  BY <1>2 DEF Stamped, BumpRev, NextRev
<1>4. ReplyShape'
  BY <1>0, <1>1 DEF ReplyShape
<1>5. ReplyIsVersion'
  BY <1>0, <1>1, <1>2, <1>3 DEF ReplyIsVersion, Answered, Present, SameRow
<1>6. UpdatedIsHeld'
  <2> SUFFICES ASSUME x \notin suspect, kind = "update"
               PROVE  /\ cache.rows[x].st = "live" /\ view[x].st = "live" /\ raw[x].st = "live"
                      /\ InRun => sync.byId[x].st = "live" /\ sync.page[x].st # "trashed"
    BY <1>0 DEF UpdatedIsHeld, InRun
  <2>1. Newest(view[x], x) /\ row[x].st = "live" /\ view[x].rev = row[x].rev /\ view[x].st = "live"
    BY DEF OnScreen, Live, Newest
  <2>2. /\ raw[x].st = "live" /\ cache.rows[x].st = "live"
        /\ InRun => /\ sync.byId[x].st = "live"
                    /\ sync.page[x].st # "absent" => view[x].rev <= sync.page[x].rev
    BY <1>0, <2>1 DEF SyncInv, NewestEverywhere, Newest
  <2>3. sync.page[x].rev \in Nat
    BY <1>0, BoundsAssumption DEF SyncShape, TabShape, RunShape, Row, Revs
  <2>4. sync.page[x].st # "absent" => sync.page[x].rev <= row[x].rev
            /\ (sync.page[x].rev = row[x].rev => sync.page[x].st = row[x].st)
    BY <2>1 DEF SyncInv, PageIsOfVersions, Present, SameVersion
  <2> QED BY <1>1, <2>1, <2>2, <2>3, <2>4
<1> QED BY <1>0, <1>4, <1>5, <1>6, TabKept DEF SyncInv

\* A delete is sent.
LEMMA DeleteSent ==
    ASSUME SyncInv, [Next]_vars, NEW x \in Ids, Send("delete", x)
    PROVE  SyncInv'
<1>0. UNCHANGED <<tab, sync, suspect>> /\ reply' = [kind |-> "delete", id |-> x, row |-> row'[x]]
  BY DEF Send
<1>1. row' \in [Ids -> Row]
  BY ServerStep DEF SyncInv
<1>2. ReplyShape' /\ ReplyIsVersion' /\ UpdatedIsHeld'
  BY <1>0, <1>1 DEF ReplyShape, ReplyIsVersion, Answered, UpdatedIsHeld
<1> QED BY <1>0, <1>2, TabKept DEF SyncInv

\* The server's side of every step is a step of the server.
LEMMA SyncStepIsServerStep ==
    ASSUME SyncInv, [SyncNext]_allVars
    PROVE  [Next]_vars
<1>1. \A x \in Ids : view[x].rev \in Revs
  BY DEF SyncInv, SyncShape, TabShape, RunShape, Row
<1>2. ItemIds \subseteq Ids /\ FolderIds \subseteq Ids
  BY DEF Ids
<1>3. SendCreate => Next
  BY DEF SendCreate, Next, ItemWrite, FolderWrite
<1>4. SendUpdate => Next
  BY <1>1, <1>2 DEF SendUpdate, Next, ItemWrite, FolderWrite
<1>5. SendDelete => Next
  BY <1>1, <1>2 DEF SendDelete, Next, ItemWrite, FolderWrite
<1>6. Others => Next
  BY DEF Others, Next
<1> QED
  BY <1>3, <1>4, <1>5, <1>6
  DEF SyncNext, OwnWrite, SyncStep, Session, SyncBegin, ReadCursor, ReadStream, ReadGroup, ReadRow,
      DeliverPage, DeliverLast, SyncFail, Unlock, Lock, Reload, ApplyPut, ApplyDelete, LoseReply, allVars

-----------------------------------------------------------------------------
(* The tab's own steps.  The server does nothing in them. *)

LEMMA ServerKept ==
    ASSUME SyncInv, UNCHANGED vars
    PROVE  /\ IInv' /\ RevsPositive' /\ row' = row /\ currentRev' = currentRev
           /\ currentRev \in Nat /\ row \in [Ids -> Row]
           /\ \A x \in Ids : row[x].rev \in Nat /\ row[x].rev <= currentRev
                             /\ (Present(x) => row[x].rev > 0)
BY ServerStep DEF SyncInv, RevsPositive, Present, vars

\* A run goes on: its page has what it had, and rows as they are now.
LEMMA RunMoved ==
    ASSUME SyncInv, UNCHANGED <<vars, tab, reply>>, suspect \subseteq suspect', suspect' \subseteq Ids,
           InRun, InRun',
           sync'.since = sync.since, sync'.byId = sync.byId, sync'.changed = sync.changed,
           \A x \in Ids : \/ sync'.page[x] = sync.page[x]
                          \/ Present(x) /\ sync'.page[x] = row[x] /\ sync.since < row[x].rev,
           RunShape', RunComplete'
    PROVE  SyncInv'
<1>0. /\ UNCHANGED <<unlocked, view, raw, cursor, cache, reply>> /\ UNCHANGED <<row, currentRev>>
      /\ TabShape /\ ReplyShape /\ \A x \in Ids \ suspect' : x \in Ids \ suspect
  BY DEF tab, vars, SyncInv, SyncShape
<1>1. IInv' /\ RevsPositive' /\ currentRev \in Nat
      /\ \A x \in Ids : row[x].rev \in Nat /\ row[x].rev <= currentRev
  BY ServerKept
<1>2. SyncShape' /\ ReplyShape'
  BY <1>0 DEF SyncShape, TabShape, ReplyShape
<1>3. CopiesAreVersions'
  BY <1>0 DEF SyncInv, CopiesAreVersions, Copies, Present
<1>4. PageIsOfVersions'
  <2> SUFFICES ASSUME NEW x \in Ids
               PROVE  /\ sync'.page[x].rev <= currentRev
                      /\ sync'.page[x].st # "absent" => sync.since < sync'.page[x].rev
                      /\ sync'.page[x].st # "absent" /\ Present(x) =>
                            /\ sync'.page[x].rev <= row[x].rev
                            /\ sync'.page[x].rev = row[x].rev =>
                                  /\ sync'.page[x].st = row[x].st
                                  /\ sync'.page[x].st = "live" => SameRow(sync'.page[x], row[x])
    BY <1>0 DEF PageIsOfVersions, Present, SameVersion
  <2>1. CASE sync'.page[x] = sync.page[x]
    BY <2>1 DEF SyncInv, PageIsOfVersions, SameVersion
  <2>2. CASE Present(x) /\ sync'.page[x] = row[x] /\ sync.since < row[x].rev
    BY <1>1, <2>2 DEF SameRow
  <2> QED BY <2>1, <2>2
<1>5. ReplyIsVersion' /\ LockedAtZero' /\ TablesAgree'
  <2>1. suspect = Ids => suspect' = Ids
    OBVIOUS
  <2>2. LockedAtZero'
    BY <1>0, <2>1 DEF SyncInv, LockedAtZero
  <2> QED BY <1>0, <2>2 DEF SyncInv, ReplyIsVersion, Answered, Present, TablesAgree, Agrees
<1>6. RunAgrees'
  BY <1>0 DEF SyncInv, RunAgrees, Agrees, Present
<1>7. NewestEverywhere'
  <2> SUFFICES ASSUME unlocked, NEW x \in Ids \ suspect',
                      sync'.page[x].st # "absent", view[x].st # "absent"
               PROVE  view[x].rev <= sync'.page[x].rev
    BY <1>0 DEF SyncInv, NewestEverywhere, Newest
  <2>1. view[x] \in Row /\ view[x].st # "trashed"
    BY <1>0 DEF TabShape, SyncInv, CopiesAreVersions, Copies
  <2>2. view[x].st = "live"
    BY <2>1 DEF Row
  <2>3. CASE sync'.page[x] = sync.page[x]
    BY <1>0, <2>3 DEF SyncInv, NewestEverywhere
  <2>4. CASE Present(x) /\ sync'.page[x] = row[x]
    BY <2>2, <2>4 DEF SyncInv, CopiesAreVersions, Copies
  <2> QED BY <2>3, <2>4
<1>8. UpdatedIsHeld'
  <2> SUFFICES ASSUME NEW x \in Ids \ suspect', reply.kind = "update", reply.id = x, Present(x),
                      row[x].rev = reply.row.rev, unlocked
               PROVE  sync'.page[x].st # "trashed"
    BY <1>0 DEF SyncInv, UpdatedIsHeld, Present
  <2>1. row[x].st = "live"
    <3>1. reply.row \in Row /\ row[x] \in Row
      BY <1>0 DEF ReplyShape, SyncInv, IInv, TypeOK
    <3> QED BY <3>1, SameRowFields DEF SyncInv, ReplyIsVersion, Answered
  <2>2. sync.page[x].st # "trashed"
    BY <1>0 DEF SyncInv, UpdatedIsHeld
  <2> QED BY <2>1, <2>2
<1> QED BY <1>1, <1>2, <1>3, <1>4, <1>5, <1>6, <1>7, <1>8 DEF SyncInv

\* A run's record, whole.
LEMMA RunTyped ==
    ASSUME UNCHANGED currentRev,
           NEW phase \in {"idle", "cursor", "stream", "group", "rows"},
           NEW since \in 0 .. currentRev, NEW byId \in [Ids -> Row], NEW changed \in BOOLEAN,
           NEW current \in 0 .. currentRev, NEW todo \in SUBSET Ids, NEW page \in [Ids -> Row],
           NEW next \in 0 .. currentRev, NEW more \in BOOLEAN,
           sync' = [phase |-> phase, since |-> since, byId |-> byId, changed |-> changed,
                    current |-> current, todo |-> todo, page |-> page, next |-> next, more |-> more]
    PROVE  RunShape'
<1>1. /\ sync'.phase = phase /\ sync'.since = since /\ sync'.byId = byId /\ sync'.changed = changed
      /\ sync'.current = current /\ sync'.todo = todo /\ sync'.page = page /\ sync'.next = next
      /\ sync'.more = more
  OBVIOUS
<1> QED BY <1>1 DEF RunShape

LEMMA RunFields ==
    ASSUME RunShape, currentRev \in Nat
    PROVE  /\ sync.since \in 0 .. currentRev /\ sync.current \in 0 .. currentRev
           /\ sync.next \in 0 .. currentRev /\ currentRev \in 0 .. currentRev /\ 0 \in 0 .. currentRev
           /\ sync.byId \in [Ids -> Row] /\ sync.page \in [Ids -> Row] /\ sync.todo \in SUBSET Ids
           /\ sync.changed \in BOOLEAN /\ sync.more \in BOOLEAN
BY DEF RunShape

LEMMA ReadCursorKeeps == ASSUME SyncInv, ReadCursor PROVE SyncInv'
<1>0. /\ sync' = [sync EXCEPT !.phase = "stream", !.current = currentRev]
      /\ sync.phase = "cursor" /\ UNCHANGED <<vars, tab, reply, suspect>> /\ UNCHANGED vars
      /\ RunShape /\ RunComplete
  BY DEF ReadCursor, SyncInv, SyncShape
<1>1. currentRev' = currentRev /\ row' = row /\ currentRev \in Nat
  BY <1>0, ServerKept
<1>2. sync' = [phase |-> "stream", since |-> sync.since, byId |-> sync.byId,
               changed |-> sync.changed, current |-> currentRev, todo |-> sync.todo,
               page |-> sync.page, next |-> sync.next, more |-> sync.more]
  BY <1>0 DEF RunShape
<1>3. RunShape'
  <2>1. /\ "stream" \in {"idle", "cursor", "stream", "group", "rows"}
        /\ sync.since \in 0 .. currentRev /\ sync.next \in 0 .. currentRev
        /\ currentRev \in 0 .. currentRev /\ UNCHANGED currentRev
        /\ sync.byId \in [Ids -> Row] /\ sync.page \in [Ids -> Row] /\ sync.todo \in SUBSET Ids
        /\ sync.changed \in BOOLEAN /\ sync.more \in BOOLEAN
    BY <1>0, <1>1, RunFields
  <2> QED BY <1>2, <2>1, RunTyped
<1>4. RunComplete'
  BY <1>0, <1>1, <1>2 DEF RunComplete, Empty
<1>5. /\ suspect \subseteq suspect' /\ suspect' \subseteq Ids /\ InRun /\ InRun'
      /\ UNCHANGED <<vars, tab, reply>>
  BY <1>0, <1>2 DEF SyncInv, SyncShape, TabShape, InRun
<1> QED BY <1>2, <1>3, <1>4, <1>5, RunMoved

LEMMA ReadStreamKeeps == ASSUME SyncInv, ReadStream PROVE SyncInv'
<1> DEFINE stream     == Changed(row, sync.since)
           IsGroup(p) == /\ Cardinality(stream) > Limit
                         /\ p.cursor = OverflowRev(row, stream, Limit)
           Rest(p)    == sync.current > p.cursor
<1>0. PICK p \in SyncPages(row, sync.current, sync.since, Limit) :
          sync' = [sync EXCEPT !.phase = IF IsGroup(p) THEN "group" ELSE "rows",
                               !.todo = IF IsGroup(p) THEN {} ELSE p.ids,
                               !.current = 0, !.next = p.cursor,
                               !.more = IF IsGroup(p) THEN Rest(p) ELSE p.more]
  BY DEF ReadStream
<1> DEFINE isGroup == IsGroup(p)
           phase   == IF isGroup THEN "group" ELSE "rows"
           todo    == IF isGroup THEN {} ELSE p.ids
           more    == IF isGroup THEN Rest(p) ELSE p.more
<1>1. /\ sync.phase = "stream" /\ UNCHANGED <<vars, tab, reply, suspect>>
      /\ sync' = [sync EXCEPT !.phase = phase, !.todo = todo,
                              !.current = 0, !.next = p.cursor, !.more = more]
      /\ RunShape /\ RunComplete /\ IInv
  BY <1>0 DEF ReadStream, SyncInv, SyncShape
<1>2. /\ row' = row /\ currentRev' = currentRev /\ currentRev \in Nat /\ Limit \in Nat
      /\ sync.since \in Nat /\ sync.current \in Nat /\ sync.current <= currentRev
  BY <1>1, ServerKept, RunFields, SyncAssumption DEF vars
<1>3. /\ p.cursor \in Nat /\ p.cursor <= currentRev /\ p.more \in BOOLEAN /\ p.ids \subseteq stream
      /\ ~isGroup => /\ \A x \in stream : row[x].rev <= p.cursor => x \in p.ids
                     /\ p.more => sync.since < p.cursor
      /\ isGroup => /\ sync.since < p.cursor
                    /\ \A x \in stream : row[x].rev <= p.cursor => row[x].rev = p.cursor
  BY <1>1, <1>2, PageCovers
<1>4. stream \subseteq Ids
      /\ \A x \in Ids : x \in stream <=> Present(x) /\ row[x].rev > sync.since
  BY DEF Changed, Present
<1>5. Rest(p) \in BOOLEAN
  BY <1>2, <1>3
<1> HIDE DEF stream, IsGroup, Rest, isGroup
<1>6. /\ phase \in {"group", "rows"} /\ todo \in SUBSET Ids /\ p.cursor \in 0 .. currentRev
      /\ more \in BOOLEAN /\ (more => sync.since < p.cursor)
      /\ phase = "group" => isGroup /\ todo = {}
      /\ phase = "rows" => ~isGroup /\ todo = p.ids
  BY <1>2, <1>3, <1>4, <1>5 DEF isGroup
<1> HIDE DEF phase, todo, more
<1>7. sync' = [phase |-> phase, since |-> sync.since, byId |-> sync.byId,
               changed |-> sync.changed, current |-> 0, todo |-> todo,
               page |-> sync.page, next |-> p.cursor, more |-> more]
  BY <1>1 DEF RunShape
<1>8. RunShape'
  <2>1. phase \in {"idle", "cursor", "stream", "group", "rows"}
    BY <1>6
  <2>2. /\ sync.since \in 0 .. currentRev /\ 0 \in 0 .. currentRev /\ sync.byId \in [Ids -> Row]
        /\ sync.page \in [Ids -> Row] /\ sync.changed \in BOOLEAN /\ UNCHANGED currentRev
    BY <1>1, <1>2, RunFields
  <2> QED BY <1>6, <1>7, <2>1, <2>2, RunTyped
<1>9. RunComplete'
  <2>1. sync.page = Empty /\ sync.todo = {}
    BY <1>1 DEF RunComplete
  <2>2. sync'.page = Empty /\ Empty' = Empty
    BY <1>7, <2>1 DEF Empty
  <2>3. /\ sync'.phase = phase /\ sync'.todo = todo /\ sync'.since = sync.since
        /\ sync'.next = p.cursor /\ sync'.more = more /\ \A x \in Ids : Present(x)' = Present(x)
    BY <1>2, <1>7 DEF Present
  <2>4. CASE phase = "group"
    BY <1>2, <1>3, <1>4, <1>6, <2>2, <2>3, <2>4 DEF RunComplete
  <2>5. CASE phase = "rows"
    BY <1>2, <1>3, <1>4, <1>6, <2>2, <2>3, <2>5 DEF RunComplete
  <2> QED BY <1>6, <2>4, <2>5
<1>10. /\ InRun /\ InRun' /\ UNCHANGED <<vars, tab, reply>>
       /\ suspect \subseteq suspect' /\ suspect' \subseteq Ids
       /\ sync'.since = sync.since /\ sync'.byId = sync.byId /\ sync'.changed = sync.changed
       /\ sync'.page = sync.page
  BY <1>1, <1>6, <1>7 DEF InRun, SyncInv, SyncShape, TabShape
<1> QED BY <1>8, <1>9, <1>10, RunMoved

LEMMA ReadGroupKeeps == ASSUME SyncInv, ReadGroup PROVE SyncInv'
<1> DEFINE group == {x \in Ids : row[x].st # "absent" /\ row[x].rev = sync.next}
<1>0. PICK G \in GroupReads(group) :
          /\ sync' = [sync EXCEPT !.phase = "rows", !.todo = G, !.more = @ \/ G # group]
          /\ suspect' = suspect \cup (group \ G)
  BY DEF ReadGroup
<1> DEFINE more == sync.more \/ G # group
<1>1. /\ sync.phase = "group" /\ UNCHANGED <<vars, tab, reply>>
      /\ RunShape /\ RunComplete
  BY DEF ReadGroup, SyncInv, SyncShape
<1>2. row' = row /\ currentRev' = currentRev /\ currentRev \in Nat
      /\ \A x \in Ids : row[x].rev \in Nat
  BY <1>1, ServerKept
<1>3. sync' = [phase |-> "rows", since |-> sync.since, byId |-> sync.byId,
               changed |-> sync.changed, current |-> sync.current, todo |-> G,
               page |-> sync.page, next |-> sync.next, more |-> more]
  BY <1>0, <1>1 DEF RunShape
<1>4. /\ G \subseteq group /\ group \in SUBSET Ids /\ more \in BOOLEAN
      /\ \A x \in Ids : x \in group <=> Present(x) /\ row[x].rev = sync.next
  <2>1. group \in SUBSET Ids /\ \A x \in Ids : x \in group <=> Present(x) /\ row[x].rev = sync.next
    BY DEF Present
  <2>2. Cardinality(group) \in Nat
    BY <2>1, IdsAssumption, FS_Subset, FS_CardinalityType
  <2>3. G \subseteq group
    BY <2>2, GroupReadsWhole
  <2> HIDE DEF group
  <2> QED BY <1>1, <2>1, <2>3 DEF RunShape
<1> HIDE DEF group, more
<1>5. RunShape'
  <2>1. /\ sync.since \in 0 .. currentRev /\ sync.current \in 0 .. currentRev
        /\ sync.next \in 0 .. currentRev
        /\ sync.byId \in [Ids -> Row] /\ sync.page \in [Ids -> Row]
        /\ sync.changed \in BOOLEAN /\ G \in SUBSET Ids /\ UNCHANGED currentRev
    BY <1>1, <1>2, <1>4, RunFields
  <2> QED BY <1>3, <1>4, <2>1, RunTyped
<1>6. RunComplete'
  <2>1. /\ sync'.phase = "rows" /\ sync'.todo = G /\ sync'.since = sync.since
        /\ sync'.next = sync.next
        /\ \A x \in Ids : Present(x)' = Present(x)
    BY <1>2, <1>3 DEF Present
  <2>2. sync.since < sync.next
        /\ \A x \in Ids : Present(x) /\ sync.since < row[x].rev /\ row[x].rev <= sync.next
                              => row[x].rev = sync.next
    BY <1>1 DEF RunComplete
  <2>3. \A x \in group : x \in G \cup suspect'
    BY <1>0
  <2> QED BY <1>2, <1>4, <2>1, <2>2, <2>3 DEF RunComplete
<1>7. /\ InRun /\ InRun' /\ sync'.since = sync.since /\ sync'.byId = sync.byId
      /\ sync'.changed = sync.changed /\ sync'.page = sync.page
      /\ suspect \subseteq suspect' /\ suspect' \subseteq Ids
  BY <1>0, <1>1, <1>3, <1>4 DEF InRun, SyncInv, SyncShape, TabShape
<1> QED BY <1>1, <1>5, <1>6, <1>7, RunMoved

LEMMA ReadRowKeeps == ASSUME SyncInv, ReadRow PROVE SyncInv'
<1>1. PICK x \in sync.todo :
          /\ Present(x)
          /\ sync' = [sync EXCEPT !.todo = @ \ {x}, !.page = [@ EXCEPT ![x] = row[x]]]
  BY DEF ReadRow, Present
<1>2. /\ sync.phase = "rows" /\ UNCHANGED <<vars, tab, reply, suspect>>
      /\ RunShape /\ RunComplete
  BY DEF ReadRow, SyncInv, SyncShape
<1>3. row' = row /\ currentRev' = currentRev /\ currentRev \in Nat /\ row \in [Ids -> Row]
      /\ \A y \in Ids : row[y].rev \in Nat
  BY <1>2, ServerKept
<1> DEFINE todo == sync.todo \ {x}
           page == [sync.page EXCEPT ![x] = row[x]]
<1>4. sync' = [phase |-> sync.phase, since |-> sync.since, byId |-> sync.byId,
               changed |-> sync.changed, current |-> sync.current, todo |-> todo,
               page |-> page, next |-> sync.next, more |-> sync.more]
  BY <1>1, <1>2 DEF RunShape
<1>5. x \in Ids /\ todo \in SUBSET Ids /\ page \in [Ids -> Row] /\ page[x] = row[x]
      /\ \A y \in Ids \ {x} : page[y] = sync.page[y] /\ (y \in todo <=> y \in sync.todo)
  BY <1>1, <1>2, <1>3, RunFields
<1> HIDE DEF todo, page
<1>6. RunShape'
  BY <1>2, <1>3, <1>4, <1>5, RunTyped, RunFields
<1>7. RunComplete'
  <2>1. /\ sync'.phase = "rows" /\ sync'.todo = todo /\ sync'.since = sync.since /\ sync'.page = page
        /\ sync'.next = sync.next /\ sync'.more = sync.more
    BY <1>2, <1>4
  <2>2. \A y \in Ids : Present(y)' = Present(y)
    BY <1>3 DEF Present
  <2>3. \A y \in Ids : Present(y) =>
          /\ y \in todo => sync.since < row[y].rev
          /\ sync.since < row[y].rev /\ row[y].rev <= sync.next
                => \/ y \in todo \cup suspect
                   \/ page[y].st = row[y].st /\ (page[y].st = "live" => SameRow(page[y], row[y]))
    <3>1. \A y \in Ids \ {x} : Present(y) =>
            /\ y \in todo => sync.since < row[y].rev
            /\ sync.since < row[y].rev /\ row[y].rev <= sync.next
                  => \/ y \in todo \cup suspect
                     \/ page[y].st = row[y].st /\ (page[y].st = "live" => SameRow(page[y], row[y]))
      BY <1>2, <1>5 DEF RunComplete, SameVersion
    <3>2. x \notin todo
      BY DEF todo
    <3>3. SameRow(row[x], row[x])
      BY DEF SameRow
    <3> QED BY <1>5, <3>1, <3>2, <3>3
  <2>4. sync.more => sync.since < sync.next
    BY <1>2 DEF RunComplete
  <2> QED BY <1>2, <1>3, <2>1, <2>2, <2>3, <2>4 DEF RunComplete, SameVersion
<1>8. sync.since < row[x].rev
  BY <1>1, <1>2, <1>5 DEF RunComplete
<1>9. InRun /\ InRun' /\ sync'.since = sync.since /\ sync'.byId = sync.byId
      /\ sync'.changed = sync.changed /\ sync'.page = page
      /\ suspect \subseteq suspect' /\ suspect' \subseteq Ids /\ UNCHANGED <<vars, tab, reply>>
  BY <1>2, <1>4 DEF InRun, SyncInv, SyncShape, TabShape
<1> QED BY <1>1, <1>5, <1>6, <1>7, <1>8, <1>9, RunMoved

\* What does not change in a step of the tab.
LEMMA ServerSays ==
    ASSUME UNCHANGED vars
    PROVE  /\ row' = row /\ currentRev' = currentRev /\ \A x \in Ids : Present(x)' = Present(x)
           /\ \A t : Copies(t)' = Copies(t)
           /\ \A t, c, x : Agrees(t, c, x)' = Agrees(t, c, x)
           /\ \A r, x : SameVersion(r, x)' = SameVersion(r, x)
           /\ \A r, x : Newest(r, x)' = Newest(r, x)
           /\ Empty' = Empty
BY DEF vars, Present, Copies, Agrees, SameRow, SameVersion, Newest, Empty

LEMMA EmptyTable ==
    ASSUME SyncInv
    PROVE  /\ Absent \in Row /\ Empty \in [Ids -> Row] /\ Copies(Empty)
           /\ \A x \in Ids : Empty[x] = Absent /\ Agrees(Empty, 0, x)
           /\ currentRev \in Nat /\ 0 \in 0 .. currentRev
           /\ Absent.st = "absent" /\ Absent.rev = 0
<1>1. Absent \in Row /\ Absent.st = "absent" /\ Absent.rev = 0
  BY BoundsAssumption DEF Absent, Row, Revs
<1>2. Empty \in [Ids -> Row] /\ \A x \in Ids : Empty[x] = Absent
  BY <1>1 DEF Empty
<1>3. currentRev \in Nat /\ \A x \in Ids : row[x].rev \in Nat /\ (Present(x) => row[x].rev > 0)
  BY BoundsAssumption DEF SyncInv, IInv, TypeOK, Row, Revs, RevsPositive
<1>4. Copies(Empty)
  BY <1>1, <1>2, <1>3 DEF Copies
<1>5. \A x \in Ids : Agrees(Empty, 0, x)
  BY <1>3 DEF Agrees, Present
<1> QED BY <1>1, <1>2, <1>3, <1>4, <1>5

\* A run that is over, or dropped, says nothing any more.
LEMMA RunOver ==
    ASSUME SyncInv, UNCHANGED vars, sync' = IdleSync
    PROVE  RunShape' /\ Copies(sync.byId)' /\ PageIsOfVersions' /\ RunAgrees' /\ RunComplete' /\ ~InRun'
<1>1. /\ sync'.phase = "idle" /\ sync'.since = 0 /\ sync'.byId = Empty /\ sync'.changed = FALSE
      /\ sync'.current = 0 /\ sync'.todo = {} /\ sync'.page = Empty /\ sync'.next = 0 /\ sync'.more = FALSE
      /\ UNCHANGED currentRev
  BY DEF IdleSync, vars
<1>2. RunShape'
  BY <1>1, EmptyTable, RunTyped DEF IdleSync
<1>3. Copies(sync.byId)' /\ Empty' = Empty
  BY <1>1, EmptyTable, ServerSays
<1>4. PageIsOfVersions'
  BY <1>1, EmptyTable DEF PageIsOfVersions
<1>5. ~InRun' /\ RunAgrees' /\ RunComplete'
  BY <1>1, <1>3 DEF InRun, RunAgrees, RunComplete
<1> QED BY <1>2, <1>3, <1>4, <1>5

LEMMA SyncFailKeeps == ASSUME SyncInv, SyncFail PROVE SyncInv'
<1>0. /\ UNCHANGED vars /\ UNCHANGED <<unlocked, view, raw, cursor, cache, reply, suspect>>
      /\ sync' = IdleSync
  BY DEF SyncFail, tab
<1>1. IInv' /\ RevsPositive' /\ RunShape' /\ Copies(sync.byId)' /\ PageIsOfVersions' /\ RunAgrees' /\ RunComplete' /\ ~InRun'
  BY <1>0, RunOver, ServerKept
<1>2. SyncShape' /\ ReplyShape'
  BY <1>0, <1>1, ServerSays DEF SyncInv, SyncShape, TabShape, ReplyShape
<1>3. CopiesAreVersions'
  BY <1>0, <1>1, ServerSays DEF SyncInv, CopiesAreVersions
<1>4. ReplyIsVersion' /\ LockedAtZero' /\ TablesAgree'
  BY <1>0, ServerSays DEF SyncInv, ReplyIsVersion, Answered, Present, LockedAtZero, TablesAgree
<1>5. NewestEverywhere' /\ UpdatedIsHeld'
  BY <1>0, <1>1, ServerSays DEF SyncInv, NewestEverywhere, UpdatedIsHeld, Present
<1> QED BY <1>1, <1>2, <1>3, <1>4, <1>5 DEF SyncInv

LEMMA SyncBeginKeeps == ASSUME SyncInv, SyncBegin PROVE SyncInv'
<1>0. /\ UNCHANGED vars /\ UNCHANGED <<unlocked, view, raw, cursor, cache, reply, suspect>>
      /\ sync' = [IdleSync EXCEPT !.phase = "cursor", !.since = cursor, !.byId = view]
      /\ unlocked /\ TabShape
  BY DEF SyncBegin, tab, SyncInv, SyncShape
<1>1. IInv' /\ RevsPositive' /\ row' = row /\ currentRev' = currentRev /\ currentRev \in Nat
  BY <1>0, ServerKept
<1>2. sync' = [phase |-> "cursor", since |-> cursor, byId |-> view, changed |-> FALSE,
               current |-> 0, todo |-> {}, page |-> Empty, next |-> 0, more |-> FALSE]
  BY <1>0 DEF IdleSync
<1>3. RunShape'
  <2>1. cursor \in 0 .. currentRev /\ view \in [Ids -> Row] /\ {} \in SUBSET Ids
    BY <1>0 DEF TabShape
  <2> QED BY <1>1, <1>2, <2>1, EmptyTable, RunTyped
<1>4. SyncShape' /\ ReplyShape'
  BY <1>0, <1>3, ServerSays DEF SyncInv, SyncShape, TabShape, ReplyShape
<1>5. CopiesAreVersions'
  BY <1>0, <1>2, ServerSays DEF SyncInv, CopiesAreVersions
<1>6. PageIsOfVersions' /\ RunComplete'
  BY <1>1, <1>2, EmptyTable, ServerSays DEF PageIsOfVersions, RunComplete
<1>7. ReplyIsVersion' /\ LockedAtZero' /\ TablesAgree'
  BY <1>0, ServerSays DEF SyncInv, ReplyIsVersion, Answered, Present, LockedAtZero, TablesAgree
<1>8. RunAgrees'
  BY <1>0, <1>1, <1>2, ServerSays DEF SyncInv, RunAgrees, TablesAgree
<1>9. NewestEverywhere' /\ UpdatedIsHeld'
  <2>1. \A x \in Ids : sync'.page[x].st = "absent"
    BY <1>2, EmptyTable
  <2> QED BY <1>0, <1>1, <1>2, <2>1, ServerSays DEF SyncInv, NewestEverywhere, UpdatedIsHeld, Present
<1> QED BY <1>1, <1>4, <1>5, <1>6, <1>7, <1>8, <1>9 DEF SyncInv

\* A merge puts versions of the server's into a table.
LEMMA MergedCopies ==
    ASSUME SyncInv, NEW table \in [Ids -> Row], Copies(table)
    PROVE  Merged(table, sync.page) \in [Ids -> Row] /\ Copies(Merged(table, sync.page))
<1>1. sync.page \in [Ids -> Row]
  BY DEF SyncInv, SyncShape, RunShape
<1>2. Merged(table, sync.page) \in [Ids -> Row]
  BY <1>1, EmptyTable DEF Merged
<1>3. ASSUME NEW x \in Ids, sync.page[x].st = "live" PROVE
         sync.page[x].rev <= currentRev
         /\ (Present(x) => /\ sync.page[x].rev <= row[x].rev
                           /\ sync.page[x].rev = row[x].rev => SameRow(sync.page[x], row[x]))
  BY <1>3 DEF SyncInv, PageIsOfVersions, SameVersion
<1>4. ASSUME NEW x \in Ids, sync.page[x].st # "absent", sync.page[x].st # "trashed"
      PROVE  sync.page[x].st = "live"
  BY <1>1, <1>4 DEF Row
<1>5. \A x \in Ids : Merged(table, sync.page)[x]
                       = IF sync.page[x].st = "absent" THEN table[x]
                         ELSE IF sync.page[x].st = "trashed" THEN Absent ELSE sync.page[x]
  BY DEF Merged
<1> QED BY <1>2, <1>3, <1>4, <1>5, EmptyTable DEF Copies

\* A whole page takes a table from the run's cursor to the next.
LEMMA MergedAgrees ==
    ASSUME SyncInv, PageArrived, NEW x \in Ids \ suspect, NEW table, Agrees(table, sync.since, x)
    PROVE  Agrees(Merged(table, sync.page), sync.next, x)
<1>1. Merged(table, sync.page)[x]
        = IF sync.page[x].st = "absent" THEN table[x]
          ELSE IF sync.page[x].st = "trashed" THEN Absent ELSE sync.page[x]
  BY DEF Merged
<1> HIDE DEF Merged
<1> DEFINE merged == Merged(table, sync.page)[x]
<1> SUFFICES ASSUME Present(x), row[x].rev <= sync.next
             PROVE  IF row[x].st = "live" THEN SameRow(merged, row[x]) ELSE merged = Absent
  BY DEF Agrees, Present
<1>2. /\ sync.since \in Nat /\ row[x].rev \in Nat /\ row[x] \in Row /\ sync.page[x].rev \in Nat
      /\ sync.page[x] \in Row
  BY BoundsAssumption DEF SyncInv, SyncShape, RunShape, IInv, TypeOK, Row, Revs
<1>3. CASE row[x].rev <= sync.since
  <2>1. sync.page[x].st = "absent"
    BY <1>2, <1>3 DEF SyncInv, PageIsOfVersions
  <2>2. merged = table[x]
    BY <1>1, <2>1
  <2> HIDE DEF merged
  <2> QED BY <1>3, <2>2 DEF Agrees, Present
<1>4. CASE sync.since < row[x].rev
  <2>1. SameVersion(sync.page[x], x)
    BY <1>4 DEF PageArrived, SyncInv, RunComplete
  <2>2. row[x].st \in {"live", "trashed"}
    BY <1>2 DEF Present, Row
  <2>3. CASE row[x].st = "live"
    <3>1. SameRow(sync.page[x], row[x]) /\ merged = sync.page[x]
      BY <1>1, <2>1, <2>3 DEF SameVersion
    <3> HIDE DEF merged
    <3> QED BY <2>3, <3>1
  <2>4. CASE row[x].st = "trashed"
    BY <1>1, <2>1, <2>4 DEF SameVersion
  <2> QED BY <2>2, <2>3, <2>4
<1> QED BY <1>2, <1>3, <1>4

\* A page holds nothing the run's cursor has passed.
LEMMA MergedLeaves ==
    ASSUME SyncInv, NEW x \in Ids, NEW table, Present(x), row[x].rev <= sync.since
    PROVE  Merged(table, sync.page)[x] = table[x]
<1>1. /\ sync.since \in Nat /\ row[x].rev \in Nat /\ sync.page[x].rev \in Nat
  BY BoundsAssumption DEF SyncInv, SyncShape, RunShape, IInv, TypeOK, Row, Revs
<1>2. sync.page[x].st = "absent"
  BY <1>1 DEF SyncInv, PageIsOfVersions
<1> QED BY <1>2 DEF Merged

\* A page that has a row the tab shows in its newest version has that version.
LEMMA NewestPage ==
    ASSUME SyncInv, unlocked, InRun, NEW x \in Ids \ suspect, Newest(view[x], x),
           sync.page[x].st # "absent"
    PROVE  Newest(sync.page[x], x)
<1>1. sync.page[x].rev \in Nat /\ row[x].rev \in Nat
  BY BoundsAssumption DEF SyncInv, SyncShape, RunShape, IInv, TypeOK, Row, Revs
<1>2. view[x].rev <= sync.page[x].rev
  BY DEF SyncInv, NewestEverywhere, Newest
<1>3. sync.page[x].rev <= row[x].rev /\ (sync.page[x].rev = row[x].rev => sync.page[x].st = row[x].st)
  BY DEF SyncInv, PageIsOfVersions, SameVersion, Present, Newest
<1> QED BY <1>1, <1>2, <1>3 DEF Newest

LEMMA DeliverPageKeeps == ASSUME SyncInv, DeliverPage PROVE SyncInv'
<1> DEFINE rows == Merged(raw, sync.page)
           byId == Merged(sync.byId, sync.page)
           changed == sync.changed \/ sync.page # Empty
<1>0. /\ UNCHANGED vars /\ UNCHANGED <<unlocked, view, cursor, cache, reply, suspect>>
      /\ raw' = rows
      /\ sync' = [IdleSync EXCEPT !.phase = "cursor", !.since = sync.next, !.byId = byId, !.changed = changed]
      /\ PageArrived /\ sync.more /\ TabShape /\ RunShape /\ InRun
  BY DEF DeliverPage, SyncInv, SyncShape, PageArrived, InRun
<1>1. IInv' /\ RevsPositive' /\ row' = row /\ currentRev' = currentRev /\ currentRev \in Nat
      /\ \A x \in Ids : row[x].rev \in Nat
  BY <1>0, ServerKept
<1>2. rows \in [Ids -> Row] /\ Copies(rows) /\ byId \in [Ids -> Row] /\ Copies(byId)
  BY <1>0, MergedCopies DEF SyncInv, CopiesAreVersions, TabShape, RunShape
<1>3. ASSUME NEW x \in Ids \ suspect
      PROVE  /\ Agrees(byId, sync.next, x)
             /\ unlocked => Agrees(rows, sync.next, x)
             /\ Agrees(rows, cursor, x)
             /\ Present(x) /\ row[x].rev <= cursor => row[x].rev <= sync.next
  <2>1. /\ Agrees(sync.byId, sync.since, x) /\ (unlocked => Agrees(raw, sync.since, x))
        /\ Agrees(raw, cursor, x)
        /\ Present(x) /\ row[x].rev <= cursor => row[x].rev <= sync.since
    BY <1>0 DEF SyncInv, RunAgrees, TablesAgree
  <2>2. sync.since < sync.next /\ sync.since \in Nat /\ sync.next \in Nat
    BY <1>0 DEF SyncInv, RunComplete, PageArrived, RunShape
  <2>3. Agrees(rows, cursor, x)
    BY <2>1, MergedLeaves DEF Agrees, Present
  <2> QED BY <1>0, <1>1, <2>1, <2>2, <2>3, MergedAgrees
<1>4. ASSUME NEW x \in Ids
      PROVE  /\ rows[x] = IF sync.page[x].st = "absent" THEN raw[x]
                          ELSE IF sync.page[x].st = "trashed" THEN Absent ELSE sync.page[x]
             /\ byId[x] = IF sync.page[x].st = "absent" THEN sync.byId[x]
                          ELSE IF sync.page[x].st = "trashed" THEN Absent ELSE sync.page[x]
             /\ ~changed => sync.page[x].st = "absent"
  BY EmptyTable DEF Merged
<1>5. changed \in BOOLEAN /\ (~changed => ~sync.changed)
  BY <1>0 DEF RunShape
<1> HIDE DEF rows, byId, changed
<1>6. sync' = [phase |-> "cursor", since |-> sync.next, byId |-> byId, changed |-> changed,
               current |-> 0, todo |-> {}, page |-> Empty, next |-> 0, more |-> FALSE]
  BY <1>0 DEF IdleSync
<1>7. RunShape'
  <2>1. sync.next \in 0 .. currentRev /\ {} \in SUBSET Ids
    BY <1>0, <1>1, RunFields
  <2> QED BY <1>1, <1>2, <1>5, <1>6, <2>1, EmptyTable, RunTyped
<1>8. SyncShape' /\ ReplyShape'
  BY <1>0, <1>2, <1>7, ServerSays DEF SyncInv, SyncShape, TabShape, ReplyShape
<1>9. CopiesAreVersions'
  BY <1>0, <1>2, <1>6, ServerSays DEF SyncInv, CopiesAreVersions
<1>10. PageIsOfVersions' /\ RunComplete'
  BY <1>1, <1>6, EmptyTable, ServerSays DEF PageIsOfVersions, RunComplete
<1>11. ReplyIsVersion' /\ LockedAtZero' /\ TablesAgree'
  BY <1>0, <1>3, ServerSays DEF SyncInv, ReplyIsVersion, Answered, Present, LockedAtZero, TablesAgree
<1>12. RunAgrees'
  <2>1. ASSUME NEW x \in Ids \ suspect, unlocked, ~changed PROVE Agrees(view, sync.next, x)
    <3>1. Agrees(view, sync.since, x)
      BY <1>0, <1>5, <2>1 DEF SyncInv, RunAgrees
    <3>2. Agrees(Merged(view, sync.page), sync.next, x)
      BY <1>0, <3>1, MergedAgrees
    <3>3. Merged(view, sync.page)[x] = view[x]
      BY <1>4, <2>1 DEF Merged
    <3> QED BY <3>2, <3>3 DEF Agrees
  <2> QED BY <1>0, <1>1, <1>3, <1>6, <2>1, ServerSays DEF RunAgrees
<1>13. NewestEverywhere'
  <2> SUFFICES ASSUME unlocked, NEW x \in Ids \ suspect
               PROVE  /\ Newest(view[x], x) => /\ Newest(rows[x], x) /\ Newest(cache.rows[x], x)
                                               /\ Newest(byId[x], x)
                      /\ Newest(byId[x], x) => Newest(rows[x], x)
    <3>1. \A x \in Ids : sync'.page[x].st = "absent"
      BY <1>6, EmptyTable
    <3> QED BY <1>0, <1>1, <1>6, <3>1 DEF NewestEverywhere, Newest
  <2>1. Newest(view[x], x) => Newest(raw[x], x) /\ Newest(cache.rows[x], x) /\ Newest(sync.byId[x], x)
    BY <1>0 DEF SyncInv, NewestEverywhere
  <2>2. Newest(sync.byId[x], x) => Newest(raw[x], x)
    BY <1>0 DEF SyncInv, NewestEverywhere
  <2>3. ~Newest(Absent, x)
    BY EmptyTable DEF Newest
  <2>4. Newest(view[x], x) /\ sync.page[x].st # "absent" => Newest(sync.page[x], x)
    BY <1>0, NewestPage
  <2>5. Newest(sync.page[x], x) => sync.page[x].st = "live"
    BY DEF Newest
  <2> QED BY <1>4, <2>1, <2>2, <2>3, <2>4, <2>5
<1>14. UpdatedIsHeld'
  <2> SUFFICES ASSUME NEW x \in Ids \ suspect, reply.kind = "update", reply.id = x, Present(x),
                      row[x].rev = reply.row.rev, unlocked
               PROVE  rows[x].st = "live" /\ byId[x].st = "live"
    <3>1. \A x \in Ids : sync'.page[x].st = "absent"
      BY <1>6, EmptyTable
    <3> QED BY <1>0, <1>1, <1>6, <3>1, ServerSays DEF SyncInv, UpdatedIsHeld
  <2>1. raw[x].st = "live" /\ sync.byId[x].st = "live" /\ sync.page[x].st # "trashed"
    BY <1>0 DEF SyncInv, UpdatedIsHeld
  <2>2. sync.page[x].st \in {"absent", "live", "trashed"}
    BY <1>0 DEF RunShape, Row
  <2> QED BY <1>4, <2>1, <2>2
<1> QED BY <1>1, <1>8, <1>9, <1>10, <1>11, <1>12, <1>13, <1>14 DEF SyncInv

LEMMA DeliverLastKeeps == ASSUME SyncInv, DeliverLast PROVE SyncInv'
<1> DEFINE rows    == Merged(raw, sync.page)
           byId    == Merged(sync.byId, sync.page)
           changed == sync.changed \/ sync.page # Empty
           shown   == IF changed THEN byId ELSE view
<1>0. /\ UNCHANGED vars /\ UNCHANGED <<unlocked, reply>>
      /\ raw' = rows /\ view' = shown /\ cursor' = sync.next
      /\ cache' = [rows |-> rows, cursor |-> sync.next]
      /\ sync' = IdleSync /\ suspect' = IF unlocked THEN suspect ELSE Ids
      /\ PageArrived /\ TabShape /\ RunShape /\ InRun
  BY DEF DeliverLast, SyncInv, SyncShape, PageArrived, InRun
<1>1. /\ IInv' /\ RevsPositive' /\ RunShape' /\ Copies(sync.byId)' /\ PageIsOfVersions' /\ RunAgrees'
      /\ RunComplete' /\ ~InRun' /\ row' = row /\ currentRev' = currentRev /\ currentRev \in Nat
      /\ \A x \in Ids : row[x].rev \in Nat
  BY <1>0, RunOver, ServerKept
<1>2. rows \in [Ids -> Row] /\ Copies(rows) /\ shown \in [Ids -> Row] /\ Copies(shown)
  BY <1>0, MergedCopies DEF SyncInv, CopiesAreVersions, TabShape, RunShape
<1>3. ASSUME NEW x \in Ids
      PROVE  /\ rows[x] = IF sync.page[x].st = "absent" THEN raw[x]
                          ELSE IF sync.page[x].st = "trashed" THEN Absent ELSE sync.page[x]
             /\ byId[x] = IF sync.page[x].st = "absent" THEN sync.byId[x]
                          ELSE IF sync.page[x].st = "trashed" THEN Absent ELSE sync.page[x]
             /\ ~changed => sync.page[x].st = "absent" /\ Merged(view, sync.page)[x] = view[x]
  BY EmptyTable DEF Merged
<1>4. ASSUME NEW x \in Ids \ suspect, unlocked
      PROVE  Agrees(rows, sync.next, x) /\ Agrees(shown, sync.next, x)
  <2>1. Agrees(rows, sync.next, x)
    BY <1>0, <1>4, MergedAgrees DEF SyncInv, RunAgrees
  <2>2. CASE changed
    BY <1>0, <2>1, <2>2, MergedAgrees DEF SyncInv, RunAgrees
  <2>3. CASE ~changed
    <3>1. Agrees(view, sync.since, x)
      BY <1>0, <1>4, <2>3 DEF SyncInv, RunAgrees
    <3>2. Agrees(Merged(view, sync.page), sync.next, x)
      BY <1>0, <3>1, MergedAgrees
    <3>3. Merged(view, sync.page)[x] = view[x] /\ shown = view
      BY <1>3, <2>3
    <3>4. Agrees(view, sync.next, x)
      BY <3>2, <3>3 DEF Agrees
    <3> QED BY <2>1, <3>3, <3>4
  <2> QED BY <2>2, <2>3
<1>5. (unlocked /\ suspect' = suspect) \/ (~unlocked /\ suspect' = Ids)
  BY <1>0 DEF TabShape
<1>6. ASSUME NEW x \in Ids \ suspect, unlocked
      PROVE  /\ Newest(shown[x], x) => Newest(rows[x], x)
             /\ reply.kind = "update" /\ reply.id = x /\ Present(x) /\ row[x].rev = reply.row.rev =>
                    rows[x].st = "live" /\ shown[x].st = "live"
  <2>1. /\ Newest(view[x], x) => Newest(raw[x], x)
        /\ Newest(sync.byId[x], x) => Newest(raw[x], x)
    BY <1>0, <1>6 DEF SyncInv, NewestEverywhere
  <2>2. reply.kind = "update" /\ reply.id = x /\ Present(x) /\ row[x].rev = reply.row.rev =>
           /\ view[x].st = "live" /\ raw[x].st = "live"
           /\ sync.byId[x].st = "live" /\ sync.page[x].st # "trashed"
    BY <1>0, <1>6 DEF SyncInv, UpdatedIsHeld
  <2>3. sync.page[x].st \in {"absent", "live", "trashed"}
    BY <1>0 DEF RunShape, Row
  <2>4. Absent.st = "absent" /\ (shown[x] = IF changed THEN byId[x] ELSE view[x])
    BY EmptyTable
  <2> HIDE DEF rows, byId, changed, shown
  <2>5. ~Newest(Absent, x) /\ (Newest(sync.page[x], x) => sync.page[x].st = "live")
    BY EmptyTable DEF Newest
  <2> QED BY <1>3, <2>1, <2>2, <2>3, <2>4, <2>5
<1> HIDE DEF rows, byId, changed, shown
<1>7. SyncShape' /\ ReplyShape'
  <2>1. sync.next \in 0 .. currentRev
    BY <1>0, <1>1, RunFields
  <2> QED BY <1>0, <1>1, <1>2, <1>5, <2>1 DEF SyncInv, SyncShape, TabShape, ReplyShape
<1>8. CopiesAreVersions'
  BY <1>0, <1>1, <1>2, ServerSays DEF CopiesAreVersions
<1>9. ReplyIsVersion' /\ LockedAtZero'
  BY <1>0, <1>5, ServerSays DEF SyncInv, ReplyIsVersion, Answered, Present, LockedAtZero
<1>10. TablesAgree' /\ NewestEverywhere' /\ UpdatedIsHeld'
  <2>1. CASE unlocked /\ suspect' = suspect
    <3>1. TablesAgree'
      BY <1>0, <1>4, <2>1, ServerSays DEF TablesAgree
    <3> QED BY <1>0, <1>1, <1>6, <2>1, <3>1, ServerSays DEF NewestEverywhere, UpdatedIsHeld
  <2>2. CASE ~unlocked /\ suspect' = Ids
    <3>1. Ids \ suspect' = {}
      BY <2>2
    <3> QED BY <3>1 DEF TablesAgree, NewestEverywhere, UpdatedIsHeld
  <2> QED BY <1>5, <2>1, <2>2
<1> QED BY <1>1, <1>7, <1>8, <1>9, <1>10 DEF SyncInv

LEMMA UnlockKeeps == ASSUME SyncInv, Unlock PROVE SyncInv'
<1>0. /\ UNCHANGED vars /\ UNCHANGED <<cache, sync, reply, suspect>>
      /\ unlocked' = TRUE /\ view' = cache.rows /\ raw' = cache.rows /\ cursor' = cache.cursor
      /\ ~InRun /\ TabShape /\ RunShape
  BY DEF Unlock, HydrateFromCache, SyncInv, SyncShape, InRun
<1>1. IInv' /\ RevsPositive' /\ row' = row /\ currentRev' = currentRev
  BY <1>0, ServerKept
<1>2. SyncShape' /\ ReplyShape' /\ CopiesAreVersions'
  <2>1. SyncShape'
    BY <1>0, <1>1 DEF SyncShape, TabShape, RunShape
  <2> QED BY <1>0, <2>1, ServerSays DEF SyncInv, ReplyShape, CopiesAreVersions
<1>3. PageIsOfVersions' /\ RunComplete' /\ RunAgrees' /\ ~InRun'
  BY <1>0, <1>1, ServerSays DEF SyncInv, PageIsOfVersions, RunComplete, RunAgrees, InRun
<1>4. ReplyIsVersion' /\ LockedAtZero' /\ TablesAgree'
  BY <1>0, ServerSays DEF SyncInv, ReplyIsVersion, Answered, Present, LockedAtZero, TablesAgree
<1>5. NewestEverywhere' /\ UpdatedIsHeld'
  BY <1>0, <1>1, <1>3, ServerSays DEF SyncInv, NewestEverywhere, UpdatedIsHeld
<1> QED BY <1>1, <1>2, <1>3, <1>4, <1>5 DEF SyncInv

\* A tab that is locked or closed shows nothing and has seen nothing.
LEMMA EmptiedTab ==
    ASSUME SyncInv, UNCHANGED <<vars, cache, suspect>>,
           unlocked' = FALSE, view' = Empty, raw' = Empty, cursor' = 0,
           reply' = NoReply \/ reply' = reply,
           RunShape', Copies(sync.byId)', PageIsOfVersions', RunAgrees', RunComplete'
    PROVE  SyncInv'
<1>1. IInv' /\ RevsPositive' /\ UNCHANGED vars /\ row' = row /\ currentRev' = currentRev
  BY ServerKept DEF vars
<1>2. SyncShape'
  BY <1>1, EmptyTable DEF SyncInv, SyncShape, TabShape
<1>3. ReplyShape' /\ ReplyIsVersion'
  <2>1. CASE reply' = NoReply
    BY <2>1, EmptyTable DEF NoReply, ReplyShape, ReplyIsVersion, Answered
  <2>2. CASE reply' = reply
    BY <1>1, <2>2, ServerSays DEF SyncInv, ReplyShape, ReplyIsVersion, Answered, Present
  <2> QED BY <2>1, <2>2
<1>4. CopiesAreVersions' /\ TablesAgree' /\ LockedAtZero'
  BY <1>1, EmptyTable, ServerSays DEF SyncInv, CopiesAreVersions, TablesAgree, LockedAtZero
<1>5. NewestEverywhere'
  BY DEF NewestEverywhere
<1>6. UpdatedIsHeld'
  BY <1>1, ServerSays DEF SyncInv, UpdatedIsHeld, NoReply
<1> QED BY <1>1, <1>2, <1>3, <1>4, <1>5, <1>6 DEF SyncInv

LEMMA LockKeeps == ASSUME SyncInv, Lock PROVE SyncInv'
<1>1. /\ UNCHANGED vars /\ UNCHANGED <<cache, sync, suspect>>
      /\ unlocked' = FALSE /\ view' = Empty /\ raw' = Empty /\ cursor' = 0
      /\ reply' = NoReply \/ reply' = reply
  BY DEF Lock
<1>2. RunShape' /\ Copies(sync.byId)' /\ PageIsOfVersions' /\ RunComplete'
  <2>1. currentRev' = currentRev
    BY <1>1, ServerSays
  <2> QED BY <1>1, <2>1, ServerSays
      DEF SyncInv, SyncShape, RunShape, CopiesAreVersions, PageIsOfVersions, RunComplete
<1>3. RunAgrees'
  <2>1. \A x \in Ids : Present(x) => ~(row[x].rev <= 0)
    BY <1>1, ServerKept
  <2> QED BY <1>1, <2>1, ServerSays DEF SyncInv, RunAgrees, InRun
<1> QED BY <1>1, <1>2, <1>3, EmptiedTab

LEMMA ReloadKeeps == ASSUME SyncInv, Reload PROVE SyncInv'
BY RunOver, EmptiedTab DEF Reload

\* The answer is dropped; nothing else rests on it.
LEMMA LoseReplyKeeps == ASSUME SyncInv, LoseReply PROVE SyncInv'
<1>0. UNCHANGED vars /\ UNCHANGED <<unlocked, view, raw, cursor, cache, sync, suspect>> /\ reply' = NoReply
  BY DEF LoseReply, tab
<1>1. IInv' /\ RevsPositive' /\ row' = row /\ currentRev' = currentRev
  BY <1>0, ServerKept
<1>2. SyncShape' /\ CopiesAreVersions' /\ PageIsOfVersions'
  BY <1>0, <1>1, ServerSays DEF SyncInv, SyncShape, TabShape, RunShape, CopiesAreVersions, PageIsOfVersions
<1>3. ReplyShape' /\ ReplyIsVersion' /\ UpdatedIsHeld'
  BY <1>0, EmptyTable DEF NoReply, ReplyShape, ReplyIsVersion, Answered, UpdatedIsHeld
<1>4. LockedAtZero' /\ TablesAgree' /\ RunAgrees' /\ RunComplete' /\ NewestEverywhere'
  BY <1>0, <1>1, ServerSays DEF SyncInv, LockedAtZero, TablesAgree, RunAgrees, InRun, RunComplete, NewestEverywhere
<1> QED BY <1>1, <1>2, <1>3, <1>4 DEF SyncInv

LEMMA ApplyPutKeeps == ASSUME SyncInv, ApplyPut PROVE SyncInv'
<1> DEFINE x == reply.id
           r == reply.row
           rows == [raw EXCEPT ![x] = r]
           shown == IF reply.kind = "create" \/ OnScreen(x) THEN [view EXCEPT ![x] = r] ELSE view
<1>0. /\ UNCHANGED vars /\ UNCHANGED <<unlocked, sync>>
      /\ raw' = rows /\ view' = shown /\ cursor' = r.rev /\ cache' = [rows |-> rows, cursor |-> r.rev]
      /\ suspect' = suspect \cup SkippedBy(x, r.rev) /\ reply' = NoReply
      /\ Answered(reply) /\ TabShape /\ RunShape /\ ReplyShape
  BY DEF ApplyPut, Answered, SyncInv, SyncShape
<1>1. /\ IInv' /\ RevsPositive' /\ row' = row /\ currentRev' = currentRev /\ currentRev \in Nat
      /\ \A y \in Ids : row[y].rev \in Nat
  BY <1>0, ServerKept
<1>2. /\ x \in Ids /\ r \in Row /\ r.st = "live" /\ r.rev <= currentRev /\ r.rev \in Nat
      /\ Present(x) => r.rev <= row[x].rev /\ (r.rev = row[x].rev => SameRow(r, row[x]))
      /\ \A y \in Ids \ {x} : Present(y) => row[y].rev # r.rev
  BY <1>0, BoundsAssumption DEF ReplyShape, Answered, SyncInv, ReplyIsVersion, Row, Revs
<1>3. /\ rows[x] = r /\ \A y \in Ids \ {x} : rows[y] = raw[y] /\ shown[y] = view[y]
      /\ shown[x] = (IF reply.kind = "create" \/ OnScreen(x) THEN r ELSE view[x])
      /\ rows \in [Ids -> Row] /\ shown \in [Ids -> Row]
  BY <1>0, <1>2 DEF TabShape
<1>4. Copies(rows) /\ Copies(shown)
  <2>1. Copies(raw) /\ Copies(view)
    BY DEF SyncInv, CopiesAreVersions
  <2> HIDE DEF rows, shown, x, r
  <2> QED BY <1>2, <1>3, <2>1 DEF Copies
<1>5. (~unlocked /\ Ids \ suspect' = {})
      \/ /\ unlocked
         /\ \A y \in Ids \ suspect' : y \notin suspect /\ (y = x => ~InRun)
                /\ (y # x => ~(cursor < row[y].rev /\ row[y].rev < r.rev))
  BY <1>0 DEF TabShape, SkippedBy, InRun
<1>6. ASSUME unlocked, NEW y \in Ids \ suspect, y = x, ~InRun
      PROVE  /\ Agrees(rows, r.rev, y) /\ Agrees(shown, r.rev, y)
             /\ Newest(shown[y], y) => Newest(rows[y], y)
  <2>1. Present(x) /\ row[x].rev <= r.rev =>
            SameRow(r, row[x]) /\ row[x].rev = r.rev /\ row[x].st = "live"
    <3>1. row[x] \in Row
      BY <1>2 DEF SyncInv, IInv, TypeOK
    <3> HIDE DEF x, r
    <3> QED BY <1>1, <1>2, <3>1, SameRowFields
  <2>2. Present(x) /\ row[x].rev = r.rev /\ reply.kind = "update" => view[x].st = "live"
    BY <1>6 DEF SyncInv, UpdatedIsHeld
  <2>3. reply.kind = "create" \/ reply.kind = "update"
    BY <1>0 DEF Answered
  <2>4. Present(x) /\ row[x].rev <= r.rev => shown[x] = r
    BY <1>3, <2>1, <2>2, <2>3 DEF OnScreen
  <2>5. shown[x] = r \/ shown[x].st # "live"
    BY <1>3 DEF OnScreen
  <2> HIDE DEF rows, shown, x, r
  <2>6. Agrees(rows, r.rev, x) /\ Agrees(shown, r.rev, x)
    BY <1>3, <2>1, <2>4 DEF Agrees, Present
  <2>7. Newest(shown[x], x) => Newest(rows[x], x)
    BY <1>3, <2>5 DEF Newest
  <2> QED BY <1>6, <2>6, <2>7
<1>7. ASSUME unlocked, NEW y \in Ids \ suspect, y # x, ~(cursor < row[y].rev /\ row[y].rev < r.rev)
      PROVE  /\ Agrees(rows, r.rev, y) /\ Agrees(shown, r.rev, y)
             /\ Present(y) /\ row[y].rev <= r.rev => row[y].rev <= cursor
  <2>1. cursor \in Nat
    BY <1>0, <1>1 DEF TabShape
  <2>2. Present(y) /\ row[y].rev <= r.rev => row[y].rev <= cursor
    BY <1>1, <1>2, <1>7, <2>1
  <2>3. Agrees(raw, cursor, y) /\ Agrees(view, cursor, y)
    BY <1>7 DEF SyncInv, TablesAgree
  <2> HIDE DEF rows, shown, x, r
  <2> QED BY <1>3, <1>7, <2>2, <2>3 DEF Agrees, Present
<1> HIDE DEF rows, shown
<1>8. SyncShape' /\ ReplyShape'
  <2>1. r.rev \in 0 .. currentRev /\ suspect' \subseteq Ids
    BY <1>0, <1>1, <1>2 DEF TabShape, SkippedBy
  <2>2. ReplyShape'
    BY <1>0, EmptyTable DEF ReplyShape, NoReply
  <2>3. RunShape'
    BY <1>0, <1>1 DEF RunShape
  <2> HIDE DEF x, r
  <2> QED BY <1>0, <1>1, <1>3, <2>1, <2>2, <2>3 DEF SyncShape, TabShape
<1>9. CopiesAreVersions' /\ PageIsOfVersions' /\ RunComplete'
  <2> HIDE DEF x, r
  <2>1. CopiesAreVersions'
    BY <1>0, <1>4, ServerSays DEF SyncInv, CopiesAreVersions
  <2> QED BY <1>0, <1>1, <2>1, ServerSays DEF SyncInv, PageIsOfVersions, RunComplete
<1>10. ReplyIsVersion' /\ UpdatedIsHeld'
  BY <1>0 DEF NoReply, ReplyIsVersion, Answered, UpdatedIsHeld
<1>11. ASSUME ~unlocked, Ids \ suspect' = {}
       PROVE  LockedAtZero' /\ TablesAgree' /\ RunAgrees' /\ NewestEverywhere'
  <2>1. suspect' = Ids
    BY <1>8, <1>11 DEF SyncShape, TabShape
  <2> QED BY <2>1 DEF LockedAtZero, TablesAgree, RunAgrees, NewestEverywhere
<1>12. ASSUME unlocked,
              \A y \in Ids \ suspect' : y \notin suspect /\ (y = x => ~InRun)
                /\ (y # x => ~(cursor < row[y].rev /\ row[y].rev < r.rev))
       PROVE  LockedAtZero' /\ TablesAgree' /\ RunAgrees' /\ NewestEverywhere'
  <2>1. ASSUME NEW y \in Ids \ suspect'
        PROVE  Agrees(rows, r.rev, y) /\ Agrees(shown, r.rev, y)
    BY <1>6, <1>7, <1>12, <2>1
  <2>2. LockedAtZero' /\ TablesAgree'
    <3> HIDE DEF x, r
    <3> QED BY <1>0, <1>12, <2>1, ServerSays DEF LockedAtZero, TablesAgree
  <2>3. RunAgrees'
    <3>1. ASSUME InRun, NEW y \in Ids \ suspect'
          PROVE  /\ Agrees(sync.byId, sync.since, y) /\ Agrees(rows, sync.since, y)
                 /\ ~sync.changed => Agrees(shown, sync.since, y)
                 /\ Present(y) /\ row[y].rev <= r.rev => row[y].rev <= sync.since
      <4>1. y \notin suspect /\ y # x /\ ~(cursor < row[y].rev /\ row[y].rev < r.rev)
        BY <1>12, <3>1
      <4>2. /\ Agrees(sync.byId, sync.since, y) /\ Agrees(raw, sync.since, y)
            /\ ~sync.changed => Agrees(view, sync.since, y)
            /\ Present(y) /\ row[y].rev <= cursor => row[y].rev <= sync.since
        BY <1>12, <3>1, <4>1 DEF SyncInv, RunAgrees
      <4>3. Present(y) /\ row[y].rev <= r.rev => row[y].rev <= cursor
        BY <1>7, <1>12, <4>1
      <4> HIDE DEF x, r
      <4> QED BY <1>3, <4>1, <4>2, <4>3 DEF Agrees
    <3> HIDE DEF x, r
    <3> QED BY <1>0, <1>1, <3>1, ServerSays DEF RunAgrees, InRun
  <2>4. NewestEverywhere'
    <3> SUFFICES ASSUME NEW y \in Ids \ suspect'
                 PROVE  /\ Newest(shown[y], y) =>
                              Newest(rows[y], y) /\ (InRun => Newest(sync.byId[y], y))
                        /\ InRun /\ Newest(sync.byId[y], y) => Newest(rows[y], y)
                        /\ InRun /\ sync.page[y].st # "absent" /\ shown[y].st # "absent"
                              => shown[y].rev <= sync.page[y].rev
      <4> HIDE DEF x, r
      <4> QED BY <1>0, <1>1 DEF NewestEverywhere, InRun, Newest
    <3>1. CASE y = x
      BY <1>6, <1>12, <3>1
    <3>2. CASE y # x
      <4>1. shown[y] = view[y] /\ rows[y] = raw[y] /\ y \notin suspect
        BY <1>3, <1>12, <3>2
      <4> HIDE DEF x, r
      <4> QED BY <1>12, <4>1 DEF SyncInv, NewestEverywhere
    <3> QED BY <3>1, <3>2
  <2> QED BY <2>2, <2>3, <2>4
<1> QED
  <2>1. LockedAtZero' /\ TablesAgree' /\ RunAgrees' /\ NewestEverywhere'
    BY <1>5, <1>11, <1>12
  <2> QED BY <1>1, <1>8, <1>9, <1>10, <2>1 DEF SyncInv

LEMMA ApplyDeleteKeeps == ASSUME SyncInv, ApplyDelete PROVE SyncInv'
<1> DEFINE x == reply.id
           rows == [raw EXCEPT ![x] = Absent]
           shown == [view EXCEPT ![x] = Absent]
<1>0. /\ UNCHANGED vars /\ UNCHANGED <<unlocked, cursor, sync>>
      /\ raw' = rows /\ view' = shown /\ cache' = [rows |-> rows, cursor |-> cursor]
      /\ suspect' = suspect \cup {y \in {x} : RestoredMeanwhile(y)} /\ reply' = NoReply
      /\ reply.kind = "delete" /\ TabShape /\ RunShape /\ ReplyShape
  BY DEF ApplyDelete, SyncInv, SyncShape
<1>1. /\ IInv' /\ RevsPositive' /\ row' = row /\ currentRev' = currentRev /\ currentRev \in Nat
      /\ \A y \in Ids : row[y].rev \in Nat
  BY <1>0, ServerKept
<1>2. x \in Ids /\ cursor \in Nat
  BY <1>0, <1>1 DEF ReplyShape, TabShape
<1>3. /\ rows[x] = Absent /\ shown[x] = Absent
      /\ \A y \in Ids \ {x} : rows[y] = raw[y] /\ shown[y] = view[y]
      /\ rows \in [Ids -> Row] /\ shown \in [Ids -> Row]
  BY <1>0, <1>2, EmptyTable DEF TabShape
<1>4. Copies(rows) /\ Copies(shown)
  <2>1. Copies(raw) /\ Copies(view)
    BY DEF SyncInv, CopiesAreVersions
  <2> HIDE DEF rows, shown, x
  <2> QED BY <1>1, <1>3, <2>1, EmptyTable DEF Copies
<1>5. suspect \subseteq suspect' /\ suspect' \subseteq Ids
      /\ (x \notin suspect' /\ row[x].st = "live" => ~(row[x].rev <= cursor) /\ ~InRun)
  BY <1>0, <1>2 DEF TabShape, RestoredMeanwhile, InRun
<1> HIDE DEF x, rows, shown
<1>6. SyncShape' /\ ReplyShape'
  <2>1. ReplyShape'
    BY <1>0, EmptyTable DEF ReplyShape, NoReply
  <2> QED BY <1>0, <1>1, <1>3, <1>5, <2>1 DEF SyncShape, TabShape, RunShape
<1>7. CopiesAreVersions' /\ PageIsOfVersions' /\ RunComplete'
  <2>1. CopiesAreVersions'
    BY <1>0, <1>4, ServerSays DEF SyncInv, CopiesAreVersions
  <2> QED BY <1>0, <1>1, <2>1, ServerSays DEF SyncInv, PageIsOfVersions, RunComplete
<1>8. ReplyIsVersion' /\ UpdatedIsHeld'
  BY <1>0 DEF NoReply, ReplyIsVersion, Answered, UpdatedIsHeld
<1>9. LockedAtZero'
  BY <1>0, <1>5 DEF SyncInv, LockedAtZero
<1>10. ASSUME NEW y \in Ids \ suspect'
       PROVE  /\ Agrees(rows, cursor, y) /\ Agrees(shown, cursor, y)
              /\ InRun => /\ Agrees(sync.byId, sync.since, y)
                          /\ unlocked => Agrees(rows, sync.since, y)
                          /\ unlocked /\ ~sync.changed => Agrees(shown, sync.since, y)
                          /\ Present(y) /\ row[y].rev <= cursor => row[y].rev <= sync.since
  <2>1. /\ Agrees(raw, cursor, y) /\ Agrees(view, cursor, y)
        /\ InRun => /\ Agrees(sync.byId, sync.since, y)
                    /\ unlocked => Agrees(raw, sync.since, y)
                    /\ unlocked /\ ~sync.changed => Agrees(view, sync.since, y)
                    /\ Present(y) /\ row[y].rev <= cursor => row[y].rev <= sync.since
    BY <1>5 DEF SyncInv, TablesAgree, RunAgrees
  <2>2. CASE y = x
    BY <1>3, <1>5, <2>1, <2>2 DEF Agrees
  <2>3. CASE y # x
    BY <1>3, <2>1, <2>3 DEF Agrees
  <2> QED BY <2>2, <2>3
<1>11. TablesAgree' /\ RunAgrees'
  BY <1>0, <1>1, <1>10, ServerSays DEF TablesAgree, RunAgrees, InRun
<1>12. NewestEverywhere'
  <2> SUFFICES ASSUME unlocked, NEW y \in Ids \ suspect'
               PROVE  /\ Newest(shown[y], y) =>
                            Newest(rows[y], y) /\ (InRun => Newest(sync.byId[y], y))
                      /\ InRun /\ Newest(sync.byId[y], y) => Newest(rows[y], y)
                      /\ InRun /\ sync.page[y].st # "absent" /\ shown[y].st # "absent"
                            => shown[y].rev <= sync.page[y].rev
    BY <1>0, <1>1 DEF NewestEverywhere, InRun, Newest
  <2>1. CASE y = x
    <3>1. rows[x] = Absent /\ shown[x] = Absent /\ ~Newest(Absent, x)
      BY <1>3, EmptyTable DEF Newest
    <3>2. InRun => row[x].st # "live"
      BY <1>5, <2>1
    <3> QED BY <2>1, <3>1, <3>2, EmptyTable DEF Newest
  <2>2. CASE y # x
    <3>1. shown[y] = view[y] /\ rows[y] = raw[y] /\ y \notin suspect
      BY <1>3, <1>5, <2>2
    <3> QED BY <3>1 DEF SyncInv, NewestEverywhere
  <2> QED BY <2>1, <2>2
<1> QED BY <1>1, <1>6, <1>7, <1>8, <1>9, <1>11, <1>12 DEF SyncInv

LEMMA SendCreateKeeps == ASSUME SyncInv, [Next]_vars, SendCreate PROVE SyncInv'
<1>1. ASSUME NEW i \in ItemIds, NEW f \in FolderIds \cup {NoFolder}, CreateItem(i, f), Send("create", i)
      PROVE  SyncInv'
  <2>1. BumpRev /\ row' = [row EXCEPT ![i] = Stamped("live", f, NextRev)] /\ i \in Ids
    BY <1>1 DEF CreateItem, Ids
  <2> QED BY <1>1, <2>1, WriteSent
<1>2. ASSUME NEW f \in FolderIds, CreateFolder(f), Send("create", f)
      PROVE  SyncInv'
  <2>1. BumpRev /\ row' = [row EXCEPT ![f] = Stamped("live", NoFolder, NextRev)] /\ f \in Ids
    BY <1>2 DEF CreateFolder, Ids
  <2> QED BY <1>2, <2>1, WriteSent
<1> QED BY <1>1, <1>2 DEF SendCreate

LEMMA SendUpdateKeeps == ASSUME SyncInv, [Next]_vars, SendUpdate PROVE SyncInv'
<1>1. ASSUME NEW i \in ItemIds, NEW f \in FolderIds \cup {NoFolder},
             OnScreen(i), UpdateItem(i, f, view[i].rev), Send("update", i)
      PROVE  SyncInv'
  <2>1. BumpRev /\ row' = [row EXCEPT ![i] = Stamped("live", f, NextRev)] /\ i \in Ids
        /\ Live(i) /\ row[i].rev = view[i].rev
    BY <1>1 DEF UpdateItem, Ids
  <2> QED BY <1>1, <2>1, WriteSent
<1>2. ASSUME NEW i \in ItemIds, NEW s \in history[i],
             OnScreen(i), RestoreItemRevision(i, s, view[i].rev), Send("update", i)
      PROVE  SyncInv'
  <2>1. BumpRev /\ row' = [row EXCEPT ![i] = Stamped("live", UsableFolder(s.folder), s.content)] /\ i \in Ids
        /\ Live(i) /\ row[i].rev = view[i].rev
    BY <1>2 DEF RestoreItemRevision, Ids
  <2> QED BY <1>2, <2>1, WriteSent
<1>3. ASSUME NEW f \in FolderIds, OnScreen(f), UpdateFolder(f, view[f].rev), Send("update", f)
      PROVE  SyncInv'
  <2>1. BumpRev /\ row' = [row EXCEPT ![f] = Stamped("live", NoFolder, NextRev)] /\ f \in Ids
        /\ Live(f) /\ row[f].rev = view[f].rev
    BY <1>3 DEF UpdateFolder, Ids
  <2> QED BY <1>3, <2>1, WriteSent
<1> QED BY <1>1, <1>2, <1>3 DEF SendUpdate

LEMMA SyncInvInit == SyncInit => SyncInv
<1> SUFFICES ASSUME SyncInit PROVE SyncInv
  OBVIOUS
<1>1. IInv /\ currentRev = 0 /\ row = [x \in Ids |-> Absent]
  BY IInvInit DEF SyncInit, Init
<1>2. /\ unlocked = FALSE /\ view = Empty /\ raw = Empty /\ cursor = 0
      /\ cache = [rows |-> Empty, cursor |-> 0] /\ sync = IdleSync /\ reply = NoReply /\ suspect = {}
  BY DEF SyncInit
<1>3. Absent \in Row /\ Absent.st = "absent" /\ Absent.rev = 0 /\ 0 \in 0 .. currentRev
  BY <1>1, BoundsAssumption DEF Absent, Row, Revs
<1>4. Empty \in [Ids -> Row] /\ \A x \in Ids : Empty[x] = Absent /\ ~Present(x)
  BY <1>1, <1>3 DEF Empty, Present
<1>5. RevsPositive
  BY <1>4 DEF RevsPositive
<1>6. SyncShape
  BY <1>2, <1>3, <1>4 DEF SyncShape, TabShape, RunShape, IdleSync
<1>7. ReplyShape
  BY <1>2, <1>3 DEF ReplyShape, NoReply
<1>8. CopiesAreVersions
  <2>1. Copies(Empty)
    BY <1>1, <1>3, <1>4 DEF Copies
  <2> QED BY <1>2, <2>1 DEF CopiesAreVersions, IdleSync
<1>9. PageIsOfVersions
  BY <1>1, <1>2, <1>3, <1>4 DEF PageIsOfVersions, IdleSync
<1>10. ReplyIsVersion /\ UpdatedIsHeld
  BY <1>2 DEF ReplyIsVersion, Answered, NoReply, UpdatedIsHeld
<1>11. LockedAtZero /\ NewestEverywhere
  BY <1>2 DEF LockedAtZero, NewestEverywhere
<1>12. TablesAgree
  BY <1>4 DEF TablesAgree, Agrees, Present
<1>13. RunAgrees /\ RunComplete
  BY <1>2 DEF RunAgrees, RunComplete, InRun, IdleSync
<1> QED
  BY <1>1, <1>5, <1>6, <1>7, <1>8, <1>9, <1>10, <1>11, <1>12, <1>13 DEF SyncInv

LEMMA SyncInvStep == SyncInv /\ [SyncNext]_allVars => SyncInv'
<1> SUFFICES ASSUME SyncInv, [SyncNext]_allVars PROVE SyncInv'
  OBVIOUS
<1>1. [Next]_vars
  BY SyncStepIsServerStep
<1>2. CASE Others
  BY <1>1, <1>2, AnswerKept DEF Others, tabVars
<1>3. CASE SyncStep
  BY <1>3, ReadCursorKeeps, ReadStreamKeeps, ReadGroupKeeps, ReadRowKeeps, DeliverPageKeeps,
     DeliverLastKeeps, SyncFailKeeps DEF SyncStep
<1>4. CASE Session
  BY <1>4, SyncBeginKeeps, UnlockKeeps, LockKeeps, ReloadKeeps DEF Session
<1>5. CASE SendDelete
  <2>1. ItemIds \subseteq Ids /\ FolderIds \subseteq Ids
    BY DEF Ids
  <2> QED BY <1>1, <1>5, <2>1, DeleteSent DEF SendDelete
<1>6. CASE OwnWrite
  BY <1>1, <1>5, <1>6, SendCreateKeeps, SendUpdateKeeps, ApplyPutKeeps, ApplyDeleteKeeps, LoseReplyKeeps
  DEF OwnWrite
<1>7. CASE UNCHANGED allVars
  BY <1>1, <1>7, AnswerKept DEF allVars, tabVars
<1> QED BY <1>2, <1>3, <1>4, <1>6, <1>7 DEF SyncNext

\* The tab's invariant, for every set of ids, page size and bound, with and
\* without a lock that comes in the middle of a run.
THEOREM SyncInvariance == SyncSpec => []SyncInv
<1>1. SyncInit => SyncInv
  BY SyncInvInit
<1>2. SyncInv /\ [SyncNext]_allVars => SyncInv'
  BY SyncInvStep
<1> QED BY <1>1, <1>2, PTL DEF SyncSpec

\* A tab and the other devices drive the server only by its transactions, so every
\* theorem about Spec holds below them, the stream of entries included
\* (store.tsx, handler.go).
THEOREM TabImplementsServer == SyncSpec => Spec /\ ServerIsStream
<1>1. SyncInit => Init
  BY DEF SyncInit
<1>2. SyncSpec => Spec
  BY <1>1, SyncInvariance, SyncStepIsServerStep, PTL DEF SyncSpec, Spec
<1> QED BY <1>2, ServerImplementsStream, PTL

\* An unlocked tab shows the server's version of every row its cursor has
\* passed, the rows it was made to skip aside: by its own writes, by a lock in
\* the middle of a run, or by a group of one revision above the ceiling
\* (syncAndDecrypt, Sync, syncChangesAtRevision).
THEOREM ViewAlwaysMirrors == SyncSpec => []ViewMirrors
<1>1. SyncInv => ViewMirrors
  BY DEF SyncInv, TablesAgree, ViewMirrors
<1> QED BY <1>1, SyncInvariance, PTL

\* The same of the cache the next unlock starts from (cache.ts, unlock).
THEOREM CacheAlwaysMirrors == SyncSpec => []CacheMirrors
<1>1. SyncInv => CacheMirrors
  BY DEF SyncInv, TablesAgree, CacheMirrors
<1> QED BY <1>1, SyncInvariance, PTL

\* A revision names one version of a row, in the tab as on the server, but for the
\* link that the end of a folder clears without a revision, which is
\* what if_revision rests on (UpdateItem, SoftDeleteItem, RestoreItemRevision).
THEOREM RevisionNamesOneVersion == SyncSpec => []SameRevSameRow
<1>1. SyncInv => SameRevSameRow
  BY DEF SyncInv, CopiesAreVersions, Copies, SameRevSameRow, OnScreen, Present
<1> QED BY <1>1, SyncInvariance, PTL

\* The has_more loop asks for every next page with a later cursor (syncAndDecrypt,
\* syncChanges).
THEOREM NextPageIsAlwaysLater == SyncSpec => PagesAdvance
<1>1. SyncInv /\ [SyncNext]_allVars => [NextPageIsLater]_allVars
  <2> SUFFICES ASSUME SyncInv, SyncNext, sync.phase = "rows", sync'.phase = "cursor"
               PROVE  sync'.since > sync.since
    BY DEF NextPageIsLater
  <2>1. RunShape /\ RunComplete
    BY DEF SyncInv, SyncShape
  <2>2. CASE DeliverPage
    <3>1. sync'.since = sync.next /\ sync.since < sync.next
      BY <2>1, <2>2 DEF DeliverPage, IdleSync, RunComplete, PageArrived
    <3> QED BY <3>1
  <2>3. CASE ReadRow
    BY <2>1, <2>3 DEF ReadRow, RunShape
  <2>4. CASE SyncFail \/ DeliverLast \/ Reload
    BY <2>4 DEF SyncFail, DeliverLast, Reload, IdleSync
  <2>5. CASE ReadCursor \/ ReadStream \/ ReadGroup \/ SyncBegin
    BY <2>5 DEF ReadCursor, ReadStream, ReadGroup, SyncBegin
  <2>6. CASE Others \/ OwnWrite \/ Unlock \/ Lock
    <3>1. sync' = sync
      BY <2>6 DEF Others, tabVars, OwnWrite, SendCreate, SendUpdate, SendDelete, Send, ApplyPut,
                  ApplyDelete, LoseReply, Unlock, Lock
    <3> QED BY <3>1
  <2> QED BY <2>2, <2>3, <2>4, <2>5, <2>6 DEF SyncNext, SyncStep, Session
<1> QED BY <1>1, SyncInvariance, PTL DEF SyncSpec, PagesAdvance
=============================================================================
