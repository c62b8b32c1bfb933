--------------------------- MODULE MailIngestProofs ---------------------------
(***************************************************************************)
(* Proofs about MailIngest, for any mails, workers, file names, page size   *)
(* and number of accidents: a mail is stored before its server loses it,   *)
(* and the blob store and the tables agree.                                 *)
(***************************************************************************)
EXTENDS MailIngest, FiniteSetTheorems, TLAPS

PollerRow == [st : {"free", "idle", "polling"}, conf : Configs \cup {None}, cancelled : BOOLEAN,
              probe : BOOLEAN, conn : BOOLEAN, seen : SUBSET Mails, skipped : SUBSET Mails,
              todo : SUBSET Mails, marked : SUBSET Mails]
JobRow == [at : {"none", "resolve", "exists", "raw", "row", "att", "attrow", "answer"},
           m : Mails \cup {None}, b : Nat, k : Keys \cup {0}, cut : BOOLEAN,
           res : {None, "ok", "duplicate", "transient", "persistent"}]
Deletion == [kind : {"none", "message", "mailbox"},
             at : {"none", "list", "next", "read", "row", "files", "box"},
             b : Nat, k : Keys \cup {0}, att : BOOLEAN, todo : SUBSET Keys]
MessageRow == [m : Mails \cup {None}, att : BOOLEAN]

IngestTypeOK ==
    /\ upstream \subseteq Polled /\ unposted \subseteq Posted
    /\ box \in Nat /\ active \in Configs \cup {None} /\ events \in Nat
    /\ row \in [Keys -> MessageRow] /\ files \subseteq {"raw", "att"} \X Keys
    /\ coord \in [conf : Configs \cup {None}, owner : Slots \cup {None}]
    /\ poller \in [Slots -> PollerRow] /\ job \in [Workers -> JobRow] /\ req \in Deletion
    /\ past \in [stored : SUBSET Mails, excused : SUBSET Keys]

\* Mails: what a server may lose has been stored.  A call knows its mail, and
\* from the row on, or when it answers well, that mail is stored; a poller marks
\* nothing else for deletion.
StoredFirst ==
    /\ KeptBeforeDeleted
    /\ \A k \in Live : row[k].m \in past.stored
    /\ \A w \in Workers :
        /\ job[w].at # "none" => job[w].m # None
        /\ job[w].at \in {"att", "attrow"} => job[w].m \in past.stored
        /\ job[w].at = "answer" =>
              job[w].res # None /\ (job[w].res \in {"ok", "duplicate"} => job[w].m \in past.stored)
    /\ \A p \in Slots : poller[p].marked \subseteq past.stored

\* File names: two calls never hold the same, and a call knows at each of its
\* steps whether the name has a row and files.
Raw(k) == <<"raw", k>> \in files
Att(k) == <<"att", k>> \in files
KeysApart == \A v, w \in Workers : v # w /\ job[v].k # 0 => job[v].k # job[w].k
JobKeys ==
    \A w \in Workers :
        /\ job[w].at \in {"none", "resolve", "exists", "raw"} => job[w].k = 0
        /\ job[w].at \in {"row", "att", "attrow"} => job[w].k # 0
        /\ job[w].at = "row" => /\ job[w].k \notin Live /\ job[w].k # req.k
                                /\ Raw(job[w].k) /\ ~Att(job[w].k)
        /\ job[w].at \in {"att", "attrow"} => job[w].k \in Live \cup past.excused
        /\ job[w].at = "att" => ~Att(job[w].k)
        /\ job[w].at = "attrow" /\ job[w].k \in Live => ~row[job[w].k].att /\ Att(job[w].k)

\* The deletion: what it has listed and read is there, and the files it is about
\* to remove are all of them unless it has overtaken an ingest.
RequestKeys ==
    /\ req.at = "none" \/ req.kind = "none" => req = NoReq
    /\ req.at \in {"list", "next", "box"} => req.kind = "mailbox" /\ req.k = 0
    /\ req.at \in {"read", "row"} => req.k \in Live /\ req.k \notin req.todo
    /\ req.at = "files" => req.k # 0 /\ req.k \notin Live
    /\ req.todo \subseteq Live
    /\ req.at = "box" => Live \subseteq past.excused
    /\ req.at \in {"row", "files"} /\ req.k \notin past.excused =>
           ~Ingesting(req.k) /\ (Att(req.k) => req.att)

\* Files: a row has its files, a file of a row that does not name it is the
\* attachment under way, and every file has an owner.
RowsHaveFiles == \A k \in Live : Raw(k) /\ (row[k].att => Att(k))
ExtraFiles ==
    \A k \in Live : Att(k) /\ ~row[k].att => \E w \in Workers : job[w].k = k /\ job[w].at = "attrow"
Owner(k) ==
    \/ k \in Live \cup past.excused
    \/ \E w \in Workers : job[w].k = k /\ job[w].at = "row"
    \/ req.at = "files" /\ req.k = k
FilesHaveOwners == \A k \in Keys : Raw(k) \/ Att(k) => Owner(k)
KeyInv == KeysApart /\ JobKeys /\ RequestKeys /\ RowsHaveFiles /\ ExtraFiles /\ FilesHaveOwners

IngestInv == IngestTypeOK /\ StoredFirst /\ KeyInv

-----------------------------------------------------------------------------
(* Type correctness. *)

\* Ids of mailboxes run out for nobody: there are more than workers and requests
\* can remember.
LEMMA NewBoxIsNew ==
    ASSUME IngestTypeOK
    PROVE  NewBox \in Nat \ {0} /\ NewBox # req.b /\ \A w \in Workers : NewBox # job[w].b
<1> DEFINE n == Cardinality(Workers)
           S == 1 .. (n + 2)
           T == {job[w].b : w \in Workers} \cup {req.b}
<1>1. IsFiniteSet(Workers) /\ n \in Nat
  BY MailIngestAssumption, FS_AddElement, FS_CardinalityType DEF Workers
<1>2. IsFiniteSet({job[w].b : w \in Workers}) /\ Cardinality({job[w].b : w \in Workers}) <= n
      /\ Cardinality({job[w].b : w \in Workers}) \in Nat
  <2> DEFINE f == [w \in Workers |-> job[w].b]
             Rng == {job[w].b : w \in Workers}
  <2>1. f \in Surjection(Workers, Rng)
    BY DEF Surjection
  <2>2. IsFiniteSet(Rng) /\ Cardinality(Rng) <= n
    BY <1>1, <2>1, FS_Surjection
  <2> QED BY <2>2, FS_CardinalityType
<1>3. IsFiniteSet(T) /\ Cardinality(T) <= n + 1 /\ Cardinality(T) \in Nat
  <2>1. IsFiniteSet(T)
        /\ (Cardinality(T) = Cardinality({job[w].b : w \in Workers})
            \/ Cardinality(T) = Cardinality({job[w].b : w \in Workers}) + 1)
    BY <1>2, FS_AddElement
  <2> QED BY <1>1, <1>2, <2>1
<1>4. Cardinality(S) = n + 2
  <2>1. Cardinality(S) = IF 1 > n + 2 THEN 0 ELSE n + 2 - 1 + 1
    BY <1>1, FS_Interval
  <2> QED BY <1>1, <2>1
<1>5. ~(S \subseteq T)
  <2>1. S \subseteq T => Cardinality(S) <= Cardinality(T)
    BY <1>3, FS_Subset
  <2> HIDE DEF S, T, n
  <2> QED BY <1>1, <1>3, <1>4, <2>1
<1>6. PICK b \in S : b \notin T
  BY <1>5
<1>7. \E c \in S : c # req.b /\ \A w \in Workers : c # job[w].b
  BY <1>6
<1>8. NewBox \in S /\ NewBox # req.b /\ \A w \in Workers : NewBox # job[w].b
  <2> HIDE DEF T
  <2> QED BY <1>7 DEF NewBox
<1> QED BY <1>1, <1>8

LEMMA RestTyped ==
    /\ Rested \in PollerRow /\ NoJob \in JobRow /\ NoReq \in Deletion
    /\ NoRow \in MessageRow /\ Idle \in [conf : Configs \cup {None}, owner : Slots \cup {None}]
BY DEF Rested, PollerRow, NoJob, JobRow, NoReq, Deletion, NoRow, MessageRow, Idle

LEMMA CancelTyped ==
    ASSUME NEW r \in PollerRow
    PROVE  /\ [r EXCEPT !.cancelled = TRUE] \in PollerRow
           /\ [r EXCEPT !.cancelled = TRUE].marked = r.marked
           /\ [r EXCEPT !.cancelled = TRUE].st = r.st
<1>1. [r EXCEPT !.cancelled = TRUE] \in PollerRow
  BY DEF PollerRow
<1>2. [r EXCEPT !.cancelled = TRUE].marked = r.marked
  BY DEF PollerRow
<1>3. [r EXCEPT !.cancelled = TRUE].st = r.st
  BY DEF PollerRow
<1> QED BY <1>1, <1>2, <1>3

LEMMA CancelledTyped ==
    ASSUME IngestTypeOK
    PROVE  Cancelled(poller) \in [Slots -> PollerRow]
           /\ \A p \in Slots : /\ Cancelled(poller)[p].marked = poller[p].marked
                               /\ Cancelled(poller)[p].st = poller[p].st
<1>1. CASE coord.owner = None
  BY <1>1 DEF IngestTypeOK, Cancelled
<1>2. CASE coord.owner # None
  <2>1. coord.owner \in Slots /\ poller \in [Slots -> PollerRow]
    BY <1>2 DEF IngestTypeOK
  <2>2. Cancelled(poller) = [poller EXCEPT ![coord.owner] = [poller[coord.owner] EXCEPT !.cancelled = TRUE]]
    BY <1>2, <2>1 DEF Cancelled
  <2> DEFINE r == [poller[coord.owner] EXCEPT !.cancelled = TRUE]
  <2>3. r \in PollerRow /\ r.marked = poller[coord.owner].marked /\ r.st = poller[coord.owner].st
    <3>1. poller[coord.owner] \in PollerRow
      BY <2>1
    <3> QED BY <3>1, CancelTyped
  <2> HIDE DEF r
  <2> QED BY <2>1, <2>2, <2>3 DEF r
<1> QED BY <1>1, <1>2

\* One poller, one call at a time is written.
LEMMA PollerWritten ==
    ASSUME IngestTypeOK, NEW p \in Slots, NEW r \in PollerRow, UpdatePoller(p, r)
    PROVE  poller' \in [Slots -> PollerRow] /\ poller'[p] = r
           /\ \A q \in Slots \ {p} : poller'[q] = poller[q]
BY DEF IngestTypeOK, UpdatePoller

LEMMA SettledTyped ==
    ASSUME NEW r \in PollerRow, NEW m \in Mails, NEW res
    PROVE  /\ settled(r, m, res) \in PollerRow
           /\ settled(r, m, res).marked \subseteq r.marked \cup {m}
           /\ res \in {"probe", "transient", "persistent"} => settled(r, m, res).marked = r.marked
<1>1. Marks(r, m) \in SUBSET Mails /\ Marks(r, m) \subseteq r.marked \cup {m}
  BY DEF Marks, PollerRow
<1>2. CASE res = "probe"
  BY <1>2 DEF settled, PollerRow
<1>3. CASE res = "transient"
  BY <1>3 DEF settled, PollerRow
<1>4. CASE res = "persistent"
  BY <1>4 DEF settled, PollerRow
<1>5. CASE res \notin {"probe", "transient", "persistent"}
  <2>1. settled(r, m, res) = [r EXCEPT !.seen = @ \cup {m}, !.marked = Marks(r, m)]
    BY <1>5 DEF settled
  <2> DEFINE marks == Marks(r, m)
             seen  == r.seen \cup {m}
  <2>2. marks \in SUBSET Mails /\ seen \in SUBSET Mails
    BY <1>1 DEF PollerRow
  <2> HIDE DEF marks, seen
  <2>3. [r EXCEPT !.seen = seen, !.marked = marks] \in PollerRow
        /\ [r EXCEPT !.seen = seen, !.marked = marks].marked = marks
    BY <2>2 DEF PollerRow
  <2> QED BY <1>1, <1>5, <2>1, <2>3 DEF marks, seen
<1> QED BY <1>2, <1>3, <1>4, <1>5

LEMMA JobWritten ==
    ASSUME IngestTypeOK, NEW w \in Workers, NEW j \in JobRow, job' = [job EXCEPT ![w] = j]
    PROVE  job' \in [Workers -> JobRow] /\ job'[w] = j /\ \A v \in Workers \ {w} : job'[v] = job[v]
BY DEF IngestTypeOK

LEMMA JobAnswered ==
    ASSUME IngestTypeOK, NEW w \in Workers, NEW res \in {"ok", "duplicate", "transient", "persistent"},
           Answer(w, res)
    PROVE  /\ job' \in [Workers -> JobRow] /\ \A v \in Workers \ {w} : job'[v] = job[v]
           /\ job'[w].at = "answer" /\ job'[w].res = res /\ job'[w].m = job[w].m
           /\ job'[w].k = job[w].k /\ job'[w].b = job[w].b
<1> DEFINE j == [job[w] EXCEPT !.at = "answer", !.res = res]
<1>1. job[w] \in JobRow /\ job' = [job EXCEPT ![w] = j]
  BY DEF IngestTypeOK, Answer
<1>2. j \in JobRow /\ j.at = "answer" /\ j.res = res /\ j.m = job[w].m /\ j.k = job[w].k /\ j.b = job[w].b
  BY <1>1 DEF JobRow
<1> HIDE DEF j
<1> QED BY <1>1, <1>2, JobWritten

\* The next station of a call.
LEMMA JobGoes ==
    ASSUME IngestTypeOK, NEW w \in Workers, NEW at \in {"exists", "raw", "row", "att", "attrow"}, Goto(w, at)
    PROVE  /\ job' \in [Workers -> JobRow] /\ \A v \in Workers \ {w} : job'[v] = job[v]
           /\ job'[w].at = at /\ job'[w].m = job[w].m
           /\ job'[w].k = job[w].k /\ job'[w].b = job[w].b
<1> DEFINE j == [job[w] EXCEPT !.at = at]
<1>1. job[w] \in JobRow /\ job' = [job EXCEPT ![w] = j]
  BY DEF IngestTypeOK, Goto
<1>2. j \in JobRow /\ j.at = at /\ j.m = job[w].m /\ j.k = job[w].k /\ j.b = job[w].b
  BY <1>1 DEF JobRow
<1> HIDE DEF j
<1> QED BY <1>1, <1>2, JobWritten

\* The mailbox is known.
LEMMA JobFindsBox ==
    ASSUME IngestTypeOK, NEW w \in Workers, job' = [job EXCEPT ![w].at = "exists", ![w].b = box]
    PROVE  /\ job' \in [Workers -> JobRow] /\ \A v \in Workers \ {w} : job'[v] = job[v]
           /\ job'[w].at = "exists" /\ job'[w].m = job[w].m
           /\ job'[w].k = job[w].k /\ job'[w].b = box
<1> DEFINE j == [job[w] EXCEPT !.at = "exists", !.b = box]
<1>1. job[w] \in JobRow /\ job' = [job EXCEPT ![w] = j] /\ box \in Nat
  BY DEF IngestTypeOK
<1>2. j \in JobRow /\ j.at = "exists" /\ j.m = job[w].m /\ j.k = job[w].k /\ j.b = box
  BY <1>1 DEF JobRow
<1> HIDE DEF j
<1> QED BY <1>1, <1>2, JobWritten

\* The file has a name.
LEMMA JobTakesKey ==
    ASSUME IngestTypeOK, NEW w \in Workers, NEW k \in Keys, job' = [job EXCEPT ![w].at = "row", ![w].k = k]
    PROVE  /\ job' \in [Workers -> JobRow] /\ \A v \in Workers \ {w} : job'[v] = job[v]
           /\ job'[w].at = "row" /\ job'[w].m = job[w].m
           /\ job'[w].k = k /\ job'[w].b = job[w].b
<1> DEFINE j == [job[w] EXCEPT !.at = "row", !.k = k]
<1>1. job[w] \in JobRow /\ job' = [job EXCEPT ![w] = j]
  BY DEF IngestTypeOK
<1>2. j \in JobRow /\ j.at = "row" /\ j.m = job[w].m /\ j.k = k /\ j.b = job[w].b
  BY <1>1 DEF JobRow
<1> HIDE DEF j
<1> QED BY <1>1, <1>2, JobWritten

\* A call starts, at the webhook or from a poller.
LEMMA JobStarts ==
    ASSUME IngestTypeOK, NEW w \in Workers,
           NEW m \in Mails, job' = [job EXCEPT ![w] = [NoJob EXCEPT !.at = "resolve", !.m = m]]
    PROVE  /\ job' \in [Workers -> JobRow] /\ \A v \in Workers \ {w} : job'[v] = job[v]
           /\ job'[w].at = "resolve" /\ job'[w].m = m /\ job'[w].k = 0
<1> DEFINE j == [NoJob EXCEPT !.at = "resolve", !.m = m]
<1>1. j \in JobRow /\ j.at = "resolve" /\ j.m = m /\ j.k = 0
  BY DEF NoJob, JobRow
<1> HIDE DEF j
<1> QED BY <1>1, JobWritten DEF j
LEMMA PollerOfRow ==
    ASSUME IngestTypeOK, NEW p \in Slots
    PROVE  poller[p] \in PollerRow /\ poller[p].todo \subseteq Mails
BY DEF IngestTypeOK, PollerRow

\* A poll loop that starts, rests, breaks its connection.
LEMMA PollerRests ==
    ASSUME NEW r \in PollerRow, NEW c \in Configs, NEW t \in SUBSET Mails
    PROVE  /\ [Rested EXCEPT !.st = "idle", !.conf = c] \in PollerRow
           /\ [Rested EXCEPT !.st = "idle", !.conf = c].marked = {}
           /\ [Rested EXCEPT !.st = "idle", !.conf = c, !.probe = TRUE] \in PollerRow
           /\ [Rested EXCEPT !.st = "idle", !.conf = c, !.probe = TRUE].marked = {}
           /\ [r EXCEPT !.st = "polling", !.conn = TRUE, !.marked = {}, !.todo = t] \in PollerRow
           /\ [r EXCEPT !.st = "polling", !.conn = TRUE, !.marked = {}, !.todo = t].marked = {}
           /\ [r EXCEPT !.conn = FALSE, !.todo = t] \in PollerRow
           /\ [r EXCEPT !.conn = FALSE, !.todo = t].marked = r.marked
           /\ [r EXCEPT !.todo = t] \in PollerRow
           /\ [r EXCEPT !.todo = t].marked = r.marked
           /\ [r EXCEPT !.st = "idle", !.todo = {}, !.marked = {}, !.conn = FALSE] \in PollerRow
           /\ [r EXCEPT !.st = "idle", !.todo = {}, !.marked = {}, !.conn = FALSE].marked = {}
           /\ Rested.marked = {}
BY DEF PollerRow, Rested

\* What a step of the pollers may do to one of them: it keeps what it has
\* marked, forgets it, or adds a mail whose ingest has ended well.
PollersMove ==
    /\ poller' \in [Slots -> PollerRow]
    /\ \A p \in Slots : \/ poller'[p].marked \subseteq poller[p].marked
                        \/ /\ job[p].at = "answer" /\ job[p].res \notin {"transient", "persistent"}
                           /\ poller'[p].marked \subseteq poller[p].marked \cup {job[p].m}

LEMMA CoordinatorMoves ==
    ASSUME IngestTypeOK, Sync \/ SyncEarly \/ SyncFails \/ \E p \in Slots : Exit(p)
    PROVE  PollersMove /\ coord' \in [conf : Configs \cup {None}, owner : Slots \cup {None}]
<1> USE RestTyped, CancelledTyped
<1>1. \A p \in Slots : Rested.marked \subseteq poller[p].marked
  BY DEF Rested
<1>2. ASSUME NEW c, c = active \/ c = None, syncStop(c)
      PROVE  PollersMove /\ coord' \in [conf : Configs \cup {None}, owner : Slots \cup {None}]
  BY <1>2 DEF syncStop, PollersMove
<1>3. ASSUME syncStart(active)
      PROVE  PollersMove /\ coord' \in [conf : Configs \cup {None}, owner : Slots \cup {None}]
  <2>1. active \in Configs /\ poller \in [Slots -> PollerRow]
    BY <1>3 DEF IngestTypeOK, syncStart, IsPollDriver, None
  <2> DEFINE r == [Rested EXCEPT !.st = "idle", !.conf = active]
  <2>2. r \in PollerRow /\ r.marked = {}
    BY <2>1, PollerRests
  <2>3. PICK p \in Slots : coord' = [conf |-> active, owner |-> p]
                           /\ poller' = [Cancelled(poller) EXCEPT ![p] = r]
    BY <1>3 DEF syncStart
  <2> HIDE DEF r
  <2> QED BY <2>1, <2>2, <2>3 DEF PollersMove
<1>4. ASSUME NEW p \in Slots, Exit(p)
      PROVE  PollersMove /\ coord' \in [conf : Configs \cup {None}, owner : Slots \cup {None}]
  <2>1. CASE coord.conf = poller[p].conf
    <3>1. coord' = Idle /\ poller' = [Cancelled(poller) EXCEPT ![p] = Rested]
      BY <1>4, <2>1 DEF Exit
    <3> QED BY <1>1, <3>1 DEF PollersMove
  <2>2. CASE coord.conf # poller[p].conf
    <3>1. coord' = coord /\ poller' = [poller EXCEPT ![p] = Rested]
      BY <1>4, <2>2 DEF Exit
    <3> QED BY <1>1, <3>1 DEF PollersMove, IngestTypeOK
  <2> QED BY <2>1, <2>2
<1> QED BY <1>2, <1>3, <1>4 DEF Sync, SyncEarly, SyncFails

LEMMA SweepMoves ==
    ASSUME IngestTypeOK, StoredFirst, Test \/ \E p \in Slots : Dial(p) \/ Break(p) \/ Fetch(p) \/ Settle(p) \/ EndPoll(p)
    PROVE  PollersMove
<1>1. ASSUME NEW p \in Slots, NEW r \in PollerRow, UpdatePoller(p, r), r.marked \subseteq poller[p].marked
      PROVE  PollersMove
  BY <1>1, PollerWritten DEF PollersMove
<1>2. CASE Test
  <2>1. active \in Configs
    BY <1>2 DEF Test, IngestTypeOK, IsPollDriver, None
  <2> DEFINE r == [Rested EXCEPT !.st = "idle", !.conf = active, !.probe = TRUE]
  <2>2. r \in PollerRow /\ r.marked = {}
    BY <2>1, PollerRests, RestTyped
  <2>3. PICK p \in Slots : UpdatePoller(p, r)
    BY <1>2 DEF Test, UpdatePoller
  <2> HIDE DEF r
  <2> QED BY <1>1, <2>2, <2>3
<1>3. ASSUME NEW p \in Slots, Dial(p)
      PROVE  PollersMove
  <2> DEFINE r == [poller[p] EXCEPT !.st = "polling", !.conn = TRUE, !.marked = {}, !.todo = Unseen(p)]
  <2>1. Unseen(p) \in SUBSET Mails
    BY DEF Unseen, uidl, UidSearch, IngestTypeOK, Mails
  <2>2. poller[p] \in PollerRow
    BY PollerOfRow
  <2>3. r \in PollerRow /\ r.marked = {}
    <3> HIDE DEF r
    <3> DEFINE t == Unseen(p)
    <3> HIDE DEF t
    <3>1. [poller[p] EXCEPT !.st = "polling", !.conn = TRUE, !.marked = {}, !.todo = t] \in PollerRow
          /\ [poller[p] EXCEPT !.st = "polling", !.conn = TRUE, !.marked = {}, !.todo = t].marked = {}
      BY <2>1, <2>2 DEF t, PollerRow
    <3> QED BY <3>1 DEF t, r
  <2>4. UpdatePoller(p, r)
    BY <1>3 DEF Dial
  <2> HIDE DEF r
  <2> QED BY <1>1, <2>3, <2>4
<1>4. ASSUME NEW p \in Slots, Break(p)
      PROVE  PollersMove
  <2>1. PICK t \in Buffered(poller[p]) : UpdatePoller(p, [poller[p] EXCEPT !.conn = FALSE, !.todo = t])
    BY <1>4 DEF Break
  <2>2. t \in SUBSET Mails /\ poller[p] \in PollerRow
    BY PollerOfRow DEF Buffered
  <2> DEFINE r == [poller[p] EXCEPT !.conn = FALSE, !.todo = t]
  <2>3. r \in PollerRow /\ r.marked = poller[p].marked
    BY <2>2 DEF PollerRow
  <2> HIDE DEF r
  <2> QED BY <1>1, <2>1, <2>3 DEF r
<1>5. ASSUME NEW p \in Slots, Fetch(p)
      PROVE  PollersMove
  <2>1. PICK m \in poller[p].todo :
          LET rest == [poller[p] EXCEPT !.todo = poller[p].todo \ {m}] IN
          UpdatePoller(p, rest) \/ UpdatePoller(p, settled(rest, m, GoneVerdict(poller[p])))
              \/ UpdatePoller(p, settled(rest, m, DiscardIngest))
    BY <1>5, Zenon DEF Fetch
  <2> DEFINE rest == [poller[p] EXCEPT !.todo = poller[p].todo \ {m}]
  <2>2. rest \in PollerRow /\ rest.marked = poller[p].marked /\ m \in Mails
    BY PollerOfRow DEF PollerRow
  <2>3. PICK r \in {rest, settled(rest, m, GoneVerdict(poller[p])), settled(rest, m, DiscardIngest)} :
          UpdatePoller(p, r)
    BY <2>1
  <2> HIDE DEF rest
  <2>4. GoneVerdict(poller[p]) \in {"probe", "transient", "persistent"} /\ DiscardIngest = "probe"
    BY DEF GoneVerdict, DiscardIngest
  <2>5. r \in PollerRow /\ r.marked = poller[p].marked
    BY <2>2, <2>3, <2>4, SettledTyped
  <2> QED BY <1>1, <2>3, <2>5
<1>6. ASSUME NEW p \in Slots, Settle(p)
      PROVE  PollersMove
  <2> DEFINE r == settled(poller[p], job[p].m, job[p].res)
  <2>1. UpdatePoller(p, r) /\ job[p].at = "answer"
    BY <1>6 DEF Settle
  <2>2. job[p].m \in Mails /\ poller[p] \in PollerRow
    <3>1. p \in Workers /\ job[p] \in JobRow /\ job[p].m # None
      BY <2>1 DEF IngestTypeOK, StoredFirst, Workers
    <3> QED BY <3>1, PollerOfRow DEF JobRow
  <2>3. r \in PollerRow /\ r.marked \subseteq poller[p].marked \cup {job[p].m}
        /\ (job[p].res \in {"transient", "persistent"} => r.marked = poller[p].marked)
    BY <2>2, SettledTyped
  <2> HIDE DEF r
  <2> QED BY <2>1, <2>3, PollerWritten DEF PollersMove
<1>7. ASSUME NEW p \in Slots, EndPoll(p)
      PROVE  PollersMove
  <2> DEFINE r == [poller[p] EXCEPT !.st = "idle", !.todo = {}, !.marked = {}, !.conn = FALSE]
  <2>1. UpdatePoller(p, Rested) \/ UpdatePoller(p, r)
    BY <1>7 DEF EndPoll
  <2>2. r \in PollerRow /\ r.marked = {}
    BY PollerOfRow DEF PollerRow
  <2>3. Rested \in PollerRow /\ Rested.marked = {}
    BY RestTyped DEF Rested
  <2> HIDE DEF r
  <2> QED BY <1>1, <2>1, <2>2, <2>3
<1> QED BY <1>2, <1>3, <1>4, <1>5, <1>6, <1>7

\* Every station of a call writes that call only.
LEMMA IngestTyped ==
    ASSUME IngestTypeOK, StoredFirst, JobKeys, NEW w \in Workers, NEW fails \in BOOLEAN, IngestStep(w, fails)
    PROVE  /\ job' \in [Workers -> JobRow] /\ \A v \in Workers \ {w} : job'[v] = job[v]
           /\ job'[w].m = job[w].m /\ job[w].at # "none" /\ job'[w].at # "none"
           /\ row' \in [Keys -> MessageRow] /\ files' \subseteq {"raw", "att"} \X Keys
           /\ past' \in [stored : SUBSET Mails, excused : SUBSET Keys]
<1>0. job[w] \in JobRow /\ row \in [Keys -> MessageRow] /\ files \subseteq {"raw", "att"} \X Keys
      /\ past \in [stored : SUBSET Mails, excused : SUBSET Keys]
  BY DEF IngestTypeOK
<1> DEFINE Typed == /\ job' \in [Workers -> JobRow] /\ \A v \in Workers \ {w} : job'[v] = job[v]
                    /\ job'[w].m = job[w].m /\ job'[w].at # "none"
           Rest  == /\ row' \in [Keys -> MessageRow] /\ files' \subseteq {"raw", "att"} \X Keys
                    /\ past' \in [stored : SUBSET Mails, excused : SUBSET Keys]
<1>1. ASSUME NEW res \in {"ok", "duplicate", "transient", "persistent"}, Answer(w, res) PROVE Typed
  BY <1>1, JobAnswered
<1>2. ASSUME NEW at \in {"exists", "raw", "row", "att", "attrow"}, Goto(w, at) PROVE Typed
  BY <1>2, JobGoes
<1>3. CASE Resolve(w, fails)
  <2>1. Answer(w, "persistent") \/ job' = [job EXCEPT ![w].at = "exists", ![w].b = box]
    BY <1>3 DEF Resolve
  <2>2. job' = [job EXCEPT ![w].at = "exists", ![w].b = box] => Typed
    BY JobFindsBox
  <2>3. Typed
    BY <1>1, <2>1, <2>2
  <2>4. job[w].at # "none" /\ Rest
    BY <1>0, <1>3 DEF Resolve
  <2> QED BY <2>3, <2>4
<1>4. CASE ExistsByMessageID(w, fails)
  <2>1. Answer(w, "transient") \/ Answer(w, "duplicate") \/ Goto(w, "raw")
    BY <1>4 DEF ExistsByMessageID
  <2>2. job[w].at # "none" /\ Rest
    BY <1>0, <1>4 DEF ExistsByMessageID
  <2> QED BY <1>1, <1>2, <2>1, <2>2
<1>5. CASE SaveRaw(w, fails)
  <2>1. CASE fails
    <3>1. Answer(w, "transient") /\ job[w].at # "none" /\ Rest
      BY <1>0, <1>5, <2>1 DEF SaveRaw
    <3> QED BY <1>1, <3>1
  <2>2. CASE ~fails
    <3>1. PICK k \in Keys : /\ job' = [job EXCEPT ![w].at = "row", ![w].k = k]
                            /\ files' = Save("raw", k)
                            /\ past' = [past EXCEPT !.excused = past.excused \ {k}]
      BY <1>5, <2>2 DEF SaveRaw, NewKey
    <3>2. job[w].at # "none" /\ row' = row
      BY <1>5 DEF SaveRaw
    <3>3. Rest
      BY <1>0, <3>1, <3>2 DEF Save
    <3> QED BY <3>1, <3>2, <3>3, JobTakesKey
  <2> QED BY <2>1, <2>2
<1>6. CASE CreateMessage(w, fails)
  <2>0. job[w].at = "row"
    BY <1>6 DEF CreateMessage
  <2>1. CASE fails \/ Cut(w) \/ box # job[w].b \/ Stored(job[w].m)
    <3>1. Answer(w, IF ~fails /\ ~Cut(w) /\ box = job[w].b THEN "duplicate" ELSE "transient")
          /\ files' = Remove("raw", job[w].k) /\ row' = row /\ past' = past
      BY <1>6, <2>1 DEF CreateMessage
    <3>2. Rest
      BY <1>0, <3>1 DEF Remove
    <3>3. Answer(w, "duplicate") \/ Answer(w, "transient")
      BY <3>1
    <3> QED BY <1>1, <2>0, <3>2, <3>3
  <2>2. CASE ~(fails \/ Cut(w) \/ box # job[w].b \/ Stored(job[w].m))
    <3> DEFINE new == [m |-> job[w].m, att |-> FALSE]
    <3>1. /\ Goto(w, "att") /\ files' = files
          /\ row' = [row EXCEPT ![job[w].k] = new]
          /\ past' = [stored |-> past.stored \cup {job[w].m},
                      excused |-> past.excused \cup (IF req.kind = "mailbox" THEN {job[w].k} ELSE {})]
      BY <1>6, <2>2 DEF CreateMessage
    <3>2. job[w].k \in Keys /\ job[w].m \in Mails \cup {None}
      BY <1>0, <2>0 DEF JobKeys, JobRow
    <3>3. new \in MessageRow
      BY <3>2 DEF MessageRow
    <3> HIDE DEF new
    <3>4. row' \in [Keys -> MessageRow] /\ files' \subseteq {"raw", "att"} \X Keys
      BY <1>0, <3>1, <3>2, <3>3
    <3>5. past' \in [stored : SUBSET Mails, excused : SUBSET Keys]
      <4> DEFINE st == past.stored \cup {job[w].m}
                 ex == past.excused \cup (IF req.kind = "mailbox" THEN {job[w].k} ELSE {})
      <4>1. st \in SUBSET Mails /\ ex \in SUBSET Keys
        BY <1>0, <2>0, <3>2 DEF StoredFirst
      <4> QED BY <3>1, <4>1
    <3> QED BY <1>2, <2>0, <3>1, <3>4, <3>5
  <2> QED BY <2>1, <2>2
<1>7. CASE SaveAttachment(w, fails)
  <2>1. Answer(w, "ok") \/ Goto(w, "attrow")
    BY <1>7 DEF SaveAttachment
  <2>2. job[w].at = "att" /\ job[w].k \in Keys
    BY <1>0, <1>7 DEF SaveAttachment, JobKeys, JobRow
  <2>3. job[w].at # "none" /\ Rest
    BY <1>0, <1>7, <2>2 DEF SaveAttachment, Save
  <2> QED BY <1>1, <1>2, <2>1, <2>3
<1>8. CASE storeInboundAttachments(w, fails)
  <2>1. Answer(w, "ok") /\ job[w].at # "none"
    BY <1>8 DEF storeInboundAttachments
  <2>2. CASE fails \/ Cut(w) \/ row[job[w].k] = NoRow
    <3>1. files' = Remove("att", job[w].k) /\ row' = row /\ past' = past
      BY <1>8, <2>2 DEF storeInboundAttachments
    <3> QED BY <1>0, <1>1, <2>1, <3>1 DEF Remove
  <2>3. CASE ~(fails \/ Cut(w) \/ row[job[w].k] = NoRow)
    <3>1. files' = files /\ row' = [row EXCEPT ![job[w].k].att = TRUE] /\ past' = past
      BY <1>8, <2>3 DEF storeInboundAttachments, CreateAttachment
    <3>2. row' \in [Keys -> MessageRow]
      BY <1>0, <3>1 DEF MessageRow
    <3> QED BY <1>0, <1>1, <2>1, <3>1, <3>2
  <2> QED BY <2>2, <2>3
<1> QED BY <1>3, <1>4, <1>5, <1>6, <1>7, <1>8 DEF IngestStep

\* The deletion's own record.
LEMMA DoneTyped ==
    ASSUME IngestTypeOK, Done
    PROVE  /\ req' \in Deletion
           /\ req' = NoReq \/ (/\ req.kind # "message" /\ req'.kind = req.kind /\ req'.todo = req.todo
                               /\ req'.at \in {"list", "next"} /\ req'.k = 0)
<1>0. req \in Deletion
  BY DEF IngestTypeOK
<1>1. CASE req.kind = "message"
  BY <1>1, RestTyped DEF Done
<1>2. CASE req.kind # "message"
  <2> DEFINE at == IF req.todo = {} THEN "list" ELSE "next"
             r  == [req EXCEPT !.at = at, !.k = 0, !.att = FALSE]
  <2>1. req' = r
    BY <1>2 DEF Done
  <2>2. at \in {"list", "next"}
    OBVIOUS
  <2> HIDE DEF at
  <2>3. r \in Deletion /\ r.kind = req.kind /\ r.todo = req.todo /\ r.at = at /\ r.k = 0
    BY <1>0, <2>2 DEF Deletion
  <2> HIDE DEF r
  <2> QED BY <1>2, <2>1, <2>2, <2>3
<1> QED BY <1>1, <1>2

LEMMA RequestTyped ==
    ASSUME IngestTypeOK, Request \/ RequestStep
    PROVE  req' \in Deletion /\ row' \in [Keys -> MessageRow] /\ files' \subseteq {"raw", "att"} \X Keys
           /\ box' \in Nat /\ past' \in [stored : SUBSET Mails, excused : SUBSET Keys]
           /\ past'.stored = past.stored
           /\ \A k \in Keys : row'[k] # NoRow => row'[k] = row[k]
<1>0. req \in Deletion /\ row \in [Keys -> MessageRow] /\ files \subseteq {"raw", "att"} \X Keys
      /\ box \in Nat /\ past \in [stored : SUBSET Mails, excused : SUBSET Keys] /\ Live \subseteq Keys
  BY DEF IngestTypeOK, Live
<1>1. CASE Request
  <2>1. \/ \E k \in Live : req' = [NoReq EXCEPT !.kind = "message", !.at = "read", !.k = k]
        \/ req' = [NoReq EXCEPT !.kind = "mailbox", !.at = "list", !.b = box]
    BY <1>1 DEF Request
  <2>2. req' \in Deletion
    <3>1. \A k \in Keys : [NoReq EXCEPT !.kind = "message", !.at = "read", !.k = k] \in Deletion
      BY DEF NoReq, Deletion
    <3>2. [NoReq EXCEPT !.kind = "mailbox", !.at = "list", !.b = box] \in Deletion
      BY <1>0 DEF NoReq, Deletion
    <3> QED BY <1>0, <2>1, <3>1, <3>2
  <2>3. UNCHANGED <<row, files, box, past>>
    BY <1>1 DEF Request
  <2> QED BY <1>0, <2>2, <2>3
<1>2. CASE ListMessages
  <2>1. PICK page \in Pages : req' = [req EXCEPT !.at = IF page = {} THEN "box" ELSE "next", !.todo = page]
    BY <1>2 DEF ListMessages
  <2>2. page \in SUBSET Keys
    BY <1>0, <2>1 DEF Pages
  <2>3. req' \in Deletion
    BY <1>0, <2>1, <2>2 DEF Deletion
  <2> QED BY <1>0, <1>2, <2>3 DEF ListMessages
<1>3. CASE NextMessage
  <2>1. PICK k \in req.todo : req' = [req EXCEPT !.at = "read", !.k = k, !.todo = req.todo \ {k}]
    BY <1>3 DEF NextMessage
  <2>2. req' \in Deletion
    BY <1>0, <2>1 DEF Deletion
  <2> QED BY <1>0, <1>3, <2>2 DEF NextMessage
<1>4. CASE ReadMessage
  <2>1. CASE req.k \notin Live
    BY <1>0, <1>4, <2>1, DoneTyped DEF ReadMessage
  <2>2. CASE req.k \in Live
    <3> DEFINE more == {k \in {req.k} : Ingesting(k)}
    <3>1. req' = [req EXCEPT !.at = "row", !.att = row[req.k].att]
          /\ past' = [past EXCEPT !.excused = past.excused \cup more] /\ UNCHANGED <<box, row, files>>
      BY <1>4, <2>2 DEF ReadMessage
    <3>2. row[req.k].att \in BOOLEAN /\ more \subseteq Keys
      BY <1>0, <2>2 DEF MessageRow
    <3>3. req' \in Deletion
      BY <1>0, <3>1, <3>2 DEF Deletion
    <3> HIDE DEF more
    <3> QED BY <1>0, <3>1, <3>2, <3>3
  <2> QED BY <2>1, <2>2
<1>5. CASE DeleteMessage
  <2>1. CASE req.k \notin Live
    BY <1>0, <1>5, <2>1, DoneTyped DEF DeleteMessage
  <2>2. CASE req.k \in Live
    <3>1. req' = [req EXCEPT !.at = "files"] /\ row' = [row EXCEPT ![req.k] = NoRow]
          /\ UNCHANGED <<box, files, past>>
      BY <1>5, <2>2 DEF DeleteMessage
    <3>2. req' \in Deletion
      BY <1>0, <3>1 DEF Deletion
    <3> QED BY <1>0, <3>1, <3>2, RestTyped
  <2> QED BY <2>1, <2>2
<1>6. CASE DeleteFiles
  BY <1>0, <1>6, DoneTyped DEF DeleteFiles
<1>7. CASE DeleteMailbox
  BY <1>0, <1>7, RestTyped DEF DeleteMailbox
<1> QED BY <1>1, <1>2, <1>3, <1>4, <1>5, <1>6, <1>7 DEF RequestStep

\* Every action keeps the type.
LEMMA IngestTypeStep ==
    ASSUME IngestTypeOK, StoredFirst, JobKeys, [Next]_vars
    PROVE  IngestTypeOK'
<1>e. events \in Nat /\ (Event => events' = events + 1)
  BY DEF IngestTypeOK, Event
<1>1. CASE UNCHANGED vars
  BY <1>1 DEF vars, IngestTypeOK
<1>2. CASE upsert \/ delete
  <2>1. active' \in Configs \cup {None} /\ events' \in Nat
    BY <1>2, <1>e DEF upsert, delete, UpsertAndActivate, DeleteProvider
  <2>2. UNCHANGED <<upstream, unposted, box, row, files, coord, poller, job, req, past>>
    BY <1>2 DEF upsert, delete
  <2> QED BY <2>1, <2>2 DEF IngestTypeOK
<1>3. CASE Sync \/ SyncEarly \/ SyncFails \/ \E p \in Slots : Exit(p)
  <2>1. UNCHANGED <<upstream, unposted, box, row, files, active, job, req, past>>
        /\ events' \in {events, events + 1}
    BY <1>3, <1>e DEF Sync, SyncEarly, SyncFails, Exit
  <2>2. PollersMove /\ coord' \in [conf : Configs \cup {None}, owner : Slots \cup {None}]
    BY <1>3, CoordinatorMoves
  <2> QED BY <1>e, <2>1, <2>2 DEF IngestTypeOK, PollersMove
<1>4. CASE Test \/ \E p \in Slots : Dial(p) \/ Break(p) \/ Fetch(p) \/ Settle(p) \/ EndPoll(p)
  <2>1. PollersMove
    BY <1>4, SweepMoves
  <2>2. UNCHANGED <<unposted, box, row, files, active, coord, req, past>> /\ events' \in {events, events + 1}
    BY <1>4, <1>e DEF Test, Dial, Break, Fetch, Settle, EndPoll
  <2>3. upstream' \subseteq Polled
    BY <1>4 DEF Test, Dial, Break, Fetch, Settle, EndPoll, IngestTypeOK
  <2>4. job' \in [Workers -> JobRow]
    <3>0. job \in [Workers -> JobRow] /\ Slots \subseteq Workers
      BY DEF IngestTypeOK, Workers
    <3>1. ASSUME NEW p \in Slots, Fetch(p) PROVE job' \in [Workers -> JobRow]
      <4>1. PICK m \in poller[p].todo :
               job' = job \/ job' = [job EXCEPT ![p] = [NoJob EXCEPT !.at = "resolve", !.m = m]]
        BY <3>1 DEF Fetch
      <4>2. m \in Mails /\ p \in Workers
        BY <3>0, PollerOfRow
      <4> QED BY <3>0, <4>1, <4>2, JobStarts
    <3>2. ASSUME NEW p \in Slots, Settle(p) PROVE job' \in [Workers -> JobRow]
      BY <3>0, <3>2, RestTyped DEF Settle
    <3>3. ASSUME NEW p \in Slots, Dial(p) \/ Break(p) \/ EndPoll(p) PROVE job' = job
      BY <3>3 DEF Dial, Break, EndPoll
    <3>4. Test => job' = job
      BY DEF Test
    <3> QED BY <1>4, <3>0, <3>1, <3>2, <3>3, <3>4
  <2> QED BY <1>e, <2>1, <2>2, <2>3, <2>4 DEF IngestTypeOK, PollersMove
<1>5. CASE Post \/ HangUp \/ Respond
  <2>1. UNCHANGED <<upstream, box, row, files, active, coord, poller, req, past>>
        /\ events' \in {events, events + 1}
    BY <1>5, <1>e DEF Post, HangUp, Respond
  <2>2. unposted' \subseteq Posted
    BY <1>5 DEF Post, HangUp, Respond, IngestTypeOK
  <2>3. job' \in [Workers -> JobRow]
    <3>0. job \in [Workers -> JobRow] /\ "hook" \in Workers /\ job["hook"] \in JobRow
      BY DEF IngestTypeOK, Workers
    <3>1. CASE Post
      <4>1. PICK m \in unposted : job' = [job EXCEPT !["hook"] = [NoJob EXCEPT !.at = "resolve", !.m = m]]
        BY <3>1 DEF Post
      <4>2. m \in Mails
        BY DEF IngestTypeOK, Mails
      <4> QED BY <3>0, <4>1, <4>2, JobStarts
    <3>2. CASE HangUp
      <4> DEFINE j == [job["hook"] EXCEPT !.cut = TRUE]
      <4>1. job' = [job EXCEPT !["hook"] = j]
        BY <3>2 DEF HangUp
      <4>2. j \in JobRow
        BY <3>0 DEF JobRow
      <4> HIDE DEF j
      <4> QED BY <3>0, <4>1, <4>2
    <3>3. CASE Respond
      BY <3>0, <3>3, RestTyped DEF Respond
    <3> QED BY <1>5, <3>1, <3>2, <3>3
  <2> QED BY <1>e, <2>1, <2>2, <2>3 DEF IngestTypeOK
<1>6. ASSUME NEW w \in Workers, Ingest(w) \/ IngestFails(w)
      PROVE  IngestTypeOK'
  <2>1. PICK fails \in BOOLEAN : IngestStep(w, fails)
    BY <1>6 DEF Ingest, IngestFails
  <2>2. UNCHANGED <<upstream, unposted, box, active, coord, poller, req>>
    BY <2>1 DEF IngestStep
  <2>3. events' \in Nat
    <3>1. events' = events \/ Event
      BY <1>6, Zenon DEF Ingest, IngestFails
    <3> QED BY <1>e, <3>1
  <2>4. /\ job' \in [Workers -> JobRow] /\ row' \in [Keys -> MessageRow]
        /\ files' \subseteq {"raw", "att"} \X Keys /\ past' \in [stored : SUBSET Mails, excused : SUBSET Keys]
    BY <2>1, IngestTyped
  <2> QED BY <2>2, <2>3, <2>4 DEF IngestTypeOK
<1>7. CASE createMailbox
  <2>1. box' \in Nat
    BY <1>7, NewBoxIsNew DEF createMailbox, CreateMailbox
  <2>2. UNCHANGED <<upstream, unposted, row, files, active, coord, poller, job, req, past>> /\ events' \in Nat
    BY <1>7, <1>e DEF createMailbox
  <2> QED BY <2>1, <2>2 DEF IngestTypeOK
<1>8. CASE Request \/ RequestStep
  <2>1. UNCHANGED <<upstream, unposted, active, coord, poller, job>> /\ (events' = events \/ Event)
    BY <1>8, Zenon DEF Request, RequestStep
  <2>2. req' \in Deletion /\ row' \in [Keys -> MessageRow] /\ files' \subseteq {"raw", "att"} \X Keys
        /\ box' \in Nat /\ past' \in [stored : SUBSET Mails, excused : SUBSET Keys]
    BY <1>8, RequestTyped
  <2> QED BY <1>e, <2>1, <2>2 DEF IngestTypeOK
<1>9. CASE Abandon
  <2>1. UNCHANGED <<upstream, unposted, box, row, files, active, coord, poller, job, past>>
        /\ events' \in Nat /\ req' = NoReq
    BY <1>9, <1>e DEF Abandon
  <2> QED BY <2>1, RestTyped DEF IngestTypeOK
<1>10. CASE Crash
  <2>1. UNCHANGED <<upstream, unposted, box, row, active, past>> /\ events' \in Nat
        /\ coord' = Idle /\ poller' = [p \in Slots |-> Rested] /\ job' = [w \in Workers |-> NoJob]
        /\ req' = NoReq /\ files' \subseteq files
    BY <1>10, <1>e DEF Crash
  <2> QED BY <2>1, RestTyped DEF IngestTypeOK
<1>11. QED
  BY <1>1, <1>2, <1>3, <1>4, <1>5, <1>6, <1>7, <1>8, <1>9, <1>10 DEF Next, PollStep

-----------------------------------------------------------------------------
(* A mail is stored first. *)

\* What a call knows of its mail, and the three ways to keep it true: the call
\* does not move, ends, or has just begun.
CallHonest(w) ==
    /\ job[w].at # "none" => job[w].m # None
    /\ job[w].at \in {"att", "attrow"} => job[w].m \in past.stored
    /\ job[w].at = "answer" =>
          job[w].res # None /\ (job[w].res \in {"ok", "duplicate"} => job[w].m \in past.stored)

LEMMA CallsHonest ==
    ASSUME StoredFirst, NEW w \in Workers
    PROVE  CallHonest(w)
BY DEF StoredFirst, CallHonest

\* Rows that are kept or go, pollers that move and servers that keep their mail.
LEMMA StoredStays ==
    ASSUME IngestTypeOK, StoredFirst,
           \A k \in Keys : row'[k] # NoRow => row'[k] = row[k],
           PollersMove \/ poller' = poller \/ poller' = [p \in Slots |-> Rested],
           Polled \ upstream' \subseteq past.stored, Posted \ unposted' \subseteq past.stored,
           past'.stored = past.stored, \A w \in Workers : CallHonest(w)'
    PROVE  StoredFirst'
<1>1. KeptBeforeDeleted'
  BY DEF KeptBeforeDeleted
<1>2. \A k \in Live' : row'[k].m \in past'.stored
  BY DEF Live, StoredFirst
<1>3. \A p \in Slots : poller'[p].marked \subseteq past'.stored
  <2>1. CASE PollersMove
    <3>1. ASSUME NEW p \in Slots, job[p].at = "answer", job[p].res \notin {"transient", "persistent"}
          PROVE  job[p].m \in past.stored
      <4>1. p \in Workers /\ job[p] \in JobRow
        BY DEF Workers, IngestTypeOK
      <4>2. job[p].res \in {"ok", "duplicate"}
        BY <3>1, <4>1 DEF StoredFirst, JobRow
      <4> QED BY <3>1, <4>1, <4>2 DEF StoredFirst
    <3>2. \A p \in Slots : poller[p].marked \subseteq past.stored
      BY DEF StoredFirst
    <3> QED BY <2>1, <3>1, <3>2 DEF PollersMove
  <2>2. CASE poller' = poller
    BY <2>2 DEF StoredFirst
  <2>3. CASE poller' = [p \in Slots |-> Rested]
    BY <2>3 DEF Rested
  <2> QED BY <2>1, <2>2, <2>3
<1> QED BY <1>1, <1>2, <1>3 DEF StoredFirst, CallHonest

\* Of an ingest's steps only CreateMessage stores a mail, and it goes on with it.
LEMMA IngestStores ==
    ASSUME IngestTypeOK, StoredFirst, JobKeys, NEW w \in Workers, NEW fails \in BOOLEAN, IngestStep(w, fails)
    PROVE  /\ past.stored \subseteq past'.stored /\ CallHonest(w)'
           /\ \A k \in Keys : row'[k] # NoRow => row'[k].m = row[k].m \/ row'[k].m \in past'.stored
           /\ \A k \in Keys : row'[k] # NoRow => row[k] # NoRow \/ row'[k].m \in past'.stored
<1> USE CallsHonest
<1>0. /\ job'[w].m = job[w].m /\ job[w].m # None /\ job'[w].at # "none"
      /\ row \in [Keys -> MessageRow] /\ job[w] \in JobRow /\ job[w].m \in Mails
  BY IngestTyped DEF CallHonest, IngestTypeOK, JobRow
<1>1. ASSUME NEW res \in {"transient", "persistent"}, Answer(w, res), past' = past PROVE CallHonest(w)'
  BY <1>0, <1>1, JobAnswered DEF CallHonest, None
<1>2. ASSUME NEW res \in {"ok", "duplicate"}, Answer(w, res), past' = past, job[w].m \in past.stored
      PROVE  CallHonest(w)'
  BY <1>0, <1>2, JobAnswered DEF CallHonest, None
<1>3. ASSUME NEW at \in {"exists", "raw", "row"}, Goto(w, at) PROVE CallHonest(w)'
  BY <1>0, <1>3, JobGoes DEF CallHonest
<1>4. ASSUME NEW at \in {"att", "attrow"}, Goto(w, at), job[w].m \in past'.stored PROVE CallHonest(w)'
  BY <1>0, <1>4, JobGoes DEF CallHonest
<1>s. Stored(job[w].m) => job[w].m \in past.stored
  BY DEF Stored, StoredFirst
<1>5. CASE Resolve(w, fails)
  <2>1. Answer(w, "persistent") \/ job' = [job EXCEPT ![w].at = "exists", ![w].b = box]
    BY <1>5 DEF Resolve
  <2>2. job' = [job EXCEPT ![w].at = "exists", ![w].b = box] => CallHonest(w)'
    BY <1>0, JobFindsBox DEF CallHonest
  <2>3. row' = row /\ past' = past
    BY <1>5 DEF Resolve
  <2> QED BY <1>1, <2>1, <2>2, <2>3
<1>6. CASE ExistsByMessageID(w, fails)
  <2>1. row' = row /\ past' = past
    BY <1>6 DEF ExistsByMessageID
  <2>2. Answer(w, "transient") \/ (Answer(w, "duplicate") /\ Stored(job[w].m)) \/ Goto(w, "raw")
    BY <1>6 DEF ExistsByMessageID
  <2> QED BY <1>1, <1>2, <1>3, <1>s, <2>1, <2>2
<1>7. CASE SaveRaw(w, fails)
  <2>1. CASE fails
    BY <1>1, <1>7, <2>1 DEF SaveRaw
  <2>2. CASE ~fails
    <3>1. PICK k \in Keys : /\ job' = [job EXCEPT ![w].at = "row", ![w].k = k]
                            /\ past' = [past EXCEPT !.excused = past.excused \ {k}]
      BY <1>7, <2>2 DEF SaveRaw, NewKey
    <3>2. row' = row /\ past'.stored = past.stored
      BY <1>7, <3>1 DEF SaveRaw, IngestTypeOK
    <3>3. CallHonest(w)'
      BY <1>0, <3>1, JobTakesKey DEF CallHonest
    <3> QED BY <3>2, <3>3
  <2> QED BY <2>1, <2>2
<1>8. CASE CreateMessage(w, fails)
  <2>1. CASE fails \/ Cut(w) \/ box # job[w].b \/ Stored(job[w].m)
    <3>1. Answer(w, IF ~fails /\ ~Cut(w) /\ box = job[w].b THEN "duplicate" ELSE "transient")
          /\ row' = row /\ past' = past
      BY <1>8, <2>1 DEF CreateMessage
    <3>2. (Answer(w, "duplicate") /\ Stored(job[w].m)) \/ Answer(w, "transient")
      BY <2>1, <3>1
    <3> QED BY <1>1, <1>2, <1>s, <3>1, <3>2
  <2>2. CASE ~(fails \/ Cut(w) \/ box # job[w].b \/ Stored(job[w].m))
    <3> DEFINE new == [m |-> job[w].m, att |-> FALSE]
    <3>1. Goto(w, "att") /\ row' = [row EXCEPT ![job[w].k] = new]
          /\ past'.stored = past.stored \cup {job[w].m}
      BY <1>8, <2>2 DEF CreateMessage
    <3>2. \A k \in Keys : row'[k] = row[k] \/ row'[k] = new
      BY <1>0, <3>1
    <3>3. new.m \in past'.stored
      BY <3>1
    <3> HIDE DEF new
    <3> QED BY <1>4, <3>1, <3>2, <3>3
  <2> QED BY <2>1, <2>2
<1>9. CASE SaveAttachment(w, fails)
  <2>1. row' = row /\ past' = past /\ job[w].m \in past.stored
    BY <1>9 DEF SaveAttachment, CallHonest
  <2>2. Answer(w, "ok") \/ Goto(w, "attrow")
    BY <1>9 DEF SaveAttachment
  <2> QED BY <1>2, <1>4, <2>1, <2>2
<1>10. CASE storeInboundAttachments(w, fails)
  <2>1. Answer(w, "ok") /\ past' = past /\ job[w].m \in past.stored
    BY <1>10 DEF storeInboundAttachments, CallHonest
  <2>2. row' = row \/ (row[job[w].k] # NoRow /\ row' = [row EXCEPT ![job[w].k].att = TRUE])
    BY <1>10 DEF storeInboundAttachments, CreateAttachment
  <2>3. \A k \in Keys : row'[k] # NoRow => row[k] # NoRow /\ row'[k].m = row[k].m
    BY <1>0, <2>2 DEF MessageRow
  <2> QED BY <1>2, <2>1, <2>3
<1> QED BY <1>5, <1>6, <1>7, <1>8, <1>9, <1>10 DEF IngestStep

LEMMA StoredStep ==
    ASSUME IngestTypeOK, StoredFirst, JobKeys, [Next]_vars
    PROVE  StoredFirst'
<1>0. Polled \ upstream \subseteq past.stored /\ Posted \ unposted \subseteq past.stored
      /\ \A w \in Workers : CallHonest(w)
  BY CallsHonest DEF StoredFirst, KeptBeforeDeleted
<1>j. job' = job /\ past'.stored = past.stored => \A w \in Workers : CallHonest(w)'
  BY <1>0 DEF CallHonest
<1>n. ASSUME NEW w \in Workers, job' = [job EXCEPT ![w] = NoJob], past'.stored = past.stored
      PROVE  \A v \in Workers : CallHonest(v)'
  BY <1>0, <1>n, RestTyped DEF CallHonest, NoJob, IngestTypeOK
<1>m. ASSUME NEW w \in Workers, NEW m \in Mails, past'.stored = past.stored,
             job' = [job EXCEPT ![w] = [NoJob EXCEPT !.at = "resolve", !.m = m]]
      PROVE  \A v \in Workers : CallHonest(v)'
  <2>1. m # None
    BY MailIngestAssumption DEF Mails, None
  <2>2. \A v \in Workers \ {w} : job'[v] = job[v]
    BY <1>m, JobStarts
  <2>3. job'[w].at = "resolve" /\ job'[w].m = m
    BY <1>m, JobStarts
  <2> QED BY <1>0, <1>m, <2>1, <2>2, <2>3 DEF CallHonest
<1>1. CASE UNCHANGED vars
  BY <1>0, <1>1, <1>j, StoredStays DEF vars
<1>2. CASE upsert \/ delete \/ createMailbox
  <2>1. UNCHANGED <<upstream, unposted, row, poller, job, past>>
    BY <1>2 DEF upsert, delete, createMailbox
  <2> QED BY <1>0, <1>j, <2>1, StoredStays
<1>3. CASE Sync \/ SyncEarly \/ SyncFails \/ \E p \in Slots : Exit(p)
  <2>1. UNCHANGED <<upstream, unposted, row, job, past>>
    BY <1>3 DEF Sync, SyncEarly, SyncFails, Exit
  <2>2. PollersMove
    BY <1>3, CoordinatorMoves
  <2> QED BY <1>0, <1>j, <2>1, <2>2, StoredStays
<1>4. CASE Test \/ \E p \in Slots : Dial(p) \/ Break(p) \/ Fetch(p) \/ Settle(p) \/ EndPoll(p)
  <2>1. PollersMove
    BY <1>4, SweepMoves
  <2>2. UNCHANGED <<unposted, row, past>>
    BY <1>4 DEF Test, Dial, Break, Fetch, Settle, EndPoll
  <2>3. Polled \ upstream' \subseteq past.stored
    <3>1. ASSUME NEW p \in Slots, EndPoll(p) PROVE Polled \ upstream' \subseteq past.stored
      <4>1. upstream' = upstream \ poller[p].marked \/ upstream' = upstream
        BY <3>1 DEF EndPoll
      <4> QED BY <1>0, <4>1 DEF StoredFirst
    <3>2. ASSUME NEW p \in Slots, Dial(p) \/ Break(p) \/ Fetch(p) \/ Settle(p) PROVE upstream' = upstream
      BY <3>2 DEF Dial, Break, Fetch, Settle
    <3>3. Test => upstream' = upstream
      BY DEF Test
    <3> QED BY <1>0, <1>4, <3>1, <3>2, <3>3
  <2>4. \A w \in Workers : CallHonest(w)'
    <3>0. Slots \subseteq Workers
      BY DEF Workers
    <3>1. ASSUME NEW p \in Slots, Fetch(p) PROVE \A w \in Workers : CallHonest(w)'
      <4>1. PICK m \in poller[p].todo :
               job' = job \/ job' = [job EXCEPT ![p] = [NoJob EXCEPT !.at = "resolve", !.m = m]]
        BY <3>1 DEF Fetch
      <4>2. m \in Mails /\ p \in Workers
        BY <3>0, PollerOfRow
      <4> QED BY <1>j, <1>m, <2>2, <4>1, <4>2
    <3>2. ASSUME NEW p \in Slots, Settle(p) PROVE \A w \in Workers : CallHonest(w)'
      <4>1. job' = [job EXCEPT ![p] = NoJob]
        BY <3>2 DEF Settle
      <4> QED BY <1>n, <2>2, <3>0, <4>1
    <3>3. ASSUME NEW p \in Slots, Dial(p) \/ Break(p) \/ EndPoll(p) PROVE job' = job
      BY <3>3 DEF Dial, Break, EndPoll
    <3>4. Test => job' = job
      BY DEF Test
    <3> QED BY <1>4, <1>j, <2>2, <3>1, <3>2, <3>3, <3>4
  <2> QED BY <1>0, <2>1, <2>2, <2>3, <2>4, StoredStays
<1>5. CASE Post \/ HangUp \/ Respond
  <2>1. UNCHANGED <<upstream, row, poller, past>>
    BY <1>5 DEF Post, HangUp, Respond
  <2>2. "hook" \in Workers /\ job \in [Workers -> JobRow] /\ CallHonest("hook")
    BY <1>0 DEF Workers, IngestTypeOK
  <2>3. Posted \ unposted' \subseteq past.stored
    <3>1. CASE Respond
      <4>1. unposted' = unposted
            \/ (job["hook"].res \in {"ok", "duplicate"} /\ job["hook"].at = "answer"
                /\ unposted' = unposted \ {job["hook"].m})
        BY <3>1 DEF Respond
      <4> QED BY <1>0, <2>2, <4>1 DEF CallHonest
    <3>2. CASE Post \/ HangUp
      BY <1>0, <3>2 DEF Post, HangUp
    <3> QED BY <1>5, <3>1, <3>2
  <2>4. \A w \in Workers : CallHonest(w)'
    <3>1. CASE Post
      <4>1. PICK m \in unposted : job' = [job EXCEPT !["hook"] = [NoJob EXCEPT !.at = "resolve", !.m = m]]
        BY <3>1 DEF Post
      <4>2. m \in Mails
        BY DEF IngestTypeOK, Mails
      <4> QED BY <1>m, <2>1, <2>2, <4>1, <4>2
    <3>2. CASE HangUp
      <4> DEFINE j == [job["hook"] EXCEPT !.cut = TRUE]
      <4>1. job' = [job EXCEPT !["hook"] = j]
        BY <3>2 DEF HangUp
      <4>2. j.at = job["hook"].at /\ j.m = job["hook"].m /\ j.res = job["hook"].res
        BY <2>2 DEF JobRow
      <4> HIDE DEF j
      <4> QED BY <1>0, <2>1, <2>2, <4>1, <4>2 DEF CallHonest
    <3>3. CASE Respond
      BY <1>n, <2>1, <2>2, <3>3 DEF Respond
    <3> QED BY <1>5, <3>1, <3>2, <3>3
  <2> QED BY <1>0, <2>1, <2>3, <2>4, StoredStays
<1>6. ASSUME NEW w \in Workers, Ingest(w) \/ IngestFails(w)
      PROVE  StoredFirst'
  <2>1. PICK fails \in BOOLEAN : IngestStep(w, fails)
    BY <1>6 DEF Ingest, IngestFails
  <2>2. UNCHANGED <<upstream, unposted, poller>>
    BY <2>1 DEF IngestStep
  <2>3. /\ past.stored \subseteq past'.stored /\ CallHonest(w)'
        /\ \A k \in Keys : row'[k] # NoRow => row'[k].m = row[k].m \/ row'[k].m \in past'.stored
        /\ \A k \in Keys : row'[k] # NoRow => row[k] # NoRow \/ row'[k].m \in past'.stored
    BY <2>1, IngestStores
  <2>4. \A v \in Workers \ {w} : job'[v] = job[v]
    BY <2>1, IngestTyped
  <2>5. \A v \in Workers : CallHonest(v)'
    BY <1>0, <2>3, <2>4 DEF CallHonest
  <2>6. \A k \in Live' : row'[k].m \in past'.stored
    BY <2>3 DEF Live, StoredFirst
  <2>7. KeptBeforeDeleted' /\ \A p \in Slots : poller'[p].marked \subseteq past'.stored
    BY <2>2, <2>3 DEF KeptBeforeDeleted, StoredFirst
  <2> QED BY <2>5, <2>6, <2>7 DEF StoredFirst, CallHonest
<1>8. CASE Request \/ RequestStep
  <2>1. UNCHANGED <<upstream, unposted, poller, job>>
    BY <1>8 DEF Request, RequestStep
  <2>2. past'.stored = past.stored /\ \A k \in Keys : row'[k] # NoRow => row'[k] = row[k]
    BY <1>8, RequestTyped
  <2> QED BY <1>0, <1>j, <2>1, <2>2, StoredStays
<1>9. CASE Abandon
  <2>1. UNCHANGED <<upstream, unposted, row, poller, job, past>>
    BY <1>9 DEF Abandon
  <2> QED BY <1>0, <1>j, <2>1, StoredStays
<1>10. CASE Crash
  <2>1. UNCHANGED <<upstream, unposted, row, past>>
        /\ poller' = [p \in Slots |-> Rested] /\ job' = [w \in Workers |-> NoJob]
    BY <1>10 DEF Crash
  <2>2. \A w \in Workers : CallHonest(w)'
    BY <2>1 DEF CallHonest, NoJob
  <2> QED BY <1>0, <2>1, <2>2, StoredStays
<1>11. QED
  BY <1>1, <1>2, <1>3, <1>4, <1>5, <1>6, <1>8, <1>9, <1>10 DEF Next, PollStep

-----------------------------------------------------------------------------
(* Names, rows and files agree. *)

\* Ingests that have no file yet, have ended or begin.
LEMMA KeysQuiet ==
    ASSUME IngestTypeOK, KeyInv, UNCHANGED <<row, files, req, past>>, NEW w \in Workers,
           \A v \in Workers \ {w} : job'[v] = job[v], job[w].at \notin {"row", "attrow"},
           job'[w].at \in {"none", "resolve", "exists", "raw", "answer"},
           job'[w].k \in {0, job[w].k}, job'[w].at # "answer" => job'[w].k = 0
    PROVE  KeyInv'
<1>0. Live' = Live /\ \A k : Raw(k)' = Raw(k) /\ Att(k)' = Att(k)
  BY DEF Live, Raw, Att
<1>k. KeysApart /\ JobKeys /\ RequestKeys /\ RowsHaveFiles /\ ExtraFiles /\ FilesHaveOwners
  BY DEF KeyInv
<1>1. KeysApart'
  BY <1>k DEF KeysApart
<1>2. JobKeys'
  BY <1>0, <1>k DEF JobKeys
<1>3. RequestKeys'
  <2>1. \A k \in Keys : Ingesting(k)' => Ingesting(k)
    BY DEF Ingesting
  <2>2. req.at \in {"row", "files"} => req.k \in Keys
    BY <1>k DEF RequestKeys, IngestTypeOK, Deletion, Live
  <2> QED BY <1>0, <1>k, <2>1, <2>2 DEF RequestKeys
<1>4. RowsHaveFiles'
  BY <1>0, <1>k DEF RowsHaveFiles
<1>5. ExtraFiles'
  BY <1>0, <1>k DEF ExtraFiles
<1>6. FilesHaveOwners'
  BY <1>0, <1>k DEF FilesHaveOwners, Owner
<1> QED BY <1>1, <1>2, <1>3, <1>4, <1>5, <1>6 DEF KeyInv

\* No call changes its station or its name.
LEMMA KeysStay ==
    ASSUME KeyInv, UNCHANGED <<row, files, req, past>>,
           \A v \in Workers : job'[v].at = job[v].at /\ job'[v].k = job[v].k
    PROVE  KeyInv'
<1>0. Live' = Live /\ \A k : Raw(k)' = Raw(k) /\ Att(k)' = Att(k)
  BY DEF Live, Raw, Att
<1>k. KeysApart /\ JobKeys /\ RequestKeys /\ RowsHaveFiles /\ ExtraFiles /\ FilesHaveOwners
  BY DEF KeyInv
<1>1. KeysApart'
  BY <1>k DEF KeysApart
<1>2. JobKeys'
  BY <1>0, <1>k DEF JobKeys
<1>3. RequestKeys'
  <2>1. \A k : Ingesting(k)' <=> Ingesting(k)
    BY DEF Ingesting
  <2> QED BY <1>0, <1>k, <2>1 DEF RequestKeys
<1>4. RowsHaveFiles' /\ ExtraFiles' /\ FilesHaveOwners'
  BY <1>0, <1>k DEF RowsHaveFiles, ExtraFiles, FilesHaveOwners, Owner
<1> QED BY <1>1, <1>2, <1>3, <1>4 DEF KeyInv

\* The deletion looks for its messages.
LEMMA RequestMoves ==
    ASSUME IngestTypeOK, KeyInv, UNCHANGED <<row, files, job>>, past.excused \subseteq past'.excused,
           RequestKeys', req'.k \in Live \cup {0}, req.at # "files"
    PROVE  KeyInv'
<1>0. Live' = Live /\ \A k : Raw(k)' = Raw(k) /\ Att(k)' = Att(k)
  BY DEF Live, Raw, Att
<1>k. KeysApart /\ JobKeys /\ RowsHaveFiles /\ ExtraFiles /\ FilesHaveOwners
  BY DEF KeyInv
<1>1. KeysApart'
  BY <1>k DEF KeysApart
<1>2. JobKeys'
  BY <1>0, <1>k DEF JobKeys
<1>4. RowsHaveFiles' /\ ExtraFiles' /\ FilesHaveOwners'
  BY <1>0, <1>k DEF RowsHaveFiles, ExtraFiles, FilesHaveOwners, Owner
<1> QED BY <1>1, <1>2, <1>4 DEF KeyInv

\* SaveRaw takes a name that nothing holds.
LEMMA RawSaved ==
    ASSUME IngestTypeOK, KeyInv, NEW w \in Workers, SaveRaw(w, FALSE), UNCHANGED req
    PROVE  KeyInv'
<1>k. KeysApart /\ JobKeys /\ RequestKeys /\ RowsHaveFiles /\ ExtraFiles /\ FilesHaveOwners
  BY DEF KeyInv
<1>1. PICK k \in Keys : /\ k \notin Held
                        /\ job' = [job EXCEPT ![w].at = "row", ![w].k = k]
                        /\ files' = files \cup {<<"raw", k>>}
                        /\ past' = [past EXCEPT !.excused = past.excused \ {k}]
  BY DEF SaveRaw, NewKey, Save
<1>2. job[w].at = "raw" /\ row' = row /\ job[w].k = 0
  BY <1>k DEF SaveRaw, JobKeys
<1>3. k \notin Live /\ (\A v \in Workers : job[v].k # k) /\ req.k # k /\ \A f \in files : f[2] # k
  BY <1>1 DEF Held
<1>4. ~Raw(k) /\ ~Att(k)
  BY <1>3 DEF Raw, Att
<1>5. Live' = Live /\ Raw(k)' /\ ~Att(k)' /\ \A i \in Keys \ {k} : Raw(i)' = Raw(i) /\ Att(i)' = Att(i)
  BY <1>1, <1>2, <1>4 DEF Live, Raw, Att
<1>6. k # 0 /\ Live \subseteq Keys /\ past'.excused = past.excused \ {k}
  BY <1>1, MailIngestAssumption DEF Live, IngestTypeOK
<1>7. job'[w].at = "row" /\ job'[w].k = k /\ \A v \in Workers \ {w} : job'[v] = job[v]
  BY <1>1, JobTakesKey
<1>t. \A v \in Workers : job[v].k \in Keys \cup {0}
  BY DEF IngestTypeOK, JobRow
<1>8. KeysApart'
  BY <1>3, <1>6, <1>7, <1>k DEF KeysApart
<1>9. JobKeys'
  BY <1>2, <1>3, <1>5, <1>6, <1>7, <1>k, <1>t DEF JobKeys
<1>10. RequestKeys'
  <2>1. \A i \in Keys \ {k} : Ingesting(i)' => Ingesting(i)
    BY <1>7 DEF Ingesting
  <2>2. req.k \in Keys \cup {0}
    BY DEF IngestTypeOK, Deletion
  <2>3. req.at \in {"row", "files"} => req.k \in Keys \ {k}
    BY <1>3, <1>6, <1>k, <2>2 DEF RequestKeys
  <2> QED BY <1>3, <1>5, <1>6, <1>k, <2>1, <2>3 DEF RequestKeys
<1>11. RowsHaveFiles' /\ ExtraFiles'
  BY <1>2, <1>3, <1>5, <1>6, <1>7, <1>k DEF RowsHaveFiles, ExtraFiles
<1>12. FilesHaveOwners'
  BY <1>2, <1>3, <1>5, <1>6, <1>7, <1>k DEF FilesHaveOwners, Owner
<1> QED BY <1>8, <1>9, <1>10, <1>11, <1>12 DEF KeyInv

\* CreateMessage gives the name its row, or takes its file away.
LEMMA MessageCreated ==
    ASSUME IngestTypeOK, StoredFirst, KeyInv, NEW w \in Workers, NEW fails \in BOOLEAN,
           CreateMessage(w, fails), UNCHANGED req
    PROVE  KeyInv'
<1>k. KeysApart /\ JobKeys /\ RequestKeys /\ RowsHaveFiles /\ ExtraFiles /\ FilesHaveOwners
  BY DEF KeyInv
<1>0. PICK k \in Keys : k = job[w].k
  <2>1. job[w].at \in {"row", "att", "attrow"} /\ job[w].k \in Keys \cup {0}
    BY DEF CreateMessage, IngestTypeOK, JobRow
  <2> QED BY <1>k, <2>1 DEF JobKeys
<1>1. /\ job[w].at = "row" /\ k # 0 /\ k \notin Live /\ k # req.k /\ Raw(k) /\ ~Att(k)
      /\ \A v \in Workers \ {w} : job[v].k # k
  BY <1>0, <1>k DEF CreateMessage, JobKeys, KeysApart
<1>2. k \in Keys /\ row \in [Keys -> MessageRow] /\ (\A v \in Workers : job[v].k \in Keys \cup {0})
  BY <1>0, <1>1 DEF IngestTypeOK, JobRow
<1>3. CASE fails \/ Cut(w) \/ box # job[w].b \/ Stored(job[w].m)
  <2>1. Answer(w, IF ~fails /\ ~Cut(w) /\ box = job[w].b THEN "duplicate" ELSE "transient")
        /\ files' = files \ {<<"raw", k>>} /\ row' = row /\ past' = past
    BY <1>0, <1>3 DEF CreateMessage, Remove
  <2>2. Answer(w, "duplicate") \/ Answer(w, "transient")
    BY <1>0, <2>1
  <2>3. job'[w].at = "answer" /\ job'[w].k = k /\ \A v \in Workers \ {w} : job'[v] = job[v]
    BY <1>0, <2>2, JobAnswered
  <2>4. Live' = Live /\ ~Raw(k)' /\ ~Att(k)' /\ \A i \in Keys \ {k} : Raw(i)' = Raw(i) /\ Att(i)' = Att(i)
    BY <1>0, <1>1, <2>1 DEF Live, Raw, Att
  <2>5. KeysApart'
    BY <1>0, <1>1, <1>k, <2>3 DEF KeysApart
  <2>6. JobKeys'
    BY <1>0, <1>1, <1>2, <1>k, <2>1, <2>3, <2>4 DEF JobKeys
  <2>7. RequestKeys'
    <3>1. \A i \in Keys : Ingesting(i)' => Ingesting(i)
      BY <1>0, <2>3 DEF Ingesting
    <3>2. req.at \in {"row", "files"} => req.k \in Keys \ {k}
      BY <1>0, <1>1, <1>k DEF RequestKeys, IngestTypeOK, Deletion, Live
    <3> QED BY <1>0, <1>k, <2>1, <2>4, <3>1, <3>2 DEF RequestKeys
  <2>8. RowsHaveFiles' /\ ExtraFiles' /\ FilesHaveOwners'
    BY <1>0, <1>1, <1>2, <1>k, <2>1, <2>3, <2>4 DEF RowsHaveFiles, ExtraFiles, FilesHaveOwners, Owner, Live
  <2> QED BY <1>0, <2>5, <2>6, <2>7, <2>8 DEF KeyInv
<1>4. CASE ~(fails \/ Cut(w) \/ box # job[w].b \/ Stored(job[w].m))
  <2> DEFINE new == [m |-> job[w].m, att |-> FALSE]
  <2>1. /\ Goto(w, "att") /\ files' = files
        /\ row' = [row EXCEPT ![k] = new]
        /\ past'.excused = past.excused \cup (IF req.kind = "mailbox" THEN {k} ELSE {})
    BY <1>0, <1>4 DEF CreateMessage
  <2>2. job'[w].at = "att" /\ job'[w].k = k /\ \A v \in Workers \ {w} : job'[v] = job[v]
    BY <1>0, <2>1, JobGoes
  <2>3. new # NoRow /\ new.att = FALSE
    BY <1>0, <1>1 DEF NoRow, StoredFirst
  <2>4. row'[k] = new /\ \A i \in Keys \ {k} : row'[i] = row[i]
    BY <1>0, <1>2, <2>1
  <2>5. Live' = Live \cup {k} /\ \A i \in Keys : Raw(i)' = Raw(i) /\ Att(i)' = Att(i)
    <3>1. \A i \in Keys : Raw(i)' = Raw(i) /\ Att(i)' = Att(i)
      BY <1>0, <2>1 DEF Raw, Att
    <3> HIDE DEF new
    <3> QED BY <1>0, <1>2, <2>3, <2>4, <3>1 DEF Live
  <2> HIDE DEF new
  <2>6. KeysApart'
    BY <1>0, <1>1, <1>k, <2>2 DEF KeysApart
  <2>7. JobKeys'
    BY <1>0, <1>1, <1>2, <1>k, <2>1, <2>2, <2>3, <2>4, <2>5 DEF JobKeys, Live
  <2>8. RequestKeys'
    <3>1. \A i \in Keys \ {k} : Ingesting(i)' => Ingesting(i)
      BY <1>0, <2>2 DEF Ingesting
    <3>2. req.at \in {"row", "files"} => req.k \in Keys \ {k}
      BY <1>0, <1>1, <1>k DEF RequestKeys, IngestTypeOK, Deletion, Live
    <3>3. req.at = "box" => Live' \subseteq past'.excused
      BY <1>0, <1>k, <2>1, <2>5 DEF RequestKeys
    <3>4. req.at \in {"row", "files"} /\ req.k \notin past'.excused =>
             ~Ingesting(req.k)' /\ (Att(req.k)' => req.att)
      BY <1>0, <1>k, <2>1, <2>5, <3>1, <3>2 DEF RequestKeys
    <3>5. req.todo \subseteq Live' /\ (req.at = "files" => req.k \notin Live')
      BY <1>0, <1>1, <1>k, <2>5 DEF RequestKeys
    <3> QED BY <1>0, <1>k, <2>5, <3>3, <3>4, <3>5 DEF RequestKeys
  <2>9. RowsHaveFiles' /\ ExtraFiles'
    BY <1>0, <1>1, <1>2, <1>k, <2>2, <2>3, <2>4, <2>5 DEF RowsHaveFiles, ExtraFiles, Live
  <2>10. FilesHaveOwners'
    BY <1>0, <1>1, <1>2, <1>k, <2>1, <2>2, <2>5 DEF FilesHaveOwners, Owner
  <2> QED BY <1>0, <2>6, <2>7, <2>8, <2>9, <2>10 DEF KeyInv
<1> QED BY <1>0, <1>3, <1>4

\* SaveAttachment, when the blob store takes it.
LEMMA AttachmentSaved ==
    ASSUME IngestTypeOK, KeyInv, NEW w \in Workers, SaveAttachment(w, FALSE), UNCHANGED req
    PROVE  KeyInv'
<1>k. KeysApart /\ JobKeys /\ RequestKeys /\ RowsHaveFiles /\ ExtraFiles /\ FilesHaveOwners
  BY DEF KeyInv
<1>0. PICK k \in Keys : k = job[w].k
  <2>1. job[w].at \in {"row", "att", "attrow"} /\ job[w].k \in Keys \cup {0}
    BY DEF SaveAttachment, IngestTypeOK, JobRow
  <2> QED BY <1>k, <2>1 DEF JobKeys
<1>1. /\ job[w].at = "att" /\ k # 0 /\ k \in Live \cup past.excused /\ ~Att(k)
      /\ \A v \in Workers \ {w} : job[v].k # k
  BY <1>0, <1>k DEF SaveAttachment, JobKeys, KeysApart
<1>2. k \in Keys /\ row \in [Keys -> MessageRow] /\ (\A v \in Workers : job[v].k \in Keys \cup {0})
  BY <1>0, <1>1 DEF IngestTypeOK, JobRow
<1>3. Goto(w, "attrow") /\ files' = files \cup {<<"att", k>>} /\ row' = row /\ past' = past
  BY <1>0 DEF SaveAttachment, Save
<1>4. job'[w].at = "attrow" /\ job'[w].k = k /\ \A v \in Workers \ {w} : job'[v] = job[v]
  BY <1>0, <1>3, JobGoes
<1>5. Live' = Live /\ Att(k)' /\ (\A i \in Keys : Raw(i)' = Raw(i)) /\ \A i \in Keys \ {k} : Att(i)' = Att(i)
  BY <1>0, <1>3 DEF Live, Raw, Att
<1>6. Ingesting(k) /\ (k \in Live => ~row[k].att)
  BY <1>0, <1>1, <1>k DEF Ingesting, RowsHaveFiles
<1>7. KeysApart'
  BY <1>0, <1>1, <1>4, <1>k DEF KeysApart
<1>8. JobKeys'
  BY <1>0, <1>1, <1>2, <1>3, <1>4, <1>5, <1>6, <1>k DEF JobKeys
<1>9. RequestKeys'
  <2>1. \A i \in Keys : Ingesting(i)' => Ingesting(i)
    BY <1>0, <1>1, <1>4, <1>6 DEF Ingesting
  <2>2. req.at \in {"row", "files"} => req.k \in Keys
    BY <1>0, <1>k DEF RequestKeys, IngestTypeOK, Deletion, Live
  <2>3. req.at \in {"row", "files"} /\ req.k \notin past'.excused =>
             ~Ingesting(req.k)' /\ (Att(req.k)' => req.att)
    BY <1>0, <1>3, <1>5, <1>6, <1>k, <2>1, <2>2 DEF RequestKeys
  <2> QED BY <1>0, <1>3, <1>5, <1>k, <2>3 DEF RequestKeys
<1>10. RowsHaveFiles' /\ FilesHaveOwners'
  BY <1>0, <1>1, <1>2, <1>3, <1>4, <1>5, <1>k DEF RowsHaveFiles, FilesHaveOwners, Owner, Live
<1>11. ExtraFiles'
  BY <1>0, <1>1, <1>2, <1>3, <1>4, <1>5, <1>k DEF ExtraFiles, Live
<1> QED BY <1>0, <1>7, <1>8, <1>9, <1>10, <1>11 DEF KeyInv

\* The row of the attachment, or its file taken away.
LEMMA AttachmentStored ==
    ASSUME IngestTypeOK, KeyInv, NEW w \in Workers, NEW fails \in BOOLEAN,
           storeInboundAttachments(w, fails), UNCHANGED req
    PROVE  KeyInv'
<1>k. KeysApart /\ JobKeys /\ RequestKeys /\ RowsHaveFiles /\ ExtraFiles /\ FilesHaveOwners
  BY DEF KeyInv
<1>0. PICK k \in Keys : k = job[w].k
  <2>1. job[w].at \in {"row", "att", "attrow"} /\ job[w].k \in Keys \cup {0}
    BY DEF storeInboundAttachments, IngestTypeOK, JobRow
  <2> QED BY <1>k, <2>1 DEF JobKeys
<1>1. /\ job[w].at = "attrow" /\ k # 0 /\ k \in Live \cup past.excused
      /\ (k \in Live => ~row[k].att /\ Att(k))
      /\ \A v \in Workers \ {w} : job[v].k # k
  BY <1>0, <1>k DEF storeInboundAttachments, JobKeys, KeysApart
<1>2. k \in Keys /\ row \in [Keys -> MessageRow] /\ (\A v \in Workers : job[v].k \in Keys \cup {0})
  BY <1>0, <1>1 DEF IngestTypeOK, JobRow
<1>3. Answer(w, "ok") /\ past' = past
  BY DEF storeInboundAttachments
<1>4. job'[w].at = "answer" /\ job'[w].k = k /\ \A v \in Workers \ {w} : job'[v] = job[v]
  BY <1>0, <1>3, JobAnswered
<1>5. KeysApart'
  BY <1>0, <1>1, <1>4, <1>k DEF KeysApart
<1>6. (\A i \in Keys : Ingesting(i)' => Ingesting(i)) /\ (req.at \in {"row", "files"} => req.k \in Keys)
  <2>1. \A i \in Keys : Ingesting(i)' => Ingesting(i)
    BY <1>0, <1>4 DEF Ingesting
  <2> QED BY <1>0, <1>k, <2>1 DEF RequestKeys, IngestTypeOK, Deletion, Live
<1>7. CASE fails \/ Cut(w) \/ row[k] = NoRow
  <2>1. files' = files \ {<<"att", k>>} /\ row' = row
    BY <1>0, <1>7 DEF storeInboundAttachments, Remove
  <2>2. Live' = Live /\ ~Att(k)' /\ (\A i \in Keys : Raw(i)' = Raw(i)) /\ \A i \in Keys \ {k} : Att(i)' = Att(i)
    BY <1>0, <2>1 DEF Live, Raw, Att
  <2>3. JobKeys'
    BY <1>0, <1>1, <1>2, <1>3, <1>4, <1>k, <2>1, <2>2 DEF JobKeys
  <2>4. RequestKeys'
    BY <1>0, <1>3, <1>6, <1>k, <2>2 DEF RequestKeys
  <2>5. RowsHaveFiles' /\ ExtraFiles' /\ FilesHaveOwners'
    BY <1>0, <1>1, <1>2, <1>3, <1>4, <1>k, <2>1, <2>2 DEF RowsHaveFiles, ExtraFiles, FilesHaveOwners, Owner, Live
  <2> QED BY <1>0, <1>5, <2>3, <2>4, <2>5 DEF KeyInv
<1>8. CASE ~(fails \/ Cut(w) \/ row[k] = NoRow)
  <2> DEFINE new == [row[k] EXCEPT !.att = TRUE]
  <2>1. files' = files /\ row' = [row EXCEPT ![k] = new]
    BY <1>0, <1>8 DEF storeInboundAttachments, CreateAttachment
  <2>2. new # NoRow /\ new.att = TRUE
    BY <1>0, <1>2 DEF NoRow, MessageRow
  <2>3. row'[k] = new /\ \A i \in Keys \ {k} : row'[i] = row[i]
    BY <1>0, <1>2, <2>1
  <2> HIDE DEF new
  <2>4. Live' = Live /\ k \in Live /\ \A i \in Keys : Raw(i)' = Raw(i) /\ Att(i)' = Att(i)
    <3>1. \A i \in Keys : Raw(i)' = Raw(i) /\ Att(i)' = Att(i)
      BY <1>0, <2>1 DEF Raw, Att
    <3>2. row[k] # NoRow
      BY <1>0, <1>8
    <3> QED BY <1>0, <1>2, <2>2, <2>3, <3>1, <3>2 DEF Live
  <2>5. JobKeys'
    BY <1>0, <1>1, <1>2, <1>3, <1>4, <1>k, <2>3, <2>4 DEF JobKeys, Live
  <2>6. RequestKeys'
    BY <1>0, <1>3, <1>6, <1>k, <2>4 DEF RequestKeys
  <2>7. RowsHaveFiles' /\ ExtraFiles' /\ FilesHaveOwners'
    BY <1>0, <1>1, <1>2, <1>3, <1>4, <1>k, <2>2, <2>3, <2>4 DEF RowsHaveFiles, ExtraFiles, FilesHaveOwners, Owner, Live
  <2> QED BY <1>0, <1>5, <2>5, <2>6, <2>7 DEF KeyInv
<1> QED BY <1>0, <1>7, <1>8

\* A request that looks at rows.
LEMMA RequestLooks ==
    ASSUME IngestTypeOK, KeyInv, UNCHANGED job,
           \/ Request \/ ListMessages \/ NextMessage \/ ReadMessage
           \/ Abandon \/ (DeleteMessage /\ req.k \notin Live)
    PROVE  KeyInv'
<1>k. RequestKeys /\ Live \subseteq Keys /\ req \in Deletion /\ past.excused \subseteq Keys
      /\ (\A w \in Workers : job[w].k \in Keys \cup {0})
      /\ (\A k \in Live : Att(k) /\ ~row[k].att => Ingesting(k))
  BY DEF KeyInv, IngestTypeOK, Live, JobRow, ExtraFiles, Ingesting
<1>0. UNCHANGED <<row, files>> => Live' = Live /\ \A k : Att(k)' = Att(k) /\ Ingesting(k)' = Ingesting(k)
  BY DEF Live, Att, Ingesting
<1>1. CASE Request
  <2>1. UNCHANGED <<row, files, past>> /\ req.at # "files"
    BY <1>1 DEF Request, NoReq
  <2>2. \/ \E k \in Live : req' = [NoReq EXCEPT !.kind = "message", !.at = "read", !.k = k]
        \/ req' = [NoReq EXCEPT !.kind = "mailbox", !.at = "list", !.b = box]
    BY <1>1 DEF Request
  <2>3. RequestKeys' /\ req'.k \in Live \cup {0}
    BY <1>0, <2>1, <2>2 DEF RequestKeys, NoReq
  <2> QED BY <2>1, <2>3, RequestMoves
<1>2. CASE ListMessages
  <2>1. UNCHANGED <<row, files, past>> /\ req.at = "list"
    BY <1>2 DEF ListMessages
  <2>2. PICK page \in Pages : req' = [req EXCEPT !.at = IF page = {} THEN "box" ELSE "next", !.todo = page]
    BY <1>2 DEF ListMessages
  <2>3. page \subseteq Live /\ (page = {} => Live = {})
    <3>1. Cardinality({}) = 0 /\ PageSize # 0
      BY FS_EmptySet, MailIngestAssumption
    <3> QED BY <3>1 DEF Pages
  <2>4. RequestKeys' /\ req'.k \in Live \cup {0}
    BY <1>0, <1>k, <2>1, <2>2, <2>3 DEF RequestKeys, Deletion
  <2> QED BY <2>1, <2>4, RequestMoves
<1>3. CASE NextMessage
  <2>1. UNCHANGED <<row, files, past>> /\ req.at = "next"
    BY <1>3 DEF NextMessage
  <2>2. PICK k \in req.todo : req' = [req EXCEPT !.at = "read", !.k = k, !.todo = req.todo \ {k}]
    BY <1>3 DEF NextMessage
  <2>3. RequestKeys' /\ req'.k \in Live \cup {0}
    BY <1>0, <1>k, <2>1, <2>2 DEF RequestKeys, Deletion
  <2> QED BY <2>1, <2>3, RequestMoves
<1>4. CASE ReadMessage
  <2> DEFINE more == {k \in {req.k} : Ingesting(k)}
  <2>1. req.at = "read" /\ req.k \in Live /\ UNCHANGED <<row, files>>
    BY <1>4, <1>k DEF ReadMessage, RequestKeys
  <2>2. req' = [req EXCEPT !.at = "row", !.att = row[req.k].att]
        /\ past' = [past EXCEPT !.excused = past.excused \cup more]
    BY <1>4, <2>1 DEF ReadMessage
  <2>3. past'.excused = past.excused \cup more
    BY <2>2 DEF IngestTypeOK
  <2>4. Ingesting(req.k) => req.k \in past'.excused
    BY <2>3
  <2>5. Att(req.k) /\ ~row[req.k].att => req.k \in past'.excused
    BY <1>k, <2>1, <2>4
  <2> HIDE DEF more
  <2>6. req'.at = "row" /\ req'.k = req.k /\ req'.att = row[req.k].att /\ req'.todo = req.todo /\ req'.kind = req.kind
    BY <1>k, <2>2 DEF Deletion
  <2>7. RequestKeys' /\ req'.k \in Live \cup {0}
    BY <1>0, <1>k, <2>1, <2>4, <2>5, <2>6 DEF RequestKeys, NoReq
  <2> QED BY <2>1, <2>3, <2>7, RequestMoves
<1>5. CASE Abandon
  <2>1. UNCHANGED <<row, files, past>> /\ req' = NoReq /\ req.at # "files"
    BY <1>5 DEF Abandon
  <2>2. RequestKeys' /\ req'.k \in Live \cup {0}
    BY <1>0, <2>1 DEF RequestKeys, NoReq
  <2> QED BY <2>1, <2>2, RequestMoves
<1>6. CASE DeleteMessage /\ req.k \notin Live
  BY <1>6, <1>k DEF DeleteMessage, RequestKeys
<1> QED BY <1>1, <1>2, <1>3, <1>4, <1>5, <1>6

\* The row goes first; its files are the request's from then on.
LEMMA MessageDeleted ==
    ASSUME IngestTypeOK, KeyInv, DeleteMessage, req.k \in Live, UNCHANGED job
    PROVE  KeyInv'
<1>k. KeysApart /\ JobKeys /\ RequestKeys /\ RowsHaveFiles /\ ExtraFiles /\ FilesHaveOwners
  BY DEF KeyInv
<1>0. PICK k \in Keys : k = req.k
  BY DEF Live
<1>1. req.at = "row" /\ k \in Live /\ k \notin req.todo /\ k # 0
      /\ (k \notin past.excused => ~Ingesting(k) /\ (Att(k) => req.att))
  BY <1>0, <1>k, MailIngestAssumption DEF DeleteMessage, RequestKeys
<1>2. req' = [req EXCEPT !.at = "files"] /\ row' = [row EXCEPT ![k] = NoRow] /\ UNCHANGED <<files, past>>
  BY <1>0 DEF DeleteMessage
<1>3. req'.at = "files" /\ req'.k = k /\ req'.att = req.att /\ req'.todo = req.todo /\ req'.kind = req.kind
  BY <1>0, <1>2 DEF IngestTypeOK, Deletion
<1>4. row \in [Keys -> MessageRow] /\ (\A v \in Workers : job[v].k \in Keys \cup {0})
  BY DEF IngestTypeOK, JobRow
<1>5. row'[k] = NoRow /\ \A i \in Keys \ {k} : row'[i] = row[i]
  BY <1>2, <1>4
<1>6. Live' = Live \ {k} /\ \A i : Raw(i)' = Raw(i) /\ Att(i)' = Att(i) /\ Ingesting(i)' = Ingesting(i)
  <2>1. \A i : Raw(i)' = Raw(i) /\ Att(i)' = Att(i) /\ Ingesting(i)' = Ingesting(i)
    BY <1>2 DEF Raw, Att, Ingesting
  <2> QED BY <1>5, <2>1 DEF Live
<1>7. KeysApart'
  BY <1>k DEF KeysApart
<1>8. JobKeys'
  <2>1. \A w \in Workers : job[w].at \in {"att", "attrow"} /\ job[w].k = k => k \in past.excused
    BY <1>1 DEF Ingesting
  <2>2. \A w \in Workers : job[w].at = "row" => job[w].k # k
    BY <1>1, <1>k DEF JobKeys
  <2>3. \A w \in Workers : job[w].at = "attrow" /\ job[w].k \in Live' => job[w].k \in Live /\ row'[job[w].k] = row[job[w].k]
    BY <1>5, <1>6 DEF Live
  <2> QED BY <1>2, <1>3, <1>6, <1>k, <2>1, <2>2, <2>3 DEF JobKeys
<1>9. RequestKeys'
  BY <1>0, <1>1, <1>2, <1>3, <1>6, <1>k DEF RequestKeys, NoReq
<1>10. RowsHaveFiles' /\ ExtraFiles'
  BY <1>5, <1>6, <1>k DEF RowsHaveFiles, ExtraFiles, Live
<1>11. FilesHaveOwners'
  BY <1>1, <1>2, <1>3, <1>6, <1>k DEF FilesHaveOwners, Owner
<1> QED BY <1>7, <1>8, <1>9, <1>10, <1>11 DEF KeyInv

\* Then they go.
LEMMA FilesDeleted ==
    ASSUME IngestTypeOK, KeyInv, DeleteFiles, UNCHANGED job
    PROVE  KeyInv'
<1>k. KeysApart /\ JobKeys /\ RequestKeys /\ RowsHaveFiles /\ ExtraFiles /\ FilesHaveOwners
  BY DEF KeyInv
<1>0. PICK k \in Keys : k = req.k
  BY <1>k DEF DeleteFiles, RequestKeys, IngestTypeOK, Deletion
<1>1. req.at = "files" /\ k \notin Live /\ k # 0
      /\ (k \notin past.excused => ~Ingesting(k) /\ (Att(k) => req.att))
  BY <1>0, <1>k DEF DeleteFiles, RequestKeys
<1>2. /\ UNCHANGED <<row, past>> /\ Done
      /\ files' = files \ ({<<"raw", k>>} \cup (IF req.att THEN {<<"att", k>>} ELSE {}))
  BY <1>0 DEF DeleteFiles
<1>3. /\ Live' = Live /\ ~Raw(k)' /\ (Att(k)' => Att(k) /\ ~req.att)
      /\ \A i \in Keys \ {k} : Raw(i)' = Raw(i) /\ Att(i)' = Att(i)
  BY <1>2 DEF Live, Raw, Att
<1>4. req' = NoReq \/ (req.kind = "mailbox" /\ req'.kind = req.kind /\ req'.todo = req.todo
                       /\ req'.at \in {"list", "next"} /\ req'.k = 0)
  <2>1. req.kind \in {"message", "mailbox"}
    BY <1>1, <1>k DEF RequestKeys, IngestTypeOK, Deletion, NoReq
  <2> QED BY <1>2, <2>1, DoneTyped
<1>5. row \in [Keys -> MessageRow] /\ (\A v \in Workers : job[v].k \in Keys \cup {0}) /\ Live \subseteq Keys
  BY DEF IngestTypeOK, JobRow, Live
<1>6. KeysApart'
  BY <1>k DEF KeysApart
<1>7. JobKeys'
  <2>1. \A w \in Workers : job[w].at = "row" => job[w].k # k
    BY <1>0, <1>k DEF JobKeys
  <2>2. \A w \in Workers : job[w].at = "att" => ~Att(job[w].k)'
    BY <1>3, <1>5, <1>k DEF JobKeys
  <2>3. req'.k = 0
    BY <1>4 DEF NoReq
  <2> QED BY <1>1, <1>2, <1>3, <1>5, <1>k, <2>1, <2>2, <2>3 DEF JobKeys
<1>8. RequestKeys'
  BY <1>3, <1>4, <1>k DEF RequestKeys, NoReq
<1>9. RowsHaveFiles' /\ ExtraFiles'
  BY <1>1, <1>2, <1>3, <1>5, <1>k DEF RowsHaveFiles, ExtraFiles
<1>10. FilesHaveOwners'
  BY <1>0, <1>1, <1>2, <1>3, <1>k DEF FilesHaveOwners, Owner
<1> QED BY <1>6, <1>7, <1>8, <1>9, <1>10 DEF KeyInv

\* The mailbox's row takes every message's with it: what is left is a call's that
\* the deletion overtook.
LEMMA MailboxDeleted ==
    ASSUME IngestTypeOK, KeyInv, DeleteMailbox, UNCHANGED job
    PROVE  KeyInv'
<1>k. KeysApart /\ JobKeys /\ RequestKeys /\ RowsHaveFiles /\ ExtraFiles /\ FilesHaveOwners
  BY DEF KeyInv
<1>1. req.at = "box" /\ Live \subseteq past.excused /\ req' = NoReq /\ UNCHANGED <<files, past>>
      /\ row' = [i \in Keys |-> NoRow]
  BY <1>k DEF DeleteMailbox, RequestKeys
<1>2. Live' = {} /\ \A i : Raw(i)' = Raw(i) /\ Att(i)' = Att(i)
  BY <1>1 DEF Live, Raw, Att
<1>3. KeysApart'
  BY <1>k DEF KeysApart
<1>4. JobKeys'
  BY <1>1, <1>2, <1>k DEF JobKeys, NoReq
<1>5. RequestKeys'
  BY <1>1, <1>2 DEF RequestKeys, NoReq
<1>6. RowsHaveFiles' /\ ExtraFiles' /\ FilesHaveOwners'
  BY <1>1, <1>2, <1>k DEF RowsHaveFiles, ExtraFiles, FilesHaveOwners, Owner
<1> QED BY <1>3, <1>4, <1>5, <1>6 DEF KeyInv

\* After a restart the files are those the rows name.
LEMMA KeysAfterCrash ==
    ASSUME IngestTypeOK, KeyInv, Crash
    PROVE  KeyInv'
<1>k. RowsHaveFiles /\ Live \subseteq Keys
  BY DEF KeyInv, Live
<1>1. /\ job' = [w \in Workers |-> NoJob] /\ req' = NoReq /\ UNCHANGED <<row, past>>
      /\ files' = {f \in files : f[2] \in Live /\ (f[1] = "att" => row[f[2]].att)}
  BY DEF Crash
<1>2. Live' = Live /\ (\A i : Raw(i)' <=> Raw(i) /\ i \in Live)
      /\ \A i : Att(i)' <=> Att(i) /\ i \in Live /\ row[i].att
  BY <1>1 DEF Live, Raw, Att
<1>3. KeysApart' /\ JobKeys'
  BY <1>1 DEF KeysApart, JobKeys, NoJob
<1>4. RequestKeys'
  BY <1>1 DEF RequestKeys, NoReq
<1>5. RowsHaveFiles' /\ ExtraFiles' /\ FilesHaveOwners'
  BY <1>1, <1>2, <1>k DEF RowsHaveFiles, ExtraFiles, FilesHaveOwners, Owner
<1> QED BY <1>3, <1>4, <1>5 DEF KeyInv

LEMMA IngestKeys ==
    ASSUME IngestTypeOK, StoredFirst, KeyInv, NEW w \in Workers, NEW fails \in BOOLEAN, IngestStep(w, fails)
    PROVE  KeyInv'
<1>0. req' = req /\ JobKeys
  BY DEF IngestStep, KeyInv
<1>q. ASSUME UNCHANGED <<row, files, past>>, job[w].at \notin {"row", "attrow"},
             job'[w].at \in {"none", "resolve", "exists", "raw", "answer"},
             job'[w].k = job[w].k, job'[w].at # "answer" => job[w].k = 0
      PROVE  KeyInv'
  <2>1. \A v \in Workers \ {w} : job'[v] = job[v]
    BY <1>0, IngestTyped
  <2> QED BY <1>0, <1>q, <2>1, KeysQuiet
<1>1. CASE Resolve(w, fails)
  <2>1. Answer(w, "persistent") \/ job' = [job EXCEPT ![w].at = "exists", ![w].b = box]
    BY <1>1 DEF Resolve
  <2>2. job'[w].at \in {"exists", "answer"} /\ job'[w].k = job[w].k
    BY <2>1, JobAnswered, JobFindsBox
  <2>3. UNCHANGED <<row, files, past>> /\ job[w].at = "resolve" /\ job[w].k = 0
    BY <1>0, <1>1 DEF Resolve, JobKeys
  <2> QED BY <1>q, <2>2, <2>3
<1>2. CASE ExistsByMessageID(w, fails)
  <2>1. Answer(w, "transient") \/ Answer(w, "duplicate") \/ Goto(w, "raw")
    BY <1>2 DEF ExistsByMessageID
  <2>2. job'[w].at \in {"raw", "answer"} /\ job'[w].k = job[w].k
    BY <2>1, JobAnswered, JobGoes
  <2>3. UNCHANGED <<row, files, past>> /\ job[w].at = "exists" /\ job[w].k = 0
    BY <1>0, <1>2 DEF ExistsByMessageID, JobKeys
  <2> QED BY <1>q, <2>2, <2>3
<1>3. CASE SaveRaw(w, fails)
  <2>1. CASE fails
    <3>1. Answer(w, "transient") /\ UNCHANGED <<row, files, past>> /\ job[w].at = "raw"
      BY <1>3, <2>1 DEF SaveRaw
    <3>2. job'[w].at = "answer" /\ job'[w].k = job[w].k
      BY <3>1, JobAnswered
    <3> QED BY <1>q, <3>1, <3>2
  <2>2. CASE ~fails
    <3>1. fails = FALSE
      BY <2>2
    <3> QED BY <1>0, <1>3, <3>1, RawSaved
  <2> QED BY <2>1, <2>2
<1>4. CASE CreateMessage(w, fails)
  BY <1>0, <1>4, MessageCreated
<1>5. CASE SaveAttachment(w, fails)
  <2>1. CASE fails
    <3>1. Answer(w, "ok") /\ UNCHANGED <<row, files, past>> /\ job[w].at = "att"
      BY <1>5, <2>1 DEF SaveAttachment
    <3>2. job'[w].at = "answer" /\ job'[w].k = job[w].k
      BY <3>1, JobAnswered
    <3> QED BY <1>q, <3>1, <3>2
  <2>2. CASE ~fails
    <3>1. fails = FALSE
      BY <2>2
    <3> QED BY <1>0, <1>5, <3>1, AttachmentSaved
  <2> QED BY <2>1, <2>2
<1>6. CASE storeInboundAttachments(w, fails)
  BY <1>0, <1>6, AttachmentStored
<1> QED BY <1>1, <1>2, <1>3, <1>4, <1>5, <1>6 DEF IngestStep

LEMMA KeyStep ==
    ASSUME IngestTypeOK, StoredFirst, KeyInv, [Next]_vars
    PROVE  KeyInv'
<1>0. Slots \subseteq Workers /\ "hook" \in Workers /\ job \in [Workers -> JobRow] /\ JobKeys
  BY DEF Workers, IngestTypeOK, KeyInv
<1>n. ASSUME NEW w \in Workers, job[w].at = "answer", job' = [job EXCEPT ![w] = NoJob],
             UNCHANGED <<row, files, req, past>>
      PROVE  KeyInv'
  <2>1. job'[w].at = "none" /\ job'[w].k = 0 /\ \A v \in Workers \ {w} : job'[v] = job[v]
    BY <1>0, <1>n DEF NoJob
  <2> QED BY <1>n, <2>1, KeysQuiet
<1>m. ASSUME NEW w \in Workers, NEW m \in Mails, job[w] = NoJob,
             job' = [job EXCEPT ![w] = [NoJob EXCEPT !.at = "resolve", !.m = m]],
             UNCHANGED <<row, files, req, past>>
      PROVE  KeyInv'
  <2>1. job'[w].at = "resolve" /\ job'[w].k = 0 /\ \A v \in Workers \ {w} : job'[v] = job[v]
    BY <1>m, JobStarts
  <2>2. job[w].at = "none"
    BY <1>m DEF NoJob
  <2> QED BY <1>m, <2>1, <2>2, KeysQuiet
<1>1. CASE UNCHANGED <<row, files, req, past, job>>
  BY <1>1, KeysStay
<1>2. CASE \/ UNCHANGED vars
           \/ upsert \/ delete \/ createMailbox \/ Sync \/ SyncEarly \/ SyncFails \/ Test
           \/ \E p \in Slots : Exit(p) \/ Dial(p) \/ Break(p) \/ EndPoll(p)
  <2>1. UNCHANGED <<row, files, req, past, job>>
    BY <1>2, Zenon DEF vars, upsert, delete, createMailbox, Sync, SyncEarly, SyncFails, Test, Exit, Dial,
                       Break, EndPoll
  <2> QED BY <1>1, <2>1
<1>3. ASSUME NEW p \in Slots, Fetch(p) PROVE KeyInv'
  <2>1. PICK m \in poller[p].todo :
           job' = job \/ job' = [job EXCEPT ![p] = [NoJob EXCEPT !.at = "resolve", !.m = m]]
    BY <1>3 DEF Fetch
  <2>2. m \in Mails /\ p \in Workers
    BY <1>0, PollerOfRow
  <2>3. job[p] = NoJob /\ UNCHANGED <<row, files, req, past>>
    BY <1>3 DEF Fetch
  <2> QED BY <1>1, <1>m, <2>1, <2>2, <2>3
<1>4. ASSUME NEW p \in Slots, Settle(p) PROVE KeyInv'
  <2>1. p \in Workers /\ job[p].at = "answer" /\ job' = [job EXCEPT ![p] = NoJob]
        /\ UNCHANGED <<row, files, req, past>>
    BY <1>0, <1>4 DEF Settle
  <2> QED BY <1>n, <2>1
<1>5. CASE Post
  <2>1. PICK m \in unposted : job' = [job EXCEPT !["hook"] = [NoJob EXCEPT !.at = "resolve", !.m = m]]
    BY <1>5 DEF Post
  <2>2. m \in Mails
    BY DEF IngestTypeOK, Mails
  <2>3. job["hook"] = NoJob /\ UNCHANGED <<row, files, req, past>>
    BY <1>5 DEF Post
  <2> QED BY <1>0, <1>m, <2>1, <2>2, <2>3
<1>6. CASE HangUp
  <2> DEFINE j == [job["hook"] EXCEPT !.cut = TRUE]
  <2>1. job' = [job EXCEPT !["hook"] = j] /\ UNCHANGED <<row, files, req, past>>
    BY <1>6 DEF HangUp
  <2>2. j.at = job["hook"].at /\ j.k = job["hook"].k
    BY <1>0 DEF JobRow
  <2> HIDE DEF j
  <2> QED BY <1>0, <2>1, <2>2, KeysStay
<1>7. CASE Respond
  <2>1. job["hook"].at = "answer" /\ job' = [job EXCEPT !["hook"] = NoJob]
        /\ UNCHANGED <<row, files, req, past>>
    BY <1>7 DEF Respond
  <2> QED BY <1>0, <1>n, <2>1
<1>8. ASSUME NEW w \in Workers, Ingest(w) \/ IngestFails(w) PROVE KeyInv'
  <2>1. PICK fails \in BOOLEAN : IngestStep(w, fails)
    BY <1>8 DEF Ingest, IngestFails
  <2> QED BY <2>1, IngestKeys
<1>9. CASE Request \/ Abandon
  BY <1>9, RequestLooks DEF Request, Abandon
<1>10. CASE RequestStep
  <2>1. UNCHANGED job
    BY <1>10 DEF RequestStep
  <2> QED BY <1>10, <2>1, RequestLooks, MessageDeleted, FilesDeleted, MailboxDeleted DEF RequestStep
<1>11. CASE Crash
  BY <1>11, KeysAfterCrash
<1>12. QED
  BY <1>2, <1>3, <1>4, <1>5, <1>6, <1>7, <1>8, <1>9, <1>10, <1>11 DEF Next, PollStep

LEMMA IngestStart ==
    Init => IngestInv
<1> SUFFICES ASSUME Init PROVE IngestInv
  OBVIOUS
<1>1. IngestTypeOK
  BY RestTyped DEF Init, IngestTypeOK
<1>2. Live = {} /\ files = {} /\ req = NoReq
  BY DEF Init, Live
<1>3. StoredFirst
  BY <1>2 DEF Init, StoredFirst, KeptBeforeDeleted, NoJob, Rested
<1>4. KeyInv
  <2>1. \A w \in Workers : job[w] = NoJob
    BY DEF Init
  <2> QED BY <1>2, <2>1 DEF KeyInv, KeysApart, JobKeys, RequestKeys, RowsHaveFiles, ExtraFiles,
                              FilesHaveOwners, Raw, Att, NoJob, NoReq
<1> QED BY <1>1, <1>3, <1>4 DEF IngestInv

-----------------------------------------------------------------------------
(* The theorems. *)

\* The inductive invariant of the ingest: every call, sweep and deletion, with
\* its accidents, keeps the types, the mails' and the names' facts.
THEOREM IngestInvariance == Spec => []IngestInv
<1>1. IngestInv /\ [Next]_vars => IngestInv'
  BY IngestTypeStep, StoredStep, KeyStep DEF IngestInv, KeyInv
<1> QED BY <1>1, IngestStart, PTL DEF Spec

\* Every variable keeps its type: names of files, calls and pollers.
THEOREM IngestTypeCorrect == Spec => []IngestTypeOK
<1>1. IngestInv => IngestTypeOK
  BY DEF IngestInv
<1> QED BY <1>1, IngestInvariance, PTL

\* No server and no provider is told to forget a mail that has not been stored
\* (pop3.go:112-136, webhook.go:73-87), whichever sweeps, posts, cancellations,
\* broken connections and crashes come together.
THEOREM AlwaysKeptFirst == Spec => []KeptBeforeDeleted
<1>1. IngestInv => KeptBeforeDeleted
  BY DEF IngestInv, StoredFirst
<1> QED BY <1>1, IngestInvariance, PTL

\* A message's files exist and every file has an owner, or a deletion overtook
\* the ingest that wrote it (service.go:67-73).
THEOREM FilesAreAccounted == Spec => []FilesAccounted
<1>1. IngestInv => FilesAccounted
  <2> SUFFICES ASSUME IngestInv PROVE FilesAccounted
    OBVIOUS
  <2>1. RowsHaveFiles /\ FilesHaveOwners /\ files \subseteq {"raw", "att"} \X Keys
    BY DEF IngestInv, KeyInv, IngestTypeOK
  <2>2. \A k \in Live : <<"raw", k>> \in files /\ (row[k].att => <<"att", k>> \in files)
    BY <2>1 DEF RowsHaveFiles, Raw, Att
  <2>3. ASSUME NEW f \in files PROVE f[2] \in Owned
    <3>1. PICK k \in Keys : f = <<"raw", k>> \/ f = <<"att", k>>
      BY <2>1
    <3>2. f[2] = k /\ (Raw(k) \/ Att(k))
      BY <3>1 DEF Raw, Att
    <3>3. Owner(k)
      BY <2>1, <3>2 DEF FilesHaveOwners
    <3> QED BY <3>2, <3>3 DEF Owner, Owned
  <2> QED BY <2>2, <2>3 DEF FilesAccounted
<1> QED BY <1>1, IngestInvariance, PTL
=============================================================================
