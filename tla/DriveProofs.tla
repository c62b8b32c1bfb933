----------------------------- MODULE DriveProofs -----------------------------
(***************************************************************************)
(* Proofs about Drive, for any number of nodes, quotas and accidents, and  *)
(* any requests that overlap: the folders are a forest, the listings show  *)
(* everything, the quota holds, rows keep their blobs.                     *)
(***************************************************************************)
EXTENDS Drive, FiniteSetTheorems, WellFoundedInduction, TLAPS

-----------------------------------------------------------------------------
(* Induction over a range of numbers, as a fact about sets. *)

LEMMA LeastNatural ==
    ASSUME NEW S \in SUBSET Nat, S # {}
    PROVE  \E m \in S : \A k \in S : m <= k
<1> DEFINE R == StrictSubsetOrdering(Nat)
           F == FiniteSubsetsOf(Nat)
           T == {0 .. (m - 1) : m \in S}
<1>1. ASSUME NEW m \in Nat PROVE 0 .. (m - 1) \in F
  BY FS_Interval DEF FiniteSubsetsOf
<1>2. T \subseteq F /\ T # {}
  BY <1>1
<1>3. IsWellFoundedOn(R, F)
  BY FS_StrictSubsetOrderingWellFounded
<1> HIDE DEF F, R, T
<1>4. PICK x \in T : \A y \in T : <<y, x>> \notin R
  BY <1>2, <1>3, WFMin, Zenon
<1>5. PICK m \in S : x = 0 .. (m - 1)
  BY <1>4 DEF T
<1>6. ASSUME NEW k \in S, k < m PROVE FALSE
  <2>1. 0 .. (k - 1) \in T /\ <<0 .. (k - 1), x>> \notin R
    BY <1>4 DEF T
  <2>2. 0 .. (k - 1) \subseteq 0 .. (m - 1) /\ k \in 0 .. (m - 1) /\ k \notin 0 .. (k - 1)
    BY <1>6
  <2> QED BY <1>5, <2>1, <2>2 DEF R, StrictSubsetOrdering
<1> QED BY <1>6

LEMMA StepByStep ==
    ASSUME NEW n \in Nat, NEW G, 0 \in G, \A k \in 0 .. n - 1 : k \in G => k + 1 \in G
    PROVE  \A k \in 0 .. n : k \in G
<1> DEFINE B == (0 .. n) \ G
<1> SUFFICES ASSUME B # {} PROVE FALSE
  OBVIOUS
<1>0. B \in SUBSET Nat
  OBVIOUS
<1>1. PICK m \in B : \A k \in B : m <= k
  <2> HIDE DEF B
  <2> QED BY <1>0, LeastNatural
<1>2. m # 0 /\ m - 1 \in 0 .. n - 1 /\ m - 1 \notin B
  BY <1>1
<1> QED BY <1>2

\* Iterating a function: what a recursive table is about.
Iterates(f, D, g, x, n) == f \in [0 .. n -> D] /\ f[0] = x /\ \A k \in 1 .. n : f[k] = g[f[k-1]]

LEMMA IterationExists ==
    ASSUME NEW D, NEW g \in [D -> D], NEW x \in D, NEW n \in Nat
    PROVE  \E f : Iterates(f, D, g, x, n)
<1> DEFINE Has(m) == \E f \in [0 .. m -> D] : f[0] = x /\ \A k \in 1 .. m : f[k] = g[f[k-1]]
           G == {m \in 0 .. n : Has(m)}
<1>1. Has(0)
  <2> DEFINE f == [k \in 0 .. 0 |-> x]
  <2>1. f \in [0 .. 0 -> D] /\ f[0] = x /\ \A k \in 1 .. 0 : f[k] = g[f[k-1]]
    OBVIOUS
  <2> QED BY <2>1
<1>2. ASSUME NEW m \in 0 .. n - 1, Has(m) PROVE Has(m + 1)
  <2>1. PICK f \in [0 .. m -> D] : f[0] = x /\ \A k \in 1 .. m : f[k] = g[f[k-1]]
    BY <1>2
  <2> DEFINE h == [k \in 0 .. m + 1 |-> IF k = m + 1 THEN g[f[m]] ELSE f[k]]
  <2>2. h \in [0 .. m + 1 -> D] /\ h[0] = x
    BY <2>1
  <2>3. \A k \in 1 .. m + 1 : h[k] = g[h[k-1]]
    BY <2>1
  <2> QED BY <2>2, <2>3
<1> HIDE DEF Has
<1>3. 0 \in G /\ \A m \in 0 .. n - 1 : m \in G => m + 1 \in G
  BY <1>1, <1>2
<1>4. n \in G
  <2> HIDE DEF G
  <2>1. \A k \in 0 .. n : k \in G
    BY <1>3, StepByStep
  <2> QED BY <2>1
<1> QED BY <1>4 DEF Has, Iterates

\* Subtree, in the state where the rows are nodes.
Tree(nodes, S, n) ==
    LET f[k \in 0..N] == IF k = 0 THEN {n} \cap S
                         ELSE LET above == f[k-1]
                              IN  above \cup {c \in S : nodes[c].parent \in above}
    IN  f[N]

LEMMA SubtreeIsTree ==
    ASSUME NEW n
    PROVE  /\ Subtree(Rows, n) = Tree(node, Rows, n) /\ Subtree(Live, n) = Tree(node, Live, n)
           /\ Subtree(Rows, n)' = Tree(node', Rows', n)
BY DEF Subtree, Tree

\* The table that collects what is below n through S, level by level.
Levels(nodes, S, n, f) ==
    /\ f \in [0 .. N -> SUBSET S] /\ f[0] = {n} \cap S
    /\ \A k \in 1 .. N : f[k] = f[k-1] \cup {c \in S : nodes[c].parent \in f[k-1]}

LEMMA SubtreeLevels ==
    ASSUME NEW nodes, NEW S, NEW n
    PROVE  \E f : Levels(nodes, S, n, f) /\ Tree(nodes, S, n) = f[N]
<1> DEFINE Step(A) == A \cup {c \in S : nodes[c].parent \in A}
           Is(f) == f = [k \in 0..N |-> IF k = 0 THEN {n} \cap S
                                        ELSE LET above == f[k-1]
                                             IN  above \cup {c \in S : nodes[c].parent \in above}]
           h == CHOOSE f : Is(f)
<1>1. \E f : Is(f)
  <2> DEFINE g == [A \in SUBSET S |-> Step(A)]
             D == SUBSET S
             x == {n} \cap S
  <2>1. g \in [D -> D] /\ x \in D /\ N \in Nat
    BY DriveAssumption
  <2>i. PICK f : Iterates(f, D, g, x, N)
    <3> HIDE DEF g, D, x
    <3> QED BY <2>1, IterationExists
  <2>2. f \in [0 .. N -> D] /\ f[0] = x /\ \A k \in 1 .. N : f[k] = g[f[k-1]]
    BY <2>i DEF Iterates
  <2>3. \A A \in D : g[A] = Step(A)
    OBVIOUS
  <2>4. ASSUME NEW k \in 0 .. N PROVE f[k] = IF k = 0 THEN x ELSE Step(f[k-1])
    <3> HIDE DEF g, D, x, Step
    <3>1. CASE k = 0
      BY <2>2, <3>1
    <3>2. CASE k # 0
      <4>1. k \in 1 .. N /\ k - 1 \in 0 .. N
        BY <2>1, <3>2
      <4>2. f[k] = g[f[k-1]] /\ f[k-1] \in D
        BY <2>2, <4>1
      <4> QED BY <2>3, <3>2, <4>2
    <3> QED BY <3>1, <3>2
  <2>5. Is(f)
    <3> HIDE DEF g, D
    <3> QED BY <2>2, <2>4
  <2> QED BY <2>5
<1>2. Is(h)
  BY <1>1
<1>3. Tree(nodes, S, n) = h[N]
  BY DEF Tree
<1> HIDE DEF h
<1>4. h[0] = {n} \cap S /\ \A k \in 1 .. N : h[k] = Step(h[k-1])
  BY <1>2, DriveAssumption
<1>5. \A k \in 0 .. N : h[k] \in SUBSET S
  <2> DEFINE G == {k \in 0 .. N : h[k] \in SUBSET S}
  <2>1. 0 \in G /\ \A k \in 0 .. N - 1 : k \in G => k + 1 \in G
    BY <1>4, DriveAssumption
  <2> HIDE DEF G
  <2>2. \A k \in 0 .. N : k \in G
    BY <2>1, StepByStep, DriveAssumption
  <2> QED BY <2>2 DEF G
<1>6. Levels(nodes, S, n, h)
  BY <1>2, <1>4, <1>5 DEF Levels
<1> QED BY <1>3, <1>6

\* What a table holds: a set through S that n is in, that is closed downwards,
\* that only n is in without its parent, and that is the smallest of its kind.
LEMMA TreeFacts ==
    ASSUME NEW nodes, NEW S \in SUBSET Ids, NEW n
    PROVE  /\ Tree(nodes, S, n) \subseteq S /\ (n \in S => n \in Tree(nodes, S, n))
           /\ \A c \in S : nodes[c].parent \in Tree(nodes, S, n) => c \in Tree(nodes, S, n)
           /\ \A c \in Tree(nodes, S, n) : c = n \/ nodes[c].parent \in Tree(nodes, S, n)
           /\ \A A : (n \in S => n \in A) /\ (\A c \in S : nodes[c].parent \in A => c \in A)
                     => Tree(nodes, S, n) \subseteq A
<1> DEFINE Closed(A) == \A c \in S : nodes[c].parent \in A => c \in A
           Hangs(A) == \A c \in A : c = n \/ nodes[c].parent \in A
<1>0. Closed({})
  OBVIOUS
<1>1. PICK f : Levels(nodes, S, n, f) /\ Tree(nodes, S, n) = f[N]
  BY SubtreeLevels
<1>2. f \in [0 .. N -> SUBSET S] /\ f[0] = {n} \cap S /\ N \in Nat /\ N \in 0 .. N
  BY <1>1, DriveAssumption DEF Levels
<1>3. \A k \in 0 .. N - 1 : f[k + 1] = f[k] \cup {c \in S : nodes[c].parent \in f[k]}
  BY <1>1, <1>2 DEF Levels
<1>4. IsFiniteSet(Ids) /\ Cardinality(Ids) = N
  BY <1>2, FS_Interval DEF Ids
<1>5. \A k \in 0 .. N : IsFiniteSet(f[k]) /\ Cardinality(f[k]) \in Nat /\ Cardinality(f[k]) <= N
  BY <1>2, <1>4, FS_Subset, FS_CardinalityType
<1>6. Hangs(f[N]) /\ (n \in S => n \in f[N])
  <2> DEFINE G == {k \in 0 .. N : Hangs(f[k]) /\ (n \in S => n \in f[k])}
  <2>1. 0 \in G
    BY <1>2
  <2>2. ASSUME NEW k \in 0 .. N - 1, k \in G PROVE k + 1 \in G
    BY <1>2, <1>3, <2>2
  <2> HIDE DEF G
  <2>3. \A k \in 0 .. N : k \in G
    BY <1>2, <2>1, <2>2, StepByStep
  <2> QED BY <1>2, <2>3 DEF G
<1>7. ASSUME NEW A, n \in S => n \in A, Closed(A) PROVE f[N] \subseteq A
  <2> DEFINE G == {k \in 0 .. N : f[k] \subseteq A}
  <2>1. 0 \in G
    BY <1>2, <1>7
  <2>2. ASSUME NEW k \in 0 .. N - 1, k \in G PROVE k + 1 \in G
    BY <1>2, <1>3, <1>7, <2>2
  <2> HIDE DEF G
  <2>3. \A k \in 0 .. N : k \in G
    BY <1>2, <2>1, <2>2, StepByStep
  <2> QED BY <1>2, <2>3 DEF G
<1>8. Closed(f[N])
  <2> DEFINE Big(k) == Cardinality(f[k]) >= k + 1 \/ Closed(f[k])
             G == {k \in 0 .. N : Big(k)}
  <2>1. 0 \in G
    <3> HIDE DEF Closed
    <3>0. f[0] = {n} \cap S /\ 0 \in 0 .. N
      BY <1>2
    <3>1. CASE n \in S
      <4>1. f[0] = {n}
        BY <3>0, <3>1
      <4>2. Cardinality({n}) = 1
        BY FS_Singleton
      <4>3. Cardinality(f[0]) >= 0 + 1
        BY <4>1, <4>2
      <4> QED BY <3>0, <4>3
    <3>2. CASE n \notin S
      <4>1. f[0] = {}
        BY <3>0, <3>2
      <4> QED BY <1>0, <3>0, <4>1
    <3> QED BY <3>1, <3>2
  <2>2. ASSUME NEW k \in 0 .. N - 1, k \in G PROVE k + 1 \in G
    <3>0. k \in 0 .. N /\ k + 1 \in 0 .. N /\ Big(k)
      BY <1>2, <2>2
    <3>1. CASE Closed(f[k])
      <4>1. f[k + 1] = f[k]
        BY <1>2, <1>3, <3>0, <3>1
      <4> QED BY <3>0, <3>1, <4>1
    <3>2. CASE ~Closed(f[k])
      <4>1. f[k] \subseteq f[k + 1] /\ f[k] # f[k + 1]
        BY <1>3, <3>2
      <4>2. Cardinality(f[k]) < Cardinality(f[k + 1])
        BY <1>5, <3>0, <4>1, FS_Subset
      <4>3. Cardinality(f[k]) >= k + 1
        BY <3>0, <3>2
      <4> HIDE DEF Closed
      <4> QED BY <1>5, <3>0, <4>2, <4>3
    <3> QED BY <3>1, <3>2
  <2>3. Big(N)
    <3> HIDE DEF G
    <3>1. \A k \in 0 .. N : k \in G
      BY <1>2, <2>1, <2>2, StepByStep
    <3>2. N \in G
      BY <1>2, <3>1
    <3> HIDE DEF Big
    <3> QED BY <3>2 DEF G
  <2> HIDE DEF Closed
  <2> QED BY <1>2, <1>5, <2>3
<1>9. f[N] \subseteq S
  BY <1>2
<1> QED BY <1>1, <1>6, <1>7, <1>8, <1>9

-----------------------------------------------------------------------------
(* Types.  A request has the fields of its kind. *)

Kinds == {"folder", "file"}
NodeRow == [st : {"absent", "live", "trash"}, kind : Kinds, parent : Parents, at : Nat \cup {Never}]
Task == [src : Ids, kind : Kinds \cup {"made", "saved"}, to : Parents, levels : SUBSET Ids]
MkdirReq == [op : {"mkdir"}, to : Parents]
UploadReq == [op : {"upload"}, id : Ids, to : Parents, quota : Nat]
MoveReq == [op : {"move"}, id : Ids, to : Parents, cur : Parents, crossed : BOOLEAN]
WalkReq == [op : {"copywalk"}, id : Ids, kind : Kinds, to : Parents, cur : Parents]
\* Only the first copy to make can be half made.
Tasks == {ts \in Seq(Task) : \A i \in 2 .. Len(ts) : ts[i].kind \in Kinds}
CopyReq == [op : {"copy"}, made : SUBSET Ids, crossed : BOOLEAN, todo : Tasks]
UndoReq == [op : {"undo"}, levels : SUBSET Ids, made : SUBSET Ids, crossed : BOOLEAN, kept : BOOLEAN]
RestoreReq == [op : {"restore"}, id : Ids, marker : Nat \cup {Never}, crossed : BOOLEAN]
ConfigReq == [op : {"config"}, quota : Nat]
Requests == MkdirReq \cup UploadReq \cup MoveReq \cup WalkReq \cup CopyReq \cup UndoReq \cup RestoreReq \cup ConfigReq

Ranges ==
    /\ node \in [Ids -> NodeRow] /\ next \in 1 .. N + 1 /\ disk \subseteq Ids /\ now \in Nat
    /\ stored \in Nat /\ quota \in Nat /\ listed \subseteq Ids /\ events \in Nat
    /\ stray \subseteq Ids /\ swept \subseteq Ids /\ knot \in BOOLEAN /\ limit \in Nat /\ surge \in BOOLEAN
DriveTypeOK == Ranges /\ reqs \subseteq Requests

\* The same request, perhaps told that another one has crossed it, or with fewer
\* folders left to undo.
Same(q, s) ==
    \/ s = q
    \/ q.op \in {"move", "copy", "restore"} /\ s = [q EXCEPT !.crossed = TRUE]
    \/ /\ q \in UndoReq /\ s \in UndoReq
       /\ s.made = q.made /\ s.levels \subseteq q.levels /\ (~s.crossed => ~q.crossed)

LEMMA RequestFields ==
    ASSUME NEW q \in Requests
    PROVE  /\ q.op = "mkdir" => q \in MkdirReq
           /\ q.op = "upload" => q \in UploadReq
           /\ q.op = "move" => q \in MoveReq
           /\ q.op = "copywalk" => q \in WalkReq
           /\ q.op = "copy" => q \in CopyReq
           /\ q.op = "undo" => q \in UndoReq
           /\ q.op = "restore" => q \in RestoreReq
           /\ q.op = "config" => q \in ConfigReq
           /\ q.op \in {"mkdir", "upload", "move", "copywalk", "copy", "undo", "restore", "config"}
BY DEF Requests, MkdirReq, UploadReq, MoveReq, WalkReq, CopyReq, UndoReq, RestoreReq, ConfigReq

LEMMA SameRequest ==
    ASSUME NEW q \in Requests, NEW s, Same(q, s)
    PROVE  /\ s \in Requests /\ s.op = q.op
           /\ q.op \in {"mkdir", "upload", "copywalk", "config"} => s = q
           /\ q.op = "move" => s.id = q.id /\ s.to = q.to /\ s.cur = q.cur /\ (~s.crossed => ~q.crossed)
           /\ q.op = "copy" => s.made = q.made /\ s.todo = q.todo /\ (~s.crossed => ~q.crossed)
           /\ q.op = "undo" => s.made = q.made /\ s.levels \subseteq q.levels /\ (~s.crossed => ~q.crossed)
           /\ q.op = "restore" => s.id = q.id /\ s.marker = q.marker /\ (~s.crossed => ~q.crossed)
<1>1. CASE s = q
  BY <1>1
<1>3. CASE q \in UndoReq /\ s \in UndoReq
           /\ s.made = q.made /\ s.levels \subseteq q.levels /\ (~s.crossed => ~q.crossed)
  <2>1. s \in Requests /\ q.op = "undo" /\ s.op = "undo"
    BY <1>3 DEF Requests, UndoReq
  <2> QED BY <1>3, <2>1
<1>2. CASE q.op \in {"move", "copy", "restore"} /\ s = [q EXCEPT !.crossed = TRUE]
  <2>1. CASE q.op = "move"
    <3>1. q \in MoveReq
      BY <2>1, RequestFields
    <3>2. s \in MoveReq /\ s.op = q.op /\ s.id = q.id /\ s.to = q.to /\ s.cur = q.cur /\ s.crossed
      BY <1>2, <3>1 DEF MoveReq
    <3> QED BY <2>1, <3>2 DEF Requests
  <2>2. CASE q.op = "copy"
    <3>1. q \in CopyReq
      BY <2>2, RequestFields
    <3>2. s \in CopyReq /\ s.op = q.op /\ s.made = q.made /\ s.todo = q.todo /\ s.crossed
      BY <1>2, <3>1 DEF CopyReq
    <3> QED BY <2>2, <3>2 DEF Requests
  <2>3. CASE q.op = "restore"
    <3>1. q \in RestoreReq
      BY <2>3, RequestFields
    <3>2. s \in RestoreReq /\ s.op = q.op /\ s.id = q.id /\ s.marker = q.marker /\ s.crossed
      BY <1>2, <3>1 DEF RestoreReq
    <3> QED BY <2>3, <3>2 DEF Requests
  <2> QED BY <1>2, <2>1, <2>2, <2>3
<1> QED BY <1>1, <1>2, <1>3 DEF Same

LEMMA SameTwice ==
    ASSUME NEW q \in Requests, NEW s, NEW t, Same(q, s), Same(s, t)
    PROVE  Same(q, t)
<1>1. s.op = q.op
  BY SameRequest
<1>2. CASE s = q
  BY <1>2
<1>3. CASE t = s
  BY <1>3
<1>4. CASE q.op \in {"move", "copy", "restore"} /\ s = [q EXCEPT !.crossed = TRUE] /\ t = [s EXCEPT !.crossed = TRUE]
  <2>1. q \in MoveReq \cup CopyReq \cup RestoreReq
    BY <1>4, RequestFields
  <2>2. t = s
    BY <1>4, <2>1 DEF MoveReq, CopyReq, RestoreReq
  <2> QED BY <1>4, <2>2 DEF Same
<1>5. CASE q \in UndoReq /\ s \in UndoReq /\ t \in UndoReq
           /\ s.made = q.made /\ s.levels \subseteq q.levels /\ (~s.crossed => ~q.crossed)
           /\ t.made = s.made /\ t.levels \subseteq s.levels /\ (~t.crossed => ~s.crossed)
  BY <1>5 DEF Same
<1>6. s \in UndoReq => s.op = "undo"
  BY DEF UndoReq
<1>7. q \in UndoReq => q.op = "undo"
  BY DEF UndoReq
<1> QED BY <1>1, <1>2, <1>3, <1>4, <1>5, <1>6, <1>7 DEF Same

\* Requests that have been told of a commit, one by one.
Told(rs, ss) == \E h \in [rs -> Requests] : (\A q \in rs : Same(q, h[q])) /\ ss = {h[q] : q \in rs}

LEMMA ToldSelf ==
    ASSUME NEW rs \in SUBSET Requests
    PROVE  Told(rs, rs)
<1> DEFINE h == [q \in rs |-> q]
<1>1. h \in [rs -> Requests] /\ (\A q \in rs : Same(q, h[q])) /\ rs = {h[q] : q \in rs}
  BY DEF Same
<1> HIDE DEF h
<1> QED BY <1>1 DEF Told

LEMMA ToldTwice ==
    ASSUME NEW rs \in SUBSET Requests, NEW ss, NEW ts, Told(rs, ss), Told(ss, ts)
    PROVE  Told(rs, ts)
<1>1. PICK h \in [rs -> Requests] : (\A q \in rs : Same(q, h[q])) /\ ss = {h[q] : q \in rs}
  BY DEF Told
<1>2. PICK g \in [ss -> Requests] : (\A q \in ss : Same(q, g[q])) /\ ts = {g[q] : q \in ss}
  BY DEF Told
<1> DEFINE f == [q \in rs |-> g[h[q]]]
<1>3. f \in [rs -> Requests] /\ ts = {f[q] : q \in rs}
  BY <1>1, <1>2
<1>4. ASSUME NEW q \in rs PROVE Same(q, f[q])
  <2>1. Same(q, h[q]) /\ Same(h[q], g[h[q]]) /\ q \in Requests
    BY <1>1, <1>2
  <2> QED BY <2>1, SameTwice
<1> HIDE DEF f
<1> QED BY <1>3, <1>4 DEF Told

LEMMA ToldBy ==
    ASSUME NEW rs \in SUBSET Requests
    PROVE  /\ \A ops \in SUBSET {"move", "copy", "restore"} : Told(rs, Crossing(rs, ops))
           /\ \A n, p : Told(rs, Meddle(rs, n, p))
<1>1. ASSUME NEW ops \in SUBSET {"move", "copy", "restore"} PROVE Told(rs, Crossing(rs, ops))
  <2> DEFINE h == [q \in rs |-> IF q.op \in ops THEN [q EXCEPT !.crossed = TRUE] ELSE q]
  <2>1. \A q \in rs : Same(q, h[q])
    BY DEF Same
  <2>2. \A q \in rs : h[q] \in Requests
    <3> HIDE DEF h
    <3> QED BY <2>1, SameRequest
  <2>3. Crossing(rs, ops) = {h[q] : q \in rs} /\ h = [q \in rs |-> h[q]]
    BY DEF Crossing
  <2> HIDE DEF h
  <2> QED BY <2>1, <2>2, <2>3 DEF Told
<1>2. ASSUME NEW n, NEW p PROVE Told(rs, Meddle(rs, n, p))
  <2> DEFINE h == [q \in rs |-> IF q.op \in {"copy", "undo"} /\ {n, p} \cap q.made # {}
                               THEN [q EXCEPT !.crossed = TRUE] ELSE q]
  <2>1. ASSUME NEW q \in rs PROVE Same(q, h[q])
    <3>1. CASE q.op = "undo"
      <4>1. q \in UndoReq
        BY <3>1, RequestFields
      <4>2. [q EXCEPT !.crossed = TRUE] \in UndoReq /\ [q EXCEPT !.crossed = TRUE].made = q.made
            /\ [q EXCEPT !.crossed = TRUE].levels = q.levels /\ [q EXCEPT !.crossed = TRUE].crossed = TRUE
        BY <4>1 DEF UndoReq
      <4> QED BY <4>1, <4>2 DEF Same
    <3>2. CASE q.op # "undo"
      BY <3>2 DEF Same
    <3> QED BY <3>1, <3>2
  <2>2. \A q \in rs : h[q] \in Requests
    <3> HIDE DEF h
    <3> QED BY <2>1, SameRequest
  <2>3. Meddle(rs, n, p) = {h[q] : q \in rs} /\ h = [q \in rs |-> h[q]]
    BY DEF Meddle
  <2> HIDE DEF h
  <2> QED BY <2>1, <2>2, <2>3 DEF Told
<1> QED BY <1>1, <1>2

LEMMA ToldRequests ==
    ASSUME NEW rs \in SUBSET Requests, NEW ss, Told(rs, ss)
    PROVE  ss \subseteq Requests /\ (\A s \in ss : \E q \in rs : Same(q, s))
BY DEF Told

-----------------------------------------------------------------------------
(* Ids and blobs. *)

\* The blob a request has saved and not yet given a row, and the ids that are
\* handed out and not such a blob's: rows, and what names rows, are of these.
BlobOf(r) == {b \in Ids : \/ r.op = "upload" /\ b = r.id
                          \/ /\ r.op = "copy" /\ r.todo # <<>> /\ Head(r.todo).kind = "saved"
                             /\ b = Head(r.todo).src}
Known == (1 .. next - 1) \ Saved
Places == Known \cup {Root}

RefsKnown(r) ==
    /\ r.op \in {"mkdir", "upload", "move", "copywalk"} => r.to \in Places
    /\ r.op \in {"move", "copywalk"} => r.cur \in Places
    /\ r.op = "copy" => /\ r.made \subseteq Known
                        /\ \A i \in DOMAIN r.todo : r.todo[i].to \in Places /\ r.todo[i].levels \subseteq r.made
    /\ r.op = "undo" => r.made \subseteq Known /\ r.levels \subseteq r.made
IdsKnown ==
    /\ Rows \subseteq Known /\ \A n \in Ids : node[n].parent \in Places
    /\ \A n \in Ids \ Rows : node[n].parent = Root
    /\ \A r \in reqs : RefsKnown(r)

\* A blob in flight is one request's, and is in the store unless it was swept.
BlobsApart == \A q, r \in reqs : q # r => BlobOf(q) \cap BlobOf(r) = {}
BlobsUsed == \A r \in reqs : BlobOf(r) \subseteq 1 .. next - 1
BlobsSaved == \A r \in reqs : BlobOf(r) \subseteq disk \cup swept
BlobsInv == BlobsApart /\ BlobsUsed /\ BlobsSaved

LEMMA SavedIs ==
    ASSUME DriveTypeOK
    PROVE  \A b : b \in Saved <=> \E r \in reqs : b \in BlobOf(r)
<1>1. ASSUME NEW r \in reqs, r.op = "upload" PROVE r.id \in Ids
  BY <1>1, RequestFields DEF DriveTypeOK, UploadReq
<1>2. ASSUME NEW r \in reqs, r.op = "copy", r.todo # <<>> PROVE Head(r.todo).src \in Ids
  <2>1. r.todo \in Seq(Task)
    BY <1>2, RequestFields DEF DriveTypeOK, CopyReq, Tasks
  <2>2. Head(r.todo) \in Task
    BY <1>2, <2>1
  <2> QED BY <2>2 DEF Task
<1> QED BY <1>1, <1>2 DEF Saved, BlobOf

LEMMA SameBlob ==
    ASSUME NEW q \in Requests, NEW s, Same(q, s)
    PROVE  BlobOf(s) = BlobOf(q)
BY SameRequest, RequestFields DEF BlobOf

\* The requests after a step: the old ones are gone, the new ones are there, and
\* the others are the same.
Replaced(old, new) == \E ss : Told(reqs \ old, ss) /\ reqs' = ss \cup new

LEMMA RequestsReplaced ==
    ASSUME DriveTypeOK, BlobsApart, BlobsUsed, NEW old \in SUBSET reqs, NEW new \in SUBSET Requests,
           Replaced(old, new), \A p, q \in new : p = q,
           next' \in {next, next + 1}, \A q \in new : BlobOf(q) \subseteq next .. next' - 1
    PROVE  /\ reqs' \subseteq Requests /\ BlobsApart' /\ BlobsUsed'
           /\ \A b \in Saved' : b \in next .. next' - 1 \/ \E q \in reqs \ old : b \in BlobOf(q)
           /\ Known \subseteq Known'
           /\ \A r \in old : BlobOf(r) \subseteq Known'
<1>0. next \in Nat \ {0} /\ next' \in Nat \ {0} /\ next <= next' /\ reqs \subseteq Requests
  BY DriveAssumption DEF DriveTypeOK, Ranges
<1>h. PICK h : (\A q \in reqs \ old : Same(q, h[q])) /\ (\A s \in reqs' : s \in new \/ \E q \in reqs \ old : s = h[q])
  BY DEF Replaced, Told
<1>1. ASSUME NEW s \in reqs'
      PROVE  s \in new \/ \E q \in reqs : q \notin old /\ s = h[q] /\ Same(q, s) /\ BlobOf(s) = BlobOf(q)
  BY <1>0, <1>h, SameBlob
<1>2. reqs' \subseteq Requests
  BY <1>0, <1>1, SameRequest
<1>3. \A r \in reqs : BlobOf(r) \cap (next .. next' - 1) = {}
  BY <1>0 DEF BlobsUsed
<1>4. BlobsApart'
  <2> SUFFICES ASSUME NEW s \in reqs', NEW t \in reqs', s # t PROVE BlobOf(s) \cap BlobOf(t) = {}
    BY DEF BlobsApart
  <2>1. CASE s \in new /\ t \in new
    BY <2>1
  <2>2. CASE s \in new /\ t \notin new
    BY <1>1, <1>3, <2>2
  <2>3. CASE s \notin new /\ t \in new
    BY <1>1, <1>3, <2>3
  <2>4. CASE s \notin new /\ t \notin new
    <3>1. PICK q \in reqs : s = h[q] /\ BlobOf(s) = BlobOf(q)
      BY <1>1, <2>4
    <3>2. PICK u \in reqs : t = h[u] /\ BlobOf(t) = BlobOf(u)
      BY <1>1, <2>4
    <3> QED BY <3>1, <3>2 DEF BlobsApart
  <2> QED BY <2>1, <2>2, <2>3, <2>4
<1>5. BlobsUsed'
  BY <1>0, <1>1 DEF BlobsUsed
<1>6. ASSUME NEW b \in Saved' PROVE b \in next .. next' - 1 \/ \E q \in reqs \ old : b \in BlobOf(q)
  <2>1. PICK s \in reqs' : b \in BlobOf(s)
    <3>1. (\A r \in reqs' : r.op = "upload" => r.id \in Ids)
      BY <1>2, RequestFields DEF UploadReq
    <3>2. ASSUME NEW r \in reqs', r.op = "copy", r.todo # <<>> PROVE Head(r.todo).src \in Ids
      <4>1. r.todo \in Seq(Task)
        BY <1>2, <3>2, RequestFields DEF CopyReq, Tasks
      <4>2. Head(r.todo) \in Task
        BY <3>2, <4>1
      <4> QED BY <4>2 DEF Task
    <3> QED BY <3>1, <3>2 DEF Saved, BlobOf
  <2> QED BY <1>1, <2>1
<1>7. Known \subseteq Known'
  BY <1>0, <1>6, SavedIs DEF Known
<1>8. \A r \in old : BlobOf(r) \subseteq Known'
  <2> SUFFICES ASSUME NEW r \in old, NEW b \in BlobOf(r) PROVE b \in Known'
    OBVIOUS
  <2>1. b \in 1 .. next - 1 /\ b \in 1 .. next' - 1
    BY <1>0 DEF BlobsUsed
  <2>2. b \notin Saved'
    BY <1>0, <1>6, <2>1 DEF BlobsApart
  <2> QED BY <2>1, <2>2 DEF Known
<1> QED BY <1>2, <1>4, <1>5, <1>6, <1>7, <1>8

CoreInv == DriveTypeOK /\ IdsKnown /\ BlobsInv /\ RowKeepsBlob

\* What a step does to the requests, when it replaces old by new.
LEMMA RequestsStep ==
    ASSUME CoreInv, Ranges', NEW old \in SUBSET reqs, NEW new \in SUBSET Requests, Replaced(old, new),
           \A p, q \in new : p = q, next' \in {next, next + 1},
           \A q \in new : BlobOf(q) \subseteq (next .. next' - 1) \cap (disk' \cup swept'),
           \A r \in reqs \ old : BlobOf(r) \subseteq disk' \cup swept'
    PROVE  /\ DriveTypeOK' /\ BlobsInv' /\ Known \subseteq Known' /\ Places \subseteq Places'
           /\ \A r \in old : BlobOf(r) \subseteq Known'
           /\ next' = next + 1 /\ (\A q \in new : BlobOf(q) = {}) => next \in Known'
           /\ \A s \in reqs' : s \in new \/ (\E q \in reqs \ old : Same(q, s) /\ RefsKnown(s)')
<1>0. DriveTypeOK /\ BlobsApart /\ BlobsUsed /\ IdsKnown /\ next \in Nat \ {0} /\ reqs \subseteq Requests
  BY DriveAssumption DEF CoreInv, BlobsInv, DriveTypeOK, Ranges
<1>1. /\ reqs' \subseteq Requests /\ BlobsApart' /\ BlobsUsed' /\ Known \subseteq Known'
      /\ \A b \in Saved' : b \in next .. next' - 1 \/ \E q \in reqs \ old : b \in BlobOf(q)
      /\ \A r \in old : BlobOf(r) \subseteq Known'
  <2>1. \A q \in new : BlobOf(q) \subseteq next .. next' - 1
    OBVIOUS
  <2> QED BY <1>0, <2>1, RequestsReplaced
<1>2. PICK h : (\A q \in reqs \ old : Same(q, h[q])) /\ (\A s \in reqs' : s \in new \/ \E q \in reqs \ old : s = h[q])
  BY DEF Replaced, Told
<1>3. ASSUME NEW s \in reqs', s \notin new
      PROVE  \E q \in reqs \ old : Same(q, s) /\ RefsKnown(s)' /\ BlobOf(s) = BlobOf(q)
  <2>1. PICK q \in reqs \ old : Same(q, s)
    BY <1>2, <1>3
  <2>2. BlobOf(s) = BlobOf(q) /\ s.op = q.op /\ RefsKnown(q)
    BY <1>0, <2>1, SameBlob, SameRequest DEF IdsKnown
  <2>3. RefsKnown(s)'
    <3>1. /\ q.op \in {"mkdir", "upload", "copywalk", "config"} => s = q
          /\ q.op = "move" => s.to = q.to /\ s.cur = q.cur
          /\ q.op = "copy" => s.made = q.made /\ s.todo = q.todo
          /\ q.op = "undo" => s.made = q.made /\ s.levels \subseteq q.levels
      BY <1>0, <2>1, SameRequest
    <3>2. Known \subseteq Known' /\ Places \subseteq Places'
      BY <1>1 DEF Places
    <3> QED BY <2>2, <3>1, <3>2 DEF RefsKnown
  <2> QED BY <2>1, <2>2, <2>3
<1>4. BlobsSaved'
  BY <1>3 DEF BlobsSaved
<1>5. ASSUME next' = next + 1, \A q \in new : BlobOf(q) = {} PROVE next \in Known'
  <2>1. next \notin Saved'
    <3> SUFFICES ASSUME next \in Saved' PROVE FALSE
      OBVIOUS
    <3>0. DriveTypeOK'
      BY <1>1 DEF DriveTypeOK
    <3>1. PICK s \in reqs' : next \in BlobOf(s)
      <4>1. (DriveTypeOK => \A b : b \in Saved <=> \E r \in reqs : b \in BlobOf(r))'
        BY SavedIs, PTL
      <4> QED BY <3>0, <4>1
    <3>2. s \notin new
      BY <1>5, <3>1
    <3>3. PICK q \in reqs : next \in BlobOf(q)
      BY <1>3, <3>1, <3>2
    <3> QED BY <1>0, <3>3 DEF BlobsUsed
  <2> QED BY <1>0, <1>5, <2>1 DEF Known
<1> QED BY <1>1, <1>3, <1>4, <1>5 DEF DriveTypeOK, BlobsInv, Places

LEMMA Replacing ==
    ASSUME DriveTypeOK
    PROVE  /\ \A r : reqs' = reqs \cup {r} => Replaced({}, {r})
           /\ reqs' = reqs => Replaced({}, {})
           /\ reqs' = {} => Replaced(reqs, {})
           /\ \A r : reqs' = reqs \ {r} => Replaced({r}, {})
           /\ \A r, s : reqs' = (reqs \ {r}) \cup {s} => Replaced({r}, {s})
           /\ \A r, n, p, new : reqs' = Meddle(reqs \ {r}, n, p) \cup new => Replaced({r}, new)
           /\ \A r, n, p, new : reqs' = Crossing(Meddle(reqs \ {r}, n, p), {"restore"}) \cup new => Replaced({r}, new)
           /\ \A r, n, p, m, q : reqs' = Crossing(Meddle(Meddle(reqs \ {r}, n, p), m, q), {"move", "restore"})
                                   => Replaced({r}, {})
           /\ \A r : reqs' = Crossing(reqs \ {r}, {"restore"}) => Replaced({r}, {})
<1>0. reqs \in SUBSET Requests
  BY DEF DriveTypeOK
<1>1. Told({}, {}) /\ Told(reqs, reqs) /\ \A r : Told(reqs \ {r}, reqs \ {r})
  BY <1>0, ToldSelf
<1>2. reqs \ {} = reqs /\ reqs \ reqs = {}
  OBVIOUS
<1>3. ASSUME NEW r, NEW n, NEW p PROVE Told(reqs \ {r}, Meddle(reqs \ {r}, n, p))
  BY <1>0, ToldBy
<1>4. ASSUME NEW rs, NEW ss, Told(rs, ss), rs \in SUBSET Requests
      PROVE  /\ Told(rs, Crossing(ss, {"restore"})) /\ Told(rs, Crossing(ss, {"move", "restore"}))
             /\ \A n, p : Told(rs, Meddle(ss, n, p))
  <2>1. ss \in SUBSET Requests
    BY <1>4, ToldRequests
  <2>2. /\ Told(ss, Crossing(ss, {"restore"})) /\ Told(ss, Crossing(ss, {"move", "restore"}))
        /\ \A n, p : Told(ss, Meddle(ss, n, p))
    BY <2>1, ToldBy
  <2> QED BY <1>4, <2>2, ToldTwice
<1>5. ASSUME NEW r, NEW n, NEW p, NEW m, NEW q
      PROVE  /\ Told(reqs \ {r}, Crossing(Meddle(reqs \ {r}, n, p), {"restore"}))
             /\ Told(reqs \ {r}, Crossing(Meddle(Meddle(reqs \ {r}, n, p), m, q), {"move", "restore"}))
             /\ Told(reqs \ {r}, Crossing(reqs \ {r}, {"restore"}))
  <2>1. reqs \ {r} \in SUBSET Requests
    BY <1>0
  <2>2. Told(reqs \ {r}, Meddle(Meddle(reqs \ {r}, n, p), m, q))
    BY <1>3, <1>4, <2>1
  <2> QED BY <1>1, <1>3, <1>4, <2>1, <2>2
<1>6. ASSUME NEW r, NEW ss, Told(reqs \ {r}, ss)
      PROVE  (reqs' = ss => Replaced({r}, {})) /\ \A new : reqs' = ss \cup new => Replaced({r}, new)
  <2>1. ss = ss \cup {}
    OBVIOUS
  <2> QED BY <1>6, <2>1 DEF Replaced
<1>7. reqs' = {} => Replaced(reqs, {})
  <2>1. {} = {} \cup {}
    OBVIOUS
  <2> QED BY <1>1, <1>2, <2>1 DEF Replaced
<1>8. (reqs' = reqs => Replaced({}, {})) /\ \A r : reqs' = reqs \cup {r} => Replaced({}, {r})
  <2>1. reqs = reqs \cup {}
    OBVIOUS
  <2> QED BY <1>1, <1>2, <2>1 DEF Replaced
<1>9. \A r : (reqs' = reqs \ {r} => Replaced({r}, {})) /\ \A s : reqs' = (reqs \ {r}) \cup {s} => Replaced({r}, {s})
  BY <1>1, <1>6
<1>10. \A r, n, p, new : reqs' = Meddle(reqs \ {r}, n, p) \cup new => Replaced({r}, new)
  BY <1>3, <1>6
<1>11. /\ \A r, n, p, new : reqs' = Crossing(Meddle(reqs \ {r}, n, p), {"restore"}) \cup new => Replaced({r}, new)
       /\ \A r : reqs' = Crossing(reqs \ {r}, {"restore"}) => Replaced({r}, {})
  BY <1>5, <1>6
<1>12. \A r, n, p, m, q : reqs' = Crossing(Meddle(Meddle(reqs \ {r}, n, p), m, q), {"move", "restore"})
                                   => Replaced({r}, {})
  BY <1>5, <1>6
<1> QED BY <1>7, <1>8, <1>9, <1>10, <1>11, <1>12

-----------------------------------------------------------------------------
(* The shapes of a step: nothing happens to the rows, or ... *)

Kept(new) == \A s \in reqs' : s \in new \/ \E q \in reqs : Same(q, s)

NewMove(s) ==
    /\ s.op = "move"
    /\ \/ s.cur = s.to
       \/ \E r \in reqs : /\ r.op = "move" /\ r.cur # Root /\ r.cur # r.id
                          /\ s = [r EXCEPT !.cur = IF @ \in Rows THEN node[@].parent ELSE Root]
NewRestore(s) == s.op = "restore" /\ Fits(SubtreeSizeAny(s.id), quota)
NewUpload(s) == s.op = "upload" /\ s.quota = quota

Quiet ==
    /\ node' = node /\ stray' = stray /\ knot' = knot /\ surge' = surge /\ Known \subseteq Known'
    /\ \/ quota' = quota /\ limit' = limit
       \/ limit' = Largest(limit, quota')
    /\ \A s \in reqs' : \/ \E q \in reqs : Same(q, s)
                        \/ NewMove(s) \/ NewRestore(s) \/ NewUpload(s)
                        \/ s.op \notin {"move", "restore", "upload"}

LEMMA RowsStay ==
    ASSUME node' = node
    PROVE  Rows' = Rows /\ Live' = Live /\ Trashed' = Trashed /\ Files' = Files
BY DEF Rows, Live, Trashed, Files

LEMMA QuietStep ==
    ASSUME CoreInv, Ranges', NEW old \in SUBSET reqs, NEW new \in SUBSET Requests, Replaced(old, new),
           \A p, q \in new : p = q, next' \in {next, next + 1},
           \A q \in new : BlobOf(q) \subseteq (next .. next' - 1) \cap (disk' \cup swept'),
           \A r \in reqs \ old : BlobOf(r) \subseteq disk' \cup swept',
           node' = node, Files \subseteq disk' \cup swept', \A q \in new : RefsKnown(q)
    PROVE  CoreInv' /\ Kept(new) /\ Known \subseteq Known'
<1>1. /\ DriveTypeOK' /\ BlobsInv' /\ Known \subseteq Known' /\ Places \subseteq Places'
      /\ \A s \in reqs' : s \in new \/ (\E q \in reqs \ old : Same(q, s) /\ RefsKnown(s)')
  BY RequestsStep
<1>2. Rows' = Rows /\ Files' = Files
  BY RowsStay
<1>3. \A q \in new : RefsKnown(q)'
  BY <1>1 DEF RefsKnown
<1>4. IdsKnown'
  BY <1>1, <1>2, <1>3 DEF IdsKnown, CoreInv
<1>5. RowKeepsBlob'
  BY <1>2 DEF RowKeepsBlob
<1> QED BY <1>1, <1>4, <1>5 DEF CoreInv, Kept

\* Requests that have just been opened.
LEMMA OpenQuiet ==
    ASSUME CoreInv, NEW r \in Requests, reqs' = reqs \cup {r}, RefsKnown(r),
           node' = node, stray' = stray, knot' = knot, surge' = surge, quota' = quota, limit' = limit,
           now' = now, listed' = listed, swept' = swept, stored' \in Nat, events' \in Nat,
           \/ next' = next /\ disk' = disk /\ BlobOf(r) = {}
           \/ next' = next + 1 /\ disk' = disk \cup {next} /\ next <= N /\ BlobOf(r) = {next},
           NewMove(r) \/ NewRestore(r) \/ NewUpload(r) \/ r.op \notin {"move", "restore", "upload"}
    PROVE  CoreInv' /\ Quiet
<1> DEFINE old == {}
           new == {r}
<1>0. DriveTypeOK /\ Ranges /\ next \in Nat \ {0} /\ N \in Nat
  BY DriveAssumption DEF CoreInv, DriveTypeOK, Ranges
<1>1. Ranges'
  <2>1. next' \in 1 .. N + 1 /\ disk' \subseteq Ids
    <3>0. next \in 1 .. N + 1 /\ disk \subseteq 1 .. N
      BY <1>0 DEF Ranges, Ids
    <3>1. CASE next' = next /\ disk' = disk
      BY <3>0, <3>1 DEF Ids
    <3>2. CASE next' = next + 1 /\ disk' = disk \cup {next} /\ next <= N
      BY <1>0, <3>0, <3>2 DEF Ids
    <3> QED BY <3>1, <3>2
  <2> QED BY <1>0, <2>1 DEF Ranges
<1>2. Replaced({}, {r})
  BY <1>0, Replacing
<1>3. next' \in {next, next + 1} /\ BlobOf(r) \subseteq (next .. next' - 1) \cap (disk' \cup swept')
  BY <1>0
<1>4. (\A q \in reqs : BlobOf(q) \subseteq disk' \cup swept') /\ Files \subseteq disk' \cup swept'
  BY DEF CoreInv, BlobsInv, BlobsSaved, RowKeepsBlob
<1>5. CoreInv' /\ Kept({r}) /\ Known \subseteq Known'
  <2>1. /\ old \in SUBSET reqs /\ new \in SUBSET Requests /\ Replaced(old, new) /\ (\A p, q \in new : p = q)
        /\ (\A q \in new : BlobOf(q) \subseteq (next .. next' - 1) \cap (disk' \cup swept') /\ RefsKnown(q))
        /\ \A q \in reqs \ old : BlobOf(q) \subseteq disk' \cup swept'
    BY <1>2, <1>3, <1>4
  <2> HIDE DEF old
  <2>2. CoreInv' /\ Kept(new) /\ Known \subseteq Known'
    <3> HIDE DEF new
    <3> QED BY <1>1, <1>3, <1>4, <2>1, QuietStep
  <2> QED BY <2>2
<1> QED BY <1>5 DEF Quiet, Kept

LEMMA NewRequestQuiet ==
    ASSUME CoreInv,
           \/ \E p \in Parents : CreateFolder(p) \/ Upload(p)
           \/ \E n \in Ids, p \in Parents : Move(n, p) \/ Copy(n, p)
           \/ \E n \in Ids : Restore(n)
           \/ \E q \in Quotas : PutConfig(q)
    PROVE  CoreInv' /\ Quiet
<1>0. DriveTypeOK /\ Ranges /\ IdsKnown /\ next \in Nat \ {0} /\ N \in Nat /\ Rows \subseteq Known /\ Live \subseteq Rows
  BY DriveAssumption DEF CoreInv, DriveTypeOK, Ranges, IdsKnown, Rows, Live
<1>1. ASSUME NEW p \in Parents, LiveFolder(p) PROVE p \in Places
  BY <1>0, <1>1 DEF LiveFolder, Places
<1>2. ASSUME NEW p \in Parents, CreateFolder(p) PROVE CoreInv' /\ Quiet
  <2> DEFINE r == [op |-> "mkdir", to |-> p]
  <2>1. r \in Requests /\ RefsKnown(r) /\ BlobOf(r) = {} /\ r.op = "mkdir"
    BY <1>1, <1>2 DEF Requests, MkdirReq, RefsKnown, BlobOf, CreateFolder
  <2>2. /\ reqs' = reqs \cup {r} /\ next' = next /\ disk' = disk /\ stored' = stored /\ events' = events
        /\ UNCHANGED <<node, stray, knot, surge, quota, limit, now, listed, swept>>
    BY <1>2 DEF CreateFolder, Open
  <2> HIDE DEF r
  <2> QED BY <1>0, <2>1, <2>2, OpenQuiet DEF Ranges
<1>3. ASSUME NEW p \in Parents, Upload(p) PROVE CoreInv' /\ Quiet
  <2> DEFINE r == [op |-> "upload", id |-> next, to |-> p, quota |-> quota]
  <2>0. next \in Ids /\ quota \in Nat
    BY <1>0, <1>3 DEF Ids, Upload, Ranges
  <2>1. r \in Requests /\ RefsKnown(r) /\ BlobOf(r) = {next} /\ NewUpload(r)
    BY <1>1, <1>3, <2>0 DEF Requests, UploadReq, RefsKnown, BlobOf, Upload, NewUpload
  <2>2. /\ reqs' = reqs \cup {r} /\ next' = next + 1 /\ disk' = disk \cup {next} /\ next <= N
        /\ stored' = stored /\ events' = events
        /\ UNCHANGED <<node, stray, knot, surge, quota, limit, now, listed, swept>>
    BY <1>3 DEF Upload, Open
  <2> HIDE DEF r
  <2> QED BY <1>0, <2>1, <2>2, OpenQuiet DEF Ranges
<1>4. ASSUME NEW n \in Ids, NEW p \in Parents, Move(n, p) PROVE CoreInv' /\ Quiet
  <2> DEFINE r == [op |-> "move", id |-> n, to |-> p, cur |-> p, crossed |-> FALSE]
  <2>1. r \in Requests /\ RefsKnown(r) /\ BlobOf(r) = {} /\ NewMove(r)
    BY <1>1, <1>4 DEF Requests, MoveReq, RefsKnown, BlobOf, Move, NewMove
  <2>2. /\ reqs' = reqs \cup {r} /\ next' = next /\ disk' = disk /\ stored' = stored /\ events' = events
        /\ UNCHANGED <<node, stray, knot, surge, quota, limit, now, listed, swept>>
    BY <1>4 DEF Move, Open
  <2> HIDE DEF r
  <2> QED BY <1>0, <2>1, <2>2, OpenQuiet DEF Ranges
<1>5. ASSUME NEW n \in Ids, NEW p \in Parents, Copy(n, p) PROVE CoreInv' /\ Quiet
  <2>0. node[n].kind \in Kinds
    BY <1>0 DEF Ranges, NodeRow
  <2> DEFINE c == IF node[n].kind = "folder" THEN p ELSE Root
             r == [op |-> "copywalk", id |-> n, kind |-> node[n].kind, to |-> p, cur |-> c]
  <2>1. c \in Places /\ c \in Parents /\ p \in Places
    BY <1>1, <1>5 DEF Places, Parents, Copy
  <2>2. /\ reqs' = reqs \cup {r} /\ next' = next /\ disk' = disk /\ stored' = stored /\ events' = events
        /\ UNCHANGED <<node, stray, knot, surge, quota, limit, now, listed, swept>>
    BY <1>5 DEF Copy, Open
  <2> HIDE DEF c
  <2>3. r \in Requests /\ RefsKnown(r) /\ BlobOf(r) = {} /\ r.op = "copywalk"
    BY <2>0, <2>1 DEF Requests, WalkReq, RefsKnown, BlobOf
  <2> HIDE DEF r
  <2> QED BY <1>0, <2>2, <2>3, OpenQuiet DEF Ranges
<1>6. ASSUME NEW n \in Ids, Restore(n) PROVE CoreInv' /\ Quiet
  <2>0. node[n].at \in Nat \cup {Never}
    BY <1>0 DEF Ranges, NodeRow
  <2> DEFINE r == [op |-> "restore", id |-> n, marker |-> node[n].at, crossed |-> FALSE]
  <2>1. r \in Requests /\ RefsKnown(r) /\ BlobOf(r) = {}
    BY <2>0 DEF Requests, RestoreReq, RefsKnown, BlobOf
  <2>3. NewRestore(r)
    BY <1>6 DEF Restore, NewRestore
  <2>2. /\ reqs' = reqs \cup {r} /\ next' = next /\ disk' = disk /\ stored' = stored /\ events' = events
        /\ UNCHANGED <<node, stray, knot, surge, quota, limit, now, listed, swept>>
    BY <1>6 DEF Restore, Open
  <2> HIDE DEF r
  <2> QED BY <1>0, <2>1, <2>2, <2>3, OpenQuiet DEF Ranges
<1>7. ASSUME NEW q \in Quotas, PutConfig(q) PROVE CoreInv' /\ Quiet
  <2> DEFINE r == [op |-> "config", quota |-> q]
  <2>0. q \in Nat
    BY DriveAssumption
  <2>1. r \in Requests /\ RefsKnown(r) /\ BlobOf(r) = {} /\ r.op = "config"
    BY <2>0 DEF Requests, ConfigReq, RefsKnown, BlobOf
  <2>2. /\ reqs' = reqs \cup {r} /\ next' = next /\ disk' = disk /\ stored' = q /\ events' = events + 1
        /\ UNCHANGED <<node, stray, knot, surge, quota, limit, now, listed, swept>>
    BY <1>7 DEF PutConfig, Open
  <2> HIDE DEF r
  <2> QED BY <1>0, <2>0, <2>1, <2>2, OpenQuiet DEF Ranges
<1> QED BY <1>2, <1>3, <1>4, <1>5, <1>6, <1>7

\* A request that ends, or goes on without touching the rows.
LEMMA GoOnQuiet ==
    ASSUME CoreInv, Ranges', NEW r \in reqs, NEW new \in SUBSET Requests, Replaced({r}, new),
           \A p, q \in new : p = q, \A q \in new : RefsKnown(q),
           node' = node, stray' = stray, knot' = knot, surge' = surge, swept' = swept,
           (quota' = quota /\ limit' = limit) \/ limit' = Largest(limit, quota'),
           disk \ BlobOf(r) \subseteq disk', next' \in {next, next + 1},
           \A q \in new : BlobOf(q) \subseteq (next .. next' - 1) \cap disk',
           \A q \in new : NewMove(q) \/ q.op \notin {"move", "restore", "upload"}
    PROVE  CoreInv' /\ Quiet
<1> DEFINE old == {r}
<1>1. old \in SUBSET reqs /\ Replaced(old, new)
  OBVIOUS
<1>2. \A q \in reqs \ old : BlobOf(q) \subseteq disk' \cup swept'
  BY DEF CoreInv, BlobsInv, BlobsSaved, BlobsApart
<1>3. Files \subseteq disk' \cup swept'
  <2>1. Files \cap BlobOf(r) = {}
    <3>1. BlobOf(r) \subseteq Saved
      BY SavedIs DEF CoreInv
    <3> QED BY <3>1 DEF CoreInv, IdsKnown, Known, Files, Rows
  <2> QED BY <2>1 DEF CoreInv, RowKeepsBlob
<1> HIDE DEF old
<1>4. CoreInv' /\ Kept(new) /\ Known \subseteq Known'
  BY <1>1, <1>2, <1>3, QuietStep
<1> QED BY <1>4 DEF Quiet, Kept

LEMMA EndQuiet ==
    ASSUME CoreInv, NEW r \in reqs,
           \/ UploadRejected(r) \/ CopyDone(r) \/ SetConfig(r)
           \/ CreateNode(r) /\ UNCHANGED <<node, next, stray>>
           \/ UpdateNode(r) /\ UNCHANGED <<node, stray, knot>> /\ reqs' = reqs \ {r}
           \/ (IsDescendant(r) \/ EnsureCopyQuota(r)) /\ reqs' = reqs \ {r}
    PROVE  (reqs' = reqs \ {r} => CoreInv' /\ Quiet)
<1> SUFFICES ASSUME reqs' = reqs \ {r} PROVE CoreInv' /\ Quiet
  OBVIOUS
<1> DEFINE new == {}
<1>0. DriveTypeOK /\ Ranges /\ r \in Requests /\ events \in Nat
  BY DEF CoreInv, DriveTypeOK, Ranges
<1>1. Replaced({r}, new)
  BY <1>0, Replacing
<1>2. /\ new \in SUBSET Requests /\ (\A p, q \in new : p = q) /\ (\A q \in new : RefsKnown(q))
      /\ (\A q \in new : BlobOf(q) \subseteq (next .. next' - 1) \cap disk')
      /\ (\A q \in new : NewMove(q) \/ q.op \notin {"move", "restore", "upload"})
  OBVIOUS
<1> HIDE DEF new
<1>3. CASE SetConfig(r)
  <2>1. r.quota \in Nat
    BY <1>0, <1>3, RequestFields DEF SetConfig, ConfigReq
  <2>2. Ranges' /\ limit' = Largest(limit, quota') /\ disk' = disk /\ next' = next
    BY <1>0, <1>3, <2>1 DEF SetConfig, Ranges, Largest
  <2>3. node' = node /\ stray' = stray /\ knot' = knot /\ surge' = surge /\ swept' = swept
    BY <1>3 DEF SetConfig
  <2> QED BY <1>1, <1>2, <2>2, <2>3, GoOnQuiet
<1>4. CASE UploadRejected(r)
  <2>1. BlobOf(r) = {r.id}
    BY <1>0, <1>4, RequestFields DEF UploadRejected, UploadReq, BlobOf
  <2>2. disk' \subseteq disk /\ disk \ BlobOf(r) \subseteq disk' /\ events' \in Nat
    BY <1>0, <1>4, <2>1 DEF UploadRejected, DeleteBlobs
  <2>3. /\ node' = node /\ stray' = stray /\ knot' = knot /\ surge' = surge /\ swept' = swept
        /\ quota' = quota /\ limit' = limit /\ next' = next /\ now' = now /\ listed' = listed /\ stored' = stored
    BY <1>4 DEF UploadRejected
  <2>4. Ranges'
    BY <1>0, <2>2, <2>3 DEF Ranges
  <2> QED BY <1>1, <1>2, <2>2, <2>3, <2>4, GoOnQuiet
<1>5. CASE ~SetConfig(r) /\ ~UploadRejected(r)
  <2>1. /\ node' = node /\ stray' = stray /\ knot' = knot /\ surge' = surge /\ swept' = swept /\ disk' = disk
        /\ quota' = quota /\ limit' = limit /\ next' = next /\ now' = now /\ listed' = listed /\ stored' = stored
        /\ events' = events
    BY <1>5 DEF CopyDone, CreateNode, UpdateNode, IsDescendant, EnsureCopyQuota
  <2>2. Ranges'
    BY <1>0, <2>1 DEF Ranges
  <2> QED BY <1>1, <1>2, <2>1, <2>2, GoOnQuiet
<1> QED BY <1>3, <1>4, <1>5

LEMMA BecomeQuiet ==
    ASSUME CoreInv, NEW r \in reqs, IsDescendant(r) \/ EnsureCopyQuota(r), reqs' # reqs \ {r}
    PROVE  CoreInv' /\ Quiet
<1>0. DriveTypeOK /\ Ranges /\ r \in Requests /\ RefsKnown(r) /\ IdsKnown
  BY DEF CoreInv, DriveTypeOK, Ranges, IdsKnown
<1>1. /\ node' = node /\ stray' = stray /\ knot' = knot /\ surge' = surge /\ swept' = swept /\ disk' = disk
      /\ quota' = quota /\ limit' = limit /\ next' = next /\ now' = now /\ listed' = listed /\ stored' = stored
      /\ events' = events
  BY DEF IsDescendant, EnsureCopyQuota
<1>2. Ranges'
  BY <1>0, <1>1 DEF Ranges
<1>3. \E s \in Requests : /\ reqs' = (reqs \ {r}) \cup {s} /\ RefsKnown(s) /\ BlobOf(s) = {}
                          /\ NewMove(s) \/ s.op \notin {"move", "restore", "upload"}
  <2>1. CASE IsDescendant(r)
    <3> DEFINE c == IF r.cur \in Rows THEN node[r.cur].parent ELSE Root
               s == [r EXCEPT !.cur = c]
    <3>1. c \in Places /\ c \in Parents
      <4>1. \A n \in Ids : node[n].parent \in Parents
        BY <1>0 DEF Ranges, NodeRow
      <4> QED BY <1>0, <4>1 DEF IdsKnown, Places, Parents, Rows
    <3>2. reqs' = (reqs \ {r}) \cup {s} /\ r.cur # Root /\ r.cur # r.id
      BY <2>1 DEF IsDescendant, Become, Close
    <3>5. r.op = "move" => NewMove(s)
      <4> SUFFICES ASSUME r.op = "move" PROVE NewMove(s)
        OBVIOUS
      <4>1. r \in MoveReq
        BY <1>0, RequestFields
      <4>2. s.op = "move"
        BY <4>1 DEF MoveReq
      <4> QED BY <3>2, <4>2 DEF NewMove
    <3> HIDE DEF c
    <3>3. CASE r.op = "move"
      <4>1. r \in MoveReq
        BY <1>0, <3>3, RequestFields
      <4>2. s \in MoveReq /\ s.op = "move" /\ s.to = r.to /\ s.cur = c
        BY <3>1, <4>1 DEF MoveReq
      <4>3. s \in Requests
        BY <4>2 DEF Requests
      <4> HIDE DEF s
      <4> QED BY <1>0, <3>1, <3>2, <3>3, <3>5, <4>2, <4>3 DEF RefsKnown, BlobOf
    <3>4. CASE r.op = "copywalk"
      <4>1. r \in WalkReq
        BY <1>0, <3>4, RequestFields
      <4>2. s \in WalkReq /\ s.op = "copywalk" /\ s.to = r.to /\ s.cur = c
        BY <3>1, <4>1 DEF WalkReq
      <4>3. s \in Requests
        BY <4>2 DEF Requests
      <4> HIDE DEF s
      <4> QED BY <1>0, <3>1, <3>2, <3>4, <4>2, <4>3 DEF RefsKnown, BlobOf
    <3> QED BY <2>1, <3>3, <3>4 DEF IsDescendant
  <2>2. CASE EnsureCopyQuota(r)
    <3> DEFINE t == [src |-> r.id, kind |-> r.kind, to |-> r.to, levels |-> {}]
               s == [op |-> "copy", made |-> {}, crossed |-> FALSE, todo |-> <<t>>]
    <3>1. r \in WalkReq /\ r.op = "copywalk"
      BY <1>0, <2>2, RequestFields DEF EnsureCopyQuota
    <3>2. t \in Task /\ t.kind \in Kinds /\ t.to = r.to /\ t.levels = {}
      BY <3>1 DEF WalkReq, Task
    <3>3. reqs' = (reqs \ {r}) \cup {s}
      BY <2>2 DEF EnsureCopyQuota, Become, Close
    <3>4. r.to \in Places
      BY <1>0, <3>1 DEF RefsKnown
    <3> HIDE DEF t
    <3>5. <<t>> \in Tasks /\ Len(<<t>>) = 1 /\ DOMAIN <<t>> = 1 .. 1 /\ <<t>>[1] = t /\ Head(<<t>>) = t
      BY <3>2 DEF Tasks
    <3>6. s \in Requests
      BY <3>5 DEF Requests, CopyReq
    <3>7. RefsKnown(s)
      BY <3>2, <3>4, <3>5 DEF RefsKnown
    <3>8. BlobOf(s) = {}
      BY <3>2, <3>5 DEF BlobOf, Kinds
    <3> QED BY <3>3, <3>6, <3>7, <3>8
  <2> QED BY <2>1, <2>2
<1>4. PICK s \in Requests : /\ reqs' = (reqs \ {r}) \cup {s} /\ RefsKnown(s) /\ BlobOf(s) = {}
                            /\ NewMove(s) \/ s.op \notin {"move", "restore", "upload"}
  BY <1>3
<1> DEFINE new == {s}
<1>5. Replaced({r}, new)
  BY <1>0, <1>4, Replacing
<1>6. /\ new \in SUBSET Requests /\ (\A p, q \in new : p = q) /\ (\A q \in new : RefsKnown(q))
      /\ (\A q \in new : BlobOf(q) \subseteq (next .. next' - 1) \cap disk')
      /\ (\A q \in new : NewMove(q) \/ q.op \notin {"move", "restore", "upload"})
  BY <1>4
<1> HIDE DEF new
<1> QED BY <1>1, <1>2, <1>5, <1>6, GoOnQuiet

\* The copy that is being made: its task list, and what replacing its head gives.
LEMMA CopyTasks ==
    ASSUME NEW r \in Requests, r.op = "copy", r.todo # <<>>
    PROVE  /\ r \in CopyReq /\ r.todo \in Seq(Task) /\ Head(r.todo) \in Task /\ Head(r.todo) = r.todo[1]
           /\ 1 \in DOMAIN r.todo
           /\ Tail(r.todo) \in Tasks /\ (\A i \in DOMAIN Tail(r.todo) : i + 1 \in DOMAIN r.todo
                                            /\ Tail(r.todo)[i] = r.todo[i + 1] /\ r.todo[i + 1].kind \in Kinds)
           /\ \A t \in Task :
                /\ <<t>> \o Tail(r.todo) \in Tasks /\ Head(<<t>> \o Tail(r.todo)) = t /\ <<t>> \o Tail(r.todo) # <<>>
                /\ \A i \in DOMAIN (<<t>> \o Tail(r.todo)) :
                     (<<t>> \o Tail(r.todo))[i] \in {t} \cup {r.todo[j] : j \in DOMAIN r.todo}
<1>1. r \in CopyReq
  BY RequestFields
<1>2. r.todo \in Seq(Task) /\ \A i \in 2 .. Len(r.todo) : r.todo[i].kind \in Kinds
  BY <1>1 DEF CopyReq, Tasks
<1>3. Len(r.todo) \in Nat \ {0} /\ DOMAIN r.todo = 1 .. Len(r.todo)
  BY <1>2
<1>4. Head(r.todo) \in Task /\ Head(r.todo) = r.todo[1] /\ 1 \in DOMAIN r.todo
  BY <1>2, <1>3
<1>5. Tail(r.todo) \in Seq(Task) /\ Len(Tail(r.todo)) = Len(r.todo) - 1
      /\ \A i \in 1 .. Len(r.todo) - 1 : Tail(r.todo)[i] = r.todo[i + 1]
  BY <1>2, <1>3
<1> DEFINE u == Tail(r.todo)
<1>6. u \in Tasks /\ (\A i \in DOMAIN u : i + 1 \in DOMAIN r.todo /\ u[i] = r.todo[i + 1] /\ r.todo[i + 1].kind \in Kinds)
  <2>1. DOMAIN u = 1 .. Len(r.todo) - 1 /\ Len(u) = Len(r.todo) - 1
    BY <1>3, <1>5
  <2>2. \A i \in DOMAIN u : i + 1 \in DOMAIN r.todo /\ u[i] = r.todo[i + 1] /\ r.todo[i + 1].kind \in Kinds
    BY <1>2, <1>3, <1>5, <2>1
  <2>3. u \in Tasks
    <3>0. u \in Seq(Task)
      BY <1>5
    <3> HIDE DEF u
    <3>1. \A i \in 2 .. Len(u) : u[i].kind \in Kinds
      BY <1>3, <2>1, <2>2
    <3> QED BY <3>0, <3>1 DEF Tasks
  <2> QED BY <2>2, <2>3
<1>11. ASSUME NEW t \in Task
       PROVE  /\ <<t>> \o Tail(r.todo) \in Tasks /\ Head(<<t>> \o Tail(r.todo)) = t /\ <<t>> \o Tail(r.todo) # <<>>
              /\ \A i \in DOMAIN (<<t>> \o Tail(r.todo)) :
                     (<<t>> \o Tail(r.todo))[i] \in {t} \cup {r.todo[j] : j \in DOMAIN r.todo}
  <2> DEFINE v == <<t>> \o u
  <2>7. v \in Seq(Task) /\ Len(v) = Len(u) + 1 /\ v[1] = t /\ \A i \in 2 .. Len(v) : v[i] = u[i - 1] /\ i - 1 \in DOMAIN u
    <3>1. <<t>> \in Seq(Task) /\ Len(<<t>>) = 1 /\ u \in Seq(Task) /\ <<t>>[1] = t
      BY <1>5
    <3> HIDE DEF u
    <3> QED BY <3>1
  <2> HIDE DEF u, v
  <2>8. v \in Tasks
    BY <1>6, <2>7 DEF Tasks
  <2>9. Head(v) = t /\ v # <<>>
    BY <2>7
  <2>10. \A i \in DOMAIN v : v[i] \in {t} \cup {r.todo[j] : j \in DOMAIN r.todo}
    BY <1>6, <2>7
  <2> QED BY <2>8, <2>9, <2>10 DEF u, v
<1> QED BY <1>1, <1>2, <1>4, <1>6, <1>11 DEF u

\* What is left to copy once a folder's children are listed: they, and the rest.
ChildTasks(r, order) ==
    [i \in DOMAIN order |-> [Head(r.todo) EXCEPT !.src = order[i][1], !.kind = order[i][2]]] \o Tail(r.todo)

LEMMA CopyChildTasks ==
    ASSUME NEW r \in Requests, r.op = "copy", r.todo # <<>>, NEW m \in Nat,
           NEW order \in [1 .. m -> Ids \X Kinds]
    PROVE  /\ ChildTasks(r, order) \in Tasks
           /\ \A i \in DOMAIN ChildTasks(r, order) :
                /\ ChildTasks(r, order)[i].kind \in Kinds
                /\ \E j \in DOMAIN r.todo : /\ ChildTasks(r, order)[i].to = r.todo[j].to
                                            /\ ChildTasks(r, order)[i].levels = r.todo[j].levels
<1> DEFINE t == Head(r.todo)
           kids == [i \in DOMAIN order |-> [t EXCEPT !.src = order[i][1], !.kind = order[i][2]]]
           u == Tail(r.todo)
           v == kids \o u
<1>1. t \in Task /\ t = r.todo[1] /\ 1 \in DOMAIN r.todo /\ u \in Tasks
      /\ (\A i \in DOMAIN u : i + 1 \in DOMAIN r.todo /\ u[i] = r.todo[i + 1] /\ r.todo[i + 1].kind \in Kinds)
  BY CopyTasks
<1>2. kids \in Seq(Task) /\ Len(kids) = m /\ \A i \in 1 .. m : kids[i].kind \in Kinds /\ kids[i].to = t.to
                                                             /\ kids[i].levels = t.levels
  <2>1. DOMAIN order = 1 .. m
    OBVIOUS
  <2>2. \A i \in 1 .. m : order[i][1] \in Ids /\ order[i][2] \in Kinds
    OBVIOUS
  <2> HIDE DEF t
  <2>4. \A i \in 1 .. m : kids[i] \in Task /\ kids[i].kind \in Kinds /\ kids[i].to = t.to /\ kids[i].levels = t.levels
    BY <1>1, <2>1, <2>2 DEF Task
  <2>5. kids \in [1 .. m -> Task]
    BY <2>1, <2>4
  <2> HIDE DEF kids
  <2> QED BY <2>4, <2>5
<1>3. u \in Seq(Task)
  BY <1>1 DEF Tasks
<1> HIDE DEF kids, u, t
<1>4. v \in Seq(Task) /\ Len(v) = m + Len(u) /\ (\A i \in 1 .. m : v[i] = kids[i])
      /\ (\A i \in m + 1 .. m + Len(u) : v[i] = u[i - m] /\ i - m \in DOMAIN u)
  <2>1. v \in Seq(Task) /\ Len(v) = m + Len(u) /\ Len(u) \in Nat /\ DOMAIN u = 1 .. Len(u)
    <3>1. v \in Seq(Task) /\ Len(v) = Len(kids) + Len(u) /\ Len(u) \in Nat /\ DOMAIN u = 1 .. Len(u)
      <4>1. kids \in Seq(Task)
        BY <1>2
      <4> QED BY <1>3, <4>1
    <3> QED BY <1>2, <3>1
  <2>2. \A i \in 1 .. m : v[i] = kids[i]
    BY <1>2, <1>3
  <2>3. \A i \in m + 1 .. m + Len(u) : v[i] = u[i - m] /\ i - m \in DOMAIN u
    BY <1>2, <1>3, <2>1
  <2> QED BY <2>1, <2>2, <2>3
<1>5. \A i \in DOMAIN v : i \in 1 .. m \/ i \in m + 1 .. m + Len(u)
  BY <1>3, <1>4
<1> HIDE DEF v
<1>6. ASSUME NEW i \in DOMAIN v
      PROVE  v[i].kind \in Kinds /\ \E j \in DOMAIN r.todo : v[i].to = r.todo[j].to /\ v[i].levels = r.todo[j].levels
  <2>1. CASE i \in 1 .. m
    <3>1. v[i] = kids[i]
      BY <1>4, <2>1
    <3>2. v[i].kind \in Kinds /\ v[i].to = t.to /\ v[i].levels = t.levels
      BY <1>2, <2>1, <3>1
    <3> QED BY <1>1, <3>2
  <2>2. CASE i \in m + 1 .. m + Len(u)
    BY <1>1, <1>4, <2>2
  <2> QED BY <1>5, <1>6, <2>1, <2>2
<1>7. v \in Tasks
  BY <1>3, <1>4, <1>6 DEF Tasks
<1>8. v = ChildTasks(r, order)
  BY DEF v, kids, u, t, ChildTasks
<1> QED BY <1>6, <1>7, <1>8

\* The children listed are so many folders and files in some order.
LEMMA ListedChildren ==
    ASSUME CoreInv, NEW r \in reqs, CopyChildren(r)
    PROVE  \E m \in Nat : \E order \in [1 .. m -> Ids \X Kinds] :
             Become(r, [r EXCEPT !.todo = ChildTasks(r, order)])
<1> DEFINE kids == {<<c, node[c].kind>> : c \in ListChildren(Head(r.todo).src)}
<1>1. PICK order \in [1 .. Cardinality(kids) -> kids] : Become(r, [r EXCEPT !.todo = ChildTasks(r, order)])
  <2>1. \E order \in [1 .. Cardinality(kids) -> kids] :
          Become(r, [r EXCEPT !.todo = [i \in DOMAIN order |->
                       [Head(r.todo) EXCEPT !.src = order[i][1], !.kind = order[i][2]]] \o Tail(@)])
    BY DEF CopyChildren
  <2> HIDE DEF kids
  <2> QED BY <2>1 DEF ChildTasks
<1>2. IsFiniteSet(Ids) /\ \A c \in Ids : node[c].kind \in Kinds
  BY DriveAssumption, FS_Interval DEF Ids, CoreInv, DriveTypeOK, Ranges, NodeRow
<1>3. kids \subseteq Ids \X Kinds
  BY <1>2 DEF ListChildren, Live
<1>4. IsFiniteSet(Ids \X Kinds)
  <2>1. IsFiniteSet({"folder"})
    BY FS_Singleton
  <2>2. IsFiniteSet({"folder"} \cup {"file"})
    BY <2>1, FS_AddElement
  <2>3. IsFiniteSet(Kinds)
    BY <2>2 DEF Kinds
  <2> QED BY <1>2, <2>3, FS_Product
<1>5. Cardinality(kids) \in Nat
  <2> HIDE DEF kids
  <2> QED BY <1>3, <1>4, FS_Subset, FS_CardinalityType
<1>m. PICK m \in Nat : order \in [1 .. m -> Ids \X Kinds]
  <2> HIDE DEF kids
  <2> QED BY <1>3, <1>5
<1> QED BY <1>1, <1>m

\* One step of an undo: the innermost folder that is left is deleted or not.
LEMMA UndoSteps ==
    ASSUME NEW r \in Requests, UndoCopy(r)
    PROVE  /\ r \in UndoReq
           /\ UNCHANGED <<next, now, stored, quota, listed, swept, knot, limit, surge>> /\ events' \in {events, events + 1}
           /\ \E n \in r.levels : \E s \in UndoReq :
                /\ reqs' = (reqs \ {r}) \cup {s} /\ s.op = "undo"
                /\ s.made = r.made /\ s.crossed = r.crossed /\ s.levels = r.levels \ {n}
                /\ \A m \in r.levels : m <= n
                /\ \/ Drop(Below({n}), Below({n}) \cap Files) /\ s.kept = r.kept
                   \/ UNCHANGED <<node, disk, stray>> /\ s.kept = (r.levels = {n})
<1>1. r \in UndoReq
  BY RequestFields DEF UndoCopy
<1>2. PICK n \in r.levels :
        /\ \A m \in r.levels : m <= n
        /\ \/ /\ ~OnCycle(n) /\ Drop(Below({n}), Below({n}) \cap Files)
              /\ Become(r, [r EXCEPT !.levels = @ \ {n}])
           \/ /\ IF OnCycle(n) THEN events' = events ELSE events < MaxEvents /\ events' = events + 1
              /\ Become(r, [r EXCEPT !.levels = @ \ {n}, !.kept = (r.levels = {n})])
              /\ UNCHANGED <<node, disk, stray>>
  BY DEF UndoCopy
<1>3. CASE /\ Drop(Below({n}), Below({n}) \cap Files) /\ Become(r, [r EXCEPT !.levels = @ \ {n}])
  <2> DEFINE s == [r EXCEPT !.levels = @ \ {n}]
  <2>1. s \in UndoReq /\ s.op = "undo" /\ s.made = r.made /\ s.crossed = r.crossed /\ s.levels = r.levels \ {n}
        /\ s.kept = r.kept
    BY <1>1 DEF UndoReq
  <2>2. reqs' = (reqs \ {r}) \cup {s}
    BY <1>3 DEF Become
  <2> HIDE DEF s
  <2>3. events' \in {events, events + 1}
    BY <1>3 DEF Drop, DeleteBlobs
  <2> QED BY <1>1, <1>2, <1>3, <2>1, <2>2, <2>3 DEF UndoCopy
<1>4. CASE /\ events' \in {events, events + 1} /\ UNCHANGED <<node, disk, stray>>
           /\ Become(r, [r EXCEPT !.levels = @ \ {n}, !.kept = (r.levels = {n})])
  <2> DEFINE s == [r EXCEPT !.levels = @ \ {n}, !.kept = (r.levels = {n})]
  <2>1. s \in UndoReq /\ s.op = "undo" /\ s.made = r.made /\ s.crossed = r.crossed /\ s.levels = r.levels \ {n}
        /\ s.kept = (r.levels = {n})
    BY <1>1 DEF UndoReq
  <2>2. reqs' = (reqs \ {r}) \cup {s}
    BY <1>4 DEF Become
  <2> HIDE DEF s
  <2> QED BY <1>1, <1>2, <1>4, <2>1, <2>2 DEF UndoCopy
<1> QED BY <1>2, <1>3, <1>4

LEMMA UndoReplaces ==
    ASSUME DriveTypeOK, NEW r \in reqs, r \in UndoReq, NEW s \in UndoReq, s.made = r.made,
           s.levels \subseteq r.levels, s.crossed = r.crossed, reqs' = (reqs \ {r}) \cup {s}
    PROVE  Replaced({}, {})
<1> DEFINE h == [q \in reqs |-> IF q = r THEN s ELSE q]
<1>1. ASSUME NEW q \in reqs PROVE Same(q, h[q]) /\ h[q] \in Requests
  BY DEF Same, DriveTypeOK, Requests
<1>2. h \in [reqs -> Requests] /\ reqs' = {h[q] : q \in reqs}
  BY <1>1
<1> HIDE DEF h
<1>3. Told(reqs, reqs')
  BY <1>1, <1>2 DEF Told
<1>4. reqs \ {} = reqs /\ reqs' = reqs' \cup {}
  OBVIOUS
<1> QED BY <1>3, <1>4 DEF Replaced

LEMMA UndoQuiet ==
    ASSUME CoreInv, NEW r \in reqs, UndoCopy(r), UNCHANGED <<node, disk, stray>>
    PROVE  CoreInv' /\ Quiet
<1>0. DriveTypeOK /\ Ranges /\ r \in Requests /\ RefsKnown(r) /\ events \in Nat
  BY DEF CoreInv, DriveTypeOK, Ranges, IdsKnown
<1>1. /\ r \in UndoReq /\ events' \in {events, events + 1}
      /\ UNCHANGED <<next, now, stored, quota, listed, swept, knot, limit, surge>>
  BY <1>0, UndoSteps
<1>2. PICK s \in UndoReq : reqs' = (reqs \ {r}) \cup {s} /\ s.made = r.made /\ s.levels \subseteq r.levels
  BY <1>0, UndoSteps
<1> DEFINE new == {s}
<1>3. s \in Requests /\ s.op = "undo" /\ r.op = "undo"
  BY <1>1, <1>2 DEF Requests, UndoReq
<1>4. RefsKnown(s) /\ BlobOf(s) = {}
  BY <1>0, <1>2, <1>3 DEF RefsKnown, BlobOf
<1>5. Ranges'
  BY <1>0, <1>1 DEF Ranges
<1>6. /\ new \in SUBSET Requests /\ (\A p, q \in new : p = q) /\ (\A q \in new : RefsKnown(q))
      /\ (\A q \in new : BlobOf(q) \subseteq (next .. next' - 1) \cap disk')
      /\ (\A q \in new : NewMove(q) \/ q.op \notin {"move", "restore", "upload"})
  BY <1>3, <1>4
<1>7. Replaced({r}, new)
  BY <1>0, <1>2, Replacing
<1> HIDE DEF new
<1> QED BY <1>1, <1>5, <1>6, <1>7, GoOnQuiet

LEMMA CopyQuiet ==
    ASSUME CoreInv, NEW r \in reqs, CopyBlob(r) \/ CopyChildren(r) \/ CopyFails(r)
    PROVE  CoreInv' /\ Quiet
<1>0. DriveTypeOK /\ Ranges /\ r \in Requests /\ RefsKnown(r) /\ r.op = "copy" /\ r.todo # <<>> /\ next \in Nat \ {0}
      /\ N \in Nat /\ events \in Nat
  <2>1. r.op = "copy" /\ r.todo # <<>>
    BY DEF CopyBlob, CopyChildren, CopyFails
  <2> QED BY <2>1, DriveAssumption DEF CoreInv, DriveTypeOK, Ranges, IdsKnown
<1> DEFINE t == Head(r.todo)
<1>1. r \in CopyReq /\ t \in Task /\ t = r.todo[1] /\ 1 \in DOMAIN r.todo
  BY <1>0, CopyTasks
<1>2. /\ node' = node /\ stray' = stray /\ knot' = knot /\ surge' = surge /\ swept' = swept
      /\ quota' = quota /\ limit' = limit /\ now' = now /\ listed' = listed /\ stored' = stored
  BY DEF CopyBlob, CopyChildren, CopyFails
<1>3. CASE CopyBlob(r)
  <2> DEFINE u == [t EXCEPT !.kind = "saved", !.src = next]
             s == [r EXCEPT !.todo = <<u>> \o Tail(@)]
             new == {s}
  <2>1. next \in Ids /\ disk' = disk \cup {next} /\ next' = next + 1 /\ next <= N
    BY <1>0, <1>3 DEF CopyBlob, Ids
  <2>2. reqs' = (reqs \ {r}) \cup {s} /\ events' = events
    BY <1>3 DEF CopyBlob, Become, Close
  <2>3. u \in Task /\ u.kind = "saved" /\ u.src = next /\ u.to = t.to /\ u.levels = t.levels
    BY <1>1, <2>1 DEF Task
  <2> HIDE DEF u, t
  <2>4. <<u>> \o Tail(r.todo) \in Tasks /\ Head(<<u>> \o Tail(r.todo)) = u /\ <<u>> \o Tail(r.todo) # <<>>
        /\ \A i \in DOMAIN (<<u>> \o Tail(r.todo)) : (<<u>> \o Tail(r.todo))[i] \in {u} \cup {r.todo[j] : j \in DOMAIN r.todo}
    BY <1>0, <2>3, CopyTasks
  <2>5. s \in CopyReq /\ s.op = "copy" /\ s.made = r.made /\ s.todo = <<u>> \o Tail(r.todo)
    BY <1>1, <2>4 DEF CopyReq
  <2>6. s \in Requests
    BY <2>5 DEF Requests
  <2> HIDE DEF s
  <2>7. RefsKnown(s)
    <3>1. r.made \subseteq Known /\ \A j \in DOMAIN r.todo : r.todo[j].to \in Places /\ r.todo[j].levels \subseteq r.made
      BY <1>0 DEF RefsKnown
    <3>2. u.to \in Places /\ u.levels \subseteq r.made
      BY <1>1, <2>3, <3>1
    <3> QED BY <2>4, <2>5, <3>1, <3>2 DEF RefsKnown
  <2>8. BlobOf(s) = {next}
    BY <2>1, <2>3, <2>4, <2>5 DEF BlobOf
  <2>9. Ranges' /\ next \in next .. next' - 1
    <3>1. next' \in 1 .. N + 1 /\ disk' \subseteq Ids
      BY <1>0, <2>1 DEF Ranges
    <3> QED BY <1>0, <1>2, <2>1, <2>2, <3>1 DEF Ranges
  <2>10. /\ new \in SUBSET Requests /\ (\A p, q \in new : p = q) /\ (\A q \in new : RefsKnown(q))
        /\ (\A q \in new : BlobOf(q) \subseteq (next .. next' - 1) \cap disk')
        /\ (\A q \in new : NewMove(q) \/ q.op \notin {"move", "restore", "upload"})
    BY <2>1, <2>5, <2>6, <2>7, <2>8, <2>9
  <2>11. Replaced({r}, new)
    BY <1>0, <2>2, Replacing
  <2> HIDE DEF new
  <2>12. disk \ BlobOf(r) \subseteq disk' /\ next' \in {next, next + 1}
    BY <2>1
  <2> QED BY <1>2, <2>9, <2>10, <2>11, <2>12, GoOnQuiet
<1>4. CASE CopyChildren(r)
  <2>1. PICK m \in Nat : \E order \in [1 .. m -> Ids \X Kinds] : Become(r, [r EXCEPT !.todo = ChildTasks(r, order)])
    BY <1>4, ListedChildren
  <2>2. PICK order \in [1 .. m -> Ids \X Kinds] : Become(r, [r EXCEPT !.todo = ChildTasks(r, order)])
    BY <2>1
  <2>v. PICK v : v = ChildTasks(r, order)
    OBVIOUS
  <2> DEFINE s == [r EXCEPT !.todo = v]
             new == {s}
  <2>3. reqs' = (reqs \ {r}) \cup {s}
    BY <2>2, <2>v DEF Become
  <2>4. v \in Tasks /\ \A i \in DOMAIN v : /\ v[i].kind \in Kinds
                                           /\ \E j \in DOMAIN r.todo : v[i].to = r.todo[j].to /\ v[i].levels = r.todo[j].levels
    BY <1>0, <2>v, CopyChildTasks
  <2>5. s \in CopyReq /\ s.op = "copy" /\ s.made = r.made /\ s.todo = v
    BY <1>1, <2>4 DEF CopyReq
  <2>6. s \in Requests
    BY <2>5 DEF Requests
  <2> HIDE DEF s, t
  <2>7. RefsKnown(s)
    BY <1>0, <2>4, <2>5 DEF RefsKnown
  <2>8. BlobOf(s) = {}
    <3>1. v # <<>> => Head(v) = v[1] /\ 1 \in DOMAIN v
      BY <2>4 DEF Tasks
    <3>2. v # <<>> => Head(v).kind # "saved"
      BY <2>4, <3>1 DEF Kinds
    <3> QED BY <2>5, <3>2 DEF BlobOf
  <2>9. disk' = disk /\ next' = next /\ events' = events
    BY <1>4 DEF CopyChildren
  <2>10. Ranges'
    BY <1>0, <1>2, <2>9 DEF Ranges
  <2>11. /\ new \in SUBSET Requests /\ (\A p, q \in new : p = q) /\ (\A q \in new : RefsKnown(q))
        /\ (\A q \in new : BlobOf(q) \subseteq (next .. next' - 1) \cap disk')
        /\ (\A q \in new : NewMove(q) \/ q.op \notin {"move", "restore", "upload"})
    BY <2>5, <2>6, <2>7, <2>8
  <2>12. Replaced({r}, new)
    BY <1>0, <2>3, Replacing
  <2> HIDE DEF new
  <2> QED BY <1>2, <2>9, <2>10, <2>11, <2>12, GoOnQuiet
<1>5. CASE CopyFails(r)
  <2> DEFINE s == [op |-> "undo", levels |-> t.levels, made |-> r.made, crossed |-> r.crossed, kept |-> FALSE]
             new == {s}
             blobs == IF t.kind = "saved" THEN {t.src} ELSE {}
  <2>1. reqs' = (reqs \ {r}) \cup {s} /\ next' = next
        /\ (DeleteBlobs(blobs) \/ (events' = events + 1 /\ disk' \in {disk, disk \ blobs}))
    BY <1>5 DEF CopyFails, Become
  <2>2. blobs \subseteq BlobOf(r)
    BY <1>0, <1>1 DEF BlobOf, Task
  <2>3. s \in UndoReq /\ s.op = "undo" /\ s.made = r.made /\ s.levels = t.levels
    BY <1>1 DEF UndoReq, CopyReq, Task
  <2>4. s \in Requests
    BY <2>3 DEF Requests
  <2> HIDE DEF s, blobs
  <2>5. RefsKnown(s)
    BY <1>0, <1>1, <2>3 DEF RefsKnown
  <2>6. BlobOf(s) = {}
    BY <2>3 DEF BlobOf
  <2>7. disk' \subseteq disk /\ disk \ BlobOf(r) \subseteq disk' /\ events' \in Nat
    BY <1>0, <2>1, <2>2 DEF DeleteBlobs
  <2>8. Ranges'
    BY <1>0, <1>2, <2>1, <2>7 DEF Ranges
  <2>9. /\ new \in SUBSET Requests /\ (\A p, q \in new : p = q) /\ (\A q \in new : RefsKnown(q))
        /\ (\A q \in new : BlobOf(q) \subseteq (next .. next' - 1) \cap disk')
        /\ (\A q \in new : NewMove(q) \/ q.op \notin {"move", "restore", "upload"})
    BY <2>3, <2>4, <2>5, <2>6
  <2>10. Replaced({r}, new)
    BY <1>0, <2>1, Replacing
  <2> HIDE DEF new, t
  <2> QED BY <1>2, <2>1, <2>7, <2>8, <2>9, <2>10, GoOnQuiet
<1> QED BY <1>3, <1>4, <1>5

LEMMA BackgroundQuiet ==
    ASSUME CoreInv, SweepList \/ SweepDelete \/ Tick \/ Restart \/ UNCHANGED vars
    PROVE  CoreInv' /\ Quiet
<1> DEFINE new == {}
           old == IF Restart THEN reqs ELSE {}
<1>0. DriveTypeOK /\ Ranges /\ events \in Nat /\ now \in Nat
  BY DEF CoreInv, DriveTypeOK, Ranges
<1>1. Replaced(old, new) /\ old \in SUBSET reqs
  BY <1>0, Replacing DEF SweepList, SweepDelete, Tick, Restart, vars
<1>2. /\ new \in SUBSET Requests /\ (\A p, q \in new : p = q) /\ (\A q \in new : RefsKnown(q))
      /\ (\A q \in new : BlobOf(q) \subseteq (next .. next' - 1) \cap (disk' \cup swept'))
  OBVIOUS
<1>3. /\ node' = node /\ stray' = stray /\ knot' = knot /\ surge' = surge /\ next' = next
      /\ (quota' = quota /\ limit' = limit) \/ limit' = Largest(limit, quota')
  BY DEF SweepList, SweepDelete, Tick, Restart, vars
<1>4. quota' \in Nat /\ limit' \in Nat /\ now' \in Nat /\ events' \in Nat /\ stored' = stored
  BY <1>0 DEF SweepList, SweepDelete, Tick, Restart, vars, Ranges, Largest
<1>5. disk' \subseteq disk /\ listed' \subseteq Ids /\ swept' \subseteq Ids
  BY <1>0 DEF SweepList, SweepDelete, Tick, Restart, vars, Ranges
<1>6. Ranges'
  BY <1>0, <1>3, <1>4, <1>5 DEF Ranges
<1>7. (\A q \in reqs : BlobOf(q) \subseteq disk' \cup swept') /\ Files \subseteq disk' \cup swept'
  <2>1. CASE SweepDelete
    <3>1. \A q \in reqs : BlobOf(q) \subseteq Saved
      BY <1>0, SavedIs
    <3>2. Files \cap Saved = {}
      BY DEF CoreInv, IdsKnown, Known, Files, Rows
    <3> QED BY <2>1, <3>1, <3>2 DEF SweepDelete, CoreInv, BlobsInv, BlobsSaved, RowKeepsBlob
  <2>2. CASE ~SweepDelete
    <3>1. disk' = disk /\ swept' = swept
      BY <2>2 DEF SweepList, SweepDelete, Tick, Restart, vars
    <3> QED BY <3>1 DEF CoreInv, BlobsInv, BlobsSaved, RowKeepsBlob
  <2> QED BY <2>1, <2>2
<1> HIDE DEF new, old
<1>8. CoreInv' /\ Kept(new) /\ Known \subseteq Known'
  BY <1>1, <1>2, <1>3, <1>6, <1>7, QuietStep
<1> QED BY <1>3, <1>8 DEF Quiet, Kept, new

\* ... or a row is added to a folder, ...
Grown(k, kind, p) ==
    /\ k \in Ids \ Known /\ k \in Known' /\ kind \in Kinds /\ HasParent(p)
    /\ SetRows([node EXCEPT ![k] = NewRow(kind, p)], {k})
    /\ Known \subseteq Known' /\ knot' = knot /\ surge' = surge /\ quota' = quota /\ limit' = limit
    /\ \A s \in reqs' : s.op = "copy" \/ \E q \in reqs : Same(q, s)
    /\ kind = "file" => /\ \A s \in reqs' : s.op = "restore" => s.crossed
                        /\ Fits(1, quota) \/ \E q \in reqs : q.op = "upload" /\ Fits(1, q.quota)

LEMMA CrossingWarns ==
    ASSUME NEW rs \in SUBSET Requests, NEW ops \in SUBSET {"move", "copy", "restore"},
           NEW s \in Crossing(rs, ops), s.op \in ops
    PROVE  s.crossed
<1>1. PICK q \in rs : s = IF q.op \in ops THEN [q EXCEPT !.crossed = TRUE] ELSE q
  BY DEF Crossing
<1>2. CASE q.op \in ops
  <2>1. q \in MoveReq \cup CopyReq \cup RestoreReq
    BY <1>2, RequestFields
  <2> QED BY <1>1, <1>2, <2>1 DEF MoveReq, CopyReq, RestoreReq
<1>3. CASE q.op \notin ops
  BY <1>1, <1>3
<1> QED BY <1>2, <1>3

LEMMA LeafRows ==
    ASSUME CoreInv, NEW k \in Ids \ Known, NEW kind \in Kinds, NEW p \in Parents,
           node' = [node EXCEPT ![k] = NewRow(kind, p)]
    PROVE  /\ node' \in [Ids -> NodeRow] /\ Rows' = Rows \cup {k} /\ k \notin Rows
           /\ \A n \in Ids : n # k => node'[n] = node[n] /\ node[n].parent # k
           /\ node'[k] = NewRow(kind, p) /\ Live' = Live \cup {k} /\ Trashed' = Trashed
           /\ Files' = IF kind = "file" THEN Files \cup {k} ELSE Files
<1>1. node \in [Ids -> NodeRow] /\ k \notin Rows /\ \A n \in Ids : node[n].parent # k
  BY DEF CoreInv, DriveTypeOK, Ranges, IdsKnown, Places, Ids, Root
<1>2. NewRow(kind, p) \in NodeRow /\ NewRow(kind, p).st = "live" /\ NewRow(kind, p).kind = kind
  BY DEF NewRow, NodeRow
<1>3. (\A n \in Ids : n # k => node'[n] = node[n]) /\ node'[k] = NewRow(kind, p) /\ node' \in [Ids -> NodeRow]
  BY <1>1, <1>2
<1>4. Rows' = Rows \cup {k} /\ Live' = Live \cup {k} /\ Trashed' = Trashed
  BY <1>1, <1>2, <1>3 DEF Rows, Live, Trashed
<1>5. Files' = IF kind = "file" THEN Files \cup {k} ELSE Files
  BY <1>1, <1>2, <1>3, <1>4 DEF Files
<1> QED BY <1>1, <1>3, <1>4, <1>5

LEMMA GrownStep ==
    ASSUME CoreInv, NEW r \in reqs, NEW new \in SUBSET Requests, Replaced({r}, new),
           \A p, q \in new : p = q, \A q \in new : q.op = "copy" /\ BlobOf(q) = {},
           NEW k \in Ids, NEW kind \in Kinds, NEW p, HasParent(p),
           SetRows([node EXCEPT ![k] = NewRow(kind, p)], {k}),
           (k = next /\ kind = "folder" /\ next' = next + 1) \/ (k \in BlobOf(r) /\ next' = next),
           disk' = disk, swept' = swept, now' = now, listed' = listed, stored' = stored, quota' = quota,
           limit' = limit, events' = events, knot' = knot, surge' = surge,
           Known \cup {k} \subseteq Known' => \A q \in new : RefsKnown(q)',
           kind = "file" => /\ \A s \in reqs' : s.op = "restore" => s.crossed
                            /\ Fits(1, quota) \/ \E q \in reqs : q.op = "upload" /\ Fits(1, q.quota)
    PROVE  CoreInv' /\ Grown(k, kind, p)
<1>0. DriveTypeOK /\ Ranges /\ IdsKnown /\ next \in Nat \ {0} /\ N \in Nat
  BY DriveAssumption DEF CoreInv, DriveTypeOK, Ranges
<1>1. k \notin Known
  <2>1. CASE k = next
    BY <1>0, <2>1 DEF Known
  <2>2. CASE k \in BlobOf(r)
    BY <1>0, <2>2, SavedIs DEF Known
  <2> QED BY <2>1, <2>2
<1>2. p \in Places /\ p \in Parents
  BY <1>0 DEF HasParent, IdsKnown, Places, Parents, Rows
<1>3. node' = [node EXCEPT ![k] = NewRow(kind, p)] /\ stray' \subseteq Ids
  BY <1>0 DEF SetRows, Ranges
<1>4. /\ node' \in [Ids -> NodeRow] /\ Rows' = Rows \cup {k} /\ k \notin Rows
      /\ \A n \in Ids : n # k => node'[n] = node[n] /\ node[n].parent # k
      /\ node'[k] = NewRow(kind, p)
      /\ Files' = IF kind = "file" THEN Files \cup {k} ELSE Files
  BY <1>1, <1>2, <1>3, LeafRows
<1>5. Ranges'
  <2>1. next' \in 1 .. N + 1
    BY <1>0 DEF Ranges, Ids
  <2> QED BY <1>0, <1>3, <1>4, <2>1 DEF Ranges
<1>6. /\ DriveTypeOK' /\ BlobsInv' /\ Known \subseteq Known' /\ Places \subseteq Places'
      /\ \A q \in {r} : BlobOf(q) \subseteq Known'
      /\ next' = next + 1 /\ (\A q \in new : BlobOf(q) = {}) => next \in Known'
      /\ \A s \in reqs' : s \in new \/ (\E q \in reqs \ {r} : Same(q, s) /\ RefsKnown(s)')
  <2> DEFINE old == {r}
  <2>1. old \in SUBSET reqs /\ Replaced(old, new) /\ next' \in {next, next + 1}
        /\ (\A q \in new : BlobOf(q) \subseteq (next .. next' - 1) \cap (disk' \cup swept'))
        /\ (\A q \in reqs \ old : BlobOf(q) \subseteq disk' \cup swept')
    BY DEF CoreInv, BlobsInv, BlobsSaved
  <2> HIDE DEF old
  <2>2. /\ DriveTypeOK' /\ BlobsInv' /\ Known \subseteq Known' /\ Places \subseteq Places'
        /\ \A q \in old : BlobOf(q) \subseteq Known'
        /\ next' = next + 1 /\ (\A q \in new : BlobOf(q) = {}) => next \in Known'
        /\ \A s \in reqs' : s \in new \/ (\E q \in reqs \ old : Same(q, s) /\ RefsKnown(s)')
    BY <1>5, <2>1, RequestsStep
  <2> QED BY <2>2 DEF old
<1>7. k \in Known'
  BY <1>6
<1>8. IdsKnown'
  <2>1. \A s \in reqs' : RefsKnown(s)'
    BY <1>6, <1>7
  <2>2. \A n \in Ids : node'[n].parent \in Places'
    BY <1>0, <1>2, <1>4, <1>6 DEF IdsKnown, NewRow
  <2>3. \A n \in Ids \ Rows' : node'[n].parent = Root
    BY <1>0, <1>4 DEF IdsKnown
  <2>4. Rows' \subseteq Known'
    BY <1>0, <1>4, <1>6, <1>7 DEF IdsKnown
  <2> QED BY <2>1, <2>2, <2>3, <2>4 DEF IdsKnown
<1>9. RowKeepsBlob'
  <2>1. kind = "file" => k \in disk \cup swept
    BY DEF CoreInv, BlobsInv, BlobsSaved
  <2> QED BY <1>4, <2>1 DEF CoreInv, RowKeepsBlob
<1>10. \A s \in reqs' : s.op = "copy" \/ \E q \in reqs : Same(q, s)
  BY <1>6
<1> QED BY <1>1, <1>6, <1>7, <1>8, <1>9, <1>10 DEF CoreInv, Grown

LEMMA UploadGrows ==
    ASSUME CoreInv, NEW r \in reqs, CreateNodeWithQuota(r) \/ (CreateNode(r) /\ HasParent(r.to))
    PROVE  CoreInv' /\ \E k \in Ids, kind \in Kinds, p \in Parents : Grown(k, kind, p)
<1>0. DriveTypeOK /\ Ranges /\ IdsKnown /\ next \in Nat \ {0} /\ N \in Nat /\ r \in Requests /\ reqs \subseteq Requests
  BY DriveAssumption DEF CoreInv, DriveTypeOK, Ranges
<1> DEFINE new == {}
<1>1. /\ new \in SUBSET Requests /\ (\A p, q \in new : p = q) /\ (\A q \in new : q.op = "copy" /\ BlobOf(q) = {})
      /\ (\A q \in new : RefsKnown(q)')
  OBVIOUS
<1>2. CASE CreateNodeWithQuota(r)
  <2>1. r.id \in Ids /\ BlobOf(r) = {r.id} /\ r.to \in Parents
    BY <1>0, <1>2, RequestFields DEF CreateNodeWithQuota, UploadReq, BlobOf
  <2> DEFINE rs == Meddle(reqs \ {r}, r.id, r.to)
  <2>2. reqs' = Crossing(rs, {"restore"}) /\ reqs' = Crossing(rs, {"restore"}) \cup {}
    BY <1>2 DEF CreateNodeWithQuota
  <2>3. Replaced({r}, new)
    BY <1>0, <2>2, Replacing
  <2>4. \A s \in reqs' : s.op = "restore" => s.crossed
    <3>1. reqs \ {r} \in SUBSET Requests
      BY <1>0
    <3>2. Told(reqs \ {r}, rs)
      BY <3>1, ToldBy
    <3>3. rs \in SUBSET Requests
      BY <3>1, <3>2, ToldRequests
    <3> HIDE DEF rs
    <3> QED BY <2>2, <3>3, CrossingWarns
  <2>5. /\ HasParent(r.to) /\ SetRows([node EXCEPT ![r.id] = NewRow("file", r.to)], {r.id})
        /\ r.op = "upload" /\ Fits(1, r.quota) /\ next' = next
        /\ disk' = disk /\ swept' = swept /\ now' = now /\ listed' = listed /\ stored' = stored /\ quota' = quota
        /\ limit' = limit /\ events' = events /\ knot' = knot /\ surge' = surge
    BY <1>2 DEF CreateNodeWithQuota
  <2>6. "file" \in Kinds
    BY DEF Kinds
  <2> HIDE DEF new
  <2>7. CoreInv' /\ Grown(r.id, "file", r.to)
    BY <1>1, <2>1, <2>3, <2>4, <2>5, <2>6, GrownStep
  <2> QED BY <2>1, <2>6, <2>7
<1>3. CASE CreateNode(r)
  <2>1. /\ HasParent(r.to) /\ SetRows([node EXCEPT ![next] = NewRow("folder", r.to)], {next}) /\ next \in Ids
        /\ r.op = "mkdir" /\ next' = next + 1 /\ reqs' = Meddle(reqs \ {r}, next, r.to) \cup {}
        /\ disk' = disk /\ swept' = swept /\ now' = now /\ listed' = listed /\ stored' = stored /\ quota' = quota
        /\ limit' = limit /\ events' = events /\ knot' = knot /\ surge' = surge
    BY <1>0, <1>3 DEF CreateNode, Close, CreateNodeWithQuota, Ids
  <2>2. Replaced({r}, new)
    BY <1>0, <2>1, Replacing
  <2>3. "folder" \in Kinds /\ "folder" # "file" /\ r.to \in Parents
    BY <1>0, <2>1, RequestFields DEF Kinds, MkdirReq
  <2> HIDE DEF new
  <2>4. CoreInv' /\ Grown(next, "folder", r.to)
    BY <1>1, <2>1, <2>2, <2>3, GrownStep
  <2> QED BY <2>1, <2>3, <2>4
<1> QED BY <1>2, <1>3

LEMMA CopyGrows ==
    ASSUME CoreInv, NEW r \in reqs, CopyFolder(r) \/ CopyFile(r)
    PROVE  CoreInv' /\ \E k \in Ids, kind \in Kinds, p \in Parents : Grown(k, kind, p)
<1>0. DriveTypeOK /\ Ranges /\ IdsKnown /\ next \in Nat \ {0} /\ N \in Nat /\ r \in Requests /\ reqs \subseteq Requests
      /\ RefsKnown(r) /\ r.op = "copy" /\ r.todo # <<>>
  <2>1. r.op = "copy" /\ r.todo # <<>>
    BY DEF CopyFolder, CopyFile
  <2> QED BY <2>1, DriveAssumption DEF CoreInv, DriveTypeOK, Ranges, IdsKnown
<1> DEFINE t == Head(r.todo)
<1>1. r \in CopyReq /\ t \in Task /\ t = r.todo[1] /\ 1 \in DOMAIN r.todo
  BY <1>0, CopyTasks
<1>2. t.to \in Parents /\ t.src \in Ids /\ t.levels \subseteq r.made /\ r.made \in SUBSET Ids
  BY <1>0, <1>1 DEF Task, RefsKnown, CopyReq
<1>3. r.made \subseteq Known /\ \A j \in DOMAIN r.todo : r.todo[j].to \in Places /\ r.todo[j].levels \subseteq r.made
  BY <1>0 DEF RefsKnown
<1>4. CASE CopyFolder(r)
  <2>0. PICK k \in Ids : k = next
    <3>1. next <= N
      BY <1>4 DEF CopyFolder
    <3> QED BY <1>0, <3>1 DEF Ids
  <2> DEFINE u == [t EXCEPT !.kind = "made", !.to = k, !.levels = @ \cup {k}]
             v == <<u>> \o Tail(r.todo)
             s == [r EXCEPT !.made = @ \cup {k}, !.todo = v]
             new == {s}
  <2>2. /\ HasParent(t.to) /\ SetRows([node EXCEPT ![k] = NewRow("folder", t.to)], {k})
        /\ next' = next + 1
        /\ disk' = disk /\ swept' = swept /\ now' = now /\ listed' = listed /\ stored' = stored /\ quota' = quota
        /\ limit' = limit /\ events' = events /\ knot' = knot /\ surge' = surge
    <3>1. HasParent(t.to) /\ SetRows([node EXCEPT ![k] = NewRow("folder", t.to)], {k}) /\ next' = next + 1
      BY <1>4, <2>0 DEF CopyFolder
    <3>2. UNCHANGED <<disk, now, stored, quota, listed, events, swept, knot, limit, surge>>
      BY <1>4 DEF CopyFolder
    <3> QED BY <3>1, <3>2
  <2>3. u \in Task /\ u.kind = "made" /\ u.to = k /\ u.levels = t.levels \cup {k}
    BY <1>1 DEF Task, Parents
  <2>5. reqs' = Meddle(reqs \ {r}, k, t.to) \cup new
    BY <1>4, <2>0 DEF CopyFolder
  <2> HIDE DEF t, u
  <2>4. v \in Tasks /\ Head(v) = u /\ \A i \in DOMAIN v : v[i] \in {u} \cup {r.todo[j] : j \in DOMAIN r.todo}
    BY <1>0, <2>3, CopyTasks
  <2> HIDE DEF v
  <2>6. s \in CopyReq /\ s.op = "copy" /\ s.made = r.made \cup {k} /\ s.todo = v
    BY <1>1, <1>2, <2>4 DEF CopyReq
  <2>7. s \in Requests
    BY <2>6 DEF Requests
  <2> HIDE DEF s
  <2>8. BlobOf(s) = {}
    BY <2>3, <2>4, <2>6 DEF BlobOf
  <2>9. Known \cup {k} \subseteq Known' => RefsKnown(s)'
    <3> SUFFICES ASSUME Known \cup {k} \subseteq Known' PROVE RefsKnown(s)'
      OBVIOUS
    <3>1. Places \subseteq Places' /\ k \in Places'
      BY DEF Places
    <3>2. ASSUME NEW i \in DOMAIN v PROVE v[i].to \in Places' /\ v[i].levels \subseteq r.made \cup {k}
      BY <1>2, <1>3, <2>3, <2>4, <3>1
    <3>3. s.made \subseteq Known'
      BY <1>3, <2>6
    <3> QED BY <2>6, <3>2, <3>3 DEF RefsKnown
  <2>10. /\ new \in SUBSET Requests /\ (\A p, q \in new : p = q) /\ (\A q \in new : q.op = "copy" /\ BlobOf(q) = {})
         /\ Known \cup {k} \subseteq Known' => \A q \in new : RefsKnown(q)'
    BY <2>6, <2>7, <2>8, <2>9
  <2>11. Replaced({r}, new)
    <3> HIDE DEF new
    <3> QED BY <1>0, <2>5, Replacing
  <2>12. "folder" \in Kinds /\ "folder" # "file"
    BY DEF Kinds
  <2> HIDE DEF new
  <2>13. CoreInv' /\ Grown(k, "folder", t.to)
    BY <2>0, <2>2, <2>10, <2>11, <2>12, GrownStep
  <2> QED BY <1>2, <2>0, <2>12, <2>13
<1>5. CASE CopyFile(r)
  <2> DEFINE s == [r EXCEPT !.made = @ \cup {t.src}, !.todo = Tail(@)]
             new == {s}
             rs == Meddle(reqs \ {r}, t.src, t.to)
  <2>1. /\ SetRows([node EXCEPT ![t.src] = NewRow("file", t.to)], {t.src})
        /\ reqs' = Crossing(rs, {"restore"}) \cup new
        /\ t.kind = "saved" /\ next' = next
        /\ disk' = disk /\ swept' = swept /\ now' = now /\ listed' = listed /\ stored' = stored /\ quota' = quota
        /\ limit' = limit /\ events' = events /\ knot' = knot /\ surge' = surge
        /\ HasParent(t.to) /\ Fits(1, quota)
    BY <1>5 DEF CopyFile
  <2>2. BlobOf(r) = {t.src}
    BY <1>0, <1>1, <2>1 DEF BlobOf, Task
  <2>3. Replaced({r}, new)
    <3> HIDE DEF new
    <3> QED BY <1>0, <2>1, Replacing
  <2>4. Tail(r.todo) \in Tasks /\ (\A i \in DOMAIN Tail(r.todo) : i + 1 \in DOMAIN r.todo
                                            /\ Tail(r.todo)[i] = r.todo[i + 1] /\ r.todo[i + 1].kind \in Kinds)
    BY <1>0, CopyTasks
  <2>r. rs \in SUBSET Requests
    <3>1. reqs \ {r} \in SUBSET Requests
      BY <1>0
    <3>2. Told(reqs \ {r}, rs)
      BY <3>1, ToldBy
    <3> HIDE DEF rs
    <3> QED BY <3>1, <3>2, ToldRequests
  <2> HIDE DEF t, rs
  <2>6. s \in CopyReq /\ s.op = "copy" /\ s.made = r.made \cup {t.src} /\ s.todo = Tail(r.todo)
    BY <1>1, <1>2, <2>4 DEF CopyReq
  <2>7. s \in Requests
    BY <2>6 DEF Requests
  <2> HIDE DEF s
  <2>8. BlobOf(s) = {}
    <3> DEFINE v == Tail(r.todo)
    <3>1. v \in Seq(Task)
      BY <2>4 DEF Tasks
    <3>2. \A i \in DOMAIN v : v[i].kind \in Kinds
      BY <2>4
    <3> HIDE DEF v
    <3>3. v # <<>> => Head(v) = v[1] /\ 1 \in DOMAIN v
      BY <3>1
    <3>4. v # <<>> => Head(v).kind # "saved"
      BY <3>2, <3>3 DEF Kinds
    <3>5. s.todo = v
      BY <2>6 DEF v
    <3> QED BY <2>6, <3>4, <3>5 DEF BlobOf
  <2>9. Known \cup {t.src} \subseteq Known' => RefsKnown(s)'
    <3> SUFFICES ASSUME Known \cup {t.src} \subseteq Known' PROVE RefsKnown(s)'
      OBVIOUS
    <3>1. Places \subseteq Places'
      BY DEF Places
    <3>2. ASSUME NEW i \in DOMAIN s.todo PROVE s.todo[i].to \in Places' /\ s.todo[i].levels \subseteq s.made
      BY <1>3, <2>4, <2>6, <3>1
    <3>3. s.made \subseteq Known'
      BY <1>3, <2>6
    <3> QED BY <2>6, <3>2, <3>3 DEF RefsKnown
  <2>10. /\ new \in SUBSET Requests /\ (\A p, q \in new : p = q) /\ (\A q \in new : q.op = "copy" /\ BlobOf(q) = {})
         /\ Known \cup {t.src} \subseteq Known' => \A q \in new : RefsKnown(q)'
    BY <2>6, <2>7, <2>8, <2>9
  <2>11. \A x \in reqs' : x.op = "restore" => x.crossed
    BY <2>1, <2>6, <2>r, CrossingWarns
  <2>12. "file" \in Kinds
    BY DEF Kinds
  <2>13. t.src \in BlobOf(r) /\ next' = next
    BY <2>1, <2>2
  <2> HIDE DEF new
  <2>14. CoreInv' /\ Grown(t.src, "file", t.to)
    BY <1>2, <1>5, <2>1, <2>3, <2>10, <2>11, <2>12, <2>13, GrownStep
  <2> QED BY <1>2, <2>12, <2>14
<1> QED BY <1>4, <1>5

\* ... or rows go to the trash, or go for good, with everything below them, ...
Remain == \A s \in reqs' : \E q \in reqs : Same(q, s)
Thinned ==
    /\ Rows' \subseteq Rows /\ Live' \subseteq Live
    /\ \A n \in Ids : node'[n].parent \in {node[n].parent, Root}
    /\ \A n \in Rows' : node'[n].parent = node[n].parent /\ node'[n].kind = node[n].kind
    /\ \A n \in Rows' : node[n].parent \in Rows => node[n].parent \in Rows'
    /\ stray' = {n \in stray : Homeless(node', n)}
    /\ \A n \in Ids : Homeless(node', n) => Homeless(node, n)
    /\ Known \subseteq Known' /\ knot' = knot /\ surge' = surge /\ quota' = quota /\ limit' = limit
    /\ Remain

LEMMA RowsStep ==
    ASSUME CoreInv, NEW old \in SUBSET reqs, Replaced(old, {}), next' = next, swept' = swept,
           now' = now, listed' = listed, stored' = stored, quota' = quota, limit' = limit, events' \in Nat,
           knot' \in BOOLEAN, surge' \in BOOLEAN, stray' \subseteq Ids, disk' \subseteq disk,
           node' \in [Ids -> NodeRow], Rows' \subseteq Rows,
           \A n \in Ids : node'[n].parent \in Places, \A n \in Ids \ Rows' : node'[n].parent = Root,
           Files' \subseteq Files, disk \ disk' \subseteq Rows \ Files'
    PROVE  CoreInv' /\ Remain /\ Known \subseteq Known'
<1> DEFINE new == {}
<1>0. DriveTypeOK /\ Ranges /\ IdsKnown
  BY DEF CoreInv, DriveTypeOK
<1>1. Ranges'
  BY <1>0 DEF Ranges
<1>2. /\ new \in SUBSET Requests /\ (\A p, q \in new : p = q) /\ Replaced(old, new)
      /\ (\A q \in new : BlobOf(q) \subseteq (next .. next' - 1) \cap (disk' \cup swept'))
  OBVIOUS
<1>3. \A q \in reqs \ old : BlobOf(q) \subseteq disk' \cup swept'
  <2>1. \A q \in reqs : BlobOf(q) \cap Rows = {}
    BY <1>0, SavedIs DEF IdsKnown, Known
  <2> QED BY <2>1 DEF CoreInv, BlobsInv, BlobsSaved
<1> HIDE DEF new
<1>4. /\ DriveTypeOK' /\ BlobsInv' /\ Known \subseteq Known' /\ Places \subseteq Places'
      /\ \A s \in reqs' : s \in new \/ (\E q \in reqs \ old : Same(q, s) /\ RefsKnown(s)')
  BY <1>1, <1>2, <1>3, RequestsStep
<1>5. Remain /\ \A s \in reqs' : RefsKnown(s)'
  BY <1>4 DEF Remain, new
<1>6. IdsKnown'
  BY <1>0, <1>4, <1>5 DEF IdsKnown
<1>7. RowKeepsBlob'
  BY DEF CoreInv, RowKeepsBlob
<1> QED BY <1>4, <1>5, <1>6, <1>7 DEF CoreInv

LEMMA BelowFacts ==
    ASSUME NEW tops
    PROVE  /\ tops \cap Rows \subseteq Below(tops) /\ Below(tops) \subseteq Rows
           /\ \A c \in Rows : node[c].parent \in Below(tops) => c \in Below(tops)
<1>1. Rows \in SUBSET Ids
  BY DEF Rows
<1>2. ASSUME NEW n
      PROVE  /\ Subtree(Rows, n) \subseteq Rows /\ (n \in Rows => n \in Subtree(Rows, n))
             /\ \A c \in Rows : node[c].parent \in Subtree(Rows, n) => c \in Subtree(Rows, n)
  BY <1>1, TreeFacts, SubtreeIsTree
<1> QED BY <1>2 DEF Below

LEMMA DropThins ==
    ASSUME CoreInv, NEW tops, NEW blobs, blobs \subseteq Below(tops) \cap Files, Drop(Below(tops), blobs),
           NEW old \in SUBSET reqs, Replaced(old, {}),
           UNCHANGED <<next, now, stored, quota, listed, swept, knot, limit, surge>>
    PROVE  CoreInv' /\ Thinned
<1> DEFINE gone == Below(tops)
<1>0. DriveTypeOK /\ Ranges /\ IdsKnown /\ node \in [Ids -> NodeRow] /\ events \in Nat
  BY DEF CoreInv, DriveTypeOK, Ranges
<1>1. gone \subseteq Rows /\ \A c \in Rows : node[c].parent \in gone => c \in gone
  BY BelowFacts
<1>2. node' = [n \in Ids |-> IF n \in gone THEN Absent ELSE node[n]]
      /\ stray' = {n \in stray : Homeless(node', n)} /\ DeleteBlobs(blobs)
  BY DEF Drop, SetRows
<1> HIDE DEF gone
<1>3. Absent \in NodeRow /\ Absent.st = "absent" /\ Absent.parent = Root
  BY DEF Absent, NodeRow, Kinds, Parents
<1>4. \A n \in Ids : node'[n] = IF n \in gone THEN Absent ELSE node[n]
  BY <1>2
<1>5. node' \in [Ids -> NodeRow]
  BY <1>0, <1>2, <1>3
<1>6. Rows' = Rows \ gone /\ Live' = Live \ gone /\ Files' = Files \ gone
  <2>1. Rows' = Rows \ gone
    BY <1>3, <1>4 DEF Rows
  <2>2. Live' = Live \ gone
    BY <1>3, <1>4 DEF Live
  <2>3. Files' = Files \ gone
    BY <1>3, <1>4, <2>1 DEF Files, Rows
  <2> QED BY <2>1, <2>2, <2>3
<1>7. disk' \subseteq disk /\ disk \ disk' \subseteq blobs /\ events' \in Nat
  BY <1>0, <1>2 DEF DeleteBlobs
<1>8. CoreInv' /\ Remain /\ Known \subseteq Known'
  <2>1. \A n \in Ids : node'[n].parent \in Places
    BY <1>0, <1>3, <1>4 DEF IdsKnown, Places
  <2>2. \A n \in Ids \ Rows' : node'[n].parent = Root
    BY <1>0, <1>3, <1>4, <1>6 DEF IdsKnown
  <2>3. disk \ disk' \subseteq Rows \ Files'
    BY <1>1, <1>6, <1>7 DEF gone
  <2>4. /\ next' = next /\ swept' = swept /\ now' = now /\ listed' = listed /\ stored' = stored /\ quota' = quota
        /\ limit' = limit /\ knot' \in BOOLEAN /\ surge' \in BOOLEAN /\ stray' \subseteq Ids
    BY <1>0, <1>2 DEF Ranges
  <2> QED BY <1>5, <1>6, <1>7, <2>1, <2>2, <2>3, <2>4, RowsStep
<1>9. ASSUME NEW n \in Ids, Homeless(node', n) PROVE Homeless(node, n)
  <2>1. n \notin gone /\ node'[n] = node[n] /\ node[n].st = "live" /\ node[n].parent # Root
    BY <1>3, <1>4, <1>9 DEF Homeless
  <2>2. node[n].parent \notin gone /\ node[n].parent \in Ids
    BY <1>0, <1>1, <2>1 DEF Rows, IdsKnown, Places, Known, Ranges, NodeRow, Parents
  <2> QED BY <1>4, <1>9, <2>1, <2>2 DEF Homeless
<1>10. \A n \in Rows' : node[n].parent \in Rows => node[n].parent \in Rows'
  BY <1>1, <1>6
<1> QED BY <1>2, <1>3, <1>4, <1>6, <1>8, <1>9, <1>10 DEF Thinned, Rows

LEMMA RemovingThins ==
    ASSUME CoreInv, \/ \E r \in reqs : UndoCopy(r) /\ ~UNCHANGED <<node, disk, stray>>
                    \/ \E n \in Ids : DeletePermanent(n)
                    \/ EmptyTrash
    PROVE  CoreInv' /\ Thinned
<1>0. DriveTypeOK
  BY DEF CoreInv
<1>1. ASSUME NEW r \in reqs, UndoCopy(r), ~UNCHANGED <<node, disk, stray>> PROVE CoreInv' /\ Thinned
  <2>1. r \in Requests
    BY <1>0 DEF DriveTypeOK
  <2>2. PICK n \in r.levels, s \in UndoReq :
          /\ reqs' = (reqs \ {r}) \cup {s} /\ s.made = r.made /\ s.crossed = r.crossed /\ s.levels = r.levels \ {n}
          /\ Drop(Below({n}), Below({n}) \cap Files)
    BY <1>1, <2>1, UndoSteps
  <2>3. r \in UndoReq /\ UNCHANGED <<next, now, stored, quota, listed, swept, knot, limit, surge>>
    BY <1>1, <2>1, UndoSteps
  <2> DEFINE tops == {n}
             old == {}
             blobs == Below(tops) \cap Files
  <2>4. old \in SUBSET reqs /\ Replaced(old, {}) /\ blobs \subseteq Below(tops) \cap Files /\ Drop(Below(tops), blobs)
    BY <1>0, <2>2, <2>3, UndoReplaces
  <2> HIDE DEF tops, old, blobs
  <2> QED BY <2>3, <2>4, DropThins
<1>2. ASSUME NEW n \in Ids, DeletePermanent(n) PROVE CoreInv' /\ Thinned
  <2> DEFINE tops == {n}
             old == {}
             blobs == Below(tops) \cap Files
  <2>1. Drop(Below(tops), blobs) /\ reqs' = reqs
        /\ UNCHANGED <<next, now, stored, quota, listed, swept, knot, limit, surge>>
    BY <1>2 DEF DeletePermanent
  <2>2. Replaced(old, {}) /\ old \in SUBSET reqs /\ blobs \subseteq Below(tops) \cap Files
    BY <1>0, <2>1, Replacing
  <2> HIDE DEF tops, old, blobs
  <2> QED BY <2>1, <2>2, DropThins
<1>3. ASSUME EmptyTrash PROVE CoreInv' /\ Thinned
  <2> DEFINE old == {}
             blobs == Trashed \cap Files
  <2>1. Drop(Below(Trashed), blobs) /\ reqs' = reqs
        /\ UNCHANGED <<next, now, stored, quota, listed, swept, knot, limit, surge>>
    BY <1>3 DEF EmptyTrash
  <2>2. Replaced(old, {}) /\ old \in SUBSET reqs
    BY <1>0, <2>1, Replacing
  <2>3. blobs \subseteq Below(Trashed) \cap Files
    BY BelowFacts DEF Files
  <2>t. PICK tops : tops = Trashed
    OBVIOUS
  <2> HIDE DEF old, blobs
  <2> QED BY <2>1, <2>2, <2>3, <2>t, DropThins
<1> QED BY <1>1, <1>2, <1>3

LEMMA TrashThins ==
    ASSUME CoreInv, NEW n \in Ids, Trash(n)
    PROVE  CoreInv' /\ Thinned
<1>0. DriveTypeOK /\ Ranges /\ IdsKnown /\ node \in [Ids -> NodeRow] /\ now \in Nat
  BY DEF CoreInv, DriveTypeOK, Ranges
<1> DEFINE down == Subtree(Live, n)
<1>1. down \subseteq Live /\ \A c \in Live : node[c].parent \in down => c \in down
  <2>1. Live \in SUBSET Ids
    BY DEF Live
  <2> QED BY <2>1, TreeFacts, SubtreeIsTree
<1>2. node' = [m \in Ids |-> IF m \in down THEN [node[m] EXCEPT !.st = "trash", !.at = now] ELSE node[m]]
      /\ stray' = {m \in stray : Homeless(node', m)}
  BY DEF Trash, SetRows
<1> HIDE DEF down
<1>3. ASSUME NEW m \in Ids
      PROVE  /\ node'[m] \in NodeRow /\ node'[m].parent = node[m].parent /\ node'[m].kind = node[m].kind
             /\ node'[m].st = IF m \in down THEN "trash" ELSE node[m].st
  BY <1>0, <1>2 DEF NodeRow
<1>4. node' \in [Ids -> NodeRow]
  BY <1>2, <1>3
<1>5. Rows' = Rows /\ Live' = Live \ down
  <2>1. Rows' = Rows
    BY <1>1, <1>3 DEF Rows, Live
  <2>2. Live' = Live \ down
    BY <1>3 DEF Live
  <2> QED BY <2>1, <2>2
<1>6. Files' = Files
  BY <1>3, <1>5 DEF Files, Rows
<1>7. /\ UNCHANGED <<next, disk, now, stored, quota, reqs, listed, events, swept, knot, limit, surge>>
  BY DEF Trash
<1>8. CoreInv' /\ Remain /\ Known \subseteq Known'
  <2> DEFINE old == {}
  <2>1. Replaced(old, {}) /\ old \in SUBSET reqs
    BY <1>0, <1>7, Replacing
  <2>2. /\ next' = next /\ swept' = swept /\ now' = now /\ listed' = listed /\ stored' = stored /\ quota' = quota
        /\ limit' = limit /\ knot' \in BOOLEAN /\ surge' \in BOOLEAN /\ stray' \subseteq Ids /\ events' \in Nat
        /\ disk' \subseteq disk /\ disk \ disk' \subseteq Rows \ Files'
    BY <1>0, <1>2, <1>7 DEF Ranges
  <2>3. (\A m \in Ids : node'[m].parent \in Places) /\ (\A m \in Ids \ Rows' : node'[m].parent = Root)
    BY <1>0, <1>3, <1>5 DEF IdsKnown
  <2> HIDE DEF old
  <2> QED BY <1>4, <1>5, <1>6, <2>1, <2>2, <2>3, RowsStep
<1>9. ASSUME NEW m \in Ids, Homeless(node', m) PROVE Homeless(node, m)
  <2>1. m \notin down /\ m \in Live /\ node[m].parent # Root /\ node[m].parent \in Ids
    BY <1>0, <1>3, <1>9 DEF Homeless, Live, Ranges, NodeRow, Parents
  <2>2. node[m].parent \notin down
    BY <1>1, <2>1
  <2> QED BY <1>3, <1>9, <2>1, <2>2 DEF Homeless, Live
<1> QED BY <1>2, <1>3, <1>5, <1>7, <1>8, <1>9 DEF Thinned, Rows

\* ... or rows come back from the trash, ...
Returned(r) ==
    /\ r \in reqs /\ r.op = "restore"
    /\ Rows' = Rows /\ Live' = Live \cup Returning(r) /\ Returning(r) \subseteq Subtree(Rows, r.id)
    /\ \A n \in Ids : node'[n].parent = node[n].parent /\ node'[n].kind = node[n].kind
    /\ stray' = {n \in stray \cup Returning(r) : Homeless(node', n)}
    /\ \A n \in Ids : Homeless(node', n) => Homeless(node, n) \/ n \in Returning(r)
    /\ Known \subseteq Known' /\ knot' = knot /\ quota' = quota /\ limit' = limit
    /\ surge' = (surge \/ (r.crossed /\ Returning(r) \cap Files # {}))
    /\ Returning(r) \cap Files # {} => \A s \in reqs' : s.op = "restore" => s.crossed
    /\ Remain

LEMMA RestoreReturns ==
    ASSUME CoreInv, NEW r \in reqs, RestoreRows(r)
    PROVE  CoreInv' /\ Returned(r)
<1>0. DriveTypeOK /\ Ranges /\ IdsKnown /\ node \in [Ids -> NodeRow] /\ reqs \subseteq Requests /\ r \in Requests
  BY DEF CoreInv, DriveTypeOK, Ranges
<1> DEFINE back == Returning(r)
<1>1. back \subseteq Subtree(Rows, r.id) /\ back \subseteq Trashed
  <2>1. Subtree(Rows, r.id) \subseteq Rows
    <3>1. Rows \in SUBSET Ids
      BY DEF Rows
    <3> QED BY <3>1, TreeFacts, SubtreeIsTree
  <2> QED BY <2>1 DEF Returning, Trashed, Rows
<1>2. /\ node' = [m \in Ids |-> IF m \in back THEN [node[m] EXCEPT !.st = "live", !.at = Never] ELSE node[m]]
      /\ stray' = {m \in stray \cup back : Homeless(node', m)} /\ r.op = "restore"
      /\ reqs' = IF back \cap Files = {} THEN reqs \ {r} ELSE Crossing(reqs \ {r}, {"restore"})
      /\ surge' = (surge \/ (r.crossed /\ back \cap Files # {}))
      /\ UNCHANGED <<next, disk, now, stored, quota, listed, events, swept, knot, limit>>
  BY DEF RestoreRows, SetRows
<1>r. r.crossed \in BOOLEAN
  BY <1>0, <1>2, RequestFields DEF RestoreReq
<1> HIDE DEF back
<1>3. ASSUME NEW m \in Ids
      PROVE  /\ node'[m] \in NodeRow /\ node'[m].parent = node[m].parent /\ node'[m].kind = node[m].kind
             /\ node'[m].st = IF m \in back THEN "live" ELSE node[m].st
  BY <1>0, <1>2 DEF NodeRow
<1>4. node' \in [Ids -> NodeRow]
  BY <1>2, <1>3
<1>5. Rows' = Rows /\ Live' = Live \cup back
  <2>1. Rows' = Rows
    BY <1>1, <1>3 DEF Rows, Trashed
  <2>2. Live' = Live \cup back
    BY <1>1, <1>3 DEF Live, Trashed
  <2> QED BY <2>1, <2>2
<1>6. Files' = Files
  BY <1>3, <1>5 DEF Files, Rows
<1>8. CoreInv' /\ Remain /\ Known \subseteq Known'
  <2> DEFINE old == {r}
  <2>1. Replaced(old, {}) /\ old \in SUBSET reqs
    BY <1>0, <1>2, Replacing
  <2>2. /\ next' = next /\ swept' = swept /\ now' = now /\ listed' = listed /\ stored' = stored /\ quota' = quota
        /\ limit' = limit /\ knot' \in BOOLEAN /\ stray' \subseteq Ids /\ events' \in Nat
        /\ disk' \subseteq disk /\ disk \ disk' \subseteq Rows \ Files'
    BY <1>0, <1>1, <1>2 DEF Ranges, Trashed
  <2>4. surge' \in BOOLEAN
    BY <1>0, <1>2, <1>r DEF Ranges
  <2>3. (\A m \in Ids : node'[m].parent \in Places) /\ (\A m \in Ids \ Rows' : node'[m].parent = Root)
    BY <1>0, <1>3, <1>5 DEF IdsKnown
  <2> HIDE DEF old
  <2> QED BY <1>4, <1>5, <1>6, <2>1, <2>2, <2>3, <2>4, RowsStep
<1>9. ASSUME NEW m \in Ids, Homeless(node', m), m \notin back PROVE Homeless(node, m)
  <2>1. node[m].parent # Root /\ node[m].parent \in Ids /\ node[m].st = "live"
    BY <1>0, <1>3, <1>9 DEF Homeless, Ranges, NodeRow, Parents
  <2> QED BY <1>3, <1>9, <2>1 DEF Homeless
<1>10. back \cap Files # {} => \A s \in reqs' : s.op = "restore" => s.crossed
  <2>1. reqs \ {r} \in SUBSET Requests
    BY <1>0
  <2> QED BY <1>2, <2>1, CrossingWarns
<1> QED BY <1>1, <1>2, <1>3, <1>5, <1>8, <1>9, <1>10 DEF Returned, back

\* ... or a row is moved.
Moved(r) ==
    /\ r \in reqs /\ r.op = "move" /\ r.cur = Root /\ r.id \in Live /\ HasParent(r.to)
    /\ Rows' = Rows /\ Live' = Live /\ Files' = Files
    /\ SetRows([node EXCEPT ![r.id].parent = r.to], {r.id})
    /\ \A n \in Ids : node'[n].parent = IF n = r.id THEN r.to ELSE node[n].parent
    /\ \A n \in Ids : Homeless(node', n) => Homeless(node, n) \/ n = r.id
    /\ Known \subseteq Known' /\ knot' = (knot \/ r.crossed) /\ surge' = surge /\ quota' = quota /\ limit' = limit
    /\ \A s \in reqs' : s.op \in {"move", "restore"} => s.crossed
    /\ Remain

LEMMA UpdateMoves ==
    ASSUME CoreInv, NEW r \in reqs, UpdateNode(r), r.id \in Live, HasParent(r.to)
    PROVE  CoreInv' /\ Moved(r)
<1>0. DriveTypeOK /\ Ranges /\ IdsKnown /\ node \in [Ids -> NodeRow] /\ reqs \subseteq Requests /\ r \in Requests
  BY DEF CoreInv, DriveTypeOK, Ranges
<1> DEFINE rs == Meddle(Meddle(reqs \ {r}, r.id, r.to), node[r.id].parent, Root)
<1>1. /\ r.op = "move" /\ r.cur = Root
      /\ SetRows([node EXCEPT ![r.id].parent = r.to], {r.id})
      /\ reqs' = Crossing(rs, {"move", "restore"}) /\ knot' = (knot \/ r.crossed)
      /\ UNCHANGED <<next, disk, now, stored, quota, listed, events, swept, limit, surge>>
  BY DEF UpdateNode
<1>2. r \in MoveReq /\ r.id \in Ids /\ r.to \in Parents /\ r.crossed \in BOOLEAN
  BY <1>0, <1>1, RequestFields DEF MoveReq
<1>3. ASSUME NEW m \in Ids
      PROVE  /\ node'[m] \in NodeRow /\ node'[m].parent = IF m = r.id THEN r.to ELSE node[m].parent
             /\ node'[m].kind = node[m].kind /\ node'[m].st = node[m].st
  BY <1>0, <1>1, <1>2 DEF SetRows, NodeRow
<1>4. node' \in [Ids -> NodeRow]
  BY <1>0, <1>1, <1>2, <1>3 DEF SetRows
<1>5. Rows' = Rows /\ Live' = Live /\ Files' = Files
  <2>1. Rows' = Rows /\ Live' = Live
    BY <1>3 DEF Rows, Live
  <2> QED BY <1>3, <2>1 DEF Files, Rows
<1>6. CoreInv' /\ Remain /\ Known \subseteq Known'
  <2> DEFINE old == {r}
  <2>1. Replaced(old, {}) /\ old \in SUBSET reqs
    BY <1>0, <1>1, Replacing
  <2>2. /\ next' = next /\ swept' = swept /\ now' = now /\ listed' = listed /\ stored' = stored /\ quota' = quota
        /\ limit' = limit /\ stray' \subseteq Ids /\ events' \in Nat /\ surge' \in BOOLEAN /\ knot' \in BOOLEAN
        /\ disk' \subseteq disk /\ disk \ disk' \subseteq Rows \ Files'
    BY <1>0, <1>1, <1>2 DEF Ranges, SetRows
  <2>3. r.to \in Places
    BY <1>0, <1>1 DEF IdsKnown, RefsKnown
  <2>4. (\A m \in Ids : node'[m].parent \in Places) /\ (\A m \in Ids \ Rows' : node'[m].parent = Root)
    BY <1>0, <1>3, <1>5, <2>3 DEF IdsKnown, Live, Rows
  <2> HIDE DEF old, rs
  <2> QED BY <1>4, <1>5, <2>1, <2>2, <2>4, RowsStep
<1>7. ASSUME NEW m \in Ids, Homeless(node', m), m # r.id PROVE Homeless(node, m)
  <2>1. node[m].parent # Root /\ node[m].parent \in Ids /\ node[m].st = "live"
    BY <1>0, <1>3, <1>7 DEF Homeless, Ranges, NodeRow, Parents
  <2> QED BY <1>3, <1>7, <2>1 DEF Homeless
<1>8. \A s \in reqs' : s.op \in {"move", "restore"} => s.crossed
  <2>1. reqs \ {r} \in SUBSET Requests
    BY <1>0
  <2>2. Told(reqs \ {r}, Meddle(reqs \ {r}, r.id, r.to))
    BY <2>1, ToldBy
  <2>3. Meddle(reqs \ {r}, r.id, r.to) \in SUBSET Requests
    BY <2>1, <2>2, ToldRequests
  <2>4. Told(Meddle(reqs \ {r}, r.id, r.to), rs)
    BY <2>3, ToldBy
  <2>5. rs \in SUBSET Requests
    BY <2>3, <2>4, ToldRequests
  <2> HIDE DEF rs
  <2> QED BY <1>1, <2>5, CrossingWarns
<1> QED BY <1>1, <1>3, <1>5, <1>6, <1>7, <1>8 DEF Moved

LEMMA Shapes ==
    ASSUME CoreInv, [Next]_vars
    PROVE  /\ CoreInv'
           /\ \/ Quiet \/ Thinned \/ \E r \in reqs : Returned(r) \/ Moved(r)
              \/ \E k \in Ids, kind \in Kinds, p \in Parents : Grown(k, kind, p)
<1>1. CASE NewRequest
  <2>1. CASE createFolder \/ uploadFile \/ patchFile \/ copyFile \/ restoreFile \/ putConfig
    BY <2>1, NewRequestQuiet DEF createFolder, uploadFile, patchFile, copyFile, restoreFile, putConfig
  <2>2. CASE deleteFile
    BY <2>2, TrashThins, RemovingThins DEF deleteFile
  <2>3. CASE emptyTrash
    BY <2>3, RemovingThins DEF emptyTrash
  <2> QED BY <1>1, <2>1, <2>2, <2>3 DEF NewRequest
<1>2. ASSUME NEW r \in reqs, RequestStep(r)
      PROVE  /\ CoreInv'
             /\ \/ Quiet \/ Thinned \/ Returned(r) \/ Moved(r)
                \/ \E k \in Ids, kind \in Kinds, p \in Parents : Grown(k, kind, p)
  <2>1. CASE CreateNode(r)
    <3>1. CASE HasParent(r.to)
      BY <2>1, <3>1, UploadGrows
    <3>2. CASE ~HasParent(r.to)
      <4>1. UNCHANGED <<node, next, stray>> /\ reqs' = reqs \ {r}
        BY <2>1, <3>2 DEF CreateNode, Close
      <4> QED BY <2>1, <4>1, EndQuiet
    <3> QED BY <3>1, <3>2
  <2>2. CASE CreateNodeWithQuota(r)
    BY <2>2, UploadGrows
  <2>3. CASE UploadRejected(r) \/ CopyDone(r) \/ SetConfig(r)
    <3>1. reqs' = reqs \ {r}
      BY <2>3 DEF UploadRejected, CopyDone, SetConfig, Close
    <3> QED BY <2>3, <3>1, EndQuiet
  <2>4. CASE IsDescendant(r) \/ EnsureCopyQuota(r)
    <3>1. CASE reqs' = reqs \ {r}
      BY <2>4, <3>1, EndQuiet
    <3>2. CASE reqs' # reqs \ {r}
      BY <2>4, <3>2, BecomeQuiet
    <3> QED BY <3>1, <3>2
  <2>5. CASE UpdateNode(r)
    <3>1. CASE r.id \in Live /\ HasParent(r.to)
      BY <2>5, <3>1, UpdateMoves
    <3>2. CASE ~(r.id \in Live /\ HasParent(r.to))
      <4>1. UNCHANGED <<node, stray, knot>> /\ reqs' = reqs \ {r}
        BY <2>5, <3>2 DEF UpdateNode, Close
      <4> QED BY <2>5, <4>1, EndQuiet
    <3> QED BY <3>1, <3>2
  <2>6. CASE CopyFolder(r)
    BY <2>6, CopyGrows
  <2>7. CASE CopyBlob(r) \/ CopyChildren(r) \/ CopyFails(r)
    BY <2>7, CopyQuiet
  <2>8. CASE CopyFile(r)
    BY <2>8, CopyGrows
  <2>9. CASE UndoCopy(r)
    BY <2>9, RemovingThins, UndoQuiet
  <2>10. CASE RestoreRows(r)
    BY <2>10, RestoreReturns
  <2> QED BY <1>2, <2>1, <2>2, <2>3, <2>4, <2>5, <2>6, <2>7, <2>8, <2>9, <2>10 DEF RequestStep
<1>3. CASE Janitor \/ Tick \/ Restart \/ UNCHANGED vars
  BY <1>3, BackgroundQuiet DEF Janitor
<1> QED BY <1>1, <1>2, <1>3 DEF Next

-----------------------------------------------------------------------------
(* The folders. *)

\* The folders above n end at the root and n is not one of them.
Cert(n) ==
    \E C \in SUBSET Known : /\ n \notin C /\ node[n].parent \in C \cup {Root}
                            /\ \A a \in C : node[a].parent \in C \cup {Root}
Forest == \A n \in Rows : Cert(n)

\* What a move's walk has passed, and is not its node: from the target to where
\* the walk is.
Walked(r) ==
    \E P \in SUBSET Known : /\ r.id \notin P /\ r.to \in P \cup {Root, r.cur}
                            /\ \A a \in P : node[a].parent \in P \cup {Root, r.cur}
WalksGood == knot \/ (Forest /\ \A r \in reqs : r.op = "move" /\ ~r.crossed => Walked(r))

LEMMA ForestStep ==
    ASSUME CoreInv, CoreInv', WalksGood,
           \/ Quiet \/ Thinned \/ \E r \in reqs : Returned(r) \/ Moved(r)
           \/ \E k \in Ids, kind \in Kinds, p \in Parents : Grown(k, kind, p)
    PROVE  WalksGood'
<1>0. DriveTypeOK /\ Ranges /\ IdsKnown /\ node \in [Ids -> NodeRow] /\ reqs \subseteq Requests /\ reqs' \subseteq Requests
      /\ Known \subseteq Ids
  BY DriveAssumption DEF CoreInv, DriveTypeOK, Ranges, Known, Ids
<1>k. knot \in BOOLEAN
  BY <1>0 DEF Ranges
<1>1. ASSUME NEW s, NEW q \in reqs, Same(q, s), s.op = "move", ~s.crossed, ~knot
      PROVE  Walked(q) /\ s.id = q.id /\ s.to = q.to /\ s.cur = q.cur
  <2>1. q \in Requests /\ s.op = q.op /\ (q.op = "move" => s.id = q.id /\ s.to = q.to /\ s.cur = q.cur /\ (~s.crossed => ~q.crossed))
    BY <1>0, <1>1, SameRequest
  <2> QED BY <1>1, <2>1 DEF WalksGood
<1>2. ASSUME ~knot, knot' = knot, Known \subseteq Known', Forest',
             \A n \in Known : node'[n].parent \in {node[n].parent, Root},
             \A s \in reqs' : s.op = "move" => \E q \in reqs : Same(q, s)
      PROVE  WalksGood'
  <2> SUFFICES ASSUME NEW s \in reqs', s.op = "move", ~s.crossed PROVE Walked(s)'
    BY <1>2 DEF WalksGood
  <2>1. PICK q \in reqs : Walked(q) /\ s.id = q.id /\ s.to = q.to /\ s.cur = q.cur
    BY <1>1, <1>2
  <2>2. PICK P \in SUBSET Known : /\ s.id \notin P /\ s.to \in P \cup {Root, s.cur}
                                  /\ \A a \in P : node[a].parent \in P \cup {Root, s.cur}
    BY <2>1 DEF Walked
  <2> QED BY <1>2, <2>2 DEF Walked
<1>3. CASE Quiet
  <2> SUFFICES ASSUME ~knot PROVE WalksGood'
    BY <1>3, <1>k DEF Quiet, WalksGood
  <2>1. Rows' = Rows /\ node' = node /\ Known \subseteq Known' /\ knot' = knot
    BY <1>3, RowsStay DEF Quiet
  <2>2. Forest'
    BY <2>1 DEF WalksGood, Forest, Cert
  <2> SUFFICES ASSUME NEW s \in reqs', s.op = "move", ~s.crossed PROVE Walked(s)'
    BY <2>2 DEF WalksGood
  <2>3. CASE \E q \in reqs : Same(q, s)
    <3>1. PICK q \in reqs : Walked(q) /\ s.id = q.id /\ s.to = q.to /\ s.cur = q.cur
      BY <1>1, <2>3
    <3>2. PICK P \in SUBSET Known : /\ s.id \notin P /\ s.to \in P \cup {Root, s.cur}
                                    /\ \A a \in P : node[a].parent \in P \cup {Root, s.cur}
      BY <3>1 DEF Walked
    <3> QED BY <2>1, <3>2 DEF Walked
  <2>4. CASE NewMove(s)
    <3>1. CASE s.cur = s.to
      <4> DEFINE P == {}
      <4>1. P \in SUBSET Known' /\ s.id \notin P /\ s.to \in P \cup {Root, s.cur}
            /\ \A a \in P : node'[a].parent \in P \cup {Root, s.cur}
        BY <3>1
      <4> HIDE DEF P
      <4> QED BY <4>1 DEF Walked
    <3>2. CASE s.cur # s.to
      <4>1. PICK r \in reqs : /\ r.op = "move" /\ r.cur # Root /\ r.cur # r.id
                              /\ s = [r EXCEPT !.cur = IF @ \in Rows THEN node[@].parent ELSE Root]
        BY <2>4, <3>2 DEF NewMove
      <4>2. r \in MoveReq
        BY <1>0, <4>1, RequestFields
      <4>3. s.id = r.id /\ s.to = r.to /\ s.crossed = r.crossed /\ s.cur = IF r.cur \in Rows THEN node[r.cur].parent ELSE Root
        BY <4>1, <4>2 DEF MoveReq
      <4>4. PICK P \in SUBSET Known : /\ r.id \notin P /\ r.to \in P \cup {Root, r.cur}
                                      /\ \A a \in P : node[a].parent \in P \cup {Root, r.cur}
        BY <4>1, <4>3 DEF WalksGood, Walked
      <4>5. r.cur \in Known /\ node[r.cur].parent = s.cur
        BY <1>0, <4>1, <4>3 DEF IdsKnown, RefsKnown, Places
      <4> DEFINE Q == P \cup {r.cur}
      <4>6. Q \in SUBSET Known' /\ s.id \notin Q /\ s.to \in Q \cup {Root, s.cur}
            /\ \A a \in Q : node'[a].parent \in Q \cup {Root, s.cur}
        BY <2>1, <4>1, <4>3, <4>4, <4>5
      <4> HIDE DEF Q
      <4> QED BY <4>6 DEF Walked
    <3> QED BY <3>1, <3>2
  <2> QED BY <1>3, <2>3, <2>4 DEF Quiet, NewRestore, NewUpload
<1>4. CASE Thinned
  <2> SUFFICES ASSUME ~knot PROVE WalksGood'
    BY <1>4, <1>k DEF Thinned, WalksGood
  <2>1. Forest'
    <3> SUFFICES ASSUME NEW n \in Rows' PROVE Cert(n)'
      BY DEF Forest
    <3>1. PICK C \in SUBSET Known : /\ n \notin C /\ node[n].parent \in C \cup {Root}
                                    /\ \A a \in C : node[a].parent \in C \cup {Root}
      BY <1>4 DEF Thinned, WalksGood, Forest, Cert
    <3>2. n \in Ids /\ \A a \in C : a \in Ids
      BY <1>0, <1>4 DEF Thinned, Rows
    <3>3. n \notin C /\ node'[n].parent \in C \cup {Root} /\ \A a \in C : node'[a].parent \in C \cup {Root}
      BY <1>4, <3>1, <3>2 DEF Thinned
    <3> QED BY <1>4, <3>1, <3>3 DEF Thinned, Cert
  <2> QED BY <1>0, <1>2, <1>4, <2>1 DEF Thinned, Remain
<1>5. ASSUME NEW r \in reqs, Returned(r) PROVE WalksGood'
  <2> SUFFICES ASSUME ~knot PROVE WalksGood'
    BY <1>5, <1>k DEF Returned, WalksGood
  <2>1. Forest'
    <3> SUFFICES ASSUME NEW n \in Rows' PROVE Cert(n)'
      BY DEF Forest
    <3>1. PICK C \in SUBSET Known : /\ n \notin C /\ node[n].parent \in C \cup {Root}
                                    /\ \A a \in C : node[a].parent \in C \cup {Root}
      BY <1>5 DEF Returned, WalksGood, Forest, Cert
    <3>2. n \in Ids /\ \A a \in C : a \in Ids
      BY <1>0, <1>5 DEF Returned, Rows
    <3>3. n \notin C /\ node'[n].parent \in C \cup {Root} /\ \A a \in C : node'[a].parent \in C \cup {Root}
      BY <1>5, <3>1, <3>2 DEF Returned
    <3> QED BY <1>5, <3>1, <3>3 DEF Returned, Cert
  <2> QED BY <1>0, <1>2, <1>5, <2>1 DEF Returned, Remain
<1>6. ASSUME NEW k \in Ids, NEW kind \in Kinds, NEW p \in Parents, Grown(k, kind, p) PROVE WalksGood'
  <2> SUFFICES ASSUME ~knot PROVE WalksGood'
    BY <1>6, <1>k DEF Grown, WalksGood
  <2>1. k \in Ids \ Known /\ k \in Known' /\ HasParent(p) /\ node' = [node EXCEPT ![k] = NewRow(kind, p)]
        /\ Known \subseteq Known' /\ knot' = knot
    BY <1>6 DEF Grown, SetRows
  <2>2. /\ Rows' = Rows \cup {k} /\ (\A n \in Ids : n # k => node'[n] = node[n]) /\ node'[k].parent = p
    BY <2>1, LeafRows DEF NewRow
  <2>3. Forest'
    <3> SUFFICES ASSUME NEW n \in Rows' PROVE Cert(n)'
      BY DEF Forest
    <3>1. CASE n # k
      <4>1. PICK C \in SUBSET Known : /\ n \notin C /\ node[n].parent \in C \cup {Root}
                                      /\ \A a \in C : node[a].parent \in C \cup {Root}
        BY <2>2, <3>1 DEF WalksGood, Forest, Cert
      <4>2. n \in Ids /\ \A a \in C : a \in Ids /\ a # k
        BY <1>0, <2>1, <2>2, <3>1 DEF Rows
      <4>3. n \notin C /\ node'[n].parent \in C \cup {Root} /\ \A a \in C : node'[a].parent \in C \cup {Root}
        BY <2>2, <3>1, <4>1, <4>2
      <4> QED BY <2>1, <4>1, <4>3 DEF Cert
    <3>2. CASE n = k /\ p = Root
      <4> DEFINE C == {}
      <4>1. C \in SUBSET Known' /\ n \notin C /\ node'[n].parent \in C \cup {Root} /\ \A a \in C : node'[a].parent \in C \cup {Root}
        BY <2>2, <3>2
      <4> HIDE DEF C
      <4> QED BY <4>1 DEF Cert
    <3>3. CASE n = k /\ p # Root
      <4>0. p \in Rows /\ p \in Known
        BY <1>0, <2>1, <3>3 DEF HasParent, IdsKnown
      <4>1. PICK C \in SUBSET Known : /\ p \notin C /\ node[p].parent \in C \cup {Root}
                                      /\ \A a \in C : node[a].parent \in C \cup {Root}
        BY <4>0 DEF WalksGood, Forest, Cert
      <4> DEFINE D == C \cup {p}
      <4>2. D \in SUBSET Known /\ \A a \in D : a \in Ids /\ a # k
        BY <1>0, <2>1, <4>0
      <4>3. n \notin D /\ node'[n].parent \in D \cup {Root} /\ \A a \in D : node'[a].parent \in D \cup {Root}
        BY <2>1, <2>2, <3>3, <4>0, <4>1, <4>2
      <4> HIDE DEF D
      <4> QED BY <2>1, <4>2, <4>3 DEF Cert
    <3> QED BY <3>1, <3>2, <3>3
  <2>4. \A n \in Known : node'[n].parent \in {node[n].parent, Root}
    BY <1>0, <2>1, <2>2
  <2>5. \A s \in reqs' : s.op = "move" => \E q \in reqs : Same(q, s)
    BY <1>6 DEF Grown
  <2> QED BY <1>2, <2>1, <2>3, <2>4, <2>5
<1>7. ASSUME NEW r \in reqs, Moved(r) PROVE WalksGood'
  <2> SUFFICES ASSUME ~knot' PROVE WalksGood'
    BY DEF WalksGood
  <2>0. r \in MoveReq
    BY <1>0, <1>7, RequestFields DEF Moved
  <2>1. ~knot /\ ~r.crossed /\ r.op = "move" /\ r.cur = Root /\ r.id \in Rows /\ HasParent(r.to)
    BY <1>7, <1>k, <2>0 DEF Moved, Live, Rows, MoveReq
  <2>2. PICK W \in SUBSET Known : r.id \notin W /\ r.to \in W \cup {Root} /\ \A a \in W : node[a].parent \in W \cup {Root}
    BY <2>1 DEF WalksGood, Walked
  <2>3. (\A n \in Ids : node'[n].parent = IF n = r.id THEN r.to ELSE node[n].parent) /\ Rows' = Rows /\ Known \subseteq Known'
    BY <1>7 DEF Moved
  <2>4. ASSUME NEW m \in Rows PROVE \E D \in SUBSET Known : /\ m \notin D /\ node'[m].parent \in D \cup {Root}
                                                            /\ \A a \in D : node'[a].parent \in D \cup {Root}
    <3>0. m \in Ids /\ W \subseteq Ids
      BY <1>0 DEF Rows
    <3>1. CASE m = r.id
      <4>1. m \notin W /\ node'[m].parent \in W \cup {Root} /\ \A a \in W : node'[a].parent \in W \cup {Root}
        BY <2>2, <2>3, <3>0, <3>1
      <4> QED BY <4>1
    <3>2. CASE m # r.id
      <4>1. PICK C \in SUBSET Known : /\ m \notin C /\ node[m].parent \in C \cup {Root}
                                      /\ \A a \in C : node[a].parent \in C \cup {Root}
        BY <2>1 DEF WalksGood, Forest, Cert
      <4>2. C \subseteq Ids
        BY <1>0
      <4>3. CASE r.id \notin C
        <5>1. m \notin C /\ node'[m].parent \in C \cup {Root} /\ \A a \in C : node'[a].parent \in C \cup {Root}
          BY <2>3, <3>0, <3>2, <4>1, <4>2, <4>3
        <5> QED BY <5>1
      <4>4. CASE r.id \in C /\ m \in W
        <5> DEFINE D == C \cap W
        <5>1. D \in SUBSET Known /\ m \notin D /\ node'[m].parent \in D \cup {Root}
              /\ \A a \in D : node'[a].parent \in D \cup {Root}
          BY <2>2, <2>3, <3>0, <3>2, <4>1, <4>2, <4>4
        <5> HIDE DEF D
        <5> QED BY <5>1
      <4>5. CASE r.id \in C /\ m \notin W
        <5> DEFINE D == C \cup W
        <5>1. D \in SUBSET Known /\ m \notin D /\ node'[m].parent \in D \cup {Root}
              /\ \A a \in D : node'[a].parent \in D \cup {Root}
          BY <2>2, <2>3, <3>0, <3>2, <4>1, <4>2, <4>5
        <5> HIDE DEF D
        <5> QED BY <5>1
      <4> QED BY <4>3, <4>4, <4>5
    <3> QED BY <3>1, <3>2
  <2>5. Forest'
    BY <2>3, <2>4 DEF Forest, Cert
  <2> QED BY <1>7, <2>5 DEF Moved, WalksGood
<1> QED BY <1>3, <1>4, <1>5, <1>6, <1>7

LEMMA NotOnCycle ==
    ASSUME node \in [Ids -> NodeRow], NEW n \in Ids, Cert(n)
    PROVE  ~OnCycle(n)
<1> DEFINE Up(A) == {node[a].parent : a \in A} \ {Root}
           x == {node[n].parent} \ {Root}
           Is(f) == f = [k \in 1..N |-> IF k = 1 THEN {node[n].parent} \ {Root}
                                        ELSE LET below == f[k-1]
                                             IN  below \cup ({node[a].parent : a \in below} \ {Root})]
           h == CHOOSE f : Is(f)
<1>0. N \in Nat \ {0} /\ N \in 1 .. N /\ \A a \in Ids : node[a].parent \in Ids \cup {Root}
  BY DriveAssumption DEF NodeRow, Parents
<1>1. \E f : Is(f)
  <2> DEFINE D == SUBSET Ids
             g == [A \in D |-> A \cup Up(A)]
  <2>1. x \in D /\ g \in [D -> D] /\ N \in Nat /\ \A A \in D : g[A] = A \cup Up(A)
    BY <1>0
  <2>2. PICK e : Iterates(e, D, g, x, N)
    <3> HIDE DEF D, g, x
    <3> QED BY <2>1, IterationExists
  <2>3. e \in [0 .. N -> D] /\ e[0] = x /\ \A k \in 1 .. N : e[k] = g[e[k-1]]
    BY <2>2 DEF Iterates
  <2> DEFINE f == [k \in 1 .. N |-> e[k - 1]]
  <2>4. ASSUME NEW k \in 1 .. N
        PROVE  f[k] = IF k = 1 THEN x ELSE f[k-1] \cup Up(f[k-1])
    <3> HIDE DEF D, g, x, Up
    <3>1. f[k] = e[k - 1]
      OBVIOUS
    <3>2. CASE k = 1
      BY <2>3, <3>1, <3>2
    <3>3. CASE k # 1
      <4>1. k - 1 \in 1 .. N /\ k - 2 \in 0 .. N /\ (k - 1) - 1 = k - 2
        BY <1>0, <3>3
      <4>2. f[k - 1] = e[k - 2] /\ e[k - 2] \in D /\ e[k - 1] = g[e[k - 2]]
        <5>1. e[k - 2] \in D
          BY <2>3, <4>1
        <5>2. e[k - 1] = g[e[(k - 1) - 1]]
          BY <2>3, <4>1
        <5> QED BY <4>1, <5>1, <5>2
      <4> QED BY <2>1, <3>1, <3>3, <4>2
    <3> QED BY <3>2, <3>3
  <2>5. f = [k \in 1 .. N |-> IF k = 1 THEN x ELSE f[k-1] \cup Up(f[k-1])]
    <3> DEFINE u == [k \in 1 .. N |-> IF k = 1 THEN x ELSE f[k-1] \cup Up(f[k-1])]
    <3>1. \A k \in 1 .. N : u[k] = f[k]
      <4> HIDE DEF f, x, Up
      <4> QED BY <2>4
    <3>2. DOMAIN u = 1 .. N /\ DOMAIN f = 1 .. N
      OBVIOUS
    <3> HIDE DEF D, g, x, Up
    <3> QED BY <3>1
  <2>6. Is(f)
    <3> HIDE DEF f
    <3> QED BY <2>5
  <2> QED BY <2>6
<1>2. Is(h)
  BY <1>1
<1>3. OnCycle(n) <=> n \in h[N]
  BY DEF OnCycle
<1> HIDE DEF h
<1>4. h[1] = x /\ \A k \in 1 .. N : k # 1 => h[k] = h[k-1] \cup Up(h[k-1])
  BY <1>0, <1>2
<1>5. PICK C \in SUBSET Known : /\ n \notin C /\ node[n].parent \in C \cup {Root}
                                /\ \A a \in C : node[a].parent \in C \cup {Root}
  BY DEF Cert
<1>6. h[N] \subseteq C
  <2> DEFINE G == {k \in 0 .. N : k = 0 \/ h[k] \subseteq C}
  <2>1. 0 \in G
    BY <1>0
  <2>2. ASSUME NEW k \in 0 .. N - 1, k \in G PROVE k + 1 \in G
    <3>1. k + 1 \in 1 .. N /\ k + 1 \in 0 .. N /\ (k + 1) - 1 = k
      BY <1>0
    <3>2. CASE k = 0
      BY <1>4, <1>5, <3>1, <3>2
    <3>3. CASE k # 0
      <4>1. h[k + 1] = h[k] \cup Up(h[k]) /\ h[k] \subseteq C
        BY <1>4, <2>2, <3>1, <3>3
      <4>2. Up(h[k]) \subseteq C
        BY <1>5, <4>1
      <4> QED BY <3>1, <4>1, <4>2
    <3> QED BY <3>2, <3>3
  <2> HIDE DEF G
  <2>3. \A k \in 0 .. N : k \in G
    BY <1>0, <2>1, <2>2, StepByStep
  <2>4. N \in G
    BY <1>0, <2>3
  <2> QED BY <1>0, <2>4 DEF G
<1> QED BY <1>3, <1>5, <1>6

\* No set of rows holds the parents of all its members.
LEMMA NoRootlessSet ==
    ASSUME CoreInv, Forest, NEW U \in SUBSET Rows, \A a \in U : node[a].parent \in U
    PROVE  U = {}
<1> SUFFICES ASSUME U # {} PROVE FALSE
  OBVIOUS
<1> DEFINE F == FiniteSubsetsOf(Ids)
           R == StrictSubsetOrdering(Ids)
           T == {A \in F : A \subseteq U /\ A # {} /\ \A a \in A : node[a].parent \in A}
<1>0. N \in Nat /\ Rows \subseteq Ids
  BY DriveAssumption DEF Rows
<1>1. \A A \in SUBSET Ids : A \in F
  <2>1. IsFiniteSet(Ids)
    BY <1>0, FS_Interval DEF Ids
  <2>2. ASSUME NEW A \in SUBSET Ids PROVE IsFiniteSet(A)
    BY <2>1, FS_Subset
  <2> QED BY <2>2 DEF FiniteSubsetsOf
<1>2. U \in T /\ T \subseteq F
  BY <1>0, <1>1
<1>3. IsWellFoundedOn(R, F)
  BY FS_StrictSubsetOrderingWellFounded
<1>4. PICK A \in T : \A B \in T : <<B, A>> \notin R
  <2> HIDE DEF F, R, T
  <2> QED BY <1>2, <1>3, WFMin, Zenon
<1>5. PICK n \in A : n \in Rows
  BY <1>4
<1>6. PICK C \in SUBSET Known : /\ n \notin C /\ node[n].parent \in C \cup {Root}
                                /\ \A a \in C : node[a].parent \in C \cup {Root}
  BY <1>5 DEF Forest, Cert
<1>7. \A a \in A : node[a].parent # Root /\ a \in Ids
  <2>1. A \subseteq Ids /\ \A a \in A : node[a].parent \in A
    BY <1>0, <1>4
  <2>2. Root \notin Ids
    BY <1>0 DEF Ids, Root
  <2> QED BY <2>1, <2>2
<1>8. A \cap C \in T
  <2>1. A \cap C \in F /\ A \cap C \subseteq U
    BY <1>0, <1>1, <1>4
  <2>2. node[n].parent \in A \cap C
    BY <1>4, <1>5, <1>6, <1>7
  <2>3. \A a \in A \cap C : node[a].parent \in A \cap C
    BY <1>4, <1>6, <1>7
  <2> QED BY <2>1, <2>2, <2>3
<1>9. <<A \cap C, A>> \in R
  <2>1. A \subseteq Ids /\ A \cap C \subseteq A /\ A \cap C # A
    BY <1>5, <1>6, <1>7
  <2> QED BY <2>1 DEF R, StrictSubsetOrdering
<1> QED BY <1>4, <1>8, <1>9

-----------------------------------------------------------------------------
(* The listings. *)

HomelessAreStray == \A n \in Ids : n \in stray <=> Homeless(node, n)

LEMMA HomelessStep ==
    ASSUME CoreInv, CoreInv', HomelessAreStray,
           \/ Quiet \/ Thinned \/ \E r \in reqs : Returned(r) \/ Moved(r)
           \/ \E k \in Ids, kind \in Kinds, p \in Parents : Grown(k, kind, p)
    PROVE  HomelessAreStray'
<1>1. CASE Quiet
  BY <1>1 DEF Quiet, HomelessAreStray
<1>2. CASE Thinned
  BY <1>2 DEF Thinned, HomelessAreStray
<1>3. ASSUME NEW r \in reqs, Returned(r) PROVE HomelessAreStray'
  BY <1>3 DEF Returned, HomelessAreStray
<1>4. ASSUME NEW r \in reqs, Moved(r) PROVE HomelessAreStray'
  BY <1>4 DEF Moved, SetRows, HomelessAreStray
<1>5. ASSUME NEW k \in Ids, NEW kind \in Kinds, NEW p \in Parents, Grown(k, kind, p) PROVE HomelessAreStray'
  <2>1. /\ stray' = {n \in stray \cup {k} : Homeless(node', n)} /\ k \notin Known
        /\ node' = [node EXCEPT ![k] = NewRow(kind, p)]
    BY <1>5 DEF Grown, SetRows
  <2>2. \A n \in Ids : n # k => node'[n] = node[n] /\ node[n].parent # k
    BY <2>1, LeafRows
  <2>3. \A n \in Ids : node[n].parent = Root \/ node[n].parent \in Ids
    BY DEF CoreInv, DriveTypeOK, Ranges, NodeRow, Parents
  <2>4. ASSUME NEW n \in Ids, n # k, Homeless(node', n) PROVE Homeless(node, n)
    BY <2>2, <2>3, <2>4 DEF Homeless
  <2> QED BY <2>1, <2>4 DEF HomelessAreStray
<1> QED BY <1>1, <1>2, <1>3, <1>4, <1>5

LEMMA ListingsAreComplete ==
    ASSUME CoreInv, WalksGood, HomelessAreStray
    PROVE  ListingsComplete /\ NoFolderBelowItself
<1> SUFFICES ASSUME ~knot PROVE ListingsComplete /\ NoFolderBelowItself
  BY DEF ListingsComplete, NoFolderBelowItself
<1>0. Forest /\ Live \in SUBSET Ids /\ Rows \in SUBSET Ids /\ Live \subseteq Rows /\ Trashed \subseteq Rows
      /\ stray \subseteq Ids /\ node \in [Ids -> NodeRow] /\ \A n \in Ids : node[n].parent = Root \/ node[n].parent \in Ids
  BY DEF WalksGood, Live, Rows, Trashed, CoreInv, DriveTypeOK, Ranges, NodeRow, Parents
<1>1. NoFolderBelowItself
  BY <1>0, NotOnCycle DEF NoFolderBelowItself, Forest
<1>2. Live \subseteq UNION {Subtree(Live, n) : n \in FolderView(Root) \cup stray}
  <2> DEFINE seen == UNION {Subtree(Live, n) : n \in FolderView(Root) \cup stray}
             U == Live \ seen
  <2>1. ASSUME NEW n
        PROVE  /\ n \in Live => n \in Subtree(Live, n)
               /\ \A c \in Live : node[c].parent \in Subtree(Live, n) => c \in Subtree(Live, n)
    <3>1. /\ n \in Live => n \in Tree(node, Live, n)
          /\ \A c \in Live : node[c].parent \in Tree(node, Live, n) => c \in Tree(node, Live, n)
      BY <1>0, TreeFacts
    <3> QED BY <3>1, SubtreeIsTree
  <2>2. ASSUME NEW a \in U PROVE node[a].parent \in U
    <3>1. a \notin FolderView(Root) \cup stray
      BY <2>1, <2>2
    <3>2. node[a].parent # Root /\ node[a].parent \in Ids /\ ~Homeless(node, a)
      BY <1>0, <2>2, <3>1 DEF FolderView, HomelessAreStray
    <3>3. node[a].parent \in Live
      BY <2>2, <3>2 DEF Homeless, Live
    <3>4. node[a].parent \notin seen
      BY <2>1, <2>2
    <3> QED BY <3>3, <3>4
  <2>3. U \in SUBSET Rows
    BY <1>0
  <2> HIDE DEF U
  <2>4. U = {}
    BY <1>0, <2>2, <2>3, NoRootlessSet
  <2> QED BY <2>4 DEF U
<1>3. Trashed \subseteq UNION {Subtree(Rows, n) : n \in TrashView}
  <2> DEFINE seen == UNION {Subtree(Rows, n) : n \in TrashView}
             U == Trashed \ seen
  <2>1. ASSUME NEW n
        PROVE  /\ n \in Rows => n \in Subtree(Rows, n)
               /\ \A c \in Rows : node[c].parent \in Subtree(Rows, n) => c \in Subtree(Rows, n)
    BY <1>0, TreeFacts, SubtreeIsTree
  <2>2. ASSUME NEW a \in U PROVE node[a].parent \in U
    <3>1. a \notin TrashView
      BY <1>0, <2>1, <2>2
    <3>2. node[a].parent \in Trashed
      BY <2>2, <3>1 DEF TrashView
    <3>3. node[a].parent \notin seen
      BY <1>0, <2>1, <2>2
    <3> QED BY <3>2, <3>3
  <2>3. U \in SUBSET Rows
    BY <1>0
  <2> HIDE DEF U
  <2>4. U = {}
    BY <1>0, <2>2, <2>3, NoRootlessSet
  <2> QED BY <2>4 DEF U
<1>4. \A n \in stray : Homeless(node, n)
  BY <1>0 DEF HomelessAreStray
<1> QED BY <1>1, <1>2, <1>3, <1>4 DEF ListingsComplete

-----------------------------------------------------------------------------
(* The quota. *)

\* A quota that some request goes by is no more than the largest there has been.
Bounded(q) == limit = 0 \/ (q # 0 /\ q <= limit)
LimitsKnown == Bounded(quota) /\ \A r \in reqs : r.op = "upload" => Bounded(r.quota)

\* The usage is, and would be when all that is below n were live.
Usage(n) == Cardinality((Live \cup Subtree(Rows, n)) \cap Files)
UsageHeld ==
    \/ surge \/ limit = 0
    \/ /\ TotalSize <= limit
       /\ \A r \in reqs : r.op = "restore" /\ ~r.crossed => Usage(r.id) <= limit
QuotaInv == LimitsKnown /\ UsageHeld

LEMMA Sizes ==
    ASSUME NEW A \in SUBSET Ids, NEW B \in SUBSET Ids
    PROVE  /\ Cardinality(A) \in Nat /\ Cardinality(A \cup B) \in Nat
           /\ Cardinality(A \cup B) <= Cardinality(A) + Cardinality(B)
           /\ (A \subseteq B => Cardinality(A) <= Cardinality(B))
<1>1. IsFiniteSet(A) /\ IsFiniteSet(B)
  <2>1. IsFiniteSet(Ids)
    BY FS_Interval, DriveAssumption DEF Ids
  <2> QED BY <2>1, FS_Subset
<1>2. IsFiniteSet(A \cup B) /\ IsFiniteSet(A \cap B)
  BY <1>1, FS_Union, FS_Subset
<1>3. Cardinality(A \cup B) = Cardinality(A) + Cardinality(B) - Cardinality(A \cap B)
  BY <1>1, FS_Union
<1>4. Cardinality(A) \in Nat /\ Cardinality(B) \in Nat /\ Cardinality(A \cup B) \in Nat /\ Cardinality(A \cap B) \in Nat
  BY <1>1, <1>2, FS_CardinalityType
<1>5. A \subseteq B => Cardinality(A) <= Cardinality(B)
  BY <1>1, FS_Subset
<1> QED BY <1>3, <1>4, <1>5

\* What is below n cannot grow when rows go, or stay where they are.
LEMMA SubtreeShrinks ==
    ASSUME Rows' \subseteq Rows, \A n \in Rows' : node'[n].parent = node[n].parent, NEW n
    PROVE  Subtree(Rows, n)' \subseteq Subtree(Rows, n)
<1> DEFINE A == Subtree(Rows, n)
<1>1. Rows \in SUBSET Ids /\ Rows' \in SUBSET Ids
  BY DEF Rows
<1>2. (n \in Rows => n \in A) /\ \A c \in Rows : node[c].parent \in A => c \in A
  <2>1. /\ n \in Rows => n \in Tree(node, Rows, n)
        /\ \A c \in Rows : node[c].parent \in Tree(node, Rows, n) => c \in Tree(node, Rows, n)
    BY <1>1, TreeFacts
  <2> QED BY <2>1, SubtreeIsTree
<1>3. (n \in Rows' => n \in A) /\ \A c \in Rows' : node'[c].parent \in A => c \in A
  BY <1>2
<1>4. \A B : (n \in Rows' => n \in B) /\ (\A c \in Rows' : node'[c].parent \in B => c \in B)
               => Tree(node', Rows', n) \subseteq B
  BY <1>1, TreeFacts
<1>5. Tree(node', Rows', n) \subseteq A
  <2> HIDE DEF A
  <2> QED BY <1>3, <1>4
<1> QED BY <1>5, SubtreeIsTree

LEMMA QuotaStep ==
    ASSUME CoreInv, CoreInv', QuotaInv,
           \/ Quiet \/ Thinned \/ \E r \in reqs : Returned(r) \/ Moved(r)
           \/ \E k \in Ids, kind \in Kinds, p \in Parents : Grown(k, kind, p)
    PROVE  QuotaInv'
<1>0. /\ reqs \subseteq Requests /\ reqs' \subseteq Requests /\ limit \in Nat /\ limit' \in Nat /\ quota \in Nat /\ quota' \in Nat
      /\ surge \in BOOLEAN /\ Live \in SUBSET Ids /\ Files \in SUBSET Ids /\ Live' \in SUBSET Ids /\ Files' \in SUBSET Ids
      /\ Rows \in SUBSET Ids /\ Rows' \in SUBSET Ids
  BY DEF CoreInv, DriveTypeOK, Ranges, Live, Files, Rows
<1>t. \A n : Subtree(Rows, n) \subseteq Rows
  BY <1>0, TreeFacts, SubtreeIsTree
<1>1. ASSUME NEW s, NEW q \in reqs, Same(q, s)
      PROVE  /\ s.op = "upload" => q.op = "upload" /\ s.quota = q.quota
             /\ s.op = "restore" /\ ~s.crossed => q.op = "restore" /\ ~q.crossed /\ s.id = q.id
  BY <1>0, <1>1, SameRequest
<1>2. ASSUME limit' = limit, quota' = quota, \A s \in reqs' : s.op = "upload" => \E q \in reqs : Same(q, s)
      PROVE  LimitsKnown'
  BY <1>1, <1>2 DEF QuotaInv, LimitsKnown, Bounded
\* The rows are fewer, or the same: the usage is no more than it was.
<1>3. ASSUME limit' = limit, surge' = surge, (Live \cap Files)' \subseteq Live \cap Files,
             \A s \in reqs' : s.op = "restore" /\ ~s.crossed =>
               /\ \E q \in reqs : Same(q, s)
               /\ (Live' \cup Subtree(Rows, s.id)') \cap Files' \subseteq (Live \cup Subtree(Rows, s.id)) \cap Files
      PROVE  UsageHeld'
  <2> SUFFICES ASSUME ~surge, limit # 0 PROVE UsageHeld'
    BY <1>0, <1>3 DEF UsageHeld
  <2>1. TotalSize <= limit /\ \A r \in reqs : r.op = "restore" /\ ~r.crossed => Usage(r.id) <= limit
    BY DEF QuotaInv, UsageHeld
  <2>2. TotalSize' <= limit'
    <3>1. Cardinality(Live' \cap Files') <= Cardinality(Live \cap Files) /\ Cardinality(Live' \cap Files') \in Nat
          /\ Cardinality(Live \cap Files) \in Nat
      <4> DEFINE A == Live' \cap Files'
                 B == Live \cap Files
      <4>1. A \in SUBSET Ids /\ B \in SUBSET Ids /\ A \subseteq B
        BY <1>0, <1>3
      <4> HIDE DEF A, B
      <4>2. Cardinality(A) <= Cardinality(B) /\ Cardinality(A) \in Nat /\ Cardinality(B) \in Nat
        BY <4>1, Sizes
      <4> QED BY <4>2 DEF A, B
    <3> QED BY <1>0, <1>3, <2>1, <3>1 DEF TotalSize
  <2>3. ASSUME NEW s \in reqs', s.op = "restore", ~s.crossed PROVE Usage(s.id)' <= limit'
    <3>1. PICK q \in reqs : Same(q, s)
      BY <1>3, <2>3
    <3>2. Usage(s.id) <= limit
      BY <1>1, <2>1, <2>3, <3>1
    <3> DEFINE A == (Live' \cup Subtree(Rows, s.id)') \cap Files'
               B == (Live \cup Subtree(Rows, s.id)) \cap Files
    <3>3. A \in SUBSET Ids /\ B \in SUBSET Ids /\ A \subseteq B
      BY <1>0, <1>3, <2>3
    <3>4. Usage(s.id)' = Cardinality(A) /\ Usage(s.id) = Cardinality(B)
      BY DEF Usage
    <3> HIDE DEF A, B
    <3>5. Cardinality(A) <= Cardinality(B) /\ Cardinality(A) \in Nat /\ Cardinality(B) \in Nat
      BY <3>3, Sizes
    <3> QED BY <1>0, <1>3, <3>2, <3>4, <3>5
  <2> QED BY <2>2, <2>3 DEF UsageHeld
<1>4. CASE Quiet
  <2>1. /\ node' = node /\ surge' = surge /\ Rows' = Rows /\ Live' = Live /\ Files' = Files
        /\ (quota' = quota /\ limit' = limit) \/ limit' = Largest(limit, quota')
        /\ \A s \in reqs' : \/ \E q \in reqs : Same(q, s)
                            \/ NewMove(s) \/ NewRestore(s) \/ NewUpload(s)
                            \/ s.op \notin {"move", "restore", "upload"}
    BY <1>4, RowsStay DEF Quiet
  <2>2. \A q \in Nat : Bounded(q) => Bounded(q)'
    BY <1>0, <2>1 DEF Bounded, Largest
  <2>3. Bounded(quota)'
    BY <1>0, <2>1 DEF Bounded, Largest, QuotaInv, LimitsKnown
  <2>4. LimitsKnown'
    <3> SUFFICES ASSUME NEW s \in reqs', s.op = "upload" PROVE Bounded(s.quota)'
      BY <2>3 DEF LimitsKnown
    <3>1. s.quota \in Nat
      BY <1>0, RequestFields DEF UploadReq
    <3>2. Bounded(s.quota)
      BY <1>1, <2>1 DEF NewMove, NewRestore, NewUpload, QuotaInv, LimitsKnown, Bounded
    <3> QED BY <2>2, <3>1, <3>2
  <2>5. UsageHeld'
    <3> SUFFICES ASSUME ~surge, limit' # 0 PROVE UsageHeld'
      BY <2>1 DEF UsageHeld
    <3>1. limit # 0 /\ limit <= limit'
      BY <1>0, <2>1 DEF Largest
    <3>2. TotalSize <= limit /\ \A r \in reqs : r.op = "restore" /\ ~r.crossed => Usage(r.id) <= limit
      BY <3>1 DEF QuotaInv, UsageHeld
    <3>3. Cardinality(Live \cap Files) \in Nat
      BY <1>0, Sizes
    <3>4. TotalSize' <= limit'
      BY <1>0, <2>1, <3>1, <3>2, <3>3 DEF TotalSize
    <3>5. ASSUME NEW s \in reqs', s.op = "restore", ~s.crossed PROVE Usage(s.id)' <= limit'
      <4> DEFINE A == Live \cap Files
                 B == Subtree(Rows, s.id) \cap Files
      <4>1. A \in SUBSET Ids /\ B \in SUBSET Ids /\ (Live \cup Subtree(Rows, s.id)) \cap Files = A \cup B
        BY <1>0
      <4>2. Usage(s.id)' = Usage(s.id)
        <5>1. Subtree(Rows, s.id)' = Subtree(Rows, s.id)
          BY <2>1, SubtreeIsTree
        <5> QED BY <2>1, <5>1 DEF Usage
      <4>3. Usage(s.id) = Cardinality(A \cup B) /\ TotalSize = Cardinality(A) /\ SubtreeSizeAny(s.id) = Cardinality(B)
        BY <4>1 DEF Usage, TotalSize, SubtreeSizeAny
      <4> HIDE DEF A, B
      <4>4. Cardinality(A \cup B) \in Nat /\ Cardinality(A) \in Nat /\ Cardinality(B) \in Nat
            /\ Cardinality(A \cup B) <= Cardinality(A) + Cardinality(B)
        BY <4>1, Sizes
      <4>5. CASE \E q \in reqs : Same(q, s)
        <5>1. Usage(s.id) <= limit
          BY <1>1, <3>2, <3>5, <4>5
        <5> QED BY <1>0, <3>1, <4>2, <4>3, <4>4, <5>1
      <4>6. CASE NewRestore(s)
        <5>1. quota <= 0 \/ TotalSize + SubtreeSizeAny(s.id) <= quota
          BY <4>6 DEF NewRestore, Fits
        <5>2. quota # 0 /\ quota <= limit
          BY <3>1 DEF QuotaInv, LimitsKnown, Bounded
        <5> QED BY <1>0, <3>1, <4>2, <4>3, <4>4, <5>1, <5>2
      <4> QED BY <2>1, <3>5, <4>5, <4>6 DEF NewMove, NewUpload
    <3> QED BY <3>4, <3>5 DEF UsageHeld
  <2> QED BY <2>4, <2>5 DEF QuotaInv
<1>5. CASE Thinned
  <2>1. /\ Rows' \subseteq Rows /\ Live' \subseteq Live /\ \A n \in Rows' : node'[n].parent = node[n].parent
        /\ \A n \in Rows' : node'[n].kind = node[n].kind
        /\ surge' = surge /\ quota' = quota /\ limit' = limit /\ \A s \in reqs' : \E q \in reqs : Same(q, s)
    BY <1>5 DEF Thinned, Remain
  <2>2. Files' \subseteq Files
    BY <2>1 DEF Files
  <2>3. \A n : Subtree(Rows, n)' \subseteq Subtree(Rows, n)
    BY <2>1, SubtreeShrinks
  <2>4. UsageHeld'
    BY <1>3, <2>1, <2>2, <2>3
  <2> QED BY <1>2, <2>1, <2>4 DEF QuotaInv
<1>6. ASSUME NEW r \in reqs, Returned(r) PROVE QuotaInv'
  <2>1. /\ Rows' = Rows /\ Live' = Live \cup Returning(r) /\ Returning(r) \subseteq Subtree(Rows, r.id)
        /\ \A n \in Ids : node'[n].parent = node[n].parent /\ node'[n].kind = node[n].kind
        /\ quota' = quota /\ limit' = limit /\ \A s \in reqs' : \E q \in reqs : Same(q, s)
        /\ surge' = (surge \/ (r.crossed /\ Returning(r) \cap Files # {})) /\ r.op = "restore"
        /\ Returning(r) \cap Files # {} => \A s \in reqs' : s.op = "restore" => s.crossed
    BY <1>6 DEF Returned, Remain
  <2>2. Files' = Files
    BY <2>1 DEF Files, Rows
  <2>3. \A n : Subtree(Rows, n)' \subseteq Subtree(Rows, n)
    BY <1>0, <2>1, SubtreeShrinks
  <2>4. CASE Returning(r) \cap Files = {}
    <3>1. surge' = surge
      BY <1>0, <2>1, <2>4
    <3>2. Live' \cap Files' = Live \cap Files
      BY <2>1, <2>2, <2>4
    <3>3. \A n : (Live' \cup Subtree(Rows, n)') \cap Files' \subseteq (Live \cup Subtree(Rows, n)) \cap Files
      BY <2>2, <2>3, <3>2
    <3>4. UsageHeld'
      BY <1>3, <2>1, <3>1, <3>2, <3>3
    <3> QED BY <1>2, <2>1, <3>4 DEF QuotaInv
  <2>5. CASE Returning(r) \cap Files # {}
    <3>1. ASSUME ~surge', limit' # 0 PROVE TotalSize' <= limit'
      <4>1. Usage(r.id) <= limit
        BY <1>0, <2>1, <2>5, <3>1 DEF QuotaInv, UsageHeld
      <4> DEFINE A == Live' \cap Files'
                 B == (Live \cup Subtree(Rows, r.id)) \cap Files
      <4>2. A \in SUBSET Ids /\ B \in SUBSET Ids /\ A \subseteq B
        BY <1>0, <2>1, <2>2
      <4>3. TotalSize' = Cardinality(A) /\ Usage(r.id) = Cardinality(B)
        BY DEF TotalSize, Usage
      <4> HIDE DEF A, B
      <4>4. Cardinality(A) <= Cardinality(B) /\ Cardinality(A) \in Nat /\ Cardinality(B) \in Nat
        BY <4>2, Sizes
      <4> QED BY <1>0, <2>1, <4>1, <4>3, <4>4
    <3>2. UsageHeld'
      BY <2>1, <2>5, <3>1 DEF UsageHeld
    <3> QED BY <1>2, <2>1, <3>2 DEF QuotaInv
  <2> QED BY <2>4, <2>5
<1>7. ASSUME NEW r \in reqs, Moved(r) PROVE QuotaInv'
  <2>1. /\ Live' = Live /\ Files' = Files /\ quota' = quota /\ limit' = limit /\ surge' = surge
        /\ (\A s \in reqs' : \E q \in reqs : Same(q, s)) /\ \A s \in reqs' : s.op = "restore" => s.crossed
    BY <1>7 DEF Moved, Remain
  <2>2. UsageHeld'
    BY <1>3, <2>1
  <2> QED BY <1>2, <2>1, <2>2 DEF QuotaInv
<1>8. ASSUME NEW k \in Ids, NEW kind \in Kinds, NEW p \in Parents, Grown(k, kind, p) PROVE QuotaInv'
  <2>1. /\ k \in Ids \ Known /\ node' = [node EXCEPT ![k] = NewRow(kind, p)]
        /\ surge' = surge /\ quota' = quota /\ limit' = limit
        /\ (\A s \in reqs' : s.op = "copy" \/ \E q \in reqs : Same(q, s))
        /\ kind = "file" => /\ \A s \in reqs' : s.op = "restore" => s.crossed
                            /\ Fits(1, quota) \/ \E q \in reqs : q.op = "upload" /\ Fits(1, q.quota)
    BY <1>8 DEF Grown, SetRows
  <2>2. /\ Rows' = Rows \cup {k} /\ k \notin Rows /\ Live' = Live \cup {k}
        /\ \A n \in Ids : n # k => node'[n] = node[n] /\ node[n].parent # k
        /\ Files' = IF kind = "file" THEN Files \cup {k} ELSE Files
    BY <2>1, LeafRows
  <2>3. CASE kind = "file"
    <3>1. ASSUME ~surge', limit' # 0 PROVE TotalSize' <= limit'
      <4> DEFINE A == Live \cap Files
                 B == {k}
      <4>1. A \in SUBSET Ids /\ B \in SUBSET Ids /\ Live' \cap Files' = A \cup B
        BY <1>0, <2>1, <2>2, <2>3 DEF Files, Live, Rows
      <4>2. TotalSize' = Cardinality(A \cup B) /\ TotalSize = Cardinality(A) /\ Cardinality(B) = 1
        BY <4>1, FS_Singleton DEF TotalSize
      <4> HIDE DEF A, B
      <4>3. Cardinality(A \cup B) \in Nat /\ Cardinality(A) \in Nat /\ Cardinality(A \cup B) <= Cardinality(A) + Cardinality(B)
        BY <4>1, Sizes
      <4>4. PICK q \in Nat : Bounded(q) /\ (q <= 0 \/ TotalSize + 1 <= q)
        <5>1. \A u \in reqs : u.op = "upload" => u.quota \in Nat
          BY <1>0, RequestFields DEF UploadReq
        <5>2. Bounded(quota) /\ \A u \in reqs : u.op = "upload" => Bounded(u.quota)
          BY DEF QuotaInv, LimitsKnown
        <5> QED BY <1>0, <2>1, <2>3, <5>1, <5>2 DEF Fits
      <4> QED BY <1>0, <2>1, <3>1, <4>2, <4>3, <4>4 DEF Bounded
    <3>2. UsageHeld'
      BY <2>1, <2>3, <3>1 DEF UsageHeld
    <3> QED BY <1>2, <2>1, <3>2 DEF QuotaInv
  <2>4. CASE kind # "file"
    <3>1. Files' = Files /\ Live' \cap Files' = Live \cap Files
      BY <2>2, <2>4 DEF Files
    <3>2. ASSUME NEW n PROVE Subtree(Rows, n)' \subseteq Subtree(Rows, n) \cup {k}
      <4> DEFINE A == Subtree(Rows, n) \cup {k}
      <4>1. (n \in Rows => n \in Subtree(Rows, n)) /\ \A c \in Rows : node[c].parent \in Subtree(Rows, n) => c \in Subtree(Rows, n)
        <5>1. /\ n \in Rows => n \in Tree(node, Rows, n)
              /\ \A c \in Rows : node[c].parent \in Tree(node, Rows, n) => c \in Tree(node, Rows, n)
          BY <1>0, TreeFacts
        <5> QED BY <5>1, SubtreeIsTree
      <4>2. (n \in Rows' => n \in A) /\ \A c \in Rows' : node'[c].parent \in A => c \in A
        BY <1>0, <2>2, <4>1
      <4>3. \A B : (n \in Rows' => n \in B) /\ (\A c \in Rows' : node'[c].parent \in B => c \in B)
                     => Tree(node', Rows', n) \subseteq B
        BY <1>0, TreeFacts
      <4>4. Tree(node', Rows', n) \subseteq A
        <5> HIDE DEF A
        <5> QED BY <4>2, <4>3
      <4> QED BY <4>4, SubtreeIsTree
    <3>3. \A n : (Live' \cup Subtree(Rows, n)') \cap Files' \subseteq (Live \cup Subtree(Rows, n)) \cap Files
      BY <2>2, <3>1, <3>2 DEF Files
    <3>4. UsageHeld'
      BY <1>3, <2>1, <3>1, <3>3
    <3> QED BY <1>2, <2>1, <3>4 DEF QuotaInv
  <2> QED BY <2>3, <2>4
<1> QED BY <1>4, <1>5, <1>6, <1>7, <1>8

-----------------------------------------------------------------------------
(* The copies.  A row's folder is a row, and of a copy nobody has worked in:  *)
(* what is below what it has made it has made, and what it has made hangs     *)
(* together below the folder it began with, where everything left to do goes  *)
(* and which is the last one its undoing comes to.                            *)

RowsLinked == \A n \in Rows : HasParent(node[n].parent)

Closed(M) == \A c \in Rows : node[c].parent \in M => c \in M
Hangs(M, top) ==
    \A C \in SUBSET (M \cap Rows) : C # {} => top \in C \/ \E m \in C : node[m].parent \in M \ C
AllBelow(todo, top, M) ==
    \A i \in DOMAIN todo : /\ top \in todo[i].levels /\ todo[i].to \in M
                           /\ \A l \in todo[i].levels : top <= l
Whole(r) ==
    /\ Closed(r.made)
    /\ r.made = {} => \A i, j \in DOMAIN r.todo : i = j /\ r.todo[i].kind # "made"
    /\ r.made # {} => \E top \in r.made : Hangs(r.made, top) /\ AllBelow(r.todo, top, r.made)
Undone(r) ==
    /\ Closed(r.made)
    /\ \/ r.kept /\ r.levels = {}
       \/ r.levels = {} /\ r.made \cap Rows = {}
       \/ \E top \in r.levels : Hangs(r.made, top) /\ \A l \in r.levels : top <= l
CopiesWhole ==
    \A r \in reqs : ~r.crossed => (r.op = "copy" => Whole(r)) /\ (r.op = "undo" => Undone(r))

LEMMA LinksStep ==
    ASSUME CoreInv, RowsLinked,
           \/ Quiet \/ Thinned \/ \E r \in reqs : Returned(r) \/ Moved(r)
           \/ \E k \in Ids, kind \in Kinds, p \in Parents : Grown(k, kind, p)
    PROVE  RowsLinked'
<1>1. CASE Quiet
  BY <1>1, RowsStay DEF Quiet, RowsLinked, HasParent
<1>2. CASE Thinned
  BY <1>2 DEF Thinned, RowsLinked, HasParent
<1>3. ASSUME NEW r \in reqs, Returned(r) \/ Moved(r) PROVE RowsLinked'
  BY <1>3 DEF Returned, Moved, RowsLinked, HasParent, Rows
<1>4. ASSUME NEW k \in Ids, NEW kind \in Kinds, NEW p \in Parents, Grown(k, kind, p) PROVE RowsLinked'
  <2>1. node' = [node EXCEPT ![k] = NewRow(kind, p)] /\ k \notin Known /\ HasParent(p)
    BY <1>4 DEF Grown, SetRows
  <2>2. Rows' = Rows \cup {k} /\ (\A n \in Ids : n # k => node'[n] = node[n]) /\ node'[k].parent = p
    BY <2>1, LeafRows DEF NewRow
  <2> QED BY <2>1, <2>2 DEF RowsLinked, HasParent, Rows
<1> QED BY <1>1, <1>2, <1>3, <1>4

\* What a copy has made stays whole when rows go, when a row is put or moved
\* elsewhere, and when it puts one more into a folder it has made.
Still == Rows' \subseteq Rows /\ \A n \in Rows' : node'[n].parent = node[n].parent

LEMMA WholeStill ==
    ASSUME Still, NEW M
    PROVE  (Closed(M) => Closed(M)') /\ \A top : Hangs(M, top) => Hangs(M, top)'
BY DEF Still, Closed, Hangs

LEMMA WholeElsewhere ==
    ASSUME NEW k \in Ids, NEW p, NEW M, k \notin M, p \notin M, Rows' \subseteq Rows \cup {k},
           node'[k].parent = p, \A n \in Rows' : n # k => node'[n].parent = node[n].parent
    PROVE  (Closed(M) => Closed(M)') /\ \A top : Hangs(M, top) => Hangs(M, top)'
<1>1. ASSUME Closed(M) PROVE Closed(M)'
  BY <1>1 DEF Closed
<1>2. ASSUME NEW top, Hangs(M, top) PROVE Hangs(M, top)'
  <2>1. M \cap Rows' \subseteq M \cap Rows /\ \A n \in M \cap Rows' : node'[n].parent = node[n].parent
    OBVIOUS
  <2> QED BY <1>2, <2>1 DEF Hangs
<1> QED BY <1>1, <1>2

LEMMA WholeGrows ==
    ASSUME NEW k \in Ids, NEW p, NEW M, k \notin M, M = {} \/ p \in M, p # k, Rows' = Rows \cup {k}, k \notin Rows,
           node'[k].parent = p, \A n \in Rows : node'[n].parent = node[n].parent /\ node[n].parent # k,
           Closed(M)
    PROVE  /\ Closed(M \cup {k})'
           /\ M = {} => Hangs(M \cup {k}, k)'
           /\ \A top : M # {} /\ Hangs(M, top) => Hangs(M \cup {k}, top)'
<1>1. Closed(M \cup {k})'
  BY DEF Closed
<1>2. ASSUME M = {} PROVE Hangs(M \cup {k}, k)'
  BY <1>2 DEF Hangs
<1>3. ASSUME NEW top, M # {}, Hangs(M, top) PROVE Hangs(M \cup {k}, top)'
  <2> SUFFICES ASSUME NEW C \in SUBSET ((M \cup {k}) \cap Rows'), C # {}, top \notin C
               PROVE  \E m \in C : node'[m].parent \in (M \cup {k}) \ C
    BY DEF Hangs
  <2> DEFINE D == C \ {k}
  <2>1. D \in SUBSET (M \cap Rows)
    OBVIOUS
  <2>2. CASE D = {}
    <3>1. C = {k}
      BY <2>2
    <3> QED BY <1>3, <3>1
  <2>3. CASE D # {}
    <3>1. PICK m \in D : node[m].parent \in M \ D
      BY <1>3, <2>1, <2>3 DEF Hangs
    <3>2. m \in C /\ m \in Rows /\ node'[m].parent = node[m].parent /\ node[m].parent # k
      BY <2>1, <3>1
    <3> QED BY <3>1, <3>2
  <2> QED BY <2>2, <2>3
<1> QED BY <1>1, <1>2, <1>3

Follows(todo, later) ==
    /\ DOMAIN later \subseteq DOMAIN todo \/ \E j \in DOMAIN todo : todo[j].kind = "made"
    /\ \A i \in DOMAIN later : \E j \in DOMAIN todo :
         /\ later[i].levels = todo[j].levels /\ later[i].to = todo[j].to
         /\ later[i].kind = "made" => todo[j].kind = "made"

LEMMA WholeFollows ==
    ASSUME NEW q, NEW s, Whole(q), s.made = q.made, Follows(q.todo, s.todo),
           Closed(q.made) => Closed(q.made)', \A top : Hangs(q.made, top) => Hangs(q.made, top)'
    PROVE  Whole(s)'
<1>1. Closed(s.made)'
  BY DEF Whole
<1>2. s.made = {} => \A i, j \in DOMAIN s.todo : i = j /\ s.todo[i].kind # "made"
  BY DEF Whole, Follows
<1>3. ASSUME s.made # {}
      PROVE  \E top \in s.made : Hangs(s.made, top)' /\ AllBelow(s.todo, top, s.made)
  <2>1. PICK top \in q.made : Hangs(q.made, top) /\ AllBelow(q.todo, top, q.made)
    BY <1>3 DEF Whole
  <2>2. AllBelow(s.todo, top, q.made)
    BY <2>1 DEF Follows, AllBelow
  <2> QED BY <2>1, <2>2
<1> QED BY <1>1, <1>2, <1>3 DEF Whole, AllBelow

LEMMA UndoneStill ==
    ASSUME NEW q, Undone(q), Rows' \subseteq Rows \/ q.made \cap Rows' \subseteq q.made \cap Rows,
           Closed(q.made) => Closed(q.made)', \A top : Hangs(q.made, top) => Hangs(q.made, top)'
    PROVE  Undone(q)'
BY DEF Undone

\* A commit that does not touch what a copy has made, and what the copy is told.
LEMMA Spared ==
    ASSUME NEW rs \in SUBSET Requests, NEW n, NEW p, NEW s \in Meddle(rs, n, p), s.op \in {"copy", "undo"}, ~s.crossed
    PROVE  s \in rs /\ n \notin s.made /\ p \notin s.made
<1>1. PICK q \in rs : s = IF q.op \in {"copy", "undo"} /\ {n, p} \cap q.made # {}
                           THEN [q EXCEPT !.crossed = TRUE] ELSE q
  BY DEF Meddle
<1>2. CASE q.op \in {"copy", "undo"} /\ {n, p} \cap q.made # {}
  <2>1. q \in CopyReq \cup UndoReq
    BY <1>2, RequestFields
  <2> QED BY <1>1, <1>2, <2>1 DEF CopyReq, UndoReq
<1>3. CASE ~(q.op \in {"copy", "undo"} /\ {n, p} \cap q.made # {})
  BY <1>1, <1>3
<1> QED BY <1>2, <1>3

LEMMA NotTold ==
    ASSUME NEW rs \in SUBSET Requests, NEW ops \in SUBSET {"move", "restore"}, NEW s \in Crossing(rs, ops),
           s.op \in {"copy", "undo"}
    PROVE  s \in rs
<1>1. PICK q \in rs : s = IF q.op \in ops THEN [q EXCEPT !.crossed = TRUE] ELSE q
  BY DEF Crossing
<1>2. CASE q.op \in ops
  <2>1. q \in MoveReq \cup RestoreReq
    BY <1>2, RequestFields
  <2> QED BY <1>1, <1>2, <2>1 DEF MoveReq, RestoreReq
<1> QED BY <1>1, <1>2

\* The copies are as they were, or have their first task changed, or begin, or
\* what they have made is settled otherwise.
LEMMA CopiesStill ==
    ASSUME CopiesWhole, Still,
           \A s \in reqs' : s.op = "copy" /\ ~s.crossed =>
              \/ s \in reqs
              \/ \E q \in reqs : q.op = "copy" /\ ~q.crossed /\ s.made = q.made /\ Follows(q.todo, s.todo)
              \/ s.made = {} /\ \A i, j \in DOMAIN s.todo : i = j /\ s.todo[i].kind # "made",
           \A s \in reqs' : s.op = "undo" /\ ~s.crossed => s \in reqs \/ Undone(s)'
    PROVE  CopiesWhole'
<1>0. \A M : (Closed(M) => Closed(M)') /\ \A top : Hangs(M, top) => Hangs(M, top)'
  BY WholeStill
<1>1. ASSUME NEW s \in reqs', s.op = "copy", ~s.crossed PROVE Whole(s)'
  <2>1. ASSUME NEW q \in reqs, q.op = "copy", ~q.crossed, s.made = q.made, Follows(q.todo, s.todo) PROVE Whole(s)'
    <3>1. Whole(q)
      BY <2>1 DEF CopiesWhole
    <3> QED BY <1>0, <2>1, <3>1, WholeFollows
  <2>2. CASE s \in reqs
    <3>1. Follows(s.todo, s.todo)
      BY DEF Follows
    <3> QED BY <1>1, <2>1, <2>2, <3>1
  <2>3. CASE s.made = {} /\ \A i, j \in DOMAIN s.todo : i = j /\ s.todo[i].kind # "made"
    BY <2>3 DEF Whole, Closed
  <2> QED BY <1>1, <2>1, <2>2, <2>3
<1>2. ASSUME NEW s \in reqs', s.op = "undo", ~s.crossed PROVE Undone(s)'
  <2>1. CASE s \in reqs
    <3>1. Undone(s) /\ Rows' \subseteq Rows
      BY <1>2, <2>1 DEF CopiesWhole, Still
    <3> QED BY <1>0, <3>1, UndoneStill
  <2> QED BY <1>2, <2>1
<1> QED BY <1>1, <1>2 DEF CopiesWhole

LEMMA RequestsKeepCopies ==
    ASSUME CoreInv, CopiesWhole, NewRequest
    PROVE  CopiesWhole'
<1>1. CASE createFolder \/ uploadFile \/ patchFile \/ copyFile \/ restoreFile \/ putConfig
  <2>1. node' = node
    BY <1>1 DEF createFolder, uploadFile, patchFile, copyFile, restoreFile, putConfig,
                CreateFolder, Upload, Move, Copy, Restore, PutConfig
  <2>2. \A s \in reqs' : s.op \in {"copy", "undo"} => s \in reqs
    BY <1>1 DEF createFolder, uploadFile, patchFile, copyFile, restoreFile, putConfig,
                CreateFolder, Upload, Move, Copy, Restore, PutConfig, Open
  <2>3. Still
    BY <2>1, RowsStay DEF Still
  <2> QED BY <2>2, <2>3, CopiesStill
<1>2. CASE deleteFile \/ emptyTrash
  <2>1. Thinned
    BY <1>2, TrashThins, RemovingThins DEF deleteFile, emptyTrash
  <2>2. reqs' = reqs
    BY <1>2 DEF deleteFile, emptyTrash, Trash, DeletePermanent, EmptyTrash
  <2>3. Still
    BY <2>1 DEF Still, Thinned
  <2> QED BY <2>2, <2>3, CopiesStill
<1> QED BY <1>1, <1>2 DEF NewRequest

\* The steps of a request that put no row anywhere.
LEMMA EndsKeepCopies ==
    ASSUME CoreInv, CopiesWhole, NEW r \in reqs,
           \/ UploadRejected(r) \/ IsDescendant(r) \/ CopyDone(r) \/ RestoreRows(r) \/ SetConfig(r)
           \/ CreateNode(r) /\ ~HasParent(r.to)
           \/ UpdateNode(r) /\ ~(r.id \in Live /\ HasParent(r.to))
    PROVE  CopiesWhole'
<1>0. reqs \subseteq Requests /\ r \in Requests
  BY DEF CoreInv, DriveTypeOK
<1>1. CASE UploadRejected(r) \/ CopyDone(r) \/ SetConfig(r)
           \/ (CreateNode(r) /\ ~HasParent(r.to)) \/ (UpdateNode(r) /\ ~(r.id \in Live /\ HasParent(r.to)))
  <2>1. node' = node /\ reqs' = reqs \ {r}
    BY <1>1 DEF UploadRejected, CopyDone, SetConfig, CreateNode, UpdateNode, Close
  <2>2. Still
    BY <2>1, RowsStay DEF Still
  <2> QED BY <2>1, <2>2, CopiesStill
<1>2. CASE IsDescendant(r)
  <2>1. node' = node /\ r.op \in {"move", "copywalk"}
        /\ (reqs' = reqs \ {r} \/ Become(r, [r EXCEPT !.cur = IF @ \in Rows THEN node[@].parent ELSE Root]))
    BY <1>2 DEF IsDescendant, Close
  <2>2. r \in MoveReq \cup WalkReq
    BY <1>0, <2>1, RequestFields
  <2>3. [r EXCEPT !.cur = IF @ \in Rows THEN node[@].parent ELSE Root].op = r.op
    BY <2>2 DEF MoveReq, WalkReq
  <2>4. \A s \in reqs' : s.op \in {"copy", "undo"} => s \in reqs
    BY <2>1, <2>3 DEF Become
  <2>5. Still
    BY <2>1, RowsStay DEF Still
  <2> QED BY <2>4, <2>5, CopiesStill
<1>4. CASE RestoreRows(r)
  <2>1. Returned(r)
    BY <1>4, RestoreReturns
  <2>2. \A s \in reqs' : s.op \in {"copy", "undo"} => s \in reqs
    <3>1. reqs' = reqs \ {r} \/ reqs' = Crossing(reqs \ {r}, {"restore"})
      BY <1>4 DEF RestoreRows
    <3>2. reqs \ {r} \in SUBSET Requests
      BY <1>0
    <3> QED BY <3>1, <3>2, NotTold
  <2>3. Still
    BY <2>1 DEF Still, Returned, Rows
  <2> QED BY <2>2, <2>3, CopiesStill
<1> QED BY <1>1, <1>2, <1>4

\* Below the folders it has made there is nothing else, and all of it hangs below
\* the first one.
LEMMA BelowClosed ==
    ASSUME NEW M, Closed(M), NEW tops, tops \subseteq M
    PROVE  Below(tops) \subseteq M
<1>1. Rows \in SUBSET Ids
  BY DEF Rows
<1>2. ASSUME NEW n \in M PROVE Subtree(Rows, n) \subseteq M
  <2>1. \A c \in Rows : node[c].parent \in M => c \in M
    BY DEF Closed
  <2> HIDE DEF Closed
  <2> QED BY <1>1, <1>2, <2>1, TreeFacts, SubtreeIsTree
<1> QED BY <1>2 DEF Below

LEMMA BelowTop ==
    ASSUME CoreInv, RowsLinked, NEW M \in SUBSET Ids, NEW top, Hangs(M, top)
    PROVE  M \cap Rows \subseteq Below({top})
<1> DEFINE gone == Below({top})
           C == (M \cap Rows) \ gone
<1>1. SUFFICES ASSUME C # {} PROVE FALSE
  OBVIOUS
<1>2. {top} \cap Rows \subseteq gone /\ \A c \in Rows : node[c].parent \in gone => c \in gone
  BY BelowFacts
<1>3. C \in SUBSET (M \cap Rows) /\ top \notin C
  BY <1>2
<1>4. PICK m \in C : node[m].parent \in M \ C
  <2> HIDE DEF C
  <2> QED BY <1>1, <1>3 DEF Hangs
<1>5. node[m].parent \in Rows
  <2>1. node[m].parent \in Ids /\ m \in Rows
    BY <1>4
  <2> QED BY <2>1 DEF RowsLinked, HasParent, Ids, Root
<1>6. node[m].parent \in gone /\ m \in Rows /\ m \notin gone
  BY <1>4, <1>5
<1> QED BY <1>2, <1>6

\* What goes with a folder of a copy that is undone is what the copy has made.
LEMMA UndoTakesTheCopy ==
    ASSUME CoreInv, CopiesWhole, NEW r \in reqs, UndoCopy(r), ~r.crossed
    PROVE  Rows \ Rows' \subseteq r.made
<1>0. r \in Requests /\ RefsKnown(r) /\ r.op = "undo" /\ Closed(r.made)
  BY DEF CopiesWhole, CoreInv, DriveTypeOK, IdsKnown, UndoCopy, Undone
<1>1. PICK n \in r.levels : Drop(Below({n}), Below({n}) \cap Files) \/ node' = node
  BY <1>0, UndoSteps
<1>2. CASE node' = node
  BY <1>2, RowsStay
<1>3. CASE Drop(Below({n}), Below({n}) \cap Files)
  <2> DEFINE gone == Below({n})
  <2>1. node' = [m \in Ids |-> IF m \in gone THEN Absent ELSE node[m]]
    BY <1>3 DEF Drop, SetRows
  <2>2. gone \subseteq r.made
    BY <1>0, BelowClosed DEF RefsKnown
  <2> HIDE DEF gone
  <2> QED BY <2>1, <2>2 DEF Rows, Absent
<1> QED BY <1>1, <1>2, <1>3

\* The outermost folder that is left is the one the copy began with, and when it
\* goes everything goes.
LEMMA UndoStaysDone ==
    ASSUME CoreInv, RowsLinked, CopiesWhole, NEW r \in reqs, UndoCopy(r)
    PROVE  CopiesWhole'
<1>0. r \in Requests /\ RefsKnown(r) /\ r.op = "undo" /\ Ids \subseteq Nat
  BY DriveAssumption DEF CoreInv, DriveTypeOK, IdsKnown, UndoCopy, Ids
<1>1. PICK n \in r.levels, s \in UndoReq :
        /\ reqs' = (reqs \ {r}) \cup {s} /\ s.op = "undo"
        /\ s.made = r.made /\ s.crossed = r.crossed /\ s.levels = r.levels \ {n}
        /\ \A m \in r.levels : m <= n
        /\ \/ Drop(Below({n}), Below({n}) \cap Files) /\ s.kept = r.kept
           \/ UNCHANGED <<node, disk, stray>> /\ s.kept = (r.levels = {n})
  BY <1>0, UndoSteps
<1>2. Still
  <2>1. CASE UNCHANGED <<node, disk, stray>>
    BY <2>1, RowsStay DEF Still
  <2>2. CASE ~UNCHANGED <<node, disk, stray>>
    <3>1. Thinned
      BY <2>2, RemovingThins
    <3> QED BY <3>1 DEF Still, Thinned
  <2> QED BY <2>1, <2>2
<1>3. ASSUME ~s.crossed PROVE Undone(s)'
  <2>1. Undone(r)
    BY <1>0, <1>1, <1>3 DEF CopiesWhole
  <2>2. PICK top \in r.levels : Hangs(r.made, top) /\ \A l \in r.levels : top <= l
    BY <1>1, <2>1 DEF Undone
  <2>3. Closed(s.made)' /\ Hangs(s.made, top)'
    BY <1>1, <1>2, <2>1, <2>2, WholeStill DEF Undone
  <2>4. r.made \in SUBSET Ids /\ r.levels \subseteq r.made
    BY <1>0, RequestFields DEF RefsKnown, UndoReq
  <2>5. CASE r.levels = {n}
    <3>1. n = top /\ s.levels = {}
      BY <1>1, <2>2, <2>5
    <3>2. CASE Drop(Below({n}), Below({n}) \cap Files)
      <4> DEFINE gone == Below({n})
      <4>1. node' = [m \in Ids |-> IF m \in gone THEN Absent ELSE node[m]]
        BY <3>2 DEF Drop, SetRows
      <4>2. r.made \cap Rows \subseteq gone
        BY <2>2, <2>4, <3>1, BelowTop
      <4> HIDE DEF gone
      <4>3. r.made \cap Rows' = {}
        BY <2>4, <4>1, <4>2 DEF Rows, Absent
      <4> QED BY <1>1, <2>3, <3>1, <4>3 DEF Undone
    <3>3. CASE s.kept = (r.levels = {n})
      BY <2>3, <2>5, <3>1, <3>3 DEF Undone
    <3> QED BY <1>1, <3>2, <3>3
  <2>6. CASE r.levels # {n}
    <3>1. top \in s.levels /\ \A l \in s.levels : top <= l
      <4>1. PICK m \in r.levels : m # n
        BY <2>6
      <4>2. m \in Nat /\ n \in Nat /\ top \in Nat /\ top <= m /\ m <= n
        BY <1>0, <1>1, <2>2, <2>4
      <4>3. top # n
        BY <4>1, <4>2
      <4> QED BY <1>1, <2>2, <4>3
    <3> QED BY <2>3, <3>1 DEF Undone
  <2> QED BY <2>5, <2>6
<1>4. \A x \in reqs' : x.op = "copy" => x \in reqs
  BY <1>1
<1>5. \A x \in reqs' : x.op = "undo" /\ ~x.crossed => x \in reqs \/ Undone(x)'
  BY <1>1, <1>3
<1> QED BY <1>2, <1>4, <1>5, CopiesStill

\* A copy begins with one task, a file's task has its first half done, a folder's
\* gives way to those of its children, or the copy fails and is to be undone.
LEMMA TasksKeepCopies ==
    ASSUME CoreInv, CopiesWhole, NEW r \in reqs,
           EnsureCopyQuota(r) \/ CopyBlob(r) \/ CopyChildren(r) \/ CopyFails(r)
    PROVE  CopiesWhole'
<1>0. reqs \subseteq Requests /\ r \in Requests
  BY DEF CoreInv, DriveTypeOK
<1>1. node' = node
  BY DEF EnsureCopyQuota, CopyBlob, CopyChildren, CopyFails
<1>2. Still
  BY <1>1, RowsStay DEF Still
<1>3. CASE EnsureCopyQuota(r)
  <2> DEFINE t == [src |-> r.id, kind |-> r.kind, to |-> r.to, levels |-> {}]
             x == [op |-> "copy", made |-> {}, crossed |-> FALSE, todo |-> <<t>>]
  <2>1. reqs' = reqs \ {r} \/ reqs' = (reqs \ {r}) \cup {x}
    BY <1>3 DEF EnsureCopyQuota, Close, Become
  <2>k. t.kind # "made"
    BY <1>0, <1>3, RequestFields DEF EnsureCopyQuota, WalkReq, Kinds
  <2>2. x.made = {} /\ x.op = "copy" /\ \A i, j \in DOMAIN x.todo : i = j /\ x.todo[i].kind # "made"
    <3> HIDE DEF t
    <3> QED BY <2>k
  <2> HIDE DEF x
  <2>3. \A s \in reqs' : \/ s \in reqs
                         \/ /\ s.op = "copy" /\ s.made = {}
                            /\ \A i, j \in DOMAIN s.todo : i = j /\ s.todo[i].kind # "made"
    BY <2>1, <2>2
  <2> QED BY <1>2, <2>3, CopiesStill
<1>4. ASSUME r.op = "copy", r.todo # <<>>, NEW v \in Tasks, Become(r, [r EXCEPT !.todo = v]), Follows(r.todo, v)
      PROVE  CopiesWhole'
  <2> DEFINE x == [r EXCEPT !.todo = v]
  <2>1. reqs' = (reqs \ {r}) \cup {x}
    BY <1>4 DEF Become
  <2>2. x.op = "copy" /\ x.made = r.made /\ x.crossed = r.crossed /\ x.todo = v
    <3>1. r \in CopyReq
      BY <1>0, <1>4, RequestFields
    <3> QED BY <3>1 DEF CopyReq
  <2> HIDE DEF x
  <2>3. \A s \in reqs' : s \in reqs \/ (s.op = "copy" /\ s.made = r.made /\ s.todo = v /\ (~s.crossed => ~r.crossed))
    BY <2>1, <2>2
  <2> QED BY <1>2, <1>4, <2>3, CopiesStill
<1>5. CASE CopyBlob(r)
  <2>1. r.op = "copy" /\ r.todo # <<>>
    BY <1>5 DEF CopyBlob
  <2> DEFINE t == Head(r.todo)
             u == [t EXCEPT !.kind = "saved", !.src = next]
             w == Tail(r.todo)
             v == <<u>> \o w
  <2>2. /\ r \in CopyReq /\ t \in Task /\ t = r.todo[1] /\ 1 \in DOMAIN r.todo
        /\ r.todo \in Seq(Task) /\ w \in Tasks
        /\ \A i \in DOMAIN w : i + 1 \in DOMAIN r.todo /\ w[i] = r.todo[i + 1]
    BY <1>0, <2>1, CopyTasks
  <2>3. Become(r, [r EXCEPT !.todo = v])
    BY <1>5 DEF CopyBlob
  <2>n. next \in Ids
    BY <1>5, DriveAssumption DEF CopyBlob, CoreInv, DriveTypeOK, Ranges, Ids
  <2>4. u \in Task /\ u.levels = r.todo[1].levels /\ u.to = r.todo[1].to /\ u.kind = "saved"
    <3> HIDE DEF t
    <3> QED BY <2>2, <2>n DEF Task
  <2>5. v \in Tasks
    BY <1>0, <2>1, <2>4, CopyTasks
  <2>6. Follows(r.todo, v)
    <3>1. w \in Seq(Task) /\ Len(r.todo) \in Nat \ {0} /\ Len(w) = Len(r.todo) - 1
          /\ DOMAIN r.todo = 1 .. Len(r.todo) /\ DOMAIN w = 1 .. Len(w)
      BY <2>1, <2>2 DEF Tasks
    <3> HIDE DEF u, w
    <3>3. DOMAIN v = 1 .. Len(w) + 1 /\ v[1] = u
          /\ \A i \in 2 .. Len(w) + 1 : v[i] = w[i - 1] /\ i - 1 \in DOMAIN w
      BY <3>1
    <3>4. DOMAIN v \subseteq DOMAIN r.todo
      BY <3>1, <3>3
    <3> HIDE DEF v
    <3>5. ASSUME NEW i \in DOMAIN v
          PROVE  \E j \in DOMAIN r.todo : /\ v[i].levels = r.todo[j].levels /\ v[i].to = r.todo[j].to
                                          /\ v[i].kind = "made" => r.todo[j].kind = "made"
      <4>1. CASE i = 1
        BY <2>2, <2>4, <3>3, <4>1
      <4>2. CASE i # 1
        <5>1. i \in 2 .. Len(w) + 1
          BY <3>1, <3>3, <3>5, <4>2
        <5>2. v[i] = w[i - 1] /\ i - 1 \in DOMAIN w
          BY <3>3, <5>1
        <5>3. v[i] = r.todo[i - 1 + 1] /\ i - 1 + 1 \in DOMAIN r.todo
          BY <2>2, <5>2
        <5> QED BY <5>3
      <4> QED BY <4>1, <4>2
    <3> QED BY <3>4, <3>5 DEF Follows
  <2> HIDE DEF v
  <2> QED BY <1>4, <2>1, <2>3, <2>5, <2>6
<1>6. CASE CopyChildren(r)
  <2>1. r.op = "copy" /\ r.todo # <<>> /\ Head(r.todo).kind = "made"
    BY <1>6 DEF CopyChildren
  <2>2. PICK m \in Nat : \E order \in [1 .. m -> Ids \X Kinds] : Become(r, [r EXCEPT !.todo = ChildTasks(r, order)])
    BY <1>6, ListedChildren
  <2>3. PICK order \in [1 .. m -> Ids \X Kinds] : Become(r, [r EXCEPT !.todo = ChildTasks(r, order)])
    BY <2>2
  <2>v. PICK v : v = ChildTasks(r, order)
    OBVIOUS
  <2>4. v \in Tasks /\ \A i \in DOMAIN v : /\ v[i].kind \in Kinds
                                           /\ \E j \in DOMAIN r.todo : v[i].to = r.todo[j].to /\ v[i].levels = r.todo[j].levels
    BY <1>0, <2>1, <2>v, CopyChildTasks
  <2>5. 1 \in DOMAIN r.todo /\ r.todo[1].kind = "made"
    BY <1>0, <2>1, CopyTasks
  <2>6. Follows(r.todo, v)
    BY <2>4, <2>5 DEF Follows, Kinds
  <2> QED BY <1>4, <2>1, <2>3, <2>v, <2>4, <2>6
<1>7. CASE CopyFails(r)
  <2>1. r.op = "copy" /\ r.todo # <<>>
    BY <1>7 DEF CopyFails
  <2> DEFINE t == Head(r.todo)
             x == [op |-> "undo", levels |-> t.levels, made |-> r.made, crossed |-> r.crossed, kept |-> FALSE]
  <2>2. reqs' = (reqs \ {r}) \cup {x}
    BY <1>7 DEF CopyFails, Become
  <2>3. 1 \in DOMAIN r.todo /\ t = r.todo[1] /\ RefsKnown(r)
    BY <1>0, <2>1, CopyTasks DEF CoreInv, IdsKnown
  <2>4. x.op = "undo" /\ x.made = r.made /\ x.levels = t.levels /\ x.crossed = r.crossed
    OBVIOUS
  <2> HIDE DEF x
  <2>5. ASSUME ~x.crossed PROVE Undone(x)'
    <3>1. Whole(r)
      BY <2>1, <2>4, <2>5 DEF CopiesWhole
    <3>2. /\ Closed(r.made)' /\ \A top : Hangs(r.made, top) => Hangs(r.made, top)'
      BY <1>2, <3>1, WholeStill DEF Whole
    <3>3. t.levels \subseteq r.made
      BY <2>1, <2>3 DEF RefsKnown
    <3>4. CASE r.made = {}
      BY <2>4, <3>2, <3>3, <3>4 DEF Undone
    <3>5. CASE r.made # {}
      <4>1. PICK top \in r.made : Hangs(r.made, top) /\ AllBelow(r.todo, top, r.made)
        BY <3>1, <3>5 DEF Whole
      <4>2. top \in t.levels /\ \A l \in t.levels : top <= l
        BY <2>3, <4>1 DEF AllBelow
      <4> QED BY <2>4, <3>2, <4>1, <4>2 DEF Undone
    <3> QED BY <3>4, <3>5
  <2>6. (\A s \in reqs' : s.op = "copy" => s \in reqs)
        /\ \A s \in reqs' : s.op = "undo" /\ ~s.crossed => s \in reqs \/ Undone(s)'
    BY <2>2, <2>4, <2>5
  <2> QED BY <1>2, <2>6, CopiesStill
<1> QED BY <1>3, <1>5, <1>6, <1>7

\* A row is put into a folder or moved there: the copies it belongs to, or goes
\* into, are told.
LEMMA OthersKeepWhole ==
    ASSUME CoreInv, CopiesWhole, NEW k \in Ids, NEW p, NEW s \in reqs, ~s.crossed,
           k \notin s.made, p \notin s.made, Rows' \subseteq Rows \cup {k}, node'[k].parent = p,
           \A n \in Rows' : n # k => node'[n].parent = node[n].parent
    PROVE  (s.op = "copy" => Whole(s)') /\ (s.op = "undo" => Undone(s)')
<1>1. (Closed(s.made) => Closed(s.made)') /\ \A top : Hangs(s.made, top) => Hangs(s.made, top)'
  BY WholeElsewhere
<1>2. ASSUME s.op = "copy" PROVE Whole(s)'
  <2>1. Whole(s) /\ Follows(s.todo, s.todo)
    BY <1>2 DEF CopiesWhole, Follows
  <2> QED BY <1>1, <2>1, WholeFollows
<1>3. ASSUME s.op = "undo" PROVE Undone(s)'
  <2>1. Undone(s) /\ s.made \cap Rows' \subseteq s.made \cap Rows
    BY <1>3 DEF CopiesWhole
  <2> QED BY <1>1, <2>1, UndoneStill
<1> QED BY <1>2, <1>3

LEMMA CreatesKeepCopies ==
    ASSUME CoreInv, CopiesWhole, NEW r \in reqs,
           (CreateNode(r) /\ HasParent(r.to)) \/ CreateNodeWithQuota(r)
    PROVE  CopiesWhole'
<1>0. /\ reqs \subseteq Requests /\ r \in Requests /\ reqs \ {r} \in SUBSET Requests
      /\ node \in [Ids -> NodeRow] /\ next \in Nat \ {0} /\ N \in Nat
  BY DriveAssumption DEF CoreInv, DriveTypeOK, Ranges
<1>1. PICK k \in Ids, kind \in Kinds :
        /\ k \notin Known /\ r.to \in Parents /\ node' = [node EXCEPT ![k] = NewRow(kind, r.to)]
        /\ \/ reqs' = Meddle(reqs \ {r}, k, r.to)
           \/ reqs' = Crossing(Meddle(reqs \ {r}, k, r.to), {"restore"})
  <2>1. CASE CreateNode(r) /\ HasParent(r.to)
    <3>1. next \in Ids /\ node' = [node EXCEPT ![next] = NewRow("folder", r.to)] /\ r.op = "mkdir"
          /\ reqs' = Meddle(reqs \ {r}, next, r.to)
      BY <1>0, <2>1 DEF CreateNode, SetRows, Ids
    <3>2. next \notin Known /\ "folder" \in Kinds /\ r.to \in Parents
      BY <1>0, <3>1, RequestFields DEF Known, Kinds, MkdirReq
    <3> QED BY <3>1, <3>2
  <2>2. CASE CreateNodeWithQuota(r)
    <3>1. node' = [node EXCEPT ![r.id] = NewRow("file", r.to)] /\ r.op = "upload"
          /\ reqs' = Crossing(Meddle(reqs \ {r}, r.id, r.to), {"restore"})
      BY <2>2 DEF CreateNodeWithQuota, SetRows
    <3>2. r.id \in Ids /\ r.to \in Parents /\ "file" \in Kinds
      BY <1>0, <3>1, RequestFields DEF UploadReq, Kinds
    <3>3. r.id \notin Known
      BY <3>1 DEF Known, Saved
    <3> QED BY <3>1, <3>2, <3>3
  <2> QED BY <2>1, <2>2
<1>2. Rows' = Rows \cup {k} /\ (\A n \in Ids : n # k => node'[n] = node[n]) /\ node'[k].parent = r.to
  BY <1>1, LeafRows DEF NewRow
<1> SUFFICES ASSUME NEW s \in reqs', s.op \in {"copy", "undo"}, ~s.crossed
             PROVE  (s.op = "copy" => Whole(s)') /\ (s.op = "undo" => Undone(s)')
  BY DEF CopiesWhole
<1>3. s \in reqs /\ k \notin s.made /\ r.to \notin s.made
  <2>1. s \in Meddle(reqs \ {r}, k, r.to)
    <3>1. Told(reqs \ {r}, Meddle(reqs \ {r}, k, r.to))
      BY <1>0, ToldBy
    <3>2. Meddle(reqs \ {r}, k, r.to) \in SUBSET Requests
      BY <1>0, <3>1, ToldRequests
    <3> QED BY <1>1, <3>2, NotTold
  <2> QED BY <1>0, <2>1, Spared
<1> QED BY <1>2, <1>3, OthersKeepWhole DEF Rows

LEMMA MovesKeepCopies ==
    ASSUME CoreInv, CopiesWhole, NEW r \in reqs, UpdateNode(r), r.id \in Live, HasParent(r.to)
    PROVE  CopiesWhole'
<1>0. reqs \subseteq Requests /\ r \in Requests /\ reqs \ {r} \in SUBSET Requests
  BY DEF CoreInv, DriveTypeOK
<1> DEFINE ms == Meddle(reqs \ {r}, r.id, r.to)
           rs == Meddle(ms, node[r.id].parent, Root)
<1>1. reqs' = Crossing(rs, {"move", "restore"})
  BY DEF UpdateNode
<1>2. Moved(r)
  BY UpdateMoves
<1>3. ms \in SUBSET Requests
  <2>1. Told(reqs \ {r}, ms)
    BY <1>0, ToldBy
  <2> HIDE DEF ms
  <2> QED BY <1>0, <2>1, ToldRequests
<1>4. rs \in SUBSET Requests
  <2> HIDE DEF ms
  <2>1. Told(ms, rs)
    BY <1>3, ToldBy
  <2> HIDE DEF rs
  <2> QED BY <1>3, <2>1, ToldRequests
<1> SUFFICES ASSUME NEW s \in reqs', s.op \in {"copy", "undo"}, ~s.crossed
             PROVE  (s.op = "copy" => Whole(s)') /\ (s.op = "undo" => Undone(s)')
  BY DEF CopiesWhole
<1>5. s \in rs
  <2> HIDE DEF rs
  <2> QED BY <1>1, <1>4, NotTold
<1>6. s \in ms
  <2> HIDE DEF ms
  <2> QED BY <1>3, <1>5, Spared
<1>7. s \in reqs /\ r.id \notin s.made /\ r.to \notin s.made
  BY <1>0, <1>6, Spared
<1>8. r.id \in Ids /\ Rows' = Rows /\ \A n \in Ids : node'[n].parent = IF n = r.id THEN r.to ELSE node[n].parent
  BY <1>2 DEF Moved, Live
<1> QED BY <1>7, <1>8, OthersKeepWhole DEF Rows

LEMMA CopyKeepsWhole ==
    ASSUME CoreInv, CopiesWhole, NEW r \in reqs, r.op = "copy", ~r.crossed, r.todo # <<>>,
           NEW k \in Ids \ Known, NEW kind \in Kinds, NEW p \in Parents, p = Head(r.todo).to, HasParent(p),
           node' = [node EXCEPT ![k] = NewRow(kind, p)], NEW s, s.made = r.made \cup {k},
           \A i \in DOMAIN s.todo : \/ /\ s.todo[i].to = k /\ s.todo[i].levels = Head(r.todo).levels \cup {k}
                                       /\ k = next
                                    \/ \E j \in DOMAIN r.todo : j # 1 /\ s.todo[i] = r.todo[j]
    PROVE  Whole(s)'
<1> DEFINE M == r.made
<1>1. Whole(r) /\ RefsKnown(r) /\ r \in Requests
  BY DEF CopiesWhole, CoreInv, IdsKnown, DriveTypeOK
<1>2. 1 \in DOMAIN r.todo /\ Head(r.todo) = r.todo[1]
  BY <1>1, CopyTasks
<1>3. Rows' = Rows \cup {k} /\ k \notin Rows /\ node'[k].parent = p
      /\ \A n \in Ids : n # k => node'[n] = node[n] /\ node[n].parent # k
  BY LeafRows DEF NewRow
<1>4. k \notin M /\ p # k /\ (M = {} \/ p \in M) /\ Closed(M)
  <2>1. k \notin M /\ Closed(M)
    BY <1>1 DEF RefsKnown, Whole
  <2>2. p # k
    BY <1>3 DEF HasParent, Ids, Root
  <2>3. M # {} => p \in M
    BY <1>1, <1>2 DEF Whole, AllBelow
  <2> QED BY <2>1, <2>2, <2>3
<1>5. /\ Closed(M \cup {k})' /\ (M = {} => Hangs(M \cup {k}, k)')
      /\ \A top : M # {} /\ Hangs(M, top) => Hangs(M \cup {k}, top)'
  <2>1. \A n \in Rows : node'[n].parent = node[n].parent /\ node[n].parent # k
    BY <1>3 DEF Rows
  <2> HIDE DEF M
  <2> QED BY <1>3, <1>4, <2>1, WholeGrows
<1>6. \E top \in s.made : Hangs(s.made, top)' /\ AllBelow(s.todo, top, s.made)
  <2>1. CASE M = {}
    <3>1. \A j \in DOMAIN r.todo : j = 1
      BY <1>1, <1>2, <2>1 DEF Whole
    <3>2. Head(r.todo).levels = {}
      BY <1>1, <1>2, <2>1 DEF RefsKnown
    <3>3. \A i \in DOMAIN s.todo : s.todo[i].to = k /\ s.todo[i].levels = {k}
      BY <3>1, <3>2
    <3>4. AllBelow(s.todo, k, s.made)
      BY <3>3 DEF AllBelow, Ids
    <3> QED BY <1>5, <2>1, <3>4
  <2>2. CASE M # {}
    <3>1. PICK top \in M : Hangs(M, top) /\ AllBelow(r.todo, top, M)
      BY <1>1, <2>2 DEF Whole
    <3>2. ASSUME NEW i \in DOMAIN s.todo, s.todo[i].to = k, s.todo[i].levels = Head(r.todo).levels \cup {k}, k = next
          PROVE  top \in s.todo[i].levels /\ s.todo[i].to \in s.made /\ \A l \in s.todo[i].levels : top <= l
      <4>1. top \in Head(r.todo).levels /\ \A l \in Head(r.todo).levels : top <= l
        BY <1>2, <3>1 DEF AllBelow
      <4>2. top <= k
        BY <1>1, <3>2 DEF RefsKnown, Known, Ids, CoreInv, DriveTypeOK, Ranges
      <4> QED BY <3>2, <4>1, <4>2
    <3>3. AllBelow(s.todo, top, s.made)
      BY <1>2, <3>1, <3>2 DEF AllBelow
    <3> QED BY <1>5, <2>2, <3>1, <3>3
  <2> QED BY <2>1, <2>2
<1> QED BY <1>5, <1>6 DEF Whole

Grew(r, k, v) == [r EXCEPT !.made = @ \cup {k}, !.todo = v]

LEMMA CopyingKeepsCopies ==
    ASSUME CoreInv, CopiesWhole, NEW r \in reqs,
           CopyFolder(r) \/ CopyFile(r)
    PROVE  CopiesWhole'
<1>0. /\ reqs \subseteq Requests /\ r \in Requests /\ reqs \ {r} \in SUBSET Requests
      /\ node \in [Ids -> NodeRow] /\ next \in Nat \ {0} /\ N \in Nat /\ r.op = "copy" /\ r.todo # <<>>
  <2>1. r.op = "copy" /\ r.todo # <<>>
    BY DEF CopyFolder, CopyFile
  <2> QED BY <2>1, DriveAssumption DEF CoreInv, DriveTypeOK, Ranges
<1> DEFINE t == Head(r.todo)
<1>1. /\ r \in CopyReq /\ t \in Task
      /\ \A i \in DOMAIN Tail(r.todo) : i + 1 \in DOMAIN r.todo /\ Tail(r.todo)[i] = r.todo[i + 1]
  BY <1>0, CopyTasks
<1>2. t.to \in Parents /\ t.src \in Ids
  BY <1>1 DEF Task
<1>3. PICK k \in Ids \ Known, kind \in Kinds, v \in Tasks :
        /\ HasParent(t.to) /\ node' = [node EXCEPT ![k] = NewRow(kind, t.to)]
        /\ \A i \in DOMAIN v : \/ v[i].to = k /\ v[i].levels = t.levels \cup {k} /\ k = next
                               \/ \E j \in DOMAIN r.todo : j # 1 /\ v[i] = r.todo[j]
        /\ \E rs \in {Meddle(reqs \ {r}, k, t.to), Crossing(Meddle(reqs \ {r}, k, t.to), {"restore"})} :
             reqs' = rs \cup {Grew(r, k, v)}
  <2>1. CASE CopyFolder(r)
    <3>0. PICK k \in Ids : k = next
      <4>1. next <= N
        BY <2>1 DEF CopyFolder
      <4> QED BY <1>0, <4>1 DEF Ids
    <3> DEFINE u == [t EXCEPT !.kind = "made", !.to = k, !.levels = @ \cup {k}]
               w == Tail(r.todo)
    <3>1. reqs' = Meddle(reqs \ {r}, k, t.to) \cup {Grew(r, k, <<u>> \o w)}
      BY <2>1, <3>0 DEF CopyFolder, Grew
    <3>2. HasParent(t.to) /\ node' = [node EXCEPT ![k] = NewRow("folder", t.to)]
      BY <2>1, <3>0 DEF CopyFolder, SetRows
    <3>3. u \in Task /\ u.to = k /\ u.levels = t.levels \cup {k}
      BY <1>1 DEF Task, Parents
    <3>4. <<u>> \o w \in Tasks
      BY <1>0, <3>3, CopyTasks
    <3>5. k \notin Known /\ "folder" \in Kinds
      BY <1>0, <3>0 DEF Known, Kinds
    <3>6. w \in Seq(Task)
      BY <1>0, CopyTasks DEF Tasks
    <3>v. PICK v \in Tasks : v = <<u>> \o w
      BY <3>4
    <3>7. ASSUME NEW i \in DOMAIN v
          PROVE  \/ v[i].to = k /\ v[i].levels = t.levels \cup {k} /\ k = next
                 \/ \E j \in DOMAIN r.todo : j # 1 /\ v[i] = r.todo[j]
      <4>0. \A m \in DOMAIN w : m + 1 \in DOMAIN r.todo /\ w[m] = r.todo[m + 1]
        BY <1>1
      <4> HIDE DEF u, w, t
      <4>1. i \in Nat /\ (i = 1 => v[i] = u) /\ (i # 1 => i - 1 \in DOMAIN w /\ v[i] = w[i - 1])
        BY <3>3, <3>6, <3>7, <3>v
      <4>2. CASE i = 1
        BY <3>0, <3>3, <4>1, <4>2
      <4>3. CASE i # 1
        <5>1. i - 1 + 1 \in DOMAIN r.todo /\ v[i] = r.todo[i - 1 + 1] /\ i - 1 + 1 = i
          BY <4>0, <4>1, <4>3
        <5> QED BY <4>3, <5>1
      <4> QED BY <4>2, <4>3
    <3>8. reqs' = Meddle(reqs \ {r}, k, t.to) \cup {Grew(r, k, v)}
      BY <3>1, <3>v
    <3> HIDE DEF t
    <3> QED BY <3>2, <3>5, <3>7, <3>8
  <2>2. CASE CopyFile(r)
    <3>v. PICK k \in Ids, v \in Tasks : k = t.src /\ v = Tail(r.todo)
      BY <1>0, <1>2, CopyTasks
    <3>1. /\ HasParent(t.to) /\ node' = [node EXCEPT ![k] = NewRow("file", t.to)] /\ t.kind = "saved"
          /\ reqs' = Crossing(Meddle(reqs \ {r}, k, t.to), {"restore"}) \cup {Grew(r, k, v)}
      BY <2>2, <3>v DEF CopyFile, SetRows, Grew
    <3>2. k \notin Known /\ k \in Ids /\ "file" \in Kinds
      BY <1>0, <1>2, <3>1, <3>v DEF Known, Saved, Kinds
    <3>3. \A i \in DOMAIN v : \E j \in DOMAIN r.todo : j # 1 /\ v[i] = r.todo[j]
      <4>1. r.todo \in Seq(Task) /\ DOMAIN v \subseteq Nat \ {0}
        <5>1. Tail(r.todo) \in Seq(Task)
          BY <1>0, CopyTasks DEF Tasks
        <5> QED BY <1>0, <3>v, <5>1, CopyTasks
      <4>2. \A i \in DOMAIN v : i + 1 # 1
        BY <4>1
      <4> QED BY <1>1, <3>v, <4>2
    <3> HIDE DEF t
    <3> QED BY <3>1, <3>2, <3>3
  <2> QED BY <2>1, <2>2
<1> DEFINE x == Grew(r, k, v)
           ms == Meddle(reqs \ {r}, k, t.to)
<1>4. x.made = r.made \cup {k} /\ x.todo = v /\ x.crossed = r.crossed /\ x.op = "copy"
  <2> HIDE DEF t
  <2> QED BY <1>1 DEF CopyReq, Grew
<1>5. reqs' = ms \cup {x} \/ reqs' = Crossing(ms, {"restore"}) \cup {x}
  <2> HIDE DEF t, x
  <2> QED BY <1>3 DEF x
<1> HIDE DEF x
<1>6. ms \in SUBSET Requests
  <2>1. Told(reqs \ {r}, ms)
    BY <1>0, ToldBy
  <2> HIDE DEF ms, t
  <2> QED BY <1>0, <2>1, ToldRequests
<1> SUFFICES ASSUME NEW s \in reqs', s.op \in {"copy", "undo"}, ~s.crossed
             PROVE  (s.op = "copy" => Whole(s)') /\ (s.op = "undo" => Undone(s)')
  BY DEF CopiesWhole
<1>7. CASE s = x
  <2>1. s.made = r.made \cup {k} /\ ~r.crossed /\ s.todo = v
    BY <1>4, <1>7
  <2>2. \A i \in DOMAIN s.todo : \/ /\ s.todo[i].to = k /\ s.todo[i].levels = Head(r.todo).levels \cup {k}
                                    /\ k = next
                                 \/ \E j \in DOMAIN r.todo : j # 1 /\ s.todo[i] = r.todo[j]
    BY <1>3, <2>1
  <2>p. PICK p \in Parents : p = Head(r.todo).to
    BY <1>2
  <2>3. HasParent(p) /\ node' = [node EXCEPT ![k] = NewRow(kind, p)]
    BY <1>3, <2>p
  <2>4. Whole(s)'
    BY <1>0, <2>1, <2>2, <2>p, <2>3, CopyKeepsWhole
  <2> QED BY <1>4, <1>7, <2>4
<1>8. CASE s # x
  <2>1. s \in ms
    <3> HIDE DEF ms
    <3> QED BY <1>5, <1>6, <1>8, NotTold
  <2>2. s \in reqs /\ k \notin s.made /\ t.to \notin s.made
    BY <1>0, <2>1, Spared
  <2>3. Rows' = Rows \cup {k} /\ (\A n \in Ids : n # k => node'[n] = node[n]) /\ node'[k].parent = t.to
    <3>p. PICK p \in Parents : p = t.to
      BY <1>2
    <3>0. k \in Ids \ Known /\ kind \in Kinds /\ node' = [node EXCEPT ![k] = NewRow(kind, t.to)]
      <4> HIDE DEF t, ms
      <4> QED BY <1>2, <1>3
    <3>1. k \in Ids \ Known /\ kind \in Kinds /\ node' = [node EXCEPT ![k] = NewRow(kind, p)]
      <4> HIDE DEF t, ms
      <4> QED BY <3>0, <3>p
    <3>2. /\ Rows' = Rows \cup {k} /\ \A n \in Ids : n # k => node'[n] = node[n]
          /\ node'[k] = NewRow(kind, p)
      <4> HIDE DEF t, ms
      <4>1. k \in Ids \ Known /\ kind \in Kinds
        BY <3>1
      <4>2. node' = [node EXCEPT ![k] = NewRow(kind, p)]
        BY <3>1
      <4>3. CoreInv
        BY <1>0
      <4> QED BY <4>1, <4>2, <4>3, LeafRows
    <3>3. NewRow(kind, p).parent = p
      BY DEF NewRow
    <3> HIDE DEF t
    <3> QED BY <3>p, <3>2, <3>3
  <2> HIDE DEF t
  <2> QED BY <1>3, <2>2, <2>3, OthersKeepWhole DEF Rows
<1> QED BY <1>7, <1>8

LEMMA CopiesStep ==
    ASSUME CoreInv, RowsLinked, CopiesWhole, [Next]_vars
    PROVE  CopiesWhole'
<1>1. CASE NewRequest
  BY <1>1, RequestsKeepCopies
<1>2. ASSUME NEW r \in reqs, RequestStep(r) PROVE CopiesWhole'
  BY <1>2, EndsKeepCopies, TasksKeepCopies, CreatesKeepCopies, MovesKeepCopies, CopyingKeepsCopies,
     UndoStaysDone DEF RequestStep
<1>3. CASE Janitor \/ Tick \/ Restart \/ UNCHANGED vars
  <2>1. node' = node /\ reqs' \subseteq reqs
    BY <1>3 DEF Janitor, SweepList, SweepDelete, Tick, Restart, vars
  <2>2. Still
    BY <2>1, RowsStay DEF Still
  <2> QED BY <2>1, <2>2, CopiesStill
<1> QED BY <1>1, <1>2, <1>3 DEF Next

-----------------------------------------------------------------------------
(* The theorems. *)

DriveInv == CoreInv /\ WalksGood /\ HomelessAreStray /\ QuotaInv /\ RowsLinked /\ CopiesWhole

LEMMA DriveInit == Init => DriveInv
<1> SUFFICES ASSUME Init PROVE DriveInv
  OBVIOUS
<1>0. N \in Nat \ {0} /\ DefaultQuota \in Nat
  BY DriveAssumption
<1>1. node = [n \in Ids |-> Absent] /\ next = 1 /\ reqs = {} /\ stray = {}
  BY DEF Init
<1>2. Absent \in NodeRow /\ Absent.st = "absent" /\ Absent.parent = Root
  BY DEF Absent, NodeRow, Kinds, Parents
<1>3. Rows = {} /\ Live = {} /\ Files = {}
  BY <1>1, <1>2 DEF Rows, Live, Files
<1>4. DriveTypeOK
  <2>1. node \in [Ids -> NodeRow] /\ next \in 1 .. N + 1
    BY <1>0, <1>1, <1>2
  <2>2. disk = {} /\ now = 0 /\ stored = DefaultQuota /\ quota = DefaultQuota /\ listed = {} /\ events = 0
        /\ swept = {} /\ knot = FALSE /\ limit = quota /\ surge = FALSE
    BY DEF Init
  <2> QED BY <1>0, <1>1, <2>1, <2>2 DEF DriveTypeOK, Ranges
<1>5. IdsKnown /\ BlobsInv /\ RowKeepsBlob
  BY <1>1, <1>2, <1>3 DEF IdsKnown, BlobsInv, BlobsApart, BlobsUsed, BlobsSaved, RowKeepsBlob, Places
<1>6. WalksGood
  BY <1>1, <1>3 DEF WalksGood, Forest
<1>7. HomelessAreStray
  BY <1>1, <1>2 DEF HomelessAreStray, Homeless
<1>8. QuotaInv
  <2>1. TotalSize = 0
    BY <1>3, FS_EmptySet DEF TotalSize
  <2>2. quota = DefaultQuota /\ limit = quota
    BY DEF Init
  <2> QED BY <1>0, <1>1, <2>1, <2>2 DEF QuotaInv, LimitsKnown, Bounded, UsageHeld
<1>9. RowsLinked /\ CopiesWhole
  BY <1>1, <1>3 DEF RowsLinked, CopiesWhole
<1> QED BY <1>4, <1>5, <1>6, <1>7, <1>8, <1>9 DEF DriveInv, CoreInv

\* Whatever requests, sweeps and restarts overlap: ids and blobs that are named
\* were handed out, each blob in flight is one request's, the folders above a row
\* end at the root, the rows whose folder is not live are those put there, the
\* usage with what a Restore is about to bring back is within the quota, and a
\* copy that is being made or taken back, and that nobody works in, is one piece
\* with nothing else below it, of which its outermost folder is the first.
THEOREM DriveInvariance == Spec => []DriveInv
<1>1. DriveInv /\ [Next]_vars => DriveInv'
  <2> SUFFICES ASSUME DriveInv, [Next]_vars PROVE DriveInv'
    OBVIOUS
  <2>1. CoreInv /\ WalksGood /\ HomelessAreStray /\ QuotaInv /\ RowsLinked /\ CopiesWhole
    BY DEF DriveInv
  <2>2. /\ CoreInv'
        /\ \/ Quiet \/ Thinned \/ \E r \in reqs : Returned(r) \/ Moved(r)
           \/ \E k \in Ids, kind \in Kinds, p \in Parents : Grown(k, kind, p)
    BY <2>1, Shapes
  <2> QED BY <2>1, <2>2, ForestStep, HomelessStep, QuotaStep, LinksStep, CopiesStep DEF DriveInv
<1> QED BY <1>1, DriveInit, PTL DEF Spec

\* The variables have their types, and only the copy a request is working on can
\* be half made.
THEOREM DriveTypeCorrect == Spec => []DriveTypeOK
<1>1. DriveInv => DriveTypeOK
  BY DEF DriveInv, CoreInv
<1> QED BY <1>1, DriveInvariance, PTL

\* A file's row always has its blob, unless the janitor read the rows while the
\* upload or copy that made it was in flight (sweepOrphanBlobs, uploadFile).
THEOREM RowsKeepBlobs == Spec => []RowKeepsBlob
<1>1. DriveInv => RowKeepsBlob
  BY DEF DriveInv, CoreInv
<1> QED BY <1>1, DriveInvariance, PTL

\* Moves that overlap any other request leave the folders a forest, unless one
\* was committed under another's walk (IsDescendant, UpdateNode).
THEOREM FoldersStayAForest == Spec => []NoFolderBelowItself
<1>1. DriveInv => NoFolderBelowItself
  BY ListingsAreComplete DEF DriveInv
<1> QED BY <1>1, DriveInvariance, PTL

\* Opening folders from the top, or restoring what the trash shows, reaches
\* every row but those put below a folder trashed meanwhile (ListNodes).
THEOREM NothingIsUnlisted == Spec => []ListingsComplete
<1>1. DriveInv => ListingsComplete
  BY ListingsAreComplete DEF DriveInv
<1> QED BY <1>1, DriveInvariance, PTL

\* The usage stays within the largest quota there has been, unless it grew under
\* a Restore (CreateNodeWithQuota, RestoreSubtree).
THEOREM QuotaIsHeld == Spec => []QuotaHeld
<1>1. DriveInv => QuotaHeld
  BY DEF DriveInv, QuotaInv, UsageHeld, QuotaHeld, CoreInv, DriveTypeOK, Ranges
<1> QED BY <1>1, DriveInvariance, PTL

\* The undoing of a failed copy takes only rows the copy has made, and when it is
\* through it has taken them all, whatever else ran meanwhile and although the
\* deletion of an inner folder may have failed unnoticed; not when that of the
\* outermost folder failed, or somebody put a row into the copy or took one out
\* (copyTree, DeletePermanent).
THEOREM FailedCopiesAreUndone == Spec => FailedCopyIsUndone
<1>1. ASSUME DriveInv, NEW r \in reqs, r.op = "undo", ~r.crossed
      PROVE  /\ UndoCopy(r) => Rows \ Rows' \subseteq r.made
             /\ CopyDone(r) /\ ~r.kept => Rows \cap r.made = {}
  <2>1. CoreInv /\ CopiesWhole /\ Undone(r)
    BY <1>1 DEF DriveInv, CopiesWhole
  <2>2. CopyDone(r) => r.levels = {}
    BY <1>1 DEF CopyDone
  <2>3. CopyDone(r) /\ ~r.kept => Rows \cap r.made = {}
    BY <2>1, <2>2 DEF Undone
  <2> QED BY <1>1, <2>1, <2>3, UndoTakesTheCopy
<1>2. DriveInv /\ [Next]_vars
        => [\A r \in reqs : r.op = "undo" /\ ~r.crossed =>
              /\ UndoCopy(r) => Rows \ Rows' \subseteq r.made
              /\ CopyDone(r) /\ ~r.kept => Rows \cap r.made = {}]_vars
  BY <1>1
<1> QED BY <1>2, DriveInvariance, PTL DEF Spec, FailedCopyIsUndone
=============================================================================
