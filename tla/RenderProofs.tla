----------------------------- MODULE RenderProofs -----------------------------
(***************************************************************************)
(* Proofs about Render, for any number of workers, any tree of cells and   *)
(* any shape: every cell is evaluated, collected and worked by one worker, *)
(* once, in an order in which children come before their parents.          *)
(*                                                                         *)
(* The tasks that wait and the cells that workers are at are marks in the  *)
(* tree, no mark is below another, and the counters of the cells tell      *)
(* where marks are left.  First come lemmas about the mathematics: paths   *)
(* of cells, stacks of tasks, marks in a tree and sums over workers; then  *)
(* the inductive invariant, what the kinds of steps a worker makes do to   *)
(* its parts, one lemma for each action, and the theorems.                 *)
(***************************************************************************)
EXTENDS Render, FiniteSetTheorems, SequenceTheorems, WellFoundedInduction, TLAPS

-----------------------------------------------------------------------------
(* Paths *)

LEMMA CellIsSequence ==
    ASSUME NEW c
    PROVE  c \in Cells <=> c \in Seq(Index) /\ Len(c) \in 0 .. Depth
<1>1. ASSUME c \in Cells
      PROVE  c \in Seq(Index) /\ Len(c) \in 0 .. Depth
    <2>1. PICK n \in 0 .. Depth : c \in [1 .. n -> Index]
        BY <1>1 DEF Cells
    <2>. QED  BY <2>1
<1>2. ASSUME c \in Seq(Index) /\ Len(c) \in 0 .. Depth
      PROVE  c \in Cells
    BY <1>2, LenProperties DEF Cells
<1>. QED  BY <1>1, <1>2

(* A prefix agrees with the path as far as it goes. *)
LEMMA PrefixAgrees ==
    ASSUME NEW c \in Cells, NEW d \in Cells
    PROVE  IsPrefix(c, d) <=> Len(c) <= Len(d) /\ \A i \in 1 .. Len(c) : c[i] = d[i]
<1>1. c \in Seq(Index) /\ d \in Seq(Index) /\ Len(c) \in Nat /\ Len(d) \in Nat
    BY CellIsSequence
<1>2. SubSeq(c, 1, Len(c)) = c
    BY <1>1, SubSeqFull
<1>3. ASSUME Len(c) <= Len(d)
      PROVE  SubSeq(d, 1, Len(c)) = c <=> \A i \in 1 .. Len(c) : c[i] = d[i]
    <2>1. /\ SubSeq(d, 1, Len(c)) \in Seq(Index)
          /\ Len(SubSeq(d, 1, Len(c))) = Len(c)
          /\ \A i \in 1 .. Len(c) : SubSeq(d, 1, Len(c))[i] = d[i]
        BY <1>1, <1>3, SubSeqProperties
    <2>. QED  BY <1>1, <2>1, SeqEqual
<1>. QED  BY <1>1, <1>2, <1>3 DEF IsPrefix

LEMMA PrefixOrder ==
    ASSUME NEW c \in Cells, NEW d \in Cells, NEW e \in Cells
    PROVE  /\ IsPrefix(c, c)
           /\ IsPrefix(c, d) /\ IsPrefix(d, e) => IsPrefix(c, e)
           /\ IsPrefix(c, d) /\ IsPrefix(d, c) => c = d
           /\ IsPrefix(c, e) /\ IsPrefix(d, e) => IsPrefix(c, d) \/ IsPrefix(d, c)
<1>1. /\ c \in Seq(Index) /\ d \in Seq(Index)
      /\ Len(c) \in Nat /\ Len(d) \in Nat /\ Len(e) \in Nat
    BY CellIsSequence
<1>2. IsPrefix(c, c)
    BY <1>1, PrefixAgrees
<1>3. IsPrefix(c, d) /\ IsPrefix(d, e) => IsPrefix(c, e)
    BY <1>1, PrefixAgrees
<1>4. IsPrefix(c, d) /\ IsPrefix(d, c) => c = d
    <2>1. SUFFICES ASSUME IsPrefix(c, d), IsPrefix(d, c)  PROVE  c = d
        OBVIOUS
    <2>2. Len(c) = Len(d) /\ \A i \in 1 .. Len(c) : c[i] = d[i]
        BY <1>1, <2>1, PrefixAgrees
    <2>. QED  BY <1>1, <2>2, SeqEqual
<1>5. IsPrefix(c, e) /\ IsPrefix(d, e) => IsPrefix(c, d) \/ IsPrefix(d, c)
    BY <1>1, PrefixAgrees
<1>. QED  BY <1>2, <1>3, <1>4, <1>5

LEMMA RootIsPrefix ==
    /\ Root \in Cells
    /\ \A c \in Cells : IsPrefix(Root, c)
<1>1. Root \in Cells
    <2>1. <<>> \in Seq(Index) /\ Len(<<>>) = 0 /\ 0 \in 0 .. Depth
        BY PoolAssumption, EmptySeq
    <2>. QED  BY <2>1, CellIsSequence DEF Root
<1>2. ASSUME NEW c \in Cells
      PROVE  IsPrefix(Root, c)
    BY <1>1, PrefixAgrees, CellIsSequence, EmptySeq DEF Root
<1>. QED  BY <1>1, <1>2

(* The leaves are the paths of full length. *)
LEMMA LeafIsLong ==
    ASSUME NEW c \in Cells
    PROVE  c \in Leaves <=> Len(c) = Depth
<1>1. c \in Seq(Index) /\ Len(c) \in 0 .. Depth
    BY CellIsSequence
<1>2. c \in [1 .. Len(c) -> Index]
    BY <1>1, LenProperties
<1>3. ASSUME c \in Leaves  PROVE  Len(c) = Depth
    BY <1>3, PoolAssumption DEF Leaves
<1>. QED  BY <1>2, <1>3 DEF Leaves

LEMMA LeavesAreCells == Leaves \subseteq Cells
BY PoolAssumption DEF Leaves, Cells

LEMMA NothingBelowLeaf ==
    ASSUME NEW c \in Leaves, NEW d \in Cells, IsPrefix(c, d)
    PROVE  c = d
<1>1. c \in Cells /\ Len(c) = Depth
    BY LeavesAreCells, LeafIsLong
<1>2. c \in Seq(Index) /\ d \in Seq(Index) /\ Len(d) \in 0 .. Depth
    BY <1>1, CellIsSequence
<1>3. Len(c) = Len(d) /\ \A i \in 1 .. Len(c) : c[i] = d[i]
    BY <1>1, <1>2, PrefixAgrees, PoolAssumption
<1>. QED  BY <1>2, <1>3, SeqEqual

(* The children of a cell that is not a leaf. *)
LEMMA ChildProperties ==
    ASSUME NEW p \in Cells, NEW d \in ChildrenOf(p)
    PROVE  /\ d \in Cells <=> p \notin Leaves
           /\ d # Root
           /\ Front(d) = p
           /\ d \in Cells => IsStrictPrefix(p, d)
<1>1. p \in Seq(Index) /\ Len(p) \in 0 .. Depth
    BY CellIsSequence
<1>2. PICK i \in Index : d = Append(p, i)
    BY DEF ChildrenOf
<1>3. /\ d \in Seq(Index) /\ d # <<>> /\ Len(d) = Len(p) + 1
      /\ \A j \in 1 .. Len(p) : d[j] = p[j]
    BY <1>1, <1>2, AppendProperties
<1>4. d \in Cells <=> p \notin Leaves
    BY <1>1, <1>3, LeafIsLong, CellIsSequence, PoolAssumption
<1>5. Front(d) = p
    <2>1. /\ SubSeq(d, 1, Len(d) - 1) \in Seq(Index)
          /\ Len(SubSeq(d, 1, Len(d) - 1)) = Len(p)
          /\ \A j \in 1 .. Len(p) : SubSeq(d, 1, Len(d) - 1)[j] = p[j]
        BY <1>1, <1>3, SubSeqProperties
    <2>. QED  BY <1>1, <2>1, SeqEqual DEF Front
<1>6. d \in Cells => IsStrictPrefix(p, d)
    BY <1>1, <1>3, PrefixAgrees DEF IsStrictPrefix
<1>. QED  BY <1>3, <1>4, <1>5, <1>6 DEF Root

(* A cell that is not the root is a child of a cell. *)
LEMMA ParentProperties ==
    ASSUME NEW c \in Cells, c # Root
    PROVE  /\ Front(c) \in Cells /\ Front(c) \notin Leaves
           /\ c \in ChildrenOf(Front(c))
           /\ IsStrictPrefix(Front(c), c)
<1>1. c \in Seq(Index) /\ Len(c) \in 0 .. Depth
    BY CellIsSequence
<1>2. PICK s \in Seq(Index), i \in Index : c = Append(s, i)
    BY <1>1, SequenceEmptyOrAppend DEF Root
<1>3. Len(c) = Len(s) + 1
    BY <1>2, AppendProperties
<1>4. s \in Cells /\ c \in ChildrenOf(s)
    BY <1>1, <1>2, <1>3, CellIsSequence, LenProperties, PoolAssumption DEF ChildrenOf
<1>. QED  BY <1>4, ChildProperties

(* What is strictly below a cell is below one of its children. *)
LEMMA BelowIsBelowChild ==
    ASSUME NEW p \in Cells, NEW c \in Cells, IsStrictPrefix(p, c)
    PROVE  \E d \in ChildrenOf(p) \cap Cells : IsPrefix(d, c)
<1>1. /\ p \in Seq(Index) /\ Len(p) \in 0 .. Depth
      /\ c \in Seq(Index) /\ Len(c) \in 0 .. Depth
    BY CellIsSequence
<1>2. Len(p) <= Len(c) /\ \A i \in 1 .. Len(p) : p[i] = c[i]
    BY PrefixAgrees DEF IsStrictPrefix
<1>3. Len(p) < Len(c)
    BY <1>1, <1>2, SeqEqual DEF IsStrictPrefix
<1>4. c[Len(p) + 1] \in Index
    BY <1>1, <1>3, ElementOfSeq
<1>. DEFINE d == Append(p, c[Len(p) + 1])
<1>5. /\ d \in Seq(Index) /\ Len(d) = Len(p) + 1
      /\ \A i \in 1 .. Len(p) : d[i] = p[i]
      /\ d[Len(p) + 1] = c[Len(p) + 1]
    BY <1>1, <1>4, AppendProperties
<1>6. d \in Cells
    <2>. HIDE DEF d
    <2>. QED  BY <1>1, <1>3, <1>5, CellIsSequence, PoolAssumption
<1>7. IsPrefix(d, c)
    <2>1. \A i \in 1 .. Len(d) : d[i] = c[i]
        BY <1>1, <1>2, <1>5
    <2>. HIDE DEF d
    <2>. QED  BY <1>1, <1>3, <1>5, <1>6, <2>1, PrefixAgrees
<1>8. d \in ChildrenOf(p)
    BY <1>4 DEF ChildrenOf
<1>. QED  BY <1>6, <1>7, <1>8

LEMMA AboveIsAboveParent ==
    ASSUME NEW c \in Cells, c # Root, NEW q \in Cells, IsStrictPrefix(q, c)
    PROVE  IsPrefix(q, Front(c))
<1>1. Front(c) \in Cells /\ IsStrictPrefix(Front(c), c)
    BY ParentProperties
<1>2. CASE IsPrefix(q, Front(c))
    BY <1>2
<1>3. CASE ~IsPrefix(q, Front(c))
    <2>1. IsStrictPrefix(Front(c), q)
        BY <1>1, <1>3, PrefixOrder DEF IsStrictPrefix
    <2>2. PICK d \in ChildrenOf(Front(c)) \cap Cells : IsPrefix(d, q)
        BY <1>1, <2>1, BelowIsBelowChild
    <2>3. Len(d) = Len(Front(c)) + 1 /\ Len(c) = Len(Front(c)) + 1
        BY <1>1, ParentProperties, ChildProperties, AppendProperties, CellIsSequence DEF ChildrenOf
    <2>4. IsPrefix(d, c)
        BY <2>2, PrefixOrder DEF IsStrictPrefix
    <2>5. d = c
        <3>1. c \in Seq(Index) /\ d \in Seq(Index) /\ Len(c) \in Nat
            BY CellIsSequence
        <3>2. Len(c) = Len(d) /\ \A i \in 1 .. Len(c) : d[i] = c[i]
            BY <2>3, <2>4, PrefixAgrees
        <3>. QED  BY <3>1, <3>2, SeqEqual
    <2>. QED  BY <2>2, <2>5, PrefixOrder DEF IsStrictPrefix
<1>. QED  BY <1>2, <1>3

(* Two children of a cell are not above each other. *)
LEMMA SiblingsApart ==
    ASSUME NEW p \in Cells, NEW d \in ChildrenOf(p) \cap Cells, NEW e \in ChildrenOf(p) \cap Cells,
           IsPrefix(d, e)
    PROVE  d = e
<1>1. CASE d = e
    BY <1>1
<1>2. CASE d # e
    <2>1. Front(e) = p /\ e # Root /\ IsStrictPrefix(p, d)
        BY ChildProperties
    <2>2. IsPrefix(d, p)
        BY <1>2, <2>1, AboveIsAboveParent DEF IsStrictPrefix
    <2>. QED  BY <2>1, <2>2, PrefixOrder DEF IsStrictPrefix
<1>. QED  BY <1>1, <1>2

(* A path is known by the set of its positions and indices. *)
LEMMA CellsAreFinite == IsFiniteSet(Cells)
<1>. DEFINE positions == (1 .. Depth) \X Index
            graph(c) == {<<i, c[i]>> : i \in 1 .. Len(c)}
            f == [c \in Cells |-> graph(c)]
<1>1. IsFiniteSet(SUBSET positions)
    <2>1. IsFiniteSet(1 .. Depth) /\ IsFiniteSet(Index)
        BY PoolAssumption, FS_Interval DEF Index
    <2>2. IsFiniteSet(positions)
        BY <2>1, FS_Product
    <2>. HIDE DEF positions
    <2>. QED  BY <2>2, FS_SUBSET
<1>2. \A c \in Cells : c \in Seq(Index) /\ Len(c) \in 0 .. Depth
    BY CellIsSequence
<1>3. ASSUME NEW c \in Cells
      PROVE  graph(c) \in SUBSET positions
    BY <1>2, ElementOfSeq, PoolAssumption
<1>4. ASSUME NEW c \in Cells, NEW d \in Cells, graph(c) = graph(d)
      PROVE  c = d
    <2>1. Len(c) \in Nat /\ Len(d) \in Nat
        BY <1>2
    <2>2. \A i \in 1 .. Len(c) : i \in 1 .. Len(d) /\ c[i] = d[i]
        <3>1. SUFFICES ASSUME NEW i \in 1 .. Len(c)
                       PROVE  i \in 1 .. Len(d) /\ c[i] = d[i]
            OBVIOUS
        <3>2. <<i, c[i]>> \in graph(d)
            BY <1>4
        <3>3. PICK j \in 1 .. Len(d) : <<i, c[i]>> = <<j, d[j]>>
            BY <3>2
        <3>. QED  BY <3>3
    <2>3. \A i \in 1 .. Len(d) : i \in 1 .. Len(c)
        <3>1. SUFFICES ASSUME NEW i \in 1 .. Len(d)
                       PROVE  i \in 1 .. Len(c)
            OBVIOUS
        <3>2. <<i, d[i]>> \in graph(c)
            BY <1>4
        <3>3. PICK j \in 1 .. Len(c) : <<i, d[i]>> = <<j, c[j]>>
            BY <3>2
        <3>. QED  BY <3>3
    <2>4. Len(c) = Len(d)
        <3>1. Len(c) >= 1 => Len(c) \in 1 .. Len(d)
            BY <2>1, <2>2
        <3>2. Len(d) >= 1 => Len(d) \in 1 .. Len(c)
            BY <2>1, <2>3
        <3>. QED  BY <2>1, <3>1, <3>2
    <2>. QED  BY <1>2, <2>2, <2>4, SeqEqual
<1>5. f \in Injection(Cells, SUBSET positions)
    <2>. HIDE DEF graph, positions
    <2>. QED  BY <1>3, <1>4 DEF Injection, IsInjective
<1>. HIDE DEF f, positions
<1>. QED  BY <1>1, <1>5, FS_Injection

LEMMA SubsetsAreFinite ==
    ASSUME NEW S \in SUBSET Cells
    PROVE  IsFiniteSet(S) /\ Cardinality(S) \in Nat
BY CellsAreFinite, FS_Subset, FS_CardinalityType

LEMMA ChildrenAreFinite ==
    ASSUME NEW p \in Cells
    PROVE  IsFiniteSet(ChildrenOf(p)) /\ Cardinality(ChildrenOf(p)) = Arity
<1>1. p \in Seq(Index)
    BY CellIsSequence
<1>. DEFINE f == [i \in Index |-> Append(p, i)]
<1>2. f \in Bijection(Index, ChildrenOf(p))
    <2>1. f \in Injection(Index, ChildrenOf(p))
        BY <1>1, AppendInjective DEF ChildrenOf, Injection, IsInjective
    <2>2. f \in Surjection(Index, ChildrenOf(p))
        BY DEF ChildrenOf, Surjection
    <2>. QED  BY <2>1, <2>2 DEF Bijection
<1>3. IsFiniteSet(Index) /\ Cardinality(Index) = Arity
    BY PoolAssumption, FS_Interval DEF Index
<1>4. ExistsBijection(Index, ChildrenOf(p))
    BY <1>2 DEF ExistsBijection
<1>. QED  BY <1>3, <1>4, FS_Bijection

-----------------------------------------------------------------------------
(* Stacks of tasks *)

Task == [cell : Cells, seen : SUBSET Cells]

CellsIn(s) == {task.cell : task \in Range(s)}

Distinct(s) == \A i, j \in DOMAIN s : s[i].cell = s[j].cell => i = j

LEMMA StackAppend ==
    ASSUME NEW s \in Seq(Task), NEW task \in Task
    PROVE  /\ Append(s, task) \in Seq(Task)
           /\ Range(Append(s, task)) = Range(s) \cup {task}
           /\ CellsIn(Append(s, task)) = CellsIn(s) \cup {task.cell}
           /\ Distinct(s) /\ task.cell \notin CellsIn(s) => Distinct(Append(s, task))
<1>. DEFINE t == Append(s, task)
<1>1. /\ t \in Seq(Task) /\ Len(t) = Len(s) + 1 /\ Len(s) \in Nat
      /\ \A i \in 1 .. Len(s) : t[i] = s[i]
      /\ t[Len(s) + 1] = task
    BY AppendProperties
<1>2. DOMAIN t = 1 .. Len(s) + 1 /\ DOMAIN s = 1 .. Len(s)
    BY <1>1, LenProperties
<1>. HIDE DEF t
<1>3. Range(t) = Range(s) \cup {task}
    BY <1>1, <1>2 DEF Range
<1>4. CellsIn(t) = CellsIn(s) \cup {task.cell}
    BY <1>3 DEF CellsIn
<1>5. Distinct(s) /\ task.cell \notin CellsIn(s) => Distinct(t)
    <2>1. SUFFICES ASSUME Distinct(s), task.cell \notin CellsIn(s),
                          NEW i \in DOMAIN t, NEW j \in DOMAIN t, t[i].cell = t[j].cell
                   PROVE  i = j
        BY DEF Distinct
    <2>2. \A k \in DOMAIN s : s[k].cell # task.cell
        BY <2>1 DEF CellsIn, Range
    <2>. QED  BY <1>1, <1>2, <2>1, <2>2 DEF Distinct
<1>. QED  BY <1>1, <1>3, <1>4, <1>5 DEF t

LEMMA StackFront ==
    ASSUME NEW s \in Seq(Task), s # <<>>
    PROVE  /\ Front(s) \in Seq(Task) /\ Last(s) \in Task /\ Last(s) \in Range(s)
           /\ Range(Front(s)) \subseteq Range(s)
           /\ CellsIn(s) = CellsIn(Front(s)) \cup {Last(s).cell}
           /\ Distinct(s) => Distinct(Front(s)) /\ Last(s).cell \notin CellsIn(Front(s))
<1>1. Len(s) \in Nat \ {0} /\ DOMAIN s = 1 .. Len(s)
    BY EmptySeq, LenProperties
<1>. DEFINE t == Front(s)
<1>2. t \in Seq(Task) /\ Len(t) = Len(s) - 1 /\ \A i \in 1 .. Len(t) : t[i] = s[i]
    <2>1. \A i \in 1 .. Len(s) - 1 : s[i] \in Task
        BY <1>1, ElementOfSeq
    <2>. QED  BY <1>1, <2>1, SubSeqProperties DEF Front
<1>3. DOMAIN t = 1 .. Len(s) - 1
    BY <1>2, LenProperties
<1>. HIDE DEF t
<1>4. Last(s) = s[Len(s)] /\ Last(s) \in Task
    BY <1>1, ElementOfSeq DEF Last
<1>5. Range(s) = Range(t) \cup {Last(s)}
    BY <1>1, <1>2, <1>3, <1>4 DEF Range
<1>6. CellsIn(s) = CellsIn(t) \cup {Last(s).cell}
    BY <1>5 DEF CellsIn
<1>7. Distinct(s) => Distinct(t) /\ Last(s).cell \notin CellsIn(t)
    <2>1. SUFFICES ASSUME Distinct(s)  PROVE  Distinct(t) /\ Last(s).cell \notin CellsIn(t)
        OBVIOUS
    <2>2. Distinct(t)
        BY <1>1, <1>2, <1>3, <2>1 DEF Distinct
    <2>3. \A i \in DOMAIN t : t[i].cell # Last(s).cell
        BY <1>1, <1>2, <1>3, <1>4, <2>1 DEF Distinct
    <2>. QED  BY <2>2, <2>3 DEF CellsIn, Range
<1>. QED  BY <1>2, <1>4, <1>5, <1>6, <1>7 DEF t

LEMMA StackEmpty == <<>> \in Seq(Task) /\ Range(<<>>) = {} /\ CellsIn(<<>>) = {} /\ Distinct(<<>>)
<1>1. <<>> \in Seq(Task) /\ DOMAIN <<>> = {}
    OBVIOUS
<1>2. Range(<<>>) = {}
    BY <1>1 DEF Range
<1>. QED  BY <1>1, <1>2 DEF CellsIn, Distinct

-----------------------------------------------------------------------------
(* Marks: the cells of a tree T that are early (waiting to be taken, or     *)
(* taken and not looked into), late (their children have reported) and,     *)
(* among those, rising (about to report).                                   *)

Kids(T, p) == ChildrenOf(p) \cap T

(* There is a mark below the cell, or all that is below waits with an early *)
(* mark above it.                                                           *)
Open(E, L, c) ==
    \/ \E m \in E \cup L : IsPrefix(c, m)
    \/ \E m \in E : IsPrefix(m, c)

IsWorking(E, L, R, c) == Open(E, L, c) /\ c \notin R

TreeClosed(T) ==
    /\ T \subseteq Cells /\ Root \in T
    /\ \A x \in T, q \in Cells : IsPrefix(q, x) => q \in T

Antichain(M) == \A m, n \in M : IsPrefix(m, n) => m = n

MarksIn(T, E, L, R) ==
    /\ TreeClosed(T)
    /\ E \subseteq T /\ L \subseteq T /\ R \subseteq L
    /\ E \cap L = {}
    /\ Antichain(E \cup L)

OpenKids(T, E, L, p) == {d \in Kids(T, p) : Open(E, L, d)}

LastOpen(T, E, L, c) == \A e \in OpenKids(T, E, L, Front(c)) : e = c

(* The counter of a cell tells how many of its children are open. *)
PendingCounts(T, E, L, R, count) ==
    \A p \in T : IsWorking(E, L, R, p) /\ Kids(T, p) # {} =>
        count[p] + 1 = Cardinality(OpenKids(T, E, L, p))

(* A cell is looked into: its children are marked instead. *)
LEMMA RefineMarks ==
    ASSUME NEW T, NEW E, NEW L, NEW R, MarksIn(T, E, L, R),
           NEW c \in E, Kids(T, c) # {}, NEW F, F = (E \ {c}) \cup Kids(T, c)
    PROVE  /\ MarksIn(T, F, L, R)
           /\ \A x \in T : Open(F, L, x) <=> Open(E, L, x)
<1>1. /\ T \subseteq Cells /\ \A x \in T, q \in Cells : IsPrefix(q, x) => q \in T
      /\ E \subseteq T /\ L \subseteq T /\ R \subseteq L /\ E \cap L = {}
      /\ \A m, n \in E \cup L : IsPrefix(m, n) => m = n
    BY DEF MarksIn, TreeClosed, Antichain
<1>2. c \in Cells /\ Kids(T, c) \subseteq T /\ Kids(T, c) \subseteq Cells
    BY <1>1 DEF Kids
<1>3. \A d \in Kids(T, c) : IsPrefix(c, d) /\ c # d
    BY <1>1, <1>2, ChildProperties DEF Kids, IsStrictPrefix
<1>4. \A m \in E \cup L, d \in Kids(T, c) : ~IsPrefix(d, m) /\ (IsPrefix(m, d) => m = c)
    <2>1. SUFFICES ASSUME NEW m \in E \cup L, NEW d \in Kids(T, c)
                   PROVE  ~IsPrefix(d, m) /\ (IsPrefix(m, d) => m = c)
        OBVIOUS
    <2>2. ASSUME IsPrefix(d, m)  PROVE  FALSE
        <3>1. IsPrefix(c, m)
            BY <1>1, <1>2, <1>3, <2>2, PrefixOrder
        <3>2. m = c
            BY <1>1, <3>1
        <3>. QED  BY <1>1, <1>2, <1>3, <2>2, <3>2, PrefixOrder
    <2>3. ASSUME IsPrefix(m, d)  PROVE  m = c
        <3>1. IsPrefix(c, m) \/ IsPrefix(m, c)
            BY <1>1, <1>2, <1>3, <2>3, PrefixOrder
        <3>. QED  BY <1>1, <3>1
    <2>. QED  BY <2>2, <2>3
<1>5. \A d, e \in Kids(T, c) : IsPrefix(d, e) => d = e
    BY <1>1, <1>2, SiblingsApart DEF Kids
<1>6. MarksIn(T, F, L, R)
    <2>1. F \subseteq T
        BY <1>1, <1>2
    <2>2. F \cap L = {}
        BY <1>1, <1>2, <1>4, PrefixOrder
    <2>3. Antichain(F \cup L)
        <3>1. SUFFICES ASSUME NEW m \in F \cup L, NEW n \in F \cup L, IsPrefix(m, n)
                       PROVE  m = n
            BY DEF Antichain
        <3>2. CASE m \in Kids(T, c) /\ n \in Kids(T, c)
            BY <1>5, <3>1, <3>2
        <3>3. CASE m \notin Kids(T, c) /\ n \notin Kids(T, c)
            BY <1>1, <3>1, <3>3
        <3>4. CASE m \in Kids(T, c) /\ n \notin Kids(T, c)
            BY <1>4, <3>1, <3>4
        <3>5. CASE m \notin Kids(T, c) /\ n \in Kids(T, c)
            <4>1. m \in E \cup L /\ m = c
                BY <1>4, <3>1, <3>5
            <4>2. m \notin F /\ m \notin L
                BY <1>1, <3>5, <4>1
            <4>. QED  BY <3>1, <4>2
        <3>. QED  BY <3>2, <3>3, <3>4, <3>5
    <2>. QED  BY <1>1, <2>1, <2>2, <2>3 DEF MarksIn
<1>7. ASSUME NEW x \in T, Open(E, L, x)
      PROVE  Open(F, L, x)
    <2>1. x \in Cells
        BY <1>1
    <2>2. ASSUME NEW m \in E \cup L, IsPrefix(x, m)
          PROVE  Open(F, L, x)
        <3>1. CASE m # c
            BY <2>2, <3>1 DEF Open
        <3>2. CASE m = c
            <4>1. PICK d \in Kids(T, c) : TRUE
                OBVIOUS
            <4>2. IsPrefix(x, d)
                BY <1>1, <1>2, <1>3, <2>1, <2>2, <3>2, PrefixOrder
            <4>. QED  BY <4>1, <4>2 DEF Open
        <3>. QED  BY <3>1, <3>2
    <2>3. ASSUME NEW m \in E, IsPrefix(m, x)
          PROVE  Open(F, L, x)
        <3>1. CASE m # c
            BY <2>3, <3>1 DEF Open
        <3>2. CASE m = c /\ x = c
            BY <1>1, <2>1, <2>2, <3>2, PrefixOrder
        <3>3. CASE m = c /\ x # c
            <4>1. PICK d \in ChildrenOf(c) \cap Cells : IsPrefix(d, x)
                BY <1>2, <2>1, <2>3, <3>3, BelowIsBelowChild DEF IsStrictPrefix
            <4>2. d \in Kids(T, c)
                BY <1>1, <4>1 DEF Kids
            <4>. QED  BY <4>1, <4>2 DEF Open
        <3>. QED  BY <3>1, <3>2, <3>3
    <2>. QED  BY <1>7, <2>2, <2>3 DEF Open
<1>8. ASSUME NEW x \in T, Open(F, L, x)
      PROVE  Open(E, L, x)
    <2>1. x \in Cells
        BY <1>1
    <2>2. ASSUME NEW m \in F \cup L, IsPrefix(x, m)
          PROVE  Open(E, L, x)
        <3>1. CASE m \notin Kids(T, c)
            BY <2>2, <3>1 DEF Open
        <3>2. CASE m \in Kids(T, c)
            <4>1. IsPrefix(x, c) \/ IsPrefix(c, x)
                BY <1>2, <1>3, <2>1, <2>2, <3>2, PrefixOrder
            <4>. QED  BY <4>1 DEF Open
        <3>. QED  BY <3>1, <3>2
    <2>3. ASSUME NEW m \in F, IsPrefix(m, x)
          PROVE  Open(E, L, x)
        <3>1. CASE m \notin Kids(T, c)
            BY <2>3, <3>1 DEF Open
        <3>2. CASE m \in Kids(T, c)
            <4>1. IsPrefix(c, x)
                BY <1>2, <1>3, <2>1, <2>3, <3>2, PrefixOrder
            <4>. QED  BY <4>1 DEF Open
        <3>. QED  BY <3>1, <3>2
    <2>. QED  BY <1>8, <2>2, <2>3 DEF Open
<1>. QED  BY <1>6, <1>7, <1>8

LEMMA RefineCounts ==
    ASSUME NEW T, NEW E, NEW L, NEW R, MarksIn(T, E, L, R),
           NEW count, PendingCounts(T, E, L, R, count),
           NEW c \in E, Kids(T, c) # {}, NEW F, F = (E \ {c}) \cup Kids(T, c)
    PROVE  PendingCounts(T, F, L, R, count)
<1>1. \A x \in T : Open(F, L, x) <=> Open(E, L, x)
    BY RefineMarks
<1>2. \A p \in T : OpenKids(T, F, L, p) = OpenKids(T, E, L, p)
    BY <1>1 DEF OpenKids, Kids
<1>. QED  BY <1>1, <1>2 DEF PendingCounts, IsWorking

(* Nothing below an early mark is worked on but as a part of it. *)
LEMMA EarlyMarkAlone ==
    ASSUME NEW T, NEW E, NEW L, NEW R, MarksIn(T, E, L, R),
           NEW c \in E, NEW x \in T, IsPrefix(c, x)
    PROVE  /\ Open(E, L, x) /\ IsWorking(E, L, R, x)
           /\ \A m \in E \cup L : IsPrefix(x, m) \/ IsPrefix(m, x) => m = c
<1>1. /\ T \subseteq Cells
      /\ E \subseteq T /\ L \subseteq T /\ R \subseteq L /\ E \cap L = {}
      /\ \A m, n \in E \cup L : IsPrefix(m, n) => m = n
    BY DEF MarksIn, TreeClosed, Antichain
<1>2. ASSUME NEW m \in E \cup L, IsPrefix(x, m) \/ IsPrefix(m, x)
      PROVE  m = c
    <2>1. IsPrefix(c, m) \/ IsPrefix(m, c)
        BY <1>1, <1>2, PrefixOrder
    <2>. QED  BY <1>1, <2>1
<1>3. Open(E, L, x)
    BY DEF Open
<1>4. x \notin R
    BY <1>1, <1>2, PrefixOrder
<1>. QED  BY <1>2, <1>3, <1>4 DEF IsWorking

(* A cell is finished without its children. *)
LEMMA FinishMarks ==
    ASSUME NEW T, NEW E, NEW L, NEW R, MarksIn(T, E, L, R), NEW c \in E,
           NEW F, F = E \ {c}, NEW M, M = L \cup {c}, NEW S, S = R \cup {c}
    PROVE  /\ MarksIn(T, F, M, S)
           /\ \A x \in T : Open(F, M, x) <=> Open(E, L, x) /\ ~IsStrictPrefix(c, x)
           /\ \A x \in T : IsWorking(F, M, S, x) <=> IsWorking(E, L, R, x) /\ ~IsPrefix(c, x)
<1>1. /\ T \subseteq Cells
      /\ E \subseteq T /\ L \subseteq T /\ R \subseteq L /\ E \cap L = {}
      /\ \A m, n \in E \cup L : IsPrefix(m, n) => m = n
    BY DEF MarksIn, TreeClosed, Antichain
<1>2. F \cup M = E \cup L
    OBVIOUS
<1>3. MarksIn(T, F, M, S)
    <2>1. F \subseteq T /\ M \subseteq T /\ S \subseteq M /\ F \cap M = {}
        BY <1>1
    <2>. QED  BY <1>2, <2>1 DEF MarksIn
<1>4. ASSUME NEW x \in T
      PROVE  Open(F, M, x) <=> Open(E, L, x) /\ ~IsStrictPrefix(c, x)
    <2>1. CASE IsStrictPrefix(c, x)
        <3>1. \A m \in E \cup L : IsPrefix(x, m) \/ IsPrefix(m, x) => m = c
            BY <2>1, EarlyMarkAlone DEF IsStrictPrefix
        <3>2. ~IsPrefix(x, c)
            BY <1>1, <2>1, PrefixOrder DEF IsStrictPrefix
        <3>. QED  BY <1>2, <2>1, <3>1, <3>2 DEF Open
    <2>2. CASE ~IsStrictPrefix(c, x)
        <3>1. IsPrefix(c, x) => IsPrefix(x, c)
            BY <1>1, <2>2, PrefixOrder DEF IsStrictPrefix
        <3>. QED  BY <1>2, <2>2, <3>1 DEF Open
    <2>. QED  BY <2>1, <2>2
<1>5. ASSUME NEW x \in T
      PROVE  IsWorking(F, M, S, x) <=> IsWorking(E, L, R, x) /\ ~IsPrefix(c, x)
    <2>1. IsPrefix(c, x) <=> x = c \/ IsStrictPrefix(c, x)
        BY <1>1, PrefixOrder DEF IsStrictPrefix
    <2>. QED  BY <1>4, <2>1 DEF IsWorking
<1>. QED  BY <1>3, <1>4, <1>5

LEMMA FinishCounts ==
    ASSUME NEW T, NEW E, NEW L, NEW R, MarksIn(T, E, L, R),
           NEW count, PendingCounts(T, E, L, R, count), NEW c \in E,
           NEW F, F = E \ {c}, NEW M, M = L \cup {c}, NEW S, S = R \cup {c}
    PROVE  PendingCounts(T, F, M, S, count)
<1>1. T \subseteq Cells /\ c \in Cells
    BY DEF MarksIn, TreeClosed
<1>2. SUFFICES ASSUME NEW p \in T, IsWorking(F, M, S, p), Kids(T, p) # {}
               PROVE  count[p] + 1 = Cardinality(OpenKids(T, F, M, p))
    BY DEF PendingCounts
<1>3. IsWorking(E, L, R, p) /\ ~IsPrefix(c, p)
    BY <1>2, FinishMarks
<1>4. \A x \in T : Open(F, M, x) <=> Open(E, L, x) /\ ~IsStrictPrefix(c, x)
    BY FinishMarks
<1>5. ASSUME NEW d \in Kids(T, p)
      PROVE  Open(F, M, d) <=> Open(E, L, d)
    <2>1. d \in T /\ Front(d) = p /\ d # Root
        BY <1>1, ChildProperties DEF Kids
    <2>2. ~IsStrictPrefix(c, d)
        BY <1>1, <1>3, <2>1, AboveIsAboveParent
    <2>. QED  BY <2>1, <2>2, <1>4
<1>6. OpenKids(T, F, M, p) = OpenKids(T, E, L, p)
    BY <1>5 DEF OpenKids
<1>. QED  BY <1>2, <1>3, <1>6 DEF PendingCounts

(* The parent of a cell that reports. *)
LEMMA ReportingParent ==
    ASSUME NEW T, NEW E, NEW L, NEW R, MarksIn(T, E, L, R),
           NEW c \in R, c # Root
    PROVE  /\ Front(c) \in T /\ c \in Kids(T, Front(c)) /\ c \in OpenKids(T, E, L, Front(c))
           /\ Front(c) \notin E \cup L
           /\ IsWorking(E, L, R, Front(c))
<1>1. /\ T \subseteq Cells /\ \A x \in T, q \in Cells : IsPrefix(q, x) => q \in T
      /\ E \subseteq T /\ L \subseteq T /\ R \subseteq L /\ E \cap L = {}
      /\ \A m, n \in E \cup L : IsPrefix(m, n) => m = n
    BY DEF MarksIn, TreeClosed, Antichain
<1>2. c \in Cells /\ c \in T /\ c \in L
    BY <1>1
<1>3. Front(c) \in Cells /\ IsPrefix(Front(c), c) /\ Front(c) # c /\ c \in ChildrenOf(Front(c))
    BY <1>2, ParentProperties DEF IsStrictPrefix
<1>4. Front(c) \in T /\ Front(c) \notin E \cup L
    BY <1>1, <1>2, <1>3
<1>5. Open(E, L, c) /\ Open(E, L, Front(c))
    BY <1>2, <1>3, PrefixOrder DEF Open
<1>. QED  BY <1>1, <1>2, <1>3, <1>4, <1>5 DEF Kids, OpenKids, IsWorking

(* A cell reports and others are open below its parent. *)
LEMMA ReportMarks ==
    ASSUME NEW T, NEW E, NEW L, NEW R, MarksIn(T, E, L, R), NEW c \in R, c # Root,
           NEW e \in OpenKids(T, E, L, Front(c)), e # c,
           NEW M, M = L \ {c}, NEW S, S = R \ {c}
    PROVE  /\ MarksIn(T, E, M, S)
           /\ \A x \in T : Open(E, M, x) <=> Open(E, L, x) /\ x # c
           /\ \A x \in T : IsWorking(E, M, S, x) <=> IsWorking(E, L, R, x)
<1>1. /\ T \subseteq Cells
      /\ E \subseteq T /\ L \subseteq T /\ R \subseteq L /\ E \cap L = {}
      /\ \A m, n \in E \cup L : IsPrefix(m, n) => m = n
    BY DEF MarksIn, TreeClosed, Antichain
<1>2. c \in Cells /\ c \in L /\ c \notin E /\ Front(c) \in Cells
    BY <1>1, ReportingParent
<1>3. MarksIn(T, E, M, S)
    <2>1. M \subseteq T /\ S \subseteq M /\ E \cap M = {} /\ E \cup M \subseteq E \cup L
        BY <1>1
    <2>. QED  BY <2>1 DEF MarksIn, Antichain
<1>4. e \in Cells /\ IsPrefix(Front(c), e) /\ Open(E, L, e) /\ ~IsPrefix(e, c) /\ ~IsPrefix(c, e)
    <2>1. e \in ChildrenOf(Front(c)) \cap Cells /\ c \in ChildrenOf(Front(c)) \cap Cells
        BY <1>1, <1>2, ReportingParent DEF OpenKids, Kids
    <2>2. IsPrefix(Front(c), e)
        BY <1>2, <2>1, ChildProperties DEF IsStrictPrefix
    <2>. QED  BY <1>2, <2>1, <2>2, SiblingsApart DEF OpenKids
<1>5. PICK m \in E \cup M : IsPrefix(e, m)
    <2>1. CASE \E m \in E \cup L : IsPrefix(e, m)
        BY <1>4, <2>1
    <2>2. ASSUME NEW m \in E, IsPrefix(m, e)
          PROVE  \E n \in E \cup M : IsPrefix(e, n)
        <3>1. CASE m = e
            BY <1>2, <1>4, <2>2, <3>1, PrefixOrder
        <3>2. CASE m # e
            <4>1. e # Root /\ Front(e) = Front(c)
                BY <1>1, <1>2, ReportingParent, ChildProperties DEF OpenKids, Kids
            <4>2. IsPrefix(m, Front(c))
                BY <1>1, <1>4, <2>2, <3>2, <4>1, AboveIsAboveParent DEF IsStrictPrefix
            <4>3. IsPrefix(Front(c), c)
                BY <1>2, ParentProperties DEF IsStrictPrefix
            <4>4. IsPrefix(m, c)
                BY <1>1, <1>2, <4>2, <4>3, PrefixOrder
            <4>. QED  BY <1>1, <1>2, <4>4
        <3>. QED  BY <3>1, <3>2
    <2>. QED  BY <1>4, <2>1, <2>2 DEF Open
<1>6. ASSUME NEW x \in T
      PROVE  Open(E, M, x) <=> Open(E, L, x) /\ x # c
    <2>1. ASSUME x = c  PROVE  ~Open(E, M, x)
        BY <1>1, <1>2, <2>1 DEF Open
    <2>2. ASSUME x # c, Open(E, L, x)  PROVE  Open(E, M, x)
        <3>1. CASE IsPrefix(x, c)
            <4>1. IsPrefix(x, Front(c))
                BY <1>1, <1>2, <2>2, <3>1, AboveIsAboveParent DEF IsStrictPrefix
            <4>2. IsPrefix(x, e)
                BY <1>1, <1>2, <1>4, <4>1, PrefixOrder
            <4>3. IsPrefix(x, m)
                BY <1>1, <1>4, <1>5, <4>2, PrefixOrder
            <4>. QED  BY <4>3 DEF Open
        <3>2. CASE ~IsPrefix(x, c)
            BY <2>2, <3>2 DEF Open
        <3>. QED  BY <3>1, <3>2
    <2>3. ASSUME Open(E, M, x)  PROVE  Open(E, L, x)
        BY <2>3 DEF Open
    <2>. QED  BY <2>1, <2>2, <2>3
<1>7. \A x \in T : IsWorking(E, M, S, x) <=> IsWorking(E, L, R, x)
    BY <1>6 DEF IsWorking
<1>. QED  BY <1>3, <1>6, <1>7

(* The last child of a cell reports: the cell is late. *)
LEMMA ReportLastMarks ==
    ASSUME NEW T, NEW E, NEW L, NEW R, MarksIn(T, E, L, R), NEW c \in R, c # Root,
           LastOpen(T, E, L, c),
           NEW M, M = (L \ {c}) \cup {Front(c)}, NEW S, S = R \ {c}
    PROVE  /\ MarksIn(T, E, M, S)
           /\ \A x \in T : Open(E, M, x) <=> Open(E, L, x) /\ x # c
           /\ \A x \in T : IsWorking(E, M, S, x) <=> IsWorking(E, L, R, x)
<1>. DEFINE p == Front(c)
<1>1. /\ T \subseteq Cells /\ \A x \in T, q \in Cells : IsPrefix(q, x) => q \in T
      /\ E \subseteq T /\ L \subseteq T /\ R \subseteq L /\ E \cap L = {}
      /\ \A m, n \in E \cup L : IsPrefix(m, n) => m = n
    BY DEF MarksIn, TreeClosed, Antichain
<1>2. c \in Cells /\ c \in L /\ c \notin E /\ p \in Cells /\ p \in T /\ p \notin E \cup L
    BY <1>1, ReportingParent
<1>3. IsPrefix(p, c) /\ p # c
    BY <1>2, ParentProperties DEF IsStrictPrefix
<1>. HIDE DEF p
<1>4. ASSUME NEW m \in E \cup L, IsPrefix(p, m)
      PROVE  m = c
    <2>1. PICK d \in ChildrenOf(p) \cap Cells : IsPrefix(d, m)
        BY <1>1, <1>2, <1>4, BelowIsBelowChild DEF IsStrictPrefix
    <2>2. d \in T
        BY <1>1, <2>1
    <2>3. d \in OpenKids(T, E, L, p)
        BY <2>1, <2>2 DEF OpenKids, Kids, Open
    <2>4. d = c
        BY <2>3 DEF p, LastOpen
    <2>. QED  BY <1>1, <1>2, <2>1, <2>4
<1>5. ASSUME NEW m \in E \cup L, IsPrefix(m, p)
      PROVE  FALSE
    <2>1. IsPrefix(m, c)
        BY <1>1, <1>2, <1>3, <1>5, PrefixOrder
    <2>2. m = c
        BY <1>1, <1>2, <2>1
    <2>. QED  BY <1>2, <1>3, <1>5, <2>2, PrefixOrder
<1>6. MarksIn(T, E, M, S)
    <2>1. M = (L \ {c}) \cup {p}
        BY DEF p
    <2>2. M \subseteq T /\ S \subseteq M /\ E \cap M = {}
        BY <1>1, <1>2, <2>1
    <2>3. Antichain(E \cup M)
        BY <1>1, <1>2, <1>4, <1>5, <2>1 DEF Antichain
    <2>. QED  BY <1>1, <2>2, <2>3 DEF MarksIn
<1>7. ASSUME NEW x \in T
      PROVE  Open(E, M, x) <=> Open(E, L, x) /\ x # c
    <2>1. M = (L \ {c}) \cup {p}
        BY DEF p
    <2>2. ASSUME x = c  PROVE  ~Open(E, M, x)
        <3>1. ~IsPrefix(c, p)
            BY <1>2, <1>3, PrefixOrder
        <3>. QED  BY <1>1, <1>2, <2>1, <2>2, <3>1 DEF Open
    <2>3. ASSUME x # c, Open(E, L, x)  PROVE  Open(E, M, x)
        <3>1. CASE IsPrefix(x, c)
            <4>1. IsPrefix(x, p)
                BY <1>1, <1>2, <2>3, <3>1, AboveIsAboveParent DEF IsStrictPrefix, p
            <4>. QED  BY <2>1, <4>1 DEF Open
        <3>2. CASE ~IsPrefix(x, c)
            BY <2>1, <2>3, <3>2 DEF Open
        <3>. QED  BY <3>1, <3>2
    <2>4. ASSUME Open(E, M, x)  PROVE  Open(E, L, x)
        <3>1. CASE IsPrefix(x, p)
            <4>1. IsPrefix(x, c)
                BY <1>1, <1>2, <1>3, <3>1, PrefixOrder
            <4>. QED  BY <1>2, <4>1 DEF Open
        <3>2. CASE ~IsPrefix(x, p)
            BY <2>1, <2>4, <3>2 DEF Open
        <3>. QED  BY <3>1, <3>2
    <2>. QED  BY <2>2, <2>3, <2>4
<1>8. ASSUME NEW x \in T
      PROVE  IsWorking(E, M, S, x) <=> IsWorking(E, L, R, x)
    BY <1>7 DEF IsWorking
<1>. QED  BY <1>6, <1>7, <1>8

(* What the counter of the parent tells the cell that reports. *)
LEMMA ReportReads ==
    ASSUME NEW T, NEW E, NEW L, NEW R, MarksIn(T, E, L, R), NEW c \in R, c # Root,
           NEW count \in [Cells -> Int], PendingCounts(T, E, L, R, count)
    PROVE  /\ count[Front(c)] \in Nat
           /\ count[Front(c)] = 0 => LastOpen(T, E, L, c)
           /\ count[Front(c)] # 0 => \E e \in OpenKids(T, E, L, Front(c)) : e # c
<1>. DEFINE S == OpenKids(T, E, L, Front(c))
<1>1. /\ Front(c) \in T /\ Front(c) \in Cells /\ c \in Kids(T, Front(c)) /\ c \in S
      /\ IsWorking(E, L, R, Front(c))
    <2>1. T \subseteq Cells
        BY DEF MarksIn, TreeClosed
    <2>. QED  BY <2>1, ReportingParent
<1>2. count[Front(c)] + 1 = Cardinality(S)
    BY <1>1 DEF PendingCounts
<1>3. IsFiniteSet(S) /\ Cardinality(S) \in Nat
    BY SubsetsAreFinite DEF MarksIn, TreeClosed, OpenKids, Kids
<1>4. count[Front(c)] \in Int
    BY <1>1
<1>. HIDE DEF S
<1>5. Cardinality(S) # 0
    BY <1>1, <1>3, FS_EmptySet
<1>6. Cardinality(S) = 1 => S = {c}
    BY <1>1, <1>3, FS_Singleton
<1>7. Cardinality(S) # 1 => \E e \in S : e # c
    <2>1. SUFFICES ASSUME \A e \in S : e = c  PROVE  Cardinality(S) = 1
        OBVIOUS
    <2>2. S = {c}
        BY <1>1, <2>1
    <2>. QED  BY <2>2, FS_Singleton
<1>. QED  BY <1>2, <1>3, <1>4, <1>5, <1>6, <1>7 DEF S, LastOpen

LEMMA ReportCounts ==
    ASSUME NEW T, NEW E, NEW L, NEW R, MarksIn(T, E, L, R), NEW c \in R, c # Root,
           NEW count \in [Cells -> Int], PendingCounts(T, E, L, R, count),
           NEW M, NEW S,
           \A x \in T : Open(E, M, x) <=> Open(E, L, x) /\ x # c,
           \A x \in T : IsWorking(E, M, S, x) <=> IsWorking(E, L, R, x),
           NEW less, less = [count EXCEPT ![Front(c)] = @ - 1]
    PROVE  PendingCounts(T, E, M, S, less)
<1>1. T \subseteq Cells /\ Front(c) \in T /\ c \in OpenKids(T, E, L, Front(c))
    <2>1. T \subseteq Cells
        BY DEF MarksIn, TreeClosed
    <2>. QED  BY <2>1, ReportingParent
<1>2. SUFFICES ASSUME NEW p \in T, IsWorking(E, M, S, p), Kids(T, p) # {}
               PROVE  less[p] + 1 = Cardinality(OpenKids(T, E, M, p))
    BY DEF PendingCounts
<1>3. count[p] + 1 = Cardinality(OpenKids(T, E, L, p))
    BY <1>2 DEF PendingCounts
<1>4. CASE p = Front(c)
    <2>1. OpenKids(T, E, M, p) = OpenKids(T, E, L, p) \ {c}
        BY DEF OpenKids, Kids
    <2>2. IsFiniteSet(OpenKids(T, E, L, p)) /\ c \in OpenKids(T, E, L, p)
        BY <1>1, <1>4, SubsetsAreFinite DEF OpenKids, Kids
    <2>3. Cardinality(OpenKids(T, E, M, p)) = Cardinality(OpenKids(T, E, L, p)) - 1
        BY <2>1, <2>2, FS_RemoveElement
    <2>4. less[p] = count[p] - 1 /\ count[p] \in Int
        BY <1>1, <1>4
    <2>. QED  BY <1>3, <2>3, <2>4
<1>5. CASE p # Front(c)
    <2>1. \A d \in Kids(T, p) : d # c
        BY <1>1, <1>5, ChildProperties DEF Kids
    <2>2. OpenKids(T, E, M, p) = OpenKids(T, E, L, p)
        BY <2>1 DEF OpenKids, Kids
    <2>3. less[p] = count[p]
        BY <1>1, <1>5
    <2>. QED  BY <1>3, <2>2, <2>3
<1>. QED  BY <1>4, <1>5

(* A cell is collected. *)
LEMMA CollectMarks ==
    ASSUME NEW T, NEW E, NEW L, NEW R, MarksIn(T, E, L, R),
           NEW c \in L, NEW S, S = R \cup {c}
    PROVE  /\ MarksIn(T, E, L, S)
           /\ \A x \in T : IsWorking(E, L, S, x) <=> IsWorking(E, L, R, x) /\ x # c
           /\ \A count : PendingCounts(T, E, L, R, count) => PendingCounts(T, E, L, S, count)
<1>1. MarksIn(T, E, L, S)
    BY DEF MarksIn
<1>2. \A x \in T : IsWorking(E, L, S, x) <=> IsWorking(E, L, R, x) /\ x # c
    BY DEF IsWorking
<1>3. ASSUME NEW count, PendingCounts(T, E, L, R, count)
      PROVE  PendingCounts(T, E, L, S, count)
    BY <1>2, <1>3 DEF PendingCounts
<1>. QED  BY <1>1, <1>2, <1>3

(* Nothing below a late mark is open. *)
LEMMA LateMarkAlone ==
    ASSUME NEW T, NEW E, NEW L, NEW R, MarksIn(T, E, L, R), NEW c \in L
    PROVE  /\ Open(E, L, c)
           /\ c \notin R => IsWorking(E, L, R, c)
           /\ \A x \in T : IsStrictPrefix(c, x) => ~Open(E, L, x)
           /\ \A q \in Cells : IsStrictPrefix(q, c) => IsWorking(E, L, R, q)
<1>1. /\ T \subseteq Cells
      /\ E \subseteq T /\ L \subseteq T /\ R \subseteq L /\ E \cap L = {}
      /\ \A m, n \in E \cup L : IsPrefix(m, n) => m = n
    BY DEF MarksIn, TreeClosed, Antichain
<1>2. c \in Cells
    BY <1>1
<1>3. Open(E, L, c)
    BY <1>2, PrefixOrder DEF Open
<1>4. ASSUME NEW x \in T, IsStrictPrefix(c, x)
      PROVE  ~Open(E, L, x)
    <2>1. x \in Cells /\ IsPrefix(c, x) /\ c # x
        BY <1>1, <1>4 DEF IsStrictPrefix
    <2>2. ASSUME NEW m \in E \cup L, IsPrefix(x, m)
          PROVE  FALSE
        <3>1. m = c
            BY <1>1, <1>2, <2>1, <2>2, PrefixOrder
        <3>. QED  BY <1>2, <2>1, <2>2, <3>1, PrefixOrder
    <2>3. ASSUME NEW m \in E, IsPrefix(m, x)
          PROVE  FALSE
        <3>1. IsPrefix(m, c) \/ IsPrefix(c, m)
            BY <1>1, <1>2, <2>1, <2>3, PrefixOrder
        <3>. QED  BY <1>1, <3>1
    <2>. QED  BY <2>2, <2>3 DEF Open
<1>5. ASSUME NEW q \in Cells, IsStrictPrefix(q, c)
      PROVE  IsWorking(E, L, R, q)
    BY <1>1, <1>5 DEF IsWorking, Open, IsStrictPrefix
<1>. QED  BY <1>3, <1>4, <1>5 DEF IsWorking

LEMMA RootMarkAlone ==
    ASSUME NEW T, NEW E, NEW L, NEW R, MarksIn(T, E, L, R), Root \in E \cup L
    PROVE  E \cup L = {Root}
BY RootIsPrefix DEF MarksIn, TreeClosed, Antichain

(* A phase begins with a task for the root. *)
LEMMA FirstMarks ==
    ASSUME NEW T, TreeClosed(T)
    PROVE  /\ MarksIn(T, {Root}, {}, {})
           /\ \A x \in T : Open({Root}, {}, x) /\ IsWorking({Root}, {}, {}, x)
           /\ \A p \in T : OpenKids(T, {Root}, {}, p) = Kids(T, p)
<1>1. \A x \in T : Open({Root}, {}, x)
    BY RootIsPrefix DEF TreeClosed, Open
<1>2. MarksIn(T, {Root}, {}, {})
    BY DEF MarksIn, TreeClosed, Antichain
<1>3. \A p \in T : OpenKids(T, {Root}, {}, p) = Kids(T, p)
    BY <1>1 DEF OpenKids, Kids
<1>. QED  BY <1>1, <1>2, <1>3 DEF IsWorking

LEMMA NoMarks ==
    ASSUME NEW T, TreeClosed(T), NEW count
    PROVE  /\ MarksIn(T, {}, {}, {}) /\ PendingCounts(T, {}, {}, {}, count)
           /\ \A x : ~Open({}, {}, x) /\ ~IsWorking({}, {}, {}, x)
<1>1. \A x : ~Open({}, {}, x) /\ ~IsWorking({}, {}, {}, x)
    BY DEF Open, IsWorking
<1>. QED  BY <1>1 DEF MarksIn, PendingCounts, Antichain

-----------------------------------------------------------------------------
(* Sums over the workers: some order of them has partial sums that end in   *)
(* the total.                                                               *)

Partial(f, n, e, p) ==
    /\ \A w \in Worker : \E k \in 1 .. n : e[k] = w
    /\ \A i, j \in 1 .. n : e[i] = e[j] => i = j
    /\ p[0] = 0 /\ \A i \in 1 .. n : p[i] = p[i - 1] + f[e[i]]

SumIs(f, t) ==
    \E n \in Nat : \E e \in [1 .. n -> Worker], p \in [0 .. n -> Int] :
        Partial(f, n, e, p) /\ p[n] = t

LEMMA SumOfZeros ==
    ASSUME NEW f \in [Worker -> Int], \A w \in Worker : f[w] = 0
    PROVE  SumIs(f, 0)
<1>1. PICK n \in Nat : ExistsBijection(1 .. n, Worker)
    BY PoolAssumption, FS_NatBijection
<1>2. PICK e \in Bijection(1 .. n, Worker) : TRUE
    BY <1>1 DEF ExistsBijection
<1>3. /\ e \in [1 .. n -> Worker]
      /\ \A w \in Worker : \E k \in 1 .. n : e[k] = w
      /\ \A i, j \in 1 .. n : e[i] = e[j] => i = j
    BY <1>2 DEF Bijection, Injection, Surjection, IsInjective
<1>. DEFINE p == [i \in 0 .. n |-> 0]
<1>4. p \in [0 .. n -> Int] /\ p[0] = 0 /\ p[n] = 0
    OBVIOUS
<1>5. \A i \in 1 .. n : p[i] = p[i - 1] + f[e[i]]
    <2>1. SUFFICES ASSUME NEW i \in 1 .. n PROVE p[i] = p[i - 1] + f[e[i]]
        OBVIOUS
    <2>2. p[i] = 0 /\ p[i - 1] = 0
        OBVIOUS
    <2>3. f[e[i]] = 0
        BY <1>3
    <2>. QED  BY <2>2, <2>3
<1>. HIDE DEF p
<1>6. Partial(f, n, e, p)
    BY <1>3, <1>4, <1>5 DEF Partial
<1>. QED  BY <1>3, <1>4, <1>6 DEF SumIs

LEMMA SumChanges ==
    ASSUME NEW f \in [Worker -> Int], NEW t \in Int, SumIs(f, t),
           NEW w \in Worker, NEW more \in Int,
           NEW g, g = [f EXCEPT ![w] = @ + more]
    PROVE  SumIs(g, t + more)
<1>0. PICK n \in Nat : \E e \in [1 .. n -> Worker], p \in [0 .. n -> Int] :
          Partial(f, n, e, p) /\ p[n] = t
    BY DEF SumIs
<1>1. PICK e \in [1 .. n -> Worker], p \in [0 .. n -> Int] :
          Partial(f, n, e, p) /\ p[n] = t
    BY <1>0
<1>2. /\ \A v \in Worker : \E k \in 1 .. n : e[k] = v
      /\ \A i, j \in 1 .. n : e[i] = e[j] => i = j
      /\ p[0] = 0 /\ \A i \in 1 .. n : p[i] = p[i - 1] + f[e[i]]
    BY <1>1 DEF Partial
<1>3. PICK k \in 1 .. n : e[k] = w
    BY <1>2
<1>. DEFINE q == [i \in 0 .. n |-> IF i < k THEN p[i] ELSE p[i] + more]
<1>4. q \in [0 .. n -> Int]
    <2>1. \A i \in 0 .. n : p[i] \in Int /\ p[i] + more \in Int
        OBVIOUS
    <2>. QED  BY <2>1
<1>5. q[0] = 0 /\ q[n] = t + more
    <2>1. 0 \in 0 .. n /\ n \in 0 .. n /\ 0 < k /\ ~(n < k)
        OBVIOUS
    <2>. QED  BY <1>1, <1>2, <2>1
<1>6. ASSUME NEW i \in 1 .. n PROVE q[i] = q[i - 1] + g[e[i]]
    <2>1. /\ i \in 0 .. n /\ i - 1 \in 0 .. n /\ p[i] \in Int /\ p[i - 1] \in Int
          /\ e[i] \in Worker /\ f[e[i]] \in Int
        OBVIOUS
    <2>2. p[i] = p[i - 1] + f[e[i]]
        BY <1>2
    <2>3. /\ q[i] = IF i < k THEN p[i] ELSE p[i] + more
          /\ q[i - 1] = IF i - 1 < k THEN p[i - 1] ELSE p[i - 1] + more
        BY <2>1
    <2>4. CASE i = k
        <3>1. g[e[i]] = f[e[i]] + more
            BY <1>3, <2>4
        <3>2. q[i] = p[i] + more /\ q[i - 1] = p[i - 1]
            BY <2>3, <2>4
        <3>. HIDE DEF q
        <3>. QED  BY <2>1, <2>2, <3>1, <3>2
    <2>5. CASE i # k
        <3>1. e[i] # w
            BY <1>2, <1>3, <2>5
        <3>2. g[e[i]] = f[e[i]]
            BY <2>1, <3>1
        <3>3. CASE i < k
            <4>1. q[i] = p[i] /\ q[i - 1] = p[i - 1]
                BY <2>3, <3>3
            <4>. HIDE DEF q
            <4>. QED  BY <2>1, <2>2, <3>2, <4>1
        <3>4. CASE i > k
            <4>1. q[i] = p[i] + more /\ q[i - 1] = p[i - 1] + more
                BY <2>3, <3>4
            <4>. HIDE DEF q
            <4>. QED  BY <2>1, <2>2, <3>2, <4>1
        <3>. QED  BY <2>5, <3>3, <3>4
    <2>. QED  BY <2>4, <2>5
<1>. HIDE DEF q
<1>7. Partial(g, n, e, q)
    BY <1>2, <1>5, <1>6 DEF Partial
<1>. QED  BY <1>4, <1>5, <1>7 DEF SumIs

(* The least partial sum that is not zero would have a predecessor. *)
LEMMA ZeroSum ==
    ASSUME NEW f \in [Worker -> Int], NEW t \in Int, SumIs(f, t), \A w \in Worker : f[w] = 0
    PROVE  t = 0
<1>0. PICK n \in Nat : \E e \in [1 .. n -> Worker], p \in [0 .. n -> Int] :
          Partial(f, n, e, p) /\ p[n] = t
    BY DEF SumIs
<1>1. PICK e \in [1 .. n -> Worker], p \in [0 .. n -> Int] :
          Partial(f, n, e, p) /\ p[n] = t
    BY <1>0
<1>2. p[0] = 0 /\ \A i \in 1 .. n : p[i] = p[i - 1]
    <2>1. \A i \in 1 .. n : /\ p[i] = p[i - 1] + f[e[i]] /\ f[e[i]] = 0
                            /\ i - 1 \in 0 .. n /\ p[i - 1] \in Int
        BY <1>1 DEF Partial
    <2>. QED  BY <1>1, <2>1 DEF Partial
<1>. DEFINE wrong == {i \in 0 .. n : p[i] # 0}
<1>3. SUFFICES ASSUME wrong # {} PROVE FALSE
    <2>1. n \in 0 .. n
        OBVIOUS
    <2>. QED  BY <1>1, <2>1
<1>4. PICK m \in wrong : \A k \in wrong : m <= k
    <2>. DEFINE R == OpToRel(<, Nat)
    <2>1. IsWellFoundedOn(R, Nat)
        BY NatLessThanWellFounded
    <2>2. \A i, j \in Nat : i < j => <<i, j>> \in R
        BY DEF OpToRel
    <2>3. wrong \subseteq Nat
        OBVIOUS
    <2>. HIDE DEF R, wrong
    <2>4. PICK m \in wrong : \A k \in wrong : ~(<<k, m>> \in R)
        BY <1>3, <2>1, <2>3, WFMin
    <2>5. \A k \in wrong : k \in Nat /\ m \in Nat /\ ~(k < m)
        BY <2>2, <2>3, <2>4
    <2>. QED  BY <2>4, <2>5
<1>5. m \in 1 .. n /\ m - 1 \in 0 .. n /\ p[m] # 0
    BY <1>2, <1>4
<1>6. p[m - 1] = 0
    BY <1>4, <1>5
<1>. QED  BY <1>2, <1>5, <1>6

-----------------------------------------------------------------------------
(* Marks of the state *)

Building == phase \in {"build", "cancelled"}

(* The cells of the phase: those that could be built, or those that were. *)
Tree == IF Building THEN Cells ELSE {Root} \cup {c \in Cells : slot[c] = "cell"}

Unpushed(w) == {Append(Cell(w), i) : i \in at[w].next .. Arity}

EarlyOf(w) ==
    CASE Step(w) = "eval" -> {Cell(w)}
      [] Step(w) = "push" -> Unpushed(w)
      [] OTHER -> {}
LateOf(w) == IF Step(w) \in {"collect", "up"} THEN {Cell(w)} ELSE {}
RisingOf(w) == IF Step(w) = "up" THEN {Cell(w)} ELSE {}

Own(w) == EarlyOf(w) \cup LateOf(w)
Mine(w) == CellsIn(local[w]) \cup Own(w)

(* In the walk singletons wait, too, but are no part of the tree. *)
Waiting == CellsIn(tasks) \cup UNION {CellsIn(local[w]) \cup EarlyOf(w) : w \in Worker}
Early == Waiting \cap Tree
Late == UNION {LateOf(w) : w \in Worker}
Rising == UNION {RisingOf(w) : w \in Worker}

Working(c) == IsWorking(Early, Late, Rising, c)

-----------------------------------------------------------------------------
(* The inductive invariant *)

Steps == {"loop", "eval", "push", "up", "collect", "exit", "joined"}

TypesOK ==
    /\ TypeOK
    /\ tasks \in Seq(Task) /\ local \in [Worker -> Seq(Task)]
    /\ at \in [Worker -> [step : Steps, cell : Cells, next : Index, seen : SUBSET Cells]]
    /\ shape \in Shape
    /\ phase \in {"build", "walk", "end", "cancelled"}
    /\ done \in BOOLEAN /\ cancel \in BOOLEAN

(* No cell waits twice, or waits where a worker is at it, and no two        *)
(* workers are at one.                                                      *)
Unique ==
    /\ Distinct(tasks)
    /\ \A w \in Worker :
          /\ Distinct(local[w])
          /\ CellsIn(tasks) \cap Mine(w) = {}
          /\ CellsIn(local[w]) \cap Own(w) = {}
          /\ \A v \in Worker \ {w} : Mine(v) \cap Mine(w) = {}

MarksOK ==
    /\ MarksIn(Tree, Early, Late, Rising)
    /\ PendingCounts(Tree, Early, Late, Rising, pending)
    /\ \A m \in Early, x \in Waiting : ~IsStrictPrefix(m, x)
    /\ ~Building => \A x \in Waiting : x = Root \/ slot[x] # "null"
    /\ \A w \in Worker : Step(w) \in {"push", "collect"} =>
          Cell(w) \notin Leaves /\ (~Building => IsBranch(Cell(w)))

(* A phase that is over, and not cancelled, has left nothing. *)
DoneOK ==
    ~cancel /\ (done \/ \E w \in Worker : Step(w) \in {"exit", "joined"})
        => Early \cup Late = {}

(* A branch that was collected: all of its children are there and one is a  *)
(* cell.                                                                    *)
Kept(q) ==
    /\ q = Root \/ slot[q] = "cell"
    /\ \A d \in ChildrenOf(q) : d \in Cells /\ slot[d] # "null"
    /\ \E d \in ChildrenOf(q) : slot[d] = "cell"

SlotsOK ==
    /\ slot[Root] = "null"
    /\ Building => \A c \in Cells \ {Root} :
          /\ Working(c) => slot[c] = "null"
          /\ Working(Front(c)) /\ ~Working(c) => slot[c] # "null"
    /\ \A d \in Cells : slot[d] # "null" =>
          /\ \A q \in Cells : IsStrictPrefix(q, d) => Kept(q) \/ (Building /\ Working(q))
          /\ slot[d] # "cell" => AllAre(shape, d, slot[d])

WorkedOK ==
    worked = IF Building THEN {} ELSE {q \in Tree : IsBranch(q) /\ ~Working(q)}

CoreInv == TypesOK /\ Unique /\ MarksOK /\ DoneOK /\ SlotsOK /\ WorkedOK

-----------------------------------------------------------------------------
(* Tokens: what waits and what workers are at *)

LEMMA MineIsMarked ==
    ASSUME NEW w \in Worker
    PROVE  /\ CellsIn(local[w]) \subseteq Waiting /\ EarlyOf(w) \subseteq Waiting
           /\ LateOf(w) \subseteq Late /\ RisingOf(w) \subseteq Rising
           /\ RisingOf(w) \subseteq LateOf(w)
           /\ Mine(w) \subseteq Waiting \cup Late
BY DEF Waiting, Late, Rising, Mine, Own, LateOf, RisingOf

(* A worker goes from cells to cells that nobody else is at. *)
LEMMA OwnChange ==
    ASSUME Unique, NEW w \in Worker, UNCHANGED taskVars,
           \A v \in Worker \ {w} : at'[v] = at[v],
           \A x \in Own(w)' : x \in Own(w) \/ x \notin Waiting \cup Late
    PROVE  /\ Unique'
           /\ Waiting' = (Waiting \ EarlyOf(w)) \cup EarlyOf(w)'
           /\ Late' = (Late \ LateOf(w)) \cup LateOf(w)'
           /\ Rising' = (Rising \ RisingOf(w)) \cup RisingOf(w)'
<1>1. tasks' = tasks /\ local' = local
    BY DEF taskVars
<1>2. \A v \in Worker \ {w} :
          /\ EarlyOf(v)' = EarlyOf(v) /\ LateOf(v)' = LateOf(v) /\ RisingOf(v)' = RisingOf(v)
          /\ Own(v)' = Own(v) /\ Mine(v)' = Mine(v)
    BY ZenonT(60), <1>1 DEF EarlyOf, LateOf, RisingOf, Own, Mine, Step, Cell, Unpushed
<1>3. \A x \in Mine(w)' : x \in Mine(w) \/ x \notin Waiting \cup Late
    BY <1>1 DEF Mine
<1>4. \A v \in Worker : Mine(v) \subseteq Waiting \cup Late /\ CellsIn(local[v]) \subseteq Mine(v)
    BY MineIsMarked DEF Mine
<1>5. CellsIn(tasks) \subseteq Waiting
    BY DEF Waiting
<1>6. \A v, u \in Worker : v # u => Mine(v) \cap Mine(u) = {}
    BY DEF Unique
<1>7. Unique'
    <2>1. \A v \in Worker : CellsIn(tasks) \cap Mine(v)' = {}
        BY <1>2, <1>3, <1>5 DEF Unique
    <2>2. \A v \in Worker : CellsIn(local[v]) \cap Own(v)' = {}
        BY <1>2, <1>4 DEF Unique
    <2>3. \A v, u \in Worker : v # u => Mine(v)' \cap Mine(u)' = {}
        BY <1>2, <1>3, <1>4, <1>6
    <2>. QED  BY <1>1, <2>1, <2>2, <2>3 DEF Unique
<1>8. \A v \in Worker \ {w} : EarlyOf(v) \cap EarlyOf(w) = {} /\ LateOf(v) \cap LateOf(w) = {}
    BY <1>6 DEF Mine, Own
<1>9. \A v \in Worker \ {w} : CellsIn(local[v]) \cap EarlyOf(w) = {}
    BY <1>6 DEF Mine, Own
<1>10. CellsIn(local[w]) \cap EarlyOf(w) = {} /\ CellsIn(tasks) \cap EarlyOf(w) = {}
    BY DEF Unique, Mine, Own
<1>11. Waiting' = (Waiting \ EarlyOf(w)) \cup EarlyOf(w)'
    BY <1>1, <1>2, <1>8, <1>9, <1>10 DEF Waiting
<1>12. Late' = (Late \ LateOf(w)) \cup LateOf(w)'
    BY <1>2, <1>8 DEF Late
<1>13. Rising' = (Rising \ RisingOf(w)) \cup RisingOf(w)'
    <2>1. \A v \in Worker : RisingOf(v) \subseteq LateOf(v)
        BY MineIsMarked
    <2>. QED  BY <1>2, <1>8, <2>1 DEF Rising
<1>. QED  BY <1>7, <1>11, <1>12, <1>13

(* Taking a task moves it from a stack to the worker. *)
LEMMA TakeTokens ==
    ASSUME TypesOK, Unique, NEW w \in Worker, Take(w)
    PROVE  /\ Unique' /\ Waiting' = Waiting /\ Late' = Late /\ Rising' = Rising
           /\ Range(tasks') \subseteq Range(tasks) /\ tasks' \in Seq(Task)
           /\ \A v \in Worker : Range(local'[v]) \subseteq Range(local[v])
           /\ local' \in [Worker -> Seq(Task)]
           /\ \E task \in Range(tasks) \cup Range(local[w]) : task \in Task /\ TakeInto(w, task)
<1>1. /\ tasks \in Seq(Task) /\ local \in [Worker -> Seq(Task)]
      /\ at \in [Worker -> [step : Steps, cell : Cells, next : Index, seen : SUBSET Cells]]
    BY DEF TypesOK
<1>2. Own(w) = {} /\ EarlyOf(w) = {} /\ LateOf(w) = {} /\ RisingOf(w) = {}
    BY DEF Take, Own, EarlyOf, LateOf, RisingOf
<1>3. \A v, u \in Worker : v # u => Mine(v) \cap Mine(u) = {}
    BY DEF Unique
<1>4. ASSUME NEW task \in Task, TakeInto(w, task)
      PROVE  /\ \A v \in Worker \ {w} : at'[v] = at[v]
             /\ \A v \in Worker \ {w} : /\ EarlyOf(v)' = EarlyOf(v)
                                        /\ LateOf(v)' = LateOf(v) /\ RisingOf(v)' = RisingOf(v)
                                        /\ Own(v)' = Own(v)
             /\ EarlyOf(w)' = {task.cell} /\ LateOf(w)' = {} /\ RisingOf(w)' = {}
             /\ Own(w)' = {task.cell}
    <2>1. \A v \in Worker \ {w} : at'[v] = at[v]
        BY <1>1, <1>4 DEF TakeInto
    <2>2. at'[w].step = "eval" /\ at'[w].cell = task.cell
        BY <1>1, <1>4 DEF TakeInto
    <2>. QED  BY <2>1, <2>2 DEF EarlyOf, LateOf, RisingOf, Own, Step, Cell, Unpushed
<1>5. CASE /\ local[w] # <<>>
           /\ TakeInto(w, Last(local[w]))
           /\ local' = [local EXCEPT ![w] = Front(@)]
           /\ UNCHANGED tasks
    <2>. DEFINE s == local[w]
    <2>1. /\ Front(s) \in Seq(Task) /\ Last(s) \in Task /\ Last(s) \in Range(s)
          /\ Range(Front(s)) \subseteq Range(s)
          /\ CellsIn(s) = CellsIn(Front(s)) \cup {Last(s).cell}
          /\ Distinct(s) => Distinct(Front(s)) /\ Last(s).cell \notin CellsIn(Front(s))
        BY <1>1, <1>5, StackFront
    <2>2. local'[w] = Front(s) /\ \A v \in Worker \ {w} : local'[v] = local[v]
        BY <1>1, <1>5
    <2>3. local' \in [Worker -> Seq(Task)]
        BY <1>1, <1>5, <2>1
    <2>4. Distinct(s)
        BY DEF Unique
    <2>. HIDE DEF s
    <2>5. Mine(w)' = Mine(w)
        BY <1>2, <1>4, <1>5, <2>1, <2>2 DEF Mine, s
    <2>6. \A v \in Worker \ {w} : Mine(v)' = Mine(v)
        BY <1>4, <1>5, <2>1, <2>2 DEF Mine, s
    <2>7. \A v \in Worker : Mine(v)' = Mine(v)
        BY <2>5, <2>6
    <2>8. tasks' = tasks /\ \A v \in Worker : CellsIn(tasks') \cap Mine(v)' = {}
        BY <1>5, <2>7 DEF Unique
    <2>9. \A v \in Worker : CellsIn(local'[v]) \cap Own(v)' = {}
        <3>1. CellsIn(local'[w]) \cap Own(w)' = {}
            BY <1>4, <1>5, <2>1, <2>2, <2>4 DEF s
        <3>2. \A v \in Worker \ {w} : CellsIn(local'[v]) \cap Own(v)' = {}
            BY <1>4, <1>5, <2>1, <2>2 DEF Unique, s
        <3>. QED  BY <3>1, <3>2
    <2>10. \A v \in Worker : Distinct(local'[v])
        BY <2>1, <2>2, <2>4 DEF Unique
    <2>11. Unique'
        BY <1>3, <2>7, <2>8, <2>9, <2>10 DEF Unique
    <2>12. \A v \in Worker : CellsIn(local'[v]) \cup EarlyOf(v)' = CellsIn(local[v]) \cup EarlyOf(v)
        <3>1. CellsIn(local'[w]) \cup EarlyOf(w)' = CellsIn(local[w]) \cup EarlyOf(w)
            BY <1>2, <1>4, <1>5, <2>1, <2>2 DEF s
        <3>2. \A v \in Worker \ {w} :
                  CellsIn(local'[v]) \cup EarlyOf(v)' = CellsIn(local[v]) \cup EarlyOf(v)
            BY <1>4, <1>5, <2>1, <2>2 DEF s
        <3>. QED  BY <3>1, <3>2
    <2>13. Waiting' = Waiting
        BY <2>8, <2>12 DEF Waiting
    <2>14. Late' = Late /\ Rising' = Rising
        BY <1>2, <1>4, <1>5, <2>1 DEF Late, Rising, s
    <2>15. \A v \in Worker : Range(local'[v]) \subseteq Range(local[v])
        BY <2>1, <2>2 DEF s
    <2>. QED  BY <1>1, <1>5, <2>1, <2>3, <2>8, <2>11, <2>13, <2>14, <2>15 DEF s
<1>6. CASE /\ tasks # <<>>
           /\ TakeInto(w, Last(tasks))
           /\ tasks' = Front(tasks)
           /\ UNCHANGED local
    <2>1. /\ Front(tasks) \in Seq(Task) /\ Last(tasks) \in Task /\ Last(tasks) \in Range(tasks)
          /\ Range(Front(tasks)) \subseteq Range(tasks)
          /\ CellsIn(tasks) = CellsIn(Front(tasks)) \cup {Last(tasks).cell}
          /\ Distinct(tasks) => Distinct(Front(tasks)) /\ Last(tasks).cell \notin CellsIn(Front(tasks))
        BY <1>1, <1>6, StackFront
    <2>2. Distinct(tasks)
        BY DEF Unique
    <2>. DEFINE c == Last(tasks).cell
    <2>3. /\ CellsIn(tasks) = CellsIn(tasks') \cup {c} /\ c \notin CellsIn(tasks')
          /\ Distinct(tasks')
        BY <1>6, <2>1, <2>2
    <2>4. Own(w)' = {c} /\ EarlyOf(w)' = {c}
        BY <1>4, <1>6, <2>1
    <2>. HIDE DEF c
    <2>5. Mine(w)' = Mine(w) \cup {c} /\ local' = local
        BY <1>2, <1>6, <2>4 DEF Mine
    <2>6. \A v \in Worker \ {w} : Mine(v)' = Mine(v)
        BY <1>4, <1>6, <2>1 DEF Mine
    <2>7. \A v \in Worker : c \notin Mine(v) /\ c \notin CellsIn(local[v])
        BY <2>3 DEF Unique, Mine
    <2>8. \A v \in Worker : CellsIn(tasks') \cap Mine(v)' = {}
        BY <2>3, <2>5, <2>6 DEF Unique
    <2>9. \A v \in Worker : CellsIn(local'[v]) \cap Own(v)' = {}
        <3>1. CellsIn(local'[w]) \cap Own(w)' = {}
            BY <2>4, <2>5, <2>7
        <3>2. \A v \in Worker \ {w} : CellsIn(local'[v]) \cap Own(v)' = {}
            BY <1>4, <1>6, <2>1 DEF Unique
        <3>. QED  BY <3>1, <3>2
    <2>10. \A v, u \in Worker : v # u => Mine(v)' \cap Mine(u)' = {}
        BY <1>3, <2>5, <2>6, <2>7
    <2>11. \A v \in Worker : Distinct(local'[v])
        BY <2>5 DEF Unique
    <2>12. Unique'
        BY <2>3, <2>8, <2>9, <2>10, <2>11 DEF Unique
    <2>13. \A v \in Worker \ {w} : EarlyOf(v)' = EarlyOf(v)
        BY <1>4, <1>6, <2>1
    <2>14. Waiting' = Waiting
        BY <1>2, <2>3, <2>4, <2>5, <2>13 DEF Waiting
    <2>15. Late' = Late /\ Rising' = Rising
        BY <1>2, <1>4, <1>6, <2>1 DEF Late, Rising
    <2>. QED  BY <1>1, <1>6, <2>1, <2>5, <2>12, <2>14, <2>15
<1>. QED  BY <1>5, <1>6 DEF Take

LEMMA UnpushedCells ==
    ASSUME TypesOK, NEW w \in Worker, Cell(w) \notin Leaves
    PROVE  /\ Unpushed(w) \subseteq ChildrenOf(Cell(w)) /\ Unpushed(w) \subseteq Cells
           /\ Append(Cell(w), at[w].next) \in Unpushed(w)
           /\ Cell(w) \in Cells /\ at[w].next \in Index
           /\ at[w].next = 1 => Unpushed(w) = ChildrenOf(Cell(w))
<1>1. Cell(w) \in Cells /\ at[w].next \in Index
    BY DEF TypesOK, Cell
<1>2. Unpushed(w) \subseteq ChildrenOf(Cell(w))
    BY <1>1 DEF Unpushed, ChildrenOf, Index
<1>3. \A d \in ChildrenOf(Cell(w)) : d \in Cells
    BY <1>1, ChildProperties
<1>4. Append(Cell(w), at[w].next) \in Unpushed(w)
    BY <1>1, PoolAssumption DEF Unpushed, Index
<1>5. at[w].next = 1 => Unpushed(w) = ChildrenOf(Cell(w))
    BY DEF Unpushed, ChildrenOf, Index
<1>. QED  BY <1>1, <1>2, <1>3, <1>4, <1>5

(* Handing out a child moves it from the worker to a stack. *)
LEMMA PushTokens ==
    ASSUME TypesOK, Unique, NEW w \in Worker, Step(w) = "push", Cell(w) \notin Leaves,
           NEW d, d = Append(Cell(w), at[w].next),
           NEW seen \in SUBSET Cells, PushTask(w, [cell |-> d, seen |-> seen]),
           IF at[w].next < Arity THEN at' = [at EXCEPT ![w].next = @ + 1]
           ELSE Go(w, "loop", Cell(w))
    PROVE  /\ Unique' /\ Waiting' = Waiting /\ Late' = Late /\ Rising' = Rising
           /\ tasks' \in Seq(Task) /\ local' \in [Worker -> Seq(Task)]
           /\ at' \in [Worker -> [step : Steps, cell : Cells, next : Index, seen : SUBSET Cells]]
           /\ Range(tasks') \subseteq Range(tasks) \cup {[cell |-> d, seen |-> seen]}
           /\ \A v \in Worker : Range(local'[v]) \subseteq
                                    Range(local[v]) \cup {[cell |-> d, seen |-> seen]}
           /\ \A v \in Worker \ {w} : at'[v] = at[v]
           /\ at'[w].cell = at[w].cell /\ at'[w].seen = at[w].seen
           /\ d \in EarlyOf(w) /\ EarlyOf(w)' = EarlyOf(w) \ {d} /\ at'[w].step \in {"push", "loop"}
<1>1. /\ tasks \in Seq(Task) /\ local \in [Worker -> Seq(Task)]
      /\ at \in [Worker -> [step : Steps, cell : Cells, next : Index, seen : SUBSET Cells]]
    BY DEF TypesOK
<1>2. Cell(w) \in Cells /\ at[w].next \in Index /\ d \in Unpushed(w) /\ d \in Cells
    BY UnpushedCells
<1>3. EarlyOf(w) = Unpushed(w) /\ LateOf(w) = {} /\ RisingOf(w) = {}
    BY DEF EarlyOf, LateOf, RisingOf
<1>4. /\ at' \in [Worker -> [step : Steps, cell : Cells, next : Index, seen : SUBSET Cells]]
      /\ \A v \in Worker \ {w} : at'[v] = at[v]
      /\ at'[w].cell = at[w].cell /\ at'[w].seen = at[w].seen
    <2>1. CASE at[w].next < Arity
        <3>1. at' = [at EXCEPT ![w].next = @ + 1]
            BY <2>1
        <3>2. at[w].next + 1 \in Index
            BY <1>2, <2>1, PoolAssumption DEF Index
        <3>. QED  BY <1>1, <3>1, <3>2
    <2>2. CASE ~(at[w].next < Arity)
        <3>1. at' = [at EXCEPT ![w].step = "loop", ![w].cell = Cell(w), ![w].next = 1]
            BY <2>2 DEF Go
        <3>2. 1 \in Index /\ "loop" \in Steps
            BY PoolAssumption DEF Index, Steps
        <3>. QED  BY <1>1, <3>1, <3>2 DEF Cell
    <2>. QED  BY <2>1, <2>2
<1>5. LateOf(w)' = {} /\ RisingOf(w)' = {} /\ EarlyOf(w)' = Unpushed(w) \ {d} /\ at'[w].step \in {"push", "loop"}
    <2>1. \A i, j \in Index : Append(Cell(w), i) = Append(Cell(w), j) => i = j
        BY <1>2, CellIsSequence, AppendInjective
    <2>2. CASE at[w].next < Arity
        <3>1. at'[w].step = "push" /\ at'[w].next = at[w].next + 1 /\ at'[w].cell = Cell(w)
            BY <1>1, <2>2 DEF Step, Cell
        <3>2. \A i : i \in at[w].next + 1 .. Arity <=> i \in at[w].next .. Arity /\ i # at[w].next
            BY <1>2, PoolAssumption DEF Index
        <3>3. {Append(Cell(w), i) : i \in at[w].next + 1 .. Arity} = Unpushed(w) \ {d}
            <4>1. \A i \in at[w].next .. Arity : i \in Index
                BY <1>2, PoolAssumption DEF Index
            <4>. QED  BY <1>2, <2>1, <3>2, <4>1 DEF Unpushed
        <3>4. Unpushed(w)' = Unpushed(w) \ {d}
            BY <3>1, <3>3 DEF Unpushed, Cell
        <3>. QED  BY <3>1, <3>4 DEF EarlyOf, LateOf, RisingOf, Step
    <2>3. CASE ~(at[w].next < Arity)
        <3>1. at'[w].step = "loop"
            BY <1>1, <2>3 DEF Go
        <3>2. at[w].next = Arity
            BY <1>2, <2>3, PoolAssumption DEF Index
        <3>3. Unpushed(w) = {d}
            BY <3>2, PoolAssumption DEF Unpushed
        <3>. QED  BY <3>1, <3>3 DEF EarlyOf, LateOf, RisingOf, Step
    <2>. QED  BY <2>2, <2>3
<1>6. \A v \in Worker \ {w} : /\ EarlyOf(v)' = EarlyOf(v) /\ Own(v)' = Own(v)
                              /\ LateOf(v)' = LateOf(v) /\ RisingOf(v)' = RisingOf(v)
    <2>1. SUFFICES ASSUME NEW v \in Worker \ {w}
                   PROVE  /\ EarlyOf(v)' = EarlyOf(v) /\ Own(v)' = Own(v)
                          /\ LateOf(v)' = LateOf(v) /\ RisingOf(v)' = RisingOf(v)
        OBVIOUS
    <2>2. Step(v)' = Step(v) /\ Cell(v)' = Cell(v) /\ Unpushed(v)' = Unpushed(v)
        BY <1>4 DEF Step, Cell, Unpushed
    <2>3. EarlyOf(v)' = EarlyOf(v) /\ LateOf(v)' = LateOf(v) /\ RisingOf(v)' = RisingOf(v)
        BY <2>2 DEF EarlyOf, LateOf, RisingOf
    <2>. QED  BY <2>3 DEF Own
<1>7. Own(w) = Unpushed(w) /\ Own(w)' = Own(w) \ {d} /\ EarlyOf(w)' = EarlyOf(w) \ {d} /\ d \in Own(w)
    BY <1>2, <1>3, <1>5 DEF Own
<1>8. Late' = Late /\ Rising' = Rising
    BY <1>3, <1>5, <1>6 DEF Late, Rising
<1>. DEFINE task == [cell |-> d, seen |-> seen]
<1>9. task \in Task /\ task.cell = d
    BY <1>2 DEF Task
<1>10. /\ \A v, u \in Worker : v # u => Mine(v) \cap Mine(u) = {}
       /\ \A v \in Worker : CellsIn(tasks) \cap Mine(v) = {}
    BY DEF Unique
<1>11. d \in Mine(w) /\ d \notin CellsIn(tasks) /\ d \notin CellsIn(local[w])
    BY <1>7 DEF Mine, Unique
<1>12. Waiting = CellsIn(tasks) \cup UNION {CellsIn(local[v]) \cup EarlyOf(v) : v \in Worker}
    BY DEF Waiting
<1>. HIDE DEF task
<1>13. CASE tasks' = Append(tasks, task) /\ UNCHANGED local
    <2>1. /\ tasks' \in Seq(Task) /\ Range(tasks') = Range(tasks) \cup {task}
          /\ CellsIn(tasks') = CellsIn(tasks) \cup {d}
          /\ Distinct(tasks) /\ d \notin CellsIn(tasks) => Distinct(tasks')
        BY ZenonT(60), <1>1, <1>9, <1>13, StackAppend
    <2>0. CellsIn(tasks') = CellsIn(tasks) \cup {d}
        BY <2>1
    <2>2. Mine(w)' \subseteq Mine(w) /\ d \notin Mine(w)'
        BY <1>7, <1>11, <1>13 DEF Mine
    <2>3. \A v \in Worker \ {w} : Mine(v)' = Mine(v) /\ d \notin Mine(v)
        BY <1>6, <1>10, <1>11, <1>13 DEF Mine
    <2>4. \A v \in Worker : CellsIn(tasks') \cap Mine(v)' = {}
        <3>1. CellsIn(tasks') \cap Mine(w)' = {}
            BY <1>10, <2>0, <2>2
        <3>2. \A v \in Worker \ {w} : CellsIn(tasks') \cap Mine(v)' = {}
            <4>1. SUFFICES ASSUME NEW v \in Worker \ {w}
                           PROVE  CellsIn(tasks') \cap Mine(v)' = {}
                OBVIOUS
            <4>2. Mine(v)' = Mine(v) /\ d \notin Mine(v) /\ CellsIn(tasks) \cap Mine(v) = {}
                BY <1>10, <2>3
            <4>. QED  BY <2>0, <4>2
        <3>. QED  BY <3>1, <3>2
    <2>5. \A v \in Worker : CellsIn(local'[v]) \cap Own(v)' = {}
        BY <1>6, <1>7, <1>13 DEF Unique
    <2>6. \A v, u \in Worker : v # u => Mine(v)' \cap Mine(u)' = {}
        BY <1>10, <2>2, <2>3
    <2>7. Unique'
        BY <1>11, <1>13, <2>1, <2>4, <2>5, <2>6 DEF Unique
    <2>8. Waiting' = Waiting
        <3>1. \A v \in Worker \ {w} : CellsIn(local'[v]) \cup EarlyOf(v)' = CellsIn(local[v]) \cup EarlyOf(v)
            BY <1>6, <1>13
        <3>2. CellsIn(local'[w]) \cup EarlyOf(w)' \cup {d} = CellsIn(local[w]) \cup EarlyOf(w)
            BY <1>2, <1>3, <1>7, <1>13
        <3>3. (UNION {CellsIn(local'[v]) \cup EarlyOf(v)' : v \in Worker}) \cup {d}
                = UNION {CellsIn(local[v]) \cup EarlyOf(v) : v \in Worker}
            BY <3>1, <3>2
        <3>. QED  BY <2>0, <3>3 DEF Waiting
    <2>. QED  BY <1>1, <1>3, <1>4, <1>5, <1>7, <1>8, <1>13, <2>1, <2>7, <2>8 DEF task
<1>14. CASE local' = [local EXCEPT ![w] = Append(@, task)] /\ UNCHANGED tasks
    <2>1. /\ local'[w] = Append(local[w], task) /\ \A v \in Worker \ {w} : local'[v] = local[v]
        BY <1>1, <1>14
    <2>2. /\ local'[w] \in Seq(Task) /\ Range(local'[w]) = Range(local[w]) \cup {task}
          /\ CellsIn(local'[w]) = CellsIn(local[w]) \cup {d}
          /\ Distinct(local[w]) /\ d \notin CellsIn(local[w]) => Distinct(local'[w])
        <3>. DEFINE s == local[w]
        <3>1. s \in Seq(Task) /\ local'[w] = Append(s, task)
            BY <1>1, <2>1
        <3>. HIDE DEF s
        <3>2. /\ Append(s, task) \in Seq(Task) /\ Range(Append(s, task)) = Range(s) \cup {task}
              /\ CellsIn(Append(s, task)) = CellsIn(s) \cup {task.cell}
              /\ Distinct(s) /\ task.cell \notin CellsIn(s) => Distinct(Append(s, task))
            <4>1. s \in Seq(Task) /\ task \in Task
                BY <3>1, <1>9
            <4>. QED  BY <4>1, StackAppend
        <3>. QED  BY <1>9, <3>1, <3>2 DEF s
    <2>3. local' \in [Worker -> Seq(Task)]
        BY <1>1, <1>14, <2>1, <2>2
    <2>4. Mine(w)' = Mine(w)
        BY <1>7, <2>2 DEF Mine
    <2>5. \A v \in Worker \ {w} : Mine(v)' = Mine(v)
        BY <1>6, <2>1 DEF Mine
    <2>6. \A v \in Worker : Mine(v)' = Mine(v)
        BY <2>4, <2>5
    <2>7. \A v \in Worker : CellsIn(local'[v]) \cap Own(v)' = {}
        BY <1>6, <1>7, <2>1, <2>2 DEF Unique
    <2>8. \A v \in Worker : Distinct(local'[v])
        BY <1>11, <2>1, <2>2 DEF Unique
    <2>9. tasks' = tasks
        BY <1>14
    <2>10. Unique'
        BY <1>10, <2>6, <2>7, <2>8, <2>9 DEF Unique
    <2>11. CellsIn(local'[w]) \cup EarlyOf(w)' = CellsIn(local[w]) \cup EarlyOf(w)
        BY <1>7, <1>3, <2>2
    <2>12. Waiting' = Waiting
        BY <1>6, <2>1, <2>9, <2>11 DEF Waiting
    <2>13. \A v \in Worker : Range(local'[v]) \subseteq Range(local[v]) \cup {task}
        BY <2>1, <2>2
    <2>. QED  BY <1>1, <1>3, <1>4, <1>5, <1>7, <1>8, <2>3, <2>9, <2>10, <2>12, <2>13 DEF task
<1>. QED  BY <1>13, <1>14 DEF PushTask, task

-----------------------------------------------------------------------------
(* Marks: what the steps of a worker do to them *)

(* In the walk the slots are as they are. *)
Frame == phase' = phase /\ (Building \/ UNCHANGED slot)

LEMMA FrameKeeps ==
    ASSUME Frame
    PROVE  /\ Building' = Building /\ Tree' = Tree
           /\ ~Building => \A c : IsBranch(c)' = IsBranch(c)
BY DEF Frame, Building, Tree, IsBranch

LEMMA TreeFacts ==
    ASSUME TypesOK
    PROVE  Tree \subseteq Cells /\ Root \in Tree /\ (Building => Tree = Cells)
BY RootIsPrefix DEF Tree

LEMMA MarksFacts ==
    ASSUME TypesOK, MarksOK
    PROVE  /\ MarksIn(Tree, Early, Late, Rising) /\ TreeClosed(Tree)
           /\ Early \subseteq Tree /\ Late \subseteq Tree /\ Rising \subseteq Late
           /\ Early \cap Late = {} /\ Waiting \cap Late = {}
           /\ \A m, n \in Early \cup Late : IsPrefix(m, n) => m = n
           /\ Tree \subseteq Cells
<1>1. MarksIn(Tree, Early, Late, Rising)
    BY DEF MarksOK
<1>2. /\ TreeClosed(Tree) /\ Early \subseteq Tree /\ Late \subseteq Tree /\ Rising \subseteq Late
      /\ Early \cap Late = {}
      /\ \A m, n \in Early \cup Late : IsPrefix(m, n) => m = n
    BY <1>1 DEF MarksIn, Antichain
<1>3. Waiting \cap Late = {}
    BY <1>2 DEF Early
<1>. QED  BY <1>1, <1>2, <1>3, TreeFacts

LEMMA MarksAt ==
    ASSUME TypesOK, Unique, NEW w \in Worker
    PROVE  /\ Cell(w) \in Cells
           /\ Step(w) = "eval" =>
                 EarlyOf(w) = {Cell(w)} /\ LateOf(w) = {} /\ RisingOf(w) = {} /\ Cell(w) \in Waiting
           /\ Step(w) = "push" =>
                 EarlyOf(w) = Unpushed(w) /\ LateOf(w) = {} /\ RisingOf(w) = {}
           /\ Step(w) = "collect" =>
                 /\ EarlyOf(w) = {} /\ LateOf(w) = {Cell(w)} /\ RisingOf(w) = {}
                 /\ Cell(w) \in Late \ Rising
           /\ Step(w) = "up" =>
                 /\ EarlyOf(w) = {} /\ LateOf(w) = {Cell(w)} /\ RisingOf(w) = {Cell(w)}
                 /\ Cell(w) \in Late /\ Cell(w) \in Rising
           /\ Step(w) \in {"loop", "exit", "joined"} =>
                 EarlyOf(w) = {} /\ LateOf(w) = {} /\ RisingOf(w) = {}
<1>1. Cell(w) \in Cells
    BY DEF TypesOK, Cell
<1>2. ASSUME Step(w) = "collect"  PROVE  Cell(w) \notin Rising
    <2>1. SUFFICES ASSUME NEW v \in Worker, Cell(w) \in RisingOf(v)  PROVE  FALSE
        BY DEF Rising
    <2>2. v # w
        BY <1>2, <2>1 DEF RisingOf
    <2>3. Cell(w) \in Mine(v) /\ Cell(w) \in Mine(w)
        BY <1>2, <2>1 DEF Mine, Own, RisingOf, LateOf
    <2>. QED  BY <2>2, <2>3 DEF Unique
<1>3. Step(w) = "eval" =>
         EarlyOf(w) = {Cell(w)} /\ LateOf(w) = {} /\ RisingOf(w) = {}
    BY DEF EarlyOf, LateOf, RisingOf
<1>4. Step(w) = "push" => EarlyOf(w) = Unpushed(w) /\ LateOf(w) = {} /\ RisingOf(w) = {}
    BY DEF EarlyOf, LateOf, RisingOf
<1>5. Step(w) = "collect" => EarlyOf(w) = {} /\ LateOf(w) = {Cell(w)} /\ RisingOf(w) = {}
    BY DEF EarlyOf, LateOf, RisingOf
<1>6. Step(w) = "up" => EarlyOf(w) = {} /\ LateOf(w) = {Cell(w)} /\ RisingOf(w) = {Cell(w)}
    BY DEF EarlyOf, LateOf, RisingOf
<1>7. Step(w) \in {"loop", "exit", "joined"} =>
         EarlyOf(w) = {} /\ LateOf(w) = {} /\ RisingOf(w) = {}
    BY DEF EarlyOf, LateOf, RisingOf
<1>. QED  BY <1>1, <1>2, <1>3, <1>4, <1>5, <1>6, <1>7, MineIsMarked

LEMMA WaitingAreCells ==
    ASSUME TypesOK, MarksOK
    PROVE  Waiting \subseteq Cells
<1>1. \A s \in Seq(Task) : CellsIn(s) \subseteq Cells
    <2>1. SUFFICES ASSUME NEW s \in Seq(Task), NEW i \in DOMAIN s
                   PROVE  s[i].cell \in Cells
        BY DEF CellsIn, Range
    <2>2. s[i] \in Task
        BY <2>1
    <2>. QED  BY <2>2 DEF Task
<1>2. CellsIn(tasks) \subseteq Cells /\ \A w \in Worker : CellsIn(local[w]) \subseteq Cells
    BY <1>1 DEF TypesOK
<1>3. ASSUME NEW w \in Worker
      PROVE  EarlyOf(w) \subseteq Cells
    <2>1. CASE Step(w) = "push"
        BY <2>1, UnpushedCells DEF MarksOK, EarlyOf
    <2>2. CASE Step(w) # "push"
        BY <2>2 DEF TypesOK, EarlyOf, Cell
    <2>. QED  BY <2>1, <2>2
<1>. QED  BY <1>2, <1>3 DEF Waiting

(* Where a worker goes. *)
LEMMA GoTo ==
    ASSUME TypesOK, NEW w \in Worker, NEW step \in Steps, NEW c \in Cells, Go(w, step, c)
    PROVE  /\ at' \in [Worker -> [step : Steps, cell : Cells, next : Index, seen : SUBSET Cells]]
           /\ \A v \in Worker \ {w} : at'[v] = at[v]
           /\ at'[w].step = step /\ at'[w].cell = c /\ at'[w].next = 1 /\ at'[w].seen = at[w].seen
           /\ step = "push" /\ c \notin Leaves => EarlyOf(w)' = ChildrenOf(c)
           /\ step # "push" => EarlyOf(w)' = IF step = "eval" THEN {c} ELSE {}
           /\ LateOf(w)' = IF step \in {"collect", "up"} THEN {c} ELSE {}
           /\ RisingOf(w)' = IF step = "up" THEN {c} ELSE {}
<1>1. /\ at \in [Worker -> [step : Steps, cell : Cells, next : Index, seen : SUBSET Cells]]
      /\ at' = [at EXCEPT ![w].step = step, ![w].cell = c, ![w].next = 1]
    BY DEF TypesOK, Go
<1>2. 1 \in Index
    BY PoolAssumption DEF Index
<1>3. /\ at' \in [Worker -> [step : Steps, cell : Cells, next : Index, seen : SUBSET Cells]]
      /\ \A v \in Worker \ {w} : at'[v] = at[v]
      /\ at'[w].step = step /\ at'[w].cell = c /\ at'[w].next = 1 /\ at'[w].seen = at[w].seen
    BY <1>1, <1>2
<1>4. Unpushed(w)' = ChildrenOf(c)
    BY <1>3 DEF Unpushed, ChildrenOf, Cell, Index
<1>. QED  BY <1>3, <1>4 DEF EarlyOf, LateOf, RisingOf, Step, Cell

Neutral == {"loop", "exit", "joined"}

(* A step that moves no mark. *)
LEMMA SameMarks ==
    ASSUME TypesOK, MarksOK, Frame, Waiting' = Waiting, Late' = Late, Rising' = Rising,
           PendingCounts(Tree, Early, Late, Rising, pending'),
           \A v \in Worker : at'[v].step \in {"push", "collect"} =>
               at'[v].step = at[v].step /\ at'[v].cell = at[v].cell
    PROVE  MarksOK' /\ Early' = Early /\ \A x : Working(x)' = Working(x)
<1>1. Building' = Building /\ Tree' = Tree /\ (~Building => \A c : IsBranch(c)' = IsBranch(c))
    BY FrameKeeps
<1>2. Early' = Early
    BY <1>1 DEF Early
<1>3. ~Building => slot' = slot
    BY DEF Frame
<1>4. ASSUME NEW v \in Worker, Step(v)' \in {"push", "collect"}
      PROVE  Cell(v)' \notin Leaves /\ (~Building' => IsBranch(Cell(v))')
    <2>1. Step(v) \in {"push", "collect"} /\ Cell(v)' = Cell(v)
        BY <1>4 DEF Step, Cell
    <2>2. Cell(v) \notin Leaves /\ (~Building => IsBranch(Cell(v)))
        BY <2>1 DEF MarksOK
    <2>. QED  BY <1>1, <2>1, <2>2, <1>3 DEF IsBranch
<1>5. MarksIn(Tree', Early', Late', Rising') /\ PendingCounts(Tree', Early', Late', Rising', pending')
    BY <1>1, <1>2 DEF MarksOK
<1>6. /\ \A m \in Early', x \in Waiting' : ~IsStrictPrefix(m, x)
      /\ ~Building' => \A x \in Waiting' : x = Root \/ slot'[x] # "null"
    BY <1>1, <1>2, <1>3 DEF MarksOK
<1>7. MarksOK'
    BY <1>4, <1>5, <1>6 DEF MarksOK
<1>. QED  BY <1>2, <1>7 DEF Working

(* The other workers are at branches as before. *)
LEMMA StepsKeep ==
    ASSUME TypesOK, MarksOK, Frame, NEW w \in Worker, \A v \in Worker \ {w} : at'[v] = at[v],
           at'[w].step \in {"push", "collect"} =>
               at'[w].cell \notin Leaves /\ (~Building => IsBranch(at'[w].cell))
    PROVE  \A v \in Worker : Step(v)' \in {"push", "collect"} =>
              Cell(v)' \notin Leaves /\ (~Building' => IsBranch(Cell(v))')
<1>1. Building' = Building
    BY FrameKeeps
<1>2. ~Building => slot' = slot
    BY DEF Frame
<1>3. \A v \in Worker : Step(v) \in {"push", "collect"} =>
              Cell(v) \notin Leaves /\ (~Building => IsBranch(Cell(v)))
    BY DEF MarksOK
<1>4. SUFFICES ASSUME NEW v \in Worker, Step(v)' \in {"push", "collect"}
               PROVE  Cell(v)' \notin Leaves /\ (~Building' => IsBranch(Cell(v))')
    OBVIOUS
<1>5. CASE v = w
    BY <1>1, <1>2, <1>4, <1>5 DEF Step, Cell, IsBranch
<1>6. CASE v # w
    <2>1. Step(v)' = Step(v) /\ Cell(v)' = Cell(v)
        BY <1>6 DEF Step, Cell
    <2>. QED  BY <1>1, <1>2, <1>3, <1>4, <2>1 DEF IsBranch
<1>. QED  BY <1>5, <1>6

(* A cell is looked into, and has children. *)
LEMMA SplitMarks ==
    ASSUME TypesOK, Unique, MarksOK, Frame, NEW w \in Worker, Step(w) = "eval",
           NEW c, c = Cell(w), c \in Tree, c \notin Leaves, Kids(Tree, c) # {},
           ~Building => IsBranch(c) /\ \A d \in ChildrenOf(c) : slot[d] # "null",
           Go(w, "push", c), UNCHANGED <<taskVars, pending>>
    PROVE  /\ Unique' /\ MarksOK'
           /\ \A x \in Tree : Working(x)' = Working(x)
           /\ Waiting' = (Waiting \ {c}) \cup ChildrenOf(c)
           /\ c \in Early /\ Early' = (Early \ {c}) \cup Kids(Tree, c)
           /\ Late' = Late /\ Rising' = Rising
<1>1. /\ MarksIn(Tree, Early, Late, Rising)
      /\ Early \subseteq Tree /\ Late \subseteq Tree /\ Rising \subseteq Late
      /\ Early \cap Late = {} /\ Waiting \cap Late = {} /\ Tree \subseteq Cells
      /\ \A m, n \in Early \cup Late : IsPrefix(m, n) => m = n
    BY MarksFacts
<1>2. EarlyOf(w) = {c} /\ LateOf(w) = {} /\ RisingOf(w) = {} /\ c \in Waiting /\ c \in Cells
    BY MarksAt
<1>3. /\ \A v \in Worker \ {w} : at'[v] = at[v]
      /\ at'[w].step = "push" /\ at'[w].cell = c
      /\ EarlyOf(w)' = ChildrenOf(c) /\ LateOf(w)' = {} /\ RisingOf(w)' = {}
    BY <1>2, GoTo DEF Steps
<1>4. c \in Early
    BY <1>2 DEF Early
<1>5. \A d \in ChildrenOf(c) : d \in Cells /\ IsStrictPrefix(c, d)
    BY <1>2, ChildProperties
<1>6. \A d \in ChildrenOf(c) : d \notin Waiting \cup Late
    <2>1. \A d \in ChildrenOf(c) : d \notin Waiting
        BY <1>4, <1>5 DEF MarksOK
    <2>2. \A d \in ChildrenOf(c) : d \notin Late
        BY <1>1, <1>4, <1>5 DEF IsStrictPrefix
    <2>. QED  BY <2>1, <2>2
<1>7. /\ Unique'
      /\ Waiting' = (Waiting \ {c}) \cup ChildrenOf(c)
      /\ Late' = Late /\ Rising' = Rising
    <2>1. Own(w)' = ChildrenOf(c) /\ Own(w) = {c}
        BY <1>2, <1>3 DEF Own
    <2>2. UNCHANGED taskVars
        OBVIOUS
    <2>3. \A x \in Own(w)' : x \in Own(w) \/ x \notin Waiting \cup Late
        BY <1>6, <2>1
    <2>. QED  BY <1>2, <1>3, <2>2, <2>3, OwnChange
<1>8. Tree' = Tree /\ Building' = Building
    BY FrameKeeps
<1>9. Early' = (Early \ {c}) \cup Kids(Tree, c)
    BY <1>7, <1>8 DEF Early, Kids
<1>10. /\ MarksIn(Tree, Early', Late, Rising)
       /\ \A x \in Tree : Open(Early', Late, x) <=> Open(Early, Late, x)
    BY <1>1, <1>4, <1>9, RefineMarks
<1>11. PendingCounts(Tree, Early', Late, Rising, pending)
    BY <1>1, <1>4, <1>9, RefineCounts DEF MarksOK
<1>12. ASSUME NEW m \in Early', NEW x \in Waiting'
       PROVE  ~IsStrictPrefix(m, x)
    <2>1. m \in Cells /\ m \in Tree
        BY <1>1, <1>9 DEF Kids
    <2>2. CASE m \in Early /\ x \in Waiting
        BY <2>2 DEF MarksOK
    <2>3. CASE m \in Early \ {c} /\ x \in ChildrenOf(c)
        <3>1. SUFFICES ASSUME IsStrictPrefix(m, x)  PROVE  FALSE
            OBVIOUS
        <3>2. IsPrefix(m, c) \/ IsPrefix(c, m)
            BY <1>2, <1>5, <2>1, <2>3, <3>1, PrefixOrder DEF IsStrictPrefix
        <3>. QED  BY <1>1, <1>4, <2>3, <3>2
    <2>4. CASE m \in ChildrenOf(c) /\ x \in Waiting
        <3>1. SUFFICES ASSUME IsStrictPrefix(m, x)  PROVE  FALSE
            OBVIOUS
        <3>2. x \in Cells
            BY <2>4, WaitingAreCells
        <3>. QED  BY <1>2, <1>4, <1>5, <2>4, <3>1, <3>2, PrefixOrder DEF IsStrictPrefix, MarksOK
    <2>5. CASE m \in ChildrenOf(c) /\ x \in ChildrenOf(c)
        BY <1>2, <1>5, <2>5, SiblingsApart DEF IsStrictPrefix
    <2>. QED  BY <1>7, <1>9, <2>2, <2>3, <2>4, <2>5 DEF Kids
<1>13. ~Building' => \A x \in Waiting' : x = Root \/ slot'[x] # "null"
    BY <1>7, <1>8 DEF MarksOK, Frame
<1>14. \A v \in Worker : Step(v)' \in {"push", "collect"} =>
              Cell(v)' \notin Leaves /\ (~Building' => IsBranch(Cell(v))')
    BY <1>3, StepsKeep
<1>15. MarksOK'
    BY <1>7, <1>8, <1>10, <1>11, <1>12, <1>13, <1>14 DEF MarksOK
<1>16. \A x \in Tree : Working(x)' = Working(x)
    BY <1>7, <1>10 DEF Working, IsWorking
<1>. QED  BY <1>4, <1>7, <1>9, <1>15, <1>16

(* A cell is finished without its children. *)
LEMMA FinishedMarks ==
    ASSUME TypesOK, Unique, MarksOK, Frame, NEW w \in Worker, Step(w) = "eval",
           NEW c, c = Cell(w), c \in Tree,
           Go(w, "up", c), UNCHANGED <<taskVars, pending>>
    PROVE  /\ Unique' /\ MarksOK'
           /\ \A x \in Tree : Working(x)' <=> Working(x) /\ ~IsPrefix(c, x)
           /\ Waiting' = Waiting \ {c} /\ c \in Early /\ Early' = Early \ {c}
           /\ Late' = Late \cup {c}
<1>1. /\ MarksIn(Tree, Early, Late, Rising) /\ Waiting \cap Late = {}
    BY MarksFacts
<1>2. EarlyOf(w) = {c} /\ LateOf(w) = {} /\ RisingOf(w) = {} /\ c \in Waiting /\ c \in Cells
    BY MarksAt
<1>3. /\ \A v \in Worker \ {w} : at'[v] = at[v]
      /\ at'[w].step = "up" /\ at'[w].cell = c
      /\ EarlyOf(w)' = {} /\ LateOf(w)' = {c} /\ RisingOf(w)' = {c}
    BY <1>2, GoTo DEF Steps
<1>4. c \in Early
    BY <1>2 DEF Early
<1>5. /\ Unique'
      /\ Waiting' = Waiting \ {c}
      /\ Late' = Late \cup {c} /\ Rising' = Rising \cup {c}
    <2>1. Own(w)' = {c} /\ Own(w) = {c}
        BY <1>2, <1>3 DEF Own
    <2>2. UNCHANGED taskVars
        OBVIOUS
    <2>. QED  BY <1>2, <1>3, <2>1, <2>2, OwnChange
<1>6. Tree' = Tree /\ Building' = Building
    BY FrameKeeps
<1>7. Early' = Early \ {c}
    BY <1>5, <1>6 DEF Early
<1>8. /\ MarksIn(Tree, Early', Late', Rising')
      /\ \A x \in Tree : IsWorking(Early', Late', Rising', x)
                            <=> IsWorking(Early, Late, Rising, x) /\ ~IsPrefix(c, x)
    <2>. DEFINE F == Early \ {c}  M == Late \cup {c}  S == Rising \cup {c}
    <2>1. F = Early \ {c} /\ M = Late \cup {c} /\ S = Rising \cup {c}
        OBVIOUS
    <2>. HIDE DEF F, M, S
    <2>2. MarksIn(Tree, F, M, S)
        BY <1>1, <1>4, <2>1, FinishMarks
    <2>3. ASSUME NEW x \in Tree
          PROVE  IsWorking(F, M, S, x)
                                <=> IsWorking(Early, Late, Rising, x) /\ ~IsPrefix(c, x)
        BY <1>1, <1>4, <2>1, FinishMarks
    <2>. QED  BY <1>5, <1>7, <2>1, <2>2, <2>3
<1>9. PendingCounts(Tree, Early', Late', Rising', pending)
    <2>1. PendingCounts(Tree, Early \ {c}, Late \cup {c}, Rising \cup {c}, pending)
        BY <1>1, <1>4, FinishCounts DEF MarksOK
    <2>. QED  BY <1>5, <1>7, <2>1
<1>10. /\ \A m \in Early', x \in Waiting' : ~IsStrictPrefix(m, x)
       /\ ~Building' => \A x \in Waiting' : x = Root \/ slot'[x] # "null"
    BY <1>5, <1>6, <1>7 DEF MarksOK, Frame
<1>11. \A v \in Worker : Step(v)' \in {"push", "collect"} =>
              Cell(v)' \notin Leaves /\ (~Building' => IsBranch(Cell(v))')
    BY <1>3, StepsKeep
<1>12. MarksOK'
    BY <1>6, <1>8, <1>9, <1>10, <1>11 DEF MarksOK
<1>. QED  BY <1>4, <1>5, <1>7, <1>8, <1>12 DEF Working

(* A singleton is passed over. *)
LEMMA DroppedMarks ==
    ASSUME TypesOK, Unique, MarksOK, Frame, NEW w \in Worker, Step(w) = "eval",
           Cell(w) \notin Tree,
           Go(w, "loop", Cell(w)), UNCHANGED <<taskVars, pending>>
    PROVE  Unique' /\ MarksOK' /\ Early' = Early /\ Late' = Late /\ \A x : Working(x)' = Working(x)
<1>. DEFINE c == Cell(w)
<1>2. EarlyOf(w) = {c} /\ LateOf(w) = {} /\ RisingOf(w) = {} /\ c \in Waiting /\ c \in Cells
    BY MarksAt
<1>3. /\ \A v \in Worker \ {w} : at'[v] = at[v]
      /\ at'[w].step = "loop"
      /\ EarlyOf(w)' = {} /\ LateOf(w)' = {} /\ RisingOf(w)' = {}
    BY <1>2, GoTo DEF Steps
<1>4. c \notin Tree
    OBVIOUS
<1>. HIDE DEF c
<1>5. /\ Unique'
      /\ Waiting' = Waiting \ {c}
      /\ Late' = Late /\ Rising' = Rising
    <2>1. Own(w)' = {}
        BY <1>3 DEF Own
    <2>2. UNCHANGED taskVars
        OBVIOUS
    <2>. QED  BY <1>2, <1>3, <2>1, <2>2, OwnChange
<1>6. Tree' = Tree /\ Building' = Building
    BY FrameKeeps
<1>7. Early' = Early
    BY <1>4, <1>5, <1>6 DEF Early
<1>8. MarksIn(Tree', Early', Late', Rising') /\ PendingCounts(Tree', Early', Late', Rising', pending')
    BY <1>5, <1>6, <1>7 DEF MarksOK
<1>10. /\ \A m \in Early', x \in Waiting' : ~IsStrictPrefix(m, x)
       /\ ~Building' => \A x \in Waiting' : x = Root \/ slot'[x] # "null"
    BY <1>5, <1>6, <1>7 DEF MarksOK, Frame
<1>11. \A v \in Worker : Step(v)' \in {"push", "collect"} =>
              Cell(v)' \notin Leaves /\ (~Building' => IsBranch(Cell(v))')
    BY <1>3, StepsKeep
<1>12. MarksOK'
    BY <1>8, <1>10, <1>11 DEF MarksOK
<1>. QED  BY <1>5, <1>7, <1>12 DEF Working

(* A cell is collected. *)
LEMMA CollectedMarks ==
    ASSUME TypesOK, Unique, MarksOK, Frame, NEW w \in Worker, Step(w) = "collect",
           NEW c, c = Cell(w), Go(w, "up", c), UNCHANGED <<taskVars, pending>>
    PROVE  /\ Unique' /\ MarksOK'
           /\ \A x \in Tree : Working(x)' <=> Working(x) /\ x # c
           /\ Waiting' = Waiting /\ Early' = Early /\ Late' = Late /\ c \in Late \ Rising
<1>1. MarksIn(Tree, Early, Late, Rising)
    BY MarksFacts
<1>2. /\ EarlyOf(w) = {} /\ LateOf(w) = {c} /\ RisingOf(w) = {} /\ c \in Cells
      /\ c \in Late \ Rising
    BY MarksAt
<1>3. /\ \A v \in Worker \ {w} : at'[v] = at[v]
      /\ at'[w].step = "up" /\ at'[w].cell = c
      /\ EarlyOf(w)' = {} /\ LateOf(w)' = {c} /\ RisingOf(w)' = {c}
    BY <1>2, GoTo DEF Steps
<1>5. /\ Unique'
      /\ Waiting' = Waiting
      /\ Late' = Late /\ Rising' = Rising \cup {c}
    <2>1. Own(w)' = {c} /\ Own(w) = {c}
        BY <1>2, <1>3 DEF Own
    <2>2. UNCHANGED taskVars
        OBVIOUS
    <2>. QED  BY <1>2, <1>3, <2>1, <2>2, OwnChange
<1>6. Tree' = Tree /\ Building' = Building
    BY FrameKeeps
<1>7. Early' = Early
    BY <1>5, <1>6 DEF Early
<1>8. /\ MarksIn(Tree, Early, Late, Rising')
      /\ \A x \in Tree : IsWorking(Early, Late, Rising', x)
                            <=> IsWorking(Early, Late, Rising, x) /\ x # c
      /\ PendingCounts(Tree, Early, Late, Rising', pending)
    BY <1>1, <1>2, <1>5, CollectMarks DEF MarksOK
<1>10. /\ \A m \in Early', x \in Waiting' : ~IsStrictPrefix(m, x)
       /\ ~Building' => \A x \in Waiting' : x = Root \/ slot'[x] # "null"
    BY <1>5, <1>6, <1>7 DEF MarksOK, Frame
<1>11. \A v \in Worker : Step(v)' \in {"push", "collect"} =>
              Cell(v)' \notin Leaves /\ (~Building' => IsBranch(Cell(v))')
    BY <1>3, StepsKeep
<1>12. MarksOK'
    BY <1>5, <1>6, <1>7, <1>8, <1>10, <1>11 DEF MarksOK
<1>. QED  BY <1>2, <1>5, <1>7, <1>8, <1>12 DEF Working

(* A cell reports to its parent. *)
LEMMA ReportedMarks ==
    ASSUME TypesOK, Unique, MarksOK, Frame, NEW w \in Worker, Step(w) = "up",
           NEW c, c = Cell(w), c # Root, NEW p, p = Front(c),
           ~Building => IsBranch(p),
           pending' = [pending EXCEPT ![p] = @ - 1],
           Go(w, IF pending[p] = 0 THEN "collect" ELSE "loop", p), UNCHANGED taskVars
    PROVE  /\ Unique' /\ MarksOK'
           /\ \A x \in Tree : Working(x)' <=> Working(x)
           /\ p \in Cells /\ pending[p] \in Nat
           /\ Waiting' = Waiting /\ Early' = Early
           /\ Early \cup Late # {}
<1>1. /\ MarksIn(Tree, Early, Late, Rising) /\ Waiting \cap Late = {}
      /\ Tree \subseteq Cells /\ Early = Waiting \cap Tree
    BY MarksFacts DEF Early
<1>2. /\ EarlyOf(w) = {} /\ LateOf(w) = {c} /\ RisingOf(w) = {c} /\ c \in Cells
      /\ c \in Late /\ c \in Rising
    BY MarksAt
<1>3. /\ p \in Tree /\ c \in Kids(Tree, p) /\ p \notin Early \cup Late
      /\ p \in Cells /\ p \notin Leaves
    BY <1>1, <1>2, ReportingParent, ParentProperties
<1>4. p \notin Waiting \cup Late
    BY <1>1, <1>3
<1>5. pending \in [Cells -> Int]
    <2>1. -1 .. Arity - 1 \subseteq Int
        BY PoolAssumption
    <2>. QED  BY <2>1 DEF TypesOK, TypeOK
<1>6. /\ pending[p] \in Nat
      /\ pending[p] = 0 => LastOpen(Tree, Early, Late, c)
      /\ pending[p] # 0 => \E e \in OpenKids(Tree, Early, Late, Front(c)) : e # c
    <2>1. PendingCounts(Tree, Early, Late, Rising, pending)
        BY DEF MarksOK
    <2>2. pending[Front(c)] \in Nat
        BY <1>1, <1>2, <1>5, <2>1, ReportReads
    <2>3. pending[Front(c)] = 0 => LastOpen(Tree, Early, Late, c)
        BY <1>1, <1>2, <1>5, <2>1, ReportReads
    <2>4. pending[Front(c)] # 0 => \E e \in OpenKids(Tree, Early, Late, Front(c)) : e # c
        BY <1>1, <1>2, <1>5, <2>1, ReportReads
    <2>. QED  BY <2>2, <2>3, <2>4
<1>. DEFINE step == IF pending[p] = 0 THEN "collect" ELSE "loop"
<1>7. /\ \A v \in Worker \ {w} : at'[v] = at[v]
      /\ at'[w].step = step /\ at'[w].cell = p
      /\ EarlyOf(w)' = {} /\ LateOf(w)' = (IF pending[p] = 0 THEN {p} ELSE {}) /\ RisingOf(w)' = {}
    <2>1. step \in Steps /\ step # "push" /\ step # "eval" /\ step # "up"
        BY DEF Steps
    <2>2. step \in {"collect", "up"} <=> pending[p] = 0
        OBVIOUS
    <2>3. Go(w, step, p)
        OBVIOUS
    <2>. HIDE DEF step
    <2>. QED  BY <1>3, <2>1, <2>2, <2>3, GoTo
<1>8. /\ Unique' /\ Waiting' = Waiting
      /\ Late' = (Late \ {c}) \cup (IF pending[p] = 0 THEN {p} ELSE {}) /\ Rising' = Rising \ {c}
    <2>1. \A x \in Own(w)' : x = p
        BY <1>7 DEF Own
    <2>. HIDE DEF step
    <2>. QED  BY ZenonT(60), <1>2, <1>4, <1>7, <2>1, OwnChange
<1>9. Tree' = Tree /\ Building' = Building
    BY FrameKeeps
<1>10. Early' = Early
    BY <1>8, <1>9 DEF Early
<1>. DEFINE M == Late'  S == Rising'
<1>11. /\ MarksIn(Tree, Early, M, S)
       /\ \A x \in Tree : Open(Early, M, x) <=> Open(Early, Late, x) /\ x # c
       /\ \A x \in Tree : IsWorking(Early, M, S, x) <=> IsWorking(Early, Late, Rising, x)
    <2>1. CASE pending[p] = 0
        <3>1. M = (Late \ {c}) \cup {Front(c)} /\ S = Rising \ {c}
              /\ LastOpen(Tree, Early, Late, c)
            BY <1>6, <1>8, <2>1
        <3>. HIDE DEF M, S
        <3>0. MarksIn(Tree, Early, Late, Rising) /\ c \in Rising
            BY <1>1, <1>2
        <3>2. MarksIn(Tree, Early, M, S)
            BY <3>0, <3>1, ReportLastMarks
        <3>3. ASSUME NEW x \in Tree
              PROVE  Open(Early, M, x) <=> Open(Early, Late, x) /\ x # c
            BY <3>0, <3>1, ReportLastMarks
        <3>4. ASSUME NEW x \in Tree
              PROVE  IsWorking(Early, M, S, x) <=> IsWorking(Early, Late, Rising, x)
            BY <3>0, <3>1, ReportLastMarks
        <3>. QED  BY <3>2, <3>3, <3>4
    <2>2. CASE pending[p] # 0
        <3>1. M = Late \ {c} /\ S = Rising \ {c}
            BY <1>8, <2>2
        <3>. HIDE DEF M, S
        <3>2. PICK e \in OpenKids(Tree, Early, Late, Front(c)) : e # c
            BY <1>6, <2>2
        <3>3. MarksIn(Tree, Early, M, S)
            BY <1>1, <1>2, <3>1, <3>2, ReportMarks
        <3>4. ASSUME NEW x \in Tree
              PROVE  Open(Early, M, x) <=> Open(Early, Late, x) /\ x # c
            BY <1>1, <1>2, <3>1, <3>2, ReportMarks
        <3>5. ASSUME NEW x \in Tree
              PROVE  IsWorking(Early, M, S, x) <=> IsWorking(Early, Late, Rising, x)
            BY SMTT(30), <1>1, <1>2, <3>1, <3>2, ReportMarks
        <3>. QED  BY <3>3, <3>4, <3>5
    <2>. QED  BY <2>1, <2>2
<1>12. PendingCounts(Tree, Early, M, S, pending')
    <2>. DEFINE less == pending'
    <2>1. PendingCounts(Tree, Early, Late, Rising, pending)
        BY DEF MarksOK
    <2>2. less = [pending EXCEPT ![Front(c)] = @ - 1]
        OBVIOUS
    <2>. HIDE DEF M, S, less
    <2>3. PendingCounts(Tree, Early, M, S, less)
        <3>1. MarksIn(Tree, Early, Late, Rising) /\ c \in Rising
            BY <1>1, <1>2
        <3>. QED  BY <3>1, <1>5, <1>11, <2>1, <2>2, ReportCounts, ZenonT(60)
    <2>. QED  BY <2>3 DEF less
<1>13. /\ \A m \in Early', x \in Waiting' : ~IsStrictPrefix(m, x)
       /\ ~Building' => \A x \in Waiting' : x = Root \/ slot'[x] # "null"
    BY <1>8, <1>9, <1>10 DEF MarksOK, Frame
<1>14. \A v \in Worker : Step(v)' \in {"push", "collect"} =>
              Cell(v)' \notin Leaves /\ (~Building' => IsBranch(Cell(v))')
    BY <1>3, <1>7, StepsKeep
<1>15. MarksOK'
    BY <1>8, <1>9, <1>10, <1>11, <1>12, <1>13, <1>14 DEF MarksOK
<1>16. \A x \in Tree : Working(x)' <=> Working(x)
    BY <1>10, <1>11 DEF Working
<1>. QED  BY <1>2, <1>3, <1>6, <1>8, <1>10, <1>15, <1>16

(* The root reports to nobody: nothing is left. *)
LEMMA RootReportedMarks ==
    ASSUME TypesOK, Unique, MarksOK, Frame, NEW w \in Worker, Step(w) = "up", Cell(w) = Root,
           Go(w, "exit", Root), UNCHANGED <<taskVars, pending>>
    PROVE  /\ Unique' /\ MarksOK'
           /\ \A x \in Tree : ~Working(x) /\ ~Working(x)'
           /\ Early' = {} /\ Late' = {} /\ Waiting' = Waiting /\ Early = {}
<1>1. /\ MarksIn(Tree, Early, Late, Rising) /\ TreeClosed(Tree)
      /\ Early \cap Late = {} /\ Tree \subseteq Cells /\ Rising \subseteq Late
    BY MarksFacts
<1>2. /\ EarlyOf(w) = {} /\ LateOf(w) = {Root} /\ RisingOf(w) = {Root}
      /\ Root \in Late /\ Root \in Rising /\ Root \in Cells
    BY MarksAt
<1>3. Early = {} /\ Late = {Root} /\ Rising = {Root}
    BY <1>1, <1>2, RootMarkAlone
<1>4. /\ \A v \in Worker \ {w} : at'[v] = at[v]
      /\ at'[w].step = "exit"
      /\ EarlyOf(w)' = {} /\ LateOf(w)' = {} /\ RisingOf(w)' = {}
    BY <1>2, GoTo DEF Steps
<1>5. /\ Unique' /\ Waiting' = Waiting
      /\ Late' = {} /\ Rising' = {}
    <2>1. Own(w)' = {}
        BY <1>4 DEF Own
    <2>2. UNCHANGED taskVars
        OBVIOUS
    <2>. QED  BY <1>2, <1>3, <1>4, <2>1, <2>2, OwnChange
<1>6. Tree' = Tree /\ Building' = Building
    BY FrameKeeps
<1>7. Early' = {}
    BY <1>3, <1>5, <1>6 DEF Early
<1>8. /\ MarksIn(Tree, {}, {}, {}) /\ PendingCounts(Tree, {}, {}, {}, pending)
      /\ \A x : ~IsWorking({}, {}, {}, x)
    BY <1>1, NoMarks
<1>9. ASSUME NEW x \in Tree  PROVE  ~Working(x)
    <2>1. ASSUME IsPrefix(x, Root)  PROVE  x = Root
        BY <1>1, <2>1, RootIsPrefix, PrefixOrder
    <2>. QED  BY <1>3, <2>1 DEF Working, IsWorking, Open
<1>10. /\ \A m \in Early', x \in Waiting' : ~IsStrictPrefix(m, x)
       /\ ~Building' => \A x \in Waiting' : x = Root \/ slot'[x] # "null"
    BY <1>5, <1>6, <1>7 DEF MarksOK, Frame
<1>11. \A v \in Worker : Step(v)' \in {"push", "collect"} =>
              Cell(v)' \notin Leaves /\ (~Building' => IsBranch(Cell(v))')
    BY <1>4, StepsKeep
<1>12. MarksOK'
    BY <1>5, <1>6, <1>7, <1>8, <1>10, <1>11 DEF MarksOK
<1>13. \A x : ~Working(x)'
    BY <1>5, <1>7, <1>8 DEF Working
<1>. QED  BY <1>3, <1>5, <1>7, <1>9, <1>12, <1>13

-----------------------------------------------------------------------------
(* Slots: what the steps of a worker do to them while the tree is built *)

LEMMA SlotsStay ==
    ASSUME TypesOK, SlotsOK, Building' = Building, UNCHANGED <<slot, shape>>,
           Building => \A x \in Cells : Working(x)' <=> Working(x)
    PROVE  SlotsOK'
<1>1. \A q : Kept(q)' <=> Kept(q)
    BY DEF Kept
<1>2. slot' = slot /\ shape' = shape
    OBVIOUS
<1>3. slot'[Root] = "null"
    BY <1>2 DEF SlotsOK
<1>4. Building' => \A c \in Cells \ {Root} :
          /\ Working(c)' => slot'[c] = "null"
          /\ Working(Front(c))' /\ ~Working(c)' => slot'[c] # "null"
    <2>1. SUFFICES ASSUME Building, NEW c \in Cells \ {Root}
                   PROVE  /\ Working(c)' => slot[c] = "null"
                          /\ Working(Front(c))' /\ ~Working(c)' => slot[c] # "null"
        BY <1>2
    <2>2. Front(c) \in Cells
        BY <2>1, ParentProperties
    <2>. QED  BY <2>1, <2>2 DEF SlotsOK
<1>5. \A d \in Cells : slot'[d] # "null" =>
          /\ \A q \in Cells : IsStrictPrefix(q, d) => Kept(q)' \/ (Building' /\ Working(q)')
          /\ slot'[d] # "cell" => AllAre(shape', d, slot'[d])
    BY <1>1, <1>2 DEF SlotsOK
<1>. QED  BY <1>3, <1>4, <1>5 DEF SlotsOK

(* A cell is installed and nothing else is. *)
LEMMA SlotsFinished ==
    ASSUME TypesOK, SlotsOK, Building, Building', shape' = shape,
           NEW c \in Cells, NEW state \in {"empty", "filled", "ambiguous"},
           slot' = Installed(slot, c, state),
           state # "ambiguous" => AllAre(shape, c, state),
           \A x \in Cells : Working(x)' <=> Working(x) /\ ~IsPrefix(c, x),
           \A x \in Cells : IsPrefix(c, x) => Working(x),
           \A q \in Cells : IsStrictPrefix(q, c) => Working(q)
    PROVE  SlotsOK'
<1>1. /\ slot \in [Cells -> {"null", "cell", "empty", "filled"}]
      /\ slot[Root] = "null" /\ Root \in Cells
    BY RootIsPrefix DEF TypesOK, TypeOK, SlotsOK
<1>2. /\ \A x \in Cells \ {c} : slot'[x] = slot[x]
      /\ c = Root => slot'[c] = "null"
      /\ c # Root => slot'[c] = IF state = "ambiguous" THEN "cell" ELSE state
    BY <1>1 DEF Installed
<1>3. slot[c] = "null" /\ IsPrefix(c, c) /\ Working(c)
    <2>1. IsPrefix(c, c)
        BY PrefixOrder
    <2>. QED  BY <1>1, <2>1 DEF SlotsOK
<1>4. slot'[Root] = "null"
    BY <1>1, <1>2
<1>5. ASSUME NEW q \in Cells, Kept(q)
      PROVE  Kept(q)'
    BY <1>1, <1>2, <1>3, <1>5 DEF Kept
<1>6. ASSUME NEW x \in Cells \ {Root}
      PROVE  /\ Working(x)' => slot'[x] = "null"
             /\ Working(Front(x))' /\ ~Working(x)' => slot'[x] # "null"
    <2>1. Front(x) \in Cells /\ (IsStrictPrefix(c, x) => IsPrefix(c, Front(x)))
        BY ParentProperties, AboveIsAboveParent
    <2>2. CASE x = c
        BY <1>2, <1>3, <1>6, <2>2
    <2>3. CASE x # c
        <3>1. slot'[x] = slot[x]
            BY <1>2, <2>3
        <3>2. /\ Working(x) => slot[x] = "null"
              /\ Working(Front(x)) /\ ~Working(x) => slot[x] # "null"
            BY <1>6 DEF SlotsOK
        <3>3. Working(Front(x))' /\ ~Working(x)' => Working(Front(x)) /\ ~Working(x)
            BY <2>1, <2>3 DEF IsStrictPrefix
        <3>. QED  BY <3>1, <3>2, <3>3
    <2>. QED  BY <2>2, <2>3
<1>7. ASSUME NEW d \in Cells, slot'[d] # "null"
      PROVE  /\ \A q \in Cells : IsStrictPrefix(q, d) => Kept(q)' \/ (Building' /\ Working(q)')
             /\ slot'[d] # "cell" => AllAre(shape', d, slot'[d])
    <2>1. CASE d = c
        <3>1. \A q \in Cells : IsStrictPrefix(q, c) => ~IsPrefix(c, q)
            BY PrefixOrder DEF IsStrictPrefix
        <3>2. c # Root
            BY <1>2, <1>7, <2>1
        <3>. QED  BY <1>2, <1>7, <2>1, <3>1, <3>2
    <2>2. CASE d # c
        <3>1. slot'[d] = slot[d]
            BY <1>2, <2>2
        <3>2. d # Root /\ ~Working(d) /\ ~IsPrefix(c, d)
            BY <1>1, <1>7, <3>1 DEF SlotsOK
        <3>3. \A q \in Cells : IsStrictPrefix(q, d) => ~IsPrefix(c, q)
            BY <3>2, PrefixOrder DEF IsStrictPrefix
        <3>4. \A q \in Cells : IsStrictPrefix(q, d) => Kept(q) \/ Working(q)
            BY <1>7, <3>1 DEF SlotsOK
        <3>5. slot[d] # "cell" => AllAre(shape, d, slot[d])
            BY <1>7, <3>1 DEF SlotsOK
        <3>6. \A q \in Cells : IsStrictPrefix(q, d) => Kept(q)' \/ (Building' /\ Working(q)')
            BY <1>5, <3>3, <3>4
        <3>. QED  BY <3>1, <3>5, <3>6
    <2>. QED  BY <2>1, <2>2
<1>. QED  BY <1>4, <1>6, <1>7 DEF SlotsOK

(* The children of a cell that is collected are all there. *)
LEMMA CollectedKids ==
    ASSUME TypesOK, SlotsOK, Building, NEW c \in Cells, c \notin Leaves, Working(c),
           \A x \in Cells : IsStrictPrefix(c, x) => ~Working(x)
    PROVE  \A d \in ChildrenOf(c) :
              /\ d \in Cells /\ d # Root /\ d # c /\ ~Working(d)
              /\ slot[d] \in {"cell", "empty", "filled"}
<1>1. SUFFICES ASSUME NEW d \in ChildrenOf(c)
               PROVE  /\ d \in Cells /\ d # Root /\ d # c /\ ~Working(d)
                      /\ slot[d] \in {"cell", "empty", "filled"}
    OBVIOUS
<1>2. d \in Cells /\ d # Root /\ Front(d) = c /\ IsStrictPrefix(c, d)
    BY ChildProperties
<1>3. ~Working(d) /\ slot[d] # "null"
    BY <1>2 DEF SlotsOK
<1>. QED  BY <1>2, <1>3 DEF TypesOK, TypeOK, IsStrictPrefix

(* A cell is collected and keeps its children. *)
LEMMA SlotsKept ==
    ASSUME TypesOK, SlotsOK, Building, Building', shape' = shape,
           NEW c \in Cells, c \notin Leaves, Working(c),
           \A x \in Cells : IsStrictPrefix(c, x) => ~Working(x),
           \A q \in Cells : IsStrictPrefix(q, c) => Working(q),
           \A x \in Cells : Working(x)' <=> Working(x) /\ x # c,
           slot' = Installed(slot, c, "ambiguous"),
           \E d \in ChildrenOf(c) : slot[d] = "cell"
    PROVE  SlotsOK'
<1>1. /\ slot \in [Cells -> {"null", "cell", "empty", "filled"}]
      /\ slot[Root] = "null" /\ Root \in Cells
    BY RootIsPrefix DEF TypesOK, TypeOK, SlotsOK
<1>2. /\ \A x \in Cells \ {c} : slot'[x] = slot[x]
      /\ c = Root => slot'[c] = "null"
      /\ c # Root => slot'[c] = "cell"
    BY <1>1 DEF Installed
<1>3. slot[c] = "null"
    BY <1>1 DEF SlotsOK
<1>4. \A d \in ChildrenOf(c) : d \in Cells /\ d # c /\ slot[d] # "null"
    BY CollectedKids
<1>5. slot'[Root] = "null"
    BY <1>1, <1>2
<1>6. ASSUME NEW q \in Cells, Kept(q)
      PROVE  Kept(q)'
    BY <1>1, <1>2, <1>3, <1>6 DEF Kept
<1>7. Kept(c)'
    BY <1>2, <1>4 DEF Kept
<1>8. ASSUME NEW x \in Cells \ {Root}
      PROVE  /\ Working(x)' => slot'[x] = "null"
             /\ Working(Front(x))' /\ ~Working(x)' => slot'[x] # "null"
    <2>1. Front(x) \in Cells
        BY ParentProperties
    <2>. QED  BY <1>2, <2>1 DEF SlotsOK
<1>9. ASSUME NEW d \in Cells, slot'[d] # "null"
      PROVE  /\ \A q \in Cells : IsStrictPrefix(q, d) => Kept(q)' \/ (Building' /\ Working(q)')
             /\ slot'[d] # "cell" => AllAre(shape', d, slot'[d])
    <2>1. CASE d = c
        <3>1. c # Root /\ slot'[d] = "cell"
            BY <1>2, <1>9, <2>1
        <3>2. \A q \in Cells : IsStrictPrefix(q, c) => q # c
            BY DEF IsStrictPrefix
        <3>. QED  BY <2>1, <3>1, <3>2
    <2>2. CASE d # c
        <3>1. slot'[d] = slot[d]
            BY <1>2, <2>2
        <3>2. \A q \in Cells : IsStrictPrefix(q, d) => Kept(q) \/ Working(q)
            BY <1>9, <3>1 DEF SlotsOK
        <3>3. slot[d] # "cell" => AllAre(shape, d, slot[d])
            BY <1>9, <3>1 DEF SlotsOK
        <3>4. \A q \in Cells : IsStrictPrefix(q, d) => Kept(q)' \/ (Building' /\ Working(q)')
            BY <1>6, <1>7, <3>2
        <3>. QED  BY <3>1, <3>3, <3>4
    <2>. QED  BY <2>1, <2>2
<1>. QED  BY <1>5, <1>8, <1>9 DEF SlotsOK

(* A cell is collected and its children, which have none, are gone. *)
LEMMA SlotsCollapsed ==
    ASSUME TypesOK, SlotsOK, Building, Building', shape' = shape,
           NEW c \in Cells, c \notin Leaves, Working(c),
           \A x \in Cells : IsStrictPrefix(c, x) => ~Working(x),
           \A q \in Cells : IsStrictPrefix(q, c) => Working(q),
           \A x \in Cells : Working(x)' <=> Working(x) /\ x # c,
           NEW without,
           without = [d \in Cells |-> IF d \in ChildrenOf(c) THEN "null" ELSE slot[d]],
           NEW state \in {"empty", "filled", "ambiguous"},
           slot' = Installed(without, c, state),
           state # "ambiguous" => AllAre(shape, c, state),
           \A d \in ChildrenOf(c) : slot[d] = "cell" => ~IsBranch(d)
    PROVE  SlotsOK'
<1>1. /\ slot \in [Cells -> {"null", "cell", "empty", "filled"}]
      /\ slot[Root] = "null" /\ Root \in Cells
    BY RootIsPrefix DEF TypesOK, TypeOK, SlotsOK
<1>2. \A d \in ChildrenOf(c) : /\ d \in Cells /\ d # Root /\ d # c /\ ~Working(d)
                               /\ slot[d] \in {"cell", "empty", "filled"}
    BY CollectedKids
<1>3. /\ \A x \in Cells \ {c} : slot'[x] = IF x \in ChildrenOf(c) THEN "null" ELSE slot[x]
      /\ c = Root => slot'[c] = "null"
      /\ c # Root => slot'[c] = IF state = "ambiguous" THEN "cell" ELSE state
    BY <1>1, <1>2 DEF Installed
<1>4. slot[c] = "null"
    BY <1>1 DEF SlotsOK
<1>5. slot'[Root] = "null"
    BY <1>1, <1>2, <1>3
<1>6. ASSUME NEW e \in ChildrenOf(c)
      PROVE  ~Kept(e)
    <2>1. SUFFICES ASSUME Kept(e)  PROVE  FALSE
        OBVIOUS
    <2>2. slot[e] = "cell"
        BY <1>2, <2>1 DEF Kept
    <2>3. Append(e, 1) \in ChildrenOf(e)
        BY PoolAssumption DEF ChildrenOf, Index
    <2>4. IsBranch(e)
        BY <2>1, <2>3 DEF Kept, IsBranch
    <2>. QED  BY <2>2, <2>4
<1>7. ASSUME NEW d \in Cells, slot[d] # "null", d \notin ChildrenOf(c)
      PROVE  ~IsStrictPrefix(c, d)
    <2>1. SUFFICES ASSUME IsStrictPrefix(c, d)  PROVE  FALSE
        OBVIOUS
    <2>2. PICK e \in ChildrenOf(c) \cap Cells : IsPrefix(e, d)
        BY <2>1, BelowIsBelowChild
    <2>3. IsStrictPrefix(e, d)
        BY <1>7, <2>2 DEF IsStrictPrefix
    <2>4. Kept(e) \/ Working(e)
        BY <1>7, <2>2, <2>3 DEF SlotsOK
    <2>. QED  BY <1>2, <1>6, <2>2, <2>4
<1>8. ASSUME NEW q \in Cells, Kept(q), q # c, ~IsStrictPrefix(c, q)
      PROVE  Kept(q)'
    <2>1. q \notin ChildrenOf(c)
        BY <1>8, ChildProperties
    <2>2. \A d \in ChildrenOf(q) : d \in Cells /\ d # c /\ slot[d] # "null"
        BY <1>4, <1>8 DEF Kept
    <2>3. \A d \in ChildrenOf(q) : d \notin ChildrenOf(c)
        BY <1>8, ChildProperties
    <2>4. \A d \in ChildrenOf(q) : slot'[d] = slot[d]
        BY <1>3, <2>2, <2>3
    <2>5. slot'[q] = slot[q]
        BY <1>3, <1>8, <2>1
    <2>. QED  BY <1>8, <2>2, <2>4, <2>5 DEF Kept
<1>9. ASSUME NEW x \in Cells \ {Root}
      PROVE  /\ Working(x)' => slot'[x] = "null"
             /\ Working(Front(x))' /\ ~Working(x)' => slot'[x] # "null"
    <2>1. Front(x) \in Cells /\ (x \in ChildrenOf(c) => Front(x) = c)
        BY ParentProperties, ChildProperties
    <2>2. /\ Working(x) => slot[x] = "null"
          /\ Working(Front(x)) /\ ~Working(x) => slot[x] # "null"
        BY <1>9 DEF SlotsOK
    <2>. QED  BY <1>3, <1>9, <2>1, <2>2
<1>10. ASSUME NEW d \in Cells, slot'[d] # "null"
      PROVE  /\ \A q \in Cells : IsStrictPrefix(q, d) => Kept(q)' \/ (Building' /\ Working(q)')
             /\ slot'[d] # "cell" => AllAre(shape', d, slot'[d])
    <2>1. CASE d = c
        <3>1. c # Root
            BY <1>3, <1>10, <2>1
        <3>2. \A q \in Cells : IsStrictPrefix(q, c) => q # c
            BY DEF IsStrictPrefix
        <3>. QED  BY <1>3, <1>10, <2>1, <3>1, <3>2
    <2>2. CASE d # c
        <3>1. slot'[d] = slot[d] /\ d \notin ChildrenOf(c) /\ ~IsStrictPrefix(c, d)
            BY <1>3, <1>7, <1>10, <2>2
        <3>2. \A q \in Cells : IsStrictPrefix(q, d) => Kept(q) \/ Working(q)
            BY <1>10, <3>1 DEF SlotsOK
        <3>3. slot[d] # "cell" => AllAre(shape, d, slot[d])
            BY <1>10, <3>1 DEF SlotsOK
        <3>4. \A q \in Cells : IsStrictPrefix(q, d) => q # c /\ ~IsStrictPrefix(c, q)
            BY <3>1, PrefixOrder DEF IsStrictPrefix
        <3>5. \A q \in Cells : IsStrictPrefix(q, d) => Kept(q)' \/ (Building' /\ Working(q)')
            BY <1>8, <3>2, <3>4
        <3>. QED  BY <3>1, <3>3, <3>5
    <2>. QED  BY <2>1, <2>2
<1>. QED  BY <1>5, <1>9, <1>10 DEF SlotsOK

-----------------------------------------------------------------------------
(* What most steps keep *)

Spots == [step : Steps, cell : Cells, next : Index, seen : SUBSET Cells]

(* The types of the stacks and of the workers say all there is to say of    *)
(* their cells.                                                             *)
LEMMA TypesFrom ==
    ASSUME type' \in [Cells -> {"unknown", "empty", "filled", "ambiguous"}],
           slot' \in [Cells -> {"null", "cell", "empty", "filled"}],
           allocated' \subseteq Cells, worked' \subseteq Cells,
           pending' \in [Cells -> -1 .. Arity - 1],
           tasks' \in Seq(Task), local' \in [Worker -> Seq(Task)], at' \in [Worker -> Spots],
           shape' \in Shape, phase' \in {"build", "walk", "end", "cancelled"},
           done' \in BOOLEAN, cancel' \in BOOLEAN
    PROVE  TypesOK'
<1>1. \A i \in DOMAIN tasks' : tasks'[i].cell \in Cells /\ tasks'[i].seen \subseteq Cells
    <2>1. \A i \in DOMAIN tasks' : tasks'[i] \in Task
        OBVIOUS
    <2>. QED  BY <2>1 DEF Task
<1>2. \A w \in Worker : at'[w].cell \in Cells /\ at'[w].seen \subseteq Cells
    BY DEF Spots
<1>3. TypeOK'
    BY <1>1, <1>2 DEF TypeOK, Cell
<1>. QED  BY <1>3 DEF TypesOK, Spots

LEMMA TypesFacts ==
    ASSUME TypesOK
    PROVE  /\ type \in [Cells -> {"unknown", "empty", "filled", "ambiguous"}]
           /\ slot \in [Cells -> {"null", "cell", "empty", "filled"}]
           /\ allocated \subseteq Cells /\ worked \subseteq Cells
           /\ pending \in [Cells -> -1 .. Arity - 1]
           /\ tasks \in Seq(Task) /\ local \in [Worker -> Seq(Task)] /\ at \in [Worker -> Spots]
           /\ shape \in Shape /\ phase \in {"build", "walk", "end", "cancelled"}
           /\ done \in BOOLEAN /\ cancel \in BOOLEAN
BY DEF TypesOK, TypeOK, Spots

LEMMA SeenFromCells ==
    ASSUME NEW c \in Cells, NEW seen \in SUBSET Cells
    PROVE  SeenFrom(c, seen) \in SUBSET Cells
<1>1. ASSUME NEW n \in Cells, IsBranch(n) PROVE ChildrenOf(n) \subseteq Cells
    <2>1. Append(n, 1) \in Cells /\ Append(n, 1) \in ChildrenOf(n)
        BY <1>1, PoolAssumption DEF IsBranch, ChildrenOf, Index
    <2>2. n \notin Leaves
        BY <2>1, ChildProperties
    <2>. QED  BY <2>2, ChildProperties
<1>2. c # Root => ChildrenOf(Front(c)) \subseteq Cells
    BY ParentProperties, ChildProperties
<1>3. \A n \in seen :
          (IF IsBranch(n) THEN {s \in ChildrenOf(n) : slot[s] = "cell"} ELSE {n}) \subseteq Cells
    BY <1>1
<1>4. UNION {IF IsBranch(n) THEN {s \in ChildrenOf(n) : slot[s] = "cell"} ELSE {n} : n \in seen}
          \subseteq Cells
    BY <1>3
<1>. QED  BY <1>2, <1>4 DEF SeenFrom

(* What a step does to the marks: the cells that workers hand out, those    *)
(* that wait, and those that are worked on.                                 *)
PushingOf(w) == IF Step(w) = "push" THEN Unpushed(w) ELSE {}
Pushing == UNION {PushingOf(w) : w \in Worker}

Keeps == \A x \in Tree : Working(x)' <=> Working(x)
Drops(c) == c \in Tree /\ Working(c) /\ \A x \in Tree : Working(x)' <=> Working(x) /\ x # c

Same == Early' = Early /\ Pushing' = Pushing /\ Keeps
Split(c) ==
    /\ c \in Early /\ c \notin Pushing /\ c \notin Leaves
    /\ Early' = (Early \ {c}) \cup ChildrenOf(c) /\ Pushing' = Pushing \cup ChildrenOf(c) /\ Keeps
HandedOut(d) == d \in Early /\ d \in Pushing /\ Early' = Early /\ Pushing' = Pushing \ {d} /\ Keeps
Finished(c) ==
    /\ c \in Early /\ c \notin Pushing /\ Early' = Early \ {c} /\ Pushing' = Pushing
    /\ \A x \in Cells : Working(x)' <=> Working(x) /\ ~IsPrefix(c, x)
    /\ \A x \in Cells : IsPrefix(c, x) => Working(x)
Collected(c) ==
    /\ c \in Late /\ c \notin Leaves /\ Early' = Early /\ Pushing' = Pushing
    /\ Drops(c)

(* What a worker is at is in no stack and no other worker is at it. *)
LEMMA OwnedAlone ==
    ASSUME Unique, NEW w \in Worker, NEW m \in Own(w)
    PROVE  /\ \A task \in InStacks : task.cell # m
           /\ \A v \in Worker \ {w} : m \notin Own(v)
           /\ m \in Waiting \cup Late
<1>1. m \in Mine(w) /\ m \in Waiting \cup Late
    BY MineIsMarked DEF Mine
<1>2. \A v \in Worker \ {w} : m \notin Mine(v)
    BY <1>1 DEF Unique
<1>3. m \notin CellsIn(tasks) /\ \A v \in Worker : m \notin CellsIn(local[v])
    BY <1>1, <1>2 DEF Unique, Mine
<1>. QED  BY <1>1, <1>2, <1>3 DEF Mine, InStacks, CellsIn

LEMMA PushingChange ==
    ASSUME Unique, NEW w \in Worker, \A v \in Worker \ {w} : at'[v] = at[v]
    PROVE  /\ Pushing' = (Pushing \ PushingOf(w)) \cup PushingOf(w)'
           /\ Step(w) # "push" /\ at'[w].step # "push" => Pushing' = Pushing
<1>1. \A v \in Worker \ {w} : PushingOf(v)' = PushingOf(v)
    BY DEF PushingOf, Unpushed, Step, Cell
<1>2. \A v \in Worker : PushingOf(v) \subseteq Mine(v)
    BY DEF PushingOf, Mine, Own, EarlyOf
<1>3. \A v \in Worker \ {w} : PushingOf(v) \cap PushingOf(w) = {}
    BY <1>2 DEF Unique
<1>4. Pushing' = (Pushing \ PushingOf(w)) \cup PushingOf(w)'
    BY <1>1, <1>3 DEF Pushing
<1>5. Step(w) # "push" /\ at'[w].step # "push" => PushingOf(w) = {} /\ PushingOf(w)' = {}
    BY DEF PushingOf, Step
<1>. QED  BY <1>4, <1>5

LEMMA PushingIsEarly ==
    ASSUME TypesOK, MarksOK, Building
    PROVE  Pushing \subseteq Early
<1>1. \A v \in Worker : PushingOf(v) \subseteq Waiting
    BY MineIsMarked DEF PushingOf, EarlyOf
<1>. QED  BY <1>1, TreeFacts, WaitingAreCells DEF Pushing, Early

LEMMA WorkedStays ==
    ASSUME TypesOK, WorkedOK, Frame, worked' = worked,
           ~Building => \A x \in Tree : IsBranch(x) => (Working(x)' <=> Working(x))
    PROVE  WorkedOK'
<1>1. Building' = Building /\ Tree' = Tree /\ (~Building => \A c : IsBranch(c)' = IsBranch(c))
    BY FrameKeeps
<1>. QED  BY <1>1 DEF WorkedOK

LEMMA DoneStays ==
    ASSUME DoneOK, UNCHANGED flagVars, NEW w \in Worker, \A v \in Worker \ {w} : at'[v] = at[v],
           at'[w].step \notin {"exit", "joined"},
           Early \cup Late = {} => Early' \cup Late' = {}
    PROVE  DoneOK'
BY DEF DoneOK, flagVars, Step

-----------------------------------------------------------------------------
(* The loop of a worker *)

LEMMA LeaveStep ==
    ASSUME CoreInv, NEW w \in Worker, Leave(w), UNCHANGED <<phase, worked>>
    PROVE  CoreInv' /\ Same
<1>1. TypesOK /\ Unique /\ MarksOK /\ DoneOK /\ SlotsOK /\ WorkedOK
    BY DEF CoreInv
<1>2. /\ Step(w) = "loop" /\ (done \/ cancel) /\ Go(w, "exit", Cell(w)) /\ Frame
      /\ UNCHANGED <<cellVars, pending, taskVars, flagVars>>
    BY DEF Leave, Frame, cellVars
<1>3. /\ Cell(w) \in Cells /\ EarlyOf(w) = {} /\ LateOf(w) = {} /\ RisingOf(w) = {}
    BY <1>1, <1>2, MarksAt
<1>4. /\ at' \in [Worker -> Spots] /\ \A v \in Worker \ {w} : at'[v] = at[v]
      /\ at'[w].step = "exit" /\ EarlyOf(w)' = {} /\ LateOf(w)' = {} /\ RisingOf(w)' = {}
    BY <1>1, <1>2, <1>3, GoTo DEF Spots, Steps
<1>5. TypesOK'
    BY <1>1, <1>2, <1>4, TypesFacts, TypesFrom DEF cellVars, taskVars, flagVars
<1>6. Own(w)' = {}
    BY <1>4 DEF Own
<1>7. Unique' /\ Waiting' = Waiting /\ Late' = Late /\ Rising' = Rising
    BY <1>1, <1>2, <1>3, <1>4, <1>6, OwnChange
<1>8. \A v \in Worker : at'[v].step \in {"push", "collect"} =>
          at'[v].step = at[v].step /\ at'[v].cell = at[v].cell
    BY <1>4
<1>9. PendingCounts(Tree, Early, Late, Rising, pending')
    BY <1>1, <1>2 DEF MarksOK
<1>10. MarksOK' /\ Early' = Early /\ \A x : Working(x)' <=> Working(x)
    BY <1>1, <1>2, <1>7, <1>8, <1>9, SameMarks
<1>11. DoneOK'
    BY <1>1, <1>2, <1>7, <1>10 DEF DoneOK, flagVars
<1>12. Building' = Building
    BY <1>2, FrameKeeps
<1>13. SlotsOK'
    BY <1>1, <1>2, <1>10, <1>12, SlotsStay DEF cellVars
<1>14. WorkedOK'
    BY <1>1, <1>2, <1>10, WorkedStays
<1>15. Same
    BY <1>1, <1>2, <1>4, <1>10, PushingChange DEF Same, Keeps
<1>. QED  BY <1>5, <1>7, <1>10, <1>11, <1>13, <1>14, <1>15 DEF CoreInv

LEMMA TakeStep ==
    ASSUME CoreInv, NEW w \in Worker, Take(w), UNCHANGED <<phase, worked>>
    PROVE  CoreInv' /\ Same
<1>1. TypesOK /\ Unique /\ MarksOK /\ DoneOK /\ SlotsOK /\ WorkedOK
    BY DEF CoreInv
<1>2. Frame /\ UNCHANGED <<cellVars, pending, flagVars>> /\ UNCHANGED <<slot, shape, type, allocated>>
    BY DEF Take, Frame, cellVars
<1>3. /\ Unique' /\ Waiting' = Waiting /\ Late' = Late /\ Rising' = Rising
      /\ tasks' \in Seq(Task) /\ local' \in [Worker -> Seq(Task)]
    BY <1>1, TakeTokens
<1>4. PICK task \in Task : TakeInto(w, task)
    BY <1>1, TakeTokens
<1>5. /\ at' \in [Worker -> Spots] /\ at'[w].step = "eval"
      /\ \A v \in Worker \ {w} : at'[v] = at[v]
    <2>1. task.cell \in Cells /\ SeenFrom(task.cell, task.seen) \in SUBSET Cells
        BY SeenFromCells DEF Task
    <2>2. at \in [Worker -> Spots] /\ 1 \in Index
        BY <1>1, TypesFacts, PoolAssumption DEF Index
    <2>. DEFINE spot == [step |-> "eval", cell |-> task.cell, next |-> 1,
                         seen |-> SeenFrom(task.cell, task.seen)]
    <2>3. spot \in Spots /\ spot.step = "eval"
        BY <2>1, <2>2 DEF Spots, Steps
    <2>4. at' = [at EXCEPT ![w] = spot]
        BY <1>4 DEF TakeInto
    <2>. HIDE DEF spot
    <2>. QED  BY <2>2, <2>3, <2>4
<1>6. TypesOK'
    BY <1>1, <1>2, <1>3, <1>5, TypesFacts, TypesFrom DEF flagVars
<1>8. \A v \in Worker : at'[v].step \in {"push", "collect"} =>
          at'[v].step = at[v].step /\ at'[v].cell = at[v].cell
    BY <1>5
<1>9. PendingCounts(Tree, Early, Late, Rising, pending')
    BY <1>1, <1>2 DEF MarksOK
<1>10. MarksOK' /\ Early' = Early /\ \A x : Working(x)' <=> Working(x)
    BY <1>1, <1>2, <1>3, <1>8, <1>9, SameMarks
<1>11. DoneOK'
    BY <1>1, <1>2, <1>3, <1>5, <1>10, DoneStays
<1>12. Building' = Building
    BY <1>2, FrameKeeps
<1>13. SlotsOK'
    BY <1>1, <1>2, <1>10, <1>12, SlotsStay
<1>14. WorkedOK'
    BY <1>1, <1>2, <1>10, WorkedStays
<1>15. Same
    <2>1. Step(w) # "push" /\ at'[w].step # "push"
        BY <1>5 DEF Take
    <2>. QED  BY <1>1, <1>5, <1>10, <2>1, PushingChange DEF Same, Keeps
<1>. QED  BY <1>3, <1>6, <1>10, <1>11, <1>13, <1>14, <1>15 DEF CoreInv

(* A step that only cancels or ends a phase. *)
LEMMA StillStep ==
    ASSUME CoreInv, UNCHANGED <<shape, type, slot, allocated, pending, tasks, local, at, done, worked>>,
           Building' = Building, phase' \in {"build", "walk", "end", "cancelled"},
           cancel' \in BOOLEAN, cancel => cancel'
    PROVE  CoreInv' /\ Same
<1>1. TypesOK /\ Unique /\ MarksOK /\ DoneOK /\ SlotsOK /\ WorkedOK
    BY DEF CoreInv
<1>2. /\ Tree' = Tree /\ (\A c : IsBranch(c)' = IsBranch(c)) /\ (\A c : Kept(c)' = Kept(c))
    BY DEF Tree, IsBranch, Kept
<1>3. \A w \in Worker :
          /\ Step(w)' = Step(w) /\ Cell(w)' = Cell(w) /\ Unpushed(w)' = Unpushed(w)
          /\ EarlyOf(w)' = EarlyOf(w) /\ LateOf(w)' = LateOf(w) /\ RisingOf(w)' = RisingOf(w)
          /\ Own(w)' = Own(w) /\ Mine(w)' = Mine(w)
    BY DEF Step, Cell, Unpushed, EarlyOf, LateOf, RisingOf, Own, Mine
<1>4. Waiting' = Waiting /\ Late' = Late /\ Rising' = Rising
    BY <1>3 DEF Waiting, Late, Rising
<1>5. Early' = Early /\ \A x : Working(x)' = Working(x)
    BY <1>2, <1>4 DEF Early, Working
<1>6. TypesOK'
    BY <1>1, TypesFacts, TypesFrom
<1>7. Unique'
    BY <1>1, <1>3 DEF Unique
<1>8. MarksOK'
    BY <1>1, <1>2, <1>3, <1>4, <1>5 DEF MarksOK
<1>9. DoneOK'
    BY <1>1, <1>3, <1>4, <1>5, TypesFacts DEF DoneOK
<1>10. SlotsOK'
    BY <1>1, <1>2, <1>5, SlotsStay
<1>11. WorkedOK'
    BY <1>1, <1>2, <1>5 DEF WorkedOK
<1>12. Same
    <2>1. \A w \in Worker : PushingOf(w)' = PushingOf(w)
        BY <1>3 DEF PushingOf
    <2>2. Pushing' = Pushing
        BY <2>1 DEF Pushing
    <2>. QED  BY <1>5, <2>2 DEF Same, Keeps
<1>. QED  BY <1>6, <1>7, <1>8, <1>9, <1>10, <1>11, <1>12 DEF CoreInv

-----------------------------------------------------------------------------
(* Cells are handed out *)

(* A step that hands out a cell and may set its counter to what it is. *)
LEMMA PushStep ==
    ASSUME CoreInv, NEW w \in Worker, Step(w) = "push", Frame,
           NEW d, d = Append(Cell(w), at[w].next),
           NEW seen \in SUBSET Cells, PushTask(w, [cell |-> d, seen |-> seen]),
           IF at[w].next < Arity THEN at' = [at EXCEPT ![w].next = @ + 1]
           ELSE Go(w, "loop", Cell(w)),
           type' \in [Cells -> {"unknown", "empty", "filled", "ambiguous"}], allocated' \subseteq Cells,
           pending' \in [Cells -> -1 .. Arity - 1],
           PendingCounts(Tree, Early, Late, Rising, pending'),
           UNCHANGED <<shape, slot, flagVars, phase, worked>>
    PROVE  CoreInv' /\ Keeps /\ (Building => HandedOut(d))
<1>1. TypesOK /\ Unique /\ MarksOK /\ DoneOK /\ SlotsOK /\ WorkedOK
    BY DEF CoreInv
<1>2. Cell(w) \notin Leaves
    BY <1>1 DEF MarksOK
<1>3. /\ Unique' /\ Waiting' = Waiting /\ Late' = Late /\ Rising' = Rising
      /\ tasks' \in Seq(Task) /\ local' \in [Worker -> Seq(Task)]
      /\ at' \in [Worker -> Spots]
      /\ \A v \in Worker \ {w} : at'[v] = at[v]
      /\ at'[w].cell = at[w].cell /\ at'[w].step \in {"push", "loop"}
    BY <1>1, <1>2, PushTokens DEF Spots
<1>4. TypesOK'
    BY <1>1, <1>3, TypesFacts, TypesFrom DEF flagVars
<1>5. \A v \in Worker : at'[v].step \in {"push", "collect"} =>
          at'[v].step = at[v].step /\ at'[v].cell = at[v].cell
    BY <1>3 DEF Step
<1>6. MarksOK' /\ Early' = Early /\ \A x : Working(x)' <=> Working(x)
    BY <1>1, <1>3, <1>5, SameMarks
<1>7. DoneOK'
    BY <1>1, <1>3, <1>6, DoneStays
<1>8. Building' = Building
    BY FrameKeeps
<1>9. SlotsOK'
    BY <1>1, <1>6, <1>8, SlotsStay
<1>10. WorkedOK'
    BY <1>1, <1>6, WorkedStays
<1>11. Keeps
    BY <1>6 DEF Keeps
<1>12. ASSUME Building PROVE HandedOut(d)
    <2>1. d \in PushingOf(w) /\ PushingOf(w)' = PushingOf(w) \ {d}
        <3>1. d \in EarlyOf(w) /\ EarlyOf(w)' = EarlyOf(w) \ {d}
            BY <1>1, <1>2, PushTokens
        <3>2. EarlyOf(w) = PushingOf(w) /\ EarlyOf(w)' = PushingOf(w)'
            BY <1>3 DEF EarlyOf, PushingOf, Step
        <3>. QED  BY <3>1, <3>2
    <2>2. Pushing' = (Pushing \ PushingOf(w)) \cup PushingOf(w)'
        BY <1>1, <1>3, PushingChange
    <2>3. PushingOf(w) \subseteq Pushing
        BY DEF Pushing
    <2>4. Pushing' = Pushing \ {d} /\ d \in Pushing
        BY <2>1, <2>2, <2>3
    <2>. QED  BY <1>1, <1>6, <1>11, <1>12, <2>4, PushingIsEarly DEF HandedOut
<1>. QED  BY <1>3, <1>4, <1>6, <1>7, <1>9, <1>10, <1>11, <1>12 DEF CoreInv

LEMMA PushBranchStep ==
    ASSUME CoreInv, NEW w \in Worker, PushBranch(w), UNCHANGED <<phase, worked>>
    PROVE  CoreInv' /\ Keeps
<1>1. TypesOK /\ MarksOK
    BY DEF CoreInv
<1>2. Frame /\ Step(w) = "push" /\ pending' = pending /\ type' = type /\ allocated' = allocated
    BY DEF PushBranch, Frame, cellVars
<1>3. PendingCounts(Tree, Early, Late, Rising, pending')
    BY <1>1, <1>2 DEF MarksOK
<1>4. UNCHANGED <<shape, slot, flagVars, phase, worked>>
    BY DEF PushBranch, cellVars
<1>5. /\ type' \in [Cells -> {"unknown", "empty", "filled", "ambiguous"}]
      /\ allocated' \subseteq Cells /\ pending' \in [Cells -> -1 .. Arity - 1]
    BY <1>1, <1>2, TypesFacts
<1>. DEFINE d == Append(Cell(w), at[w].next)
<1>6. /\ PushTask(w, [cell |-> d, seen |-> {}])
      /\ IF at[w].next < Arity THEN at' = [at EXCEPT ![w].next = @ + 1]
         ELSE Go(w, "loop", Cell(w))
    BY DEF PushBranch
<1>7. d = Append(Cell(w), at[w].next) /\ {} \in SUBSET Cells
    OBVIOUS
<1>. HIDE DEF d
<1>. QED  BY <1>2, <1>3, <1>4, <1>5, <1>6, <1>7, PushStep

LEMMA PushChildStep ==
    ASSUME CoreInv, phase = "build", NEW w \in Worker, PushChild(w), UNCHANGED <<phase, worked>>
    PROVE  CoreInv' /\ HandedOut(Append(Cell(w), at[w].next))
<1>1. TypesOK /\ Unique /\ MarksOK
    BY DEF CoreInv
<1>. DEFINE d == Append(Cell(w), at[w].next)
<1>2. d = Append(Cell(w), at[w].next)
    OBVIOUS
<1>3. /\ Step(w) = "push" /\ type' = [type EXCEPT ![d] = "unknown"]
      /\ pending' = [pending EXCEPT ![d] = Arity - 1] /\ allocated' = allocated \cup {d}
      /\ PushTask(w, [cell |-> d, seen |-> at[w].seen])
      /\ IF at[w].next < Arity THEN at' = [at EXCEPT ![w].next = @ + 1]
         ELSE Go(w, "loop", Cell(w))
      /\ UNCHANGED <<shape, slot, flagVars, phase, worked>>
    BY DEF PushChild
<1>. HIDE DEF d
<1>4. Building /\ Tree = Cells /\ Frame
    BY <1>1, TreeFacts DEF Building, Frame
<1>5. Cell(w) \notin Leaves
    BY <1>1, <1>3 DEF MarksOK
<1>6. d \in Unpushed(w) /\ d \in Cells
    BY <1>1, <1>2, <1>5, UnpushedCells
<1>7. d \in Early
    BY <1>1, <1>3, <1>4, <1>6, MarksAt, MineIsMarked DEF Early
<1>8. MarksIn(Tree, Early, Late, Rising) /\ PendingCounts(Tree, Early, Late, Rising, pending)
    BY <1>1 DEF MarksOK
<1>9. Arity \in Nat /\ Arity # 0
    BY PoolAssumption
<1>10. Kids(Cells, d) # {} => Arity = Cardinality(OpenKids(Cells, Early, Late, d))
    <2>1. SUFFICES ASSUME Kids(Cells, d) # {}
                   PROVE  Arity = Cardinality(OpenKids(Cells, Early, Late, d))
        OBVIOUS
    <2>2. d \notin Leaves
        BY <1>6, <2>1, ChildProperties DEF Kids
    <2>3. \A e \in ChildrenOf(d) : e \in Cells /\ IsPrefix(d, e)
        BY <1>6, <2>2, ChildProperties DEF IsStrictPrefix
    <2>4. \A e \in ChildrenOf(d) : Open(Early, Late, e)
        BY <1>4, <1>7, <1>8, <2>3, EarlyMarkAlone
    <2>5. OpenKids(Cells, Early, Late, d) = ChildrenOf(d)
        BY <2>3, <2>4 DEF OpenKids, Kids
    <2>. QED  BY <1>6, <2>5, ChildrenAreFinite
<1>11. PendingCounts(Tree, Early, Late, Rising, pending')
    <2>1. SUFFICES ASSUME NEW p \in Cells, IsWorking(Early, Late, Rising, p), Kids(Cells, p) # {}
                   PROVE  pending'[p] + 1 = Cardinality(OpenKids(Cells, Early, Late, p))
        BY <1>4 DEF PendingCounts
    <2>2. pending \in [Cells -> -1 .. Arity - 1]
        BY <1>1, TypesFacts
    <2>3. CASE p = d
        BY <1>3, <1>6, <1>9, <1>10, <2>1, <2>2, <2>3
    <2>4. CASE p # d
        BY <1>3, <1>4, <1>8, <2>1, <2>2, <2>4 DEF PendingCounts
    <2>. QED  BY <2>3, <2>4
<1>12. pending' \in [Cells -> -1 .. Arity - 1]
    <2>1. Arity - 1 \in -1 .. Arity - 1
        BY <1>9
    <2>. QED  BY <1>1, <1>3, <2>1, TypesFacts
<1>13. /\ type' \in [Cells -> {"unknown", "empty", "filled", "ambiguous"}]
       /\ allocated' \subseteq Cells
    BY <1>1, <1>3, <1>6, TypesFacts
<1>14. at[w].seen \in SUBSET Cells
    BY <1>1, TypesFacts DEF Spots
<1>. QED  BY <1>2, <1>3, <1>4, <1>11, <1>12, <1>13, <1>14, PushStep

-----------------------------------------------------------------------------
(* Cells are evaluated *)

(* The cells above a mark are worked on. *)
LEMMA AboveMarks ==
    ASSUME TypesOK, MarksOK, NEW m \in Early \cup Late, NEW q, IsStrictPrefix(q, m)
    PROVE  Working(q)
<1>1. /\ \A k, n \in Early \cup Late : IsPrefix(k, n) => k = n
      /\ Rising \subseteq Late
    BY MarksFacts
<1>2. IsPrefix(q, m) /\ q # m
    BY DEF IsStrictPrefix
<1>3. q \notin Rising
    BY <1>1, <1>2
<1>4. Open(Early, Late, q)
    BY <1>2 DEF Open
<1>. QED  BY <1>3, <1>4 DEF Working, IsWorking

LEMMA InstalledTypes ==
    ASSUME NEW slots \in [Cells -> {"null", "cell", "empty", "filled"}], NEW c \in Cells,
           NEW state \in {"empty", "filled", "ambiguous"}
    PROVE  Installed(slots, c, state) \in [Cells -> {"null", "cell", "empty", "filled"}]
BY DEF Installed

(* A cell is finished as soon as it is looked into. *)
LEMMA FinishStep ==
    ASSUME CoreInv, phase = "build", NEW w \in Worker, Step(w) = "eval",
           NEW c, c = Cell(w), NEW state \in {"empty", "filled", "ambiguous"},
           state # "ambiguous" => AllAre(shape, c, state),
           type' \in [Cells -> {"unknown", "empty", "filled", "ambiguous"}],
           slot' = Installed(slot, c, state), allocated' \subseteq Cells,
           Go(w, "up", c), UNCHANGED <<shape, pending, taskVars, flagVars, phase, worked>>
    PROVE  CoreInv' /\ Finished(c)
<1>1. TypesOK /\ Unique /\ MarksOK /\ DoneOK /\ SlotsOK /\ WorkedOK
    BY DEF CoreInv
<1>2. Building /\ Tree = Cells /\ Frame
    BY <1>1, TreeFacts DEF Building, Frame
<1>3. Building' = Building
    BY <1>2, FrameKeeps
<1>4. c \in Cells
    BY <1>1, MarksAt
<1>5. /\ Unique' /\ MarksOK' /\ c \in Early /\ Early' = Early \ {c}
      /\ \A x \in Tree : Working(x)' <=> Working(x) /\ ~IsPrefix(c, x)
    BY <1>1, <1>2, <1>4, FinishedMarks
<1>6. /\ at' \in [Worker -> Spots] /\ \A v \in Worker \ {w} : at'[v] = at[v]
      /\ at'[w].step = "up"
    BY <1>1, <1>4, GoTo DEF Spots, Steps
<1>7. slot' \in [Cells -> {"null", "cell", "empty", "filled"}]
    BY <1>1, <1>4, InstalledTypes, TypesFacts
<1>8. TypesOK'
    BY <1>1, <1>6, <1>7, TypesFacts, TypesFrom DEF taskVars, flagVars
<1>9. \A x \in Cells : IsPrefix(c, x) => Working(x)
    BY <1>1, <1>2, <1>5, MarksFacts, EarlyMarkAlone DEF Working
<1>10. \A q \in Cells : IsStrictPrefix(q, c) => Working(q)
    BY <1>1, <1>5, AboveMarks
<1>11. SlotsOK'
    BY <1>1, <1>2, <1>3, <1>4, <1>5, <1>9, <1>10, SlotsFinished
<1>12. DoneOK'
    BY <1>1, <1>5, <1>6, DoneStays
<1>13. WorkedOK'
    BY <1>1, <1>2, WorkedStays
<1>14. c \notin Pushing /\ Pushing' = Pushing
    <2>1. c \in Own(w)
        BY DEF Own, EarlyOf
    <2>2. \A v \in Worker : c \notin PushingOf(v)
        BY <1>1, <2>1, OwnedAlone DEF PushingOf, Own, EarlyOf
    <2>. QED  BY <1>1, <1>6, <2>2, PushingChange DEF Pushing
<1>. QED  BY <1>2, <1>5, <1>8, <1>9, <1>11, <1>12, <1>13, <1>14 DEF CoreInv, Finished

LEMMA EvalLeafStep ==
    ASSUME CoreInv, phase = "build", NEW w \in Worker, EvalLeaf(w), UNCHANGED <<phase, worked>>
    PROVE  CoreInv' /\ Finished(Cell(w))
<1>1. TypesOK
    BY DEF CoreInv
<1>. DEFINE c == Cell(w)
            state == IF shape[c] = "mixed" THEN "ambiguous" ELSE shape[c]
<1>2. c = Cell(w) /\ state = IF shape[c] = "mixed" THEN "ambiguous" ELSE shape[c]
    OBVIOUS
<1>3. /\ Step(w) = "eval" /\ c \in Leaves /\ type' = [type EXCEPT ![c] = state]
      /\ slot' = Installed(slot, c, state) /\ Released(w, Given(c, state)) /\ Go(w, "up", c)
      /\ UNCHANGED <<shape, pending, taskVars, flagVars, phase, worked>>
    BY DEF EvalLeaf
<1>. HIDE DEF c, state
<1>4. c \in Cells
    BY <1>3, LeavesAreCells
<1>5. shape \in [Leaves -> {"empty", "filled", "mixed"}]
    BY <1>1, ShapeAssumption, TypesFacts
<1>6. state \in {"empty", "filled", "ambiguous"} /\ (state # "ambiguous" => shape[c] = state)
    BY <1>2, <1>3, <1>5
<1>7. state # "ambiguous" => AllAre(shape, c, state)
    <2>1. \A l \in Within(c) : l = c
        BY <1>3, NothingBelowLeaf DEF Within
    <2>. QED  BY <1>6, <2>1 DEF AllAre
<1>8. type' \in [Cells -> {"unknown", "empty", "filled", "ambiguous"}]
    BY <1>1, <1>3, <1>4, <1>6, TypesFacts
<1>9. allocated' \subseteq Cells
    BY <1>1, <1>3, TypesFacts DEF Released
<1>. QED  BY <1>2, <1>3, <1>6, <1>7, <1>8, <1>9, FinishStep

LEMMA EvalIntervalStep ==
    ASSUME CoreInv, phase = "build", NEW w \in Worker, EvalInterval(w), UNCHANGED <<phase, worked>>
    PROVE  CoreInv' /\ IF Step(w)' = "push" THEN Split(Cell(w)) ELSE Finished(Cell(w))
<1>1. TypesOK /\ Unique /\ MarksOK /\ DoneOK /\ SlotsOK /\ WorkedOK
    BY DEF CoreInv
<1>. DEFINE c == Cell(w)
<1>2. PICK state \in IntervalOf(c) :
          /\ type' = [type EXCEPT ![c] = state]
          /\ IF state = "ambiguous"
             THEN Go(w, "push", c) /\ UNCHANGED <<slot, allocated, size, counter, total>>
             ELSE /\ slot' = Installed(slot, c, state)
                  /\ Released(w, Given(c, state))
                  /\ Tick(TicksOf(c))
                  /\ Go(w, "up", c)
    BY DEF EvalInterval
<1>3. /\ c = Cell(w) /\ Step(w) = "eval" /\ c \notin Leaves
      /\ UNCHANGED <<shape, pending, taskVars, flagVars, phase, worked>>
    BY DEF EvalInterval
<1>. HIDE DEF c
<1>4. c \in Cells
    BY <1>1, <1>3, MarksAt
<1>5. state \in {"empty", "filled", "ambiguous"} /\ (state # "ambiguous" => AllAre(shape, c, state))
    BY <1>2 DEF IntervalOf
<1>6. type' \in [Cells -> {"unknown", "empty", "filled", "ambiguous"}]
    BY <1>1, <1>2, <1>4, <1>5, TypesFacts
<1>7. CASE state # "ambiguous"
    <2>1. /\ slot' = Installed(slot, c, state) /\ Go(w, "up", c) /\ allocated' \subseteq Cells
        BY <1>1, <1>2, <1>7, TypesFacts DEF Released
    <2>2. CoreInv' /\ Finished(c)
        BY <1>3, <1>5, <1>6, <2>1, FinishStep
    <2>3. at'[w].step = "up"
        BY <1>1, <1>4, <2>1, GoTo DEF Steps
    <2>. QED  BY <1>3, <2>2, <2>3 DEF Step
<1>8. CASE state = "ambiguous"
    <2>1. Go(w, "push", c) /\ UNCHANGED <<slot, allocated>>
        BY <1>2, <1>8
    <2>2. Building /\ Tree = Cells /\ Frame
        BY <1>1, <1>3, TreeFacts DEF Building, Frame
    <2>3. Building' = Building
        BY <2>2, FrameKeeps
    <2>4. Kids(Tree, c) # {}
        <3>1. Append(c, 1) \in ChildrenOf(c) /\ Append(c, 1) \in Cells
            <4>1. Append(c, 1) \in ChildrenOf(c)
                BY PoolAssumption DEF ChildrenOf, Index
            <4>. QED  BY <1>3, <1>4, <4>1, ChildProperties
        <3>. QED  BY <2>2, <3>1 DEF Kids
    <2>5. UNCHANGED <<taskVars, pending>>
        BY <1>3
    <2>6. /\ Unique' /\ MarksOK' /\ c \in Early /\ Early' = (Early \ {c}) \cup Kids(Tree, c)
          /\ \A x \in Tree : Working(x)' = Working(x)
        BY <1>1, <1>3, <1>4, <2>1, <2>2, <2>4, <2>5, SplitMarks
    <2>7. /\ at' \in [Worker -> Spots] /\ \A v \in Worker \ {w} : at'[v] = at[v]
          /\ at'[w].step = "push"
        BY <1>1, <1>4, <2>1, GoTo DEF Spots, Steps
    <2>8. TypesOK'
        BY <1>1, <1>3, <1>6, <2>1, <2>7, TypesFacts, TypesFrom DEF taskVars, flagVars
    <2>9. SlotsOK'
        BY <1>1, <1>3, <2>1, <2>2, <2>3, <2>6, SlotsStay
    <2>10. DoneOK'
        BY <1>1, <1>3, <2>6, <2>7, DoneStays
    <2>11. WorkedOK'
        BY <1>1, <1>3, <2>2, WorkedStays
    <2>12. CoreInv'
        BY <2>6, <2>8, <2>9, <2>10, <2>11 DEF CoreInv
    <2>13. Kids(Tree, c) = ChildrenOf(c)
        BY <1>3, <1>4, <2>2, ChildProperties DEF Kids
    <2>14. c \notin Pushing /\ Pushing' = Pushing \cup ChildrenOf(c)
        <3>1. c \in Own(w) /\ PushingOf(w) = {}
            BY <1>3 DEF Own, EarlyOf, PushingOf
        <3>2. \A v \in Worker : c \notin PushingOf(v)
            BY <1>1, <3>1, OwnedAlone DEF PushingOf, Own, EarlyOf
        <3>3. PushingOf(w)' = ChildrenOf(c)
            <4>1. EarlyOf(w)' = ChildrenOf(c)
                BY <1>1, <1>3, <1>4, <2>1, GoTo DEF Steps
            <4>. QED  BY <2>7, <4>1 DEF EarlyOf, PushingOf, Step
        <3>4. Pushing' = (Pushing \ PushingOf(w)) \cup PushingOf(w)'
            BY <1>1, <2>7, PushingChange
        <3>. QED  BY <3>1, <3>2, <3>3, <3>4 DEF Pushing
    <2>. QED  BY <1>3, <2>6, <2>7, <2>12, <2>13, <2>14 DEF Split, Keeps, Step
<1>. QED  BY <1>7, <1>8

-----------------------------------------------------------------------------
(* Cells report, and are collected *)

(* When the tree is built, the branches are those that were kept. *)
LEMMA KeptBranches ==
    ASSUME NEW q \in Cells
    PROVE  /\ Kept(q) => IsBranch(q)
           /\ SlotsOK /\ ~Building /\ IsBranch(q) => Kept(q)
<1>1. Append(q, 1) \in ChildrenOf(q)
    BY PoolAssumption DEF ChildrenOf, Index
<1>2. Kept(q) => IsBranch(q)
    BY <1>1 DEF Kept, IsBranch
<1>3. ASSUME SlotsOK, ~Building, IsBranch(q) PROVE Kept(q)
    <2>1. Append(q, 1) \in Cells /\ slot[Append(q, 1)] # "null"
        BY <1>3 DEF IsBranch
    <2>2. IsStrictPrefix(q, Append(q, 1))
        BY <1>1, <2>1, ChildProperties
    <2>. QED  BY <1>3, <2>1, <2>2 DEF SlotsOK
<1>. QED  BY <1>2, <1>3

LEMMA UpStep ==
    ASSUME CoreInv, NEW w \in Worker, Up(w), UNCHANGED <<phase, worked>>
    PROVE  CoreInv' /\ Same
<1>1. TypesOK /\ Unique /\ MarksOK /\ DoneOK /\ SlotsOK /\ WorkedOK
    BY DEF CoreInv
<1>. DEFINE c == Cell(w)
            p == Front(c)
<1>2. /\ c = Cell(w) /\ p = Front(c) /\ Step(w) = "up"
      /\ IF c = Root
         THEN Go(w, "exit", c) /\ UNCHANGED pending
         ELSE /\ pending' = [pending EXCEPT ![p] = @ - 1]
              /\ Go(w, IF pending[p] = 0 THEN "collect" ELSE "loop", p)
      /\ UNCHANGED <<shape, type, slot, allocated, taskVars, flagVars, phase, worked>>
    BY DEF Up, cellVars
<1>. HIDE DEF c, p
<1>3. Frame /\ Building' = Building /\ UNCHANGED taskVars
    BY <1>2, FrameKeeps DEF Frame
<1>4. c \in Cells /\ c \in Late
    BY <1>1, <1>2, MarksAt
<1>5. CASE c = Root
    <2>1. Go(w, "exit", Root) /\ UNCHANGED <<taskVars, pending>> /\ Cell(w) = Root
        BY <1>2, <1>5
    <2>2. /\ Unique' /\ MarksOK' /\ Early' = {} /\ Late' = {}
          /\ \A x \in Tree : ~Working(x) /\ ~Working(x)'
        BY <1>1, <1>2, <1>3, <2>1, RootReportedMarks
    <2>3. at' \in [Worker -> Spots]
        BY <1>1, <1>4, <1>5, <2>1, GoTo DEF Spots, Steps
    <2>4. TypesOK'
        BY <1>1, <1>2, <2>1, <2>3, TypesFacts, TypesFrom DEF taskVars, flagVars
    <2>5. Building => \A x \in Cells : Working(x)' <=> Working(x)
        BY <1>1, <2>2, TreeFacts
    <2>6. SlotsOK'
        BY <1>1, <1>2, <1>3, <2>5, SlotsStay
    <2>7. DoneOK'
        BY <2>2 DEF DoneOK
    <2>8. WorkedOK'
        BY <1>1, <1>2, <1>3, <2>2, WorkedStays
    <2>9. Same
        <3>1. Early = {} /\ \A v \in Worker \ {w} : at'[v] = at[v]
            BY <1>1, <1>2, <1>3, <1>4, <1>5, <2>1, RootReportedMarks, GoTo DEF Steps
        <3>2. at'[w].step = "exit"
            BY <1>1, <1>4, <1>5, <2>1, GoTo DEF Steps
        <3>. QED  BY <1>1, <1>2, <2>2, <3>1, <3>2, PushingChange DEF Same, Keeps
    <2>. QED  BY <2>2, <2>4, <2>6, <2>7, <2>8, <2>9 DEF CoreInv
<1>6. CASE c # Root
    <2>1. /\ pending' = [pending EXCEPT ![p] = @ - 1]
          /\ Go(w, IF pending[p] = 0 THEN "collect" ELSE "loop", p)
        BY <1>2, <1>6
    <2>2. p \in Cells /\ IsStrictPrefix(p, c)
        BY <1>2, <1>4, <1>6, ParentProperties
    <2>3. ~Building => IsBranch(p)
        <3>1. SUFFICES ASSUME ~Building PROVE IsBranch(p)
            OBVIOUS
        <3>2. slot[c] = "cell"
            BY <1>1, <1>4, <1>6, <3>1, MarksFacts DEF Tree
        <3>3. Kept(p)
            BY <1>1, <1>4, <2>2, <3>1, <3>2 DEF SlotsOK
        <3>. QED  BY <2>2, <3>3, KeptBranches
    <2>4. /\ Unique' /\ MarksOK' /\ Early \cup Late # {} /\ Early' = Early
          /\ \A x \in Tree : Working(x)' <=> Working(x)
          /\ pending[p] \in Nat
        BY <1>1, <1>2, <1>3, <1>6, <2>1, <2>3, ReportedMarks
    <2>5. /\ at' \in [Worker -> Spots] /\ \A v \in Worker \ {w} : at'[v] = at[v]
          /\ at'[w].step \in {"collect", "loop"}
        <3>. DEFINE step == IF pending[p] = 0 THEN "collect" ELSE "loop"
        <3>1. step \in {"collect", "loop"} /\ Go(w, step, p)
            BY <2>1
        <3>. HIDE DEF step
        <3>. QED  BY <1>1, <2>2, <3>1, GoTo DEF Spots, Steps
    <2>6. pending' \in [Cells -> -1 .. Arity - 1]
        <3>1. pending \in [Cells -> -1 .. Arity - 1] /\ Arity \in Nat
            BY <1>1, TypesFacts, PoolAssumption
        <3>2. pending[p] - 1 \in -1 .. Arity - 1
            BY <2>2, <2>4, <3>1
        <3>. QED  BY <2>1, <3>1, <3>2
    <2>7. TypesOK'
        BY <1>1, <1>2, <2>5, <2>6, TypesFacts, TypesFrom DEF taskVars, flagVars
    <2>8. Building => \A x \in Cells : Working(x)' <=> Working(x)
        BY <1>1, <2>4, TreeFacts
    <2>9. SlotsOK'
        BY <1>1, <1>2, <1>3, <2>8, SlotsStay
    <2>10. DoneOK'
        BY <1>1, <1>2, <2>4, <2>5, DoneStays
    <2>11. WorkedOK'
        BY <1>1, <1>2, <1>3, <2>4, WorkedStays
    <2>12. Same
        BY <1>1, <1>2, <2>4, <2>5, PushingChange DEF Same, Keeps
    <2>. QED  BY <2>4, <2>7, <2>9, <2>10, <2>11, <2>12 DEF CoreInv
<1>. QED  BY <1>5, <1>6

LEMMA UniformKids ==
    ASSUME NEW c \in Cells, c \notin Leaves, NEW s, NEW state,
           \A d \in ChildrenOf(c) : AllAre(s, d, state)
    PROVE  AllAre(s, c, state)
<1>1. SUFFICES ASSUME NEW l \in Within(c) \cap Leaves PROVE s[l] = state
    BY DEF AllAre
<1>2. l \in Cells /\ IsStrictPrefix(c, l)
    BY DEF Within, IsStrictPrefix
<1>3. PICK d \in ChildrenOf(c) \cap Cells : IsPrefix(d, l)
    BY <1>2, BelowIsBelowChild
<1>. QED  BY <1>2, <1>3 DEF AllAre, Within

(* What is known of a cell that waits to be collected. *)
LEMMA CollectedCell ==
    ASSUME TypesOK, Unique, MarksOK, NEW w \in Worker, Step(w) = "collect", NEW c, c = Cell(w)
    PROVE  /\ c \in Cells /\ c \in Tree /\ c \in Late /\ c \notin Leaves /\ Working(c)
           /\ \A x \in Tree : IsStrictPrefix(c, x) => ~Working(x)
           /\ \A q \in Cells : IsStrictPrefix(q, c) => Working(q)
<1>1. MarksIn(Tree, Early, Late, Rising) /\ c \notin Leaves
    BY DEF MarksOK
<1>2. c \in Late /\ c \notin Rising /\ c \in Cells
    BY MarksAt
<1>3. Late \subseteq Tree
    BY MarksFacts
<1>. QED  BY <1>1, <1>2, <1>3, LateMarkAlone DEF Working, IsWorking

LEMMA CollectStep ==
    ASSUME CoreInv, phase = "build", NEW w \in Worker, Collect(w), UNCHANGED <<phase, worked>>
    PROVE  CoreInv' /\ Collected(Cell(w))
<1>1. TypesOK /\ Unique /\ MarksOK /\ DoneOK /\ SlotsOK /\ WorkedOK
    BY DEF CoreInv
<1>. DEFINE c == Cell(w)
            kids == ChildrenOf(c)
            own == {d \in kids : slot[d] = "cell"}
            without == [d \in Cells |-> IF d \in kids THEN "null" ELSE slot[d]]
            Uniform(s) == \A d \in kids : slot[d] = s
            Become(state, slots) ==
                /\ type' = [type EXCEPT ![c] = state]
                /\ slot' = Installed(slots, c, state)
                /\ allocated' \subseteq allocated
<1>2. /\ Step(w) = "collect" /\ Go(w, "up", c)
      /\ UNCHANGED <<shape, pending, taskVars, flagVars, phase, worked>>
      /\ IF \E d \in own : IsBranch(d) THEN Become("ambiguous", slot)
         ELSE IF Uniform("empty") THEN Become("empty", without)
         ELSE IF Uniform("filled") THEN Become("filled", without)
         ELSE Become("ambiguous", slot) \/ Become("ambiguous", without)
    BY DEF Collect, Released
<1>3. c = Cell(w) /\ kids = ChildrenOf(c)
      /\ without = [d \in Cells |-> IF d \in ChildrenOf(c) THEN "null" ELSE slot[d]]
    OBVIOUS
<1>. HIDE DEF c, without
<1>4. Building /\ Tree = Cells /\ Frame
    BY <1>1, <1>2, TreeFacts DEF Building, Frame
<1>5. Building' = Building
    BY <1>4, FrameKeeps
<1>6. /\ c \in Cells /\ c \notin Leaves /\ Working(c) /\ c \in Late
      /\ \A x \in Cells : IsStrictPrefix(c, x) => ~Working(x)
      /\ \A q \in Cells : IsStrictPrefix(q, c) => Working(q)
    BY <1>1, <1>2, <1>3, <1>4, CollectedCell
<1>7. UNCHANGED <<taskVars, pending>>
    BY <1>2
<1>8. /\ Unique' /\ MarksOK' /\ Early' = Early
      /\ \A x \in Cells : Working(x)' <=> Working(x) /\ x # c
    BY <1>1, <1>2, <1>3, <1>4, <1>7, CollectedMarks
<1>9. \A d \in kids : d \in Cells /\ slot[d] \in {"cell", "empty", "filled"}
    BY <1>1, <1>4, <1>6, CollectedKids
<1>10. \A d \in kids : slot[d] # "cell" => AllAre(shape, d, slot[d])
    BY <1>1, <1>9 DEF SlotsOK
<1>11. without \in [Cells -> {"null", "cell", "empty", "filled"}]
    BY <1>1, <1>3, TypesFacts
<1>12. ASSUME NEW state \in {"empty", "filled", "ambiguous"}, NEW slots \in {slot, without},
              Become(state, slots)
       PROVE  /\ type' \in [Cells -> {"unknown", "empty", "filled", "ambiguous"}]
              /\ slot' \in [Cells -> {"null", "cell", "empty", "filled"}]
              /\ allocated' \subseteq Cells
    <2>1. slots \in [Cells -> {"null", "cell", "empty", "filled"}]
        BY <1>1, <1>11, TypesFacts
    <2>2. slot' \in [Cells -> {"null", "cell", "empty", "filled"}]
        BY <1>6, <1>12, <2>1, InstalledTypes
    <2>. QED  BY <1>1, <1>6, <1>12, <2>2, TypesFacts
<1>13. ASSUME Become("ambiguous", slot),
              (\E d \in own : IsBranch(d)) \/ ~(Uniform("empty") \/ Uniform("filled"))
       PROVE  SlotsOK'
    <2>1. \E d \in ChildrenOf(c) : slot[d] = "cell"
        <3>1. CASE \E d \in own : IsBranch(d)
            BY <3>1
        <3>2. CASE ~Uniform("empty") /\ ~Uniform("filled")
            <4>1. SUFFICES ASSUME \A d \in kids : slot[d] # "cell" PROVE FALSE
                OBVIOUS
            <4>2. PICK d \in kids : slot[d] = "filled"
                BY <1>9, <3>2, <4>1
            <4>3. PICK e \in kids : slot[e] = "empty"
                BY <1>9, <3>2, <4>1
            <4>4. /\ AllAre(shape, d, "filled") /\ AllAre(shape, e, "empty")
                  /\ d \in Cells /\ e \in Cells
                BY <1>9, <1>10, <4>2, <4>3
            <4>5. shape \in Shape
                BY <1>1, TypesFacts
            <4>. QED  BY <1>6, <4>2, <4>3, <4>4, <4>5, ShapeAssumption
        <3>. QED  BY <1>13, <3>1, <3>2
    <2>2. slot' = Installed(slot, c, "ambiguous") /\ shape' = shape
        BY <1>2, <1>13
    <2>3. SlotsOK'
        BY <1>1, <1>4, <1>5, <1>6, <1>8, <2>1, <2>2, SlotsKept
    <2>. QED  BY <2>3
<1>14. ASSUME NEW state \in {"empty", "filled", "ambiguous"}, Become(state, without),
              state # "ambiguous" => Uniform(state),
              \A d \in own : ~IsBranch(d)
       PROVE  SlotsOK'
    <2>1. state # "ambiguous" => AllAre(shape, c, state)
        <3>1. SUFFICES ASSUME state # "ambiguous" PROVE AllAre(shape, c, state)
            OBVIOUS
        <3>2. \A d \in ChildrenOf(c) : AllAre(shape, d, state)
            BY <1>10, <1>14, <3>1
        <3>. QED  BY <1>6, <3>2, UniformKids
    <2>2. slot' = Installed(without, c, state) /\ shape' = shape
        BY <1>2, <1>14
    <2>3. \A d \in ChildrenOf(c) : slot[d] = "cell" => ~IsBranch(d)
        BY <1>14
    <2>. QED  BY <1>1, <1>3, <1>4, <1>5, <1>6, <1>8, <2>1, <2>2, <2>3, SlotsCollapsed
<1>15. /\ SlotsOK'
       /\ type' \in [Cells -> {"unknown", "empty", "filled", "ambiguous"}]
       /\ slot' \in [Cells -> {"null", "cell", "empty", "filled"}]
       /\ allocated' \subseteq Cells
    <2>1. CASE \E d \in own : IsBranch(d)
        BY <1>2, <1>12, <1>13, <2>1
    <2>2. CASE (\A d \in own : ~IsBranch(d)) /\ Uniform("empty")
        BY <1>2, <1>12, <1>14, <2>2
    <2>3. CASE (\A d \in own : ~IsBranch(d)) /\ Uniform("filled") /\ ~Uniform("empty")
        BY <1>2, <1>12, <1>14, <2>3
    <2>4. CASE (\A d \in own : ~IsBranch(d)) /\ ~Uniform("filled") /\ ~Uniform("empty")
        <3>1. Become("ambiguous", slot) \/ Become("ambiguous", without)
            BY <1>2, <2>4
        <3>2. CASE Become("ambiguous", slot)
            BY <1>12, <1>13, <2>4, <3>2
        <3>3. CASE Become("ambiguous", without)
            BY <1>12, <1>14, <2>4, <3>3
        <3>. QED  BY <3>1, <3>2, <3>3
    <2>. QED  BY <2>1, <2>2, <2>3, <2>4
<1>16. /\ at' \in [Worker -> Spots] /\ \A v \in Worker \ {w} : at'[v] = at[v]
       /\ at'[w].step = "up"
    BY <1>1, <1>2, <1>6, GoTo DEF Spots, Steps
<1>17. TypesOK'
    BY <1>1, <1>2, <1>15, <1>16, TypesFacts, TypesFrom DEF taskVars, flagVars
<1>18. DoneOK'
    BY <1>1, <1>2, <1>6, <1>16, DoneStays
<1>19. WorkedOK'
    BY <1>1, <1>2, <1>4, WorkedStays
<1>20. Collected(c)
    BY <1>1, <1>2, <1>4, <1>6, <1>8, <1>16, PushingChange DEF Collected, Drops
<1>. QED  BY <1>3, <1>8, <1>15, <1>17, <1>18, <1>19, <1>20 DEF CoreInv

LEMMA JoinStep ==
    ASSUME CoreInv, NEW w \in Worker, Join(w), UNCHANGED <<phase, worked>>
    PROVE  CoreInv' /\ Same
<1>1. TypesOK /\ Unique /\ MarksOK /\ DoneOK /\ SlotsOK /\ WorkedOK
    BY DEF CoreInv
<1>2. /\ Step(w) = "exit" /\ Go(w, "joined", Cell(w)) /\ Frame /\ done' = TRUE
      /\ UNCHANGED <<shape, type, slot, allocated, pending, taskVars, cancel>>
    BY DEF Join, Frame, cellVars
<1>3. /\ Cell(w) \in Cells /\ EarlyOf(w) = {} /\ LateOf(w) = {} /\ RisingOf(w) = {}
    BY <1>1, <1>2, MarksAt
<1>4. /\ at' \in [Worker -> Spots] /\ \A v \in Worker \ {w} : at'[v] = at[v]
      /\ at'[w].step = "joined" /\ EarlyOf(w)' = {} /\ LateOf(w)' = {} /\ RisingOf(w)' = {}
    BY <1>1, <1>2, <1>3, GoTo DEF Spots, Steps
<1>5. TypesOK'
    BY <1>1, <1>2, <1>4, TypesFacts, TypesFrom DEF taskVars
<1>6. Own(w)' = {} /\ UNCHANGED taskVars
    BY <1>2, <1>4 DEF Own
<1>7. Unique' /\ Waiting' = Waiting /\ Late' = Late /\ Rising' = Rising
    BY <1>1, <1>3, <1>4, <1>6, OwnChange
<1>8. \A v \in Worker : at'[v].step \in {"push", "collect"} =>
          at'[v].step = at[v].step /\ at'[v].cell = at[v].cell
    BY <1>4
<1>9. PendingCounts(Tree, Early, Late, Rising, pending')
    BY <1>1, <1>2 DEF MarksOK
<1>10. MarksOK' /\ Early' = Early /\ \A x : Working(x)' <=> Working(x)
    BY <1>1, <1>2, <1>7, <1>8, <1>9, SameMarks
<1>11. DoneOK'
    BY <1>1, <1>2, <1>7, <1>10 DEF DoneOK
<1>12. Building' = Building
    BY <1>2, FrameKeeps
<1>13. SlotsOK'
    BY <1>1, <1>2, <1>10, <1>12, SlotsStay
<1>14. WorkedOK'
    BY <1>1, <1>2, <1>10, WorkedStays
<1>15. Same
    BY <1>1, <1>2, <1>4, <1>10, PushingChange DEF Same, Keeps
<1>. QED  BY <1>5, <1>7, <1>10, <1>11, <1>13, <1>14, <1>15 DEF CoreInv

-----------------------------------------------------------------------------
(* The walk *)

LEMMA WorkStep ==
    ASSUME CoreInv, phase = "walk", NEW w \in Worker, Work(w), UNCHANGED phase
    PROVE  CoreInv' /\ Drops(Cell(w))
<1>1. TypesOK /\ Unique /\ MarksOK /\ DoneOK /\ SlotsOK /\ WorkedOK
    BY DEF CoreInv
<1>. DEFINE c == Cell(w)
<1>2. /\ c = Cell(w) /\ Step(w) = "collect" /\ Go(w, "up", c) /\ worked' = worked \cup {c}
      /\ UNCHANGED <<shape, type, slot, allocated, pending, taskVars, flagVars>>
    BY DEF Work, cellVars
<1>. HIDE DEF c
<1>3. Frame /\ ~Building /\ UNCHANGED <<taskVars, pending>>
    BY <1>2 DEF Frame, Building
<1>4. c \in Cells /\ c \in Tree /\ c \in Late
    BY <1>1, <1>2, CollectedCell
<1>5. IsBranch(c)
    BY <1>1, <1>2, <1>3 DEF MarksOK
<1>6. /\ Unique' /\ MarksOK'
      /\ \A x \in Tree : Working(x)' <=> Working(x) /\ x # c
    BY <1>1, <1>2, <1>3, CollectedMarks
<1>7. /\ at' \in [Worker -> Spots] /\ \A v \in Worker \ {w} : at'[v] = at[v]
      /\ at'[w].step = "up"
    BY <1>1, <1>2, <1>4, GoTo DEF Spots, Steps
<1>8. worked' \subseteq Cells
    BY <1>1, <1>2, <1>4, TypesFacts
<1>9. TypesOK'
    BY <1>1, <1>2, <1>7, <1>8, TypesFacts, TypesFrom DEF taskVars, flagVars
<1>10. DoneOK'
    BY <1>1, <1>2, <1>4, <1>7, DoneStays
<1>11. Building' = Building /\ Tree' = Tree /\ \A x : IsBranch(x)' = IsBranch(x)
    BY <1>3, FrameKeeps
<1>12. SlotsOK'
    BY <1>1, <1>2, <1>3, <1>11, SlotsStay
<1>13. WorkedOK'
    BY <1>1, <1>2, <1>3, <1>4, <1>5, <1>6, <1>11 DEF WorkedOK
<1>14. Drops(c)
    BY <1>1, <1>2, <1>4, <1>6, CollectedCell DEF Drops
<1>. QED  BY <1>2, <1>6, <1>9, <1>10, <1>12, <1>13, <1>14 DEF CoreInv

LEMMA VisitStep ==
    ASSUME CoreInv, phase = "walk", NEW w \in Worker, Visit(w), UNCHANGED <<phase, worked>>
    PROVE  /\ CoreInv'
           /\ IF Step(w)' = "up" THEN Drops(Cell(w)) /\ Tick(1)
              ELSE Keeps /\ UNCHANGED <<counter, total>>
<1>1. TypesOK /\ Unique /\ MarksOK /\ DoneOK /\ SlotsOK /\ WorkedOK
    BY DEF CoreInv
<1>. DEFINE c == Cell(w)
<1>2. /\ c = Cell(w) /\ Step(w) = "eval"
      /\ IF slot[c] \in {"empty", "filled"} THEN Go(w, "loop", c) /\ UNCHANGED <<counter, total>>
         ELSE IF IsBranch(c) THEN Go(w, "push", c) /\ UNCHANGED <<counter, total>>
         ELSE Go(w, "up", c) /\ Tick(1)
      /\ UNCHANGED <<shape, type, slot, allocated, pending, taskVars, flagVars>>
    BY DEF Visit, cellVars
<1>. HIDE DEF c
<1>3. Frame /\ ~Building /\ UNCHANGED <<taskVars, pending>>
    BY <1>2 DEF Frame, Building
<1>4. Building' = Building
    BY <1>3, FrameKeeps
<1>5. c \in Cells /\ c \in Waiting
    BY <1>1, <1>2, MarksAt
<1>6. c = Root \/ slot[c] # "null"
    BY <1>1, <1>3, <1>5 DEF MarksOK
<1>7. /\ at' \in [Worker -> Spots] /\ \A v \in Worker \ {w} : at'[v] = at[v]
      /\ at'[w].step = IF slot[c] \in {"empty", "filled"} THEN "loop"
                       ELSE IF IsBranch(c) THEN "push" ELSE "up"
    <2>. DEFINE step == IF slot[c] \in {"empty", "filled"} THEN "loop"
                        ELSE IF IsBranch(c) THEN "push" ELSE "up"
    <2>1. step \in {"loop", "push", "up"} /\ Go(w, step, c)
        BY <1>2
    <2>. HIDE DEF step
    <2>2. at'[w].step = step
        BY <1>1, <1>5, <2>1, GoTo DEF Steps
    <2>3. at' \in [Worker -> Spots] /\ \A v \in Worker \ {w} : at'[v] = at[v]
        BY <1>1, <1>5, <2>1, GoTo DEF Spots, Steps
    <2>. QED  BY <2>2, <2>3 DEF step
<1>8. TypesOK'
    BY <1>1, <1>2, <1>7, TypesFacts, TypesFrom DEF taskVars, flagVars
<1>9. SlotsOK'
    BY <1>1, <1>2, <1>3, <1>4, SlotsStay
<1>10. SUFFICES /\ Unique' /\ MarksOK'
                /\ Early \cup Late = {} => Early' \cup Late' = {}
                /\ \A x \in Tree : IsBranch(x) => (Working(x)' <=> Working(x))
                /\ IF Step(w)' = "up" THEN Drops(c) /\ Tick(1)
                   ELSE Keeps /\ UNCHANGED <<counter, total>>
    <2>1. ASSUME Early \cup Late = {} => Early' \cup Late' = {}
          PROVE  DoneOK'
        BY <1>1, <1>2, <1>7, <2>1, DoneStays
    <2>2. ASSUME \A x \in Tree : IsBranch(x) => (Working(x)' <=> Working(x))
          PROVE  WorkedOK'
        BY <1>1, <1>3, <2>2, WorkedStays
    <2>. QED  BY <1>2, <1>8, <1>9, <2>1, <2>2 DEF CoreInv
<1>11. CASE slot[c] \in {"empty", "filled"}
    <2>1. c \notin Tree
        BY <1>1, <1>3, <1>11 DEF Tree, SlotsOK
    <2>2. /\ Go(w, "loop", Cell(w)) /\ Cell(w) \notin Tree
        BY <1>2, <1>11, <2>1
    <2>3. Unique' /\ MarksOK' /\ Early' = Early /\ Late' = Late /\ \A x : Working(x)' <=> Working(x)
        BY <1>1, <1>2, <1>3, <2>2, DroppedMarks
    <2>. QED  BY <1>2, <1>7, <1>11, <2>3 DEF Keeps, Step
<1>12. CASE slot[c] \notin {"empty", "filled"}
    <2>1. slot[c] \in {"null", "cell", "empty", "filled"}
        BY <1>1, <1>5, TypesFacts
    <2>2. c \in Tree
        BY <1>3, <1>5, <1>6, <1>12, <2>1 DEF Tree
    <2>3. CASE IsBranch(c)
        <3>1. Kept(c)
            BY <1>1, <1>3, <1>5, <2>3, KeptBranches
        <3>2. Append(c, 1) \in ChildrenOf(c)
            BY PoolAssumption DEF ChildrenOf, Index
        <3>3. Append(c, 1) \in Cells
            BY <3>1, <3>2 DEF Kept
        <3>4. c \notin Leaves
            BY <1>5, <3>2, <3>3, ChildProperties
        <3>5. Kids(Tree, c) # {}
            BY <1>3, <3>1 DEF Kids, Tree, Kept
        <3>6. \A d \in ChildrenOf(c) : slot[d] # "null"
            BY <3>1 DEF Kept
        <3>7. Go(w, "push", c)
            BY <1>2, <1>12, <2>3
        <3>8. /\ Unique' /\ MarksOK' /\ c \in Early
              /\ \A x \in Tree : Working(x)' = Working(x)
            BY <1>1, <1>2, <1>3, <2>2, <2>3, <3>4, <3>5, <3>6, <3>7, SplitMarks
        <3>. QED  BY <1>2, <1>7, <1>12, <2>3, <3>8 DEF Keeps, Step
    <2>4. CASE ~IsBranch(c)
        <3>1. Go(w, "up", c)
            BY <1>2, <1>12, <2>4
        <3>2. /\ Unique' /\ MarksOK' /\ c \in Early
              /\ \A x \in Tree : Working(x)' <=> Working(x) /\ ~IsPrefix(c, x)
            BY <1>1, <1>2, <1>3, <2>2, <3>1, FinishedMarks
        <3>3. \A x \in Tree : IsPrefix(c, x) => x = c
            <4>1. SUFFICES ASSUME NEW x \in Tree, IsStrictPrefix(c, x) PROVE FALSE
                BY DEF IsStrictPrefix
            <4>2. x # Root
                <5>1. Root \in Cells /\ IsPrefix(Root, c)
                    BY <1>5, RootIsPrefix
                <5>. QED  BY <1>5, <4>1, <5>1, PrefixOrder DEF IsStrictPrefix
            <4>3. x \in Cells /\ slot[x] = "cell"
                BY <1>3, <4>1, <4>2 DEF Tree
            <4>4. Kept(c)
                BY <1>1, <1>3, <1>5, <4>1, <4>3 DEF SlotsOK
            <4>. QED  BY <1>5, <2>4, <4>4, KeptBranches
        <3>4. Drops(c)
            <4>1. MarksIn(Tree, Early, Late, Rising)
                BY <1>1 DEF MarksOK
            <4>2. Working(c) /\ IsPrefix(c, c)
                BY <1>5, <2>2, <3>2, <4>1, EarlyMarkAlone, PrefixOrder DEF Working
            <4>. QED  BY <2>2, <3>2, <3>3, <4>2 DEF Drops
        <3>. QED  BY <1>2, <1>7, <1>12, <2>4, <3>2, <3>3, <3>4 DEF Step
    <2>. QED  BY <2>3, <2>4
<1>. QED  BY <1>11, <1>12

-----------------------------------------------------------------------------
(* A phase begins *)

Fresh ==
    /\ tasks = <<[cell |-> Root, seen |-> {}]>>
    /\ local = [w \in Worker |-> <<>>]
    /\ at = [w \in Worker |-> Ready]

FreshFacts ==
    /\ tasks \in Seq(Task) /\ local \in [Worker -> Seq(Task)] /\ at \in [Worker -> Spots]
    /\ Unique /\ Waiting = {Root} /\ Late = {} /\ Rising = {}
    /\ \A w \in Worker : Step(w) = "loop"

LEMMA FreshMarks == Fresh => FreshFacts
<1>. SUFFICES ASSUME Fresh PROVE FreshFacts
    OBVIOUS
<1>. DEFINE task == [cell |-> Root, seen |-> {}]
<1>1. tasks = <<task>> /\ task.cell = Root /\ task \in Task
    BY RootIsPrefix DEF Fresh, Task
<1>. HIDE DEF task
<1>2. /\ tasks \in Seq(Task) /\ CellsIn(tasks) = {Root} /\ Distinct(tasks)
    <2>. DEFINE none == <<>>
    <2>1. tasks = Append(none, task)
        BY <1>1
    <2>2. none \in Seq(Task) /\ CellsIn(none) = {} /\ Distinct(none)
        BY StackEmpty
    <2>. HIDE DEF none
    <2>3. /\ Append(none, task) \in Seq(Task)
          /\ CellsIn(Append(none, task)) = CellsIn(none) \cup {task.cell}
          /\ Distinct(none) /\ task.cell \notin CellsIn(none) => Distinct(Append(none, task))
        BY <1>1, <2>2, StackAppend
    <2>. QED  BY <1>1, <2>1, <2>2, <2>3
<1>3. Ready \in Spots /\ Ready.step = "loop"
    BY RootIsPrefix, PoolAssumption DEF Ready, Spots, Steps, Index
<1>4. local \in [Worker -> Seq(Task)] /\ at \in [Worker -> Spots]
    BY <1>3, StackEmpty DEF Fresh
<1>5. \A w \in Worker : Step(w) = "loop" /\ local[w] = <<>>
    BY <1>3 DEF Fresh, Step
<1>6. \A w \in Worker : /\ EarlyOf(w) = {} /\ LateOf(w) = {} /\ RisingOf(w) = {}
                        /\ CellsIn(local[w]) = {} /\ Distinct(local[w])
    BY <1>5, StackEmpty DEF EarlyOf, LateOf, RisingOf
<1>7. \A w \in Worker : Own(w) = {} /\ Mine(w) = {}
    BY <1>6 DEF Own, Mine
<1>8. Unique
    BY <1>2, <1>6, <1>7 DEF Unique
<1>9. Waiting = {Root} /\ Late = {} /\ Rising = {}
    BY <1>2, <1>6 DEF Waiting, Late, Rising
<1>. QED  BY <1>2, <1>4, <1>5, <1>8, <1>9 DEF FreshFacts

LEMMA FreshMarksNext == Fresh' => FreshFacts'
BY FreshMarks, PTL

LEMMA RootHasNoCellAbove ==
    ASSUME NEW q \in Cells, IsPrefix(q, Root)
    PROVE  q = Root
BY RootIsPrefix, PrefixOrder

LEMMA InitInv ==
    ASSUME Init
    PROVE  CoreInv /\ Early = {Root} /\ \A x \in Cells : Working(x)
<1>1. Fresh
    BY DEF Init, PoolInit, Fresh
<1>2. /\ tasks \in Seq(Task) /\ local \in [Worker -> Seq(Task)] /\ at \in [Worker -> Spots]
      /\ Unique /\ Waiting = {Root} /\ Late = {} /\ Rising = {}
      /\ \A w \in Worker : Step(w) = "loop"
    BY <1>1, FreshMarks DEF FreshFacts
<1>3. Building /\ Tree = Cells
    BY DEF Init, Building, Tree
<1>4. Root \in Cells
    BY RootIsPrefix
<1>5. Early = {Root}
    BY <1>2, <1>3, <1>4 DEF Early
<1>6. TreeClosed(Cells)
    BY <1>4 DEF TreeClosed
<1>7. /\ MarksIn(Cells, {Root}, {}, {})
      /\ \A x \in Cells : IsWorking({Root}, {}, {}, x)
      /\ \A p \in Cells : OpenKids(Cells, {Root}, {}, p) = Kids(Cells, p)
    BY <1>6, FirstMarks
<1>8. \A x \in Cells : Working(x)
    BY <1>2, <1>5, <1>7 DEF Working
<1>9. pending = [c \in Cells |-> Arity - 1] /\ Arity \in Nat /\ Arity # 0
    BY PoolAssumption DEF Init, PoolInit
<1>10. PendingCounts(Cells, {Root}, {}, {}, pending)
    <2>1. SUFFICES ASSUME NEW p \in Cells, Kids(Cells, p) # {}
                   PROVE  pending[p] + 1 = Cardinality(OpenKids(Cells, {Root}, {}, p))
        BY DEF PendingCounts
    <2>2. p \notin Leaves
        BY <2>1, ChildProperties DEF Kids
    <2>3. Kids(Cells, p) = ChildrenOf(p)
        BY <2>2, ChildProperties DEF Kids
    <2>. QED  BY <1>7, <1>9, <2>3, ChildrenAreFinite
<1>11. MarksOK
    <2>1. \A m \in Early, x \in Waiting : ~IsStrictPrefix(m, x)
        BY <1>2, <1>5 DEF IsStrictPrefix
    <2>2. \A w \in Worker : Step(w) \notin {"push", "collect"}
        BY <1>2
    <2>. QED  BY <1>2, <1>3, <1>5, <1>7, <1>10, <2>1, <2>2 DEF MarksOK
<1>12. slot = [c \in Cells |-> "null"]
    BY DEF Init, PoolInit
<1>13. SlotsOK
    <2>1. \A c \in Cells \ {Root} : Front(c) \in Cells
        BY ParentProperties
    <2>. QED  BY <1>3, <1>4, <1>8, <1>12 DEF SlotsOK
<1>14. TypesOK
    <2>1. /\ type = [c \in Cells |-> "unknown"] /\ allocated = {Root} /\ worked = {} /\ shape \in Shape
          /\ phase = "build" /\ done = FALSE /\ cancel = FALSE
        BY DEF Init, PoolInit
    <2>2. \A i \in DOMAIN tasks : tasks[i].cell \in Cells /\ tasks[i].seen \subseteq Cells
        <3>1. \A i \in DOMAIN tasks : tasks[i] \in Task
            BY <1>2
        <3>. QED  BY <3>1 DEF Task
    <2>3. \A w \in Worker : Cell(w) \in Cells /\ at[w].seen \subseteq Cells
        BY <1>2 DEF Spots, Cell
    <2>4. pending \in [Cells -> -1 .. Arity - 1]
        <3>1. Arity - 1 \in -1 .. Arity - 1
            BY <1>9
        <3>. QED  BY <1>9, <3>1
    <2>5. TypeOK
        BY <1>4, <1>12, <2>1, <2>2, <2>3, <2>4 DEF TypeOK
    <2>. QED  BY <1>2, <2>1, <2>5 DEF TypesOK, Spots
<1>15. DoneOK
    BY <1>2 DEF DoneOK, Init, PoolInit
<1>16. WorkedOK
    BY <1>3 DEF WorkedOK, Init
<1>. QED  BY <1>2, <1>5, <1>8, <1>11, <1>13, <1>14, <1>15, <1>16 DEF CoreInv

(* Children are cells or singletons: what is waited for is the rest. *)
LEMMA SingletonsCount ==
    ASSUME TypesOK, NEW p \in Cells
    PROVE  /\ Cardinality(Singletons(p)) \in 0 .. Arity
           /\ Kept(p) => Arity = Cardinality(Singletons(p))
                                   + Cardinality({d \in ChildrenOf(p) : slot[d] = "cell"})
<1>. DEFINE C == ChildrenOf(p)
            S == Singletons(p)
            K == {d \in ChildrenOf(p) : slot[d] = "cell"}
<1>1. IsFiniteSet(C) /\ Cardinality(C) = Arity
    BY ChildrenAreFinite
<1>2. S \subseteq C /\ K \subseteq C /\ S \cap K = {}
    BY DEF Singletons
<1>3. slot \in [Cells -> {"null", "cell", "empty", "filled"}]
    BY TypesFacts
<1>4. Kept(p) => S \cup K = C
    <2>1. SUFFICES ASSUME Kept(p) PROVE \A d \in C : d \in S \cup K
        BY <1>2
    <2>2. \A d \in C : d \in Cells /\ slot[d] # "null"
        BY <2>1 DEF Kept
    <2>. QED  BY <1>3, <2>2 DEF Singletons
<1>5. Arity \in Nat
    BY PoolAssumption
<1>. HIDE DEF C, S, K
<1>6. IsFiniteSet(S) /\ IsFiniteSet(K) /\ Cardinality(S) <= Cardinality(C)
    BY <1>1, <1>2, FS_Subset
<1>7. Cardinality(S) \in Nat /\ Cardinality(K) \in Nat
    BY <1>6, FS_CardinalityType
<1>8. Cardinality(S) \in 0 .. Arity
    BY <1>1, <1>5, <1>6, <1>7
<1>9. ASSUME Kept(p) PROVE Arity = Cardinality(S) + Cardinality(K)
    <2>1. Cardinality(S \cup K) = Cardinality(S) + Cardinality(K) - Cardinality(S \cap K)
        BY <1>6, FS_Union
    <2>2. Cardinality(S \cap K) = 0
        BY <1>2, FS_EmptySet
    <2>3. Cardinality(S \cup K) = Arity
        BY <1>1, <1>4, <1>9
    <2>. QED  BY <1>7, <2>1, <2>2, <2>3
<1>. QED  BY <1>8, <1>9 DEF S, K

LEMMA StartWalkStep ==
    ASSUME CoreInv, StartWalk
    PROVE  CoreInv' /\ (\A x : ~Working(x)) /\ \A x \in Tree' : Working(x)'
<1>1. TypesOK /\ MarksOK /\ DoneOK /\ SlotsOK /\ WorkedOK
    BY DEF CoreInv
<1>2. /\ Joined /\ ~cancel /\ phase' = "walk" /\ ResetPending /\ Building /\ ~Building'
      /\ done' = FALSE /\ UNCHANGED <<shape, type, slot, allocated, cancel, worked>>
    BY DEF StartWalk, Building, cellVars
<1>3. Fresh'
    BY DEF StartWalk, Fresh
<1>4. /\ tasks' \in Seq(Task) /\ local' \in [Worker -> Seq(Task)] /\ at' \in [Worker -> Spots]
      /\ Unique' /\ Waiting' = {Root} /\ Late' = {} /\ Rising' = {}
      /\ \A w \in Worker : Step(w)' = "loop"
    BY <1>3, FreshMarksNext DEF FreshFacts
(* Nothing was left to do. *)
<1>5. Early \cup Late = {}
    BY <1>1, <1>2, PoolAssumption DEF DoneOK, Joined
<1>6. \A x : ~Working(x)
    <2>1. MarksIn(Tree, Early, Late, Rising)
        BY <1>1 DEF MarksOK
    <2>2. Early = {} /\ Late = {} /\ Rising = {} /\ TreeClosed(Tree)
        BY <1>5, <2>1 DEF MarksIn
    <2>. QED  BY <2>2, NoMarks DEF Working
<1>7. \A d \in Cells : slot[d] # "null" =>
          /\ \A q \in Cells : IsStrictPrefix(q, d) => Kept(q)
          /\ slot[d] # "cell" => AllAre(shape, d, slot[d])
    BY <1>1, <1>6 DEF SlotsOK
<1>8. slot[Root] = "null" /\ slot \in [Cells -> {"null", "cell", "empty", "filled"}]
    BY <1>1, TypesFacts DEF SlotsOK
<1>. DEFINE T == {Root} \cup {c \in Cells : slot[c] = "cell"}
<1>9. Tree' = T /\ T \subseteq Cells
    BY <1>2, RootIsPrefix DEF Tree
<1>10. TreeClosed(T)
    <2>1. ASSUME NEW x \in T, NEW q \in Cells, IsPrefix(q, x) PROVE q \in T
        <3>1. CASE x = Root
            BY <2>1, <3>1, RootHasNoCellAbove
        <3>2. CASE x # Root /\ q # x
            <4>1. x \in Cells /\ slot[x] = "cell" /\ IsStrictPrefix(q, x)
                BY <2>1, <3>2 DEF IsStrictPrefix
            <4>2. Kept(q)
                BY <1>7, <4>1
            <4>. QED  BY <4>2 DEF Kept
        <3>. QED  BY <2>1, <3>1, <3>2
    <2>. QED  BY <1>9, <2>1 DEF TreeClosed
<1>11. \A p \in Cells : Kids(T, p) = {d \in ChildrenOf(p) : d \in Cells /\ slot[d] = "cell"}
    BY ChildProperties DEF Kids
<1>12. \A p \in Cells : Kids(T, p) # {} => Kept(p)
    <2>1. SUFFICES ASSUME NEW p \in Cells, NEW d \in Kids(T, p) PROVE Kept(p)
        OBVIOUS
    <2>2. d \in ChildrenOf(p) /\ d \in Cells /\ slot[d] = "cell"
        BY <1>11, <2>1
    <2>. QED  BY <1>7, <2>2, ChildProperties
<1>. HIDE DEF T
<1>13. /\ MarksIn(T, {Root}, {}, {})
       /\ \A x \in T : IsWorking({Root}, {}, {}, x)
       /\ \A p \in T : OpenKids(T, {Root}, {}, p) = Kids(T, p)
    BY <1>10, FirstMarks
<1>14. Early' = {Root}
    BY <1>4, <1>9, <1>10 DEF Early, TreeClosed
<1>15. Arity \in Nat /\ Arity # 0
    BY PoolAssumption
<1>16. pending' = [c \in Cells |->
           IF IsBranch(c) THEN Arity - 1 - Cardinality(Singletons(c)) ELSE Arity - 1]
    BY <1>2 DEF ResetPending
<1>17. PendingCounts(T, {Root}, {}, {}, pending')
    <2>1. SUFFICES ASSUME NEW p \in T, Kids(T, p) # {}
                   PROVE  pending'[p] + 1 = Cardinality(OpenKids(T, {Root}, {}, p))
        BY DEF PendingCounts
    <2>2. p \in Cells /\ Kept(p) /\ IsBranch(p)
        BY <1>9, <1>12, <2>1, KeptBranches
    <2>3. pending'[p] = Arity - 1 - Cardinality(Singletons(p))
        BY <1>16, <2>2
    <2>4. Kids(T, p) = {d \in ChildrenOf(p) : slot[d] = "cell"}
        BY <1>11, <2>2 DEF Kept
    <2>5. IsFiniteSet(Kids(T, p)) /\ Cardinality(Kids(T, p)) \in Nat
        <3>1. Kids(T, p) \subseteq ChildrenOf(p) /\ IsFiniteSet(ChildrenOf(p))
            BY <2>2, ChildrenAreFinite DEF Kids
        <3>. QED  BY <3>1, FS_Subset, FS_CardinalityType
    <2>6. /\ Cardinality(Singletons(p)) \in 0 .. Arity
          /\ Arity = Cardinality(Singletons(p)) + Cardinality(Kids(T, p))
        BY <1>1, <2>2, <2>4, SingletonsCount
    <2>. QED  BY <1>13, <1>15, <2>1, <2>3, <2>5, <2>6
<1>18. pending' \in [Cells -> -1 .. Arity - 1]
    <2>1. ASSUME NEW c \in Cells
          PROVE  /\ Arity - 1 - Cardinality(Singletons(c)) \in -1 .. Arity - 1
                 /\ Arity - 1 \in -1 .. Arity - 1
        <3>1. Cardinality(Singletons(c)) \in 0 .. Arity
            BY <1>1, <2>1, SingletonsCount
        <3>. QED  BY <1>15, <3>1
    <2>. QED  BY <1>16, <2>1
<1>19. TypesOK'
    BY <1>1, <1>2, <1>4, <1>18, TypesFacts, TypesFrom
<1>20. MarksOK'
    <2>1. \A m \in Early', x \in Waiting' : ~IsStrictPrefix(m, x)
        BY <1>4, <1>14 DEF IsStrictPrefix
    <2>2. \A w \in Worker : Step(w)' \notin {"push", "collect"}
        BY <1>4
    <2>3. /\ MarksIn(Tree', Early', Late', Rising')
          /\ PendingCounts(Tree', Early', Late', Rising', pending')
        BY <1>4, <1>9, <1>13, <1>14, <1>17
    <2>. QED  BY <1>4, <2>1, <2>2, <2>3 DEF MarksOK
<1>21. DoneOK'
    BY <1>2, <1>4 DEF DoneOK
<1>22. SlotsOK'
    <2>1. \A q : Kept(q)' = Kept(q)
        BY <1>2 DEF Kept
    <2>. QED  BY <1>2, <1>7, <1>8, <2>1 DEF SlotsOK
<1>23. \A x \in Tree' : Working(x)'
    BY <1>4, <1>9, <1>13, <1>14 DEF Working
<1>24. WorkedOK'
    <2>1. worked' = {}
        BY <1>1, <1>2 DEF WorkedOK
    <2>. QED  BY <1>2, <1>23, <2>1 DEF WorkedOK
<1>. QED  BY <1>4, <1>6, <1>19, <1>20, <1>21, <1>22, <1>23, <1>24 DEF CoreInv

-----------------------------------------------------------------------------
(* The invariant and what follows from it *)

LEMMA NextInv ==
    ASSUME CoreInv, [Next]_vars
    PROVE  CoreInv'
<1>0. /\ phase \in {"build", "walk", "end", "cancelled"}
      /\ done \in BOOLEAN /\ cancel \in BOOLEAN
    BY DEF CoreInv, TypesOK
<1>1. CASE \E w \in Worker : WorkerStep(w)
    <2>1. PICK w \in Worker : WorkerStep(w)
        BY <1>1
    <2>2. phase' = phase
        BY <2>1 DEF WorkerStep
    <2>3. CASE phase = "build" /\ PoolStep(w) /\ UNCHANGED worked
        BY <2>2, <2>3, LeaveStep, TakeStep, EvalIntervalStep, PushChildStep, EvalLeafStep,
           UpStep, CollectStep, JoinStep DEF PoolStep
    <2>4. CASE phase = "walk" /\ WalkStep(w)
        BY <2>2, <2>4, LeaveStep, TakeStep, VisitStep, PushBranchStep, UpStep, JoinStep,
           WorkStep DEF WalkStep
    <2>. QED  BY <2>1, <2>3, <2>4 DEF WorkerStep
<1>2. CASE \E w \in Worker : Spin(w) /\ UNCHANGED <<phase, worked>>
    <2>1. /\ UNCHANGED <<shape, type, slot, allocated, pending, tasks, local, at, done, worked>>
          /\ phase' = phase /\ cancel' = cancel
        BY <1>2 DEF Spin, cellVars, taskVars, flagVars
    <2>2. Building' = Building
        BY <2>1 DEF Building
    <2>. QED  BY <1>0, <2>1, <2>2, StillStep
<1>3. CASE Cancel /\ UNCHANGED <<phase, worked>>
    <2>1. /\ UNCHANGED <<shape, type, slot, allocated, pending, tasks, local, at, done, worked>>
          /\ phase' = phase /\ cancel' = TRUE
        BY <1>3 DEF Cancel, cellVars, taskVars
    <2>2. Building' = Building
        BY <2>1 DEF Building
    <2>. QED  BY <1>0, <2>1, <2>2, StillStep
<1>4. CASE StartWalk
    BY <1>4, StartWalkStep
<1>5. CASE GiveUp \/ EndWalk
    <2>1. /\ UNCHANGED <<shape, type, slot, allocated, pending, tasks, local, at, done, worked>>
          /\ cancel' = cancel /\ phase' \in {"end", "cancelled"} /\ Building' = Building
        BY <1>5 DEF GiveUp, EndWalk, Building, cellVars, taskVars, flagVars
    <2>. QED  BY <1>0, <2>1, StillStep
<1>6. CASE UNCHANGED vars
    <2>1. /\ UNCHANGED <<shape, type, slot, allocated, pending, tasks, local, at, done, worked>>
          /\ phase' = phase /\ cancel' = cancel
        BY <1>6 DEF vars, cellVars, taskVars, flagVars
    <2>2. Building' = Building
        BY <2>1 DEF Building
    <2>. QED  BY <1>0, <2>1, <2>2, StillStep
<1>. QED  BY <1>1, <1>2, <1>3, <1>4, <1>5, <1>6 DEF Next, Main

(* The marks, the counters, the slots and the work fit together in every    *)
(* state of a rendering.                                                    *)
THEOREM CoreInvariant == Spec => []CoreInv
<1>1. Init => CoreInv
    BY InitInv
<1>2. CoreInv /\ [Next]_vars => CoreInv'
    BY NextInv
<1>. QED  BY <1>1, <1>2, PTL DEF Spec

(* The types of the variables of the pool, counters included: pending never *)
(* falls below -1 (std::atomic_int, xtree.hpp).                             *)
THEOREM TypeCorrect == Spec => []TypeOK
<1>1. CoreInv => TypeOK
    BY DEF CoreInv, TypesOK
<1>. QED  BY <1>1, CoreInvariant, PTL

(* xtree.inl: a cell that is evaluated or collected is not installed yet    *)
(* (children[i].load() == nullptr), and the children of one that is         *)
(* collected all are (c != nullptr).                                        *)
THEOREM InstallsOnce == Spec => []ChildrenInstalledOnce
<1>1. ASSUME CoreInv PROVE ChildrenInstalledOnce
    <2>1. TypesOK /\ Unique /\ MarksOK /\ SlotsOK
        BY <1>1 DEF CoreInv
    <2>2. SUFFICES ASSUME phase = "build", NEW w \in Worker
                   PROVE  /\ Step(w) \in {"eval", "push", "collect"} => slot[Cell(w)] = "null"
                          /\ Step(w) = "collect" => \A d \in ChildrenOf(Cell(w)) : slot[d] # "null"
        BY DEF ChildrenInstalledOnce
    <2>3. Building /\ Tree = Cells
        BY <2>1, <2>2, TreeFacts DEF Building
    <2>. DEFINE c == Cell(w)
    <2>4. c = Cell(w) /\ c \in Cells
        BY <2>1, MarksAt
    <2>. HIDE DEF c
    <2>5. Step(w) = "collect" =>
              /\ Working(c) /\ c \notin Leaves
              /\ \A x \in Cells : IsStrictPrefix(c, x) => ~Working(x)
        BY <2>1, <2>3, <2>4, CollectedCell
    <2>6. Step(w) = "eval" => Working(c)
        <3>1. MarksIn(Tree, Early, Late, Rising)
            BY <2>1 DEF MarksOK
        <3>2. IsPrefix(c, c)
            BY <2>4, PrefixOrder
        <3>3. Step(w) = "eval" => c \in Early
            BY <2>1, <2>3, <2>4, MarksAt DEF Early
        <3>. QED  BY <2>3, <2>4, <3>1, <3>2, <3>3, EarlyMarkAlone DEF Working
    <2>7. Step(w) = "push" => Working(c)
        <3>1. SUFFICES ASSUME Step(w) = "push" PROVE Working(c)
            OBVIOUS
        <3>2. c \notin Leaves
            BY <2>1, <2>4, <3>1 DEF MarksOK
        <3>. DEFINE d == Append(Cell(w), at[w].next)
        <3>3. d \in ChildrenOf(c) /\ d \in Unpushed(w) /\ d \in Cells
            BY <2>1, <2>4, <3>2, UnpushedCells
        <3>. HIDE DEF d
        <3>4. d \in Early
            BY <2>1, <2>3, <3>1, <3>3, MarksAt, MineIsMarked DEF Early
        <3>5. IsStrictPrefix(c, d)
            BY <2>4, <3>3, ChildProperties
        <3>. QED  BY <2>1, <3>4, <3>5, AboveMarks
    <2>8. Step(w) \in {"eval", "push", "collect"} => slot[c] = "null"
        BY <2>1, <2>3, <2>4, <2>5, <2>6, <2>7 DEF SlotsOK
    <2>9. Step(w) = "collect" => \A d \in ChildrenOf(c) : slot[d] # "null"
        BY <2>1, <2>3, <2>4, <2>5, CollectedKids
    <2>. QED  BY <2>4, <2>8, <2>9
<1>. QED  BY <1>1, CoreInvariant, PTL

LEMMA WaitsInStack == \A task \in InStacks : task.cell \in Waiting
BY DEF InStacks, Waiting, CellsIn

(* A worker that hands out the children of a cell has the last of them. *)
LEMMA LastUnpushed ==
    ASSUME TypesOK, Unique, MarksOK, Building, NEW w \in Worker, Step(w) = "push",
           NEW c, c = Cell(w), NEW m, m = Append(c, Arity)
    PROVE  m \in Own(w) /\ m \in Early /\ IsStrictPrefix(c, m)
<1>1. c \notin Leaves /\ c \in Cells
    BY MarksAt DEF MarksOK
<1>2. m \in ChildrenOf(c) /\ m \in Unpushed(w) /\ m \in Cells
    <2>1. at[w].next \in Index
        BY <1>1, UnpushedCells
    <2>2. m \in Unpushed(w)
        BY <2>1, PoolAssumption DEF Unpushed, Index
    <2>. QED  BY <1>1, <2>2, UnpushedCells
<1>3. m \in Own(w) /\ m \in Waiting
    BY <1>2, MineIsMarked DEF Own, EarlyOf
<1>. QED  BY <1>1, <1>2, <1>3, ChildProperties, TreeFacts DEF Early

(* No cell is evaluated, collected or worked by two workers, or by one      *)
(* while it waits in a stack (WorkerPool::run and evalInterval).            *)
THEOREM EachCellOnce == Spec => []OneTaskPerCell
<1>1. ASSUME CoreInv PROVE OneTaskPerCell
    <2>1. TypesOK /\ Unique /\ MarksOK
        BY <1>1 DEF CoreInv
    <2>2. \A m, n \in Early \cup Late : ~IsStrictPrefix(m, n)
        BY <2>1, MarksFacts DEF IsStrictPrefix
    <2>3. Building => \A x \in Waiting : x \in Early
        BY <2>1, TreeFacts, WaitingAreCells DEF Early
    <2>4. \A v \in Worker : Step(v) \in {"eval", "collect"} => Cell(v) \in Own(v)
        BY DEF Own, EarlyOf, LateOf
    <2>5. \A v \in Worker : Step(v) = "push" /\ Building =>
              /\ Append(Cell(v), Arity) \in Own(v)
              /\ Append(Cell(v), Arity) \in Early
              /\ IsStrictPrefix(Cell(v), Append(Cell(v), Arity))
        BY <2>1, LastUnpushed
    <2>6. \A v \in Worker : Holds(v) =>
              Step(v) \in {"eval", "collect"} \/ (Step(v) = "push" /\ Building)
        BY DEF Holds, Building
    <2>7. SUFFICES ASSUME NEW w \in Worker, Holds(w)
                   PROVE  /\ \A v \in Worker \ {w} : Holds(v) => Cell(v) # Cell(w)
                          /\ \A task \in InStacks : task.cell # Cell(w)
        BY DEF OneTaskPerCell
    <2>8. CASE Step(w) \in {"eval", "collect"}
        <3>1. Cell(w) \in Own(w)
            BY <2>4, <2>8
        <3>2. /\ \A task \in InStacks : task.cell # Cell(w)
              /\ \A v \in Worker \ {w} : Cell(w) \notin Own(v)
              /\ Cell(w) \in Waiting \cup Late
            BY <2>1, <3>1, OwnedAlone
        <3>3. \A v \in Worker \ {w} : Holds(v) => Cell(v) # Cell(w)
            BY <2>2, <2>3, <2>4, <2>5, <2>6, <3>2
        <3>. QED  BY <3>2, <3>3
    <2>9. CASE Step(w) = "push" /\ Building
        <3>. DEFINE m == Append(Cell(w), Arity)
        <3>1. m \in Own(w) /\ m \in Early /\ IsStrictPrefix(Cell(w), m)
            BY <2>5, <2>9
        <3>2. \A v \in Worker \ {w} : m \notin Own(v)
            BY <2>1, <3>1, OwnedAlone
        <3>3. Cell(w) \notin Early /\ Cell(w) \notin Waiting /\ Cell(w) \notin Late
            BY <2>2, <2>3, <2>9, <3>1
        <3>4. \A task \in InStacks : task.cell # Cell(w)
            BY <3>3, WaitsInStack
        <3>5. ASSUME NEW v \in Worker \ {w}, Holds(v), Cell(v) = Cell(w) PROVE FALSE
            <4>1. CASE Step(v) \in {"eval", "collect"}
                <5>1. Cell(v) \in Own(v)
                    BY <2>4, <4>1
                <5>. QED  BY <2>1, <3>3, <3>5, <5>1, OwnedAlone
            <4>2. CASE Step(v) = "push" /\ Building
                BY <2>5, <3>2, <3>5, <4>2
            <4>. QED  BY <2>6, <3>5, <4>1, <4>2
        <3>. QED  BY <3>4, <3>5
    <2>. QED  BY <2>6, <2>7, <2>8, <2>9
<1>. QED  BY <1>1, CoreInvariant, PTL

(* dual.hpp: no two workers work on a branch and on one below it, so no     *)
(* leaf is numbered by two of them.                                         *)
THEOREM DisjointWork == Spec => []WorkIsDisjoint
<1>1. ASSUME CoreInv PROVE WorkIsDisjoint
    <2>1. TypesOK /\ Unique /\ MarksOK
        BY <1>1 DEF CoreInv
    <2>2. SUFFICES ASSUME NEW v \in Worker, NEW w \in Worker, v # w,
                          Step(v) = "collect", Step(w) = "collect", IsPrefix(Cell(v), Cell(w))
                   PROVE  FALSE
        BY DEF WorkIsDisjoint
    <2>3. Cell(v) \in Late /\ Cell(w) \in Late
        BY <2>1, <2>2, CollectedCell
    <2>4. Cell(v) = Cell(w)
        BY <2>1, <2>2, <2>3, MarksFacts
    <2>5. Cell(v) \in Own(v) /\ Cell(w) \in Own(w)
        BY <2>2 DEF Own, LateOf
    <2>. QED  BY <2>1, <2>2, <2>4, <2>5, OwnedAlone
<1>. QED  BY <1>1, CoreInvariant, PTL

(* The walk is over when all of its workers have joined. *)
EndOK == phase = "end" => Joined

LEMMA EndInvariant == Spec => []EndOK
<1>1. Init => EndOK
    BY DEF Init, EndOK
<1>2. EndOK /\ [Next]_vars => EndOK'
    <2>1. SUFFICES ASSUME EndOK, [Next]_vars, phase' = "end" PROVE Joined'
        BY DEF EndOK
    <2>2. CASE EndWalk
        BY <2>2 DEF EndWalk, Joined, Step
    <2>3. CASE phase = "end" /\ at' = at
        BY <2>1, <2>3 DEF EndOK, Joined, Step
    <2>. QED  BY <2>1, <2>2, <2>3
              DEF Next, vars, WorkerStep, Spin, Cancel, Over, Main, StartWalk, GiveUp
<1>. QED  BY <1>1, <1>2, PTL DEF Spec

(* dual.hpp: every branch is worked once, after the branches below it, and  *)
(* a mesh that was not cancelled misses none.                               *)
THEOREM BranchesWorked == Spec => []EveryBranchWorked
<1>1. ASSUME CoreInv, EndOK PROVE EveryBranchWorked
    <2>1. TypesOK /\ Unique /\ MarksOK /\ DoneOK /\ SlotsOK /\ WorkedOK
        BY <1>1 DEF CoreInv
    <2>2. \A q \in Cells : ~Building /\ IsBranch(q) => q \in Tree
        BY <2>1, KeptBranches DEF Tree, Kept
    <2>3. ASSUME NEW w \in Worker, phase = "walk", Step(w) = "collect"
          PROVE  /\ Cell(w) \notin worked
                 /\ \A d \in Within(Cell(w)) \ {Cell(w)} : IsBranch(d) => d \in worked
        <3>. DEFINE c == Cell(w)
        <3>1. c = Cell(w)
            OBVIOUS
        <3>. HIDE DEF c
        <3>2. /\ c \in Cells /\ Working(c)
              /\ \A x \in Tree : IsStrictPrefix(c, x) => ~Working(x)
            BY <2>1, <2>3, <3>1, CollectedCell
        <3>3. ~Building /\ worked = {q \in Tree : IsBranch(q) /\ ~Working(q)}
            BY <2>1, <2>3 DEF WorkedOK, Building
        <3>4. \A d \in Within(c) \ {c} : d \in Cells /\ IsStrictPrefix(c, d)
            BY DEF Within, IsStrictPrefix
        <3>. QED  BY <2>2, <3>1, <3>2, <3>3, <3>4
    <2>4. ASSUME phase = "end", ~cancel PROVE worked = {c \in Cells : IsBranch(c)}
        <3>1. Early \cup Late = {}
            BY <1>1, <2>1, <2>4, PoolAssumption DEF EndOK, Joined, DoneOK
        <3>2. MarksIn(Tree, Early, Late, Rising)
            BY <2>1 DEF MarksOK
        <3>3. Early = {} /\ Late = {} /\ Rising = {} /\ TreeClosed(Tree)
            BY <3>1, <3>2 DEF MarksIn
        <3>4. \A x : ~Working(x)
            BY <3>3, NoMarks DEF Working
        <3>5. ~Building /\ Tree \subseteq Cells
            BY <2>1, <2>4, TreeFacts DEF Building
        <3>. QED  BY <2>1, <2>2, <3>4, <3>5 DEF WorkedOK
    <2>. QED  BY <2>3, <2>4 DEF EveryBranchWorked
<1>. QED  BY <1>1, CoreInvariant, EndInvariant, PTL

-----------------------------------------------------------------------------
(* Memory: the cells that are not in a pool                                 *)

(* A cell is made when a worker hands it out. *)
Born(c) == c \notin Pushing /\ \A m \in Early : ~IsStrictPrefix(m, c)

AllocatedOK ==
    /\ Root \in allocated
    /\ \A c \in Cells \ {Root} :
          c \in allocated <=> slot[c] = "cell" \/ (Building /\ Working(c) /\ Born(c))

(* The cells of the pools, and what the root has claimed. *)
SizesOK ==
    /\ size \in [Worker -> Int] /\ treeCount \in Int
    /\ \E t \in Int : SumIs(size, t) /\ treeCount + t = Cardinality(allocated \ {Root})
    /\ \A w \in Worker : ~Building \/ Step(w) = "joined" => size[w] = 0

MemoryInv == AllocatedOK /\ SizesOK

LEMMA MarkedIsBorn ==
    ASSUME TypesOK, MarksOK, Building, NEW c, c \in Late \/ (c \in Early /\ c \notin Pushing)
    PROVE  Born(c)
<1>1. \A m \in Early : ~IsStrictPrefix(m, c)
    BY MarksFacts DEF IsStrictPrefix
<1>2. c \notin Pushing
    BY MarksFacts, PushingIsEarly
<1>. QED  BY <1>1, <1>2 DEF Born

(* No cell is made or given back. *)
LEMMA SameAllocated ==
    ASSUME TypesOK, AllocatedOK, Building' = Building, UNCHANGED <<slot, allocated>>,
           Building => Same
    PROVE  AllocatedOK'
<1>1. Building => Tree = Cells
    BY TreeFacts
<1>2. Building => \A c : Born(c)' = Born(c)
    BY DEF Same, Born
<1>. QED  BY <1>1, <1>2 DEF AllocatedOK, Same, Keeps

(* What is below a cell that is split is not made yet. *)
LEMMA SplitBorn ==
    ASSUME TypesOK, MarksOK, Building, NEW c \in Cells, Split(c)
    PROVE  \A x \in Cells : Born(x)' <=> Born(x)
<1>1. Tree = Cells /\ Early \subseteq Cells
    BY TreeFacts, MarksFacts
<1>2. ASSUME NEW x \in Cells PROVE Born(x)' <=> Born(x)
    <2>1. CASE IsStrictPrefix(c, x)
        <3>1. ~Born(x)
            BY <2>1 DEF Born, Split
        <3>2. PICK d \in ChildrenOf(c) \cap Cells : IsPrefix(d, x)
            BY <2>1, BelowIsBelowChild
        <3>3. x = d => ~Born(x)'
            BY <3>2 DEF Born, Split
        <3>4. x # d => ~Born(x)'
            BY <3>2 DEF Born, Split, IsStrictPrefix
        <3>. QED  BY <3>1, <3>3, <3>4
    <2>2. CASE ~IsStrictPrefix(c, x)
        <3>1. \A d \in ChildrenOf(c) : d \in Cells /\ IsStrictPrefix(c, d)
            BY ChildProperties DEF Split
        <3>2. \A d \in ChildrenOf(c) : ~IsPrefix(d, x)
            BY <2>2, <3>1, PrefixOrder DEF IsStrictPrefix
        <3>3. x \notin ChildrenOf(c)
            BY <2>2, <3>1
        <3>. QED  BY <2>2, <3>2, <3>3 DEF Born, Split, IsStrictPrefix
    <2>. QED  BY <2>1, <2>2
<1>. QED  BY <1>2

LEMMA SplitAllocated ==
    ASSUME TypesOK, MarksOK, AllocatedOK, Building, Building', UNCHANGED <<slot, allocated>>,
           NEW c \in Cells, Split(c)
    PROVE  AllocatedOK'
<1>1. Tree = Cells /\ Early \subseteq Cells
    BY TreeFacts, MarksFacts
<1>2. \A x \in Cells : Born(x)' <=> Born(x)
    BY SplitBorn
<1>. QED  BY <1>1, <1>2 DEF AllocatedOK, Split, Keeps

(* A cell that is handed out is made. *)
LEMMA HandedOutAllocated ==
    ASSUME TypesOK, MarksOK, AllocatedOK, SlotsOK, Building, Building', slot' = slot,
           NEW d \in Cells, d # Root, HandedOut(d), allocated' = allocated \cup {d}
    PROVE  AllocatedOK' /\ d \notin allocated
<1>1. Tree = Cells /\ MarksIn(Tree, Early, Late, Rising)
    BY TreeFacts DEF MarksOK
<1>2. Working(d)
    BY <1>1, EarlyMarkAlone, PrefixOrder DEF HandedOut, Working
<1>3. slot[d] = "null" /\ ~Born(d)
    BY <1>2 DEF SlotsOK, Born, HandedOut
<1>4. d \notin allocated
    BY <1>3 DEF AllocatedOK
<1>5. \A m \in Early : ~IsStrictPrefix(m, d)
    BY MarksFacts DEF HandedOut, IsStrictPrefix
<1>6. Born(d)'
    BY <1>5 DEF Born, HandedOut
<1>7. \A x \in Cells \ {d} : Born(x)' <=> Born(x)
    BY DEF Born, HandedOut
<1>8. \A x \in Cells : Working(x)' <=> Working(x)
    BY <1>1 DEF HandedOut, Keeps
<1>. QED  BY <1>2, <1>4, <1>6, <1>7, <1>8 DEF AllocatedOK

(* A cell that is finished stays, or goes back to a pool. *)
LEMMA FinishedAllocated ==
    ASSUME TypesOK, MarksOK, SlotsOK, AllocatedOK, Building, Building',
           NEW c \in Cells, Finished(c), NEW state \in {"empty", "filled", "ambiguous"},
           slot' = Installed(slot, c, state), allocated' = allocated \ Given(c, state)
    PROVE  AllocatedOK' /\ Given(c, state) \subseteq allocated \ {Root}
<1>1. Working(c) /\ Born(c)
    BY MarkedIsBorn, PrefixOrder DEF Finished
<1>2. c \in allocated
    BY <1>1 DEF AllocatedOK
<1>3. Given(c, state) \subseteq allocated \ {Root} /\ Given(c, state) \subseteq {c}
    BY <1>2 DEF Given
<1>4. slot \in [Cells -> {"null", "cell", "empty", "filled"}]
    BY TypesFacts
<1>5. ~Working(c)'
    BY PrefixOrder DEF Finished
<1>6. c # Root => (c \in allocated' <=> slot'[c] = "cell")
    BY <1>2, <1>4 DEF Given, Installed
<1>7. ASSUME NEW x \in Cells \ {Root}, x # c
      PROVE  x \in allocated' <=> slot'[x] = "cell" \/ (Working(x)' /\ Born(x)')
    <2>1. slot'[x] = slot[x] /\ (x \in allocated' <=> x \in allocated)
        BY <1>3, <1>4, <1>7 DEF Installed
    <2>2. CASE IsPrefix(c, x)
        <3>1. Working(x) /\ ~Working(x)' /\ ~Born(x)
            BY <1>7, <2>2 DEF Finished, Born, IsStrictPrefix
        <3>2. slot[x] = "null"
            BY <1>7, <3>1 DEF SlotsOK
        <3>. QED  BY <2>1, <3>1, <3>2 DEF AllocatedOK
    <2>3. CASE ~IsPrefix(c, x)
        <3>1. (Working(x)' <=> Working(x)) /\ (Born(x)' <=> Born(x))
            BY <2>3 DEF Finished, Born, IsStrictPrefix
        <3>. QED  BY <2>1, <3>1 DEF AllocatedOK
    <2>. QED  BY <2>2, <2>3
<1>8. Root \in allocated'
    BY <1>3 DEF AllocatedOK
<1>. QED  BY <1>3, <1>5, <1>6, <1>7, <1>8 DEF AllocatedOK

(* A cell that is collected keeps its children or gives back those there    *)
(* are.                                                                     *)
LEMMA CollectedAllocated ==
    ASSUME TypesOK, MarksOK, SlotsOK, AllocatedOK, Building, Building',
           NEW c \in Cells, Collected(c), NEW state \in {"empty", "filled", "ambiguous"},
           NEW own, own = {d \in ChildrenOf(c) : slot[d] = "cell"},
           NEW slots, NEW gone,
           \/ slots = slot /\ gone = {}
           \/ /\ slots = [d \in Cells |-> IF d \in ChildrenOf(c) THEN "null" ELSE slot[d]]
              /\ gone = own,
           slot' = Installed(slots, c, state), allocated' = allocated \ (gone \cup Given(c, state))
    PROVE  AllocatedOK' /\ gone \cup Given(c, state) \subseteq allocated \ {Root}
<1>1. Tree = Cells /\ MarksIn(Tree, Early, Late, Rising)
    BY TreeFacts DEF MarksOK
<1>2. Working(c) /\ Born(c) /\ c \in Late /\ c \notin Leaves
    BY MarkedIsBorn DEF Collected, Drops
<1>3. c \in allocated
    BY <1>2 DEF AllocatedOK
<1>4. \A d \in ChildrenOf(c) : d \in Cells /\ d # Root /\ d # c /\ IsStrictPrefix(c, d)
    BY <1>2, ChildProperties DEF IsStrictPrefix
<1>5. \A d \in ChildrenOf(c) : ~Working(d)
    BY <1>1, <1>2, <1>4, LateMarkAlone DEF Working, IsWorking
<1>6. \A d \in ChildrenOf(c) : d \in allocated <=> slot[d] = "cell"
    BY <1>4, <1>5 DEF AllocatedOK
<1>7. gone \subseteq own /\ own \subseteq allocated \ {Root} /\ own \subseteq ChildrenOf(c)
    BY <1>4, <1>6
<1>8. Given(c, state) \subseteq allocated \ {Root} /\ Given(c, state) \subseteq {c}
    BY <1>3 DEF Given
<1>9. slots \in [Cells -> {"null", "cell", "empty", "filled"}]
    <2>1. slot \in [Cells -> {"null", "cell", "empty", "filled"}]
        BY TypesFacts
    <2>2. CASE slots = slot
        BY <2>1, <2>2
    <2>3. CASE slots = [d \in Cells |-> IF d \in ChildrenOf(c) THEN "null" ELSE slot[d]]
        <3>1. \A d \in Cells :
                  (IF d \in ChildrenOf(c) THEN "null" ELSE slot[d]) \in {"null", "cell", "empty", "filled"}
            BY <2>1
        <3>. QED  BY <2>3, <3>1
    <2>. QED  BY <2>2, <2>3
<1>10. c # Root => (c \in allocated' <=> slot'[c] = "cell")
    <2>1. c \notin gone
        BY <1>4, <1>7
    <2>. QED  BY <1>3, <1>9, <2>1 DEF Given, Installed
<1>11. ~Working(c)'
    BY DEF Collected, Drops
<1>12. ASSUME NEW x \in Cells \ {Root}, x # c
       PROVE  x \in allocated' <=> slot'[x] = "cell" \/ (Working(x)' /\ Born(x)')
    <2>1. slot'[x] = slots[x] /\ (x \in allocated' <=> x \in allocated /\ x \notin gone)
        BY <1>8, <1>9, <1>12 DEF Installed
    <2>2. (Working(x)' <=> Working(x)) /\ (Born(x)' <=> Born(x))
        BY <1>1, <1>12 DEF Collected, Drops, Born
    <2>3. CASE x \in ChildrenOf(c)
        <3>1. ~Working(x) /\ (x \in allocated <=> slot[x] = "cell")
            BY <1>5, <1>6, <2>3
        <3>2. x \in own <=> slot[x] = "cell"
            BY <2>3
        <3>3. (slots = slot /\ gone = {}) \/ (slots[x] = "null" /\ gone = own)
            <4>1. CASE slots = [d \in Cells |-> IF d \in ChildrenOf(c) THEN "null" ELSE slot[d]] /\ gone = own
                <5>1. x \in Cells
                    BY <1>12
                <5>2. slots[x] = "null"
                    BY <2>3, <4>1, <5>1
                <5>. QED  BY <4>1, <5>2
            <4>2. CASE slots = slot /\ gone = {}
                BY <4>2
            <4>. QED  BY <4>1, <4>2, Zenon
        <3>. QED  BY <2>1, <2>2, <3>1, <3>2, <3>3
    <2>4. CASE x \notin ChildrenOf(c)
        <3>1. slots[x] = slot[x] /\ x \notin gone
            BY <1>7, <1>12, <2>4
        <3>. QED  BY <1>12, <2>1, <2>2, <3>1 DEF AllocatedOK
    <2>. QED  BY <2>3, <2>4
<1>13. Root \in allocated'
    BY <1>7, <1>8 DEF AllocatedOK
<1>. QED  BY <1>7, <1>8, <1>10, <1>11, <1>12, <1>13 DEF AllocatedOK

(* The sizes of the pools follow. *)
LEMMA SizesSame ==
    ASSUME SizesOK, Building' = Building, UNCHANGED <<size, treeCount, allocated>>,
           \A v \in Worker : at'[v].step = "joined" => at[v].step = "joined"
    PROVE  SizesOK'
BY DEF SizesOK, Step

LEMMA SizesChange ==
    ASSUME SizesOK, Building', NEW w \in Worker, NEW more \in Int,
           size' = [size EXCEPT ![w] = @ + more], treeCount' = treeCount,
           Cardinality(allocated \ {Root}) \in Nat,
           Cardinality(allocated' \ {Root}) = Cardinality(allocated \ {Root}) + more,
           \A v \in Worker \ {w} : at'[v] = at[v], at'[w].step # "joined"
    PROVE  SizesOK'
<1>1. size \in [Worker -> Int] /\ treeCount \in Int
    BY DEF SizesOK
<1>2. PICK t \in Int : SumIs(size, t) /\ treeCount + t = Cardinality(allocated \ {Root})
    BY DEF SizesOK
<1>3. size' \in [Worker -> Int]
    BY <1>1
<1>4. SumIs(size', t + more)
    BY <1>1, <1>2, SumChanges
<1>5. t + more \in Int /\ treeCount' + (t + more) = Cardinality(allocated' \ {Root})
    BY <1>1, <1>2
<1>6. \A v \in Worker : ~Building' \/ Step(v)' = "joined" => size'[v] = 0
    BY <1>1 DEF SizesOK, Step
<1>. QED  BY <1>1, <1>3, <1>4, <1>5, <1>6 DEF SizesOK

LEMMA SizesGrow ==
    ASSUME TypesOK, SizesOK, Building', NEW w \in Worker, NEW d \in Cells, d # Root,
           d \notin allocated, allocated' = allocated \cup {d},
           size' = [size EXCEPT ![w] = @ + 1], treeCount' = treeCount,
           \A v \in Worker \ {w} : at'[v] = at[v], at'[w].step # "joined"
    PROVE  SizesOK'
<1>. DEFINE A == allocated \ {Root}
<1>1. IsFiniteSet(A) /\ Cardinality(A) \in Nat
    BY TypesFacts, SubsetsAreFinite
<1>2. allocated' \ {Root} = A \cup {d} /\ d \notin A
    OBVIOUS
<1>. HIDE DEF A
<1>3. Cardinality(allocated' \ {Root}) = Cardinality(A) + 1
    BY <1>1, <1>2, FS_AddElement
<1>4. /\ Cardinality(allocated \ {Root}) \in Nat
      /\ Cardinality(allocated' \ {Root}) = Cardinality(allocated \ {Root}) + 1
    BY <1>1, <1>3 DEF A
<1>5. 1 \in Int
    OBVIOUS
<1>. QED  BY <1>4, <1>5, SizesChange

LEMMA SizesShrink ==
    ASSUME TypesOK, SizesOK, Building', NEW w \in Worker, NEW gone,
           gone \subseteq allocated \ {Root}, Released(w, gone), treeCount' = treeCount,
           \A v \in Worker \ {w} : at'[v] = at[v], at'[w].step # "joined"
    PROVE  SizesOK'
<1>. DEFINE A == allocated \ {Root}
<1>1. IsFiniteSet(A) /\ Cardinality(A) \in Nat /\ Cardinality(gone) \in Nat
    BY TypesFacts, SubsetsAreFinite
<1>2. allocated' \ {Root} = A \ gone /\ A \cap gone = gone
    BY DEF Released
<1>. HIDE DEF A
<1>. DEFINE more == 0 - Cardinality(gone)
<1>3. more \in Int /\ Cardinality(allocated' \ {Root}) = Cardinality(A) + more
    <2>1. Cardinality(A \ gone) = Cardinality(A) - Cardinality(A \cap gone)
        BY <1>1, FS_Difference
    <2>2. Cardinality(allocated' \ {Root}) = Cardinality(A) - Cardinality(gone)
        BY <1>2, <2>1
    <2>. QED  BY <1>1, <2>2
<1>4. size' = [size EXCEPT ![w] = @ + more]
    <2>1. size' = [size EXCEPT ![w] = @ - Cardinality(gone)] /\ size \in [Worker -> Int]
        BY DEF Released, SizesOK
    <2>2. size[w] - Cardinality(gone) = size[w] + more
        BY <1>1, <2>1
    <2>. QED  BY <2>1, <2>2
<1>. HIDE DEF more
<1>. QED  BY <1>1, <1>3, <1>4, SizesChange DEF A

LEMMA SizesJoin ==
    ASSUME TypesOK, SizesOK, Building' = Building, NEW w \in Worker, allocated' = allocated,
           treeCount' = treeCount + size[w], size' = [size EXCEPT ![w] = 0],
           \A v \in Worker \ {w} : at'[v] = at[v]
    PROVE  SizesOK'
<1>1. size \in [Worker -> Int] /\ treeCount \in Int /\ size[w] \in Int
    BY DEF SizesOK
<1>2. PICK t \in Int : SumIs(size, t) /\ treeCount + t = Cardinality(allocated \ {Root})
    BY DEF SizesOK
<1>. DEFINE more == 0 - size[w]
<1>3. more \in Int /\ size' = [size EXCEPT ![w] = @ + more]
    <2>1. more \in Int /\ size[w] + more = 0
        BY <1>1
    <2>. HIDE DEF more
    <2>. QED  BY <2>1
<1>. HIDE DEF more
<1>4. SumIs(size', t + more)
    BY <1>1, <1>2, <1>3, SumChanges
<1>5. t + more \in Int /\ treeCount' + (t + more) = Cardinality(allocated' \ {Root})
    BY <1>1, <1>2, <1>3 DEF more
<1>6. size' \in [Worker -> Int] /\ treeCount' \in Int
    BY <1>1
<1>7. \A v \in Worker : ~Building' \/ Step(v)' = "joined" => size'[v] = 0
    BY <1>1 DEF SizesOK, Step
<1>. QED  BY <1>4, <1>5, <1>6, <1>7 DEF SizesOK

LEMMA GoOnly ==
    ASSUME TypesOK, NEW w \in Worker, NEW step, NEW c, Go(w, step, c)
    PROVE  (\A v \in Worker \ {w} : at'[v] = at[v]) /\ at'[w].step = step
BY TypesFacts DEF Go, Spots

LEMMA PushChildMemory ==
    ASSUME CoreInv, MemoryInv, phase = "build", NEW w \in Worker, PushChild(w),
           UNCHANGED <<phase, worked>>
    PROVE  MemoryInv'
<1>1. TypesOK /\ MarksOK /\ SlotsOK /\ AllocatedOK /\ SizesOK /\ Unique
    BY DEF CoreInv, MemoryInv
<1>. DEFINE d == Append(Cell(w), at[w].next)
<1>2. HandedOut(d)
    BY PushChildStep
<1>3. Building /\ Building' /\ Cell(w) \notin Leaves
    BY <1>1 DEF Building, PushChild, MarksOK
<1>4. d \in Cells /\ d # Root
    <2>1. Cell(w) \in Cells /\ d \in ChildrenOf(Cell(w)) /\ d \in Cells
        BY <1>1, <1>3, UnpushedCells
    <2>. HIDE DEF d
    <2>. QED  BY <2>1, ChildProperties
<1>5. /\ allocated' = allocated \cup {d} /\ size' = [size EXCEPT ![w] = @ + 1]
      /\ UNCHANGED <<slot, treeCount>> /\ Step(w) = "push"
      /\ IF at[w].next < Arity THEN at' = [at EXCEPT ![w].next = @ + 1]
         ELSE Go(w, "loop", Cell(w))
    BY DEF PushChild
<1>. HIDE DEF d
<1>6. AllocatedOK' /\ d \notin allocated
    BY <1>1, <1>2, <1>3, <1>4, <1>5, HandedOutAllocated
<1>7. (\A v \in Worker \ {w} : at'[v] = at[v]) /\ at'[w].step # "joined"
    <2>1. CASE at' = [at EXCEPT ![w].next = @ + 1]
        BY <1>1, <1>5, <2>1, TypesFacts DEF Spots, Step
    <2>2. CASE Go(w, "loop", Cell(w))
        BY <1>1, <2>2, GoOnly
    <2>. QED  BY <1>5, <2>1, <2>2
<1>8. SizesOK'
    BY <1>1, <1>3, <1>4, <1>5, <1>6, <1>7, SizesGrow
<1>. QED  BY <1>6, <1>8 DEF MemoryInv

LEMMA EvalLeafMemory ==
    ASSUME CoreInv, MemoryInv, phase = "build", NEW w \in Worker, EvalLeaf(w),
           UNCHANGED <<phase, worked>>
    PROVE  MemoryInv'
<1>1. TypesOK /\ MarksOK /\ SlotsOK /\ AllocatedOK /\ SizesOK
    BY DEF CoreInv, MemoryInv
<1>. DEFINE c == Cell(w)
            state == IF shape[c] = "mixed" THEN "ambiguous" ELSE shape[c]
<1>2. Finished(c)
    BY EvalLeafStep
<1>3. Building /\ Building' /\ c \in Leaves /\ c \in Cells
    BY LeavesAreCells DEF Building, EvalLeaf
<1>4. /\ slot' = Installed(slot, c, state) /\ Released(w, Given(c, state)) /\ Go(w, "up", c)
      /\ treeCount' = treeCount
    BY DEF EvalLeaf
<1>5. state \in {"empty", "filled", "ambiguous"}
    BY <1>1, <1>3, ShapeAssumption, TypesFacts
<1>. HIDE DEF c, state
<1>6. allocated' = allocated \ Given(c, state)
    BY <1>4 DEF Released
<1>7. AllocatedOK' /\ Given(c, state) \subseteq allocated \ {Root}
    BY <1>1, <1>2, <1>3, <1>4, <1>5, <1>6, FinishedAllocated
<1>8. SizesOK'
    BY <1>1, <1>3, <1>4, <1>7, GoOnly, SizesShrink
<1>. QED  BY <1>7, <1>8 DEF MemoryInv

LEMMA EvalIntervalMemory ==
    ASSUME CoreInv, MemoryInv, phase = "build", NEW w \in Worker, EvalInterval(w),
           UNCHANGED <<phase, worked>>
    PROVE  MemoryInv'
<1>1. TypesOK /\ MarksOK /\ SlotsOK /\ AllocatedOK /\ SizesOK /\ Unique
    BY DEF CoreInv, MemoryInv
<1>. DEFINE c == Cell(w)
<1>2. IF Step(w)' = "push" THEN Split(c) ELSE Finished(c)
    BY EvalIntervalStep
<1>3. Building /\ Building' /\ treeCount' = treeCount /\ Step(w) = "eval"
    BY DEF Building, EvalInterval
<1>4. PICK state \in IntervalOf(c) :
          IF state = "ambiguous"
          THEN Go(w, "push", c) /\ UNCHANGED <<slot, allocated, size, counter, total>>
          ELSE /\ slot' = Installed(slot, c, state)
               /\ Released(w, Given(c, state))
               /\ Tick(TicksOf(c))
               /\ Go(w, "up", c)
    BY DEF EvalInterval
<1>5. c \in Cells /\ state \in {"empty", "filled", "ambiguous"}
    BY <1>1, MarksAt DEF IntervalOf
<1>. HIDE DEF c
<1>6. CASE state = "ambiguous"
    <2>1. /\ \A v \in Worker \ {w} : at'[v] = at[v]
          /\ at'[w].step = "push" /\ UNCHANGED <<slot, allocated, size>>
        BY <1>1, <1>4, <1>6, GoOnly
    <2>2. Split(c)
        BY <1>2, <2>1 DEF Step
    <2>3. AllocatedOK'
        BY <1>1, <1>3, <1>5, <2>1, <2>2, SplitAllocated
    <2>4. SizesOK'
        BY <1>1, <1>3, <2>1, SizesSame
    <2>. QED  BY <2>3, <2>4 DEF MemoryInv
<1>7. CASE state # "ambiguous"
    <2>1. /\ \A v \in Worker \ {w} : at'[v] = at[v]
          /\ at'[w].step = "up" /\ slot' = Installed(slot, c, state) /\ Released(w, Given(c, state))
        BY <1>1, <1>4, <1>7, GoOnly
    <2>2. Finished(c)
        BY <1>2, <2>1 DEF Step
    <2>3. allocated' = allocated \ Given(c, state)
        BY <2>1 DEF Released
    <2>4. AllocatedOK' /\ Given(c, state) \subseteq allocated \ {Root}
        BY <1>1, <1>3, <1>5, <2>1, <2>2, <2>3, FinishedAllocated
    <2>5. SizesOK'
        BY <1>1, <1>3, <2>1, <2>4, SizesShrink
    <2>. QED  BY <2>4, <2>5 DEF MemoryInv
<1>. QED  BY <1>6, <1>7

LEMMA CollectMemory ==
    ASSUME CoreInv, MemoryInv, phase = "build", NEW w \in Worker, Collect(w),
           UNCHANGED <<phase, worked>>
    PROVE  MemoryInv'
<1>1. TypesOK /\ MarksOK /\ SlotsOK /\ AllocatedOK /\ SizesOK /\ Unique
    BY DEF CoreInv, MemoryInv
<1>. DEFINE c == Cell(w)
            own == {d \in ChildrenOf(c) : slot[d] = "cell"}
            without == [d \in Cells |-> IF d \in ChildrenOf(c) THEN "null" ELSE slot[d]]
<1>2. Collected(c)
    BY CollectStep
<1>3. Building /\ Building' /\ treeCount' = treeCount /\ Step(w) = "collect" /\ Go(w, "up", c)
    BY DEF Building, Collect
<1>4. c \in Cells
    BY <1>1, MarksAt
<1>5. PICK state \in {"empty", "filled", "ambiguous"}, slots \in {slot, without}, gone \in {{}, own} :
          /\ slot' = Installed(slots, c, state) /\ Released(w, gone \cup Given(c, state))
          /\ (slots = slot /\ gone = {}) \/ (slots = without /\ gone = own)
    <2>. DEFINE Done(state, slots, gone) ==
             slot' = Installed(slots, c, state) /\ Released(w, gone \cup Given(c, state))
    <2>1. \/ Done("ambiguous", slot, {})
          \/ Done("empty", without, {}) /\ \A d \in ChildrenOf(c) : slot[d] = "empty"
          \/ Done("filled", without, {}) /\ \A d \in ChildrenOf(c) : slot[d] = "filled"
          \/ Done("ambiguous", without, own)
        BY DEF Collect
    <2>2. (\A d \in ChildrenOf(c) : slot[d] = "empty") => own = {}
        OBVIOUS
    <2>3. (\A d \in ChildrenOf(c) : slot[d] = "filled") => own = {}
        OBVIOUS
    <2>. HIDE DEF Done, c, own, without
    <2>4. \/ Done("ambiguous", slot, {}) \/ Done("empty", without, own)
          \/ Done("filled", without, own) \/ Done("ambiguous", without, own)
        BY <2>1, <2>2, <2>3
    <2>5. \E state \in {"empty", "filled", "ambiguous"}, slots \in {slot, without}, gone \in {{}, own} :
              Done(state, slots, gone) /\ ((slots = slot /\ gone = {}) \/ (slots = without /\ gone = own))
        BY <2>4
    <2>. QED  BY <2>5 DEF Done
<1>6. allocated' = allocated \ (gone \cup Given(c, state))
    BY <1>5 DEF Released
<1>7. AllocatedOK' /\ gone \cup Given(c, state) \subseteq allocated \ {Root}
    <2>1. own = {d \in ChildrenOf(c) : slot[d] = "cell"}
        OBVIOUS
    <2>2. \/ slots = slot /\ gone = {}
          \/ /\ slots = [d \in Cells |-> IF d \in ChildrenOf(c) THEN "null" ELSE slot[d]]
             /\ gone = own
        BY <1>5
    <2>. HIDE DEF own, without, c
    <2>. QED  BY ZenonT(60), <1>1, <1>2, <1>3, <1>4, <1>5, <1>6, <2>1, <2>2, CollectedAllocated
<1>8. SizesOK'
    BY <1>1, <1>3, <1>5, <1>7, GoOnly, SizesShrink
<1>. QED  BY <1>7, <1>8 DEF MemoryInv

(* The root is there before the workers start, and nothing else is. *)
LEMMA InitMemory ==
    ASSUME Init
    PROVE  MemoryInv
<1>1. CoreInv /\ Early = {Root}
    BY InitInv
<1>2. /\ slot = [c \in Cells |-> "null"] /\ allocated = {Root} /\ Building
      /\ size = [w \in Worker |-> 0] /\ treeCount = 0
    BY DEF Init, PoolInit, Building
<1>3. \A c \in Cells \ {Root} : IsStrictPrefix(Root, c)
    BY RootIsPrefix DEF IsStrictPrefix
<1>4. AllocatedOK
    BY <1>1, <1>2, <1>3 DEF AllocatedOK, Born
<1>5. allocated \ {Root} = {} /\ Cardinality({}) = 0
    BY <1>2, FS_EmptySet
<1>6. size \in [Worker -> Int] /\ \A w \in Worker : size[w] = 0
    BY <1>2
<1>7. SumIs(size, 0)
    BY <1>6, SumOfZeros
<1>8. SizesOK
    BY <1>2, <1>5, <1>6, <1>7 DEF SizesOK
<1>. QED  BY <1>4, <1>8 DEF MemoryInv

(* A step that makes no cell and gives none back. *)
LEMMA QuietMemory ==
    ASSUME CoreInv, MemoryInv, Building' = Building, UNCHANGED <<slot, allocated, size, treeCount>>,
           Building => Same, \A v \in Worker : at'[v].step = "joined" => at[v].step = "joined"
    PROVE  MemoryInv'
BY SameAllocated, SizesSame DEF MemoryInv, CoreInv

LEMMA JoinMemory ==
    ASSUME CoreInv, MemoryInv, NEW w \in Worker, Join(w), UNCHANGED <<phase, worked>>
    PROVE  MemoryInv'
<1>1. TypesOK /\ AllocatedOK /\ SizesOK
    BY DEF CoreInv, MemoryInv
<1>2. /\ treeCount' = treeCount + size[w] /\ size' = [size EXCEPT ![w] = 0]
      /\ Go(w, "joined", Cell(w)) /\ UNCHANGED <<slot, allocated>> /\ Building' = Building
    BY DEF Join, cellVars, Building
<1>3. Same
    BY JoinStep
<1>4. AllocatedOK'
    BY <1>1, <1>2, <1>3, SameAllocated
<1>5. SizesOK'
    BY <1>1, <1>2, GoOnly, SizesJoin
<1>. QED  BY <1>4, <1>5 DEF MemoryInv

(* The cells that are left when the walk starts are those of the tree. *)
LEMMA StartWalkMemory ==
    ASSUME CoreInv, MemoryInv, StartWalk
    PROVE  MemoryInv'
<1>1. AllocatedOK /\ SizesOK
    BY DEF MemoryInv
<1>2. /\ Joined /\ Building /\ ~Building' /\ UNCHANGED <<slot, allocated, size, treeCount>>
    BY DEF StartWalk, Building, cellVars, poolVars
<1>3. \A x : ~Working(x)
    BY StartWalkStep
<1>4. AllocatedOK'
    BY <1>1, <1>2, <1>3 DEF AllocatedOK
<1>5. SizesOK'
    BY <1>1, <1>2 DEF SizesOK, Joined
<1>. QED  BY <1>4, <1>5 DEF MemoryInv

LEMMA NextMemory ==
    ASSUME CoreInv, MemoryInv, [Next]_vars
    PROVE  MemoryInv'
<1>0. TypesOK /\ phase \in {"build", "walk", "end", "cancelled"} /\ cancel \in BOOLEAN
    BY DEF CoreInv, TypesOK
<1>1. CASE \E w \in Worker : WorkerStep(w)
    <2>1. PICK w \in Worker : WorkerStep(w)
        BY <1>1
    <2>2. phase' = phase /\ Building' = Building
        BY <2>1 DEF WorkerStep, Building
    <2>3. CASE phase = "build" /\ PoolStep(w) /\ UNCHANGED worked
        <3>1. CASE Leave(w)
            <4>1. Same
                BY <2>2, <2>3, <3>1, LeaveStep
            <4>2. /\ \A v \in Worker \ {w} : at'[v] = at[v]
                  /\ at'[w].step = "exit"
                BY <1>0, <3>1, GoOnly DEF Leave
            <4>3. \A v \in Worker : at'[v].step = "joined" => at[v].step = "joined"
                BY <4>2
            <4>4. UNCHANGED <<slot, allocated, size, treeCount>>
                BY <3>1 DEF Leave, cellVars, poolVars
            <4>. QED  BY <2>2, <4>1, <4>3, <4>4, QuietMemory
        <3>2. CASE Take(w)
            <4>1. Same
                BY <2>2, <2>3, <3>2, TakeStep
            <4>2. PICK task \in Task : TakeInto(w, task)
                BY <1>0, <3>2, TakeTokens DEF CoreInv
            <4>3. \A v \in Worker : at'[v].step = "joined" => at[v].step = "joined"
                BY <1>0, <4>2, TypesFacts DEF TakeInto, Spots
            <4>4. UNCHANGED <<slot, allocated, size, treeCount>>
                BY <3>2 DEF Take, cellVars, poolVars
            <4>. QED  BY <2>2, <4>1, <4>3, <4>4, QuietMemory
        <3>3. CASE Up(w)
            <4>1. Same
                BY <2>2, <2>3, <3>3, UpStep
            <4>2. /\ \A v \in Worker \ {w} : at'[v] = at[v]
                  /\ at'[w].step # "joined"
                <5>1. PICK step, c : Go(w, step, c) /\ step # "joined"
                    BY <3>3 DEF Up
                <5>. QED  BY <1>0, <5>1, GoOnly
            <4>3. \A v \in Worker : at'[v].step = "joined" => at[v].step = "joined"
                BY <4>2
            <4>4. UNCHANGED <<slot, allocated, size, treeCount>>
                BY <3>3 DEF Up, cellVars, poolVars
            <4>. QED  BY <2>2, <4>1, <4>3, <4>4, QuietMemory
        <3>. QED  BY <2>2, <2>3, <3>1, <3>2, <3>3, EvalIntervalMemory, PushChildMemory,
                     EvalLeafMemory, CollectMemory, JoinMemory DEF PoolStep
    <2>4. CASE phase = "walk" /\ WalkStep(w)
        <3>1. ~Building
            BY <2>4 DEF Building
        <3>2. CASE Join(w) /\ UNCHANGED worked
            BY <2>2, <3>2, JoinMemory
        <3>3. CASE ~(Join(w) /\ UNCHANGED worked)
            <4>1. UNCHANGED <<slot, allocated, size, treeCount>>
                BY <2>4, <3>3 DEF WalkStep, Leave, Take, Visit, PushBranch, Up, Work,
                                  cellVars, poolVars
            <4>2. \A v \in Worker : at'[v].step = "joined" => at[v].step = "joined"
                <5>1. CASE Take(w)
                    <6>1. PICK task \in Task : TakeInto(w, task)
                        BY <1>0, <5>1, TakeTokens DEF CoreInv
                    <6>. QED  BY <1>0, <6>1, TypesFacts DEF TakeInto, Spots
                <5>2. ASSUME NEW step, NEW c, Go(w, step, c), step # "joined"
                      PROVE  \A v \in Worker : at'[v].step = "joined" => at[v].step = "joined"
                    BY <1>0, <5>2, GoOnly
                <5>3. CASE at' = [at EXCEPT ![w].next = @ + 1]
                    BY <1>0, <5>3, TypesFacts DEF Spots
                <5>4. \/ Take(w) \/ at' = [at EXCEPT ![w].next = @ + 1]
                      \/ \E step, c : Go(w, step, c) /\ step # "joined"
                    BY <2>4, <3>3 DEF WalkStep, Leave, Visit, PushBranch, Up, Work
                <5>. QED  BY <5>1, <5>2, <5>3, <5>4
            <4>. QED  BY <2>2, <3>1, <4>1, <4>2, QuietMemory
        <3>. QED  BY <3>2, <3>3
    <2>. QED  BY <2>1, <2>3, <2>4 DEF WorkerStep
<1>2. CASE StartWalk
    BY <1>2, StartWalkMemory
<1>3. ASSUME UNCHANGED <<shape, type, slot, allocated, size, treeCount, pending, tasks, local, at,
                         done, worked>>,
             Building' = Building, phase' \in {"build", "walk", "end", "cancelled"},
             cancel' \in BOOLEAN, cancel => cancel'
      PROVE  MemoryInv'
    <2>1. Same
        BY <1>3, StillStep
    <2>2. UNCHANGED <<slot, allocated, size, treeCount>> /\ at' = at
        BY <1>3
    <2>3. \A v \in Worker : at'[v].step = "joined" => at[v].step = "joined"
        BY <2>2
    <2>. QED  BY <1>3, <2>1, <2>2, <2>3, QuietMemory
<1>4. CASE \E w \in Worker : Spin(w) /\ UNCHANGED <<phase, worked>>
    BY <1>0, <1>3, <1>4 DEF Spin, Building, cellVars, taskVars, flagVars, poolVars
<1>5. CASE Cancel /\ UNCHANGED <<phase, worked>>
    BY <1>0, <1>3, <1>5 DEF Cancel, Building, cellVars, taskVars, poolVars
<1>6. CASE GiveUp \/ EndWalk
    BY <1>0, <1>3, <1>6 DEF GiveUp, EndWalk, Building, cellVars, taskVars, flagVars, poolVars
<1>7. CASE UNCHANGED vars
    BY <1>0, <1>3, <1>7 DEF vars, Building, cellVars, taskVars, flagVars, poolVars
<1>. QED  BY <1>1, <1>2, <1>4, <1>5, <1>6, <1>7 DEF Next, Main

(* The memory of the tree: exactly the cells that are installed or still    *)
(* worked on are not in a pool, and the sizes of the pools add up to them.  *)
THEOREM MemoryInvariant == Spec => [](CoreInv /\ MemoryInv)
<1>1. Init => CoreInv /\ MemoryInv
    BY InitInv, InitMemory
<1>2. CoreInv /\ MemoryInv /\ [Next]_vars => (CoreInv /\ MemoryInv)'
    BY NextInv, NextMemory
<1>. QED  BY <1>1, <1>2, PTL DEF Spec

(* Workers that have joined, and were not cancelled, have left nothing. *)
LEMMA NothingLeft ==
    ASSUME CoreInv, Joined, ~cancel
    PROVE  \A x : ~Working(x)
<1>1. MarksOK /\ DoneOK
    BY DEF CoreInv
<1>2. Early \cup Late = {}
    BY <1>1, PoolAssumption DEF Joined, DoneOK
<1>3. MarksIn(Tree, Early, Late, Rising)
    BY <1>1 DEF MarksOK
<1>4. Early = {} /\ Late = {} /\ Rising = {} /\ TreeClosed(Tree)
    BY <1>2, <1>3 DEF MarksIn
<1>. QED  BY <1>4, NoMarks DEF Working

LEMMA CountedTree ==
    ASSUME CoreInv, MemoryInv
    PROVE  TreeCountIsTreeSize
<1>1. SUFFICES ASSUME Joined
               PROVE  /\ treeCount = Cardinality(allocated \ {Root})
                      /\ ~cancel => allocated \ {Root} = {c \in Cells : slot[c] = "cell"}
    BY DEF TreeCountIsTreeSize
<1>2. TypesOK /\ SlotsOK /\ AllocatedOK /\ SizesOK
    BY DEF CoreInv, MemoryInv
<1>3. treeCount = Cardinality(allocated \ {Root})
    <2>1. \A w \in Worker : size[w] = 0
        BY <1>1, <1>2 DEF SizesOK, Joined
    <2>2. PICK t \in Int : SumIs(size, t) /\ treeCount + t = Cardinality(allocated \ {Root})
        BY <1>2 DEF SizesOK
    <2>3. t = 0
        BY <1>2, <2>1, <2>2, ZeroSum DEF SizesOK
    <2>. QED  BY <1>2, <2>2, <2>3 DEF SizesOK
<1>4. ASSUME ~cancel PROVE allocated \ {Root} = {c \in Cells : slot[c] = "cell"}
    <2>1. \A x : ~Working(x)
        BY <1>1, <1>4, NothingLeft
    <2>2. allocated \subseteq Cells /\ slot[Root] = "null"
        BY <1>2, TypesFacts DEF SlotsOK
    <2>. QED  BY <1>2, <2>1, <2>2 DEF AllocatedOK
<1>. QED  BY <1>3, <1>4

(* Root::claim: when the workers have joined, the root has claimed every    *)
(* cell that is left (root.hpp), and a tree nobody cancelled has lost none. *)
THEOREM TreeIsCounted == Spec => []TreeCountIsTreeSize
<1>1. CoreInv /\ MemoryInv => TreeCountIsTreeSize
    BY CountedTree
<1>. QED  BY <1>1, MemoryInvariant, PTL

-----------------------------------------------------------------------------
(* Progress: what is worked on is what is left to count                     *)

ToCount == {c \in Tree : Working(c)}

TicksOK == counter \in Int /\ total \in Int /\ counter + Cardinality(ToCount) = total

LEMMA TreeStays ==
    ASSUME Building' = Building, ~Building => slot' = slot
    PROVE  Tree' = Tree
BY DEF Tree

LEMMA TicksSame ==
    ASSUME TicksOK, Tree' = Tree, Keeps, UNCHANGED <<counter, total>>
    PROVE  TicksOK'
<1>1. ToCount' = ToCount
    BY DEF ToCount, Keeps
<1>. QED  BY <1>1 DEF TicksOK

(* The cells that are finished are counted. *)
LEMMA TicksCount ==
    ASSUME TypesOK, TicksOK, Tree' = Tree, NEW D, D \subseteq Tree, \A x \in D : Working(x),
           \A x \in Tree : Working(x)' <=> Working(x) /\ x \notin D,
           Tick(Cardinality(D))
    PROVE  TicksOK'
<1>1. Tree \subseteq Cells
    BY TreeFacts
<1>2. ToCount' = ToCount \ D /\ ToCount \cap D = D
    BY DEF ToCount
<1>3. /\ IsFiniteSet(ToCount) /\ Cardinality(ToCount) \in Nat /\ Cardinality(D) \in Nat
    BY <1>1, SubsetsAreFinite DEF ToCount
<1>4. Cardinality(ToCount') = Cardinality(ToCount) - Cardinality(D)
    BY <1>2, <1>3, FS_Difference
<1>. QED  BY <1>3, <1>4 DEF TicksOK, Tick

LEMMA FinishedTicks ==
    ASSUME TypesOK, TicksOK, Building, Building', NEW c \in Cells, Finished(c), Tick(TicksOf(c))
    PROVE  TicksOK'
<1>1. Tree = Cells /\ Tree' = Tree
    BY TreeFacts, TreeStays
<1>2. Within(c) \subseteq Tree /\ \A x \in Cells : x \in Within(c) <=> IsPrefix(c, x)
    BY <1>1 DEF Within
<1>3. \A x \in Within(c) : Working(x)
    BY <1>1, <1>2 DEF Finished
<1>4. \A x \in Tree : Working(x)' <=> Working(x) /\ x \notin Within(c)
    BY <1>1, <1>2 DEF Finished
<1>5. Tick(Cardinality(Within(c)))
    BY DEF TicksOf
<1>. QED  BY <1>1, <1>2, <1>3, <1>4, <1>5, TicksCount

LEMMA DropTicks ==
    ASSUME TypesOK, TicksOK, Tree' = Tree, NEW c, Drops(c), Tick(1)
    PROVE  TicksOK'
<1>. DEFINE D == {c}
<1>1. Cardinality(D) = 1
    BY FS_Singleton
<1>2. /\ D \subseteq Tree /\ \A x \in D : Working(x)
      /\ \A x \in Tree : Working(x)' <=> Working(x) /\ x \notin D
    BY DEF Drops
<1>3. Tick(Cardinality(D))
    BY <1>1
<1>. HIDE DEF D
<1>. QED  BY <1>2, <1>3, TicksCount

(* A leaf has nothing within it. *)
LEMMA TicksOfLeaf ==
    ASSUME NEW c \in Leaves
    PROVE  TicksOf(c) = 1
<1>1. c \in Cells /\ IsPrefix(c, c)
    BY LeavesAreCells, PrefixOrder
<1>2. Within(c) = {c}
    BY <1>1, NothingBelowLeaf DEF Within
<1>. QED  BY <1>2, FS_Singleton DEF TicksOf

LEMMA InitTicks ==
    ASSUME Init
    PROVE  TicksOK
<1>1. \A x \in Cells : Working(x)
    BY InitInv
<1>2. Tree = Cells /\ counter = 0 /\ total = TicksOf(Root)
    BY DEF Init, PoolInit, Tree, Building
<1>3. Within(Root) = Cells
    BY RootIsPrefix DEF Within
<1>4. ToCount = Cells
    BY <1>1, <1>2 DEF ToCount
<1>5. Cardinality(Cells) \in Nat
    BY SubsetsAreFinite
<1>. QED  BY <1>2, <1>3, <1>4, <1>5 DEF TicksOK, TicksOf

(* A phase that starts has the cells of the tree to count. *)
LEMMA StartWalkTicks ==
    ASSUME CoreInv, MemoryInv, StartWalk
    PROVE  TicksOK'
<1>1. Joined /\ ~cancel /\ counter' = 0 /\ total' = treeCount + 1 /\ slot' = slot /\ ~Building'
    BY DEF StartWalk, Building, cellVars
<1>2. \A x \in Tree' : Working(x)'
    BY StartWalkStep
<1>. DEFINE S == {c \in Cells : slot[c] = "cell"}
<1>3. treeCount = Cardinality(S)
    <2>1. TreeCountIsTreeSize
        BY CountedTree
    <2>. QED  BY <1>1, <2>1 DEF TreeCountIsTreeSize
<1>4. Root \notin S /\ S \subseteq Cells
    BY DEF CoreInv, SlotsOK
<1>5. Tree' = S \cup {Root}
    BY <1>1 DEF Tree
<1>6. ToCount' = S \cup {Root}
    BY <1>2, <1>5 DEF ToCount
<1>. HIDE DEF S
<1>7. Cardinality(S) \in Nat /\ Cardinality(S \cup {Root}) = Cardinality(S) + 1
    BY <1>4, SubsetsAreFinite, FS_AddElement
<1>. QED  BY <1>1, <1>3, <1>6, <1>7 DEF TicksOK

LEMMA NextTicks ==
    ASSUME CoreInv, MemoryInv, TicksOK, [Next]_vars
    PROVE  TicksOK'
<1>0. TypesOK /\ phase \in {"build", "walk", "end", "cancelled"} /\ cancel \in BOOLEAN
    BY DEF CoreInv, TypesOK
<1>1. ASSUME Same, Building' = Building, ~Building => slot' = slot, UNCHANGED <<counter, total>>
      PROVE  TicksOK'
    BY <1>1, TreeStays, TicksSame DEF Same
<1>2. CASE \E w \in Worker : WorkerStep(w)
    <2>1. PICK w \in Worker : WorkerStep(w)
        BY <1>2
    <2>2. phase' = phase /\ Building' = Building
        BY <2>1 DEF WorkerStep, Building
    <2>3. CASE phase = "build" /\ PoolStep(w) /\ UNCHANGED worked
        <3>1. Building /\ Building' /\ Tree' = Tree
            BY <2>2, <2>3, TreeStays DEF Building
        <3>2. CASE Leave(w) \/ Take(w) \/ Up(w) \/ Join(w)
            <4>1. Same
                BY <2>2, <2>3, <3>2, LeaveStep, TakeStep, UpStep, JoinStep
            <4>2. UNCHANGED <<counter, total>>
                BY <3>2 DEF Leave, Take, Up, Join
            <4>. QED  BY <1>1, <3>1, <4>1, <4>2
        <3>3. CASE EvalInterval(w)
            <4>1. IF Step(w)' = "push" THEN Split(Cell(w)) ELSE Finished(Cell(w))
                BY <2>2, <2>3, <3>3, EvalIntervalStep
            <4>2. Cell(w) \in Cells
                BY <1>0, MarksAt DEF CoreInv
            <4>3. \/ at'[w].step = "push" /\ UNCHANGED <<counter, total>>
                  \/ at'[w].step = "up" /\ Tick(TicksOf(Cell(w)))
                <5>1. \/ Go(w, "push", Cell(w)) /\ UNCHANGED <<counter, total>>
                      \/ Go(w, "up", Cell(w)) /\ Tick(TicksOf(Cell(w)))
                    BY <3>3 DEF EvalInterval
                <5>. QED  BY <1>0, <5>1, GoOnly
            <4>4. \/ Split(Cell(w)) /\ UNCHANGED <<counter, total>>
                  \/ Finished(Cell(w)) /\ Tick(TicksOf(Cell(w)))
                BY <4>1, <4>3 DEF Step
            <4>. QED  BY <1>0, <3>1, <4>2, <4>4, TicksSame, FinishedTicks DEF Split
        <3>4. CASE PushChild(w)
            <4>1. Keeps
                BY <2>2, <2>3, <3>4, PushChildStep DEF HandedOut
            <4>2. UNCHANGED <<counter, total>>
                BY <3>4 DEF PushChild
            <4>. QED  BY <3>1, <4>1, <4>2, TicksSame
        <3>5. CASE EvalLeaf(w)
            <4>1. Finished(Cell(w))
                BY <2>2, <2>3, <3>5, EvalLeafStep
            <4>2. Cell(w) \in Leaves /\ Cell(w) \in Cells /\ Tick(1)
                BY <3>5, LeavesAreCells DEF EvalLeaf
            <4>3. Tick(TicksOf(Cell(w)))
                BY <4>2, TicksOfLeaf
            <4>. QED  BY <1>0, <3>1, <4>1, <4>2, <4>3, FinishedTicks
        <3>6. CASE Collect(w)
            <4>1. Drops(Cell(w))
                BY <2>2, <2>3, <3>6, CollectStep DEF Collected
            <4>2. Tick(1)
                BY <3>6 DEF Collect
            <4>. QED  BY <1>0, <3>1, <4>1, <4>2, DropTicks
        <3>. QED  BY <2>3, <3>2, <3>3, <3>4, <3>5, <3>6 DEF PoolStep
    <2>4. CASE phase = "walk" /\ WalkStep(w)
        <3>1. ~Building /\ slot' = slot
            BY <2>4 DEF WalkStep, Leave, Take, Visit, PushBranch, Up, Join, Work, cellVars, Building
        <3>2. Tree' = Tree
            BY <2>2, <3>1, TreeStays
        <3>3. CASE (Leave(w) \/ Take(w) \/ Up(w) \/ Join(w)) /\ UNCHANGED worked
            <4>1. Same
                BY <2>2, <3>3, LeaveStep, TakeStep, UpStep, JoinStep
            <4>2. UNCHANGED <<counter, total>>
                BY <3>3 DEF Leave, Take, Up, Join
            <4>. QED  BY <1>1, <2>2, <3>1, <4>1, <4>2
        <3>4. CASE Visit(w) /\ UNCHANGED worked
            <4>1. IF Step(w)' = "up" THEN Drops(Cell(w)) /\ Tick(1)
                  ELSE Keeps /\ UNCHANGED <<counter, total>>
                BY <2>2, <2>4, <3>4, VisitStep
            <4>. QED  BY <1>0, <3>2, <4>1, DropTicks, TicksSame
        <3>5. CASE PushBranch(w) /\ UNCHANGED worked
            <4>1. Keeps
                BY <2>2, <3>5, PushBranchStep
            <4>2. UNCHANGED <<counter, total>>
                BY <3>5 DEF PushBranch
            <4>. QED  BY <3>2, <4>1, <4>2, TicksSame
        <3>6. CASE Work(w)
            <4>1. Drops(Cell(w))
                BY <2>2, <2>4, <3>6, WorkStep
            <4>2. Tick(1)
                BY <3>6 DEF Work
            <4>. QED  BY <1>0, <3>2, <4>1, <4>2, DropTicks
        <3>. QED  BY <2>4, <3>3, <3>4, <3>5, <3>6 DEF WalkStep
    <2>. QED  BY <2>1, <2>3, <2>4 DEF WorkerStep
<1>3. CASE StartWalk
    BY <1>3, StartWalkTicks
<1>4. ASSUME UNCHANGED <<shape, type, slot, allocated, pending, tasks, local, at, done, worked,
                         counter, total>>,
             Building' = Building, phase' \in {"build", "walk", "end", "cancelled"},
             cancel' \in BOOLEAN, cancel => cancel'
      PROVE  TicksOK'
    <2>1. Same
        BY <1>4, StillStep
    <2>. QED  BY <1>1, <1>4, <2>1
<1>5. CASE \E w \in Worker : Spin(w) /\ UNCHANGED <<phase, worked>>
    BY <1>0, <1>4, <1>5 DEF Spin, Building, cellVars, taskVars, flagVars
<1>6. CASE Cancel /\ UNCHANGED <<phase, worked>>
    BY <1>0, <1>4, <1>6 DEF Cancel, Building, cellVars, taskVars
<1>7. CASE GiveUp \/ EndWalk
    BY <1>0, <1>4, <1>7 DEF GiveUp, EndWalk, Building, cellVars, taskVars, flagVars
<1>8. CASE UNCHANGED vars
    BY <1>0, <1>4, <1>8 DEF vars, Building, cellVars, taskVars, flagVars
<1>. QED  BY <1>2, <1>3, <1>5, <1>6, <1>7, <1>8 DEF Next, Main

(* progress.cpp: a phase that is over and was not cancelled has counted up  *)
(* to what it announced, whatever was split, collapsed or passed over.      *)
THEOREM ProgressAddsUp == Spec => []PhasesCountUp
<1>1. Init => TicksOK
    BY InitTicks
<1>2. CoreInv /\ MemoryInv /\ TicksOK /\ [Next]_vars => TicksOK'
    BY NextTicks
<1>3. CoreInv /\ TicksOK => PhasesCountUp
    <2>1. SUFFICES ASSUME CoreInv, TicksOK, Joined, ~cancel PROVE counter = total
        BY DEF PhasesCountUp
    <2>2. \A x : ~Working(x)
        BY <2>1, NothingLeft
    <2>3. ToCount = {} /\ Cardinality({}) = 0
        BY <2>2, FS_EmptySet DEF ToCount
    <2>. QED  BY <2>1, <2>3 DEF TicksOK
<1>. QED  BY <1>1, <1>2, <1>3, MemoryInvariant, PTL DEF Spec

-----------------------------------------------------------------------------
(* Neighbours: what a worker looks at is not given back                     *)

Busy == {x \in Cells : Working(x)}

(* A neighbour of a cell is a cell whose parent was collected, or is not    *)
(* before the cell is finished, because it is above it.                     *)
SeenIn(slots, busy, c, seen) ==
    \A n \in seen :
        /\ n \in Cells /\ n # Root /\ slots[n] = "cell"
        /\ IsStrictPrefix(Front(n), c) \/ Front(n) \notin busy

Looks(w) == Step(w) \in {"eval", "push"}

SeenOK ==
    phase = "build" =>
        /\ \A task \in InStacks : SeenIn(slot, Busy, task.cell, task.seen)
        /\ \A w \in Worker : Looks(w) => SeenIn(slot, Busy, Cell(w), at[w].seen)

Lookers == {task.cell : task \in InStacks} \cup {Cell(w) : w \in {v \in Worker : Looks(v)}}

(* No cell whose parent is above a cell that looks is lost. *)
Spared(c) ==
    \A n \in Cells \ {Root} :
        slot[n] = "cell" => slot'[n] = "cell" \/ (Front(n) \in Busy /\ ~IsStrictPrefix(Front(n), c))

LEMMA SeenKept ==
    ASSUME NEW c, NEW seen, SeenIn(slot, Busy, c, seen), Busy' \subseteq Busy, Spared(c)
    PROVE  SeenIn(slot', Busy', c, seen)
BY DEF SeenIn, Spared

LEMMA SeenNext ==
    ASSUME SeenOK, phase = "build", Busy' \subseteq Busy, \A c \in Lookers : Spared(c),
           \A task \in InStacks' : task \in InStacks \/ SeenIn(slot', Busy', task.cell, task.seen),
           \A w \in Worker : at'[w].step \in {"eval", "push"} =>
               \/ Looks(w) /\ at'[w].cell = at[w].cell /\ at'[w].seen = at[w].seen
               \/ SeenIn(slot', Busy', at'[w].cell, at'[w].seen)
    PROVE  SeenOK'
<1>1. ASSUME NEW task \in InStacks'
      PROVE  SeenIn(slot', Busy', task.cell, task.seen)
    <2>1. CASE task \in InStacks
        <3>1. SeenIn(slot, Busy, task.cell, task.seen) /\ task.cell \in Lookers
            BY <2>1 DEF SeenOK, Lookers
        <3>. QED  BY <3>1, SeenKept
    <2>. QED  BY <1>1, <2>1
<1>2. ASSUME NEW w \in Worker, at'[w].step \in {"eval", "push"}
      PROVE  SeenIn(slot', Busy', at'[w].cell, at'[w].seen)
    <2>1. CASE Looks(w) /\ at'[w].cell = at[w].cell /\ at'[w].seen = at[w].seen
        <3>1. SeenIn(slot, Busy, at[w].cell, at[w].seen) /\ at[w].cell \in Lookers
            BY <2>1 DEF SeenOK, Lookers, Cell
        <3>2. SeenIn(slot', Busy', at[w].cell, at[w].seen)
            BY <3>1, SeenKept
        <3>. QED  BY <2>1, <3>2
    <2>. QED  BY <1>2, <2>1
<1>. QED  BY <1>1, <1>2 DEF SeenOK, Looks, Step, Cell

(* Below every cell that looks, or at it, a mark waits. *)
LEMMA LookersHaveMarks ==
    ASSUME TypesOK, Unique, MarksOK, Building, NEW c \in Lookers
    PROVE  c \in Cells /\ \E m \in Early : IsPrefix(c, m)
<1>1. Tree = Cells /\ Waiting \subseteq Cells
    BY TreeFacts, WaitingAreCells
<1>2. ASSUME c \in Waiting PROVE c \in Cells /\ \E m \in Early : IsPrefix(c, m)
    BY <1>1, <1>2, PrefixOrder DEF Early
<1>3. CASE \E task \in InStacks : c = task.cell
    BY <1>2, <1>3, WaitsInStack
<1>4. CASE \E w \in Worker : Step(w) = "eval" /\ c = Cell(w)
    BY <1>2, <1>4, MarksAt
<1>5. CASE \E w \in Worker : Step(w) = "push" /\ c = Cell(w)
    <2>1. PICK w \in Worker : Step(w) = "push" /\ c = Cell(w)
        BY <1>5
    <2>. DEFINE m == Append(c, Arity)
    <2>2. m \in Early /\ IsStrictPrefix(c, m)
        BY <2>1, LastUnpushed
    <2>3. c \in Cells
        BY <2>1, MarksAt
    <2>. QED  BY <2>2, <2>3 DEF IsStrictPrefix
<1>. QED  BY <1>3, <1>4, <1>5 DEF Lookers, Looks

(* Nothing that is installed is lost. *)
LEMMA SparedAll ==
    ASSUME \A n \in Cells \ {Root} : slot[n] = "cell" => slot'[n] = "cell"
    PROVE  \A c : Spared(c)
BY DEF Spared

(* A cell that is collected has no marks below it. *)
LEMMA SparedCollect ==
    ASSUME CoreInv, Building, NEW x, Collected(x),
           \A n \in Cells \ {Root} : slot[n] = "cell" => slot'[n] = "cell" \/ n \in ChildrenOf(x)
    PROVE  \A c \in Lookers : Spared(c)
<1>1. TypesOK /\ Unique /\ MarksOK
    BY DEF CoreInv
<1>2. Tree = Cells /\ Early \cup Late \subseteq Cells
    BY <1>1, TreeFacts, MarksFacts
<1>3. x \in Cells /\ x \in Late /\ x \in Busy
    BY <1>2 DEF Collected, Drops, Busy
<1>4. SUFFICES ASSUME NEW c \in Lookers PROVE ~IsStrictPrefix(x, c)
    <2>1. \A n \in ChildrenOf(x) : Front(n) = x
        BY <1>3, ChildProperties
    <2>. QED  BY <1>3, <1>4, <2>1 DEF Spared
<1>5. PICK m \in Early : IsPrefix(c, m)
    BY <1>1, LookersHaveMarks
<1>6. c \in Cells /\ m \in Cells
    BY <1>1, <1>2, LookersHaveMarks
<1>7. IsPrefix(x, m) => x = m
    BY <1>1, <1>3, MarksFacts
<1>8. x # m
    BY <1>1, <1>3, MarksFacts
<1>9. IsPrefix(x, c) => IsPrefix(x, m)
    BY <1>3, <1>5, <1>6, PrefixOrder
<1>. QED  BY <1>7, <1>8, <1>9 DEF IsStrictPrefix

(* What a worker sees from a cell: its siblings, and what its parent saw or *)
(* the children of that.                                                    *)
LEMMA SeenFromIsIn ==
    ASSUME TypesOK, SlotsOK, Building, NEW c \in Cells, NEW seen, SeenIn(slot, Busy, c, seen)
    PROVE  SeenIn(slot, Busy, c, SeenFrom(c, seen))
<1>1. ASSUME NEW n \in SeenFrom(c, seen)
      PROVE  /\ n \in Cells /\ n # Root /\ slot[n] = "cell"
             /\ IsStrictPrefix(Front(n), c) \/ Front(n) \notin Busy
    <2>1. CASE c # Root /\ n \in ChildrenOf(Front(c)) /\ slot[n] = "cell"
        <3>1. /\ Front(c) \in Cells /\ Front(c) \notin Leaves /\ IsStrictPrefix(Front(c), c)
            BY <2>1, ParentProperties
        <3>2. n \in Cells /\ n # Root /\ Front(n) = Front(c)
            BY <2>1, <3>1, ChildProperties
        <3>. QED  BY <2>1, <3>1, <3>2
    <2>2. CASE \E p \in seen : IsBranch(p) /\ n \in ChildrenOf(p) /\ slot[n] = "cell"
        <3>1. PICK p \in seen : IsBranch(p) /\ n \in ChildrenOf(p) /\ slot[n] = "cell"
            BY <2>2
        <3>2. p \in Cells /\ p # Root /\ slot[p] = "cell"
            BY DEF SeenIn
        <3>3. p \notin Busy
            BY <3>2 DEF SlotsOK, Busy
        <3>4. p \notin Leaves
            <4>1. Append(p, 1) \in Cells /\ Append(p, 1) \in ChildrenOf(p)
                BY <3>1, PoolAssumption DEF IsBranch, ChildrenOf, Index
            <4>. QED  BY <3>2, <4>1, ChildProperties
        <3>5. n \in Cells /\ n # Root /\ Front(n) = p
            BY <3>1, <3>2, <3>4, ChildProperties
        <3>. QED  BY <3>1, <3>3, <3>5
    <2>3. CASE n \in seen
        BY <2>3 DEF SeenIn
    <2>4. \/ c # Root /\ n \in ChildrenOf(Front(c)) /\ slot[n] = "cell"
          \/ \E p \in seen : IsBranch(p) /\ n \in ChildrenOf(p) /\ slot[n] = "cell"
          \/ n \in seen
        BY DEF SeenFrom
    <2>. QED  BY <2>1, <2>2, <2>3, <2>4
<1>. QED  BY <1>1 DEF SeenIn

(* A child sees what its parent saw. *)
LEMMA SeenBelow ==
    ASSUME NEW c \in Cells, NEW d \in Cells, IsStrictPrefix(c, d), NEW seen, NEW slots, NEW busy,
           SeenIn(slots, busy, c, seen)
    PROVE  SeenIn(slots, busy, d, seen)
<1>1. ASSUME NEW n \in seen, IsStrictPrefix(Front(n), c), n \in Cells, n # Root
      PROVE  IsStrictPrefix(Front(n), d)
    <2>1. Front(n) \in Cells
        BY <1>1, ParentProperties
    <2>. QED  BY <1>1, <2>1, PrefixOrder DEF IsStrictPrefix
<1>. QED  BY <1>1 DEF SeenIn

LEMMA BusyKeeps ==
    ASSUME TypesOK, Building, Keeps
    PROVE  Busy' = Busy
<1>1. Tree = Cells
    BY TreeFacts
<1>. QED  BY <1>1 DEF Busy, Keeps

(* A step that takes no task and makes none, after which the worker looks   *)
(* only at what it looked at.                                               *)
LEMMA SeenQuiet ==
    ASSUME TypesOK, SeenOK, phase = "build", UNCHANGED taskVars, Busy' \subseteq Busy,
           \A c \in Lookers : Spared(c),
           \A w \in Worker : at'[w].step \in {"eval", "push"} =>
               Looks(w) /\ at'[w].cell = at[w].cell /\ at'[w].seen = at[w].seen
    PROVE  SeenOK'
<1>1. InStacks' = InStacks
    BY DEF taskVars, InStacks
<1>. QED  BY <1>1, SeenNext

(* Where a worker goes it sees what it saw. *)
LEMMA GoSees ==
    ASSUME TypesOK, NEW w \in Worker, NEW step, NEW c, Go(w, step, c)
    PROVE  /\ \A v \in Worker \ {w} : at'[v] = at[v]
           /\ at'[w].step = step /\ at'[w].cell = c /\ at'[w].seen = at[w].seen
BY TypesFacts DEF Go, Spots

LEMMA TakeSeen ==
    ASSUME CoreInv, SeenOK, phase = "build", NEW w \in Worker, Take(w), UNCHANGED <<phase, worked>>
    PROVE  SeenOK'
<1>1. TypesOK /\ Unique /\ MarksOK /\ SlotsOK /\ Building
    BY DEF CoreInv, Building
<1>2. slot' = slot
    BY DEF Take, cellVars
<1>3. Busy' = Busy
    <2>1. Keeps
        BY TakeStep DEF Same
    <2>. QED  BY <1>1, <2>1, BusyKeeps
<1>4. PICK task \in Range(tasks) \cup Range(local[w]) : task \in Task /\ TakeInto(w, task)
    BY <1>1, TakeTokens
<1>5. task \in InStacks /\ task.cell \in Cells
    BY <1>4 DEF InStacks, Task
<1>6. InStacks' \subseteq InStacks
    <2>1. Range(tasks') \subseteq Range(tasks) /\ \A v \in Worker : Range(local'[v]) \subseteq Range(local[v])
        BY <1>1, TakeTokens
    <2>. QED  BY <2>1 DEF InStacks
<1>7. /\ \A v \in Worker \ {w} : at'[v] = at[v]
      /\ at'[w].cell = task.cell /\ at'[w].seen = SeenFrom(task.cell, task.seen)
    BY <1>1, <1>4, TypesFacts DEF TakeInto
<1>8. SeenIn(slot, Busy, task.cell, task.seen)
    BY <1>5 DEF SeenOK
<1>9. SeenIn(slot, Busy, task.cell, SeenFrom(task.cell, task.seen))
    BY <1>1, <1>5, <1>8, SeenFromIsIn
<1>10. \A c \in Lookers : Spared(c)
    BY <1>2, SparedAll
<1>11. ASSUME NEW v \in Worker, at'[v].step \in {"eval", "push"}
       PROVE  \/ Looks(v) /\ at'[v].cell = at[v].cell /\ at'[v].seen = at[v].seen
              \/ SeenIn(slot', Busy', at'[v].cell, at'[v].seen)
    BY <1>2, <1>3, <1>7, <1>9, <1>11 DEF Looks, Step
<1>. QED  BY <1>3, <1>6, <1>10, <1>11, SeenNext

LEMMA PushChildSeen ==
    ASSUME CoreInv, SeenOK, phase = "build", NEW w \in Worker, PushChild(w),
           UNCHANGED <<phase, worked>>
    PROVE  SeenOK'
<1>1. TypesOK /\ Unique /\ MarksOK /\ SlotsOK /\ Building
    BY DEF CoreInv, Building
<1>. DEFINE c == Cell(w)
            d == Append(Cell(w), at[w].next)
            task == [cell |-> d, seen |-> at[w].seen]
<1>2. /\ Step(w) = "push" /\ slot' = slot /\ c = Cell(w)
      /\ PushTask(w, [cell |-> d, seen |-> at[w].seen])
      /\ IF at[w].next < Arity THEN at' = [at EXCEPT ![w].next = @ + 1]
         ELSE Go(w, "loop", Cell(w))
    BY DEF PushChild
<1>3. Busy' = Busy
    <2>1. Keeps
        BY PushChildStep DEF HandedOut
    <2>. QED  BY <1>1, <2>1, BusyKeeps
<1>4. c \in Cells /\ c \notin Leaves
    BY <1>1, <1>2, MarksAt DEF MarksOK
<1>5. d \in Cells /\ IsStrictPrefix(c, d)
    <2>1. d \in ChildrenOf(Cell(w)) /\ d \in Cells
        BY <1>1, <1>4, UnpushedCells
    <2>. HIDE DEF d
    <2>. QED  BY <1>4, <2>1, ChildProperties
<1>6. SeenIn(slot, Busy, c, at[w].seen)
    BY <1>2 DEF SeenOK, Looks
<1>7. d = Append(Cell(w), at[w].next) /\ task = [cell |-> d, seen |-> at[w].seen]
    OBVIOUS
<1>. HIDE DEF c, d
<1>8. at[w].seen \in SUBSET Cells /\ Cell(w) \notin Leaves
    BY <1>1, <1>2, <1>4, TypesFacts DEF Spots
<1>9. /\ Range(tasks') \subseteq Range(tasks) \cup {task}
      /\ \A v \in Worker : Range(local'[v]) \subseteq Range(local[v]) \cup {task}
      /\ \A v \in Worker \ {w} : at'[v] = at[v]
      /\ at'[w].cell = at[w].cell /\ at'[w].seen = at[w].seen
    BY <1>1, <1>2, <1>7, <1>8, PushTokens
<1>10. SeenIn(slot, Busy, d, at[w].seen)
    BY <1>4, <1>5, <1>6, SeenBelow
<1>11. InStacks' \subseteq InStacks \cup {task}
    BY <1>9 DEF InStacks
<1>12. ASSUME NEW t \in InStacks'
       PROVE  t \in InStacks \/ SeenIn(slot', Busy', t.cell, t.seen)
    BY <1>2, <1>3, <1>10, <1>11
<1>13. ASSUME NEW v \in Worker, at'[v].step \in {"eval", "push"}
       PROVE  Looks(v) /\ at'[v].cell = at[v].cell /\ at'[v].seen = at[v].seen
    BY <1>2, <1>9, <1>13 DEF Looks, Step
<1>14. \A x \in Lookers : Spared(x)
    BY <1>2, SparedAll
<1>. QED  BY <1>3, <1>12, <1>13, <1>14, SeenNext

(* A cell that is finished is installed and nothing is lost. *)
LEMMA FinishedSeen ==
    ASSUME CoreInv, SeenOK, phase = "build", UNCHANGED taskVars, NEW w \in Worker,
           NEW c \in Cells, NEW state, Finished(c), slot' = Installed(slot, c, state), Go(w, "up", c)
    PROVE  SeenOK'
<1>1. TypesOK /\ SlotsOK /\ Building
    BY DEF CoreInv, Building
<1>2. Working(c)
    BY PrefixOrder DEF Finished
<1>3. \A n \in Cells \ {Root} : slot[n] = "cell" => slot'[n] = "cell"
    <2>1. c # Root => slot[c] = "null"
        BY <1>1, <1>2 DEF SlotsOK
    <2>. QED  BY <1>1, <2>1, TypesFacts DEF Installed
<1>4. Busy' \subseteq Busy
    BY DEF Busy, Finished
<1>5. \A v \in Worker : at'[v].step \in {"eval", "push"} =>
          Looks(v) /\ at'[v].cell = at[v].cell /\ at'[v].seen = at[v].seen
    BY <1>1, GoSees DEF Looks, Step
<1>6. \A x \in Lookers : Spared(x)
    BY <1>3, SparedAll
<1>. QED  BY <1>1, <1>4, <1>5, <1>6, SeenQuiet

LEMMA EvalSeen ==
    ASSUME CoreInv, SeenOK, phase = "build", NEW w \in Worker, EvalInterval(w) \/ EvalLeaf(w),
           UNCHANGED <<phase, worked>>
    PROVE  SeenOK'
<1>1. TypesOK /\ Building /\ Unique
    BY DEF CoreInv, Building
<1>2. Cell(w) \in Cells /\ UNCHANGED taskVars
    BY <1>1, MarksAt DEF EvalInterval, EvalLeaf
<1>3. CASE EvalLeaf(w)
    <2>1. Finished(Cell(w))
        BY <1>3, EvalLeafStep
    <2>2. PICK state : slot' = Installed(slot, Cell(w), state) /\ Go(w, "up", Cell(w))
        BY <1>3 DEF EvalLeaf
    <2>. QED  BY <1>2, <2>1, <2>2, FinishedSeen
<1>4. CASE EvalInterval(w)
    <2>1. IF Step(w)' = "push" THEN Split(Cell(w)) ELSE Finished(Cell(w))
        BY <1>4, EvalIntervalStep
    <2>2. \/ Go(w, "push", Cell(w)) /\ slot' = slot
          \/ \E state : slot' = Installed(slot, Cell(w), state) /\ Go(w, "up", Cell(w))
        BY <1>4 DEF EvalInterval
    <2>3. CASE Go(w, "push", Cell(w)) /\ slot' = slot
        <3>1. /\ \A v \in Worker \ {w} : at'[v] = at[v]
              /\ at'[w].step = "push" /\ at'[w].cell = Cell(w) /\ at'[w].seen = at[w].seen
            BY <1>1, <2>3, GoSees
        <3>2. Keeps
            BY <2>1, <3>1 DEF Step, Split
        <3>3. Busy' = Busy
            BY <1>1, <3>2, BusyKeeps
        <3>4. Step(w) = "eval"
            BY <1>4 DEF EvalInterval
        <3>5. \A v \in Worker : at'[v].step \in {"eval", "push"} =>
                  Looks(v) /\ at'[v].cell = at[v].cell /\ at'[v].seen = at[v].seen
            BY <3>1, <3>4 DEF Looks, Step, Cell
        <3>6. \A x \in Lookers : Spared(x)
            BY <2>3, SparedAll
        <3>. QED  BY <1>1, <1>2, <3>3, <3>5, <3>6, SeenQuiet
    <2>4. CASE \E state : slot' = Installed(slot, Cell(w), state) /\ Go(w, "up", Cell(w))
        <3>1. PICK state : slot' = Installed(slot, Cell(w), state) /\ Go(w, "up", Cell(w))
            BY <2>4
        <3>2. at'[w].step = "up"
            BY <1>1, <3>1, GoSees
        <3>3. Finished(Cell(w))
            BY <2>1, <3>2 DEF Step
        <3>. QED  BY <1>2, <3>1, <3>3, FinishedSeen
    <2>. QED  BY <2>2, <2>3, <2>4
<1>. QED  BY <1>3, <1>4

LEMMA CollectSeen ==
    ASSUME CoreInv, SeenOK, phase = "build", NEW w \in Worker, Collect(w),
           UNCHANGED <<phase, worked>>
    PROVE  SeenOK'
<1>1. TypesOK /\ SlotsOK /\ Building /\ Unique
    BY DEF CoreInv, Building
<1>. DEFINE c == Cell(w)
            without == [d \in Cells |-> IF d \in ChildrenOf(c) THEN "null" ELSE slot[d]]
<1>2. c \in Cells
    BY <1>1, MarksAt
<1>3. Collected(c)
    BY CollectStep
<1>4. /\ Go(w, "up", c) /\ UNCHANGED taskVars
      /\ \E state : slot' = Installed(slot, c, state) \/ slot' = Installed(without, c, state)
    BY DEF Collect
<1>5. without = [d \in Cells |-> IF d \in ChildrenOf(c) THEN "null" ELSE slot[d]]
    OBVIOUS
<1>. HIDE DEF c, without
<1>6. c # Root => slot[c] = "null"
    BY <1>1, <1>2, <1>3 DEF SlotsOK, Collected, Drops
<1>7. \A n \in Cells \ {Root} : slot[n] = "cell" => slot'[n] = "cell" \/ n \in ChildrenOf(c)
    <2>1. SUFFICES ASSUME NEW n \in Cells \ {Root}, slot[n] = "cell", n \notin ChildrenOf(c)
                   PROVE  slot'[n] = "cell"
        OBVIOUS
    <2>2. without[n] = "cell"
        BY <1>5, <2>1
    <2>3. c = Root \/ n # c
        BY <1>6, <2>1
    <2>4. DOMAIN slot = Cells /\ DOMAIN without = Cells
        BY <1>1, <1>5, TypesFacts
    <2>5. \A slots, state : /\ DOMAIN slots = Cells /\ slots[n] = "cell"
                            /\ slot' = Installed(slots, c, state)
                            => slot'[n] = "cell"
        BY <2>1, <2>3 DEF Installed
    <2>. QED  BY <1>4, <2>1, <2>2, <2>4, <2>5
<1>8. \A x \in Lookers : Spared(x)
    BY <1>1, <1>3, <1>7, SparedCollect
<1>9. Tree = Cells
    BY <1>1, TreeFacts
<1>10. Busy' \subseteq Busy
    BY <1>3, <1>9 DEF Busy, Collected, Drops
<1>11. \A v \in Worker : at'[v].step \in {"eval", "push"} =>
           Looks(v) /\ at'[v].cell = at[v].cell /\ at'[v].seen = at[v].seen
    BY <1>1, <1>4, GoSees DEF Looks, Step
<1>. QED  BY <1>1, <1>4, <1>8, <1>10, <1>11, SeenQuiet

(* A worker that leaves, reports or joins looks at nothing. *)
LEMMA LoopSeen ==
    ASSUME CoreInv, SeenOK, phase = "build", NEW w \in Worker, Leave(w) \/ Up(w) \/ Join(w),
           UNCHANGED <<phase, worked>>
    PROVE  SeenOK'
<1>1. TypesOK /\ Building
    BY DEF CoreInv, Building
<1>2. Keeps
    BY LeaveStep, UpStep, JoinStep DEF Same
<1>3. Busy' = Busy
    BY <1>1, <1>2, BusyKeeps
<1>4. UNCHANGED taskVars /\ slot' = slot
    BY DEF Leave, Up, Join, cellVars
<1>5. PICK step, c : Go(w, step, c) /\ step \in {"exit", "collect", "loop", "joined"}
    BY DEF Leave, Up, Join
<1>6. \A v \in Worker : at'[v].step \in {"eval", "push"} =>
          Looks(v) /\ at'[v].cell = at[v].cell /\ at'[v].seen = at[v].seen
    BY <1>1, <1>5, GoSees DEF Looks, Step
<1>7. \A x \in Lookers : Spared(x)
    BY <1>4, SparedAll
<1>. QED  BY <1>1, <1>3, <1>4, <1>6, <1>7, SeenQuiet

LEMMA InitSeen ==
    ASSUME Init
    PROVE  SeenOK
<1>. DEFINE task == [cell |-> Root, seen |-> {}]
<1>1. tasks = <<task>> /\ local = [w \in Worker |-> <<>>] /\ at = [w \in Worker |-> Ready]
    BY DEF Init, PoolInit
<1>2. \A w \in Worker : ~Looks(w)
    BY <1>1 DEF Looks, Step, Ready
<1>. HIDE DEF task
<1>3. Range(tasks) = {task}
    <2>1. DOMAIN tasks = 1 .. 1 /\ tasks[1] = task
        BY <1>1
    <2>. QED  BY <2>1 DEF Range
<1>4. \A w \in Worker : Range(local[w]) = {}
    BY <1>1, StackEmpty
<1>5. InStacks = {task}
    BY <1>3, <1>4 DEF InStacks
<1>. QED  BY <1>2, <1>5 DEF SeenOK, SeenIn, task

LEMMA NextSeen ==
    ASSUME CoreInv, SeenOK, [Next]_vars
    PROVE  SeenOK'
<1>0. TypesOK /\ phase \in {"build", "walk", "end", "cancelled"} /\ cancel \in BOOLEAN
    BY DEF CoreInv, TypesOK
<1>1. CASE phase' # "build"
    BY <1>1 DEF SeenOK
<1>2. CASE phase' = "build"
    <2>1. phase = "build"
        BY <1>2 DEF Next, Main, WorkerStep, StartWalk, GiveUp, EndWalk, vars
    <2>2. CASE \E w \in Worker : WorkerStep(w)
        <3>1. PICK w \in Worker : PoolStep(w) /\ UNCHANGED <<phase, worked>>
            BY <2>1, <2>2 DEF WorkerStep
        <3>. QED  BY <2>1, <3>1, TakeSeen, PushChildSeen, EvalSeen, CollectSeen, LoopSeen
                     DEF PoolStep
    <2>3. CASE ~\E w \in Worker : WorkerStep(w)
        <3>1. /\ UNCHANGED <<shape, type, slot, allocated, pending, tasks, local, at, done, worked, phase>>
              /\ cancel' = cancel \/ cancel' = TRUE
            BY <1>2, <2>1, <2>3 DEF Next, Main, Spin, Cancel, StartWalk, GiveUp, EndWalk, vars,
                                    cellVars, taskVars, flagVars
        <3>2. Building /\ Building'
            BY <1>2, <2>1 DEF Building
        <3>3. Keeps
            BY <1>0, <3>1, <3>2, StillStep DEF Same
        <3>4. Busy' = Busy
            BY <1>0, <3>2, <3>3, BusyKeeps
        <3>5. \A x \in Lookers : Spared(x)
            BY <3>1, SparedAll
        <3>6. UNCHANGED taskVars /\ at' = at
            BY <3>1 DEF taskVars
        <3>7. \A v \in Worker : at'[v].step \in {"eval", "push"} =>
                  Looks(v) /\ at'[v].cell = at[v].cell /\ at'[v].seen = at[v].seen
            BY <3>6 DEF Looks, Step
        <3>. QED  BY <1>0, <2>1, <3>4, <3>5, <3>6, <3>7, SeenQuiet
    <2>. QED  BY <2>2, <2>3
<1>. QED  BY <1>1, <1>2

-----------------------------------------------------------------------------
(* The pools: what a worker has released and not handed out again            *)

(* A cell in a pool was made and is not allocated; it is in one pool.  What  *)
(* a worker goes up from is allocated or in its own pool.                    *)
ReusableOK ==
    /\ reusable \in [Worker -> SUBSET Cells]
    /\ \A w \in Worker : reusable[w] \cap allocated = {}
    /\ \A v, w \in Worker : v # w => reusable[v] \cap reusable[w] = {}
    /\ Building =>
          /\ \A w \in Worker : \A c \in reusable[w] : Born(c)
          /\ \A w \in Worker : Step(w) = "up" => Cell(w) \in allocated \cup reusable[w]

BornStay == \A x \in Cells : Born(x) => Born(x)'

LEMMA ReusableSame ==
    ASSUME ReusableOK, Building' = Building, UNCHANGED <<allocated, reusable>>,
           Building => BornStay,
           \A v \in Worker : Building /\ at'[v].step = "up" =>
               at[v].step = "up" /\ at'[v].cell = at[v].cell
    PROVE  ReusableOK'
BY DEF ReusableOK, BornStay, Step, Cell

(* A worker goes up, and releases cells that it alone is at. *)
LEMMA ReusableMore ==
    ASSUME TypesOK, ReusableOK, Building, NEW w \in Worker, NEW gone,
           Released(w, gone), gone \subseteq allocated \ {Root}, BornStay,
           \A x \in gone : Born(x),
           \A v \in Worker \ {w} :
               at'[v] = at[v] /\ (Step(v) = "up" => Cell(v) \notin gone),
           at'[w].cell \in allocated
    PROVE  ReusableOK'
<1>1. /\ reusable' = [reusable EXCEPT ![w] = @ \cup gone] /\ allocated' = allocated \ gone
      /\ reusable \in [Worker -> SUBSET Cells] /\ gone \subseteq Cells
    BY TypesFacts DEF Released, ReusableOK
<1>2. /\ reusable' \in [Worker -> SUBSET Cells]
      /\ reusable'[w] = reusable[w] \cup gone
      /\ \A v \in Worker \ {w} : reusable'[v] = reusable[v]
    BY <1>1
<1>3. /\ \A v \in Worker : reusable[v] \cap allocated = {}
      /\ \A u, v \in Worker : u # v => reusable[u] \cap reusable[v] = {}
    BY DEF ReusableOK
<1>4. \A v \in Worker : reusable'[v] \cap allocated' = {}
    BY <1>1, <1>2, <1>3
<1>5. \A u, v \in Worker : u # v => reusable'[u] \cap reusable'[v] = {}
    BY <1>1, <1>2, <1>3
<1>6. \A v \in Worker : \A c \in reusable'[v] : Born(c)'
    BY <1>1, <1>2 DEF ReusableOK, BornStay
<1>7. \A v \in Worker : Step(v)' = "up" => Cell(v)' \in allocated' \cup reusable'[v]
    <2>1. Cell(w)' \in allocated' \cup reusable'[w]
        BY <1>1, <1>2 DEF Cell
    <2>2. \A v \in Worker \ {w} : Step(v)' = "up" => Cell(v)' \in allocated' \cup reusable'[v]
        BY <1>1, <1>2 DEF ReusableOK, Step, Cell
    <2>. QED  BY <2>1, <2>2
<1>. QED  BY <1>2, <1>4, <1>5, <1>6, <1>7 DEF ReusableOK

(* A cell that is handed out was in no pool: it gets the memory of one that  *)
(* was, or fresh memory.                                                     *)
LEMMA PushChildReusable ==
    ASSUME CoreInv, MemoryInv, ReusableOK, phase = "build", NEW w \in Worker, PushChild(w),
           UNCHANGED <<phase, worked>>
    PROVE  ReusableOK'
<1>1. TypesOK /\ Building /\ Building'
    BY DEF CoreInv, Building
<1>. DEFINE d == Append(Cell(w), at[w].next)
<1>2. HandedOut(d)
    BY PushChildStep
<1>3. /\ allocated' = allocated \cup {d} /\ Reuse(w) /\ Step(w) = "push"
      /\ IF at[w].next < Arity THEN at' = [at EXCEPT ![w].next = @ + 1]
         ELSE Go(w, "loop", Cell(w))
    BY DEF PushChild
<1>. HIDE DEF d
<1>4. BornStay /\ ~Born(d)
    BY <1>2 DEF HandedOut, Born, BornStay
<1>5. /\ reusable' \in [Worker -> SUBSET Cells]
      /\ \A v \in Worker : reusable'[v] \subseteq reusable[v]
      /\ \A v \in Worker \ {w} : reusable'[v] = reusable[v]
    <2>1. reusable \in [Worker -> SUBSET Cells]
        BY DEF ReusableOK
    <2>2. CASE reusable' = reusable
        BY <2>1, <2>2
    <2>3. CASE \E old \in reusable[w] : reusable' = [reusable EXCEPT ![w] = @ \ {old}]
        BY <2>1, <2>3
    <2>. QED  BY <1>3, <2>2, <2>3 DEF Reuse
<1>6. \A v \in Worker : d \notin reusable[v]
    BY <1>1, <1>4 DEF ReusableOK
<1>7. (\A v \in Worker \ {w} : at'[v] = at[v]) /\ at'[w].step # "up"
    <2>1. CASE at' = [at EXCEPT ![w].next = @ + 1]
        BY <1>1, <1>3, <2>1, TypesFacts DEF Spots, Step
    <2>2. CASE Go(w, "loop", Cell(w))
        BY <1>1, <2>2, GoOnly
    <2>. QED  BY <1>3, <2>1, <2>2
<1>8. \A v \in Worker : reusable'[v] \cap allocated' = {}
    BY <1>3, <1>5, <1>6 DEF ReusableOK
<1>9. \A u, v \in Worker : u # v => reusable'[u] \cap reusable'[v] = {}
    BY <1>5 DEF ReusableOK
<1>10. \A v \in Worker : \A c \in reusable'[v] : Born(c)'
    BY <1>1, <1>4, <1>5 DEF ReusableOK, BornStay
<1>11. \A v \in Worker : Step(v)' = "up" => Cell(v)' \in allocated' \cup reusable'[v]
    BY <1>1, <1>3, <1>5, <1>7 DEF ReusableOK, Step, Cell
<1>. QED  BY <1>5, <1>8, <1>9, <1>10, <1>11 DEF ReusableOK

(* A cell that is finished is made, and nobody goes up from it yet. *)
LEMMA FinishedReusable ==
    ASSUME CoreInv, MemoryInv, ReusableOK, Building, NEW w \in Worker, NEW c \in Cells,
           Finished(c), NEW state, Released(w, Given(c, state)), Go(w, "up", c)
    PROVE  ReusableOK'
<1>1. TypesOK /\ MarksOK /\ Unique /\ AllocatedOK
    BY DEF CoreInv, MemoryInv
<1>2. Working(c) /\ Born(c)
    BY <1>1, MarkedIsBorn, PrefixOrder DEF Finished
<1>3. c \in allocated
    BY <1>1, <1>2 DEF AllocatedOK
<1>4. BornStay
    BY DEF BornStay, Born, Finished
<1>5. \A v \in Worker : Step(v) = "up" => Cell(v) # c
    BY <1>1, MarksAt, MarksFacts DEF Finished
<1>6. Given(c, state) \subseteq allocated \ {Root} /\ Given(c, state) \subseteq {c}
    BY <1>3 DEF Given
<1>7. (\A v \in Worker \ {w} : at'[v] = at[v]) /\ at'[w].cell = c
    BY <1>1, TypesFacts DEF Go, Spots
<1>. DEFINE gone == Given(c, state)
<1>8. /\ gone \subseteq allocated \ {Root} /\ Released(w, gone) /\ \A x \in gone : Born(x)
      /\ \A v \in Worker \ {w} : at'[v] = at[v] /\ (Step(v) = "up" => Cell(v) \notin gone)
    BY <1>2, <1>5, <1>6, <1>7
<1>. HIDE DEF gone
<1>. QED  BY <1>1, <1>3, <1>4, <1>7, <1>8, ReusableMore

LEMMA EvalReusable ==
    ASSUME CoreInv, MemoryInv, ReusableOK, phase = "build", NEW w \in Worker,
           EvalLeaf(w) \/ EvalInterval(w), UNCHANGED <<phase, worked>>
    PROVE  ReusableOK'
<1>1. TypesOK /\ MarksOK /\ Unique /\ Building /\ Building' = Building
    BY DEF CoreInv, Building
<1>. DEFINE c == Cell(w)
<1>2. c \in Cells
    BY <1>1, MarksAt
<1>3. CASE EvalLeaf(w)
    <2>1. \E state : Released(w, Given(c, state)) /\ Go(w, "up", c)
        BY <1>3 DEF EvalLeaf
    <2>2. Finished(c)
        BY <1>3, EvalLeafStep
    <2>. HIDE DEF c
    <2>. QED  BY <1>1, <1>2, <2>1, <2>2, FinishedReusable
<1>4. CASE EvalInterval(w)
    <2>1. IF Step(w)' = "push" THEN Split(c) ELSE Finished(c)
        BY <1>4, EvalIntervalStep
    <2>2. \/ Go(w, "push", c) /\ UNCHANGED <<allocated, reusable>>
          \/ \E state : Released(w, Given(c, state)) /\ Go(w, "up", c)
        BY <1>4 DEF EvalInterval
    <2>. HIDE DEF c
    <2>3. CASE Go(w, "push", c) /\ UNCHANGED <<allocated, reusable>>
        <3>1. (\A v \in Worker \ {w} : at'[v] = at[v]) /\ at'[w].step = "push"
            BY <1>1, <2>3, GoOnly
        <3>2. Split(c)
            BY <2>1, <3>1 DEF Step
        <3>3. BornStay
            BY <1>1, <1>2, <3>2, SplitBorn DEF BornStay
        <3>. QED  BY <1>1, <2>3, <3>1, <3>3, ReusableSame
    <2>4. CASE \E state : Released(w, Given(c, state)) /\ Go(w, "up", c)
        <3>1. at'[w].step = "up"
            BY <1>1, <2>4, GoOnly
        <3>2. Finished(c)
            BY <2>1, <3>1 DEF Step
        <3>. QED  BY <1>1, <1>2, <2>4, <3>2, FinishedReusable
    <2>. QED  BY <2>2, <2>3, <2>4
<1>. QED  BY <1>3, <1>4

(* A cell that is collected may give its children back: they are made, and  *)
(* nobody is at them.                                                       *)
LEMMA CollectReusable ==
    ASSUME CoreInv, MemoryInv, ReusableOK, phase = "build", NEW w \in Worker, Collect(w),
           UNCHANGED <<phase, worked>>
    PROVE  ReusableOK'
<1>1. TypesOK /\ MarksOK /\ Unique /\ AllocatedOK /\ Building
    BY DEF CoreInv, MemoryInv, Building
<1>. DEFINE c == Cell(w)
            own == {d \in ChildrenOf(c) : slot[d] = "cell"}
<1>2. Collected(c)
    BY CollectStep
<1>3. \E state : \E some \in {{}, own} : Released(w, some \cup Given(c, state))
    <2>. DEFINE Gives(some, state) == Released(w, some \cup Given(c, state))
    <2>1. \/ Gives({}, "ambiguous") \/ Gives({}, "empty") \/ Gives({}, "filled")
          \/ Gives(own, "ambiguous")
        BY DEF Collect
    <2>. HIDE DEF Gives, own, c
    <2>2. \E state : \E some \in {{}, own} : Gives(some, state)
        BY <2>1
    <2>. QED  BY <2>2 DEF Gives
<1>4. Step(w) = "collect" /\ Go(w, "up", c)
    BY DEF Collect
<1>5. c \in Cells /\ c \in Late /\ c \notin Leaves /\ Working(c) /\ c \in Own(w)
    BY <1>1, <1>4, CollectedCell, MarksAt DEF Own
<1>6. \A v \in Worker \ {w} : Step(v) = "up" => Cell(v) # c
    BY <1>1, <1>5, OwnedAlone, MarksAt DEF Own
<1>. HIDE DEF c
<1>7. Born(c) /\ c \in allocated
    <2>1. Born(c)
        BY <1>1, <1>5, MarkedIsBorn
    <2>. QED  BY <1>1, <1>5, <2>1 DEF AllocatedOK
<1>8. BornStay
    BY <1>2 DEF BornStay, Born, Collected
<1>9. ASSUME NEW d \in ChildrenOf(c)
      PROVE  d \in Cells \ {Root} /\ Born(d) /\ \A v \in Worker : Step(v) = "up" => Cell(v) # d
    <2>1. d \in Cells /\ d # Root /\ Front(d) = c /\ IsStrictPrefix(c, d)
        BY <1>5, <1>9, ChildProperties
    <2>2. /\ \A m, n \in Early \cup Late : IsPrefix(m, n) => m = n
          /\ Early \cap Late = {} /\ Early \subseteq Cells
        BY <1>1, MarksFacts, TreeFacts
    <2>3. d \notin Early /\ d \notin Late
        BY <1>5, <2>1, <2>2 DEF IsStrictPrefix
    <2>4. d \notin Pushing
        BY <1>1, <2>3, PushingIsEarly
    <2>5. ASSUME NEW m \in Early, IsStrictPrefix(m, d) PROVE FALSE
        <3>1. IsPrefix(m, c)
            BY <2>1, <2>2, <2>5, AboveIsAboveParent
        <3>. QED  BY <1>5, <2>2, <3>1
    <2>6. \A v \in Worker : Step(v) = "up" => Cell(v) # d
        BY <1>1, <2>3, MarksAt
    <2>. QED  BY <2>1, <2>4, <2>5, <2>6 DEF Born
<1>3a. PICK state : \E some \in {{}, own} : Released(w, some \cup Given(c, state))
    BY <1>3
<1>10. PICK some \in {{}, own} : Released(w, some \cup Given(c, state))
    BY <1>3a
<1>. DEFINE gone == some \cup Given(c, state)
<1>11. own \subseteq allocated \ {Root} /\ own \subseteq ChildrenOf(c)
    BY <1>1, <1>9 DEF AllocatedOK
<1>12. gone \subseteq allocated \ {Root} /\ gone \subseteq ChildrenOf(c) \cup {c}
    BY <1>7, <1>11 DEF Given
<1>13. Released(w, gone)
    BY <1>10
<1>14. (\A v \in Worker \ {w} : at'[v] = at[v]) /\ at'[w].cell = c
    BY <1>1, <1>4, TypesFacts DEF Go, Spots
<1>. HIDE DEF gone, own
<1>15. /\ \A x \in gone : Born(x)
       /\ \A v \in Worker \ {w} : at'[v] = at[v] /\ (Step(v) = "up" => Cell(v) \notin gone)
    BY <1>6, <1>7, <1>9, <1>12, <1>14
<1>. QED  BY <1>1, <1>7, <1>8, <1>12, <1>13, <1>14, <1>15, ReusableMore

(* The pool of a worker that joins is claimed by the root. *)
LEMMA JoinReusable ==
    ASSUME CoreInv, ReusableOK, NEW w \in Worker, Join(w), UNCHANGED <<phase, worked>>
    PROVE  ReusableOK'
<1>1. TypesOK /\ Building' = Building
    BY DEF CoreInv, Building
<1>2. /\ reusable' = [reusable EXCEPT ![w] = {}] /\ allocated' = allocated
      /\ Go(w, "joined", Cell(w))
    BY DEF Join, cellVars
<1>3. (\A v \in Worker \ {w} : at'[v] = at[v]) /\ at'[w].step = "joined"
    BY <1>1, <1>2, GoOnly
<1>4. Same
    BY JoinStep
<1>5. \A x : Born(x)' <=> Born(x)
    BY <1>4 DEF Same, Born
<1>6. /\ reusable' \in [Worker -> SUBSET Cells] /\ reusable'[w] = {}
      /\ \A v \in Worker \ {w} : reusable'[v] = reusable[v]
    BY <1>2 DEF ReusableOK
<1>. QED  BY <1>1, <1>2, <1>3, <1>5, <1>6 DEF ReusableOK, Step, Cell

LEMMA InitReusable == Init => ReusableOK
BY DEF Init, PoolInit, Ready, ReusableOK, Step

(* A step that neither hands out nor releases a cell. *)
LEMMA ReusableQuiet ==
    ASSUME ReusableOK, Building' = Building, UNCHANGED <<allocated, reusable>>, Building => Same,
           \A v \in Worker : Building /\ at'[v].step = "up" =>
               at[v].step = "up" /\ at'[v].cell = at[v].cell
    PROVE  ReusableOK'
<1>1. Building => BornStay
    BY DEF Same, Born, BornStay
<1>. QED  BY <1>1, ReusableSame

LEMMA NextReusable ==
    ASSUME CoreInv, MemoryInv, ReusableOK, [Next]_vars
    PROVE  ReusableOK'
<1>0. TypesOK /\ phase \in {"build", "walk", "end", "cancelled"} /\ cancel \in BOOLEAN
    BY DEF CoreInv, TypesOK
<1>1. CASE \E w \in Worker : WorkerStep(w)
    <2>1. PICK w \in Worker : WorkerStep(w)
        BY <1>1
    <2>2. phase' = phase /\ Building' = Building
        BY <2>1 DEF WorkerStep, Building
    <2>3. CASE phase = "build" /\ PoolStep(w) /\ UNCHANGED worked
        <3>1. CASE Leave(w) \/ Take(w) \/ Up(w)
            <4>1. Same
                BY <2>2, <2>3, <3>1, LeaveStep, TakeStep, UpStep
            <4>2. UNCHANGED <<allocated, reusable>>
                BY <3>1 DEF Leave, Take, Up, cellVars, poolVars
            <4>3. (\A v \in Worker \ {w} : at'[v] = at[v]) /\ at'[w].step # "up"
                <5>1. CASE Take(w)
                    <6>1. PICK task \in Task : TakeInto(w, task)
                        BY <1>0, <5>1, TakeTokens DEF CoreInv
                    <6>. QED  BY <1>0, <6>1, TypesFacts DEF TakeInto, Spots
                <5>2. CASE Leave(w) \/ Up(w)
                    <6>1. PICK step, c : Go(w, step, c) /\ step # "up"
                        BY <5>2 DEF Leave, Up
                    <6>. QED  BY <1>0, <6>1, GoOnly
                <5>. QED  BY <3>1, <5>1, <5>2
            <4>. QED  BY <2>2, <4>1, <4>2, <4>3, ReusableQuiet
        <3>. QED  BY <2>2, <2>3, <3>1, EvalReusable, PushChildReusable, CollectReusable,
                     JoinReusable DEF PoolStep
    <2>4. CASE phase = "walk" /\ WalkStep(w)
        <3>1. ~Building
            BY <2>4 DEF Building
        <3>2. CASE Join(w) /\ UNCHANGED worked
            BY <2>2, <3>2, JoinReusable
        <3>3. CASE ~(Join(w) /\ UNCHANGED worked)
            <4>1. UNCHANGED <<allocated, reusable>>
                BY <2>4, <3>3 DEF WalkStep, Leave, Take, Visit, PushBranch, Up, Work,
                                  cellVars, poolVars
            <4>. QED  BY <2>2, <3>1, <4>1, ReusableQuiet
        <3>. QED  BY <3>2, <3>3
    <2>. QED  BY <2>1, <2>3, <2>4 DEF WorkerStep
<1>2. CASE StartWalk
    <2>1. ~Building' /\ UNCHANGED <<allocated, reusable>>
        BY <1>2 DEF StartWalk, Building, cellVars, poolVars
    <2>. QED  BY <2>1 DEF ReusableOK
<1>3. ASSUME UNCHANGED <<shape, type, slot, allocated, reusable, pending, tasks, local, at,
                         done, worked>>,
             Building' = Building, phase' \in {"build", "walk", "end", "cancelled"},
             cancel' \in BOOLEAN, cancel => cancel'
      PROVE  ReusableOK'
    <2>1. Same
        BY <1>3, StillStep
    <2>2. UNCHANGED <<allocated, reusable>> /\ at' = at
        BY <1>3
    <2>. QED  BY <1>3, <2>1, <2>2, ReusableQuiet
<1>4. CASE \E w \in Worker : Spin(w) /\ UNCHANGED <<phase, worked>>
    BY <1>0, <1>3, <1>4 DEF Spin, Building, cellVars, taskVars, flagVars, poolVars
<1>5. CASE Cancel /\ UNCHANGED <<phase, worked>>
    BY <1>0, <1>3, <1>5 DEF Cancel, Building, cellVars, taskVars, poolVars
<1>6. CASE GiveUp \/ EndWalk
    BY <1>0, <1>3, <1>6 DEF GiveUp, EndWalk, Building, cellVars, taskVars, flagVars, poolVars
<1>7. CASE UNCHANGED vars
    BY <1>0, <1>3, <1>7 DEF vars, Building, cellVars, taskVars, flagVars, poolVars
<1>. QED  BY <1>1, <1>2, <1>4, <1>5, <1>6, <1>7 DEF Next, Main

(* A cell that a task or a worker is at is made and not given back. *)
LEMMA HeldIsAllocated ==
    ASSUME CoreInv, AllocatedOK, Building, NEW c \in Cells, Working(c), Born(c)
    PROVE  c \in allocated
BY DEF AllocatedOK

(* The parent of the cell that a worker goes up from is not released. *)
LEMMA ParentIsAllocated ==
    ASSUME CoreInv, AllocatedOK, Building, NEW w \in Worker, Step(w) = "up", Cell(w) # Root
    PROVE  Front(Cell(w)) \in allocated
<1>1. TypesOK /\ MarksOK /\ Unique
    BY DEF CoreInv
<1>. DEFINE c == Cell(w)
            p == Front(c)
<1>2. c \in Cells /\ c \in Rising /\ c \in Late
    BY <1>1, MarksAt
<1>3. p \in Cells /\ IsStrictPrefix(p, c)
    BY <1>2, ParentProperties
<1>. HIDE DEF c
<1>4. Working(p)
    BY <1>1, <1>2, ReportingParent DEF Working, MarksOK, c
<1>. HIDE DEF p
<1>5. /\ \A m, n \in Early \cup Late : IsPrefix(m, n) => m = n
      /\ Early \cap Late = {} /\ Early \subseteq Cells
    BY <1>1, MarksFacts, TreeFacts
<1>6. \A m \in Early : ~IsPrefix(m, p)
    BY <1>2, <1>3, <1>5, PrefixOrder DEF IsStrictPrefix
<1>7. p \notin Pushing
    BY <1>1, <1>3, <1>6, PushingIsEarly, PrefixOrder
<1>8. Born(p)
    BY <1>6, <1>7 DEF Born, IsStrictPrefix
<1>9. p \in allocated
    BY <1>3, <1>4, <1>8, HeldIsAllocated
<1>. QED  BY <1>9 DEF p, c

(* dc_tree.inl: "the pool won't change it until we're done operating on it": *)
(* a worker that goes up reads a cell that is not released, or that is in   *)
(* its own pool and not handed out again, and its parent is not released.   *)
(* No other cell that a task, a worker, a parent or a neighbour looks at is *)
(* in a pool, and none is in two.                                           *)
THEOREM PoolsChangeNothingInUse == Spec => []NothingUsedAfterReuse
<1>1. Init => SeenOK /\ ReusableOK
    BY InitSeen, InitReusable
<1>2. CoreInv /\ MemoryInv /\ SeenOK /\ ReusableOK /\ [Next]_vars => SeenOK' /\ ReusableOK'
    BY NextSeen, NextReusable
<1>3. CoreInv /\ MemoryInv /\ SeenOK /\ ReusableOK => NothingUsedAfterReuse
    <2>1. SUFFICES ASSUME CoreInv, MemoryInv, SeenOK, ReusableOK PROVE NothingUsedAfterReuse
        OBVIOUS
    <2>2. TypesOK /\ Unique /\ MarksOK /\ SlotsOK /\ AllocatedOK
        BY <2>1 DEF CoreInv, MemoryInv
    <2>3. \A c \in Cells : slot[c] = "cell" => c \in allocated
        BY <2>2 DEF AllocatedOK, SlotsOK
    <2>4. SUFFICES ASSUME phase = "build"
                   PROVE  /\ \A w \in Worker :
                                /\ Step(w) \in {"eval", "push", "collect"} => Cell(w) \in allocated
                                /\ Step(w) \in {"eval", "push"} => at[w].seen \subseteq allocated
                                /\ Step(w) = "up" /\ Cell(w) # Root =>
                                      Front(Cell(w)) \in allocated
                          /\ \A task \in InStacks :
                                task.cell \in allocated /\ task.seen \subseteq allocated
        BY <2>1, <2>3 DEF NothingUsedAfterReuse, ReusableOK, Building
    <2>5. Building /\ Tree = Cells
        BY <2>2, <2>4, TreeFacts DEF Building
    <2>6. \A c, seen : SeenIn(slot, Busy, c, seen) => seen \subseteq allocated
        BY <2>3 DEF SeenIn
    <2>7. ASSUME NEW c \in Early, c \notin Pushing PROVE c \in allocated
        <3>1. c \in Cells /\ IsPrefix(c, c) /\ MarksIn(Tree, Early, Late, Rising)
            BY <2>2, <2>5, MarksFacts, PrefixOrder
        <3>2. Working(c)
            BY <2>5, <2>7, <3>1, EarlyMarkAlone DEF Working
        <3>3. Born(c)
            BY <2>2, <2>5, <2>7, MarkedIsBorn
        <3>. QED  BY <2>1, <2>2, <2>5, <3>1, <3>2, <3>3, HeldIsAllocated
    <2>8. \A v \in Worker : PushingOf(v) \subseteq Own(v)
        BY DEF PushingOf, Own, EarlyOf
    <2>9. ASSUME NEW w \in Worker, Step(w) = "eval" PROVE Cell(w) \in allocated
        <3>1. Cell(w) \in Own(w) /\ Cell(w) \in Early
            BY <2>2, <2>5, <2>9, MarksAt DEF Own, Early
        <3>2. PushingOf(w) = {} /\ \A v \in Worker \ {w} : Cell(w) \notin Own(v)
            BY <2>2, <2>9, <3>1, OwnedAlone DEF PushingOf
        <3>3. Cell(w) \notin Pushing
            BY <2>8, <3>2 DEF Pushing
        <3>. QED  BY <2>7, <3>1, <3>3
    <2>10. ASSUME NEW w \in Worker, Step(w) = "push" PROVE Cell(w) \in allocated
        <3>. DEFINE c == Cell(w)
                    m == Append(c, Arity)
        <3>1. m \in Early /\ IsStrictPrefix(c, m) /\ c \in Cells
            BY <2>2, <2>5, <2>10, LastUnpushed, MarksAt
        <3>. HIDE DEF c, m
        <3>2. Working(c)
            BY <2>2, <3>1, AboveMarks
        <3>3. /\ \A x, y \in Early : IsPrefix(x, y) => x = y
              /\ Early \subseteq Cells
            BY <2>2, <2>5, MarksFacts
        <3>4. \A x \in Early : ~IsPrefix(x, c)
            <4>1. SUFFICES ASSUME NEW x \in Early, IsPrefix(x, c) PROVE FALSE
                OBVIOUS
            <4>2. IsPrefix(x, m) /\ m \in Cells
                BY <3>1, <3>3, <4>1, PrefixOrder DEF IsStrictPrefix
            <4>3. x = m
                BY <3>1, <3>3, <4>2
            <4>. QED  BY <3>1, <4>1, <4>2, <4>3, PrefixOrder DEF IsStrictPrefix
        <3>5. c \notin Pushing
            BY <2>2, <2>5, <3>1, <3>4, PushingIsEarly, PrefixOrder
        <3>6. Born(c)
            BY <3>4, <3>5 DEF Born, IsStrictPrefix
        <3>7. c \in allocated
            BY <2>1, <2>2, <2>5, <3>1, <3>2, <3>6, HeldIsAllocated
        <3>. QED  BY <3>7 DEF c
    <2>11. ASSUME NEW w \in Worker, Step(w) = "collect" PROVE Cell(w) \in allocated
        <3>1. Cell(w) \in Cells /\ Cell(w) \in Late /\ Working(Cell(w))
            BY <2>2, <2>11, CollectedCell
        <3>2. Born(Cell(w))
            BY <2>2, <2>5, <3>1, MarkedIsBorn
        <3>. QED  BY <2>1, <2>2, <2>5, <3>1, <3>2, HeldIsAllocated
    <2>12. ASSUME NEW task \in InStacks PROVE task.cell \in allocated
        <3>1. task.cell \in Early
            BY <2>2, <2>5, <2>12, WaitsInStack, WaitingAreCells DEF Early
        <3>2. \A v \in Worker : task.cell \notin Own(v)
            BY <2>2, <2>12, OwnedAlone
        <3>3. task.cell \notin Pushing
            BY <2>8, <3>2 DEF Pushing
        <3>. QED  BY <2>7, <3>1, <3>3
    <2>13. ASSUME NEW w \in Worker, Step(w) \in {"eval", "push"} PROVE at[w].seen \subseteq allocated
        BY <2>1, <2>4, <2>6, <2>13 DEF SeenOK, Looks
    <2>14. ASSUME NEW task \in InStacks PROVE task.seen \subseteq allocated
        BY <2>1, <2>4, <2>6, <2>14 DEF SeenOK
    <2>15. ASSUME NEW w \in Worker, Step(w) = "up", Cell(w) # Root
           PROVE  Front(Cell(w)) \in allocated
        BY <2>1, <2>2, <2>5, <2>15, ParentIsAllocated
    <2>. QED  BY <2>9, <2>10, <2>11, <2>12, <2>13, <2>14, <2>15
<1>. QED  BY <1>1, <1>2, <1>3, MemoryInvariant, PTL DEF Spec
=============================================================================
