---------------------------- MODULE ViewModelProofs ----------------------------
(***************************************************************************)
(* Proofs about ViewModel: a replica on its own, where any transaction may *)
(* fail.  Its user creates, removes, connects and disconnects nodes and    *)
(* opens documents; what is on the screen and what is in the tables stay   *)
(* together and, if no cycle is drawn, no call stops the program.          *)
(*                                                                         *)
(* LocalInv says for every stage of the life of a node what the tables     *)
(* hold of it, and that the graph is what the tables hold of the document  *)
(* that is open, but for nodes whose removal failed.                       *)
(***************************************************************************)
EXTENDS ViewModel, WellFoundedInduction, TLAPS

(* One replica.  Updates are left out: Graph::access writes to the wrong    *)
(* node.                                                                    *)
Alone ==
    /\ \E r \in Replica : Replica = {r}
    /\ Calls \cap {"update", "peer"} = {}

(* The edges that are drawn have no cycle and no endless path: subTreeOf()  *)
(* would not come back.                                                     *)
NoCycles ==
    \A S \in SUBSET NodeId : S # {} =>
        /\ \E x \in S : \A y \in S : <<x, y>> \notin Drawable
        /\ \E y \in S : \A x \in S : <<x, y>> \notin Drawable

-----------------------------------------------------------------------------
(* The invariant *)

NodeRow(now) ==
    [entity: NodeId, type: {"Sphere", "SetOperation"}, document: Document,
     timestamp: 0 .. now, deleted: BOOLEAN]

PairRow(now) ==
    [entity: NodeId, entity_to: NodeId, timestamp: 0 .. now, deleted: BOOLEAN]

ValueRow(now) ==
    [entity: NodeId, val: Value, timestamp: 0 .. now, deleted: BOOLEAN]

Tables(now) ==
    [document: Seq(NodeRow(now)), edge: SUBSET PairRow(now),
     store: [Attribute -> SUBSET ValueRow(now)]]

Graphs == [nodes: Seq(Nodes), edges: SUBSET (NodeId \X NodeId)]

LocalTypes ==
    /\ clock \in 0 .. MaxTime
    /\ db \in [Replica -> Tables(clock)]
    /\ open \in [Replica -> Document \cup {NoDocument}]
    /\ graph \in [Replica -> Graphs]
    /\ crashed \subseteq Replica
    /\ inbox = [r \in Replica |-> <<>>]
    /\ stage \in [NodeId -> {"unused", "partial", "created", "removed"}]

Names(n) == ToSet(Attributes(Kind[n]))

NodeRows(tables) == ToSet(tables.document)

Shown(tables, n) == {x \in NodeRows(tables) : x.entity = n /\ ~x.deleted}

Written(tables, a, n) == {x \in tables.store[a] : x.entity = n}

(* What the tables hold of a node, by how far its life has come.            *)
UnusedOK(tables, n) ==
    /\ \A x \in NodeRows(tables) : x.entity # n
    /\ \A a \in Attribute : Written(tables, a, n) = {}
    /\ \A x \in tables.edge : x.entity # n /\ x.entity_to # n

PartialOK(tables, n) == \E a \in Names(n) : Written(tables, a, n) = {}

CreatedOK(tables, n) ==
    /\ Shown(tables, n) # {}
    /\ \A a \in Names(n) : \E x \in Written(tables, a, n) :
          Written(tables, a, n) = {x} /\ ~x.deleted

LifeOK(tables, life) ==
    \A n \in NodeId :
        /\ life[n] = "unused" => UnusedOK(tables, n)
        /\ life[n] = "partial" => PartialOK(tables, n)
        /\ life[n] = "created" => CreatedOK(tables, n)
        /\ life[n] = "removed" => Shown(tables, n) = {}
        /\ \A x, y \in Shown(tables, n) :
              x.type = Kind[n] /\ x.document = y.document

(* One row for a pair of nodes, and only for pairs that are drawn.          *)
PairsOK(tables) ==
    \A x \in tables.edge :
        /\ <<x.entity, x.entity_to>> \in Drawable
        /\ \A y \in tables.edge :
              x.entity = y.entity /\ x.entity_to = y.entity_to => x = y

Linked(tables, a, b) ==
    \E x \in tables.edge : x.entity = a /\ x.entity_to = b /\ ~x.deleted

IsIn(tables, n, d) == \E row \in Shown(tables, n) : row.document = d

NodesOK(tables, d, g, life) ==
    /\ \A x \in ToSet(g.nodes) :
          /\ life[x.id] \in {"created", "removed"}
          /\ life[x.id] = "created" =>
                /\ \A row \in Shown(tables, x.id) : row.document = d
                /\ \A a \in Names(x.id) : \A y \in Written(tables, a, x.id) :
                      x.attr[a] = y.val
    /\ \A n \in NodeId : life[n] = "created" /\ IsIn(tables, n, d) => n \in Ids(g)

LinksOK(tables, g) ==
    /\ g.edges \subseteq Drawable \cap (Ids(g) \X Ids(g))
    /\ \A a, b \in Ids(g) : <<a, b>> \in g.edges <=> Linked(tables, a, b)

LocalOK(tables, life, d, g) ==
    /\ LifeOK(tables, life)
    /\ PairsOK(tables)
    /\ IF d = NoDocument THEN g = EmptyGraph
       ELSE NodesOK(tables, d, g, life) /\ LinksOK(tables, g)

(* A call that stops the replica has changed the tables and not the graph.  *)
LocalInv ==
    /\ LocalTypes
    /\ \A r \in Replica :
          /\ LifeOK(db[r], stage) /\ PairsOK(db[r])
          /\ r \notin crashed => LocalOK(db[r], stage, open[r], graph[r])

-----------------------------------------------------------------------------
(* Induction and recursion.  What is defined by recursion is what the       *)
(* recursion says only if it has a solution, which is shown by induction.   *)

NatLess == {ss \in Nat \X Nat : ss[1] < ss[2]}

(* A set that holds zero and with a number the next holds all numbers: of   *)
(* those outside there would be a least one.                                *)
LEMMA Induction ==
    ASSUME NEW S, 0 \in S, \A n \in Nat : n \in S => n + 1 \in S
    PROVE  Nat \subseteq S
<1>. DEFINE out == Nat \ S
<1>. SUFFICES ASSUME out # {}
              PROVE  FALSE
    OBVIOUS
<1>1. IsWellFoundedOn(NatLess, Nat)
    BY NatLessThanWellFounded DEF OpToRel, NatLess
<1>2. \E x \in out : \A y \in out : <<y, x>> \notin NatLess
    <2>1. out \subseteq Nat
        OBVIOUS
    <2>. HIDE DEF out
    <2>. QED  BY <1>1, <2>1, WFMin, Zenon
<1>3. PICK x \in out : \A y \in out : <<y, x>> \notin NatLess
    BY <1>2
<1>4. x \in Nat /\ x # 0
    BY <1>3
<1>5. x - 1 \in Nat /\ x - 1 \in out
    BY <1>3, <1>4
<1>6. <<x - 1, x>> \in NatLess
    BY <1>4, <1>5 DEF NatLess
<1>. QED  BY <1>3, <1>5, <1>6

LEMMA ToSetOfAppend ==
    ASSUME NEW X, NEW s \in Seq(X), NEW x \in X
    PROVE  Append(s, x) \in Seq(X) /\ ToSet(Append(s, x)) = ToSet(s) \cup {x}
<1>1. /\ DOMAIN Append(s, x) = DOMAIN s \cup {Len(s) + 1}
      /\ Append(s, x)[Len(s) + 1] = x
      /\ \A k \in DOMAIN s : Append(s, x)[k] = s[k]
    OBVIOUS
<1>. QED  BY <1>1 DEF ToSet

-----------------------------------------------------------------------------
(* Selected *)

Further(s, places, f, n) ==
    IF n = 0 THEN <<>>
    ELSE IF n \in places THEN Append(f[n - 1], s[n])
    ELSE f[n - 1]

UpTo(s, places, f, m) == f = [n \in 0 .. m |-> Further(s, places, f, n)]

LEMMA UpToExists ==
    ASSUME NEW s, Len(s) \in Nat, NEW places
    PROVE  \E f : UpTo(s, places, f, Len(s))
<1>. DEFINE S == {m \in Nat : \E f : UpTo(s, places, f, m)}
<1>1. 0 \in S
    <2>1. UpTo(s, places, [n \in 0 .. 0 |-> <<>>], 0)
        BY DEF UpTo, Further
    <2>. QED  BY <2>1
<1>2. ASSUME NEW m \in Nat, m \in S
      PROVE  m + 1 \in S
    <2>1. PICK f : UpTo(s, places, f, m)
        BY <1>2
    <2>. DEFINE g == [n \in 0 .. m + 1 |->
                         IF n <= m THEN f[n] ELSE Further(s, places, f, m + 1)]
    <2>2. ASSUME NEW n \in 0 .. m + 1
          PROVE  g[n] = Further(s, places, g, n)
        <3>1. CASE n = 0
            BY <3>1, <2>1 DEF UpTo, Further
        <3>2. CASE n # 0
            <4>1. n - 1 \in 0 .. m /\ g[n - 1] = f[n - 1]
                BY <3>2
            <4>2. Further(s, places, g, n) = Further(s, places, f, n)
                BY <3>2, <4>1 DEF Further
            <4>3. n <= m => f[n] = Further(s, places, f, n)
                BY <2>1 DEF UpTo
            <4>4. ~(n <= m) => n = m + 1
                OBVIOUS
            <4>. QED  BY <4>2, <4>3, <4>4
        <3>. QED  BY <3>1, <3>2
    <2>3. g = [n \in 0 .. m + 1 |-> g[n]]
        OBVIOUS
    <2>4. UpTo(s, places, g, m + 1)
        <3>. HIDE DEF g
        <3>. QED  BY <2>2, <2>3 DEF UpTo
    <2>. HIDE DEF g
    <2>. QED  BY <2>4
<1>3. Len(s) \in S
    <2>. HIDE DEF S
    <2>. QED  BY <1>1, <1>2, Induction
<1>. QED  BY <1>3

LEMMA SelectedIsLast ==
    ASSUME NEW s, Len(s) \in Nat, NEW places
    PROVE  \E f : UpTo(s, places, f, Len(s)) /\ Selected(s, places) = f[Len(s)]
<1>. DEFINE f == CHOOSE f : UpTo(s, places, f, Len(s))
<1>1. Selected(s, places) = f[Len(s)]
    BY DEF Selected, UpTo, Further
<1>2. UpTo(s, places, f, Len(s))
    BY UpToExists, Zenon
<1>. QED  BY <1>1, <1>2

(* What is selected are the elements at the places.                         *)
LEMMA SelectedHas ==
    ASSUME NEW X, NEW s \in Seq(X), NEW places
    PROVE  /\ Selected(s, places) \in Seq(X)
           /\ ToSet(Selected(s, places)) = {s[i] : i \in places \cap DOMAIN s}
<1>. DEFINE First(n) == {s[i] : i \in places \cap 1 .. n}
<1>1. PICK f : UpTo(s, places, f, Len(s)) /\ Selected(s, places) = f[Len(s)]
    BY SelectedIsLast
<1>2. \A n \in 0 .. Len(s) : f[n] = Further(s, places, f, n)
    BY <1>1 DEF UpTo
<1>. DEFINE S == {n \in Nat : n <= Len(s) => f[n] \in Seq(X) /\ ToSet(f[n]) = First(n)}
<1>3. 0 \in S
    <2>1. f[0] = <<>>
        BY <1>2 DEF Further
    <2>2. places \cap 1 .. 0 = {}
        OBVIOUS
    <2>3. First(0) = {} /\ ToSet(f[0]) = {} /\ f[0] \in Seq(X)
        BY <2>1, <2>2 DEF ToSet
    <2>. QED  BY <2>3
<1>4. ASSUME NEW n \in Nat, n \in S
      PROVE  n + 1 \in S
    <2>1. SUFFICES ASSUME n + 1 <= Len(s)
                   PROVE  f[n + 1] \in Seq(X) /\ ToSet(f[n + 1]) = First(n + 1)
        OBVIOUS
    <2>2. /\ f[n] \in Seq(X) /\ ToSet(f[n]) = First(n)
          /\ n + 1 \in 1 .. Len(s) /\ s[n + 1] \in X
          /\ f[n + 1] = Further(s, places, f, n + 1)
        BY <1>2, <1>4, <2>1
    <2>3. CASE n + 1 \in places
        <3>1. f[n + 1] = Append(f[n], s[n + 1])
            BY <2>2, <2>3 DEF Further
        <3>2. f[n] \in Seq(X) /\ s[n + 1] \in X
            BY <2>2
        <3>3. f[n + 1] \in Seq(X) /\ ToSet(f[n + 1]) = ToSet(f[n]) \cup {s[n + 1]}
            <4>. HIDE DEF S, First
            <4>. QED  BY <3>1, <3>2, ToSetOfAppend
        <3>4. First(n + 1) = First(n) \cup {s[n + 1]}
            BY <2>3
        <3>. QED  BY <2>2, <3>3, <3>4
    <2>4. CASE n + 1 \notin places
        <3>1. f[n + 1] = f[n]
            BY <2>2, <2>4 DEF Further
        <3>2. places \cap 1 .. n + 1 = places \cap 1 .. n
            BY <2>4
        <3>. QED  BY <2>2, <3>1, <3>2
    <2>. QED  BY <2>3, <2>4
<1>5. Len(s) \in S
    <2>. HIDE DEF S
    <2>. QED  BY <1>3, <1>4, Induction
<1>6. places \cap 1 .. Len(s) = places \cap DOMAIN s
    OBVIOUS
<1>. QED  BY <1>1, <1>5, <1>6

-----------------------------------------------------------------------------
(* Commit: the fold is over the set of places 1 .. Len(txs), whose largest  *)
(* element it takes off first.                                              *)

Folded(tables, txs, f, S) ==
    IF S = {} THEN tables ELSE ApplyTx(f[S \ {Max(S)}], txs[Max(S)])

Folds(tables, txs, f, m) ==
    f = [S \in SUBSET (1 .. m) |-> Folded(tables, txs, f, S)]

LEMMA MaxIs ==
    ASSUME NEW S, S \subseteq Int, NEW x \in S, \A y \in S : y <= x
    PROVE  Max(S) = x
<1>1. \A y \in S : x >= y
    OBVIOUS
<1>2. Max(S) \in S /\ \A y \in S : Max(S) >= y
    <2>1. \E z \in S : \A y \in S : z >= y
        BY <1>1
    <2>. QED  BY <2>1, Zenon DEF Max
<1>3. \A max : max \in S /\ (\A y \in S : max >= y) => max = x
    OBVIOUS
<1>. QED  BY <1>2, <1>3, Zenon

LEMMA FoldsExist ==
    ASSUME NEW tables, NEW txs, NEW n \in Nat
    PROVE  \E f : Folds(tables, txs, f, n)
<1>. DEFINE S == {m \in Nat : \E f : Folds(tables, txs, f, m)}
<1>1. 0 \in S
    <2>1. Folds(tables, txs, [places \in SUBSET (1 .. 0) |-> tables], 0)
        BY DEF Folds, Folded
    <2>. QED  BY <2>1
<1>2. ASSUME NEW m \in Nat, m \in S
      PROVE  m + 1 \in S
    <2>1. PICK f : Folds(tables, txs, f, m)
        BY <1>2
    <2>. DEFINE g == [places \in SUBSET (1 .. m + 1) |->
                         IF m + 1 \in places
                         THEN ApplyTx(f[places \ {m + 1}], txs[m + 1])
                         ELSE f[places]]
    <2>2. ASSUME NEW places \in SUBSET (1 .. m + 1)
          PROVE  g[places] = Folded(tables, txs, g, places)
        <3>1. CASE m + 1 \in places
            <4>1. Max(places) = m + 1
                <5>1. places \subseteq Int /\ \A y \in places : y <= m + 1
                    OBVIOUS
                <5>. HIDE DEF g
                <5>. QED  BY <3>1, <5>1, MaxIs, Zenon
            <4>2. places \ {m + 1} \in SUBSET (1 .. m + 1)
                OBVIOUS
            <4>3. g[places \ {m + 1}] = f[places \ {m + 1}]
                BY <4>2
            <4>4. g[places] = ApplyTx(g[places \ {m + 1}], txs[m + 1])
                BY <3>1, <4>3
            <4>. HIDE DEF g
            <4>. QED  BY <3>1, <4>1, <4>4 DEF Folded
        <3>2. CASE m + 1 \notin places
            <4>1. places \in SUBSET (1 .. m)
                BY <3>2
            <4>2. g[places] = f[places]
                BY <3>2
            <4>3. \A x : places \ {x} \in SUBSET (1 .. m + 1) /\ m + 1 \notin places \ {x}
                BY <3>2
            <4>4. \A x : g[places \ {x}] = f[places \ {x}]
                BY <4>3
            <4>5. f[places] = Folded(tables, txs, f, places)
                BY <2>1, <4>1 DEF Folds
            <4>. HIDE DEF g
            <4>. QED  BY <4>2, <4>4, <4>5 DEF Folded
        <3>. QED  BY <3>1, <3>2
    <2>3. g = [places \in SUBSET (1 .. m + 1) |-> g[places]]
        OBVIOUS
    <2>4. Folds(tables, txs, g, m + 1)
        <3>. HIDE DEF g
        <3>. QED  BY <2>2, <2>3 DEF Folds
    <2>. HIDE DEF g
    <2>. QED  BY <2>4
<1>3. n \in S
    <2>. HIDE DEF S
    <2>. QED  BY <1>1, <1>2, Induction
<1>. QED  BY <1>3

(* One transaction after the other. *)
CommitsInSteps(tables, txs, n) ==
    \E state : /\ state[0] = tables
               /\ \A k \in 1 .. n : state[k] = ApplyTx(state[k - 1], txs[k])
               /\ Commit(tables, txs) = state[n]

LEMMA CommitIs ==
    ASSUME NEW tables, NEW txs, NEW n \in Nat, DOMAIN txs = 1 .. n
    PROVE  CommitsInSteps(tables, txs, n)
<1>. DEFINE f == CHOOSE f : Folds(tables, txs, f, n)
            state == [k \in 0 .. n |-> f[1 .. k]]
<1>1. Commit(tables, txs) = f[1 .. n]
    BY DEF Commit, FoldLeft, MapThenFoldSet, Folds, Folded
<1>2. Folds(tables, txs, f, n)
    BY FoldsExist, Zenon
<1>. HIDE DEF f
<1>3. \A places \in SUBSET (1 .. n) : f[places] = Folded(tables, txs, f, places)
    BY <1>2 DEF Folds
<1>4. state[0] = tables
    <2>1. 1 .. 0 = {} /\ {} \in SUBSET (1 .. n)
        OBVIOUS
    <2>2. state[0] = f[1 .. 0]
        OBVIOUS
    <2>3. f[{}] = tables
        BY <1>3, <2>1 DEF Folded
    <2>. HIDE DEF state
    <2>. QED  BY <2>1, <2>2, <2>3
<1>5. ASSUME NEW k \in 1 .. n
      PROVE  state[k] = ApplyTx(state[k - 1], txs[k])
    <2>1. Max(1 .. k) = k
        <3>1. 1 .. k \subseteq Int /\ k \in 1 .. k /\ \A y \in 1 .. k : y <= k
            OBVIOUS
        <3>. QED  BY <3>1, MaxIs, Zenon
    <2>2. 1 .. k \in SUBSET (1 .. n) /\ 1 .. k # {} /\ (1 .. k) \ {k} = 1 .. k - 1
        OBVIOUS
    <2>3. f[1 .. k] = ApplyTx(f[1 .. k - 1], txs[k])
        BY <1>3, <2>1, <2>2 DEF Folded
    <2>4. state[k] = f[1 .. k] /\ state[k - 1] = f[1 .. k - 1]
        OBVIOUS
    <2>. QED  BY <2>3, <2>4
<1>6. state[n] = f[1 .. n]
    OBVIOUS
<1>. HIDE DEF state
<1>. QED  BY <1>1, <1>4, <1>5, <1>6 DEF CommitsInSteps

-----------------------------------------------------------------------------
(* What one transaction does to the tables *)

LEMMA TablesFields ==
    ASSUME NEW now, NEW tables \in Tables(now)
    PROVE  /\ tables.document \in Seq(NodeRow(now))
           /\ tables.edge \subseteq PairRow(now)
           /\ tables.store \in [Attribute -> SUBSET ValueRow(now)]
           /\ NodeRows(tables) \subseteq NodeRow(now)
<1>1. /\ tables.document \in Seq(NodeRow(now))
      /\ tables.edge \subseteq PairRow(now)
      /\ tables.store \in [Attribute -> SUBSET ValueRow(now)]
    BY DEF Tables
<1>2. ToSet(tables.document) \subseteq NodeRow(now)
    BY <1>1 DEF ToSet
<1>. QED  BY <1>1, <1>2 DEF NodeRows

LEMMA SequencesGrow ==
    ASSUME NEW X, NEW Y, X \subseteq Y, NEW s \in Seq(X)
    PROVE  s \in Seq(Y)
<1>1. Len(s) \in Nat /\ \A i \in 1 .. Len(s) : s[i] \in Y
    OBVIOUS
<1>. QED  BY <1>1

(* Rows stay rows as time goes by. *)
LEMMA TablesLater ==
    ASSUME NEW t \in Nat, NEW tables \in Tables(t)
    PROVE  tables \in Tables(t + 1)
<1>1. 0 .. t \subseteq 0 .. t + 1
    OBVIOUS
<1>2. /\ NodeRow(t) \subseteq NodeRow(t + 1)
      /\ PairRow(t) \subseteq PairRow(t + 1)
      /\ ValueRow(t) \subseteq ValueRow(t + 1)
    <2>. DEFINE early == 0 .. t  late == 0 .. t + 1
    <2>1. early \subseteq late
        BY <1>1
    <2>. HIDE DEF early, late
    <2>2. [entity: NodeId, type: {"Sphere", "SetOperation"}, document: Document,
           timestamp: early, deleted: BOOLEAN]
          \subseteq [entity: NodeId, type: {"Sphere", "SetOperation"}, document: Document,
           timestamp: late, deleted: BOOLEAN]
        BY <2>1
    <2>3. [entity: NodeId, entity_to: NodeId, timestamp: early, deleted: BOOLEAN]
          \subseteq [entity: NodeId, entity_to: NodeId, timestamp: late, deleted: BOOLEAN]
        BY <2>1
    <2>4. [entity: NodeId, val: Value, timestamp: early, deleted: BOOLEAN]
          \subseteq [entity: NodeId, val: Value, timestamp: late, deleted: BOOLEAN]
        BY <2>1
    <2>. QED  BY <2>2, <2>3, <2>4 DEF NodeRow, PairRow, ValueRow, early, late
<1>3. /\ tables.document \in Seq(NodeRow(t + 1))
      /\ tables.edge \subseteq PairRow(t + 1)
      /\ tables.store \in [Attribute -> SUBSET ValueRow(t + 1)]
    <2>1. tables.document \in Seq(NodeRow(t + 1))
        BY <1>2, TablesFields, SequencesGrow
    <2>. QED  BY <1>2, <2>1, TablesFields
<1>. QED  BY <1>3 DEF Tables

LEMMA ApplyNode ==
    ASSUME NEW now, NEW tables \in Tables(now), NEW t \in 0 .. now, NEW n \in Nodes,
           NEW kind \in {"Sphere", "SetOperation"}, NEW d \in Document,
           NEW deleted \in BOOLEAN,
           NEW after, after = ApplyTx(tables, NodeTx(n, kind, d, t, deleted))
    PROVE  /\ after \in Tables(now)
           /\ after.edge = tables.edge /\ after.store = tables.store
           /\ NodeRows(after) =
                 {r \in NodeRows(tables) :
                    ~(r.entity = n.id /\ r.document = d /\ r.timestamp < t) /\ ~r.deleted}
                 \cup {[entity |-> n.id, type |-> kind, document |-> d,
                        timestamp |-> t, deleted |-> deleted]}
<1>. DEFINE row == [entity |-> n.id, type |-> kind, document |-> d,
                    timestamp |-> t, deleted |-> deleted]
            doc == tables.document
            kept == {i \in DOMAIN doc :
                       ~(\/ doc[i].entity = n.id /\ doc[i].document = d /\ doc[i].timestamp < t
                         \/ doc[i].deleted)}
<1>1. n.id \in NodeId
    BY DEF Nodes
<1>2. row \in NodeRow(now) /\ doc \in Seq(NodeRow(now))
    BY <1>1, TablesFields DEF NodeRow
<1>3. after = [tables EXCEPT !.document = Append(Selected(doc, kept), row)]
    BY DEF ApplyTx, NodeTx, createI
<1>4. /\ Selected(doc, kept) \in Seq(NodeRow(now))
      /\ ToSet(Selected(doc, kept)) = {doc[i] : i \in kept \cap DOMAIN doc}
    <2>. HIDE DEF doc, kept
    <2>. QED  BY <1>2, SelectedHas
<1>5. /\ Append(Selected(doc, kept), row) \in Seq(NodeRow(now))
      /\ ToSet(Append(Selected(doc, kept), row)) = {doc[i] : i \in kept \cap DOMAIN doc} \cup {row}
    <2>. HIDE DEF doc, kept, row
    <2>. QED  BY <1>2, <1>4, ToSetOfAppend
<1>6. {doc[i] : i \in kept \cap DOMAIN doc}
        = {r \in NodeRows(tables) :
             ~(r.entity = n.id /\ r.document = d /\ r.timestamp < t) /\ ~r.deleted}
    BY DEF NodeRows, ToSet
<1>7. /\ after.document = Append(Selected(doc, kept), row)
      /\ after.edge = tables.edge /\ after.store = tables.store
      /\ after \in [document: {after.document}, edge: {tables.edge}, store: {tables.store}]
    <2>. HIDE DEF doc, kept, row
    <2>. QED  BY <1>3 DEF Tables
<1>8. after \in Tables(now)
    <2>. HIDE DEF doc, kept, row
    <2>1. after.document \in Seq(NodeRow(now))
        BY <1>5, <1>7
    <2>2. tables.edge \subseteq PairRow(now) /\ tables.store \in [Attribute -> SUBSET ValueRow(now)]
        BY TablesFields
    <2>. QED  BY <1>7, <2>1, <2>2 DEF Tables
<1>. QED  BY <1>5, <1>6, <1>7, <1>8 DEF NodeRows

LEMMA ApplyEdge ==
    ASSUME NEW now, NEW tables \in Tables(now), NEW t \in 0 .. now,
           NEW from \in NodeId, NEW to \in NodeId, NEW deleted \in BOOLEAN,
           NEW after, after = ApplyTx(tables, EdgeTx(from, to, t, deleted))
    PROVE  /\ after \in Tables(now)
           /\ after.document = tables.document /\ after.store = tables.store
           /\ after.edge = connectI(tables.edge, from, to, t, deleted)
<1>. DEFINE new == connectI(tables.edge, from, to, t, deleted)
<1>1. after = [tables EXCEPT !.edge = new]
    BY DEF ApplyTx, EdgeTx
<1>2. new \subseteq PairRow(now)
    BY TablesFields DEF connectI, PairRow
<1>. HIDE DEF new
<1>3. /\ after.edge = new
      /\ after.document = tables.document /\ after.store = tables.store
      /\ after \in [document: {tables.document}, edge: {new}, store: {tables.store}]
    BY <1>1 DEF Tables
<1>4. after \in Tables(now)
    BY <1>2, <1>3, TablesFields DEF Tables
<1>. QED  BY <1>3, <1>4 DEF new

ValueTx(a, e, v, t, deleted) ==
    [table |-> a, entity |-> e, val |-> v, to |-> e, timestamp |-> t,
     deleted |-> deleted]

(* What others have written of other nodes stays, if it is live. *)
Untouched(tables, after, n) ==
    \A a \in Attribute, m \in NodeId \ {n} :
        /\ Written(after, a, m) \subseteq Written(tables, a, m)
        /\ \A x \in Written(tables, a, m) : ~x.deleted => x \in Written(after, a, m)

LEMMA ApplyValue ==
    ASSUME NEW now, NEW tables \in Tables(now), NEW t \in 0 .. now,
           NEW a \in Attribute, NEW e \in NodeId, NEW v \in Value, NEW deleted \in BOOLEAN,
           NEW after, after = ApplyTx(tables, ValueTx(a, e, v, t, deleted))
    PROVE  /\ after \in Tables(now)
           /\ after.document = tables.document /\ after.edge = tables.edge
           /\ Untouched(tables, after, e)
           /\ \A b \in Attribute \ {a} : Written(after, b, e) = Written(tables, b, e)
           /\ \A x \in Written(after, a, e) : x \in Written(tables, a, e) \/ x.val = v
           /\ Written(tables, a, e) = {} /\ ~deleted =>
                 Written(after, a, e) =
                    {[entity |-> e, val |-> v, timestamp |-> t, deleted |-> FALSE]}
<1>. DEFINE Row(flag) == [entity |-> e, val |-> v, timestamp |-> t, deleted |-> flag]
            old == tables.store[a]
            With(new) == [tables EXCEPT !.store[a] = new]
<1>0. PICK flag \in BOOLEAN : \E new :
         /\ after = With(new)
         /\ \/ new = old \cup {Row(flag)}
            \/ new = CRDTCollectGarbage(old, e, t) \cup {Row(flag)}
         /\ ~deleted => ~flag
    <2>1. CASE a = "radius"
        <3>1. after = With(old \cup {Row(deleted)})
            BY <2>1 DEF ApplyTx, ValueTx, upsertRadiusI
        <3>. HIDE DEF Row, old, With
        <3>. QED  BY <3>1
    <2>2. CASE a = "coord"
        <3>1. after = With(CRDTCollectGarbage(old, e, t) \cup {Row(FALSE)})
            BY <2>2 DEF ApplyTx, ValueTx, upsertI, retractCoord
        <3>. HIDE DEF Row, old, With
        <3>. QED  BY <3>1
    <2>3. CASE a = "type"
        <3>1. after = With(CRDTCollectGarbage(old, e, t) \cup {Row(deleted)})
            BY <2>3 DEF ApplyTx, ValueTx, upsertI
        <3>. HIDE DEF Row, old, With
        <3>. QED  BY <3>1
    <2>. QED  BY <2>1, <2>2, <2>3 DEF Attribute
<1>1. PICK new :
         /\ after = With(new)
         /\ \/ new = old \cup {Row(flag)}
            \/ new = CRDTCollectGarbage(old, e, t) \cup {Row(flag)}
         /\ ~deleted => ~flag
    BY <1>0
<1>2. old \subseteq ValueRow(now)
    BY TablesFields
<1>3. Row(flag) \in ValueRow(now)
    BY DEF ValueRow
<1>4. new \subseteq ValueRow(now)
    BY <1>1, <1>2, <1>3 DEF CRDTCollectGarbage
<1>5. /\ after.document = tables.document /\ after.edge = tables.edge
      /\ after.store = [tables.store EXCEPT ![a] = new]
      /\ after \in [document: {tables.document}, edge: {tables.edge}, store: {after.store}]
    BY <1>1 DEF Tables
<1>6. after \in Tables(now)
    <2>1. after.store \in [Attribute -> SUBSET ValueRow(now)]
        BY <1>4, <1>5, TablesFields
    <2>. QED  BY <1>5, <2>1, TablesFields DEF Tables
<1>7. after.store[a] = new /\ \A b \in Attribute \ {a} : after.store[b] = tables.store[b]
    BY <1>5, TablesFields
<1>8. \A m : \A b \in Attribute \ {a} : Written(after, b, m) = Written(tables, b, m)
    BY <1>7 DEF Written
<1>9. \A x \in new : x \in old \/ x = Row(flag)
    BY <1>1 DEF CRDTCollectGarbage
<1>10. \A x \in old : ~x.deleted /\ x.entity # e => x \in new
    BY <1>1 DEF CRDTCollectGarbage
<1>11. Row(flag).entity = e /\ Row(flag) \in new
    BY <1>1
<1>12. Untouched(tables, after, e)
    <2>. SUFFICES ASSUME NEW b \in Attribute, NEW m \in NodeId \ {e}
                  PROVE  /\ Written(after, b, m) \subseteq Written(tables, b, m)
                         /\ \A x \in Written(tables, b, m) :
                               ~x.deleted => x \in Written(after, b, m)
        BY DEF Untouched
    <2>1. CASE b = a
        <3>. HIDE DEF Row
        <3>. QED  BY <1>7, <1>9, <1>10, <1>11, <2>1 DEF Written
    <2>2. CASE b # a
        BY <1>8, <2>2
    <2>. QED  BY <2>1, <2>2
<1>13. ASSUME Written(tables, a, e) = {}, ~deleted
       PROVE  Written(after, a, e) = {Row(FALSE)}
    <2>1. flag = FALSE
        BY <1>1, <1>13
    <2>2. \A x \in new : x.entity = e => x = Row(FALSE)
        BY <1>9, <1>13, <2>1 DEF Written
    <2>3. Row(FALSE) \in new /\ Row(FALSE).entity = e
        BY <1>11, <2>1
    <2>. HIDE DEF Row
    <2>. QED  BY <1>7, <2>2, <2>3 DEF Written
<1>14. \A x \in Written(after, a, e) : x \in Written(tables, a, e) \/ x.val = v
    BY <1>7, <1>9 DEF Written
<1>. QED  BY <1>5, <1>6, <1>8, <1>12, <1>13, <1>14

-----------------------------------------------------------------------------
(* What the transactions of a call do to the tables *)

LEMMA NodeFields ==
    ASSUME NEW n \in Nodes
    PROVE  /\ n.id \in NodeId /\ n.kind = Kind[n.id]
           /\ n.kind \in {"Sphere", "SetOperation"}
           /\ n.attr \in [Names(n.id) -> Value]
           /\ n = [id |-> n.id, kind |-> n.kind, attr |-> n.attr]
<1>1. PICK m \in NodeId : n \in [id: {m}, kind: {Kind[m]}, attr: [ToSet(Attributes(Kind[m])) -> Value]]
    BY DEF Nodes
<1>2. n.id = m /\ n.kind = Kind[m] /\ n.attr \in [ToSet(Attributes(Kind[m])) -> Value]
    BY <1>1
<1>3. n = [id |-> n.id, kind |-> n.kind, attr |-> n.attr]
    BY <1>1
<1>4. Kind[m] \in {"Sphere", "SetOperation"}
    BY KindAssumption
<1>. QED  BY <1>2, <1>3, <1>4 DEF Names

LEMMA AttributesAre ==
    ASSUME NEW kind \in {"Sphere", "SetOperation"}
    PROVE  /\ Len(Attributes(kind)) \in 1 .. 2 /\ Attributes(kind) \in Seq(Attribute)
           /\ ToSet(Attributes(kind)) \subseteq Attribute
           /\ kind = "Sphere" =>
                 /\ Len(Attributes(kind)) = 2
                 /\ Attributes(kind)[1] = "radius" /\ Attributes(kind)[2] = "coord"
                 /\ ToSet(Attributes(kind)) = {"radius", "coord"}
           /\ kind = "SetOperation" =>
                 /\ Len(Attributes(kind)) = 1
                 /\ Attributes(kind)[1] = "type"
                 /\ ToSet(Attributes(kind)) = {"type"}
<1>1. CASE kind = "Sphere"
    <2>1. Attributes(kind) = <<"radius", "coord">>
        BY <1>1 DEF Attributes
    <2>2. DOMAIN <<"radius", "coord">> = {1, 2}
        OBVIOUS
    <2>3. ToSet(Attributes(kind)) = {"radius", "coord"}
        <3>1. Attributes(kind)[1] = "radius" /\ Attributes(kind)[2] = "coord"
            BY <2>1
        <3>. QED  BY <2>1, <2>2, <3>1 DEF ToSet
    <2>4. <<"radius", "coord">> \in Seq(Attribute)
        BY DEF Attribute
    <2>5. Len(Attributes(kind)) = 2 /\ Attributes(kind)[1] = "radius" /\ Attributes(kind)[2] = "coord"
        BY <2>1
    <2>6. Attributes(kind) \in Seq(Attribute)
        BY <2>1, <2>4, Zenon
    <2>7. ToSet(Attributes(kind)) \subseteq Attribute
        BY <2>3 DEF Attribute
    <2>. QED  BY <1>1, <2>3, <2>5, <2>6, <2>7
<1>2. CASE kind = "SetOperation"
    <2>1. Attributes(kind) = <<"type">>
        BY <1>2 DEF Attributes
    <2>2. DOMAIN <<"type">> = {1}
        OBVIOUS
    <2>3. ToSet(Attributes(kind)) = {"type"}
        <3>1. Attributes(kind)[1] = "type"
            BY <2>1
        <3>. QED  BY <2>1, <2>2, <3>1 DEF ToSet
    <2>4. <<"type">> \in Seq(Attribute)
        BY DEF Attribute
    <2>5. Len(Attributes(kind)) = 1 /\ Attributes(kind)[1] = "type"
        BY <2>1
    <2>6. Attributes(kind) \in Seq(Attribute)
        BY <2>1, <2>4, Zenon
    <2>7. ToSet(Attributes(kind)) \subseteq Attribute
        BY <2>3 DEF Attribute
    <2>. QED  BY <1>2, <2>3, <2>5, <2>6, <2>7
<1>. QED  BY <1>1, <1>2

NodeTxs(n, kind, d, t, deleted) ==
    <<NodeTx(n, kind, d, t, deleted)>> \o AttributeTxs(n, t, deleted)

(* The row of the node is written first, then its attributes in turn.       *)
LEMMA NodeTxsAre ==
    ASSUME NEW n \in Nodes, NEW kind, NEW d, NEW t \in Nat, NEW deleted \in BOOLEAN,
           NEW txs, txs = NodeTxs(n, kind, d, t, deleted)
    PROVE  /\ Len(txs) = Len(Attributes(n.kind)) + 1 /\ DOMAIN txs = 1 .. Len(txs)
           /\ txs[1] = NodeTx(n, kind, d, t, deleted)
           /\ \A i \in 1 .. Len(Attributes(n.kind)) :
                 LET a == Attributes(n.kind)[i]
                 IN  txs[i + 1] = ValueTx(a, n.id, n.attr[a], t, deleted)
<1>. DEFINE names == Attributes(n.kind)
            first == NodeTx(n, kind, d, t, deleted)
            rest == AttributeTxs(n, t, deleted)
<1>1. names \in Seq(Attribute) /\ Len(names) \in Nat
    BY NodeFields, AttributesAre
<1>2. /\ rest = [i \in 1 .. Len(names) |-> ValueTx(names[i], n.id, n.attr[names[i]], t, deleted)]
    BY <1>1 DEF AttributeTxs, ValueTx
<1>3. /\ Len(txs) = Len(names) + 1 /\ DOMAIN txs = 1 .. Len(names) + 1
      /\ txs[1] = first
      /\ \A i \in 1 .. Len(names) :
            txs[i + 1] = ValueTx(names[i], n.id, n.attr[names[i]], t, deleted)
    <2>. DEFINE V(i) == ValueTx(names[i], n.id, n.attr[names[i]], t, deleted)
                m == Len(names)
    <2>1. rest = [i \in 1 .. m |-> V(i)] /\ m \in Nat /\ txs = <<first>> \o rest
        BY <1>1, <1>2 DEF NodeTxs
    <2>. HIDE DEF V, m, first, rest
    <2>2. /\ Len(txs) = m + 1 /\ DOMAIN txs = 1 .. m + 1 /\ txs[1] = first
          /\ \A i \in 1 .. m : txs[i + 1] = rest[i]
        <3>. DEFINE X == {V(i) : i \in 1 .. m} \cup {first}
        <3>1. \A i \in 1 .. m : V(i) \in X
            OBVIOUS
        <3>2. <<first>> \in Seq(X) /\ Len(<<first>>) = 1 /\ <<first>>[1] = first
            OBVIOUS
        <3>. HIDE DEF X
        <3>3. rest \in [1 .. m -> X]
            BY <2>1, <3>1
        <3>4. rest \in Seq(X) /\ Len(rest) = m
            BY <2>1, <3>3
        <3>5. /\ Len(txs) = 1 + m /\ DOMAIN txs = 1 .. 1 + m
              /\ \A i \in 1 .. 1 + m : txs[i] = IF i <= 1 THEN <<first>>[i] ELSE rest[i - 1]
            BY <2>1, <3>2, <3>4
        <3>. QED  BY <2>1, <3>2, <3>5
    <2>. QED  BY <2>1, <2>2 DEF V, m
<1>. QED  BY <1>3

LEMMA CommitNode ==
    ASSUME NEW tables, NEW n \in Nodes, NEW kind, NEW d, NEW t \in Nat,
           NEW deleted \in BOOLEAN,
           NEW txs, txs = NodeTxs(n, kind, d, t, deleted),
           NEW names, names = Attributes(n.kind),
           NEW k \in 0 .. Len(txs)
    PROVE  \E state :
              /\ state[0] = tables
              /\ k >= 1 => state[1] = ApplyTx(tables, NodeTx(n, kind, d, t, deleted))
              /\ \A i \in 1 .. k - 1 :
                    state[i + 1] = ApplyTx(state[i], ValueTx(names[i], n.id, n.attr[names[i]],
                                                             t, deleted))
              /\ Commit(tables, SubSeq(txs, 1, k)) = state[k]
<1>. DEFINE first == NodeTx(n, kind, d, t, deleted)
<1>1. Len(names) \in Nat
    BY NodeFields, AttributesAre
<1>3. /\ Len(txs) = Len(names) + 1 /\ DOMAIN txs = 1 .. Len(names) + 1
      /\ txs[1] = first
      /\ \A i \in 1 .. Len(names) :
            txs[i + 1] = ValueTx(names[i], n.id, n.attr[names[i]], t, deleted)
    BY NodeTxsAre
<1>. DEFINE some == SubSeq(txs, 1, k)
<1>4. k \in Nat /\ DOMAIN some = 1 .. k /\ \A i \in 1 .. k : some[i] = txs[i]
    <2>1. k \in 0 .. Len(txs) /\ Len(txs) \in Nat /\ DOMAIN txs = 1 .. Len(txs)
        BY <1>1, <1>3
    <2>. QED  BY <2>1
<1>5. PICK state : /\ state[0] = tables
                   /\ \A i \in 1 .. k : state[i] = ApplyTx(state[i - 1], some[i])
                   /\ Commit(tables, some) = state[k]
    <2>1. k \in Nat /\ DOMAIN some = 1 .. k
        BY <1>4
    <2>. HIDE DEF some
    <2>2. CommitsInSteps(tables, some, k)
        BY <2>1, CommitIs
    <2>. QED  BY <2>2 DEF CommitsInSteps
<1>. HIDE DEF some, first
<1>6. k >= 1 => state[1] = ApplyTx(tables, first)
    <2>1. k >= 1 => 1 \in 1 .. k /\ 1 - 1 = 0
        BY <1>4
    <2>. QED  BY <1>3, <1>4, <1>5, <2>1
<1>7. ASSUME NEW i \in 1 .. k - 1
      PROVE  state[i + 1] = ApplyTx(state[i], ValueTx(names[i], n.id, n.attr[names[i]], t, deleted))
    <2>1. i + 1 \in 1 .. k /\ (i + 1) - 1 = i /\ i \in 1 .. Len(names)
        <3>1. k \in 0 .. Len(names) + 1
            BY <1>3
        <3>. QED  BY <1>1, <3>1
    <2>2. state[i + 1] = ApplyTx(state[(i + 1) - 1], some[i + 1])
        BY <1>5, <2>1
    <2>3. some[i + 1] = ValueTx(names[i], n.id, n.attr[names[i]], t, deleted)
        BY <1>3, <1>4, <2>1
    <2>. QED  BY <2>1, <2>2, <2>3
<1>. QED  BY <1>3, <1>5, <1>6, <1>7 DEF some, first

LEMMA UntouchedChains ==
    ASSUME NEW a, NEW b, NEW c, NEW n, Untouched(a, b, n), Untouched(b, c, n)
    PROVE  Untouched(a, c, n)
<1>1. ASSUME NEW x \in Attribute, NEW m \in NodeId \ {n}
      PROVE  /\ Written(c, x, m) \subseteq Written(a, x, m)
             /\ \A y \in Written(a, x, m) : ~y.deleted => y \in Written(c, x, m)
    <2>1. /\ Written(b, x, m) \subseteq Written(a, x, m)
          /\ \A y \in Written(a, x, m) : ~y.deleted => y \in Written(b, x, m)
        BY DEF Untouched
    <2>2. /\ Written(c, x, m) \subseteq Written(b, x, m)
          /\ \A y \in Written(b, x, m) : ~y.deleted => y \in Written(c, x, m)
        BY DEF Untouched
    <2>. QED  BY <2>1, <2>2
<1>. QED  BY <1>1 DEF Untouched

LEMMA SameStoreUntouched ==
    ASSUME NEW a, NEW b, a.store = b.store, NEW n
    PROVE  Untouched(a, b, n) /\ \A x, m : Written(b, x, m) = Written(a, x, m)
BY DEF Untouched, Written

(* What one write to the document table leaves of its rows.                 *)
Placed(tables, after, n, kind, d, t, deleted) ==
    NodeRows(after) =
        {r \in NodeRows(tables) :
            ~(r.entity = n.id /\ r.document = d /\ r.timestamp < t) /\ ~r.deleted}
        \cup {[entity |-> n.id, type |-> kind, document |-> d,
               timestamp |-> t, deleted |-> deleted]}

(* The attributes of a node that nothing was written of before: one row     *)
(* each when the call has come to its end, until then not all of them.      *)
FirstWritten(tables, after, n, t, whole) ==
    (\A a \in Attribute : Written(tables, a, n.id) = {}) =>
        IF whole
        THEN \A a \in Names(n.id) :
                Written(after, a, n.id) =
                    {[entity |-> n.id, val |-> n.attr[a], timestamp |-> t, deleted |-> FALSE]}
        ELSE \E a \in Names(n.id) : Written(after, a, n.id) = {}

(* A creation or a removal of which k transactions have committed.          *)
LEMMA CommitNodeTables ==
    ASSUME NEW now \in Nat, NEW tables \in Tables(now), NEW n \in Nodes,
           NEW kind \in {"Sphere", "SetOperation"}, NEW d \in Document,
           NEW t \in 0 .. now, NEW deleted \in BOOLEAN,
           NEW txs, txs = NodeTxs(n, kind, d, t, deleted), NEW k \in 0 .. Len(txs),
           NEW after, after = Commit(tables, SubSeq(txs, 1, k))
    PROVE  /\ after \in Tables(now)
           /\ after.edge = tables.edge
           /\ Untouched(tables, after, n.id)
           /\ k = 0 => after = tables
           /\ k > 0 => Placed(tables, after, n, kind, d, t, deleted)
           /\ ~deleted => FirstWritten(tables, after, n, t, k = Len(txs))
<1>. USE DEF Placed, FirstWritten
<1>. DEFINE names == Attributes(n.kind)
            V(a) == [entity |-> n.id, val |-> n.attr[a], timestamp |-> t, deleted |-> FALSE]
            W(s, a) == Written(s, a, n.id)
            Empty == ~deleted /\ \A a \in Attribute : W(tables, a) = {}
            Rows0 == {r \in NodeRows(tables) :
                        ~(r.entity = n.id /\ r.document = d /\ r.timestamp < t) /\ ~r.deleted}
                     \cup {[entity |-> n.id, type |-> kind, document |-> d,
                            timestamp |-> t, deleted |-> deleted]}
<1>1. /\ n.id \in NodeId /\ n.kind = Kind[n.id] /\ n.kind \in {"Sphere", "SetOperation"}
      /\ n.attr \in [Names(n.id) -> Value] /\ Names(n.id) = ToSet(names)
    BY NodeFields DEF Names
<1>2. Len(txs) = Len(names) + 1
    BY NodeTxsAre
<1>3. PICK state :
         /\ state[0] = tables
         /\ k >= 1 => state[1] = ApplyTx(tables, NodeTx(n, kind, d, t, deleted))
         /\ \A i \in 1 .. k - 1 :
               state[i + 1] = ApplyTx(state[i], ValueTx(names[i], n.id, n.attr[names[i]], t, deleted))
         /\ after = state[k]
    <2>1. t \in Nat
        OBVIOUS
    <2>. HIDE DEF Rows0, V, W, Empty, names
    <2>2. names = Attributes(n.kind)
        BY DEF names
    <2>. QED  BY <2>1, <2>2, CommitNode
<1>. DEFINE OK(s) == /\ s \in Tables(now)
                     /\ s.edge = tables.edge
                     /\ Untouched(tables, s, n.id)
                     /\ NodeRows(s) = Rows0
<1>4. CASE k = 0
    <2>1. after = tables
        BY <1>3, <1>4
    <2>2. Untouched(tables, after, n.id)
        BY <2>1, SameStoreUntouched
    <2>3. Len(names) \in 1 .. 2 /\ \E a \in Names(n.id) : a \in Attribute
        BY <1>1, AttributesAre
    <2>4. Empty => \E a \in Names(n.id) : Written(after, a, n.id) = {}
        BY <2>1, <2>3
    <2>. QED  BY <1>2, <1>4, <2>1, <2>2, <2>3, <2>4
<1>5. k >= 1 => /\ OK(state[1])
                /\ \A a : W(state[1], a) = W(tables, a)
    <2>. SUFFICES ASSUME k >= 1
                  PROVE  OK(state[1]) /\ \A a : W(state[1], a) = W(tables, a)
        OBVIOUS
    <2>1. /\ state[1] \in Tables(now)
          /\ state[1].edge = tables.edge /\ state[1].store = tables.store
          /\ NodeRows(state[1]) = Rows0
        <3>. HIDE DEF Tables
        <3>. QED  BY <1>3, ApplyNode
    <2>2. Untouched(tables, state[1], n.id) /\ \A a : W(state[1], a) = W(tables, a)
        BY <2>1, SameStoreUntouched
    <2>. QED  BY <2>1, <2>2
<1>6. ASSUME NEW i \in 1 .. k - 1, OK(state[i]), names[i] \in Names(n.id), names[i] \in Attribute
      PROVE  /\ OK(state[i + 1])
             /\ \A b \in Attribute \ {names[i]} : W(state[i + 1], b) = W(state[i], b)
             /\ W(state[i], names[i]) = {} /\ ~deleted => W(state[i + 1], names[i]) = {V(names[i])}
    <2>1. state[i + 1] = ApplyTx(state[i], ValueTx(names[i], n.id, n.attr[names[i]], t, deleted))
        BY <1>3
    <2>2. n.attr[names[i]] \in Value
        BY <1>1, <1>6
    <2>3. /\ state[i + 1] \in Tables(now)
          /\ state[i + 1].document = state[i].document /\ state[i + 1].edge = state[i].edge
          /\ Untouched(state[i], state[i + 1], n.id)
          /\ \A b \in Attribute \ {names[i]} : W(state[i + 1], b) = W(state[i], b)
          /\ W(state[i], names[i]) = {} /\ ~deleted => W(state[i + 1], names[i]) = {V(names[i])}
        <3>1. state[i] \in Tables(now)
            BY <1>6
        <3>. HIDE DEF names, OK
        <3>. QED  BY <1>1, <1>6, <2>1, <2>2, <3>1, ApplyValue
    <2>4. NodeRows(state[i + 1]) = NodeRows(state[i])
        BY <2>3 DEF NodeRows
    <2>5. Untouched(tables, state[i + 1], n.id)
        BY <1>6, <2>3, UntouchedChains
    <2>. HIDE DEF Rows0, V
    <2>. QED  BY <1>6, <2>3, <2>4, <2>5
<1>. HIDE DEF OK, W, V, Rows0
<1>7. CASE k >= 1 /\ n.kind = "Sphere"
    <2>1. /\ Len(names) = 2 /\ names[1] = "radius" /\ names[2] = "coord"
          /\ Names(n.id) = {"radius", "coord"} /\ {"radius", "coord"} \subseteq Attribute
        BY <1>1, <1>7, AttributesAre DEF Attribute
    <2>2. k \in 1 .. 3
        <3>1. k \in 0 .. Len(names) + 1
            BY <1>2
        <3>2. k \in 0 .. 3
            BY <2>1, <3>1
        <3>. QED  BY <1>7, <3>2
    <2>3. OK(state[1]) /\ (Empty => W(state[1], "radius") = {} /\ W(state[1], "coord") = {})
        BY <1>5, <1>7, <2>1
    <2>4. k >= 2 => /\ OK(state[2])
                    /\ Empty => W(state[2], "radius") = {V("radius")} /\ W(state[2], "coord") = {}
        <3>. SUFFICES ASSUME k >= 2
                      PROVE  /\ OK(state[2])
                             /\ Empty => W(state[2], "radius") = {V("radius")} /\ W(state[2], "coord") = {}
            OBVIOUS
        <3>1. 1 \in 1 .. k - 1 /\ 1 + 1 = 2
            BY <2>2
        <3>. QED  BY <1>6, <2>1, <2>3, <3>1
    <2>5. k = 3 => /\ OK(state[3])
                   /\ Empty => W(state[3], "radius") = {V("radius")} /\ W(state[3], "coord") = {V("coord")}
        <3>. SUFFICES ASSUME k = 3
                      PROVE  /\ OK(state[3])
                             /\ Empty => W(state[3], "radius") = {V("radius")} /\ W(state[3], "coord") = {V("coord")}
            OBVIOUS
        <3>1. 2 \in 1 .. k - 1 /\ 2 + 1 = 3
            BY <2>2
        <3>. QED  BY <1>6, <2>1, <2>4, <3>1
    <2>6. OK(after) /\ (Empty => IF k = 3 THEN W(after, "radius") = {V("radius")} /\ W(after, "coord") = {V("coord")}
                                           ELSE W(after, "coord") = {})
        <3>1. k = 1 \/ k = 2 \/ k = 3
            BY <2>2
        <3>. QED  BY <1>3, <2>3, <2>4, <2>5, <3>1
    <2>. HIDE DEF names
    <2>. QED  BY <1>2, <2>1, <2>2, <2>6 DEF OK, W, V, Rows0
<1>8. CASE k >= 1 /\ n.kind = "SetOperation"
    <2>1. /\ Len(names) = 1 /\ names[1] = "type"
          /\ Names(n.id) = {"type"} /\ {"type"} \subseteq Attribute
        BY <1>1, <1>8, AttributesAre DEF Attribute
    <2>2. k \in 1 .. 2
        <3>1. k \in 0 .. Len(names) + 1
            BY <1>2
        <3>2. k \in 0 .. 2
            BY <2>1, <3>1
        <3>. QED  BY <1>8, <3>2
    <2>3. OK(state[1]) /\ (Empty => W(state[1], "type") = {})
        BY <1>5, <1>8, <2>1
    <2>4. k = 2 => /\ OK(state[2])
                   /\ Empty => W(state[2], "type") = {V("type")}
        <3>. SUFFICES ASSUME k = 2
                      PROVE  OK(state[2]) /\ (Empty => W(state[2], "type") = {V("type")})
            OBVIOUS
        <3>1. 1 \in 1 .. k - 1 /\ 1 + 1 = 2
            BY <2>2
        <3>. QED  BY <1>6, <2>1, <2>3, <3>1
    <2>6. OK(after) /\ (Empty => IF k = 2 THEN W(after, "type") = {V("type")}
                                           ELSE W(after, "type") = {})
        <3>1. k = 1 \/ k = 2
            BY <2>2
        <3>. QED  BY <1>3, <2>3, <2>4, <3>1
    <2>. HIDE DEF names
    <2>. QED  BY <1>2, <2>1, <2>2, <2>6 DEF OK, W, V, Rows0
<1>. QED  BY <1>1, <1>4, <1>7, <1>8

LEMMA CommitEdge ==
    ASSUME NEW now, NEW tables \in Tables(now), NEW from \in NodeId, NEW to \in NodeId,
           NEW t \in 0 .. now, NEW deleted \in BOOLEAN, NEW k \in 0 .. 1,
           NEW after, after = Commit(tables, SubSeq(<<EdgeTx(from, to, t, deleted)>>, 1, k))
    PROVE  /\ k = 0 => after = tables
           /\ k = 1 => /\ after \in Tables(now)
                       /\ after.document = tables.document /\ after.store = tables.store
                       /\ after.edge = connectI(tables.edge, from, to, t, deleted)
<1>. DEFINE tx == EdgeTx(from, to, t, deleted)
            some == SubSeq(<<tx>>, 1, k)
<1>1. k \in Nat /\ DOMAIN some = 1 .. k /\ (k = 1 => some[1] = tx)
    <2>. HIDE DEF tx
    <2>. QED  OBVIOUS
<1>2. PICK state : /\ state[0] = tables
                   /\ \A i \in 1 .. k : state[i] = ApplyTx(state[i - 1], some[i])
                   /\ Commit(tables, some) = state[k]
    <2>. HIDE DEF some
    <2>1. CommitsInSteps(tables, some, k)
        BY <1>1, CommitIs
    <2>. QED  BY <2>1 DEF CommitsInSteps
<1>3. CASE k = 0
    BY <1>2, <1>3
<1>4. CASE k = 1
    <2>1. 1 \in 1 .. k /\ 1 - 1 = 0
        BY <1>4
    <2>2. state[1] = ApplyTx(state[0], some[1])
        BY <1>2, <2>1
    <2>3. after = ApplyTx(tables, tx)
        BY <1>1, <1>2, <1>4, <2>2
    <2>. QED  BY <1>4, <2>3, ApplyEdge
<1>. QED  BY <1>3, <1>4

-----------------------------------------------------------------------------
(* What opening a document shows *)

LEMMA OneValue ==
    ASSUME NEW tables, NEW a, NEW n, NEW x, Written(tables, a, n) = {x}, ~x.deleted,
           x.timestamp \in Nat, x.val \in Nat
    PROVE  /\ Latest(tables.store[a], n) = {x}
           /\ AttributeOf(tables, n, a) = x.val
<1>1. {r \in tables.store[a] : r.entity = n} = {x}
    BY DEF Written
<1>2. Latest(tables.store[a], n) = {x}
    BY <1>1 DEF Latest, Newest, Live
<1>3. Max({x.val}) = x.val
    <2>1. {x.val} \subseteq Int /\ x.val \in {x.val} /\ \A y \in {x.val} : y <= x.val
        OBVIOUS
    <2>. QED  BY <2>1, MaxIs, Zenon
<1>4. {r.val : r \in Latest(tables.store[a], n)} = {x.val}
    BY <1>2
<1>. QED  BY <1>2, <1>3, <1>4 DEF AttributeOf

LEMMA NothingLatest ==
    ASSUME NEW tables, NEW a, NEW n, Written(tables, a, n) = {}
    PROVE  Latest(tables.store[a], n) = {}
<1>1. {r \in tables.store[a] : r.entity = n} = {}
    BY DEF Written
<1>. QED  BY <1>1 DEF Latest, Newest, Live

LEMMA RowFields ==
    ASSUME NEW now \in Nat, NEW tables \in Tables(now)
    PROVE  /\ \A row \in NodeRows(tables) :
                 /\ row.entity \in NodeId /\ row.type \in {"Sphere", "SetOperation"}
                 /\ row.document \in Document /\ row.timestamp \in 0 .. now
                 /\ row.deleted \in BOOLEAN
           /\ \A x \in tables.edge :
                 /\ x \in [entity: {x.entity}, entity_to: {x.entity_to},
                           timestamp: {x.timestamp}, deleted: {x.deleted}]
                 /\ x.entity \in NodeId /\ x.entity_to \in NodeId
                 /\ x.timestamp \in 0 .. now /\ x.deleted \in BOOLEAN
           /\ \A n : \A a \in Attribute : \A x \in Written(tables, a, n) :
                 /\ x.entity = n /\ x.val \in Value /\ x.timestamp \in 0 .. now
                 /\ x.val \in Nat /\ x.timestamp \in Nat
<1>1. NodeRows(tables) \subseteq NodeRow(now) /\ tables.edge \subseteq PairRow(now)
    BY TablesFields
<1>2. ASSUME NEW a \in Attribute, NEW n, NEW x \in Written(tables, a, n)
      PROVE  /\ x.entity = n /\ x.val \in Value /\ x.timestamp \in 0 .. now
             /\ x.val \in Nat /\ x.timestamp \in Nat
    <2>1. x \in ValueRow(now) /\ x.entity = n
        BY TablesFields DEF Written
    <2>2. x.val \in Value /\ x.timestamp \in 0 .. now
        BY <2>1 DEF ValueRow
    <2>3. Value \subseteq Nat
        BY ViewModelAssumption
    <2>4. x.val \in Nat
        BY <2>2, <2>3
    <2>5. \A i \in 0 .. now : i \in Nat
        OBVIOUS
    <2>. QED  BY <2>1, <2>2, <2>4, <2>5, Zenon
<1>. QED  BY <1>1, <1>2 DEF NodeRow, PairRow

(* A node whose row is live shows iff its creation ran to the end.          *)
LEMMA HasNodeIffCreated ==
    ASSUME NEW now \in Nat, NEW tables \in Tables(now),
           NEW life \in [NodeId -> {"unused", "partial", "created", "removed"}],
           LifeOK(tables, life),
           NEW row \in NodeRows(tables), ~row.deleted
    PROVE  /\ row.type = Kind[row.entity]
           /\ HasNode(tables, row) <=> life[row.entity] = "created"
<1>. DEFINE n == row.entity
<1>1. n \in NodeId /\ row \in Shown(tables, n)
    BY RowFields DEF Shown
<1>2. row.type = Kind[n] /\ ToSet(Attributes(row.type)) = Names(n) /\ Names(n) \subseteq Attribute
    <2>1. row.type = Kind[n]
        BY <1>1 DEF LifeOK
    <2>. QED  BY <1>1, <2>1, KindAssumption, AttributesAre DEF Names
<1>3. life[n] \in {"partial", "created"}
    <2>1. life[n] # "unused"
        BY <1>1 DEF LifeOK, UnusedOK
    <2>2. life[n] # "removed"
        BY <1>1 DEF LifeOK
    <2>. QED  BY <1>1, <2>1, <2>2
<1>4. CASE life[n] = "partial"
    <2>1. PICK a \in Names(n) : Written(tables, a, n) = {}
        BY <1>1, <1>4 DEF LifeOK, PartialOK
    <2>2. Latest(tables.store[a], n) = {}
        BY <2>1, NothingLatest
    <2>. QED  BY <1>2, <1>4, <2>1, <2>2 DEF HasNode
<1>5. CASE life[n] = "created"
    <2>1. ASSUME NEW a \in Names(n)
          PROVE  Latest(tables.store[a], n) # {}
        <3>1. PICK x \in Written(tables, a, n) : Written(tables, a, n) = {x} /\ ~x.deleted
            BY <1>1, <1>5 DEF LifeOK, CreatedOK
        <3>2. x.val \in Nat /\ x.timestamp \in Nat
            BY <1>2, RowFields
        <3>. QED  BY <3>1, <3>2, OneValue
    <2>. QED  BY <1>2, <1>5, <2>1 DEF HasNode
<1>. QED  BY <1>2, <1>3, <1>4, <1>5

(* The targets of a node: one row for a pair, so the newest is that row.    *)
LEMMA EdgesAre ==
    ASSUME NEW now \in Nat, NEW tables \in Tables(now), PairsOK(tables), NEW a, NEW b
    PROVE  b \in edges(tables.edge, a) <=> Linked(tables, a, b)
<1>. DEFINE pair == {r \in tables.edge : r.entity = a /\ r.entity_to = b}
<1>1. ASSUME NEW x \in pair
      PROVE  pair = {x} /\ Newest(pair) = {x}
    <2>1. pair = {x}
        BY DEF PairsOK
    <2>2. x.timestamp \in Nat
        BY RowFields
    <2>3. Newest({x}) = {x}
        BY <2>2 DEF Newest
    <2>. QED  BY <2>1, <2>3
<1>2. b \in edges(tables.edge, a) <=> Live(Newest(pair)) # {} /\ b \in {r.entity_to : r \in tables.edge}
    BY DEF edges
<1>3. ASSUME Linked(tables, a, b)
      PROVE  b \in edges(tables.edge, a)
    <2>1. PICK x \in pair : ~x.deleted
        BY <1>3 DEF Linked
    <2>2. Live(Newest(pair)) = {x}
        <3>1. Newest(pair) = {x}
            BY <1>1
        <3>. QED  BY <2>1, <3>1 DEF Live
    <2>. HIDE DEF pair
    <2>3. b \in {r.entity_to : r \in tables.edge}
        BY DEF pair
    <2>. QED  BY <1>2, <2>2, <2>3
<1>4. ASSUME b \in edges(tables.edge, a)
      PROVE  Linked(tables, a, b)
    <2>1. PICK x \in Live(Newest(pair)) : TRUE
        BY <1>2, <1>4
    <2>2. x \in pair /\ ~x.deleted
        BY DEF Live, Newest
    <2>. QED  BY <2>2 DEF Linked
<1>. QED  BY <1>3, <1>4

NodeOf(tables, row) ==
    [id |-> row.entity, kind |-> row.type,
     attr |-> [a \in ToSet(Attributes(row.type)) |-> AttributeOf(tables, row.entity, a)]]

ShownIn(tables, d) ==
    {row \in NodeRows(tables) : ~row.deleted /\ row.document = d /\ HasNode(tables, row)}

LEMMA OpenedNodes ==
    ASSUME NEW now, NEW tables \in Tables(now), NEW d
    PROVE  /\ \E m \in Nat : DOMAIN Opened(tables, d).nodes = 1 .. m
           /\ ToSet(Opened(tables, d).nodes) = {NodeOf(tables, row) : row \in ShownIn(tables, d)}
           /\ Opened(tables, d).edges =
                 LET ids == {row.entity : row \in ShownIn(tables, d)}
                 IN  {p \in ids \X ids : p[2] \in edges(tables.edge, p[1])}
<1>. DEFINE doc == tables.document
            X == NodeRow(now)
            inDocument == {i \in DOMAIN doc : ~doc[i].deleted /\ doc[i].document = d}
            live == entities(doc, d)
            whole == {i \in DOMAIN live : HasNode(tables, live[i])}
            rows == Selected(live, whole)
<1>1. /\ live \in Seq(X)
      /\ ToSet(live) = {r \in NodeRows(tables) : ~r.deleted /\ r.document = d}
    <2>1. live = Selected(doc, inDocument)
        BY DEF entities
    <2>2. doc \in Seq(X)
        BY TablesFields
    <2>. HIDE DEF live, doc, inDocument, X
    <2>3. live \in Seq(X) /\ ToSet(live) = {doc[i] : i \in inDocument \cap DOMAIN doc}
        BY <2>1, <2>2, SelectedHas
    <2>. QED  BY <2>3 DEF inDocument, NodeRows, ToSet, doc
<1>2. rows \in Seq(X) /\ ToSet(rows) = ShownIn(tables, d)
    <2>. HIDE DEF live, whole
    <2>1. rows \in Seq(X) /\ ToSet(rows) = {live[i] : i \in whole \cap DOMAIN live}
        BY <1>1, SelectedHas
    <2>2. {live[i] : i \in whole \cap DOMAIN live} = {r \in ToSet(live) : HasNode(tables, r)}
        BY DEF whole, ToSet
    <2>. HIDE DEF rows
    <2>. QED  BY <1>1, <2>1, <2>2 DEF ShownIn
<1>3. /\ Opened(tables, d).nodes = [i \in DOMAIN rows |-> NodeOf(tables, rows[i])]
      /\ Opened(tables, d).edges =
            {p \in {rows[i].entity : i \in DOMAIN rows} \X {rows[i].entity : i \in DOMAIN rows} :
                p[2] \in edges(tables.edge, p[1])}
    BY DEF Opened, NodeOf
<1>. HIDE DEF rows
<1>4. {rows[i].entity : i \in DOMAIN rows} = {row.entity : row \in ShownIn(tables, d)}
    BY <1>2 DEF ToSet
<1>5. ToSet(Opened(tables, d).nodes) = {NodeOf(tables, row) : row \in ShownIn(tables, d)}
    <2>1. ToSet(Opened(tables, d).nodes) = {NodeOf(tables, rows[i]) : i \in DOMAIN rows}
        BY <1>3 DEF ToSet
    <2>. QED  BY <1>2, <2>1 DEF ToSet
<1>6. \E m \in Nat : DOMAIN Opened(tables, d).nodes = 1 .. m
    <2>1. DOMAIN Opened(tables, d).nodes = 1 .. Len(rows) /\ Len(rows) \in Nat
        BY <1>2, <1>3
    <2>. QED  BY <2>1
<1>. QED  BY <1>3, <1>4, <1>5, <1>6

LEMMA IdsAre ==
    ASSUME NEW g
    PROVE  Ids(g) = {x.id : x \in ToSet(g.nodes)}
BY DEF Ids, ToSet

(* The nodes that were created and not removed, with what was written of    *)
(* them, and the edges between them that are linked.                        *)
LEMMA OpenedIs ==
    ASSUME NEW now \in Nat, NEW tables \in Tables(now),
           NEW life \in [NodeId -> {"unused", "partial", "created", "removed"}],
           LifeOK(tables, life), PairsOK(tables), NEW d,
           NEW g, g = Opened(tables, d)
    PROVE  /\ g \in Graphs
           /\ Ids(g) = {n \in NodeId : life[n] = "created" /\ IsIn(tables, n, d)}
           /\ g.edges = {p \in Ids(g) \X Ids(g) : Linked(tables, p[1], p[2])}
           /\ \A x \in ToSet(g.nodes) :
                 \A a \in Names(x.id) : \A y \in Written(tables, a, x.id) : x.attr[a] = y.val
<1>1. \A row \in ShownIn(tables, d) :
         /\ row \in NodeRows(tables) /\ ~row.deleted /\ row.document = d
         /\ row.entity \in NodeId /\ row.type = Kind[row.entity]
         /\ row.type \in {"Sphere", "SetOperation"}
         /\ life[row.entity] = "created"
    BY RowFields, HasNodeIffCreated DEF ShownIn
<1>2. ASSUME NEW row \in ShownIn(tables, d)
      PROVE  /\ NodeOf(tables, row) \in Nodes
             /\ \A a \in Names(row.entity) : \A y \in Written(tables, a, row.entity) :
                   NodeOf(tables, row).attr[a] = y.val
    <2>. DEFINE n == row.entity
    <2>1. ToSet(Attributes(row.type)) = Names(n) /\ Names(n) \subseteq Attribute
        BY <1>1, AttributesAre DEF Names
    <2>2. ASSUME NEW a \in Names(n)
          PROVE  /\ AttributeOf(tables, n, a) \in Value
                 /\ \A y \in Written(tables, a, n) : AttributeOf(tables, n, a) = y.val
        <3>1. PICK x \in Written(tables, a, n) : Written(tables, a, n) = {x} /\ ~x.deleted
            BY <1>1 DEF LifeOK, CreatedOK
        <3>2. x.val \in Nat /\ x.timestamp \in Nat /\ x.val \in Value
            BY <2>1, RowFields
        <3>3. AttributeOf(tables, n, a) = x.val
            BY <3>1, <3>2, OneValue
        <3>. QED  BY <3>1, <3>2, <3>3
    <2>3. NodeOf(tables, row) \in [id: {n}, kind: {Kind[n]}, attr: [ToSet(Attributes(Kind[n])) -> Value]]
        BY <1>1, <2>1, <2>2 DEF NodeOf
    <2>4. NodeOf(tables, row).attr = [a \in Names(n) |-> AttributeOf(tables, n, a)]
        BY <2>1 DEF NodeOf
    <2>. QED  BY <1>1, <2>2, <2>3, <2>4 DEF Nodes
<1>3. /\ ToSet(g.nodes) = {NodeOf(tables, row) : row \in ShownIn(tables, d)}
      /\ \E m \in Nat : DOMAIN g.nodes = 1 .. m
      /\ g.edges = {p \in {row.entity : row \in ShownIn(tables, d)} \X {row.entity : row \in ShownIn(tables, d)} :
                       p[2] \in edges(tables.edge, p[1])}
    BY OpenedNodes
<1>4. \A row : NodeOf(tables, row).id = row.entity
    BY DEF NodeOf
<1>5. Ids(g) = {row.entity : row \in ShownIn(tables, d)}
    <2>1. Ids(g) = {x.id : x \in {NodeOf(tables, row) : row \in ShownIn(tables, d)}}
        BY <1>3, IdsAre
    <2>. QED  BY <1>4, <2>1
<1>6. Ids(g) = {n \in NodeId : life[n] = "created" /\ IsIn(tables, n, d)}
    <2>1. ASSUME NEW n \in NodeId, life[n] = "created", IsIn(tables, n, d)
          PROVE  n \in Ids(g)
        <3>1. PICK row \in NodeRows(tables) : row.entity = n /\ ~row.deleted /\ row.document = d
            BY <2>1 DEF IsIn, Shown
        <3>2. row \in ShownIn(tables, d)
            BY <2>1, <3>1, HasNodeIffCreated DEF ShownIn
        <3>. QED  BY <1>5, <3>1, <3>2
    <2>2. ASSUME NEW n \in Ids(g)
          PROVE  n \in NodeId /\ life[n] = "created" /\ IsIn(tables, n, d)
        BY <1>1, <1>5 DEF IsIn, Shown
    <2>. QED  BY <2>1, <2>2
<1>7. g.edges = {p \in Ids(g) \X Ids(g) : Linked(tables, p[1], p[2])}
    <2>1. \A a, b : b \in edges(tables.edge, a) <=> Linked(tables, a, b)
        BY EdgesAre
    <2>. QED  BY <1>3, <1>5, <2>1
<1>8. g \in Graphs
    <2>1. ToSet(g.nodes) \subseteq Nodes
        BY <1>2, <1>3
    <2>2. g.nodes \in Seq(Nodes)
        <3>1. PICK m \in Nat : DOMAIN g.nodes = 1 .. m
            BY <1>3
        <3>2. \A i \in 1 .. m : g.nodes[i] \in Nodes
            BY <2>1, <3>1 DEF ToSet
        <3>3. g.nodes = [i \in 1 .. m |-> g.nodes[i]]
            BY <3>1 DEF Opened
        <3>. QED  BY <3>1, <3>2, <3>3
    <2>3. g.edges \subseteq NodeId \X NodeId
        BY <1>6, <1>7
    <2>4. g = [nodes |-> g.nodes, edges |-> g.edges]
        BY DEF Opened
    <2>. QED  BY <2>2, <2>3, <2>4 DEF Graphs
<1>9. \A x \in ToSet(g.nodes) :
         \A a \in Names(x.id) : \A y \in Written(tables, a, x.id) : x.attr[a] = y.val
    BY <1>2, <1>3, <1>4
<1>. QED  BY <1>6, <1>7, <1>8, <1>9

-----------------------------------------------------------------------------
(* Graphs *)

LEMMA GraphFields ==
    ASSUME NEW g \in Graphs
    PROVE  /\ g.nodes \in Seq(Nodes) /\ g.edges \subseteq NodeId \X NodeId
           /\ ToSet(g.nodes) \subseteq Nodes /\ Ids(g) \subseteq NodeId
<1>1. g.nodes \in Seq(Nodes) /\ g.edges \subseteq NodeId \X NodeId
    BY DEF Graphs
<1>2. ToSet(g.nodes) \subseteq Nodes
    BY <1>1 DEF ToSet
<1>3. Ids(g) \subseteq NodeId
    BY <1>2, IdsAre, NodeFields
<1>. QED  BY <1>1, <1>2, <1>3

LEMMA EmptyGraphIs == EmptyGraph \in Graphs /\ Ids(EmptyGraph) = {} /\ ToSet(EmptyGraph.nodes) = {}
<1>1. EmptyGraph.nodes = <<>> /\ EmptyGraph.edges = {} /\ EmptyGraph \in Graphs
    BY DEF EmptyGraph, Graphs
<1>2. ToSet(EmptyGraph.nodes) = {}
    BY <1>1 DEF ToSet
<1>. QED  BY <1>1, <1>2, IdsAre

LEMMA CreateGraph ==
    ASSUME NEW g \in Graphs, NEW n \in Nodes
    PROVE  /\ create(g, n) \in Graphs
           /\ create(g, n).edges = g.edges
           /\ ToSet(create(g, n).nodes) = ToSet(g.nodes) \cup {n}
           /\ Ids(create(g, n)) = Ids(g) \cup {n.id}
<1>. DEFINE h == create(g, n)
<1>1. h.nodes = Append(g.nodes, n) /\ h.edges = g.edges /\ h \in [nodes: {h.nodes}, edges: {g.edges}]
    BY DEF create, Graphs
<1>. HIDE DEF h
<1>2. h.nodes \in Seq(Nodes) /\ ToSet(h.nodes) = ToSet(g.nodes) \cup {n}
    <2>1. g.nodes \in Seq(Nodes)
        BY GraphFields
    <2>. QED  BY <1>1, <2>1, ToSetOfAppend
<1>3. h \in Graphs
    BY <1>1, <1>2, GraphFields DEF Graphs
<1>4. Ids(h) = Ids(g) \cup {n.id}
    BY <1>2, IdsAre
<1>. QED  BY <1>1, <1>2, <1>3, <1>4 DEF h

LEMMA RemoveGraph ==
    ASSUME NEW g \in Graphs, NEW id
    PROVE  /\ remove(g, id) \in Graphs
           /\ remove(g, id).edges = {e \in g.edges : e[1] # id /\ e[2] # id}
           /\ ToSet(remove(g, id).nodes) = {x \in ToSet(g.nodes) : x.id # id}
           /\ Ids(remove(g, id)) = Ids(g) \ {id}
<1>. DEFINE h == remove(g, id)
            places == {i \in DOMAIN g.nodes : g.nodes[i].id # id}
<1>1. /\ h.nodes = Selected(g.nodes, places)
      /\ h.edges = {e \in g.edges : e[1] # id /\ e[2] # id}
      /\ h = [nodes |-> h.nodes, edges |-> h.edges]
    BY DEF remove
<1>. HIDE DEF h
<1>2. h.nodes \in Seq(Nodes) /\ ToSet(h.nodes) = {x \in ToSet(g.nodes) : x.id # id}
    <2>1. g.nodes \in Seq(Nodes)
        BY GraphFields
    <2>. HIDE DEF places
    <2>2. h.nodes \in Seq(Nodes) /\ ToSet(h.nodes) = {g.nodes[i] : i \in places \cap DOMAIN g.nodes}
        BY <1>1, <2>1, SelectedHas
    <2>. QED  BY <2>2 DEF places, ToSet
<1>3. h \in Graphs
    BY <1>1, <1>2, GraphFields DEF Graphs
<1>4. Ids(h) = Ids(g) \ {id}
    BY <1>2, IdsAre
<1>. QED  BY <1>1, <1>2, <1>3, <1>4 DEF h

(* The edges of a graph join its nodes and are some of those that are drawn.*)
Drawn(g) == g \in Graphs /\ g.edges \subseteq Drawable \cap (Ids(g) \X Ids(g))

(* regenMesh() comes back: the last node of a walk has no edge into it.     *)
LEMMA DrawnIsMeshSafe ==
    ASSUME NoCycles, NEW g, Drawn(g)
    PROVE  MeshSafe(g)
<1>1. RootsSafe(g)
    BY DEF RootsSafe, Drawn
<1>2. ASSUME NEW walk \in SUBSET Ids(g), walk \cap roots(g) # {},
             \A x \in walk : \E e \in g.edges : e[1] = x /\ e[2] \in walk
      PROVE  FALSE
    <2>1. walk \in SUBSET NodeId /\ walk # {}
        BY <1>2, GraphFields DEF Drawn
    <2>2. PICK x \in walk : \A y \in walk : <<x, y>> \notin Drawable
        BY <2>1 DEF NoCycles
    <2>3. PICK e \in g.edges : e[1] = x /\ e[2] \in walk
        BY <1>2
    <2>4. e = <<x, e[2]>> /\ e \in Drawable
        BY <2>3 DEF Drawn
    <2>. QED  BY <2>2, <2>3, <2>4
<1>3. TreesTerminate(g)
    BY <1>2 DEF TreesTerminate
<1>. QED  BY <1>1, <1>3 DEF MeshSafe

(* Every node is in a tree: of the nodes that are not, one would have no    *)
(* edge from another of them, so would be a root or below one.              *)
LEMMA DrawnIsComplete ==
    ASSUME NoCycles, NEW g, Drawn(g)
    PROVE  InTrees(g) = Ids(g)
<1>1. ASSUME NEW id \in Ids(g), NEW closed \in SUBSET Ids(g), roots(g) \subseteq closed,
             \A e \in g.edges : e[1] \in closed => e[2] \in closed
      PROVE  id \in closed
    <2>. DEFINE out == Ids(g) \ closed
    <2>. SUFFICES ASSUME out # {}
                  PROVE  FALSE
        OBVIOUS
    <2>1. out \in SUBSET NodeId
        BY GraphFields DEF Drawn
    <2>2. PICK y \in out : \A x \in out : <<x, y>> \notin Drawable
        BY <2>1 DEF NoCycles
    <2>3. y \notin roots(g)
        BY <1>1
    <2>4. PICK e \in g.edges : e[2] = y
        BY <2>3 DEF roots
    <2>5. e = <<e[1], y>> /\ e[1] \in Ids(g) /\ e \in Drawable
        BY <2>4 DEF Drawn
    <2>6. e[1] \in closed
        BY <2>2, <2>5
    <2>. QED  BY <1>1, <2>4, <2>6
<1>. QED  BY <1>1 DEF InTrees

-----------------------------------------------------------------------------
(* Each call keeps the invariant *)

Life == [NodeId -> {"unused", "partial", "created", "removed"}]

(* What a creation or a removal leaves of the other nodes.                  *)
LEMMA OthersKept ==
    ASSUME NEW tables, NEW after, NEW n, NEW m \in NodeId \ {n},
           Untouched(tables, after, n), after.edge = tables.edge,
           Shown(after, m) = Shown(tables, m),
           \A row \in NodeRows(after) : row.entity = m => row \in NodeRows(tables)
    PROVE  /\ UnusedOK(tables, m) => UnusedOK(after, m)
           /\ PartialOK(tables, m) => PartialOK(after, m)
           /\ CreatedOK(tables, m) => /\ CreatedOK(after, m)
                                      /\ \A a \in Names(m) : Written(after, a, m) = Written(tables, a, m)
<1>1. Names(m) \subseteq Attribute
    BY KindAssumption, AttributesAre DEF Names
<1>2. \A a \in Attribute : /\ Written(after, a, m) \subseteq Written(tables, a, m)
                           /\ \A x \in Written(tables, a, m) : ~x.deleted => x \in Written(after, a, m)
    BY DEF Untouched
<1>3. UnusedOK(tables, m) => UnusedOK(after, m)
    BY <1>2 DEF UnusedOK
<1>4. PartialOK(tables, m) => PartialOK(after, m)
    BY <1>1, <1>2 DEF PartialOK
<1>5. ASSUME CreatedOK(tables, m)
      PROVE  /\ CreatedOK(after, m)
             /\ \A a \in Names(m) : Written(after, a, m) = Written(tables, a, m)
    <2>1. ASSUME NEW a \in Names(m)
          PROVE  /\ Written(after, a, m) = Written(tables, a, m)
                 /\ \E x \in Written(after, a, m) : Written(after, a, m) = {x} /\ ~x.deleted
        <3>1. PICK x \in Written(tables, a, m) : Written(tables, a, m) = {x} /\ ~x.deleted
            BY <1>5 DEF CreatedOK
        <3>2. Written(after, a, m) = {x}
            BY <1>1, <1>2, <3>1
        <3>. QED  BY <3>1, <3>2
    <2>. QED  BY <1>5, <2>1 DEF CreatedOK
<1>. QED  BY <1>3, <1>4, <1>5

LEMMA GraphNodesKnown ==
    ASSUME NEW tables, NEW d, NEW g, NEW life, NodesOK(tables, d, g, life)
    PROVE  \A n \in Ids(g) : life[n] \in {"created", "removed"}
BY IdsAre DEF NodesOK

LEMMA CreateKeeps ==
    ASSUME NEW t \in Nat, NEW tables \in Tables(t), NEW life \in Life, NEW d \in Document,
           NEW g \in Graphs, LocalOK(tables, life, d, g),
           NEW n \in Nodes, life[n.id] = "unused",
           NEW k \in 0 .. Len(CreateTxs(n, d, t + 1)),
           NEW after, after = Commit(tables, SubSeq(CreateTxs(n, d, t + 1), 1, k)),
           NEW whole \in BOOLEAN, whole <=> k = Len(CreateTxs(n, d, t + 1))
    PROVE  /\ after \in Tables(t + 1)
           /\ LocalOK(after, [life EXCEPT ![n.id] = IF whole THEN "created" ELSE "partial"], d,
                      IF whole THEN create(g, n) ELSE g)
<1>. DEFINE lives == [life EXCEPT ![n.id] = IF whole THEN "created" ELSE "partial"]
            h == IF whole THEN create(g, n) ELSE g
            row == [entity |-> n.id, type |-> n.kind, document |-> d,
                    timestamp |-> t + 1, deleted |-> FALSE]
            V(a) == [entity |-> n.id, val |-> n.attr[a], timestamp |-> t + 1, deleted |-> FALSE]
<1>1. /\ n.id \in NodeId /\ n.kind = Kind[n.id] /\ n.kind \in {"Sphere", "SetOperation"}
      /\ d # NoDocument /\ Names(n.id) \subseteq Attribute
    <2>1. Names(n.id) \subseteq Attribute
        BY NodeFields, AttributesAre DEF Names
    <2>. QED  BY <2>1, NodeFields, ViewModelAssumption
<1>2. /\ LifeOK(tables, life) /\ PairsOK(tables)
      /\ NodesOK(tables, d, g, life) /\ LinksOK(tables, g)
    BY <1>1 DEF LocalOK
<1>3. UnusedOK(tables, n.id)
    BY <1>1, <1>2 DEF LifeOK
<1>4. /\ after \in Tables(t + 1) /\ after.edge = tables.edge /\ Untouched(tables, after, n.id)
      /\ k = 0 => after = tables
      /\ k > 0 => NodeRows(after) = {r \in NodeRows(tables) :
                      ~(r.entity = n.id /\ r.document = d /\ r.timestamp < t + 1) /\ ~r.deleted} \cup {row}
      /\ IF whole THEN \A a \in Names(n.id) : Written(after, a, n.id) = {V(a)}
                  ELSE \E a \in Names(n.id) : Written(after, a, n.id) = {}
    <2>. DEFINE now == t + 1  dead == FALSE
    <2>1. CreateTxs(n, d, now) = NodeTxs(n, n.kind, d, now, dead)
        BY DEF CreateTxs, NodeTxs
    <2>2. now \in Nat /\ now \in 0 .. now /\ tables \in Tables(now) /\ dead \in BOOLEAN /\ ~dead
        BY TablesLater
    <2>3. \A a \in Attribute : Written(tables, a, n.id) = {}
        BY <1>3 DEF UnusedOK
    <2>4. /\ k \in 0 .. Len(NodeTxs(n, n.kind, d, now, dead))
          /\ after = Commit(tables, SubSeq(NodeTxs(n, n.kind, d, now, dead), 1, k))
          /\ whole <=> k = Len(NodeTxs(n, n.kind, d, now, dead))
        BY <2>1
    <2>5. /\ after \in Tables(now) /\ after.edge = tables.edge /\ Untouched(tables, after, n.id)
          /\ k = 0 => after = tables
          /\ k > 0 => NodeRows(after) =
                {r \in NodeRows(tables) :
                   ~(r.entity = n.id /\ r.document = d /\ r.timestamp < now) /\ ~r.deleted}
                \cup {[entity |-> n.id, type |-> n.kind, document |-> d,
                       timestamp |-> now, deleted |-> dead]}
          /\ IF k = Len(NodeTxs(n, n.kind, d, now, dead))
             THEN \A a \in Names(n.id) :
                     Written(after, a, n.id) =
                        {[entity |-> n.id, val |-> n.attr[a], timestamp |-> now, deleted |-> FALSE]}
             ELSE \E a \in Names(n.id) : Written(after, a, n.id) = {}
        <3>. DEFINE txs == NodeTxs(n, n.kind, d, now, dead)
        <3>1. n.kind \in {"Sphere", "SetOperation"}
            BY <1>1
        <3>2. /\ k \in 0 .. Len(txs) /\ after = Commit(tables, SubSeq(txs, 1, k))
              /\ txs = NodeTxs(n, n.kind, d, now, dead)
            BY <2>4
        <3>. HIDE DEF now, dead, txs
        <3>3. /\ after \in Tables(now) /\ after.edge = tables.edge
              /\ Untouched(tables, after, n.id)
              /\ k = 0 => after = tables
              /\ k > 0 => Placed(tables, after, n, n.kind, d, now, dead)
              /\ ~dead => FirstWritten(tables, after, n, now, k = Len(txs))
            BY <3>1, <3>2, <2>2, CommitNodeTables
        <3>. QED  BY <2>2, <2>3, <3>3 DEF txs, Placed, FirstWritten
    <2>. QED  BY <2>4, <2>5
<1>5. whole => k > 0
    <2>1. Len(CreateTxs(n, d, t + 1)) > 0
        <3>. DEFINE later == t + 1  live == FALSE
        <3>0. later \in Nat /\ live \in BOOLEAN
            OBVIOUS
        <3>1. Len(NodeTxs(n, n.kind, d, later, live)) = Len(Attributes(n.kind)) + 1
            <4>. HIDE DEF later, live
            <4>. QED  BY <3>0, NodeTxsAre
        <3>2. CreateTxs(n, d, t + 1) = NodeTxs(n, n.kind, d, t + 1, FALSE)
            BY DEF CreateTxs, NodeTxs
        <3>3. Len(Attributes(n.kind)) \in Nat
            BY <1>1, AttributesAre
        <3>4. Len(Attributes(n.kind)) + 1 > 0
            BY <3>3
        <3>. QED  BY <3>1, <3>2, <3>4
    <2>. QED  BY <2>1
<1>6. \A r \in NodeRows(tables) : r.entity # n.id
    BY <1>3 DEF UnusedOK
<1>7. ASSUME NEW m \in NodeId \ {n.id}
      PROVE  /\ Shown(after, m) = Shown(tables, m)
             /\ \A r \in NodeRows(after) : r.entity = m => r \in NodeRows(tables)
    BY <1>4, <1>6 DEF Shown
<1>8. Shown(after, n.id) = IF k > 0 THEN {row} ELSE {}
    BY <1>4, <1>6 DEF Shown
<1>9. ASSUME NEW m \in NodeId \ {n.id}
      PROVE  /\ UnusedOK(tables, m) => UnusedOK(after, m)
             /\ PartialOK(tables, m) => PartialOK(after, m)
             /\ CreatedOK(tables, m) => /\ CreatedOK(after, m)
                                        /\ \A a \in Names(m) : Written(after, a, m) = Written(tables, a, m)
    BY <1>4, <1>7, OthersKept
<1>10. lives[n.id] = (IF whole THEN "created" ELSE "partial") /\ \A m \in NodeId \ {n.id} : lives[m] = life[m]
    BY <1>1 DEF Life
<1>. HIDE DEF lives
<1>11. LifeOK(after, lives)
    <2>. SUFFICES ASSUME NEW m \in NodeId
                  PROVE  /\ lives[m] = "unused" => UnusedOK(after, m)
                         /\ lives[m] = "partial" => PartialOK(after, m)
                         /\ lives[m] = "created" => CreatedOK(after, m)
                         /\ lives[m] = "removed" => Shown(after, m) = {}
                         /\ \A x, y \in Shown(after, m) : x.type = Kind[m] /\ x.document = y.document
        BY DEF LifeOK
    <2>1. CASE m = n.id
        <3>1. ~whole => PartialOK(after, m)
            BY <1>4, <2>1 DEF PartialOK
        <3>2. whole => CreatedOK(after, m)
            <4>1. V(n.id).deleted = FALSE /\ \A a : ~V(a).deleted
                OBVIOUS
            <4>. HIDE DEF V, row
            <4>. QED  BY <1>4, <1>5, <1>8, <2>1, <4>1 DEF CreatedOK
        <3>3. \A x, y \in Shown(after, m) : x.type = Kind[m] /\ x.document = y.document
            BY <1>1, <1>8, <2>1
        <3>. QED  BY <1>10, <2>1, <3>1, <3>2, <3>3
    <2>2. CASE m # n.id
        BY <1>2, <1>7, <1>9, <1>10, <2>2 DEF LifeOK
    <2>. QED  BY <2>1, <2>2
<1>12. PairsOK(after)
    BY <1>2, <1>4 DEF PairsOK
<1>13. n.id \notin Ids(g)
    BY <1>2, GraphNodesKnown
<1>14. /\ h \in Graphs /\ h.edges = g.edges
       /\ ToSet(h.nodes) = IF whole THEN ToSet(g.nodes) \cup {n} ELSE ToSet(g.nodes)
       /\ Ids(h) = IF whole THEN Ids(g) \cup {n.id} ELSE Ids(g)
    BY CreateGraph
<1>. HIDE DEF h
<1>15. NodesOK(after, d, h, lives)
    <2>1. ASSUME NEW x \in ToSet(h.nodes)
          PROVE  /\ lives[x.id] \in {"created", "removed"}
                 /\ lives[x.id] = "created" =>
                       /\ \A r \in Shown(after, x.id) : r.document = d
                       /\ \A a \in Names(x.id) : \A y \in Written(after, a, x.id) : x.attr[a] = y.val
        <3>1. CASE whole /\ x = n
            <4>1. \A r \in Shown(after, x.id) : r.document = d
                BY <1>8, <3>1
            <4>2. \A a \in Names(x.id) : \A y \in Written(after, a, x.id) : x.attr[a] = y.val
                BY <1>4, <3>1
            <4>. QED  BY <1>10, <3>1, <4>1, <4>2
        <3>2. CASE x \in ToSet(g.nodes)
            <4>1. x.id \in NodeId \ {n.id}
                BY <1>13, <3>2, IdsAre, GraphFields
            <4>2. lives[x.id] = life[x.id] /\ life[x.id] \in {"created", "removed"}
                BY <1>2, <1>10, <3>2, <4>1 DEF NodesOK
            <4>3. ASSUME life[x.id] = "created"
                  PROVE  /\ \A r \in Shown(after, x.id) : r.document = d
                         /\ \A a \in Names(x.id) : \A y \in Written(after, a, x.id) : x.attr[a] = y.val
                <5>1. CreatedOK(tables, x.id)
                    BY <1>2, <4>1, <4>3 DEF LifeOK
                <5>2. /\ Shown(after, x.id) = Shown(tables, x.id)
                      /\ \A a \in Names(x.id) : Written(after, a, x.id) = Written(tables, a, x.id)
                    BY <1>7, <1>9, <4>1, <5>1
                <5>. QED  BY <1>2, <3>2, <4>3, <5>2 DEF NodesOK
            <4>. QED  BY <4>2, <4>3
        <3>. QED  BY <1>14, <3>1, <3>2
    <2>2. ASSUME NEW m \in NodeId, lives[m] = "created", IsIn(after, m, d)
          PROVE  m \in Ids(h)
        <3>1. CASE m = n.id
            BY <1>10, <1>14, <2>2, <3>1
        <3>2. CASE m # n.id
            <4>1. life[m] = "created" /\ IsIn(tables, m, d)
                BY <1>7, <1>10, <2>2, <3>2 DEF IsIn
            <4>. QED  BY <1>2, <1>14, <4>1 DEF NodesOK
        <3>. QED  BY <3>1, <3>2
    <2>. QED  BY <2>1, <2>2 DEF NodesOK
<1>16. LinksOK(after, h)
    <2>1. h.edges \subseteq Drawable \cap (Ids(h) \X Ids(h))
        BY <1>2, <1>14 DEF LinksOK
    <2>2. ASSUME NEW a \in Ids(h), NEW b \in Ids(h)
          PROVE  <<a, b>> \in h.edges <=> Linked(after, a, b)
        <3>1. Linked(after, a, b) <=> Linked(tables, a, b)
            BY <1>4 DEF Linked
        <3>2. CASE a \in Ids(g) /\ b \in Ids(g)
            BY <1>2, <1>14, <3>1, <3>2 DEF LinksOK
        <3>3. CASE a = n.id \/ b = n.id
            <4>1. ~Linked(tables, a, b)
                BY <1>3, <3>3 DEF Linked, UnusedOK
            <4>2. <<a, b>> \notin g.edges
                BY <1>2, <1>13, <3>3 DEF LinksOK
            <4>. QED  BY <1>14, <3>1, <4>1, <4>2
        <3>. QED  BY <1>14, <3>2, <3>3
    <2>. QED  BY <2>1, <2>2 DEF LinksOK
<1>. QED  BY <1>1, <1>4, <1>11, <1>12, <1>15, <1>16 DEF LocalOK, lives, h

LEMMA RemoveKeeps ==
    ASSUME NEW t \in Nat, NEW tables \in Tables(t), NEW life \in Life, NEW d \in Document,
           NEW g \in Graphs, LocalOK(tables, life, d, g),
           NEW n \in ToSet(g.nodes),
           NEW k \in 0 .. Len(RemoveTxs(n, d, t + 1)),
           NEW after, after = Commit(tables, SubSeq(RemoveTxs(n, d, t + 1), 1, k)),
           NEW whole \in BOOLEAN, whole <=> k = Len(RemoveTxs(n, d, t + 1))
    PROVE  /\ after \in Tables(t + 1)
           /\ LocalOK(after, [life EXCEPT ![n.id] = IF k > 0 THEN "removed" ELSE @], d,
                      IF whole THEN remove(g, n.id) ELSE g)
<1>. DEFINE lives == [life EXCEPT ![n.id] = IF k > 0 THEN "removed" ELSE @]
            h == IF whole THEN remove(g, n.id) ELSE g
            row == [entity |-> n.id, type |-> "Sphere", document |-> d,
                    timestamp |-> t + 1, deleted |-> TRUE]
<1>1. n \in Nodes /\ n.id \in NodeId /\ d # NoDocument /\ n.id \in Ids(g)
    BY GraphFields, NodeFields, IdsAre, ViewModelAssumption
<1>2. /\ LifeOK(tables, life) /\ PairsOK(tables)
      /\ NodesOK(tables, d, g, life) /\ LinksOK(tables, g)
    BY <1>1 DEF LocalOK
<1>3. /\ life[n.id] \in {"created", "removed"}
      /\ \A r \in Shown(tables, n.id) : r.document = d
    BY <1>1, <1>2 DEF NodesOK, LifeOK
<1>4. /\ k > 0 \/ ~whole
      /\ after \in Tables(t + 1) /\ after.edge = tables.edge /\ Untouched(tables, after, n.id)
      /\ k = 0 => after = tables
      /\ k > 0 => NodeRows(after) = {r \in NodeRows(tables) :
                      ~(r.entity = n.id /\ r.document = d /\ r.timestamp < t + 1) /\ ~r.deleted} \cup {row}
    <2>. DEFINE now == t + 1  dead == TRUE  kind == "Sphere"
                txs == NodeTxs(n, kind, d, now, dead)
    <2>1. RemoveTxs(n, d, now) = txs
        BY DEF RemoveTxs, NodeTxs
    <2>2. now \in Nat /\ now \in 0 .. now /\ tables \in Tables(now) /\ dead \in BOOLEAN
        BY TablesLater
    <2>3. kind \in {"Sphere", "SetOperation"} /\ n \in Nodes
        BY <1>1
    <2>4. /\ k \in 0 .. Len(txs) /\ after = Commit(tables, SubSeq(txs, 1, k))
          /\ txs = NodeTxs(n, kind, d, now, dead) /\ (whole <=> k = Len(txs))
        BY <2>1
    <2>. HIDE DEF now, dead, kind, txs
    <2>5. /\ after \in Tables(now) /\ after.edge = tables.edge /\ Untouched(tables, after, n.id)
          /\ k = 0 => after = tables
          /\ k > 0 => Placed(tables, after, n, kind, d, now, dead)
        BY <2>2, <2>3, <2>4, CommitNodeTables
    <2>6. Len(txs) = Len(Attributes(n.kind)) + 1
        BY <2>2, <2>3, <2>4, NodeTxsAre
    <2>7. Len(Attributes(n.kind)) \in Nat
        BY <1>1, NodeFields, AttributesAre
    <2>8. k > 0 \/ ~whole
        BY <2>4, <2>6, <2>7
    <2>. QED  BY <2>5, <2>8 DEF now, dead, kind, Placed
<1>5. ASSUME NEW m \in NodeId \ {n.id}
      PROVE  /\ Shown(after, m) = Shown(tables, m)
             /\ \A r \in NodeRows(after) : r.entity = m => r \in NodeRows(tables)
    <2>1. k > 0 \/ after = tables
        BY <1>4
    <2>. QED  BY <1>4, <2>1 DEF Shown
<1>6. k > 0 => Shown(after, n.id) = {}
    <2>. SUFFICES ASSUME k > 0, NEW r \in NodeRows(tables), r.entity = n.id, ~r.deleted,
                         ~(r.entity = n.id /\ r.document = d /\ r.timestamp < t + 1)
                  PROVE  FALSE
        BY <1>4 DEF Shown
    <2>1. r \in Shown(tables, n.id)
        BY DEF Shown
    <2>2. r.timestamp \in 0 .. t
        BY RowFields
    <2>. QED  BY <1>3, <2>1, <2>2
<1>7. ASSUME NEW m \in NodeId \ {n.id}
      PROVE  /\ UnusedOK(tables, m) => UnusedOK(after, m)
             /\ PartialOK(tables, m) => PartialOK(after, m)
             /\ CreatedOK(tables, m) => /\ CreatedOK(after, m)
                                        /\ \A a \in Names(m) : Written(after, a, m) = Written(tables, a, m)
    BY <1>4, <1>5, OthersKept
<1>8. /\ lives[n.id] = IF k > 0 THEN "removed" ELSE life[n.id]
      /\ \A m \in NodeId \ {n.id} : lives[m] = life[m]
    BY <1>1 DEF Life
<1>. HIDE DEF lives
<1>9. CASE k = 0
    <2>1. after = tables /\ lives = life
        BY <1>4, <1>9 DEF lives, Life
    <2>2. ~whole
        BY <1>4, <1>9
    <2>. QED  BY <1>4, <2>1, <2>2 DEF lives
<1>10. CASE k > 0
    <2>1. LifeOK(after, lives)
        <3>. SUFFICES ASSUME NEW m \in NodeId
                      PROVE  /\ lives[m] = "unused" => UnusedOK(after, m)
                             /\ lives[m] = "partial" => PartialOK(after, m)
                             /\ lives[m] = "created" => CreatedOK(after, m)
                             /\ lives[m] = "removed" => Shown(after, m) = {}
                             /\ \A x, y \in Shown(after, m) : x.type = Kind[m] /\ x.document = y.document
            BY DEF LifeOK
        <3>1. CASE m = n.id
            BY <1>6, <1>8, <1>10, <3>1
        <3>2. CASE m # n.id
            BY <1>2, <1>5, <1>7, <1>8, <3>2 DEF LifeOK
        <3>. QED  BY <3>1, <3>2
    <2>2. PairsOK(after)
        BY <1>2, <1>4 DEF PairsOK
    <2>3. /\ h \in Graphs
          /\ h.edges \subseteq g.edges
          /\ ToSet(h.nodes) \subseteq ToSet(g.nodes)
          /\ Ids(h) = (IF whole THEN Ids(g) \ {n.id} ELSE Ids(g))
          /\ \A a, b \in Ids(h) : <<a, b>> \in h.edges <=> <<a, b>> \in g.edges
        <3>1. CASE whole
            <4>1. /\ h \in Graphs
                  /\ h.edges = {e \in g.edges : e[1] # n.id /\ e[2] # n.id}
                  /\ ToSet(h.nodes) = {x \in ToSet(g.nodes) : x.id # n.id}
                  /\ Ids(h) = Ids(g) \ {n.id}
                BY <3>1, RemoveGraph
            <4>. HIDE DEF h
            <4>2. \A a, b \in Ids(h) : <<a, b>> \in h.edges <=> <<a, b>> \in g.edges
                BY <4>1
            <4>. QED  BY <3>1, <4>1, <4>2
        <3>2. CASE ~whole
            BY <3>2
        <3>. QED  BY <3>1, <3>2
    <2>4. ASSUME NEW e \in h.edges
          PROVE  e \in Drawable \cap (Ids(h) \X Ids(h))
        <3>1. e \in Drawable \cap (Ids(g) \X Ids(g))
            BY <1>2, <2>3, <2>4 DEF LinksOK
        <3>2. whole => e[1] # n.id /\ e[2] # n.id
            <4>1. whole => h.edges = {f \in g.edges : f[1] # n.id /\ f[2] # n.id}
                BY RemoveGraph
            <4>. HIDE DEF h
            <4>. QED  BY <4>1, <2>4
        <3>. HIDE DEF h
        <3>. QED  BY <2>3, <3>1, <3>2
    <2>. HIDE DEF h
    <2>5. NodesOK(after, d, h, lives)
        <3>1. ASSUME NEW x \in ToSet(h.nodes)
              PROVE  /\ lives[x.id] \in {"created", "removed"}
                     /\ lives[x.id] = "created" =>
                           /\ \A r \in Shown(after, x.id) : r.document = d
                           /\ \A a \in Names(x.id) : \A y \in Written(after, a, x.id) : x.attr[a] = y.val
            <4>1. x \in ToSet(g.nodes) /\ x.id \in NodeId
                BY <2>3, GraphFields, NodeFields
            <4>2. CASE x.id = n.id
                BY <1>8, <1>10, <4>2
            <4>3. CASE x.id # n.id
                <5>1. lives[x.id] = life[x.id] /\ life[x.id] \in {"created", "removed"}
                    BY <1>2, <1>8, <4>1, <4>3 DEF NodesOK
                <5>2. ASSUME life[x.id] = "created"
                      PROVE  /\ \A r \in Shown(after, x.id) : r.document = d
                             /\ \A a \in Names(x.id) : \A y \in Written(after, a, x.id) : x.attr[a] = y.val
                    <6>1. CreatedOK(tables, x.id)
                        BY <1>2, <4>1, <5>2 DEF LifeOK
                    <6>2. /\ Shown(after, x.id) = Shown(tables, x.id)
                          /\ \A a \in Names(x.id) : Written(after, a, x.id) = Written(tables, a, x.id)
                        BY <1>5, <1>7, <4>1, <4>3, <6>1
                    <6>. QED  BY <1>2, <4>1, <5>2, <6>2 DEF NodesOK
                <5>. QED  BY <5>1, <5>2
            <4>. QED  BY <4>2, <4>3
        <3>2. ASSUME NEW m \in NodeId, lives[m] = "created", IsIn(after, m, d)
              PROVE  m \in Ids(h)
            <4>1. m # n.id
                BY <1>8, <1>10, <3>2
            <4>2. life[m] = "created" /\ IsIn(tables, m, d)
                BY <1>5, <1>8, <3>2, <4>1 DEF IsIn
            <4>. QED  BY <1>2, <2>3, <4>1, <4>2 DEF NodesOK
        <3>. QED  BY <3>1, <3>2 DEF NodesOK
    <2>6. LinksOK(after, h)
        <3>1. ASSUME NEW a \in Ids(h), NEW b \in Ids(h)
              PROVE  <<a, b>> \in h.edges <=> Linked(after, a, b)
            <4>1. Linked(after, a, b) <=> Linked(tables, a, b)
                BY <1>4 DEF Linked
            <4>. QED  BY <1>2, <2>3, <4>1 DEF LinksOK
        <3>. QED  BY <2>4, <3>1 DEF LinksOK
    <2>. QED  BY <1>1, <1>4, <2>1, <2>2, <2>5, <2>6 DEF LocalOK, lives, h
<1>. QED  BY <1>9, <1>10

(* A row that is written to the edge table now takes the place of any other *)
(* of its pair, and some tombstones go.                                     *)
LEMMA ConnectIs ==
    ASSUME NEW t \in Nat, NEW tables \in Tables(t), PairsOK(tables),
           NEW from \in NodeId, NEW to \in NodeId, <<from, to>> \in Drawable,
           NEW deleted \in BOOLEAN, NEW row,
           row = [entity |-> from, entity_to |-> to, timestamp |-> t + 1, deleted |-> deleted],
           NEW edge, edge = connectI(tables.edge, from, to, t + 1, deleted)
    PROVE  /\ row \in edge
           /\ \A x \in edge : x = row \/ (x \in tables.edge /\ ~(x.entity = from /\ x.entity_to = to))
           /\ \A x \in tables.edge : x \in edge \/ x.deleted \/ (x.entity = from /\ x.entity_to = to)
<1>1. \A x \in tables.edge : x.timestamp < t + 1
    BY RowFields
<1>2. edge = {x \in tables.edge : ~(/\ x.timestamp < t + 1
                                    /\ (x.entity = from /\ x.entity_to = to) \/ x.deleted)}
             \cup {row}
    BY DEF connectI
<1>3. \A x \in tables.edge :
         x \in edge <=> x = row \/ ~((x.entity = from /\ x.entity_to = to) \/ x.deleted)
    BY <1>1, <1>2
<1>4. row \in edge /\ \A x \in edge : x = row \/ x \in tables.edge
    BY <1>2, Zenon
<1>5. ASSUME NEW x \in edge, x # row
      PROVE  x \in tables.edge /\ ~(x.entity = from /\ x.entity_to = to)
    BY <1>3, <1>4, <1>5
<1>6. ASSUME NEW x \in tables.edge, x \notin edge
      PROVE  x.deleted \/ (x.entity = from /\ x.entity_to = to)
    BY <1>3, <1>6
<1>. QED  BY <1>4, <1>5, <1>6

EdgesAfter(links, from, to, deleted) ==
    IF deleted THEN links \ {<<from, to>>} ELSE links \cup {<<from, to>>}

(* An edge is drawn or taken away between two nodes of the graph.           *)
LEMMA EdgeKeeps ==
    ASSUME NEW t \in Nat, NEW tables \in Tables(t), NEW life \in Life, NEW d \in Document,
           NEW g \in Graphs, LocalOK(tables, life, d, g),
           NEW from \in Ids(g), NEW to \in Ids(g), <<from, to>> \in Drawable,
           NEW deleted \in BOOLEAN, NEW k \in 0 .. 1,
           NEW after, after = Commit(tables, SubSeq(<<EdgeTx(from, to, t + 1, deleted)>>, 1, k)),
           NEW h \in Graphs, h.nodes = g.nodes,
           h.edges = IF k = 0 THEN g.edges ELSE EdgesAfter(g.edges, from, to, deleted)
    PROVE  /\ after \in Tables(t + 1)
           /\ LocalOK(after, life, d, h)
<1>. DEFINE now == t + 1
            row == [entity |-> from, entity_to |-> to, timestamp |-> now, deleted |-> deleted]
<1>1. d # NoDocument /\ from \in NodeId /\ to \in NodeId
    BY GraphFields, ViewModelAssumption
<1>2. /\ LifeOK(tables, life) /\ PairsOK(tables)
      /\ NodesOK(tables, d, g, life) /\ LinksOK(tables, g)
    BY <1>1 DEF LocalOK
<1>3. /\ k = 0 => after = tables
      /\ k = 1 => /\ after \in Tables(now)
                  /\ after.document = tables.document /\ after.store = tables.store
                  /\ after.edge = connectI(tables.edge, from, to, now, deleted)
    <2>1. tables \in Tables(now) /\ now \in Nat /\ now \in 0 .. now
        BY TablesLater
    <2>. HIDE DEF now
    <2>. QED  BY <1>1, <2>1, CommitEdge DEF now
<1>4. CASE k = 0
    <2>1. after = tables /\ after \in Tables(now)
        BY <1>3, <1>4, TablesLater
    <2>2. g = [nodes |-> g.nodes, edges |-> g.edges] /\ h = [nodes |-> h.nodes, edges |-> h.edges]
        BY DEF Graphs
    <2>3. h.edges = g.edges
        BY <1>4
    <2>4. h = g
        BY <2>2, <2>3
    <2>. QED  BY <2>1, <2>4
<1>5. CASE k = 1
    <2>1. /\ row \in after.edge
          /\ \A x \in after.edge : x = row \/ (x \in tables.edge /\ ~(x.entity = from /\ x.entity_to = to))
          /\ \A x \in tables.edge : x \in after.edge \/ x.deleted \/ (x.entity = from /\ x.entity_to = to)
        BY <1>1, <1>2, <1>3, <1>5, ConnectIs
    <2>2. row.entity = from /\ row.entity_to = to /\ row.deleted = deleted
        OBVIOUS
    <2>. HIDE DEF row
    <2>3. \A n : /\ Shown(after, n) = Shown(tables, n)
                 /\ \A a : Written(after, a, n) = Written(tables, a, n)
        BY <1>3, <1>5 DEF Shown, Written, NodeRows
    <2>4. NodeRows(after) = NodeRows(tables)
        BY <1>3, <1>5 DEF NodeRows
    <2>5. life[from] # "unused" /\ life[to] # "unused"
        BY <1>2, GraphNodesKnown
    <2>6. LifeOK(after, life)
        <3>1. ASSUME NEW n \in NodeId
              PROVE  /\ PartialOK(tables, n) => PartialOK(after, n)
                     /\ CreatedOK(tables, n) => CreatedOK(after, n)
                     /\ life[n] = "unused" /\ UnusedOK(tables, n) => UnusedOK(after, n)
            <4>1. PartialOK(tables, n) => PartialOK(after, n)
                BY <2>3 DEF PartialOK
            <4>2. CreatedOK(tables, n) => CreatedOK(after, n)
                BY <2>3 DEF CreatedOK
            <4>3. life[n] = "unused" /\ UnusedOK(tables, n) => UnusedOK(after, n)
                BY <2>1, <2>2, <2>3, <2>4, <2>5 DEF UnusedOK
            <4>. QED  BY <4>1, <4>2, <4>3
        <3>. QED  BY <1>2, <2>3, <3>1 DEF LifeOK
    <2>7. PairsOK(after)
        <3>1. ASSUME NEW x \in after.edge, x # row
              PROVE  x \in tables.edge /\ ~(x.entity = from /\ x.entity_to = to)
            BY <2>1, <3>1
        <3>2. \A x \in after.edge : <<x.entity, x.entity_to>> \in Drawable
            BY <1>2, <2>2, <3>1 DEF PairsOK
        <3>3. ASSUME NEW x \in after.edge, NEW y \in after.edge,
                     x.entity = y.entity, x.entity_to = y.entity_to
              PROVE  x = y
            <4>1. CASE x = row \/ y = row
                BY <2>2, <3>1, <3>3, <4>1
            <4>2. CASE x # row /\ y # row
                BY <1>2, <3>1, <3>3, <4>2 DEF PairsOK
            <4>. QED  BY <4>1, <4>2
        <3>. QED  BY <3>2, <3>3 DEF PairsOK
    <2>8. Ids(h) = Ids(g)
        BY DEF Ids
    <2>9. NodesOK(after, d, h, life)
        BY <1>2, <2>3, <2>8 DEF NodesOK, IsIn
    <2>10. h.edges = IF deleted THEN g.edges \ {<<from, to>>} ELSE g.edges \cup {<<from, to>>}
        BY <1>5 DEF EdgesAfter
    <2>11. LinksOK(after, h)
        <3>1. h.edges \subseteq Drawable \cap (Ids(h) \X Ids(h))
            BY <1>2, <2>8, <2>10 DEF LinksOK
        <3>2. ASSUME NEW a \in Ids(h), NEW b \in Ids(h)
              PROVE  <<a, b>> \in h.edges <=> Linked(after, a, b)
            <4>1. CASE a = from /\ b = to
                <5>1. Linked(after, a, b) <=> ~deleted
                    BY <2>1, <2>2, <4>1 DEF Linked
                <5>. QED  BY <2>10, <4>1, <5>1
            <4>2. CASE ~(a = from /\ b = to)
                <5>1. Linked(after, a, b) <=> Linked(tables, a, b)
                    BY <2>1, <2>2, <4>2 DEF Linked
                <5>2. <<a, b>> # <<from, to>>
                    BY <4>2
                <5>. QED  BY <1>2, <2>8, <2>10, <3>2, <5>1, <5>2 DEF LinksOK
            <4>. QED  BY <4>1, <4>2
        <3>. QED  BY <3>1, <3>2 DEF LinksOK
    <2>. QED  BY <1>1, <1>3, <1>5, <2>6, <2>7, <2>9, <2>11 DEF LocalOK
<1>. QED  BY <1>4, <1>5

LEMMA OpenKeeps ==
    ASSUME NEW t \in Nat, NEW tables \in Tables(t), NEW life \in Life,
           NEW d \in Document \cup {NoDocument}, NEW g, LocalOK(tables, life, d, g),
           NEW e \in Document
    PROVE  /\ Opened(tables, e) \in Graphs
           /\ LocalOK(tables, life, e, Opened(tables, e))
<1>. DEFINE h == Opened(tables, e)
<1>1. LifeOK(tables, life) /\ PairsOK(tables) /\ e # NoDocument
    BY ViewModelAssumption DEF LocalOK
<1>2. /\ h \in Graphs
      /\ Ids(h) = {n \in NodeId : life[n] = "created" /\ IsIn(tables, n, e)}
      /\ h.edges = {p \in Ids(h) \X Ids(h) : Linked(tables, p[1], p[2])}
      /\ \A x \in ToSet(h.nodes) :
            \A a \in Names(x.id) : \A y \in Written(tables, a, x.id) : x.attr[a] = y.val
    <2>1. life \in [NodeId -> {"unused", "partial", "created", "removed"}]
        BY DEF Life
    <2>. QED  BY <1>1, <2>1, OpenedIs
<1>. HIDE DEF h
<1>3. NodesOK(tables, e, h, life)
    <2>1. ASSUME NEW x \in ToSet(h.nodes)
          PROVE  life[x.id] = "created" /\ \A row \in Shown(tables, x.id) : row.document = e
        <3>1. x.id \in NodeId /\ life[x.id] = "created" /\ IsIn(tables, x.id, e)
            BY <1>2, <2>1, IdsAre
        <3>. QED  BY <1>1, <3>1 DEF IsIn, LifeOK
    <2>. QED  BY <1>2, <2>1 DEF NodesOK
<1>4. LinksOK(tables, h)
    <2>1. h.edges \subseteq Drawable
        <3>1. ASSUME NEW p \in h.edges
              PROVE  p \in Drawable
            <4>1. p = <<p[1], p[2]>> /\ Linked(tables, p[1], p[2])
                BY <1>2, <3>1
            <4>. QED  BY <1>1, <4>1 DEF Linked, PairsOK
        <3>. QED  BY <3>1
    <2>. QED  BY <1>2, <2>1 DEF LinksOK
<1>. QED  BY <1>1, <1>2, <1>3, <1>4 DEF LocalOK, h

LEMMA LocalIsDrawn ==
    ASSUME NEW tables, NEW life, NEW d, NEW g \in Graphs, LocalOK(tables, life, d, g)
    PROVE  Drawn(g)
<1>1. CASE d = NoDocument
    <2>1. g.edges = {}
        BY <1>1 DEF LocalOK, EmptyGraph
    <2>. QED  BY <2>1 DEF Drawn
<1>2. CASE d # NoDocument
    BY <1>2 DEF LocalOK, LinksOK, Drawn
<1>. QED  BY <1>1, <1>2

-----------------------------------------------------------------------------
(* Steps *)

LEMMA Here ==
    ASSUME LocalInv, NEW r \in Replica
    PROVE  /\ clock \in 0 .. MaxTime /\ clock \in Nat /\ MaxTime \in Nat
           /\ db[r] \in Tables(clock) /\ stage \in Life /\ graph[r] \in Graphs
           /\ open[r] \in Document \cup {NoDocument}
           /\ open[r] # NoDocument => open[r] \in Document
           /\ LifeOK(db[r], stage) /\ PairsOK(db[r])
           /\ r \notin crashed => LocalOK(db[r], stage, open[r], graph[r])
<1>1. clock \in 0 .. MaxTime /\ MaxTime \in Nat
    BY ViewModelAssumption DEF LocalInv, LocalTypes
<1>. QED  BY <1>1 DEF LocalInv, LocalTypes, Life

(* A call that has left the tables of the only replica in order, and its    *)
(* graph unless the replica has stopped.                                    *)
LEMMA StepKeeps ==
    ASSUME LocalInv, NEW r, Replica = {r},
           NEW after, NEW h \in Graphs, NEW life \in Life, NEW d \in Document \cup {NoDocument},
           clock' \in 0 .. MaxTime, after \in Tables(clock'),
           LifeOK(after, life), PairsOK(after),
           r \notin crashed' => LocalOK(after, life, d, h),
           db' = [db EXCEPT ![r] = after], graph' = [graph EXCEPT ![r] = h],
           open' = [open EXCEPT ![r] = d],
           stage' = life, crashed' \subseteq Replica, inbox' = inbox
    PROVE  LocalInv'
<1>1. /\ db'[r] = after /\ db' \in [Replica -> Tables(clock')]
      /\ graph'[r] = h /\ graph' \in [Replica -> Graphs]
      /\ open'[r] = d /\ open' \in [Replica -> Document \cup {NoDocument}]
    <2>1. r \in Replica /\ \A q \in Replica : q = r
        OBVIOUS
    <2>2. DOMAIN db = Replica /\ DOMAIN graph = Replica /\ DOMAIN open = Replica
        BY DEF LocalInv, LocalTypes
    <2>. QED  BY <2>1, <2>2
<1>2. LocalTypes'
    BY <1>1 DEF LocalTypes, LocalInv, Life
<1>3. \A q \in Replica :
         /\ LifeOK(db'[q], stage') /\ PairsOK(db'[q])
         /\ q \notin crashed' => LocalOK(db'[q], stage', open'[q], graph'[q])
    BY <1>1
<1>. QED  BY <1>2, <1>3 DEF LocalInv

LEMMA PostIsSilent ==
    ASSUME LocalInv, NEW r, Replica = {r}, NEW messages
    PROVE  Post(inbox, r, messages) = inbox
<1>1. inbox = [q \in Replica |-> <<>>]
    BY DEF LocalInv, LocalTypes
<1>. QED  BY <1>1 DEF Post

(* What a call leaves that goes through Outcome.                            *)
LEMMA OutcomeKeeps ==
    ASSUME LocalInv, NEW r, Replica = {r}, NEW messages, NEW txs, NEW g, NEW safe,
           NEW k, Outcome(r, txs, k, Post(inbox, r, messages), g, safe),
           NEW after, after = Commit(db[r], SubSeq(txs, 1, k)),
           NEW h \in Graphs, h = IF k = Len(txs) THEN g ELSE graph[r],
           clock < MaxTime, clock' = clock + 1,
           after \in Tables(clock + 1), stage' \in Life,
           LocalOK(after, stage', open[r], h)
    PROVE  LocalInv'
<1>1. /\ db' = [db EXCEPT ![r] = after] /\ open' = open /\ inbox' = inbox
    BY PostIsSilent DEF Outcome
<1>2. /\ clock' \in 0 .. MaxTime
      /\ open' = [open EXCEPT ![r] = open[r]] /\ open[r] \in Document \cup {NoDocument}
      /\ graph = [graph EXCEPT ![r] = graph[r]] /\ graph[r] \in Graphs
      /\ crashed \subseteq Replica
    BY <1>1, Here DEF LocalInv, LocalTypes
<1>3. LifeOK(after, stage') /\ PairsOK(after)
    BY DEF LocalOK
<1>4. CASE k = Len(txs) /\ ~safe
    <2>1. graph' = [graph EXCEPT ![r] = graph[r]] /\ crashed' = crashed \cup {r}
        BY <1>2, <1>4 DEF Outcome
    <2>2. r \in crashed' /\ crashed' \subseteq Replica
        BY <1>2, <2>1
    <2>3. LocalInv'
        <3>. DEFINE life == stage'  shown == graph[r]  d == open[r]
        <3>1. /\ shown \in Graphs /\ life \in Life /\ d \in Document \cup {NoDocument}
              /\ clock' \in 0 .. MaxTime /\ after \in Tables(clock')
              /\ LifeOK(after, life) /\ PairsOK(after)
              /\ r \notin crashed' => LocalOK(after, life, d, shown)
              /\ db' = [db EXCEPT ![r] = after] /\ graph' = [graph EXCEPT ![r] = shown]
              /\ open' = [open EXCEPT ![r] = d] /\ stage' = life /\ inbox' = inbox
            BY <1>1, <1>2, <1>3, <2>1, <2>2
        <3>. HIDE DEF life, shown, d
        <3>. QED  BY <2>2, <3>1, StepKeeps
    <2>. QED  BY <2>3
<1>5. CASE k = Len(txs) => safe
    <2>1. graph' = [graph EXCEPT ![r] = h] /\ crashed' = crashed
        BY <1>2, <1>5 DEF Outcome
    <2>2. LocalInv'
        <3>. DEFINE life == stage'  d == open[r]
        <3>1. /\ life \in Life /\ d \in Document \cup {NoDocument}
              /\ clock' \in 0 .. MaxTime /\ after \in Tables(clock')
              /\ LifeOK(after, life) /\ PairsOK(after) /\ crashed' \subseteq Replica
              /\ r \notin crashed' => LocalOK(after, life, d, h)
              /\ db' = [db EXCEPT ![r] = after] /\ graph' = [graph EXCEPT ![r] = h]
              /\ open' = [open EXCEPT ![r] = d] /\ stage' = life /\ inbox' = inbox
            BY <1>1, <1>2, <1>3, <2>1
        <3>. HIDE DEF life, d
        <3>. QED  BY <3>1, StepKeeps
    <2>. QED  BY <2>2
<1>. QED  BY <1>4, <1>5

LEMMA UserCreateKeeps ==
    ASSUME LocalInv, NEW r, Replica = {r}, r \notin crashed,
           NEW n \in Handed, UserCreate(r, n)
    PROVE  LocalInv' /\ (NoCycles => crashed' = crashed)
<1>. DEFINE t == clock  d == open[r]  txs == CreateTxs(n, d, t + 1)
            g == create(graph[r], n)  sent == AnnounceCreate(n, d, t + 1)
            safe == MeshSafe(g)
<1>1. PICK k \in Progress(txs) :
         /\ Outcome(r, txs, k, Post(inbox, r, SentAfterAll(sent, txs, k)), g, safe)
         /\ stage' = [stage EXCEPT ![n.id] = IF k = Len(txs) THEN "created" ELSE "partial"]
    BY DEF UserCreate
<1>2. /\ clock < MaxTime /\ clock' = clock + 1 /\ d # NoDocument /\ stage[n.id] = "unused"
    BY DEF UserCreate, UserCall
<1>3. /\ n \in Nodes /\ n.id \in NodeId
      /\ t \in Nat /\ db[r] \in Tables(t) /\ stage \in Life /\ graph[r] \in Graphs
      /\ d \in Document /\ LocalOK(db[r], stage, d, graph[r])
    BY <1>2, Here, NodeFields DEF Handed
<1>4. PICK whole \in BOOLEAN : whole <=> k = Len(txs)
    OBVIOUS
<1>5. k \in 0 .. Len(txs)
    <2>1. Len(CreateTxs(n, d, t + 1)) \in Nat
        <3>. DEFINE later == t + 1  live == FALSE
                    all == NodeTxs(n, n.kind, d, later, live)
        <3>1. later \in Nat /\ live \in BOOLEAN /\ all = NodeTxs(n, n.kind, d, later, live)
            BY <1>3
        <3>2. CreateTxs(n, d, t + 1) = all
            BY DEF CreateTxs, NodeTxs
        <3>. HIDE DEF later, live, all, txs
        <3>3. Len(all) = Len(Attributes(n.kind)) + 1
            BY <1>3, <3>1, NodeTxsAre
        <3>4. Len(Attributes(n.kind)) \in Nat
            BY <1>3, NodeFields, AttributesAre
        <3>. QED  BY <3>2, <3>3, <3>4
    <2>. HIDE DEF txs
    <2>2. Len(txs) \in Nat
        BY <2>1 DEF txs
    <2>. QED  BY <2>2 DEF Progress
<1>. DEFINE after == Commit(db[r], SubSeq(txs, 1, k))
            h == IF whole THEN g ELSE graph[r]
            lives == [stage EXCEPT ![n.id] = IF whole THEN "created" ELSE "partial"]
<1>6. after \in Tables(t + 1) /\ LocalOK(after, lives, d, h)
    <2>. DEFINE tables == db[r]  life == stage  shown == graph[r]
    <2>1. /\ tables \in Tables(t) /\ life \in Life /\ shown \in Graphs
          /\ LocalOK(tables, life, d, shown) /\ life[n.id] = "unused"
          /\ k \in 0 .. Len(CreateTxs(n, d, t + 1))
          /\ after = Commit(tables, SubSeq(CreateTxs(n, d, t + 1), 1, k))
          /\ whole <=> k = Len(CreateTxs(n, d, t + 1))
        BY <1>2, <1>3, <1>4, <1>5
    <2>. HIDE DEF tables, life, shown, after, t, d
    <2>2. /\ after \in Tables(t + 1)
          /\ LocalOK(after, [life EXCEPT ![n.id] = IF whole THEN "created" ELSE "partial"], d,
                     IF whole THEN create(shown, n) ELSE shown)
        BY <1>3, <2>1, CreateKeeps
    <2>. QED  BY <2>2 DEF life, shown
<1>7. stage' = lives /\ lives \in Life
    BY <1>1, <1>3, <1>4 DEF Life
<1>8. h \in Graphs
    BY <1>3, CreateGraph
<1>9. NoCycles /\ whole => safe
    <2>1. Drawn(h)
        <3>. HIDE DEF h, lives, after, d
        <3>. QED  BY <1>6, <1>8, LocalIsDrawn
    <2>. QED  BY <2>1, DrawnIsMeshSafe
<1>10. h = IF k = Len(txs) THEN g ELSE graph[r]
    BY <1>4
<1>11. after \in Tables(clock + 1) /\ LocalOK(after, stage', open[r], h) /\ stage' \in Life
    BY <1>6, <1>7
<1>12. after = Commit(db[r], SubSeq(txs, 1, k))
    OBVIOUS
<1>. DEFINE messages == SentAfterAll(sent, txs, k)
<1>13. Outcome(r, txs, k, Post(inbox, r, messages), g, safe)
    BY <1>1
<1>. HIDE DEF messages, txs, g, safe, after, h, lives
<1>14. NoCycles => (k = Len(txs) => safe)
    BY <1>4, <1>9
<1>15. LocalInv'
    BY <1>2, <1>8, <1>10, <1>11, <1>12, <1>13, OutcomeKeeps
<1>16. NoCycles => crashed' = crashed
    BY <1>13, <1>14 DEF Outcome
<1>. QED  BY <1>15, <1>16

LEMMA UserRemoveKeeps ==
    ASSUME LocalInv, NEW r, Replica = {r}, r \notin crashed,
           NEW n \in ToSet(graph[r].nodes), UserRemove(r, n)
    PROVE  LocalInv' /\ (NoCycles => crashed' = crashed)
<1>. DEFINE t == clock  d == open[r]  txs == RemoveTxs(n, d, t + 1)
            g == remove(graph[r], n.id)  sent == AnnounceRemove(n, d, t + 1)
            safe == MeshSafe(g)
<1>1. PICK k \in Progress(txs) :
         /\ Outcome(r, txs, k, Post(inbox, r, SentAfterAll(sent, txs, k)), g, safe)
         /\ stage' = [stage EXCEPT ![n.id] = IF k > 0 THEN "removed" ELSE @]
    BY DEF UserRemove
<1>2. clock < MaxTime /\ clock' = clock + 1 /\ d # NoDocument
    BY DEF UserRemove, UserCall
<1>3. /\ t \in Nat /\ db[r] \in Tables(t) /\ stage \in Life /\ graph[r] \in Graphs
      /\ d \in Document /\ LocalOK(db[r], stage, d, graph[r])
    BY <1>2, Here
<1>4. n \in Nodes /\ n.id \in NodeId
    <2>1. n \in Nodes
        BY <1>3, GraphFields
    <2>. QED  BY <2>1, NodeFields
<1>5. PICK whole \in BOOLEAN : whole <=> k = Len(txs)
    OBVIOUS
<1>6. k \in 0 .. Len(txs)
    <2>1. Len(RemoveTxs(n, d, t + 1)) \in Nat
        <3>. DEFINE later == t + 1  dead == TRUE  kind == "Sphere"
                    all == NodeTxs(n, kind, d, later, dead)
        <3>1. later \in Nat /\ dead \in BOOLEAN /\ all = NodeTxs(n, kind, d, later, dead)
            BY <1>3
        <3>2. RemoveTxs(n, d, t + 1) = all
            BY DEF RemoveTxs, NodeTxs
        <3>. HIDE DEF later, dead, kind, all, txs
        <3>3. Len(all) = Len(Attributes(n.kind)) + 1
            BY <1>4, <3>1, NodeTxsAre
        <3>4. Len(Attributes(n.kind)) \in Nat
            BY <1>4, NodeFields, AttributesAre
        <3>. QED  BY <3>2, <3>3, <3>4
    <2>. HIDE DEF txs
    <2>2. Len(txs) \in Nat
        BY <2>1 DEF txs
    <2>. QED  BY <2>2 DEF Progress
<1>. DEFINE after == Commit(db[r], SubSeq(txs, 1, k))
            h == IF whole THEN g ELSE graph[r]
            lives == [stage EXCEPT ![n.id] = IF k > 0 THEN "removed" ELSE @]
<1>7. after \in Tables(t + 1) /\ LocalOK(after, lives, d, h)
    <2>. DEFINE tables == db[r]  life == stage  shown == graph[r]
    <2>1. /\ tables \in Tables(t) /\ life \in Life /\ shown \in Graphs
          /\ LocalOK(tables, life, d, shown) /\ n \in ToSet(shown.nodes)
          /\ k \in 0 .. Len(RemoveTxs(n, d, t + 1))
          /\ after = Commit(tables, SubSeq(RemoveTxs(n, d, t + 1), 1, k))
          /\ whole <=> k = Len(RemoveTxs(n, d, t + 1))
        BY <1>3, <1>5, <1>6
    <2>. HIDE DEF tables, life, shown, after, t, d
    <2>2. /\ after \in Tables(t + 1)
          /\ LocalOK(after, [life EXCEPT ![n.id] = IF k > 0 THEN "removed" ELSE @], d,
                     IF whole THEN remove(shown, n.id) ELSE shown)
        BY <1>3, <2>1, RemoveKeeps
    <2>. QED  BY <2>2 DEF life, shown
<1>8. stage' = lives /\ lives \in Life
    BY <1>1, <1>3, <1>4 DEF Life
<1>9. h \in Graphs
    BY <1>3, RemoveGraph
<1>10. NoCycles /\ whole => safe
    <2>1. Drawn(h)
        <3>. HIDE DEF h, lives, after, d
        <3>. QED  BY <1>7, <1>9, LocalIsDrawn
    <2>. QED  BY <2>1, DrawnIsMeshSafe
<1>11. h = IF k = Len(txs) THEN g ELSE graph[r]
    BY <1>5
<1>12. after \in Tables(clock + 1) /\ LocalOK(after, stage', open[r], h) /\ stage' \in Life
    BY <1>7, <1>8
<1>13. after = Commit(db[r], SubSeq(txs, 1, k))
    OBVIOUS
<1>. DEFINE messages == SentAfterAll(sent, txs, k)
<1>14. Outcome(r, txs, k, Post(inbox, r, messages), g, safe)
    BY <1>1
<1>. HIDE DEF messages, txs, g, safe, after, h, lives
<1>15. NoCycles => (k = Len(txs) => safe)
    BY <1>5, <1>10
<1>16. LocalInv'
    BY <1>2, <1>9, <1>11, <1>12, <1>13, <1>14, OutcomeKeeps
<1>17. NoCycles => crashed' = crashed
    BY <1>14, <1>15 DEF Outcome
<1>. QED  BY <1>16, <1>17

LEMMA EdgeStepKeeps ==
    ASSUME LocalInv, NEW r, Replica = {r}, r \notin crashed,
           NEW from \in Ids(graph[r]), NEW to \in Ids(graph[r]), <<from, to>> \in Drawable,
           NEW deleted \in BOOLEAN, NEW messages,
           NEW txs, txs = <<EdgeTx(from, to, clock + 1, deleted)>>, NEW k \in 0 .. 1,
           NEW g \in Graphs, g.nodes = graph[r].nodes,
           g.edges = EdgesAfter(graph[r].edges, from, to, deleted),
           NEW safe, NoCycles /\ MeshSafe(g) => safe,
           Outcome(r, txs, k, Post(inbox, r, messages), g, safe),
           clock < MaxTime, clock' = clock + 1, open[r] # NoDocument, stage' = stage
    PROVE  LocalInv' /\ (NoCycles => crashed' = crashed)
<1>. DEFINE t == clock  d == open[r]  life == stage  shown == graph[r]  tables == db[r]
            after == Commit(tables, SubSeq(txs, 1, k))
            h == IF k = Len(txs) THEN g ELSE shown
<1>1. /\ t \in Nat /\ tables \in Tables(t) /\ life \in Life /\ shown \in Graphs
      /\ d \in Document /\ LocalOK(tables, life, d, shown)
    BY Here
<1>2. k = Len(txs) <=> k # 0
    <2>1. Len(txs) = 1
        OBVIOUS
    <2>. QED  BY <2>1
<1>3. /\ h \in Graphs /\ h.nodes = shown.nodes
      /\ h.edges = IF k = 0 THEN shown.edges ELSE EdgesAfter(shown.edges, from, to, deleted)
    BY <1>1, <1>2
<1>4. /\ from \in Ids(shown) /\ to \in Ids(shown)
      /\ after = Commit(tables, SubSeq(<<EdgeTx(from, to, t + 1, deleted)>>, 1, k))
    OBVIOUS
<1>5. h = IF k = Len(txs) THEN g ELSE graph[r]
    OBVIOUS
<1>6. after = Commit(db[r], SubSeq(txs, 1, k))
    OBVIOUS
<1>. HIDE DEF t, d, life, shown, tables, after, h
<1>7. after \in Tables(t + 1) /\ LocalOK(after, life, d, h)
    BY <1>1, <1>3, <1>4, EdgeKeeps
<1>8. NoCycles => (k = Len(txs) => safe)
    <2>1. Drawn(h)
        BY <1>3, <1>7, LocalIsDrawn
    <2>. QED  BY <1>5, <2>1, DrawnIsMeshSafe
<1>9. after \in Tables(clock + 1) /\ LocalOK(after, stage', open[r], h) /\ stage' \in Life
    BY <1>1, <1>7 DEF t, life, d
<1>10. /\ Outcome(r, txs, k, Post(inbox, r, messages), g, safe)
       /\ clock < MaxTime /\ clock' = clock + 1 /\ h \in Graphs
    BY <1>3
<1>11. LocalInv'
    BY <1>5, <1>6, <1>9, <1>10, OutcomeKeeps, Zenon
<1>12. NoCycles => crashed' = crashed
    BY <1>8 DEF Outcome
<1>. QED  BY <1>11, <1>12

LEMMA UserConnectKeeps ==
    ASSUME LocalInv, NEW r, Replica = {r}, r \notin crashed,
           NEW from \in Ids(graph[r]), NEW to \in Ids(graph[r]), UserConnect(r, from, to)
    PROVE  LocalInv' /\ (NoCycles => crashed' = crashed)
<1>. DEFINE txs == <<EdgeTx(from, to, clock + 1, FALSE)>>
            g == connect(graph[r], from, to)
            sent == AnnounceConnect(from, to, clock + 1)
            safe == ConnectSafe(graph[r], from, to) /\ MeshSafe(g)
<1>1. PICK k \in Progress(txs) :
         Outcome(r, txs, k, Post(inbox, r, SentAfterAll(sent, txs, k)), g, safe)
    BY DEF UserConnect
<1>2. /\ clock < MaxTime /\ clock' = clock + 1 /\ open[r] # NoDocument
      /\ stage' = stage /\ <<from, to>> \in Drawable
    BY DEF UserConnect, UserCall
<1>3. k \in 0 .. 1
    <2>1. Len(txs) = 1
        OBVIOUS
    <2>. HIDE DEF txs
    <2>. QED  BY <2>1 DEF Progress
<1>4. graph[r] \in Graphs /\ from \in NodeId /\ to \in NodeId
    BY Here, GraphFields
<1>5. /\ g \in Graphs /\ g.nodes = graph[r].nodes
      /\ g.edges = graph[r].edges \cup {<<from, to>>}
    BY <1>4 DEF Graphs, connect
<1>6. NoCycles => from # to
    <2>1. {from} \in SUBSET NodeId /\ {from} # {}
        BY <1>4
    <2>2. NoCycles => <<from, from>> \notin Drawable
        BY <2>1 DEF NoCycles
    <2>. QED  BY <1>2, <2>2
<1>7. NoCycles /\ MeshSafe(g) => safe
    BY <1>6 DEF ConnectSafe
<1>. DEFINE messages == SentAfterAll(sent, txs, k)  deleted == FALSE
<1>8. /\ deleted \in BOOLEAN
      /\ g.edges = EdgesAfter(graph[r].edges, from, to, deleted)
      /\ txs = <<EdgeTx(from, to, clock + 1, deleted)>>
      /\ Outcome(r, txs, k, Post(inbox, r, messages), g, safe)
    BY <1>1, <1>5 DEF EdgesAfter
<1>. HIDE DEF messages, deleted, txs, g, safe
<1>. QED  BY <1>2, <1>3, <1>5, <1>7, <1>8, EdgeStepKeeps

LEMMA UserDisconnectKeeps ==
    ASSUME LocalInv, NEW r, Replica = {r}, r \notin crashed,
           NEW from \in Ids(graph[r]), NEW to \in Ids(graph[r]), UserDisconnect(r, from, to)
    PROVE  LocalInv' /\ (NoCycles => crashed' = crashed)
<1>. DEFINE txs == <<EdgeTx(from, to, clock + 1, TRUE)>>
            g == disconnect(graph[r], from, to)
            sent == AnnounceDisconnect(from, to, clock + 1)
            safe == MeshSafe(g)
<1>1. PICK k \in Progress(txs) :
         Outcome(r, txs, k, Post(inbox, r, SentAfterAll(sent, txs, k)), g, safe)
    BY DEF UserDisconnect
<1>2. /\ clock < MaxTime /\ clock' = clock + 1 /\ open[r] # NoDocument
      /\ stage' = stage /\ <<from, to>> \in graph[r].edges
    BY DEF UserDisconnect, UserCall
<1>3. k \in 0 .. 1
    <2>1. Len(txs) = 1
        OBVIOUS
    <2>. HIDE DEF txs
    <2>. QED  BY <2>1 DEF Progress
<1>4. graph[r] \in Graphs /\ <<from, to>> \in Drawable
    BY <1>2, Here, LocalIsDrawn DEF Drawn
<1>5. /\ g \in Graphs /\ g.nodes = graph[r].nodes
      /\ g.edges = graph[r].edges \ {<<from, to>>}
    BY <1>4 DEF Graphs, disconnect
<1>6. NoCycles /\ MeshSafe(g) => safe
    OBVIOUS
<1>. DEFINE messages == SentAfterAll(sent, txs, k)  deleted == TRUE
<1>7. /\ deleted \in BOOLEAN
      /\ g.edges = EdgesAfter(graph[r].edges, from, to, deleted)
      /\ txs = <<EdgeTx(from, to, clock + 1, deleted)>>
      /\ Outcome(r, txs, k, Post(inbox, r, messages), g, safe)
    BY <1>1, <1>5 DEF EdgesAfter
<1>. HIDE DEF messages, deleted, txs, g, safe
<1>. QED  BY <1>2, <1>3, <1>4, <1>5, <1>6, <1>7, EdgeStepKeeps

LEMMA OpenStepKeeps ==
    ASSUME LocalInv, NEW r, Replica = {r}, r \notin crashed, NEW d \in Document, Open(r, d)
    PROVE  LocalInv' /\ crashed' = crashed
<1>. DEFINE t == clock  tables == db[r]  life == stage  e == open[r]  g == graph[r]
            h == Opened(tables, d)
<1>1. /\ t \in Nat /\ tables \in Tables(t) /\ life \in Life
      /\ e \in Document \cup {NoDocument} /\ LocalOK(tables, life, e, g)
    BY Here
<1>2. /\ open' = [open EXCEPT ![r] = d] /\ graph' = [graph EXCEPT ![r] = h]
      /\ db' = db /\ crashed' = crashed /\ inbox' = inbox /\ clock' = clock /\ stage' = life
    BY DEF Open
<1>3. db' = [db EXCEPT ![r] = tables]
    BY <1>2 DEF LocalInv, LocalTypes
<1>4. clock' \in 0 .. MaxTime /\ tables \in Tables(clock')
    BY <1>1, <1>2, Here
<1>. HIDE DEF t, tables, life, e, g
<1>5. h \in Graphs /\ LocalOK(tables, life, d, h)
    BY <1>1, OpenKeeps
<1>6. LifeOK(tables, life) /\ PairsOK(tables) /\ crashed' \subseteq Replica
    BY <1>2, <1>5 DEF LocalOK, LocalInv, LocalTypes
<1>. HIDE DEF h
<1>. QED  BY <1>1, <1>2, <1>3, <1>4, <1>5, <1>6, StepKeeps

LEMMA InitLocal ==
    ASSUME Init
    PROVE  LocalInv
<1>1. /\ EmptyTables.document = <<>> /\ EmptyTables.edge = {}
      /\ EmptyTables.store = [radius |-> {}, coord |-> {}, type |-> {}]
    BY DEF EmptyTables
<1>2. \A a \in Attribute : EmptyTables.store[a] = {}
    BY <1>1 DEF Attribute
<1>3. EmptyTables \in Tables(0)
    <2>1. EmptyTables.store \in [Attribute -> SUBSET ValueRow(0)]
        BY <1>1 DEF Attribute
    <2>. QED  BY <1>1, <2>1 DEF EmptyTables, Tables
<1>4. NodeRows(EmptyTables) = {}
    BY <1>1 DEF NodeRows, ToSet
<1>5. LifeOK(EmptyTables, stage)
    BY <1>1, <1>2, <1>4 DEF LifeOK, UnusedOK, Written, Shown, Init
<1>6. PairsOK(EmptyTables)
    BY <1>1 DEF PairsOK
<1>7. LocalTypes
    <2>1. clock = 0 /\ 0 \in 0 .. MaxTime
        BY ViewModelAssumption DEF Init
    <2>2. db \in [Replica -> Tables(clock)]
        BY <1>3, <2>1 DEF Init
    <2>. QED  BY <2>1, <2>2, EmptyGraphIs DEF LocalTypes, Init
<1>8. \A r \in Replica : /\ LifeOK(db[r], stage) /\ PairsOK(db[r])
                         /\ LocalOK(db[r], stage, open[r], graph[r])
    BY <1>5, <1>6 DEF LocalOK, Init
<1>. QED  BY <1>7, <1>8 DEF LocalInv

LEMMA NextKeepsLocal ==
    ASSUME Alone, LocalInv, [Next]_vars
    PROVE  LocalInv' /\ (NoCycles => crashed' = crashed)
<1>1. PICK r \in Replica : Replica = {r}
    BY DEF Alone
<1>2. inbox[r] = <<>>
    BY DEF LocalInv, LocalTypes
<1>3. CASE UNCHANGED vars
    BY <1>3 DEF vars, LocalInv, LocalTypes
<1>4. ASSUME NEW from \in NodeId, NEW to \in NodeId, PeerDisconnect(from, to)
      PROVE  FALSE
    BY <1>4 DEF Alone, PeerDisconnect
<1>5. ASSUME NEW d \in Document, r \notin crashed, Open(r, d)
      PROVE  LocalInv' /\ (NoCycles => crashed' = crashed)
    BY <1>1, <1>5, OpenStepKeeps
<1>6. ASSUME NEW n \in Handed, r \notin crashed, UserCreate(r, n)
      PROVE  LocalInv' /\ (NoCycles => crashed' = crashed)
    BY <1>1, <1>6, UserCreateKeeps
<1>7. ASSUME NEW n \in Handed, UserUpdate(r, n)
      PROVE  FALSE
    BY <1>7 DEF Alone, UserUpdate, UserCall
<1>8. ASSUME NEW n \in ToSet(graph[r].nodes), r \notin crashed, UserRemove(r, n)
      PROVE  LocalInv' /\ (NoCycles => crashed' = crashed)
    BY <1>1, <1>8, UserRemoveKeeps
<1>9. ASSUME NEW from \in NodeId, NEW to \in NodeId, r \notin crashed, {from, to} \subseteq Ids(graph[r]),
             UserConnect(r, from, to) \/ UserDisconnect(r, from, to)
      PROVE  LocalInv' /\ (NoCycles => crashed' = crashed)
    <2>1. from \in Ids(graph[r]) /\ to \in Ids(graph[r])
        BY <1>9
    <2>. QED  BY <1>1, <1>9, <2>1, UserConnectKeeps, UserDisconnectKeeps
<1>10. DOMAIN inbox[r] = {}
    BY <1>2
<1>. QED  BY <1>1, <1>3, <1>4, <1>5, <1>6, <1>7, <1>8, <1>9, <1>10 DEF Next

-----------------------------------------------------------------------------
(* Theorems *)

(* A replica on its own keeps its tables and its graph in order, whichever  *)
(* of its transactions fail.                                                *)
THEOREM LocalInvariant ==
    ASSUME Alone
    PROVE  Spec => []LocalInv
<1>1. Init => LocalInv
    BY InitLocal
<1>2. LocalInv /\ [Next]_vars => LocalInv'
    BY NextKeepsLocal
<1>. QED  BY <1>1, <1>2, PTL DEF Spec

(* Rows, nodes and edges have the fields that the queries read.             *)
THEOREM LocalTypeOK ==
    ASSUME Alone
    PROVE  Spec => []TypeOK
<1>1. ASSUME LocalInv
      PROVE  TypeOK
    <2>1. ASSUME NEW r \in Replica
          PROVE  /\ ToSet(db[r].document) \subseteq NodeRow(MaxTime)
                 /\ db[r].edge \subseteq PairRow(MaxTime)
                 /\ \A a \in Attribute : db[r].store[a] \subseteq AttributeRow
                 /\ ToSet(graph[r].nodes) \subseteq Nodes
                 /\ graph[r].edges \subseteq NodeId \X NodeId
        <3>1. 0 .. clock \subseteq 0 .. MaxTime
            BY <1>1, Here
        <3>2. /\ NodeRow(clock) \subseteq NodeRow(MaxTime)
              /\ PairRow(clock) \subseteq PairRow(MaxTime)
              /\ ValueRow(clock) \subseteq AttributeRow
            BY <3>1 DEF NodeRow, PairRow, ValueRow, AttributeRow
        <3>3. db[r] \in Tables(clock) /\ graph[r] \in Graphs
            BY <1>1, Here
        <3>4. /\ db[r].edge \subseteq PairRow(clock)
              /\ db[r].store \in [Attribute -> SUBSET ValueRow(clock)]
              /\ ToSet(db[r].document) \subseteq NodeRow(clock)
            BY <3>3, TablesFields DEF NodeRows
        <3>5. ToSet(graph[r].nodes) \subseteq Nodes /\ graph[r].edges \subseteq NodeId \X NodeId
            BY <3>3, GraphFields
        <3>. QED  BY <3>2, <3>4, <3>5
    <2>2. /\ open \in [Replica -> Document \cup {NoDocument}] /\ crashed \subseteq Replica
          /\ clock \in 0 .. MaxTime /\ stage \in [NodeId -> {"unused", "partial", "created", "removed"}]
        BY <1>1 DEF LocalInv, LocalTypes
    <2>. QED  BY <2>1, <2>2 DEF TypeOK, NodeRow, PairRow
<1>. QED  BY <1>1, LocalInvariant, PTL

(* No call of the user meets a null pointer, an edge without a node or a    *)
(* recursion without end.                                                   *)
THEOREM LocalNeverCrashes ==
    ASSUME Alone, NoCycles
    PROVE  Spec => []NeverCrashes
<1>1. Init => LocalInv /\ NeverCrashes
    BY InitLocal DEF Init, NeverCrashes
<1>2. LocalInv /\ NeverCrashes /\ [Next]_vars => LocalInv' /\ NeverCrashes'
    BY NextKeepsLocal DEF NeverCrashes
<1>. QED  BY <1>1, <1>2, PTL DEF Spec

(* Every node on the screen is in the forest that goes to the mesh.         *)
THEOREM LocalForestIsComplete ==
    ASSUME Alone, NoCycles
    PROVE  Spec => []ForestIsComplete
<1>1. ASSUME LocalInv
      PROVE  ForestIsComplete
    <2>1. ASSUME NEW r \in Replica, Running(r)
          PROVE  Drawn(graph[r])
        <3>. DEFINE tables == db[r]  life == stage  d == open[r]  g == graph[r]
        <3>1. g \in Graphs /\ LocalOK(tables, life, d, g)
            BY <1>1, <2>1, Here DEF Running
        <3>. HIDE DEF tables, life, d, g
        <3>2. Drawn(g)
            BY <3>1, LocalIsDrawn
        <3>. QED  BY <3>2 DEF g
    <2>. QED  BY <2>1, DrawnIsMeshSafe, DrawnIsComplete DEF ForestIsComplete, MeshSafe
<1>. QED  BY <1>1, LocalInvariant, PTL

(* A creation of which one transaction failed leaves no half of a node, a   *)
(* removal that began leaves none: what opens are the nodes in between.     *)
THEOREM LocalOpenedIffCreated ==
    ASSUME Alone
    PROVE  Spec => []OpenedIffCreated
<1>1. ASSUME LocalInv
      PROVE  OpenedIffCreated
    <2>. SUFFICES ASSUME NEW r \in Replica
                  PROVE  UNION {Ids(Opened(db[r], d)) : d \in Document}
                             = {n \in NodeId : stage[n] = "created"}
        BY DEF OpenedIffCreated
    <2>. DEFINE t == clock  tables == db[r]  life == stage
    <2>1. /\ t \in Nat /\ tables \in Tables(t) /\ life \in Life
          /\ LifeOK(tables, life) /\ PairsOK(tables)
        BY <1>1, Here
    <2>. HIDE DEF t, tables, life
    <2>2. \A d : Ids(Opened(tables, d)) = {n \in NodeId : life[n] = "created" /\ IsIn(tables, n, d)}
        <3>1. life \in [NodeId -> {"unused", "partial", "created", "removed"}]
            BY <2>1 DEF Life
        <3>. QED  BY <2>1, <3>1, OpenedIs
    <2>3. ASSUME NEW n \in NodeId, life[n] = "created"
          PROVE  \E d \in Document : IsIn(tables, n, d)
        <3>1. PICK row : row \in Shown(tables, n)
            BY <2>1, <2>3 DEF LifeOK, CreatedOK
        <3>2. row.document \in Document
            BY <2>1, <3>1, RowFields DEF Shown
        <3>. QED  BY <3>1, <3>2 DEF IsIn
    <2>4. UNION {Ids(Opened(tables, d)) : d \in Document} = {n \in NodeId : life[n] = "created"}
        BY <2>2, <2>3
    <2>. QED  BY <2>4 DEF tables, life
<1>. QED  BY <1>1, LocalInvariant, PTL

(* Two nodes with the same id are the same if both hold what was written.   *)
LEMMA SameNode ==
    ASSUME NEW tables, NEW x \in Nodes, NEW y \in Nodes, x.id = y.id,
           CreatedOK(tables, x.id),
           \A a \in Names(x.id) : \A w \in Written(tables, a, x.id) : x.attr[a] = w.val,
           \A a \in Names(y.id) : \A w \in Written(tables, a, y.id) : y.attr[a] = w.val
    PROVE  x = y
<1>1. \A a \in Names(x.id) : x.attr[a] = y.attr[a]
    BY DEF CreatedOK
<1>2. x.attr = y.attr
    BY <1>1, NodeFields
<1>. QED  BY <1>2, NodeFields

LEMMA ReopenIsTheSame ==
    ASSUME NEW t \in Nat, NEW tables \in Tables(t), NEW life \in Life, NEW d \in Document,
           NEW g \in Graphs, LocalOK(tables, life, d, g)
    PROVE  SameGraph(Without(g, {n \in NodeId : life[n] = "removed"}), Opened(tables, d))
<1>. DEFINE gone == {n \in NodeId : life[n] = "removed"}
            h == Opened(tables, d)  w == Without(g, gone)
            places == {i \in DOMAIN g.nodes : g.nodes[i].id \notin gone}
<1>1. /\ LifeOK(tables, life) /\ PairsOK(tables)
      /\ NodesOK(tables, d, g, life) /\ LinksOK(tables, g)
    <2>1. d # NoDocument
        BY ViewModelAssumption
    <2>. QED  BY <2>1 DEF LocalOK
<1>2. /\ h \in Graphs
      /\ Ids(h) = {n \in NodeId : life[n] = "created" /\ IsIn(tables, n, d)}
      /\ h.edges = {p \in Ids(h) \X Ids(h) : Linked(tables, p[1], p[2])}
      /\ \A x \in ToSet(h.nodes) :
            \A a \in Names(x.id) : \A y \in Written(tables, a, x.id) : x.attr[a] = y.val
    <2>1. life \in [NodeId -> {"unused", "partial", "created", "removed"}]
        BY DEF Life
    <2>. QED  BY <1>1, <2>1, OpenedIs
<1>3. /\ w.edges = {e \in g.edges : {e[1], e[2]} \cap gone = {}}
      /\ ToSet(w.nodes) = {x \in ToSet(g.nodes) : x.id \notin gone}
    <2>1. w.nodes = Selected(g.nodes, places) /\ g.nodes \in Seq(Nodes)
        BY GraphFields DEF Without
    <2>2. w.edges = {e \in g.edges : {e[1], e[2]} \cap gone = {}}
        BY DEF Without
    <2>. HIDE DEF w, places, gone
    <2>3. ToSet(w.nodes) = {g.nodes[i] : i \in places \cap DOMAIN g.nodes}
        BY <2>1, SelectedHas
    <2>. QED  BY <2>2, <2>3 DEF places, ToSet
<1>. HIDE DEF h, w
<1>4. \A x \in ToSet(g.nodes) : x \in Nodes /\ x.id \in NodeId /\ x.id \in Ids(g)
    BY GraphFields, NodeFields, IdsAre
<1>5. \A x \in ToSet(h.nodes) : x \in Nodes /\ x.id \in Ids(h)
    BY <1>2, GraphFields, IdsAre
<1>6. Ids(h) = Ids(g) \ gone
    <2>1. ASSUME NEW n \in Ids(h)
          PROVE  n \in Ids(g) \ gone
        BY <1>1, <1>2 DEF NodesOK
    <2>2. ASSUME NEW n \in Ids(g), n \notin gone
          PROVE  n \in Ids(h)
        <3>1. PICK x \in ToSet(g.nodes) : x.id = n
            BY IdsAre
        <3>2. n \in NodeId /\ life[n] = "created" /\ \A row \in Shown(tables, n) : row.document = d
            BY <1>1, <1>4, <2>2, <3>1 DEF NodesOK
        <3>3. Shown(tables, n) # {}
            BY <1>1, <3>2 DEF LifeOK, CreatedOK
        <3>. QED  BY <1>2, <3>2, <3>3 DEF IsIn
    <2>. QED  BY <2>1, <2>2
<1>7. ASSUME NEW x \in ToSet(g.nodes), NEW y \in ToSet(h.nodes), x.id = y.id
      PROVE  x = y
    <2>1. x \in Nodes /\ y \in Nodes /\ life[x.id] = "created" /\ x.id \in NodeId
        BY <1>2, <1>4, <1>5, <1>7
    <2>2. CreatedOK(tables, x.id)
        BY <1>1, <2>1 DEF LifeOK
    <2>3. \A a \in Names(x.id) : \A v \in Written(tables, a, x.id) : x.attr[a] = v.val
        BY <1>1, <1>7, <2>1 DEF NodesOK
    <2>4. \A a \in Names(y.id) : \A v \in Written(tables, a, y.id) : y.attr[a] = v.val
        BY <1>2
    <2>. QED  BY <1>7, <2>1, <2>2, <2>3, <2>4, SameNode
<1>8. ToSet(w.nodes) = ToSet(h.nodes)
    <2>1. ASSUME NEW x \in ToSet(w.nodes)
          PROVE  x \in ToSet(h.nodes)
        <3>1. x \in ToSet(g.nodes) /\ x.id \in Ids(h)
            BY <1>3, <1>4, <1>6, <2>1
        <3>2. PICK y \in ToSet(h.nodes) : x.id = y.id
            BY <3>1, IdsAre
        <3>. QED  BY <1>7, <3>1, <3>2
    <2>2. ASSUME NEW y \in ToSet(h.nodes)
          PROVE  y \in ToSet(w.nodes)
        <3>1. y.id \in Ids(g) \ gone
            BY <1>5, <1>6
        <3>2. PICK x \in ToSet(g.nodes) : x.id = y.id
            BY <3>1, IdsAre
        <3>3. x = y
            BY <1>7, <3>2
        <3>. QED  BY <1>3, <3>1, <3>2, <3>3
    <2>. QED  BY <2>1, <2>2
<1>9. w.edges = h.edges
    <2>1. ASSUME NEW p \in Ids(g) \X Ids(g)
          PROVE  p \in w.edges <=> p \in h.edges
        <3>1. p = <<p[1], p[2]>> /\ p[1] \in Ids(g) /\ p[2] \in Ids(g)
            OBVIOUS
        <3>2. p \in g.edges <=> Linked(tables, p[1], p[2])
            BY <1>1, <3>1 DEF LinksOK
        <3>3. {p[1], p[2]} \cap gone = {} <=> p \in Ids(h) \X Ids(h)
            BY <1>6, <3>1
        <3>. QED  BY <1>2, <1>3, <3>2, <3>3
    <2>2. w.edges \subseteq Ids(g) \X Ids(g)
        BY <1>1, <1>3 DEF LinksOK
    <2>3. h.edges \subseteq Ids(g) \X Ids(g)
        BY <1>2, <1>6
    <2>. QED  BY <2>1, <2>2, <2>3
<1>. QED  BY <1>8, <1>9 DEF SameGraph, h, w

(* Opening the document again shows what is on the screen, but for the      *)
(* nodes whose removal failed.                                              *)
THEOREM LocalReopenShowsTheSame ==
    ASSUME Alone
    PROVE  Spec => []ReopenShowsTheSame
<1>1. ASSUME LocalInv
      PROVE  ReopenShowsTheSame
    <2>. SUFFICES ASSUME NEW r \in Replica, Running(r)
                  PROVE  SameGraph(Without(graph[r], {n \in NodeId : stage[n] = "removed"}),
                                   Opened(db[r], open[r]))
        BY DEF ReopenShowsTheSame
    <2>. DEFINE t == clock  tables == db[r]  life == stage  d == open[r]  g == graph[r]
    <2>1. /\ t \in Nat /\ tables \in Tables(t) /\ life \in Life /\ d \in Document
          /\ g \in Graphs /\ LocalOK(tables, life, d, g)
        BY <1>1, Here DEF Running, IsOpen
    <2>. HIDE DEF t, tables, life, d, g
    <2>2. SameGraph(Without(g, {n \in NodeId : life[n] = "removed"}), Opened(tables, d))
        BY <2>1, ReopenIsTheSame
    <2>. QED  BY <2>2 DEF tables, life, d, g
<1>. QED  BY <1>1, LocalInvariant, PTL
=============================================================================
