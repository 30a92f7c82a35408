--------------------------- MODULE MeshTasksProofs ---------------------------
(***************************************************************************)
(* Proofs about MeshTasks, for any number of calls, spheres and addresses: *)
(* the tasks use the cache of expressions carefully, so that what          *)
(* TreeCacheProofs shows of a careful client holds of them; the document   *)
(* outlives its tasks; no expression outlives the tasks; and the meshes    *)
(* show what their tasks have read, and so the document.                   *)
(***************************************************************************)
EXTENDS MeshTasks, TreeCacheProofs, SequenceTheorems, FiniteSetTheorems

-----------------------------------------------------------------------------
(* The inductive invariant *)

Loop == {"acc", "lock", "operate", "dropInner", "unlock", "assign", "dropResult", "dropAcc"}
Steps == {"coord", "leaf", "tree", "render", "clear", "store", "done"} \cup Loop

(* tree and acc are one reference while a call of combine runs. *)
Combining == {"lock", "operate", "dropInner", "unlock", "assign"}

CallType == [lhs : Pointer, rhs : Pointer, outside : Seq(Addr)]

DocumentTypeOK ==
    /\ graph \in Seq(Sphere) /\ IsInjective(graph)
    /\ attr \in [Sphere -> Attr]
    /\ writing \in [sphere : Sphere, radius : Radius] \cup {None}
    /\ closing \in BOOLEAN
    /\ started \in 0 .. Calls
    /\ forest \in [Thread -> Seq(Sphere)]
    /\ \A t \in Thread : IsInjective(forest[t])

TaskTypeOK ==
    /\ step \in [Thread -> Steps]
    /\ root \in [Thread -> Nat]
    /\ seen \in [Thread -> Seq(Attr)]
    /\ call \in [Thread -> CallType]
    /\ rendered \in [Thread -> SUBSET Attr]
    /\ stored \in Seq(1 .. started)
    /\ corrupt \in BOOLEAN

(* A thread that has not been started has nothing to do. *)
NotStarted ==
    /\ \A t \in Thread :
          t > started => step[t] = "done" /\ forest[t] = <<>> /\ seen[t] = <<>>
    /\ writing # None => started < Calls

RootsHeld(t, n) == \A i \in 1 .. n : handle[t][RootSlot(i)] # None

CallAllocated(t) ==
    /\ call[t].lhs \in Allocated /\ call[t].rhs \in Allocated
    /\ \A i \in 1 .. Len(call[t].outside) : call[t].outside[i] \in Allocated

(* What a task has read, and which roots it has built. *)
ReadingOK(t) ==
    /\ step[t] \in {"coord", "leaf", "tree"} \cup Loop => root[t] \in 1 .. Len(forest[t])
    /\ step[t] = "tree" => root[t] = 1
    /\ Len(seen[t]) = IF step[t] = "coord" THEN root[t] - 1
                      ELSE IF step[t] = "leaf" THEN root[t] ELSE Len(forest[t])
    /\ step[t] \in {"coord", "leaf"} => RootsHeld(t, root[t] - 1)
    /\ step[t] \in {"tree"} \cup Loop => RootsHeld(t, Len(forest[t]))
    /\ step[t] = "render" => root[t] = Len(forest[t]) /\ root[t] >= 1

(* The trees of a call of combine, and the mutex. *)
CombineOK(t) ==
    /\ step[t] \in Loop \cup {"render"} => Is(t, "tree") # None
    /\ step[t] \in Combining => Is(t, "acc") = Is(t, "tree")
    /\ step[t] \in {"dropInner", "unlock", "assign", "dropResult"} => Is(t, "tmp") # None
    /\ step[t] \in Handled => lock = t
    /\ step[t] = "operate" => Doomed(t) = {} /\ CallAllocated(t)

(* A task that is about to store its mesh has let go of everything. *)
EmptyOK(t) ==
    step[t] \in {"store", "done"} => HeldBy(t) = {} /\ Doomed(t) = {} /\ lock # t

TasksOK == \A t \in Thread : ReadingOK(t) /\ CombineOK(t) /\ EmptyOK(t)

(* A node is a sphere, or the min of two nodes of a lower rank. *)
ShapeOK(a) ==
    \/ node[a].op \in Attr /\ node[a] = Leaf(node[a].op)
    \/ /\ IsMin(a)
       /\ node[a].lhs \in Allocated /\ node[a].rhs \in Allocated
       /\ rank[node[a].lhs] < rank[a] /\ rank[node[a].rhs] < rank[a]

NodesOK ==
    /\ rank \in [Addr -> Nat]
    /\ \A a \in Allocated : ShapeOK(a)
    /\ \E n \in Nat : \A a \in Addr : rank[a] <= n

(* The members go after the tasks, and tasks start before. *)
ClosingOK ==
    /\ closing => writing = None
    /\ members # Range(DestructionOrder) => closing
    /\ "cancellables" \notin members => Active = {}
    /\ {"factory", "mesh"} \subseteq members \/ "cancellables" \notin members

MeshInv ==
    /\ CarefulInv
    /\ DocumentTypeOK /\ TaskTypeOK
    /\ NotStarted /\ TasksOK /\ NodesOK /\ ClosingOK

-----------------------------------------------------------------------------
(* The trees of a task *)

LEMMA CountsAreNaturals == Calls \in Nat /\ Cardinality(Sphere) \in Nat
BY ThreadAssumption, AttrAssumption, FS_CardinalityType DEF Calls

LEMMA SlotsOfATask ==
    /\ \A n \in {"tree", "acc", "tmp"} : Temp(n) \in Slot
    /\ \A i \in 1 .. Cardinality(Sphere) : RootSlot(i) \in Slot
    /\ \A k \in 1 .. MaxNested : InnerSlot(k) \in Slot
BY SlotAssumption DEF MeshSlots

LEMMA SlotsDiffer ==
    /\ Temp("tree") # Temp("acc") /\ Temp("tree") # Temp("tmp") /\ Temp("acc") # Temp("tmp")
    /\ \A i, n : RootSlot(i) # Temp("tree") /\ RootSlot(i) # Temp("acc")
                /\ RootSlot(i) # Temp("tmp") /\ RootSlot(i) # InnerSlot(n)
    /\ \A i : InnerSlot(i) # Temp("tree") /\ InnerSlot(i) # Temp("acc")
             /\ InnerSlot(i) # Temp("tmp")
    /\ \A i, j : RootSlot(i) = RootSlot(j) => i = j
BY DEF Temp, RootSlot, InnerSlot

(* A forest has no sphere twice, so there is a Tree for every root. *)
LEMMA ForestFits ==
    ASSUME DocumentTypeOK, NEW t \in Thread
    PROVE  /\ Len(forest[t]) \in Nat
           /\ \A i \in 1 .. Len(forest[t]) : forest[t][i] \in Sphere /\ RootSlot(i) \in Slot
<1>1. forest[t] \in Seq(Sphere) /\ IsInjective(forest[t])
    BY DEF DocumentTypeOK
<1>2. /\ Len(forest[t]) \in Nat /\ forest[t] \in [1 .. Len(forest[t]) -> Sphere]
    BY <1>1, LenProperties
<1>3. forest[t] \in Injection(1 .. Len(forest[t]), Sphere)
    BY <1>1, <1>2 DEF Injection
<1>4. Cardinality(1 .. Len(forest[t])) = Len(forest[t])
    BY <1>2, FS_Interval
<1>5. Len(forest[t]) <= Cardinality(Sphere)
    BY <1>3, <1>4, FS_Injection, AttrAssumption
<1>. QED  BY <1>2, <1>5, SlotsOfATask, CountsAreNaturals

-----------------------------------------------------------------------------
(* The tasks are a careful client of the cache *)

LEMMA MakeMinIsCareful ==
    ASSUME MeshInv, NEW t \in Thread, NEW s \in Slot, NEW a, NEW b,
           a \in Allocated, b \in Allocated, Doomed(t) = {}, lock = t,
           MakeMin(t, s, a, b)
    PROVE  CarefulStepOf(t)
<1>1. a \in Reachable /\ b \in Reachable
    BY NoneAssumption DEF MeshInv, CarefulInv, LockCovers, Allocated, Reachable
<1>2. MinOf(a, b) \in Expressible
    BY <1>1, AttrAssumption DEF Expressible, MinOf
<1>. QED  BY <1>1, <1>2 DEF MakeMin, CarefulStepOf

LEMMA TreeStepIsCareful ==
    ASSUME MeshInv, NEW t \in Thread, TreeStep(t)
    PROVE  CarefulStepOf(t)
<1>. USE DEF MeshInv, At
<1>1. CASE At(t, "leaf") /\ Build(t, RootSlot(root[t]), Leaf(ReadRadius(t)))
    <2>1. root[t] \in 1 .. Len(forest[t]) /\ Len(seen[t]) = root[t]
        BY <1>1 DEF TasksOK, ReadingOK
    <2>2. RootSlot(root[t]) \in Slot /\ forest[t][root[t]] \in Sphere
        BY <2>1, ForestFits
    <2>3. seen[t][root[t]] \in Attr /\ attr[forest[t][root[t]]] \in Attr
        BY <2>1, <2>2, ElementOfSeq DEF DocumentTypeOK, TaskTypeOK
    <2>4. ReadRadius(t) \in Attr
        BY <2>3 DEF ReadRadius, Attr
    <2>5. Leaf(ReadRadius(t)) \in Expressible
        BY <2>4, AttrAssumption DEF Leaf, Expressible
    <2>. QED  BY <1>1, <2>2, <2>5 DEF CarefulStepOf
<1>2. CASE At(t, "tree") /\ Copy(t, Temp("tree"), Elem(t))
    BY <1>2, SlotsOfATask DEF CarefulStepOf, Copy
<1>3. CASE At(t, "acc") /\ Copy(t, Temp("acc"), Is(t, "tree"))
    BY <1>3, SlotsOfATask DEF CarefulStepOf, Copy
<1>4. CASE At(t, "lock") /\ Acquire(t)
    BY <1>4 DEF CarefulStepOf
<1>5. CASE At(t, "unlock") /\ Unlock(t)
    BY <1>5 DEF CarefulStepOf
<1>6. CASE At(t, "assign") /\ Assign(t, Temp("tree"), Temp("tmp"))
    <2>1. Is(t, "acc") = Is(t, "tree")
        BY <1>6 DEF TasksOK, CombineOK, Combining
    <2>2. handle'[t][Temp("acc")] = Is(t, "tree")
        BY <1>6, <2>1, SlotsOfATask, SlotsDiffer
        DEF Assign, Point, Is, CarefulInv, CacheInv, CacheTypeOK
    <2>3. HeldIn(Is(t, "tree"), node, handle')
        BY <2>2, SlotsOfATask DEF HeldIn
    <2>4. UNCHANGED dying
        BY <1>6, <2>3 DEF Assign, Expire, Is
    <2>. QED  BY <1>6, <2>4, SlotsOfATask DEF CarefulStepOf, AssignShared
<1>7. CASE At(t, "dropResult") /\ Destroy(t, Temp("tmp"))
    BY <1>7, SlotsOfATask DEF CarefulStepOf
<1>8. CASE At(t, "dropAcc") /\ Destroy(t, Temp("acc"))
    BY <1>8, SlotsOfATask DEF CarefulStepOf
<1>. QED  BY <1>1, <1>2, <1>3, <1>4, <1>5, <1>6, <1>7, <1>8 DEF TreeStep

LEMMA TaskIsCareful ==
    ASSUME MeshInv, NEW t \in Thread, Task(t)
    PROVE  CarefulStepOf(t) \/ UNCHANGED cacheVars
<1>1. CASE ReadCoord(t)
    BY <1>1 DEF ReadCoord
<1>2. CASE Work(t)
    BY <1>2, TreeStepIsCareful DEF Work
<1>3. CASE Destructors(t)
    BY <1>3 DEF Destructors, CarefulStepOf
<1>4. CASE Nest(t)
    BY <1>4 DEF Nest
<1>5. CASE OperateInside(t)
    <2>1. PICK k \in 1 .. MaxNested : MakeMin(t, InnerSlot(k), call[t].lhs, call[t].rhs)
        BY <1>5 DEF OperateInside
    <2>2. Doomed(t) = {} /\ CallAllocated(t) /\ lock = t
        BY <1>5 DEF OperateInside, At, MeshInv, TasksOK, CombineOK, Handled
    <2>. QED  BY <2>1, <2>2, SlotsOfATask, MakeMinIsCareful DEF CallAllocated
<1>6. CASE Operate(t)
    <2>1. MakeMin(t, Temp("tmp"), call[t].lhs, call[t].rhs)
        BY <1>6 DEF Operate
    <2>2. Doomed(t) = {} /\ CallAllocated(t) /\ lock = t
        BY <1>6 DEF Operate, At, MeshInv, TasksOK, CombineOK, Handled
    <2>. QED  BY <2>1, <2>2, SlotsOfATask, MakeMinIsCareful DEF CallAllocated
<1>7. CASE DropInner(t)
    BY <1>7, SlotsOfATask DEF DropInner, CarefulStepOf
<1>8. CASE Render(t)
    BY <1>8 DEF Render
<1>9. CASE Clear(t)
    BY <1>9, SlotsOfATask, ForestFits DEF Clear, CarefulStepOf, MeshInv
<1>10. CASE Store(t)
    BY <1>10 DEF Store
<1>. QED  BY <1>1, <1>2, <1>3, <1>4, <1>5, <1>6, <1>7, <1>8, <1>9, <1>10 DEF Task

LEMMA MeshStepIsCareful == MeshInv /\ [Next]_vars => [CarefulNext]_cacheVars
<1>. SUFFICES ASSUME MeshInv, [Next]_vars PROVE CarefulNext \/ UNCHANGED cacheVars
    OBVIOUS
<1>1. CASE UNCHANGED vars
    BY <1>1 DEF vars
<1>2. CASE Call \/ Close \/ DestroyMember \/ Stopped
    BY <1>2 DEF Call, Close, DestroyMember, Stopped, vars
<1>3. ASSUME NEW t \in Thread, Task(t) PROVE CarefulNext \/ UNCHANGED cacheVars
    BY <1>3, TaskIsCareful DEF CarefulNext
<1>. QED  BY <1>1, <1>2, <1>3 DEF Next

LEMMA CarefulInvKept == MeshInv /\ [Next]_vars => CarefulInv'
BY MeshStepIsCareful, CarefulStep DEF MeshInv

-----------------------------------------------------------------------------
(* What a step does to the cache *)

(* The shapes that a task builds. *)
NewShape(k) ==
    \/ \E x \in Attr : k = Leaf(x)
    \/ \E b, c \in Allocated : k = MinOf(b, c)

NodeEffect ==
    \/ UNCHANGED node
    \/ \E a \in Addr : node[a] # None /\ ~Held(a) /\ node' = [node EXCEPT ![a] = None]
    \/ \E a \in Addr : \E k : /\ node[a] = None /\ k # None /\ NewShape(k)
                              /\ node' = [node EXCEPT ![a] = k]

(* A lookup succeeds: the Tree refers to a node of the key, old or new. *)
LEMMA BuildEffect ==
    ASSUME CarefulInv, CarefulInv', NEW t \in Thread, NEW s \in Slot, NEW k \in Expressible,
           Build(t, s, k), NewShape(k)
    PROVE  /\ NodeEffect
           /\ \E a \in Addr : handle' = Point(t, s, a) /\ node'[a] = k
           /\ UNCHANGED <<lock, dying, erased>>
           /\ \A a \in Allocated : node'[a] = node[a]
<1>. USE DEF CarefulInv, CacheInv, CacheTypeOK
<1>1. UNCHANGED <<lock, dying, erased>>
    BY DEF Build
<1>2. k # None
    BY ExpressibleIsKey, NoneAssumption
<1>3. CASE Find(t, s, k)
    <2>1. PICK e \in cache : e.key = k /\ handle' = Point(t, s, e.node)
        BY <1>3 DEF Find
    <2>2. e.node \in Addr /\ node'[e.node] = k
        BY <1>3, <2>1 DEF Find, EntriesMatch
    <2>. QED  BY <1>1, <1>3, <2>1, <2>2 DEF Find, NodeEffect
<1>4. CASE Make(t, s, k)
    <2>1. PICK a \in Addr : /\ node[a] = None /\ node' = [node EXCEPT ![a] = k]
                            /\ handle' = Point(t, s, a)
        BY <1>4 DEF Make
    <2>. QED  BY <1>1, <1>2, <2>1 DEF NodeEffect, Allocated
<1>. QED  BY <1>3, <1>4 DEF Build

LEMMA MakeMinEffect ==
    ASSUME MeshInv, CarefulInv', NEW t \in Thread, NEW s \in Slot, NEW a \in Allocated,
           NEW b \in Allocated, Doomed(t) = {}, lock = t, MakeMin(t, s, a, b)
    PROVE  /\ NodeEffect
           /\ \E c \in Addr : /\ handle' = Point(t, s, c)
                              /\ IF a = b THEN c = a ELSE node'[c] = MinOf(a, b)
           /\ UNCHANGED <<lock, dying, erased>>
           /\ \A c \in Allocated : node'[c] = node[c]
<1>1. CASE a = b
    BY <1>1 DEF MakeMin, Copy, NodeEffect, Reachable
<1>2. CASE a # b
    <2>1. a \in Reachable /\ b \in Reachable
        BY NoneAssumption DEF MeshInv, CarefulInv, LockCovers, Allocated, Reachable
    <2>2. MinOf(a, b) \in Expressible /\ NewShape(MinOf(a, b))
        BY <2>1, AttrAssumption DEF Expressible, MinOf, NewShape
    <2>. QED  BY <1>2, <2>2, BuildEffect DEF MakeMin, MeshInv
<1>. QED  BY <1>1, <1>2

(* What another thread does to the Trees, the mutex and the nodes of t. *)
LEMMA OthersKeep ==
    ASSUME CarefulInv, NEW t \in Thread, NEW u \in Thread, u # t,
           CarefulStepOf(u) \/ UNCHANGED cacheVars
    PROVE  /\ handle'[t] = handle[t]
           /\ Doomed(t)' = Doomed(t)
           /\ lock' = t <=> lock = t
           /\ lock = t /\ Doomed(t) = {} => UNCHANGED node
<1>. USE NoneAssumption DEF CarefulInv, CacheInv, CacheTypeOK, Doomed
<1>1. CASE UNCHANGED cacheVars
    BY <1>1 DEF cacheVars
<1>2. CASE Acquire(u) \/ Unlock(u)
    BY <1>2 DEF Acquire, Unlock
<1>3. CASE Del(u)
    BY <1>3 DEF Del
<1>4. CASE Release(u)
    <2>1. lock = u
        BY <1>4 DEF Release, LockCovers
    <2>. QED  BY <1>4, <2>1 DEF Release
<1>5. ASSUME NEW s \in Slot, Destroy(u, s)
      PROVE  /\ handle'[t] = handle[t] /\ Doomed(t)' = Doomed(t)
             /\ lock' = t <=> lock = t
             /\ lock = t /\ Doomed(t) = {} => UNCHANGED node
    BY <1>5 DEF Destroy, Point, Expire
<1>6. ASSUME NEW s \in Slot, NEW a \in Reachable, Copy(u, s, a)
      PROVE  /\ handle'[t] = handle[t] /\ Doomed(t)' = Doomed(t)
             /\ lock' = t <=> lock = t
             /\ lock = t /\ Doomed(t) = {} => UNCHANGED node
    BY <1>6 DEF Copy, Point
<1>7. ASSUME NEW d \in Slot, NEW s \in Slot, AssignShared(u, d, s)
      PROVE  /\ handle'[t] = handle[t] /\ Doomed(t)' = Doomed(t)
             /\ lock' = t <=> lock = t
             /\ lock = t /\ Doomed(t) = {} => UNCHANGED node
    BY <1>7 DEF AssignShared, Assign, Point
<1>8. ASSUME NEW s \in Slot, NEW k \in Expressible, Build(u, s, k)
      PROVE  /\ handle'[t] = handle[t] /\ Doomed(t)' = Doomed(t)
             /\ lock' = t <=> lock = t
             /\ lock = t /\ Doomed(t) = {} => UNCHANGED node
    BY <1>8 DEF Build, Find, Make, Point
<1>. QED  BY <1>1, <1>2, <1>3, <1>4, <1>5, <1>6, <1>7, <1>8 DEF CarefulStepOf

-----------------------------------------------------------------------------
(* The document preserves the invariant *)

LEMMA RemovalKeepsOrder ==
    ASSUME NEW g \in Seq(Sphere), IsInjective(g), NEW i \in DOMAIN g
    PROVE  RemoveAt(g, i) \in Seq(Sphere) /\ IsInjective(RemoveAt(g, i))
<1>1. i \in 1 .. Len(g) /\ Len(g) \in Nat
    BY LenProperties
<1>. DEFINE p == SubSeq(g, 1, i - 1)
            q == SubSeq(g, i + 1, Len(g))
<1>2. p \in Seq(Sphere) /\ Len(p) = i - 1 /\ \A j \in 1 .. i - 1 : p[j] = g[j]
    <2>1. \A j \in 1 .. i - 1 : g[j] \in Sphere
        BY <1>1, ElementOfSeq
    <2>2. /\ p \in Seq(Sphere) /\ Len(p) = IF 1 <= i - 1 THEN i - 1 - 1 + 1 ELSE 0
          /\ \A j \in 1 .. i - 1 - 1 + 1 : p[j] = g[1 + j - 1]
        BY <1>1, <2>1, SubSeqProperties
    <2>. QED  BY <1>1, <2>2
<1>3. q \in Seq(Sphere) /\ Len(q) = Len(g) - i /\ \A j \in 1 .. Len(g) - i : q[j] = g[i + j]
    <2>1. \A j \in i + 1 .. Len(g) : g[j] \in Sphere
        BY <1>1, ElementOfSeq
    <2>2. /\ q \in Seq(Sphere)
          /\ Len(q) = IF i + 1 <= Len(g) THEN Len(g) - (i + 1) + 1 ELSE 0
          /\ \A j \in 1 .. Len(g) - (i + 1) + 1 : q[j] = g[i + 1 + j - 1]
        BY <1>1, <2>1, SubSeqProperties
    <2>. QED  BY <1>1, <2>2
<1>4. /\ p \o q \in Seq(Sphere) /\ Len(p \o q) = Len(g) - 1
      /\ \A j \in 1 .. Len(g) - 1 : (p \o q)[j] = IF j < i THEN g[j] ELSE g[j + 1]
    <2>. HIDE DEF p, q
    <2>1. /\ p \o q \in Seq(Sphere) /\ Len(p \o q) = Len(p) + Len(q)
          /\ \A j \in 1 .. Len(p) + Len(q) :
                (p \o q)[j] = IF j <= Len(p) THEN p[j] ELSE q[j - Len(p)]
        BY <1>2, <1>3, ConcatProperties
    <2>2. Len(p) + Len(q) = Len(g) - 1
        BY <1>1, <1>2, <1>3
    <2>3. ASSUME NEW j \in 1 .. Len(g) - 1
          PROVE  (p \o q)[j] = IF j < i THEN g[j] ELSE g[j + 1]
        <3>1. CASE j < i
            BY <1>1, <1>2, <2>1, <2>2, <3>1
        <3>2. CASE ~(j < i)
            <4>1. (p \o q)[j] = q[j - (i - 1)] /\ j - (i - 1) \in 1 .. Len(g) - i
                BY <1>1, <1>2, <2>1, <2>2, <3>2
            <4>2. i + (j - (i - 1)) = j + 1
                BY <1>1
            <4>. QED  BY <1>3, <3>2, <4>1, <4>2
        <3>. QED  BY <3>1, <3>2
    <2>. QED  BY <2>1, <2>2, <2>3
<1>5. IsInjective(p \o q)
    <2>. HIDE DEF p, q
    <2>1. DOMAIN (p \o q) = 1 .. Len(g) - 1
        BY <1>4, LenProperties
    <2>2. \A a, b \in 1 .. Len(g) : g[a] = g[b] => a = b
        BY LenProperties DEF IsInjective
    <2>3. ASSUME NEW a \in 1 .. Len(g) - 1, NEW b \in 1 .. Len(g) - 1,
                 (p \o q)[a] = (p \o q)[b]
          PROVE  a = b
        BY <1>1, <1>4, <2>2, <2>3
    <2>. QED  BY <2>1, <2>3 DEF IsInjective
<1>. QED  BY <1>4, <1>5 DEF RemoveAt

LEMMA CreationKeepsOrder ==
    ASSUME NEW g \in Seq(Sphere), IsInjective(g), NEW s \in Sphere, s \notin Range(g)
    PROVE  Append(g, s) \in Seq(Sphere) /\ IsInjective(Append(g, s))
<1>1. /\ Append(g, s) \in Seq(Sphere) /\ Len(Append(g, s)) = Len(g) + 1
      /\ \A i \in 1 .. Len(g) : Append(g, s)[i] = g[i]
      /\ Append(g, s)[Len(g) + 1] = s
    BY AppendProperties
<1>2. Len(g) \in Nat /\ DOMAIN g = 1 .. Len(g) /\ DOMAIN Append(g, s) = 1 .. Len(g) + 1
    BY <1>1, LenProperties
<1>3. \A i \in 1 .. Len(g) : g[i] # s
    BY <1>2 DEF Range
<1>. QED  BY <1>1, <1>2, <1>3 DEF IsInjective

LEMMA MembersInOrder ==
    /\ DOMAIN DestructionOrder = 1 .. 4
    /\ DestructionOrder[1] = "cancellables" /\ DestructionOrder[2] = "factory"
    /\ DestructionOrder[3] = "mesh" /\ DestructionOrder[4] = "graph"
    /\ Range(DestructionOrder) = {"cancellables", "factory", "mesh", "graph"}
<1>1. /\ DOMAIN DestructionOrder = 1 .. 4
      /\ DestructionOrder[1] = "cancellables" /\ DestructionOrder[2] = "factory"
      /\ DestructionOrder[3] = "mesh" /\ DestructionOrder[4] = "graph"
    BY DEF DestructionOrder
<1>2. \A i \in 1 .. 4 : i = 1 \/ i = 2 \/ i = 3 \/ i = 4
    OBVIOUS
<1>. QED  BY <1>1, <1>2 DEF Range

(* A call of the user assigns an attribute, or starts a task, or both. *)
Starts(g) ==
    /\ g \in Seq(Sphere) /\ IsInjective(g)
    /\ started < Calls /\ ~closing
    /\ graph' = g /\ writing' = None
    /\ RegenMesh(g)

AssignsCoord ==
    /\ started < Calls /\ ~closing
    /\ writing' \in [sphere : Sphere, radius : Radius]
    /\ UNCHANGED <<graph, started, forest, step, root>>

LEMMA CallEffect ==
    ASSUME MeshInv, Call
    PROVE  /\ UNCHANGED <<cacheVars, seen, call, rank, rendered, mesh, stored, corrupt,
                          members, closing>>
           /\ attr' \in [Sphere -> Attr]
           /\ AssignsCoord \/ (\E g : Starts(g))
<1>. USE DEF MeshInv, DocumentTypeOK
<1>0. UNCHANGED <<cacheVars, seen, call, rank, rendered, mesh, stored, corrupt>>
    BY DEF Call
<1>1. ASSUME NEW s \in Sphere, CreateNode(s)
      PROVE  /\ UNCHANGED <<members, closing>> /\ attr' \in [Sphere -> Attr]
             /\ Starts(graph')
    <2>1. graph' \in Seq(Sphere) /\ IsInjective(graph')
        BY <1>1, CreationKeepsOrder DEF CreateNode
    <2>. QED  BY <1>1, <2>1 DEF CreateNode, Idle, Starts
<1>2. ASSUME NEW s \in Sphere, RemoveNode(s)
      PROVE  /\ UNCHANGED <<members, closing>> /\ attr' \in [Sphere -> Attr]
             /\ Starts(graph')
    <2>1. graph' \in Seq(Sphere) /\ IsInjective(graph')
        BY <1>2, RemovalKeepsOrder DEF RemoveNode
    <2>. QED  BY <1>2, <2>1 DEF RemoveNode, Idle, Starts
<1>3. ASSUME NEW u \in Updates, UpdateCoord(u[1], u[2])
      PROVE  /\ UNCHANGED <<members, closing>> /\ attr' \in [Sphere -> Attr]
             /\ AssignsCoord
    <2>1. PICK first \in Accessed(u[1]) :
            /\ attr' = [attr EXCEPT ![first].coord = u[2].coord]
            /\ writing' = [sphere |-> first, radius |-> u[2].radius]
        BY <1>3 DEF UpdateCoord
    <2>2. graph # <<>> /\ first = Head(graph)
        BY <2>1, EmptySeq DEF Accessed, Range
    <2>3. first \in Sphere
        BY <2>2, HeadTailProperties
    <2>4. u[2].radius \in Radius /\ u[2].coord \in Coord
        BY AttrAssumption DEF Attr
    <2>5. attr[first] \in [coord : Coord, radius : Radius]
        BY <2>3 DEF Attr
    <2>6. [attr[first] EXCEPT !.coord = u[2].coord] \in Attr
        BY <2>4, <2>5 DEF Attr
    <2>. QED  BY <1>3, <2>1, <2>3, <2>4, <2>6 DEF UpdateCoord, Idle, AssignsCoord
<1>4. CASE UpdateRadius
    <2>1. writing \in [sphere : Sphere, radius : Radius]
        BY <1>4 DEF UpdateRadius
    <2>2. writing.sphere \in Sphere /\ writing.radius \in Radius
        BY <2>1
    <2>3. attr[writing.sphere] \in [coord : Coord, radius : Radius]
        BY <2>2 DEF Attr
    <2>4. [attr[writing.sphere] EXCEPT !.radius = writing.radius] \in Attr
        BY <2>2, <2>3 DEF Attr
    <2>5. started < Calls /\ ~closing
        BY <1>4 DEF UpdateRadius, NotStarted, ClosingOK
    <2>6. Starts(graph)
        BY <1>4, <2>5 DEF UpdateRadius, Starts
    <2>. QED  BY <1>0, <1>4, <2>2, <2>4, <2>6 DEF UpdateRadius
<1>. QED  BY <1>0, <1>1, <1>2, <1>3, <1>4 DEF Call

(* What the definitions read of the cache. *)
LEMMA TaskKeeps ==
    ASSUME NEW t \in Thread, UNCHANGED cacheVars, ReadingOK(t), CombineOK(t), EmptyOK(t),
           step'[t] = step[t], root'[t] = root[t], forest'[t] = forest[t],
           UNCHANGED <<seen, call>>
    PROVE  ReadingOK(t)' /\ CombineOK(t)' /\ EmptyOK(t)'
BY DEF cacheVars, ReadingOK, CombineOK, EmptyOK, RootsHeld, Is, Doomed, HeldBy, CallAllocated,
       Allocated

LEMMA NodesKeep ==
    ASSUME UNCHANGED <<cacheVars, rank>>, NodesOK
    PROVE  NodesOK'
BY DEF cacheVars, NodesOK, ShapeOK, IsMin, Allocated, Leaf

LEMMA StartPreserves ==
    ASSUME MeshInv, CarefulInv', NEW g, Starts(g), attr' \in [Sphere -> Attr],
           UNCHANGED <<cacheVars, seen, call, rank, rendered, mesh, stored, corrupt,
                       members, closing>>
    PROVE  MeshInv'
<1>. DEFINE new == started + 1
<1>1. /\ new \in Thread /\ started' = new /\ new > started
      /\ forest' = [forest EXCEPT ![new] = g]
      /\ IF g = <<>> THEN GoTo(new, "store", 0) ELSE GoTo(new, "coord", 1)
    BY CountsAreNaturals, ThreadAssumption DEF Starts, RegenMesh, MeshInv, DocumentTypeOK
<1>. USE DEF MeshInv
<1>2. step[new] = "done" /\ seen[new] = <<>>
    BY <1>1 DEF NotStarted
<1>3. /\ step' = [step EXCEPT ![new] = IF g = <<>> THEN "store" ELSE "coord"]
      /\ root' = [root EXCEPT ![new] = IF g = <<>> THEN 0 ELSE 1]
    BY <1>1 DEF GoTo
<1>. HIDE DEF new
<1>4. DocumentTypeOK'
    BY <1>1, CountsAreNaturals, ThreadAssumption DEF Starts, DocumentTypeOK
<1>5. TaskTypeOK'
    <2>1. stored' \in Seq(1 .. started')
        <3>1. 1 .. started \subseteq 1 .. new
            BY <1>1, CountsAreNaturals DEF DocumentTypeOK, new
        <3>. QED  BY <1>1, <3>1, SeqMonotonic DEF TaskTypeOK
    <2>. QED  BY <1>1, <1>3, <2>1 DEF TaskTypeOK, Steps
<1>6. NotStarted'
    BY <1>1, <1>3, ThreadAssumption DEF NotStarted, Starts, DocumentTypeOK, TaskTypeOK, new
<1>7. TasksOK'
    <2>. SUFFICES ASSUME NEW t \in Thread PROVE ReadingOK(t)' /\ CombineOK(t)' /\ EmptyOK(t)'
        BY DEF TasksOK
    <2>1. CASE t # new
        BY <1>1, <1>3, <2>1, TaskKeeps DEF TasksOK, DocumentTypeOK, TaskTypeOK
    <2>2. CASE t = new
        <3>1. /\ step'[t] = IF g = <<>> THEN "store" ELSE "coord"
              /\ root'[t] = IF g = <<>> THEN 0 ELSE 1
              /\ forest'[t] = g /\ seen'[t] = <<>>
            BY <1>1, <1>2, <1>3, <2>2 DEF DocumentTypeOK, TaskTypeOK
        <3>2. Len(seen'[t]) = 0 /\ Len(g) \in Nat /\ (g # <<>> => Len(g) >= 1)
            BY <3>1, EmptySeq, LenProperties DEF Starts
        <3>3. ReadingOK(t)'
            <4>1. CASE g = <<>>
                BY <3>1, <3>2, <4>1 DEF ReadingOK, Loop
            <4>2. CASE g # <<>>
                BY <3>1, <3>2, <4>2 DEF ReadingOK, Loop, RootsHeld
            <4>. QED  BY <4>1, <4>2
        <3>4. CombineOK(t)'
            BY <3>1 DEF CombineOK, Loop, Combining, Handled
        <3>5. EmptyOK(t)'
            BY <1>2, <2>2 DEF TasksOK, EmptyOK, cacheVars, HeldBy, Doomed
        <3>. QED  BY <3>3, <3>4, <3>5
    <2>. QED  BY <2>1, <2>2
<1>8. NodesOK'
    BY NodesKeep
<1>9. ClosingOK'
    BY MembersInOrder DEF ClosingOK, Starts
<1>. QED  BY <1>4, <1>5, <1>6, <1>7, <1>8, <1>9

(* The document is called, closed and destroyed. *)
LEMMA DocumentPreserves ==
    ASSUME MeshInv, CarefulInv', Call \/ Close \/ DestroyMember
    PROVE  MeshInv'
<1>. USE DEF MeshInv
<1>1. ASSUME NEW g, Starts(g), Call PROVE MeshInv'
    BY <1>1, CallEffect, StartPreserves
<1>2. CASE Call /\ AssignsCoord
    <2>1. /\ UNCHANGED <<cacheVars, seen, call, rank, rendered, mesh, stored, corrupt,
                         members, closing>>
          /\ attr' \in [Sphere -> Attr]
        BY <1>2, CallEffect
    <2>2. UNCHANGED <<graph, started, forest, step, root>>
        BY <1>2 DEF AssignsCoord
    <2>3. DocumentTypeOK' /\ TaskTypeOK' /\ NotStarted'
        BY <1>2, <2>1 DEF AssignsCoord, DocumentTypeOK, TaskTypeOK, NotStarted
    <2>4. TasksOK' /\ NodesOK'
        BY <2>1, <2>2, TaskKeeps, NodesKeep DEF TasksOK
    <2>5. ClosingOK'
        BY <1>2, <2>1, MembersInOrder DEF AssignsCoord, ClosingOK
    <2>. QED  BY <2>3, <2>4, <2>5
<1>3. CASE Close \/ DestroyMember
    <2>1. UNCHANGED <<cacheVars, graph, attr, writing, started, forest, taskVars>>
        BY <1>3 DEF Close, DestroyMember
    <2>2. DocumentTypeOK' /\ TaskTypeOK' /\ NotStarted'
        BY <1>3, <2>1 DEF Close, DestroyMember, DocumentTypeOK, TaskTypeOK, NotStarted, taskVars
    <2>3. TasksOK' /\ NodesOK'
        BY <2>1, TaskKeeps, NodesKeep DEF TasksOK, taskVars
    <2>4. Active' = Active
        BY <2>1 DEF Active, taskVars
    <2>5. ASSUME Close PROVE ClosingOK'
        BY <2>1, <2>4, <2>5, MembersInOrder DEF Close, ClosingOK
    <2>6. ASSUME DestroyMember PROVE ClosingOK'
        <3>1. PICK i \in 1 .. 4 :
                  /\ \A j \in 1 .. i - 1 : DestructionOrder[j] \notin members
                  /\ DestructionOrder[i] = "cancellables" => Active = {}
                  /\ members' = members \ {DestructionOrder[i]}
            BY <2>6, MembersInOrder DEF DestroyMember
        <3>2. closing /\ closing'
            BY <2>6 DEF DestroyMember
        <3>3. i # 1 => "cancellables" \notin members
            BY <3>1, MembersInOrder
        <3>4. "cancellables" \notin members' => Active' = {}
            BY <2>4, <3>1, <3>3, MembersInOrder DEF ClosingOK
        <3>5. {"factory", "mesh"} \subseteq members' \/ "cancellables" \notin members'
            BY <3>1, <3>3, MembersInOrder DEF ClosingOK
        <3>. QED  BY <2>1, <3>2, <3>4, <3>5, MembersInOrder DEF ClosingOK
    <2>7. ClosingOK'
        BY <1>3, <2>5, <2>6
    <2>. QED  BY <2>2, <2>3, <2>7
<1>. QED  BY <1>1, <1>2, <1>3, CallEffect

-----------------------------------------------------------------------------
(* The tasks preserve the invariant *)

Goes(t, s, i) == step'[t] = s /\ root'[t] = i

LEMMA AdvanceEffect ==
    ASSUME TaskTypeOK, NEW t \in Thread, Advance(t), step[t] # "done"
    PROVE  /\ step' = [step EXCEPT ![t] = step'[t]] /\ root' = [root EXCEPT ![t] = root'[t]]
           /\ step[t] = "coord" => Goes(t, "leaf", root[t])
           /\ step[t] = "leaf" => IF root[t] < Len(forest[t]) THEN Goes(t, "coord", root[t] + 1)
                                  ELSE Goes(t, "tree", 1)
           /\ step[t] \in {"tree", "dropAcc"} =>
                 IF root[t] < Len(forest[t]) THEN Goes(t, "acc", root[t] + 1)
                 ELSE Goes(t, "render", root[t])
           /\ step[t] = "acc" => Goes(t, "lock", root[t])
           /\ step[t] = "lock" => Goes(t, "operate", root[t])
           /\ step[t] = "operate" => Goes(t, "dropInner", root[t])
           /\ step[t] = "dropInner" => Goes(t, "unlock", root[t])
           /\ step[t] = "unlock" => Goes(t, "assign", root[t])
           /\ step[t] = "assign" => Goes(t, "dropResult", root[t])
           /\ step[t] = "dropResult" => Goes(t, "dropAcc", root[t])
           /\ step[t] = "render" => Goes(t, "clear", root[t])
           /\ step[t] = "clear" => Goes(t, "store", root[t])
           /\ step[t] = "store" => Goes(t, "done", root[t])
<1>1. step \in [Thread -> Steps] /\ root \in [Thread -> Nat]
    BY DEF TaskTypeOK
<1>2. \A s, i : GoTo(t, s, i) => /\ step' = [step EXCEPT ![t] = step'[t]]
                                 /\ root' = [root EXCEPT ![t] = root'[t]]
                                 /\ Goes(t, s, i)
    BY <1>1 DEF GoTo, Goes
<1>3. LET next == StepAfter(step[t]) IN
      /\ next # "next" => GoTo(t, next, root[t])
      /\ next = "next" /\ root[t] < Len(forest[t]) =>
            GoTo(t, IF step[t] = "leaf" THEN "coord" ELSE "acc", root[t] + 1)
      /\ next = "next" /\ ~(root[t] < Len(forest[t])) =>
            GoTo(t, IF step[t] = "leaf" THEN "tree" ELSE "render",
                    IF step[t] = "leaf" THEN 1 ELSE root[t])
    BY DEF Advance
<1>4. /\ StepAfter("coord") = "leaf" /\ StepAfter("leaf") = "next" /\ StepAfter("tree") = "next"
      /\ StepAfter("render") = "clear" /\ StepAfter("clear") = "store"
      /\ StepAfter("store") = "done" /\ StepAfter("acc") = "lock"
      /\ StepAfter("lock") = "operate" /\ StepAfter("operate") = "dropInner"
      /\ StepAfter("dropInner") = "unlock" /\ StepAfter("unlock") = "assign"
      /\ StepAfter("assign") = "dropResult" /\ StepAfter("dropResult") = "dropAcc"
      /\ StepAfter("dropAcc") = "next"
    BY DEF StepAfter, CombineSteps
<1>5. /\ step' = [step EXCEPT ![t] = step'[t]] /\ root' = [root EXCEPT ![t] = root'[t]]
    BY <1>2, <1>3
<1>6. CASE step[t] \in {"leaf", "tree", "dropAcc"}
    BY <1>2, <1>3, <1>4, <1>5, <1>6
<1>7. CASE step[t] \notin {"leaf", "tree", "dropAcc"}
    BY <1>1, <1>2, <1>3, <1>4, <1>5, <1>7 DEF Steps, Loop
<1>. QED  BY <1>6, <1>7

(* The part of the invariant that a step of t can disturb first. *)
OnlyMoves(t) ==
    \A u \in Thread \ {t} : /\ step'[u] = step[u] /\ root'[u] = root[u]
                            /\ seen'[u] = seen[u] /\ call'[u] = call[u]
                            /\ rendered'[u] = rendered[u]

TaskKept(t) ==
    TaskTypeOK' /\ ReadingOK(t)' /\ CombineOK(t)' /\ EmptyOK(t)' /\ OnlyMoves(t)

(* A task reads attributes at a root of its forest. *)
LEMMA ReadsAttributes ==
    ASSUME MeshInv, NEW t \in Thread, step[t] \in {"coord", "leaf"}
    PROVE  /\ root[t] \in 1 .. Len(forest[t]) /\ RootSlot(root[t]) \in Slot
           /\ forest[t][root[t]] \in Sphere /\ attr[forest[t][root[t]]] \in Attr
           /\ step[t] = "leaf" => ReadRadius(t) \in Attr
<1>1. root[t] \in 1 .. Len(forest[t])
    BY DEF MeshInv, TasksOK, ReadingOK
<1>2. forest[t][root[t]] \in Sphere /\ RootSlot(root[t]) \in Slot
    BY <1>1, ForestFits DEF MeshInv
<1>3. attr[forest[t][root[t]]] \in Attr
    BY <1>2 DEF MeshInv, DocumentTypeOK
<1>4. ASSUME step[t] = "leaf" PROVE ReadRadius(t) \in Attr
    <2>1. Len(seen[t]) = root[t] /\ seen[t] \in Seq(Attr)
        BY <1>4 DEF MeshInv, TaskTypeOK, TasksOK, ReadingOK
    <2>2. seen[t][root[t]] \in Attr
        BY <1>1, <2>1, ElementOfSeq
    <2>. QED  BY <1>3, <2>2 DEF ReadRadius, Attr
<1>. QED  BY <1>1, <1>2, <1>3, <1>4

LEMMA ReadCoordKeeps ==
    ASSUME MeshInv, NEW t \in Thread, ReadCoord(t), UNCHANGED documentVars
    PROVE  TaskKept(t)
<1>. USE DEF MeshInv, cacheVars, documentVars
<1>1. step[t] = "coord"
    BY DEF ReadCoord, At
<1>2. /\ step' = [step EXCEPT ![t] = "leaf"] /\ root' = [root EXCEPT ![t] = root[t]]
    BY <1>1, AdvanceEffect DEF ReadCoord, Goes
<1>3. seen[t] \in Seq(Attr) /\ Len(seen[t]) = root[t] - 1
    BY <1>1 DEF TaskTypeOK, TasksOK, ReadingOK
<1>. DEFINE new == Append(seen[t], attr[forest[t][root[t]]])
<1>4. new \in Seq(Attr) /\ Len(new) = root[t]
    BY <1>1, <1>3, ReadsAttributes, AppendProperties
<1>5. seen' = [seen EXCEPT ![t] = new]
    BY DEF ReadCoord
<1>. HIDE DEF new
<1>6. UNCHANGED <<cacheVars, call, rendered, mesh, stored, corrupt>>
    BY DEF ReadCoord
<1>7. TaskTypeOK'
    BY <1>2, <1>4, <1>5, <1>6 DEF TaskTypeOK, Steps
<1>8. ReadingOK(t)'
    BY <1>1, <1>2, <1>4, <1>5, <1>6 DEF TaskTypeOK, TasksOK, ReadingOK, RootsHeld, Loop
<1>9. CombineOK(t)' /\ EmptyOK(t)'
    BY <1>2 DEF TaskTypeOK, CombineOK, EmptyOK, Loop, Combining, Handled
<1>10. OnlyMoves(t)
    BY <1>2, <1>5, <1>6 DEF OnlyMoves, TaskTypeOK
<1>. QED  BY <1>7, <1>8, <1>9, <1>10 DEF TaskKept

LEMMA DestructorsKeep ==
    ASSUME MeshInv, NEW t \in Thread, Destructors(t), UNCHANGED documentVars
    PROVE  TaskKept(t)
<1>. USE DEF MeshInv, documentVars
<1>1. UNCHANGED <<handle, step, root, seen, call, rendered, mesh, stored, corrupt>>
    BY DEF Destructors, Del, Release, Unlock
<1>2. lock' = lock \/ (lock' = None /\ step[t] \notin Handled)
    BY DEF Destructors, Del, Release, Unlock
<1>3. Doomed(t) # {} \/ Unlock(t)
    BY DEF Destructors, Del, Release, Doomed
<1>4. step[t] # "operate"
    BY <1>3 DEF Destructors, TasksOK, CombineOK, Handled, Unlock, Del, Release, Doomed
<1>5. step[t] \notin {"store", "done"}
    BY <1>3 DEF TasksOK, EmptyOK, Unlock
<1>6. TaskTypeOK'
    BY <1>1 DEF TaskTypeOK
<1>7. ReadingOK(t)'
    BY <1>1 DEF TasksOK, ReadingOK, RootsHeld
<1>8. CombineOK(t)' /\ EmptyOK(t)'
    BY <1>1, <1>2, <1>4, <1>5 DEF TasksOK, CombineOK, EmptyOK, Is
<1>. QED  BY <1>1, <1>6, <1>7, <1>8 DEF TaskKept, OnlyMoves

(* A Tree that is made to refer to another node leaves the others alone. *)
LEMMA Pointed ==
    ASSUME MeshInv, NEW t \in Thread, NEW s \in Slot, NEW a, handle' = Point(t, s, a)
    PROVE  /\ handle'[t][s] = a
           /\ \A r \in Slot : r # s => handle'[t][r] = handle[t][r]
BY DEF Point, MeshInv, CarefulInv, CacheInv, CacheTypeOK

LEMMA WorkTypes ==
    ASSUME MeshInv, NEW t \in Thread, Work(t), UNCHANGED documentVars,
           step[t] # "leaf", step[t] # "lock", step'[t] \in Steps, root'[t] \in Nat
    PROVE  /\ TaskTypeOK' /\ OnlyMoves(t)
           /\ UNCHANGED <<seen, call, rendered, forest>>
<1>1. step[t] # "done" /\ Advance(t)
    BY DEF Work, TreeStep, At, Active
<1>2. /\ step' = [step EXCEPT ![t] = step'[t]] /\ root' = [root EXCEPT ![t] = root'[t]]
    BY <1>1, AdvanceEffect DEF MeshInv
<1>3. UNCHANGED <<seen, call, rendered, mesh, stored, corrupt, started, forest>>
    BY DEF Work, documentVars
<1>. QED  BY <1>2, <1>3 DEF MeshInv, TaskTypeOK, OnlyMoves

LEMMA LeafKeeps ==
    ASSUME MeshInv, CarefulInv', NEW t \in Thread, Work(t), step[t] = "leaf",
           UNCHANGED documentVars
    PROVE  TaskKept(t)
<1>. USE DEF MeshInv, documentVars
<1>1. Build(t, RootSlot(root[t]), Leaf(ReadRadius(t))) /\ Advance(t)
    BY DEF Work, TreeStep, At
<1>2. root[t] \in 1 .. Len(forest[t]) /\ RootSlot(root[t]) \in Slot /\ ReadRadius(t) \in Attr
    BY ReadsAttributes
<1>3. Leaf(ReadRadius(t)) \in Expressible /\ NewShape(Leaf(ReadRadius(t)))
    BY <1>2, AttrAssumption DEF Leaf, Expressible, NewShape
<1>4. PICK a \in Addr : handle' = Point(t, RootSlot(root[t]), a)
    BY <1>1, <1>2, <1>3, BuildEffect
<1>5. seen[t] \in Seq(Attr) /\ Len(seen[t]) = root[t]
    BY DEF TaskTypeOK, TasksOK, ReadingOK
<1>. DEFINE new == [seen[t] EXCEPT ![root[t]] = ReadRadius(t)]
<1>6. new \in Seq(Attr) /\ Len(new) = root[t]
    BY <1>2, <1>5, ExceptSeq
<1>7. seen' = [seen EXCEPT ![t] = new]
    BY DEF Work
<1>. HIDE DEF new
<1>8. UNCHANGED <<call, rendered, mesh, stored, corrupt>>
    BY DEF Work
<1>9. /\ step' = [step EXCEPT ![t] = step'[t]] /\ root' = [root EXCEPT ![t] = root'[t]]
      /\ IF root[t] < Len(forest[t]) THEN Goes(t, "coord", root[t] + 1) ELSE Goes(t, "tree", 1)
    BY <1>1, AdvanceEffect
<1>10. root[t] \in Nat /\ Len(forest[t]) \in Nat
    BY ForestFits DEF TaskTypeOK
<1>11. step'[t] \in {"coord", "tree"} /\ root'[t] \in Nat
    BY <1>9, <1>10 DEF Goes
<1>12. TaskTypeOK'
    BY <1>6, <1>7, <1>8, <1>9, <1>11 DEF TaskTypeOK, Steps
<1>13. ASSUME NEW i \in 1 .. root[t] PROVE handle'[t][RootSlot(i)] # None
    <2>1. RootSlot(i) \in Slot
        BY <1>2, <1>10, ForestFits
    <2>2. i # root[t] => handle[t][RootSlot(i)] # None
        BY <1>10 DEF TasksOK, ReadingOK, RootsHeld
    <2>. QED  BY <1>2, <1>4, <2>1, <2>2, Pointed, SlotsDiffer, NoneAssumption
<1>14. ReadingOK(t)'
    <2>1. \A i \in 1 .. root[t] : handle'[t][RootSlot(i)] # None
        BY <1>13
    <2>2. seen'[t] = new
        BY <1>7 DEF TaskTypeOK
    <2>3. CASE root[t] < Len(forest[t])
        BY <1>2, <1>6, <1>9, <1>10, <2>1, <2>2, <2>3 DEF Goes, ReadingOK, RootsHeld, Loop
    <2>4. CASE ~(root[t] < Len(forest[t]))
        BY <1>2, <1>6, <1>9, <1>10, <2>1, <2>2, <2>4 DEF Goes, ReadingOK, RootsHeld, Loop
    <2>. QED  BY <2>3, <2>4
<1>15. CombineOK(t)' /\ EmptyOK(t)'
    BY <1>11 DEF CombineOK, EmptyOK, Loop, Combining, Handled
<1>16. OnlyMoves(t)
    BY <1>7, <1>8, <1>9 DEF OnlyMoves, TaskTypeOK
<1>. QED  BY <1>12, <1>14, <1>15, <1>16 DEF TaskKept

(* The loop leaves what has been read and the roots alone. *)
LEMMA LoopKeepsReading ==
    ASSUME MeshInv, NEW t \in Thread, step[t] \in {"tree"} \cup Loop,
           Advance(t) \/ UNCHANGED <<step, root>>, UNCHANGED <<forest, seen>>,
           \A i \in 1 .. Len(forest[t]) : handle'[t][RootSlot(i)] = handle[t][RootSlot(i)]
    PROVE  /\ ReadingOK(t)'
           /\ step'[t] \in Steps /\ root'[t] \in Nat
           /\ step' = [step EXCEPT ![t] = step'[t]] /\ root' = [root EXCEPT ![t] = root'[t]]
<1>. USE DEF MeshInv
<1>1. root[t] \in Nat /\ Len(forest[t]) \in Nat
    BY ForestFits DEF TaskTypeOK
<1>2. /\ root[t] \in 1 .. Len(forest[t]) /\ Len(seen[t]) = Len(forest[t])
      /\ RootsHeld(t, Len(forest[t]))
    BY DEF TasksOK, ReadingOK, Loop
<1>3. CASE UNCHANGED <<step, root>>
    <2>1. ReadingOK(t)'
        BY <1>1, <1>2, <1>3 DEF TasksOK, ReadingOK, RootsHeld, Loop
    <2>. QED  BY <1>3, <2>1 DEF TaskTypeOK
<1>4. CASE Advance(t)
    <2>1. /\ step' = [step EXCEPT ![t] = step'[t]] /\ root' = [root EXCEPT ![t] = root'[t]]
          /\ \/ step'[t] \in Loop /\ root'[t] = root[t]
             \/ step'[t] = "acc" /\ root'[t] = root[t] + 1 /\ root[t] < Len(forest[t])
             \/ step'[t] = "render" /\ root'[t] = root[t] /\ ~(root[t] < Len(forest[t]))
        BY <1>4, AdvanceEffect DEF Goes, Loop
    <2>2. ReadingOK(t)'
        <3>1. CASE step'[t] \in Loop /\ root'[t] = root[t]
            BY <1>1, <1>2, <3>1 DEF ReadingOK, RootsHeld, Loop
        <3>2. CASE step'[t] = "acc" /\ root'[t] = root[t] + 1 /\ root[t] < Len(forest[t])
            BY <1>1, <1>2, <3>2 DEF ReadingOK, RootsHeld, Loop
        <3>3. CASE step'[t] = "render" /\ root'[t] = root[t] /\ ~(root[t] < Len(forest[t]))
            BY <1>1, <1>2, <3>3 DEF ReadingOK, RootsHeld, Loop
        <3>. QED  BY <2>1, <3>1, <3>2, <3>3
    <2>. QED  BY <1>1, <2>1, <2>2 DEF Steps, Loop
<1>. QED  BY <1>3, <1>4

LEMMA LoopStepKeeps ==
    ASSUME MeshInv, CarefulInv', NEW t \in Thread, Work(t), step[t] \in {"tree"} \cup Loop,
           UNCHANGED documentVars, \A i \in 1 .. Len(forest[t]) :
                                      handle'[t][RootSlot(i)] = handle[t][RootSlot(i)],
           step[t] # "lock", CombineOK(t)'
    PROVE  TaskKept(t)
<1>1. Advance(t) /\ UNCHANGED <<seen, forest>>
    BY DEF Work, Loop, documentVars
<1>2. /\ ReadingOK(t)' /\ step'[t] \in Steps /\ root'[t] \in Nat
    BY <1>1, LoopKeepsReading
<1>3. TaskTypeOK' /\ OnlyMoves(t)
    BY <1>2, WorkTypes DEF Loop
<1>4. step[t] # "done" /\ step[t] # "clear" /\ step[t] # "store"
    BY DEF Loop
<1>5. step'[t] \notin {"store", "done"}
    BY <1>1, <1>4, AdvanceEffect DEF MeshInv, Goes, Loop
<1>. QED  BY <1>2, <1>3, <1>5 DEF TaskKept, EmptyOK

LEMMA CopyStepsKeep ==
    ASSUME MeshInv, CarefulInv', NEW t \in Thread, Work(t), step[t] \in {"tree", "acc"},
           UNCHANGED documentVars
    PROVE  TaskKept(t)
<1>. USE DEF MeshInv
<1>1. PICK n \in {"tree", "acc"} :
          /\ n = step[t] /\ handle' = Point(t, Temp(n), IF n = "tree" THEN Elem(t) ELSE Is(t, "tree"))
          /\ (IF n = "tree" THEN Elem(t) ELSE Is(t, "tree")) \in Reachable
    BY DEF Work, TreeStep, At, Copy
<1>2. /\ \A i \in 1 .. Len(forest[t]) : handle'[t][RootSlot(i)] = handle[t][RootSlot(i)]
      /\ \A r \in Slot : r # Temp(n) => handle'[t][r] = handle[t][r]
      /\ handle'[t][Temp(n)] = IF n = "tree" THEN Elem(t) ELSE Is(t, "tree")
    BY <1>1, Pointed, SlotsOfATask, SlotsDiffer, ForestFits
<1>3. handle'[t][Temp(n)] # None
    BY <1>1, <1>2, NoneAssumption DEF Reachable
<1>4. Advance(t)
    BY DEF Work
<1>5. step'[t] \in {"acc", "lock", "render"} /\ (step[t] = "acc" => step'[t] = "lock")
      /\ (step[t] = "tree" => step'[t] # "lock")
    BY <1>4, AdvanceEffect DEF Goes
<1>6. CombineOK(t)'
    <2>1. CASE step[t] = "tree"
        BY <1>1, <1>3, <1>5, <2>1 DEF CombineOK, Is, Loop, Combining, Handled
    <2>2. CASE step[t] = "acc"
        <3>1. Is(t, "acc")' = Is(t, "tree") /\ Is(t, "tree")' = Is(t, "tree")
            BY <1>1, <1>2, <2>2, SlotsOfATask, SlotsDiffer DEF Is
        <3>2. Is(t, "tree") # None
            BY <1>1, <1>2, <1>3, <2>2
        <3>. QED  BY <1>5, <2>2, <3>1, <3>2 DEF CombineOK, Loop, Combining, Handled
    <2>. QED  BY <2>1, <2>2
<1>. QED  BY <1>2, <1>6, LoopStepKeeps DEF Loop

LEMMA LockKeeps ==
    ASSUME MeshInv, CarefulInv', NEW t \in Thread, Work(t), step[t] = "lock",
           UNCHANGED documentVars
    PROVE  TaskKept(t)
<1>. USE DEF MeshInv
<1>1. /\ Acquire(t) /\ Advance(t) /\ UNCHANGED <<seen, rendered, mesh, stored, corrupt, forest, started>>
      /\ call' = [call EXCEPT ![t] = Operation(Is(t, "tree"), Elem(t), <<>>)]
    BY DEF Work, TreeStep, At, documentVars
<1>2. Goes(t, "operate", root[t])
    BY <1>1, AdvanceEffect
<1>3. lock' = t /\ UNCHANGED <<node, handle, dying, erased>> /\ Doomed(t) = {}
    BY <1>1 DEF Acquire, Ready, Destroying, Doomed
<1>4. ReadingOK(t)' /\ /\ step' = [step EXCEPT ![t] = step'[t]]
                       /\ root' = [root EXCEPT ![t] = root'[t]]
                       /\ step'[t] \in Steps /\ root'[t] \in Nat
    BY <1>1, <1>3, LoopKeepsReading DEF Loop
<1>5. Is(t, "tree") \in Allocated /\ Elem(t) \in Allocated
    <2>1. \A s \in Slot : handle[t][s] # None => handle[t][s] \in Allocated
        BY DEF CarefulInv, CacheInv, CacheTypeOK, PointersAllocated, Allocated, Pointer
    <2>2. Is(t, "tree") # None
        BY DEF TasksOK, CombineOK, Loop
    <2>3. root[t] \in 1 .. Len(forest[t]) /\ RootsHeld(t, Len(forest[t]))
        BY DEF TasksOK, ReadingOK, Loop
    <2>4. RootSlot(root[t]) \in Slot /\ Elem(t) # None
        BY <2>3, ForestFits DEF RootsHeld, Elem
    <2>. QED  BY <2>1, <2>2, <2>4, SlotsOfATask DEF Is, Elem
<1>6. call'[t] = [lhs |-> Is(t, "tree"), rhs |-> Elem(t), outside |-> <<>>]
    BY <1>1 DEF Operation, TaskTypeOK
<1>7. call'[t] \in CallType
    BY <1>5, <1>6, EmptySeq DEF CallType, Allocated, Pointer
<1>8. CallAllocated(t)'
    BY <1>3, <1>5, <1>6, EmptySeq DEF CallAllocated, Allocated
<1>9. TaskTypeOK'
    BY <1>1, <1>4, <1>6, <1>7 DEF TaskTypeOK
<1>10. CombineOK(t)'
    BY <1>2, <1>3, <1>8
    DEF TasksOK, CombineOK, Goes, Is, Doomed, Loop, Combining, Handled
<1>11. EmptyOK(t)'
    BY <1>2 DEF EmptyOK, Goes
<1>12. OnlyMoves(t)
    BY <1>1, <1>4 DEF OnlyMoves, TaskTypeOK
<1>. QED  BY <1>4, <1>9, <1>10, <1>11, <1>12 DEF TaskKept

LEMMA AssignStepsKeep ==
    ASSUME MeshInv, CarefulInv', NEW t \in Thread, Work(t),
           step[t] \in {"unlock", "assign", "dropResult", "dropAcc"}, UNCHANGED documentVars
    PROVE  TaskKept(t)
<1>. USE DEF MeshInv
<1>1. Advance(t)
    BY DEF Work
<1>2. Is(t, "tree") # None /\ (step[t] \in {"unlock", "assign", "dropResult"} => Is(t, "tmp") # None)
    BY DEF TasksOK, CombineOK, Loop
<1>3. CASE step[t] = "unlock"
    <2>1. UNCHANGED handle
        BY <1>3 DEF Work, TreeStep, At, Unlock
    <2>2. step'[t] = "assign"
        BY <1>1, <1>3, AdvanceEffect DEF Goes
    <2>3. CombineOK(t)'
        BY <1>2, <1>3, <2>1, <2>2 DEF TasksOK, CombineOK, Is, Loop, Combining, Handled
    <2>. QED  BY <1>3, <2>1, <2>3, LoopStepKeeps DEF Loop
<1>4. CASE step[t] = "assign"
    <2>1. handle' = Point(t, Temp("tree"), Is(t, "tmp"))
        BY <1>4 DEF Work, TreeStep, At, Assign, Is
    <2>2. step'[t] = "dropResult"
        BY <1>1, <1>4, AdvanceEffect DEF Goes
    <2>3. Is(t, "tree")' # None /\ Is(t, "tmp")' # None
        BY <1>2, <1>4, <2>1, Pointed, SlotsOfATask, SlotsDiffer DEF Is
    <2>4. CombineOK(t)'
        BY <2>2, <2>3 DEF CombineOK, Loop, Combining, Handled
    <2>. QED  BY <1>4, <2>1, <2>4, LoopStepKeeps, Pointed, SlotsOfATask, SlotsDiffer, ForestFits
              DEF Loop
<1>5. CASE step[t] = "dropResult"
    <2>1. handle' = Point(t, Temp("tmp"), None)
        BY <1>5 DEF Work, TreeStep, At, Destroy
    <2>2. step'[t] = "dropAcc"
        BY <1>1, <1>5, AdvanceEffect DEF Goes
    <2>3. Is(t, "tree")' # None
        BY <1>2, <2>1, Pointed, SlotsOfATask, SlotsDiffer DEF Is
    <2>4. CombineOK(t)'
        BY <2>2, <2>3 DEF CombineOK, Loop, Combining, Handled
    <2>. QED  BY <1>5, <2>1, <2>4, LoopStepKeeps, Pointed, SlotsOfATask, SlotsDiffer, ForestFits
              DEF Loop
<1>6. CASE step[t] = "dropAcc"
    <2>1. handle' = Point(t, Temp("acc"), None)
        BY <1>6 DEF Work, TreeStep, At, Destroy
    <2>2. step'[t] \in {"acc", "render"}
        BY <1>1, <1>6, AdvanceEffect DEF Goes
    <2>3. Is(t, "tree")' # None
        BY <1>2, <2>1, Pointed, SlotsOfATask, SlotsDiffer DEF Is
    <2>4. CombineOK(t)'
        BY <2>2, <2>3 DEF CombineOK, Loop, Combining, Handled
    <2>. QED  BY <1>6, <2>1, <2>4, LoopStepKeeps, Pointed, SlotsOfATask, SlotsDiffer, ForestFits
              DEF Loop
<1>. QED  BY <1>3, <1>4, <1>5, <1>6

LEMMA WorkKeeps ==
    ASSUME MeshInv, CarefulInv', NEW t \in Thread, Work(t), UNCHANGED documentVars
    PROVE  TaskKept(t)
<1>1. step[t] \in {"leaf", "tree", "acc", "lock", "unlock", "assign", "dropResult", "dropAcc"}
    BY DEF Work, TreeStep, At
<1>. QED  BY <1>1, LeafKeeps, CopyStepsKeep, LockKeeps, AssignStepsKeep

(* Rebalancing takes one argument apart, and pairs one half of it with the  *)
(* other argument.                                                          *)
LEMMA RebalancedSplits ==
    ASSUME NodesOK, NEW a \in Allocated, NEW b \in Allocated, NEW split \in Rebalanced(a, b)
    PROVE  \E p, q \in {a, b} :
              /\ {p, q} = {a, b} /\ IsMin(p) /\ split.rhs = q
              /\ \/ split.outer = node[p].lhs /\ split.lhs = node[p].rhs
                 \/ split.outer = node[p].rhs /\ split.lhs = node[p].lhs
              /\ split.outer \in Allocated /\ split.lhs \in Allocated
<1>1. \A c \in Allocated : IsMin(c) => node[c].lhs \in Allocated /\ node[c].rhs \in Allocated
    BY AttrAssumption DEF NodesOK, ShapeOK, IsMin
<1>2. CASE IsMin(a)
    <2>1. \/ split = Split(node[a].lhs, node[a].rhs, b)
          \/ split = Split(node[a].rhs, node[a].lhs, b)
        BY <1>2 DEF Rebalanced
    <2>. QED  BY <1>1, <1>2, <2>1 DEF Split
<1>3. CASE ~IsMin(a)
    <2>1. IsMin(b) /\ (\/ split = Split(node[b].lhs, node[b].rhs, a)
                       \/ split = Split(node[b].rhs, node[b].lhs, a))
        BY <1>3 DEF Rebalanced
    <2>. QED  BY <1>1, <2>1 DEF Split
<1>. QED  BY <1>2, <1>3

LEMMA NestKeeps ==
    ASSUME MeshInv, NEW t \in Thread, Nest(t), UNCHANGED documentVars
    PROVE  TaskKept(t)
<1>. USE DEF MeshInv
<1>1. step[t] = "operate" /\ CallAllocated(t)
    BY DEF Nest, At, TasksOK, CombineOK
<1>2. PICK split \in Rebalanced(call[t].lhs, call[t].rhs) :
          call' = [call EXCEPT ![t] =
                      Operation(split.lhs, split.rhs, Append(@.outside, split.outer))]
    BY DEF Nest
<1>3. split.outer \in Allocated /\ split.lhs \in Allocated /\ split.rhs \in Allocated
    BY <1>1, RebalancedSplits DEF CallAllocated
<1>4. UNCHANGED <<cacheVars, step, root, seen, rendered, mesh, stored, corrupt>>
    BY DEF Nest
<1>. DEFINE out == Append(call[t].outside, split.outer)
<1>5. call[t].outside \in Seq(Addr)
    BY DEF TaskTypeOK, CallType
<1>6. /\ out \in Seq(Addr) /\ Len(out) = Len(call[t].outside) + 1
      /\ Len(call[t].outside) \in Nat
      /\ \A i \in 1 .. Len(call[t].outside) : out[i] = call[t].outside[i]
      /\ out[Len(call[t].outside) + 1] = split.outer
    BY <1>3, <1>5, AppendProperties, LenProperties DEF Allocated
<1>7. \A i \in 1 .. Len(out) : out[i] \in Allocated
    BY <1>1, <1>3, <1>6 DEF CallAllocated
<1>8. call' = [call EXCEPT ![t] = [lhs |-> split.lhs, rhs |-> split.rhs, outside |-> out]]
    BY <1>2 DEF Operation
<1>. HIDE DEF out
<1>9. call'[t] = [lhs |-> split.lhs, rhs |-> split.rhs, outside |-> out]
    BY <1>8 DEF TaskTypeOK
<1>10. TaskTypeOK'
    <2>1. [lhs |-> split.lhs, rhs |-> split.rhs, outside |-> out] \in CallType
        BY <1>3, <1>6 DEF CallType, Allocated, Pointer
    <2>. QED  BY <1>4, <1>8, <2>1 DEF TaskTypeOK, documentVars
<1>11. CallAllocated(t)'
    BY <1>3, <1>4, <1>7, <1>9 DEF CallAllocated, Allocated, cacheVars
<1>12. ReadingOK(t)'
    BY <1>4 DEF TasksOK, ReadingOK, RootsHeld, cacheVars, documentVars
<1>13. CombineOK(t)' /\ EmptyOK(t)'
    BY <1>1, <1>4, <1>11 DEF TasksOK, CombineOK, EmptyOK, Is, Doomed, cacheVars
<1>14. OnlyMoves(t)
    BY <1>4, <1>8 DEF OnlyMoves, TaskTypeOK
<1>. QED  BY <1>10, <1>12, <1>13, <1>14 DEF TaskKept

LEMMA OperateInsideKeeps ==
    ASSUME MeshInv, CarefulInv', NEW t \in Thread, OperateInside(t), UNCHANGED documentVars
    PROVE  TaskKept(t)
<1>. USE DEF MeshInv
<1>1. step[t] = "operate" /\ CallAllocated(t) /\ Doomed(t) = {} /\ lock = t
    BY DEF OperateInside, At, TasksOK, CombineOK, Handled
<1>2. PICK k \in 1 .. MaxNested :
          /\ MakeMin(t, InnerSlot(k), call[t].lhs, call[t].rhs)
          /\ call' = [call EXCEPT ![t] =
                Operation(Last(@.outside), handle'[t][InnerSlot(k)], Front(@.outside))]
    BY DEF OperateInside
<1>3. InnerSlot(k) \in Slot
    BY SlotsOfATask
<1>4. PICK c \in Addr : handle' = Point(t, InnerSlot(k), c)
    BY <1>1, <1>2, <1>3, MakeMinEffect DEF CallAllocated
<1>5. UNCHANGED <<lock, dying, erased>> /\ (\A b \in Allocated : node'[b] = node[b])
    BY <1>1, <1>2, <1>3, MakeMinEffect DEF CallAllocated
<1>6. handle'[t][InnerSlot(k)] = c /\ \A r \in Slot : r # InnerSlot(k) => handle'[t][r] = handle[t][r]
    BY <1>3, <1>4, Pointed
<1>7. c \in Allocated'
    BY <1>3, <1>6, NoneAssumption DEF CarefulInv, CacheInv, PointersAllocated, Allocated
<1>8. UNCHANGED <<step, root, seen, rendered, mesh, stored, corrupt>> /\ call[t].outside # <<>>
    BY DEF OperateInside
<1>. DEFINE out == call[t].outside
            n == Len(out)
<1>9. out \in Seq(Addr) /\ n \in Nat /\ n >= 1
    BY <1>8, EmptySeq, LenProperties DEF TaskTypeOK, CallType
<1>10. \A i \in 1 .. n : out[i] \in Addr
    BY <1>9, ElementOfSeq
<1>11. /\ SubSeq(out, 1, n - 1) \in Seq(Addr)
       /\ Len(SubSeq(out, 1, n - 1)) = n - 1
       /\ \A i \in 1 .. n - 1 : SubSeq(out, 1, n - 1)[i] = out[i]
    <2>1. \A i \in 1 .. n - 1 : out[i] \in Addr
        BY <1>9, <1>10
    <2>2. /\ SubSeq(out, 1, n - 1) \in Seq(Addr)
          /\ Len(SubSeq(out, 1, n - 1)) = IF 1 <= n - 1 THEN n - 1 - 1 + 1 ELSE 0
          /\ \A i \in 1 .. n - 1 - 1 + 1 : SubSeq(out, 1, n - 1)[i] = out[1 + i - 1]
        BY <1>9, <2>1, SubSeqProperties
    <2>. QED  BY <1>9, <2>2
<1>12. call' = [call EXCEPT ![t] = [lhs |-> out[n], rhs |-> c, outside |-> SubSeq(out, 1, n - 1)]]
    BY <1>2, <1>6 DEF Operation, Last, Front
<1>13. /\ call'[t].lhs = out[n] /\ call'[t].rhs = c /\ call'[t].outside = SubSeq(out, 1, n - 1)
       /\ call'[t] \in CallType
    BY <1>9, <1>10, <1>11, <1>12 DEF TaskTypeOK, CallType, Pointer
<1>14. \A i \in 1 .. n : out[i] \in Allocated'
    BY <1>1, <1>5, NoneAssumption DEF CallAllocated, Allocated
<1>15. CallAllocated(t)'
    BY <1>7, <1>9, <1>11, <1>13, <1>14 DEF CallAllocated
<1>. HIDE DEF out, n
<1>16. TaskTypeOK'
    BY <1>8, <1>12, <1>13 DEF TaskTypeOK, documentVars
<1>17. \A i \in 1 .. Len(forest[t]) : handle'[t][RootSlot(i)] = handle[t][RootSlot(i)]
    BY <1>6, ForestFits, SlotsDiffer
<1>18. ReadingOK(t)'
    BY <1>1, <1>8, <1>17, LoopKeepsReading DEF documentVars, Loop
<1>19. Is(t, "tree")' = Is(t, "tree") /\ Is(t, "acc")' = Is(t, "acc")
    BY <1>6, SlotsOfATask, SlotsDiffer DEF Is
<1>20. CombineOK(t)' /\ EmptyOK(t)'
    BY <1>1, <1>5, <1>8, <1>15, <1>19 DEF TasksOK, CombineOK, EmptyOK, Doomed
<1>21. OnlyMoves(t)
    BY <1>8, <1>12 DEF OnlyMoves, TaskTypeOK
<1>. QED  BY <1>16, <1>18, <1>20, <1>21 DEF TaskKept

LEMMA OperateKeeps ==
    ASSUME MeshInv, CarefulInv', NEW t \in Thread, Operate(t), UNCHANGED documentVars
    PROVE  TaskKept(t)
<1>. USE DEF MeshInv
<1>1. step[t] = "operate" /\ CallAllocated(t) /\ Doomed(t) = {} /\ lock = t
    BY DEF Operate, At, TasksOK, CombineOK, Handled
<1>2. MakeMin(t, Temp("tmp"), call[t].lhs, call[t].rhs) /\ Advance(t)
    BY DEF Operate
<1>3. PICK c \in Addr : handle' = Point(t, Temp("tmp"), c)
    BY <1>1, <1>2, SlotsOfATask, MakeMinEffect DEF CallAllocated
<1>4. UNCHANGED <<lock, dying, erased>>
    BY <1>1, <1>2, SlotsOfATask, MakeMinEffect DEF CallAllocated
<1>5. /\ Is(t, "tmp")' = c /\ Is(t, "tree")' = Is(t, "tree") /\ Is(t, "acc")' = Is(t, "acc")
      /\ \A i \in 1 .. Len(forest[t]) : handle'[t][RootSlot(i)] = handle[t][RootSlot(i)]
    BY <1>3, Pointed, SlotsOfATask, SlotsDiffer, ForestFits DEF Is
<1>6. UNCHANGED <<seen, rendered, mesh, stored, corrupt, forest, started>>
    BY DEF Operate, documentVars
<1>7. /\ ReadingOK(t)' /\ step'[t] \in Steps /\ root'[t] \in Nat
      /\ step' = [step EXCEPT ![t] = step'[t]] /\ root' = [root EXCEPT ![t] = root'[t]]
    BY <1>1, <1>2, <1>5, <1>6, LoopKeepsReading DEF Loop
<1>8. call' = [call EXCEPT ![t] = NoOperation] /\ NoOperation \in CallType
    BY EmptySeq DEF Operate, NoOperation, Operation, CallType, Pointer
<1>9. step'[t] = "dropInner"
    BY <1>1, <1>2, AdvanceEffect DEF Goes
<1>10. TaskTypeOK'
    BY <1>6, <1>7, <1>8 DEF TaskTypeOK
<1>11. CombineOK(t)'
    <2>1. Is(t, "tree") # None /\ Is(t, "acc") = Is(t, "tree")
        BY <1>1 DEF TasksOK, CombineOK, Loop, Combining
    <2>. QED  BY <1>1, <1>4, <1>5, <1>9, <2>1, NoneAssumption
              DEF CombineOK, Loop, Combining, Handled
<1>12. EmptyOK(t)'
    BY <1>9 DEF EmptyOK
<1>13. OnlyMoves(t)
    BY <1>6, <1>7, <1>8 DEF OnlyMoves, TaskTypeOK
<1>. QED  BY <1>7, <1>10, <1>11, <1>12, <1>13 DEF TaskKept

LEMMA DropInnerKeeps ==
    ASSUME MeshInv, CarefulInv', NEW t \in Thread, DropInner(t), UNCHANGED documentVars
    PROVE  TaskKept(t)
<1>. USE DEF MeshInv
<1>1. step[t] = "dropInner" /\ lock = t
    BY DEF DropInner, At, TasksOK, CombineOK, Handled
<1>2. UNCHANGED <<seen, call, rendered, mesh, stored, corrupt, forest, started>>
    BY DEF DropInner, documentVars
<1>3. \/ Advance(t) /\ UNCHANGED cacheVars
      \/ UNCHANGED <<step, root>> /\ \E k \in 1 .. MaxNested : Destroy(t, InnerSlot(k))
    BY DEF DropInner
<1>4. /\ Is(t, "tmp")' = Is(t, "tmp") /\ Is(t, "tree")' = Is(t, "tree")
      /\ Is(t, "acc")' = Is(t, "acc") /\ lock' = t
      /\ \A i \in 1 .. Len(forest[t]) : handle'[t][RootSlot(i)] = handle[t][RootSlot(i)]
    <2>1. CASE UNCHANGED cacheVars
        BY <1>1, <2>1 DEF cacheVars, Is
    <2>2. ASSUME NEW k \in 1 .. MaxNested, Destroy(t, InnerSlot(k))
          PROVE  /\ Is(t, "tmp")' = Is(t, "tmp") /\ Is(t, "tree")' = Is(t, "tree")
                 /\ Is(t, "acc")' = Is(t, "acc") /\ lock' = t
                 /\ \A i \in 1 .. Len(forest[t]) : handle'[t][RootSlot(i)] = handle[t][RootSlot(i)]
        <3>1. handle' = Point(t, InnerSlot(k), None) /\ lock' = t
            BY <1>1, <2>2 DEF Destroy
        <3>. QED  BY <3>1, Pointed, SlotsOfATask, SlotsDiffer, ForestFits DEF Is
    <2>. QED  BY <1>3, <2>1, <2>2
<1>5. /\ ReadingOK(t)' /\ step'[t] \in Steps /\ root'[t] \in Nat
      /\ step' = [step EXCEPT ![t] = step'[t]] /\ root' = [root EXCEPT ![t] = root'[t]]
    BY <1>1, <1>2, <1>3, <1>4, LoopKeepsReading DEF Loop
<1>6. step'[t] \in {"dropInner", "unlock"}
    BY <1>1, <1>3, AdvanceEffect DEF Goes
<1>7. TaskTypeOK'
    BY <1>2, <1>5 DEF TaskTypeOK
<1>8. CombineOK(t)'
    <2>1. Is(t, "tree") # None /\ Is(t, "acc") = Is(t, "tree") /\ Is(t, "tmp") # None
        BY <1>1 DEF TasksOK, CombineOK, Loop, Combining
    <2>. QED  BY <1>4, <1>6, <2>1 DEF CombineOK, Loop, Combining, Handled
<1>9. EmptyOK(t)'
    BY <1>6 DEF EmptyOK
<1>10. OnlyMoves(t)
    BY <1>2, <1>5 DEF OnlyMoves, TaskTypeOK
<1>. QED  BY <1>5, <1>7, <1>8, <1>9, <1>10 DEF TaskKept

(* What a mesh shows is attributes of spheres. *)
LEMMA ShowsAttributes ==
    ASSUME NodesOK, NEW a
    PROVE  Shows(node, a) \subseteq Attr
BY AttrAssumption DEF Shows, Expression, NodesOK, ShapeOK, IsMin, Allocated

LEMMA LastStepsKeep ==
    ASSUME MeshInv, CarefulInv', NEW t \in Thread, Render(t) \/ Clear(t) \/ Store(t),
           UNCHANGED documentVars
    PROVE  TaskKept(t)
<1>. USE DEF MeshInv
<1>1. /\ t \in 1 .. started /\ ~Destroying(t) /\ lock # t
      /\ step[t] \in {"render", "clear", "store"} /\ UNCHANGED <<seen, call, forest, started>>
    BY DEF Render, Clear, Store, At, Active, documentVars
<1>2. Doomed(t) = {}
    BY <1>1 DEF Destroying, Doomed
<1>3. Advance(t) \/ UNCHANGED <<step, root>>
    BY DEF Render, Clear, Store
<1>4. step'[t] = step[t] \/ step'[t] = IF step[t] = "render" THEN "clear"
                            ELSE IF step[t] = "clear" THEN "store" ELSE "done"
    BY <1>1, <1>3, AdvanceEffect DEF Goes
<1>5. root'[t] = root[t] /\ step'[t] \in {"render", "clear", "store", "done"}
    BY <1>1, <1>3, <1>4, AdvanceEffect DEF Goes
<1>6. /\ step' = [step EXCEPT ![t] = step'[t]] /\ root' = [root EXCEPT ![t] = root'[t]]
    BY <1>1, <1>3, AdvanceEffect DEF TaskTypeOK
<1>7. TaskTypeOK'
    <2>1. rendered' \in [Thread -> SUBSET Attr]
        <3>1. rendered' = rendered \/ rendered' = [rendered EXCEPT ![t] = Shows(node, Is(t, "tree"))]
            BY DEF Render, Clear, Store
        <3>2. Shows(node, Is(t, "tree")) \subseteq Attr
            BY ShowsAttributes
        <3>. QED  BY <3>1, <3>2 DEF TaskTypeOK
    <2>2. stored' \in Seq(1 .. started)
        <3>1. stored' = stored \/ stored' = Append(stored, t)
            BY DEF Render, Clear, Store
        <3>2. stored \in Seq(1 .. started)
            BY DEF TaskTypeOK
        <3>3. \A S : stored \in Seq(S) /\ t \in S => Append(stored, t) \in Seq(S)
            BY AppendProperties
        <3>. QED  BY <1>1, <3>1, <3>2, <3>3
    <2>3. corrupt' \in BOOLEAN
        BY DEF Render, Clear, Store, TaskTypeOK
    <2>. QED  BY <1>1, <1>5, <1>6, <2>1, <2>2, <2>3 DEF TaskTypeOK, Steps
<1>8. ReadingOK(t)'
    BY <1>1, <1>4, <1>5 DEF TasksOK, ReadingOK, Loop
<1>9. CombineOK(t)'
    <2>1. step'[t] = "render" => UNCHANGED cacheVars /\ step[t] = "render"
        BY <1>4, <1>1 DEF Render, Clear, Store, At
    <2>. QED  BY <1>5, <2>1 DEF TasksOK, CombineOK, Loop, Combining, Handled, cacheVars, Is
<1>10. EmptyOK(t)'
    <2>1. CASE Render(t)
        BY <1>3, <2>1, AdvanceEffect DEF EmptyOK, Goes, Render, At
    <2>2. CASE Clear(t)
        <3>1. step'[t] \in {"store", "done"} => HeldBy(t) = {} /\ UNCHANGED cacheVars
            BY <1>1, <1>4, <2>2 DEF Clear, At
        <3>. QED  BY <1>1, <1>2, <3>1 DEF EmptyOK, cacheVars, HeldBy, Doomed
    <2>3. CASE Store(t)
        BY <1>1, <1>2, <2>3 DEF TasksOK, EmptyOK, Store, At, cacheVars, HeldBy, Doomed
    <2>. QED  BY <2>1, <2>2, <2>3
<1>11. OnlyMoves(t)
    BY <1>1, <1>6 DEF OnlyMoves, TaskTypeOK, Render, Clear, Store
<1>. QED  BY <1>7, <1>8, <1>9, <1>10, <1>11 DEF TaskKept

LEMMA TaskKeptByAll ==
    ASSUME MeshInv, CarefulInv', NEW t \in Thread, Task(t)
    PROVE  TaskKept(t) /\ UNCHANGED documentVars
BY ReadCoordKeeps, WorkKeeps, DestructorsKeep, NestKeeps, OperateInsideKeeps, OperateKeeps,
   DropInnerKeeps, LastStepsKeep DEF Task

LEMMA OtherTasksKept ==
    ASSUME MeshInv, CarefulInv', NEW t \in Thread, Task(t), NEW u \in Thread, u # t
    PROVE  ReadingOK(u)' /\ CombineOK(u)' /\ EmptyOK(u)'
<1>. USE DEF MeshInv
<1>1. /\ step'[u] = step[u] /\ root'[u] = root[u] /\ seen'[u] = seen[u] /\ call'[u] = call[u]
      /\ forest' = forest
    BY TaskKeptByAll DEF TaskKept, OnlyMoves, documentVars
<1>2. /\ handle'[u] = handle[u] /\ Doomed(u)' = Doomed(u) /\ (lock' = u <=> lock = u)
      /\ lock = u /\ Doomed(u) = {} => UNCHANGED node
    BY TaskIsCareful, OthersKeep
<1>3. ReadingOK(u)'
    BY <1>1, <1>2 DEF TasksOK, ReadingOK, RootsHeld
<1>4. CombineOK(u)'
    <2>1. step[u] = "operate" => CallAllocated(u)'
        BY <1>1, <1>2 DEF TasksOK, CombineOK, Handled, CallAllocated, Allocated
    <2>. QED  BY <1>1, <1>2, <2>1 DEF TasksOK, CombineOK, Is
<1>5. EmptyOK(u)'
    BY <1>1, <1>2 DEF TasksOK, EmptyOK, HeldBy
<1>. QED  BY <1>3, <1>4, <1>5

(* What a task does to the nodes. *)
LEMMA DropsUnheld ==
    ASSUME CarefulInv, NEW t \in Thread, Del(t) \/ Release(t) \/ Unlock(t)
    PROVE  NodeEffect
<1>1. CASE Release(t)
    <2>1. PICK a \in erased[t] : node' = [node EXCEPT ![a] = None]
        BY <1>1 DEF Release
    <2>2. a \in Addr /\ node[a] # None /\ ~Held(a)
        BY DEF CarefulInv, CacheInv, CacheTypeOK, DoomedUnheld, Doomed
    <2>. QED  BY <2>1, <2>2 DEF NodeEffect
<1>. QED  BY <1>1 DEF Del, Unlock, NodeEffect

LEMMA TaskNodes ==
    ASSUME MeshInv, CarefulInv', NEW t \in Thread, Task(t)
    PROVE  NodeEffect
<1>. USE DEF MeshInv
<1>1. CASE ReadCoord(t) \/ Nest(t) \/ Render(t) \/ Store(t) \/ DropInner(t) \/ Clear(t)
    BY <1>1 DEF ReadCoord, Nest, Render, Store, DropInner, Clear, Destroy, cacheVars, NodeEffect
<1>2. CASE Work(t)
    <2>1. CASE step[t] = "leaf"
        <3>1. Build(t, RootSlot(root[t]), Leaf(ReadRadius(t)))
            BY <1>2, <2>1 DEF Work, TreeStep, At
        <3>2. RootSlot(root[t]) \in Slot /\ ReadRadius(t) \in Attr
            BY <2>1, ReadsAttributes
        <3>3. Leaf(ReadRadius(t)) \in Expressible /\ NewShape(Leaf(ReadRadius(t)))
            BY <3>2, AttrAssumption DEF Leaf, Expressible, NewShape
        <3>. QED  BY <3>1, <3>2, <3>3, BuildEffect
    <2>2. CASE step[t] # "leaf"
        BY <1>2, <2>2
        DEF Work, TreeStep, At, Copy, Acquire, Unlock, Assign, Destroy, NodeEffect
    <2>. QED  BY <2>1, <2>2
<1>3. CASE Destructors(t)
    BY <1>3, DropsUnheld DEF Destructors
<1>4. CASE OperateInside(t) \/ Operate(t)
    <2>1. CallAllocated(t) /\ Doomed(t) = {} /\ lock = t
        BY <1>4 DEF OperateInside, Operate, At, TasksOK, CombineOK, Handled
    <2>2. PICK s \in Slot : MakeMin(t, s, call[t].lhs, call[t].rhs)
        BY <1>4, SlotsOfATask DEF OperateInside, Operate
    <2>. QED  BY <2>1, <2>2, MakeMinEffect DEF CallAllocated
<1>. QED  BY <1>1, <1>2, <1>3, <1>4 DEF Task

(* A new node is ranked above its arguments, which are there before it and  *)
(* stay as long as it does.                                                 *)
LEMMA NodesRanked ==
    ASSUME MeshInv, CarefulInv', NEW t \in Thread, Task(t)
    PROVE  NodesOK'
<1>. USE DEF MeshInv
<1>1. NodeEffect /\ Ranked
    BY TaskNodes DEF Task
<1>2. node \in [Addr -> Key \cup {None}] /\ rank \in [Addr -> Nat]
    BY DEF CarefulInv, CacheInv, CacheTypeOK, NodesOK
<1>3. \A a \in Allocated' : \A b \in Arguments(node'[a]) : node'[b] # None
    BY DEF CarefulInv, CacheInv, PointersAllocated
<1>4. ASSUME NEW a \in Allocated, a \in Allocated'
      PROVE  node'[a] = node[a] /\ rank'[a] = rank[a] /\ ShapeOK(a)'
    <2>1. node'[a] = node[a]
        BY <1>1, <1>2, <1>4 DEF NodeEffect, Allocated
    <2>2. rank'[a] = rank[a]
        BY <1>1, <2>1 DEF Ranked, Allocated
    <2>3. ShapeOK(a)
        BY DEF NodesOK
    <2>4. CASE IsMin(a)
        <3>1. node[a].lhs \in Allocated /\ node[a].rhs \in Allocated
              /\ rank[node[a].lhs] < rank[a] /\ rank[node[a].rhs] < rank[a]
            BY <2>3, <2>4, AttrAssumption DEF ShapeOK, IsMin
        <3>2. node[a].lhs \in Arguments(node'[a]) /\ node[a].rhs \in Arguments(node'[a])
            BY <2>1, <3>1, NoneAssumption DEF Arguments, Allocated
        <3>3. node[a].lhs \in Allocated' /\ node[a].rhs \in Allocated'
            BY <1>3, <1>4, <3>1, <3>2 DEF Allocated
        <3>4. rank'[node[a].lhs] = rank[node[a].lhs] /\ rank'[node[a].rhs] = rank[node[a].rhs]
            <4>1. \A b \in Allocated : b \in Allocated' => rank'[b] = rank[b]
                BY <1>1 DEF Ranked, Allocated
            <4>. QED  BY <3>1, <3>3, <4>1
        <3>. QED  BY <2>1, <2>2, <2>4, <3>1, <3>3, <3>4 DEF ShapeOK, IsMin
    <2>5. CASE ~IsMin(a)
        BY <2>1, <2>2, <2>3, <2>5 DEF ShapeOK, Leaf
    <2>. QED  BY <2>1, <2>2, <2>4, <2>5
<1>5. ASSUME NEW a \in Allocated', a \notin Allocated
      PROVE  /\ ShapeOK(a)' /\ rank'[a] = RankOf(node'[a]) /\ RankOf(node'[a]) \in Nat
             /\ \A b \in Addr : b # a => node'[b] = node[b]
             /\ NewShape(node'[a])
    <2>1. PICK k : /\ node[a] = None /\ k # None /\ NewShape(k)
                   /\ node' = [node EXCEPT ![a] = k] /\ a \in Addr
        BY <1>1, <1>2, <1>5 DEF NodeEffect, Allocated
    <2>2. node'[a] = k /\ \A b \in Addr : b # a => node'[b] = node[b]
        BY <1>2, <2>1
    <2>3. rank'[a] = RankOf(k)
        BY <1>1, <2>1, <2>2 DEF Ranked
    <2>4. ASSUME NEW x \in Attr, k = Leaf(x)
          PROVE  ShapeOK(a)' /\ RankOf(k) \in Nat
        <3>1. k.op = x /\ k = Leaf(k.op)
            BY <2>4 DEF Leaf
        <3>2. RankOf(k) \in Nat
            BY <3>1, AttrAssumption DEF RankOf, Attr
        <3>. QED  BY <2>2, <3>1, <3>2 DEF ShapeOK, Leaf
    <2>5. ASSUME NEW b \in Allocated, NEW c \in Allocated, k = MinOf(b, c)
          PROVE  ShapeOK(a)' /\ RankOf(k) \in Nat
        <3>1. k.op = MinOp /\ k.lhs = b /\ k.rhs = c
            BY <2>5 DEF MinOf
        <3>2. b \in Addr /\ c \in Addr /\ b # a /\ c # a
            BY <2>1 DEF Allocated
        <3>3. rank'[b] = rank[b] /\ rank'[c] = rank[c] /\ b \in Allocated' /\ c \in Allocated'
            BY <1>1, <2>2, <3>2 DEF Ranked, Allocated
        <3>4. /\ RankOf(k) = Larger(rank[b], rank[c]) + 1
              /\ rank[b] \in Nat /\ rank[c] \in Nat
            BY <1>2, <3>1, <3>2 DEF RankOf
        <3>5. RankOf(k) \in Nat /\ rank[b] < RankOf(k) /\ rank[c] < RankOf(k)
            BY <3>4 DEF Larger
        <3>. QED  BY <2>2, <2>3, <3>1, <3>3, <3>5 DEF ShapeOK, IsMin
    <2>. QED  BY <2>1, <2>2, <2>3, <2>4, <2>5 DEF NewShape
<1>6. rank' \in [Addr -> Nat]
    <2>1. \A a \in Addr : rank'[a] \in Nat
        BY <1>1, <1>2, <1>5 DEF Ranked, Allocated
    <2>. QED  BY <1>1, <2>1 DEF Ranked
<1>7. \E n \in Nat : \A a \in Addr : rank'[a] <= n
    <2>1. PICK n \in Nat : \A a \in Addr : rank[a] <= n
        BY DEF NodesOK
    <2>2. CASE \E a \in Allocated' : a \notin Allocated
        <3>1. PICK a \in Allocated' : a \notin Allocated
            BY <2>2
        <3>2. rank'[a] \in Nat /\ \A b \in Addr : b # a => rank'[b] = 0 \/ rank'[b] = rank[b]
            BY <1>1, <1>5, <3>1 DEF Ranked
        <3>3. \A b \in Addr : rank'[b] <= n + rank'[a]
            BY <1>2, <2>1, <3>2
        <3>. QED  BY <2>1, <3>2, <3>3
    <2>3. CASE Allocated' \subseteq Allocated
        <3>1. \A b \in Addr : rank'[b] = 0 \/ rank'[b] = rank[b]
            BY <1>1, <2>3 DEF Ranked, Allocated
        <3>. QED  BY <1>2, <2>1, <3>1
    <2>. QED  BY <2>2, <2>3
<1>. QED  BY <1>4, <1>5, <1>6, <1>7 DEF NodesOK

-----------------------------------------------------------------------------
(* The invariant holds *)

LEMMA TaskPreserves ==
    ASSUME MeshInv, CarefulInv', NEW t \in Thread, Task(t)
    PROVE  MeshInv'
<1>. USE DEF MeshInv
<1>1. TaskKept(t) /\ UNCHANGED documentVars
    BY TaskKeptByAll
<1>2. TasksOK'
    BY <1>1, OtherTasksKept DEF TasksOK, TaskKept
<1>3. NodesOK'
    BY NodesRanked
<1>4. t \notin Active => UNCHANGED <<step, seen>>
    BY DEF Task, ReadCoord, Work, TreeStep, Destructors, Nest, OperateInside, Operate, DropInner,
           Render, Clear, Store, At
<1>5. DocumentTypeOK' /\ NotStarted'
    <2>1. DocumentTypeOK'
        BY <1>1 DEF DocumentTypeOK, documentVars
    <2>2. ASSUME NEW u \in Thread, u > started
          PROVE  step'[u] = "done" /\ forest'[u] = <<>> /\ seen'[u] = <<>>
        <3>1. step[u] = "done" /\ forest[u] = <<>> /\ seen[u] = <<>>
            BY <2>2 DEF NotStarted
        <3>2. u # t => step'[u] = step[u] /\ seen'[u] = seen[u]
            BY <1>1 DEF TaskKept, OnlyMoves
        <3>3. u \notin Active
            BY <3>1 DEF Active
        <3>. QED  BY <1>1, <1>4, <3>1, <3>2, <3>3 DEF documentVars
    <2>. QED  BY <1>1, <2>1, <2>2 DEF NotStarted, documentVars
<1>6. Active' \subseteq Active
    <2>1. \A u \in 1 .. started : u \in Thread
        BY CountsAreNaturals, ThreadAssumption DEF DocumentTypeOK
    <2>2. \A u \in 1 .. started : step[u] = "done" => step'[u] = "done"
        BY <1>1, <1>4, <2>1 DEF TaskKept, OnlyMoves, Active
    <2>. QED  BY <1>1, <2>2 DEF Active, documentVars
<1>7. ClosingOK'
    BY <1>1, <1>6, MembersInOrder DEF ClosingOK, documentVars
<1>. QED  BY <1>1, <1>2, <1>3, <1>5, <1>7 DEF TaskKept

LEMMA StutterPreserves ==
    ASSUME MeshInv, CarefulInv', UNCHANGED vars
    PROVE  MeshInv'
<1>. USE DEF MeshInv, vars, documentVars, taskVars
<1>1. DocumentTypeOK' /\ TaskTypeOK' /\ NotStarted'
    BY DEF DocumentTypeOK, TaskTypeOK, NotStarted
<1>2. TasksOK' /\ NodesOK'
    BY TaskKeeps, NodesKeep DEF TasksOK
<1>3. Active' = Active
    BY DEF Active
<1>4. ClosingOK'
    BY <1>3, MembersInOrder DEF ClosingOK
<1>. QED  BY <1>1, <1>2, <1>4

LEMMA MeshStep == MeshInv /\ [Next]_vars => MeshInv'
<1>. SUFFICES ASSUME MeshInv, [Next]_vars PROVE MeshInv'
    OBVIOUS
<1>1. CarefulInv'
    BY CarefulInvKept
<1>2. CASE UNCHANGED vars \/ Stopped
    BY <1>1, <1>2, StutterPreserves DEF Stopped
<1>3. CASE Call \/ Close \/ DestroyMember
    BY <1>1, <1>3, DocumentPreserves
<1>4. ASSUME NEW t \in Thread, Task(t) PROVE MeshInv'
    BY <1>1, <1>4, TaskPreserves
<1>. QED  BY <1>2, <1>3, <1>4 DEF Next

LEMMA MeshInitial == Init => MeshInv
<1>. SUFFICES ASSUME Init PROVE MeshInv
    OBVIOUS
<1>. USE DEF Init
<1>1. CarefulInv
    BY CacheInitial
<1>2. DocumentTypeOK
    <2>1. <<>> \in Seq(Sphere) /\ IsInjective(<<>>)
        BY EmptySeq DEF IsInjective
    <2>2. \A t \in Thread : forest[t] = <<>>
        OBVIOUS
    <2>3. forest \in [Thread -> Seq(Sphere)] /\ \A t \in Thread : IsInjective(forest[t])
        BY <2>1, <2>2
    <2>4. started \in 0 .. Calls
        BY CountsAreNaturals
    <2>. QED  BY <2>3, <2>4, AttrAssumption DEF DocumentTypeOK
<1>3. TaskTypeOK
    BY EmptySeq DEF TaskTypeOK, Steps, NoOperation, Operation, CallType, Pointer
<1>4. NotStarted
    BY DEF NotStarted
<1>5. TasksOK
    <2>. SUFFICES ASSUME NEW t \in Thread PROVE ReadingOK(t) /\ CombineOK(t) /\ EmptyOK(t)
        BY DEF TasksOK
    <2>1. step[t] = "done" /\ Len(seen[t]) = Len(forest[t])
        OBVIOUS
    <2>2. HeldBy(t) = {} /\ Doomed(t) = {} /\ lock # t
        BY NoneAssumption DEF CacheInit, HeldBy, Doomed
    <2>. QED  BY <2>1, <2>2 DEF ReadingOK, CombineOK, EmptyOK, Loop, Combining, Handled
<1>6. NodesOK
    <2>1. Allocated = {} /\ rank \in [Addr -> Nat] /\ \A a \in Addr : rank[a] <= 0
        BY DEF CacheInit, Allocated
    <2>. QED  BY <2>1 DEF NodesOK
<1>7. ClosingOK
    <2>1. Active = {}
        BY DEF Active
    <2>. QED  BY <2>1, MembersInOrder DEF ClosingOK
<1>. QED  BY <1>1, <1>2, <1>3, <1>4, <1>5, <1>6, <1>7 DEF MeshInv

(* The inductive invariant. *)
THEOREM MeshInvariant == Spec => []MeshInv
BY MeshInitial, MeshStep, PTL DEF Spec

-----------------------------------------------------------------------------
(* Theorems *)

(* The tasks of a document are a careful client of the cache: a variable is *)
(* only assigned while a copy of its old value is alive, the argument of    *)
(* the call whose result it is (tree/mesh_factory and cache.cpp).           *)
THEOREM TasksAreCareful == Spec => UsesCacheCarefully
<1>1. Init => CacheInit
    BY DEF Init
<1>. QED  BY <1>1, MeshInvariant, MeshStepIsCareful, PTL DEF Spec, UsesCacheCarefully, CarefulSpec

(* So no task finds an expired node in the cache. *)
THEOREM TasksFindLiveNodes == Spec => []NeverExpired
BY TasksAreCareful, LookupFindsLiveNode DEF UsesCacheCarefully

(* Equal expressions of all tasks are one node. *)
THEOREM TasksShareNodes == Spec => []Deduplicated
BY TasksAreCareful, CarefulIsAClient, EqualTreesAreOneNode DEF UsesCacheCarefully

(* No Tree of a task refers to memory that has been freed. *)
THEOREM TasksHoldLiveNodes == Spec => []NoDanglingPointer
BY TasksAreCareful, CarefulIsAClient, NothingDangles DEF UsesCacheCarefully

(* The document is not destroyed under its tasks. *)
THEOREM DocumentOutlivesTasks == Spec => []TasksFindTheirDocument
<1>1. MeshInv => TasksFindTheirDocument
    BY DEF MeshInv, ClosingOK, TasksFindTheirDocument
<1>. QED  BY <1>1, MeshInvariant, PTL

(* A set of nodes with bounded ranks has one of the highest rank. *)
LEMMA HighestRank ==
    ASSUME NodesOK, NEW S \in SUBSET Addr, S # {}
    PROVE  \E a \in S : \A b \in S : rank[b] <= rank[a]
<1>1. PICK n \in Nat : \A a \in Addr : rank[a] <= n
    BY DEF NodesOK
<1>2. rank \in [Addr -> Nat]
    BY DEF NodesOK
<1>. DEFINE below == {n - rank[a] : a \in S}
<1>3. below \in SUBSET Nat /\ below # {}
    BY <1>1, <1>2
<1>4. PICK m \in below : \A k \in below : m <= k
    <2>. DEFINE R == OpToRel(<, Nat)
    <2>1. IsWellFoundedOn(R, Nat)
        BY NatLessThanWellFounded
    <2>2. \A i, j \in Nat : i < j => <<i, j>> \in R
        BY DEF OpToRel
    <2>. HIDE DEF R, below
    <2>3. PICK m \in below : \A k \in below : ~(<<k, m>> \in R)
        BY <1>3, <2>1, WFMin
    <2>4. \A k \in below : k \in Nat /\ m \in Nat /\ ~(k < m)
        BY <1>3, <2>2, <2>3
    <2>. QED  BY <2>4
<1>5. PICK a \in S : m = n - rank[a]
    BY <1>4
<1>6. \A b \in S : n - rank[a] <= n - rank[b]
    BY <1>4, <1>5
<1>. QED  BY <1>1, <1>2, <1>5, <1>6

(* When no task is left nothing of an expression is: whatever nobody refers *)
(* to is destroyed, and a node of the highest rank is no argument.          *)
THEOREM TasksLeaveNothing == Spec => []NoLeak
<1>1. MeshInv => NoLeak
    <2>. SUFFICES ASSUME MeshInv, Active = {}
                  PROVE  Allocated = {} /\ cache = {} /\ lock = None
        BY DEF NoLeak
    <2>. USE DEF MeshInv
    <2>1. ASSUME NEW t \in Thread PROVE step[t] = "done"
        <3>1. t \in 1 .. started \/ t > started
            BY CountsAreNaturals, ThreadAssumption DEF DocumentTypeOK
        <3>. QED  BY <3>1 DEF Active, NotStarted
    <2>2. \A t \in Thread : HeldBy(t) = {} /\ Doomed(t) = {} /\ lock # t
        BY <2>1 DEF TasksOK, EmptyOK
    <2>3. lock = None
        BY <2>2 DEF CarefulInv, CacheInv, CacheTypeOK
    <2>4. ASSUME Allocated # {} PROVE FALSE
        <3>1. PICK a \in Allocated : \A b \in Allocated : rank[b] <= rank[a]
            BY <2>4, HighestRank DEF Allocated
        <3>2. Held(a)
            BY <2>2 DEF CarefulInv, LockCovers
        <3>3. a \in Addr /\ a # None /\ \A t \in Thread, s \in Slot : handle[t][s] # a
            BY <2>2, NoneAssumption DEF HeldBy, Allocated
        <3>4. PICK b \in Allocated : a \in Arguments(node[b])
            BY <3>2, <3>3 DEF Held, HeldIn, Allocated
        <3>5. IsMin(b) /\ rank[a] < rank[b]
            <4>1. ShapeOK(b) /\ (a = node[b].lhs \/ a = node[b].rhs)
                BY <3>4 DEF NodesOK, Arguments
            <4>2. node[b] # Leaf(node[b].op)
                BY <3>3, <4>1 DEF Leaf
            <4>. QED  BY <4>1, <4>2 DEF ShapeOK
        <3>6. rank[a] \in Nat /\ rank[b] \in Nat /\ rank[b] <= rank[a]
            BY <3>1 DEF NodesOK, Allocated
        <3>. QED  BY <3>5, <3>6
    <2>5. \A e \in cache : e.node \in Allocated
        BY NoneAssumption DEF CarefulInv, CacheInv, CacheTypeOK, EntriesMatch, Allocated
    <2>. QED  BY <2>3, <2>4, <2>5
<1>. QED  BY <1>1, MeshInvariant, PTL
-----------------------------------------------------------------------------
(* What the meshes show: a mesh shows the attributes its task has read,     *)
(* however the expressions were shared, simplified and rebalanced; and it   *)
(* shows the document unless an older task overtakes the last one.  The     *)
(* inductive invariants of this part:                                       *)

(* The first n attributes a task has read. *)
Read(t, n) == {seen[t][i] : i \in 1 .. n}

RootsShow(t, n) == \A i \in 1 .. n : Shows(node, handle[t][RootSlot(i)]) = {seen[t][i]}

(* What an operation under way will show. *)
CallShows(t) ==
    Shows(node, call[t].lhs) \cup Shows(node, call[t].rhs)
        \cup UNION {Shows(node, call[t].outside[i]) : i \in 1 .. Len(call[t].outside)}

ContentOK(t) ==
    /\ step[t] \in {"coord", "leaf"} => RootsShow(t, root[t] - 1)
    /\ step[t] \in {"tree"} \cup Loop => RootsShow(t, Len(forest[t]))
    /\ step[t] \in {"acc"} \cup Combining => Shows(node, Is(t, "tree")) = Read(t, root[t] - 1)
    /\ step[t] = "operate" => CallShows(t) = Read(t, root[t])
    /\ step[t] \in {"dropInner", "unlock", "assign"} => Shows(node, Is(t, "tmp")) = Read(t, root[t])
    /\ step[t] \in {"dropResult", "dropAcc", "render"} => Shows(node, Is(t, "tree")) = Read(t, root[t])
    /\ step[t] \in {"clear", "store", "done"} /\ forest[t] # <<>> =>
          rendered[t] = Range(seen[t])

ContentInv == MeshInv /\ \A t \in Thread : ContentOK(t)

(* The last task is about the document as it is. *)
ReadUpToDate ==
    started >= 1 /\ writing = None =>
        \A i \in 1 .. Len(seen[started]) : seen[started][i] = attr[forest[started][i]]

StoredLast ==
    stored # <<>> /\ stored[Len(stored)] = started =>
        /\ step[started] = "done"
        /\ mesh = IF forest[started] = <<>> THEN None ELSE rendered[started]

LastOK ==
    /\ started >= 1 => forest[started] = graph
    /\ ReadUpToDate
    /\ StoredLast

CurrentInv == ContentInv /\ LastOK

-----------------------------------------------------------------------------
(* Expressions in any memory *)

InUse(m) == {a \in Addr : m[a] # None}

WellFormed(m) == \A a \in InUse(m) : Arguments(m[a]) \subseteq InUse(m)

ClosedIn(m, S) == S \subseteq InUse(m) /\ \A c \in S : Arguments(m[c]) \subseteq S

LEMMA ExpressionIsClosed ==
    ASSUME NEW m, WellFormed(m), NEW a \in InUse(m)
    PROVE  ClosedIn(m, Expression(m, a)) /\ a \in Expression(m, a)
BY DEF WellFormed, ClosedIn, InUse, Expression

LEMMA ExpressionIsLeast ==
    ASSUME NEW m, NEW a, NEW S, ClosedIn(m, S), a \in S
    PROVE  Expression(m, a) \subseteq S
BY DEF ClosedIn, InUse, Expression

LEMMA ShowsOfLeaf ==
    ASSUME NEW m, WellFormed(m), NEW a \in InUse(m), NEW x \in Attr, m[a] = Leaf(x)
    PROVE  Shows(m, a) = {x}
<1>1. ClosedIn(m, {a})
    BY DEF ClosedIn, Arguments, Leaf
<1>2. Expression(m, a) = {a}
    BY <1>1, ExpressionIsClosed, ExpressionIsLeast
<1>. QED  BY <1>2, AttrAssumption DEF Shows, Leaf

LEMMA ShowsOfMin ==
    ASSUME NEW m, WellFormed(m), NEW a \in InUse(m), NEW b \in InUse(m), NEW c \in InUse(m),
           m[a] = MinOf(b, c)
    PROVE  Shows(m, a) = Shows(m, b) \cup Shows(m, c)
<1>. DEFINE E == Expression(m, a)
            F == Expression(m, b)
            G == Expression(m, c)
<1>1. /\ ClosedIn(m, E) /\ a \in E /\ ClosedIn(m, F) /\ b \in F /\ ClosedIn(m, G) /\ c \in G
    BY ExpressionIsClosed
<1>2. Arguments(m[a]) = {b, c}
    BY NoneAssumption DEF Arguments, MinOf, InUse
<1>3. ClosedIn(m, {a} \cup F \cup G)
    BY <1>1, <1>2 DEF ClosedIn
<1>4. E \subseteq {a} \cup F \cup G
    <2>. HIDE DEF F, G
    <2>. QED  BY <1>3, ExpressionIsLeast
<1>5. b \in E /\ c \in E
    BY <1>1, <1>2 DEF ClosedIn
<1>6. F \subseteq E /\ G \subseteq E
    <2>. HIDE DEF E
    <2>. QED  BY <1>1, <1>5, ExpressionIsLeast
<1>7. E = {a} \cup F \cup G
    BY <1>1, <1>4, <1>6
<1>8. m[a].op = MinOp
    BY DEF MinOf
<1>. HIDE DEF E, F, G
<1>9. {m[d].op : d \in E} \ {MinOp} = ({m[d].op : d \in F} \ {MinOp}) \cup ({m[d].op : d \in G} \ {MinOp})
    BY <1>7, <1>8
<1>. QED  BY <1>9 DEF Shows, E, F, G

(* An expression whose nodes stay as they are stays as it is. *)
LEMMA ShowsStay ==
    ASSUME NEW m, NEW n, WellFormed(m), WellFormed(n), NEW a \in InUse(m),
           \A b \in Expression(m, a) : n[b] = m[b]
    PROVE  Shows(n, a) = Shows(m, a)
<1>. DEFINE E == Expression(m, a)
            F == Expression(n, a)
<1>1. ClosedIn(m, E) /\ a \in E
    BY ExpressionIsClosed
<1>2. E \subseteq InUse(n)
    BY <1>1 DEF ClosedIn, InUse
<1>3. ClosedIn(n, E)
    BY <1>1, <1>2 DEF ClosedIn
<1>4. F \subseteq E
    <2>. HIDE DEF E
    <2>. QED  BY <1>1, <1>3, ExpressionIsLeast
<1>5. a \in InUse(n)
    BY <1>1, <1>2
<1>6. ClosedIn(n, F) /\ a \in F
    BY <1>5, ExpressionIsClosed
<1>7. ClosedIn(m, F)
    <2>1. F \subseteq InUse(m)
        BY <1>1, <1>4 DEF ClosedIn
    <2>2. \A c \in F : Arguments(m[c]) \subseteq F
        BY <1>4, <1>6 DEF ClosedIn
    <2>. QED  BY <2>1, <2>2 DEF ClosedIn
<1>8. E \subseteq F
    <2>. HIDE DEF F
    <2>. QED  BY <1>6, <1>7, ExpressionIsLeast
<1>9. F = E /\ \A b \in E : n[b] = m[b]
    BY <1>4, <1>8
<1>. QED  BY <1>9 DEF Shows

-----------------------------------------------------------------------------
(* What stays of the expressions *)

LEMMA MemoryWellFormed == CacheInv => WellFormed(node)
BY NoneAssumption DEF CacheInv, CacheTypeOK, PointersAllocated, WellFormed, InUse, Allocated,
   Arguments, Key, Pointer

LEMMA MemoryWellFormedNext == CacheInv' => WellFormed(node')
BY NoneAssumption DEF CacheInv, CacheTypeOK, PointersAllocated, WellFormed, InUse, Allocated,
   Arguments, Key, Pointer

(* Whatever is referred to keeps what it shows. *)
LEMMA HeldKeepsContent ==
    ASSUME MeshInv, MeshInv', NodeEffect, NEW a \in Addr, Held(a)
    PROVE  Shows(node', a) = Shows(node, a)
<1>. USE DEF MeshInv, CarefulInv
<1>1. WellFormed(node) /\ WellFormed(node')
    BY MemoryWellFormed, MemoryWellFormedNext
<1>2. a \in InUse(node)
    BY ReachableIsHeld DEF Reachable, InUse
<1>. DEFINE S == {b \in InUse(node) : Held(b)}
<1>3. ClosedIn(node, S)
    BY <1>1 DEF ClosedIn, WellFormed, Held, HeldIn, InUse
<1>4. Expression(node, a) \subseteq S
    <2>1. a \in S
        BY <1>2
    <2>. HIDE DEF S
    <2>. QED  BY <1>3, <2>1, ExpressionIsLeast
<1>5. \A b \in S : node'[b] = node[b]
    BY DEF NodeEffect, InUse, CacheInv, CacheTypeOK
<1>. QED  BY <1>1, <1>2, <1>4, <1>5, ShowsStay

LEMMA TreesAreHeld ==
    ASSUME MeshInv, NEW t \in Thread, NEW s \in Slot, handle[t][s] # None
    PROVE  handle[t][s] \in Addr /\ handle[t][s] \in Allocated /\ Held(handle[t][s])
BY DEF MeshInv, CarefulInv, CacheInv, CacheTypeOK, PointersAllocated, Allocated, Pointer,
       Held, HeldIn

(* While a thread holds the mutex and destroys nothing, nobody does. *)
LEMMA NothingExpires ==
    ASSUME MeshInv, NEW t \in Thread, lock = t, Doomed(t) = {}, NEW a \in Allocated
    PROVE  a \in Addr /\ Held(a)
BY NoneAssumption DEF MeshInv, CarefulInv, LockCovers, Allocated

LEMMA RootsKeepContent ==
    ASSUME MeshInv, MeshInv', NodeEffect, NEW t \in Thread, NEW n \in 0 .. Len(forest[t]),
           RootsHeld(t, n), RootsShow(t, n),
           \A i \in 1 .. n : handle'[t][RootSlot(i)] = handle[t][RootSlot(i)]
    PROVE  \A i \in 1 .. n : Shows(node', handle'[t][RootSlot(i)]) = {seen[t][i]}
<1>. SUFFICES ASSUME NEW i \in 1 .. n
              PROVE  Shows(node', handle'[t][RootSlot(i)]) = {seen[t][i]}
    OBVIOUS
<1>1. Len(forest[t]) \in Nat /\ RootSlot(i) \in Slot
    BY ForestFits DEF MeshInv
<1>. DEFINE a == handle[t][RootSlot(i)]
<1>2. a \in Addr /\ Held(a) /\ Shows(node, a) = {seen[t][i]}
    BY <1>1, TreesAreHeld DEF RootsHeld, RootsShow
<1>. QED  BY <1>2, HeldKeepsContent

-----------------------------------------------------------------------------
(* A step that is not its own leaves what a task has read and built *)

LEMMA ContentNext ==
    ASSUME NEW t \in Thread,
           step'[t] \in {"coord", "leaf"} =>
              \A i \in 1 .. root'[t] - 1 : Shows(node', handle'[t][RootSlot(i)]) = {seen'[t][i]},
           step'[t] \in {"tree"} \cup Loop =>
              \A i \in 1 .. Len(forest'[t]) :
                 Shows(node', handle'[t][RootSlot(i)]) = {seen'[t][i]},
           step'[t] \in {"acc"} \cup Combining =>
              Shows(node', handle'[t][Temp("tree")]) = {seen'[t][i] : i \in 1 .. root'[t] - 1},
           step'[t] = "operate" =>
              Shows(node', call'[t].lhs) \cup Shows(node', call'[t].rhs)
                \cup UNION {Shows(node', call'[t].outside[i]) : i \in 1 .. Len(call'[t].outside)}
                = {seen'[t][i] : i \in 1 .. root'[t]},
           step'[t] \in {"dropInner", "unlock", "assign"} =>
              Shows(node', handle'[t][Temp("tmp")]) = {seen'[t][i] : i \in 1 .. root'[t]},
           step'[t] \in {"dropResult", "dropAcc", "render"} =>
              Shows(node', handle'[t][Temp("tree")]) = {seen'[t][i] : i \in 1 .. root'[t]},
           step'[t] \in {"clear", "store", "done"} /\ forest'[t] # <<>> =>
              rendered'[t] = Range(seen'[t])
    PROVE  ContentOK(t)'
BY DEF ContentOK, RootsShow, CallShows, Read, Is

LEMMA ContentStays ==
    ASSUME MeshInv, MeshInv', NodeEffect, NEW t \in Thread, ContentOK(t),
           step'[t] = step[t], root'[t] = root[t], seen'[t] = seen[t], call'[t] = call[t],
           forest'[t] = forest[t], rendered'[t] = rendered[t], handle'[t] = handle[t],
           step[t] = "operate" => UNCHANGED node
    PROVE  ContentOK(t)'
<1>. USE DEF MeshInv
<1>1. root[t] \in Nat /\ Len(forest[t]) \in Nat
    BY ForestFits DEF TaskTypeOK
<1>2. ASSUME step[t] \in {"coord", "leaf"}
      PROVE  \A i \in 1 .. root[t] - 1 : Shows(node', handle'[t][RootSlot(i)]) = {seen[t][i]}
    <2>1. root[t] - 1 \in 0 .. Len(forest[t]) /\ RootsHeld(t, root[t] - 1)
          /\ RootsShow(t, root[t] - 1)
        BY <1>1, <1>2 DEF TasksOK, ReadingOK, ContentOK
    <2>. QED  BY <2>1, RootsKeepContent
<1>3. ASSUME step[t] \in {"tree"} \cup Loop
      PROVE  \A i \in 1 .. Len(forest[t]) : Shows(node', handle'[t][RootSlot(i)]) = {seen[t][i]}
    <2>1. RootsHeld(t, Len(forest[t])) /\ RootsShow(t, Len(forest[t]))
          /\ Len(forest[t]) \in 0 .. Len(forest[t])
        BY <1>1, <1>3 DEF TasksOK, ReadingOK, ContentOK
    <2>. QED  BY <1>1, <2>1, RootsKeepContent
<1>4. \A n \in {"tree", "tmp"} : handle[t][Temp(n)] # None =>
          Shows(node', handle'[t][Temp(n)]) = Shows(node, handle[t][Temp(n)])
    <2>. SUFFICES ASSUME NEW n \in {"tree", "tmp"}, handle[t][Temp(n)] # None
                  PROVE  Shows(node', handle[t][Temp(n)]) = Shows(node, handle[t][Temp(n)])
        OBVIOUS
    <2>1. handle[t][Temp(n)] \in Addr /\ Held(handle[t][Temp(n)])
        BY TreesAreHeld, SlotsOfATask
    <2>. QED  BY <2>1, HeldKeepsContent
<1>5. /\ step[t] \in Loop \cup {"render"} => handle[t][Temp("tree")] # None
      /\ step[t] \in {"dropInner", "unlock", "assign"} => handle[t][Temp("tmp")] # None
    BY DEF TasksOK, CombineOK, Is
<1>6. /\ step[t] \in {"acc"} \cup Combining =>
            Shows(node, handle[t][Temp("tree")]) = {seen[t][i] : i \in 1 .. root[t] - 1}
      /\ step[t] \in {"dropInner", "unlock", "assign"} =>
            Shows(node, handle[t][Temp("tmp")]) = {seen[t][i] : i \in 1 .. root[t]}
      /\ step[t] \in {"dropResult", "dropAcc", "render"} =>
            Shows(node, handle[t][Temp("tree")]) = {seen[t][i] : i \in 1 .. root[t]}
      /\ step[t] \in {"clear", "store", "done"} /\ forest[t] # <<>> =>
            rendered[t] = Range(seen[t])
    BY DEF ContentOK, Is, Read
<1>7. step[t] = "operate" =>
          Shows(node', call[t].lhs) \cup Shows(node', call[t].rhs)
            \cup UNION {Shows(node', call[t].outside[i]) : i \in 1 .. Len(call[t].outside)}
            = {seen[t][i] : i \in 1 .. root[t]}
    BY DEF ContentOK, CallShows, Read
<1>8. /\ {seen'[t][i] : i \in 1 .. root'[t]} = {seen[t][i] : i \in 1 .. root[t]}
      /\ {seen'[t][i] : i \in 1 .. root'[t] - 1} = {seen[t][i] : i \in 1 .. root[t] - 1}
    OBVIOUS
<1>9. UNION {Shows(node', call'[t].outside[i]) : i \in 1 .. Len(call'[t].outside)}
        = UNION {Shows(node', call[t].outside[i]) : i \in 1 .. Len(call[t].outside)}
    OBVIOUS
<1>10. step[t] = "operate" =>
          Shows(node', call'[t].lhs) \cup Shows(node', call'[t].rhs)
            \cup UNION {Shows(node', call'[t].outside[i]) : i \in 1 .. Len(call'[t].outside)}
            = {seen'[t][i] : i \in 1 .. root'[t]}
    BY <1>7, <1>8, <1>9
<1>. HIDE DEF MeshInv
<1>. QED  BY <1>2, <1>3, <1>4, <1>5, <1>6, <1>8, <1>10, ContentNext DEF Loop, Combining

-----------------------------------------------------------------------------
(* A step of its own *)

LEMMA TreeKeepsContent ==
    ASSUME MeshInv, MeshInv', NodeEffect, NEW t \in Thread, NEW s \in Slot,
           handle[t][s] # None, handle'[t][s] = handle[t][s]
    PROVE  Shows(node', handle'[t][s]) = Shows(node, handle[t][s])
<1>1. handle[t][s] \in Addr /\ Held(handle[t][s])
    BY TreesAreHeld
<1>. QED  BY <1>1, HeldKeepsContent

LEMMA LoopKeepsContent ==
    ASSUME MeshInv, MeshInv', NodeEffect, NEW t \in Thread, ContentOK(t),
           step[t] \in {"tree"} \cup Loop, UNCHANGED <<forest, seen>>,
           \A i \in 1 .. Len(forest[t]) : handle'[t][RootSlot(i)] = handle[t][RootSlot(i)]
    PROVE  \A i \in 1 .. Len(forest'[t]) :
              Shows(node', handle'[t][RootSlot(i)]) = {seen'[t][i]}
<1>1. RootsHeld(t, Len(forest[t])) /\ RootsShow(t, Len(forest[t]))
    BY DEF MeshInv, TasksOK, ReadingOK, ContentOK
<1>2. Len(forest[t]) \in 0 .. Len(forest[t])
    BY ForestFits DEF MeshInv
<1>. QED  BY <1>1, <1>2, RootsKeepContent

LEMMA ReadCoordShows ==
    ASSUME MeshInv, MeshInv', NEW t \in Thread, ContentOK(t), ReadCoord(t),
           UNCHANGED documentVars
    PROVE  ContentOK(t)'
<1>1. step[t] = "coord" /\ Advance(t) /\ UNCHANGED <<node, handle>>
    BY DEF ReadCoord, At, cacheVars
<1>2. step'[t] = "leaf" /\ root'[t] = root[t]
    BY <1>1, AdvanceEffect DEF MeshInv, Goes
<1>3. seen[t] \in Seq(Attr) /\ Len(seen[t]) = root[t] - 1 /\ RootsShow(t, root[t] - 1)
    BY <1>1 DEF MeshInv, TaskTypeOK, TasksOK, ReadingOK, ContentOK
<1>4. seen'[t] = Append(seen[t], attr[forest[t][root[t]]])
    BY DEF ReadCoord, MeshInv, TaskTypeOK
<1>5. \A i \in 1 .. root[t] - 1 : seen'[t][i] = seen[t][i]
    BY <1>1, <1>3, <1>4, ReadsAttributes, AppendProperties
<1>6. \A i \in 1 .. root'[t] - 1 : Shows(node', handle'[t][RootSlot(i)]) = {seen'[t][i]}
    BY <1>1, <1>2, <1>3, <1>5 DEF RootsShow
<1>. QED  BY <1>2, <1>6, ContentNext DEF Loop, Combining

LEMMA LeafShows ==
    ASSUME MeshInv, MeshInv', NodeEffect, NEW t \in Thread, ContentOK(t), Work(t),
           step[t] = "leaf", UNCHANGED documentVars
    PROVE  ContentOK(t)'
<1>1. Build(t, RootSlot(root[t]), Leaf(ReadRadius(t))) /\ Advance(t)
    BY DEF Work, TreeStep, At
<1>2. root[t] \in 1 .. Len(forest[t]) /\ RootSlot(root[t]) \in Slot /\ ReadRadius(t) \in Attr
    BY ReadsAttributes
<1>3. Leaf(ReadRadius(t)) \in Expressible /\ NewShape(Leaf(ReadRadius(t)))
    BY <1>2, AttrAssumption DEF Leaf, Expressible, NewShape
<1>4. PICK a \in Addr : /\ handle' = Point(t, RootSlot(root[t]), a)
                        /\ node'[a] = Leaf(ReadRadius(t))
    BY <1>1, <1>2, <1>3, BuildEffect DEF MeshInv
<1>5. /\ handle'[t][RootSlot(root[t])] = a
      /\ \A r \in Slot : r # RootSlot(root[t]) => handle'[t][r] = handle[t][r]
    BY <1>2, <1>4, Pointed
<1>6. Shows(node', a) = {ReadRadius(t)}
    <2>1. WellFormed(node')
        BY MemoryWellFormedNext DEF MeshInv, CarefulInv
    <2>2. a \in InUse(node')
        BY <1>2, <1>3, <1>4, NoneAssumption, ExpressibleIsKey DEF InUse
    <2>. QED  BY <1>2, <1>4, <2>1, <2>2, ShowsOfLeaf
<1>7. seen[t] \in Seq(Attr) /\ Len(seen[t]) = root[t]
      /\ RootsHeld(t, root[t] - 1) /\ RootsShow(t, root[t] - 1)
    BY DEF MeshInv, TaskTypeOK, TasksOK, ReadingOK, ContentOK
<1>8. seen'[t] = [seen[t] EXCEPT ![root[t]] = ReadRadius(t)]
    BY DEF Work, MeshInv, TaskTypeOK
<1>9. /\ root[t] \in Nat /\ Len(forest[t]) \in Nat /\ UNCHANGED forest
      /\ \A i \in 1 .. Len(forest[t]) : RootSlot(i) \in Slot
    BY ForestFits DEF MeshInv, TaskTypeOK, documentVars
<1>10. seen'[t][root[t]] = ReadRadius(t) /\ \A i \in 1 .. root[t] - 1 : seen'[t][i] = seen[t][i]
    BY <1>2, <1>7, <1>8, <1>9, ExceptSeq
<1>11. ASSUME NEW i \in 1 .. root[t]
       PROVE  Shows(node', handle'[t][RootSlot(i)]) = {seen'[t][i]}
    <2>1. CASE i = root[t]
        BY <1>5, <1>6, <1>10, <2>1
    <2>2. CASE i # root[t]
        <3>1. i \in 1 .. root[t] - 1 /\ RootSlot(i) \in Slot /\ RootSlot(i) # RootSlot(root[t])
            BY <1>2, <1>9, <2>2, SlotsDiffer
        <3>2. handle[t][RootSlot(i)] # None /\ handle'[t][RootSlot(i)] = handle[t][RootSlot(i)]
              /\ Shows(node, handle[t][RootSlot(i)]) = {seen[t][i]} /\ seen'[t][i] = seen[t][i]
            BY <1>5, <1>7, <1>10, <3>1 DEF RootsHeld, RootsShow
        <3>. QED  BY <3>1, <3>2, TreeKeepsContent
    <2>. QED  BY <2>1, <2>2
<1>12. IF root[t] < Len(forest[t]) THEN step'[t] = "coord" /\ root'[t] = root[t] + 1
       ELSE step'[t] = "tree" /\ root[t] = Len(forest[t])
    BY <1>1, <1>2, <1>9, AdvanceEffect DEF MeshInv, Goes
<1>13. CASE root[t] < Len(forest[t])
    <2>1. root'[t] - 1 = root[t]
        BY <1>9, <1>12, <1>13
    <2>2. \A i \in 1 .. root'[t] - 1 : Shows(node', handle'[t][RootSlot(i)]) = {seen'[t][i]}
        BY <1>11, <2>1
    <2>. QED  BY <1>12, <1>13, <2>2, ContentNext DEF Loop, Combining
<1>14. CASE ~(root[t] < Len(forest[t]))
    <2>1. \A i \in 1 .. Len(forest'[t]) : Shows(node', handle'[t][RootSlot(i)]) = {seen'[t][i]}
        BY <1>9, <1>11, <1>12, <1>14
    <2>. QED  BY <1>12, <1>14, <2>1, ContentNext DEF Loop, Combining
<1>. QED  BY <1>13, <1>14

(* The first n attributes a task has read, in the next state. *)
ReadNext(t, n) == {seen'[t][i] : i \in 1 .. n}

(* Steps of the loop that only copy and drop Trees. *)
LEMMA LoopShows ==
    ASSUME MeshInv, MeshInv', NodeEffect, NEW t \in Thread, ContentOK(t), Work(t),
           step[t] \in {"tree", "acc", "unlock", "assign", "dropResult", "dropAcc"},
           UNCHANGED documentVars
    PROVE  ContentOK(t)'
<1>. DEFINE tree == Temp("tree")
            tmp == Temp("tmp")
<1>1. Advance(t) /\ UNCHANGED <<forest, seen, node>>
    BY DEF Work, TreeStep, At, Copy, Unlock, Assign, Destroy, documentVars
<1>2. /\ root[t] \in Nat /\ Len(forest[t]) \in Nat
      /\ \A i \in 1 .. Len(forest[t]) : RootSlot(i) \in Slot
      /\ tree \in Slot /\ tmp \in Slot /\ Temp("acc") \in Slot
    BY ForestFits, SlotsOfATask DEF MeshInv, TaskTypeOK
<1>3. /\ step[t] = "tree" => handle' = Point(t, tree, Elem(t))
      /\ step[t] = "acc" => handle' = Point(t, Temp("acc"), handle[t][tree])
      /\ step[t] = "unlock" => UNCHANGED handle
      /\ step[t] = "assign" => handle' = Point(t, tree, handle[t][tmp])
      /\ step[t] = "dropResult" => handle' = Point(t, tmp, None)
      /\ step[t] = "dropAcc" => handle' = Point(t, Temp("acc"), None)
    BY DEF Work, TreeStep, At, Copy, Unlock, Assign, Destroy, Is
<1>4. \A i \in 1 .. Len(forest[t]) : handle'[t][RootSlot(i)] = handle[t][RootSlot(i)]
    BY <1>2, <1>3, Pointed, SlotsDiffer
<1>5. \A i \in 1 .. Len(forest'[t]) : Shows(node', handle'[t][RootSlot(i)]) = {seen'[t][i]}
    BY <1>1, <1>4, LoopKeepsContent DEF Loop
<1>6. /\ step[t] = "tree" => handle'[t][tree] = Elem(t)
      /\ step[t] = "assign" => handle'[t][tree] = handle[t][tmp]
      /\ step[t] \in {"acc", "unlock", "dropResult", "dropAcc"} =>
            handle'[t][tree] = handle[t][tree]
      /\ step[t] = "unlock" => handle'[t][tmp] = handle[t][tmp]
    BY <1>2, <1>3, Pointed, SlotsDiffer
<1>7. \A n : ReadNext(t, n) = Read(t, n)
    BY <1>1 DEF ReadNext, Read
<1>8. CASE step[t] = "tree"
    <2>1. root[t] = 1 /\ RootsShow(t, Len(forest[t])) /\ Len(forest[t]) >= 1
        BY <1>2, <1>8 DEF MeshInv, TasksOK, ReadingOK, ContentOK
    <2>2. Shows(node', handle'[t][tree]) = {seen[t][1]}
        <3>1. handle'[t][tree] = handle[t][RootSlot(1)] /\ node' = node
            BY <1>1, <1>6, <1>8, <2>1 DEF Elem
        <3>2. 1 \in 1 .. Len(forest[t])
            BY <1>2, <2>1
        <3>3. Shows(node, handle[t][RootSlot(1)]) = {seen[t][1]}
            BY <2>1, <3>2 DEF RootsShow
        <3>. QED  BY <3>1, <3>3
    <2>3. Read(t, 1) = {seen[t][1]}
        BY DEF Read
    <2>4. \/ step'[t] = "acc" /\ root'[t] = 2
          \/ step'[t] = "render" /\ root'[t] = 1
        BY <1>1, <1>8, <2>1, AdvanceEffect DEF MeshInv, Goes
    <2>5. CASE step'[t] = "acc" /\ root'[t] = 2
        <3>1. Shows(node', handle'[t][tree]) = ReadNext(t, root'[t] - 1)
            BY <1>7, <2>2, <2>3, <2>5
        <3>. QED  BY <1>5, <2>5, <3>1, ContentNext DEF ReadNext, Loop, Combining
    <2>6. CASE step'[t] = "render" /\ root'[t] = 1
        <3>1. Shows(node', handle'[t][tree]) = ReadNext(t, root'[t])
            BY <1>7, <2>2, <2>3, <2>6
        <3>. QED  BY <2>6, <3>1, ContentNext DEF ReadNext, Loop, Combining
    <2>. QED  BY <2>4, <2>5, <2>6
<1>9. CASE step[t] = "acc"
    <2>1. step'[t] = "lock" /\ root'[t] = root[t]
        BY <1>1, <1>9, AdvanceEffect DEF MeshInv, Goes
    <2>2. Shows(node', handle'[t][tree]) = ReadNext(t, root'[t] - 1)
        BY <1>1, <1>6, <1>7, <1>9, <2>1 DEF ContentOK, Is
    <2>. QED  BY <1>5, <2>1, <2>2, ContentNext DEF ReadNext, Loop, Combining
<1>10. CASE step[t] = "unlock"
    <2>1. step'[t] = "assign" /\ root'[t] = root[t]
        BY <1>1, <1>10, AdvanceEffect DEF MeshInv, Goes
    <2>2. /\ Shows(node', handle'[t][tree]) = ReadNext(t, root'[t] - 1)
          /\ Shows(node', handle'[t][tmp]) = ReadNext(t, root'[t])
        BY <1>1, <1>6, <1>7, <1>10, <2>1 DEF ContentOK, Is, Combining
    <2>. QED  BY <1>5, <2>1, <2>2, ContentNext DEF ReadNext, Loop, Combining
<1>11. CASE step[t] \in {"assign", "dropResult"}
    <2>1. step'[t] \in {"dropResult", "dropAcc"} /\ root'[t] = root[t]
        BY <1>1, <1>11, AdvanceEffect DEF MeshInv, Goes
    <2>2. Shows(node', handle'[t][tree]) = ReadNext(t, root'[t])
        BY <1>1, <1>6, <1>7, <1>11, <2>1 DEF ContentOK, Is
    <2>. QED  BY <1>5, <2>1, <2>2, ContentNext DEF ReadNext, Loop, Combining
<1>12. CASE step[t] = "dropAcc"
    <2>1. Shows(node', handle'[t][tree]) = ReadNext(t, root[t])
        BY <1>1, <1>6, <1>7, <1>12 DEF ContentOK, Is
    <2>2. \/ step'[t] = "acc" /\ root'[t] - 1 = root[t]
          \/ step'[t] = "render" /\ root'[t] = root[t]
        BY <1>1, <1>2, <1>12, AdvanceEffect DEF MeshInv, Goes
    <2>3. CASE step'[t] = "acc" /\ root'[t] - 1 = root[t]
        BY <1>5, <2>1, <2>3, ContentNext DEF ReadNext, Loop, Combining
    <2>4. CASE step'[t] = "render" /\ root'[t] = root[t]
        BY <2>1, <2>4, ContentNext DEF ReadNext, Loop, Combining
    <2>. QED  BY <2>2, <2>3, <2>4
<1>. QED  BY <1>8, <1>9, <1>10, <1>11, <1>12

LEMMA LockShows ==
    ASSUME MeshInv, MeshInv', NodeEffect, NEW t \in Thread, ContentOK(t), Work(t),
           step[t] = "lock", UNCHANGED documentVars
    PROVE  ContentOK(t)'
<1>. DEFINE tree == Temp("tree")
<1>1. /\ Advance(t) /\ UNCHANGED <<forest, seen, node, handle>>
      /\ call' = [call EXCEPT ![t] = Operation(handle[t][tree], Elem(t), <<>>)]
    BY DEF Work, TreeStep, At, Acquire, documentVars, Is
<1>2. step'[t] = "operate" /\ root'[t] = root[t]
    BY <1>1, AdvanceEffect DEF MeshInv, Goes
<1>3. /\ root[t] \in 1 .. Len(forest[t]) /\ root[t] \in Nat
      /\ RootsShow(t, Len(forest[t])) /\ Shows(node, handle[t][tree]) = Read(t, root[t] - 1)
    BY DEF MeshInv, TaskTypeOK, TasksOK, ReadingOK, ContentOK, Loop, Combining, Is
<1>4. \A i \in 1 .. Len(forest'[t]) : Shows(node', handle'[t][RootSlot(i)]) = {seen'[t][i]}
    BY <1>1, LoopKeepsContent DEF Loop
<1>5. Shows(node, Elem(t)) = {seen[t][root[t]]}
    BY <1>3 DEF RootsShow, Elem
<1>6. Read(t, root[t]) = Read(t, root[t] - 1) \cup {seen[t][root[t]]}
    BY <1>3 DEF Read
<1>7. \A n : ReadNext(t, n) = Read(t, n)
    BY <1>1 DEF ReadNext, Read
<1>8. call'[t].lhs = handle[t][tree] /\ call'[t].rhs = Elem(t) /\ call'[t].outside = <<>>
    BY <1>1 DEF Operation, MeshInv, TaskTypeOK
<1>9. UNION {Shows(node', call'[t].outside[i]) : i \in 1 .. Len(call'[t].outside)} = {}
    BY <1>8, EmptySeq
<1>10. Shows(node', call'[t].lhs) \cup Shows(node', call'[t].rhs)
          \cup UNION {Shows(node', call'[t].outside[i]) : i \in 1 .. Len(call'[t].outside)}
          = ReadNext(t, root'[t])
    BY <1>1, <1>2, <1>3, <1>5, <1>6, <1>7, <1>8, <1>9
<1>11. Shows(node', handle'[t][tree]) = ReadNext(t, root'[t] - 1)
    BY <1>1, <1>2, <1>3, <1>7
<1>. QED  BY <1>2, <1>4, <1>10, <1>11, ContentNext DEF ReadNext, Loop, Combining

LEMMA UnionOfOneMore ==
    ASSUME NEW A, NEW x
    PROVE  UNION (A \cup {x}) = (UNION A) \cup x
OBVIOUS

LEMMA Regrouped ==
    ASSUME NEW A, NEW B, NEW P, NEW Q, NEW O, NEW L, NEW U, NEW R,
           A \cup B = P \cup Q, P = O \cup L, A \cup B \cup U = R
    PROVE  L \cup Q \cup (U \cup O) = R
<1>1. R = P \cup Q \cup U
    OBVIOUS
<1>. QED  BY <1>1

(* Rebalancing only moves the operands of an operation. *)
LEMMA NestShows ==
    ASSUME MeshInv, MeshInv', NEW t \in Thread, ContentOK(t), Nest(t), UNCHANGED documentVars
    PROVE  ContentOK(t)'
<1>. USE DEF MeshInv
<1>. DEFINE out == call[t].outside
<1>1. step[t] = "operate" /\ CallAllocated(t)
    BY DEF Nest, At, TasksOK, CombineOK
<1>2. PICK split \in Rebalanced(call[t].lhs, call[t].rhs) :
          call' = [call EXCEPT ![t] =
                      Operation(split.lhs, split.rhs, Append(@.outside, split.outer))]
    BY DEF Nest
<1>3. PICK p \in {call[t].lhs, call[t].rhs}, q \in {call[t].lhs, call[t].rhs} :
          /\ {p, q} = {call[t].lhs, call[t].rhs} /\ IsMin(p) /\ split.rhs = q
          /\ \/ split.outer = node[p].lhs /\ split.lhs = node[p].rhs
             \/ split.outer = node[p].rhs /\ split.lhs = node[p].lhs
          /\ split.outer \in Allocated /\ split.lhs \in Allocated
    BY <1>1, RebalancedSplits DEF CallAllocated
<1>4. Shows(node, p) = Shows(node, split.outer) \cup Shows(node, split.lhs)
    <2>1. WellFormed(node)
        BY MemoryWellFormed DEF CarefulInv
    <2>2. p \in InUse(node) /\ split.outer \in InUse(node) /\ split.lhs \in InUse(node)
        BY <1>1, <1>3 DEF CallAllocated, InUse, Allocated
    <2>3. node[p] = MinOf(node[p].lhs, node[p].rhs)
        <3>1. node[p] \in Key
            BY <2>2 DEF InUse, CarefulInv, CacheInv, CacheTypeOK
        <3>. QED  BY <1>3, <3>1 DEF Key, IsMin, MinOf
    <2>. QED  BY <1>3, <2>1, <2>2, <2>3, ShowsOfMin
<1>5. UNCHANGED <<node, handle, step, root, seen, rendered, forest>>
    BY DEF Nest, cacheVars, documentVars
<1>6. out \in Seq(Addr) /\ split.outer \in Addr
    BY <1>3 DEF TaskTypeOK, CallType, Allocated
<1>. DEFINE new == Append(out, split.outer)
<1>7. call'[t].lhs = split.lhs /\ call'[t].rhs = q /\ call'[t].outside = new
    BY <1>2, <1>3 DEF Operation, TaskTypeOK
<1>8. /\ Len(out) \in Nat /\ Len(new) = Len(out) + 1
      /\ \A i \in 1 .. Len(out) : new[i] = out[i]
      /\ new[Len(out) + 1] = split.outer
    BY <1>6, AppendProperties, LenProperties
<1>. HIDE DEF new, out
<1>. DEFINE U == UNION {Shows(node, out[i]) : i \in 1 .. Len(out)}
            W == UNION {Shows(node, new[i]) : i \in 1 .. Len(new)}
<1>9. W = U \cup Shows(node, split.outer)
    <2>1. {Shows(node, new[i]) : i \in 1 .. Len(new)}
            = {Shows(node, out[i]) : i \in 1 .. Len(out)} \cup {Shows(node, split.outer)}
        BY <1>8
    <2>. QED  BY <2>1, UnionOfOneMore
<1>10. Shows(node, call[t].lhs) \cup Shows(node, call[t].rhs) = Shows(node, p) \cup Shows(node, q)
    BY <1>3
<1>11. Shows(node, split.lhs) \cup Shows(node, q) \cup W = Read(t, root[t])
    <2>1. Shows(node, call[t].lhs) \cup Shows(node, call[t].rhs) \cup U = Read(t, root[t])
        BY <1>1 DEF ContentOK, CallShows, out
    <2>. HIDE DEF U, W
    <2>2. Shows(node, split.lhs) \cup Shows(node, q) \cup (U \cup Shows(node, split.outer))
            = Read(t, root[t])
        BY <1>4, <1>10, <2>1, Regrouped
    <2>. QED  BY <1>9, <2>2
<1>12. \A n : ReadNext(t, n) = Read(t, n)
    BY <1>5 DEF ReadNext, Read
<1>13. Shows(node', call'[t].lhs) \cup Shows(node', call'[t].rhs)
          \cup UNION {Shows(node', call'[t].outside[i]) : i \in 1 .. Len(call'[t].outside)}
          = ReadNext(t, root'[t])
    BY <1>5, <1>7, <1>11, <1>12
<1>14. \A i \in 1 .. Len(forest'[t]) : Shows(node', handle'[t][RootSlot(i)]) = {seen'[t][i]}
    BY <1>1, <1>5 DEF ContentOK, RootsShow, Loop
<1>15. Shows(node', handle'[t][Temp("tree")]) = ReadNext(t, root'[t] - 1)
    BY <1>1, <1>5, <1>12 DEF ContentOK, Is, Combining
<1>. HIDE DEF MeshInv
<1>. QED  BY <1>1, <1>5, <1>13, <1>14, <1>15, ContentNext DEF ReadNext, Loop, Combining

(* The result of an operation shows what its arguments show. *)
LEMMA OperationShows ==
    ASSUME MeshInv, MeshInv', NEW t \in Thread, NEW s \in Slot, NEW a \in Allocated,
           NEW b \in Allocated, Doomed(t) = {}, lock = t, MakeMin(t, s, a, b)
    PROVE  /\ NodeEffect
           /\ \A d \in Allocated : Shows(node', d) = Shows(node, d)
           /\ \E c \in Addr : /\ handle' = Point(t, s, c)
                              /\ Shows(node', c) = Shows(node, a) \cup Shows(node, b)
<1>. USE DEF MeshInv
<1>1. NodeEffect
    BY MakeMinEffect
<1>2. ASSUME NEW d \in Allocated PROVE Shows(node', d) = Shows(node, d)
    BY <1>1, NothingExpires, HeldKeepsContent
<1>3. PICK c \in Addr : /\ handle' = Point(t, s, c)
                        /\ IF a = b THEN c = a ELSE node'[c] = MinOf(a, b)
    BY MakeMinEffect
<1>4. Shows(node', c) = Shows(node, a) \cup Shows(node, b)
    <2>1. CASE a = b
        BY <1>2, <1>3, <2>1
    <2>2. CASE a # b
        <3>1. WellFormed(node') /\ node' \in [Addr -> Key \cup {None}]
            BY MemoryWellFormedNext DEF CarefulInv, CacheInv, CacheTypeOK
        <3>2. node'[c] = MinOf(a, b) /\ a \in Addr /\ b \in Addr
            BY <1>3, <2>2 DEF Allocated
        <3>3. MinOf(a, b) # None
            BY <3>2, AttrAssumption, NoneAssumption DEF Key, MinOf, Pointer
        <3>4. c \in InUse(node') /\ a \in InUse(node') /\ b \in InUse(node')
            <4>1. c \in InUse(node')
                BY <3>2, <3>3 DEF InUse
            <4>2. Arguments(node'[c]) = {a, b}
                BY <3>2, NoneAssumption DEF Arguments, MinOf
            <4>. QED  BY <3>1, <4>1, <4>2 DEF WellFormed
        <3>5. Shows(node', c) = Shows(node', a) \cup Shows(node', b)
            BY <3>1, <3>2, <3>4, ShowsOfMin
        <3>. QED  BY <1>2, <3>5
    <2>. QED  BY <2>1, <2>2
<1>. QED  BY <1>1, <1>2, <1>3, <1>4

LEMMA OperateShows ==
    ASSUME MeshInv, MeshInv', NodeEffect, NEW t \in Thread, ContentOK(t), Operate(t),
           UNCHANGED documentVars
    PROVE  ContentOK(t)'
<1>1. step[t] = "operate" /\ CallAllocated(t) /\ Doomed(t) = {} /\ lock = t
    BY DEF Operate, At, MeshInv, TasksOK, CombineOK, Handled
<1>2. MakeMin(t, Temp("tmp"), call[t].lhs, call[t].rhs) /\ Advance(t) /\ call[t].outside = <<>>
      /\ UNCHANGED <<seen, forest>>
    BY DEF Operate, documentVars
<1>3. PICK c \in Addr : /\ handle' = Point(t, Temp("tmp"), c)
                        /\ Shows(node', c) = Shows(node, call[t].lhs) \cup Shows(node, call[t].rhs)
    BY <1>1, <1>2, SlotsOfATask, OperationShows DEF CallAllocated
<1>4. /\ handle'[t][Temp("tmp")] = c /\ handle'[t][Temp("tree")] = handle[t][Temp("tree")]
      /\ \A i \in 1 .. Len(forest[t]) : handle'[t][RootSlot(i)] = handle[t][RootSlot(i)]
    BY <1>3, Pointed, SlotsOfATask, SlotsDiffer, ForestFits DEF MeshInv
<1>5. step'[t] = "dropInner" /\ root'[t] = root[t]
    BY <1>1, <1>2, AdvanceEffect DEF MeshInv, Goes
<1>6. \A n : ReadNext(t, n) = Read(t, n)
    BY <1>2 DEF ReadNext, Read
<1>7. Shows(node', handle'[t][Temp("tmp")]) = ReadNext(t, root'[t])
    <2>1. UNION {Shows(node, call[t].outside[i]) : i \in 1 .. Len(call[t].outside)} = {}
        BY <1>2, EmptySeq
    <2>2. CallShows(t) = Read(t, root[t])
        BY <1>1 DEF ContentOK
    <2>3. CallShows(t) = Shows(node, call[t].lhs) \cup Shows(node, call[t].rhs)
        BY <2>1 DEF CallShows
    <2>. QED  BY <1>3, <1>4, <1>5, <1>6, <2>2, <2>3
<1>8. Shows(node', handle'[t][Temp("tree")]) = ReadNext(t, root'[t] - 1)
    <2>1. handle[t][Temp("tree")] # None
        BY <1>1 DEF MeshInv, TasksOK, CombineOK, Loop, Is
    <2>2. Shows(node', handle'[t][Temp("tree")]) = Shows(node, handle[t][Temp("tree")])
        BY <1>4, <2>1, SlotsOfATask, TreeKeepsContent
    <2>. QED  BY <1>1, <1>5, <1>6, <2>2 DEF ContentOK, Is, Combining
<1>9. \A i \in 1 .. Len(forest'[t]) : Shows(node', handle'[t][RootSlot(i)]) = {seen'[t][i]}
    BY <1>1, <1>2, <1>4, LoopKeepsContent DEF Loop
<1>. QED  BY <1>5, <1>7, <1>8, <1>9, ContentNext DEF ReadNext, Loop, Combining

LEMMA OperateInsideShows ==
    ASSUME MeshInv, MeshInv', NodeEffect, NEW t \in Thread, ContentOK(t), OperateInside(t),
           UNCHANGED documentVars
    PROVE  ContentOK(t)'
<1>. DEFINE out == call[t].outside
            n == Len(out)
            new == SubSeq(out, 1, n - 1)
<1>1. step[t] = "operate" /\ CallAllocated(t) /\ Doomed(t) = {} /\ lock = t /\ out # <<>>
    BY DEF OperateInside, At, MeshInv, TasksOK, CombineOK, Handled
<1>2. PICK k \in 1 .. MaxNested :
          /\ MakeMin(t, InnerSlot(k), call[t].lhs, call[t].rhs)
          /\ call' = [call EXCEPT ![t] =
                Operation(Last(@.outside), handle'[t][InnerSlot(k)], Front(@.outside))]
    BY DEF OperateInside
<1>3. InnerSlot(k) \in Slot /\ call[t].lhs \in Allocated /\ call[t].rhs \in Allocated
    BY <1>1, SlotsOfATask DEF CallAllocated
<1>4. PICK c \in Addr : /\ handle' = Point(t, InnerSlot(k), c)
                        /\ Shows(node', c) = Shows(node, call[t].lhs) \cup Shows(node, call[t].rhs)
    BY <1>1, <1>2, <1>3, OperationShows
<1>5. \A d \in Allocated : Shows(node', d) = Shows(node, d)
    BY <1>1, <1>2, <1>3, OperationShows
<1>6. /\ handle'[t][InnerSlot(k)] = c /\ handle'[t][Temp("tree")] = handle[t][Temp("tree")]
      /\ \A i \in 1 .. Len(forest[t]) : handle'[t][RootSlot(i)] = handle[t][RootSlot(i)]
    BY <1>3, <1>4, Pointed, SlotsOfATask, SlotsDiffer, ForestFits DEF MeshInv
<1>7. UNCHANGED <<step, root, seen, forest>>
    BY DEF OperateInside, documentVars
<1>8. out \in Seq(Addr) /\ n \in Nat /\ n >= 1
    BY <1>1, EmptySeq, LenProperties DEF MeshInv, TaskTypeOK, CallType
<1>9. Len(new) = n - 1 /\ \A i \in 1 .. n - 1 : new[i] = out[i]
    <2>1. \A i \in 1 .. n - 1 : out[i] \in Addr
        BY <1>8, ElementOfSeq
    <2>2. /\ Len(new) = IF 1 <= n - 1 THEN n - 1 - 1 + 1 ELSE 0
          /\ \A i \in 1 .. n - 1 - 1 + 1 : new[i] = out[1 + i - 1]
        BY <1>8, <2>1, SubSeqProperties
    <2>. QED  BY <1>8, <2>2
<1>10. call'[t].lhs = out[n] /\ call'[t].rhs = c /\ call'[t].outside = new
    BY <1>2, <1>6 DEF Operation, Last, Front, MeshInv, TaskTypeOK
<1>11. \A i \in 1 .. n : out[i] \in Allocated
    BY <1>1 DEF CallAllocated
<1>. HIDE DEF new, n, out
<1>. DEFINE U == UNION {Shows(node, out[i]) : i \in 1 .. n}
            W == UNION {Shows(node', new[i]) : i \in 1 .. Len(new)}
<1>12. U = W \cup Shows(node, out[n])
    <2>1. {Shows(node, out[i]) : i \in 1 .. n}
            = {Shows(node', new[i]) : i \in 1 .. Len(new)} \cup {Shows(node, out[n])}
        BY <1>5, <1>8, <1>9, <1>11
    <2>. QED  BY <2>1, UnionOfOneMore
<1>13. Shows(node, call[t].lhs) \cup Shows(node, call[t].rhs) \cup U = Read(t, root[t])
    BY <1>1 DEF ContentOK, CallShows, out, n
<1>14. Shows(node', out[n]) = Shows(node, out[n])
    BY <1>5, <1>8, <1>11
<1>15. \A i : ReadNext(t, i) = Read(t, i)
    BY <1>7 DEF ReadNext, Read
<1>16. Shows(node', call'[t].lhs) \cup Shows(node', call'[t].rhs)
          \cup UNION {Shows(node', call'[t].outside[i]) : i \in 1 .. Len(call'[t].outside)}
          = ReadNext(t, root'[t])
    <2>1. UNION {Shows(node', call'[t].outside[i]) : i \in 1 .. Len(call'[t].outside)} = W
        BY <1>10
    <2>. HIDE DEF U, W
    <2>2. Shows(node', out[n]) \cup Shows(node', c) \cup W = Read(t, root[t])
        BY <1>4, <1>12, <1>13, <1>14
    <2>. QED  BY <1>7, <1>10, <1>15, <2>1, <2>2
<1>17. Shows(node', handle'[t][Temp("tree")]) = ReadNext(t, root'[t] - 1)
    <2>1. handle[t][Temp("tree")] # None
        BY <1>1 DEF MeshInv, TasksOK, CombineOK, Loop, Is
    <2>2. Shows(node', handle'[t][Temp("tree")]) = Shows(node, handle[t][Temp("tree")])
        BY <1>6, <2>1, SlotsOfATask, TreeKeepsContent
    <2>. QED  BY <1>1, <1>7, <1>15, <2>2 DEF ContentOK, Is, Combining
<1>18. \A i \in 1 .. Len(forest'[t]) : Shows(node', handle'[t][RootSlot(i)]) = {seen'[t][i]}
    BY <1>1, <1>6, <1>7, LoopKeepsContent DEF Loop
<1>. QED  BY <1>1, <1>7, <1>16, <1>17, <1>18, ContentNext DEF ReadNext, Loop, Combining

LEMMA DropInnerShows ==
    ASSUME MeshInv, MeshInv', NodeEffect, NEW t \in Thread, ContentOK(t), DropInner(t),
           UNCHANGED documentVars
    PROVE  ContentOK(t)'
<1>1. step[t] = "dropInner" /\ UNCHANGED <<seen, forest>>
    BY DEF DropInner, At, documentVars
<1>2. \/ Advance(t) /\ UNCHANGED cacheVars
      \/ UNCHANGED <<step, root>> /\ \E k \in 1 .. MaxNested : Destroy(t, InnerSlot(k))
    BY DEF DropInner
<1>3. /\ handle'[t][Temp("tmp")] = handle[t][Temp("tmp")]
      /\ handle'[t][Temp("tree")] = handle[t][Temp("tree")]
      /\ \A i \in 1 .. Len(forest[t]) : handle'[t][RootSlot(i)] = handle[t][RootSlot(i)]
    <2>1. ASSUME NEW k \in 1 .. MaxNested, Destroy(t, InnerSlot(k))
          PROVE  /\ handle'[t][Temp("tmp")] = handle[t][Temp("tmp")]
                 /\ handle'[t][Temp("tree")] = handle[t][Temp("tree")]
                 /\ \A i \in 1 .. Len(forest[t]) : handle'[t][RootSlot(i)] = handle[t][RootSlot(i)]
        <3>1. handle' = Point(t, InnerSlot(k), None)
            BY <2>1 DEF Destroy
        <3>. QED  BY <3>1, Pointed, SlotsOfATask, SlotsDiffer, ForestFits DEF MeshInv
    <2>. QED  BY <1>2, <2>1 DEF cacheVars
<1>4. step'[t] \in {"dropInner", "unlock"} /\ root'[t] = root[t]
    BY <1>1, <1>2, AdvanceEffect DEF MeshInv, Goes
<1>5. handle[t][Temp("tree")] # None /\ handle[t][Temp("tmp")] # None
    BY <1>1 DEF MeshInv, TasksOK, CombineOK, Loop, Is
<1>6. \A n : ReadNext(t, n) = Read(t, n)
    BY <1>1 DEF ReadNext, Read
<1>7. /\ Shows(node', handle'[t][Temp("tree")]) = Shows(node, handle[t][Temp("tree")])
      /\ Shows(node', handle'[t][Temp("tmp")]) = Shows(node, handle[t][Temp("tmp")])
    BY <1>3, <1>5, SlotsOfATask, TreeKeepsContent
<1>8. /\ Shows(node', handle'[t][Temp("tree")]) = ReadNext(t, root'[t] - 1)
      /\ Shows(node', handle'[t][Temp("tmp")]) = ReadNext(t, root'[t])
    BY <1>1, <1>4, <1>6, <1>7 DEF ContentOK, Is, Combining
<1>9. \A i \in 1 .. Len(forest'[t]) : Shows(node', handle'[t][RootSlot(i)]) = {seen'[t][i]}
    BY <1>1, <1>3, LoopKeepsContent DEF Loop
<1>. QED  BY <1>4, <1>8, <1>9, ContentNext DEF ReadNext, Loop, Combining

LEMMA LastStepsShow ==
    ASSUME MeshInv, NEW t \in Thread, ContentOK(t), Render(t) \/ Clear(t) \/ Store(t),
           UNCHANGED documentVars
    PROVE  ContentOK(t)'
<1>. USE DEF MeshInv
<1>1. step[t] \in {"render", "clear", "store"} /\ UNCHANGED <<seen, forest>>
    BY DEF Render, Clear, Store, At, documentVars
<1>2. Advance(t) \/ (UNCHANGED <<step, root>> /\ step[t] = "clear")
    BY DEF Render, Clear, Store, At
<1>3. step'[t] \in {"clear", "store", "done"}
    BY <1>1, <1>2, AdvanceEffect DEF Goes
<1>4. CASE Render(t)
    <2>1. step[t] = "render" /\ rendered' = [rendered EXCEPT ![t] = Shows(node, Is(t, "tree"))]
        BY <1>4 DEF Render, At
    <2>2. /\ Shows(node, Is(t, "tree")) = Read(t, root[t])
          /\ root[t] = Len(forest[t]) /\ Len(seen[t]) = Len(forest[t])
        BY <2>1 DEF ContentOK, TasksOK, ReadingOK
    <2>3. Range(seen[t]) = Read(t, root[t])
        <3>1. seen[t] \in Seq(Attr) /\ DOMAIN seen[t] = 1 .. Len(seen[t])
            BY LenProperties DEF TaskTypeOK
        <3>. QED  BY <2>2, <3>1 DEF Range, Read
    <2>4. rendered'[t] = Range(seen'[t])
        BY <1>1, <2>1, <2>2, <2>3 DEF TaskTypeOK
    <2>. QED  BY <1>3, <2>4, ContentNext DEF Loop, Combining
<1>5. CASE Clear(t) \/ Store(t)
    <2>1. UNCHANGED rendered /\ step[t] \in {"clear", "store"}
        BY <1>5 DEF Clear, Store, At
    <2>2. forest'[t] # <<>> => rendered'[t] = Range(seen'[t])
        BY <1>1, <2>1 DEF ContentOK
    <2>. QED  BY <1>3, <2>2, ContentNext DEF Loop, Combining
<1>. QED  BY <1>4, <1>5

LEMMA DestructorsShow ==
    ASSUME MeshInv, MeshInv', NodeEffect, NEW t \in Thread, ContentOK(t), Destructors(t),
           UNCHANGED documentVars
    PROVE  ContentOK(t)'
<1>1. UNCHANGED <<handle, step, root, seen, call, rendered, forest>>
    BY DEF Destructors, Del, Release, Unlock, documentVars
<1>2. Doomed(t) # {} \/ step[t] \notin Handled
    BY DEF Destructors, Del, Release, Doomed
<1>3. step[t] # "operate"
    BY <1>2 DEF MeshInv, TasksOK, CombineOK, Handled
<1>. QED  BY <1>1, <1>3, ContentStays

LEMMA TaskShows ==
    ASSUME MeshInv, MeshInv', NEW t \in Thread, ContentOK(t), Task(t)
    PROVE  ContentOK(t)'
<1>1. NodeEffect /\ UNCHANGED documentVars
    BY TaskNodes, TaskKeptByAll DEF MeshInv
<1>2. CASE Work(t)
    <2>1. step[t] \in {"leaf", "lock"}
            \cup {"tree", "acc", "unlock", "assign", "dropResult", "dropAcc"}
        BY <1>2 DEF Work, TreeStep, At
    <2>. QED  BY <1>1, <1>2, <2>1, LeafShows, LockShows, LoopShows
<1>. QED  BY <1>1, <1>2, ReadCoordShows, DestructorsShow, NestShows, OperateInsideShows,
             OperateShows, DropInnerShows, LastStepsShow DEF Task

LEMMA OthersShow ==
    ASSUME MeshInv, MeshInv', NEW t \in Thread, Task(t), NEW u \in Thread, u # t, ContentOK(u)
    PROVE  ContentOK(u)'
<1>1. /\ step'[u] = step[u] /\ root'[u] = root[u] /\ seen'[u] = seen[u] /\ call'[u] = call[u]
      /\ rendered'[u] = rendered[u] /\ forest' = forest /\ NodeEffect
    BY TaskNodes, TaskKeptByAll DEF MeshInv, TaskKept, OnlyMoves, documentVars
<1>2. /\ handle'[u] = handle[u]
      /\ lock = u /\ Doomed(u) = {} => UNCHANGED node
    BY TaskIsCareful, OthersKeep DEF MeshInv
<1>3. step[u] = "operate" => UNCHANGED node
    BY <1>2 DEF MeshInv, TasksOK, CombineOK, Handled
<1>. QED  BY <1>1, <1>2, <1>3, ContentStays

(* The document leaves the tasks alone, and starts new ones. *)
LEMMA DocumentShows ==
    ASSUME MeshInv, MeshInv', Call \/ Close \/ DestroyMember \/ Stopped \/ UNCHANGED vars,
           NEW t \in Thread, ContentOK(t)
    PROVE  ContentOK(t)'
<1>. USE DEF MeshInv
<1>1. UNCHANGED <<node, handle, seen, call, rendered>> /\ NodeEffect
    BY DEF Call, Close, DestroyMember, Stopped, vars, cacheVars, taskVars, NodeEffect
<1>2. CASE UNCHANGED <<step, root, forest>>
    BY <1>1, <1>2, ContentStays
<1>3. ASSUME NEW g, Starts(g) PROVE ContentOK(t)'
    <2>. DEFINE new == started + 1
    <2>1. /\ new \in Thread /\ new > started
          /\ forest' = [forest EXCEPT ![new] = g]
          /\ IF g = <<>> THEN GoTo(new, "store", 0) ELSE GoTo(new, "coord", 1)
        BY <1>3, CountsAreNaturals, ThreadAssumption DEF Starts, RegenMesh, DocumentTypeOK
    <2>. HIDE DEF new
    <2>2. CASE t # new
        <3>1. step'[t] = step[t] /\ root'[t] = root[t] /\ forest'[t] = forest[t]
            BY <2>1, <2>2 DEF GoTo, TaskTypeOK, DocumentTypeOK
        <3>. HIDE DEF MeshInv
        <3>. QED  BY <1>1, <3>1, ContentStays
    <2>3. CASE t = new /\ g = <<>>
        <3>1. step'[t] = "store" /\ forest'[t] = <<>>
            BY <2>1, <2>3 DEF GoTo, TaskTypeOK, DocumentTypeOK
        <3>. QED  BY <3>1, ContentNext DEF Loop, Combining
    <2>4. CASE t = new /\ g # <<>>
        <3>1. step'[t] = "coord" /\ root'[t] = 1
            BY <2>1, <2>4 DEF GoTo, TaskTypeOK
        <3>. QED  BY <3>1, ContentNext DEF Loop, Combining
    <2>. QED  BY <2>2, <2>3, <2>4
<1>4. UNCHANGED <<step, root, forest>> \/ \E g : Starts(g)
    <2>1. CASE Call
        BY <2>1, CallEffect DEF AssignsCoord
    <2>2. CASE ~Call
        BY <2>2 DEF Close, DestroyMember, Stopped, vars, taskVars, documentVars
    <2>. QED  BY <2>1, <2>2
<1>. QED  BY <1>2, <1>3, <1>4

LEMMA ContentStep == ContentInv /\ [Next]_vars => ContentInv'
<1>. SUFFICES ASSUME ContentInv, [Next]_vars PROVE ContentInv'
    OBVIOUS
<1>1. MeshInv /\ MeshInv'
    BY MeshStep DEF ContentInv
<1>2. ASSUME NEW u \in Thread PROVE ContentOK(u)'
    <2>1. ContentOK(u)
        BY DEF ContentInv
    <2>2. ASSUME NEW t \in Thread, Task(t) PROVE ContentOK(u)'
        BY <1>1, <2>1, <2>2, TaskShows, OthersShow
    <2>. QED  BY <1>1, <2>1, <2>2, DocumentShows DEF Next
<1>. QED  BY <1>1, <1>2 DEF ContentInv

LEMMA ContentInitial == Init => ContentInv
<1>. SUFFICES ASSUME Init PROVE ContentInv
    OBVIOUS
<1>1. \A t \in Thread : step[t] = "done" /\ forest[t] = <<>>
    BY DEF Init
<1>. QED  BY <1>1, MeshInitial DEF ContentInv, ContentOK, Loop, Combining

(* Identities, sharing and rebalancing lose no sphere and add none, whoever *)
(* else works on the cache meanwhile (cache.cpp, operation).                *)
THEOREM MeshesShowWhatWasRead == Spec => []MeshShowsWhatWasRead
<1>1. ContentInv => MeshShowsWhatWasRead
    <2>1. ContentInv => \A t \in 1 .. started : t \in Thread
        BY CountsAreNaturals, ThreadAssumption DEF ContentInv, MeshInv, DocumentTypeOK
    <2>. QED  BY <2>1 DEF ContentInv, ContentOK, MeshShowsWhatWasRead
<1>. QED  BY <1>1, ContentInitial, ContentStep, PTL DEF Spec

-----------------------------------------------------------------------------
(* The last task *)

LEMMA LastIsAThread ==
    ASSUME MeshInv
    PROVE  /\ started \in Nat
           /\ started >= 1 => started \in Thread
           /\ stored \in Seq(1 .. started) /\ Len(stored) \in Nat
           /\ stored # <<>> => Len(stored) >= 1 /\ stored[Len(stored)] \in 1 .. started
<1>1. started \in Nat /\ (started >= 1 => started \in Thread)
    BY CountsAreNaturals, ThreadAssumption DEF MeshInv, DocumentTypeOK
<1>2. stored \in Seq(1 .. started) /\ Len(stored) \in Nat
    BY LenProperties DEF MeshInv, TaskTypeOK
<1>3. stored # <<>> => Len(stored) >= 1
    BY <1>2, EmptySeq
<1>. QED  BY <1>1, <1>2, <1>3, ElementOfSeq

(* A new task has read nothing and stored nothing. *)
LEMMA StartKeepsLast ==
    ASSUME MeshInv, NEW g, Starts(g), UNCHANGED <<seen, rendered, mesh, stored>>
    PROVE  LastOK'
<1>. USE DEF MeshInv
<1>1. /\ started \in Nat /\ started' = started + 1 /\ started' \in Thread
      /\ forest' = [forest EXCEPT ![started'] = g]
    BY CountsAreNaturals, ThreadAssumption DEF Starts, RegenMesh, DocumentTypeOK
<1>2. forest'[started'] = graph'
    BY <1>1 DEF Starts, DocumentTypeOK
<1>3. ReadUpToDate'
    <2>1. started' > started
        BY <1>1
    <2>2. seen[started'] = <<>>
        BY <1>1, <2>1 DEF NotStarted
    <2>. QED  BY <2>2, EmptySeq DEF ReadUpToDate
<1>4. StoredLast'
    <2>1. stored # <<>> => stored[Len(stored)] \in 1 .. started
        BY LastIsAThread
    <2>2. started' \notin 1 .. started
        BY <1>1
    <2>. QED  BY <2>1, <2>2 DEF StoredLast
<1>. QED  BY <1>2, <1>3, <1>4 DEF LastOK

LEMMA DocumentKeepsLast ==
    ASSUME MeshInv, LastOK, Call \/ Close \/ DestroyMember \/ Stopped \/ UNCHANGED vars
    PROVE  LastOK'
<1>1. UNCHANGED <<seen, rendered, mesh, stored>>
    BY DEF Call, Close, DestroyMember, Stopped, vars, taskVars
<1>2. ASSUME NEW g, Starts(g) PROVE LastOK'
    BY <1>1, <1>2, StartKeepsLast
<1>3. CASE Call /\ AssignsCoord
    <2>1. writing' # None
        BY <1>3, AttrAssumption DEF AssignsCoord
    <2>2. UNCHANGED <<graph, started, forest, step>>
        BY <1>3 DEF AssignsCoord
    <2>. QED  BY <1>1, <2>1, <2>2 DEF LastOK, ReadUpToDate, StoredLast
<1>4. CASE ~Call
    <2>1. UNCHANGED <<graph, attr, writing, started, forest, step>>
        BY <1>4 DEF Close, DestroyMember, Stopped, vars, documentVars, taskVars
    <2>. QED  BY <1>1, <2>1 DEF LastOK, ReadUpToDate, StoredLast
<1>. QED  BY <1>2, <1>3, <1>4, CallEffect

(* What a task reads while no update is under way is up to date. *)
LEMMA TaskReads ==
    ASSUME MeshInv, NEW t \in Thread, Task(t), started >= 1, writing = None, ReadUpToDate
    PROVE  \A i \in 1 .. Len(seen'[started]) : seen'[started][i] = attr[forest[started][i]]
<1>. USE DEF MeshInv
<1>1. started \in Thread
    BY LastIsAThread
<1>2. \A i \in 1 .. Len(seen[started]) : seen[started][i] = attr[forest[started][i]]
    BY DEF ReadUpToDate
<1>3. CASE seen'[started] = seen[started]
    BY <1>2, <1>3
<1>4. CASE started = t /\ ReadCoord(t)
    <2>1. step[t] = "coord"
        BY <1>4 DEF ReadCoord, At
    <2>2. seen[t] \in Seq(Attr) /\ Len(seen[t]) = root[t] - 1 /\ root[t] \in Nat
        BY <2>1 DEF TaskTypeOK, TasksOK, ReadingOK
    <2>3. seen'[t] = Append(seen[t], attr[forest[t][root[t]]])
        BY <1>4 DEF ReadCoord, TaskTypeOK
    <2>4. /\ Len(seen'[t]) = root[t] /\ seen'[t][root[t]] = attr[forest[t][root[t]]]
          /\ \A i \in 1 .. root[t] - 1 : seen'[t][i] = seen[t][i]
        BY <2>1, <2>2, <2>3, ReadsAttributes, AppendProperties
    <2>5. ASSUME NEW i \in 1 .. root[t] PROVE seen'[t][i] = attr[forest[t][i]]
        BY <1>2, <1>4, <2>2, <2>4
    <2>. QED  BY <1>4, <2>4, <2>5
<1>5. CASE started = t /\ Work(t) /\ step[t] = "leaf"
    <2>1. seen[t] \in Seq(Attr) /\ Len(seen[t]) = root[t] /\ root[t] \in 1 .. Len(forest[t])
          /\ root[t] \in Nat
        BY <1>5 DEF TaskTypeOK, TasksOK, ReadingOK
    <2>2. seen'[t] = [seen[t] EXCEPT ![root[t]] = ReadRadius(t)]
        BY <1>5 DEF Work, TaskTypeOK
    <2>3. seen[t][root[t]] = attr[forest[t][root[t]]] /\ attr[forest[t][root[t]]] \in Attr
        BY <1>2, <1>5, <2>1, ReadsAttributes
    <2>4. ReadRadius(t) = attr[forest[t][root[t]]]
        BY <2>3 DEF ReadRadius, Attr
    <2>5. seen'[t] = seen[t]
        BY <2>1, <2>2, <2>3, <2>4, LenProperties
    <2>. QED  BY <1>2, <1>5, <2>5
<1>6. \/ seen'[started] = seen[started]
      \/ started = t /\ (ReadCoord(t) \/ (Work(t) /\ step[t] = "leaf"))
    BY <1>1 DEF Task, ReadCoord, Work, Destructors, Nest, OperateInside, Operate, DropInner,
                Render, Clear, Store, TaskTypeOK
<1>. QED  BY <1>3, <1>4, <1>5, <1>6

(* The last task to assign the mesh has done so with what it has made. *)
LEMMA TaskStores ==
    ASSUME MeshInv, CarefulInv', NEW t \in Thread, Task(t), StoredLast
    PROVE  StoredLast'
<1>. USE DEF MeshInv

<1>1. UNCHANGED documentVars
    BY DEF Task
<1>2. CASE Store(t)
    <2>1. t \in 1 .. started /\ step[t] = "store" /\ Advance(t)
        BY <1>2 DEF Store, At, Active
    <2>2. step'[t] = "done"
        BY <2>1, AdvanceEffect DEF Goes
    <2>3. Len(stored') >= 1 /\ stored'[Len(stored')] = t
        BY <1>2, <2>1, LastIsAThread, AppendProperties DEF Store
    <2>4. /\ mesh' = IF forest'[t] = <<>> THEN None ELSE rendered'[t]
          /\ UNCHANGED started
        BY <1>1, <1>2 DEF Store, documentVars
    <2>. QED  BY <2>2, <2>3, <2>4 DEF StoredLast
<1>3. CASE ~Store(t)
    <2>1. UNCHANGED <<stored, mesh, forest, started>>
        BY <1>1, <1>3 DEF Task, ReadCoord, Work, Destructors, Nest, OperateInside, Operate,
                          DropInner, Render, Clear, documentVars
    <2>2. ASSUME stored # <<>>, stored[Len(stored)] = started
          PROVE  step'[started] = step[started] /\ rendered'[started] = rendered[started]
        <3>1. started \in Thread /\ step[started] = "done"
            BY <2>2, LastIsAThread DEF StoredLast
        <3>2. CASE t = started
            <4>1. t \notin Active
                BY <3>1, <3>2 DEF Active
            <4>2. UNCHANGED <<step, rendered>>
                BY <4>1 DEF Task, ReadCoord, Work, TreeStep, Destructors, Nest, OperateInside,
                            Operate, DropInner, Render, Clear, Store, At
            <4>. QED  BY <4>2
        <3>3. CASE t # started
            BY <3>1, <3>3, TaskKeptByAll DEF TaskKept, OnlyMoves
        <3>. QED  BY <3>2, <3>3
    <2>. QED  BY <2>1, <2>2 DEF StoredLast
<1>. QED  BY <1>2, <1>3

LEMMA LastStep == CurrentInv /\ [Next]_vars => CurrentInv'
<1>. SUFFICES ASSUME CurrentInv, [Next]_vars PROVE CurrentInv'
    OBVIOUS
<1>1. ContentInv' /\ MeshInv /\ MeshInv' /\ LastOK
    BY ContentStep DEF CurrentInv, ContentInv
<1>2. ASSUME NEW t \in Thread, Task(t) PROVE LastOK'
    <2>1. UNCHANGED documentVars
        BY <1>2 DEF Task
    <2>2. ReadUpToDate'
        BY <1>1, <1>2, <2>1, TaskReads DEF LastOK, ReadUpToDate, documentVars
    <2>3. StoredLast'
        BY <1>1, <1>2, TaskStores DEF LastOK, MeshInv
    <2>. QED  BY <1>1, <2>1, <2>2, <2>3 DEF LastOK, documentVars
<1>3. LastOK'
    BY <1>1, <1>2, DocumentKeepsLast DEF Next
<1>. QED  BY <1>1, <1>3 DEF CurrentInv

LEMMA LastInitial == Init => CurrentInv
BY ContentInitial, EmptySeq DEF Init, CurrentInv, LastOK, ReadUpToDate, StoredLast

(* When no task is left, the mesh shows the node objects of the graph as    *)
(* they are in memory, provided that the task started last was the last to  *)
(* assign the mesh: nothing in regenMesh makes it so.  An update changes    *)
(* the first of these objects, whatever node it was asked of, while tasks   *)
(* that were started before still read it; the task it starts reads it      *)
(* complete.                                                                *)
THEOREM LastTaskShowsTheNodes == Spec => []MeshCurrentUnlessOvertaken
<1>1. CurrentInv => MeshCurrentUnlessOvertaken
    <2>. SUFFICES ASSUME CurrentInv, Active = {}, writing = None, stored # <<>>,
                         Last(stored) = started
                  PROVE  mesh = IF graph = <<>> THEN None ELSE {attr[s] : s \in Range(graph)}
        BY DEF MeshCurrentUnlessOvertaken
    <2>. USE DEF CurrentInv, ContentInv, MeshInv
    <2>1. started \in Nat /\ started >= 1 /\ started \in Thread /\ stored[Len(stored)] = started
        BY LastIsAThread DEF Last
    <2>2. /\ step[started] = "done" /\ forest[started] = graph
          /\ mesh = IF graph = <<>> THEN None ELSE rendered[started]
        BY <2>1 DEF LastOK, StoredLast
    <2>3. graph # <<>> => rendered[started] = Range(seen[started])
        BY <2>1, <2>2 DEF ContentOK
    <2>4. /\ \A i \in 1 .. Len(seen[started]) : seen[started][i] = attr[graph[i]]
          /\ Len(seen[started]) = Len(graph)
        BY <2>1, <2>2 DEF LastOK, ReadUpToDate, TasksOK, ReadingOK
    <2>5. DOMAIN seen[started] = 1 .. Len(graph) /\ DOMAIN graph = 1 .. Len(graph)
        BY <2>1, <2>4, LenProperties DEF TaskTypeOK, DocumentTypeOK
    <2>6. Range(seen[started]) = {attr[s] : s \in Range(graph)}
        BY <2>4, <2>5 DEF Range
    <2>. QED  BY <2>2, <2>3, <2>6
<1>. QED  BY <1>1, LastInitial, LastStep, PTL DEF Spec
=============================================================================
