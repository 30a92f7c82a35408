------------------------------ MODULE MeshTasks ------------------------------
(***************************************************************************)
(* The background tasks of an open document (DocumentImpl::regenMesh) and  *)
(* what they run: MeshFactory::fromTree, on the expressions of TreeCache.  *)
(*                                                                         *)
(* Every change of the document captures the forest of its graph and       *)
(* starts a task with std::async.  The task reads the attributes of the    *)
(* nodes, which it shares with the document, builds one expression for the *)
(* forest, renders it and assigns the mesh of the document.  Nothing       *)
(* orders the tasks, and the document keeps every future: destroying it    *)
(* waits for all of them.                                                  *)
(*                                                                         *)
(* The nodes of the graph are spheres without edges, so the forest is the  *)
(* nodes in the order of the graph (roots() sorts them by address), and    *)
(* the expression of a sphere is one node of the cache.  The database and  *)
(* network work of a call is in ViewModel, the rendering in Render.        *)
(***************************************************************************)
EXTENDS TreeCache, Naturals, SequencesExt

CONSTANTS
    Sphere,
    Coord, Radius,
    MinOp,          \* the operation min, in Op
    Rank,           \* Rank[c]: the rank of the expression of a sphere at c
    Updates,        \* what the user may ask for, <<sphere, attributes>>
    InitialAttr,    \* the attributes the document may be opened with
    InitialForest,  \* the spheres it is opened with, a sequence
    MaxNested       \* bound on the operations inside of one operation

Attr == [coord : Coord, radius : Radius]

Calls == Cardinality(Thread)    \* Thread is 1 .. the bound on calls

ASSUME ThreadAssumption == IsFiniteSet(Thread) /\ Thread = 1 .. Calls

ASSUME AttrAssumption ==
    /\ IsFiniteSet(Sphere)
    /\ InitialAttr \subseteq [Sphere -> Attr]
    /\ InitialForest \in Seq(Sphere) /\ IsInjective(InitialForest)
    /\ Updates \subseteq Sphere \X Attr
    /\ MinOp \notin Attr /\ Atom = Attr /\ Op = {MinOp}
    /\ Rank \in [Coord -> Nat]
    /\ MaxNested \in Nat
    /\ None \notin [sphere : Sphere, radius : Radius]

VARIABLES
    graph,      \* nodes_ of the graph, in order
    attr,       \* attr[s]: the attributes of the node object of s
    writing,    \* an update that has assigned coord and not yet radius
    members,    \* the members of the document that are not destroyed
    closing,    \* the destructor of the document runs
    started,    \* the number of tasks started
    forest,     \* forest[t]: what task t has captured
    step,       \* step[t]: what task t does next
    root,       \* root[t]: the root it is at
    seen,       \* seen[t]: the attributes read, one per root
    call,       \* call[t]: where t is in Cache::operation
    rank,       \* rank[a]: the rank of the node at a
    rendered,   \* rendered[t]: the spheres of the mesh it has made
    mesh,       \* mesh_: the spheres it shows, or None, the null pointer
    stored,     \* the tasks that have assigned mesh_, in order
    corrupt     \* two tasks have assigned it at once

documentVars == <<graph, attr, writing, members, closing, started, forest>>
taskVars == <<step, root, seen, call, rank, rendered, mesh, stored, corrupt>>
vars == <<cacheVars, documentVars, taskVars>>

-----------------------------------------------------------------------------
(* The trees a task has: the vector of roots, the result of aggregateOf,    *)
(* the first argument and the result of one call of combine (the second is  *)
(* in the vector all the while), and the results of the operations inside   *)
(* of an operation.                                                         *)
RootSlot(i) == <<"root", i>>
InnerSlot(k) == <<"inner", k>>
Temp(name) == <<name, 0>>
MeshSlots ==
    {RootSlot(i) : i \in 1 .. Cardinality(Sphere)}
        \cup {InnerSlot(k) : k \in 1 .. MaxNested}
        \cup {Temp(n) : n \in {"tree", "acc", "tmp"}}

ASSUME SlotAssumption == Slot = MeshSlots

(* Mutant: parameters are destroyed when the call returns. *)
CalleeDestroys(s) ==
    CASE s = "acc" -> "lock" [] s = "lock" -> "operate" [] s = "operate" -> "dropInner"
      [] s = "dropInner" -> "unlock" [] s = "unlock" -> "dropAcc"
      [] s = "dropAcc" -> "assign" [] s = "assign" -> "dropResult"
      [] s = "dropResult" -> "next"

(* tree = combine(tree, trees.at(i)): what comes next.  Parameters and the  *)
(* result of a call live to the end of the full expression (Itanium C++     *)
(* ABI), so the assignment comes before their destructors.                  *)
CombineSteps(s) ==
    CASE s = "acc" -> "lock" [] s = "lock" -> "operate" [] s = "operate" -> "dropInner"
      [] s = "dropInner" -> "unlock" [] s = "unlock" -> "assign"
      [] s = "assign" -> "dropResult" [] s = "dropResult" -> "dropAcc"
      [] s = "dropAcc" -> "next"

(* The task as a whole; "next" is the next root, if there is one. *)
StepAfter(s) ==
    CASE s = "coord" -> "leaf" [] s \in {"leaf", "tree"} -> "next"
      [] s = "render" -> "clear" [] s = "clear" -> "store" [] s = "store" -> "done"
      [] OTHER -> CombineSteps(s)

GoTo(t, s, i) ==
    /\ step' = [step EXCEPT ![t] = s]
    /\ root' = [root EXCEPT ![t] = i]

-----------------------------------------------------------------------------
(* The document *)

Idle == ~corrupt /\ ~broken /\ ~closing /\ writing = None /\ started < Calls

(* std::async: the forest is evaluated by the caller, the rest by the task; *)
(* a forest without a tree gives no mesh.                                   *)
RegenMesh(g) ==
    /\ started' = started + 1
    /\ forest' = [forest EXCEPT ![started'] = g]
    /\ IF g = <<>> THEN GoTo(started', "store", 0) ELSE GoTo(started', "coord", 1)

CreateNode(s) ==
    /\ Idle
    /\ s \notin Range(graph)
    /\ graph' = Append(graph, s)
    /\ RegenMesh(graph')
    /\ UNCHANGED <<attr, writing, members, closing>>

RemoveNode(s) ==
    /\ Idle
    /\ s \in Range(graph)
    /\ \E i \in DOMAIN graph : graph[i] = s /\ graph' = RemoveAt(graph, i)
    /\ RegenMesh(graph')
    /\ UNCHANGED <<attr, writing, members, closing>>

(* Graph::access looks for the node asked for and hands the first node of   *)
(* the graph to the action (Graph.cpp:111).  The action of update assigns   *)
(* the attributes of that shared node one after the other.                  *)
Accessed(s) == IF s \in Range(graph) THEN {Head(graph)} ELSE {}

UpdateCoord(s, new) ==
    /\ Idle
    /\ \E first \in Accessed(s) :
          /\ attr' = [attr EXCEPT ![first].coord = new.coord]
          /\ writing' = [sphere |-> first, radius |-> new.radius]
    /\ UNCHANGED <<graph, members, closing, started, forest, step, root>>

(* Mutant of UpdateRadius: without regenMesh. *)
UpdateQuietly ==
    /\ ~corrupt /\ ~broken
    /\ writing # None
    /\ attr' = [attr EXCEPT ![writing.sphere].radius = writing.radius]
    /\ writing' = None
    /\ UNCHANGED <<graph, members, closing, started, forest, step, root>>

UpdateRadius ==
    /\ ~corrupt /\ ~broken
    /\ writing # None
    /\ attr' = [attr EXCEPT ![writing.sphere].radius = writing.radius]
    /\ writing' = None
    /\ RegenMesh(graph)
    /\ UNCHANGED <<graph, members, closing>>

Call ==
    /\ \/ \E s \in Sphere : CreateNode(s) \/ RemoveNode(s)
       \/ \E u \in Updates : UpdateCoord(u[1], u[2])
       \/ UpdateRadius
    /\ UNCHANGED <<cacheVars, seen, call, rank, rendered, mesh, stored, corrupt>>

Active == {t \in 1 .. started : step[t] # "done"}

Close ==
    /\ ~corrupt /\ ~broken /\ ~closing /\ writing = None
    /\ closing' = TRUE
    /\ UNCHANGED <<cacheVars, graph, attr, writing, members, started, forest, taskVars>>

(* Mutant: as if cancellables were declared before mesh_. *)
MeshFirst == <<"factory", "mesh", "cancellables", "graph">>

(* Members are destroyed in the reverse order of their declaration, and a   *)
(* future of std::async waits for its task when it is destroyed.            *)
DestructionOrder == <<"cancellables", "factory", "mesh", "graph">>

DestroyMember ==
    /\ closing /\ members # {} /\ ~corrupt /\ ~broken
    /\ \E i \in DOMAIN DestructionOrder :
          /\ DestructionOrder[i] \in members
          /\ \A j \in 1 .. i - 1 : DestructionOrder[j] \notin members
          /\ DestructionOrder[i] = "cancellables" => Active = {}
          /\ members' = members \ {DestructionOrder[i]}
    /\ UNCHANGED <<cacheVars, graph, attr, writing, closing, started, forest, taskVars>>

-----------------------------------------------------------------------------
(* A task *)

At(t, s) == t \in Active /\ step[t] = s /\ ~Destroying(t) /\ ~corrupt

Is(t, name) == handle[t][Temp(name)]

Leaf(a) == [op |-> a, lhs |-> None, rhs |-> None]
MinOf(a, b) == [op |-> MinOp, lhs |-> a, rhs |-> b]

Larger(m, n) == IF m > n THEN m ELSE n

(* Cache::operation computes the rank of a node from those of its arguments. *)
RankOf(k) ==
    IF k.op # MinOp THEN Rank[k.op.coord] ELSE Larger(rank[k.lhs], rank[k.rhs]) + 1

Ranked ==
    rank' = [a \in Addr |-> IF node'[a] = None THEN 0
                            ELSE IF node[a] = None THEN RankOf(node'[a]) ELSE rank[a]]

(* Cache::operation for min: a node for the two, or the one they both are   *)
(* (checkIdentity).                                                        *)
MakeMin(t, s, a, b) ==
    IF a = b THEN Copy(t, s, a)
    ELSE Build(t, s, MinOf(a, b))

IsMin(a) == node[a].op = MinOp

Split(outer, a, b) == [outer |-> outer, lhs |-> a, rhs |-> b]

(* Mutant: the branch that stays outside also goes inside. *)
RebalancedTwice(a, b) ==
    IF IsMin(a) /\ rank[node[a].lhs] > rank[b]
    THEN {Split(node[a].lhs, node[a].lhs, b)}
    ELSE {}

(* Cache::checkCommutative: the argument to keep outside and the two that   *)
(* become the inner operation, if any.                                      *)
Rebalanced(a, b) ==
    IF IsMin(a)
    THEN IF rank[node[a].lhs] > rank[b] THEN {Split(node[a].lhs, node[a].rhs, b)}
         ELSE IF rank[node[a].rhs] > rank[b] THEN {Split(node[a].rhs, node[a].lhs, b)}
         ELSE {}
    ELSE IF IsMin(b)
    THEN IF rank[node[b].lhs] > rank[a] THEN {Split(node[b].lhs, node[b].rhs, a)}
         ELSE IF rank[node[b].rhs] > rank[a] THEN {Split(node[b].rhs, node[b].lhs, a)}
         ELSE {}
    ELSE {}

Elem(t) == handle[t][RootSlot(root[t])]

(* Where the mutex is held for more than one operation. *)
Handled == {"operate", "dropInner", "unlock"}

(* One step further: to the next root after the last step of a loop. *)
Advance(t) ==
    LET next == StepAfter(step[t]) IN
    IF next # "next" THEN GoTo(t, next, root[t])
    ELSE IF root[t] < Len(forest[t])
         THEN GoTo(t, IF step[t] = "leaf" THEN "coord" ELSE "acc", root[t] + 1)
         ELSE IF step[t] = "leaf" THEN GoTo(t, "tree", 1)
              ELSE GoTo(t, "render", root[t])

(* l5TreeFromTree reads the coordinates, and the radius at the end. *)
ReadCoord(t) ==
    /\ At(t, "coord") /\ ~broken
    /\ seen' = [seen EXCEPT ![t] = Append(@, attr[forest[t][root[t]]])]
    /\ Advance(t)
    /\ UNCHANGED <<cacheVars, call, rendered, mesh, stored, corrupt>>

ReadRadius(t) == [seen[t][root[t]] EXCEPT !.radius = attr[forest[t][root[t]]].radius]

(* The allocator takes the first free address. *)
FirstFit == \A a \in Allocated' \ Allocated : \A b \in Addr \ Allocated : a <= b

(* The operations on trees. *)
TreeStep(t) ==
    \/ At(t, "leaf") /\ Build(t, RootSlot(root[t]), Leaf(ReadRadius(t)))
    \/ At(t, "tree") /\ Copy(t, Temp("tree"), Elem(t))
    \/ At(t, "acc") /\ Copy(t, Temp("acc"), Is(t, "tree"))
    \/ At(t, "lock") /\ Acquire(t)
    \/ At(t, "unlock") /\ Unlock(t)
    \/ At(t, "assign") /\ Assign(t, Temp("tree"), Temp("tmp"))
    \/ At(t, "dropResult") /\ Destroy(t, Temp("tmp"))
    \/ At(t, "dropAcc") /\ Destroy(t, Temp("acc"))

Operation(a, b, outside) == [lhs |-> a, rhs |-> b, outside |-> outside]
NoOperation == Operation(None, None, <<>>)

Work(t) ==
    /\ lock = t => step[t] \in Handled
    /\ TreeStep(t)
    /\ FirstFit
    /\ seen' = IF step[t] = "leaf" THEN [seen EXCEPT ![t][root[t]] = ReadRadius(t)]
               ELSE seen
    /\ call' = IF step[t] = "lock"
               THEN [call EXCEPT ![t] = Operation(Is(t, "tree"), Elem(t), <<>>)]
               ELSE call
    /\ Advance(t)
    /\ UNCHANGED <<rendered, mesh, stored, corrupt>>

(* Cache::operation under the mutex.  An operation that is rebalanced waits *)
(* for the inner one, which is an operation of its own.                     *)
Nest(t) ==
    /\ At(t, "operate") /\ ~broken
    /\ call[t].lhs # call[t].rhs
    /\ \E split \in Rebalanced(call[t].lhs, call[t].rhs) :
          call' = [call EXCEPT ![t] =
                      Operation(split.lhs, split.rhs, Append(@.outside, split.outer))]
    /\ UNCHANGED <<cacheVars, step, root, seen, rendered, mesh, stored, corrupt>>

Simple(t) ==
    call[t].lhs = call[t].rhs \/ Rebalanced(call[t].lhs, call[t].rhs) = {}

(* The result of an inner operation is the argument of the one outside. *)
OperateInside(t) ==
    /\ At(t, "operate")
    /\ Simple(t) /\ call[t].outside # <<>>
    /\ \E k \in 1 .. MaxNested :
          /\ \A j \in 1 .. k - 1 : handle[t][InnerSlot(j)] # None
          /\ MakeMin(t, InnerSlot(k), call[t].lhs, call[t].rhs)
          /\ call' = [call EXCEPT ![t] =
                Operation(Last(@.outside), handle'[t][InnerSlot(k)], Front(@.outside))]
    /\ FirstFit
    /\ UNCHANGED <<step, root, seen, rendered, mesh, stored, corrupt>>

Operate(t) ==
    /\ At(t, "operate")
    /\ Simple(t) /\ call[t].outside = <<>>
    /\ MakeMin(t, Temp("tmp"), call[t].lhs, call[t].rhs)
    /\ call' = [call EXCEPT ![t] = NoOperation]
    /\ FirstFit
    /\ Advance(t)
    /\ UNCHANGED <<seen, rendered, mesh, stored, corrupt>>

(* The results of inner operations go while the mutex is held; nobody can   *)
(* tell when.                                                               *)
DropInner(t) ==
    /\ At(t, "dropInner") /\ ~broken
    /\ LET inner == {k \in 1 .. MaxNested : handle[t][InnerSlot(k)] # None} IN
       \/ inner = {} /\ Advance(t) /\ UNCHANGED cacheVars
       \/ \E k \in inner :
             /\ \A j \in inner : k <= j
             /\ Destroy(t, InnerSlot(k))
             /\ UNCHANGED <<step, root>>
    /\ UNCHANGED <<seen, call, rendered, mesh, stored, corrupt>>

(* The destructors of a node whose last reference t has dropped. *)
Destructors(t) ==
    /\ ~corrupt
    /\ \/ Del(t)
       \/ Release(t)
       \/ Unlock(t) /\ step[t] \notin Handled
    /\ UNCHANGED <<step, root, seen, call, rendered, mesh, stored, corrupt>>

(* The nodes of an expression: what every set that has its root and all     *)
(* arguments has.                                                           *)
Expression(mem, a) ==
    LET used == {b \in Addr : mem[b] # None}
        closed == {S \in SUBSET used :
                      a \in S /\ \A c \in S : Arguments(mem[c]) \subseteq S}
    IN  {b \in used : \A S \in closed : b \in S}

(* Mesh::render: what the expression shows. *)
Shows(mem, a) == {mem[b].op : b \in Expression(mem, a)} \ {MinOp}

(* Mutant: rendering never ends. *)
RenderForever(t) ==
    /\ At(t, "render") /\ ~broken
    /\ lock # t
    /\ rendered' = [rendered EXCEPT ![t] = Shows(node, Is(t, "tree"))]
    /\ UNCHANGED <<cacheVars, step, root, seen, call, mesh, stored, corrupt>>

Render(t) ==
    /\ At(t, "render") /\ ~broken
    /\ lock # t
    /\ rendered' = [rendered EXCEPT ![t] = Shows(node, Is(t, "tree"))]
    /\ Advance(t)
    /\ UNCHANGED <<cacheVars, seen, call, mesh, stored, corrupt>>

(* The locals of fromTree go: the shape, then the roots. *)
Clear(t) ==
    /\ At(t, "clear") /\ ~broken
    /\ lock # t
    /\ \/ HeldBy(t) = {} /\ Advance(t) /\ UNCHANGED cacheVars
       \/ Destroy(t, Temp("tree")) /\ UNCHANGED <<step, root>>
       \/ /\ Is(t, "tree") = None
          /\ \E i \in 1 .. Len(forest[t]) :
                /\ \A j \in 1 .. i - 1 : handle[t][RootSlot(j)] = None
                /\ Destroy(t, RootSlot(i))
          /\ UNCHANGED <<step, root>>
    /\ UNCHANGED <<seen, call, rendered, mesh, stored, corrupt>>

(* mesh_ = ...: a data race when another task assigns it too; both may free *)
(* the same old mesh.                                                       *)
Store(t) ==
    /\ At(t, "store") /\ ~broken
    /\ lock # t
    /\ mesh' = IF forest[t] = <<>> THEN None ELSE rendered[t]
    /\ stored' = Append(stored, t)
    /\ corrupt' \in IF \E u \in Active \ {t} : step[u] = "store" THEN BOOLEAN ELSE {FALSE}
    /\ Advance(t)
    /\ UNCHANGED <<cacheVars, seen, call, rendered>>

Task(t) ==
    /\ \/ ReadCoord(t) \/ Work(t) \/ Destructors(t)
       \/ Nest(t) \/ OperateInside(t) \/ Operate(t) \/ DropInner(t)
       \/ Render(t) \/ Clear(t) \/ Store(t)
    /\ Ranked
    /\ UNCHANGED documentVars

-----------------------------------------------------------------------------
Init ==
    /\ CacheInit
    /\ graph = InitialForest
    /\ attr \in InitialAttr
    /\ writing = None
    /\ members = Range(DestructionOrder)
    /\ closing = FALSE
    /\ started = 0
    /\ forest = [t \in Thread |-> <<>>]
    /\ step = [t \in Thread |-> "done"]
    /\ root = [t \in Thread |-> 0]
    /\ seen = [t \in Thread |-> <<>>]
    /\ call = [t \in Thread |-> NoOperation]
    /\ rank = [a \in Addr |-> 0]
    /\ rendered = [t \in Thread |-> {}]
    /\ mesh = None
    /\ stored = <<>>
    /\ corrupt = FALSE

(* The document is gone, or the program is. *)
Stopped == (members = {} \/ corrupt \/ broken) /\ UNCHANGED vars

Next == Call \/ Close \/ DestroyMember \/ (\E t \in Thread : Task(t)) \/ Stopped

(* Every thread that std::async starts is scheduled, and so is a destructor *)
(* that runs.                                                               *)
Fairness ==
    /\ \A t \in Thread : WF_vars(Task(t))
    /\ WF_vars(DestroyMember)

Spec == Init /\ [][Next]_vars /\ Fairness

-----------------------------------------------------------------------------
(* Properties *)

(* A task uses this, the factory and mesh_: none is destroyed before every  *)
(* task has ended (DocumentImpl.h, the order of the members).               *)
TasksFindTheirDocument ==
    Active # {} => {"factory", "mesh"} \subseteq members

(* regenMesh orders nothing: when no task is left and the last one to be    *)
(* started was also the last to assign the mesh, the mesh shows the node    *)
(* objects of the graph as they are in memory, an update that was written   *)
(* while an older task read them included.  (Overtaken by an older task, it *)
(* may not.)  Those objects are not what the user asked for once a node     *)
(* other than the first has been updated: access hands the first one to     *)
(* update (Graph.cpp:111; ViewModel, AttributesMatchTables).                *)
MeshCurrentUnlessOvertaken ==
    (/\ Active = {} /\ writing = None /\ ~corrupt
     /\ stored # <<>> /\ Last(stored) = started)
    => mesh = IF graph = <<>> THEN None ELSE {attr[s] : s \in Range(graph)}

(* Sharing of nodes, identities and rebalancing lose no sphere and add      *)
(* none: a rendered mesh shows what its task has read (cache.cpp).          *)
MeshShowsWhatWasRead ==
    \A t \in 1 .. started :
        step[t] \in {"clear", "store"} /\ forest[t] # <<>> => rendered[t] = Range(seen[t])

(* Nothing of an expression outlives the task that has made it. *)
NoLeak == Active = {} => Allocated = {} /\ cache = {} /\ lock = None

(* The tasks are a client of the cache that never assigns over the last     *)
(* reference of a tree, which would be dropped outside of the mutex.        *)
UsesCacheCarefully == CarefulSpec

(* Destroying a document ends: every task it waits for ends. *)
ClosingEnds == closing ~> (members = {} \/ corrupt)
=============================================================================
