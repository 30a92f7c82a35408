# A verification of structur3d_base

`structur3d_base` is the core of a collaborative editor of solids built from
spheres and set operations. Each replica keeps its documents in SQLite tables
that are written like CRDTs (rows with a timestamp and a tombstone flag), holds
the open document as a graph in memory, renders that graph to a mesh on
background threads, and exchanges messages with its peers. This directory holds
TLA+ models of the tables, the graph, the replicas, the mesh tasks and the parts
of the geometry kernel they run on, TLC runs on small instances, and theorems
checked by TLAPS.

## Inventory

| part | source | state | operations | what is hard | what makes it correct |
|---|---|---|---|---|---|
| Column store | `include/db/ColumnDB.h`, `column/Column.h`, `utils/crdt_utils.h`, `attribute_priority.cpp` | table `attribute` | `upsert`, `retract`, `latest`, `newer_than` | operations in any order, ties | a newest upsert stays visible, nothing needed is collected, replicas agree |
| Database | `src/db/DatabaseImpl.cpp` | six tables | `upsert`, `retract`, `create`, `remove`, `connect`, `disconnect`, `entities`, `edges`, `sphere`, `setop`, `documents` | garbage collection across entities, out-of-order operations | an edge is listed iff its newest operations include a connect |
| Scene graph | `src/data/Graph.cpp` | nodes, edges | `create`, `remove`, `connect`, `disconnect`, `access`, `roots`, `trees` | missing ends, cycles | every edge joins nodes of the graph, every node is in a tree |
| Document | `src/document/DocumentImpl.cpp` | graph, mesh, futures | the user's calls, `regenMesh`, destruction | asynchronous mesh tasks, calls that fail half way | graph and tables say the same, no task outlives the document |
| View model | `src/vm/ViewmodelImpl.cpp` | open document, list of documents | `open`, `createDocument`, three interactors | several transactions per call, messages for documents that are not open | replicas converge, a removal is final |
| Client, messages | `src/wire/ClientImpl.cpp`, `include/wire/Message.h` | none | `receive`, `process`; `send`, `sync`, `connect` are empty | order of delivery | a message has the effect the sender announced |
| Server | `src/wire/ServerController.cpp` | none | empty stubs | | |
| Mesh factory | `src/mesh/MeshFactory.cpp` | none of its own | `fromTree`, `aggregateOf`, `l5TreeFromTree` | runs on several threads over one cache of expressions | the mesh shows what the task has read |
| Expression cache | `src/five/tree/cache.cpp`, `tree.cpp` | nodes, entries, a mutex | build, copy, assign, destroy a `Tree` | destructors that race with lookups, addresses used again | equal expressions are one node, nothing dangles |
| Evaluation | `src/five/eval/*` | tapes, spares, arrays of results | push, evaluate, `getBase`, claim | tapes that are written again, results left from earlier | a shortened tape gives what the whole shape gives |
| Rendering | `src/five/render/brep/*` | tree of cells, stacks, counters, progress | `WorkerPool::build`, `Dual::walk`, cancel | lock-free hand-over between workers, cells given back | every cell is finished once, rendering ends |
| SQLite connector | `src/sqlpp11-connector-sqlite` | a connection | transactions, statements | | a transaction commits or has no effect |
| Values, serialization, utilities, generated tables | `src/data`, `src/base`, `include/utils`, `include/generated` | none | | ties and width of timestamps | |
| Third party | `thirdparty` (date, boost, websocketpp, Eigen, ...) | | | | |

A call of the user runs: interface -> `Document` -> document interactor ->
database interactor -> `Database`, then document interactor ->
`ClientEndpoint::send`; then `Document` changes its `Graph` and starts a mesh
task. A message runs: `ClientImpl::receive` -> network interactor -> database
interactor, then straight to the graph of the open document, except a removal,
which goes through the document again. A mesh task runs:
`MeshFactory::fromTree` -> the operators of `Tree` -> `Cache` -> `Mesh::render`
-> `WorkerPool::build` -> `Dual::walk`; the workers evaluate the cells with
tapes.

## Modules

| module | models | extends |
|---|---|---|
| `Rows` | live rows, newest rows | |
| `ColumnDB` | the column store | `Rows` |
| `AddWinsRegister` | what the column store promises, without tombstones | |
| `ColumnDBProofs` | theorems on `ColumnDB` | `ColumnDB`, `TLAPS` |
| `Selection` | some of the elements of a sequence, by their places | |
| `DatabaseTables` | statements and queries of `DatabaseImpl` as operators on tables | `Rows`, `Selection` |
| `EdgeTable` | the edge table under operations in any order | `DatabaseTables` |
| `EdgeTableProofs` | theorems on `EdgeTable` | `EdgeTable`, `TLAPS` |
| `Graph` | the scene graph as operators | `Selection` |
| `ViewModel` | replicas: tables, open document, graph, messages | `DatabaseTables`, `Graph` |
| `ViewModelProofs` | theorems on a replica on its own, and on the operators of `DatabaseTables` and `Graph` | `ViewModel`, `TLAPS` |
| `SessionProofs` | theorems on any number of replicas | `ViewModelProofs` |
| `TreeCache` | libfive's cache of expressions and its threads | |
| `TreeCacheProofs` | theorems on `TreeCache` | `TreeCache`, `TLAPS` |
| `MeshTasks` | the document's background tasks, over the cache | `TreeCache` |
| `MeshTasksProofs` | the tasks use the cache carefully and leave nothing; what the meshes show | `MeshTasks`, `TreeCacheProofs` |
| `WorkerPool` | the workers that build the tree of cells | |
| `Render` | `Mesh::render`: the build, then the walk | `WorkerPool` |
| `RenderProofs` | lemmas on paths, stacks, marks in a tree and sums over workers; theorems on `Render` | `Render`, `TLAPS` |
| `Tapes` | evaluation with shortened tapes | `Selection` |
| `TapesProofs` | theorems on `Tapes` | `Tapes`, `TLAPS` |
| `MCColumnDB`, `MCEdgeTable`, `MCViewModel`, `MCMeshTasks`, `MCRender`, `MCTapes` | instances for TLC | |

**ColumnDB.** `store` is the table, `applied` a history of every operation the
replica has applied. `Upsert` and `Retract` are the transactions of `Column`:
collect the garbage, insert the row. Things are model values with a rank each,
which is what `preferred` compares. Where SQLite may return rows in any order,
`latest` is the set of results over all orders. `AddWinsRegister` has no
tombstone: a register holds the writes nothing newer has replaced. The
refinement maps `live` to the live rows of the store.

**DatabaseTables, EdgeTable.** A table is a set of rows; the document table is
a sequence because `entities()` returns one element per row. Every statement is
kept as it is in the source, with what looks unintended: the garbage collection
of edges drops older tombstones of other edges, that of documents drops
tombstones of any age, that of radii is built and never run, and retracting a
coordinate writes a live row. `EdgeTable` puts `connectI` under operations in
any order (`Spec`) and in the order of their timestamps (`LocalSpec`).

**Graph.** Operators on a record of nodes and edges. Where the code
dereferences a pointer or calls `at()`, an operator `...Safe` says when it may.
`TreesTerminate` says that the recursion of `subTreeOf` comes back, `InTrees`
which nodes `trees()` reaches. Edges between the same nodes are one edge: every
operation of the code treats parallel edges alike. The graph is identified by
node ids; the code uses pointers in `roots()`, which differs only if a node is
in the graph twice, and no behaviour of the model puts one there.

**ViewModel.** One replica is `db`, `open`, `graph` and whether it has
`crashed`. A call is one step, since the code handles it on one thread, but its
database work is a sequence of transactions of which the first `k` commit
(`Outcome`): with `Failures` any `k` is possible, because a statement can fail
(a full disk, a lock, the `CHECK` on a radius) and the exception leaves the
call; the message and the graph are then skipped as in the code. What
dereferences a null pointer stops the replica (`crashed`). `inbox` is the
transport, which is external: `ClientImpl::send` and the server are stubs, so
the model posts what one replica sends to every other, and messages arrive in
the order they were sent (`Ordered`) or in any. `PeerDisconnect` is external
too: a peer that announces a disconnect with `Change::Retract`, as
`unit_client.cpp` does. `stage` is a history variable: how far the life of a
node has come. The node handed to `update()` is an object of its own, as in
`interaction_through_document.cpp`, so that the graph changes only through `access()`.

**TreeCache.** `node` is the memory: the key of the node at an address. A `Tree`
of a thread is a slot of `handle`; use counts are not kept but follow from who
refers to whom (`Held`). The entries of the cache are weak references: `Find`
sets `broken` where the code asserts that an entry has not expired. A destructor
is two steps, since other threads run in between: `Del` erases the entry, `Release`
lets go of the arguments and frees the memory. `~Tree` holds the mutex over
both; the assignment operator that the compiler writes for `Tree` does not, so
`Assign` may leave a node half destroyed outside of the mutex. `CacheSpec`
allows any client, `CarefulSpec` one that never assigns over a last reference.

**MeshTasks.** The composition of the document with the cache: a task is a
client thread of `TreeCache`, and each of its operations on a `Tree` is a step
of its own. Its parameters live to the end of the full expression
`tree = combine(...)`, as the Itanium C++ ABI has it. The forest is a sequence
of spheres, each of which is one node of the cache (the subexpressions of a
sphere are shared in the same way); `min` is rebalanced by rank as in
`checkCommutative`, each rebalanced operation waiting for the one inside of it
(`Nest`, at most `MaxNested` deep); the mutex is held over the whole, and the
results of inner operations are dropped before it is given up. Memory is given out first fit, so that freed addresses are
used again. `update()` assigns a coordinate and then a radius that tasks may be
reading, in two steps; a task reads them in two steps too. What it writes is the
first node of the graph, whatever node it was asked of (`Accessed`, the finding
`vm_update`): the run asks it of the third sphere. The graph is in the order of
the nodes; `roots()` orders them by address, which may be any order. Two
assignments of `mesh_` at once are a data race: the model chooses whether the
program is `corrupt` after it and claims nothing more if it is. `closing` is
the destructor of the document, which waits for every future before the members
declared earlier go. Where `fromTree` computes the field of a sphere it
subtracts `radius.magnitude()` as it is, not squared; what a radius means does
not matter to the model, which only asks that different attributes make
different expressions.

**WorkerPool, Render.** A cell is the path to it from the root. `slot` is what
the parent points to: nothing, the cell, or a shared singleton for an empty or a
filled one. `at` is the program counter of a worker, one step for each piece of
code between two accesses to shared state; the shared stack holds as many tasks
as there are workers, as in the code, and what does not fit stays local.
`IntervalOf` lets interval arithmetic fail to see that a cell is uniform but
never lets it call a cell uniform that is not: that is
`UniformCellsAreUniform` of `Tapes`. Whether children that are not uniform
collapse into one leaf is a choice. `allocated` and `size` are the object pools:
a worker may give back cells that another made, so a size may be negative.
`reusable` is what a pool may hand out again: a worker that replaces its cell by a
singleton gives it back and goes on reading its type, level and parent, and
`Reuse` takes from the worker's own pool only.
`Render` waits for the futures, resets the counters of the cells and starts the
walk, in which a branch is worked when the last of its leaves or branches has
been. Atomics are sequentially consistent in the model; the code uses relaxed
stores for children that are published to siblings.

**Tapes.** A tape is a list of clauses, the root, and the region it is good
for. `heap` is shared and a tape that is in use is never written; spares are.
`Results` evaluates a tape in numbers, in intervals, or in features (the value
and the leaves it comes from), and what no clause has written keeps a stale value.
Shapes are on a line and of integers, so arithmetic is exact: what the properties
say is about which clauses are left out, not about rounding. `Mesh::render`
gives every worker a deck of its own and evaluates one worker's tapes with
another's arrays, so that ids of clauses have to coincide; they do because
`Tree::ordered` depends on nothing but the expression, and the model has one
deck. NaN, oracles and derivatives are left out. `TapesAssumption` says what a
shape is: the ids of the clauses rise towards the leaves, as `Tree::ordered`
has them, and only the second argument of an operation that takes one may be the
placeholder with the id 0.

## Runs

| run | instance | shows |
|---|---|---|
| `column_orders` | two columns, two entities, up to three operations with three timestamps, every order | a newest upsert is visible; what is collected was replaced by a newer row; the newest that `newer_than` selects is the newest upsert, if it is news; replicas with the same operations agree; the store implements `AddWinsRegister` |
| `edges_anyorder` | three edges among three nodes, up to four operations with three timestamps | a newest connect always wins; a wrong edge needs a newer operation on another edge |
| `edges_resurrect` (violation) | two edges, any order | a disconnected edge comes back |
| `vm_local` | one replica, two documents, a chain of three nodes, seven calls, any transaction may fail | reopening shows what is on the screen, a node is shown exactly if its creation was complete and its removal had not begun, every node is in the mesh, no crash |
| `vm_session` | two replicas with the document open, three nodes, six calls counting the echoes, in order | a removal that arrived is final; a graph is what every replica would open, when nothing is on its way but removals that are spent; a connect finds its nodes as long as no node is removed |
| `vm_anyorder` | two spheres and an edge, two values, four calls, a peer that disconnects, any order | tables converge, unless a connect before its nodes has stopped a replica |
| `vm_update` (violation) | two spheres | an update changes the wrong node of the graph |
| `vm_disconnect` (violation) | two replicas | a disconnect reconnects the edge at the peer |
| `vm_echo` (violation) | two replicas | a removal that arrives is sent again |
| `mesh_tasks` | three spheres, two calls that each start a task, two places and two radii, ten addresses, closing at any time | no two nodes are one expression; no pointer dangles; no lookup finds an expired node; no task outlives what it uses; a mesh shows what its task read, and the node objects as they are in memory unless an older task came last; nothing leaks; the tasks are a careful client of the cache (`UsesCacheCarefully`, the specification of `TreeCache` as a property); closing ends |
| `render` | two workers, a tree of two levels with two children each, four shapes, cancelling at any time | a child is installed once; no cell is used by two workers; a cell that was given back is not handed out while its worker still reads it; the phases of the progress handler count up; the pools add up to the tree; work of branches is disjoint, complete and in order; rendering ends |
| `tapes` | two workers, 96 shapes of a ball and two half lines, a line of eight units, six addresses | shortened tapes are exact where they are used, whatever is written again; nothing stale is read; `getBase` finds a tape that is exact for a larger cell and at a vertex outside; a cell called uniform is |

Bounds. A violation of a table's property involves one operation, the newer one
that replaces it and the one that arrives late, on one entity and one other:
three operations, two entities and two or three timestamps reach every such
pattern, and the theorems remove the bound. In `ViewModel` the clock bounds the
calls (`MaxTime`); three nodes give siblings, chains and a node that is not
involved; two replicas give every race of a local and a remote operation.
The clock gives every call a time of its own: ties of timestamps, and operations
stamped earlier than what is in the table, are the subject of `ColumnDB` and
`EdgeTable`. `vm_anyorder` hands over nodes whose attributes all have one value,
which tells the calls apart, and treats the replicas as symmetric.

In `MeshTasks` the bound on calls is the number of threads: two tasks have
every race of two tasks and of a task with the next call, and the theorems on
`TreeCache` are for any number. Three spheres, of which the ranks differ, are
the fewest for which an operation is rebalanced; an update may make two of them
equal, so that identities and sharing happen. Ten addresses are enough for two
tasks and few enough for addresses to be used again. In `Render` two levels
give a branch below the root, which is where the last worker of a child and the
one that works the parent may differ; two workers fill the shared stack of two
with three tasks or more; the shapes are one that collapses to
the root, one with a half that becomes a singleton, and two whose halves stay
branches or collapse into leaves, with singletons beside them. In `Tapes` three levels of cells give tapes that
are shortened twice, and three `min` and `max` clauses with operands that are
shared or equal give chains of replacements. `tapes` treats the workers as
symmetric and does not check for deadlock, because the walk over the cells ends;
nor does `vm_session`, where a connect that meets a removal may stop both replicas.
Every other run checks it.

Fairness. `MeshTasks` assumes weak fairness of every task and of the destructor
of the document, `Render` of every worker and of the thread that waits for
them. The code justifies it: `std::async` with `std::launch::async` runs each
on a thread, which the system schedules; the mutex is held for a bounded number
of steps, and that none of them waits for another for ever is what `ClosingEnds`
and `RenderEnds` show. Nothing is assumed of the user (calls, closing,
cancelling) or of a worker that only spins. There is no fairness of messages:
"converges" means that whenever all that was done has arrived (`AllArrived`) the
replicas agree. After a removal that is not an empty inbox, since every replica
that takes a removal sends it again (`vm_echo`): what is left on its way must be
`Spent`, removals of nodes that their receivers no longer have. `vm_session`
reaches such states after six calls, with an edge beside the node that was
removed. A replica that has stopped agrees with nobody: a connect that meets the
removal of one of its ends stops its receiver, so of removals and connects of
one node at once nothing is claimed.
Nothing in the code resends or even sends a message, so eventual delivery would
be an assumption on code that does not exist.

## Findings

- A disconnected edge comes back when an operation on another edge has
  collected its tombstone (`edges_resurrect`).
- `Graph::access` writes to the first node (`vm_update`).
- A disconnect is announced as a connect (`vm_disconnect`).
- A removal that arrives is sent again, for ever (`vm_echo`).

Two limits of the column store follow from the model of it and are not run: a
retraction hides nothing that arrives later, because queries pass over
tombstones (`unit_columndb.cpp:39` tests the order in which they do), and two
coordinates equally far from the origin tie in `attribute_priority.cpp:16`, so
that `latest` depends on the order of rows
(`property_preferred_commutative.cpp:62` has the choice commutative).
`Agreement` therefore assumes that ranks differ.

Met while modelling and not stated by any text of the repository, so hazards
only: a connect that arrives before its nodes, or with no document open,
dereferences a null pointer; a cycle makes `subTreeOf` recurse without end;
`update` of a set operation dereferences a null pointer; a disconnect that
arrives after a newer local connect removes the edge from the graph but not from
the table; an older mesh task that ends last leaves an older mesh, and two that
end at once race for `mesh_`; a task may read the new coordinate and the old
radius of a sphere. Also, of two radii with one timestamp the column store keeps
the smaller, where its property test computes the larger; the comparison of that
test has a relative tolerance of 1 and accepts every pair.

## Proofs

`ColumnDBProofs`, from the assumptions named in `ColumnDB`. The invariant is
`StoreInv`: the types, every row of the store was applied, and every
applied row that is missing was replaced by a newer one
(`CollectedIsOutdated`). `NewestUpsertWins` is not inductive: the next garbage
collection might drop a row that is not yet known to be outdated. With the
invariant, a newest upsert is in the store because nothing newer exists to
replace it (`Convergence`). `NewsIsFound` follows in the same way for
`newer_than`: a row that is selected was applied, so it is not newer than the
newest upsert, and that one is still there. `newer_than` does not select
retractions, so nothing is claimed of a register whose newest operations are only
these, nor of a peer that would apply the selected values, which have lost their
timestamps; only a test calls it. `Agreement` says that two stores with the same operations give the same
value, on the one extra assumption that things differ in rank; it needs a
newest row to exist, which is `NewestExists`, from a least element of a set of
naturals (`WellFoundedInduction`). The refinement (`Refinement`) needs no
strengthening beyond the types: a transaction of the column is the same
transaction of the register because tombstones are never live.

`EdgeTableProofs`, from `PairAssumption` and `BoundsAssumption`. `EdgeInv`
is the same argument for edges, where a tombstone may also be replaced by a
newer operation on any edge (`OnlyOutdatedCollected`). `ConnectWins` follows for
every order; from the same invariant `OnlyForeignResurrects` shows that the
finding is the only way in which `edges()` can be wrong; and `LocalConverges`
proves, with the strengthening that on a local replica nothing is newer than
what comes next, that in order it is never wrong (`LocalSpec`, proved and not run).

`TreeCacheProofs`, from `NoneAssumption`, for any number of threads and
addresses and any client. Neither `Deduplicated` nor `NoDanglingPointer` is
inductive: a node that is being destroyed is in memory without an entry, and the
address of one that is gone may be used again. `CacheInv` adds that every
pointer is to allocated memory, that a node that is being destroyed is not referred
to and belongs to one thread and one stage (`DoomedUnheld`), and that the entries
are exactly those of the nodes not yet erased, one for a key (`EntriesMatch`).
`EqualTreesAreOneNode`, `NothingDangles` and `DestructorFindsEntry` hold for
every client. `LookupFindsLiveNode` does not: an assignment over a last reference
leaves an entry to an expired node while the mutex is free. It is proved for
`CarefulSpec` with `LockCovers`, by which the thread that destroys a node holds
the mutex. `CarefulIsAClient` carries the other theorems over.

`MeshTasksProofs`, from the assumptions named in `MeshTasks`, for any number of
calls, spheres, addresses and nested operations. `TasksAreCareful` is the
refinement: every step of a task is a step of `CarefulSpec` or leaves the cache
alone, because the temporary that holds the first argument of `combine` outlives
the assignment. It needs `MeshInv`: which of its Trees a task holds at each of
its steps (`ReadingOK` and the parts beside it), that the arguments of an
operation under way are allocated and kept so by the mutex (`CallAllocated`),
and that a thread not yet started has nothing. The theorems of `TreeCacheProofs`
then hold of the tasks. `DocumentOutlivesTasks` is the order of the members.
`TasksLeaveNothing` cannot follow from use counts alone, which a cycle would
defeat: `NodesOK` ranks every node above its arguments, so that the one with
the highest rank would have to be held by a task.

The rest of `MeshTasksProofs` is about what the meshes show. `Expression` is defined as
the least set of nodes that is closed under arguments, not by recursion, so what
it holds is provable: `ShowsOfMin` says that `min` shows what its arguments show,
`ShowsStay` that an expression in use shows the same in every later memory,
although other nodes come and go and addresses are used again. `ContentOK` then
says of each step of a task which attributes its Trees show; rebalancing
regroups them and loses none. `LastTaskShowsTheNodes` adds that the last task
started is about the node objects of the graph as they are in memory unless an
update is half done. Which object an update writes is the finding `vm_update`.

`RenderProofs`, from `PoolAssumption` and `ShapeAssumption`, for any number of workers, any arity and depth, any shapes,
and cancelling at any time. The tasks that wait and the cells that workers are
at are marks in the tree of cells: early ones below which nothing was done, late
ones below which everything is. No mark is above another, and a cell is still
worked on iff a mark is at it or below it, or it is above one. `CoreInv` says so
(`MarksOK`) and adds what makes it inductive:

- `Unique`: no cell waits twice, or waits where a worker is at it; without it a
  task that is taken would leave a mark behind.
- `PendingCounts` (in `MarksOK`): the counter of a cell is one less than its
  children below which marks are left. This is why the worker that finds zero is
  the last one, and why the walk may reset the counters without the singletons.
- `SlotsOK`: what is worked on is not installed, the children of what is done
  are, and a branch that was collected has kept all of them (`Kept`), one a cell.
- `DoneOK`: workers that stop without having been cancelled have left no marks.
- `WorkedOK`: the branches worked are those of the tree no mark is in.

There is one lemma for each action, which also says what the step does to the
marks (`Same`, `Split`, `HandedOut`, `Finished`, `Collected`, `Drops`). The other
properties need those effects and no more of the code. `MemoryInv` is about the
pools: a cell is allocated iff it is installed or worked on and already handed
out (`Born`), and the sizes of the pools with what the root has claimed add up to
the allocated cells. The sum over the workers is stated as the last of some
partial sums (`SumIs`), since a fold is recursive. `TicksOK` says that the ticks
still to come are the cells still worked on; it spans both phases, because the
second has as many ticks as the first has left cells (`TreeIsCounted`). `SeenOK`
says that the parent of a neighbour a worker will look at was collected or
is above the worker's own cell, so cannot be collected before that cell is done.
`ReusableOK` is about what was given back: it is not allocated, it is in one pool,
and a worker that goes up is at a cell that is allocated or in its own pool, which
hands nothing out before this worker pushes again (`PoolsChangeNothingInUse`).

`ShapeAssumption` is what the code rests on when it takes children that are all
empty or all filled for a uniform cell: the children of a cell meet in its
centre, so one cannot be empty all over while another is filled all over.

`TapesProofs`, from `TapesAssumption`, for any shapes, any number of workers, any
size and any memory. `TapesInv` says that every tape in use is a tape (its
clauses ordered, what they take a leaf or a later clause) and has the features of
the whole shape at each point of its region (`Good`); that a cell lies in the
region of its tape; that a tape without a parent is the whole shape; that spares
are not in use and nobody else's; and that no tape comes from itself (`Grounded`,
an induction over parents). The last two are what `TapesAreExact` needs to be
inductive: a tape is written where nobody reads, so the way back from any other
stays what it was (`Rewritten`). Tapes that are not in use may hold anything, so
nothing is said of spares. The steps rest on three results about one push:

- `IntervalsHoldValues`: at every clause the interval holds the value. With it a
  choice that `KeepInInterval` decides goes the same way at every point of the
  region (`IntervalKeepWins`), and `UniformCellsStayUniform` follows.
- `VisitMarks`, `FollowIs`: a clause that a live clause takes is live or replaced, and
  the replacements end at what is live, since each leads to a later clause.
- `ShortIsTape`, `ShortIsExact`: the shortened tape is a tape again, and every live
  clause has on it the features it had, both sides of a tie included.

`BasesStayExact` needs that the way back ends, at a tape that fits or at the
whole shape (`BaseIs`).

`ViewModelProofs`, from `KindAssumption`, `ViewModelAssumption` and two
conditions that the theorems state. `Alone` has one replica whose user makes
every call but updates: with updates the graph and the tables do differ
(`AttributesMatchTables` is a finding). `NoCycles` says that the edges which
users draw have no cycle and, were there infinitely many nodes, no endless path;
`connect()` accepts both and
`subTreeOf()` does not come back. Only `LocalForestIsComplete` and
`LocalNeverCrashes` need it here. Any transaction may fail, with any number of nodes,
documents and values, and any edges.

None of the properties is inductive: that the graph and the tables show the same
does not say what is left in the tables of the nodes that do not show, and those
rows come back when an id or an attribute is written again. `LocalInv` has one
clause for each stage in the life of a node. Nothing was ever written of an
`unused` one. Of a `partial` one an attribute is missing, so `open()` passes it
over. A `created` one has a live row and one value for each attribute, which no
garbage collection drops because only rows of the entity itself, or tombstones,
go, and all its live rows name one document, so that a removal, which compares
documents, finds all of them. A `removed` one has no live row.
The edge table holds one row for a pair, since nothing older than the last
operation survives it, and an edge is in the graph iff that row lives. The call
that stops the replica has changed the tables and not the graph, so the clause
on the graph is about replicas that run.

The lemmas underneath say what the recursive parts of the model compute. An
induction theorem of the library takes an operator, which the provers cannot
instantiate; `Induction`, here and in `TapesProofs`, is the same for a set of
numbers and follows from a least element outside of it. With it `UpToExists` and `FoldsExist` show that the
recursions have solutions, `SelectedHas` which elements `Selected` leaves, and
`CommitIs` that a call which completes k transactions applies the first k in
turn. `OpenedIs` says which graph `open()` builds.

`SessionProofs` is about any number of replicas that start with a document open
(`SessionSpec`). `Faultless` says that no transaction fails and that messages
keep their order: otherwise a call is announced to nobody (see the hazards), and
a removal may overtake its creation. There are finitely many attribute values, since they
are floats. Three invariants stand on each other:

- `RemovalInv`, for any documents, drawings and calls, updates and disconnects
  included. A node has one birth, its document and time, wherever it is shown or
  on its way as a creation (`BornOnce`); every removal is later, comes after
  the creation in every inbox, and a node that is shown is not created again
  (`KnownOK`); and whoever still shows a removed node, or has its creation to
  come, has a removal in its inbox (`RemovalComes`). `SessionRemovalArrives`
  reads the last part with an inbox that has no message about the node. The
  step that needs all of it is `ReceiveRemove`: a removal leaves the inbox, the
  rows it does not cover must not exist, and the second removal it announces has
  to be later than every birth.
- `SessionInv`, under `InSession`: one document (a connect is not asked for its
  document and stops a replica that shows another), no updates (`update()` of a
  node that was removed meanwhile stops the replica) and `NoCycles`. A node that
  the tables show is in the graph, nothing is written of a node before its
  creation arrives (`Place`), and each end of an edge in an inbox is shown or
  created by an earlier message of the same inbox (`Ready`), which holds as long
  as nobody removes a node. So `SessionConnectsFindTheirNodes`: afterwards a
  connect may find one of its ends gone, and `Graph::connect` stops the replica.
- `ConvergeInv`, under `Converging`: nobody disconnects either, since a
  disconnect reaches the others as a connect (`EdgesConverge` is a finding).
  Tables, graph and messages of all replicas mean the same attributes of a node
  (`Face`); the graph has the edges that the tables hold between its nodes
  (`Wired`); an edge between nodes that nobody removed, drawn or on its way at
  one replica, is so at every other (`Joins`). When all has arrived, inboxes
  hold only removals that are spent (`SpentOnly`), so by `RemovalComes` the nodes
  are those that were created and not removed (`ArrivedShows`), and the graphs
  are equal, as is what each replica opens from its tables (`OpenedHere`).

The step lemmas of the three are about the effect of a call on its replica and
on the inboxes of the others (`Committed`, `Entered`, `Removed`, `Echoed`), so
that the transactions and the sequences are unfolded once, in the lemmas before
them.

The types of `ColumnDB` and `EdgeTable`, `CollectedIsOutdated` of `EdgeTable`
and the inductive invariants of `MeshTasks`, `Render`, `ViewModel` and `Tapes` are
proved for every instance and are in no run. `TablesConverge` is proved for
replicas whose messages keep their order, with removals; that it holds in any
order, with updates and a peer that disconnects but without removals, is what the
run `vm_anyorder` shows on its instance. With removals in any order it fails: a
removal that overtakes its creation is collected as a tombstone of the document
table, and the node stays at one replica. Only model-checked are the liveness
properties `ClosingEnds` and `RenderEnds`, which are out of the prover's reach.

## Not modelled

- Names of documents, `createDocument`, `documents()` and a restart on an
  existing file: the constructor throws when the indices exist, so no state
  follows a restart.
- Duplicated delivery (the client has nothing that would detect it), failing
  transactions with two replicas (the texts of the repository promise nothing),
  and an abstract replicated document that `ViewModel` implements: the findings
  show that no simple one is implemented.
- In `fromTree`: set operations with children, normals and buffers of the mesh.
- In the expression cache: affine forms, constant folding, NaN, free variables
  and oracles. In evaluation: the operations other than `min`, `max`,
  subtraction and square, derivatives, and rounding. In rendering: vertex
  placement, the simplex and hybrid meshers, weak memory, and the thread of the
  progress handler, which only reports the counters. A walk that is cancelled returns a part
  of the mesh, which `mesh.cpp` has as a TODO.
- The server, `send`, `sync` and `connect` of the client: empty stubs.
- Serialization (bitsery), generated tables, test utilities: no state.
- Third-party libraries: date, boost, websocketpp, Eigen and others are vendored
  as a whole and are by far the larger part of the lines under `src/`; the
  program uses a few of their functions.
