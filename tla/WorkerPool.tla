------------------------------ MODULE WorkerPool ------------------------------
(***************************************************************************)
(* How libfive builds the tree of cells that a mesh is made from: a pool   *)
(* of workers (brep/worker_pool.inl) that evaluate cells (brep/xtree.inl,  *)
(* brep/dc/dc_tree.inl), split those that the surface may cross, and       *)
(* collect them on the way up.                                             *)
(*                                                                         *)
(* The tasks that fit are in a stack that the workers share, as deep as    *)
(* there are workers, the others in a stack of the worker that made them.  *)
(* The last worker to finish a child of a cell collects the cell: a counter*)
(* in the cell tells.  A cell that is empty or filled is replaced by a     *)
(* shared singleton and goes back to the pool of the worker.               *)
(*                                                                         *)
(* A cell is the path to it from the root.  What a shape is in a cell of   *)
(* the lowest level is chosen at the start; interval arithmetic may fail   *)
(* to see it.  Numbers, vertices and tapes are left out, and so is         *)
(* settings.vol, which Mesh::render never sets.                            *)
(***************************************************************************)
EXTENDS Integers, FiniteSetsExt, SequencesExt

CONSTANTS
    Worker,
    Arity,      \* children of a cell, 2^N
    Depth,      \* levels below the root
    Shape,      \* the shapes to render, functions from Leaves
    MayCancel   \* whether the user may set settings.cancel

ASSUME PoolAssumption ==
    /\ IsFiniteSet(Worker) /\ Worker # {}
    /\ Arity \in Nat \ {0} /\ Depth \in Nat
    /\ MayCancel \in BOOLEAN

Root == <<>>
Index == 1 .. Arity
Cells == UNION {[1 .. n -> Index] : n \in 0 .. Depth}
Leaves == [1 .. Depth -> Index]
ChildrenOf(c) == {Append(c, i) : i \in Index}
Within(c) == {d \in Cells : IsPrefix(c, d)}

AllAre(s, c, state) == \A l \in Within(c) \cap Leaves : s[l] = state

(* The children of a cell share its centre: a shape is not empty all over   *)
(* one and filled all over another.                                         *)
ASSUME ShapeAssumption ==
    /\ Shape \subseteq [Leaves -> {"empty", "filled", "mixed"}]
    /\ \A s \in Shape, c \in Cells : \A d, e \in ChildrenOf(c) \cap Cells :
          ~(AllAre(s, d, "empty") /\ AllAre(s, e, "filled"))

VARIABLES
    shape,      \* shape[c]: "empty", "filled" or "mixed"
    type,       \* type[c]: "unknown", or the state of the cell
    slot,       \* slot[c]: what the parent of c points to: "null", "cell",
                \*          or a singleton, "empty" or "filled"
    allocated,  \* the cells that are not in a pool
    pending,    \* pending[c]
    tasks,      \* the shared stack
    local,      \* local[w]: the stack of worker w
    at,         \* at[w]: what worker w does, and with which cell
    size,       \* size[w]: the size of its object pool
    reusable,   \* reusable[w]: the released cells that its pool may hand out
    treeCount,  \* the cells the root has claimed
    done, cancel,
    counter, total  \* of the phase of the progress handler

cellVars == <<shape, type, slot, allocated>>
poolVars == <<size, reusable, treeCount>>
taskVars == <<tasks, local>>
flagVars == <<done, cancel>>

Capacity == Cardinality(Worker)

IsBranch(c) == \E d \in Cells : d = Append(c, 1) /\ slot[d] # "null"

Step(w) == at[w].step
Cell(w) == at[w].cell

Go(w, step, c) == at' = [at EXCEPT ![w].step = step, ![w].cell = c, ![w].next = 1]

(* The progress ticks of a cell and everything it could be split into. *)
TicksOf(c) == Cardinality(Within(c))

Tick(n) == counter' = counter + n /\ UNCHANGED total

-----------------------------------------------------------------------------
(* The stacks *)

(* bounded_push fails when the shared stack is full. *)
PushTask(w, task) ==
    IF Len(tasks) < Capacity
    THEN tasks' = Append(tasks, task) /\ UNCHANGED local
    ELSE local' = [local EXCEPT ![w] = Append(@, task)] /\ UNCHANGED tasks

(* The neighbours of a cell: its siblings that are installed by now, and    *)
(* the cells next to its parent or their children (Neighbors::push).        *)
SeenFrom(c, parentSeen) ==
    IF c = Root THEN {}
    ELSE {s \in ChildrenOf(Front(c)) \ {c} : slot[s] = "cell"}
         \cup UNION {IF IsBranch(n) THEN {s \in ChildrenOf(n) : slot[s] = "cell"} ELSE {n} :
                        n \in parentSeen}

(* The top of a worker's loop: it stops, takes a task of its own, or one    *)
(* that is shared.                                                          *)
Leave(w) ==
    /\ Step(w) = "loop"
    /\ done \/ cancel
    /\ Go(w, "exit", Cell(w))
    /\ UNCHANGED <<cellVars, pending, poolVars, taskVars, flagVars, counter, total>>

TakeInto(w, task) ==
    at' = [at EXCEPT ![w] = [step |-> "eval", cell |-> task.cell, next |-> 1,
                             seen |-> SeenFrom(task.cell, task.seen)]]

(* Mutant: a task is read and left on the shared stack. *)
TakeTwice(w) ==
    /\ Step(w) = "loop"
    /\ ~done /\ ~cancel
    /\ \/ /\ local[w] # <<>>
          /\ TakeInto(w, Last(local[w]))
          /\ local' = [local EXCEPT ![w] = Front(@)]
          /\ UNCHANGED tasks
       \/ /\ local[w] = <<>> /\ tasks # <<>>
          /\ TakeInto(w, Last(tasks))
          /\ tasks' \in {tasks, Front(tasks)}
          /\ UNCHANGED local
    /\ UNCHANGED <<cellVars, pending, poolVars, flagVars, counter, total>>

Take(w) ==
    /\ Step(w) = "loop"
    /\ ~done /\ ~cancel
    /\ \/ /\ local[w] # <<>>
          /\ TakeInto(w, Last(local[w]))
          /\ local' = [local EXCEPT ![w] = Front(@)]
          /\ UNCHANGED tasks
       \/ /\ local[w] = <<>> /\ tasks # <<>>
          /\ TakeInto(w, Last(tasks))
          /\ tasks' = Front(tasks)
          /\ UNCHANGED local
    /\ UNCHANGED <<cellVars, pending, poolVars, flagVars, counter, total>>

(* A worker that finds nothing goes on looking. *)
Spin(w) ==
    /\ Step(w) = "loop"
    /\ ~done /\ ~cancel
    /\ local[w] = <<>> /\ tasks = <<>>
    /\ UNCHANGED <<cellVars, pending, poolVars, taskVars, at, flagVars, counter, total>>

-----------------------------------------------------------------------------
(* Cells *)

(* Cells go back to the pool of the worker; singletons have none. *)
Released(w, cs) ==
    /\ allocated' = allocated \ cs
    /\ size' = [size EXCEPT ![w] = @ - Cardinality(cs)]
    /\ reusable' = [reusable EXCEPT ![w] = @ \cup cs]

(* Mutant: the workers share one pool. *)
ReuseAny(w) ==
    IF \A v \in Worker : reusable[v] = {} THEN UNCHANGED reusable
    ELSE \E v \in Worker : \E old \in reusable[v] :
            reusable' = [reusable EXCEPT ![v] = @ \ {old}]

(* ObjectPool::get: a new cell gets the memory of one that was released to  *)
(* the pool of the worker (the last one; here any), or else fresh memory.   *)
Reuse(w) ==
    IF reusable[w] = {} THEN UNCHANGED reusable
    ELSE \E old \in reusable[w] : reusable' = [reusable EXCEPT ![w] = @ \ {old}]

(* done(): the parent points to the cell, or to the singleton that stands   *)
(* for it.  The root has no parent and stays.                               *)
Installed(slots, c, state) ==
    IF c = Root THEN slots
    ELSE [slots EXCEPT ![c] = IF state = "ambiguous" THEN "cell" ELSE state]

Given(c, state) == IF c = Root \/ state = "ambiguous" THEN {} ELSE {c}

(* Interval arithmetic may take a uniform cell for an ambiguous one. *)
IntervalOf(c) ==
    {"ambiguous"} \cup {s \in {"empty", "filled"} : AllAre(shape, c, s)}

(* evalInterval: a cell that is seen to be uniform is finished, another is  *)
(* split.                                                                   *)
EvalInterval(w) ==
    LET c == Cell(w) IN
    /\ Step(w) = "eval" /\ c \notin Leaves
    /\ \E state \in IntervalOf(c) :
          /\ type' = [type EXCEPT ![c] = state]
          /\ IF state = "ambiguous"
             THEN Go(w, "push", c) /\ UNCHANGED <<slot, allocated, size, reusable, counter, total>>
             ELSE /\ slot' = Installed(slot, c, state)
                  /\ Released(w, Given(c, state))
                  /\ Tick(TicksOf(c))
                  /\ Go(w, "up", c)
    /\ UNCHANGED <<shape, pending, treeCount, taskVars, flagVars>>

(* The children of a cell are made and handed out one by one. *)
PushChild(w) ==
    LET c == Cell(w)
        d == Append(c, at[w].next)
    IN
    /\ Step(w) = "push"
    /\ type' = [type EXCEPT ![d] = "unknown"]
    /\ pending' = [pending EXCEPT ![d] = Arity - 1]
    /\ allocated' = allocated \cup {d}
    /\ size' = [size EXCEPT ![w] = @ + 1]
    /\ Reuse(w)
    /\ PushTask(w, [cell |-> d, seen |-> at[w].seen])
    /\ IF at[w].next < Arity THEN at' = [at EXCEPT ![w].next = @ + 1]
       ELSE Go(w, "loop", c)
    /\ UNCHANGED <<shape, slot, treeCount, flagVars, counter, total>>

(* evalLeaf: corners and vertices of a cell of the lowest level. *)
EvalLeaf(w) ==
    LET c == Cell(w)
        state == IF shape[c] = "mixed" THEN "ambiguous" ELSE shape[c]
    IN
    /\ Step(w) = "eval" /\ c \in Leaves
    /\ type' = [type EXCEPT ![c] = state]
    /\ slot' = Installed(slot, c, state)
    /\ Released(w, Given(c, state))
    /\ Tick(1)
    /\ Go(w, "up", c)
    /\ UNCHANGED <<shape, pending, treeCount, taskVars, flagVars>>

(* Mutant: the last but one collects. *)
UpEarly(w) ==
    LET c == Cell(w)
        p == Front(c)
    IN
    /\ Step(w) = "up"
    /\ IF c = Root
       THEN Go(w, "exit", c) /\ UNCHANGED pending
       ELSE /\ pending' = [pending EXCEPT ![p] = @ - 1]
            /\ Go(w, IF pending[p] = 1 THEN "collect" ELSE "loop", p)
    /\ UNCHANGED <<cellVars, poolVars, taskVars, flagVars, counter, total>>

(* pending-- == 0: the last of the children goes on with the parent; above  *)
(* the root there is nothing left to do.                                    *)
Up(w) ==
    LET c == Cell(w)
        p == Front(c)
    IN
    /\ Step(w) = "up"
    /\ IF c = Root
       THEN Go(w, "exit", c) /\ UNCHANGED pending
       ELSE /\ pending' = [pending EXCEPT ![p] = @ - 1]
            /\ Go(w, IF pending[p] = 0 THEN "collect" ELSE "loop", p)
    /\ UNCHANGED <<cellVars, poolVars, taskVars, flagVars, counter, total>>

(* Mutant: a collapse forgets to give its children back. *)
CollectKeeping(w) ==
    LET c == Cell(w)
        kids == ChildrenOf(c)
        own == {d \in kids : slot[d] = "cell"}
        without == [d \in Cells |-> IF d \in kids THEN "null" ELSE slot[d]]
        Uniform(s) == \A d \in kids : slot[d] = s
        Become(state, slots, released) ==
            /\ type' = [type EXCEPT ![c] = state]
            /\ slot' = Installed(slots, c, state)
            /\ Released(w, released \cup Given(c, state))
    IN
    /\ Step(w) = "collect"
    /\ IF \E d \in own : IsBranch(d) THEN Become("ambiguous", slot, {})
       ELSE IF Uniform("empty") THEN Become("empty", without, {})
       ELSE IF Uniform("filled") THEN Become("filled", without, {})
       ELSE \/ Become("ambiguous", slot, {})
            \/ Become("ambiguous", without, {})
    /\ Tick(1)
    /\ Go(w, "up", c)
    /\ UNCHANGED <<shape, pending, treeCount, taskVars, flagVars>>

(* collectChildren: a cell with branches stays; children that are all empty *)
(* or all filled make it so; otherwise they may collapse into one leaf.     *)
Collect(w) ==
    LET c == Cell(w)
        kids == ChildrenOf(c)
        own == {d \in kids : slot[d] = "cell"}
        without == [d \in Cells |-> IF d \in kids THEN "null" ELSE slot[d]]
        Uniform(s) == \A d \in kids : slot[d] = s
        Become(state, slots, released) ==
            /\ type' = [type EXCEPT ![c] = state]
            /\ slot' = Installed(slots, c, state)
            /\ Released(w, released \cup Given(c, state))
    IN
    /\ Step(w) = "collect"
    /\ IF \E d \in own : IsBranch(d) THEN Become("ambiguous", slot, {})
       ELSE IF Uniform("empty") THEN Become("empty", without, {})
       ELSE IF Uniform("filled") THEN Become("filled", without, {})
       ELSE \/ Become("ambiguous", slot, {})
            \/ Become("ambiguous", without, own)
    /\ Tick(1)
    /\ Go(w, "up", c)
    /\ UNCHANGED <<shape, pending, treeCount, taskVars, flagVars>>

(* A worker that stops tells the others and gives its pool to the root. *)
Join(w) ==
    /\ Step(w) = "exit"
    /\ done' = TRUE
    /\ treeCount' = treeCount + size[w]
    /\ size' = [size EXCEPT ![w] = 0]
    /\ reusable' = [reusable EXCEPT ![w] = {}]
    /\ Go(w, "joined", Cell(w))
    /\ UNCHANGED <<cellVars, pending, taskVars, cancel, counter, total>>

PoolStep(w) ==
    \/ Leave(w) \/ Take(w)
    \/ EvalInterval(w) \/ PushChild(w) \/ EvalLeaf(w)
    \/ Up(w) \/ Collect(w) \/ Join(w)

Joined == \A w \in Worker : Step(w) = "joined"

(* The user may cancel at any time; nothing is undone. *)
Cancel ==
    /\ MayCancel
    /\ ~cancel
    /\ cancel' = TRUE
    /\ UNCHANGED <<cellVars, pending, poolVars, taskVars, at, done, counter, total>>

-----------------------------------------------------------------------------
(* WorkerPool::build up to the start of the workers. *)
Ready == [step |-> "loop", cell |-> Root, next |-> 1, seen |-> {}]

PoolInit ==
    /\ shape \in Shape
    /\ type = [c \in Cells |-> "unknown"]
    /\ slot = [c \in Cells |-> "null"]
    /\ allocated = {Root}
    /\ pending = [c \in Cells |-> Arity - 1]
    /\ tasks = <<[cell |-> Root, seen |-> {}]>>
    /\ local = [w \in Worker |-> <<>>]
    /\ at = [w \in Worker |-> Ready]
    /\ size = [w \in Worker |-> 0]
    /\ reusable = [w \in Worker |-> {}]
    /\ treeCount = 0
    /\ done = FALSE /\ cancel = FALSE
    /\ counter = 0 /\ total = TicksOf(Root)
=============================================================================
