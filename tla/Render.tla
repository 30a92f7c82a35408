-------------------------------- MODULE Render --------------------------------
(***************************************************************************)
(* Mesh::render: the workers of WorkerPool build the tree of cells, then   *)
(* as many workers walk it and make the mesh (brep/dual.hpp).  A worker    *)
(* that reaches the last leaf below a branch does the work of the branch,  *)
(* which joins the vertices of the leaves on the faces between its         *)
(* children and numbers them, and goes on with the parent.                 *)
(***************************************************************************)
EXTENDS WorkerPool

VARIABLES
    phase,      \* "build", "walk", "end", or "cancelled" (no mesh)
    worked      \* the branches whose work is done

vars == <<cellVars, pending, poolVars, taskVars, at, flagVars, counter, total,
          phase, worked>>

-----------------------------------------------------------------------------
(* Between the phases *)

Singletons(c) == {d \in ChildrenOf(c) : slot[d] \in {"empty", "filled"}}

(* Mutant: every child is waited for. *)
ResetAllPending == pending' = [c \in Cells |-> Arity - 1]

(* resetPending: singletons never report, so they are not waited for. *)
ResetPending ==
    pending' = [c \in Cells |->
        IF IsBranch(c) THEN Arity - 1 - Cardinality(Singletons(c)) ELSE Arity - 1]

(* The futures of build are waited for, then the walk starts; a phase is as *)
(* long as the tree has cells.                                              *)
StartWalk ==
    /\ phase = "build" /\ Joined /\ ~cancel
    /\ phase' = "walk"
    /\ ResetPending
    /\ tasks' = <<[cell |-> Root, seen |-> {}]>>
    /\ local' = [w \in Worker |-> <<>>]
    /\ at' = [w \in Worker |-> Ready]
    /\ done' = FALSE
    /\ counter' = 0 /\ total' = treeCount + 1
    /\ UNCHANGED <<cellVars, poolVars, cancel, worked>>

(* Without a tree there is no mesh. *)
GiveUp ==
    /\ phase = "build" /\ Joined /\ cancel
    /\ phase' = "cancelled"
    /\ UNCHANGED <<cellVars, pending, poolVars, taskVars, at, flagVars, counter, total, worked>>

(* The mesh is collected from the workers, whether cancelled or not, and    *)
(* the tree is destroyed.                                                   *)
EndWalk ==
    /\ phase = "walk" /\ Joined
    /\ phase' = "end"
    /\ UNCHANGED <<cellVars, pending, poolVars, taskVars, at, flagVars, counter, total, worked>>

-----------------------------------------------------------------------------
(* The walk *)

(* A branch is unfolded, a singleton is passed over, a leaf is counted. *)
Visit(w) ==
    LET c == Cell(w) IN
    /\ Step(w) = "eval"
    /\ IF slot[c] \in {"empty", "filled"}
       THEN Go(w, "loop", c) /\ UNCHANGED <<counter, total>>
       ELSE IF IsBranch(c) THEN Go(w, "push", c) /\ UNCHANGED <<counter, total>>
       ELSE Go(w, "up", c) /\ Tick(1)
    /\ UNCHANGED <<cellVars, pending, poolVars, taskVars, flagVars>>

PushBranch(w) ==
    /\ Step(w) = "push"
    /\ PushTask(w, [cell |-> Append(Cell(w), at[w].next), seen |-> {}])
    /\ IF at[w].next < Arity THEN at' = [at EXCEPT ![w].next = @ + 1]
       ELSE Go(w, "loop", Cell(w))
    /\ UNCHANGED <<cellVars, pending, poolVars, flagVars, counter, total>>

(* Dual::work of the branch ends. *)
Work(w) ==
    /\ Step(w) = "collect"
    /\ worked' = worked \cup {Cell(w)}
    /\ Tick(1)
    /\ Go(w, "up", Cell(w))
    /\ UNCHANGED <<cellVars, pending, poolVars, taskVars, flagVars>>

(* The loop of a worker is that of the pool; it has no pool of its own. *)
WalkStep(w) ==
    \/ /\ Leave(w) \/ Take(w) \/ Visit(w) \/ PushBranch(w) \/ Up(w) \/ Join(w)
       /\ UNCHANGED worked
    \/ Work(w)

WorkerStep(w) ==
    /\ \/ phase = "build" /\ PoolStep(w) /\ UNCHANGED worked
       \/ phase = "walk" /\ WalkStep(w)
    /\ UNCHANGED phase

Main == StartWalk \/ GiveUp \/ EndWalk

Over == phase \in {"end", "cancelled"}

Init == PoolInit /\ phase = "build" /\ worked = {}

Next ==
    \/ \E w \in Worker : WorkerStep(w)
    \/ \E w \in Worker : Spin(w) /\ UNCHANGED <<phase, worked>>
    \/ Cancel /\ ~Over /\ UNCHANGED <<phase, worked>>
    \/ Main
    \/ Over /\ UNCHANGED vars

(* The threads of std::async and the one that waits for them are scheduled; *)
(* spinning changes nothing and needs no fairness, cancelling is optional.  *)
Fairness == (\A w \in Worker : WF_vars(WorkerStep(w))) /\ WF_vars(Main)

Spec == Init /\ [][Next]_vars /\ Fairness

-----------------------------------------------------------------------------
(* Properties *)

TypeOK ==
    /\ type \in [Cells -> {"unknown", "empty", "filled", "ambiguous"}]
    /\ slot \in [Cells -> {"null", "cell", "empty", "filled"}]
    /\ allocated \subseteq Cells /\ worked \subseteq Cells
    /\ pending \in [Cells -> -1 .. Arity - 1]
    /\ \A i \in DOMAIN tasks : tasks[i].cell \in Cells /\ tasks[i].seen \subseteq Cells
    /\ \A w \in Worker : Cell(w) \in Cells /\ at[w].seen \subseteq Cells

(* xtree.inl and dc_tree.inl: "assert(c != nullptr)" for every child of a   *)
(* cell that is collected, "children[parent_index].load() == nullptr" for a *)
(* cell that is about to be installed.                                      *)
ChildrenInstalledOnce ==
    phase = "build" =>
        \A w \in Worker :
            /\ Step(w) \in {"eval", "push", "collect"} => slot[Cell(w)] = "null"
            /\ Step(w) = "collect" => \A d \in ChildrenOf(Cell(w)) : slot[d] # "null"

InStacks == Range(tasks) \cup UNION {Range(local[w]) : w \in Worker}

(* dc_tree.inl: "This is a bit scary, because it's still used in            *)
(* WorkerPool, but the pool won't change it until we're done operating on   *)
(* it."  A worker that goes up reads the type, the level and the parent of  *)
(* a cell it may just have released: such a cell is in the pool of this     *)
(* worker and in no other, and its pool has not handed it out again, while  *)
(* the parent it goes to is not released.  No other cell that a task, a     *)
(* worker, a parent or a neighbour will look at is in a pool, and none goes *)
(* back twice.                                                              *)
NothingUsedAfterReuse ==
    /\ phase = "build" =>
          /\ \A w \in Worker :
                /\ Step(w) \in {"eval", "push", "collect"} => Cell(w) \in allocated
                /\ Step(w) \in {"eval", "push"} => at[w].seen \subseteq allocated
                /\ Step(w) = "up" => Cell(w) \in allocated \cup reusable[w]
                /\ Step(w) = "up" /\ Cell(w) # Root => Front(Cell(w)) \in allocated
          /\ \A task \in InStacks : task.cell \in allocated /\ task.seen \subseteq allocated
    /\ \A c \in Cells : slot[c] = "cell" => c \in allocated
    /\ \A w \in Worker : reusable[w] \cap allocated = {}
    /\ \A v, w \in Worker : v # w => reusable[v] \cap reusable[w] = {}

(* No cell is evaluated, collected or worked by two workers, or by one       *)
(* while it is still in a stack.  (In the walk a branch may be worked while  *)
(* the worker that unfolds it still pushes singletons.)                      *)
Holds(w) ==
    Step(w) \in IF phase = "build" THEN {"eval", "push", "collect"} ELSE {"eval", "collect"}

OneTaskPerCell ==
    \A w \in Worker : Holds(w) =>
        /\ \A v \in Worker \ {w} : Holds(v) => Cell(v) # Cell(w)
        /\ \A task \in InStacks : task.cell # Cell(w)

(* progress.cpp: "we must count up the expected number of ticks, otherwise  *)
(* there's a bug somewhere in the library"; true of a phase nobody cancels. *)
PhasesCountUp == Joined /\ ~cancel => counter = total

(* Root::claim: what the pools report adds up to the cells that are left,   *)
(* the root aside, although workers give back what others allocated; and a  *)
(* tree that is complete has lost none: each has a parent that points to it.*)
TreeCountIsTreeSize ==
    Joined =>
        /\ treeCount = Cardinality(allocated \ {Root})
        /\ ~cancel => allocated \ {Root} = {c \in Cells : slot[c] = "cell"}

(* dual.hpp: two workers never work on a branch and one below it, so that   *)
(* no leaf is numbered by two of them.                                      *)
WorkIsDisjoint ==
    phase = "walk" =>
        \A v, w \in Worker :
            v # w /\ Step(v) = "collect" /\ Step(w) = "collect" =>
                ~IsPrefix(Cell(v), Cell(w))

(* Every branch is worked once, after the branches below it; a mesh that    *)
(* was not cancelled misses none.                                           *)
EveryBranchWorked ==
    /\ \A w \in Worker :
          phase = "walk" /\ Step(w) = "collect" =>
              /\ Cell(w) \notin worked
              /\ \A d \in Within(Cell(w)) \ {Cell(w)} : IsBranch(d) => d \in worked
    /\ phase = "end" /\ ~cancel => worked = {c \in Cells : IsBranch(c)}

(* Rendering ends: the workers that find nothing to do always learn that    *)
(* the others have finished.                                                *)
RenderEnds == <>Over
=============================================================================
