-------------------------------- MODULE Tapes --------------------------------
(***************************************************************************)
(* How the workers of libfive evaluate a shape (eval/tape.cpp,             *)
(* eval/eval_interval.cpp, eval/eval_array.cpp, eval/deck.cpp).            *)
(*                                                                         *)
(* A shape is a list of clauses, the tape.  When a cell is evaluated with  *)
(* interval arithmetic, a min or a max of which one side decides in the    *)
(* whole cell is taken out, and so is what only the other side needed: the *)
(* children of the cell get the shorter tape.  A tape knows the tape it    *)
(* was made from and the region it is good for; getBase() goes back to one *)
(* that is good for a point or for a larger region.  A tape that is not    *)
(* needed is kept as a spare and written again by the next push.           *)
(*                                                                         *)
(* Any worker takes any cell that is left.  What it does with the tape of  *)
(* the cell, which others may read, is one step: it only writes to its own *)
(* arrays, its own spares and a tape that nobody else has.  Shapes are on  *)
(* a line and of integers; nothing is NaN, and there are no oracles.       *)
(***************************************************************************)
EXTENDS Integers, FiniteSetsExt, SequencesExt, Selection

CONSTANTS
    Evaluator,  \* the workers, each with a Deck of its own
    Addr,       \* where tapes are allocated
    None,       \* no address
    Size,       \* the root cell is from 0 to Size, a power of two
    Decks       \* the shapes

Selective == {"min", "max"}

Opcodes == Selective \cup {"sub", "square"}

(* What no clause computes: the clause with the id 0 is a placeholder.      *)
LeafIds(d) == {0, d.x} \cup DOMAIN d.constant

(* The clauses t compute the result of the clause i: they are ordered, and  *)
(* what a clause takes is a leaf or comes after it.                         *)
IsTape(d, t, i) ==
    LET known == LeafIds(d) \cup {c.id : c \in Range(t)}
    IN  /\ t \in Seq([op: Opcodes, id: (1 .. d.count) \ LeafIds(d),
                      a: 0 .. d.count, b: 0 .. d.count])
        /\ i \in known
        /\ \A j, k \in DOMAIN t : j < k => t[j].id < t[k].id
        /\ \A c \in Range(t) : \A n \in {c.a, c.b} :
              /\ n \in known
              /\ n > c.id \/ (n = 0 /\ c.op \notin Selective)

ASSUME TapesAssumption ==
    /\ Addr # {} /\ None \notin Addr
    /\ Size \in Nat \ {0}
    /\ \A d \in Decks :
          /\ d.count \in Nat
          /\ DOMAIN d.constant \subseteq 1 .. d.count
          /\ d.constant \in [DOMAIN d.constant -> Int]
          /\ d.x \in (1 .. d.count) \ DOMAIN d.constant
          /\ IsTape(d, d.clauses, 1)

VARIABLES
    deck,       \* the shape: clauses, constants, the slot of X
    heap,       \* heap[a]: the tape at a
    spares,     \* spares[e]: a stack of addresses
    tasks       \* the cells to evaluate, each with a tape

vars == <<deck, heap, spares, tasks>>

Ids == 0 .. deck.count

-----------------------------------------------------------------------------
(* Arithmetic of numbers, intervals and features *)

Smaller(a, b) == IF a < b THEN a ELSE b
Larger(a, b) == IF a > b THEN a ELSE b

Number(op, a, b) ==
    CASE op = "min" -> Smaller(a, b)
      [] op = "max" -> Larger(a, b)
      [] op = "sub" -> a - b
      [] op = "square" -> a * a

Square(a) ==
    [lower |-> IF a.lower <= 0 /\ 0 <= a.upper THEN 0
               ELSE Smaller(a.lower * a.lower, a.upper * a.upper),
     upper |-> Larger(a.lower * a.lower, a.upper * a.upper)]

Interval(op, a, b) ==
    CASE op = "min" -> [lower |-> Smaller(a.lower, b.lower), upper |-> Smaller(a.upper, b.upper)]
      [] op = "max" -> [lower |-> Larger(a.lower, b.lower), upper |-> Larger(a.upper, b.upper)]
      [] op = "sub" -> [lower |-> a.lower - b.upper, upper |-> a.upper - b.lower]
      [] op = "square" -> Square(a)

(* The value of a shape at a point and the leaves that it comes from: where *)
(* the sides of a min or a max are equal it has the features of both.       *)
Features(op, a, b) ==
    [value |-> Number(op, a.value, b.value),
     from |-> IF op \notin Selective \/ a.value = b.value THEN a.from \cup b.from
              ELSE IF Number(op, a.value, b.value) = a.value THEN a.from ELSE b.from]

Apply(arithmetic, op, a, b) ==
    CASE arithmetic = "numbers" -> Number(op, a, b)
      [] arithmetic = "intervals" -> Interval(op, a, b)
      [] arithmetic = "features" -> Features(op, a, b)

Assign(arithmetic, c, results) ==
    [results EXCEPT ![c.id] = Apply(arithmetic, c.op, results[c.a], results[c.b])]

(* Evaluation: the results of the clauses, the last one of the tape first.  *)
(* What no clause has written is left from an earlier evaluation: Stale.    *)
Results(tape, leaves, arithmetic) ==
    LET n == Len(tape.t)
        after[k \in 0 .. n] ==
            IF k = 0 THEN leaves ELSE Assign(arithmetic, tape.t[n + 1 - k], after[k - 1])
    IN  after[n]

Leaves(constant, x, stale) ==
    [n \in Ids |-> CASE n \in DOMAIN constant -> constant[n]
                     [] n = deck.x -> x
                     [] OTHER -> stale]

Values(tape, p) == Results(tape, Leaves(deck.constant, p, 1000), "numbers")

Value(tape, p) == Values(tape, p)[tape.i]

At(k) == [lower |-> k, upper |-> k]

Intervals(tape, r) ==
    Results(tape, Leaves([n \in DOMAIN deck.constant |-> At(deck.constant[n])], r, At(1000)),
            "intervals")

State(i) == IF i.lower > 0 THEN "empty" ELSE IF i.upper < 0 THEN "filled" ELSE "ambiguous"

-----------------------------------------------------------------------------
(* Which side of a clause to keep *)

Decided(op, aboveA, aboveB, otherwise) ==
    CASE aboveA -> IF op = "max" THEN "A" ELSE "B"
      [] ~aboveA /\ aboveB -> IF op = "max" THEN "B" ELSE "A"
      [] OTHER -> otherwise

(* Mutant: overlapping intervals count as decided. *)
KeepOverlapping(c, i) ==
    IF c.op \notin Selective THEN "always"
    ELSE IF c.a = c.b THEN "A"
    ELSE Decided(c.op, i[c.a].lower > i[c.b].lower, i[c.b].lower > i[c.a].lower, "both")

(* IntervalEvaluator::push *)
KeepInInterval(c, i) ==
    IF c.op \notin Selective THEN "always"
    ELSE IF c.a = c.b THEN "A"
    ELSE Decided(c.op, i[c.a].lower > i[c.b].upper, i[c.b].lower > i[c.a].upper, "both")

(* Mutant: a tie counts as decided. *)
KeepOneOfTie(c, v) ==
    IF c.op \notin Selective THEN "always"
    ELSE Decided(c.op, v[c.a] > v[c.b], v[c.b] > v[c.a], "A")

(* ArrayEvaluator::valueAndPush *)
KeepAtPoint(c, v) ==
    IF c.op \notin Selective THEN "always"
    ELSE Decided(c.op, v[c.a] > v[c.b], v[c.b] > v[c.a], "both")

-----------------------------------------------------------------------------
(* Tape::push *)

Inactive == [n \in Ids |-> 0]

(* A clause that is active is replaced by the operand that is kept, or its  *)
(* operands are active too.                                                 *)
Visit(keep, m, c) ==
    LET kept == IF keep[c] = "A" THEN c.a ELSE c.b
    IN  IF c.id \notin m.active THEN m
        ELSE IF keep[c] \in {"A", "B"}
        THEN [m EXCEPT !.active = (@ \ {c.id}) \cup {kept},
                       !.remap[c.id] = kept, !.changed = TRUE]
        ELSE [m EXCEPT !.active = @ \cup {c.a, c.b},
                       !.terminal = @ /\ keep[c] # "both"]

(* From the root down: the clauses that are active, those that are          *)
(* replaced by an operand, and whether a choice is left.                    *)
Mark(tape, keep) ==
    LET upTo[k \in 0 .. Len(tape.t)] ==
            IF k = 0 THEN [active |-> {tape.i}, remap |-> Inactive,
                           changed |-> FALSE, terminal |-> TRUE]
            ELSE Visit(keep, upTo[k - 1], tape.t[k])
    IN  upTo[Len(tape.t)]

(* Mutant: the operand that is kept may itself have been replaced. *)
FollowOnce(remap) == [n \in Ids |-> IF remap[n] = 0 THEN n ELSE remap[n]]

(* Replacements are followed to their end. *)
Follow(remap) ==
    LET end[n \in Ids] == IF remap[n] = 0 THEN n ELSE end[remap[n]]
    IN  end

(* The tape at a, specialised; the tape itself when nothing is decided.     *)
Push(a, keep, type, region) ==
    LET tape == heap[a]
        m    == Mark(tape, keep)
        end  == Follow(m.remap)
        live == Selected(tape.t, {j \in DOMAIN tape.t : tape.t[j].id \in m.active})
    IN  IF tape.terminal \/ ~m.changed THEN tape
        ELSE [t |-> [j \in DOMAIN live |->
                        [live[j] EXCEPT !.a = end[@], !.b = end[@]]],
              i |-> end[tape.i], type |-> type, region |-> region,
              terminal |-> m.terminal, parent |-> a]

PushInterval(a, r) ==
    LET i == Intervals(heap[a], r)
    IN  Push(a, [c \in Range(heap[a].t) |-> KeepInInterval(c, i)], "interval", r)

PushPoint(a, p) ==
    LET v == Values(heap[a], p)
    IN  Push(a, [c \in Range(heap[a].t) |-> KeepAtPoint(c, v)], "specialized",
             [lower |-> 0, upper |-> 0])

(* Mutant: the parent is taken, whatever it is good for. *)
GetParent(a, r) == IF heap[a].parent = None THEN a ELSE heap[a].parent

FitsIn(r, b) ==
    /\ heap[b].type = "interval"
    /\ heap[b].region.lower <= r.lower /\ r.upper <= heap[b].region.upper

(* Tape::getBase, for a region or for a point, which is a region too. *)
GetBase(a, r) ==
    LET base[b \in Addr] ==
            IF heap[b].parent = None \/ FitsIn(r, b) THEN b ELSE base[heap[b].parent]
    IN  base[a]

-----------------------------------------------------------------------------
(* What shared pointers keep: a tape keeps the tape it was made from. *)
Ancestors(a) ==
    LET up[b \in Addr] == {b} \cup IF heap[b].parent = None THEN {} ELSE up[heap[b].parent]
    IN  up[a]

Base == CHOOSE a \in Addr : TRUE

InUse == (UNION {Ancestors(task.tape) : task \in tasks}) \cup {Base}

Spare == UNION {Range(spares[e]) : e \in Evaluator}

Allocated == InUse \cup UNION {Ancestors(a) : a \in Spare}

(* The last spare is used again, else a tape is allocated, no matter where. *)
Place(e, a) ==
    \/ spares[e] # <<>> /\ a = Last(spares[e])
    \/ spares[e] = <<>> /\ a \notin Allocated /\ a = CHOOSE b \in Addr \ Allocated : TRUE

Unspared(e) == IF spares[e] = <<>> THEN <<>> ELSE Front(spares[e])

-----------------------------------------------------------------------------
(* The cells *)

Middle(r) == (r.lower + r.upper) \div 2

Subdivide(r) ==
    {[lower |-> r.lower, upper |-> Middle(r)], [lower |-> Middle(r), upper |-> r.upper]}

IsLeaf(r) == r.upper - r.lower = 1

(* Mutant: a tape is claimed, whether the push has made it or not. *)
ClaimAny(e, task, pushed) ==
    IF pushed = heap[task.tape]
    THEN spares' = [spares EXCEPT ![e] = Append(@, task.tape)] /\ UNCHANGED heap
    ELSE \E a \in Addr :
            /\ Place(e, a)
            /\ heap' = [heap EXCEPT ![a] = pushed]
            /\ spares' = [spares EXCEPT ![e] = Append(Unspared(e), a)]

(* Deck::claim of a tape that has only been pushed to be looked at. *)
Claim(e, task, pushed) ==
    IF pushed = heap[task.tape] THEN UNCHANGED <<heap, spares>>
    ELSE \E a \in Addr :
            /\ Place(e, a)
            /\ heap' = [heap EXCEPT ![a] = pushed]
            /\ spares' = [spares EXCEPT ![e] = Append(Unspared(e), a)]

Descend(e, task, pushed) ==
    \E a \in Addr :
        /\ IF pushed = heap[task.tape] THEN a = task.tape /\ UNCHANGED <<heap, spares>>
           ELSE /\ Place(e, a)
                /\ heap' = [heap EXCEPT ![a] = pushed]
                /\ spares' = [spares EXCEPT ![e] = Unspared(e)]
        /\ tasks' = (tasks \ {task})
                    \cup {[region |-> r, tape |-> a] : r \in Subdivide(task.region)}

(* evalInterval: the children of an ambiguous cell get the new tape, that   *)
(* of a uniform cell becomes a spare.                                       *)
EvalInterval(e, task) ==
    LET r == task.region
        pushed == PushInterval(task.tape, r)
    IN  /\ ~IsLeaf(r)
        /\ IF State(Intervals(heap[task.tape], r)[heap[task.tape].i]) = "ambiguous"
           THEN Descend(e, task, pushed)
           ELSE Claim(e, task, pushed) /\ tasks' = tasks \ {task}
        /\ UNCHANGED deck

(* A corner on the surface where a choice is not decided. *)
Ambiguous(tape, p) ==
    LET v == Values(tape, p)
    IN  v[tape.i] = 0 /\ \E c \in Range(tape.t) : c.op \in Selective /\ v[c.a] = v[c.b]

(* evalLeaf, its third phase: isInside() specialises the tape for one       *)
(* ambiguous corner after the other, and claims it each time.               *)
EvalLeaf(e, task) ==
    LET tape == heap[task.tape]
        corners == {p \in {task.region.lower, task.region.upper} :
                       Ambiguous(tape, p) /\ PushPoint(task.tape, p) # tape}
    IN  /\ IsLeaf(task.region)
        /\ IF corners = {} THEN UNCHANGED <<heap, spares>>
           ELSE Claim(e, task, PushPoint(task.tape, Max(corners)))
        /\ tasks' = tasks \ {task}
        /\ UNCHANGED deck

-----------------------------------------------------------------------------
Whole == [lower |-> 0, upper |-> Size]

BaseTape(d) ==
    [t |-> d.clauses, i |-> 1, type |-> "base", region |-> Whole,
     terminal |-> FALSE, parent |-> None]

Init ==
    /\ deck \in Decks
    /\ heap = [a \in Addr |-> BaseTape(deck)]
    /\ spares = [e \in Evaluator |-> <<>>]
    /\ tasks = {[region |-> Whole, tape |-> Base]}

Next == \E e \in Evaluator, task \in tasks : EvalInterval(e, task) \/ EvalLeaf(e, task)

Spec == Init /\ [][Next]_vars

-----------------------------------------------------------------------------
(* Properties *)

Points(r) == r.lower .. r.upper

Feature(tape, p) ==
    LET constant == [n \in DOMAIN deck.constant |-> [value |-> deck.constant[n], from |-> {n}]]
    IN  Results(tape, Leaves(constant, [value |-> p, from |-> {deck.x}],
                             [value |-> 1000, from |-> {}]), "features")[tape.i]

Exact(tape, ps) == \A p \in ps : Feature(tape, p) = Feature(heap[Base], p)

(* In its region a shortened tape gives what the whole shape gives, after   *)
(* any number of pushes and in tapes that were written again.               *)
TapesAreExact == \A a \in InUse : Exact(heap[a], Points(heap[a].region))

(* deck.hpp leaves the results of clauses that a tape does not hold as they *)
(* were: no clause of a tape, and not its root, reads one.                  *)
NothingStaleIsRead ==
    \A a \in InUse :
        LET t == heap[a].t
            After(j) == {t[k].id : k \in j + 1 .. Len(t)}
        IN  /\ heap[a].i \in LeafIds(deck) \cup After(0)
            /\ \A j \in DOMAIN t : {t[j].a, t[j].b} \subseteq LeafIds(deck) \cup After(j)

(* The cells that a cell is in. *)
Enclosing(r) ==
    {c \in {[lower |-> k * n, upper |-> (k + 1) * n] : n \in 1 .. Size, k \in 0 .. Size - 1} :
        c.lower <= r.lower /\ r.upper <= c.upper /\ c.upper <= Size}

(* On the way up a worker evaluates its tape's base for the larger cell, at *)
(* a vertex that may be outside of the cell: whatever the place, the base   *)
(* that it gets is exact there.                                             *)
BasesAreExact ==
    \A task \in tasks :
        /\ \A p \in Points(Whole) : Exact(heap[GetBase(task.tape, [lower |-> p, upper |-> p])], {p})
        /\ \A r \in Enclosing(task.region) : Exact(heap[GetBase(task.tape, r)], Points(r))

(* What isInside() looks at is exact at its point, both sides of a tie      *)
(* included: no matter which tape is specialised.                           *)
SpecialisedIsExact ==
    \A task \in tasks : \A p \in Points(task.region) : Exact(PushPoint(task.tape, p), {p})

(* A tape that will be written again is not the tape of a cell, nor one     *)
(* that such a tape goes back to, and nobody else has it as a spare.        *)
SparesAreUnused ==
    /\ Spare \cap InUse = {}
    /\ \A e \in Evaluator : IsInjective(spares[e])
    /\ \A e, f \in Evaluator : e # f => Range(spares[e]) \cap Range(spares[f]) = {}

(* A cell that interval arithmetic finds empty or filled is so at each of   *)
(* its points, although a shortened tape was evaluated.                     *)
UniformCellsAreUniform ==
    \A task \in tasks :
        LET tape == heap[task.tape]
            state == State(Intervals(tape, task.region)[tape.i])
        IN  \A p \in Points(task.region) :
               /\ state = "empty" => Value(heap[Base], p) > 0
               /\ state = "filled" => Value(heap[Base], p) < 0
=============================================================================
