----------------------------- MODULE TapesProofs -----------------------------
(***************************************************************************)
(* Proofs about Tapes, for any shape, any number of workers, any size of   *)
(* the root cell and any memory: however tapes are shortened, shared and   *)
(* written again, each gives in its region what the whole shape gives.     *)
(***************************************************************************)
EXTENDS Tapes, SequenceTheorems, WellFoundedInduction, TLAPS

-----------------------------------------------------------------------------
(* Induction and recursion.  What is defined by recursion is what the       *)
(* recursion says only if it has a solution.                                *)

NatLess == {ss \in Nat \X Nat : ss[1] < ss[2]}

(* A set that holds zero and with a number the next holds all numbers.      *)
LEMMA Induction ==
    ASSUME NEW S, 0 \in S, \A n \in Nat : n \in S => n + 1 \in S
    PROVE  Nat \subseteq S
<1>. DEFINE out == Nat \ S
<1>. SUFFICES ASSUME out # {}
              PROVE  FALSE
    OBVIOUS
<1>1. IsWellFoundedOn(NatLess, Nat)
    BY NatLessThanWellFounded DEF OpToRel, NatLess
<1>2. \E x \in out : \A y \in out : <<y, x>> \notin NatLess
    <2>1. out \subseteq Nat
        OBVIOUS
    <2>. HIDE DEF out
    <2>. QED  BY <1>1, <2>1, WFMin, Zenon
<1>3. PICK x \in out : \A y \in out : <<y, x>> \notin NatLess
    BY <1>2
<1>4. x \in Nat /\ x # 0
    BY <1>3
<1>5. x - 1 \in Nat /\ x - 1 \in out
    BY <1>3, <1>4
<1>6. <<x - 1, x>> \in NatLess
    BY <1>4, <1>5 DEF NatLess
<1>. QED  BY <1>3, <1>5, <1>6

(* From the largest number down.                                            *)
LEMMA Descent ==
    ASSUME NEW N \in Nat, NEW S,
           \A n \in 0 .. N : (\A m \in 0 .. N : m > n => m \in S) => n \in S
    PROVE  0 .. N \subseteq S
<1>. DEFINE D == {k \in Nat : \A m \in 0 .. N : m + k > N => m \in S}
<1>1. 0 \in D
    OBVIOUS
<1>2. ASSUME NEW k \in Nat, k \in D
      PROVE  k + 1 \in D
    <2>1. SUFFICES ASSUME NEW n \in 0 .. N, n + (k + 1) > N
                   PROVE  n \in S
        OBVIOUS
    <2>2. \A m \in 0 .. N : m > n => m \in S
        BY <1>2, <2>1
    <2>. QED  BY <2>2
<1>3. N + 1 \in D
    <2>. HIDE DEF D
    <2>. QED  BY <1>1, <1>2, Induction
<1>. QED  BY <1>3

(* So many steps from base, each of which stays in V.                       *)
Stepped(f, N, base, step) ==
    f = [k \in 0 .. N |-> IF k = 0 THEN base ELSE step[k][f[k - 1]]]

LEMMA StepsExist ==
    ASSUME NEW N \in Nat, NEW V, NEW base \in V, NEW step,
           \A k \in 1 .. N : \A v \in V : step[k][v] \in V
    PROVE  \E f : Stepped(f, N, base, step) /\ \A k \in 0 .. N : f[k] \in V
<1>. DEFINE S == {n \in Nat : \E f : Stepped(f, n, base, step)}
<1>1. 0 \in S
    <2>1. Stepped([k \in 0 .. 0 |-> base], 0, base, step)
        BY DEF Stepped
    <2>. QED  BY <2>1
<1>2. ASSUME NEW n \in Nat, n \in S
      PROVE  n + 1 \in S
    <2>1. PICK f : Stepped(f, n, base, step)
        BY <1>2
    <2>. DEFINE g == [k \in 0 .. n + 1 |-> IF k <= n THEN f[k] ELSE step[k][f[k - 1]]]
    <2>2. \A k \in 0 .. n : f[k] = IF k = 0 THEN base ELSE step[k][f[k - 1]]
        BY <2>1 DEF Stepped
    <2>3. \A k \in 0 .. n + 1 : g[k] = IF k = 0 THEN base ELSE step[k][g[k - 1]]
        <3>. TAKE k \in 0 .. n + 1
        <3>1. CASE k = 0
            BY <2>2, <3>1
        <3>2. CASE k # 0
            <4>1. k - 1 \in 0 .. n /\ g[k - 1] = f[k - 1]
                BY <3>2
            <4>. QED  BY <2>2, <3>2, <4>1
        <3>. QED  BY <3>1, <3>2
    <2>4. g = [k \in 0 .. n + 1 |-> g[k]]
        OBVIOUS
    <2>5. Stepped(g, n + 1, base, step)
        <3>. HIDE DEF g
        <3>. QED  BY <2>3, <2>4 DEF Stepped
    <2>. HIDE DEF g
    <2>. QED  BY <2>5
<1>3. N \in S
    <2>. HIDE DEF S
    <2>. QED  BY <1>1, <1>2, Induction
<1>4. PICK f : Stepped(f, N, base, step)
    BY <1>3
<1>5. \A k \in 0 .. N : f[k] = IF k = 0 THEN base ELSE step[k][f[k - 1]]
    BY <1>4 DEF Stepped
<1>. DEFINE T == {k \in Nat : k <= N => f[k] \in V}
<1>6. 0 \in T
    BY <1>5
<1>7. ASSUME NEW k \in Nat, k \in T
      PROVE  k + 1 \in T
    <2>1. SUFFICES ASSUME k + 1 <= N
                   PROVE  f[k + 1] \in V
        OBVIOUS
    <2>2. f[k + 1] = step[k + 1][f[k]] /\ f[k] \in V
        BY <1>5, <1>7, <2>1
    <2>. QED  BY <2>1, <2>2
<1>8. Nat \subseteq T
    <2>. HIDE DEF T
    <2>. QED  BY <1>6, <1>7, Induction
<1>. QED  BY <1>4, <1>8

-----------------------------------------------------------------------------
(* Chains: from b on to next[b] until a place in stop.                      *)

Chain(D, stop, next, b) ==
    {x \in D : \A S \in SUBSET D :
        b \in S /\ (\A y \in S : y \notin stop => next[y] \in S) => x \in S}

LEMMA ChainIs ==
    ASSUME NEW D, NEW stop, NEW next, \A y \in D : y \notin stop => next[y] \in D,
           NEW b \in D
    PROVE  /\ b \in stop => Chain(D, stop, next, b) = {b}
           /\ b \notin stop => Chain(D, stop, next, b) = {b} \cup Chain(D, stop, next, next[b])
<1>. DEFINE Closed(S) == \A y \in S : y \notin stop => next[y] \in S
<1>0. \A c \in D : Chain(D, stop, next, c) = {x \in D : \A S \in SUBSET D : c \in S /\ Closed(S) => x \in S}
    BY DEF Chain
<1>1. ASSUME b \in stop
      PROVE  Chain(D, stop, next, b) = {b}
    <2>1. Closed({b}) /\ {b} \in SUBSET D
        BY <1>1
    <2>. QED  BY <1>0, <2>1
<1>2. ASSUME b \notin stop
      PROVE  Chain(D, stop, next, b) = {b} \cup Chain(D, stop, next, next[b])
    <2>0. next[b] \in D
        BY <1>2
    <2>1. ASSUME NEW x \in Chain(D, stop, next, b), x # b
          PROVE  x \in Chain(D, stop, next, next[b])
        <3>1. x \in D
            BY <1>0
        <3>2. SUFFICES ASSUME NEW S \in SUBSET D, next[b] \in S, Closed(S)
                       PROVE  x \in S
            BY <1>0, <2>0, <3>1
        <3>3. S \cup {b} \in SUBSET D /\ Closed(S \cup {b})
            BY <3>2
        <3>4. x \in S \cup {b}
            <4>. HIDE DEF Closed
            <4>. QED  BY <1>0, <2>1, <3>3
        <3>. QED  BY <2>1, <3>4
    <2>2. ASSUME NEW x \in Chain(D, stop, next, next[b])
          PROVE  x \in Chain(D, stop, next, b)
        <3>1. x \in D
            BY <1>0, <2>0
        <3>2. SUFFICES ASSUME NEW S \in SUBSET D, b \in S, Closed(S)
                       PROVE  x \in S
            BY <1>0, <3>1
        <3>3. next[b] \in S
            BY <1>2, <3>2
        <3>. QED  BY <1>0, <2>0, <2>2, <3>2, <3>3
    <2>3. b \in Chain(D, stop, next, b)
        BY <1>0
    <2>. QED  BY <2>1, <2>2, <2>3
<1>. QED  BY <1>1, <1>2

ChainEnds(f, D, stop, next) == f = [b \in D |-> IF b \in stop THEN b ELSE f[next[b]]]

(* What is at the end of the chain, or any one thing when it has no end.    *)
LEMMA EndsExist ==
    ASSUME NEW D, NEW stop, NEW next, \A y \in D : y \notin stop => next[y] \in D
    PROVE  \E f : ChainEnds(f, D, stop, next)
<1>. DEFINE C(b) == Chain(D, stop, next, b)
            f == [b \in D |-> CHOOSE x : x \in C(b) \cap stop]
<1>1. \A b \in D : b \in stop => C(b) \cap stop = {b}
    BY ChainIs
<1>2. \A b \in D : b \notin stop => next[b] \in D /\ C(b) \cap stop = C(next[b]) \cap stop
    BY ChainIs
<1>3. \A b \in D : f[b] = IF b \in stop THEN b ELSE f[next[b]]
    <2>. HIDE DEF C
    <2>. QED  BY <1>1, <1>2
<1>4. f = [b \in D |-> f[b]]
    OBVIOUS
<1>5. ChainEnds(f, D, stop, next)
    <2>. HIDE DEF f
    <2>. QED  BY <1>3, <1>4 DEF ChainEnds
<1>. HIDE DEF f
<1>. QED  BY <1>5

OnChain(f, D, stop, next) ==
    f = [b \in D |-> {b} \cup IF b \in stop THEN {} ELSE f[next[b]]]

(* What is on the chain.                                                    *)
LEMMA ChainsExist ==
    ASSUME NEW D, NEW stop, NEW next, \A y \in D : y \notin stop => next[y] \in D
    PROVE  \E f : OnChain(f, D, stop, next)
<1>. DEFINE f == [b \in D |-> Chain(D, stop, next, b)]
<1>1. \A b \in D : f[b] = {b} \cup IF b \in stop THEN {} ELSE f[next[b]]
    BY ChainIs
<1>2. f = [b \in D |-> f[b]]
    OBVIOUS
<1>3. OnChain(f, D, stop, next)
    <2>. HIDE DEF f
    <2>. QED  BY <1>1, <1>2 DEF OnChain
<1>. HIDE DEF f
<1>. QED  BY <1>3

-----------------------------------------------------------------------------
(* Evaluation *)

Arithmetics == {"numbers", "intervals", "features"}

Kind(arithmetic) ==
    CASE arithmetic = "numbers" -> Int
      [] arithmetic = "intervals" -> [lower : Int, upper : Int]
      [] arithmetic = "features" -> [value : Int, from : SUBSET Ids]

Clause == [op : Opcodes, id : Ids \ LeafIds(deck), a : Ids, b : Ids]

TapeOK(tape) == IsTape(deck, tape.t, tape.i)

ClauseIds(tape) == {tape.t[j].id : j \in DOMAIN tape.t}

LEMMA DeckFacts ==
    ASSUME deck \in Decks
    PROVE  /\ deck.count \in Nat /\ 0 \in Ids /\ Ids \subseteq Nat
           /\ deck.x \in Ids /\ deck.x # 0 /\ deck.x \notin DOMAIN deck.constant
           /\ DOMAIN deck.constant \subseteq Ids \ {0}
           /\ \A n \in DOMAIN deck.constant : deck.constant[n] \in Int
           /\ LeafIds(deck) \subseteq Ids /\ 0 \in LeafIds(deck)
           /\ TapeOK(BaseTape(deck))
    BY TapesAssumption DEF Ids, LeafIds, TapeOK, BaseTape

(* The parts of TapeOK as they are used. *)
LEMMA TapeFacts ==
    ASSUME deck \in Decks, NEW tape, TapeOK(tape)
    PROVE  /\ tape.t \in Seq(Clause) /\ Len(tape.t) \in Nat
           /\ DOMAIN tape.t = 1 .. Len(tape.t)
           /\ tape.i \in LeafIds(deck) \cup ClauseIds(tape) /\ tape.i \in Ids
           /\ \A j, k \in DOMAIN tape.t : j < k => tape.t[j].id < tape.t[k].id
           /\ ClauseIds(tape) \subseteq Ids \ LeafIds(deck)
           /\ \A j \in DOMAIN tape.t :
                 /\ tape.t[j] \in Clause
                 /\ tape.t[j].id \in Ids /\ tape.t[j].id # 0
                 /\ \A n \in {tape.t[j].a, tape.t[j].b} :
                       /\ n \in LeafIds(deck) \cup ClauseIds(tape) /\ n \in Ids
                       /\ n > tape.t[j].id \/ (n = 0 /\ tape.t[j].op \notin Selective)
<1>1. (1 .. deck.count) \ LeafIds(deck) = Ids \ LeafIds(deck)
    BY DeckFacts DEF Ids
<1>2. tape.t \in Seq(Clause)
    BY <1>1 DEF TapeOK, IsTape, Clause, Ids
<1>3. {c.id : c \in Range(tape.t)} = ClauseIds(tape)
    BY DEF Range, ClauseIds
<1>4. /\ Len(tape.t) \in Nat /\ DOMAIN tape.t = 1 .. Len(tape.t)
      /\ \A j \in DOMAIN tape.t : tape.t[j] \in Clause /\ tape.t[j] \in Range(tape.t)
    BY <1>2 DEF Range
<1>5. ClauseIds(tape) \subseteq Ids \ LeafIds(deck)
    BY <1>4 DEF ClauseIds, Clause
<1>6. /\ tape.i \in LeafIds(deck) \cup ClauseIds(tape)
      /\ \A j, k \in DOMAIN tape.t : j < k => tape.t[j].id < tape.t[k].id
      /\ \A c \in Range(tape.t) : \A n \in {c.a, c.b} :
            /\ n \in LeafIds(deck) \cup ClauseIds(tape)
            /\ n > c.id \/ (n = 0 /\ c.op \notin Selective)
    BY <1>3 DEF TapeOK, IsTape
<1>7. \A n \in LeafIds(deck) \cup ClauseIds(tape) : n \in Ids
    BY <1>5, DeckFacts
<1>8. \A j \in DOMAIN tape.t : tape.t[j].id \in Ids /\ tape.t[j].id # 0
    BY <1>4, DeckFacts DEF Clause
<1>. QED  BY <1>2, <1>4, <1>5, <1>6, <1>7, <1>8

LEMMA ApplyTyped ==
    ASSUME NEW arithmetic \in Arithmetics, NEW op \in Opcodes,
           NEW a \in Kind(arithmetic), NEW b \in Kind(arithmetic)
    PROVE  Apply(arithmetic, op, a, b) \in Kind(arithmetic)
<1>1. CASE arithmetic = "numbers"
    BY <1>1 DEF Apply, Kind, Number, Smaller, Larger, Opcodes, Selective
<1>2. CASE arithmetic = "intervals"
    <2>1. /\ a.lower \in Int /\ a.upper \in Int /\ b.lower \in Int /\ b.upper \in Int
        BY <1>2 DEF Kind
    <2>2. a.lower * a.lower \in Int /\ a.upper * a.upper \in Int
        BY <2>1
    <2>3. Interval(op, a, b) \in [lower : Int, upper : Int]
        BY <2>1, <2>2 DEF Interval, Square, Smaller, Larger, Opcodes, Selective
    <2>. QED  BY <1>2, <2>3 DEF Apply, Kind
<1>3. CASE arithmetic = "features"
    <2>1. a.value \in Int /\ a.from \subseteq Ids /\ b.value \in Int /\ b.from \subseteq Ids
        BY <1>3 DEF Kind
    <2>2. Number(op, a.value, b.value) \in Int
        BY <2>1 DEF Number, Smaller, Larger, Opcodes, Selective
    <2>3. Features(op, a, b) \in [value : Int, from : SUBSET Ids]
        BY <2>1, <2>2 DEF Features
    <2>. QED  BY <1>3, <2>3 DEF Apply, Kind
<1>. QED  BY <1>1, <1>2, <1>3 DEF Arithmetics

(* Every clause has the result of its operands, all else is as it was.      *)
Solves(arithmetic, tape, leaves, R) ==
    /\ R \in [Ids -> Kind(arithmetic)]
    /\ \A n \in Ids \ ClauseIds(tape) : R[n] = leaves[n]
    /\ \A j \in DOMAIN tape.t :
          R[tape.t[j].id] = Apply(arithmetic, tape.t[j].op, R[tape.t[j].a], R[tape.t[j].b])

(* f[k] are the results when k clauses are evaluated.                       *)
Evaluates(arithmetic, tape, leaves, f) ==
    f = [k \in 0 .. Len(tape.t) |->
            IF k = 0 THEN leaves ELSE Assign(arithmetic, tape.t[Len(tape.t) + 1 - k], f[k - 1])]

LEMMA AssignTyped ==
    ASSUME deck \in Decks, NEW arithmetic \in Arithmetics,
           NEW c \in Clause, NEW R \in [Ids -> Kind(arithmetic)]
    PROVE  /\ Assign(arithmetic, c, R) \in [Ids -> Kind(arithmetic)]
           /\ Assign(arithmetic, c, R)[c.id] = Apply(arithmetic, c.op, R[c.a], R[c.b])
           /\ \A n \in Ids : n # c.id => Assign(arithmetic, c, R)[n] = R[n]
<1>1. c.id \in Ids /\ c.a \in Ids /\ c.b \in Ids /\ c.op \in Opcodes
    BY DEF Clause
<1>2. Apply(arithmetic, c.op, R[c.a], R[c.b]) \in Kind(arithmetic)
    BY <1>1, ApplyTyped
<1>. QED  BY <1>1, <1>2 DEF Assign

LEMMA EvaluationExists ==
    ASSUME deck \in Decks, NEW tape, TapeOK(tape), NEW arithmetic \in Arithmetics,
           NEW leaves \in [Ids -> Kind(arithmetic)]
    PROVE  \E f : Evaluates(arithmetic, tape, leaves, f)
<1>. DEFINE N == Len(tape.t)
            V == [Ids -> Kind(arithmetic)]
            step == [k \in 1 .. N |-> [v \in V |-> Assign(arithmetic, tape.t[N + 1 - k], v)]]
<1>1. N \in Nat /\ \A k \in 1 .. N : N + 1 - k \in DOMAIN tape.t /\ tape.t[N + 1 - k] \in Clause
    BY TapeFacts
<1>2. \A k \in 1 .. N : \A v \in V : step[k][v] \in V
    BY <1>1, AssignTyped
<1>3. PICK f : Stepped(f, N, leaves, step) /\ \A k \in 0 .. N : f[k] \in V
    <2>. HIDE DEF N, V, step
    <2>1. leaves \in V
        BY DEF V
    <2>. QED  BY <1>1, <1>2, <2>1, StepsExist
<1>4. \A k \in 0 .. N :
         f[k] = IF k = 0 THEN leaves ELSE Assign(arithmetic, tape.t[N + 1 - k], f[k - 1])
    <2>. TAKE k \in 0 .. N
    <2>1. f[k] = IF k = 0 THEN leaves ELSE step[k][f[k - 1]]
        BY <1>3 DEF Stepped
    <2>2. CASE k = 0
        BY <2>1, <2>2
    <2>3. CASE k # 0
        <3>1. k \in 1 .. N /\ k - 1 \in 0 .. N
            BY <1>1, <2>3
        <3>2. f[k - 1] \in V
            BY <1>3, <3>1
        <3>. QED  BY <2>1, <2>3, <3>1, <3>2
    <2>. QED  BY <2>2, <2>3
<1>5. f = [k \in 0 .. N |-> f[k]]
    BY <1>3 DEF Stepped
<1>. QED  BY <1>4, <1>5 DEF Evaluates

(* Ids increase and operands have larger ids, so no result that was used is *)
(* written later.                                                           *)
LEMMA ResultsSolve ==
    ASSUME deck \in Decks, NEW tape, TapeOK(tape), NEW arithmetic \in Arithmetics,
           NEW leaves \in [Ids -> Kind(arithmetic)]
    PROVE  Solves(arithmetic, tape, leaves, Results(tape, leaves, arithmetic))
<1>. DEFINE f == CHOOSE f : Evaluates(arithmetic, tape, leaves, f)
            N == Len(tape.t)
            V == [Ids -> Kind(arithmetic)]
<1>1. Results(tape, leaves, arithmetic) = f[N]
    BY DEF Results, Evaluates
<1>2. Evaluates(arithmetic, tape, leaves, f)
    BY EvaluationExists, Zenon
<1>. HIDE DEF f
<1>3. \A k \in 0 .. N :
         f[k] = IF k = 0 THEN leaves ELSE Assign(arithmetic, tape.t[N + 1 - k], f[k - 1])
    BY <1>2 DEF Evaluates
<1>4. N \in Nat /\ DOMAIN tape.t = 1 .. N
    BY TapeFacts
<1>. HIDE DEF N
<1>. DEFINE Good(k) ==
        /\ f[k] \in V
        /\ \A n \in Ids : (\A j \in N + 1 - k .. N : n # tape.t[j].id) => f[k][n] = leaves[n]
        /\ \A j \in N + 1 - k .. N :
              f[k][tape.t[j].id] = Apply(arithmetic, tape.t[j].op, f[k][tape.t[j].a], f[k][tape.t[j].b])
<1>. DEFINE S == {k \in Nat : k <= N => Good(k)}
<1>5. 0 \in S
    BY <1>3, <1>4
<1>. HIDE DEF Good
<1>6. ASSUME NEW k \in Nat, k \in S
      PROVE  k + 1 \in S
    <2>1. SUFFICES ASSUME k + 1 <= N
                   PROVE  Good(k + 1)
        OBVIOUS
    <2>. DEFINE i == N - k
                c == tape.t[i]
    <2>2. /\ Good(k) /\ k \in 0 .. N /\ k + 1 \in 0 .. N /\ k + 1 # 0 /\ (k + 1) - 1 = k
          /\ N + 1 - (k + 1) = i /\ N + 1 - k = i + 1 /\ i \in 1 .. N
        BY <1>4, <1>6, <2>1
    <2>. HIDE DEF i
    <2>3. f[k + 1] = Assign(arithmetic, c, f[k])
        <3>. HIDE DEF c
        <3>1. f[k + 1] = Assign(arithmetic, tape.t[N + 1 - (k + 1)], f[(k + 1) - 1])
            BY <1>3, <2>2
        <3>. QED  BY <2>2, <3>1 DEF c
    <2>4. /\ c \in Clause /\ c.id \in Ids /\ c.a \in Ids /\ c.b \in Ids
          /\ c.id # c.a /\ c.id # c.b
        BY <1>4, <2>2, TapeFacts, DeckFacts
    <2>5. /\ f[k + 1] \in V
          /\ f[k + 1][c.id] = Apply(arithmetic, c.op, f[k][c.a], f[k][c.b])
          /\ \A n \in Ids : n # c.id => f[k + 1][n] = f[k][n]
        <3>1. f[k] \in [Ids -> Kind(arithmetic)]
            BY <2>2 DEF Good
        <3>. HIDE DEF c
        <3>. QED  BY <2>3, <2>4, <3>1, AssignTyped
    <2>6. ASSUME NEW n \in Ids, \A j \in i .. N : n # tape.t[j].id
          PROVE  f[k + 1][n] = leaves[n]
        <3>1. n # c.id /\ \A j \in i + 1 .. N : n # tape.t[j].id
            BY <2>2, <2>6, <1>4
        <3>2. f[k][n] = leaves[n]
            BY <2>2, <3>1 DEF Good
        <3>. HIDE DEF c
        <3>. QED  BY <2>5, <3>1, <3>2
    <2>7. ASSUME NEW j \in i .. N
          PROVE  f[k + 1][tape.t[j].id]
                    = Apply(arithmetic, tape.t[j].op, f[k + 1][tape.t[j].a], f[k + 1][tape.t[j].b])
        <3>1. CASE j = i
            BY <2>4, <2>5, <3>1
        <3>2. CASE j # i
            <4>1. j \in i + 1 .. N /\ j \in DOMAIN tape.t /\ i \in DOMAIN tape.t /\ i < j
                BY <1>4, <2>2, <3>2
            <4>2. f[k][tape.t[j].id] = Apply(arithmetic, tape.t[j].op, f[k][tape.t[j].a], f[k][tape.t[j].b])
                BY <2>2, <4>1 DEF Good
            <4>3. tape.t[j].id \in Ids /\ tape.t[j].a \in Ids /\ tape.t[j].b \in Ids
                BY <4>1, TapeFacts
            <4>4. tape.t[j].id # c.id /\ tape.t[j].a # c.id /\ tape.t[j].b # c.id
                <5>1. c.id < tape.t[j].id /\ c.id # 0
                    BY <4>1, TapeFacts
                <5>2. \A n \in {tape.t[j].a, tape.t[j].b} : n \in Ids /\ (n > tape.t[j].id \/ n = 0)
                    BY <4>1, TapeFacts
                <5>3. c.id \in Nat /\ tape.t[j].id \in Nat /\ tape.t[j].a \in Nat /\ tape.t[j].b \in Nat
                    BY <2>4, <4>3, DeckFacts
                <5>. HIDE DEF c
                <5>. QED  BY <5>1, <5>2, <5>3
            <4>. HIDE DEF c
            <4>. QED  BY <2>5, <4>2, <4>3, <4>4
        <3>. QED  BY <3>1, <3>2
    <2>. QED  BY <2>2, <2>5, <2>6, <2>7 DEF Good
<1>7. Good(N)
    <2>1. Nat \subseteq S
        <3>. HIDE DEF S
        <3>. QED  BY <1>5, <1>6, Induction
    <2>. QED  BY <1>4, <2>1
<1>8. N + 1 - N = 1
    BY <1>4
<1>9. \A n \in Ids \ ClauseIds(tape) : \A j \in 1 .. N : n # tape.t[j].id
    BY <1>4 DEF ClauseIds
<1>. QED  BY <1>1, <1>4, <1>7, <1>8, <1>9 DEF Solves, Good

(* From the leaves to the root. *)
LEMMA TapeInduction ==
    ASSUME deck \in Decks, NEW tape, TapeOK(tape), NEW S,
           \A n \in Ids \ ClauseIds(tape) : n \in S,
           \A j \in DOMAIN tape.t :
              tape.t[j].a \in S /\ tape.t[j].b \in S => tape.t[j].id \in S
    PROVE  Ids \subseteq S
<1>1. deck.count \in Nat /\ Ids = 0 .. deck.count
    BY DeckFacts DEF Ids
<1>2. 0 \in S
    BY DeckFacts, TapeFacts
<1>3. ASSUME NEW n \in 0 .. deck.count,
             \A m \in 0 .. deck.count : m > n => m \in S
      PROVE  n \in S
    <2>1. CASE n \notin ClauseIds(tape)
        BY <1>1, <2>1
    <2>2. CASE n \in ClauseIds(tape)
        <3>1. PICK j \in DOMAIN tape.t : n = tape.t[j].id
            BY <2>2 DEF ClauseIds
        <3>2. /\ tape.t[j].a \in Ids /\ (tape.t[j].a > n \/ tape.t[j].a = 0)
              /\ tape.t[j].b \in Ids /\ (tape.t[j].b > n \/ tape.t[j].b = 0)
            BY <3>1, TapeFacts
        <3>3. tape.t[j].a \in S /\ tape.t[j].b \in S
            BY <1>1, <1>2, <1>3, <3>2
        <3>. QED  BY <3>1, <3>3
    <2>. QED  BY <2>1, <2>2
<1>. QED  BY <1>1, <1>3, Descent

-----------------------------------------------------------------------------
(* The three kinds of evaluation agree. *)

NumberLeaves(p) == Leaves(deck.constant, p, 1000)

IntervalLeaves(r) == Leaves([n \in DOMAIN deck.constant |-> At(deck.constant[n])], r, At(1000))

FeatureLeaves(p) ==
    Leaves([n \in DOMAIN deck.constant |-> [value |-> deck.constant[n], from |-> {n}]],
           [value |-> p, from |-> {deck.x}], [value |-> 1000, from |-> {}])

AllFeatures(tape, p) == Results(tape, FeatureLeaves(p), "features")

Region == [lower : Int, upper : Int]

LEMMA ValuesSolve ==
    ASSUME deck \in Decks, NEW tape, TapeOK(tape), NEW p \in Int
    PROVE  Solves("numbers", tape, NumberLeaves(p), Values(tape, p))
<1>1. NumberLeaves(p) \in [Ids -> Kind("numbers")]
    BY DeckFacts DEF NumberLeaves, Leaves, Kind
<1>2. "numbers" \in Arithmetics
    BY DEF Arithmetics
<1>. QED  BY <1>1, <1>2, ResultsSolve DEF Values, NumberLeaves

LEMMA IntervalsSolve ==
    ASSUME deck \in Decks, NEW tape, TapeOK(tape), NEW r \in Region
    PROVE  Solves("intervals", tape, IntervalLeaves(r), Intervals(tape, r))
<1>1. IntervalLeaves(r) \in [Ids -> Kind("intervals")]
    BY DeckFacts DEF IntervalLeaves, Leaves, Kind, Region, At
<1>2. "intervals" \in Arithmetics
    BY DEF Arithmetics
<1>. QED  BY <1>1, <1>2, ResultsSolve DEF Intervals, IntervalLeaves

LEMMA FeaturesSolve ==
    ASSUME deck \in Decks, NEW tape, TapeOK(tape), NEW p \in Int
    PROVE  Solves("features", tape, FeatureLeaves(p), AllFeatures(tape, p))
<1>1. FeatureLeaves(p) \in [Ids -> Kind("features")]
    BY DeckFacts DEF FeatureLeaves, Leaves, Kind
<1>2. "features" \in Arithmetics
    BY DEF Arithmetics
<1>. QED  BY <1>1, <1>2, ResultsSolve DEF AllFeatures

Within(v, i) == i.lower <= v /\ v <= i.upper

LEMMA Squares ==
    ASSUME NEW x \in Int, NEW y \in Int, 0 <= x, x <= y
    PROVE  x * x <= y * y
<1>1. x * x <= x * y
    OBVIOUS
<1>2. x * y <= y * y
    OBVIOUS
<1>3. x * x \in Int /\ x * y \in Int /\ y * y \in Int
    OBVIOUS
<1>. QED  BY <1>1, <1>2, <1>3

LEMMA SquareSound ==
    ASSUME NEW a \in Region, NEW x \in Int, Within(x, a)
    PROVE  Within(x * x, Square(a))
<1>. DEFINE l == a.lower * a.lower
            u == a.upper * a.upper
            v == x * x
<1>1. a.lower \in Int /\ a.upper \in Int /\ a.lower <= x /\ x <= a.upper
    BY DEF Region, Within
<1>2. l \in Int /\ u \in Int /\ v \in Int /\ 0 <= v
    BY <1>1
<1>3. 0 <= x => v <= u
    BY <1>1, Squares
<1>4. x <= 0 => v <= l
    <2>1. -x \in Int /\ -a.lower \in Int /\ (-x) * (-x) = v /\ (-a.lower) * (-a.lower) = l
        BY <1>1
    <2>. HIDE DEF v, l
    <2>. QED  BY <1>1, <2>1, Squares
<1>5. 0 < a.lower => l <= v
    BY <1>1, Squares
<1>6. a.upper < 0 => u <= v
    <2>1. -x \in Int /\ -a.upper \in Int /\ (-x) * (-x) = v /\ (-a.upper) * (-a.upper) = u
        BY <1>1
    <2>. HIDE DEF v, u
    <2>. QED  BY <1>1, <2>1, Squares
<1>7. /\ Square(a).lower = IF a.lower <= 0 /\ 0 <= a.upper THEN 0 ELSE Smaller(l, u)
      /\ Square(a).upper = Larger(l, u)
    BY DEF Square
<1>. HIDE DEF l, u, v
<1>8. v <= Larger(l, u)
    BY <1>1, <1>2, <1>3, <1>4 DEF Larger
<1>9. (a.lower <= 0 /\ 0 <= a.upper) \/ Smaller(l, u) <= v
    BY <1>1, <1>2, <1>5, <1>6 DEF Smaller
<1>10. Square(a).lower <= v /\ v <= Square(a).upper
    BY <1>2, <1>7, <1>8, <1>9
<1>. QED  BY <1>10 DEF Within, v

LEMMA IntervalSound ==
    ASSUME NEW op \in Opcodes, NEW a \in Region, NEW b \in Region,
           NEW x \in Int, NEW y \in Int, Within(x, a), Within(y, b)
    PROVE  Within(Number(op, x, y), Interval(op, a, b))
<1>1. CASE op = "square"
    BY <1>1, SquareSound DEF Number, Interval
<1>2. CASE op # "square"
    BY <1>2 DEF Number, Interval, Within, Region, Smaller, Larger, Opcodes, Selective
<1>. QED  BY <1>1, <1>2

(* Each clause's value at a point of a region is in its interval.           *)
LEMMA IntervalsHoldValues ==
    ASSUME deck \in Decks, NEW tape, TapeOK(tape), NEW r \in Region, NEW p \in Int, Within(p, r)
    PROVE  \A n \in Ids : /\ Values(tape, p)[n] \in Int
                          /\ Intervals(tape, r)[n] \in Region
                          /\ Within(Values(tape, p)[n], Intervals(tape, r)[n])
<1>. DEFINE v == Values(tape, p)
            i == Intervals(tape, r)
            S == {n \in Ids : Within(v[n], i[n])}
<1>1. Solves("numbers", tape, NumberLeaves(p), v) /\ Solves("intervals", tape, IntervalLeaves(r), i)
    BY ValuesSolve, IntervalsSolve
<1>. HIDE DEF v, i
<1>2. \A n \in Ids : v[n] \in Int /\ i[n] \in Region
    BY <1>1 DEF Solves, Kind, Region
<1>3. ASSUME NEW n \in Ids \ ClauseIds(tape)
      PROVE  n \in S
    <2>1. v[n] = NumberLeaves(p)[n] /\ i[n] = IntervalLeaves(r)[n]
        BY <1>1 DEF Solves
    <2>2. Within(NumberLeaves(p)[n], IntervalLeaves(r)[n])
        BY DeckFacts DEF NumberLeaves, IntervalLeaves, Leaves, Within, At
    <2>. QED  BY <2>1, <2>2
<1>4. ASSUME NEW j \in DOMAIN tape.t, tape.t[j].a \in S, tape.t[j].b \in S
      PROVE  tape.t[j].id \in S
    <2>. DEFINE c == tape.t[j]
    <2>1. c.op \in Opcodes /\ c.id \in Ids /\ c.a \in S /\ c.b \in S
        BY <1>4, TapeFacts DEF Clause
    <2>2. /\ v[c.id] = Number(c.op, v[c.a], v[c.b])
          /\ i[c.id] = Interval(c.op, i[c.a], i[c.b])
        BY <1>1 DEF Solves, Apply
    <2>. HIDE DEF c
    <2>3. Within(v[c.id], i[c.id])
        BY <1>2, <2>1, <2>2, IntervalSound
    <2>. QED  BY <2>1, <2>3 DEF c
<1>5. Ids \subseteq S
    <2>. HIDE DEF S
    <2>. QED  BY <1>3, <1>4, TapeInduction
<1>. QED  BY <1>2, <1>5 DEF v, i

(* The features of a clause say what its value is.                          *)
LEMMA FeaturesHoldValues ==
    ASSUME deck \in Decks, NEW tape, TapeOK(tape), NEW p \in Int
    PROVE  \A n \in Ids : /\ AllFeatures(tape, p)[n] \in Kind("features")
                          /\ Values(tape, p)[n] \in Int
                          /\ AllFeatures(tape, p)[n].value = Values(tape, p)[n]
<1>. DEFINE v == Values(tape, p)
            F == AllFeatures(tape, p)
            S == {n \in Ids : F[n].value = v[n]}
<1>1. Solves("numbers", tape, NumberLeaves(p), v) /\ Solves("features", tape, FeatureLeaves(p), F)
    BY ValuesSolve, FeaturesSolve
<1>. HIDE DEF v, F
<1>2. \A n \in Ids : v[n] \in Int /\ F[n] \in Kind("features")
    BY <1>1 DEF Solves, Kind
<1>3. ASSUME NEW n \in Ids \ ClauseIds(tape)
      PROVE  n \in S
    <2>1. v[n] = NumberLeaves(p)[n] /\ F[n] = FeatureLeaves(p)[n]
        BY <1>1 DEF Solves
    <2>2. FeatureLeaves(p)[n].value = NumberLeaves(p)[n]
        BY DeckFacts DEF NumberLeaves, FeatureLeaves, Leaves
    <2>. QED  BY <2>1, <2>2
<1>4. ASSUME NEW j \in DOMAIN tape.t, tape.t[j].a \in S, tape.t[j].b \in S
      PROVE  tape.t[j].id \in S
    <2>. DEFINE c == tape.t[j]
    <2>1. c.op \in Opcodes /\ c.id \in Ids /\ c.a \in S /\ c.b \in S
        BY <1>4, TapeFacts DEF Clause
    <2>2. /\ v[c.id] = Number(c.op, v[c.a], v[c.b])
          /\ F[c.id] = Features(c.op, F[c.a], F[c.b])
        BY <1>1 DEF Solves, Apply
    <2>. HIDE DEF c
    <2>3. F[c.id].value = v[c.id]
        BY <2>1, <2>2 DEF Features
    <2>. QED  BY <2>1, <2>3 DEF c
<1>5. Ids \subseteq S
    <2>. HIDE DEF S
    <2>. QED  BY <1>3, <1>4, TapeInduction
<1>. QED  BY <1>2, <1>5 DEF v, F

-----------------------------------------------------------------------------
(* Marking: what is decided is replaced, what is seen is active or replaced.*)

Chosen(keep, c) == keep[c] \in {"A", "B"}

Kept(keep, c) == IF keep[c] = "A" THEN c.a ELSE c.b

(* Only a min or a max is decided. *)
Keeps(tape, keep) == \A j \in DOMAIN tape.t : Chosen(keep, tape.t[j]) => tape.t[j].op \in Selective

MarkType == [active : SUBSET Ids, remap : [Ids -> Ids], changed : BOOLEAN, terminal : BOOLEAN]

Seen(m) == m.active \cup {n \in Ids : m.remap[n] # 0}

ClauseMarked(keep, m, c) ==
    IF Chosen(keep, c)
    THEN c.id \notin m.active /\ m.remap[c.id] = Kept(keep, c) /\ Kept(keep, c) \in Seen(m)
    ELSE c.id \in m.active /\ m.remap[c.id] = 0 /\ c.a \in Seen(m) /\ c.b \in Seen(m)

(* m marks the first k clauses. *)
Marked(tape, keep, m, k) ==
    /\ m \in MarkType
    /\ tape.i \in Seen(m)
    /\ \A j \in 1 .. k : tape.t[j].id \in Seen(m) => ClauseMarked(keep, m, tape.t[j])
    /\ \A n \in Ids : m.remap[n] # 0 =>
          \E j \in 1 .. k : /\ tape.t[j].id = n /\ Chosen(keep, tape.t[j])
                            /\ m.remap[n] = Kept(keep, tape.t[j])

Visited(tape, keep, f) ==
    f = [k \in 0 .. Len(tape.t) |->
            IF k = 0 THEN [active |-> {tape.i}, remap |-> Inactive,
                           changed |-> FALSE, terminal |-> TRUE]
            ELSE Visit(keep, f[k - 1], tape.t[k])]

Replaces(m, next, id, kept) ==
    /\ next \in MarkType
    /\ \A n : n \in next.active <=> n = kept \/ (n \in m.active /\ n # id)
    /\ next.remap[id] = kept
    /\ \A n \in Ids : n # id => next.remap[n] = m.remap[n]

LEMMA VisitChosen ==
    ASSUME NEW keep, NEW m \in MarkType, NEW clause, clause.id \in m.active, clause.a \in Ids, clause.b \in Ids,
           Chosen(keep, clause)
    PROVE  Replaces(m, Visit(keep, m, clause), clause.id, Kept(keep, clause))
<1>. DEFINE next == Visit(keep, m, clause)
<1>1. /\ m.active \subseteq Ids /\ m.remap \in [Ids -> Ids]
      /\ m.changed \in BOOLEAN /\ m.terminal \in BOOLEAN
      /\ m = [active |-> m.active, remap |-> m.remap, changed |-> m.changed, terminal |-> m.terminal]
    BY DEF MarkType
<1>2. next = [active |-> (m.active \ {clause.id}) \cup {Kept(keep, clause)},
            remap |-> [m.remap EXCEPT ![clause.id] = Kept(keep, clause)],
            changed |-> TRUE, terminal |-> m.terminal]
    BY <1>1 DEF Visit, Chosen, Kept
<1>3. Kept(keep, clause) \in Ids
    BY DEF Kept
<1>4. [m.remap EXCEPT ![clause.id] = Kept(keep, clause)] \in [Ids -> Ids]
    BY <1>1, <1>3
<1>. QED  BY <1>1, <1>2, <1>3, <1>4 DEF MarkType, Replaces

LEMMA VisitAlways ==
    ASSUME NEW keep, NEW m \in MarkType, NEW clause, clause.id \in m.active, clause.a \in Ids, clause.b \in Ids,
           ~Chosen(keep, clause), NEW next, next = Visit(keep, m, clause)
    PROVE  next \in MarkType /\ next.active = m.active \cup {clause.a, clause.b} /\ next.remap = m.remap
<1>1. /\ m.active \subseteq Ids /\ m.remap \in [Ids -> Ids]
      /\ m.changed \in BOOLEAN /\ m.terminal \in BOOLEAN
      /\ m = [active |-> m.active, remap |-> m.remap, changed |-> m.changed, terminal |-> m.terminal]
    BY DEF MarkType
<1>2. next = [active |-> m.active \cup {clause.a, clause.b}, remap |-> m.remap, changed |-> m.changed,
            terminal |-> m.terminal /\ keep[clause] # "both"]
    BY <1>1 DEF Visit, Chosen
<1>. QED  BY <1>1, <1>2 DEF MarkType

LEMMA VisitTyped ==
    ASSUME NEW keep, NEW m \in MarkType, NEW clause, clause.a \in Ids, clause.b \in Ids
    PROVE  Visit(keep, m, clause) \in MarkType
<1>1. clause.id \notin m.active => Visit(keep, m, clause) = m
    BY DEF Visit
<1>. QED  BY <1>1, VisitChosen, VisitAlways DEF Replaces

LEMMA KeptIsLater ==
    ASSUME deck \in Decks, NEW tape, TapeOK(tape), NEW keep, Keeps(tape, keep),
           NEW j \in DOMAIN tape.t, Chosen(keep, tape.t[j])
    PROVE  /\ Kept(keep, tape.t[j]) \in Ids
           /\ Kept(keep, tape.t[j]) > tape.t[j].id
           /\ Kept(keep, tape.t[j]) # 0
<1>1. /\ tape.t[j].op \in Selective
      /\ \A n \in {tape.t[j].a, tape.t[j].b} : n \in Ids /\ n > tape.t[j].id
    BY TapeFacts DEF Keeps
<1>2. Kept(keep, tape.t[j]) \in {tape.t[j].a, tape.t[j].b}
    BY DEF Kept
<1>3. tape.t[j].id \in Nat
    BY TapeFacts, DeckFacts
<1>4. Kept(keep, tape.t[j]) \in Ids /\ Kept(keep, tape.t[j]) > tape.t[j].id
    BY <1>1, <1>2
<1>5. Kept(keep, tape.t[j]) \in Nat
    BY <1>4, DeckFacts
<1>. QED  BY <1>3, <1>4, <1>5

(* Clauses that were visited are not touched by a later one. *)
LEMMA VisitMarks ==
    ASSUME deck \in Decks, NEW tape, TapeOK(tape), NEW keep, Keeps(tape, keep),
           NEW k \in Nat, k + 1 \in DOMAIN tape.t, NEW m, Marked(tape, keep, m, k)
    PROVE  Marked(tape, keep, Visit(keep, m, tape.t[k + 1]), k + 1)
<1>0. PICK c, mm : c = tape.t[k + 1] /\ mm = Visit(keep, m, c)
    OBVIOUS
<1>1. c.id \in Ids /\ c.id # 0 /\ c.a \in Ids /\ c.b \in Ids
    BY <1>0, TapeFacts
<1>2. m \in MarkType /\ tape.i \in Seen(m)
    BY DEF Marked
<1>3. \A j \in 1 .. k : tape.t[j].id \in Ids /\ tape.t[j].id # 0 /\ tape.t[j].id < c.id
    <2>. TAKE j \in 1 .. k
    <2>1. j \in DOMAIN tape.t /\ j < k + 1
        BY <1>0, TapeFacts
    <2>. QED  BY <1>0, <2>1, TapeFacts
<1>4. \A j \in 1 .. k : tape.t[j].id \in Seen(m) => ClauseMarked(keep, m, tape.t[j])
    BY DEF Marked
<1>5. \A n \in Ids : m.remap[n] # 0 =>
         \E j \in 1 .. k : /\ tape.t[j].id = n /\ Chosen(keep, tape.t[j])
                           /\ m.remap[n] = Kept(keep, tape.t[j])
    BY DEF Marked
<1>6. \A n \in {c.a, c.b} : n > c.id \/ n = 0
    BY <1>0, TapeFacts
<1>7. /\ c.id \in Nat /\ c.a \in Nat /\ c.b \in Nat
      /\ \A j \in 1 .. k : tape.t[j].id \in Nat
    <2>1. Ids \subseteq Nat
        BY <1>0, DeckFacts
    <2>. QED  BY <1>0, <1>1, <1>3, <2>1
<1>8. m.remap[c.id] = 0
    <2>1. \A j \in 1 .. k : tape.t[j].id # c.id
        <3>. TAKE j \in 1 .. k
        <3>1. tape.t[j].id \in Nat /\ c.id \in Nat /\ tape.t[j].id < c.id
            BY <1>0, <1>3, <1>7
        <3>. QED  BY <1>0, <3>1
    <2>. QED  BY <1>0, <1>1, <1>5, <2>1
<1>9. Chosen(keep, c) => /\ Kept(keep, c) \in Ids /\ Kept(keep, c) > c.id /\ Kept(keep, c) # 0
                         /\ Kept(keep, c) \in Nat
    BY <1>0, KeptIsLater, DeckFacts
<1>10. \A j \in 1 .. k + 1 : j \in 1 .. k \/ j = k + 1
    OBVIOUS
<1>11. 1 .. k \subseteq 1 .. k + 1 /\ k + 1 \in 1 .. k + 1
    OBVIOUS
<1>12. CASE c.id \notin m.active
    <2>1. mm = m
        BY <1>0, <1>12 DEF Visit
    <2>2. c.id \notin Seen(m)
        BY <1>0, <1>8, <1>12 DEF Seen
    <2>3. \A j \in 1 .. k + 1 : tape.t[j].id \in Seen(m) => ClauseMarked(keep, m, tape.t[j])
        BY <1>0, <1>4, <1>10, <2>2
    <2>. QED  BY <1>0, <1>2, <1>5, <1>11, <2>1, <2>3 DEF Marked
<1>13. CASE c.id \in m.active /\ Chosen(keep, c)
    <2>1. /\ mm \in MarkType
          /\ \A n : n \in mm.active <=> n = Kept(keep, c) \/ (n \in m.active /\ n # c.id)
          /\ mm.remap[c.id] = Kept(keep, c)
          /\ \A n \in Ids : n # c.id => mm.remap[n] = m.remap[n]
        <3>1. Replaces(m, mm, c.id, Kept(keep, c))
            BY <1>0, <1>1, <1>2, <1>13, VisitChosen
        <3>. QED  BY <3>1 DEF Replaces
    <2>2. m.active \subseteq Ids /\ m.remap \in [Ids -> Ids]
        BY <1>0, <1>2 DEF MarkType
    <2>3. Seen(mm) = Seen(m) \cup {Kept(keep, c)}
        BY <1>0, <1>1, <1>9, <1>13, <2>1, <2>2 DEF Seen
    <2>4. ASSUME NEW j \in 1 .. k, tape.t[j].id \in Seen(mm)
          PROVE  ClauseMarked(keep, mm, tape.t[j])
        <3>1. tape.t[j].id \in Ids /\ tape.t[j].id < c.id /\ tape.t[j].id # Kept(keep, c)
            BY <1>0, <1>3, <1>7, <1>9, <1>13
        <3>2. ClauseMarked(keep, m, tape.t[j])
            BY <1>0, <1>4, <2>3, <2>4, <3>1
        <3>3. tape.t[j].id # c.id
            BY <1>0, <1>7, <3>1
        <3>. QED  BY <1>0, <2>1, <2>3, <3>1, <3>2, <3>3 DEF ClauseMarked
    <2>5. ClauseMarked(keep, mm, c)
        <3>1. c.id \notin mm.active
            BY <1>0, <1>7, <1>9, <1>13, <2>1
        <3>. QED  BY <1>0, <1>13, <2>1, <2>3, <3>1 DEF ClauseMarked
    <2>6. \A j \in 1 .. k + 1 : tape.t[j].id \in Seen(mm) => ClauseMarked(keep, mm, tape.t[j])
        BY <1>0, <1>10, <2>4, <2>5
    <2>7. ASSUME NEW n \in Ids, mm.remap[n] # 0
          PROVE  \E j \in 1 .. k + 1 : /\ tape.t[j].id = n /\ Chosen(keep, tape.t[j])
                                       /\ mm.remap[n] = Kept(keep, tape.t[j])
        <3>1. CASE n = c.id
            BY <1>0, <1>11, <1>13, <2>1, <3>1
        <3>2. CASE n # c.id
            BY <1>0, <1>5, <1>11, <2>1, <2>7, <3>2
        <3>. QED  BY <1>0, <3>1, <3>2
    <2>. QED  BY <1>0, <1>2, <2>1, <2>3, <2>6, <2>7 DEF Marked
<1>14. CASE c.id \in m.active /\ ~Chosen(keep, c)
    <2>1. mm \in MarkType /\ mm.active = m.active \cup {c.a, c.b} /\ mm.remap = m.remap
        BY <1>0, <1>1, <1>2, <1>14, VisitAlways
    <2>2. Seen(mm) = Seen(m) \cup {c.a, c.b}
        BY <1>0, <2>1 DEF Seen
    <2>3. ASSUME NEW j \in 1 .. k, tape.t[j].id \in Seen(mm)
          PROVE  ClauseMarked(keep, mm, tape.t[j])
        <3>1. tape.t[j].id \in Ids /\ tape.t[j].id # c.a /\ tape.t[j].id # c.b
            BY <1>0, <1>3, <1>6, <1>7
        <3>2. ClauseMarked(keep, m, tape.t[j])
            BY <1>0, <1>4, <2>2, <2>3, <3>1
        <3>. QED  BY <1>0, <2>1, <2>2, <3>1, <3>2 DEF ClauseMarked
    <2>4. ClauseMarked(keep, mm, c)
        BY <1>0, <1>8, <1>14, <2>1, <2>2 DEF ClauseMarked
    <2>5. \A j \in 1 .. k + 1 : tape.t[j].id \in Seen(mm) => ClauseMarked(keep, mm, tape.t[j])
        BY <1>0, <1>10, <2>3, <2>4
    <2>. QED  BY <1>0, <1>2, <1>5, <1>11, <2>1, <2>2, <2>5 DEF Marked
<1>. QED  BY <1>0, <1>12, <1>13, <1>14

LEMMA VisitsExist ==
    ASSUME deck \in Decks, NEW tape, TapeOK(tape), NEW keep
    PROVE  \E f : Visited(tape, keep, f)
<1>. DEFINE N == Len(tape.t)
            start == [active |-> {tape.i}, remap |-> Inactive, changed |-> FALSE, terminal |-> TRUE]
            step == [k \in 1 .. N |-> [m \in MarkType |-> Visit(keep, m, tape.t[k])]]
<1>1. N \in Nat /\ \A k \in 1 .. N : tape.t[k].a \in Ids /\ tape.t[k].b \in Ids
    BY TapeFacts
<1>2. \A k \in 1 .. N : \A m \in MarkType : step[k][m] \in MarkType
    BY <1>1, VisitTyped
<1>3. start \in MarkType
    BY TapeFacts, DeckFacts DEF MarkType, Inactive
<1>4. PICK f : Stepped(f, N, start, step) /\ \A k \in 0 .. N : f[k] \in MarkType
    <2>. HIDE DEF N, start, step
    <2>. QED  BY <1>1, <1>2, <1>3, StepsExist
<1>5. \A k \in 0 .. N : f[k] = IF k = 0 THEN start ELSE Visit(keep, f[k - 1], tape.t[k])
    <2>. TAKE k \in 0 .. N
    <2>1. f[k] = IF k = 0 THEN start ELSE step[k][f[k - 1]]
        BY <1>4 DEF Stepped
    <2>2. CASE k = 0
        BY <2>1, <2>2
    <2>3. CASE k # 0
        <3>1. k \in 1 .. N /\ k - 1 \in 0 .. N
            BY <1>1, <2>3
        <3>2. f[k - 1] \in MarkType
            BY <1>4, <3>1
        <3>. HIDE DEF start
        <3>. QED  BY <2>1, <2>3, <3>1, <3>2
    <2>. QED  BY <2>2, <2>3
<1>6. f = [k \in 0 .. N |-> f[k]]
    BY <1>4 DEF Stepped
<1>. QED  BY <1>5, <1>6 DEF Visited

LEMMA MarkIs ==
    ASSUME deck \in Decks, NEW tape, TapeOK(tape), NEW keep, Keeps(tape, keep)
    PROVE  Marked(tape, keep, Mark(tape, keep), Len(tape.t))
<1>. DEFINE f == CHOOSE f : Visited(tape, keep, f)
            N == Len(tape.t)
<1>1. Mark(tape, keep) = f[N]
    BY DEF Mark, Visited
<1>2. Visited(tape, keep, f)
    BY VisitsExist, Zenon
<1>. HIDE DEF f
<1>3. /\ f[0] = [active |-> {tape.i}, remap |-> Inactive, changed |-> FALSE, terminal |-> TRUE]
      /\ \A k \in 1 .. N : f[k] = Visit(keep, f[k - 1], tape.t[k])
    <2>1. N \in Nat
        BY TapeFacts
    <2>2. \A k \in 0 .. N : f[k] = IF k = 0 THEN [active |-> {tape.i}, remap |-> Inactive,
                                               changed |-> FALSE, terminal |-> TRUE]
                               ELSE Visit(keep, f[k - 1], tape.t[k])
        BY <1>2 DEF Visited
    <2>3. 0 \in 0 .. N /\ \A k \in 1 .. N : k \in 0 .. N /\ k # 0
        BY <2>1
    <2>. HIDE DEF N
    <2>. QED  BY <2>2, <2>3
<1>4. N \in Nat /\ DOMAIN tape.t = 1 .. N
    BY TapeFacts
<1>. HIDE DEF N
<1>. DEFINE S == {k \in Nat : k <= N => Marked(tape, keep, f[k], k)}
<1>5. 0 \in S
    <2>1. f[0] \in MarkType
        BY <1>3, TapeFacts, DeckFacts DEF MarkType, Inactive
    <2>2. /\ f[0].active = {tape.i}
          /\ \A n \in Ids : f[0].remap[n] = 0
        BY <1>3 DEF Inactive
    <2>3. 1 .. 0 = {}
        OBVIOUS
    <2>4. Marked(tape, keep, f[0], 0)
        BY <2>1, <2>2, <2>3 DEF Marked, Seen
    <2>. QED  BY <2>4
<1>6. ASSUME NEW k \in Nat, k \in S
      PROVE  k + 1 \in S
    <2>1. SUFFICES ASSUME k + 1 <= N
                   PROVE  Marked(tape, keep, f[k + 1], k + 1)
        OBVIOUS
    <2>2. Marked(tape, keep, f[k], k) /\ k + 1 \in 1 .. N /\ (k + 1) - 1 = k
        BY <1>4, <1>6, <2>1
    <2>3. f[k + 1] = Visit(keep, f[k], tape.t[k + 1])
        BY <1>3, <2>2
    <2>. QED  BY <1>4, <2>2, <2>3, VisitMarks
<1>7. Nat \subseteq S
    <2>. HIDE DEF S
    <2>. QED  BY <1>5, <1>6, Induction
<1>. QED  BY <1>1, <1>4, <1>7 DEF N

-----------------------------------------------------------------------------
(* Replacements lead to larger ids and end where nothing is replaced.       *)
LEMMA FollowIs ==
    ASSUME deck \in Decks, NEW remap \in [Ids -> Ids],
           \A n \in Ids : remap[n] # 0 => remap[n] > n
    PROVE  \A n \in Ids :
              /\ Follow(remap)[n] \in Ids
              /\ Follow(remap)[n] >= n
              /\ remap[Follow(remap)[n]] = 0
              /\ remap[n] = 0 => Follow(remap)[n] = n
              /\ remap[n] # 0 => Follow(remap)[n] = Follow(remap)[remap[n]]
<1>. DEFINE Ends(f) == f = [n \in Ids |-> IF remap[n] = 0 THEN n ELSE f[remap[n]]]
            f == CHOOSE f : Ends(f)
<1>1. Follow(remap) = f
    BY DEF Follow
<1>2. \E g : Ends(g)
    <2>. DEFINE stop == {n \in Ids : remap[n] = 0}
    <2>1. \A n \in Ids : n \notin stop => remap[n] \in Ids
        OBVIOUS
    <2>2. PICK g : ChainEnds(g, Ids, stop, remap)
        <3>. HIDE DEF stop
        <3>. QED  BY <2>1, EndsExist
    <2>3. \A n \in Ids : g[n] = IF remap[n] = 0 THEN n ELSE g[remap[n]]
        BY <2>2 DEF ChainEnds
    <2>4. g = [n \in Ids |-> g[n]]
        BY <2>2 DEF ChainEnds
    <2>. QED  BY <2>3, <2>4
<1>3. Ends(f)
    <2>. HIDE DEF Ends
    <2>. QED  BY <1>2, Zenon
<1>. HIDE DEF f
<1>4. \A n \in Ids : f[n] = IF remap[n] = 0 THEN n ELSE f[remap[n]]
    BY <1>3
<1>. HIDE DEF Ends
<1>. DEFINE S == {n \in Ids : f[n] \in Ids /\ f[n] >= n /\ remap[f[n]] = 0}
<1>5. deck.count \in Nat /\ Ids = 0 .. deck.count
    BY DeckFacts DEF Ids
<1>6. ASSUME NEW n \in Ids, remap[n] = 0
      PROVE  n \in S
    BY <1>4, <1>5, <1>6
<1>7. ASSUME NEW n \in Ids, remap[n] # 0, remap[n] \in S
      PROVE  n \in S
    <2>1. f[n] = f[remap[n]] /\ remap[n] > n /\ remap[n] \in Ids
        BY <1>4, <1>7
    <2>2. n \in Nat /\ remap[n] \in Nat /\ f[n] \in Ids /\ f[n] >= remap[n]
        BY <1>5, <1>7, <2>1
    <2>3. f[n] >= n
        BY <1>5, <2>1, <2>2
    <2>. QED  BY <1>7, <2>1, <2>3
<1>8. ASSUME NEW n \in 0 .. deck.count,
             \A k \in 0 .. deck.count : k > n => k \in S
      PROVE  n \in S
    <2>1. n \in Ids /\ remap[n] \in Ids
        BY <1>5
    <2>2. remap[n] # 0 => remap[n] \in S
        BY <1>5, <1>8, <2>1
    <2>. HIDE DEF S
    <2>. QED  BY <1>6, <1>7, <2>1, <2>2
<1>9. Ids \subseteq S
    <2>. HIDE DEF S
    <2>. QED  BY <1>5, <1>8, Descent
<1>. QED  BY <1>1, <1>4, <1>9

-----------------------------------------------------------------------------
(* The clauses that are selected are in the order of the tape.              *)

Picked(s, places, f) ==
    f = [n \in 0 .. Len(s) |->
            IF n = 0 THEN <<>>
            ELSE IF n \in places THEN Append(f[n - 1], s[n])
            ELSE f[n - 1]]

Ordered(s) == \A j, k \in DOMAIN s : j < k => s[j].id < s[k].id

Elements(s) == {s[j] : j \in DOMAIN s}

LEMMA PickedExists ==
    ASSUME NEW X, NEW s \in Seq(X), NEW places
    PROVE  \E f : Picked(s, places, f)
<1>. DEFINE N == Len(s)
            V == Seq(X)
            step == [k \in 1 .. N |-> [v \in V |-> IF k \in places THEN Append(v, s[k]) ELSE v]]
<1>1. N \in Nat /\ <<>> \in V /\ \A k \in 1 .. N : s[k] \in X
    OBVIOUS
<1>2. \A k \in 1 .. N : \A v \in V : step[k][v] \in V
    BY <1>1
<1>3. PICK f : Stepped(f, N, <<>>, step) /\ \A k \in 0 .. N : f[k] \in V
    <2>. HIDE DEF N, V, step
    <2>. QED  BY <1>1, <1>2, StepsExist
<1>. DEFINE Next1(k) == IF k = 0 THEN <<>>
                        ELSE IF k \in places THEN Append(f[k - 1], s[k])
                        ELSE f[k - 1]
<1>4. \A k \in 0 .. N : f[k] = Next1(k)
    <2>. TAKE k \in 0 .. N
    <2>1. f[k] = IF k = 0 THEN <<>> ELSE step[k][f[k - 1]]
        BY <1>3 DEF Stepped
    <2>2. CASE k = 0
        BY <2>1, <2>2
    <2>3. CASE k # 0
        <3>1. k \in 1 .. N /\ k - 1 \in 0 .. N
            BY <1>1, <2>3
        <3>2. f[k - 1] \in V
            BY <1>3, <3>1
        <3>. HIDE DEF N, V
        <3>. QED  BY <2>1, <2>3, <3>1, <3>2
    <2>. QED  BY <2>2, <2>3
<1>5. f = [k \in 0 .. N |-> f[k]]
    BY <1>3 DEF Stepped
<1>. QED  BY <1>4, <1>5 DEF Picked

LEMMA AppendOrdered ==
    ASSUME NEW X, NEW s \in Seq(X), NEW x \in X, Ordered(s), \A j \in DOMAIN s : s[j].id < x.id
    PROVE  /\ Append(s, x) \in Seq(X) /\ Ordered(Append(s, x))
           /\ Elements(Append(s, x)) = Elements(s) \cup {x}
<1>1. /\ Append(s, x) \in Seq(X)
      /\ DOMAIN Append(s, x) = DOMAIN s \cup {Len(s) + 1}
      /\ Append(s, x)[Len(s) + 1] = x
      /\ \A k \in DOMAIN s : Append(s, x)[k] = s[k] /\ k < Len(s) + 1
      /\ Len(s) \in Nat /\ DOMAIN s \subseteq Nat
    OBVIOUS
<1>2. Elements(Append(s, x)) = Elements(s) \cup {x}
    BY <1>1 DEF Elements
<1>3. ASSUME NEW j \in DOMAIN s \cup {Len(s) + 1}, NEW k \in DOMAIN s \cup {Len(s) + 1}, j < k
      PROVE  Append(s, x)[j].id < Append(s, x)[k].id
    <2>1. j \in DOMAIN s
        BY <1>1, <1>3
    <2>2. CASE k \in DOMAIN s
        BY <1>1, <1>3, <2>1, <2>2 DEF Ordered
    <2>3. CASE k = Len(s) + 1
        BY <1>1, <2>1, <2>3
    <2>. QED  BY <2>2, <2>3
<1>. QED  BY <1>1, <1>2, <1>3 DEF Ordered

LEMMA SelectedIs ==
    ASSUME NEW X, NEW s \in Seq(X), NEW places, Ordered(s)
    PROVE  /\ Selected(s, places) \in Seq(X) /\ Ordered(Selected(s, places))
           /\ Elements(Selected(s, places)) = {s[j] : j \in places \cap DOMAIN s}
<1>. DEFINE f == CHOOSE f : Picked(s, places, f)
            First(n) == {s[j] : j \in places \cap 1 .. n}
            N == Len(s)
<1>1. Selected(s, places) = f[N]
    BY DEF Selected, Picked
<1>2. Picked(s, places, f)
    BY PickedExists, Zenon
<1>. HIDE DEF f
<1>3. \A n \in 0 .. N : f[n] = IF n = 0 THEN <<>>
                               ELSE IF n \in places THEN Append(f[n - 1], s[n])
                               ELSE f[n - 1]
    BY <1>2 DEF Picked
<1>4. N \in Nat /\ DOMAIN s = 1 .. N
    OBVIOUS
<1>. HIDE DEF N
<1>. DEFINE Good(n) == f[n] \in Seq(X) /\ Ordered(f[n]) /\ Elements(f[n]) = First(n)
            S == {n \in Nat : n <= N => Good(n)}
<1>5. 0 \in S
    <2>1. f[0] = <<>> /\ First(0) = {}
        BY <1>3, <1>4
    <2>2. <<>> \in Seq(X) /\ Ordered(<<>>) /\ Elements(<<>>) = {}
        BY DEF Ordered, Elements
    <2>. QED  BY <2>1, <2>2
<1>. HIDE DEF Good
<1>6. ASSUME NEW n \in Nat, n \in S
      PROVE  n + 1 \in S
    <2>1. SUFFICES ASSUME n + 1 <= N
                   PROVE  Good(n + 1)
        OBVIOUS
    <2>2. Good(n) /\ n + 1 \in 1 .. N /\ n + 1 \in 0 .. N /\ n + 1 # 0 /\ (n + 1) - 1 = n
        BY <1>4, <1>6, <2>1
    <2>3. f[n] \in Seq(X) /\ Ordered(f[n]) /\ Elements(f[n]) = First(n)
        BY <2>2 DEF Good
    <2>4. f[n + 1] = IF n + 1 \in places THEN Append(f[n], s[n + 1]) ELSE f[n]
        <3>1. f[n + 1] = IF n + 1 = 0 THEN <<>>
                         ELSE IF n + 1 \in places THEN Append(f[(n + 1) - 1], s[n + 1])
                         ELSE f[(n + 1) - 1]
            BY <1>3, <2>2
        <3>. QED  BY <2>2, <3>1
    <2>5. CASE n + 1 \in places
        <3>1. First(n + 1) = First(n) \cup {s[n + 1]}
            BY <2>5
        <3>2. s[n + 1] \in X
            BY <1>4, <2>2
        <3>3. ASSUME NEW j \in DOMAIN f[n]
              PROVE  f[n][j].id < s[n + 1].id
            <4>1. f[n][j] \in First(n)
                BY <2>3 DEF Elements
            <4>2. PICK i \in places \cap 1 .. n : f[n][j] = s[i]
                BY <4>1
            <4>3. i \in DOMAIN s /\ n + 1 \in DOMAIN s /\ i < n + 1
                BY <1>4, <2>2
            <4>. QED  BY <4>2, <4>3 DEF Ordered
        <3>4. /\ Append(f[n], s[n + 1]) \in Seq(X) /\ Ordered(Append(f[n], s[n + 1]))
              /\ Elements(Append(f[n], s[n + 1])) = Elements(f[n]) \cup {s[n + 1]}
            <4>. HIDE DEF First
            <4>. QED  BY <2>3, <3>2, <3>3, AppendOrdered
        <3>5. f[n + 1] = Append(f[n], s[n + 1])
            BY <2>4, <2>5
        <3>. HIDE DEF First
        <3>. QED  BY <2>3, <3>1, <3>4, <3>5 DEF Good
    <2>6. CASE n + 1 \notin places
        <3>1. First(n + 1) = First(n)
            BY <2>6
        <3>. HIDE DEF First
        <3>. QED  BY <2>3, <2>4, <2>6, <3>1 DEF Good
    <2>. QED  BY <2>5, <2>6
<1>7. Nat \subseteq S
    <2>. HIDE DEF S
    <2>. QED  BY <1>5, <1>6, Induction
<1>8. First(N) = {s[j] : j \in places \cap DOMAIN s}
    BY <1>4
<1>9. Good(N)
    BY <1>4, <1>7
<1>. QED  BY <1>1, <1>8, <1>9 DEF Good

-----------------------------------------------------------------------------
(* The shortened tape *)

Known(tape) == LeafIds(deck) \cup ClauseIds(tape)

LEMMA TapeIf ==
    ASSUME deck \in Decks, NEW tape, tape.t \in Seq(Clause), Ordered(tape.t), tape.i \in Known(tape),
           \A c \in Elements(tape.t) : \A n \in {c.a, c.b} :
              n \in Known(tape) /\ (n > c.id \/ (n = 0 /\ c.op \notin Selective))
    PROVE  TapeOK(tape)
<1>1. (1 .. deck.count) \ LeafIds(deck) = Ids \ LeafIds(deck)
    BY DeckFacts DEF Ids
<1>2. tape.t \in Seq([op : Opcodes, id : (1 .. deck.count) \ LeafIds(deck),
                      a : 0 .. deck.count, b : 0 .. deck.count])
    BY <1>1 DEF Clause, Ids
<1>3. Range(tape.t) = Elements(tape.t)
    BY DEF Range, Elements
<1>4. {c.id : c \in Range(tape.t)} = ClauseIds(tape)
    BY DEF Range, ClauseIds
<1>. QED  BY <1>2, <1>3, <1>4 DEF TapeOK, IsTape, Ordered, Known

LEMMA MarkFacts ==
    ASSUME deck \in Decks, NEW tape, TapeOK(tape), NEW keep, Keeps(tape, keep),
           NEW m, m = Mark(tape, keep)
    PROVE  /\ m \in MarkType /\ tape.i \in Seen(m)
           /\ \A j \in DOMAIN tape.t : tape.t[j].id \in Seen(m) => ClauseMarked(keep, m, tape.t[j])
           /\ \A n \in Ids : m.remap[n] # 0 =>
                 /\ m.remap[n] \in Seen(m) /\ m.remap[n] \in Known(tape)
                 /\ n \in ClauseIds(tape) /\ m.remap[n] > n
           /\ m.remap[0] = 0
<1>1. Marked(tape, keep, m, Len(tape.t)) /\ DOMAIN tape.t = 1 .. Len(tape.t)
    BY MarkIs, TapeFacts
<1>2. /\ m \in MarkType /\ tape.i \in Seen(m)
      /\ \A j \in DOMAIN tape.t : tape.t[j].id \in Seen(m) => ClauseMarked(keep, m, tape.t[j])
      /\ \A n \in Ids : m.remap[n] # 0 =>
            \E j \in DOMAIN tape.t : /\ tape.t[j].id = n /\ Chosen(keep, tape.t[j])
                                     /\ m.remap[n] = Kept(keep, tape.t[j])
    BY <1>1 DEF Marked
<1>3. ASSUME NEW n \in Ids, m.remap[n] # 0
      PROVE  /\ m.remap[n] \in Seen(m) /\ m.remap[n] \in Known(tape)
             /\ n \in ClauseIds(tape) /\ m.remap[n] > n
    <2>1. PICK j \in DOMAIN tape.t : /\ tape.t[j].id = n /\ Chosen(keep, tape.t[j])
                                     /\ m.remap[n] = Kept(keep, tape.t[j])
        BY <1>2, <1>3
    <2>2. n \in Seen(m)
        BY <1>3 DEF Seen
    <2>3. m.remap[n] \in Seen(m)
        BY <1>2, <2>1, <2>2 DEF ClauseMarked
    <2>4. m.remap[n] > n
        BY <2>1, KeptIsLater
    <2>5. m.remap[n] \in Known(tape)
        BY <2>1, TapeFacts DEF Kept, Known
    <2>6. n \in ClauseIds(tape)
        BY <2>1 DEF ClauseIds
    <2>. QED  BY <2>3, <2>4, <2>5, <2>6
<1>4. m.remap[0] = 0
    <2>1. 0 \in Ids /\ 0 \notin ClauseIds(tape)
        BY DeckFacts, TapeFacts
    <2>. QED  BY <1>3, <2>1
<1>. QED  BY <1>2, <1>3, <1>4

(* An operand that is seen ends at one that is active. *)
LEMMA EndsAreActive ==
    ASSUME deck \in Decks, NEW tape, TapeOK(tape), NEW keep, Keeps(tape, keep),
           NEW m, m = Mark(tape, keep), NEW end, end = Follow(m.remap)
    PROVE  /\ end[0] = 0
           /\ \A n \in Ids :
                 /\ end[n] \in Ids /\ end[n] >= n
                 /\ m.remap[n] = 0 => end[n] = n
                 /\ m.remap[n] # 0 => end[n] = end[m.remap[n]]
                 /\ n \in Seen(m) => end[n] \in m.active
                 /\ n \in Known(tape) => end[n] \in Known(tape)
<1>1. m.remap \in [Ids -> Ids] /\ m.active \subseteq Ids
    BY MarkFacts DEF MarkType
<1>2. \A n \in Ids : m.remap[n] # 0 => m.remap[n] > n
    BY MarkFacts
<1>3. \A n \in Ids : /\ end[n] \in Ids /\ end[n] >= n
                     /\ m.remap[n] = 0 => end[n] = n
                     /\ m.remap[n] # 0 => end[n] = end[m.remap[n]]
    BY <1>1, <1>2, FollowIs
<1>4. end[0] = 0
    BY <1>3, MarkFacts, DeckFacts
<1>. DEFINE S == {n \in Ids : /\ n \in Seen(m) => end[n] \in m.active
                              /\ n \in Known(tape) => end[n] \in Known(tape)}
<1>5. deck.count \in Nat /\ Ids = 0 .. deck.count
    BY DeckFacts DEF Ids
<1>6. ASSUME NEW n \in Ids, \A k \in Ids : k > n => k \in S
      PROVE  n \in S
    <2>1. CASE m.remap[n] = 0
        BY <1>3, <2>1 DEF Seen
    <2>2. CASE m.remap[n] # 0
        <3>1. /\ m.remap[n] \in Ids /\ m.remap[n] \in Seen(m) /\ m.remap[n] \in Known(tape)
              /\ m.remap[n] \in S
            BY <1>1, <1>6, <2>2, MarkFacts
        <3>. QED  BY <1>3, <2>2, <3>1
    <2>. QED  BY <2>1, <2>2
<1>7. Ids \subseteq S
    <2>. HIDE DEF S
    <2>. QED  BY <1>5, <1>6, Descent
<1>. QED  BY <1>3, <1>4, <1>7

Redirected(c, end) == [c EXCEPT !.a = end[@], !.b = end[@]]

(* What push makes of a tape. *)
ShortOf(tape, keep, new) ==
    LET m == Mark(tape, keep)
        end == Follow(m.remap)
        live == Selected(tape.t, {j \in DOMAIN tape.t : tape.t[j].id \in m.active})
    IN  /\ new.t = [j \in DOMAIN live |-> Redirected(live[j], end)]
        /\ new.i = end[tape.i]

(* The clauses that are active, with their operands redirected.             *)
Shortens(tape, m, end, new) ==
    /\ new.i = end[tape.i]
    /\ new.t \in Seq(Clause) /\ Ordered(new.t)
    /\ \A k \in DOMAIN new.t : \E j \in DOMAIN tape.t :
          tape.t[j].id \in m.active /\ new.t[k] = Redirected(tape.t[j], end)
    /\ \A j \in DOMAIN tape.t : tape.t[j].id \in m.active =>
          \E k \in DOMAIN new.t : new.t[k] = Redirected(tape.t[j], end)

LEMMA RedirectedIs ==
    ASSUME NEW c \in Clause, NEW end, end[c.a] \in Ids, end[c.b] \in Ids
    PROVE  /\ Redirected(c, end) \in Clause
           /\ Redirected(c, end).op = c.op /\ Redirected(c, end).id = c.id
           /\ Redirected(c, end).a = end[c.a] /\ Redirected(c, end).b = end[c.b]
    BY DEF Clause, Redirected

LEMMA ShortShortens ==
    ASSUME deck \in Decks, NEW tape, TapeOK(tape), NEW keep, Keeps(tape, keep),
           NEW m, m = Mark(tape, keep), NEW end, end = Follow(m.remap),
           NEW new, ShortOf(tape, keep, new)
    PROVE  Shortens(tape, m, end, new)
<1>. DEFINE places == {j \in DOMAIN tape.t : tape.t[j].id \in m.active}
            live == Selected(tape.t, places)
<1>1. /\ new.t = [j \in DOMAIN live |-> Redirected(live[j], end)]
      /\ new.i = end[tape.i]
    BY DEF ShortOf
<1>2. tape.t \in Seq(Clause) /\ Ordered(tape.t)
    BY TapeFacts DEF Ordered
<1>3. /\ live \in Seq(Clause) /\ Ordered(live)
      /\ Elements(live) = {tape.t[j] : j \in places \cap DOMAIN tape.t}
    <2>. HIDE DEF places
    <2>. QED  BY <1>2, SelectedIs
<1>4. places \cap DOMAIN tape.t = places
    OBVIOUS
<1>. HIDE DEF live
<1>5. DOMAIN new.t = DOMAIN live /\ DOMAIN live = 1 .. Len(live) /\ Len(live) \in Nat
    BY <1>1, <1>3
<1>6. \A j \in DOMAIN live : live[j] \in Clause
    BY <1>3, <1>5
<1>7. ASSUME NEW c \in Clause
      PROVE  /\ Redirected(c, end) \in Clause
             /\ Redirected(c, end).id = c.id
    <2>1. end[c.a] \in Ids /\ end[c.b] \in Ids
        BY EndsAreActive DEF Clause
    <2>. QED  BY <2>1, RedirectedIs
<1>8. \A j \in DOMAIN live : new.t[j] = Redirected(live[j], end)
    BY <1>1
<1>9. new.t \in Seq(Clause)
    <2>1. new.t = [j \in 1 .. Len(live) |-> Redirected(live[j], end)]
        BY <1>1, <1>5
    <2>2. \A j \in 1 .. Len(live) : Redirected(live[j], end) \in Clause
        BY <1>5, <1>6, <1>7
    <2>. QED  BY <1>5, <2>1, <2>2
<1>10. Ordered(new.t)
    BY <1>3, <1>5, <1>6, <1>7, <1>8 DEF Ordered
<1>11. \A k \in DOMAIN new.t : \E j \in DOMAIN tape.t :
          tape.t[j].id \in m.active /\ new.t[k] = Redirected(tape.t[j], end)
    <2>. TAKE k \in DOMAIN new.t
    <2>1. live[k] \in Elements(live)
        BY <1>5 DEF Elements
    <2>2. PICK j \in places : live[k] = tape.t[j]
        BY <1>3, <2>1
    <2>. QED  BY <1>5, <1>8, <2>2
<1>12. \A j \in DOMAIN tape.t : tape.t[j].id \in m.active =>
          \E k \in DOMAIN new.t : new.t[k] = Redirected(tape.t[j], end)
    <2>. SUFFICES ASSUME NEW j \in DOMAIN tape.t, tape.t[j].id \in m.active
                  PROVE  \E k \in DOMAIN new.t : new.t[k] = Redirected(tape.t[j], end)
        OBVIOUS
    <2>1. tape.t[j] \in Elements(live)
        BY <1>3
    <2>2. PICK k \in DOMAIN live : live[k] = tape.t[j]
        BY <2>1 DEF Elements
    <2>. QED  BY <1>5, <1>8, <2>2
<1>. QED  BY <1>1, <1>9, <1>10, <1>11, <1>12 DEF Shortens

(* A clause of the shortened tape, and the one it comes from. *)
LEMMA ShortClause ==
    ASSUME deck \in Decks, NEW tape, TapeOK(tape), NEW keep, Keeps(tape, keep),
           NEW m, m = Mark(tape, keep), NEW end, end = Follow(m.remap),
           NEW j \in DOMAIN tape.t, tape.t[j].id \in m.active
    PROVE  /\ ~Chosen(keep, tape.t[j]) /\ m.remap[tape.t[j].id] = 0
           /\ tape.t[j].a \in Ids /\ tape.t[j].a \in Seen(m)
           /\ tape.t[j].b \in Ids /\ tape.t[j].b \in Seen(m)
           /\ Redirected(tape.t[j], end) \in Clause
           /\ Redirected(tape.t[j], end).op = tape.t[j].op
           /\ Redirected(tape.t[j], end).id = tape.t[j].id
           /\ Redirected(tape.t[j], end).a = end[tape.t[j].a]
           /\ Redirected(tape.t[j], end).b = end[tape.t[j].b]
<1>1. tape.t[j].id \in Seen(m)
    BY DEF Seen
<1>2. ClauseMarked(keep, m, tape.t[j])
    BY <1>1, MarkFacts
<1>3. tape.t[j] \in Clause /\ tape.t[j].a \in Ids /\ tape.t[j].b \in Ids
    BY TapeFacts
<1>4. end[tape.t[j].a] \in Ids /\ end[tape.t[j].b] \in Ids
    BY <1>3, EndsAreActive
<1>5. /\ Redirected(tape.t[j], end) \in Clause
      /\ Redirected(tape.t[j], end).op = tape.t[j].op
      /\ Redirected(tape.t[j], end).id = tape.t[j].id
      /\ Redirected(tape.t[j], end).a = end[tape.t[j].a]
      /\ Redirected(tape.t[j], end).b = end[tape.t[j].b]
    BY <1>3, <1>4, RedirectedIs
<1>. QED  BY <1>2, <1>3, <1>5 DEF ClauseMarked

LEMMA ShortIds ==
    ASSUME deck \in Decks, NEW tape, TapeOK(tape), NEW keep, Keeps(tape, keep),
           NEW m, m = Mark(tape, keep), NEW end, end = Follow(m.remap),
           NEW new, Shortens(tape, m, end, new)
    PROVE  ClauseIds(new) = ClauseIds(tape) \cap m.active
<1>1. ASSUME NEW k \in DOMAIN new.t
      PROVE  new.t[k].id \in ClauseIds(tape) \cap m.active
    <2>1. PICK j \in DOMAIN tape.t : tape.t[j].id \in m.active /\ new.t[k] = Redirected(tape.t[j], end)
        BY DEF Shortens
    <2>2. new.t[k].id = tape.t[j].id
        BY <2>1, ShortClause
    <2>. QED  BY <2>1, <2>2 DEF ClauseIds
<1>2. ASSUME NEW j \in DOMAIN tape.t, tape.t[j].id \in m.active
      PROVE  tape.t[j].id \in ClauseIds(new)
    <2>1. PICK k \in DOMAIN new.t : new.t[k] = Redirected(tape.t[j], end)
        BY <1>2 DEF Shortens
    <2>2. new.t[k].id = tape.t[j].id
        BY <1>2, <2>1, ShortClause
    <2>. QED  BY <2>2 DEF ClauseIds
<1>. QED  BY <1>1, <1>2 DEF ClauseIds

(* The shortened tape can be evaluated: what it takes it holds.             *)
LEMMA ShortIsTape ==
    ASSUME deck \in Decks, NEW tape, TapeOK(tape), NEW keep, Keeps(tape, keep),
           NEW new, ShortOf(tape, keep, new)
    PROVE  TapeOK(new)
<1>1. PICK m, end : m = Mark(tape, keep) /\ end = Follow(m.remap)
    OBVIOUS
<1>2. Shortens(tape, m, end, new)
    BY <1>1, ShortShortens
<1>3. ClauseIds(new) = ClauseIds(tape) \cap m.active
    BY <1>1, <1>2, ShortIds
<1>4. ASSUME NEW n \in Ids, n \in Seen(m), n \in Known(tape)
      PROVE  end[n] \in Known(new)
    <2>1. end[n] \in m.active /\ end[n] \in Known(tape)
        BY <1>1, <1>4, EndsAreActive
    <2>. QED  BY <1>3, <2>1 DEF Known
<1>5. new.i \in Known(new)
    <2>1. tape.i \in Ids /\ tape.i \in Seen(m) /\ tape.i \in Known(tape)
        BY <1>1, TapeFacts, MarkFacts DEF Known
    <2>. QED  BY <1>2, <1>4, <2>1 DEF Shortens
<1>6. ASSUME NEW k \in DOMAIN new.t, NEW n \in {new.t[k].a, new.t[k].b}
      PROVE  n \in Known(new) /\ (n > new.t[k].id \/ (n = 0 /\ new.t[k].op \notin Selective))
    <2>1. PICK j \in DOMAIN tape.t : tape.t[j].id \in m.active /\ new.t[k] = Redirected(tape.t[j], end)
        BY <1>2 DEF Shortens
    <2>2. PICK x \in {tape.t[j].a, tape.t[j].b} :
             /\ n = end[x] /\ x \in Ids /\ x \in Seen(m)
             /\ new.t[k].id = tape.t[j].id /\ new.t[k].op = tape.t[j].op
        BY <1>1, <1>6, <2>1, ShortClause
    <2>3. /\ x \in Known(tape)
          /\ x > tape.t[j].id \/ (x = 0 /\ tape.t[j].op \notin Selective)
        BY TapeFacts DEF Known
    <2>4. n \in Known(new)
        BY <1>4, <2>2, <2>3
    <2>5. n >= x /\ n \in Nat /\ x \in Nat /\ tape.t[j].id \in Nat /\ end[0] = 0
        BY <1>1, <2>2, EndsAreActive, TapeFacts, DeckFacts
    <2>. QED  BY <2>2, <2>3, <2>4, <2>5
<1>7. new.t \in Seq(Clause) /\ Ordered(new.t)
    BY <1>2 DEF Shortens
<1>. QED  BY <1>5, <1>6, <1>7, TapeIf DEF Elements

(* What is decided at a point is the operand that the result comes from.    *)
Wins(tape, keep, F) ==
    \A j \in DOMAIN tape.t : Chosen(keep, tape.t[j]) =>
        Features(tape.t[j].op, F[tape.t[j].a], F[tape.t[j].b]) = F[Kept(keep, tape.t[j])]

LEMMA ShortIsExact ==
    ASSUME deck \in Decks, NEW tape, TapeOK(tape), NEW keep, Keeps(tape, keep),
           NEW new, ShortOf(tape, keep, new), NEW p \in Int,
           Wins(tape, keep, AllFeatures(tape, p))
    PROVE  Feature(new, p) = Feature(tape, p)
<1>1. PICK m, end : m = Mark(tape, keep) /\ end = Follow(m.remap)
    OBVIOUS
<1>2. Shortens(tape, m, end, new)
    BY <1>1, ShortShortens
<1>3. PICK F, G : F = AllFeatures(tape, p) /\ G = AllFeatures(new, p)
    OBVIOUS
<1>4. /\ Solves("features", tape, FeatureLeaves(p), F)
      /\ Solves("features", new, FeatureLeaves(p), G)
    BY <1>3, ShortIsTape, FeaturesSolve
<1>5. ClauseIds(new) = ClauseIds(tape) \cap m.active
    BY <1>1, <1>2, ShortIds
<1>. DEFINE S == {n \in Ids : n \in Seen(m) => G[end[n]] = F[n]}
<1>6. ASSUME NEW n \in Ids \ ClauseIds(tape)
      PROVE  n \in S
    <2>1. m.remap[n] = 0
        BY <1>1, MarkFacts
    <2>2. end[n] = n
        BY <1>1, <2>1, EndsAreActive
    <2>3. F[n] = FeatureLeaves(p)[n] /\ G[n] = FeatureLeaves(p)[n]
        BY <1>4, <1>5 DEF Solves
    <2>. QED  BY <2>2, <2>3
<1>7. ASSUME NEW j \in DOMAIN tape.t, tape.t[j].a \in S, tape.t[j].b \in S
      PROVE  tape.t[j].id \in S
    <2>1. PICK c : c = tape.t[j]
        OBVIOUS
    <2>2. c.id \in Ids /\ c.a \in S /\ c.b \in S
        BY <1>7, <2>1, TapeFacts
    <2>3. SUFFICES ASSUME c.id \in Seen(m)
                   PROVE  G[end[c.id]] = F[c.id]
        BY <2>1, <2>2
    <2>4. ClauseMarked(keep, m, c)
        BY <1>1, <2>1, <2>3, MarkFacts
    <2>5. F[c.id] = Features(c.op, F[c.a], F[c.b])
        BY <1>4, <2>1 DEF Solves, Apply
    <2>6. CASE Chosen(keep, c)
        <3>1. /\ m.remap[c.id] = Kept(keep, c) /\ Kept(keep, c) \in Seen(m)
              /\ Kept(keep, c) # 0 /\ Kept(keep, c) \in S
            BY <1>1, <2>1, <2>2, <2>4, <2>6, KeptIsLater DEF ClauseMarked, Kept
        <3>2. end[c.id] = end[Kept(keep, c)]
            BY <1>1, <2>2, <3>1, EndsAreActive
        <3>3. F[c.id] = F[Kept(keep, c)]
            BY <1>3, <2>1, <2>5, <2>6 DEF Wins
        <3>. QED  BY <3>1, <3>2, <3>3
    <2>7. CASE ~Chosen(keep, c)
        <3>1. c.id \in m.active /\ m.remap[c.id] = 0 /\ c.a \in Seen(m) /\ c.b \in Seen(m)
            BY <2>4, <2>7 DEF ClauseMarked
        <3>2. PICK k \in DOMAIN new.t : new.t[k] = Redirected(c, end)
            BY <1>2, <2>1, <3>1 DEF Shortens
        <3>3. /\ new.t[k].op = c.op /\ new.t[k].id = c.id
              /\ new.t[k].a = end[c.a] /\ new.t[k].b = end[c.b]
            BY <1>1, <2>1, <3>1, <3>2, ShortClause
        <3>4. G[c.id] = Features(c.op, G[end[c.a]], G[end[c.b]])
            BY <1>4, <3>3 DEF Solves, Apply
        <3>5. end[c.id] = c.id
            BY <1>1, <2>2, <3>1, EndsAreActive
        <3>. QED  BY <2>2, <2>5, <3>1, <3>4, <3>5
    <2>. QED  BY <2>6, <2>7
<1>8. Ids \subseteq S
    <2>. HIDE DEF S
    <2>. QED  BY <1>6, <1>7, TapeInduction
<1>9. tape.i \in Ids /\ tape.i \in Seen(m)
    BY <1>1, TapeFacts, MarkFacts
<1>10. G[new.i] = F[tape.i]
    BY <1>2, <1>8, <1>9 DEF Shortens
<1>. QED  BY <1>3, <1>10 DEF Feature, AllFeatures, FeatureLeaves

-----------------------------------------------------------------------------
(* What is decided wins. *)

LEMMA FeatureWins ==
    ASSUME NEW op \in Selective, NEW x \in Kind("features"), NEW y \in Kind("features")
    PROVE  /\ Features(op, x, x) = x
           /\ x.value > y.value => Features(op, x, y) = IF op = "max" THEN x ELSE y
           /\ y.value > x.value => Features(op, x, y) = IF op = "max" THEN y ELSE x
<1>1. /\ x.value \in Int /\ y.value \in Int
      /\ x = [value |-> x.value, from |-> x.from]
      /\ y = [value |-> y.value, from |-> y.from]
    BY DEF Kind
<1>2. op = "min" \/ op = "max"
    BY DEF Selective
<1>3. Features(op, x, x) = x
    <2>1. Number(op, x.value, x.value) = x.value
        BY <1>1, <1>2 DEF Number, Smaller, Larger
    <2>2. Features(op, x, x) = [value |-> x.value, from |-> x.from \cup x.from]
        BY <2>1 DEF Features
    <2>3. x.from \cup x.from = x.from
        OBVIOUS
    <2>. QED  BY <1>1, <2>2, <2>3
<1>4. Features(op, x, y) =
         [value |-> Number(op, x.value, y.value),
          from |-> IF x.value = y.value THEN x.from \cup y.from
                   ELSE IF Number(op, x.value, y.value) = x.value THEN x.from ELSE y.from]
    BY DEF Features
<1>5. ASSUME x.value > y.value
      PROVE  Features(op, x, y) = IF op = "max" THEN x ELSE y
    <2>1. Number(op, x.value, y.value) = IF op = "max" THEN x.value ELSE y.value
        BY <1>1, <1>2, <1>5 DEF Number, Smaller, Larger
    <2>. QED  BY <1>1, <1>4, <1>5, <2>1
<1>6. ASSUME y.value > x.value
      PROVE  Features(op, x, y) = IF op = "max" THEN y ELSE x
    <2>1. Number(op, x.value, y.value) = IF op = "max" THEN y.value ELSE x.value
        BY <1>1, <1>2, <1>6 DEF Number, Smaller, Larger
    <2>. QED  BY <1>1, <1>4, <1>6, <2>1
<1>. QED  BY <1>3, <1>5, <1>6

IntervalKeep(tape, i) == [c \in Range(tape.t) |-> KeepInInterval(c, i)]

PointKeep(tape, v) == [c \in Range(tape.t) |-> KeepAtPoint(c, v)]

LEMMA OnlyChoicesAreDecided ==
    ASSUME NEW tape, NEW i, NEW v
    PROVE  Keeps(tape, IntervalKeep(tape, i)) /\ Keeps(tape, PointKeep(tape, v))
<1>1. \A j \in DOMAIN tape.t : /\ IntervalKeep(tape, i)[tape.t[j]] = KeepInInterval(tape.t[j], i)
                               /\ PointKeep(tape, v)[tape.t[j]] = KeepAtPoint(tape.t[j], v)
    BY DEF IntervalKeep, PointKeep, Range
<1>2. \A c : /\ KeepInInterval(c, i) \in {"A", "B"} => c.op \in Selective
             /\ KeepAtPoint(c, v) \in {"A", "B"} => c.op \in Selective
    BY DEF KeepInInterval, KeepAtPoint
<1>. QED  BY <1>1, <1>2 DEF Keeps, Chosen

LEMMA IntervalKeepWins ==
    ASSUME deck \in Decks, NEW tape, TapeOK(tape), NEW r \in Region, NEW p \in Int, Within(p, r)
    PROVE  Wins(tape, IntervalKeep(tape, Intervals(tape, r)), AllFeatures(tape, p))
<1>1. PICK i, v, F : i = Intervals(tape, r) /\ v = Values(tape, p) /\ F = AllFeatures(tape, p)
    OBVIOUS
<1>2. \A n \in Ids : /\ i[n] \in Region /\ v[n] \in Int /\ i[n].lower <= v[n] /\ v[n] <= i[n].upper
                     /\ F[n] \in Kind("features") /\ F[n].value = v[n]
    BY <1>1, IntervalsHoldValues, FeaturesHoldValues DEF Within
<1>3. SUFFICES ASSUME NEW j \in DOMAIN tape.t, Chosen(IntervalKeep(tape, i), tape.t[j])
               PROVE  Features(tape.t[j].op, F[tape.t[j].a], F[tape.t[j].b])
                         = F[Kept(IntervalKeep(tape, i), tape.t[j])]
    BY <1>1 DEF Wins
<1>4. PICK c : c = tape.t[j]
    OBVIOUS
<1>5. IntervalKeep(tape, i)[c] = KeepInInterval(c, i)
    BY <1>4 DEF IntervalKeep, Range
<1>6. c.op \in Selective /\ c.a \in Ids /\ c.b \in Ids
    BY <1>3, <1>4, OnlyChoicesAreDecided, TapeFacts DEF Keeps
<1>7. CASE c.a = c.b
    <2>1. KeepInInterval(c, i) = "A"
        BY <1>6, <1>7 DEF KeepInInterval
    <2>2. Kept(IntervalKeep(tape, i), c) = c.a
        BY <1>5, <2>1 DEF Kept
    <2>. QED  BY <1>2, <1>4, <1>6, <1>7, <2>2, FeatureWins
<1>8. CASE c.a # c.b
    <2>1. KeepInInterval(c, i) = Decided(c.op, i[c.a].lower > i[c.b].upper,
                                         i[c.b].lower > i[c.a].upper, "both")
        BY <1>6, <1>8 DEF KeepInInterval
    <2>2. /\ i[c.a].lower \in Int /\ i[c.a].upper \in Int /\ i[c.b].lower \in Int /\ i[c.b].upper \in Int
          /\ F[c.a].value \in Int /\ F[c.b].value \in Int
        BY <1>2, <1>6 DEF Region
    <2>3. CASE i[c.a].lower > i[c.b].upper
        <3>1. F[c.a].value > F[c.b].value
            BY <1>2, <1>6, <2>2, <2>3
        <3>2. Kept(IntervalKeep(tape, i), c) = IF c.op = "max" THEN c.a ELSE c.b
            BY <1>5, <2>1, <2>3 DEF Kept, Decided
        <3>. QED  BY <1>2, <1>4, <1>6, <3>1, <3>2, FeatureWins
    <2>4. CASE ~(i[c.a].lower > i[c.b].upper) /\ i[c.b].lower > i[c.a].upper
        <3>1. F[c.b].value > F[c.a].value
            BY <1>2, <1>6, <2>2, <2>4
        <3>2. Kept(IntervalKeep(tape, i), c) = IF c.op = "max" THEN c.b ELSE c.a
            BY <1>5, <2>1, <2>4 DEF Kept, Decided
        <3>. QED  BY <1>2, <1>4, <1>6, <3>1, <3>2, FeatureWins
    <2>5. CASE ~(i[c.a].lower > i[c.b].upper) /\ ~(i[c.b].lower > i[c.a].upper)
        <3>1. KeepInInterval(c, i) = "both"
            BY <2>1, <2>5 DEF Decided
        <3>. QED  BY <1>3, <1>4, <1>5, <3>1 DEF Chosen
    <2>. QED  BY <2>3, <2>4, <2>5
<1>. QED  BY <1>7, <1>8

LEMMA PointKeepWins ==
    ASSUME deck \in Decks, NEW tape, TapeOK(tape), NEW p \in Int
    PROVE  Wins(tape, PointKeep(tape, Values(tape, p)), AllFeatures(tape, p))
<1>1. PICK v, F : v = Values(tape, p) /\ F = AllFeatures(tape, p)
    OBVIOUS
<1>2. \A n \in Ids : v[n] \in Int /\ F[n] \in Kind("features") /\ F[n].value = v[n]
    BY <1>1, FeaturesHoldValues
<1>3. SUFFICES ASSUME NEW j \in DOMAIN tape.t, Chosen(PointKeep(tape, v), tape.t[j])
               PROVE  Features(tape.t[j].op, F[tape.t[j].a], F[tape.t[j].b])
                         = F[Kept(PointKeep(tape, v), tape.t[j])]
    BY <1>1 DEF Wins
<1>4. PICK c : c = tape.t[j]
    OBVIOUS
<1>5. PointKeep(tape, v)[c] = KeepAtPoint(c, v)
    BY <1>4 DEF PointKeep, Range
<1>6. c.op \in Selective /\ c.a \in Ids /\ c.b \in Ids
    BY <1>3, <1>4, OnlyChoicesAreDecided, TapeFacts DEF Keeps
<1>7. KeepAtPoint(c, v) = Decided(c.op, v[c.a] > v[c.b], v[c.b] > v[c.a], "both")
    BY <1>6 DEF KeepAtPoint
<1>8. v[c.a] \in Int /\ v[c.b] \in Int
    BY <1>2, <1>6
<1>9. CASE v[c.a] > v[c.b]
    <2>1. Kept(PointKeep(tape, v), c) = IF c.op = "max" THEN c.a ELSE c.b
        BY <1>5, <1>7, <1>9 DEF Kept, Decided
    <2>. QED  BY <1>2, <1>4, <1>6, <1>9, <2>1, FeatureWins
<1>10. CASE ~(v[c.a] > v[c.b]) /\ v[c.b] > v[c.a]
    <2>1. Kept(PointKeep(tape, v), c) = IF c.op = "max" THEN c.b ELSE c.a
        BY <1>5, <1>7, <1>10 DEF Kept, Decided
    <2>. QED  BY <1>2, <1>4, <1>6, <1>10, <2>1, FeatureWins
<1>11. CASE ~(v[c.a] > v[c.b]) /\ ~(v[c.b] > v[c.a])
    <2>1. KeepAtPoint(c, v) = "both"
        BY <1>7, <1>11 DEF Decided
    <2>. QED  BY <1>3, <1>4, <1>5, <2>1 DEF Chosen
<1>. QED  BY <1>9, <1>10, <1>11

-----------------------------------------------------------------------------
(* Push *)

LEMMA PushIs ==
    ASSUME NEW a, NEW keep, NEW type, NEW region, NEW new, new = Push(a, keep, type, region)
    PROVE  \/ new = heap[a]
           \/ /\ ShortOf(heap[a], keep, new)
              /\ new.type = type /\ new.region = region /\ new.parent = a
<1>1. CASE heap[a].terminal \/ ~Mark(heap[a], keep).changed
    BY <1>1 DEF Push
<1>2. CASE ~(heap[a].terminal \/ ~Mark(heap[a], keep).changed)
    BY <1>2 DEF Push, ShortOf, Redirected
<1>. QED  BY <1>1, <1>2

(* A tape that is pushed for a region is exact there. *)
LEMMA PushIntervalIs ==
    ASSUME deck \in Decks, NEW a, TapeOK(heap[a]), NEW r \in Region,
           NEW new, new = PushInterval(a, r)
    PROVE  /\ TapeOK(new)
           /\ \A p \in Points(r) : Feature(new, p) = Feature(heap[a], p)
           /\ new = heap[a] \/ (new.type = "interval" /\ new.region = r /\ new.parent = a)
<1>1. PICK tape, keep : tape = heap[a] /\ keep = IntervalKeep(tape, Intervals(tape, r))
    OBVIOUS
<1>2. new = Push(a, keep, "interval", r)
    BY <1>1 DEF PushInterval, IntervalKeep
<1>3. CASE new = heap[a]
    BY <1>3
<1>4. CASE /\ ShortOf(tape, keep, new)
           /\ new.type = "interval" /\ new.region = r /\ new.parent = a
    <2>1. Keeps(tape, keep)
        BY <1>1, OnlyChoicesAreDecided
    <2>2. TapeOK(new)
        BY <1>1, <1>4, <2>1, ShortIsTape
    <2>3. ASSUME NEW p \in Points(r)
          PROVE  Feature(new, p) = Feature(tape, p)
        <3>1. p \in Int /\ Within(p, r)
            BY DEF Points, Within, Region
        <3>2. Wins(tape, keep, AllFeatures(tape, p))
            BY <1>1, <3>1, IntervalKeepWins
        <3>. QED  BY <1>1, <1>4, <2>1, <3>1, <3>2, ShortIsExact
    <2>. QED  BY <1>1, <1>4, <2>2, <2>3
<1>. QED  BY <1>1, <1>2, <1>3, <1>4, PushIs

LEMMA PushPointIs ==
    ASSUME deck \in Decks, NEW a, TapeOK(heap[a]), NEW p \in Int,
           NEW new, new = PushPoint(a, p)
    PROVE  TapeOK(new) /\ Feature(new, p) = Feature(heap[a], p)
<1>1. PICK tape, keep : tape = heap[a] /\ keep = PointKeep(tape, Values(tape, p))
    OBVIOUS
<1>2. new = Push(a, keep, "specialized", [lower |-> 0, upper |-> 0])
    BY <1>1 DEF PushPoint, PointKeep
<1>3. CASE new = heap[a]
    BY <1>3
<1>4. CASE ShortOf(tape, keep, new)
    <2>1. Keeps(tape, keep)
        BY <1>1, OnlyChoicesAreDecided
    <2>2. TapeOK(new)
        BY <1>1, <1>4, <2>1, ShortIsTape
    <2>3. Wins(tape, keep, AllFeatures(tape, p))
        BY <1>1, PointKeepWins
    <2>. QED  BY <1>1, <1>4, <2>1, <2>2, <2>3, ShortIsExact
<1>. QED  BY <1>1, <1>2, <1>3, <1>4, PushIs

-----------------------------------------------------------------------------
(* The tapes that a tape was made from.  The lemmas take the heap as a      *)
(* parameter, so that they hold before and after a step.                    *)

(* A set holds all tapes if it holds those without a parent and with a tape *)
(* what is made from it: no tape comes from itself.                         *)
Grounded(h) ==
    \A S \in SUBSET Addr :
        (\A b \in Addr : h[b].parent = None \/ h[b].parent \in S => b \in S) => S = Addr

HeapOK(h) == (\A b \in Addr : h[b].parent \in Addr \cup {None}) /\ Grounded(h)

AncestorsIn(h, a) ==
    LET up[b \in Addr] == {b} \cup IF h[b].parent = None THEN {} ELSE up[h[b].parent]
    IN  up[a]

BaseIn(h, r, a) ==
    LET base[b \in Addr] ==
            IF h[b].parent = None
               \/ (/\ h[b].type = "interval"
                   /\ h[b].region.lower <= r.lower /\ r.upper <= h[b].region.upper)
            THEN b ELSE base[h[b].parent]
    IN  base[a]

LEMMA GroundInduction ==
    ASSUME NEW h, HeapOK(h), NEW S,
           \A b \in Addr : h[b].parent = None \/ h[b].parent \in S => b \in S
    PROVE  Addr \subseteq S
<1>. DEFINE T == S \cap Addr
<1>1. \A b \in Addr : h[b].parent = None \/ h[b].parent \in T => b \in T
    OBVIOUS
<1>2. T \in SUBSET Addr
    OBVIOUS
<1>3. T = Addr
    <2>. HIDE DEF T
    <2>. QED  BY <1>1, <1>2 DEF HeapOK, Grounded
<1>. QED  BY <1>3

LEMMA AncestorsAre ==
    ASSUME NEW h, HeapOK(h), NEW b \in Addr
    PROVE  /\ h[b].parent = None => AncestorsIn(h, b) = {b}
           /\ h[b].parent # None => /\ h[b].parent \in Addr
                                    /\ AncestorsIn(h, b) = {b} \cup AncestorsIn(h, h[b].parent)
<1>. DEFINE Ups(f) == f = [c \in Addr |-> {c} \cup IF h[c].parent = None THEN {} ELSE f[h[c].parent]]
            up == CHOOSE f : Ups(f)
<1>1. \A a : AncestorsIn(h, a) = up[a]
    BY DEF AncestorsIn
<1>2. \E f : Ups(f)
    <2>. DEFINE stop == {c \in Addr : h[c].parent = None}
                next == [c \in Addr |-> h[c].parent]
    <2>1. \A c \in Addr : c \notin stop => next[c] \in Addr
        BY DEF HeapOK
    <2>2. PICK f : OnChain(f, Addr, stop, next)
        <3>. HIDE DEF stop, next
        <3>. QED  BY <2>1, ChainsExist
    <2>3. \A c \in Addr : f[c] = {c} \cup IF h[c].parent = None THEN {} ELSE f[h[c].parent]
        BY <2>2 DEF OnChain
    <2>4. f = [c \in Addr |-> f[c]]
        BY <2>2 DEF OnChain
    <2>. QED  BY <2>3, <2>4
<1>3. Ups(up)
    <2>. HIDE DEF Ups
    <2>. QED  BY <1>2, Zenon
<1>. HIDE DEF up
<1>4. up[b] = {b} \cup IF h[b].parent = None THEN {} ELSE up[h[b].parent]
    BY <1>3
<1>5. h[b].parent # None => h[b].parent \in Addr
    BY DEF HeapOK
<1>. QED  BY <1>1, <1>4, <1>5

Extends(h, b, q) == AncestorsIn(h, b) = {b} \cup AncestorsIn(h, q)

LEMMA AncestorsUp ==
    ASSUME NEW h, HeapOK(h), NEW b \in Addr, NEW q \in Addr, h[b].parent = q
    PROVE  Extends(h, b, q)
<1>1. q # None
    BY TapesAssumption
<1>. QED  BY <1>1, AncestorsAre DEF Extends

(* Below, a set is closed when it holds with a tape the one it is from.     *)
ClosedIn(h, C) == \A x \in C : h[x].parent # None => h[x].parent \in C

LEMMA AncestorsLeast ==
    ASSUME NEW h, HeapOK(h), NEW C, ClosedIn(h, C), NEW b \in Addr, b \in C
    PROVE  AncestorsIn(h, b) \subseteq C
<1>. DEFINE S == {x \in Addr : x \in C => AncestorsIn(h, x) \subseteq C}
<1>1. \A x \in Addr : h[x].parent = None \/ h[x].parent \in S => x \in S
    BY AncestorsAre DEF ClosedIn
<1>2. Addr \subseteq S
    <2>. HIDE DEF S
    <2>. QED  BY <1>1, GroundInduction
<1>. QED  BY <1>2

LEMMA AncestorsClosed ==
    ASSUME NEW h, HeapOK(h), NEW b \in Addr
    PROVE  b \in AncestorsIn(h, b) /\ AncestorsIn(h, b) \subseteq Addr /\ ClosedIn(h, AncestorsIn(h, b))
<1>. DEFINE S == {x \in Addr : x \in AncestorsIn(h, x) /\ ClosedIn(h, AncestorsIn(h, x))}
<1>1. ASSUME NEW x \in Addr, h[x].parent = None \/ h[x].parent \in S
      PROVE  x \in S
    <2>1. CASE h[x].parent = None
        BY <2>1, AncestorsAre DEF ClosedIn
    <2>2. CASE h[x].parent # None
        <3>1. AncestorsIn(h, x) = {x} \cup AncestorsIn(h, h[x].parent) /\ h[x].parent \in S
            BY <1>1, <2>2, AncestorsAre
        <3>. QED  BY <3>1 DEF ClosedIn
    <2>. QED  BY <2>1, <2>2
<1>2. Addr \subseteq S
    <2>. HIDE DEF S
    <2>. QED  BY <1>1, GroundInduction
<1>3. ClosedIn(h, Addr)
    BY DEF ClosedIn, HeapOK
<1>4. AncestorsIn(h, b) \subseteq Addr
    BY <1>3, AncestorsLeast
<1>. QED  BY <1>2, <1>4

(* A tape that nothing of the closed set U is made from is written again.   *)
LEMMA Rewritten ==
    ASSUME NEW h, HeapOK(h), DOMAIN h = Addr, NEW U \in SUBSET Addr, ClosedIn(h, U),
           NEW a \in Addr \ U, NEW new, new.parent \in U,
           NEW g, g = [h EXCEPT ![a] = new]
    PROVE  /\ HeapOK(g)
           /\ \A b \in U : AncestorsIn(g, b) = AncestorsIn(h, b)
           /\ AncestorsIn(g, a) = {a} \cup AncestorsIn(h, new.parent)
<1>1. g[a] = new /\ \A b \in Addr : b # a => g[b] = h[b]
    OBVIOUS
<1>2. a \in Addr /\ a \notin U /\ new.parent \in Addr /\ new.parent # None
    BY TapesAssumption
<1>3. ASSUME NEW S \in SUBSET Addr, \A b \in Addr : g[b].parent = None \/ g[b].parent \in S => b \in S
      PROVE  S = Addr
    <2>. DEFINE V == {b \in Addr : b \in U => b \in S}
    <2>1. \A b \in Addr : h[b].parent = None \/ h[b].parent \in V => b \in V
        BY <1>1, <1>2, <1>3 DEF ClosedIn
    <2>2. Addr \subseteq V
        <3>. HIDE DEF V
        <3>. QED  BY <2>1, GroundInduction
    <2>3. a \in S
        BY <1>1, <1>2, <1>3, <2>2
    <2>4. \A b \in Addr : h[b].parent = None \/ h[b].parent \in S => b \in S
        BY <1>1, <1>3, <2>3
    <2>. QED  BY <2>4, GroundInduction
<1>4. HeapOK(g)
    <2>1. \A b \in Addr : g[b].parent \in Addr \cup {None}
        BY <1>1, <1>2 DEF HeapOK
    <2>. QED  BY <1>3, <2>1 DEF HeapOK, Grounded
<1>. DEFINE S == {b \in Addr : b \in U => AncestorsIn(g, b) = AncestorsIn(h, b)}
<1>5. ASSUME NEW b \in Addr, h[b].parent = None \/ h[b].parent \in S
      PROVE  b \in S
    <2>1. SUFFICES ASSUME b \in U
                   PROVE  AncestorsIn(g, b) = AncestorsIn(h, b)
        OBVIOUS
    <2>2. g[b] = h[b]
        BY <1>1, <1>2, <2>1
    <2>3. CASE h[b].parent = None
        BY <1>4, <2>2, <2>3, AncestorsAre
    <2>4. CASE h[b].parent # None
        <3>1. /\ AncestorsIn(g, b) = {b} \cup AncestorsIn(g, h[b].parent)
              /\ AncestorsIn(h, b) = {b} \cup AncestorsIn(h, h[b].parent)
            <4>1. h[b].parent \in Addr /\ g[b].parent = h[b].parent
                BY <2>2, <2>4 DEF HeapOK
            <4>. HIDE DEF S
            <4>2. Extends(g, b, h[b].parent)
                BY <1>4, <4>1, AncestorsUp
            <4>3. Extends(h, b, h[b].parent)
                BY <4>1, AncestorsUp
            <4>. QED  BY <4>2, <4>3 DEF Extends
        <3>2. h[b].parent \in U /\ h[b].parent \in S
            BY <1>5, <2>1, <2>4 DEF ClosedIn
        <3>. QED  BY <3>1, <3>2
    <2>. QED  BY <2>3, <2>4
<1>6. Addr \subseteq S
    <2>. HIDE DEF S
    <2>. QED  BY <1>5, GroundInduction
<1>7. AncestorsIn(g, a) = {a} \cup AncestorsIn(g, new.parent)
    <2>1. g[a].parent = new.parent
        BY <1>1
    <2>2. Extends(g, a, new.parent)
        BY <1>2, <1>4, <2>1, AncestorsUp
    <2>. QED  BY <2>2 DEF Extends
<1>. QED  BY <1>2, <1>4, <1>6, <1>7

(* getBase() ends at a tape it can come to that is fit, or has no parent.   *)
LEMMA BaseIs ==
    ASSUME NEW h, HeapOK(h), NEW r, NEW C, ClosedIn(h, C), NEW a \in Addr, a \in C
    PROVE  /\ BaseIn(h, r, a) \in C /\ BaseIn(h, r, a) \in Addr
           /\ \/ h[BaseIn(h, r, a)].parent = None
              \/ /\ h[BaseIn(h, r, a)].type = "interval"
                 /\ h[BaseIn(h, r, a)].region.lower <= r.lower
                 /\ r.upper <= h[BaseIn(h, r, a)].region.upper
<1>. DEFINE Fits(b) == /\ h[b].type = "interval"
                       /\ h[b].region.lower <= r.lower /\ r.upper <= h[b].region.upper
            Bases(f) == f = [b \in Addr |-> IF h[b].parent = None \/ Fits(b) THEN b ELSE f[h[b].parent]]
            base == CHOOSE f : Bases(f)
<1>1. \A b : BaseIn(h, r, b) = base[b]
    BY DEF BaseIn
<1>. HIDE DEF Fits
<1>2. \E f : Bases(f)
    <2>. DEFINE stop == {c \in Addr : h[c].parent = None \/ Fits(c)}
                next == [c \in Addr |-> h[c].parent]
    <2>1. \A c \in Addr : c \notin stop => next[c] \in Addr
        BY DEF HeapOK
    <2>2. PICK f : ChainEnds(f, Addr, stop, next)
        <3>. HIDE DEF stop, next
        <3>. QED  BY <2>1, EndsExist
    <2>3. \A c \in Addr : f[c] = IF h[c].parent = None \/ Fits(c) THEN c ELSE f[h[c].parent]
        BY <2>2 DEF ChainEnds
    <2>4. f = [c \in Addr |-> f[c]]
        BY <2>2 DEF ChainEnds
    <2>. QED  BY <2>3, <2>4
<1>3. Bases(base)
    <2>. HIDE DEF Bases
    <2>. QED  BY <1>2, Zenon
<1>. HIDE DEF base
<1>4. \A b \in Addr : base[b] = IF h[b].parent = None \/ Fits(b) THEN b ELSE base[h[b].parent]
    BY <1>3
<1>. DEFINE Ends(b) == /\ base[b] \in C /\ base[b] \in Addr
                       /\ h[base[b]].parent = None \/ Fits(base[b])
            S == {b \in Addr : b \in C => Ends(b)}
<1>. HIDE DEF Bases
<1>5. \A b \in Addr : h[b].parent = None \/ h[b].parent \in S => b \in S
    BY <1>4 DEF ClosedIn
<1>6. Addr \subseteq S
    <2>. HIDE DEF S
    <2>. QED  BY <1>5, GroundInduction
<1>7. Ends(a)
    <2>. HIDE DEF Ends
    <2>. QED  BY <1>6
<1>. QED  BY <1>1, <1>7 DEF Fits

-----------------------------------------------------------------------------
(* The invariant *)

(* What a tape that a worker may read has to be: a tape, and exact in the   *)
(* region it is good for.                                                   *)
Good(tape) ==
    /\ TapeOK(tape)
    /\ tape.region \in Region
    /\ \A p \in Points(tape.region) : Feature(tape, p) = Feature(BaseTape(deck), p)

(* A cell is in the region that its tape is good for.                       *)
Covers(tape, r) == tape.region.lower <= r.lower /\ r.upper <= tape.region.upper

TaskOK(h, task) ==
    /\ task.tape \in Addr
    /\ task.region \in Region /\ task.region.lower < task.region.upper
    /\ Covers(h[task.tape], task.region)

SparesOK(s, used) ==
    /\ s \in [Evaluator -> Seq(Addr)]
    /\ \A e \in Evaluator : Range(s[e]) \cap used = {}
    /\ \A e \in Evaluator : IsInjective(s[e])
    /\ \A e, f \in Evaluator : e # f => Range(s[e]) \cap Range(s[f]) = {}

(* What is not in use may hold anything that is not a way back to itself:   *)
(* it is only when a tape is written that it must not be one that is read.  *)
TapesInv ==
    /\ deck \in Decks
    /\ DOMAIN heap = Addr /\ HeapOK(heap)
    /\ heap[Base] = BaseTape(deck)
    /\ \A a \in Addr : heap[a].parent = None => heap[a] = BaseTape(deck)
    /\ \A a \in InUse : Good(heap[a])
    /\ \A task \in tasks : TaskOK(heap, task)
    /\ SparesOK(spares, InUse)

UsedIn(h, ts) == (UNION {AncestorsIn(h, task.tape) : task \in ts}) \cup {Base}

LEMMA InUseIs == InUse = UsedIn(heap, tasks) /\ \A a : Ancestors(a) = AncestorsIn(heap, a)
BY DEF InUse, UsedIn, Ancestors, AncestorsIn

LEMMA BaseIsATape == Base \in Addr
BY TapesAssumption DEF Base

LEMMA UsedIsClosed ==
    ASSUME TapesInv
    PROVE  /\ InUse \subseteq Addr /\ ClosedIn(heap, InUse)
           /\ \A task \in tasks : task.tape \in InUse /\ task.tape \in Addr
<1>1. HeapOK(heap) /\ \A task \in tasks : task.tape \in Addr
    BY DEF TapesInv, TaskOK
<1>2. heap[Base].parent = None
    BY DEF TapesInv, BaseTape
<1>3. \A task \in tasks : /\ task.tape \in AncestorsIn(heap, task.tape)
                          /\ AncestorsIn(heap, task.tape) \subseteq Addr
                          /\ ClosedIn(heap, AncestorsIn(heap, task.tape))
    BY <1>1, AncestorsClosed
<1>4. UsedIn(heap, tasks) \subseteq Addr /\ \A task \in tasks : task.tape \in UsedIn(heap, tasks)
    BY <1>3, BaseIsATape DEF UsedIn
<1>5. ClosedIn(heap, UsedIn(heap, tasks))
    BY <1>2, <1>3 DEF UsedIn, ClosedIn
<1>. QED  BY <1>1, <1>4, <1>5, InUseIs

LEMMA UsedIfClosed ==
    ASSUME NEW h, HeapOK(h), NEW ts, NEW C, ClosedIn(h, C), Base \in C,
           \A task \in ts : task.tape \in Addr /\ task.tape \in C
    PROVE  UsedIn(h, ts) \subseteq C
<1>1. \A task \in ts : AncestorsIn(h, task.tape) \subseteq C
    BY AncestorsLeast
<1>. QED  BY <1>1 DEF UsedIn

(* The stack of spares without its last. *)
LEMMA FrontAndLast ==
    ASSUME NEW s \in Seq(Addr), s # <<>>, IsInjective(s)
    PROVE  /\ Last(s) \in Range(s) /\ Last(s) \in Addr
           /\ Front(s) \in Seq(Addr) /\ IsInjective(Front(s))
           /\ Range(Front(s)) \subseteq Range(s) \ {Last(s)}
           /\ Append(Front(s), Last(s)) = s
<1>1. Len(s) \in Nat \ {0} /\ DOMAIN s = 1 .. Len(s) /\ \A j \in 1 .. Len(s) : s[j] \in Addr
    OBVIOUS
<1>2. /\ Front(s) \in Seq(Addr) /\ Len(Front(s)) = Len(s) - 1
      /\ \A j \in 1 .. Len(s) - 1 : Front(s)[j] = s[j]
    BY <1>1 DEF Front
<1>3. DOMAIN Front(s) = 1 .. Len(s) - 1
    BY <1>2
<1>4. Last(s) = s[Len(s)] /\ Len(s) \in DOMAIN s
    BY <1>1 DEF Last
<1>5. IsInjective(Front(s))
    BY <1>1, <1>2, <1>3 DEF IsInjective
<1>6. \A j \in 1 .. Len(s) - 1 : s[j] # Last(s)
    BY <1>1, <1>4 DEF IsInjective
<1>7. Range(Front(s)) \subseteq Range(s) \ {Last(s)}
    BY <1>1, <1>2, <1>3, <1>6 DEF Range
<1>8. Append(Front(s), Last(s)) = s
    <2>. DEFINE u == Append(Front(s), Last(s))
    <2>1. /\ u \in Seq(Addr) /\ Len(u) = Len(s)
          /\ \A j \in 1 .. Len(s) : u[j] = s[j]
        <3>1. Len(Front(s)) + 1 = Len(s) /\ Last(s) \in Addr /\ Front(s) \in Seq(Addr)
            BY <1>1, <1>2, <1>4
        <3>2. /\ u \in Seq(Addr) /\ Len(u) = Len(s)
              /\ \A j \in 1 .. Len(Front(s)) : u[j] = Front(s)[j]
              /\ u[Len(s)] = Last(s)
            BY <3>1, AppendProperties
        <3>. HIDE DEF u
        <3>. QED  BY <1>1, <1>2, <1>4, <3>1, <3>2
    <2>. QED  BY <1>1, <2>1, SeqEqual
<1>. QED  BY <1>1, <1>2, <1>4, <1>5, <1>7, <1>8 DEF Range

(* The address that a worker writes to is nobody's. *)
LEMMA PlaceIsFree ==
    ASSUME TapesInv, NEW e \in Evaluator, NEW a \in Addr, Place(e, a)
    PROVE  /\ a \notin InUse
           /\ \A f \in Evaluator : f # e => a \notin Range(spares[f])
           /\ a \notin Range(Unspared(e))
           /\ Unspared(e) \in Seq(Addr) /\ IsInjective(Unspared(e))
           /\ Range(Unspared(e)) \subseteq Range(spares[e])
           /\ Append(Unspared(e), a) \in Seq(Addr) /\ IsInjective(Append(Unspared(e), a))
           /\ Range(Append(Unspared(e), a)) \subseteq Range(spares[e]) \cup {a}
<1>1. /\ spares[e] \in Seq(Addr) /\ IsInjective(spares[e])
      /\ \A f \in Evaluator : /\ f # e => Range(spares[e]) \cap Range(spares[f]) = {}
                              /\ Range(spares[f]) \cap InUse = {}
                              /\ Range(spares[f]) \subseteq Addr
    <2>1. SparesOK(spares, InUse)
        BY DEF TapesInv
    <2>2. \A f \in Evaluator : Range(spares[f]) \subseteq Addr
        BY <2>1 DEF SparesOK, Range
    <2>. QED  BY <2>1, <2>2 DEF SparesOK
<1>2. CASE spares[e] # <<>>
    <2>1. a = Last(spares[e]) /\ Unspared(e) = Front(spares[e])
        BY <1>2 DEF Place, Unspared
    <2>2. /\ a \in Range(spares[e])
          /\ Unspared(e) \in Seq(Addr) /\ IsInjective(Unspared(e))
          /\ Range(Unspared(e)) \subseteq Range(spares[e]) \ {a}
          /\ Append(Unspared(e), a) = spares[e]
        BY <1>1, <1>2, <2>1, FrontAndLast
    <2>. QED  BY <1>1, <2>2
<1>3. CASE spares[e] = <<>>
    <2>1. a \notin InUse /\ \A b \in Spare : a \notin Ancestors(b)
        BY <1>3 DEF Place, Allocated
    <2>2. \A f \in Evaluator : a \notin Range(spares[f])
        <3>1. HeapOK(heap)
            BY DEF TapesInv
        <3>. QED  BY <1>1, <2>1, <3>1, AncestorsClosed, InUseIs DEF Spare
    <2>3. Unspared(e) = <<>> /\ Range(<<>>) = {}
        BY <1>3 DEF Unspared, Range
    <2>4. /\ Append(<<>>, a) = <<a>> /\ <<a>> \in Seq(Addr) /\ IsInjective(<<a>>)
          /\ Range(<<a>>) = {a} /\ IsInjective(<<>>)
        BY DEF IsInjective, Range
    <2>. QED  BY <2>1, <2>2, <2>3, <2>4
<1>. QED  BY <1>2, <1>3

(* A tape is written where nobody reads. *)
Written(g, a, new) ==
    /\ DOMAIN g = Addr /\ HeapOK(g)
    /\ g[a] = new /\ \A b \in InUse : g[b] = heap[b]
    /\ ClosedIn(g, InUse) /\ ClosedIn(g, InUse \cup {a})
    /\ g[Base] = BaseTape(deck)
    /\ \A b \in Addr : g[b].parent = None => g[b] = BaseTape(deck)

LEMMA WriteKeeps ==
    ASSUME TapesInv, NEW a \in Addr, a \notin InUse, NEW new, new.parent \in InUse,
           NEW g, g = [heap EXCEPT ![a] = new]
    PROVE  Written(g, a, new)
<1>1. DOMAIN heap = Addr /\ HeapOK(heap) /\ heap[Base] = BaseTape(deck)
      /\ \A b \in Addr : heap[b].parent = None => heap[b] = BaseTape(deck)
    BY DEF TapesInv
<1>2. InUse \in SUBSET Addr /\ ClosedIn(heap, InUse)
    BY UsedIsClosed
<1>3. HeapOK(g)
    BY <1>1, <1>2, Rewritten
<1>4. DOMAIN g = Addr /\ g[a] = new /\ \A b \in Addr : b # a => g[b] = heap[b]
    BY <1>1
<1>5. Base \in InUse /\ new.parent # None
    BY <1>2, TapesAssumption DEF InUse
<1>6. \A b \in InUse : g[b] = heap[b]
    BY <1>2, <1>4
<1>7. ClosedIn(g, InUse) /\ ClosedIn(g, InUse \cup {a})
    BY <1>2, <1>4, <1>6 DEF ClosedIn
<1>8. g[Base] = BaseTape(deck)
    BY <1>1, <1>5, <1>6
<1>9. \A b \in Addr : g[b].parent = None => g[b] = BaseTape(deck)
    BY <1>1, <1>4, <1>5
<1>. QED  BY <1>3, <1>4, <1>6, <1>7, <1>8, <1>9 DEF Written

LEMMA InvNext ==
    ASSUME TapesInv, UNCHANGED deck,
           DOMAIN heap' = Addr, HeapOK(heap'), heap'[Base] = BaseTape(deck),
           \A a \in Addr : heap'[a].parent = None => heap'[a] = BaseTape(deck),
           \A a \in UsedIn(heap', tasks') : Good(heap'[a]),
           \A task \in tasks' : TaskOK(heap', task),
           SparesOK(spares', UsedIn(heap', tasks'))
    PROVE  TapesInv'
<1>1. deck' \in Decks
    BY DEF TapesInv
<1>2. InUse' = UsedIn(heap', tasks')
    BY DEF InUse, UsedIn, Ancestors, AncestorsIn
<1>3. BaseTape(deck)' = BaseTape(deck)
    BY DEF BaseTape
<1>4. ASSUME NEW a \in InUse' PROVE Good(heap[a])'
    <2>1. Good(heap'[a])
        BY <1>2
    <2>2. TapeOK(heap[a])'
        BY <2>1 DEF Good, TapeOK
    <2>3. \A p : Feature(heap[a], p)' = Feature(heap'[a], p)
        BY DEF Feature, Leaves, Ids
    <2>4. \A p : Feature(BaseTape(deck), p)' = Feature(BaseTape(deck), p)
        BY <1>3 DEF Feature, Leaves, Ids
    <2>. QED  BY <2>1, <2>2, <2>3, <2>4 DEF Good
<1>5. /\ (DOMAIN heap = Addr)' /\ HeapOK(heap)' /\ (heap[Base] = BaseTape(deck))'
      /\ (\A a \in Addr : heap[a].parent = None => heap[a] = BaseTape(deck))'
    BY <1>3 DEF HeapOK, Grounded, Base
<1>6. (\A task \in tasks : TaskOK(heap, task))'
    BY DEF TaskOK, Covers
<1>7. SparesOK(spares, InUse)'
    BY <1>2 DEF SparesOK
<1>. QED  BY <1>1, <1>4, <1>5, <1>6, <1>7 DEF TapesInv

(* A cell is done; the tape that was pushed for it, if any, is a spare.     *)
LEMMA DropKeeps ==
    ASSUME TapesInv, NEW e \in Evaluator, NEW task \in tasks, NEW pushed,
           pushed = heap[task.tape] \/ pushed.parent = task.tape,
           Claim(e, task, pushed) \/ UNCHANGED <<heap, spares>>,
           tasks' = tasks \ {task}, UNCHANGED deck
    PROVE  TapesInv'
<1>1. /\ DOMAIN heap' = Addr /\ HeapOK(heap')
      /\ \A b \in InUse : heap'[b] = heap[b]
      /\ ClosedIn(heap', InUse)
      /\ heap'[Base] = BaseTape(deck)
      /\ \A b \in Addr : heap'[b].parent = None => heap'[b] = BaseTape(deck)
      /\ SparesOK(spares', InUse)
    <2>1. CASE UNCHANGED <<heap, spares>>
        BY <2>1, UsedIsClosed DEF TapesInv, HeapOK, Grounded, ClosedIn, SparesOK
    <2>2. CASE ~ UNCHANGED <<heap, spares>>
        <3>1. PICK a \in Addr : /\ Place(e, a)
                                /\ heap' = [heap EXCEPT ![a] = pushed]
                                /\ spares' = [spares EXCEPT ![e] = Append(Unspared(e), a)]
            BY <2>2 DEF Claim
        <3>2. pushed.parent \in InUse
            BY <2>2, UsedIsClosed DEF Claim
        <3>3. a \notin InUse
            BY <3>1, PlaceIsFree
        <3>4. SparesOK(spares', InUse)
            <4>1. /\ Append(Unspared(e), a) \in Seq(Addr) /\ IsInjective(Append(Unspared(e), a))
                  /\ Range(Append(Unspared(e), a)) \subseteq Range(spares[e]) \cup {a}
                  /\ \A f \in Evaluator : f # e => a \notin Range(spares[f])
                BY <3>1, PlaceIsFree
            <4>2. SparesOK(spares, InUse)
                BY DEF TapesInv
            <4>3. /\ spares'[e] = Append(Unspared(e), a)
                  /\ \A f \in Evaluator : f # e => spares'[f] = spares[f]
                  /\ DOMAIN spares' = Evaluator
                BY <3>1, <4>2 DEF SparesOK
            <4>4. spares' \in [Evaluator -> Seq(Addr)]
                BY <3>1, <4>1, <4>2 DEF SparesOK
            <4>5. \A f \in Evaluator : /\ IsInjective(spares'[f])
                                       /\ Range(spares'[f]) \cap InUse = {}
                BY <3>3, <4>1, <4>2, <4>3 DEF SparesOK
            <4>6. ASSUME NEW f \in Evaluator, NEW k \in Evaluator, f # k
                  PROVE  Range(spares'[f]) \cap Range(spares'[k]) = {}
                <5>1. Range(spares[f]) \cap Range(spares[k]) = {}
                    BY <4>2, <4>6 DEF SparesOK
                <5>2. /\ Range(spares'[f]) \subseteq Range(spares[f]) \/ f = e
                      /\ Range(spares'[k]) \subseteq Range(spares[k]) \/ k = e
                    BY <4>3
                <5>3. CASE f = e
                    BY <4>1, <4>3, <4>6, <5>1, <5>3
                <5>4. CASE k = e
                    BY <4>1, <4>3, <4>6, <5>1, <5>4
                <5>. QED  BY <5>1, <5>2, <5>3, <5>4
            <4>. QED  BY <4>4, <4>5, <4>6 DEF SparesOK
        <3>5. Written(heap', a, pushed)
            BY <3>1, <3>2, <3>3, WriteKeeps
        <3>. QED  BY <3>4, <3>5 DEF Written
    <2>. QED  BY <2>1, <2>2
<1>2. UsedIn(heap', tasks') \subseteq InUse
    <2>1. Base \in InUse
        BY DEF InUse
    <2>. QED  BY <1>1, <2>1, UsedIsClosed, UsedIfClosed
<1>3. \A a \in UsedIn(heap', tasks') : Good(heap'[a])
    BY <1>1, <1>2 DEF TapesInv
<1>4. \A other \in tasks' : TaskOK(heap', other)
    BY <1>1, UsedIsClosed DEF TapesInv, TaskOK
<1>5. SparesOK(spares', UsedIn(heap', tasks'))
    BY <1>1, <1>2 DEF SparesOK
<1>. QED  BY <1>1, <1>3, <1>4, <1>5, InvNext

LEMMA Halves ==
    ASSUME NEW r \in Region, r.lower < r.upper, ~IsLeaf(r), NEW half \in Subdivide(r)
    PROVE  /\ half \in Region /\ half.lower < half.upper
           /\ r.lower <= half.lower /\ half.upper <= r.upper
<1>1. /\ Middle(r) \in Int /\ r.lower < Middle(r) /\ Middle(r) < r.upper
    BY DEF Middle, Region, IsLeaf
<1>. QED  BY <1>1 DEF Region, Subdivide

(* A cell is divided; its children get the tape that was pushed for it.     *)
LEMMA DescendKeeps ==
    ASSUME TapesInv, NEW e \in Evaluator, NEW task \in tasks, ~IsLeaf(task.region),
           NEW pushed, pushed = PushInterval(task.tape, task.region),
           Descend(e, task, pushed), UNCHANGED deck
    PROVE  TapesInv'
<1>1. /\ task.tape \in InUse /\ task.tape \in Addr /\ TaskOK(heap, task)
      /\ deck \in Decks /\ Good(heap[task.tape])
    BY UsedIsClosed DEF TapesInv
<1>2. task.region \in Region
    BY <1>1 DEF TaskOK
<1>3. /\ TapeOK(pushed)
      /\ \A p \in Points(task.region) : Feature(pushed, p) = Feature(heap[task.tape], p)
      /\ pushed = heap[task.tape] \/ (pushed.region = task.region /\ pushed.parent = task.tape)
    BY <1>1, <1>2, PushIntervalIs DEF Good
<1>4. Good(pushed) /\ Covers(pushed, task.region)
    <2>1. Points(task.region) \subseteq Points(heap[task.tape].region)
        BY <1>1 DEF TaskOK, Covers, Good, Points, Region
    <2>2. CASE pushed = heap[task.tape]
        BY <1>1, <2>2 DEF TaskOK
    <2>3. CASE pushed.region = task.region
        <3>1. Covers(pushed, task.region)
            BY <1>2, <2>3 DEF Covers, Region
        <3>. QED  BY <1>1, <1>2, <1>3, <2>1, <2>3, <3>1 DEF Good
    <2>. QED  BY <1>3, <2>2, <2>3
<1>5. PICK a \in Addr :
          /\ IF pushed = heap[task.tape] THEN a = task.tape /\ UNCHANGED <<heap, spares>>
             ELSE /\ Place(e, a)
                  /\ heap' = [heap EXCEPT ![a] = pushed]
                  /\ spares' = [spares EXCEPT ![e] = Unspared(e)]
          /\ tasks' = (tasks \ {task})
                      \cup {[region |-> r, tape |-> a] : r \in Subdivide(task.region)}
    BY DEF Descend
<1>6. /\ DOMAIN heap' = Addr /\ HeapOK(heap')
      /\ heap'[a] = pushed /\ \A b \in InUse : heap'[b] = heap[b]
      /\ ClosedIn(heap', InUse \cup {a})
      /\ heap'[Base] = BaseTape(deck)
      /\ \A b \in Addr : heap'[b].parent = None => heap'[b] = BaseTape(deck)
      /\ SparesOK(spares', InUse \cup {a})
    <2>1. CASE pushed = heap[task.tape]
        <3>1. a = task.tape /\ heap' = heap /\ spares' = spares /\ InUse \cup {a} = InUse
            BY <1>1, <1>5, <2>1
        <3>. QED  BY <2>1, <3>1, UsedIsClosed DEF TapesInv
    <2>2. CASE pushed # heap[task.tape]
        <3>1. /\ Place(e, a)
              /\ heap' = [heap EXCEPT ![a] = pushed]
              /\ spares' = [spares EXCEPT ![e] = Unspared(e)]
            BY <1>5, <2>2
        <3>2. /\ a \notin InUse /\ a \notin Range(Unspared(e))
              /\ \A f \in Evaluator : f # e => a \notin Range(spares[f])
              /\ Unspared(e) \in Seq(Addr) /\ IsInjective(Unspared(e))
              /\ Range(Unspared(e)) \subseteq Range(spares[e])
            BY <3>1, PlaceIsFree
        <3>3. SparesOK(spares, InUse)
            BY DEF TapesInv
        <3>4. /\ spares'[e] = Unspared(e)
              /\ \A f \in Evaluator : f # e => spares'[f] = spares[f]
              /\ spares' \in [Evaluator -> Seq(Addr)]
            BY <3>1, <3>2, <3>3 DEF SparesOK
        <3>5. \A f \in Evaluator : /\ IsInjective(spares'[f]) /\ a \notin Range(spares'[f])
                                   /\ Range(spares'[f]) \subseteq Range(spares[f])
            BY <3>2, <3>3, <3>4 DEF SparesOK
        <3>6. SparesOK(spares', InUse \cup {a})
            <4>1. /\ \A f \in Evaluator : Range(spares[f]) \cap InUse = {}
                  /\ \A f, k \in Evaluator : f # k => Range(spares[f]) \cap Range(spares[k]) = {}
                BY <3>3 DEF SparesOK
            <4>2. \A f \in Evaluator : Range(spares'[f]) \cap (InUse \cup {a}) = {}
                BY <3>5, <4>1
            <4>3. ASSUME NEW f \in Evaluator, NEW k \in Evaluator, f # k
                  PROVE  Range(spares'[f]) \cap Range(spares'[k]) = {}
                <5>1. /\ Range(spares'[f]) \subseteq Range(spares[f])
                      /\ Range(spares'[k]) \subseteq Range(spares[k])
                    BY <3>5
                <5>. QED  BY <4>1, <4>3, <5>1
            <4>. QED  BY <3>4, <3>5, <4>2, <4>3 DEF SparesOK
        <3>7. Written(heap', a, pushed)
            BY <1>1, <1>3, <2>2, <3>1, <3>2, WriteKeeps
        <3>. QED  BY <3>6, <3>7 DEF Written
    <2>. QED  BY <2>1, <2>2
<1>7. UsedIn(heap', tasks') \subseteq InUse \cup {a}
    <2>1. Base \in InUse
        BY DEF InUse
    <2>2. \A other \in tasks' : other.tape \in Addr /\ other.tape \in InUse \cup {a}
        BY <1>5, UsedIsClosed
    <2>. QED  BY <1>6, <2>1, <2>2, UsedIfClosed
<1>8. \A b \in UsedIn(heap', tasks') : Good(heap'[b])
    BY <1>4, <1>6, <1>7 DEF TapesInv
<1>9. ASSUME NEW other \in tasks' PROVE TaskOK(heap', other)
    <2>1. CASE other \in tasks
        BY <1>6, <2>1, UsedIsClosed DEF TapesInv, TaskOK
    <2>2. CASE other \notin tasks
        <3>1. PICK half \in Subdivide(task.region) : other = [region |-> half, tape |-> a]
            BY <1>5, <2>2
        <3>2. /\ half \in Region /\ half.lower < half.upper
              /\ task.region.lower <= half.lower /\ half.upper <= task.region.upper
            BY <1>1, Halves DEF TaskOK
        <3>3. Covers(pushed, half)
            BY <1>2, <1>4, <3>2 DEF Covers, Good, Region
        <3>. QED  BY <1>6, <3>1, <3>2, <3>3 DEF TaskOK
    <2>. QED  BY <2>1, <2>2
<1>10. SparesOK(spares', UsedIn(heap', tasks'))
    BY <1>6, <1>7 DEF SparesOK
<1>. QED  BY <1>6, <1>8, <1>9, <1>10, InvNext

LEMMA PointsAreInts ==
    ASSUME NEW r \in Region, NEW p \in Points(r)
    PROVE  p \in Int /\ Within(p, r)
BY DEF Region, Points, Within

LEMMA TapesInit == Init => TapesInv
<1>. SUFFICES ASSUME Init PROVE TapesInv
    OBVIOUS
<1>. USE DEF Init
<1>1. Base \in Addr /\ \A a \in Addr : heap[a] = BaseTape(deck)
    BY BaseIsATape
<1>2. Whole \in Region /\ Whole.lower < Whole.upper /\ BaseTape(deck).region = Whole
    BY TapesAssumption DEF Whole, Region, BaseTape
<1>3. HeapOK(heap)
    <2>1. \A a \in Addr : heap[a].parent = None
        BY <1>1 DEF BaseTape
    <2>. QED  BY <2>1 DEF HeapOK, Grounded
<1>4. Good(BaseTape(deck))
    BY <1>2, DeckFacts DEF Good
<1>5. \A task \in tasks : TaskOK(heap, task)
    <2>1. Covers(BaseTape(deck), Whole)
        BY TapesAssumption DEF Covers, BaseTape, Whole
    <2>. QED  BY <1>1, <1>2, <2>1 DEF TaskOK
<1>6. ClosedIn(heap, Addr) /\ UsedIn(heap, tasks) \subseteq Addr
    <2>1. ClosedIn(heap, Addr)
        BY <1>3 DEF ClosedIn, HeapOK
    <2>2. \A task \in tasks : task.tape \in Addr
        BY <1>5 DEF TaskOK
    <2>. QED  BY <1>1, <1>3, <2>1, <2>2, UsedIfClosed
<1>7. \A a \in InUse : Good(heap[a])
    BY <1>1, <1>4, <1>6, InUseIs
<1>8. SparesOK(spares, InUse)
    <2>1. /\ <<>> \in Seq(Addr) /\ Range(<<>>) = {} /\ IsInjective(<<>>)
        BY DEF Range, IsInjective
    <2>2. /\ spares \in [Evaluator -> Seq(Addr)] /\ \A e \in Evaluator : spares[e] = <<>>
        BY <2>1
    <2>. QED  BY <2>1, <2>2 DEF SparesOK
<1>. QED  BY <1>1, <1>3, <1>5, <1>7, <1>8 DEF TapesInv

LEMMA TapesStep == TapesInv /\ [Next]_vars => TapesInv'
<1>. SUFFICES ASSUME TapesInv, [Next]_vars PROVE TapesInv'
    OBVIOUS
<1>1. ASSUME NEW e \in Evaluator, NEW task \in tasks, EvalInterval(e, task)
      PROVE  TapesInv'
    <2>1. PICK pushed : pushed = PushInterval(task.tape, task.region)
        OBVIOUS
    <2>2. CASE Descend(e, task, pushed)
        BY <1>1, <2>1, <2>2, DescendKeeps DEF EvalInterval
    <2>3. CASE Claim(e, task, pushed) /\ tasks' = tasks \ {task}
        <3>1. pushed = heap[task.tape] \/ pushed.parent = task.tape
            BY <2>1, PushIs DEF PushInterval
        <3>. QED  BY <1>1, <2>3, <3>1, DropKeeps DEF EvalInterval
    <2>. QED  BY <1>1, <2>1, <2>2, <2>3 DEF EvalInterval
<1>2. ASSUME NEW e \in Evaluator, NEW task \in tasks, EvalLeaf(e, task)
      PROVE  TapesInv'
    <2>1. PICK p : \/ UNCHANGED <<heap, spares>>
                   \/ Claim(e, task, PushPoint(task.tape, p))
        BY <1>2 DEF EvalLeaf
    <2>2. PICK pushed : pushed = PushPoint(task.tape, p)
        OBVIOUS
    <2>3. pushed = heap[task.tape] \/ pushed.parent = task.tape
        BY <2>2, PushIs DEF PushPoint
    <2>4. tasks' = tasks \ {task} /\ UNCHANGED deck
        BY <1>2 DEF EvalLeaf
    <2>. QED  BY <2>1, <2>2, <2>3, <2>4, DropKeeps
<1>3. CASE UNCHANGED vars
    <2>1. UsedIn(heap', tasks') = InUse
        BY <1>3, InUseIs DEF vars
    <2>2. /\ DOMAIN heap' = Addr /\ HeapOK(heap') /\ heap'[Base] = BaseTape(deck)
          /\ \A a \in Addr : heap'[a].parent = None => heap'[a] = BaseTape(deck)
          /\ \A a \in InUse : Good(heap'[a])
          /\ \A task \in tasks' : TaskOK(heap', task)
          /\ SparesOK(spares', InUse)
        BY <1>3 DEF vars, TapesInv
    <2>. QED  BY <1>3, <2>1, <2>2, InvNext DEF vars
<1>. QED  BY <1>1, <1>2, <1>3 DEF Next

THEOREM TapesInvariant == Spec => []TapesInv
BY TapesInit, TapesStep, PTL DEF Spec

-----------------------------------------------------------------------------
(* What the runs check, for all shapes, workers and sizes *)

(* Whatever is pushed, claimed and written again by the workers, a tape     *)
(* that is in use gives the features of the whole shape in its region       *)
(* (Tape::push, Deck::claim).                                               *)
THEOREM TapesStayExact == Spec => []TapesAreExact
<1>1. TapesInv => TapesAreExact
    BY DEF TapesInv, Good, TapesAreExact, Exact
<1>. QED  BY <1>1, TapesInvariant, PTL

(* No clause of a tape in use, and not its root, reads a result that an     *)
(* earlier evaluation has left behind (deck.hpp).                           *)
THEOREM OnlyFreshIsRead == Spec => []NothingStaleIsRead
<1>1. ASSUME TapesInv PROVE NothingStaleIsRead
    <2>1. SUFFICES ASSUME NEW a \in InUse, NEW tape, tape = heap[a]
                   PROVE  LET After(j) == {tape.t[k].id : k \in j + 1 .. Len(tape.t)}
                          IN  /\ tape.i \in LeafIds(deck) \cup After(0)
                              /\ \A j \in DOMAIN tape.t :
                                    {tape.t[j].a, tape.t[j].b} \subseteq LeafIds(deck) \cup After(j)
        BY DEF NothingStaleIsRead
    <2>. DEFINE After(j) == {tape.t[k].id : k \in j + 1 .. Len(tape.t)}
    <2>2. deck \in Decks /\ TapeOK(tape)
        BY <1>1, <2>1 DEF TapesInv, Good
    <2>3. tape.i \in LeafIds(deck) \cup After(0)
        BY <2>2, TapeFacts DEF ClauseIds
    <2>4. ASSUME NEW j \in DOMAIN tape.t, NEW n \in {tape.t[j].a, tape.t[j].b}
          PROVE  n \in LeafIds(deck) \cup After(j)
        <3>1. /\ DOMAIN tape.t = 1 .. Len(tape.t) /\ Len(tape.t) \in Nat
              /\ n \in LeafIds(deck) \cup ClauseIds(tape)
              /\ n > tape.t[j].id \/ n = 0
              /\ 0 \in LeafIds(deck)
              /\ \A k, l \in DOMAIN tape.t : k < l => tape.t[k].id < tape.t[l].id
              /\ \A k \in DOMAIN tape.t : tape.t[k].id \in Nat
            BY <2>2, TapeFacts, DeckFacts
        <3>2. CASE n \notin LeafIds(deck)
            <4>1. PICK k \in DOMAIN tape.t : n = tape.t[k].id
                BY <3>1, <3>2 DEF ClauseIds
            <4>2. k > j
                BY <3>1, <3>2, <4>1
            <4>. QED  BY <3>1, <4>1, <4>2
        <3>. QED  BY <3>2
    <2>. QED  BY <2>3, <2>4
<1>. QED  BY <1>1, TapesInvariant, PTL

(* A tape that will be written again is nobody's: not in use, and not a     *)
(* spare of another worker (Deck::claim and the spares of deck.hpp).        *)
THEOREM SparesStayUnused == Spec => []SparesAreUnused
<1>1. TapesInv => SparesAreUnused
    BY DEF TapesInv, SparesOK, SparesAreUnused, Spare
<1>. QED  BY <1>1, TapesInvariant, PTL

(* What isInside() looks at is exact at its point (valueAndPush).           *)
THEOREM SpecialisedStaysExact == Spec => []SpecialisedIsExact
<1>1. ASSUME TapesInv PROVE SpecialisedIsExact
    <2>1. SUFFICES ASSUME NEW task \in tasks, NEW p \in Points(task.region)
                   PROVE  Exact(PushPoint(task.tape, p), {p})
        BY DEF SpecialisedIsExact
    <2>2. /\ deck \in Decks /\ heap[Base] = BaseTape(deck)
          /\ TaskOK(heap, task) /\ Good(heap[task.tape])
        BY <1>1, UsedIsClosed DEF TapesInv
    <2>3. p \in Int /\ p \in Points(heap[task.tape].region)
        BY <2>2 DEF TaskOK, Good, Covers, Points, Region
    <2>4. Feature(PushPoint(task.tape, p), p) = Feature(heap[task.tape], p)
        BY <2>2, <2>3, PushPointIs DEF Good
    <2>. QED  BY <2>2, <2>3, <2>4 DEF Good, Exact
<1>. QED  BY <1>1, TapesInvariant, PTL

(* The tape that a worker goes back to, for a larger cell or for a place    *)
(* outside of its cell, is exact there (Tape::getBase).                     *)
THEOREM BasesStayExact == Spec => []BasesAreExact
<1>1. ASSUME TapesInv, NEW task \in tasks, NEW r \in Region
      PROVE  Exact(heap[GetBase(task.tape, r)], Points(r))
    <2>1. PICK b : b = GetBase(task.tape, r)
        OBVIOUS
    <2>2. b = BaseIn(heap, r, task.tape)
        BY <2>1 DEF GetBase, BaseIn, FitsIn
    <2>3. /\ b \in InUse /\ b \in Addr
          /\ \/ heap[b].parent = None
             \/ heap[b].region.lower <= r.lower /\ r.upper <= heap[b].region.upper
        BY <1>1, <2>2, UsedIsClosed, BaseIs DEF TapesInv
    <2>4. Good(heap[b]) /\ heap[Base] = BaseTape(deck)
        BY <1>1, <2>3 DEF TapesInv
    <2>5. CASE heap[b].parent = None
        BY <1>1, <2>1, <2>3, <2>4, <2>5 DEF TapesInv, Exact
    <2>6. CASE heap[b].region.lower <= r.lower /\ r.upper <= heap[b].region.upper
        <3>1. Points(r) \subseteq Points(heap[b].region)
            BY <2>4, <2>6 DEF Good, Points, Region
        <3>. QED  BY <2>1, <2>4, <3>1 DEF Good, Exact
    <2>. QED  BY <2>3, <2>5, <2>6
<1>2. ASSUME NEW p \in Points(Whole)
      PROVE  [lower |-> p, upper |-> p] \in Region /\ Points([lower |-> p, upper |-> p]) = {p}
    BY TapesAssumption DEF Points, Whole, Region
<1>3. \A task \in tasks : Enclosing(task.region) \subseteq Region
    BY TapesAssumption DEF Enclosing, Region
<1>4. TapesInv => BasesAreExact
    BY <1>1, <1>2, <1>3 DEF BasesAreExact
<1>. QED  BY <1>4, TapesInvariant, PTL

(* A cell that interval arithmetic finds empty or filled on a shortened     *)
(* tape is so at each of its points (IntervalEvaluator::eval, evalInterval).*)
THEOREM UniformCellsStayUniform == Spec => []UniformCellsAreUniform
<1>1. ASSUME TapesInv PROVE UniformCellsAreUniform
    <2>1. SUFFICES ASSUME NEW task \in tasks, NEW p \in Points(task.region)
                   PROVE  LET tape == heap[task.tape]
                              state == State(Intervals(tape, task.region)[tape.i])
                          IN  /\ state = "empty" => Value(heap[Base], p) > 0
                              /\ state = "filled" => Value(heap[Base], p) < 0
        BY DEF UniformCellsAreUniform
    <2>2. PICK tape, r, base : tape = heap[task.tape] /\ r = task.region /\ base = heap[Base]
        OBVIOUS
    <2>3. /\ deck \in Decks /\ base = BaseTape(deck)
          /\ TaskOK(heap, task) /\ Good(tape)
        BY <1>1, <2>2, UsedIsClosed DEF TapesInv
    <2>4. /\ r \in Region /\ p \in Int /\ Within(p, r) /\ p \in Points(tape.region)
        BY <2>1, <2>2, <2>3 DEF TaskOK, Good, Covers, Points, Region, Within
    <2>5. TapeOK(tape) /\ TapeOK(base) /\ tape.i \in Ids /\ base.i \in Ids
        BY <2>3, DeckFacts, TapeFacts DEF Good
    <2>6. /\ Value(tape, p) \in Int /\ Intervals(tape, r)[tape.i] \in Region
          /\ Within(Value(tape, p), Intervals(tape, r)[tape.i])
        BY <2>3, <2>4, <2>5, IntervalsHoldValues DEF Value
    <2>7. Feature(tape, p) = Feature(base, p)
        BY <2>3, <2>4 DEF Good
    <2>8. /\ Feature(tape, p).value = Value(tape, p)
          /\ Feature(base, p).value = Value(base, p)
        BY <2>3, <2>4, <2>5, FeaturesHoldValues DEF Value, Feature, AllFeatures, FeatureLeaves
    <2>9. Value(base, p) = Value(tape, p)
        BY <2>7, <2>8
    <2>. QED  BY <2>2, <2>6, <2>9 DEF State, Within, Region
<1>. QED  BY <1>1, TapesInvariant, PTL
=============================================================================
