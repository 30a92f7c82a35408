------------------------------ MODULE TreeCache ------------------------------
(***************************************************************************)
(* The cache of libfive's expression nodes (tree/cache.cpp, tree/tree.cpp) *)
(* and the threads that build, copy and drop expressions.                  *)
(*                                                                         *)
(* A Tree is a counted reference to a node (Tree_).  The cache maps a key, *)
(* an operation and the addresses of its arguments, to a weak reference,   *)
(* so that equal expressions are one node.  The cache is guarded by a      *)
(* mutex, the counters are not: ~Tree takes the mutex before it drops its  *)
(* reference, the copy assignment that the compiler writes does not.  A    *)
(* node whose last reference is gone is destroyed by the thread that       *)
(* dropped it, in steps: ~Tree_ erases the entry under the mutex, then its *)
(* members let go of the arguments and the memory is free again.           *)
(*                                                                         *)
(* What an expression simplifies to is left to the client: a thread may    *)
(* build any node over what it can reach.  Free variables and oracles are  *)
(* not cached and not modelled.                                            *)
(***************************************************************************)

CONSTANTS
    Thread,
    Slot,       \* the Tree variables of a thread
    Addr,       \* addresses of nodes
    Atom,       \* constants and axes: expressions without arguments
    Op,         \* operations, of one argument or two
    None        \* the null pointer, the free mutex, free memory

Pointer == Addr \cup {None}

(* Cache::Key, and an atom as one (the key of a constant is its value). *)
Key == [op : Atom \cup Op, lhs : Pointer, rhs : Pointer]

ASSUME NoneAssumption == None \notin Addr /\ None \notin Thread /\ None \notin Key

VARIABLES
    node,       \* node[a]: the key of the node at address a, or None
    cache,      \* the entries, [key, node]
    handle,     \* handle[t][s]: the node that Tree s of thread t refers to
    lock,       \* the thread that holds the mutex of the cache
    dying,      \* dying[t]: nodes without references that t is to erase
    erased,     \* erased[t]: those of them whose entry is erased
    broken      \* a lookup has found an entry whose node has expired

cacheVars == <<node, cache, handle, lock, dying, erased, broken>>

-----------------------------------------------------------------------------
Allocated == {a \in Addr : node[a] # None}

Arguments(k) == {k.lhs, k.rhs} \ {None}

(* The use count of a node: references of Trees and of other nodes. *)
HeldIn(a, mem, trees) ==
    \/ \E t \in Thread, s \in Slot : trees[t][s] = a
    \/ \E b \in Addr : mem[b] # None /\ a \in Arguments(mem[b])

Held(a) == HeldIn(a, node, handle)

Entry(k, a) == [key |-> k, node |-> a]

HeldBy(t) == {handle[t][s] : s \in Slot} \ {None}

(* What a thread can name: whatever is referred to, since branches can be   *)
(* followed and Trees handed from thread to thread.                         *)
Reachable == {a \in Addr : Held(a)}

(* The expressions it can name next. *)
Expressible ==
    [op : Atom, lhs : {None}, rhs : {None}]
        \cup [op : Op, lhs : Reachable, rhs : Reachable \cup {None}]

(* A thread that is destroying a node does nothing else meanwhile. *)
Destroying(t) == dying[t] \cup erased[t] # {}

Ready(t) == ~broken /\ ~Destroying(t)

Point(t, s, a) == [handle EXCEPT ![t][s] = a]

-----------------------------------------------------------------------------
(* Cache::Handle: the mutex is held over a longer expression. *)
Acquire(t) ==
    /\ Ready(t)
    /\ lock = None
    /\ lock' = t
    /\ UNCHANGED <<node, cache, handle, dying, erased, broken>>

Unlock(t) ==
    /\ Ready(t)
    /\ lock = t
    /\ lock' = None
    /\ UNCHANGED <<node, cache, handle, dying, erased, broken>>

(* Cache::operation and Cache::constant for a key that needs no more        *)
(* simplification: return the node of the entry, or make both.              *)
Find(t, s, k) ==
    /\ UNCHANGED <<node, cache>>
    /\ \E e \in cache :
          /\ e.key = k
          /\ IF Held(e.node)
             THEN handle' = Point(t, s, e.node) /\ UNCHANGED broken
             ELSE broken' = TRUE /\ UNCHANGED handle

Make(t, s, k) ==
    /\ \A e \in cache : e.key # k
    /\ \E a \in Addr :
          /\ node[a] = None
          /\ node' = [node EXCEPT ![a] = k]
          /\ cache' = cache \cup {Entry(k, a)}
          /\ handle' = Point(t, s, a)
    /\ UNCHANGED broken

Build(t, s, k) ==
    /\ Ready(t)
    /\ lock \in {None, t}
    /\ UNCHANGED <<lock, dying, erased>>
    /\ handle[t][s] = None
    /\ Find(t, s, k) \/ Make(t, s, k)

(* The copy constructor, lhs() and rhs(), and an operation that simplifies  *)
(* to an argument, count one more reference, without the mutex.             *)
Copy(t, s, a) ==
    /\ Ready(t)
    /\ handle[t][s] = None
    /\ a \in Reachable
    /\ handle' = Point(t, s, a)
    /\ UNCHANGED <<node, cache, lock, dying, erased, broken>>

(* The thread that drops the last reference runs the destructor. *)
Expire(t, a) ==
    dying' = IF HeldIn(a, node, handle') THEN dying
             ELSE [dying EXCEPT ![t] = @ \cup {a}]

(* ~Tree: the mutex is taken first and kept until the destructors are done. *)
Destroy(t, s) ==
    /\ Ready(t)
    /\ lock \in {None, t}
    /\ handle[t][s] # None
    /\ handle' = Point(t, s, None)
    /\ Expire(t, handle[t][s])
    /\ lock' = IF dying' = dying THEN lock ELSE t
    /\ UNCHANGED <<node, cache, erased, broken>>

(* Tree::operator= is the one the compiler writes: it copies the reference  *)
(* and drops the old one, without the mutex.                                *)
Assign(t, d, s) ==
    /\ Ready(t)
    /\ handle[t][d] # None /\ handle[t][s] # None
    /\ handle' = Point(t, d, handle[t][s])
    /\ Expire(t, handle[t][d])
    /\ UNCHANGED <<node, cache, lock, erased, broken>>

(* An assignment whose old value is referred to from elsewhere. *)
AssignShared(t, d, s) == Assign(t, d, s) /\ UNCHANGED dying

(* Mutant of Del: the comparison of keys forgets the operation. *)
DelByArguments(t) ==
    /\ ~broken
    /\ lock \in {None, t}
    /\ \E a \in dying[t] :
          /\ cache' = {e \in cache : Arguments(e.key) # Arguments(node[a])}
          /\ dying' = [dying EXCEPT ![t] = @ \ {a}]
          /\ erased' = [erased EXCEPT ![t] = @ \cup {a}]
    /\ UNCHANGED <<node, handle, lock, broken>>

(* ~Tree_ erases the entry of its key through Cache::del. *)
Del(t) ==
    /\ ~broken
    /\ lock \in {None, t}
    /\ \E a \in dying[t] :
          /\ cache' = {e \in cache : e.key # node[a]}
          /\ dying' = [dying EXCEPT ![t] = @ \ {a}]
          /\ erased' = [erased EXCEPT ![t] = @ \cup {a}]
    /\ UNCHANGED <<node, handle, lock, broken>>

(* Mutant of Release: the arguments go with the node. *)
ReleaseBranches(t) ==
    /\ ~broken
    /\ \E a \in erased[t] :
          /\ node' = [node EXCEPT ![a] = None]
          /\ erased' = [erased EXCEPT ![t] = @ \ {a}]
          /\ dying' = [dying EXCEPT ![t] = @ \cup Arguments(node[a])]
    /\ UNCHANGED <<cache, handle, lock, broken>>

(* Mutant of Release: the arguments are not let go of. *)
ReleaseNode(t) ==
    /\ ~broken
    /\ \E a \in erased[t] :
          /\ node' = [node EXCEPT ![a] = None]
          /\ erased' = [erased EXCEPT ![t] = @ \ {a}]
    /\ UNCHANGED <<cache, handle, lock, dying, broken>>

(* Then its members let go of the arguments, which may expire in turn. *)
Release(t) ==
    /\ ~broken
    /\ \E a \in erased[t] :
          /\ node' = [node EXCEPT ![a] = None]
          /\ erased' = [erased EXCEPT ![t] = @ \ {a}]
          /\ dying' = [dying EXCEPT ![t] = @ \cup
                {b \in Arguments(node[a]) : ~HeldIn(b, node', handle)}]
    /\ UNCHANGED <<cache, handle, lock, broken>>

-----------------------------------------------------------------------------
CacheInit ==
    /\ node = [a \in Addr |-> None]
    /\ cache = {}
    /\ handle = [t \in Thread |-> [s \in Slot |-> None]]
    /\ lock = None
    /\ dying = [t \in Thread |-> {}]
    /\ erased = [t \in Thread |-> {}]
    /\ broken = FALSE

AnyStep(t) ==
    \/ Acquire(t) \/ Unlock(t) \/ Del(t) \/ Release(t)
    \/ \E s \in Slot : Destroy(t, s)
    \/ \E s \in Slot, a \in Reachable : Copy(t, s, a)
    \/ \E d, s \in Slot : Assign(t, d, s)
    \/ \E s \in Slot, k \in Expressible : Build(t, s, k)

CacheNext == \E t \in Thread : AnyStep(t)

(* Any client. *)
CacheSpec == CacheInit /\ [][CacheNext]_cacheVars

(* A client that never assigns over a last reference. *)
CarefulStepOf(t) ==
    \/ Acquire(t) \/ Unlock(t) \/ Del(t) \/ Release(t)
    \/ \E s \in Slot : Destroy(t, s)
    \/ \E s \in Slot, a \in Reachable : Copy(t, s, a)
    \/ \E d, s \in Slot : AssignShared(t, d, s)
    \/ \E s \in Slot, k \in Expressible : Build(t, s, k)

CarefulNext == \E t \in Thread : CarefulStepOf(t)

CarefulSpec == CacheInit /\ [][CarefulNext]_cacheVars

-----------------------------------------------------------------------------
(* Properties *)

CacheTypeOK ==
    /\ node \in [Addr -> Key \cup {None}]
    /\ cache \subseteq [key : Key, node : Addr]
    /\ handle \in [Thread -> [Slot -> Pointer]]
    /\ lock \in Thread \cup {None}
    /\ dying \in [Thread -> SUBSET Addr]
    /\ erased \in [Thread -> SUBSET Addr]
    /\ broken \in BOOLEAN

(* tree.hpp: "Trees are uniquely identified by their Tree_ address": two    *)
(* nodes that are in use are never the same expression, although memory is  *)
(* used again and keys hold addresses.                                      *)
Deduplicated ==
    \A a, b \in Allocated : Held(a) /\ Held(b) /\ node[a] = node[b] => a = b

(* No Tree, no node and no key of an entry names memory that is free. *)
NoDanglingPointer ==
    /\ \A t \in Thread : HeldBy(t) \subseteq Allocated
    /\ \A a \in Allocated : Arguments(node[a]) \subseteq Allocated
    /\ \A e \in cache : Arguments(e.key) \cup {e.node} \subseteq Allocated

(* cache.cpp, del: the assertions that a node that is destroyed has an      *)
(* entry, its own.                                                          *)
DyingHasEntry ==
    \A t \in Thread : \A a \in dying[t] : Entry(node[a], a) \in cache

(* cache.cpp, operation and constant: the assertion that what a lookup      *)
(* finds has not expired.                                                   *)
NeverExpired == ~broken
=============================================================================
