--------------------------- MODULE TreeCacheProofs ---------------------------
(***************************************************************************)
(* Proofs about TreeCache, for any number of threads, addresses, operations*)
(* and any client: addresses are used again, threads interleave, and still *)
(* equal expressions are one node and no pointer dangles.  That a lookup   *)
(* never finds a node that has expired needs a client that does not assign *)
(* over a last reference.                                                  *)
(***************************************************************************)
EXTENDS TreeCache, TLAPS

-----------------------------------------------------------------------------
(* The inductive invariant *)

Doomed(t) == dying[t] \cup erased[t]

PointersAllocated ==
    /\ \A t \in Thread, s \in Slot : handle[t][s] # None => node[handle[t][s]] # None
    /\ \A a \in Allocated : \A b \in Arguments(node[a]) : node[b] # None

(* A node is being destroyed by one thread, in one stage, and unreferenced. *)
DoomedUnheld ==
    /\ \A t \in Thread : \A a \in Doomed(t) : node[a] # None /\ ~Held(a)
    /\ \A t, u \in Thread : dying[t] \cap erased[u] = {}
    /\ \A t, u \in Thread : t # u => dying[t] \cap dying[u] = {} /\ erased[t] \cap erased[u] = {}

(* The entries are those of the nodes that are not erased, one for a key. *)
EntriesMatch ==
    /\ \A e \in cache : node[e.node] = e.key /\ \A t \in Thread : e.node \notin erased[t]
    /\ \A a \in Allocated :
          (\A t \in Thread : a \notin erased[t]) => Entry(node[a], a) \in cache
    /\ \A e, f \in cache : e.key = f.key => e = f

CacheInv == CacheTypeOK /\ PointersAllocated /\ DoomedUnheld /\ EntriesMatch

(* Under a careful client the mutex covers every destruction. *)
LockCovers ==
    /\ \A t \in Thread : Doomed(t) # {} => lock = t
    /\ \A a \in Allocated : ~Held(a) => \E t \in Thread : a \in Doomed(t)

CarefulInv == CacheInv /\ LockCovers /\ ~broken
-----------------------------------------------------------------------------
(* What is referred to is allocated and not being destroyed. *)
LEMMA ReachableIsHeld ==
    ASSUME CacheInv, NEW a \in Reachable
    PROVE  a \in Addr /\ node[a] # None /\ Held(a) /\ \A u \in Thread : a \notin Doomed(u)
<1>1. a \in Addr /\ Held(a)
    BY DEF Reachable
<1>2. node[a] # None
    <2>1. CASE \E t \in Thread, s \in Slot : handle[t][s] = a
        BY <1>1, <2>1, NoneAssumption DEF CacheInv, PointersAllocated
    <2>2. CASE \E b \in Addr : node[b] # None /\ a \in Arguments(node[b])
        BY <2>2 DEF CacheInv, PointersAllocated, Allocated
    <2>. QED  BY <1>1, <2>1, <2>2 DEF Held, HeldIn
<1>. QED  BY <1>1, <1>2 DEF CacheInv, DoomedUnheld

(* Expressions that a thread can name have allocated, held arguments. *)
LEMMA ExpressibleIsKey ==
    ASSUME NEW k \in Expressible
    PROVE  k \in Key /\ \A b \in Arguments(k) : b \in Reachable
<1>1. Reachable \subseteq Addr
    BY DEF Reachable
<1>. QED  BY <1>1, NoneAssumption DEF Expressible, Key, Arguments, Pointer

-----------------------------------------------------------------------------
(* Every action preserves the invariant *)

LEMMA PointPreserves ==
    ASSUME CacheInv, NEW t \in Thread, NEW s \in Slot, NEW a \in Addr, node[a] # None,
           \A u \in Thread : a \notin Doomed(u),
           handle' = Point(t, s, a),
           UNCHANGED <<node, cache, dying, erased>>, lock' \in Thread \cup {None}, broken' \in BOOLEAN
    PROVE  CacheInv'
<1>1. CacheTypeOK'
    BY DEF CacheInv, CacheTypeOK, Point, Pointer
<1>2. PointersAllocated'
    BY DEF CacheInv, CacheTypeOK, PointersAllocated, Point, Allocated
<1>3. DoomedUnheld'
    <2>1. \A b \in Addr : ~Held(b) /\ b # a => ~Held(b)'
        BY DEF Held, HeldIn, Point, CacheInv, CacheTypeOK
    <2>. QED  BY <2>1 DEF CacheInv, CacheTypeOK, DoomedUnheld, Doomed
<1>4. EntriesMatch'
    BY DEF CacheInv, EntriesMatch, Allocated, Entry
<1>. QED  BY <1>1, <1>2, <1>3, <1>4 DEF CacheInv

LEMMA CopyPreserves ==
    ASSUME CacheInv, NEW t \in Thread, NEW s \in Slot, NEW a \in Reachable, Copy(t, s, a)
    PROVE  CacheInv'
BY ReachableIsHeld, PointPreserves DEF Copy, CacheInv, CacheTypeOK

LEMMA FindPreserves ==
    ASSUME CacheInv, NEW t \in Thread, NEW s \in Slot, NEW k \in Expressible,
           UNCHANGED <<lock, dying, erased>>, Find(t, s, k)
    PROVE  CacheInv'
<1>1. PICK e \in cache : /\ e.key = k
                         /\ IF Held(e.node)
                            THEN handle' = Point(t, s, e.node) /\ UNCHANGED broken
                            ELSE broken' = TRUE /\ UNCHANGED handle
    BY DEF Find
<1>2. UNCHANGED <<node, cache>>
    BY DEF Find
<1>3. CASE Held(e.node)
    <2>1. e.node \in Addr /\ node[e.node] # None
        BY ExpressibleIsKey, <1>1, NoneAssumption DEF CacheInv, CacheTypeOK, EntriesMatch
    <2>2. \A u \in Thread : e.node \notin Doomed(u)
        BY <1>3 DEF CacheInv, DoomedUnheld
    <2>. QED  BY <1>1, <1>2, <1>3, <2>1, <2>2, PointPreserves DEF CacheInv, CacheTypeOK
<1>4. CASE ~Held(e.node)
    BY <1>1, <1>2, <1>4 DEF CacheInv, CacheTypeOK, PointersAllocated, DoomedUnheld, EntriesMatch,
                            Allocated, Doomed, Held, HeldIn
<1>. QED  BY <1>3, <1>4

LEMMA MakePreserves ==
    ASSUME CacheInv, NEW t \in Thread, NEW s \in Slot, NEW k \in Expressible,
           UNCHANGED <<lock, dying, erased>>, Make(t, s, k)
    PROVE  CacheInv'
<1>1. PICK a \in Addr : /\ node[a] = None
                        /\ node' = [node EXCEPT ![a] = k]
                        /\ cache' = cache \cup {Entry(k, a)}
                        /\ handle' = Point(t, s, a)
    BY DEF Make
<1>2. \A e \in cache : e.key # k
    BY DEF Make
<1>3. UNCHANGED broken
    BY DEF Make
<1>4. k \in Key /\ k # None
    BY ExpressibleIsKey, NoneAssumption
<1>5. \A b \in Arguments(k) :
          b \in Addr /\ node[b] # None /\ \A u \in Thread : b \notin Doomed(u)
    BY ExpressibleIsKey, ReachableIsHeld
<1>6. CacheTypeOK'
    BY <1>1, <1>3, <1>4 DEF CacheInv, CacheTypeOK, Point, Pointer, Entry
<1>7. PointersAllocated'
    <2>1. \A b \in Addr : node[b] # None => node'[b] = node[b] /\ b # a
        BY <1>1 DEF CacheInv, CacheTypeOK
    <2>2. node'[a] = k
        BY <1>1 DEF CacheInv, CacheTypeOK
    <2>3. \A u \in Thread, r \in Slot : handle'[u][r] # None => node'[handle'[u][r]] # None
        BY <1>1, <1>4, <2>1, <2>2
        DEF CacheInv, CacheTypeOK, PointersAllocated, Point, Pointer
    <2>4. \A b \in Allocated : \A c \in Arguments(node[b]) : c \in Addr /\ node'[c] # None
        <3>. SUFFICES ASSUME NEW b \in Allocated, NEW c \in Arguments(node[b])
                      PROVE  c \in Addr /\ node'[c] # None
            OBVIOUS
        <3>1. node[b] \in Key /\ node[c] # None
            BY DEF CacheInv, CacheTypeOK, PointersAllocated, Allocated
        <3>. QED  BY <2>1, <3>1 DEF Arguments, Key, Pointer
    <2>5. \A b \in Allocated' : b = a \/ (b \in Allocated /\ node'[b] = node[b])
        BY <1>1, <2>1 DEF Allocated, CacheInv, CacheTypeOK
    <2>6. \A b \in Allocated' : \A c \in Arguments(node'[b]) : node'[c] # None
        BY <1>4, <1>5, <2>1, <2>2, <2>4, <2>5
    <2>. QED  BY <2>3, <2>6 DEF PointersAllocated
<1>8. DoomedUnheld'
    <2>1. \A u \in Thread : a \notin Doomed(u)
        BY <1>1 DEF CacheInv, DoomedUnheld
    <2>2. ASSUME NEW u \in Thread, NEW b \in Doomed(u)
          PROVE  node'[b] # None /\ ~Held(b)'
        <3>1. b \in Addr /\ b # a /\ node[b] # None /\ ~Held(b)
            BY <2>1, <2>2 DEF CacheInv, CacheTypeOK, DoomedUnheld, Doomed
        <3>2. \A v \in Thread, r \in Slot : handle'[v][r] # b
            BY <1>1, <3>1 DEF CacheInv, CacheTypeOK, Point, Held, HeldIn
        <3>3. b \notin Arguments(k)
            BY <1>5, <2>2
        <3>4. \A c \in Addr : node'[c] # None => b \notin Arguments(node'[c])
            BY <1>1, <3>1, <3>3 DEF CacheInv, CacheTypeOK, Held, HeldIn
        <3>. QED  BY <1>1, <3>1, <3>2, <3>4 DEF CacheInv, CacheTypeOK, Held, HeldIn
    <2>. QED  BY <2>2 DEF CacheInv, DoomedUnheld, Doomed
<1>9. EntriesMatch'
    <2>1. \A e \in cache' : node'[e.node] = e.key /\ \A u \in Thread : e.node \notin erased'[u]
        <3>1. \A e \in cache : e.node \in Addr /\ e.node # a
            BY <1>1, NoneAssumption DEF CacheInv, CacheTypeOK, EntriesMatch
        <3>2. \A u \in Thread : a \notin erased[u]
            BY <1>1 DEF CacheInv, DoomedUnheld, Doomed
        <3>. QED  BY <1>1, <3>1, <3>2 DEF CacheInv, CacheTypeOK, EntriesMatch, Entry
    <2>2. \A b \in Allocated' :
              (\A u \in Thread : b \notin erased'[u]) => Entry(node'[b], b) \in cache'
        BY <1>1 DEF CacheInv, CacheTypeOK, EntriesMatch, Allocated
    <2>3. \A e, f \in cache' : e.key = f.key => e = f
        BY <1>1, <1>2 DEF CacheInv, EntriesMatch, Entry
    <2>. QED  BY <2>1, <2>2, <2>3 DEF EntriesMatch
<1>. QED  BY <1>6, <1>7, <1>8, <1>9 DEF CacheInv

(* A Tree lets go of its node, and may refer to another afterwards. *)
LEMMA DropPreserves ==
    ASSUME CacheInv, NEW t \in Thread, NEW s \in Slot, NEW a \in Pointer,
           a # None => Held(a) /\ node[a] # None,
           handle[t][s] # None,
           handle' = Point(t, s, a),
           Expire(t, handle[t][s]),
           UNCHANGED <<node, cache, erased, broken>>, lock' \in Thread \cup {None}
    PROVE  CacheInv'
<1>0. PICK old \in Addr : old = handle[t][s]
    BY DEF CacheInv, CacheTypeOK, Pointer
<1>1. node[old] # None /\ Held(old)
    BY <1>0 DEF CacheInv, PointersAllocated, Held, HeldIn
<1>2. dying' = IF Held(old)' THEN dying ELSE [dying EXCEPT ![t] = @ \cup {old}]
    BY <1>0 DEF Expire, Held, HeldIn
<1>3. CacheTypeOK'
    BY <1>1, <1>2 DEF CacheInv, CacheTypeOK, Point, Pointer
<1>4. PointersAllocated'
    <2>1. \A u \in Thread, r \in Slot : handle'[u][r] # None => node[handle'[u][r]] # None
        BY DEF CacheInv, CacheTypeOK, PointersAllocated, Point
    <2>. QED  BY <2>1 DEF CacheInv, PointersAllocated, Allocated
<1>5. DoomedUnheld'
    <2>1. \A u \in Thread : old \notin Doomed(u)
        BY <1>1 DEF CacheInv, DoomedUnheld
    <2>2. ASSUME NEW b \in Addr, ~Held(b)
          PROVE  ~Held(b)'
        <3>1. b # a
            BY <2>2, NoneAssumption
        <3>2. \A u \in Thread, r \in Slot : handle[u][r] # b
            BY <2>2 DEF Held, HeldIn
        <3>3. \A u \in Thread, r \in Slot : handle'[u][r] # b
            BY <3>1, <3>2 DEF Point, CacheInv, CacheTypeOK
        <3>. QED  BY <2>2, <3>3 DEF Held, HeldIn
    <2>3. CASE Held(old)'
        BY <1>2, <2>2, <2>3 DEF CacheInv, CacheTypeOK, DoomedUnheld, Doomed
    <2>4. CASE ~Held(old)'
        <3>1. dying' = [dying EXCEPT ![t] = @ \cup {old}] /\ erased' = erased /\ node' = node
            BY <1>2, <2>4
        <3>2. \A u \in Thread : \A b \in Doomed(u)' : node'[b] # None /\ ~Held(b)'
            <4>. SUFFICES ASSUME NEW u \in Thread, NEW b \in Doomed(u)'
                          PROVE  node[b] # None /\ ~Held(b)'
                BY <3>1
            <4>1. b = old \/ b \in Doomed(u)
                BY <3>1 DEF CacheInv, CacheTypeOK, Doomed
            <4>2. CASE b = old
                BY <4>2, <1>1, <2>4
            <4>3. CASE b \in Doomed(u)
                <5>1. b \in Addr /\ node[b] # None /\ ~Held(b)
                    BY <4>3 DEF CacheInv, CacheTypeOK, DoomedUnheld, Doomed
                <5>. QED  BY <5>1, <2>2
            <4>. QED  BY <4>1, <4>2, <4>3
        <3>3. \A u, v \in Thread : dying'[u] \cap erased'[v] = {}
            BY <3>1, <2>1 DEF CacheInv, CacheTypeOK, DoomedUnheld, Doomed
        <3>4. \A u, v \in Thread : u # v =>
                  dying'[u] \cap dying'[v] = {} /\ erased'[u] \cap erased'[v] = {}
            BY <3>1, <2>1 DEF CacheInv, CacheTypeOK, DoomedUnheld, Doomed
        <3>. QED  BY <3>2, <3>3, <3>4 DEF DoomedUnheld
    <2>. QED  BY <2>3, <2>4
<1>6. EntriesMatch'
    BY DEF CacheInv, EntriesMatch, Allocated, Entry
<1>. QED  BY <1>3, <1>4, <1>5, <1>6 DEF CacheInv

LEMMA DestroyPreserves ==
    ASSUME CacheInv, NEW t \in Thread, NEW s \in Slot, Destroy(t, s)
    PROVE  CacheInv'
<1>1. lock' \in Thread \cup {None}
    BY DEF Destroy, CacheInv, CacheTypeOK
<1>. QED  BY <1>1, DropPreserves DEF Destroy, Pointer

LEMMA AssignPreserves ==
    ASSUME CacheInv, NEW t \in Thread, NEW d \in Slot, NEW s \in Slot, Assign(t, d, s)
    PROVE  CacheInv'
<1>1. handle[t][s] \in Pointer /\ Held(handle[t][s]) /\ node[handle[t][s]] # None
    BY DEF Assign, CacheInv, CacheTypeOK, PointersAllocated, Held, HeldIn
<1>2. lock' \in Thread \cup {None}
    BY DEF Assign, CacheInv, CacheTypeOK
<1>. QED  BY <1>1, <1>2, DropPreserves DEF Assign

LEMMA DelPreserves ==
    ASSUME CacheInv, NEW t \in Thread, Del(t)
    PROVE  CacheInv'
<1>1. PICK a \in dying[t] : /\ cache' = {e \in cache : e.key # node[a]}
                            /\ dying' = [dying EXCEPT ![t] = @ \ {a}]
                            /\ erased' = [erased EXCEPT ![t] = @ \cup {a}]
    BY DEF Del
<1>2. UNCHANGED <<node, handle, lock, broken>>
    BY DEF Del
<1>3. a \in Addr /\ node[a] # None /\ ~Held(a) /\ \A u \in Thread : a \notin erased[u]
    BY DEF CacheInv, CacheTypeOK, DoomedUnheld, Doomed
<1>4. Entry(node[a], a) \in cache
    BY <1>3 DEF CacheInv, EntriesMatch, Allocated
<1>5. \A e \in cache : e.key = node[a] <=> e = Entry(node[a], a)
    BY <1>4 DEF CacheInv, EntriesMatch, Entry
<1>6. CacheTypeOK'
    BY <1>1, <1>2, <1>3 DEF CacheInv, CacheTypeOK
<1>7. PointersAllocated'
    BY <1>2 DEF CacheInv, PointersAllocated, Allocated
<1>8. DoomedUnheld'
    <2>1. \A u \in Thread : Doomed(u)' = Doomed(u)
        BY <1>1 DEF CacheInv, CacheTypeOK, Doomed
    <2>2. \A b \in Addr : Held(b)' <=> Held(b)
        BY <1>2 DEF Held, HeldIn
    <2>3. \A u \in Thread : Doomed(u) \subseteq Addr
        BY DEF CacheInv, CacheTypeOK, Doomed
    <2>4. \A u \in Thread : \A b \in Doomed(u)' : node'[b] # None /\ ~Held(b)'
        BY <1>2, <2>1, <2>2, <2>3 DEF CacheInv, DoomedUnheld
    <2>5. \A u, v \in Thread : dying'[u] \cap erased'[v] = {}
        BY <1>1 DEF CacheInv, CacheTypeOK, DoomedUnheld
    <2>6. \A u, v \in Thread : u # v =>
              dying'[u] \cap dying'[v] = {} /\ erased'[u] \cap erased'[v] = {}
        BY <1>1 DEF CacheInv, CacheTypeOK, DoomedUnheld
    <2>. QED  BY <2>4, <2>5, <2>6 DEF DoomedUnheld
<1>9. EntriesMatch'
    <2>1. \A u \in Thread, b \in Addr : b \in erased'[u] <=> b \in erased[u] \/ (u = t /\ b = a)
        BY <1>1, <1>3 DEF CacheInv, CacheTypeOK
    <2>2. \A e \in cache' : e \in cache /\ e.node \in Addr /\ e.node # a
        BY <1>1, <1>3 DEF CacheInv, CacheTypeOK, EntriesMatch
    <2>3. \A e \in cache' : node'[e.node] = e.key /\ \A u \in Thread : e.node \notin erased'[u]
        BY <1>2, <2>1, <2>2 DEF CacheInv, EntriesMatch
    <2>4. ASSUME NEW b \in Allocated', \A u \in Thread : b \notin erased'[u]
          PROVE  Entry(node'[b], b) \in cache'
        <3>1. b \in Allocated /\ b # a /\ \A u \in Thread : b \notin erased[u]
            BY <1>2, <2>1, <2>4, <1>3 DEF Allocated
        <3>2. Entry(node[b], b) \in cache
            BY <3>1 DEF CacheInv, EntriesMatch
        <3>. QED  BY <1>1, <1>2, <1>5, <3>1, <3>2 DEF Entry
    <2>5. \A e, f \in cache' : e.key = f.key => e = f
        BY <2>2 DEF CacheInv, EntriesMatch
    <2>. QED  BY <2>3, <2>4, <2>5 DEF EntriesMatch
<1>. QED  BY <1>6, <1>7, <1>8, <1>9 DEF CacheInv

LEMMA ReleasePreserves ==
    ASSUME CacheInv, NEW t \in Thread, Release(t)
    PROVE  CacheInv'
<1>1. PICK a \in erased[t] :
          /\ node' = [node EXCEPT ![a] = None]
          /\ erased' = [erased EXCEPT ![t] = @ \ {a}]
          /\ dying' = [dying EXCEPT ![t] = @ \cup
                          {b \in Arguments(node[a]) : ~HeldIn(b, node', handle)}]
    BY DEF Release
<1>2. UNCHANGED <<cache, handle, lock, broken>>
    BY DEF Release
<1>3. a \in Addr /\ node[a] # None /\ ~Held(a) /\ node[a] \in Key
    BY DEF CacheInv, CacheTypeOK, DoomedUnheld, Doomed
<1>4. \A b \in Addr : HeldIn(b, node', handle) <=> Held(b)'
    BY <1>2 DEF Held, HeldIn
<1>. DEFINE freed == {b \in Arguments(node[a]) : ~HeldIn(b, node', handle)}
<1>5. \A b \in freed : /\ b \in Addr /\ b # a /\ node[b] # None /\ ~Held(b)'
                       /\ \A u \in Thread : b \notin Doomed(u)
    <2>. SUFFICES ASSUME NEW b \in freed
                  PROVE  /\ b \in Addr /\ b # a /\ node[b] # None /\ ~Held(b)'
                         /\ \A u \in Thread : b \notin Doomed(u)
        OBVIOUS
    <2>1. b \in Addr
        BY <1>3 DEF Arguments, Key, Pointer
    <2>2. Held(b)
        BY <1>3 DEF Held, HeldIn
    <2>3. node[b] # None
        BY <1>3 DEF CacheInv, PointersAllocated, Allocated
    <2>4. \A u \in Thread : b \notin Doomed(u)
        BY <2>2 DEF CacheInv, DoomedUnheld
    <2>. QED  BY <1>3, <1>4, <2>1, <2>2, <2>3, <2>4
<1>6. CacheTypeOK'
    <2>1. freed \subseteq Addr
        BY <1>5
    <2>. QED  BY <1>1, <1>2, <2>1 DEF CacheInv, CacheTypeOK
<1>7. \A b \in Addr : b # a => node'[b] = node[b]
    BY <1>1 DEF CacheInv, CacheTypeOK
<1>8. node'[a] = None
    BY <1>1, <1>3 DEF CacheInv, CacheTypeOK
<1>9. PointersAllocated'
    <2>1. \A u \in Thread, r \in Slot : handle'[u][r] # None => node'[handle'[u][r]] # None
        BY <1>2, <1>3, <1>7 DEF CacheInv, CacheTypeOK, PointersAllocated, Pointer, Held, HeldIn
    <2>2. \A b \in Allocated' : b \in Allocated /\ node'[b] = node[b]
        BY <1>7, <1>8 DEF Allocated
    <2>3. ASSUME NEW b \in Allocated, NEW c \in Arguments(node[b])
          PROVE  c \in Addr /\ c # a /\ node[c] # None
        <3>1. c \in Addr
            BY DEF Allocated, Arguments, Key, Pointer, CacheInv, CacheTypeOK
        <3>. QED  BY <1>3, <3>1 DEF Allocated, Held, HeldIn, CacheInv, PointersAllocated
    <2>. QED  BY <1>7, <2>1, <2>2, <2>3 DEF PointersAllocated
<1>10. \A b \in Addr : ~Held(b) => ~Held(b)'
    BY <1>2, <1>7, <1>8 DEF Held, HeldIn
<1>11. DoomedUnheld'
    <2>1. \A u \in Thread : dying'[u] = IF u = t THEN dying[t] \cup freed ELSE dying[u]
        BY <1>1 DEF CacheInv, CacheTypeOK
    <2>2. \A u \in Thread : erased'[u] = IF u = t THEN erased[t] \ {a} ELSE erased[u]
        BY <1>1 DEF CacheInv, CacheTypeOK
    <2>3. \A u \in Thread : a \notin Doomed(u)'
        <3>1. \A u \in Thread : a \notin dying[u]
            BY DEF CacheInv, DoomedUnheld
        <3>2. \A u \in Thread : a \notin dying'[u]
            BY <2>1, <3>1, <1>5
        <3>3. \A u \in Thread : u # t => a \notin erased[u]
            BY DEF CacheInv, DoomedUnheld
        <3>4. \A u \in Thread : a \notin erased'[u]
            BY <2>2, <3>3
        <3>. QED  BY <3>2, <3>4 DEF Doomed
    <2>4. ASSUME NEW u \in Thread, NEW b \in Doomed(u)'
          PROVE  node'[b] # None /\ ~Held(b)'
        <3>1. b # a
            BY <2>3, <2>4
        <3>2. b \in freed \/ b \in Doomed(u)
            BY <2>1, <2>2, <2>4 DEF Doomed
        <3>3. CASE b \in freed
            BY <1>5, <1>7, <3>3
        <3>4. CASE b \in Doomed(u)
            <4>1. b \in Addr /\ node[b] # None /\ ~Held(b)
                BY <3>4 DEF CacheInv, CacheTypeOK, DoomedUnheld, Doomed
            <4>. QED  BY <3>1, <4>1, <1>7, <1>10
        <3>. QED  BY <3>2, <3>3, <3>4
    <2>5. \A u, v \in Thread : freed \cap erased[u] = {} /\ freed \cap dying[v] = {}
        BY <1>5 DEF Doomed
    <2>6. \A u, v \in Thread : dying'[u] \cap erased'[v] = {}
        BY <2>1, <2>2, <2>5 DEF CacheInv, DoomedUnheld
    <2>7. \A u, v \in Thread : u # v =>
              dying'[u] \cap dying'[v] = {} /\ erased'[u] \cap erased'[v] = {}
        BY <2>1, <2>2, <2>5 DEF CacheInv, DoomedUnheld
    <2>. QED  BY <2>4, <2>6, <2>7 DEF DoomedUnheld
<1>12. EntriesMatch'
    <2>1. \A u \in Thread : erased'[u] \subseteq erased[u]
        BY <1>1 DEF CacheInv, CacheTypeOK
    <2>2. \A e \in cache : e.node \in Addr /\ e.node # a
        BY DEF CacheInv, CacheTypeOK, EntriesMatch
    <2>3. \A e \in cache' : node'[e.node] = e.key /\ \A u \in Thread : e.node \notin erased'[u]
        BY <1>2, <1>7, <2>1, <2>2 DEF CacheInv, EntriesMatch
    <2>4. ASSUME NEW b \in Allocated', \A u \in Thread : b \notin erased'[u]
          PROVE  Entry(node'[b], b) \in cache'
        <3>1. b \in Allocated /\ b # a /\ node'[b] = node[b]
            BY <1>7, <1>8 DEF Allocated
        <3>2. \A u \in Thread : b \notin erased[u]
            BY <1>1, <2>4, <3>1 DEF CacheInv, CacheTypeOK
        <3>. QED  BY <1>2, <3>1, <3>2 DEF CacheInv, EntriesMatch
    <2>. QED  BY <1>2, <2>3, <2>4 DEF CacheInv, EntriesMatch
<1>. QED  BY <1>6, <1>9, <1>11, <1>12 DEF CacheInv

-----------------------------------------------------------------------------
LEMMA CacheInitial == CacheInit => CacheInv /\ CarefulInv
<1>. SUFFICES ASSUME CacheInit PROVE CarefulInv
    BY DEF CarefulInv
<1>1. CacheTypeOK
    BY DEF CacheInit, CacheTypeOK, Pointer
<1>2. Allocated = {} /\ \A t \in Thread : Doomed(t) = {}
    BY DEF CacheInit, Allocated, Doomed
<1>. QED  BY <1>1, <1>2
    DEF CacheInit, CarefulInv, CacheInv, PointersAllocated, DoomedUnheld, EntriesMatch,
        LockCovers, Doomed

(* What the definitions read besides the lock. *)
LEMMA LockPreserves ==
    ASSUME CacheInv, UNCHANGED <<node, cache, handle, dying, erased, broken>>,
           lock' \in Thread \cup {None}
    PROVE  CacheInv'
BY DEF CacheInv, CacheTypeOK, PointersAllocated, DoomedUnheld, EntriesMatch, Allocated,
       Doomed, Held, HeldIn, Entry

LEMMA CacheStep == CacheInv /\ [CacheNext]_cacheVars => CacheInv'
<1>. SUFFICES ASSUME CacheInv, [CacheNext]_cacheVars PROVE CacheInv'
    OBVIOUS
<1>1. CASE UNCHANGED cacheVars
    BY <1>1, LockPreserves DEF cacheVars, CacheInv, CacheTypeOK
<1>2. ASSUME NEW t \in Thread, Acquire(t) \/ Unlock(t)
      PROVE  CacheInv'
    BY <1>2, LockPreserves DEF Acquire, Unlock
<1>3. ASSUME NEW t \in Thread, NEW s \in Slot, NEW k \in Expressible, Build(t, s, k)
      PROVE  CacheInv'
    BY <1>3, FindPreserves, MakePreserves DEF Build
<1>4. ASSUME NEW t \in Thread, NEW s \in Slot, NEW a \in Reachable, Copy(t, s, a)
      PROVE  CacheInv'
    BY <1>4, CopyPreserves
<1>5. ASSUME NEW t \in Thread, NEW s \in Slot, Destroy(t, s)
      PROVE  CacheInv'
    BY <1>5, DestroyPreserves
<1>6. ASSUME NEW t \in Thread, NEW d \in Slot, NEW s \in Slot, Assign(t, d, s)
      PROVE  CacheInv'
    BY <1>6, AssignPreserves
<1>7. ASSUME NEW t \in Thread, Del(t) \/ Release(t)
      PROVE  CacheInv'
    BY <1>7, DelPreserves, ReleasePreserves
<1>. QED  BY <1>1, <1>2, <1>3, <1>4, <1>5, <1>6, <1>7 DEF CacheNext, AnyStep

(* A careful client: whoever destroys a node holds the mutex. *)
LEMMA CarefulStep == CarefulInv /\ [CarefulNext]_cacheVars => CarefulInv'
<1>. SUFFICES ASSUME CarefulInv, [CarefulNext]_cacheVars PROVE CarefulInv'
    OBVIOUS
<1>. USE DEF CarefulInv
<1>1. CacheInv'
    <2>1. CarefulNext => CacheNext
        BY DEF CarefulNext, CarefulStepOf, CacheNext, AnyStep, AssignShared
    <2>. QED  BY <2>1, CacheStep
<1>2. \A t \in Thread : Ready(t) /\ lock \in {None, t} => \A u \in Thread : Doomed(u) = {}
    BY NoneAssumption DEF LockCovers, Ready, Destroying, Doomed
<1>3. \A a \in Allocated : a \in Addr /\ Arguments(node[a]) \subseteq Addr
    BY DEF Allocated, Arguments, Key, Pointer, CacheInv, CacheTypeOK
<1>4. CASE UNCHANGED cacheVars
    BY <1>1, <1>3, <1>4 DEF cacheVars, LockCovers, Doomed, Allocated, Held, HeldIn
<1>5. ASSUME NEW t \in Thread, Acquire(t) \/ Unlock(t)
      PROVE  CarefulInv'
    <2>1. \A u \in Thread : Doomed(u) = {}
        BY <1>2, <1>5 DEF Acquire, Unlock
    <2>2. UNCHANGED <<node, cache, handle, dying, erased, broken>>
        BY <1>5 DEF Acquire, Unlock
    <2>. QED  BY <1>1, <2>1, <2>2 DEF LockCovers, Doomed, Allocated, Held, HeldIn
<1>6. ASSUME NEW t \in Thread, NEW s \in Slot, NEW k \in Expressible, Build(t, s, k)
      PROVE  CarefulInv'
    <2>1. \A u \in Thread : Doomed(u) = {}
        BY <1>2, <1>6 DEF Build
    <2>2. \A a \in Allocated : Held(a)
        BY <2>1 DEF LockCovers
    <2>3. UNCHANGED <<lock, dying, erased>> /\ handle[t][s] = None
        BY <1>6 DEF Build
    <2>4. CASE Find(t, s, k)
        <3>1. PICK e \in cache : /\ e.key = k
                                 /\ IF Held(e.node)
                                    THEN handle' = Point(t, s, e.node) /\ UNCHANGED broken
                                    ELSE broken' = TRUE /\ UNCHANGED handle
            BY <2>4 DEF Find
        <3>2. e.node \in Allocated
            BY <3>1, ExpressibleIsKey, NoneAssumption
            DEF CacheInv, CacheTypeOK, EntriesMatch, Allocated
        <3>3. handle' = Point(t, s, e.node) /\ UNCHANGED <<broken, node>>
            BY <2>2, <2>4, <3>1, <3>2 DEF Find
        <3>4. \A a \in Allocated : Held(a)'
            BY <2>2, <2>3, <3>3, NoneAssumption
            DEF Held, HeldIn, Point, CacheInv, CacheTypeOK, Allocated
        <3>. QED  BY <1>1, <2>1, <2>3, <3>3, <3>4 DEF LockCovers, Doomed, Allocated
    <2>5. CASE Make(t, s, k)
        <3>1. PICK a \in Addr : /\ node[a] = None
                                /\ node' = [node EXCEPT ![a] = k]
                                /\ handle' = Point(t, s, a)
            BY <2>5 DEF Make
        <3>2. UNCHANGED broken
            BY <2>5 DEF Make
        <3>3. Held(a)'
            BY <3>1 DEF Held, HeldIn, Point, CacheInv, CacheTypeOK
        <3>4. ASSUME NEW b \in Allocated
              PROVE  Held(b)'
            <4>1. b \in Addr /\ b # None
                BY <1>3, NoneAssumption
            <4>2. Held(b)
                BY <2>2
            <4>3. CASE \E u \in Thread, r \in Slot : handle[u][r] = b
                BY <2>3, <3>1, <4>1, <4>3 DEF Held, HeldIn, Point, CacheInv, CacheTypeOK
            <4>4. CASE \E c \in Addr : node[c] # None /\ b \in Arguments(node[c])
                <5>1. PICK c \in Addr : node[c] # None /\ b \in Arguments(node[c])
                    BY <4>4
                <5>2. node'[c] = node[c]
                    BY <3>1, <5>1 DEF CacheInv, CacheTypeOK
                <5>. QED  BY <5>1, <5>2 DEF Held, HeldIn
            <4>. QED  BY <4>2, <4>3, <4>4 DEF Held, HeldIn
        <3>5. Allocated' \subseteq Allocated \cup {a}
            BY <3>1 DEF Allocated, CacheInv, CacheTypeOK
        <3>6. \A b \in Allocated' : Held(b)'
            BY <3>3, <3>4, <3>5
        <3>. QED  BY <1>1, <2>1, <2>3, <3>2, <3>6 DEF LockCovers, Doomed
    <2>. QED  BY <1>6, <2>4, <2>5 DEF Build
<1>7. ASSUME NEW t \in Thread, NEW s \in Slot, NEW a \in Reachable, Copy(t, s, a)
      PROVE  CarefulInv'
    <2>1. UNCHANGED <<node, cache, lock, dying, erased, broken>>
        BY <1>7 DEF Copy
    <2>2. handle' = Point(t, s, a) /\ handle[t][s] = None
        BY <1>7 DEF Copy
    <2>3. \A b \in Addr : Held(b) => Held(b)'
        BY <2>1, <2>2, NoneAssumption DEF Held, HeldIn, Point, CacheInv, CacheTypeOK
    <2>. QED  BY <1>1, <1>3, <2>1, <2>3 DEF LockCovers, Doomed, Allocated
<1>8. ASSUME NEW t \in Thread, NEW s \in Slot, Destroy(t, s)
      PROVE  CarefulInv'
    <2>0. PICK old \in Addr : old = handle[t][s]
        BY <1>8 DEF Destroy, CacheInv, CacheTypeOK, Pointer
    <2>1. \A u \in Thread : Doomed(u) = {}
        BY <1>2, <1>8 DEF Destroy
    <2>2. /\ UNCHANGED <<node, cache, erased, broken>>
          /\ handle' = Point(t, s, None)
          /\ lock' = IF dying' = dying THEN lock ELSE t
          /\ dying' = IF Held(old)' THEN dying ELSE [dying EXCEPT ![t] = @ \cup {old}]
        BY <1>8, <2>0 DEF Destroy, Expire, Held, HeldIn
    <2>3. \A b \in Addr : Held(b) /\ b # old => Held(b)'
        BY <2>0, <2>2 DEF Held, HeldIn, Point, CacheInv, CacheTypeOK
    <2>4. \A b \in Allocated : Held(b)
        BY <2>1 DEF LockCovers
    <2>5. CASE Held(old)'
        BY <1>1, <1>3, <2>1, <2>2, <2>3, <2>4, <2>5 DEF LockCovers, Doomed, Allocated
    <2>6. CASE ~Held(old)'
        <3>1. dying' = [dying EXCEPT ![t] = @ \cup {old}]
            BY <2>2, <2>6
        <3>2. dying'[t] = {old} /\ \A u \in Thread : u # t => dying'[u] = {}
            BY <2>1, <3>1 DEF Doomed, CacheInv, CacheTypeOK
        <3>3. lock' = t
            BY <2>1, <2>2, <3>2 DEF Doomed
        <3>4. \A u \in Thread : Doomed(u)' # {} => lock' = u
            BY <2>1, <2>2, <3>2, <3>3 DEF Doomed
        <3>5. \A b \in Allocated' : ~Held(b)' => b \in Doomed(t)'
            BY <1>3, <2>2, <2>3, <2>4, <3>2 DEF Doomed, Allocated
        <3>. QED  BY <1>1, <2>2, <3>4, <3>5 DEF LockCovers
    <2>. QED  BY <2>5, <2>6
<1>9. ASSUME NEW t \in Thread, NEW d \in Slot, NEW s \in Slot, AssignShared(t, d, s)
      PROVE  CarefulInv'
    <2>0. PICK old \in Addr : old = handle[t][d]
        BY <1>9 DEF AssignShared, Assign, CacheInv, CacheTypeOK, Pointer
    <2>1. /\ UNCHANGED <<node, cache, erased, broken, lock, dying>>
          /\ handle' = Point(t, d, handle[t][s])
          /\ dying' = IF Held(old)' THEN dying ELSE [dying EXCEPT ![t] = @ \cup {old}]
        BY <1>9, <2>0 DEF AssignShared, Assign, Expire, Held, HeldIn
    <2>2. Held(old)'
        <3>1. old \notin Doomed(t)
            BY <2>0 DEF CacheInv, DoomedUnheld, Held, HeldIn
        <3>2. old \notin dying[t]
            BY <3>1 DEF Doomed
        <3>. QED  BY <2>1, <3>2 DEF CacheInv, CacheTypeOK
    <2>3. \A b \in Addr : Held(b) => Held(b)'
        <3>1. \A b \in Addr : Held(b) /\ b # old => Held(b)'
            BY <2>0, <2>1 DEF Held, HeldIn, Point, CacheInv, CacheTypeOK
        <3>. QED  BY <2>2, <3>1
    <2>. QED  BY <1>1, <1>3, <2>1, <2>3 DEF LockCovers, Doomed, Allocated
<1>10. ASSUME NEW t \in Thread, Del(t)
       PROVE  CarefulInv'
    <2>1. \A u \in Thread : Doomed(u)' = Doomed(u)
        BY <1>10 DEF Del, Doomed, CacheInv, CacheTypeOK
    <2>2. UNCHANGED <<node, handle, lock, broken>>
        BY <1>10 DEF Del
    <2>. QED  BY <1>1, <1>3, <2>1, <2>2 DEF LockCovers, Allocated, Held, HeldIn
<1>11. ASSUME NEW t \in Thread, Release(t)
       PROVE  CarefulInv'
    <2>1. PICK a \in erased[t] :
              /\ node' = [node EXCEPT ![a] = None]
              /\ erased' = [erased EXCEPT ![t] = @ \ {a}]
              /\ dying' = [dying EXCEPT ![t] = @ \cup
                              {b \in Arguments(node[a]) : ~HeldIn(b, node', handle)}]
        BY <1>11 DEF Release
    <2>2. UNCHANGED <<cache, handle, lock, broken>>
        BY <1>11 DEF Release
    <2>3. a \in Addr /\ node[a] # None /\ lock = t
        BY DEF CacheInv, CacheTypeOK, DoomedUnheld, LockCovers, Doomed
    <2>4. \A u \in Thread : u # t => Doomed(u)' = {}
        BY <2>1, <2>3 DEF LockCovers, Doomed, CacheInv, CacheTypeOK
    <2>5. node'[a] = None /\ \A b \in Addr : b # a => node'[b] = node[b]
        BY <2>1, <2>3 DEF CacheInv, CacheTypeOK
    <2>6. ASSUME NEW b \in Allocated', ~Held(b)'
          PROVE  b \in Doomed(t)'
        <3>1. b \in Addr /\ b # a /\ b \in Allocated
            BY <2>5, <2>6 DEF Allocated
        <3>2. CASE ~Held(b)
            <4>1. PICK u \in Thread : b \in Doomed(u)
                BY <3>1, <3>2 DEF LockCovers
            <4>2. b \in Doomed(t)
                BY <4>1, <2>3 DEF LockCovers
            <4>. QED  BY <2>1, <3>1, <4>2 DEF Doomed, CacheInv, CacheTypeOK
        <3>3. CASE Held(b)
            <4>1. \A u \in Thread, r \in Slot : handle[u][r] # b
                BY <2>2, <2>6 DEF Held, HeldIn
            <4>2. PICK c \in Addr : node[c] # None /\ b \in Arguments(node[c])
                BY <3>3, <4>1 DEF Held, HeldIn
            <4>3. c = a
                BY <2>5, <2>6, <4>2 DEF Held, HeldIn
            <4>4. b \in Arguments(node[a]) /\ ~HeldIn(b, node', handle)
                BY <2>2, <2>6, <4>2, <4>3 DEF Held, HeldIn
            <4>. QED  BY <2>1, <4>4 DEF Doomed, CacheInv, CacheTypeOK
        <3>. QED  BY <3>2, <3>3
    <2>. QED  BY <1>1, <2>2, <2>3, <2>4, <2>6 DEF LockCovers
<1>. QED  BY <1>4, <1>5, <1>6, <1>7, <1>8, <1>9, <1>10, <1>11
         DEF CarefulNext, CarefulStepOf

-----------------------------------------------------------------------------
(* Theorems *)

(* The variables of the cache keep their types (tree/cache.cpp). *)
THEOREM CacheTypes == CacheSpec => []CacheTypeOK
<1>1. CacheSpec => []CacheInv
    BY CacheInitial, CacheStep, PTL DEF CacheSpec
<1>2. CacheInv => CacheTypeOK
    BY DEF CacheInv
<1>. QED  BY <1>1, <1>2, PTL

(* Whatever the threads build, share and drop, and however the allocator    *)
(* uses addresses again, two nodes in use are never the same expression.    *)
THEOREM EqualTreesAreOneNode == CacheSpec => []Deduplicated
<1>1. CacheSpec => []CacheInv
    BY CacheInitial, CacheStep, PTL DEF CacheSpec
<1>2. CacheInv => Deduplicated
    <2>. SUFFICES ASSUME CacheInv, NEW a \in Allocated, NEW b \in Allocated,
                         Held(a), Held(b), node[a] = node[b]
                  PROVE  a = b
        BY DEF Deduplicated
    <2>1. Entry(node[a], a) \in cache /\ Entry(node[b], b) \in cache
        BY DEF CacheInv, DoomedUnheld, EntriesMatch, Doomed
    <2>. QED  BY <2>1 DEF CacheInv, EntriesMatch, Entry
<1>. QED  BY <1>1, <1>2, PTL

(* No Tree, argument or entry refers to memory that has been freed. *)
THEOREM NothingDangles == CacheSpec => []NoDanglingPointer
<1>1. CacheSpec => []CacheInv
    BY CacheInitial, CacheStep, PTL DEF CacheSpec
<1>2. CacheInv => NoDanglingPointer
    <2>. SUFFICES ASSUME CacheInv PROVE NoDanglingPointer
        OBVIOUS
    <2>1. \A t \in Thread : HeldBy(t) \subseteq Allocated
        <3>1. \A t \in Thread, s \in Slot :
                  handle[t][s] # None => handle[t][s] \in Addr /\ node[handle[t][s]] # None
            BY DEF CacheInv, CacheTypeOK, PointersAllocated, Pointer
        <3>. QED  BY <3>1 DEF HeldBy, Allocated
    <2>2. \A a \in Allocated : Arguments(node[a]) \subseteq Allocated
        BY DEF Allocated, Arguments, Key, Pointer, CacheInv, CacheTypeOK, PointersAllocated
    <2>3. \A e \in cache : e.node \in Allocated /\ node[e.node] = e.key
        BY NoneAssumption DEF Allocated, CacheInv, CacheTypeOK, EntriesMatch
    <2>. QED  BY <2>1, <2>2, <2>3 DEF NoDanglingPointer
<1>. QED  BY <1>1, <1>2, PTL

(* ~Tree_ finds the entry it erases, and it is its own (the assertion of    *)
(* Cache::del).                                                             *)
THEOREM DestructorFindsEntry == CacheSpec => []DyingHasEntry
<1>1. CacheSpec => []CacheInv
    BY CacheInitial, CacheStep, PTL DEF CacheSpec
<1>2. CacheInv => DyingHasEntry
    BY DEF CacheInv, CacheTypeOK, DoomedUnheld, EntriesMatch, DyingHasEntry, Doomed, Allocated
<1>. QED  BY <1>1, <1>2, PTL

(* The assertion of Cache::operation and Cache::constant: a client that     *)
(* never assigns over a last reference finds no expired node.               *)
THEOREM LookupFindsLiveNode == CarefulSpec => []NeverExpired
<1>1. CarefulSpec => []CarefulInv
    BY CacheInitial, CarefulStep, PTL DEF CarefulSpec
<1>2. CarefulInv => NeverExpired
    BY DEF CarefulInv, NeverExpired
<1>. QED  BY <1>1, <1>2, PTL

(* A careful client is a client. *)
THEOREM CarefulIsAClient == CarefulSpec => CacheSpec
<1>1. CarefulNext => CacheNext
    BY DEF CarefulNext, CarefulStepOf, CacheNext, AnyStep, AssignShared
<1>. QED  BY <1>1, PTL DEF CarefulSpec, CacheSpec
=============================================================================
