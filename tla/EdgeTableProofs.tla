-------------------------- MODULE EdgeTableProofs --------------------------
(***************************************************************************)
(* Theorems about EdgeTable for every set of nodes and edges and every     *)
(* bound on timestamps and operations.                                     *)
(***************************************************************************)
EXTENDS EdgeTable, TLAPS

(* The inductive invariant of Spec. *)
EdgeInv ==
    /\ TypeOK
    /\ edge \subseteq applied
    /\ CollectedIsOutdated

(* What a local writer adds to it: the rows of an edge that are still in    *)
(* the table carry its newest timestamp.                                    *)
OnlyNewestKept ==
    \A e, to \in Entity :
        Between(edge, e, to) \subseteq Newest(Between(applied, e, to))

-----------------------------------------------------------------------------
(* Timestamps are natural numbers. *)
LEMMA RowTimestamp ==
    ASSUME NEW r \in Row
    PROVE  r.timestamp \in Nat
<1>1. r.timestamp \in Timestamp
  BY DEF Row
<1>. QED
  BY <1>1, BoundsAssumption DEF Timestamp

(* A step applies one operation to one edge. *)
LEMMA NextApplies ==
    ASSUME Next
    PROVE  \E e \in Entity, to \in Entity, t \in Timestamp, d \in BOOLEAN :
               Apply(e, to, t, d)
<1>1. PICK p \in Pair, t \in Timestamp :
          connect(p[1], p[2], t) \/ disconnect(p[1], p[2], t)
  BY DEF Next
<1>2. p[1] \in Entity /\ p[2] \in Entity
  BY PairAssumption
<1>3. Apply(p[1], p[2], t, FALSE) \/ Apply(p[1], p[2], t, TRUE)
  BY <1>1 DEF connect, disconnect
<1>. QED
  BY <1>2, <1>3

(* The local writer takes steps of the general one. *)
LEMMA LocalIsNext == [LocalNext]_vars => [Next]_vars
BY DEF LocalNext, Next

(* The effect of one operation, with its row named. *)
LEMMA ApplyEffect ==
    ASSUME NEW e \in Entity, NEW to \in Entity, NEW t \in Timestamp,
           NEW d \in BOOLEAN, Apply(e, to, t, d)
    PROVE  \E row \in Row :
               /\ row.entity = e /\ row.entity_to = to
               /\ row.timestamp = t /\ row.deleted = d
               /\ applied' = applied \cup {row}
               /\ edge' = {r \in edge :
                              ~(/\ r.timestamp < t
                                /\ (r.entity = e /\ r.entity_to = to)
                                   \/ r.deleted)}
                          \cup {row}
<1>. DEFINE row == [entity |-> e, entity_to |-> to, timestamp |-> t,
                    deleted |-> d]
<1>1. /\ row \in Row /\ row.entity = e /\ row.entity_to = to
      /\ row.timestamp = t /\ row.deleted = d
  BY DEF Row
<1>2. applied' = applied \cup {row}
  BY DEF Apply
<1>3. edge' = {r \in edge : ~(/\ r.timestamp < t
                              /\ (r.entity = e /\ r.entity_to = to)
                                 \/ r.deleted)}
              \cup {row}
  BY DEF Apply, connectI
<1>. QED
  BY <1>1, <1>2, <1>3

-----------------------------------------------------------------------------
(* One operation keeps the invariant: what it collects it outdates. *)
LEMMA EdgeInvStep == EdgeInv /\ [Next]_vars => EdgeInv'
<1>. SUFFICES ASSUME EdgeInv, [Next]_vars
              PROVE  EdgeInv'
  OBVIOUS
<1>1. CASE Next
  <2>1. PICK e \in Entity, to \in Entity, t \in Timestamp, d \in BOOLEAN :
            Apply(e, to, t, d)
    BY <1>1, NextApplies
  <2>2. PICK row \in Row :
            /\ row.entity = e /\ row.entity_to = to
            /\ row.timestamp = t /\ row.deleted = d
            /\ applied' = applied \cup {row}
            /\ edge' = {r \in edge : ~(/\ r.timestamp < t
                                       /\ (r.entity = e /\ r.entity_to = to)
                                          \/ r.deleted)}
                       \cup {row}
    BY <2>1, ApplyEffect
  <2>3. TypeOK'
    BY <2>2 DEF EdgeInv, TypeOK
  <2>4. edge' \subseteq applied'
    BY <2>2 DEF EdgeInv
  <2>5. CollectedIsOutdated'
    <3>. SUFFICES ASSUME NEW r \in applied' \ edge'
                  PROVE  \E q \in applied' :
                             /\ q.timestamp > r.timestamp
                             /\ \/ /\ q.entity = r.entity
                                   /\ q.entity_to = r.entity_to
                                \/ r.deleted
      BY DEF CollectedIsOutdated
    <3>1. r \in applied /\ r # row
      BY <2>2
    <3>2. CASE r \in edge
      <4>1. /\ r.timestamp < row.timestamp
            /\ \/ row.entity = r.entity /\ row.entity_to = r.entity_to
               \/ r.deleted
        BY <2>2, <3>2
      <4>2. r.timestamp \in Nat /\ row.timestamp \in Nat
        BY <3>1, RowTimestamp DEF EdgeInv, TypeOK
      <4>. QED
        BY <2>2, <4>1, <4>2
    <3>3. CASE r \notin edge
      BY <2>2, <3>1, <3>3 DEF EdgeInv, CollectedIsOutdated
    <3>. QED
      BY <3>2, <3>3
  <2>. QED
    BY <2>3, <2>4, <2>5 DEF EdgeInv
<1>2. CASE UNCHANGED vars
  BY <1>2 DEF vars, EdgeInv, TypeOK, CollectedIsOutdated
<1>. QED
  BY <1>1, <1>2

(* The invariant holds of every behaviour, of many writers or of one. *)
THEOREM EdgeInvariant == (Spec => []EdgeInv) /\ (LocalSpec => []EdgeInv)
<1>1. Init => EdgeInv
  BY DEF Init, EdgeInv, TypeOK, CollectedIsOutdated
<1>2. Spec => []EdgeInv
  BY <1>1, EdgeInvStep, PTL DEF Spec
<1>3. LocalSpec => []EdgeInv
  BY <1>1, EdgeInvStep, LocalIsNext, PTL DEF LocalSpec
<1>. QED
  BY <1>2, <1>3

(* The edge table keeps the schema of DatabaseImpl.cpp. *)
THEOREM TypeCorrect == Spec => []TypeOK
<1>1. EdgeInv => TypeOK
  BY DEF EdgeInv
<1>. QED
  BY <1>1, EdgeInvariant, PTL

(* connectI() only ever drops rows that a newer row of their edge replaces, *)
(* or tombstones older than an operation on some edge.                      *)
THEOREM OnlyOutdatedCollected == Spec => []CollectedIsOutdated
<1>1. EdgeInv => CollectedIsOutdated
  BY DEF EdgeInv
<1>. QED
  BY <1>1, EdgeInvariant, PTL

-----------------------------------------------------------------------------
(* A newest connect is in the table, at the newest timestamp of its edge. *)
LEMMA InvImpliesConnectWins == EdgeInv => NewestConnectWins
<1>. SUFFICES ASSUME EdgeInv, NEW p \in Pair,
                     NEW w \in Live(Newest(Between(applied, p[1], p[2])))
              PROVE  p[2] \in edges(edge, p[1])
  BY DEF NewestConnectWins
<1>0. \A r \in applied : r.timestamp \in Nat
  BY RowTimestamp DEF EdgeInv, TypeOK
<1>1. /\ w \in applied /\ ~w.deleted
      /\ w.entity = p[1] /\ w.entity_to = p[2]
      /\ \A q \in Between(applied, p[1], p[2]) : q.timestamp <= w.timestamp
  BY DEF Live, Newest, Between
<1>2. w \in edge
  <2>. SUFFICES ASSUME w \notin edge
                PROVE  FALSE
    OBVIOUS
  <2>1. PICK q \in applied : /\ q.timestamp > w.timestamp
                             /\ q.entity = w.entity
                             /\ q.entity_to = w.entity_to
    BY <1>1 DEF EdgeInv, CollectedIsOutdated
  <2>2. q \in Between(applied, p[1], p[2])
    BY <1>1, <2>1 DEF Between
  <2>. QED
    BY <1>0, <1>1, <2>1, <2>2
<1>3. \A q \in edge : q.entity = p[1] /\ q.entity_to = p[2]
                          => q.timestamp <= w.timestamp
  BY <1>1 DEF EdgeInv, Between
<1>4. w \in Live(Newest({r \in edge : r.entity = p[1] /\ r.entity_to = p[2]}))
  BY <1>1, <1>2, <1>3 DEF Live, Newest
<1>. QED
  BY <1>1, <1>2, <1>4 DEF edges

(* A connect that no newer disconnect answers is visible on every replica,  *)
(* whatever the order in which the operations on all the edges arrived.     *)
THEOREM ConnectWins == Spec => []NewestConnectWins
BY EdgeInvariant, InvImpliesConnectWins, PTL

-----------------------------------------------------------------------------
(* If the tombstone were in the table it would hide the edge; it can only   *)
(* have been collected for another edge.                                    *)
LEMMA InvImpliesForeign == EdgeInv => ResurrectionNeedsNewerForeignOp
<1>. SUFFICES ASSUME EdgeInv, NEW p \in Pair,
                     NEW w \in Newest(Between(applied, p[1], p[2])),
                     Live(Newest(Between(applied, p[1], p[2]))) = {},
                     p[2] \in edges(edge, p[1])
              PROVE  \E q \in applied \ Between(applied, p[1], p[2]) :
                         \A r \in Newest(Between(applied, p[1], p[2])) :
                             q.timestamp > r.timestamp
  BY DEF ResurrectionNeedsNewerForeignOp
<1>. DEFINE newest == Newest(Between(applied, p[1], p[2]))
<1>0. \A r \in applied : r.timestamp \in Nat
  BY RowTimestamp DEF EdgeInv, TypeOK
<1>1. \A r \in newest : /\ r \in Between(applied, p[1], p[2])
                        /\ r.timestamp = w.timestamp
  BY <1>0 DEF Newest, Between
<1>2. w \in Between(applied, p[1], p[2]) /\ w.deleted
  BY DEF Newest, Live
<1>3. PICK x \in Live(Newest({r \in edge : /\ r.entity = p[1]
                                           /\ r.entity_to = p[2]})) : TRUE
  BY DEF edges
<1>4. /\ x \in edge /\ ~x.deleted /\ x \in Between(applied, p[1], p[2])
      /\ \A r \in edge : r.entity = p[1] /\ r.entity_to = p[2]
                             => r.timestamp <= x.timestamp
  BY <1>3 DEF Live, Newest, Between, EdgeInv
<1>5. w \notin edge
  <2>. SUFFICES ASSUME w \in edge
                PROVE  FALSE
    OBVIOUS
  <2>1. w.timestamp <= x.timestamp
    BY <1>2, <1>4 DEF Between
  <2>2. \A q \in Between(applied, p[1], p[2]) : q.timestamp <= w.timestamp
    BY DEF Newest
  <2>3. w \in applied /\ x \in applied
    BY <1>2, <1>4 DEF Between
  <2>4. \A q \in Between(applied, p[1], p[2]) : q.timestamp <= x.timestamp
    <3>1. \A q \in Between(applied, p[1], p[2]) : q \in applied
      BY DEF Between
    <3>. QED
      BY <1>0, <2>1, <2>2, <2>3, <3>1
  <2>5. x \in Live(newest)
    BY <1>4, <2>4 DEF Live, Newest
  <2>. QED
    BY <2>5
<1>6. PICK q \in applied :
          /\ q.timestamp > w.timestamp
          /\ (q.entity = w.entity /\ q.entity_to = w.entity_to) \/ w.deleted
  BY <1>2, <1>5 DEF EdgeInv, CollectedIsOutdated, Between
<1>7. q \notin Between(applied, p[1], p[2])
  <2>. SUFFICES ASSUME q \in Between(applied, p[1], p[2])
                PROVE  FALSE
    OBVIOUS
  <2>1. q.timestamp <= w.timestamp
    BY DEF Newest
  <2>2. w \in applied
    BY <1>2 DEF Between
  <2>. QED
    BY <1>0, <1>6, <2>1, <2>2
<1>. QED
  BY <1>1, <1>6, <1>7

(* A disconnected edge shows up again only after its tombstone was          *)
(* collected on behalf of another edge.                                     *)
THEOREM OnlyForeignResurrects == Spec => []ResurrectionNeedsNewerForeignOp
BY EdgeInvariant, InvImpliesForeign, PTL

-----------------------------------------------------------------------------
(* The local writer's operation is the newest of all, so it collects every  *)
(* older row of its edge.                                                   *)
LEMMA LocalStep ==
    EdgeInv /\ OnlyNewestKept /\ [LocalNext]_vars => OnlyNewestKept'
<1>. SUFFICES ASSUME EdgeInv, OnlyNewestKept, [LocalNext]_vars
              PROVE  OnlyNewestKept'
  OBVIOUS
<1>1. CASE LocalNext
  <2>1. PICK p \in Pair, t \in Timestamp :
            /\ InOrder(t)
            /\ connect(p[1], p[2], t) \/ disconnect(p[1], p[2], t)
    BY <1>1 DEF LocalNext
  <2>2. p[1] \in Entity /\ p[2] \in Entity
    BY PairAssumption
  <2>3. PICK d \in BOOLEAN : Apply(p[1], p[2], t, d)
    BY <2>1 DEF connect, disconnect
  <2>4. PICK row \in Row :
            /\ row.entity = p[1] /\ row.entity_to = p[2]
            /\ row.timestamp = t /\ row.deleted = d
            /\ applied' = applied \cup {row}
            /\ edge' = {r \in edge :
                           ~(/\ r.timestamp < t
                             /\ (r.entity = p[1] /\ r.entity_to = p[2])
                                \/ r.deleted)}
                       \cup {row}
    BY <2>2, <2>3, ApplyEffect
  <2>. SUFFICES ASSUME NEW e \in Entity, NEW to \in Entity,
                       NEW x \in Between(edge', e, to),
                       NEW q \in Between(applied', e, to)
                PROVE  q.timestamp <= x.timestamp
    <3>1. \A e, to \in Entity :
              Between(edge', e, to) \subseteq Between(applied', e, to)
      BY <2>4 DEF Between, EdgeInv
    <3>. QED
      BY <3>1 DEF OnlyNewestKept, Newest, Between, EdgeInv
  <2>5. /\ \A r \in applied : r.timestamp <= t
        /\ \A r \in applied : r.timestamp \in Nat
        /\ t \in Nat
    <3>1. \A r \in applied : r.timestamp <= t
      BY <2>1 DEF InOrder
    <3>2. \A r \in applied : r.timestamp \in Nat
      BY RowTimestamp DEF EdgeInv, TypeOK
    <3>3. t \in Nat
      BY BoundsAssumption DEF Timestamp
    <3>. QED
      BY <3>1, <3>2, <3>3
  <2>6. q.timestamp <= t
    BY <2>4, <2>5 DEF Between
  <2>7. CASE x = row
    BY <2>4, <2>6, <2>7
  <2>8. CASE x # row
    <3>1. /\ x \in edge /\ x \in applied
          /\ x.entity = e /\ x.entity_to = to
      BY <2>4, <2>8 DEF Between, EdgeInv
    <3>2. CASE e = p[1] /\ to = p[2]
      <4>1. ~(x.timestamp < t)
        BY <2>4, <2>8, <3>1, <3>2 DEF Between
      <4>. QED
        BY <2>4, <2>5, <2>6, <3>1, <4>1 DEF Between
    <3>3. CASE ~(e = p[1] /\ to = p[2])
      <4>1. q # row /\ q \in Between(applied, e, to)
        BY <2>4, <3>3 DEF Between
      <4>2. x \in Newest(Between(applied, e, to))
        BY <3>1 DEF OnlyNewestKept, Between
      <4>. QED
        BY <4>1, <4>2 DEF Newest
    <3>. QED
      BY <3>2, <3>3
  <2>. QED
    BY <2>7, <2>8
<1>2. CASE UNCHANGED vars
  BY <1>2 DEF vars, OnlyNewestKept
<1>. QED
  BY <1>1, <1>2

(* With one writer whose clock never goes back, edges() shows exactly the   *)
(* edges whose newest operations include a connect: the collection of       *)
(* foreign tombstones is harmless there.                                    *)
THEOREM LocalConverges == LocalSpec => []EdgesConverge
<1>1. Init => OnlyNewestKept
  BY DEF Init, OnlyNewestKept, Between
<1>2. EdgeInv /\ OnlyNewestKept => EdgesConverge
  <2>. SUFFICES ASSUME EdgeInv, OnlyNewestKept, NEW p \in Pair
                PROVE  p[2] \in edges(edge, p[1])
                       <=> Live(Newest(Between(applied, p[1], p[2]))) # {}
    BY DEF EdgesConverge
  <2>1. ASSUME p[2] \in edges(edge, p[1])
        PROVE  Live(Newest(Between(applied, p[1], p[2]))) # {}
    <3>1. PICK x \in Between(edge, p[1], p[2]) : ~x.deleted
      BY <2>1 DEF edges, Live, Newest, Between
    <3>2. x \in Newest(Between(applied, p[1], p[2]))
      BY <3>1, PairAssumption DEF OnlyNewestKept
    <3>. QED
      BY <3>1, <3>2 DEF Live
  <2>2. ASSUME Live(Newest(Between(applied, p[1], p[2]))) # {}
        PROVE  p[2] \in edges(edge, p[1])
    BY <2>2, InvImpliesConnectWins DEF NewestConnectWins
  <2>. QED
    BY <2>1, <2>2
<1>. QED
  BY <1>1, <1>2, LocalStep, EdgeInvariant, PTL DEF LocalSpec
=============================================================================
