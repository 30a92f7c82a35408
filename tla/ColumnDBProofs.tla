--------------------------- MODULE ColumnDBProofs ---------------------------
(***************************************************************************)
(* Theorems about ColumnDB for every set of columns, entities and things,  *)
(* every bound on the timestamps and on the operations.                    *)
(***************************************************************************)
EXTENDS ColumnDB, WellFoundedInduction, TLAPS

(* The strengthening of the convergence property: what was applied is in    *)
(* the table or outdated, and nothing else is in the table.                 *)
StoreInv ==
    /\ TypeOK
    /\ attribute \subseteq applied
    /\ CollectedIsOutdated

-----------------------------------------------------------------------------
(* The row of an operation is a row of the table. *)
LEMMA RowOfType ==
    ASSUME NEW c \in Column, NEW e \in Entity, NEW v \in Thing,
           NEW t \in Timestamp, NEW d \in BOOLEAN
    PROVE  RowOf(c, e, v, t, d) \in Row
BY DEF RowOf, Row

(* Timestamps are natural numbers, which the solvers need to compare them. *)
LEMMA RowTimestamp ==
    ASSUME NEW r \in Row
    PROVE  r.timestamp \in Nat
<1>1. r.timestamp \in Timestamp
  BY DEF Row
<1>. QED
  BY <1>1, BoundsAssumption DEF Timestamp

(* Every step that changes the store applies one row. *)
LEMMA NextAppliesRow ==
    ASSUME Next
    PROVE  \E row \in Row : Apply(row)
<1>1. PICK c \in Column, e \in Entity, v \in Thing, t \in Timestamp :
          Upsert(c, e, v, t) \/ Retract(c, e, v, t)
  BY DEF Next
<1>2. CASE Upsert(c, e, v, t)
  <2>1. RowOf(c, e, v, t, FALSE) \in Row
    BY RowOfType
  <2>. QED
    BY <1>2, <2>1 DEF Upsert
<1>3. CASE Retract(c, e, v, t)
  <2>1. RowOf(c, e, v, t, TRUE) \in Row
    BY RowOfType
  <2>. QED
    BY <1>3, <2>1 DEF Retract
<1>. QED
  BY <1>1, <1>2, <1>3

-----------------------------------------------------------------------------
(* The table and the history hold well-formed rows: the column table of     *)
(* ColumnDB.h has the schema it declares after any upserts and retractions. *)
THEOREM TypeCorrect == Spec => []TypeOK
<1>1. Init => TypeOK
  BY DEF Init, TypeOK
<1>2. TypeOK /\ [Next]_vars => TypeOK'
  <2>. SUFFICES ASSUME TypeOK, [Next]_vars
                PROVE  TypeOK'
    OBVIOUS
  <2>1. CASE Next
    <3>1. PICK row \in Row : Apply(row)
      BY <2>1, NextAppliesRow
    <3>. QED
      BY <3>1 DEF Apply, CRDTCollectGarbage, TypeOK
  <2>2. CASE UNCHANGED vars
    BY <2>2 DEF vars, TypeOK
  <2>. QED
    BY <2>1, <2>2
<1>. QED
  BY <1>1, <1>2, PTL DEF Spec

-----------------------------------------------------------------------------
(* One operation keeps the strengthened invariant: a row it collects is     *)
(* outdated by the operation itself, and a row that was outdated stays so   *)
(* because no operation leaves the history.                                 *)
LEMMA StoreInvStep ==
    StoreInv /\ [Next]_vars => StoreInv'
<1>. SUFFICES ASSUME StoreInv, [Next]_vars
              PROVE  StoreInv'
  OBVIOUS
<1>1. CASE Next
  <2>1. PICK row \in Row : Apply(row)
    BY <1>1, NextAppliesRow
  <2>2. TypeOK'
    BY <2>1 DEF Apply, CRDTCollectGarbage, StoreInv, TypeOK
  <2>3. attribute' \subseteq applied'
    BY <2>1 DEF Apply, CRDTCollectGarbage, StoreInv
  <2>4. CollectedIsOutdated'
    <3>. SUFFICES ASSUME NEW r \in applied' \ attribute'
                  PROVE  \E q \in applied' :
                             /\ q.colid = r.colid
                             /\ q.timestamp > r.timestamp
                             /\ q.entity = r.entity \/ r.deleted
      BY DEF CollectedIsOutdated
    <3>1. r \in applied /\ r # row
      BY <2>1 DEF Apply
    <3>2. CASE r \in attribute
      <4>1. r \in Garbage(row.colid, row.entity, row.timestamp)
        BY <2>1, <3>2 DEF Apply, CRDTCollectGarbage
      <4>2. /\ r.colid = row.colid
            /\ r.timestamp < row.timestamp
            /\ r.entity = row.entity \/ r.deleted
        BY <4>1 DEF Garbage
      <4>3. r.timestamp \in Nat /\ row.timestamp \in Nat
        BY <3>1, RowTimestamp DEF StoreInv, TypeOK
      <4>4. row \in applied'
        BY <2>1 DEF Apply
      <4>. QED
        BY <4>2, <4>3, <4>4
    <3>3. CASE r \notin attribute
      <4>1. PICK q \in applied : /\ q.colid = r.colid
                                 /\ q.timestamp > r.timestamp
                                 /\ q.entity = r.entity \/ r.deleted
        BY <3>1, <3>3 DEF StoreInv, CollectedIsOutdated
      <4>2. q \in applied'
        BY <2>1 DEF Apply
      <4>. QED
        BY <4>1, <4>2
    <3>. QED
      BY <3>2, <3>3
  <2>. QED
    BY <2>2, <2>3, <2>4 DEF StoreInv
<1>2. CASE UNCHANGED vars
  BY <1>2 DEF vars, StoreInv, TypeOK, CollectedIsOutdated
<1>. QED
  BY <1>1, <1>2

(* The strengthened invariant holds always. *)
THEOREM StoreInvariant == Spec => []StoreInv
<1>1. Init => StoreInv
  BY DEF Init, StoreInv, TypeOK, CollectedIsOutdated
<1>. QED
  BY <1>1, StoreInvStep, PTL DEF Spec

(* The garbage collector of crdt_utils.h only ever drops outdated rows. *)
THEOREM OnlyOutdatedCollected == Spec => []CollectedIsOutdated
<1>1. StoreInv => CollectedIsOutdated
  BY DEF StoreInv
<1>. QED
  BY <1>1, StoreInvariant, PTL

-----------------------------------------------------------------------------
(* A newest upsert is never outdated, hence never collected; every          *)
(* candidate of latest() is at least as new as it, hence newest itself.     *)
LEMMA InvImpliesWins == StoreInv => NewestUpsertWins
<1>. SUFFICES ASSUME StoreInv, NEW c \in Column, NEW e \in Entity,
                     NEW w \in Live(Newest(Of(applied, c, e)))
              PROVE  Candidates(c, e) = Live(Newest(Of(applied, c, e)))
  BY DEF NewestUpsertWins
<1>. DEFINE newest == Newest(Of(applied, c, e))
<1>0. \A r \in applied : r.timestamp \in Nat
  BY RowTimestamp DEF StoreInv, TypeOK
<1>1. \A r \in Live(newest) : r \in Live(Of(attribute, c, e))
  <2>. SUFFICES ASSUME NEW r \in Live(newest)
                PROVE  r \in attribute
    BY DEF Live, Newest, Of
  <2>1. /\ r \in applied /\ r.colid = c /\ r.entity = e /\ ~r.deleted
        /\ \A q \in Of(applied, c, e) : q.timestamp <= r.timestamp
    BY DEF Live, Newest, Of
  <2>2. SUFFICES ASSUME r \notin attribute
                 PROVE  FALSE
    OBVIOUS
  <2>3. PICK q \in applied : /\ q.colid = r.colid
                             /\ q.timestamp > r.timestamp
                             /\ q.entity = r.entity \/ r.deleted
    BY <2>1, <2>2 DEF StoreInv, CollectedIsOutdated
  <2>4. q \in Of(applied, c, e)
    BY <2>1, <2>3 DEF Of
  <2>. QED
    BY <1>0, <2>1, <2>3, <2>4
<1>2. \A r \in Live(Of(attribute, c, e)) :
          /\ r \in Of(applied, c, e)
          /\ ~r.deleted
          /\ r.timestamp <= w.timestamp
  BY DEF Live, Newest, Of, StoreInv
<1>3. w \in Live(Of(attribute, c, e))
  BY <1>1
<1>4. Candidates(c, e) \subseteq Live(newest)
  <2>. SUFFICES ASSUME NEW x \in Candidates(c, e)
                PROVE  x \in Live(newest)
    OBVIOUS
  <2>1. /\ x \in Live(Of(attribute, c, e))
        /\ w.timestamp <= x.timestamp
    BY <1>3 DEF Candidates, Newest
  <2>2. x \in Of(applied, c, e) /\ ~x.deleted
    BY <1>2, <2>1
  <2>3. ASSUME NEW q \in Of(applied, c, e)
        PROVE  q.timestamp <= x.timestamp
    <3>1. q.timestamp <= w.timestamp
      BY DEF Live, Newest
    <3>2. q \in applied /\ w \in applied /\ x \in applied
      BY <2>2 DEF Of, Live, Newest
    <3>. QED
      BY <1>0, <2>1, <3>1, <3>2
  <2>. QED
    BY <2>2, <2>3 DEF Live, Newest
<1>5. Live(newest) \subseteq Candidates(c, e)
  <2>. SUFFICES ASSUME NEW x \in Live(newest)
                PROVE  x \in Candidates(c, e)
    OBVIOUS
  <2>1. x \in Live(Of(attribute, c, e))
    BY <1>1
  <2>2. \A q \in Live(Of(attribute, c, e)) : q.timestamp <= x.timestamp
    BY <1>2 DEF Live, Newest
  <2>. QED
    BY <2>1, <2>2 DEF Candidates, Newest
<1>. QED
  BY <1>4, <1>5

(* Replicas converge: after any order of delivery latest() selects exactly  *)
(* the newest upserts of a register that no newer retraction has touched.   *)
THEOREM Convergence == Spec => []NewestUpsertWins
BY StoreInvariant, InvImpliesWins, PTL

-----------------------------------------------------------------------------
(* Least elements: the order of the natural numbers as a relation, and the  *)
(* least element of a nonempty set of them.                                 *)
NatLess == {ss \in Nat \X Nat : ss[1] < ss[2]}

LEMMA LeastNatural ==
    ASSUME NEW T, T \subseteq Nat, T # {}
    PROVE  \E x \in T : \A y \in T : x <= y
<1>1. IsWellFoundedOn(NatLess, Nat)
  BY NatLessThanWellFounded DEF OpToRel, NatLess
<1>2. PICK x \in T : \A y \in T : <<y, x>> \notin NatLess
  BY <1>1, WFMin, Zenon
<1>3. ASSUME NEW y \in T
      PROVE  x <= y
  <2>1. x \in Nat /\ y \in Nat
    OBVIOUS
  <2>2. <<y, x>> \in Nat \X Nat
    BY <2>1
  <2>3. ~(<<y, x>>[1] < <<y, x>>[2])
    BY <1>2, <2>2, Zenon DEF NatLess
  <2>. QED
    BY <2>1, <2>3
<1>. QED
  BY <1>3

(* A nonempty set of rows has newest rows: timestamps are bounded. *)
LEMMA NewestExists ==
    ASSUME NEW rows, rows \subseteq Row, rows # {}
    PROVE  Newest(rows) # {}
<1>. DEFINE Age(r) == MaxTimestamp - r.timestamp
<1>1. \A r \in rows : r.timestamp \in Nat /\ Age(r) \in Nat
  <2>. SUFFICES ASSUME NEW r \in rows
                PROVE  r.timestamp \in Nat /\ Age(r) \in Nat
    OBVIOUS
  <2>1. r.timestamp \in Timestamp
    BY DEF Row
  <2>. QED
    BY <2>1, BoundsAssumption DEF Timestamp
<1>2. PICK least \in {Age(r) : r \in rows} :
          \A a \in {Age(r) : r \in rows} : least <= a
  <2>. DEFINE ages == {Age(r) : r \in rows}
  <2>1. ages \subseteq Nat /\ ages # {}
    BY <1>1
  <2>. QED
    BY <2>1, LeastNatural
<1>3. PICK w \in rows : Age(w) = least
  BY <1>2
<1>4. ASSUME NEW q \in rows
      PROVE  q.timestamp <= w.timestamp
  <2>1. Age(w) <= Age(q)
    BY <1>2, <1>3
  <2>. QED
    BY <1>1, <2>1, BoundsAssumption
<1>. QED
  BY <1>4 DEF Newest

(* The candidates newer than t are the newest rows of newer_than, and       *)
(* without one there is no live row newer than t at all.                    *)
LEMMA NewerRows ==
    ASSUME TypeOK, NEW c \in Column, NEW e \in Entity, NEW t \in Timestamp
    PROVE  IF \E r \in Candidates(c, e) : r.timestamp > t
           THEN Newest(newer_than(c, e, t)) = Candidates(c, e)
           ELSE newer_than(c, e, t) = {}
<1>. DEFINE live  == Live(Of(attribute, c, e))
            delta == {r \in live : r.timestamp > t}
<1>1. live \subseteq Row /\ \A r \in live : r.timestamp \in Nat
  BY RowTimestamp DEF TypeOK, Live, Of
<1>2. t \in Nat
  BY BoundsAssumption DEF Timestamp
<1>3. CASE \E r \in Newest(live) : r.timestamp > t
  <2>1. PICK w \in Newest(live) : w.timestamp > t
    BY <1>3
  <2>2. w \in delta /\ \A q \in live : q.timestamp <= w.timestamp
    BY <2>1 DEF Newest
  <2>3. Newest(delta) \subseteq Newest(live)
    <3>. SUFFICES ASSUME NEW x \in Newest(delta), NEW q \in live
                  PROVE  x \in live /\ q.timestamp <= x.timestamp
      BY DEF Newest
    <3>1. x \in live /\ w.timestamp <= x.timestamp
      BY <2>2 DEF Newest
    <3>. QED
      BY <1>1, <2>2, <3>1
  <2>4. Newest(live) \subseteq Newest(delta)
    <3>. SUFFICES ASSUME NEW x \in Newest(live)
                  PROVE  x \in Newest(delta)
      OBVIOUS
    <3>1. /\ x \in live /\ w.timestamp <= x.timestamp
          /\ \A q \in live : q.timestamp <= x.timestamp
      BY <2>2 DEF Newest
    <3>2. x.timestamp > t
      BY <1>1, <1>2, <2>1, <2>2, <3>1
    <3>. QED
      BY <3>1, <3>2 DEF Newest
  <2>5. newer_than(c, e, t) = delta /\ Candidates(c, e) = Newest(live)
    BY Zenon DEF newer_than, Candidates
  <2>6. Newest(delta) = Newest(live)
    BY <2>3, <2>4
  <2>. HIDE DEF live, delta
  <2>. QED
    BY <1>3, <2>5, <2>6
<1>4. CASE ~ \E r \in Newest(live) : r.timestamp > t
  <2>1. SUFFICES ASSUME NEW r \in live, r.timestamp > t
                 PROVE  FALSE
    BY <1>4 DEF newer_than, Candidates
  <2>2. PICK w \in Newest(live) : TRUE
    BY <1>1, NewestExists
  <2>3. r.timestamp <= w.timestamp /\ w \in live
    BY <2>2 DEF Newest
  <2>4. w.timestamp > t
    BY <1>1, <1>2, <2>1, <2>3
  <2>. QED
    BY <1>4, <2>4
<1>. QED
  BY <1>3, <1>4

(* What newer_than finds is the news of the history: a newest upsert is     *)
(* never collected, and every live row of its register is at most as new.   *)
LEMMA InvImpliesNews == StoreInv => NewsIsTheNewest
<1>. SUFFICES ASSUME StoreInv, NEW c \in Column, NEW e \in Entity, NEW t \in Timestamp,
                     Live(Newest(Of(applied, c, e))) # {}
              PROVE  Newest(newer_than(c, e, t)) =
                         {w \in Live(Newest(Of(applied, c, e))) : w.timestamp > t}
  BY DEF NewsIsTheNewest
<1>. DEFINE winners == Live(Newest(Of(applied, c, e)))
<1>1. Candidates(c, e) = winners
  BY InvImpliesWins DEF NewestUpsertWins
<1>2. \A v, w \in winners : v.timestamp = w.timestamp
  <2>. SUFFICES ASSUME NEW v \in winners, NEW w \in winners
                PROVE  v.timestamp = w.timestamp
    OBVIOUS
  <2>1. v.timestamp <= w.timestamp /\ w.timestamp <= v.timestamp
    BY DEF Live, Newest
  <2>2. v \in Row /\ w \in Row
    BY DEF Live, Newest, Of, StoreInv, TypeOK
  <2>. QED
    BY <2>1, <2>2, RowTimestamp
<1>3. IF \E r \in winners : r.timestamp > t
      THEN Newest(newer_than(c, e, t)) = winners
      ELSE newer_than(c, e, t) = {}
  BY <1>1, NewerRows DEF StoreInv
<1>. HIDE DEF winners
<1>4. CASE \E r \in winners : r.timestamp > t
  <2>1. winners = {w \in winners : w.timestamp > t}
    BY <1>2, <1>4
  <2>. QED
    BY <1>3, <1>4, <2>1 DEF winners
<1>5. CASE ~\E r \in winners : r.timestamp > t
  <2>1. {w \in winners : w.timestamp > t} = {} /\ Newest(newer_than(c, e, t)) = {}
    BY <1>3, <1>5 DEF Newest
  <2>. QED
    BY <2>1 DEF winners
<1>. QED
  BY <1>4, <1>5

(* After any order of delivery, newer_than (Column.h) has the newest upserts *)
(* of a register as its newest rows, and nothing if they are not newer.     *)
THEOREM NewsIsFound == Spec => []NewsIsTheNewest
BY StoreInvariant, InvImpliesNews, PTL

-----------------------------------------------------------------------------
(* No two values have the same rank. *)
RanksDiffer == \A v, w \in Thing : Rank[v] = Rank[w] => v = w

(* The value latest() returns is the least of the newest upserts, which are *)
(* the candidates on every replica.                                         *)
LEMMA InvImpliesAgree ==
    ASSUME RanksDiffer, StoreInv
    PROVE  ReplicasAgree
<1>. SUFFICES ASSUME NEW c \in Column, NEW e \in Entity,
                     Live(Newest(Of(applied, c, e))) # {}
              PROVE  \E w \in Live(Newest(Of(applied, c, e))) :
                         /\ \A o \in Live(Newest(Of(applied, c, e))) :
                                Rank[w.thing] <= Rank[o.thing]
                         /\ latest(c, e) = {w.thing}
  BY DEF ReplicasAgree
<1>. DEFINE winners == Live(Newest(Of(applied, c, e)))
            things  == {r.thing : r \in winners}
            ranks   == {Rank[v] : v \in things}
<1>1. Candidates(c, e) = winners
  BY InvImpliesWins DEF NewestUpsertWins
<1>2. things \subseteq Thing
  BY DEF StoreInv, TypeOK, Live, Newest, Of, Row
<1>3. \A v \in things : Rank[v] \in Nat
  BY <1>2, RankAssumption
<1>4. ranks \subseteq Nat /\ ranks # {}
  BY <1>3
<1>5. PICK least \in ranks : \A k \in ranks : least <= k
  <2>. HIDE DEF ranks
  <2>. QED
    BY <1>4, LeastNatural
<1>6. PICK w \in winners : Rank[w.thing] = least
  BY <1>5
<1>7. \A o \in winners : Rank[w.thing] <= Rank[o.thing]
  BY <1>5, <1>6
<1>8. latest(c, e) = {v \in things : \A u \in things : preferred(u, v) = v}
  BY <1>1, Zenon DEF latest
<1>9. ASSUME NEW v \in things
      PROVE  (\A u \in things : preferred(u, v) = v) <=> v = w.thing
  <2>1. w.thing \in things /\ Rank[w.thing] <= Rank[v]
    BY <1>7
  <2>2. CASE v = w.thing
    <3>1. \A u \in things : ~(Rank[u] < Rank[v])
      BY <1>3, <1>7, <2>2
    <3>. QED
      BY <2>2, <3>1 DEF preferred
  <2>3. CASE v # w.thing
    <3>1. Rank[w.thing] # Rank[v]
      BY <1>2, <2>1, <2>3 DEF RanksDiffer
    <3>2. Rank[w.thing] < Rank[v]
      BY <1>3, <2>1, <3>1
    <3>3. preferred(w.thing, v) # v
      BY <2>3, <3>2 DEF preferred
    <3>. QED
      BY <2>1, <2>3, <3>3
  <2>. QED
    BY <2>2, <2>3
<1>10. latest(c, e) = {w.thing}
  <2>1. w.thing \in things
    BY <1>6
  <2>. HIDE DEF things
  <2>. QED
    BY <1>8, <1>9, <2>1
<1>. QED
  BY <1>7, <1>10

(* Replicas that applied the same operations show the same value, provided  *)
(* preferred() tells the values apart: a radius, a name or a set operation  *)
(* always, two coordinates unless they are equally far from the origin.     *)
THEOREM Agreement ==
    ASSUME RanksDiffer
    PROVE  Spec => []ReplicasAgree
<1>1. StoreInv => ReplicasAgree
  BY InvImpliesAgree
<1>. QED
  BY <1>1, StoreInvariant, PTL

-----------------------------------------------------------------------------
(* Refinement.  The abstract register of a store, as a function of its rows. *)
WriteOf(r) == [colid |-> r.colid, entity |-> r.entity, thing |-> r.thing,
               timestamp |-> r.timestamp]

AbstractLive == {WriteOf(r) : r \in Live(attribute)}

(* What a collection leaves of the live rows is what the abstract register  *)
(* leaves of its values: the tombstones of foreign entities, which are      *)
(* collected too, are not among them.                                       *)
LEMMA CollectionMatches ==
    ASSUME TypeOK, NEW row \in Row
    PROVE  {WriteOf(r) : r \in Live(CRDTCollectGarbage(row.colid, row.entity,
                                                       row.timestamp))}
           = Abstract!Unreplaced(row.colid, row.entity, row.timestamp)
BY DEF CRDTCollectGarbage, Garbage, Live, Abstract!Unreplaced, WriteOf,
       TypeOK, Row

(* The store with its tombstones implements registers without tombstones:   *)
(* an upsert is an abstract upsert and a retraction an abstract retraction. *)
THEOREM Refinement == Spec => ImplementsRegister
<1>1. Init => Abstract!Init
  BY DEF Init, Abstract!Init, Live
<1>2. TypeOK /\ [Next]_vars => [Abstract!Next]_AbstractLive
  <2>. SUFFICES ASSUME TypeOK, [Next]_vars
                PROVE  Abstract!Next \/ UNCHANGED AbstractLive
    OBVIOUS
  <2>1. ASSUME NEW c \in Column, NEW e \in Entity, NEW v \in Thing,
               NEW t \in Timestamp, Upsert(c, e, v, t)
        PROVE  Abstract!Next
    <3>. DEFINE row == RowOf(c, e, v, t, FALSE)
    <3>1. /\ row \in Row /\ ~row.deleted
          /\ row.colid = c /\ row.entity = e /\ row.thing = v
          /\ row.timestamp = t
      BY RowOfType DEF RowOf
    <3>2. attribute' = CRDTCollectGarbage(c, e, t) \cup {row}
      BY <2>1, <3>1 DEF Upsert, Apply
    <3>3. Live(attribute') = Live(CRDTCollectGarbage(c, e, t)) \cup {row}
      BY <3>1, <3>2 DEF Live
    <3>4. AbstractLive' = {WriteOf(r) : r \in Live(CRDTCollectGarbage(c, e, t))}
                          \cup {WriteOf(row)}
      BY <3>3 DEF AbstractLive, Live, WriteOf
    <3>5. AbstractLive' = Abstract!Unreplaced(c, e, t) \cup {WriteOf(row)}
      BY <3>1, <3>4, CollectionMatches
    <3>6. Abstract!Upsert(c, e, v, t)
      BY <3>1, <3>5 DEF Abstract!Upsert, AbstractLive, WriteOf
    <3>. QED
      BY <3>6 DEF Abstract!Next
  <2>2. ASSUME NEW c \in Column, NEW e \in Entity, NEW v \in Thing,
               NEW t \in Timestamp, Retract(c, e, v, t)
        PROVE  Abstract!Next
    <3>. DEFINE row == RowOf(c, e, v, t, TRUE)
    <3>1. /\ row \in Row /\ row.deleted
          /\ row.colid = c /\ row.entity = e /\ row.timestamp = t
      BY RowOfType DEF RowOf
    <3>2. attribute' = CRDTCollectGarbage(c, e, t) \cup {row}
      BY <2>2, <3>1 DEF Retract, Apply
    <3>3. Live(attribute') = Live(CRDTCollectGarbage(c, e, t))
      BY <3>1, <3>2 DEF Live
    <3>4. AbstractLive' = Abstract!Unreplaced(c, e, t)
      BY <3>1, <3>3, CollectionMatches DEF AbstractLive, Live, WriteOf
    <3>5. Abstract!Retract(c, e, t)
      BY <3>4 DEF Abstract!Retract, AbstractLive, WriteOf
    <3>. QED
      BY <3>5 DEF Abstract!Next
  <2>3. CASE UNCHANGED vars
    BY <2>3 DEF vars, AbstractLive, Live, WriteOf
  <2>. QED
    BY <2>1, <2>2, <2>3 DEF Next
<1>. QED
  BY <1>1, <1>2, TypeCorrect, PTL
     DEF Spec, ImplementsRegister, Abstract!Spec, AbstractLive, WriteOf
=============================================================================
