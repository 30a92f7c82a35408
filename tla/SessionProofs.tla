----------------------------- MODULE SessionProofs -----------------------------
(***************************************************************************)
(* Proofs about any number of replicas whose transactions do not fail and  *)
(* whose messages keep their order.                                        *)
(*                                                                         *)
(* RemovalInv says what is shown of a node and what is on its way about    *)
(* it, so that no removal is lost.  SessionInv adds, for replicas that     *)
(* follow one document, that a graph has the nodes that its tables show    *)
(* and that nothing of a node comes before its creation.  ConvergeInv adds *)
(* that tables, graphs and messages mean the same attributes, and that an  *)
(* edge one replica has is drawn or on its way at every other: so when all *)
(* that was done has arrived, all agree.                                   *)
(***************************************************************************)
EXTENDS ViewModelProofs

-----------------------------------------------------------------------------
(* Several replicas.  No transaction fails and messages keep their order.   *)
Faultless == ~Failures /\ Ordered

CreateDeletes(now) ==
    [type: {"CreateDelete"}, node: Nodes, document: Document,
     change: {"Assert", "Retract"}, timestamp: 0 .. now]

ConnectDisconnects(now) ==
    [type: {"ConnectDisconnect"}, from: NodeId, to: NodeId,
     change: {"Assert", "Retract"}, timestamp: 0 .. now]

Updates(now) ==
    {m \in [type: {"Update"}, uid: NodeId, kind: {"Sphere", "SetOperation"},
            attribute: Attribute, val: Value, timestamp: 0 .. now] :
        m.attribute \in ToSet(Attributes(m.kind))}

Message(now) == CreateDeletes(now) \cup ConnectDisconnects(now) \cup Updates(now)

Inbox(now) == Seq(Message(now))

SessionTypes ==
    /\ clock \in 0 .. MaxTime
    /\ db \in [Replica -> Tables(clock)]
    /\ open \in [Replica -> Document \cup {NoDocument}]
    /\ graph \in [Replica -> Graphs]
    /\ crashed \subseteq Replica
    /\ inbox \in [Replica -> Inbox(clock)]
    /\ stage \in Life

CreateOf(m, n) == m.type = "CreateDelete" /\ m.change = "Assert" /\ m.node.id = n

RemovalOf(m, n) == m.type = "CreateDelete" /\ m.change = "Retract" /\ m.node.id = n

Creates(s, n) == {m \in ToSet(s) : CreateOf(m, n)}

Removals(s, n) == {m \in ToSet(s) : RemovalOf(m, n)}

(* The creation of a node is the first that is heard of it.                 *)
InOrder(s, n) ==
    \A i, j \in DOMAIN s :
        i < j /\ (CreateOf(s[i], n) \/ RemovalOf(s[i], n)) => ~CreateOf(s[j], n)

(* Where and when a node was created, by what holds or announces it.        *)
Birth(x) == <<x.document, x.timestamp>>

Births(tables, s, n) == {Birth(x) : x \in Shown(tables, n) \cup Creates(s, n)}

(* What the tables of the replicas and the messages on their way hold of a  *)
(* node.  Whoever still shows or will show a node that was removed hears of *)
(* the removal in time.                                                     *)
KnownOK(n) ==
    \A r \in Replica :
        /\ stage[n] = "unused" =>
              Births(db[r], inbox[r], n) = {} /\ Removals(inbox[r], n) = {}
        /\ Removals(inbox[r], n) # {} => stage[n] = "removed"
        /\ InOrder(inbox[r], n)
        /\ Shown(db[r], n) # {} => Creates(inbox[r], n) = {}
        /\ \A x \in Shown(db[r], n) : x.type = Kind[n]

BornOnce(n) ==
    \A r, q \in Replica : \A p \in Births(db[r], inbox[r], n) :
        /\ \A o \in Births(db[q], inbox[q], n) : p = o
        /\ \A m \in Removals(inbox[q], n) : p[2] < m.timestamp

RemovalComes(n) ==
    \A r \in Replica \ crashed :
        /\ stage[n] = "removed" =>
              \A p \in Births(db[r], inbox[r], n) :
                  \E m \in Removals(inbox[r], n) : m.document = p[1]
        /\ n \in Ids(graph[r]) => \E x \in Shown(db[r], n) : x.document = open[r]

RemovalInv ==
    /\ SessionTypes
    /\ \A n \in NodeId : KnownOK(n) /\ BornOnce(n) /\ RemovalComes(n)

-----------------------------------------------------------------------------
(* Messages *)

LEMMA MessageFields ==
    ASSUME NEW now, NEW m \in Message(now)
    PROVE  /\ m.timestamp \in 0 .. now
           /\ m.type \in {"CreateDelete", "ConnectDisconnect", "Update"}
           /\ m.type = "CreateDelete" =>
                 /\ m.node \in Nodes /\ m.document \in Document
                 /\ m.change \in {"Assert", "Retract"}
           /\ m.type = "ConnectDisconnect" =>
                 /\ m.from \in NodeId /\ m.to \in NodeId
                 /\ m.change \in {"Assert", "Retract"}
           /\ m.type = "Update" =>
                 /\ m.uid \in NodeId /\ m.kind \in {"Sphere", "SetOperation"}
                 /\ m.attribute \in Attribute /\ m.val \in Value
                 /\ m.attribute \in ToSet(Attributes(m.kind))
<1>1. CASE m \in CreateDeletes(now)
    BY <1>1 DEF CreateDeletes
<1>2. CASE m \in ConnectDisconnects(now)
    BY <1>2 DEF ConnectDisconnects
<1>3. CASE m \in Updates(now)
    BY <1>3 DEF Updates
<1>. QED  BY <1>1, <1>2, <1>3 DEF Message

LEMMA MessageIs ==
    ASSUME NEW now, NEW t \in 0 .. now
    PROVE  /\ \A n \in Nodes, d \in Document, change \in {"Assert", "Retract"} :
                 CreateDelete(n, d, change, t) \in Message(now)
           /\ \A a, b \in NodeId, change \in {"Assert", "Retract"} :
                 ConnectDisconnect(a, b, change, t) \in Message(now)
           /\ \A n \in Nodes, a \in Attribute :
                 a \in ToSet(Attributes(n.kind)) => Update(n, a, t) \in Message(now)
<1>1. \A n \in Nodes, d \in Document, change \in {"Assert", "Retract"} :
         CreateDelete(n, d, change, t) \in CreateDeletes(now)
    BY DEF CreateDelete, CreateDeletes
<1>2. \A a, b \in NodeId, change \in {"Assert", "Retract"} :
         ConnectDisconnect(a, b, change, t) \in ConnectDisconnects(now)
    BY DEF ConnectDisconnect, ConnectDisconnects
<1>3. ASSUME NEW n \in Nodes, NEW a \in Attribute, a \in ToSet(Attributes(n.kind))
      PROVE  Update(n, a, t) \in Updates(now)
    <2>1. /\ n.id \in NodeId /\ n.kind \in {"Sphere", "SetOperation"}
          /\ n.attr \in [Names(n.id) -> Value] /\ a \in Names(n.id)
        BY <1>3, NodeFields DEF Names
    <2>2. n.attr[a] \in Value
        BY <2>1
    <2>. QED  BY <1>3, <2>1, <2>2 DEF Update, Updates
<1>. QED  BY <1>1, <1>2, <1>3 DEF Message

LEMMA MessagesLater ==
    ASSUME NEW t \in Nat, NEW s \in Inbox(t)
    PROVE  s \in Inbox(t + 1)
<1>. DEFINE early == 0 .. t  late == 0 .. t + 1
<1>1. early \subseteq late
    OBVIOUS
<1>2. CreateDeletes(t) \subseteq CreateDeletes(t + 1)
    <2>. HIDE DEF early, late
    <2>1. [type: {"CreateDelete"}, node: Nodes, document: Document,
           change: {"Assert", "Retract"}, timestamp: early]
          \subseteq [type: {"CreateDelete"}, node: Nodes, document: Document,
           change: {"Assert", "Retract"}, timestamp: late]
        BY <1>1
    <2>. QED  BY <2>1 DEF CreateDeletes, early, late
<1>3. ConnectDisconnects(t) \subseteq ConnectDisconnects(t + 1)
    <2>. HIDE DEF early, late
    <2>1. [type: {"ConnectDisconnect"}, from: NodeId, to: NodeId,
           change: {"Assert", "Retract"}, timestamp: early]
          \subseteq [type: {"ConnectDisconnect"}, from: NodeId, to: NodeId,
           change: {"Assert", "Retract"}, timestamp: late]
        BY <1>1
    <2>. QED  BY <2>1 DEF ConnectDisconnects, early, late
<1>4. Updates(t) \subseteq Updates(t + 1)
    <2>. HIDE DEF early, late
    <2>1. [type: {"Update"}, uid: NodeId, kind: {"Sphere", "SetOperation"},
            attribute: Attribute, val: Value, timestamp: early]
          \subseteq [type: {"Update"}, uid: NodeId, kind: {"Sphere", "SetOperation"},
            attribute: Attribute, val: Value, timestamp: late]
        BY <1>1
    <2>. QED  BY <2>1 DEF Updates, early, late
<1>5. Message(t) \subseteq Message(t + 1)
    BY <1>2, <1>3, <1>4 DEF Message
<1>. QED  BY <1>5, SequencesGrow DEF Inbox

LEMMA TailHas ==
    ASSUME NEW X, NEW s \in Seq(X), s # <<>>
    PROVE  /\ Tail(s) \in Seq(X) /\ RemoveAt(s, 1) = Tail(s)
           /\ 1 \in DOMAIN s /\ s[1] \in ToSet(s) /\ s[1] \in X
           /\ ToSet(s) = {s[1]} \cup ToSet(Tail(s))
           /\ \A i \in DOMAIN Tail(s) : i + 1 \in DOMAIN s /\ Tail(s)[i] = s[i + 1]
           /\ \A i \in DOMAIN s : i # 1 => i - 1 \in DOMAIN Tail(s) /\ s[i] = Tail(s)[i - 1]
<1>1. /\ Len(s) \in Nat /\ Len(s) > 0 /\ DOMAIN s = 1 .. Len(s)
      /\ Tail(s) \in Seq(X) /\ Len(Tail(s)) = Len(s) - 1 /\ DOMAIN Tail(s) = 1 .. Len(s) - 1
      /\ \A i \in 1 .. Len(s) - 1 : Tail(s)[i] = s[i + 1]
      /\ s[1] \in X
    OBVIOUS
<1>2. /\ 1 \in DOMAIN s /\ s[1] \in ToSet(s)
      /\ \A i \in DOMAIN Tail(s) : i + 1 \in DOMAIN s /\ Tail(s)[i] = s[i + 1]
      /\ \A i \in DOMAIN s : i # 1 => i - 1 \in DOMAIN Tail(s) /\ s[i] = Tail(s)[i - 1]
    <2>1. 1 \in DOMAIN s
        BY <1>1
    <2>2. \A i \in 1 .. Len(s) : i # 1 => i - 1 \in 1 .. Len(s) - 1 /\ (i - 1) + 1 = i
        BY <1>1
    <2>3. \A i \in 1 .. Len(s) - 1 : i + 1 \in 1 .. Len(s)
        BY <1>1
    <2>. QED  BY <1>1, <2>1, <2>2, <2>3 DEF ToSet
<1>3. ToSet(s) = {s[1]} \cup ToSet(Tail(s))
    <2>. DEFINE u == Tail(s)
    <2>1. /\ 1 \in DOMAIN s
          /\ \A i \in DOMAIN u : i + 1 \in DOMAIN s /\ u[i] = s[i + 1]
          /\ \A i \in DOMAIN s : i # 1 => i - 1 \in DOMAIN u /\ s[i] = u[i - 1]
        BY <1>2
    <2>. HIDE DEF u
    <2>2. ASSUME NEW i \in DOMAIN s
          PROVE  s[i] \in {s[1]} \cup ToSet(u)
        BY <2>1 DEF ToSet
    <2>3. ASSUME NEW i \in DOMAIN u
          PROVE  u[i] \in ToSet(s)
        BY <2>1 DEF ToSet
    <2>. QED  BY <1>2, <2>2, <2>3 DEF ToSet, u
<1>4. RemoveAt(s, 1) = Tail(s)
    <2>1. RemoveAt(s, 1) = SubSeq(s, 1, 0) \o SubSeq(s, 2, Len(s))
        BY DEF RemoveAt
    <2>2. SubSeq(s, 1, 0) = <<>> /\ SubSeq(s, 2, Len(s)) = Tail(s)
        BY <1>1
    <2>3. <<>> \o Tail(s) = Tail(s)
        BY <1>1
    <2>. QED  BY <2>1, <2>2, <2>3
<1>. QED  BY <1>1, <1>2, <1>3, <1>4

LEMMA ConcatHas ==
    ASSUME NEW X, NEW s \in Seq(X), NEW t \in Seq(X)
    PROVE  /\ s \o t \in Seq(X) /\ ToSet(s \o t) = ToSet(s) \cup ToSet(t)
           /\ DOMAIN s = 1 .. Len(s) /\ DOMAIN t = 1 .. Len(t) /\ Len(s) \in Nat /\ Len(t) \in Nat
           /\ DOMAIN (s \o t) = 1 .. Len(s) + Len(t)
           /\ \A i \in 1 .. Len(s) : (s \o t)[i] = s[i]
           /\ \A i \in 1 .. Len(t) : (s \o t)[Len(s) + i] = t[i]
<1>1. /\ s \o t \in Seq(X) /\ Len(s) \in Nat /\ Len(t) \in Nat
      /\ DOMAIN s = 1 .. Len(s) /\ DOMAIN t = 1 .. Len(t)
      /\ DOMAIN (s \o t) = 1 .. Len(s) + Len(t)
      /\ \A i \in 1 .. Len(s) + Len(t) : (s \o t)[i] = IF i <= Len(s) THEN s[i] ELSE t[i - Len(s)]
    OBVIOUS
<1>2. \A i \in 1 .. Len(s) : (s \o t)[i] = s[i] /\ i \in 1 .. Len(s) + Len(t)
    BY <1>1
<1>3. ASSUME NEW i \in 1 .. Len(t)
      PROVE  (s \o t)[Len(s) + i] = t[i] /\ Len(s) + i \in 1 .. Len(s) + Len(t)
    <2>1. /\ Len(s) + i \in 1 .. Len(s) + Len(t) /\ ~(Len(s) + i <= Len(s))
          /\ (Len(s) + i) - Len(s) = i
        BY <1>1
    <2>. QED  BY <1>1, <2>1
<1>4. \A i \in 1 .. Len(s) + Len(t) : i <= Len(s) => i \in 1 .. Len(s)
    BY <1>1
<1>5. \A i \in 1 .. Len(s) + Len(t) : ~(i <= Len(s)) => i - Len(s) \in 1 .. Len(t)
    BY <1>1
<1>6. ToSet(s \o t) = ToSet(s) \cup ToSet(t)
    <2>. DEFINE w == s \o t  k == Len(s)  l == Len(t)
    <2>1. /\ DOMAIN s = 1 .. k /\ DOMAIN t = 1 .. l /\ DOMAIN w = 1 .. k + l
          /\ \A i \in 1 .. k : w[i] = s[i] /\ i \in 1 .. k + l
          /\ \A i \in 1 .. l : w[k + i] = t[i] /\ k + i \in 1 .. k + l
          /\ \A i \in 1 .. k + l : i \in 1 .. k \/ (i - k \in 1 .. l /\ k + (i - k) = i)
        BY <1>1, <1>2, <1>3, <1>4, <1>5
    <2>. HIDE DEF w, k, l
    <2>2. ASSUME NEW i \in DOMAIN w
          PROVE  w[i] \in ToSet(s) \cup ToSet(t)
        <3>1. CASE i \in 1 .. k
            BY <2>1, <3>1 DEF ToSet
        <3>2. CASE i - k \in 1 .. l /\ k + (i - k) = i
            <4>1. w[i] = t[i - k]
                BY <2>1, <3>2
            <4>. QED  BY <2>1, <3>2, <4>1 DEF ToSet
        <3>. QED  BY <2>1, <2>2, <3>1, <3>2
    <2>3. ASSUME NEW i \in DOMAIN s
          PROVE  s[i] \in ToSet(w)
        BY <2>1 DEF ToSet
    <2>4. ASSUME NEW i \in DOMAIN t
          PROVE  t[i] \in ToSet(w)
        <3>1. w[k + i] = t[i] /\ k + i \in DOMAIN w
            BY <2>1
        <3>. QED  BY <3>1 DEF ToSet
    <2>. QED  BY <2>2, <2>3, <2>4 DEF ToSet, w
<1>. QED  BY <1>1, <1>2, <1>3, <1>6

(* A message is taken: what else is on its way keeps its order.             *)
LEMMA TakenKeeps ==
    ASSUME NEW now, NEW s \in Inbox(now), s # <<>>, NEW n, InOrder(s, n)
    PROVE  /\ InOrder(Tail(s), n)
           /\ Creates(Tail(s), n) \subseteq Creates(s, n)
           /\ Removals(Tail(s), n) \subseteq Removals(s, n)
           /\ \A m \in Creates(s, n) : m # s[1] => m \in Creates(Tail(s), n)
           /\ \A m \in Removals(s, n) : m # s[1] => m \in Removals(Tail(s), n)
           /\ ~CreateOf(s[1], n) => Creates(Tail(s), n) = Creates(s, n)
           /\ ~RemovalOf(s[1], n) => Removals(Tail(s), n) = Removals(s, n)
           /\ CreateOf(s[1], n) \/ RemovalOf(s[1], n) => Creates(Tail(s), n) = {}
<1>. DEFINE u == Tail(s)
<1>1. /\ u \in Inbox(now) /\ 1 \in DOMAIN s /\ ToSet(s) = {s[1]} \cup ToSet(u)
      /\ \A i \in DOMAIN u : i + 1 \in DOMAIN s /\ u[i] = s[i + 1]
    BY TailHas DEF Inbox
<1>2. DOMAIN u \subseteq Nat \ {0}
    BY <1>1
<1>. HIDE DEF u
<1>3. \A m : m \in ToSet(s) => m = s[1] \/ m \in ToSet(u)
    BY <1>1
<1>4. InOrder(u, n)
    <2>. SUFFICES ASSUME NEW i \in DOMAIN u, NEW j \in DOMAIN u, i < j,
                         CreateOf(u[i], n) \/ RemovalOf(u[i], n)
                  PROVE  ~CreateOf(u[j], n)
        BY DEF InOrder
    <2>1. i + 1 \in DOMAIN s /\ j + 1 \in DOMAIN s /\ u[i] = s[i + 1] /\ u[j] = s[j + 1]
        BY <1>1
    <2>2. i + 1 < j + 1
        BY <1>2
    <2>. QED  BY <2>1, <2>2 DEF InOrder
<1>5. CreateOf(s[1], n) \/ RemovalOf(s[1], n) => Creates(u, n) = {}
    <2>. SUFFICES ASSUME CreateOf(s[1], n) \/ RemovalOf(s[1], n), NEW m \in Creates(u, n)
                  PROVE  FALSE
        OBVIOUS
    <2>1. PICK i \in DOMAIN u : m = u[i]
        BY DEF Creates, ToSet
    <2>2. i + 1 \in DOMAIN s /\ m = s[i + 1] /\ 1 < i + 1
        BY <1>1, <1>2, <2>1
    <2>. QED  BY <1>1, <2>2 DEF InOrder, Creates
<1>6. /\ Creates(u, n) \subseteq Creates(s, n)
      /\ Removals(u, n) \subseteq Removals(s, n)
      /\ \A m \in Creates(s, n) : m # s[1] => m \in Creates(u, n)
      /\ \A m \in Removals(s, n) : m # s[1] => m \in Removals(u, n)
    BY <1>1, <1>3 DEF Creates, Removals
<1>7. /\ ~CreateOf(s[1], n) => Creates(u, n) = Creates(s, n)
      /\ ~RemovalOf(s[1], n) => Removals(u, n) = Removals(s, n)
    BY <1>6 DEF Creates, Removals
<1>. QED  BY <1>4, <1>5, <1>6, <1>7 DEF u

Joined(s, u) == s \o u

(* What is heard of a node in s and then in u.                              *)
Follows(s, u, n) ==
    /\ InOrder(Joined(s, u), n)
    /\ Creates(Joined(s, u), n) = Creates(s, n) \cup Creates(u, n)
    /\ Removals(Joined(s, u), n) = Removals(s, n) \cup Removals(u, n)

Fits(s, u, n) == Creates(u, n) = {} \/ (Creates(s, n) = {} /\ Removals(s, n) = {})

(* Messages are posted: none of them creates a node that was heard of.      *)
LEMMA PostedKeeps ==
    ASSUME NEW now, NEW s \in Inbox(now), NEW u \in Inbox(now), NEW n,
           InOrder(s, n), InOrder(u, n),
           Fits(s, u, n)
    PROVE  Follows(s, u, n)
<1>. DEFINE w == s \o u  k == Len(s)  l == Len(u)
<1>1. /\ ToSet(w) = ToSet(s) \cup ToSet(u)
      /\ DOMAIN s = 1 .. k /\ DOMAIN u = 1 .. l /\ k \in Nat /\ l \in Nat
      /\ DOMAIN w = 1 .. k + l
      /\ \A i \in 1 .. k : w[i] = s[i]
      /\ \A i \in 1 .. l : w[k + i] = u[i]
    BY ConcatHas DEF Inbox
<1>. HIDE DEF w, k, l
<1>2. /\ Creates(w, n) = Creates(s, n) \cup Creates(u, n)
      /\ Removals(w, n) = Removals(s, n) \cup Removals(u, n)
    BY <1>1 DEF Creates, Removals
<1>3. ASSUME NEW i \in DOMAIN w, NEW j \in DOMAIN w, i < j,
             CreateOf(w[i], n) \/ RemovalOf(w[i], n), CreateOf(w[j], n)
      PROVE  FALSE
    <2>1. CASE j \in 1 .. k
        <3>1. i \in 1 .. k
            BY <1>1, <1>3, <2>1
        <3>. QED  BY <1>1, <1>3, <2>1, <3>1 DEF InOrder
    <2>2. CASE j \notin 1 .. k
        <3>1. j - k \in 1 .. l /\ k + (j - k) = j
            BY <1>1, <2>2
        <3>2. w[j] = u[j - k]
            BY <1>1, <3>1
        <3>3. Creates(u, n) # {}
            BY <1>1, <1>3, <3>1, <3>2 DEF Creates, ToSet
        <3>4. CASE i \in 1 .. k
            <4>1. w[i] = s[i] /\ s[i] \in ToSet(s)
                BY <1>1, <3>4 DEF ToSet
            <4>. QED  BY <1>3, <3>3, <4>1 DEF Creates, Removals, Fits
        <3>5. CASE i \notin 1 .. k
            <4>1. i - k \in 1 .. l /\ k + (i - k) = i /\ i - k < j - k
                BY <1>1, <1>3, <3>5
            <4>2. w[i] = u[i - k]
                BY <1>1, <4>1
            <4>. QED  BY <1>1, <1>3, <3>1, <3>2, <4>1, <4>2 DEF InOrder
        <3>. QED  BY <3>4, <3>5
    <2>. QED  BY <2>1, <2>2
<1>4. InOrder(w, n)
    BY <1>3 DEF InOrder
<1>. QED  BY <1>2, <1>4 DEF w, Joined, Follows

-----------------------------------------------------------------------------
(* Steps of a session *)

LEMMA Site ==
    ASSUME SessionTypes, NEW r \in Replica
    PROVE  /\ clock \in 0 .. MaxTime /\ clock \in Nat /\ MaxTime \in Nat
           /\ db[r] \in Tables(clock) /\ graph[r] \in Graphs
           /\ open[r] \in Document \cup {NoDocument}
           /\ open[r] # NoDocument => open[r] \in Document
           /\ inbox[r] \in Inbox(clock)
<1>1. clock \in 0 .. MaxTime /\ MaxTime \in Nat
    BY ViewModelAssumption DEF SessionTypes
<1>. QED  BY <1>1 DEF SessionTypes

LEMMA PostIs ==
    ASSUME NEW now, NEW boxes \in [Replica -> Inbox(now)],
           NEW sent \in Inbox(now), NEW r
    PROVE  /\ Post(boxes, r, sent) \in [Replica -> Inbox(now)]
           /\ \A q \in Replica : Post(boxes, r, sent)[q] =
                 IF q = r THEN boxes[q] ELSE Joined(boxes[q], sent)
<1>1. \A q \in Replica : Joined(boxes[q], sent) \in Inbox(now)
    BY ConcatHas DEF Joined, Inbox
<1>2. Post(boxes, r, sent) =
         [q \in Replica |-> IF q = r THEN boxes[q] ELSE Joined(boxes[q], sent)]
    BY DEF Post, Joined
<1>. QED  BY <1>1, <1>2

(* A call of replica r whose transactions have all committed.               *)
Committed(r, after, h, boxes, safe) ==
    /\ db' = [db EXCEPT ![r] = after]
    /\ graph' = [graph EXCEPT ![r] = IF safe THEN h ELSE graph[r]]
    /\ crashed' = IF safe THEN crashed ELSE crashed \cup {r}
    /\ inbox' = boxes
    /\ open' = open

LEMMA OutcomeIs ==
    ASSUME Faultless, SessionTypes, NEW r \in Replica, NEW txs, NEW k \in Progress(txs),
           NEW boxes, NEW g, NEW safe, Outcome(r, txs, k, boxes, g, safe)
    PROVE  /\ k = Len(txs)
           /\ Committed(r, Commit(db[r], SubSeq(txs, 1, Len(txs))), g, boxes, safe)
<1>1. k = Len(txs)
    BY DEF Progress, Faultless
<1>2. graph = [graph EXCEPT ![r] = graph[r]]
    BY DEF SessionTypes
<1>. QED  BY <1>1, <1>2 DEF Outcome, Committed

LEMMA TypesKeep ==
    ASSUME SessionTypes, NEW r \in Replica, NEW after, NEW h, NEW boxes, NEW safe,
           Committed(r, after, h, boxes, safe),
           clock' \in 0 .. MaxTime, clock' = clock \/ clock' = clock + 1,
           after \in Tables(clock'), safe => h \in Graphs,
           boxes \in [Replica -> Inbox(clock')], stage' \in Life
    PROVE  SessionTypes'
<1>1. /\ db'[r] = after /\ \A q \in Replica : q # r => db'[q] = db[q]
      /\ DOMAIN db' = Replica /\ db' = [q \in Replica |-> db'[q]]
    BY DEF Committed, SessionTypes
<1>2. \A q \in Replica : db[q] \in Tables(clock')
    BY Site, TablesLater
<1>3. db' \in [Replica -> Tables(clock')]
    BY <1>1, <1>2
<1>4. graph' \in [Replica -> Graphs]
    BY DEF Committed, SessionTypes
<1>5. open' \in [Replica -> Document \cup {NoDocument}] /\ crashed' \subseteq Replica
    BY DEF Committed, SessionTypes
<1>6. inbox' \in [Replica -> Inbox(clock')]
    BY DEF Committed
<1>. QED  BY <1>3, <1>4, <1>5, <1>6 DEF SessionTypes

LEMMA CommittedIs ==
    ASSUME SessionTypes, NEW r \in Replica, NEW after, NEW h, NEW boxes, NEW safe,
           Committed(r, after, h, boxes, safe)
    PROVE  /\ db'[r] = after /\ inbox' = boxes /\ open' = open
           /\ r \notin crashed' => safe /\ graph'[r] = h
           /\ crashed \subseteq crashed'
           /\ \A q \in Replica : q # r => db'[q] = db[q] /\ graph'[q] = graph[q]
BY DEF Committed, SessionTypes

(* Only the oldest message is handed to a replica.                          *)
LEMMA ReceivedIs ==
    ASSUME Faultless, SessionTypes, NEW r \in Replica, NEW i \in DOMAIN inbox[r], NEW m,
           NEW type, NEW change, Receive(r, i, m, type, change)
    PROVE  /\ inbox[r] # <<>> /\ m = inbox[r][1] /\ m \in Message(clock)
           /\ m \in ToSet(inbox[r])
           /\ m.type = type /\ (type # "Update" => m.change = change)
           /\ Taken(r, i) \in [Replica -> Inbox(clock)]
           /\ Taken(r, i)[r] = Tail(inbox[r])
           /\ \A q \in Replica : q # r => Taken(r, i)[q] = inbox[q]
<1>1. i = 1 /\ m = inbox[r][1] /\ m.type = type /\ (type # "Update" => m.change = change)
    BY DEF Receive, Faultless
<1>2. inbox[r] \in Inbox(clock)
    BY Site
<1>3. inbox[r] # <<>>
    OBVIOUS
<1>4. /\ m \in Message(clock) /\ m \in ToSet(inbox[r])
      /\ RemoveAt(inbox[r], 1) = Tail(inbox[r]) /\ Tail(inbox[r]) \in Inbox(clock)
    BY <1>1, <1>2, <1>3, TailHas DEF Inbox
<1>5. Taken(r, i) = [inbox EXCEPT ![r] = Tail(inbox[r])]
    BY <1>1, <1>4 DEF Taken
<1>6. inbox \in [Replica -> Inbox(clock)]
    BY DEF SessionTypes
<1>. QED  BY <1>1, <1>3, <1>4, <1>5, <1>6

-----------------------------------------------------------------------------
(* What a step may do to what is known of a node *)

NodeOK(n) == KnownOK(n) /\ BornOnce(n) /\ RemovalComes(n)

(* Of the node a step is not about nothing changes but who shows it.        *)
Undisturbed(n) ==
    /\ stage'[n] = stage[n] /\ crashed \subseteq crashed'
    /\ \A q \in Replica :
          /\ Shown(db'[q], n) = Shown(db[q], n)
          /\ Creates(inbox'[q], n) = Creates(inbox[q], n)
          /\ Removals(inbox'[q], n) = Removals(inbox[q], n)
          /\ InOrder(inbox'[q], n)
          /\ q \notin crashed' /\ n \in Ids(graph'[q]) =>
                \/ n \in Ids(graph[q]) /\ open'[q] = open[q]
                \/ \E x \in Shown(db'[q], n) : x.document = open'[q]

LEMMA UndisturbedKeeps ==
    ASSUME NEW n \in NodeId, NodeOK(n), Undisturbed(n)
    PROVE  NodeOK(n)'
<1>1. \A q \in Replica : Births(db'[q], inbox'[q], n) = Births(db[q], inbox[q], n)
    BY DEF Undisturbed, Births
<1>2. KnownOK(n)'
    BY <1>1 DEF NodeOK, KnownOK, Undisturbed
<1>3. BornOnce(n)'
    BY <1>1 DEF NodeOK, BornOnce, Undisturbed
<1>4. RemovalComes(n)'
    <2>1. \A r \in Replica \ crashed' : r \in Replica \ crashed
        BY DEF Undisturbed
    <2>. QED  BY <1>1, <2>1 DEF NodeOK, RemovalComes, Undisturbed
<1>. QED  BY <1>2, <1>3, <1>4 DEF NodeOK

(* A node is created at r, and the others are told.                         *)
LEMMA CreationKeeps ==
    ASSUME NEW n \in NodeId, NodeOK(n), stage[n] = "unused", stage'[n] = "created",
           NEW r \in Replica, NEW d, NEW t, crashed \subseteq crashed',
           Creates(inbox'[r], n) = {}, open'[r] = d,
           \A x \in Shown(db'[r], n) :
              x.document = d /\ x.timestamp = t /\ x.type = Kind[n],
           Shown(db'[r], n) # {},
           \A q \in Replica :
              /\ Removals(inbox'[q], n) = {} /\ InOrder(inbox'[q], n)
              /\ q # r => /\ Shown(db'[q], n) = Shown(db[q], n)
                          /\ \A m \in Creates(inbox'[q], n) : m.document = d /\ m.timestamp = t
                          /\ q \notin crashed' => Ids(graph'[q]) = Ids(graph[q])
    PROVE  NodeOK(n)'
<1>1. \A q \in Replica : Shown(db[q], n) = {}
    BY DEF NodeOK, KnownOK, Births
<1>2. \A q \in Replica : \A p \in Births(db'[q], inbox'[q], n) : p = <<d, t>>
    BY <1>1 DEF Births, Birth
<1>3. KnownOK(n)'
    BY <1>1 DEF KnownOK
<1>4. BornOnce(n)'
    BY <1>2 DEF BornOnce
<1>5. ASSUME NEW q \in Replica \ crashed', n \in Ids(graph'[q])
      PROVE  \E x \in Shown(db'[q], n) : x.document = open'[q]
    <2>1. CASE q = r
        BY <2>1
    <2>2. CASE q # r
        BY <1>1, <1>5, <2>2 DEF NodeOK, RemovalComes
    <2>. QED  BY <2>1, <2>2
<1>6. RemovalComes(n)'
    BY <1>5 DEF RemovalComes
<1>. QED  BY <1>3, <1>4, <1>6 DEF NodeOK

(* A creation arrives at r: the row takes the place of the message.         *)
LEMMA ArrivalKeeps ==
    ASSUME NEW n \in NodeId, NodeOK(n), stage'[n] = stage[n], NEW r \in Replica,
           NEW m \in Creates(inbox[r], n), crashed \subseteq crashed',
           Creates(inbox'[r], n) = {},
           Shown(db'[r], n) # {},
           \A x \in Shown(db'[r], n) :
              \/ x \in Shown(db[r], n)
              \/ /\ x.document = m.document /\ x.timestamp = m.timestamp
                 /\ x.type = Kind[n],
           \A q \in Replica :
              /\ Removals(inbox'[q], n) = Removals(inbox[q], n) /\ InOrder(inbox'[q], n)
              /\ q # r => /\ Shown(db'[q], n) = Shown(db[q], n)
                          /\ Creates(inbox'[q], n) = Creates(inbox[q], n)
                          /\ q \notin crashed' => Ids(graph'[q]) = Ids(graph[q]),
           open' = open,
           r \notin crashed' /\ n \in Ids(graph'[r]) => n \in Ids(graph[r]) \/ open[r] = m.document
    PROVE  NodeOK(n)'
<1>1. Birth(m) \in Births(db[r], inbox[r], n) /\ Shown(db[r], n) = {} /\ stage[n] # "unused"
    BY DEF NodeOK, KnownOK, Births
<1>2. \A q \in Replica : Births(db'[q], inbox'[q], n) \subseteq Births(db[q], inbox[q], n)
    <2>1. Births(db'[r], inbox'[r], n) \subseteq {Birth(m)}
        BY <1>1 DEF Births, Birth
    <2>2. \A q \in Replica : q # r => Births(db'[q], inbox'[q], n) = Births(db[q], inbox[q], n)
        BY DEF Births
    <2>. QED  BY <1>1, <2>1, <2>2
<1>3. KnownOK(n)'
    BY <1>1 DEF NodeOK, KnownOK
<1>4. BornOnce(n)'
    BY <1>2 DEF NodeOK, BornOnce
<1>5. RemovalComes(n)'
    <2>. SUFFICES ASSUME NEW q \in Replica \ crashed'
                  PROVE  /\ stage'[n] = "removed" =>
                              \A p \in Births(db'[q], inbox'[q], n) :
                                  \E o \in Removals(inbox'[q], n) : o.document = p[1]
                         /\ n \in Ids(graph'[q]) => \E x \in Shown(db'[q], n) : x.document = open'[q]
        BY DEF RemovalComes
    <2>1. q \in Replica \ crashed
        OBVIOUS
    <2>2. n \in Ids(graph'[q]) => \E x \in Shown(db'[q], n) : x.document = open'[q]
        <3>1. CASE q = r
            BY <1>1, <2>1, <3>1 DEF NodeOK, RemovalComes
        <3>2. CASE q # r
            BY <2>1, <3>2 DEF NodeOK, RemovalComes
        <3>. QED  BY <3>1, <3>2
    <2>3. ASSUME stage'[n] = "removed", NEW p \in Births(db'[q], inbox'[q], n)
          PROVE  \E o \in Removals(inbox'[q], n) : o.document = p[1]
        <3>1. p \in Births(db[q], inbox[q], n) /\ Removals(inbox'[q], n) = Removals(inbox[q], n)
            BY <1>2, <2>3
        <3>2. stage[n] = "removed"
            BY <2>3
        <3>. QED  BY <2>1, <3>1, <3>2 DEF NodeOK, RemovalComes
    <2>. QED  BY <2>2, <2>3
<1>. QED  BY <1>3, <1>4, <1>5 DEF NodeOK

(* What a removal leaves of a node where it is made.                        *)
Retracts(n, r, d, t) ==
    /\ \A x \in Shown(db'[r], n) :
          x \in Shown(db[r], n) /\ ~(x.document = d /\ x.timestamp < t)
    /\ r \notin crashed' => n \notin Ids(graph'[r])

(* The others are told of it.                                               *)
Tells(n, r, told) ==
    \A q \in Replica :
        /\ InOrder(inbox'[q], n)
        /\ q # r => /\ Removals(inbox'[q], n) = Removals(inbox[q], n) \cup told
                    /\ Creates(inbox'[q], n) = Creates(inbox[q], n)
                    /\ Shown(db'[q], n) = Shown(db[q], n)
                    /\ Ids(graph'[q]) = Ids(graph[q])

(* The user of r removes a node that r shows, and the others are told.      *)
LEMMA RemovalKeeps ==
    ASSUME SessionTypes, NEW n \in NodeId, NodeOK(n), stage'[n] = "removed",
           NEW r \in Replica \ crashed, n \in Ids(graph[r]), crashed \subseteq crashed',
           NEW removal, removal.document = open[r], removal.timestamp = clock + 1,
           inbox'[r] = inbox[r], open' = open,
           Retracts(n, r, open[r], clock + 1), Tells(n, r, {removal})
    PROVE  NodeOK(n)'
<1>. USE DEF Retracts, Tells
<1>1. PICK y \in Shown(db[r], n) : y.document = open[r]
    BY DEF NodeOK, RemovalComes
<1>2. /\ Birth(y) \in Births(db[r], inbox[r], n) /\ Birth(y)[1] = open[r]
      /\ Creates(inbox[r], n) = {}
    BY <1>1 DEF NodeOK, KnownOK, Births, Birth
<1>3. \A q \in Replica : \A p \in Births(db[q], inbox[q], n) : p = Birth(y)
    BY <1>2 DEF NodeOK, BornOnce
<1>4. y.timestamp < clock + 1
    <2>1. y.timestamp \in 0 .. clock /\ clock \in Nat
        BY <1>1, Site, RowFields DEF Shown
    <2>. QED  BY <2>1
<1>5. Births(db'[r], inbox'[r], n) = {}
    <2>1. ASSUME NEW x \in Shown(db'[r], n)
          PROVE  FALSE
        <3>1. Birth(x) \in Births(db[r], inbox[r], n)
            BY DEF Births
        <3>2. x.document = y.document /\ x.timestamp = y.timestamp
            BY <1>3, <3>1 DEF Birth
        <3>. QED  BY <1>1, <1>4, <3>2
    <2>. QED  BY <1>2, <2>1 DEF Births
<1>6. \A q \in Replica : q # r => Births(db'[q], inbox'[q], n) = Births(db[q], inbox[q], n)
    BY DEF Births
<1>7. KnownOK(n)'
    <2>1. Shown(db'[r], n) = {}
        BY <1>5 DEF Births
    <2>. QED  BY <2>1 DEF NodeOK, KnownOK
<1>8. BornOnce(n)'
    <2>. SUFFICES ASSUME NEW q \in Replica, NEW s \in Replica,
                         NEW p \in Births(db'[q], inbox'[q], n)
                  PROVE  /\ \A o \in Births(db'[s], inbox'[s], n) : p = o
                         /\ \A m \in Removals(inbox'[s], n) : p[2] < m.timestamp
        BY DEF BornOnce
    <2>1. q # r /\ p \in Births(db[q], inbox[q], n) /\ p = Birth(y)
        BY <1>3, <1>5, <1>6
    <2>2. \A o \in Births(db'[s], inbox'[s], n) : o = Birth(y)
        BY <1>3, <1>5, <1>6
    <2>3. \A m \in Removals(inbox'[s], n) : m \in Removals(inbox[s], n) \/ m = removal
        OBVIOUS
    <2>4. Birth(y)[2] < removal.timestamp
        BY <1>4 DEF Birth
    <2>. QED  BY <2>1, <2>2, <2>3, <2>4 DEF NodeOK, BornOnce
<1>9. RemovalComes(n)'
    <2>. SUFFICES ASSUME NEW q \in Replica \ crashed'
                  PROVE  /\ \A p \in Births(db'[q], inbox'[q], n) :
                               \E o \in Removals(inbox'[q], n) : o.document = p[1]
                         /\ n \in Ids(graph'[q]) => \E x \in Shown(db'[q], n) : x.document = open'[q]
        BY DEF RemovalComes
    <2>1. CASE q = r
        BY <1>5, <2>1
    <2>2. CASE q # r
        <3>1. \A p \in Births(db'[q], inbox'[q], n) : p[1] = removal.document
            BY <1>2, <1>3, <1>6, <2>2
        <3>2. removal \in Removals(inbox'[q], n)
            BY <2>2
        <3>3. q \in Replica \ crashed
            OBVIOUS
        <3>. QED  BY <2>2, <3>1, <3>2, <3>3 DEF NodeOK, RemovalComes
    <2>. QED  BY <2>1, <2>2
<1>. QED  BY <1>7, <1>8, <1>9 DEF NodeOK

(* A removal arrives at r, which removes the node and, if a document is     *)
(* open, tells the others once more.                                        *)
LEMMA RemovalArrivesKeeps ==
    ASSUME SessionTypes, NEW n \in NodeId, NodeOK(n), stage'[n] = stage[n],
           NEW r \in Replica \ crashed, NEW m \in Removals(inbox[r], n),
           crashed \subseteq crashed',
           NEW echoes, \A o \in echoes : o.timestamp = clock + 1,
           Creates(inbox'[r], n) = {},
           \A o \in Removals(inbox[r], n) : o # m => o \in Removals(inbox'[r], n),
           Removals(inbox'[r], n) \subseteq Removals(inbox[r], n), open' = open,
           Retracts(n, r, m.document, m.timestamp), Tells(n, r, echoes)
    PROVE  NodeOK(n)'
<1>. USE DEF Retracts, Tells
<1>1. stage[n] = "removed"
    BY DEF NodeOK, KnownOK
<1>2. \A q \in Replica : Births(db'[q], inbox'[q], n) \subseteq Births(db[q], inbox[q], n)
    <2>1. Births(db'[r], inbox'[r], n) \subseteq Births(db[r], inbox[r], n)
        BY DEF Births
    <2>2. \A q \in Replica : q # r => Births(db'[q], inbox'[q], n) = Births(db[q], inbox[q], n)
        BY DEF Births
    <2>. QED  BY <2>1, <2>2
<1>3. KnownOK(n)'
    <2>1. \A q \in Replica : Shown(db'[q], n) # {} => Creates(inbox'[q], n) = {}
        BY DEF NodeOK, KnownOK
    <2>2. \A q \in Replica : Shown(db'[q], n) \subseteq Shown(db[q], n)
        OBVIOUS
    <2>3. \A q \in Replica : \A x \in Shown(db'[q], n) : x.type = Kind[n]
        BY <2>2 DEF NodeOK, KnownOK
    <2>. QED  BY <1>1, <2>1, <2>3 DEF KnownOK
<1>4. \A q \in Replica : \A p \in Births(db[q], inbox[q], n) : p[2] < clock + 1
    <2>. SUFFICES ASSUME NEW q \in Replica, NEW x \in Shown(db[q], n) \cup Creates(inbox[q], n)
                  PROVE  x.timestamp < clock + 1
        BY DEF Births, Birth
    <2>1. clock \in Nat /\ db[q] \in Tables(clock) /\ inbox[q] \in Inbox(clock)
        BY Site
    <2>2. CASE x \in Shown(db[q], n)
        BY <2>1, <2>2, RowFields DEF Shown
    <2>3. CASE x \in Creates(inbox[q], n)
        <3>1. x \in Message(clock)
            BY <2>1, <2>3 DEF Creates, ToSet, Inbox
        <3>. QED  BY <2>1, <3>1, MessageFields
    <2>. QED  BY <2>2, <2>3
<1>5. BornOnce(n)'
    <2>. SUFFICES ASSUME NEW q \in Replica, NEW s \in Replica,
                         NEW p \in Births(db'[q], inbox'[q], n)
                  PROVE  /\ \A o \in Births(db'[s], inbox'[s], n) : p = o
                         /\ \A o \in Removals(inbox'[s], n) : p[2] < o.timestamp
        BY DEF BornOnce
    <2>1. p \in Births(db[q], inbox[q], n)
        BY <1>2
    <2>2. \A o \in Births(db'[s], inbox'[s], n) : p = o
        BY <1>2, <2>1 DEF NodeOK, BornOnce
    <2>3. \A o \in Removals(inbox'[s], n) : o \in Removals(inbox[s], n) \/ o \in echoes
        OBVIOUS
    <2>4. p[2] < clock + 1
        BY <1>4, <2>1
    <2>. QED  BY <2>1, <2>2, <2>3, <2>4 DEF NodeOK, BornOnce
<1>6. \A p \in Births(db'[r], inbox'[r], n) : p[1] # m.document
    <2>. SUFFICES ASSUME NEW x \in Shown(db'[r], n)
                  PROVE  x.document # m.document
        BY DEF Births, Birth
    <2>1. Birth(x) \in Births(db[r], inbox[r], n)
        BY DEF Births
    <2>2. x.timestamp < m.timestamp
        BY <2>1 DEF NodeOK, BornOnce, Birth
    <2>. QED  BY <2>2
<1>7. RemovalComes(n)'
    <2>. SUFFICES ASSUME NEW q \in Replica \ crashed'
                  PROVE  /\ \A p \in Births(db'[q], inbox'[q], n) :
                               \E o \in Removals(inbox'[q], n) : o.document = p[1]
                         /\ n \in Ids(graph'[q]) => \E x \in Shown(db'[q], n) : x.document = open'[q]
        BY DEF RemovalComes
    <2>0. q \in Replica \ crashed
        OBVIOUS
    <2>1. \A p \in Births(db'[q], inbox'[q], n) : \E o \in Removals(inbox[q], n) : o.document = p[1]
        BY <1>1, <1>2, <2>0 DEF NodeOK, RemovalComes
    <2>2. CASE q = r
        <3>1. ASSUME NEW p \in Births(db'[q], inbox'[q], n)
              PROVE  \E o \in Removals(inbox'[q], n) : o.document = p[1]
            <4>1. PICK o \in Removals(inbox[q], n) : o.document = p[1]
                BY <2>1
            <4>2. o # m
                BY <1>6, <2>2, <4>1
            <4>. QED  BY <2>2, <4>1, <4>2
        <3>. QED  BY <2>2, <3>1
    <2>3. CASE q # r
        BY <2>0, <2>1, <2>3 DEF NodeOK, RemovalComes
    <2>. QED  BY <2>2, <2>3
<1>. QED  BY <1>3, <1>5, <1>7 DEF NodeOK

-----------------------------------------------------------------------------
(* What calls write to the tables, as far as a session goes *)

(* All transactions of a call after its first keep to S.                    *)
LEMMA CommitFrom ==
    ASSUME NEW tables, NEW txs, Len(txs) \in Nat, Len(txs) >= 1, DOMAIN txs = 1 .. Len(txs),
           NEW S, ApplyTx(tables, txs[1]) \in S,
           \A s \in S, i \in 1 .. Len(txs) : i # 1 => ApplyTx(s, txs[i]) \in S
    PROVE  Commit(tables, SubSeq(txs, 1, Len(txs))) \in S
<1>. DEFINE n == Len(txs)  some == SubSeq(txs, 1, n)
<1>1. n \in Nat /\ n >= 1 /\ DOMAIN some = 1 .. n /\ \A i \in 1 .. n : some[i] = txs[i]
    OBVIOUS
<1>. HIDE DEF some
<1>2. PICK state : /\ state[0] = tables
                   /\ \A i \in 1 .. n : state[i] = ApplyTx(state[i - 1], some[i])
                   /\ Commit(tables, some) = state[n]
    <2>1. CommitsInSteps(tables, some, n)
        BY <1>1, CommitIs
    <2>. QED  BY <2>1 DEF CommitsInSteps
<1>. DEFINE P == {i \in Nat : i + 1 <= n => state[i + 1] \in S}
<1>3. 0 \in P
    <2>1. state[1] = ApplyTx(tables, txs[1])
        <3>1. 1 \in 1 .. n /\ 1 - 1 = 0
            BY <1>1
        <3>. QED  BY <1>1, <1>2, <3>1
    <2>. QED  BY <2>1
<1>4. ASSUME NEW i \in Nat, i \in P
      PROVE  i + 1 \in P
    <2>. SUFFICES ASSUME (i + 1) + 1 <= n
                  PROVE  state[(i + 1) + 1] \in S
        OBVIOUS
    <2>1. state[i + 1] \in S
        BY <1>1, <1>4
    <2>2. /\ (i + 1) + 1 \in 1 .. n /\ (i + 1) + 1 # 1 /\ ((i + 1) + 1) - 1 = i + 1
        BY <1>1
    <2>. QED  BY <1>1, <1>2, <2>1, <2>2
<1>5. n - 1 \in P
    <2>1. n - 1 \in Nat
        BY <1>1
    <2>. HIDE DEF P, n
    <2>. QED  BY <1>3, <1>4, <2>1, Induction
<1>6. (n - 1) + 1 = n
    BY <1>1
<1>. QED  BY <1>1, <1>2, <1>5, <1>6 DEF some

(* The transactions of a removal.                                           *)
Tombstone(n, d, t) == NodeTx(n, "Sphere", d, t, TRUE)

Retraction(a, n, t) == ValueTx(a, n.id, n.attr[a], t, TRUE)

RemovalTx(n, now) ==
    {Tombstone(n, d, t) : d \in Document, t \in 0 .. now}
    \cup {Retraction(a, n, t) : a \in Names(n.id), t \in 0 .. now}

LEMMA RemoveTxsAre ==
    ASSUME NEW now \in Nat, NEW n \in Nodes, NEW d \in Document, NEW t \in 0 .. now,
           NEW txs, txs = RemoveTxs(n, d, t)
    PROVE  /\ txs \in Seq(RemovalTx(n, now)) /\ Len(txs) >= 1
           /\ txs[1] = Tombstone(n, d, t)
<1>. DEFINE X == RemovalTx(n, now)  first == Tombstone(n, d, t)
            names == Attributes(n.kind)  rest == AttributeTxs(n, t, TRUE)
<1>1. names \in Seq(Attribute) /\ Len(names) \in Nat /\ Names(n.id) = ToSet(names)
    BY NodeFields, AttributesAre DEF Names
<1>2. first \in X
    BY DEF RemovalTx
<1>3. rest = [i \in 1 .. Len(names) |-> Retraction(names[i], n, t)]
    BY <1>1 DEF AttributeTxs, Retraction, ValueTx
<1>4. \A i \in 1 .. Len(names) : names[i] \in Names(n.id)
    BY <1>1 DEF ToSet
<1>5. \A i \in 1 .. Len(names) : Retraction(names[i], n, t) \in X
    BY <1>4 DEF RemovalTx
<1>6. rest \in Seq(X)
    <2>. DEFINE m == Len(names)
    <2>1. rest \in [1 .. m -> X] /\ m \in Nat
        BY <1>1, <1>3, <1>5
    <2>. HIDE DEF rest, m, X
    <2>. QED  BY <2>1
<1>7. txs = <<first>> \o rest
    BY DEF RemoveTxs, Tombstone
<1>. HIDE DEF X, rest, first
<1>8. <<first>> \in Seq(X) /\ Len(<<first>>) = 1 /\ <<first>>[1] = first
    BY <1>2
<1>. QED  BY <1>6, <1>7, <1>8 DEF X, first

(* What the removal of a node leaves of the tables: nothing that was there  *)
(* of its document and older, and all of the other nodes.                   *)
Removed(tables, after, n, d, t) ==
    /\ after.edge = tables.edge
    /\ Untouched(tables, after, n.id)
    /\ \A m \in NodeId \ {n.id} : Shown(after, m) = Shown(tables, m)
    /\ \A x \in Shown(after, n.id) :
          x \in Shown(tables, n.id) /\ ~(x.document = d /\ x.timestamp < t)
    /\ \A a \in Names(n.id) : \A x \in Written(after, a, n.id) :
          x \in Written(tables, a, n.id) \/ x.val = n.attr[a]

LEMMA ApplyTombstone ==
    ASSUME NEW now, NEW tables \in Tables(now), NEW t \in 0 .. now, NEW n \in Nodes,
           NEW d \in Document, NEW after, after = ApplyTx(tables, Tombstone(n, d, t))
    PROVE  /\ after \in Tables(now) /\ after.edge = tables.edge /\ after.store = tables.store
           /\ \A m \in NodeId \ {n.id} : Shown(after, m) = Shown(tables, m)
           /\ \A x \in Shown(after, n.id) :
                 x \in Shown(tables, n.id) /\ ~(x.document = d /\ x.timestamp < t)
<1>1. PICK dead \in BOOLEAN : dead <=> (0 = 0)
    OBVIOUS
<1>2. PICK kind \in {"Sphere", "SetOperation"} : kind = "Sphere"
    OBVIOUS
<1>3. after = ApplyTx(tables, NodeTx(n, kind, d, t, dead))
    <2>1. dead = TRUE
        BY <1>1
    <2>. QED  BY <1>2, <2>1 DEF Tombstone
<1>. DEFINE row == [entity |-> n.id, type |-> kind, document |-> d,
                    timestamp |-> t, deleted |-> dead]
<1>4. /\ after \in Tables(now) /\ after.edge = tables.edge /\ after.store = tables.store
      /\ NodeRows(after) =
                 {r \in NodeRows(tables) :
                    ~(r.entity = n.id /\ r.document = d /\ r.timestamp < t) /\ ~r.deleted}
                 \cup {row}
    BY <1>3, ApplyNode
<1>5. row.deleted
    BY <1>1
<1>. HIDE DEF row
<1>. QED  BY <1>4, <1>5 DEF Shown

LEMMA TombstoneIs ==
    ASSUME NEW now, NEW s \in Tables(now), NEW u \in 0 .. now, NEW n \in Nodes,
           NEW e \in Document, NEW next, next = ApplyTx(s, Tombstone(n, e, u))
    PROVE  /\ next \in Tables(now)
           /\ Removed(s, next, n, e, u)
           /\ \A a \in Attribute : Written(next, a, n.id) = Written(s, a, n.id)
<1>1. /\ next \in Tables(now) /\ next.edge = s.edge /\ next.store = s.store
      /\ \A m \in NodeId \ {n.id} : Shown(next, m) = Shown(s, m)
      /\ \A x \in Shown(next, n.id) :
            x \in Shown(s, n.id) /\ ~(x.document = e /\ x.timestamp < u)
    BY ApplyTombstone
<1>2. /\ Untouched(s, next, n.id)
      /\ \A a \in Attribute : Written(next, a, n.id) = Written(s, a, n.id)
    BY <1>1, SameStoreUntouched
<1>3. Names(n.id) \subseteq Attribute
    BY NodeFields, AttributesAre DEF Names
<1>. QED  BY <1>1, <1>2, <1>3 DEF Removed

LEMMA CommitRemoval ==
    ASSUME NEW now \in Nat, NEW tables \in Tables(now), NEW n \in Nodes, NEW d \in Document,
           NEW t \in 0 .. now, NEW txs \in Seq(RemovalTx(n, now)), Len(txs) >= 1,
           txs[1] = Tombstone(n, d, t),
           NEW after, after = Commit(tables, SubSeq(txs, 1, Len(txs)))
    PROVE  after \in Tables(now) /\ Removed(tables, after, n, d, t)
<1>. DEFINE S == {s \in Tables(now) : Removed(tables, s, n, d, t)}
<1>2. ApplyTx(tables, txs[1]) \in S
    BY TombstoneIs
<1>3. ASSUME NEW s \in S, NEW i \in 1 .. Len(txs), i # 1
      PROVE  ApplyTx(s, txs[i]) \in S
    <2>. DEFINE next == ApplyTx(s, txs[i])
    <2>. SUFFICES next \in S
        OBVIOUS
    <2>1. txs[i] \in RemovalTx(n, now) /\ s \in Tables(now) /\ Removed(tables, s, n, d, t)
        OBVIOUS
    <2>2. CASE \E e \in Document, u \in 0 .. now : txs[i] = Tombstone(n, e, u)
        <3>1. PICK e \in Document, u \in 0 .. now : txs[i] = Tombstone(n, e, u)
            BY <2>2
        <3>2. /\ next \in Tables(now) /\ Removed(s, next, n, e, u)
              /\ \A a \in Attribute : Written(next, a, n.id) = Written(s, a, n.id)
            BY <2>1, <3>1, TombstoneIs
        <3>3. Untouched(tables, next, n.id)
            BY <2>1, <3>2, UntouchedChains DEF Removed
        <3>4. Names(n.id) \subseteq Attribute
            BY NodeFields, AttributesAre DEF Names
        <3>. HIDE DEF next
        <3>. QED  BY <2>1, <3>2, <3>3, <3>4 DEF Removed
    <2>3. CASE \E a \in Names(n.id), u \in 0 .. now :
                  txs[i] = Retraction(a, n, u)
        <3>1. PICK a \in Names(n.id), u \in 0 .. now :
                 txs[i] = Retraction(a, n, u)
            BY <2>3
        <3>2. /\ n.id \in NodeId /\ n.attr[a] \in Value /\ a \in Attribute
              /\ Names(n.id) \subseteq Attribute
            BY NodeFields, AttributesAre DEF Names
        <3>3. /\ next \in Tables(now)
              /\ next.document = s.document /\ next.edge = s.edge
              /\ Untouched(s, next, n.id)
              /\ \A b \in Attribute \ {a} : Written(next, b, n.id) = Written(s, b, n.id)
              /\ \A x \in Written(next, a, n.id) : x \in Written(s, a, n.id) \/ x.val = n.attr[a]
            <4>. DEFINE v == n.attr[a]  e == n.id  dead == TRUE
            <4>1. v \in Value /\ e \in NodeId /\ dead \in BOOLEAN /\ next = ApplyTx(s, ValueTx(a, e, v, u, dead))
                BY <3>1, <3>2 DEF Retraction
            <4>. HIDE DEF v, e, dead, next
            <4>2. /\ next \in Tables(now)
                  /\ next.document = s.document /\ next.edge = s.edge
                  /\ Untouched(s, next, e)
                  /\ \A b \in Attribute \ {a} : Written(next, b, e) = Written(s, b, e)
                  /\ \A x \in Written(next, a, e) : x \in Written(s, a, e) \/ x.val = v
                BY <2>1, <3>2, <4>1, ApplyValue
            <4>. QED  BY <4>2 DEF v, e
        <3>4. Untouched(tables, next, n.id)
            BY <2>1, <3>3, UntouchedChains DEF Removed
        <3>5. \A m : Shown(next, m) = Shown(s, m)
            BY <3>3 DEF Shown, NodeRows
        <3>6. ASSUME NEW b \in Names(n.id), NEW x \in Written(next, b, n.id)
              PROVE  x \in Written(tables, b, n.id) \/ x.val = n.attr[b]
            BY <2>1, <3>2, <3>3 DEF Removed
        <3>. HIDE DEF next
        <3>. QED  BY <2>1, <3>3, <3>4, <3>5, <3>6 DEF Removed
    <2>. QED  BY <2>1, <2>2, <2>3 DEF RemovalTx
<1>4. Len(txs) \in Nat /\ DOMAIN txs = 1 .. Len(txs)
    OBVIOUS
<1>5. after \in S
    <2>. HIDE DEF S
    <2>. QED  BY <1>2, <1>3, <1>4, CommitFrom
<1>. QED  BY <1>5

(* Writes of attributes leave the nodes and the edges as they are.          *)
Upsert(a, e, v, t) == ValueTx(a, e, v, t, FALSE)

ValueTxs(now) ==
    {Upsert(a, e, v, t) : a \in Attribute, e \in NodeId, v \in Value, t \in 0 .. now}

LEMMA CommitValues ==
    ASSUME NEW now, NEW tables \in Tables(now), NEW txs \in Seq(ValueTxs(now)), Len(txs) >= 1,
           NEW after, after = Commit(tables, SubSeq(txs, 1, Len(txs)))
    PROVE  after \in Tables(now) /\ after.document = tables.document /\ after.edge = tables.edge
<1>. DEFINE S == {s \in Tables(now) : s.document = tables.document /\ s.edge = tables.edge}
<1>1. ASSUME NEW s \in S, NEW i \in 1 .. Len(txs)
      PROVE  ApplyTx(s, txs[i]) \in S
    <2>1. txs[i] \in ValueTxs(now) /\ s \in Tables(now)
        OBVIOUS
    <2>2. PICK a \in Attribute, e \in NodeId, v \in Value, t \in 0 .. now :
             txs[i] = Upsert(a, e, v, t)
        BY <2>1 DEF ValueTxs
    <2>. DEFINE alive == FALSE  next == ApplyTx(s, txs[i])
    <2>3. alive \in BOOLEAN /\ next = ApplyTx(s, ValueTx(a, e, v, t, alive))
        BY <2>2 DEF Upsert
    <2>4. next \in Tables(now) /\ next.document = s.document /\ next.edge = s.edge
        <3>. HIDE DEF alive, next
        <3>. QED  BY <2>1, <2>3, ApplyValue
    <2>. QED  BY <2>4
<1>2. tables \in S
    OBVIOUS
<1>3. Len(txs) \in Nat /\ DOMAIN txs = 1 .. Len(txs) /\ 1 \in 1 .. Len(txs)
    OBVIOUS
<1>4. after \in S
    <2>. HIDE DEF S
    <2>. QED  BY <1>1, <1>2, <1>3, CommitFrom
<1>. QED  BY <1>4

-----------------------------------------------------------------------------
(* The graph that open() finds *)

(* A finite set of numbers has a bound.                                     *)
LEMMA FiniteIsBounded ==
    ASSUME NEW S, IsFiniteSet(S), S \subseteq Nat
    PROVE  \E b \in Nat : \A v \in S : v <= b
<1>1. PICK seq \in Seq(S) : \A v \in S : \E i \in 1 .. Len(seq) : seq[i] = v
    BY DEF IsFiniteSet
<1>2. Len(seq) \in Nat /\ \A i \in 1 .. Len(seq) : seq[i] \in Nat
    <2>1. Len(seq) \in Nat /\ \A i \in 1 .. Len(seq) : seq[i] \in S
        OBVIOUS
    <2>. QED  BY <2>1
<1>. DEFINE P == {m \in Nat : m <= Len(seq) => \E b \in Nat : \A i \in 1 .. m : seq[i] <= b}
<1>3. 0 \in P
    <2>1. \A i \in 1 .. 0 : seq[i] <= 0
        OBVIOUS
    <2>. QED  BY <2>1
<1>4. ASSUME NEW m \in Nat, m \in P
      PROVE  m + 1 \in P
    <2>. SUFFICES ASSUME m + 1 <= Len(seq)
                  PROVE  \E b \in Nat : \A i \in 1 .. m + 1 : seq[i] <= b
        OBVIOUS
    <2>1. PICK b \in Nat : \A i \in 1 .. m : seq[i] <= b
        BY <1>2, <1>4
    <2>2. seq[m + 1] \in Nat /\ \A i \in 1 .. m : seq[i] \in Nat
        BY <1>2
    <2>3. \A i \in 1 .. m + 1 : i \in 1 .. m \/ i = m + 1
        OBVIOUS
    <2>4. \A i \in 1 .. m + 1 : seq[i] <= b + seq[m + 1]
        BY <2>1, <2>2, <2>3
    <2>5. b + seq[m + 1] \in Nat
        BY <2>2
    <2>. QED  BY <2>4, <2>5
<1>5. Len(seq) \in P
    <2>. HIDE DEF P
    <2>. QED  BY <1>2, <1>3, <1>4, Induction
<1>6. PICK b \in Nat : \A i \in 1 .. Len(seq) : seq[i] <= b
    BY <1>2, <1>5
<1>. QED  BY <1>1, <1>6

LEMMA GreatestExists ==
    ASSUME NEW S, S # {}, S \subseteq Nat, NEW b \in Nat, \A v \in S : v <= b
    PROVE  \E u \in S : \A w \in S : w <= u
<1>. DEFINE reach == {m \in Nat : \A v \in S : v + m >= b => \E u \in S : \A w \in S : w <= u}
<1>1. 0 \in reach
    <2>1. ASSUME NEW v \in S, v + 0 >= b
          PROVE  \A w \in S : w <= v
        BY <2>1
    <2>. QED  BY <2>1
<1>2. ASSUME NEW m \in Nat, m \in reach
      PROVE  m + 1 \in reach
    <2>. SUFFICES ASSUME NEW v \in S, v + (m + 1) >= b
                  PROVE  \E u \in S : \A w \in S : w <= u
        OBVIOUS
    <2>1. CASE \A w \in S : w <= v
        BY <2>1
    <2>2. CASE \E w \in S : ~(w <= v)
        <3>1. PICK w \in S : ~(w <= v)
            BY <2>2
        <3>2. w + m >= b
            BY <3>1
        <3>. QED  BY <1>2, <3>2
    <2>. QED  BY <2>1, <2>2
<1>3. b \in reach
    <2>. HIDE DEF reach
    <2>. QED  BY <1>1, <1>2, Induction
<1>4. \A v \in S : v + b >= b
    OBVIOUS
<1>. QED  BY <1>3, <1>4

LEMMA MaxExists ==
    ASSUME NEW S, S # {}, S \subseteq Nat, NEW b \in Nat, \A v \in S : v <= b
    PROVE  Max(S) \in S
<1>1. PICK u \in S : \A w \in S : w <= u
    BY GreatestExists
<1>2. S \subseteq Int
    OBVIOUS
<1>3. Max(S) = u
    BY <1>1, <1>2, MaxIs
<1>. QED  BY <1>1, <1>3

(* What open() finds are nodes that the tables show in the document.        *)
LEMMA OpenedKnown ==
    ASSUME NEW now \in Nat, NEW tables \in Tables(now), IsFiniteSet(Value),
           \A n \in NodeId : \A x \in Shown(tables, n) : x.type = Kind[n],
           NEW d, NEW g, g = Opened(tables, d)
    PROVE  /\ g \in Graphs
           /\ \A n \in Ids(g) : \E x \in Shown(tables, n) : x.document = d
<1>1. ASSUME NEW row \in ShownIn(tables, d)
      PROVE  /\ row \in NodeRows(tables) /\ row.document = d /\ row.entity \in NodeId
             /\ row \in Shown(tables, row.entity) /\ row.type = Kind[row.entity]
             /\ row.type \in {"Sphere", "SetOperation"} /\ HasNode(tables, row)
    <2>1. row \in NodeRows(tables) /\ ~row.deleted /\ row.document = d /\ HasNode(tables, row)
        BY DEF ShownIn
    <2>2. row.entity \in NodeId /\ row.type \in {"Sphere", "SetOperation"}
        BY <2>1, RowFields
    <2>3. row \in Shown(tables, row.entity)
        BY <2>1 DEF Shown
    <2>. QED  BY <2>1, <2>2, <2>3
<1>2. PICK b \in Nat : \A v \in Value : v <= b
    BY FiniteIsBounded, ViewModelAssumption
<1>3. ASSUME NEW row \in ShownIn(tables, d)
      PROVE  NodeOf(tables, row) \in Nodes
    <2>. DEFINE n == row.entity
    <2>1. ToSet(Attributes(row.type)) = Names(n) /\ Names(n) \subseteq Attribute
        BY <1>1, AttributesAre DEF Names
    <2>2. ASSUME NEW a \in Names(n)
          PROVE  AttributeOf(tables, n, a) \in Value
        <3>. DEFINE vals == {x.val : x \in Latest(tables.store[a], n)}
        <3>1. Latest(tables.store[a], n) # {}
            BY <1>1, <2>1 DEF HasNode
        <3>2. Latest(tables.store[a], n) \subseteq Written(tables, a, n)
            BY DEF Latest, Newest, Live, Written
        <3>3. vals \subseteq Value /\ vals # {}
            BY <2>1, <3>1, <3>2, RowFields
        <3>4. vals \subseteq Nat /\ \A v \in vals : v <= b
            BY <1>2, <3>3, ViewModelAssumption
        <3>5. Max(vals) \in vals
            <4>. HIDE DEF vals
            <4>. QED  BY <3>3, <3>4, MaxExists
        <3>. QED  BY <3>3, <3>5 DEF AttributeOf
    <2>3. NodeOf(tables, row) \in [id: {n}, kind: {Kind[n]}, attr: [ToSet(Attributes(Kind[n])) -> Value]]
        BY <1>1, <2>1, <2>2 DEF NodeOf
    <2>. QED  BY <1>1, <2>3 DEF Nodes
<1>4. /\ ToSet(g.nodes) = {NodeOf(tables, row) : row \in ShownIn(tables, d)}
      /\ \E m \in Nat : DOMAIN g.nodes = 1 .. m
      /\ g.edges = {p \in {row.entity : row \in ShownIn(tables, d)} \X {row.entity : row \in ShownIn(tables, d)} :
                       p[2] \in edges(tables.edge, p[1])}
    BY OpenedNodes
<1>5. \A row : NodeOf(tables, row).id = row.entity
    BY DEF NodeOf
<1>6. Ids(g) = {row.entity : row \in ShownIn(tables, d)}
    <2>1. Ids(g) = {x.id : x \in {NodeOf(tables, row) : row \in ShownIn(tables, d)}}
        BY <1>4, IdsAre
    <2>. QED  BY <1>5, <2>1
<1>7. g \in Graphs
    <2>1. ToSet(g.nodes) \subseteq Nodes
        BY <1>3, <1>4
    <2>2. g.nodes \in Seq(Nodes)
        <3>1. PICK m \in Nat : DOMAIN g.nodes = 1 .. m
            BY <1>4
        <3>2. \A i \in 1 .. m : g.nodes[i] \in Nodes
            BY <2>1, <3>1 DEF ToSet
        <3>3. g.nodes = [i \in 1 .. m |-> g.nodes[i]]
            BY <3>1 DEF Opened
        <3>. QED  BY <3>1, <3>2, <3>3
    <2>3. Ids(g) \subseteq NodeId
        BY <1>1, <1>6
    <2>4. g.edges \subseteq NodeId \X NodeId
        BY <1>4, <1>6, <2>3
    <2>5. g = [nodes |-> g.nodes, edges |-> g.edges]
        BY DEF Opened
    <2>. QED  BY <2>2, <2>4, <2>5 DEF Graphs
<1>. QED  BY <1>1, <1>6, <1>7

-----------------------------------------------------------------------------
(* Messages that a call sends *)

LEMMA SentOne ==
    ASSUME NEW now, NEW m \in Message(now)
    PROVE  /\ <<m>> \in Inbox(now) /\ ToSet(<<m>>) = {m}
           /\ \A n : /\ InOrder(<<m>>, n)
                     /\ Creates(<<m>>, n) = {x \in {m} : CreateOf(x, n)}
                     /\ Removals(<<m>>, n) = {x \in {m} : RemovalOf(x, n)}
<1>1. <<m>> \in Inbox(now) /\ DOMAIN <<m>> = {1} /\ <<m>>[1] = m
    BY DEF Inbox
<1>2. ToSet(<<m>>) = {m}
    BY <1>1 DEF ToSet
<1>3. \A n : InOrder(<<m>>, n)
    <2>1. \A i, j \in {1} : ~(i < j)
        OBVIOUS
    <2>. QED  BY <1>1, <2>1 DEF InOrder
<1>. QED  BY <1>1, <1>2, <1>3 DEF Creates, Removals

(* As much is heard of a node in w as in s, or the removal m too.           *)
Same(w, s, n) ==
    /\ InOrder(w, n)
    /\ Creates(w, n) = Creates(s, n) /\ Removals(w, n) = Removals(s, n)

Told(w, s, m, n) ==
    /\ InOrder(w, n)
    /\ Creates(w, n) = Creates(s, n) /\ Removals(w, n) = Removals(s, n) \cup {m}

(* Messages that neither create nor remove a node change nothing for it.    *)
LEMMA PostSilent ==
    ASSUME NEW now, NEW boxes \in [Replica -> Inbox(now)],
           NEW sent \in Inbox(now), NEW r, NEW n,
           Creates(sent, n) = {}, Removals(sent, n) = {},
           \A q \in Replica : InOrder(boxes[q], n)
    PROVE  \A q \in Replica : Same(Post(boxes, r, sent)[q], boxes[q], n)
<1>. USE DEF Same
<1>1. InOrder(sent, n)
    <2>1. \A j \in DOMAIN sent : ~CreateOf(sent[j], n)
        BY DEF Creates, ToSet
    <2>. QED  BY <2>1 DEF InOrder
<1>2. ASSUME NEW q \in Replica
      PROVE  Same(Post(boxes, r, sent)[q], boxes[q], n)
    <2>1. CASE q = r
        BY <2>1, PostIs
    <2>2. CASE q # r
        <3>. DEFINE s == boxes[q]
        <3>1. Post(boxes, r, sent)[q] = Joined(s, sent) /\ s \in Inbox(now) /\ InOrder(s, n)
            BY <2>2, PostIs
        <3>. HIDE DEF s
        <3>2. Fits(s, sent, n)
            BY <1>1, <3>1 DEF Fits
        <3>3. Follows(s, sent, n)
            BY <1>1, <3>1, <3>2, PostedKeeps
        <3>. QED  BY <3>1, <3>3 DEF s, Follows
    <2>. QED  BY <2>1, <2>2
<1>. QED  BY <1>2

Unheard(s, n) == InOrder(s, n) /\ Creates(s, n) = {} /\ Removals(s, n) = {}

(* The first that is heard of a node is posted.                             *)
LEMMA PostCreation ==
    ASSUME NEW now, NEW boxes \in [Replica -> Inbox(now)],
           NEW m \in Message(now), NEW r, NEW n, CreateOf(m, n),
           \A q \in Replica : Unheard(boxes[q], n)
    PROVE  \A q \in Replica :
              /\ InOrder(Post(boxes, r, <<m>>)[q], n)
              /\ Creates(Post(boxes, r, <<m>>)[q], n) = IF q = r THEN {} ELSE {m}
              /\ Removals(Post(boxes, r, <<m>>)[q], n) = {}
<1>. DEFINE sent == <<m>>
<1>1. /\ sent \in Inbox(now) /\ InOrder(sent, n)
      /\ Creates(sent, n) = {m} /\ Removals(sent, n) = {}
    BY SentOne DEF CreateOf, RemovalOf
<1>. HIDE DEF sent
<1>2. ASSUME NEW q \in Replica
      PROVE  /\ InOrder(Post(boxes, r, sent)[q], n)
             /\ Creates(Post(boxes, r, sent)[q], n) = IF q = r THEN {} ELSE {m}
             /\ Removals(Post(boxes, r, sent)[q], n) = {}
    <2>1. CASE q = r
        BY <1>1, <2>1, PostIs DEF Unheard
    <2>2. CASE q # r
        <3>. DEFINE s == boxes[q]
        <3>1. /\ Post(boxes, r, sent)[q] = Joined(s, sent) /\ s \in Inbox(now)
              /\ InOrder(s, n) /\ Creates(s, n) = {} /\ Removals(s, n) = {}
            BY <1>1, <2>2, PostIs DEF Unheard
        <3>. HIDE DEF s
        <3>2. Fits(s, sent, n)
            BY <1>1, <3>1 DEF Fits
        <3>3. Follows(s, sent, n)
            BY <1>1, <3>1, <3>2, PostedKeeps
        <3>. QED  BY <1>1, <2>2, <3>1, <3>3 DEF Follows
    <2>. QED  BY <2>1, <2>2
<1>. QED  BY <1>2 DEF sent

(* A removal is posted: it comes after all that was heard of the node.      *)
LEMMA PostRemoval ==
    ASSUME NEW now, NEW boxes \in [Replica -> Inbox(now)],
           NEW m \in Message(now), NEW r, NEW n, RemovalOf(m, n),
           \A q \in Replica : InOrder(boxes[q], n)
    PROVE  \A q \in Replica :
              IF q = r THEN Post(boxes, r, <<m>>)[q] = boxes[q]
              ELSE Told(Post(boxes, r, <<m>>)[q], boxes[q], m, n)
<1>. USE DEF Told
<1>. DEFINE sent == <<m>>
<1>1. /\ sent \in Inbox(now) /\ InOrder(sent, n)
      /\ Creates(sent, n) = {} /\ Removals(sent, n) = {m}
    BY SentOne DEF CreateOf, RemovalOf
<1>. HIDE DEF sent
<1>2. ASSUME NEW q \in Replica
      PROVE  IF q = r THEN Post(boxes, r, sent)[q] = boxes[q]
             ELSE Told(Post(boxes, r, sent)[q], boxes[q], m, n)
    <2>1. CASE q = r
        BY <1>1, <2>1, PostIs
    <2>2. CASE q # r
        <3>. DEFINE s == boxes[q]
        <3>1. Post(boxes, r, sent)[q] = Joined(s, sent) /\ s \in Inbox(now) /\ InOrder(s, n)
            BY <1>1, <2>2, PostIs
        <3>. HIDE DEF s
        <3>2. Fits(s, sent, n)
            BY <1>1, <3>1 DEF Fits
        <3>3. Follows(s, sent, n)
            BY <1>1, <3>1, <3>2, PostedKeeps
        <3>. QED  BY <1>1, <2>2, <3>1, <3>3 DEF s, Follows
    <2>. QED  BY <2>1, <2>2
<1>. QED  BY <1>2 DEF sent

-----------------------------------------------------------------------------
(* Steps *)

(* A call of r goes through; it is not about the node m.                    *)
LEMMA OthersUndisturbed ==
    ASSUME SessionTypes, NEW r \in Replica, NEW after, NEW h, NEW boxes, NEW safe,
           Committed(r, after, h, boxes, safe),
           NEW m \in NodeId, stage'[m] = stage[m], Shown(after, m) = Shown(db[r], m),
           safe => (m \in Ids(h) => m \in Ids(graph[r])),
           \A q \in Replica : Same(boxes[q], inbox[q], m)
    PROVE  Undisturbed(m)
<1>. USE DEF Same
<1>1. /\ db'[r] = after /\ inbox' = boxes /\ open' = open
      /\ r \notin crashed' => safe /\ graph'[r] = h
      /\ crashed \subseteq crashed'
      /\ \A q \in Replica : q # r => db'[q] = db[q] /\ graph'[q] = graph[q]
    BY CommittedIs
<1>2. \A q \in Replica : Shown(db'[q], m) = Shown(db[q], m)
    BY <1>1
<1>3. \A q \in Replica : q \notin crashed' /\ m \in Ids(graph'[q]) => m \in Ids(graph[q])
    BY <1>1
<1>. QED  BY <1>1, <1>2, <1>3 DEF Undisturbed

(* A call that is not about any node.                                       *)
LEMMA SilentKeeps ==
    ASSUME RemovalInv, NEW r \in Replica, NEW after, NEW h, NEW boxes, NEW safe,
           Committed(r, after, h, boxes, safe),
           clock' \in 0 .. MaxTime, clock' = clock \/ clock' = clock + 1,
           after \in Tables(clock'), after.document = db[r].document,
           safe => h \in Graphs /\ Ids(h) \subseteq Ids(graph[r]),
           boxes \in [Replica -> Inbox(clock')], stage' = stage,
           \A m \in NodeId, q \in Replica : Same(boxes[q], inbox[q], m)
    PROVE  RemovalInv'
<1>1. SessionTypes /\ stage' \in Life
    BY DEF RemovalInv, SessionTypes
<1>2. SessionTypes'
    BY <1>1, TypesKeep
<1>3. ASSUME NEW m \in NodeId
      PROVE  NodeOK(m)'
    <2>1. NodeOK(m)
        BY DEF RemovalInv, NodeOK
    <2>2. Shown(after, m) = Shown(db[r], m) /\ stage'[m] = stage[m]
        BY DEF Shown, NodeRows
    <2>3. Undisturbed(m)
        BY <1>1, <2>2, OthersUndisturbed
    <2>. QED  BY <2>1, <2>3, UndisturbedKeeps
<1>. QED  BY <1>2, <1>3 DEF RemovalInv, NodeOK

(* What the creation of a node leaves of the tables.                        *)
Entered(tables, after, n, d, t) ==
    /\ after.edge = tables.edge
    /\ Untouched(tables, after, n.id)
    /\ \A m \in NodeId \ {n.id} : Shown(after, m) = Shown(tables, m)
    /\ Shown(after, n.id) # {}
    /\ \A x \in Shown(after, n.id) :
          \/ x \in Shown(tables, n.id)
          \/ x.document = d /\ x.timestamp = t /\ x.type = Kind[n.id]
    /\ (\A a \in Attribute : Written(tables, a, n.id) = {}) =>
          \A a \in Names(n.id) :
             Written(after, a, n.id) =
                {[entity |-> n.id, val |-> n.attr[a], timestamp |-> t, deleted |-> FALSE]}

(* A creation whose transactions have all committed.                        *)
LEMMA CommitCreation ==
    ASSUME NEW now \in Nat, NEW tables \in Tables(now), NEW n \in Nodes, NEW d \in Document,
           NEW t \in 0 .. now, NEW txs, txs = CreateTxs(n, d, t),
           NEW after, after = Commit(tables, SubSeq(txs, 1, Len(txs)))
    PROVE  after \in Tables(now) /\ Entered(tables, after, n, d, t)
<1>. DEFINE kind == n.kind  live == FALSE  k == Len(txs)
<1>1. kind = Kind[n.id] /\ kind \in {"Sphere", "SetOperation"} /\ live \in BOOLEAN /\ t \in Nat
    BY NodeFields
<1>2. txs = NodeTxs(n, kind, d, t, live) /\ ~live
    BY DEF CreateTxs, NodeTxs
<1>. HIDE DEF kind, live, k
<1>3. k \in 0 .. Len(txs) /\ k > 0 /\ k = Len(txs)
    <2>1. Len(txs) = Len(Attributes(n.kind)) + 1
        BY <1>1, <1>2, NodeTxsAre
    <2>2. Len(Attributes(n.kind)) \in Nat
        BY NodeFields, AttributesAre
    <2>. QED  BY <2>1, <2>2 DEF k
<1>4. after = Commit(tables, SubSeq(txs, 1, k))
    BY <1>3
<1>5. /\ after \in Tables(now) /\ after.edge = tables.edge
      /\ Untouched(tables, after, n.id)
      /\ k > 0 => Placed(tables, after, n, kind, d, t, live)
      /\ ~live => FirstWritten(tables, after, n, t, k = Len(txs))
    BY <1>1, <1>2, <1>3, <1>4, CommitNodeTables
<1>. DEFINE row == [entity |-> n.id, type |-> kind, document |-> d,
                    timestamp |-> t, deleted |-> live]
<1>6. NodeRows(after) =
        {r \in NodeRows(tables) :
            ~(r.entity = n.id /\ r.document = d /\ r.timestamp < t) /\ ~r.deleted} \cup {row}
    BY <1>3, <1>5 DEF Placed
<1>7. /\ row.entity = n.id /\ row.type = kind /\ row.document = d /\ row.timestamp = t
      /\ ~row.deleted
    BY <1>2
<1>. HIDE DEF row
<1>8. /\ \A m \in NodeId \ {n.id} : Shown(after, m) = Shown(tables, m)
      /\ row \in Shown(after, n.id)
      /\ \A x \in Shown(after, n.id) : x \in Shown(tables, n.id) \/ x = row
    BY <1>6, <1>7 DEF Shown
<1>9. (\A a \in Attribute : Written(tables, a, n.id) = {}) =>
         \A a \in Names(n.id) :
            Written(after, a, n.id) =
               {[entity |-> n.id, val |-> n.attr[a], timestamp |-> t, deleted |-> FALSE]}
    BY <1>2, <1>3, <1>5 DEF FirstWritten
<1>. QED  BY <1>1, <1>5, <1>7, <1>8, <1>9 DEF Entered

(* Graph::access: the first node has the kind whose attributes are written. *)
LEMMA AccessGraph ==
    ASSUME NEW g \in Graphs, NEW id, NEW kind \in {"Sphere", "SetOperation"}, NEW attrs,
           DOMAIN attrs \subseteq ToSet(Attributes(kind)),
           \A a \in DOMAIN attrs : attrs[a] \in Value,
           AccessSafe(g, id, kind)
    PROVE  /\ access(g, id, attrs) \in Graphs
           /\ Ids(access(g, id, attrs)) = Ids(g)
           /\ access(g, id, attrs).edges = g.edges
<1>1. CASE id \notin Ids(g)
    BY <1>1 DEF access
<1>2. CASE id \in Ids(g)
    <2>. DEFINE h == access(g, id, attrs)  x == g.nodes[1]
                new == [a \in DOMAIN x.attr \cup DOMAIN attrs |->
                           IF a \in DOMAIN attrs THEN attrs[a] ELSE x.attr[a]]
                y == [x EXCEPT !.attr = new]
    <2>1. g.nodes \in Seq(Nodes) /\ g.edges \subseteq NodeId \X NodeId
        BY GraphFields
    <2>2. 1 \in DOMAIN g.nodes
        <3>1. \E i \in DOMAIN g.nodes : TRUE
            BY <1>2 DEF Ids
        <3>2. DOMAIN g.nodes = 1 .. Len(g.nodes) /\ Len(g.nodes) \in Nat
            BY <2>1
        <3>. QED  BY <3>1, <3>2
    <2>3. x \in Nodes /\ x.kind = kind
        <3>1. x \in Nodes
            BY <2>1, <2>2
        <3>. QED  BY <1>2, <3>1 DEF AccessSafe
    <2>4. /\ x.id \in NodeId /\ kind = Kind[x.id] /\ x.attr \in [Names(x.id) -> Value]
          /\ x = [id |-> x.id, kind |-> x.kind, attr |-> x.attr]
        BY <2>3, NodeFields
    <2>5. new \in [Names(x.id) -> Value]
        <3>1. DOMAIN attrs \subseteq Names(x.id)
            BY <2>4 DEF Names
        <3>. DEFINE old == x.attr  S == Names(x.id)
        <3>2. old \in [S -> Value] /\ DOMAIN attrs \subseteq S
            BY <2>4, <3>1
        <3>3. new = [a \in DOMAIN attrs \cup DOMAIN old |->
                       IF a \in DOMAIN attrs THEN attrs[a] ELSE old[a]]
            OBVIOUS
        <3>. HIDE DEF old, S, new
        <3>4. new \in [S -> Value]
            BY <3>2, <3>3
        <3>. QED  BY <3>4 DEF S
    <2>6. y = [id |-> x.id, kind |-> kind, attr |-> new]
        <3>. HIDE DEF new
        <3>. QED  BY <2>3, <2>4
    <2>7. y \in Nodes /\ y.id = x.id
        <3>1. y.id = x.id
            BY <2>6
        <3>2. x.id \in NodeId /\ kind = Kind[x.id]
            BY <2>4
        <3>3. y \in [id: {x.id}, kind: {Kind[x.id]}, attr: [ToSet(Attributes(Kind[x.id])) -> Value]]
            <4>. HIDE DEF new
            <4>. QED  BY <2>5, <2>6, <3>2 DEF Names
        <3>. HIDE DEF y
        <3>. QED  BY <3>1, <3>2, <3>3 DEF Nodes
    <2>8. h = [g EXCEPT !.nodes = [@ EXCEPT ![1] = y]]
        BY <1>2 DEF access
    <2>. HIDE DEF y, x
    <2>9. /\ h.nodes = [g.nodes EXCEPT ![1] = y] /\ h.edges = g.edges
          /\ h = [nodes |-> h.nodes, edges |-> h.edges]
        <3>. HIDE DEF h
        <3>. QED  BY <2>8 DEF Graphs
    <2>. HIDE DEF h
    <2>10. h.nodes \in Seq(Nodes)
        <3>. DEFINE s == g.nodes  k == Len(s)
        <3>1. s \in [1 .. k -> Nodes] /\ k \in Nat
            BY <2>1
        <3>2. h.nodes = [s EXCEPT ![1] = y]
            BY <2>9
        <3>. HIDE DEF s, k
        <3>3. h.nodes \in [1 .. k -> Nodes]
            BY <2>7, <3>1, <3>2
        <3>. QED  BY <3>1, <3>3
    <2>11. h \in Graphs
        BY <2>1, <2>9, <2>10 DEF Graphs
    <2>12. Ids(h) = Ids(g)
        <3>1. DOMAIN h.nodes = DOMAIN g.nodes
            BY <2>9
        <3>2. \A i \in DOMAIN g.nodes : h.nodes[i].id = g.nodes[i].id
            BY <2>7, <2>9 DEF x
        <3>. QED  BY <3>1, <3>2 DEF Ids
    <2>. QED  BY <2>9, <2>11, <2>12 DEF h
<1>. QED  BY <1>1, <1>2

-----------------------------------------------------------------------------
(* What the calls and the messages do when all transactions commit *)

LEMMA AnyCall ==
    ASSUME Faultless, SessionTypes, NEW r \in Replica, NEW txs, NEW k \in Progress(txs),
           NEW boxes, NEW g, NEW safe, Outcome(r, txs, k, boxes, g, safe)
    PROVE  /\ k = Len(txs) /\ db'[r] = Commit(db[r], SubSeq(txs, 1, Len(txs)))
           /\ Committed(r, db'[r], g, boxes, safe)
<1>. DEFINE after == Commit(db[r], SubSeq(txs, 1, Len(txs)))
<1>1. k = Len(txs) /\ Committed(r, after, g, boxes, safe)
    BY OutcomeIs
<1>. HIDE DEF after
<1>2. db'[r] = after
    BY <1>1, CommittedIs
<1>. QED  BY <1>1, <1>2 DEF after

(* A call of the user is the next tick of the clock.                        *)
LEMMA AnyTime ==
    ASSUME SessionTypes, NEW r \in Replica, clock < MaxTime
    PROVE  /\ clock + 1 \in Nat /\ clock + 1 \in 0 .. MaxTime /\ clock + 1 \in 0 .. clock + 1
           /\ db[r] \in Tables(clock + 1)
           /\ inbox \in [Replica -> Inbox(clock + 1)]
<1>1. clock \in Nat /\ MaxTime \in Nat /\ \A q \in Replica : inbox[q] \in Inbox(clock)
    BY Site
<1>2. db[r] \in Tables(clock + 1) /\ \A q \in Replica : inbox[q] \in Inbox(clock + 1)
    BY <1>1, Site, TablesLater, MessagesLater
<1>3. inbox \in [Replica -> Inbox(clock + 1)]
    BY <1>2 DEF SessionTypes
<1>. QED  BY <1>1, <1>2, <1>3

CreateEffect(r, n) ==
    LET g == create(graph[r], n)
        m == CreateDelete(n, open[r], "Assert", clock + 1)
    IN  /\ Committed(r, db'[r], g, Post(inbox, r, <<m>>), MeshSafe(g))
        /\ db'[r] \in Tables(clock + 1)
        /\ Entered(db[r], db'[r], n, open[r], clock + 1)
        /\ clock < MaxTime /\ clock' = clock + 1 /\ open[r] \in Document
        /\ stage[n.id] = "unused" /\ stage' = [stage EXCEPT ![n.id] = "created"]

LEMMA CreateDoes ==
    ASSUME Faultless, SessionTypes, NEW r \in Replica, NEW n \in Nodes, UserCreate(r, n)
    PROVE  CreateEffect(r, n)
<1>. DEFINE d == open[r]  t == clock + 1  txs == CreateTxs(n, d, t)
            g == create(graph[r], n)  m == CreateDelete(n, d, "Assert", t)
            safe == MeshSafe(g)  boxes == Post(inbox, r, <<m>>)
            tables == db[r]  after == db'[r]
<1>1. /\ clock < MaxTime /\ clock' = t /\ d # NoDocument /\ stage[n.id] = "unused"
      /\ \E k \in Progress(txs) :
            /\ Outcome(r, txs, k, Post(inbox, r, SentAfterAll(<<m>>, txs, k)), g, safe)
            /\ stage' = [stage EXCEPT ![n.id] = IF k = Len(txs) THEN "created" ELSE "partial"]
    BY DEF UserCreate, UserCall, AnnounceCreate
<1>2. /\ t \in Nat /\ t \in 0 .. t /\ d \in Document /\ tables \in Tables(t)
    BY <1>1, AnyTime, Site
<1>3. PICK k \in Progress(txs) :
         /\ Outcome(r, txs, k, Post(inbox, r, SentAfterAll(<<m>>, txs, k)), g, safe)
         /\ stage' = [stage EXCEPT ![n.id] = IF k = Len(txs) THEN "created" ELSE "partial"]
    BY <1>1
<1>. DEFINE sent == Post(inbox, r, SentAfterAll(<<m>>, txs, k))
<1>4. k = Len(txs) /\ after = Commit(tables, SubSeq(txs, 1, Len(txs)))
      /\ Committed(r, after, g, sent, safe)
    <2>1. Outcome(r, txs, k, sent, g, safe)
        BY <1>3
    <2>. HIDE DEF sent, txs, g, safe
    <2>. QED  BY <2>1, AnyCall
<1>5. sent = boxes
    BY <1>4 DEF SentAfterAll
<1>6. after \in Tables(t) /\ Entered(tables, after, n, d, t)
    <2>1. txs = CreateTxs(n, d, t)
        OBVIOUS
    <2>. HIDE DEF tables, t, d, after, txs
    <2>. QED  BY <1>2, <1>4, <2>1, CommitCreation
<1>. QED  BY <1>1, <1>2, <1>3, <1>4, <1>5, <1>6 DEF CreateEffect

RemoveEffect(r, n) ==
    LET g == remove(graph[r], n.id)
        m == CreateDelete(n, open[r], "Retract", clock + 1)
    IN  /\ Committed(r, db'[r], g, Post(inbox, r, <<m>>), MeshSafe(g))
        /\ db'[r] \in Tables(clock + 1)
        /\ Removed(db[r], db'[r], n, open[r], clock + 1)
        /\ clock < MaxTime /\ clock' = clock + 1 /\ open[r] \in Document
        /\ stage' = [stage EXCEPT ![n.id] = "removed"]

LEMMA RemoveDoes ==
    ASSUME Faultless, SessionTypes, NEW r \in Replica, NEW n \in Nodes, UserRemove(r, n)
    PROVE  RemoveEffect(r, n)
<1>. DEFINE d == open[r]  t == clock + 1  txs == RemoveTxs(n, d, t)
            g == remove(graph[r], n.id)  m == CreateDelete(n, d, "Retract", t)
            safe == MeshSafe(g)  boxes == Post(inbox, r, <<m>>)
            tables == db[r]  after == db'[r]
<1>1. /\ clock < MaxTime /\ clock' = t /\ d # NoDocument
      /\ \E k \in Progress(txs) :
            /\ Outcome(r, txs, k, Post(inbox, r, SentAfterAll(<<m>>, txs, k)), g, safe)
            /\ stage' = [stage EXCEPT ![n.id] = IF k > 0 THEN "removed" ELSE @]
    BY DEF UserRemove, UserCall, AnnounceRemove
<1>2. /\ t \in Nat /\ t \in 0 .. t /\ d \in Document /\ tables \in Tables(t)
    BY <1>1, AnyTime, Site
<1>3. txs \in Seq(RemovalTx(n, t)) /\ Len(txs) >= 1 /\ txs[1] = Tombstone(n, d, t)
    <2>. HIDE DEF t, d
    <2>. QED  BY <1>2, RemoveTxsAre
<1>4. PICK k \in Progress(txs) :
         /\ Outcome(r, txs, k, Post(inbox, r, SentAfterAll(<<m>>, txs, k)), g, safe)
         /\ stage' = [stage EXCEPT ![n.id] = IF k > 0 THEN "removed" ELSE @]
    BY <1>1
<1>. DEFINE sent == Post(inbox, r, SentAfterAll(<<m>>, txs, k))
<1>5. k = Len(txs) /\ after = Commit(tables, SubSeq(txs, 1, Len(txs)))
      /\ Committed(r, after, g, sent, safe)
    <2>1. Outcome(r, txs, k, sent, g, safe)
        BY <1>4
    <2>. HIDE DEF sent, txs, g, safe
    <2>. QED  BY <2>1, AnyCall
<1>6. sent = boxes
    BY <1>5 DEF SentAfterAll
<1>7. k > 0
    <2>. HIDE DEF txs, d, t
    <2>1. Len(txs) \in Nat
        BY <1>3
    <2>. QED  BY <1>3, <1>5, <2>1
<1>8. after \in Tables(t) /\ Removed(tables, after, n, d, t)
    <2>. HIDE DEF tables, t, d, after, txs
    <2>. QED  BY <1>2, <1>3, <1>5, CommitRemoval
<1>. QED  BY <1>1, <1>2, <1>4, <1>5, <1>6, <1>7, <1>8 DEF RemoveEffect

(* A row of the edge table is written, with its time.                       *)
EdgeRow(r, from, to, t, deleted) ==
    /\ db'[r] \in Tables(clock')
    /\ db'[r].document = db[r].document /\ db'[r].store = db[r].store
    /\ db'[r].edge = connectI(db[r].edge, from, to, t, deleted)

LEMMA AnyEdge ==
    ASSUME Faultless, SessionTypes, NEW r \in Replica, NEW from \in NodeId, NEW to \in NodeId,
           db[r] \in Tables(clock'), NEW t \in 0 .. clock', NEW deleted \in BOOLEAN,
           NEW txs, txs = <<EdgeTx(from, to, t, deleted)>>, NEW k \in Progress(txs),
           NEW boxes, NEW g, NEW safe, Outcome(r, txs, k, boxes, g, safe)
    PROVE  /\ k = Len(txs) /\ Committed(r, db'[r], g, boxes, safe)
           /\ EdgeRow(r, from, to, t, deleted)
<1>. DEFINE tables == db[r]  after == db'[r]  now == clock'
<1>1. Len(txs) = 1 /\ txs = <<EdgeTx(from, to, t, deleted)>>
    OBVIOUS
<1>2. k = Len(txs) /\ after = Commit(tables, SubSeq(txs, 1, Len(txs)))
      /\ Committed(r, after, g, boxes, safe)
    BY AnyCall
<1>3. /\ after \in Tables(now)
      /\ after.document = tables.document /\ after.store = tables.store
      /\ after.edge = connectI(tables.edge, from, to, t, deleted)
    <2>. DEFINE one == 1
    <2>1. /\ one \in 0 .. 1 /\ one = 1 /\ t \in 0 .. now /\ tables \in Tables(now)
          /\ after = Commit(tables, SubSeq(<<EdgeTx(from, to, t, deleted)>>, 1, one))
        BY <1>1, <1>2
    <2>. HIDE DEF one, after, tables, now
    <2>. QED  BY <2>1, CommitEdge
<1>. QED  BY <1>2, <1>3 DEF EdgeRow

(* connect() and disconnect() of the user: the message is the same.         *)
UserEdgeEffect(r, from, to, h, safe, deleted) ==
    LET m == ConnectDisconnect(from, to, "Assert", clock + 1)
    IN  /\ Committed(r, db'[r], h, Post(inbox, r, <<m>>), safe)
        /\ EdgeRow(r, from, to, clock + 1, deleted)
        /\ clock < MaxTime /\ clock' = clock + 1 /\ stage' = stage

LEMMA AnyUserEdge ==
    ASSUME Faultless, SessionTypes, NEW r \in Replica, NEW from \in NodeId, NEW to \in NodeId,
           NEW name, UserCall(name, r), NEW deleted \in BOOLEAN, NEW h, NEW safe, stage' = stage,
           NEW sent, sent = <<ConnectDisconnect(from, to, "Assert", clock + 1)>>,
           NEW txs, txs = <<EdgeTx(from, to, clock + 1, deleted)>>,
           NEW k \in Progress(txs),
           Outcome(r, txs, k, Post(inbox, r, SentAfterAll(sent, txs, k)), h, safe)
    PROVE  UserEdgeEffect(r, from, to, h, safe, deleted)
<1>. DEFINE t == clock + 1  boxes == Post(inbox, r, SentAfterAll(sent, txs, k))
<1>1. clock < MaxTime /\ clock' = t
    BY DEF UserCall
<1>2. db[r] \in Tables(clock') /\ t \in 0 .. clock'
    BY <1>1, AnyTime
<1>3. k = Len(txs) /\ Committed(r, db'[r], h, boxes, safe) /\ EdgeRow(r, from, to, t, deleted)
    <2>. HIDE DEF boxes, t
    <2>1. txs = <<EdgeTx(from, to, t, deleted)>> /\ Outcome(r, txs, k, boxes, h, safe)
        BY DEF boxes, t
    <2>. QED  BY <1>2, <2>1, AnyEdge
<1>4. boxes = Post(inbox, r, <<ConnectDisconnect(from, to, "Assert", t)>>)
    BY <1>3 DEF SentAfterAll
<1>. QED  BY <1>1, <1>3, <1>4 DEF UserEdgeEffect

ConnectEffect(r, from, to) ==
    LET h == connect(graph[r], from, to)
    IN  \E alive \in BOOLEAN :
            /\ ~alive /\ <<from, to>> \in Drawable
            /\ UserEdgeEffect(r, from, to, h,
                              ConnectSafe(graph[r], from, to) /\ MeshSafe(h), alive)

LEMMA ConnectDoes ==
    ASSUME Faultless, SessionTypes, NEW r \in Replica, NEW from \in NodeId, NEW to \in NodeId,
           UserConnect(r, from, to)
    PROVE  ConnectEffect(r, from, to)
<1>. DEFINE h == connect(graph[r], from, to)  alive == FALSE
            safe == ConnectSafe(graph[r], from, to) /\ MeshSafe(h)
            txs == <<EdgeTx(from, to, clock + 1, alive)>>
            sent == <<ConnectDisconnect(from, to, "Assert", clock + 1)>>
<1>1. UserCall("connect", r) /\ stage' = stage /\ <<from, to>> \in Drawable
    BY DEF UserConnect
<1>2. PICK k \in Progress(txs) :
         Outcome(r, txs, k, Post(inbox, r, SentAfterAll(sent, txs, k)), h, safe)
    BY DEF UserConnect, AnnounceConnect
<1>3. alive \in BOOLEAN /\ ~alive
    OBVIOUS
<1>4. txs = <<EdgeTx(from, to, clock + 1, alive)>>
      /\ sent = <<ConnectDisconnect(from, to, "Assert", clock + 1)>>
    OBVIOUS
<1>5. UserEdgeEffect(r, from, to, h, safe, alive)
    <2>. HIDE DEF h, safe, alive, txs, sent
    <2>. QED  BY <1>1, <1>2, <1>3, <1>4, AnyUserEdge
<1>. HIDE DEF alive
<1>. QED  BY <1>1, <1>3, <1>5 DEF ConnectEffect

DisconnectEffect(r, from, to) ==
    LET h == disconnect(graph[r], from, to)
    IN  \E dead \in BOOLEAN :
            /\ dead /\ <<from, to>> \in graph[r].edges
            /\ UserEdgeEffect(r, from, to, h, MeshSafe(h), dead)

LEMMA DisconnectDoes ==
    ASSUME Faultless, SessionTypes, NEW r \in Replica, NEW from \in NodeId, NEW to \in NodeId,
           UserDisconnect(r, from, to)
    PROVE  DisconnectEffect(r, from, to)
<1>. DEFINE h == disconnect(graph[r], from, to)  dead == TRUE
            safe == MeshSafe(h)
            txs == <<EdgeTx(from, to, clock + 1, dead)>>
            sent == <<ConnectDisconnect(from, to, "Assert", clock + 1)>>
<1>1. UserCall("disconnect", r) /\ stage' = stage /\ <<from, to>> \in graph[r].edges
    BY DEF UserDisconnect
<1>2. PICK k \in Progress(txs) :
         Outcome(r, txs, k, Post(inbox, r, SentAfterAll(sent, txs, k)), h, safe)
    BY DEF UserDisconnect, AnnounceDisconnect
<1>3. dead \in BOOLEAN /\ dead
    OBVIOUS
<1>4. txs = <<EdgeTx(from, to, clock + 1, dead)>>
      /\ sent = <<ConnectDisconnect(from, to, "Assert", clock + 1)>>
    OBVIOUS
<1>5. UserEdgeEffect(r, from, to, h, safe, dead)
    <2>. HIDE DEF h, safe, dead, txs, sent
    <2>. QED  BY <1>1, <1>2, <1>3, <1>4, AnyUserEdge
<1>. HIDE DEF dead
<1>. QED  BY <1>1, <1>3, <1>5 DEF DisconnectEffect

-----------------------------------------------------------------------------
(* Messages that arrive *)

ReceiveCreateEffect(r, i) == \E m \in ToSet(inbox[r]), safe \in BOOLEAN :
    LET g == IF open[r] = m.document THEN create(graph[r], m.node) ELSE graph[r]
    IN  /\ Receive(r, i, m, "CreateDelete", "Assert") /\ safe
        /\ Committed(r, db'[r], g, Taken(r, i), safe)
        /\ db'[r] \in Tables(clock)
        /\ Entered(db[r], db'[r], m.node, m.document, m.timestamp)
        /\ clock' = clock /\ stage' = stage

LEMMA ReceiveCreateDoes ==
    ASSUME Faultless, SessionTypes, NEW r \in Replica, NEW i \in DOMAIN inbox[r],
           ReceiveCreate(r, i)
    PROVE  ReceiveCreateEffect(r, i)
<1>. DEFINE boxes == Taken(r, i)  safe == TRUE
<1>1. PICK m \in ToSet(inbox[r]) :
         /\ Receive(r, i, m, "CreateDelete", "Assert")
         /\ \E k \in Progress(CreateTxs(m.node, m.document, m.timestamp)) :
              Outcome(r, CreateTxs(m.node, m.document, m.timestamp), k, boxes,
                      IF open[r] = m.document THEN create(graph[r], m.node) ELSE graph[r], safe)
         /\ clock' = clock /\ stage' = stage
    BY DEF ReceiveCreate
<1>. DEFINE n == m.node  d == m.document  t == m.timestamp  txs == CreateTxs(n, d, t)
            g == IF open[r] = d THEN create(graph[r], n) ELSE graph[r]
            tables == db[r]  after == db'[r]
<1>2. /\ m \in Message(clock) /\ m.type = "CreateDelete"
    BY <1>1, ReceivedIs
<1>3. /\ n \in Nodes /\ d \in Document /\ t \in 0 .. clock
      /\ clock \in Nat /\ tables \in Tables(clock)
    BY <1>2, MessageFields, Site
<1>4. PICK k \in Progress(txs) : Outcome(r, txs, k, boxes, g, safe)
    BY <1>1
<1>5. after = Commit(tables, SubSeq(txs, 1, Len(txs))) /\ Committed(r, after, g, boxes, safe)
    <2>. HIDE DEF txs, g, safe, boxes
    <2>. QED  BY <1>4, AnyCall
<1>6. after \in Tables(clock) /\ Entered(tables, after, n, d, t)
    <2>1. txs = CreateTxs(n, d, t)
        OBVIOUS
    <2>. HIDE DEF tables, t, d, n, after, txs
    <2>. QED  BY <1>3, <1>5, <2>1, CommitCreation
<1>7. safe \in BOOLEAN /\ safe
    OBVIOUS
<1>. HIDE DEF safe
<1>. QED  BY <1>1, <1>5, <1>6, <1>7 DEF ReceiveCreateEffect

(* What a replica sends when the removal of a node arrives: its echo, or    *)
(* nothing.                                                                 *)
Echo(now, sent, echoes, n) ==
    \/ sent = <<>> /\ echoes = {}
    \/ \E d \in Document :
          /\ sent = <<CreateDelete(n, d, "Retract", now)>>
          /\ echoes = {CreateDelete(n, d, "Retract", now)}

ReceiveRemoveEffect(r, i) == \E m \in ToSet(inbox[r]) : \E sent, echoes :
    LET g == remove(graph[r], m.node.id)
    IN  /\ Receive(r, i, m, "CreateDelete", "Retract")
        /\ Echo(clock + 1, sent, echoes, m.node)
        /\ Committed(r, db'[r], g, Post(Taken(r, i), r, sent), IsOpen(r) /\ MeshSafe(g))
        /\ db'[r] \in Tables(clock + 1)
        /\ Removed(db[r], db'[r], m.node, m.document, m.timestamp)
        /\ clock < MaxTime /\ clock' = clock + 1 /\ stage' = stage

LEMMA ReceiveRemoveDoes ==
    ASSUME Faultless, SessionTypes, NEW r \in Replica, NEW i \in DOMAIN inbox[r],
           ReceiveRemove(r, i)
    PROVE  ReceiveRemoveEffect(r, i)
<1>. DEFINE now == clock + 1
<1>1. PICK m \in ToSet(inbox[r]) :
         /\ Receive(r, i, m, "CreateDelete", "Retract")
         /\ \E k \in Progress(RemoveTxs(m.node, m.document, m.timestamp)
                              \o IF IsOpen(r) THEN RemoveTxs(m.node, open[r], now) ELSE <<>>) :
              Outcome(r, RemoveTxs(m.node, m.document, m.timestamp)
                         \o IF IsOpen(r) THEN RemoveTxs(m.node, open[r], now) ELSE <<>>, k,
                      Post(Taken(r, i), r,
                           IF IsOpen(r)
                           THEN SentAfterAll(AnnounceRemove(m.node, open[r], now),
                                    RemoveTxs(m.node, m.document, m.timestamp)
                                    \o IF IsOpen(r) THEN RemoveTxs(m.node, open[r], now)
                                       ELSE <<>>, k)
                           ELSE <<>>),
                      remove(graph[r], m.node.id),
                      IsOpen(r) /\ MeshSafe(remove(graph[r], m.node.id)))
         /\ clock < MaxTime /\ clock' = now /\ stage' = stage
    BY DEF ReceiveRemove
<1>. DEFINE n == m.node  d == m.document  t == m.timestamp
            own == IF IsOpen(r) THEN RemoveTxs(n, open[r], now) ELSE <<>>
            txs == RemoveTxs(n, d, t) \o own
            g == remove(graph[r], n.id)  safe == IsOpen(r) /\ MeshSafe(g)
            echo == AnnounceRemove(n, open[r], now)
            sent == IF IsOpen(r) THEN echo ELSE <<>>
            e == CreateDelete(n, open[r], "Retract", now)
            echoes == IF IsOpen(r) THEN {e} ELSE {}
            boxes == Post(Taken(r, i), r, sent)
            tables == db[r]  after == db'[r]
<1>3. m \in Message(clock) /\ m.type = "CreateDelete"
    BY <1>1, ReceivedIs
<1>4. /\ n \in Nodes /\ d \in Document /\ t \in 0 .. now
      /\ now \in Nat /\ now \in 0 .. now /\ tables \in Tables(now)
      /\ IsOpen(r) => open[r] \in Document
    <2>1. /\ n \in Nodes /\ d \in Document /\ t \in 0 .. clock
        BY <1>3, MessageFields
    <2>2. clock \in Nat /\ (IsOpen(r) => open[r] \in Document)
        BY Site DEF IsOpen
    <2>. QED  BY <1>1, <2>1, <2>2, AnyTime
<1>6. after = Commit(tables, SubSeq(txs, 1, Len(txs))) /\ Committed(r, after, g, boxes, safe)
    <2>1. PICK k \in Progress(txs) :
             Outcome(r, txs, k, Post(Taken(r, i), r,
                        IF IsOpen(r) THEN SentAfterAll(echo, txs, k) ELSE <<>>), g, safe)
        BY <1>1
    <2>. DEFINE posted == Post(Taken(r, i), r,
                               IF IsOpen(r) THEN SentAfterAll(echo, txs, k) ELSE <<>>)
    <2>2. /\ k = Len(txs) /\ after = Commit(tables, SubSeq(txs, 1, Len(txs)))
          /\ Committed(r, after, g, posted, safe)
        <3>1. Outcome(r, txs, k, posted, g, safe)
            BY <2>1
        <3>. HIDE DEF posted, txs, g, safe
        <3>. QED  BY <3>1, AnyCall
    <2>3. posted = boxes
        BY <2>2 DEF SentAfterAll
    <2>. QED  BY <2>2, <2>3
<1>7. txs \in Seq(RemovalTx(n, now)) /\ Len(txs) >= 1 /\ txs[1] = Tombstone(n, d, t)
    <2>. DEFINE X == RemovalTx(n, now)  first == RemoveTxs(n, d, t)
    <2>1. first \in Seq(X) /\ Len(first) >= 1 /\ first[1] = Tombstone(n, d, t)
        <3>. HIDE DEF now, n, d, t, first
        <3>. QED  BY <1>4, RemoveTxsAre DEF first
    <2>2. own \in Seq(X)
        <3>1. CASE ~IsOpen(r)
            BY <3>1
        <3>2. CASE IsOpen(r)
            <4>. DEFINE o == open[r]
            <4>1. own = RemoveTxs(n, o, now) /\ o \in Document
                BY <1>4, <3>2
            <4>. HIDE DEF now, n, o, own
            <4>. QED  BY <1>4, <4>1, RemoveTxsAre
        <3>. QED  BY <3>1, <3>2
    <2>. HIDE DEF X, first, own
    <2>3. /\ first \o own \in Seq(X) /\ Len(first \o own) >= 1
          /\ (first \o own)[1] = first[1]
        BY <2>1, <2>2
    <2>. QED  BY <2>1, <2>3 DEF X, first
<1>8. after \in Tables(now) /\ Removed(tables, after, n, d, t)
    <2>. HIDE DEF tables, t, d, n, after, txs, now
    <2>. QED  BY <1>4, <1>6, <1>7, CommitRemoval
<1>9. Echo(now, sent, echoes, n)
    BY <1>4 DEF Echo, AnnounceRemove
<1>. HIDE DEF sent, echoes, txs
<1>. QED  BY <1>1, <1>6, <1>8, <1>9 DEF ReceiveRemoveEffect

ReceiveConnectEffect(r, i) == \E m \in ToSet(inbox[r]), alive \in BOOLEAN :
    /\ Receive(r, i, m, "ConnectDisconnect", "Assert") /\ ~alive
    /\ Committed(r, db'[r], connect(graph[r], m.from, m.to), Taken(r, i),
                 IsOpen(r) /\ ConnectSafe(graph[r], m.from, m.to))
    /\ EdgeRow(r, m.from, m.to, m.timestamp, alive)
    /\ clock' = clock /\ stage' = stage

LEMMA ReceiveConnectDoes ==
    ASSUME Faultless, SessionTypes, NEW r \in Replica, NEW i \in DOMAIN inbox[r],
           ReceiveConnect(r, i)
    PROVE  ReceiveConnectEffect(r, i)
<1>. DEFINE boxes == Taken(r, i)
<1>1. PICK m \in ToSet(inbox[r]) :
         /\ Receive(r, i, m, "ConnectDisconnect", "Assert")
         /\ \E k \in Progress(<<EdgeTx(m.from, m.to, m.timestamp, FALSE)>>) :
              Outcome(r, <<EdgeTx(m.from, m.to, m.timestamp, FALSE)>>, k, boxes,
                      connect(graph[r], m.from, m.to),
                      IsOpen(r) /\ ConnectSafe(graph[r], m.from, m.to))
         /\ clock' = clock /\ stage' = stage
    BY DEF ReceiveConnect
<1>. DEFINE from == m.from  to == m.to  t == m.timestamp  alive == FALSE
            txs == <<EdgeTx(from, to, t, alive)>>
            h == connect(graph[r], from, to)
            safe == IsOpen(r) /\ ConnectSafe(graph[r], from, to)
<1>2. alive \in BOOLEAN /\ ~alive
    OBVIOUS
<1>3. m \in Message(clock) /\ m.type = "ConnectDisconnect"
    BY <1>1, ReceivedIs
<1>4. from \in NodeId /\ to \in NodeId /\ t \in 0 .. clock' /\ db[r] \in Tables(clock')
    BY <1>1, <1>3, MessageFields, Site
<1>5. PICK k \in Progress(txs) : Outcome(r, txs, k, boxes, h, safe)
    BY <1>1
<1>6. Committed(r, db'[r], h, boxes, safe) /\ EdgeRow(r, from, to, t, alive)
    <2>1. txs = <<EdgeTx(from, to, t, alive)>>
        OBVIOUS
    <2>. HIDE DEF txs, h, safe, boxes, alive, from, to, t
    <2>. QED  BY <1>2, <1>4, <1>5, <2>1, AnyEdge
<1>. HIDE DEF alive
<1>. QED  BY <1>1, <1>2, <1>6 DEF ReceiveConnectEffect

ReceiveDisconnectEffect(r, i) == \E m \in ToSet(inbox[r]), dead \in BOOLEAN :
    /\ Receive(r, i, m, "ConnectDisconnect", "Retract") /\ dead
    /\ Committed(r, db'[r], disconnect(graph[r], m.from, m.to), Taken(r, i), IsOpen(r))
    /\ EdgeRow(r, m.from, m.to, m.timestamp, dead)
    /\ clock' = clock /\ stage' = stage

LEMMA ReceiveDisconnectDoes ==
    ASSUME Faultless, SessionTypes, NEW r \in Replica, NEW i \in DOMAIN inbox[r],
           ReceiveDisconnect(r, i)
    PROVE  ReceiveDisconnectEffect(r, i)
<1>. DEFINE boxes == Taken(r, i)
<1>1. PICK m \in ToSet(inbox[r]) :
         /\ Receive(r, i, m, "ConnectDisconnect", "Retract")
         /\ \E k \in Progress(<<EdgeTx(m.from, m.to, m.timestamp, TRUE)>>) :
              Outcome(r, <<EdgeTx(m.from, m.to, m.timestamp, TRUE)>>, k, boxes,
                      disconnect(graph[r], m.from, m.to), IsOpen(r))
         /\ clock' = clock /\ stage' = stage
    BY DEF ReceiveDisconnect
<1>. DEFINE from == m.from  to == m.to  t == m.timestamp  dead == TRUE
            txs == <<EdgeTx(from, to, t, dead)>>
            h == disconnect(graph[r], from, to)  safe == IsOpen(r)
<1>2. dead \in BOOLEAN /\ dead
    OBVIOUS
<1>3. m \in Message(clock) /\ m.type = "ConnectDisconnect"
    BY <1>1, ReceivedIs
<1>4. from \in NodeId /\ to \in NodeId /\ t \in 0 .. clock' /\ db[r] \in Tables(clock')
    BY <1>1, <1>3, MessageFields, Site
<1>5. PICK k \in Progress(txs) : Outcome(r, txs, k, boxes, h, safe)
    BY <1>1
<1>6. Committed(r, db'[r], h, boxes, safe) /\ EdgeRow(r, from, to, t, dead)
    <2>1. txs = <<EdgeTx(from, to, t, dead)>>
        OBVIOUS
    <2>. HIDE DEF txs, h, safe, boxes, dead, from, to, t
    <2>. QED  BY <1>2, <1>4, <1>5, <2>1, AnyEdge
<1>. HIDE DEF dead
<1>. QED  BY <1>1, <1>2, <1>6 DEF ReceiveDisconnectEffect

-----------------------------------------------------------------------------
(* Each step keeps the invariant *)

(* Messages that are not about a node, on their way with the others.        *)
LEMMA SentSilent ==
    ASSUME RemovalInv, NEW now, now = clock \/ now = clock + 1, NEW r,
           NEW sent \in Inbox(now), \A m \in ToSet(sent) : m.type # "CreateDelete"
    PROVE  /\ Post(inbox, r, sent) \in [Replica -> Inbox(now)]
           /\ \A n \in NodeId : \A q \in Replica : Same(Post(inbox, r, sent)[q], inbox[q], n)
<1>1. SessionTypes /\ \A n \in NodeId : NodeOK(n)
    BY DEF RemovalInv, NodeOK
<1>2. inbox \in [Replica -> Inbox(now)]
    <2>1. \A q \in Replica : inbox[q] \in Inbox(now)
        BY <1>1, Site, MessagesLater
    <2>. QED  BY <1>1, <2>1 DEF SessionTypes
<1>3. \A n : Creates(sent, n) = {} /\ Removals(sent, n) = {}
    BY DEF Creates, Removals, CreateOf, RemovalOf
<1>4. \A n \in NodeId : \A q \in Replica : InOrder(inbox[q], n)
    BY <1>1 DEF NodeOK, KnownOK
<1>5. ASSUME NEW n \in NodeId
      PROVE  \A q \in Replica : Same(Post(inbox, r, sent)[q], inbox[q], n)
    BY <1>2, <1>3, <1>4, PostSilent
<1>. QED  BY <1>2, <1>5, PostIs

(* connect() and disconnect() are announced.                                *)
LEMMA SentEdge ==
    ASSUME RemovalInv, NEW r, NEW from \in NodeId, NEW to \in NodeId,
           NEW change \in {"Assert", "Retract"}, NEW t, t = clock + 1, t \in 0 .. t
    PROVE  LET m == ConnectDisconnect(from, to, change, t)
           IN  /\ m \in Message(t) /\ Post(inbox, r, <<m>>) \in [Replica -> Inbox(t)]
               /\ \A n \in NodeId : \A q \in Replica :
                     Same(Post(inbox, r, <<m>>)[q], inbox[q], n)
<1>. DEFINE m == ConnectDisconnect(from, to, change, t)  sent == <<m>>
<1>1. m \in Message(t) /\ m.type # "CreateDelete"
    BY MessageIs DEF ConnectDisconnect
<1>. HIDE DEF m
<1>2. sent \in Inbox(t) /\ \A x \in ToSet(sent) : x.type # "CreateDelete"
    <2>1. <<m>> \in Inbox(t) /\ ToSet(<<m>>) = {m}
        BY <1>1, SentOne
    <2>. QED  BY <1>1, <2>1
<1>. HIDE DEF sent
<1>3. /\ Post(inbox, r, sent) \in [Replica -> Inbox(t)]
      /\ \A n \in NodeId : \A q \in Replica : Same(Post(inbox, r, sent)[q], inbox[q], n)
    BY <1>2, SentSilent
<1>. QED  BY <1>1, <1>3 DEF sent, m

(* A message is taken: of another node as much is heard as before.          *)
LEMMA TakenOthers ==
    ASSUME Faultless, RemovalInv, NEW r \in Replica, NEW i \in DOMAIN inbox[r], NEW m,
           NEW type, NEW change, Receive(r, i, m, type, change),
           NEW n \in NodeId, ~CreateOf(m, n), ~RemovalOf(m, n)
    PROVE  \A q \in Replica : Same(Taken(r, i)[q], inbox[q], n)
<1>1. SessionTypes /\ NodeOK(n)
    BY DEF RemovalInv, NodeOK
<1>2. /\ inbox[r] # <<>> /\ m = inbox[r][1]
      /\ Taken(r, i)[r] = Tail(inbox[r])
      /\ \A q \in Replica : q # r => Taken(r, i)[q] = inbox[q]
    BY <1>1, ReceivedIs
<1>3. inbox[r] \in Inbox(clock)
    BY <1>1, Site
<1>4. ASSUME NEW q \in Replica
      PROVE  Same(Taken(r, i)[q], inbox[q], n)
    <2>1. InOrder(inbox[q], n) /\ InOrder(inbox[r], n)
        BY <1>1 DEF NodeOK, KnownOK
    <2>2. CASE q # r
        BY <1>2, <2>1, <2>2 DEF Same
    <2>3. CASE q = r
        <3>1. ~CreateOf(inbox[r][1], n) /\ ~RemovalOf(inbox[r][1], n)
            BY <1>2
        <3>2. /\ InOrder(Tail(inbox[r]), n)
              /\ Creates(Tail(inbox[r]), n) = Creates(inbox[r], n)
              /\ Removals(Tail(inbox[r]), n) = Removals(inbox[r], n)
            BY <1>2, <1>3, <2>1, <3>1, TakenKeeps
        <3>. QED  BY <1>2, <2>3, <3>2 DEF Same
    <2>. QED  BY <2>2, <2>3
<1>. QED  BY <1>4

LEMMA TakenSilent ==
    ASSUME Faultless, RemovalInv, NEW r \in Replica, NEW i \in DOMAIN inbox[r], NEW m,
           NEW type, NEW change, Receive(r, i, m, type, change), type # "CreateDelete"
    PROVE  \A n \in NodeId : \A q \in Replica : Same(Taken(r, i)[q], inbox[q], n)
<1>1. m.type = type
    BY DEF Receive
<1>2. \A n : ~CreateOf(m, n) /\ ~RemovalOf(m, n)
    BY <1>1 DEF CreateOf, RemovalOf
<1>3. ASSUME NEW n \in NodeId
      PROVE  \A q \in Replica : Same(Taken(r, i)[q], inbox[q], n)
    BY <1>2, TakenOthers
<1>. QED  BY <1>3

LEMMA EdgeGraph ==
    ASSUME NEW g \in Graphs, NEW from \in NodeId, NEW to \in NodeId
    PROVE  /\ connect(g, from, to) \in Graphs /\ Ids(connect(g, from, to)) = Ids(g)
           /\ disconnect(g, from, to) \in Graphs /\ Ids(disconnect(g, from, to)) = Ids(g)
<1>1. /\ g = [nodes |-> g.nodes, edges |-> g.edges]
      /\ g.nodes \in Seq(Nodes) /\ g.edges \subseteq NodeId \X NodeId
    BY DEF Graphs
<1>2. ASSUME NEW links \in SUBSET (NodeId \X NodeId), NEW h, h = [g EXCEPT !.edges = links]
      PROVE  h \in Graphs /\ Ids(h) = Ids(g)
    <2>1. h.nodes = g.nodes /\ h.edges = links /\ h = [nodes |-> h.nodes, edges |-> h.edges]
        BY <1>2 DEF Graphs
    <2>. QED  BY <1>1, <2>1 DEF Graphs, Ids
<1>3. g.edges \cup {<<from, to>>} \subseteq NodeId \X NodeId /\ g.edges \ {<<from, to>>} \subseteq NodeId \X NodeId
    BY <1>1
<1>. QED  BY <1>2, <1>3 DEF connect, disconnect

LEMMA CreateStep ==
    ASSUME Faultless, RemovalInv, NEW r \in Replica \ crashed, NEW n \in Handed,
           UserCreate(r, n)
    PROVE  RemovalInv'
<1>. DEFINE d == open[r]  t == clock + 1
            g == create(graph[r], n)  m == CreateDelete(n, d, "Assert", t)
            safe == MeshSafe(g)  boxes == Post(inbox, r, <<m>>)  after == db'[r]
<1>1. /\ SessionTypes /\ r \in Replica /\ n \in Nodes /\ n.id \in NodeId
      /\ \A k \in NodeId : NodeOK(k)
    BY NodeFields DEF RemovalInv, NodeOK, Handed
<1>2. CreateEffect(r, n)
    BY <1>1, CreateDoes
<1>3. /\ clock < MaxTime /\ clock' = t /\ d \in Document
      /\ stage[n.id] = "unused" /\ stage' = [stage EXCEPT ![n.id] = "created"]
      /\ t \in Nat /\ t \in 0 .. MaxTime /\ t \in 0 .. t
      /\ graph[r] \in Graphs /\ inbox \in [Replica -> Inbox(t)]
    BY <1>1, <1>2, AnyTime, Site DEF CreateEffect
<1>4. Committed(r, after, g, boxes, safe)
    BY <1>2 DEF CreateEffect
<1>5. /\ after \in Tables(t)
      /\ \A k \in NodeId \ {n.id} : Shown(after, k) = Shown(db[r], k)
      /\ Shown(after, n.id) # {}
      /\ \A x \in Shown(after, n.id) :
            x \in Shown(db[r], n.id) \/ (x.document = d /\ x.timestamp = t /\ x.type = Kind[n.id])
    BY <1>2 DEF CreateEffect, Entered
<1>6. g \in Graphs /\ Ids(g) = Ids(graph[r]) \cup {n.id}
    BY <1>1, <1>3, CreateGraph
<1>7. /\ m \in Message(t) /\ m.document = d /\ m.timestamp = t /\ m.node = n
      /\ CreateOf(m, n.id) /\ \A k : k # n.id => ~CreateOf(m, k)
      /\ \A k : ~RemovalOf(m, k)
    <2>1. m \in Message(t)
        BY <1>1, <1>3, MessageIs
    <2>. QED  BY <2>1 DEF CreateDelete, CreateOf, RemovalOf
<1>8. <<m>> \in Inbox(t) /\ boxes \in [Replica -> Inbox(t)]
    <2>1. <<m>> \in Inbox(t)
        BY <1>7, SentOne
    <2>. HIDE DEF m, t
    <2>. QED  BY <1>3, <2>1, PostIs
<1>. HIDE DEF m, g, after, safe
<1>9. stage' \in Life /\ stage'[n.id] = "created" /\ \A k \in NodeId : k # n.id => stage'[k] = stage[k]
    BY <1>1, <1>3 DEF SessionTypes, Life
<1>10. SessionTypes'
    <2>1. after \in Tables(clock') /\ boxes \in [Replica -> Inbox(clock')]
          /\ clock' \in 0 .. MaxTime /\ (clock' = clock \/ clock' = clock + 1)
        BY <1>3, <1>5, <1>8
    <2>. HIDE DEF boxes, t
    <2>. QED  BY <1>1, <1>4, <1>6, <1>9, <2>1, TypesKeep
<1>11. /\ db'[r] = after /\ inbox' = boxes /\ open' = open
       /\ r \notin crashed' => safe /\ graph'[r] = g
       /\ crashed \subseteq crashed'
       /\ \A q \in Replica : q # r => db'[q] = db[q] /\ graph'[q] = graph[q]
    <2>. HIDE DEF boxes
    <2>. QED  BY <1>1, <1>4, CommittedIs
<1>12. NodeOK(n.id)'
    <2>. DEFINE k == n.id
    <2>1. \A q \in Replica : Unheard(inbox[q], k) /\ Shown(db[q], k) = {}
        <3>1. ASSUME NEW q \in Replica
              PROVE  Unheard(inbox[q], k) /\ Shown(db[q], k) = {}
            <4>1. /\ Births(db[q], inbox[q], k) = {} /\ Removals(inbox[q], k) = {}
                  /\ InOrder(inbox[q], k)
                BY <1>1, <1>3 DEF NodeOK, KnownOK
            <4>2. Shown(db[q], k) \cup Creates(inbox[q], k) = {}
                BY <4>1 DEF Births
            <4>. QED  BY <4>1, <4>2 DEF Unheard
        <3>. QED  BY <3>1
    <2>2. \A q \in Replica :
              /\ InOrder(boxes[q], k) /\ Removals(boxes[q], k) = {}
              /\ Creates(boxes[q], k) = IF q = r THEN {} ELSE {m}
        <3>. HIDE DEF k, t
        <3>1. CreateOf(m, k) /\ m \in Message(t) /\ inbox \in [Replica -> Inbox(t)]
            BY <1>3, <1>7 DEF k
        <3>2. \A q \in Replica : Unheard(inbox[q], k)
            BY <2>1
        <3>. HIDE DEF boxes
        <3>3. \A q \in Replica :
                 /\ InOrder(Post(inbox, r, <<m>>)[q], k)
                 /\ Creates(Post(inbox, r, <<m>>)[q], k) = IF q = r THEN {} ELSE {m}
                 /\ Removals(Post(inbox, r, <<m>>)[q], k) = {}
            BY <3>1, <3>2, PostCreation
        <3>. QED  BY <3>3 DEF boxes
    <2>. HIDE DEF boxes, t, d
    <2>3. /\ Creates(inbox'[r], k) = {} /\ open'[r] = d /\ Shown(db'[r], k) # {}
          /\ \A x \in Shown(db'[r], k) : x.document = d /\ x.timestamp = t /\ x.type = Kind[k]
          /\ \A q \in Replica :
              /\ Removals(inbox'[q], k) = {} /\ InOrder(inbox'[q], k)
              /\ q # r => /\ Shown(db'[q], k) = Shown(db[q], k)
                          /\ \A o \in Creates(inbox'[q], k) : o.document = d /\ o.timestamp = t
                          /\ q \notin crashed' => Ids(graph'[q]) = Ids(graph[q])
        <3>1. /\ Shown(db'[r], k) # {}
              /\ \A x \in Shown(db'[r], k) : x.document = d /\ x.timestamp = t /\ x.type = Kind[k]
            BY <1>1, <1>5, <1>11, <2>1
        <3>2. \A q \in Replica : /\ Removals(inbox'[q], k) = {} /\ InOrder(inbox'[q], k)
                                 /\ Creates(inbox'[q], k) = IF q = r THEN {} ELSE {m}
            BY <1>11, <2>2
        <3>3. m.document = d /\ m.timestamp = t
            BY <1>7
        <3>4. open'[r] = d
            BY <1>11 DEF d
        <3>5. ASSUME NEW q \in Replica, q # r
              PROVE  /\ Shown(db'[q], k) = Shown(db[q], k)
                     /\ q \notin crashed' => Ids(graph'[q]) = Ids(graph[q])
            BY <1>11, <3>5
        <3>6. ASSUME NEW q \in Replica, q # r
              PROVE  \A o \in Creates(inbox'[q], k) : o.document = d /\ o.timestamp = t
            BY <3>2, <3>3, <3>6
        <3>7. Creates(inbox'[r], k) = {}
            BY <1>1, <3>2
        <3>. HIDE DEF k, d
        <3>. QED  BY <3>1, <3>2, <3>4, <3>5, <3>6, <3>7
    <2>4. stage[k] = "unused" /\ stage'[k] = "created" /\ k \in NodeId /\ NodeOK(k)
        BY <1>1, <1>3, <1>9
    <2>. HIDE DEF k
    <2>5. NodeOK(k)'
        BY <1>1, <1>11, <2>3, <2>4, CreationKeeps, SMTT(30)
    <2>. QED  BY <2>5 DEF k
<1>13. ASSUME NEW k \in NodeId, k # n.id
       PROVE  NodeOK(k)'
    <2>1. \A q \in Replica : InOrder(inbox[q], k)
        BY <1>1 DEF NodeOK, KnownOK
    <2>2. Creates(<<m>>, k) = {} /\ Removals(<<m>>, k) = {}
        <3>. HIDE DEF t
        <3>. QED  BY <1>7, <1>13, SentOne
    <2>3. \A q \in Replica : Same(boxes[q], inbox[q], k)
        <3>. DEFINE sent == <<m>>
        <3>1. sent \in Inbox(t) /\ Creates(sent, k) = {} /\ Removals(sent, k) = {}
            BY <1>8, <2>2
        <3>. HIDE DEF sent, t
        <3>2. \A q \in Replica : Same(Post(inbox, r, sent)[q], inbox[q], k)
            BY <1>3, <2>1, <3>1, PostSilent
        <3>. QED  BY <3>2 DEF sent
    <2>4. Undisturbed(k)
        <3>1. stage'[k] = stage[k] /\ Shown(after, k) = Shown(db[r], k)
              /\ (k \in Ids(g) => k \in Ids(graph[r]))
            BY <1>5, <1>6, <1>9, <1>13
        <3>. HIDE DEF boxes
        <3>. QED  BY <1>1, <1>4, <2>3, <3>1, OthersUndisturbed
    <2>. QED  BY <1>1, <2>4, UndisturbedKeeps
<1>. QED  BY <1>10, <1>12, <1>13 DEF RemovalInv, NodeOK

LEMMA RemoveStep ==
    ASSUME Faultless, RemovalInv, NEW r \in Replica \ crashed,
           NEW n \in ToSet(graph[r].nodes), UserRemove(r, n)
    PROVE  RemovalInv'
<1>. DEFINE d == open[r]  t == clock + 1
            g == remove(graph[r], n.id)  m == CreateDelete(n, d, "Retract", t)
            safe == MeshSafe(g)  boxes == Post(inbox, r, <<m>>)  after == db'[r]
<1>1. /\ SessionTypes /\ r \in Replica /\ n \in Nodes /\ n.id \in NodeId /\ n.id \in Ids(graph[r])
      /\ \A k \in NodeId : NodeOK(k)
    <2>1. SessionTypes /\ r \in Replica /\ \A k \in NodeId : NodeOK(k)
        BY DEF RemovalInv, NodeOK
    <2>2. n \in Nodes
        BY <2>1, Site, GraphFields
    <2>. QED  BY <2>1, <2>2, NodeFields, IdsAre
<1>2. RemoveEffect(r, n)
    BY <1>1, RemoveDoes
<1>3. /\ clock < MaxTime /\ clock' = t /\ d \in Document
      /\ stage' = [stage EXCEPT ![n.id] = "removed"]
      /\ t \in Nat /\ t \in 0 .. MaxTime /\ t \in 0 .. t
      /\ graph[r] \in Graphs /\ inbox \in [Replica -> Inbox(t)]
    BY <1>1, <1>2, AnyTime, Site DEF RemoveEffect
<1>4. Committed(r, after, g, boxes, safe)
    BY <1>2 DEF RemoveEffect
<1>5. /\ after \in Tables(t)
      /\ \A k \in NodeId \ {n.id} : Shown(after, k) = Shown(db[r], k)
      /\ \A x \in Shown(after, n.id) :
            x \in Shown(db[r], n.id) /\ ~(x.document = d /\ x.timestamp < t)
    BY <1>2 DEF RemoveEffect, Removed
<1>6. g \in Graphs /\ Ids(g) = Ids(graph[r]) \ {n.id}
    BY <1>3, RemoveGraph
<1>7. /\ m \in Message(t) /\ m.document = d /\ m.timestamp = t /\ m.node = n
      /\ RemovalOf(m, n.id) /\ \A k : k # n.id => ~RemovalOf(m, k)
      /\ \A k : ~CreateOf(m, k)
    <2>1. m \in Message(t)
        BY <1>1, <1>3, MessageIs
    <2>. QED  BY <2>1 DEF CreateDelete, CreateOf, RemovalOf
<1>8. <<m>> \in Inbox(t) /\ boxes \in [Replica -> Inbox(t)]
    <2>1. <<m>> \in Inbox(t)
        BY <1>7, SentOne
    <2>. HIDE DEF m, t
    <2>. QED  BY <1>3, <2>1, PostIs
<1>. HIDE DEF m, g, after, safe
<1>9. stage' \in Life /\ stage'[n.id] = "removed" /\ \A k \in NodeId : k # n.id => stage'[k] = stage[k]
    BY <1>1, <1>3 DEF SessionTypes, Life
<1>10. SessionTypes'
    <2>1. after \in Tables(clock') /\ boxes \in [Replica -> Inbox(clock')]
          /\ clock' \in 0 .. MaxTime /\ (clock' = clock \/ clock' = clock + 1)
        BY <1>3, <1>5, <1>8
    <2>. HIDE DEF boxes, t
    <2>. QED  BY <1>1, <1>4, <1>6, <1>9, <2>1, TypesKeep
<1>11. /\ db'[r] = after /\ inbox' = boxes /\ open' = open
       /\ r \notin crashed' => safe /\ graph'[r] = g
       /\ crashed \subseteq crashed'
       /\ \A q \in Replica : q # r => db'[q] = db[q] /\ graph'[q] = graph[q]
    <2>. HIDE DEF boxes
    <2>. QED  BY <1>1, <1>4, CommittedIs
<1>12. NodeOK(n.id)'
    <2>. DEFINE k == n.id
    <2>1. \A q \in Replica : InOrder(inbox[q], k)
        BY <1>1 DEF NodeOK, KnownOK
    <2>2. \A q \in Replica :
              IF q = r THEN boxes[q] = inbox[q] ELSE Told(boxes[q], inbox[q], m, k)
        <3>. HIDE DEF k, t
        <3>1. RemovalOf(m, k)
            BY <1>7 DEF k
        <3>. QED  BY <1>3, <1>7, <2>1, <3>1, PostRemoval
    <2>. HIDE DEF boxes
    <2>4. inbox'[r] = inbox[r] /\ Retracts(k, r, open[r], clock + 1)
        BY <1>1, <1>5, <1>6, <1>11, <2>2 DEF Retracts
    <2>3. Tells(k, r, {m})
        BY <1>11, <2>1, <2>2 DEF Tells, Told
    <2>5. m.document = open[r] /\ m.timestamp = clock + 1
        BY <1>7
    <2>6. stage'[k] = "removed" /\ k \in NodeId /\ NodeOK(k) /\ k \in Ids(graph[r])
        BY <1>1, <1>9
    <2>. HIDE DEF k
    <2>7. NodeOK(k)'
        BY <1>1, <1>11, <2>3, <2>4, <2>5, <2>6, RemovalKeeps
    <2>. QED  BY <2>7 DEF k
<1>13. ASSUME NEW k \in NodeId, k # n.id
       PROVE  NodeOK(k)'
    <2>1. \A q \in Replica : InOrder(inbox[q], k)
        BY <1>1 DEF NodeOK, KnownOK
    <2>2. Creates(<<m>>, k) = {} /\ Removals(<<m>>, k) = {}
        <3>. HIDE DEF t
        <3>. QED  BY <1>7, <1>13, SentOne
    <2>3. \A q \in Replica : Same(boxes[q], inbox[q], k)
        <3>. DEFINE sent == <<m>>
        <3>1. sent \in Inbox(t) /\ Creates(sent, k) = {} /\ Removals(sent, k) = {}
            BY <1>8, <2>2
        <3>. HIDE DEF sent, t
        <3>2. \A q \in Replica : Same(Post(inbox, r, sent)[q], inbox[q], k)
            BY <1>3, <2>1, <3>1, PostSilent
        <3>. QED  BY <3>2 DEF sent
    <2>4. Undisturbed(k)
        <3>1. stage'[k] = stage[k] /\ Shown(after, k) = Shown(db[r], k)
              /\ (k \in Ids(g) => k \in Ids(graph[r]))
            BY <1>5, <1>6, <1>9, <1>13
        <3>. HIDE DEF boxes
        <3>. QED  BY <1>1, <1>4, <2>3, <3>1, OthersUndisturbed
    <2>. QED  BY <1>1, <2>4, UndisturbedKeeps
<1>. QED  BY <1>10, <1>12, <1>13 DEF RemovalInv, NodeOK

LEMMA UserEdgeStep ==
    ASSUME RemovalInv, NEW r \in Replica, NEW from \in NodeId, NEW to \in NodeId,
           NEW deleted \in BOOLEAN, NEW h, NEW safe,
           h \in Graphs, Ids(h) = Ids(graph[r]),
           UserEdgeEffect(r, from, to, h, safe, deleted)
    PROVE  RemovalInv'
<1>. DEFINE t == clock + 1  m == ConnectDisconnect(from, to, "Assert", t)
            boxes == Post(inbox, r, <<m>>)  after == db'[r]
<1>1. SessionTypes
    BY DEF RemovalInv
<1>2. /\ clock < MaxTime /\ clock' = t /\ stage' = stage
      /\ Committed(r, after, h, boxes, safe) /\ EdgeRow(r, from, to, t, deleted)
    BY DEF UserEdgeEffect
<1>3. t \in 0 .. t /\ t \in 0 .. MaxTime
    BY <1>1, <1>2, AnyTime
<1>4. /\ boxes \in [Replica -> Inbox(t)]
      /\ \A n \in NodeId : \A q \in Replica : Same(boxes[q], inbox[q], n)
    BY <1>1, <1>3, SentEdge
<1>5. after \in Tables(clock') /\ after.document = db[r].document
    BY <1>2 DEF EdgeRow
<1>. HIDE DEF boxes, after
<1>. QED  BY <1>2, <1>3, <1>4, <1>5, SilentKeeps

LEMMA ConnectStep ==
    ASSUME Faultless, RemovalInv, NEW r \in Replica \ crashed, NEW from \in NodeId,
           NEW to \in NodeId, UserConnect(r, from, to)
    PROVE  RemovalInv'
<1>1. SessionTypes
    BY DEF RemovalInv
<1>2. ConnectEffect(r, from, to)
    BY <1>1, ConnectDoes
<1>. DEFINE h == connect(graph[r], from, to)
            safe == ConnectSafe(graph[r], from, to) /\ MeshSafe(h)
<1>3. PICK alive \in BOOLEAN : UserEdgeEffect(r, from, to, h, safe, alive)
    BY <1>2 DEF ConnectEffect
<1>4. h \in Graphs /\ Ids(h) = Ids(graph[r])
    BY <1>1, Site, EdgeGraph
<1>. HIDE DEF h, safe
<1>. QED  BY <1>3, <1>4, UserEdgeStep

LEMMA DisconnectStep ==
    ASSUME Faultless, RemovalInv, NEW r \in Replica \ crashed, NEW from \in NodeId,
           NEW to \in NodeId, UserDisconnect(r, from, to)
    PROVE  RemovalInv'
<1>1. SessionTypes
    BY DEF RemovalInv
<1>2. DisconnectEffect(r, from, to)
    BY <1>1, DisconnectDoes
<1>. DEFINE h == disconnect(graph[r], from, to)  safe == MeshSafe(h)
<1>3. PICK dead \in BOOLEAN : UserEdgeEffect(r, from, to, h, safe, dead)
    BY <1>2 DEF DisconnectEffect
<1>4. h \in Graphs /\ Ids(h) = Ids(graph[r])
    BY <1>1, Site, EdgeGraph
<1>. HIDE DEF h, safe
<1>. QED  BY <1>3, <1>4, UserEdgeStep

(* A call that writes attributes.                                           *)
LEMMA ValueStep ==
    ASSUME RemovalInv, NEW r \in Replica,
           clock' \in 0 .. MaxTime, clock' = clock \/ clock' = clock + 1,
           NEW txs \in Seq(ValueTxs(clock')), Len(txs) >= 1, NEW h, NEW boxes, NEW safe,
           Committed(r, Commit(db[r], SubSeq(txs, 1, Len(txs))), h, boxes, safe),
           safe => h \in Graphs /\ Ids(h) = Ids(graph[r]), stage' = stage,
           boxes \in [Replica -> Inbox(clock')],
           \A m \in NodeId : \A q \in Replica : Same(boxes[q], inbox[q], m)
    PROVE  RemovalInv'
<1>. DEFINE tables == db[r]  after == Commit(tables, SubSeq(txs, 1, Len(txs)))
            now == clock'
<1>1. SessionTypes
    BY DEF RemovalInv
<1>2. tables \in Tables(now)
    BY <1>1, Site, TablesLater
<1>3. after \in Tables(now) /\ after.document = tables.document
    <2>1. after = Commit(tables, SubSeq(txs, 1, Len(txs))) /\ txs \in Seq(ValueTxs(now))
        OBVIOUS
    <2>. HIDE DEF after, tables, now
    <2>. QED  BY <1>2, <2>1, CommitValues
<1>4. Committed(r, after, h, boxes, safe)
    OBVIOUS
<1>. HIDE DEF after
<1>. QED  BY <1>3, <1>4, SilentKeeps

LEMMA UpdateStep ==
    ASSUME Faultless, RemovalInv, NEW r \in Replica \ crashed, NEW n \in Handed,
           UserUpdate(r, n)
    PROVE  RemovalInv'
<1>. DEFINE t == clock + 1  txs == AttributeTxs(n, t, FALSE)  names == Attributes(n.kind)
            sent == AnnounceUpdate(n, t)  g == access(graph[r], n.id, n.attr)
            safe == /\ n.kind = "Sphere"
                    /\ AccessSafe(graph[r], n.id, n.kind)
                    /\ MeshSafe(g)
            boxes == Post(inbox, r, sent)
<1>1. SessionTypes /\ r \in Replica /\ n \in Nodes
    BY DEF RemovalInv, Handed
<1>2. clock' = t /\ t \in 0 .. t /\ t \in 0 .. MaxTime /\ stage' = stage
    <2>1. clock' = t /\ clock < MaxTime /\ clock \in Nat /\ MaxTime \in Nat /\ stage' = stage
        BY <1>1, Site DEF UserCall, UserUpdate
    <2>. QED  BY <2>1
<1>3. /\ names \in Seq(Attribute) /\ Len(names) \in Nat /\ Len(names) >= 1
      /\ \A i \in 1 .. Len(names) : /\ names[i] \in Attribute
                                    /\ names[i] \in ToSet(Attributes(n.kind))
                                    /\ n.attr[names[i]] \in Value
    <2>1. /\ names \in Seq(Attribute) /\ Len(names) \in 1 .. 2 /\ n.kind = Kind[n.id]
          /\ n.attr \in [ToSet(names) -> Value]
        BY <1>1, NodeFields, AttributesAre DEF Names
    <2>. HIDE DEF names
    <2>2. \A i \in 1 .. Len(names) : names[i] \in ToSet(names) /\ names[i] \in Attribute
        BY <2>1 DEF ToSet
    <2>3. \A a \in ToSet(names) : n.attr[a] \in Value
        BY <2>1
    <2>4. Len(names) \in Nat /\ Len(names) >= 1
        <3>. DEFINE k == Len(names)
        <3>1. k \in 1 .. 2
            BY <2>1
        <3>. HIDE DEF k
        <3>2. k \in Nat /\ k >= 1
            BY <3>1
        <3>. QED  BY <3>2 DEF k
    <2>5. ToSet(names) = ToSet(Attributes(n.kind))
        BY DEF names
    <2>. QED  BY <2>1, <2>2, <2>3, <2>4, <2>5
<1>4. txs \in Seq(ValueTxs(t)) /\ Len(txs) = Len(names)
    <2>1. txs = [i \in 1 .. Len(names) |-> Upsert(names[i], n.id, n.attr[names[i]], t)]
        BY <1>3 DEF AttributeTxs, Upsert, ValueTx
    <2>2. \A i \in 1 .. Len(names) : Upsert(names[i], n.id, n.attr[names[i]], t) \in ValueTxs(t)
        BY <1>1, <1>2, <1>3, NodeFields DEF ValueTxs
    <2>. DEFINE k == Len(names)  X == ValueTxs(t)
    <2>3. k \in Nat /\ txs \in [1 .. k -> X]
        BY <1>3, <2>1, <2>2
    <2>. HIDE DEF txs, k, X
    <2>4. txs \in Seq(X) /\ Len(txs) = k
        BY <2>3
    <2>. QED  BY <2>4 DEF k, X
<1>5. /\ sent \in Inbox(t) /\ \A m \in ToSet(sent) : m.type # "CreateDelete"
      /\ Len(sent) = Len(names)
    <2>1. sent = [i \in 1 .. Len(names) |-> Update(n, names[i], t)]
        BY <1>3 DEF AnnounceUpdate
    <2>2. \A i \in 1 .. Len(names) : Update(n, names[i], t) \in Message(t)
        BY <1>1, <1>2, <1>3, MessageIs
    <2>3. \A i \in 1 .. Len(names) : Update(n, names[i], t).type # "CreateDelete"
        BY DEF Update
    <2>. DEFINE k == Len(names)  X == Message(t)
    <2>4. k \in Nat /\ sent \in [1 .. k -> X]
        BY <1>3, <2>1, <2>2
    <2>5. \A m \in ToSet(sent) : m.type # "CreateDelete"
        BY <2>1, <2>3 DEF ToSet
    <2>. HIDE DEF sent, k, X
    <2>6. sent \in Seq(X) /\ Len(sent) = k
        BY <2>4
    <2>. QED  BY <2>5, <2>6 DEF k, X, Inbox
<1>6. SubSeq(sent, 1, Len(sent)) = sent
    <2>. HIDE DEF sent
    <2>. QED  BY <1>5 DEF Inbox
<1>7. Committed(r, Commit(db[r], SubSeq(txs, 1, Len(txs))), g, boxes, safe)
    <2>1. PICK k \in Progress(txs) :
             Outcome(r, txs, k, Post(inbox, r, SentOneByOne(sent, k)), g, safe)
        BY DEF UserUpdate
    <2>. HIDE DEF txs, sent, g, safe, names
    <2>2. k = Len(txs) /\ Committed(r, Commit(db[r], SubSeq(txs, 1, Len(txs))), g,
                                    Post(inbox, r, SentOneByOne(sent, k)), safe)
        BY <1>1, <2>1, OutcomeIs
    <2>3. SentOneByOne(sent, k) = sent
        BY <1>4, <1>5, <1>6, <2>2 DEF SentOneByOne
    <2>. QED  BY <2>2, <2>3
<1>8. /\ boxes \in [Replica -> Inbox(t)]
      /\ \A m \in NodeId : \A q \in Replica : Same(boxes[q], inbox[q], m)
    <2>1. t = clock \/ t = clock + 1
        OBVIOUS
    <2>. HIDE DEF t, sent
    <2>. QED  BY <1>5, <2>1, SentSilent
<1>9. safe => g \in Graphs /\ Ids(g) = Ids(graph[r])
    <2>. SUFFICES ASSUME AccessSafe(graph[r], n.id, n.kind)
                  PROVE  g \in Graphs /\ Ids(g) = Ids(graph[r])
        OBVIOUS
    <2>. DEFINE h == graph[r]  id == n.id  kind == n.kind  attrs == n.attr
    <2>1. /\ h \in Graphs /\ kind \in {"Sphere", "SetOperation"}
          /\ DOMAIN attrs \subseteq ToSet(Attributes(kind))
          /\ \A a \in DOMAIN attrs : attrs[a] \in Value
          /\ AccessSafe(h, id, kind)
        BY <1>1, Site, NodeFields DEF Names
    <2>. HIDE DEF h, id, kind, attrs
    <2>2. access(h, id, attrs) \in Graphs /\ Ids(access(h, id, attrs)) = Ids(h)
        BY <2>1, AccessGraph
    <2>. QED  BY <2>2 DEF h, id, attrs
<1>. HIDE DEF g, safe, boxes, txs
<1>10. /\ clock' \in 0 .. MaxTime /\ (clock' = clock \/ clock' = clock + 1)
       /\ txs \in Seq(ValueTxs(clock')) /\ Len(txs) >= 1
       /\ boxes \in [Replica -> Inbox(clock')]
    BY <1>2, <1>3, <1>4, <1>8
<1>. QED  BY <1>1, <1>2, <1>7, <1>8, <1>9, <1>10, ValueStep

LEMMA ReceiveConnectStep ==
    ASSUME Faultless, RemovalInv, NEW r \in Replica \ crashed, NEW i \in DOMAIN inbox[r],
           ReceiveConnect(r, i)
    PROVE  RemovalInv'
<1>. DEFINE boxes == Taken(r, i)  after == db'[r]
<1>1. SessionTypes
    BY DEF RemovalInv
<1>2. ReceiveConnectEffect(r, i)
    BY <1>1, ReceiveConnectDoes
<1>3. PICK m \in ToSet(inbox[r]), alive \in BOOLEAN :
         /\ Receive(r, i, m, "ConnectDisconnect", "Assert")
         /\ Committed(r, after, connect(graph[r], m.from, m.to), boxes,
                      IsOpen(r) /\ ConnectSafe(graph[r], m.from, m.to))
         /\ EdgeRow(r, m.from, m.to, m.timestamp, alive)
         /\ clock' = clock /\ stage' = stage
    BY <1>2 DEF ReceiveConnectEffect
<1>. DEFINE h == connect(graph[r], m.from, m.to)
            safe == IsOpen(r) /\ ConnectSafe(graph[r], m.from, m.to)
<1>4. /\ m \in Message(clock) /\ m.type = "ConnectDisconnect"
      /\ boxes \in [Replica -> Inbox(clock)]
    BY <1>1, <1>3, ReceivedIs
<1>5. clock \in 0 .. MaxTime /\ h \in Graphs /\ Ids(h) = Ids(graph[r])
    BY <1>1, <1>4, MessageFields, Site, EdgeGraph
<1>6. \A n \in NodeId : \A q \in Replica : Same(boxes[q], inbox[q], n)
    BY <1>3, TakenSilent
<1>7. Committed(r, after, h, boxes, safe) /\ after \in Tables(clock')
      /\ after.document = db[r].document
    BY <1>3 DEF EdgeRow
<1>. HIDE DEF boxes, after, h, safe
<1>8. /\ clock' \in 0 .. MaxTime /\ (clock' = clock \/ clock' = clock + 1)
      /\ boxes \in [Replica -> Inbox(clock')] /\ stage' = stage
    BY <1>3, <1>4, <1>5
<1>. QED  BY <1>5, <1>6, <1>7, <1>8, SilentKeeps

LEMMA ReceiveDisconnectStep ==
    ASSUME Faultless, RemovalInv, NEW r \in Replica \ crashed, NEW i \in DOMAIN inbox[r],
           ReceiveDisconnect(r, i)
    PROVE  RemovalInv'
<1>. DEFINE boxes == Taken(r, i)  after == db'[r]
<1>1. SessionTypes
    BY DEF RemovalInv
<1>2. ReceiveDisconnectEffect(r, i)
    BY <1>1, ReceiveDisconnectDoes
<1>3. PICK m \in ToSet(inbox[r]), dead \in BOOLEAN :
         /\ Receive(r, i, m, "ConnectDisconnect", "Retract")
         /\ Committed(r, after, disconnect(graph[r], m.from, m.to), boxes,
                      IsOpen(r))
         /\ EdgeRow(r, m.from, m.to, m.timestamp, dead)
         /\ clock' = clock /\ stage' = stage
    BY <1>2 DEF ReceiveDisconnectEffect
<1>. DEFINE h == disconnect(graph[r], m.from, m.to)
            safe == IsOpen(r)
<1>4. /\ m \in Message(clock) /\ m.type = "ConnectDisconnect"
      /\ boxes \in [Replica -> Inbox(clock)]
    BY <1>1, <1>3, ReceivedIs
<1>5. clock \in 0 .. MaxTime /\ h \in Graphs /\ Ids(h) = Ids(graph[r])
    BY <1>1, <1>4, MessageFields, Site, EdgeGraph
<1>6. \A n \in NodeId : \A q \in Replica : Same(boxes[q], inbox[q], n)
    BY <1>3, TakenSilent
<1>7. Committed(r, after, h, boxes, safe) /\ after \in Tables(clock')
      /\ after.document = db[r].document
    BY <1>3 DEF EdgeRow
<1>. HIDE DEF boxes, after, h, safe
<1>8. /\ clock' \in 0 .. MaxTime /\ (clock' = clock \/ clock' = clock + 1)
      /\ boxes \in [Replica -> Inbox(clock')] /\ stage' = stage
    BY <1>3, <1>4, <1>5
<1>. QED  BY <1>5, <1>6, <1>7, <1>8, SilentKeeps

LEMMA ReceiveUpdateStep ==
    ASSUME Faultless, RemovalInv, NEW r \in Replica \ crashed, NEW i \in DOMAIN inbox[r],
           ReceiveUpdate(r, i)
    PROVE  RemovalInv'
<1>. DEFINE boxes == Taken(r, i)
<1>1. PICK m \in ToSet(inbox[r]) :
         /\ Receive(r, i, m, "Update", "Assert")
         /\ \E k \in Progress(<<Upsert(m.attribute, m.uid, m.val, m.timestamp)>>) :
              Outcome(r, <<Upsert(m.attribute, m.uid, m.val, m.timestamp)>>, k, boxes,
                      access(graph[r], m.uid, [a \in {m.attribute} |-> m.val]),
                      IsOpen(r) /\ AccessSafe(graph[r], m.uid, m.kind))
         /\ clock' = clock /\ stage' = stage
    BY DEF ReceiveUpdate, Upsert, ValueTx
<1>. DEFINE t == m.timestamp  tx == Upsert(m.attribute, m.uid, m.val, t)  txs == <<tx>>
            id == m.uid  kind == m.kind  attrs == [a \in {m.attribute} |-> m.val]
            g == graph[r]  h == access(g, id, attrs)
            safe == IsOpen(r) /\ AccessSafe(g, id, kind)
<1>2. SessionTypes /\ r \in Replica
    BY DEF RemovalInv
<1>3. /\ m \in Message(clock) /\ m.type = "Update"
      /\ boxes \in [Replica -> Inbox(clock)]
    <2>. HIDE DEF boxes
    <2>. QED  BY <1>1, <1>2, ReceivedIs DEF boxes
<1>4. /\ m.uid \in NodeId /\ m.kind \in {"Sphere", "SetOperation"}
      /\ m.attribute \in Attribute /\ m.val \in Value
      /\ m.attribute \in ToSet(Attributes(m.kind))
      /\ t \in 0 .. clock' /\ clock' \in 0 .. MaxTime
    BY <1>1, <1>2, <1>3, MessageFields, Site
<1>5. \A n \in NodeId : \A q \in Replica : Same(boxes[q], inbox[q], n)
    BY <1>1, TakenSilent
<1>6. safe => h \in Graphs /\ Ids(h) = Ids(g)
    <2>1. /\ g \in Graphs /\ kind \in {"Sphere", "SetOperation"}
          /\ DOMAIN attrs \subseteq ToSet(Attributes(kind))
          /\ \A a \in DOMAIN attrs : attrs[a] \in Value
        BY <1>2, <1>4, Site
    <2>. HIDE DEF g, id, kind, attrs
    <2>. QED  BY <2>1, AccessGraph
<1>7. PICK k \in Progress(txs) : Outcome(r, txs, k, boxes, h, safe)
    BY <1>1
<1>8. Committed(r, Commit(db[r], SubSeq(txs, 1, Len(txs))), h, boxes, safe)
    <2>. HIDE DEF txs, h, safe, boxes
    <2>. QED  BY <1>2, <1>7, OutcomeIs
<1>9. txs \in Seq(ValueTxs(clock')) /\ Len(txs) >= 1
    <2>1. tx \in ValueTxs(clock')
        BY <1>4 DEF ValueTxs
    <2>. HIDE DEF tx
    <2>. QED  BY <2>1
<1>. HIDE DEF h, safe, boxes, txs
<1>. QED  BY <1>1, <1>2, <1>3, <1>4, <1>5, <1>6, <1>8, <1>9, ValueStep

LEMMA ReceiveCreateStep ==
    ASSUME Faultless, RemovalInv, NEW r \in Replica \ crashed, NEW i \in DOMAIN inbox[r],
           ReceiveCreate(r, i)
    PROVE  RemovalInv'
<1>. DEFINE boxes == Taken(r, i)  tables == db[r]  after == db'[r]
<1>1. SessionTypes /\ r \in Replica /\ \A k \in NodeId : NodeOK(k)
    BY DEF RemovalInv, NodeOK
<1>2. ReceiveCreateEffect(r, i)
    BY <1>1, ReceiveCreateDoes
<1>3. PICK m \in ToSet(inbox[r]), safe \in BOOLEAN :
         /\ Receive(r, i, m, "CreateDelete", "Assert")
         /\ Committed(r, after,
                      IF open[r] = m.document THEN create(graph[r], m.node) ELSE graph[r],
                      boxes, safe)
         /\ after \in Tables(clock) /\ Entered(tables, after, m.node, m.document, m.timestamp)
         /\ clock' = clock /\ stage' = stage
    BY <1>2 DEF ReceiveCreateEffect
<1>. DEFINE n == m.node  d == m.document  t == m.timestamp
            g == IF open[r] = d THEN create(graph[r], n) ELSE graph[r]
<1>4. /\ inbox[r] # <<>> /\ m = inbox[r][1]
      /\ m \in Message(clock) /\ m.type = "CreateDelete" /\ m.change = "Assert"
      /\ boxes \in [Replica -> Inbox(clock)]
      /\ boxes[r] = Tail(inbox[r])
      /\ \A q \in Replica : q # r => boxes[q] = inbox[q]
    BY <1>1, <1>3, ReceivedIs
<1>5. /\ n \in Nodes /\ n.id \in NodeId /\ d \in Document
      /\ clock \in 0 .. MaxTime /\ graph[r] \in Graphs /\ inbox[r] \in Inbox(clock)
    BY <1>1, <1>4, MessageFields, NodeFields, Site
<1>6. /\ CreateOf(m, n.id) /\ ~RemovalOf(m, n.id)
      /\ \A k : k # n.id => ~CreateOf(m, k) /\ ~RemovalOf(m, k)
    BY <1>4 DEF CreateOf, RemovalOf
<1>7. Committed(r, after, g, boxes, safe) /\ after \in Tables(clock)
    BY <1>3
<1>8. /\ \A k \in NodeId \ {n.id} : Shown(after, k) = Shown(tables, k)
      /\ Shown(after, n.id) # {}
      /\ \A x \in Shown(after, n.id) :
            x \in Shown(tables, n.id) \/ (x.document = d /\ x.timestamp = t /\ x.type = Kind[n.id])
    BY <1>3 DEF Entered
<1>9. /\ g \in Graphs /\ Ids(g) \subseteq Ids(graph[r]) \cup {n.id}
      /\ open[r] # d => g = graph[r]
    <2>1. CASE open[r] = d
        <3>1. g = create(graph[r], n)
            BY <2>1
        <3>. QED  BY <1>5, <2>1, <3>1, CreateGraph
    <2>2. CASE open[r] # d
        BY <1>5, <2>2
    <2>. QED  BY <2>1, <2>2
<1>. HIDE DEF g, after, boxes
<1>10. /\ db'[r] = after /\ inbox' = boxes /\ open' = open
       /\ r \notin crashed' => graph'[r] = g
       /\ crashed \subseteq crashed'
       /\ \A q \in Replica : q # r => db'[q] = db[q] /\ graph'[q] = graph[q]
    BY <1>1, <1>7, CommittedIs
<1>11. SessionTypes'
    <2>1. /\ after \in Tables(clock') /\ boxes \in [Replica -> Inbox(clock')]
          /\ clock' \in 0 .. MaxTime /\ (clock' = clock \/ clock' = clock + 1)
          /\ stage' \in Life
        BY <1>3, <1>1, <1>4, <1>5, <1>7 DEF SessionTypes
    <2>. QED  BY <1>1, <1>7, <1>9, <2>1, TypesKeep
<1>12. NodeOK(n.id)'
    <2>. DEFINE k == n.id
    <2>1. \A q \in Replica : InOrder(inbox[q], k)
        BY <1>1, <1>5 DEF NodeOK, KnownOK
    <2>2. /\ Creates(boxes[r], k) = {} /\ InOrder(boxes[r], k)
          /\ Removals(boxes[r], k) = Removals(inbox[r], k)
        <3>. HIDE DEF k, n
        <3>1. InOrder(inbox[r], k) /\ CreateOf(inbox[r][1], k) /\ ~RemovalOf(inbox[r][1], k)
            BY <1>1, <1>4, <1>6, <2>1 DEF k
        <3>2. /\ InOrder(Tail(inbox[r]), k) /\ Creates(Tail(inbox[r]), k) = {}
              /\ Removals(Tail(inbox[r]), k) = Removals(inbox[r], k)
            BY <1>4, <1>5, <3>1, TakenKeeps
        <3>. QED  BY <1>4, <3>2
    <2>3. m \in Creates(inbox[r], k)
        BY <1>3, <1>6 DEF Creates
    <2>4. /\ Creates(inbox'[r], k) = {} /\ Shown(db'[r], k) # {}
          /\ \A x \in Shown(db'[r], k) :
                \/ x \in Shown(db[r], k)
                \/ x.document = m.document /\ x.timestamp = m.timestamp /\ x.type = Kind[k]
          /\ \A q \in Replica :
                /\ Removals(inbox'[q], k) = Removals(inbox[q], k) /\ InOrder(inbox'[q], k)
                /\ q # r => /\ Shown(db'[q], k) = Shown(db[q], k)
                            /\ Creates(inbox'[q], k) = Creates(inbox[q], k)
                            /\ q \notin crashed' => Ids(graph'[q]) = Ids(graph[q])
        BY <1>4, <1>8, <1>10, <2>1, <2>2
    <2>5. r \notin crashed' /\ k \in Ids(graph'[r]) => k \in Ids(graph[r]) \/ open[r] = m.document
        BY <1>9, <1>10
    <2>6. k \in NodeId /\ NodeOK(k) /\ stage'[k] = stage[k]
        BY <1>3, <1>1, <1>5
    <2>. HIDE DEF k
    <2>7. NodeOK(k)'
        BY <1>1, <1>10, <2>3, <2>4, <2>5, <2>6, ArrivalKeeps
    <2>. QED  BY <2>7 DEF k
<1>13. ASSUME NEW k \in NodeId, k # n.id
       PROVE  NodeOK(k)'
    <2>1. \A q \in Replica : Same(boxes[q], inbox[q], k)
        BY <1>3, <1>1, <1>6, <1>13, TakenOthers DEF boxes
    <2>2. Undisturbed(k)
        <3>1. stage'[k] = stage[k] /\ Shown(after, k) = Shown(db[r], k)
              /\ (k \in Ids(g) => k \in Ids(graph[r]))
            BY <1>3, <1>8, <1>9, <1>13
        <3>. QED  BY <1>1, <1>7, <2>1, <3>1, OthersUndisturbed
    <2>. QED  BY <1>1, <2>2, UndisturbedKeeps
<1>. QED  BY <1>11, <1>12, <1>13 DEF RemovalInv, NodeOK

(* The echo of a removal, or nothing, is posted after the message that      *)
(* announced it is taken.                                                   *)
Echoed(r, k, boxes, now, echoes) ==
    /\ boxes \in [Replica -> Inbox(now)] /\ boxes[r] = Tail(inbox[r])
    /\ \A n \in NodeId : n # k => \A q \in Replica : Same(boxes[q], inbox[q], n)
    /\ \A q \in Replica : q # r =>
          /\ InOrder(boxes[q], k)
          /\ Creates(boxes[q], k) = Creates(inbox[q], k)
          /\ Removals(boxes[q], k) = Removals(inbox[q], k) \cup echoes

LEMMA EchoPosted ==
    ASSUME Faultless, RemovalInv, NEW r \in Replica, NEW i \in DOMAIN inbox[r], NEW m,
           Receive(r, i, m, "CreateDelete", "Retract"),
           NEW now, now = clock + 1, NEW sent, NEW echoes,
           m \in Message(clock), now \in 0 .. now, Echo(now, sent, echoes, m.node),
           NEW boxes, boxes = Post(Taken(r, i), r, sent)
    PROVE  m.node.id \in NodeId => Echoed(r, m.node.id, boxes, now, echoes)
<1>. DEFINE k == m.node.id  rest == Taken(r, i)
<1>1. SessionTypes /\ \A n \in NodeId : NodeOK(n)
    BY DEF RemovalInv, NodeOK
<1>2. /\ m.type = "CreateDelete" /\ m.change = "Retract"
      /\ rest \in [Replica -> Inbox(clock)]
      /\ rest[r] = Tail(inbox[r])
      /\ \A q \in Replica : q # r => rest[q] = inbox[q]
    <2>. HIDE DEF rest
    <2>. QED  BY <1>1, ReceivedIs DEF rest
<1>3. rest \in [Replica -> Inbox(now)]
    <2>1. clock \in Nat /\ \A q \in Replica : rest[q] \in Inbox(clock)
        BY <1>1, <1>2, Site
    <2>2. \A q \in Replica : rest[q] \in Inbox(now)
        BY <2>1, MessagesLater
    <2>. QED  BY <1>2, <2>2
<1>4. ASSUME NEW n \in NodeId, n # k
      PROVE  \A q \in Replica : Same(rest[q], inbox[q], n)
    <2>1. ~CreateOf(m, n) /\ ~RemovalOf(m, n)
        BY <1>4 DEF CreateOf, RemovalOf
    <2>. HIDE DEF k, rest
    <2>. QED  BY <2>1, TakenOthers DEF rest
<1>5. \A q \in Replica : q # r => \A n \in NodeId : InOrder(rest[q], n)
    BY <1>1, <1>2 DEF NodeOK, KnownOK
<1>6. \/ sent = <<>> /\ echoes = {}
      \/ \E e \in Message(now) : sent = <<e>> /\ echoes = {e} /\ RemovalOf(e, k)
    <2>1. m.node \in Nodes
        BY <1>2, MessageFields
    <2>2. \A d \in Document : /\ CreateDelete(m.node, d, "Retract", now) \in Message(now)
                              /\ RemovalOf(CreateDelete(m.node, d, "Retract", now), k)
        BY <2>1, MessageIs DEF CreateDelete, RemovalOf
    <2>. QED  BY <2>2 DEF Echo
<1>7. sent \in Inbox(now)
    <2>1. CASE sent = <<>>
        BY <2>1 DEF Inbox
    <2>2. CASE \E e \in Message(now) : sent = <<e>>
        <3>1. PICK e \in Message(now) : sent = <<e>>
            BY <2>2
        <3>2. <<e>> \in Inbox(now)
            BY SentOne
        <3>. QED  BY <3>1, <3>2
    <2>. QED  BY <1>6, <2>1, <2>2
<1>8. ASSUME NEW n \in NodeId
      PROVE  /\ InOrder(sent, n) /\ Creates(sent, n) = {}
             /\ Removals(sent, n) = IF n = k THEN echoes ELSE {}
    <2>1. CASE sent = <<>> /\ echoes = {}
        BY <2>1 DEF InOrder, Creates, Removals, ToSet
    <2>2. CASE \E e \in Message(now) : sent = <<e>> /\ echoes = {e} /\ RemovalOf(e, k)
        <3>1. PICK e \in Message(now) : sent = <<e>> /\ echoes = {e} /\ RemovalOf(e, k)
            BY <2>2
        <3>2. ~CreateOf(e, n) /\ (RemovalOf(e, n) <=> n = k)
            BY <3>1 DEF CreateOf, RemovalOf
        <3>3. /\ InOrder(sent, n) /\ Creates(sent, n) = {x \in {e} : CreateOf(x, n)}
              /\ Removals(sent, n) = {x \in {e} : RemovalOf(x, n)}
            BY <3>1, SentOne
        <3>. HIDE DEF k
        <3>. QED  BY <3>1, <3>2, <3>3
    <2>. QED  BY <1>6, <2>1, <2>2
<1>9. /\ boxes \in [Replica -> Inbox(now)] /\ boxes[r] = Tail(inbox[r])
      /\ \A q \in Replica : q # r => boxes[q] = Joined(inbox[q], sent)
    <2>. HIDE DEF rest
    <2>1. /\ boxes \in [Replica -> Inbox(now)]
          /\ \A q \in Replica : boxes[q] = IF q = r THEN rest[q] ELSE Joined(rest[q], sent)
        BY <1>3, <1>7, PostIs DEF rest
    <2>. QED  BY <1>2, <2>1
<1>10. ASSUME NEW n \in NodeId, NEW q \in Replica, q # r
      PROVE  /\ InOrder(boxes[q], n) /\ Creates(boxes[q], n) = Creates(inbox[q], n)
             /\ Removals(boxes[q], n) = Removals(inbox[q], n) \cup IF n = k THEN echoes ELSE {}
    <2>. DEFINE s == inbox[q]
    <2>1. s \in Inbox(now) /\ InOrder(s, n)
        BY <1>2, <1>3, <1>5, <1>10
    <2>. HIDE DEF s, rest, k
    <2>2. Fits(s, sent, n)
        BY <1>8 DEF Fits
    <2>3. Follows(s, sent, n)
        BY <1>7, <1>8, <2>1, <2>2, PostedKeeps
    <2>. QED  BY <1>8, <1>9, <1>10, <2>3 DEF Follows, s
<1>11. ASSUME NEW n \in NodeId, n # k, NEW q \in Replica
       PROVE  Same(boxes[q], inbox[q], n)
    <2>1. CASE q # r
        <3>1. /\ InOrder(boxes[q], n) /\ Creates(boxes[q], n) = Creates(inbox[q], n)
              /\ Removals(boxes[q], n) = Removals(inbox[q], n) \cup {}
            BY <1>10, <1>11, <2>1
        <3>. QED  BY <3>1 DEF Same
    <2>2. CASE q = r
        BY <1>2, <1>4, <1>9, <1>11, <2>2
    <2>. QED  BY <2>1, <2>2
<1>. HIDE DEF rest
<1>. QED  BY <1>9, <1>10, <1>11 DEF Echoed

LEMMA ReceiveRemoveStep ==
    ASSUME Faultless, RemovalInv, NEW r \in Replica \ crashed, NEW i \in DOMAIN inbox[r],
           ReceiveRemove(r, i)
    PROVE  RemovalInv'
<1>. DEFINE now == clock + 1  tables == db[r]  after == db'[r]
<1>1. SessionTypes /\ r \in Replica /\ \A k \in NodeId : NodeOK(k)
    BY DEF RemovalInv, NodeOK
<1>2. ReceiveRemoveEffect(r, i)
    BY <1>1, ReceiveRemoveDoes
<1>0. PICK m \in ToSet(inbox[r]) : \E sent, echoes :
         /\ Receive(r, i, m, "CreateDelete", "Retract")
         /\ Echo(now, sent, echoes, m.node)
         /\ Committed(r, after, remove(graph[r], m.node.id), Post(Taken(r, i), r, sent),
                      IsOpen(r) /\ MeshSafe(remove(graph[r], m.node.id)))
         /\ after \in Tables(now) /\ Removed(tables, after, m.node, m.document, m.timestamp)
         /\ clock < MaxTime /\ clock' = now /\ stage' = stage
    BY <1>2 DEF ReceiveRemoveEffect
<1>3. PICK sent, echoes :
         /\ Receive(r, i, m, "CreateDelete", "Retract")
         /\ Echo(now, sent, echoes, m.node)
         /\ Committed(r, after, remove(graph[r], m.node.id), Post(Taken(r, i), r, sent),
                      IsOpen(r) /\ MeshSafe(remove(graph[r], m.node.id)))
         /\ after \in Tables(now) /\ Removed(tables, after, m.node, m.document, m.timestamp)
         /\ clock < MaxTime /\ clock' = now /\ stage' = stage
    BY <1>0
<1>. DEFINE n == m.node  d == m.document  t == m.timestamp
            g == remove(graph[r], n.id)  safe == IsOpen(r) /\ MeshSafe(g)
            boxes == Post(Taken(r, i), r, sent)
<1>4. /\ inbox[r] # <<>> /\ m = inbox[r][1]
      /\ m \in Message(clock) /\ m.type = "CreateDelete" /\ m.change = "Retract"
    BY <1>1, <1>3, ReceivedIs
<1>5. /\ n \in Nodes /\ n.id \in NodeId /\ now \in 0 .. MaxTime /\ now \in 0 .. now
      /\ graph[r] \in Graphs /\ inbox[r] \in Inbox(clock)
    BY <1>1, <1>3, <1>4, MessageFields, NodeFields, Site, AnyTime
<1>6. RemovalOf(m, n.id) /\ ~CreateOf(m, n.id)
    BY <1>4 DEF CreateOf, RemovalOf
<1>7. Committed(r, after, g, boxes, safe) /\ after \in Tables(now)
    BY <1>3
<1>8. /\ \A k \in NodeId \ {n.id} : Shown(after, k) = Shown(tables, k)
      /\ \A x \in Shown(after, n.id) :
            x \in Shown(tables, n.id) /\ ~(x.document = d /\ x.timestamp < t)
    BY <1>3 DEF Removed
<1>9. g \in Graphs /\ Ids(g) = Ids(graph[r]) \ {n.id}
    BY <1>5, RemoveGraph
<1>10. \A o \in echoes : o.timestamp = clock + 1
    BY <1>3 DEF Echo, CreateDelete
<1>11. /\ boxes \in [Replica -> Inbox(now)] /\ boxes[r] = Tail(inbox[r])
       /\ \A k \in NodeId : k # n.id => \A q \in Replica : Same(boxes[q], inbox[q], k)
       /\ \A q \in Replica : q # r =>
             /\ InOrder(boxes[q], n.id)
             /\ Creates(boxes[q], n.id) = Creates(inbox[q], n.id)
             /\ Removals(boxes[q], n.id) = Removals(inbox[q], n.id) \cup echoes
    <2>1. boxes = Post(Taken(r, i), r, sent) /\ now = clock + 1
        OBVIOUS
    <2>2. /\ Receive(r, i, m, "CreateDelete", "Retract") /\ m \in Message(clock)
          /\ Echo(now, sent, echoes, m.node) /\ now \in 0 .. now
        BY <1>3, <1>4, <1>5
    <2>. HIDE DEF boxes, now, n
    <2>3. m.node.id \in NodeId => Echoed(r, m.node.id, boxes, now, echoes)
        BY <1>1, <2>1, <2>2, EchoPosted
    <2>4. Echoed(r, n.id, boxes, now, echoes)
        BY <1>5, <2>3 DEF n
    <2>. QED  BY <2>4 DEF Echoed
<1>. HIDE DEF g, after, safe, boxes
<1>12. /\ db'[r] = after /\ inbox' = boxes /\ open' = open
       /\ r \notin crashed' => graph'[r] = g
       /\ crashed \subseteq crashed'
       /\ \A q \in Replica : q # r => db'[q] = db[q] /\ graph'[q] = graph[q]
    BY <1>1, <1>7, CommittedIs
<1>13. SessionTypes'
    <2>1. /\ after \in Tables(clock') /\ boxes \in [Replica -> Inbox(clock')]
          /\ clock' \in 0 .. MaxTime /\ (clock' = clock \/ clock' = clock + 1)
          /\ stage' \in Life
        BY <1>1, <1>3, <1>5, <1>7, <1>11 DEF SessionTypes
    <2>. QED  BY <1>1, <1>7, <1>9, <2>1, TypesKeep
<1>14. NodeOK(n.id)'
    <2>. DEFINE k == n.id
    <2>1. \A q \in Replica : InOrder(inbox[q], k)
        BY <1>1, <1>5 DEF NodeOK, KnownOK
    <2>2. /\ Creates(boxes[r], k) = {} /\ InOrder(boxes[r], k)
          /\ Removals(boxes[r], k) \subseteq Removals(inbox[r], k)
          /\ \A o \in Removals(inbox[r], k) : o # m => o \in Removals(boxes[r], k)
        <3>1. InOrder(inbox[r], k) /\ RemovalOf(inbox[r][1], k)
            BY <1>4, <1>6, <2>1
        <3>. HIDE DEF k, n
        <3>2. /\ InOrder(Tail(inbox[r]), k) /\ Creates(Tail(inbox[r]), k) = {}
              /\ Removals(Tail(inbox[r]), k) \subseteq Removals(inbox[r], k)
              /\ \A o \in Removals(inbox[r], k) :
                    o # inbox[r][1] => o \in Removals(Tail(inbox[r]), k)
            BY <1>4, <1>5, <3>1, TakenKeeps
        <3>. QED  BY <1>4, <1>11, <3>2
    <2>3. m \in Removals(inbox[r], k)
        BY <1>3, <1>6 DEF Removals
    <2>4. Retracts(k, r, m.document, m.timestamp)
        BY <1>8, <1>9, <1>12 DEF Retracts
    <2>5. Tells(k, r, echoes)
        BY <1>11, <1>12, <2>2 DEF Tells
    <2>6. k \in NodeId /\ NodeOK(k) /\ stage'[k] = stage[k]
        BY <1>1, <1>3, <1>5
    <2>. HIDE DEF k
    <2>7. NodeOK(k)'
        BY <1>1, <1>10, <1>12, <2>2, <2>3, <2>4, <2>5, <2>6, RemovalArrivesKeeps
    <2>. QED  BY <2>7 DEF k
<1>15. ASSUME NEW k \in NodeId, k # n.id
       PROVE  NodeOK(k)'
    <2>1. Undisturbed(k)
        <3>1. stage'[k] = stage[k] /\ Shown(after, k) = Shown(db[r], k)
              /\ (k \in Ids(g) => k \in Ids(graph[r]))
            BY <1>3, <1>8, <1>9, <1>15
        <3>. QED  BY <1>1, <1>7, <1>11, <1>15, <3>1, OthersUndisturbed
    <2>. QED  BY <1>1, <2>1, UndisturbedKeeps
<1>. QED  BY <1>13, <1>14, <1>15 DEF RemovalInv, NodeOK

LEMMA OpenDocumentStep ==
    ASSUME RemovalInv, IsFiniteSet(Value), NEW r \in Replica, NEW d \in Document, Open(r, d)
    PROVE  RemovalInv'
<1>. DEFINE g == Opened(db[r], d)
<1>1. SessionTypes /\ \A n \in NodeId : NodeOK(n)
    BY DEF RemovalInv, NodeOK
<1>2. /\ open' = [open EXCEPT ![r] = d] /\ graph' = [graph EXCEPT ![r] = g]
      /\ db' = db /\ crashed' = crashed /\ inbox' = inbox /\ clock' = clock /\ stage' = stage
    BY DEF Open
<1>3. g \in Graphs /\ \A n \in Ids(g) : \E x \in Shown(db[r], n) : x.document = d
    <2>. DEFINE tables == db[r]
    <2>1. clock \in Nat /\ tables \in Tables(clock)
        BY <1>1, Site
    <2>2. \A n \in NodeId : \A x \in Shown(tables, n) : x.type = Kind[n]
        BY <1>1 DEF NodeOK, KnownOK
    <2>. HIDE DEF tables
    <2>. QED  BY <2>1, <2>2, OpenedKnown DEF tables
<1>. HIDE DEF g
<1>4. /\ open'[r] = d /\ graph'[r] = g
      /\ \A q \in Replica : q # r => open'[q] = open[q] /\ graph'[q] = graph[q]
    BY <1>1, <1>2 DEF SessionTypes
<1>5. SessionTypes'
    BY <1>1, <1>2, <1>3 DEF SessionTypes
<1>6. ASSUME NEW n \in NodeId
      PROVE  NodeOK(n)'
    <2>1. \A q \in Replica : InOrder(inbox[q], n)
        BY <1>1 DEF NodeOK, KnownOK
    <2>2. Undisturbed(n)
        BY <1>2, <1>3, <1>4, <2>1 DEF Undisturbed
    <2>. QED  BY <1>1, <2>2, UndisturbedKeeps
<1>. QED  BY <1>5, <1>6 DEF RemovalInv, NodeOK

LEMMA PeerStep ==
    ASSUME RemovalInv, NEW from \in NodeId, NEW to \in NodeId, PeerDisconnect(from, to)
    PROVE  RemovalInv'
<1>. DEFINE now == clock + 1  m == ConnectDisconnect(from, to, "Retract", now)  sent == <<m>>
<1>1. SessionTypes /\ \A n \in NodeId : NodeOK(n)
    BY DEF RemovalInv, NodeOK
<1>2. /\ clock < MaxTime /\ clock' = now
      /\ inbox' = [q \in Replica |-> Append(inbox[q], m)]
      /\ db' = db /\ open' = open /\ graph' = graph /\ crashed' = crashed /\ stage' = stage
    BY DEF PeerDisconnect
<1>3. now \in Nat /\ now \in 0 .. MaxTime /\ now \in 0 .. now
    <2>1. clock \in 0 .. MaxTime /\ MaxTime \in Nat
        BY <1>1, ViewModelAssumption DEF SessionTypes
    <2>. QED  BY <1>2, <2>1
<1>4. m \in Message(now) /\ m.type # "CreateDelete"
    BY <1>3, MessageIs DEF ConnectDisconnect
<1>. HIDE DEF m
<1>5. sent \in Inbox(now) /\ \A x \in ToSet(sent) : x.type # "CreateDelete"
    <2>. HIDE DEF now
    <2>1. <<m>> \in Inbox(now) /\ ToSet(<<m>>) = {m}
        BY <1>4, SentOne
    <2>. QED  BY <1>4, <2>1
<1>6. PICK r : r \notin Replica
    BY NoSetContainsEverything
<1>7. inbox' = Post(inbox, r, sent)
    <2>1. ASSUME NEW q \in Replica
          PROVE  Append(inbox[q], m) = inbox[q] \o sent
        <3>1. inbox[q] \in Seq(Message(clock))
            BY <1>1, Site DEF Inbox
        <3>. QED  BY <3>1
    <2>2. \A q \in Replica : q # r
        BY <1>6
    <2>3. Post(inbox, r, sent) = [q \in Replica |-> inbox[q] \o sent]
        BY <2>2 DEF Post
    <2>. QED  BY <1>2, <2>1, <2>3
<1>8. /\ inbox' \in [Replica -> Inbox(now)]
      /\ \A n \in NodeId : \A q \in Replica : Same(inbox'[q], inbox[q], n)
    <2>1. now = clock \/ now = clock + 1
        OBVIOUS
    <2>. HIDE DEF now, sent
    <2>. QED  BY <1>5, <1>7, <2>1, SentSilent
<1>9. SessionTypes'
    <2>1. \A q \in Replica : db[q] \in Tables(now)
        BY <1>1, Site, TablesLater
    <2>2. db \in [Replica -> Tables(now)]
        BY <1>1, <2>1 DEF SessionTypes
    <2>. QED  BY <1>1, <1>2, <1>3, <1>8, <2>2 DEF SessionTypes
<1>10. ASSUME NEW n \in NodeId
       PROVE  NodeOK(n)'
    <2>1. Undisturbed(n)
        BY <1>2, <1>8 DEF Undisturbed, Same
    <2>. QED  BY <1>1, <2>1, UndisturbedKeeps
<1>. QED  BY <1>9, <1>10 DEF RemovalInv, NodeOK

LEMMA SessionInitRemoval ==
    ASSUME Init \/ SessionInit
    PROVE  RemovalInv
<1>1. /\ db = [r \in Replica |-> EmptyTables]
      /\ graph = [r \in Replica |-> EmptyGraph]
      /\ crashed = {}
      /\ inbox = [r \in Replica |-> <<>>]
      /\ clock = 0
      /\ stage = [n \in NodeId |-> "unused"]
      /\ open \in [Replica -> Document \cup {NoDocument}]
    BY DEF Init, SessionInit
<1>2. EmptyTables \in Tables(0) /\ EmptyTables.document = <<>>
    <2>1. [radius |-> {}, coord |-> {}, type |-> {}] \in [Attribute -> SUBSET ValueRow(0)]
        BY DEF Attribute
    <2>. QED  BY <2>1 DEF EmptyTables, Tables
<1>3. <<>> \in Inbox(0)
    BY DEF Inbox
<1>4. SessionTypes
    <2>1. clock \in 0 .. MaxTime
        BY <1>1, ViewModelAssumption
    <2>. QED  BY <1>1, <1>2, <1>3, <2>1, EmptyGraphIs DEF SessionTypes, Life
<1>5. ASSUME NEW n \in NodeId
      PROVE  KnownOK(n) /\ BornOnce(n) /\ RemovalComes(n)
    <2>1. \A r \in Replica : db[r].document = <<>> /\ inbox[r] = <<>> /\ Ids(graph[r]) = {}
        BY <1>1, <1>2, EmptyGraphIs
    <2>2. \A r \in Replica : Shown(db[r], n) = {}
        BY <2>1 DEF Shown, NodeRows, ToSet
    <2>3. ToSet(<<>>) = {} /\ InOrder(<<>>, n)
        BY DEF ToSet, InOrder
    <2>4. \A r \in Replica : /\ Creates(inbox[r], n) = {} /\ Removals(inbox[r], n) = {}
                             /\ InOrder(inbox[r], n)
        BY <2>1, <2>3 DEF Creates, Removals
    <2>5. \A r \in Replica : Births(db[r], inbox[r], n) = {}
        BY <2>2, <2>4 DEF Births
    <2>6. stage[n] = "unused"
        BY <1>1
    <2>. QED  BY <2>1, <2>2, <2>4, <2>5, <2>6 DEF KnownOK, BornOnce, RemovalComes
<1>. QED  BY <1>4, <1>5 DEF RemovalInv

LEMMA NextKeepsRemoval ==
    ASSUME Faultless, IsFiniteSet(Value), RemovalInv, [Next]_vars
    PROVE  RemovalInv'
<1>1. CASE UNCHANGED vars
    BY <1>1 DEF vars, RemovalInv, SessionTypes, KnownOK, BornOnce, RemovalComes
<1>2. CASE \E from, to \in NodeId : PeerDisconnect(from, to)
    BY <1>2, PeerStep
<1>3. ASSUME NEW r \in Replica \ crashed,
             \/ \E d \in Document : Open(r, d)
             \/ \E n \in Handed : UserCreate(r, n) \/ UserUpdate(r, n)
             \/ \E n \in ToSet(graph[r].nodes) : UserRemove(r, n)
             \/ \E from, to \in NodeId :
                   /\ {from, to} \subseteq Ids(graph[r])
                   /\ UserConnect(r, from, to) \/ UserDisconnect(r, from, to)
             \/ \E i \in DOMAIN inbox[r] :
                   \/ ReceiveCreate(r, i) \/ ReceiveRemove(r, i)
                   \/ ReceiveConnect(r, i) \/ ReceiveDisconnect(r, i)
                   \/ ReceiveUpdate(r, i)
      PROVE  RemovalInv'
    <2>1. CASE \E d \in Document : Open(r, d)
        BY <2>1, OpenDocumentStep
    <2>2. CASE \E n \in Handed : UserCreate(r, n)
        BY <2>2, CreateStep
    <2>3. CASE \E n \in Handed : UserUpdate(r, n)
        BY <2>3, UpdateStep
    <2>4. CASE \E n \in ToSet(graph[r].nodes) : UserRemove(r, n)
        BY <2>4, RemoveStep
    <2>5. CASE \E from, to \in NodeId : UserConnect(r, from, to)
        BY <2>5, ConnectStep
    <2>6. CASE \E from, to \in NodeId : UserDisconnect(r, from, to)
        BY <2>6, DisconnectStep
    <2>7. CASE \E i \in DOMAIN inbox[r] : ReceiveCreate(r, i)
        BY <2>7, ReceiveCreateStep
    <2>8. CASE \E i \in DOMAIN inbox[r] : ReceiveRemove(r, i)
        BY <2>8, ReceiveRemoveStep
    <2>9. CASE \E i \in DOMAIN inbox[r] : ReceiveConnect(r, i)
        BY <2>9, ReceiveConnectStep
    <2>10. CASE \E i \in DOMAIN inbox[r] : ReceiveDisconnect(r, i)
        BY <2>10, ReceiveDisconnectStep
    <2>11. CASE \E i \in DOMAIN inbox[r] : ReceiveUpdate(r, i)
        BY <2>11, ReceiveUpdateStep
    <2>. QED  BY <1>3, <2>1, <2>2, <2>3, <2>4, <2>5, <2>6, <2>7, <2>8, <2>9, <2>10, <2>11
<1>. QED  BY <1>1, <1>2, <1>3 DEF Next

LEMMA RemovalInvImplies ==
    ASSUME RemovalInv, IsFiniteSet(Value)
    PROVE  RemovalArrives
<1>. SUFFICES ASSUME NEW r \in Replica \ crashed, NEW n \in NodeId, stage[n] = "removed",
                     ~ \E m \in ToSet(inbox[r]) : About(m, n)
              PROVE  /\ n \notin Ids(graph[r])
                     /\ \A d \in Document : n \notin Ids(Opened(db[r], d))
    BY DEF RemovalArrives
<1>1. SessionTypes /\ \A k \in NodeId : NodeOK(k)
    BY DEF RemovalInv, NodeOK
<1>2. Removals(inbox[r], n) = {}
    BY DEF Removals, RemovalOf, About
<1>3. Births(db[r], inbox[r], n) = {}
    BY <1>1, <1>2 DEF NodeOK, RemovalComes
<1>4. Shown(db[r], n) = {}
    BY <1>3 DEF Births
<1>5. n \notin Ids(graph[r])
    BY <1>1, <1>4 DEF NodeOK, RemovalComes
<1>6. ASSUME NEW d \in Document
      PROVE  n \notin Ids(Opened(db[r], d))
    <2>. DEFINE tables == db[r]  g == Opened(tables, d)
    <2>1. clock \in Nat /\ tables \in Tables(clock)
        BY <1>1, Site
    <2>2. \A k \in NodeId : \A x \in Shown(tables, k) : x.type = Kind[k]
        BY <1>1 DEF NodeOK, KnownOK
    <2>3. \A k \in Ids(g) : \E x \in Shown(tables, k) : x.document = d
        <3>. HIDE DEF tables
        <3>. QED  BY <2>1, <2>2, OpenedKnown
    <2>. QED  BY <1>4, <2>3
<1>. QED  BY <1>5, <1>6

(* While no transaction fails and messages keep their order, the replicas   *)
(* never lose a removal: whoever still shows or will show the node has its  *)
(* removal, from the document that shows it, on the way.                    *)
THEOREM SessionInvariant ==
    ASSUME Faultless, IsFiniteSet(Value)
    PROVE  (Spec \/ SessionSpec) => []RemovalInv
<1>1. Init \/ SessionInit => RemovalInv
    BY SessionInitRemoval
<1>2. RemovalInv /\ [Next]_vars => RemovalInv'
    BY NextKeepsRemoval
<1>. QED  BY <1>1, <1>2, PTL DEF Spec, SessionSpec

(* Once every message about a node that was removed has arrived at a        *)
(* replica, the node is gone there, from the graph and from the tables,     *)
(* whatever else the replicas did to it meanwhile.                          *)
THEOREM SessionRemovalArrives ==
    ASSUME Faultless, IsFiniteSet(Value)
    PROVE  (Spec \/ SessionSpec) => []RemovalArrives
<1>1. RemovalInv => RemovalArrives
    BY RemovalInvImplies
<1>. QED  BY <1>1, SessionInvariant, PTL

-----------------------------------------------------------------------------
(* A session: all replicas follow the same document.  As long as no replica *)
(* stops, a graph has the nodes that its tables show, and a message about   *)
(* an edge is about one that may be drawn.                                  *)
InSession ==
    /\ Faultless /\ IsFiniteSet(Value) /\ NoCycles
    /\ "update" \notin Calls
    /\ \E d : Document = {d}

Fine(m) ==
    /\ m.type # "Update"
    /\ m.type = "ConnectDisconnect" => <<m.from, m.to>> \in Drawable

Settled(tables, s, g, o) ==
    /\ o \in Document /\ Drawn(g)
    /\ \A x \in tables.edge : <<x.entity, x.entity_to>> \in Drawable
    /\ \A m \in ToSet(s) : Fine(m)

(* Nothing is written of a node before its creation has arrived.            *)
Place(tables, s, g, life, n) ==
    /\ life # "partial"
    /\ Shown(tables, n) # {} => CreatedOK(tables, n) /\ n \in Ids(g)
    /\ life = "unused" \/ Creates(s, n) # {} =>
          \A a \in Attribute : Written(tables, a, n) = {}
    /\ life = "created" => n \in Ids(g) \/ Creates(s, n) # {}

(* Before a message about an edge come its ends.                            *)
EndKnown(tables, s, i, e) ==
    Shown(tables, e) # {} \/ \E j \in DOMAIN s : j < i /\ CreateOf(s[j], e)

Ready(tables, s) ==
    \A i \in DOMAIN s :
        s[i].type = "ConnectDisconnect" =>
            EndKnown(tables, s, i, s[i].from) /\ EndKnown(tables, s, i, s[i].to)

Calm == \A n \in NodeId : stage[n] # "removed"

Home(tables, s, g, o, life) ==
    /\ Settled(tables, s, g, o)
    /\ \A n \in NodeId : Place(tables, s, g, life[n], n)

AllSettled ==
    \A r \in Replica : Home(db[r], inbox[r], graph[r], open[r], stage)

SessionInv ==
    /\ RemovalInv
    /\ crashed = {} => AllSettled
    /\ Calm => crashed = {} /\ \A r \in Replica : Ready(db[r], inbox[r])

-----------------------------------------------------------------------------
(* What a replica hears *)

(* A message is on its way to a replica after those in s.                   *)
LEMMA JoinedOne ==
    ASSUME NEW t, NEW s \in Inbox(t), NEW m \in Message(t),
           NEW w, w = Joined(s, <<m>>)
    PROVE  /\ ToSet(w) = ToSet(s) \cup {m}
           /\ Len(s) \in Nat /\ DOMAIN s = 1 .. Len(s) /\ DOMAIN w = 1 .. Len(s) + 1
           /\ \A i \in DOMAIN s : w[i] = s[i]
           /\ w[Len(s) + 1] = m
           /\ \A n : Creates(w, n) = Creates(s, n) \cup {x \in {m} : CreateOf(x, n)}
<1>. DEFINE u == <<m>>
<1>1. u \in Inbox(t) /\ ToSet(u) = {m} /\ Len(u) = 1 /\ u[1] = m
    BY SentOne
<1>. HIDE DEF u
<1>2. /\ ToSet(w) = ToSet(s) \cup {m} /\ DOMAIN s = 1 .. Len(s) /\ Len(s) \in Nat
      /\ DOMAIN w = 1 .. Len(s) + 1
      /\ \A i \in 1 .. Len(s) : w[i] = s[i]
      /\ w[Len(s) + 1] = m
    <2>1. w = s \o u /\ s \in Seq(Message(t)) /\ u \in Seq(Message(t)) /\ 1 \in 1 .. Len(u)
        BY <1>1 DEF Joined, Inbox, u
    <2>2. /\ ToSet(s \o u) = ToSet(s) \cup ToSet(u) /\ DOMAIN s = 1 .. Len(s) /\ Len(s) \in Nat
          /\ DOMAIN (s \o u) = 1 .. Len(s) + Len(u)
          /\ \A i \in 1 .. Len(s) : (s \o u)[i] = s[i]
          /\ \A i \in 1 .. Len(u) : (s \o u)[Len(s) + i] = u[i]
        BY <2>1, ConcatHas
    <2>3. w[Len(s) + 1] = m
        BY <1>1, <2>1, <2>2
    <2>. QED  BY <1>1, <2>1, <2>2, <2>3
<1>3. \A n : Creates(w, n) = Creates(s, n) \cup {x \in {m} : CreateOf(x, n)}
    BY <1>2 DEF Creates
<1>. QED  BY <1>2, <1>3

(* How the life of a node may go on when m is announced.                    *)
Lives(m, l, k) ==
    \A n \in NodeId :
        /\ CreateOf(m, n) => l[n] = "unused"
        /\ \/ k[n] = l[n]
           \/ k[n] = "removed"
           \/ l[n] = "unused" /\ k[n] = "created" /\ CreateOf(m, n)

LEMMA AnnouncedSettled ==
    ASSUME NEW t, NEW s \in Inbox(t), NEW m \in Message(t), Fine(m),
           NEW tables, NEW g, NEW o, Settled(tables, s, g, o)
    PROVE  Settled(tables, Joined(s, <<m>>), g, o)
<1>1. ToSet(Joined(s, <<m>>)) = ToSet(s) \cup {m}
    BY JoinedOne
<1>. QED  BY <1>1 DEF Settled

LEMMA AnnouncedPlace ==
    ASSUME NEW t, NEW s \in Inbox(t), NEW m \in Message(t),
           NEW l, NEW k, Lives(m, l, k),
           NEW tables, NEW g, NEW n \in NodeId, Place(tables, s, g, l[n], n)
    PROVE  Place(tables, Joined(s, <<m>>), g, k[n], n)
<1>1. Creates(Joined(s, <<m>>), n) = Creates(s, n) \cup {x \in {m} : CreateOf(x, n)}
    BY JoinedOne
<1>2. /\ CreateOf(m, n) => l[n] = "unused"
      /\ \/ k[n] = l[n]
         \/ k[n] = "removed"
         \/ l[n] = "unused" /\ k[n] = "created" /\ CreateOf(m, n)
    BY DEF Lives
<1>. DEFINE w == Joined(s, <<m>>)
<1>3. /\ Creates(s, n) # {} => Creates(w, n) # {}
      /\ CreateOf(m, n) => Creates(w, n) # {}
      /\ Creates(w, n) # {} => Creates(s, n) # {} \/ CreateOf(m, n)
    BY <1>1
<1>. HIDE DEF w
<1>. QED  BY <1>2, <1>3 DEF Place, w

(* What is on its way stays ready for what is announced.                    *)
LEMMA AnnouncedReady ==
    ASSUME NEW t, NEW s \in Inbox(t), NEW m \in Message(t), NEW tables, Ready(tables, s),
           m.type = "ConnectDisconnect" =>
              \A e \in {m.from, m.to} : Shown(tables, e) # {} \/ Creates(s, e) # {}
    PROVE  Ready(tables, Joined(s, <<m>>))
<1>. DEFINE w == Joined(s, <<m>>)
<1>1. /\ Len(s) \in Nat /\ DOMAIN s = 1 .. Len(s) /\ DOMAIN w = 1 .. Len(s) + 1
      /\ \A i \in DOMAIN s : w[i] = s[i]
      /\ w[Len(s) + 1] = m
    BY JoinedOne
<1>. HIDE DEF w
<1>2. DOMAIN s \subseteq DOMAIN w
    BY <1>1
<1>3. ASSUME NEW i \in DOMAIN s, NEW e, EndKnown(tables, s, i, e)
      PROVE  EndKnown(tables, w, i, e)
    BY <1>1, <1>2, <1>3 DEF EndKnown
<1>4. ASSUME NEW e, Shown(tables, e) # {} \/ Creates(s, e) # {}
      PROVE  EndKnown(tables, w, Len(s) + 1, e)
    <2>1. CASE Creates(s, e) # {}
        <3>1. PICK j \in DOMAIN s : CreateOf(s[j], e)
            BY <2>1 DEF Creates, ToSet
        <3>2. j \in DOMAIN w /\ j < Len(s) + 1 /\ CreateOf(w[j], e)
            BY <1>1, <1>2, <3>1
        <3>. QED  BY <3>2 DEF EndKnown
    <2>. QED  BY <1>4, <2>1 DEF EndKnown
<1>5. \A i \in DOMAIN w : i \in DOMAIN s \/ i = Len(s) + 1
    BY <1>1
<1>6. Ready(tables, w)
    <2>. SUFFICES ASSUME NEW i \in DOMAIN w, w[i].type = "ConnectDisconnect"
                  PROVE  EndKnown(tables, w, i, w[i].from) /\ EndKnown(tables, w, i, w[i].to)
        BY DEF Ready
    <2>1. CASE i \in DOMAIN s
        BY <1>1, <1>3, <2>1 DEF Ready
    <2>2. CASE i = Len(s) + 1
        BY <1>1, <1>4, <2>2
    <2>. QED  BY <1>5, <2>1, <2>2
<1>. QED  BY <1>6 DEF w

(* The oldest message is taken; the node that it creates is shown from then *)
(* on.                                                                      *)
LEMMA TakenReady ==
    ASSUME NEW t, NEW s \in Inbox(t), s # <<>>, NEW tables, NEW after, Ready(tables, s),
           \A e : Shown(tables, e) # {} => Shown(after, e) # {},
           \A e : CreateOf(s[1], e) => Shown(after, e) # {}
    PROVE  Ready(after, Tail(s))
<1>. DEFINE u == Tail(s)
<1>1. /\ DOMAIN u \subseteq Nat /\ DOMAIN s \subseteq Nat \ {0}
      /\ \A i \in DOMAIN u : i + 1 \in DOMAIN s /\ u[i] = s[i + 1]
      /\ \A i \in DOMAIN s : i # 1 => i - 1 \in DOMAIN u /\ s[i] = u[i - 1]
    BY TailHas DEF Inbox
<1>. HIDE DEF u
<1>2. ASSUME NEW i \in DOMAIN u, NEW e, EndKnown(tables, s, i + 1, e)
      PROVE  EndKnown(after, u, i, e)
    <2>1. CASE Shown(tables, e) # {}
        BY <2>1 DEF EndKnown
    <2>2. CASE \E j \in DOMAIN s : j < i + 1 /\ CreateOf(s[j], e)
        <3>1. PICK j \in DOMAIN s : j < i + 1 /\ CreateOf(s[j], e)
            BY <2>2
        <3>2. CASE j = 1
            BY <3>1, <3>2 DEF EndKnown
        <3>3. CASE j # 1
            <4>1. j - 1 \in DOMAIN u /\ CreateOf(u[j - 1], e)
                BY <1>1, <3>1, <3>3
            <4>2. j - 1 < i
                BY <1>1, <3>1
            <4>. QED  BY <4>1, <4>2 DEF EndKnown
        <3>. QED  BY <3>2, <3>3
    <2>. QED  BY <1>2, <2>1, <2>2 DEF EndKnown
<1>3. Ready(after, u)
    <2>. SUFFICES ASSUME NEW i \in DOMAIN u, u[i].type = "ConnectDisconnect"
                  PROVE  EndKnown(after, u, i, u[i].from) /\ EndKnown(after, u, i, u[i].to)
        BY DEF Ready
    <2>1. i + 1 \in DOMAIN s /\ u[i] = s[i + 1]
        BY <1>1
    <2>. QED  BY <1>2, <2>1 DEF Ready
<1>. QED  BY <1>3 DEF u

(* What comes first has the nodes it joins.                                 *)
LEMMA ReadyFirst ==
    ASSUME NEW t, NEW s \in Inbox(t), s # <<>>, NEW tables, Ready(tables, s),
           s[1].type = "ConnectDisconnect"
    PROVE  Shown(tables, s[1].from) # {} /\ Shown(tables, s[1].to) # {}
<1>1. 1 \in DOMAIN s /\ \A j \in DOMAIN s : ~(j < 1)
    <2>1. 1 \in DOMAIN s
        BY TailHas DEF Inbox
    <2>2. DOMAIN s = 1 .. Len(s)
        BY DEF Inbox
    <2>. QED  BY <2>1, <2>2
<1>. QED  BY <1>1 DEF Ready, EndKnown

-----------------------------------------------------------------------------
(* A call of one replica keeps the invariant *)

LEMMA SessionKeeps ==
    ASSUME SessionInv, RemovalInv', NEW r \in Replica, NEW after, NEW h, NEW boxes, NEW safe,
           Committed(r, after, h, boxes, safe), Calm' => Calm,
           crashed = {} /\ safe =>
              /\ Home(after, boxes[r], h, open[r], stage')
              /\ \A q \in Replica : q # r => Home(db[q], boxes[q], graph[q], open[q], stage'),
           Calm' =>
              /\ safe /\ Ready(after, boxes[r])
              /\ \A q \in Replica : q # r => Ready(db[q], boxes[q])
    PROVE  SessionInv'
<1>1. /\ db'[r] = after /\ inbox' = boxes /\ open' = open /\ crashed \subseteq crashed'
      /\ r \notin crashed' => safe /\ graph'[r] = h
      /\ safe => crashed' = crashed
      /\ \A q \in Replica : q # r => db'[q] = db[q] /\ graph'[q] = graph[q]
    <2>1. SessionTypes
        BY DEF SessionInv, RemovalInv
    <2>. QED  BY <2>1, CommittedIs DEF Committed
<1>2. crashed' = {} => AllSettled'
    BY <1>1 DEF AllSettled
<1>3. Calm' => crashed' = {} /\ \A q \in Replica : Ready(db'[q], inbox'[q])
    BY <1>1 DEF SessionInv
<1>. QED  BY <1>2, <1>3 DEF SessionInv

(* A call that is announced.                                                *)
LEMMA SessionAnnounces ==
    ASSUME SessionInv, RemovalInv', NEW r \in Replica, NEW after, NEW h, NEW safe,
           NEW t, t = clock + 1, NEW m \in Message(t), clock < MaxTime,
           Committed(r, after, h, Post(inbox, r, <<m>>), safe),
           crashed = {} => Fine(m), Lives(m, stage, stage'),
           crashed = {} /\ safe => Home(after, inbox[r], h, open[r], stage'),
           Calm' =>
              /\ safe /\ Ready(after, inbox[r])
              /\ m.type = "ConnectDisconnect" =>
                    \A q \in Replica : \A e \in {m.from, m.to} :
                        Shown(db[q], e) # {} \/ Creates(inbox[q], e) # {}
    PROVE  SessionInv'
<1>. DEFINE boxes == Post(inbox, r, <<m>>)
<1>1. SessionTypes
    BY DEF SessionInv, RemovalInv
<1>2. inbox \in [Replica -> Inbox(t)] /\ \A q \in Replica : inbox[q] \in Inbox(t)
    BY <1>1, AnyTime
<1>3. /\ boxes[r] = inbox[r]
      /\ \A q \in Replica : q # r => boxes[q] = Joined(inbox[q], <<m>>)
    <2>. DEFINE sent == <<m>>
    <2>1. sent \in Inbox(t)
        BY SentOne
    <2>. HIDE DEF sent
    <2>2. /\ Post(inbox, r, sent)[r] = inbox[r]
          /\ \A q \in Replica : q # r => Post(inbox, r, sent)[q] = Joined(inbox[q], sent)
        BY <1>2, <2>1, PostIs
    <2>. QED  BY <2>2 DEF sent
<1>4. Calm' => Calm
    BY DEF Calm, Lives
<1>5. ASSUME crashed = {}, NEW q \in Replica, q # r
      PROVE  Home(db[q], boxes[q], graph[q], open[q], stage')
    <2>1. Home(db[q], inbox[q], graph[q], open[q], stage) /\ Fine(m)
        BY <1>5 DEF SessionInv, AllSettled
    <2>2. Settled(db[q], boxes[q], graph[q], open[q])
        BY <1>2, <1>3, <1>5, <2>1, AnnouncedSettled DEF Home
    <2>3. \A n \in NodeId : Place(db[q], boxes[q], graph[q], stage'[n], n)
        BY <1>2, <1>3, <1>5, <2>1, AnnouncedPlace DEF Home
    <2>. QED  BY <2>2, <2>3 DEF Home
<1>6. ASSUME Calm', NEW q \in Replica, q # r
      PROVE  Ready(db[q], boxes[q])
    <2>1. Ready(db[q], inbox[q])
        BY <1>4, <1>6 DEF SessionInv
    <2>. QED  BY <1>2, <1>3, <1>6, <2>1, AnnouncedReady
<1>. HIDE DEF boxes
<1>7. Committed(r, after, h, boxes, safe)
    BY DEF boxes
<1>. QED  BY <1>3, <1>4, <1>5, <1>6, <1>7, SessionKeeps

(* A message that is answered by none.                                      *)
LEMMA SessionHears ==
    ASSUME Faultless, SessionInv, RemovalInv', NEW r \in Replica, NEW after, NEW h, NEW safe,
           NEW i \in DOMAIN inbox[r], NEW m, NEW type, NEW change,
           Receive(r, i, m, type, change), stage' = stage,
           Committed(r, after, h, Taken(r, i), safe),
           crashed = {} /\ safe => Home(after, Tail(inbox[r]), h, open[r], stage),
           Calm => safe /\ Ready(after, Tail(inbox[r]))
    PROVE  SessionInv'
<1>. DEFINE boxes == Taken(r, i)
<1>1. SessionTypes
    BY DEF SessionInv, RemovalInv
<1>2. boxes[r] = Tail(inbox[r]) /\ \A q \in Replica : q # r => boxes[q] = inbox[q]
    BY <1>1, ReceivedIs
<1>3. Calm' => Calm
    BY DEF Calm
<1>4. crashed = {} => \A q \in Replica : Home(db[q], inbox[q], graph[q], open[q], stage)
    BY DEF SessionInv, AllSettled
<1>5. Calm => \A q \in Replica : Ready(db[q], inbox[q])
    BY DEF SessionInv
<1>. HIDE DEF boxes
<1>6. Committed(r, after, h, boxes, safe)
    BY DEF boxes
<1>7. /\ crashed = {} /\ safe =>
            /\ Home(after, boxes[r], h, open[r], stage')
            /\ \A q \in Replica : q # r => Home(db[q], boxes[q], graph[q], open[q], stage')
      /\ Calm' =>
            /\ safe /\ Ready(after, boxes[r])
            /\ \A q \in Replica : q # r => Ready(db[q], boxes[q])
    BY <1>2, <1>3, <1>4, <1>5
<1>. QED  BY <1>3, <1>6, <1>7, SessionKeeps

-----------------------------------------------------------------------------
(* What a call leaves of the tables and the graph of its replica *)

(* A creation or a removal leaves the places of the other nodes.            *)
LEMMA OthersPlaced ==
    ASSUME NEW tables, NEW after, NEW n, NEW m \in NodeId \ {n}, NEW l,
           Untouched(tables, after, n), Shown(after, m) = Shown(tables, m),
           NEW s, NEW w, Creates(w, m) = Creates(s, m),
           NEW g, NEW h, m \in Ids(h) <=> m \in Ids(g), Place(tables, s, g, l, m)
    PROVE  Place(after, w, h, l, m)
<1>1. Names(m) \subseteq Attribute
    BY KindAssumption, AttributesAre DEF Names
<1>2. \A a \in Attribute : /\ Written(after, a, m) \subseteq Written(tables, a, m)
                           /\ \A x \in Written(tables, a, m) : ~x.deleted => x \in Written(after, a, m)
    BY DEF Untouched
<1>3. ASSUME CreatedOK(tables, m)
      PROVE  CreatedOK(after, m)
    <2>1. ASSUME NEW a \in Names(m)
          PROVE  \E x \in Written(after, a, m) : Written(after, a, m) = {x} /\ ~x.deleted
        <3>1. PICK x \in Written(tables, a, m) : Written(tables, a, m) = {x} /\ ~x.deleted
            BY <1>3 DEF CreatedOK
        <3>2. Written(after, a, m) = {x}
            BY <1>1, <1>2, <3>1
        <3>. QED  BY <3>1, <3>2
    <2>. QED  BY <1>3, <2>1 DEF CreatedOK
<1>4. (\A a \in Attribute : Written(tables, a, m) = {})
         => \A a \in Attribute : Written(after, a, m) = {}
    BY <1>2
<1>. QED  BY <1>3, <1>4 DEF Place

LEMMA EnteredHome ==
    ASSUME NEW n \in Nodes, NEW d, NEW t, NEW tables, NEW after, Entered(tables, after, n, d, t),
           NEW s, NEW w, NEW g, NEW o, NEW life, NEW l, Home(tables, s, g, o, life),
           \A a \in Attribute : Written(tables, a, n.id) = {},
           l[n.id] \notin {"unused", "partial"}, Creates(w, n.id) = {},
           \A m \in NodeId \ {n.id} : l[m] = life[m] /\ Creates(w, m) = Creates(s, m),
           ToSet(w) \subseteq ToSet(s)
    PROVE  Home(after, w, create(g, n), o, l)
<1>. DEFINE h == create(g, n)
<1>1. g \in Graphs /\ Settled(tables, s, g, o)
    BY DEF Home, Settled, Drawn
<1>2. h \in Graphs /\ h.edges = g.edges /\ Ids(h) = Ids(g) \cup {n.id}
    BY <1>1, CreateGraph
<1>. HIDE DEF h
<1>3. Settled(after, w, h, o)
    <2>1. Drawn(h)
        BY <1>1, <1>2 DEF Settled, Drawn
    <2>2. after.edge = tables.edge
        BY DEF Entered
    <2>. QED  BY <1>1, <2>1, <2>2 DEF Settled
<1>4. ASSUME NEW m \in NodeId \ {n.id}
      PROVE  Place(after, w, h, l[m], m)
    <2>1. Place(tables, s, g, life[m], m) /\ l[m] = life[m]
        BY DEF Home
    <2>2. Untouched(tables, after, n.id) /\ Shown(after, m) = Shown(tables, m)
        BY DEF Entered
    <2>. QED  BY <1>2, <2>1, <2>2, OthersPlaced
<1>5. Place(after, w, h, l[n.id], n.id)
    <2>1. Shown(after, n.id) # {}
        BY DEF Entered
    <2>2. ASSUME NEW a \in Names(n.id)
          PROVE  \E x \in Written(after, a, n.id) : Written(after, a, n.id) = {x} /\ ~x.deleted
        <3>. DEFINE x == [entity |-> n.id, val |-> n.attr[a], timestamp |-> t, deleted |-> FALSE]
        <3>1. Written(after, a, n.id) = {x}
            BY DEF Entered
        <3>2. ~x.deleted
            OBVIOUS
        <3>. QED  BY <3>1, <3>2
    <2>3. CreatedOK(after, n.id)
        BY <2>1, <2>2 DEF CreatedOK
    <2>. QED  BY <1>2, <2>3 DEF Place
<1>6. \A m \in NodeId : Place(after, w, h, l[m], m)
    BY <1>4, <1>5
<1>. QED  BY <1>3, <1>6 DEF Home, h

LEMMA RemovedHome ==
    ASSUME NEW n \in Nodes, NEW d, NEW t, NEW tables, NEW after, Removed(tables, after, n, d, t),
           NEW s, NEW w, NEW g, NEW o, NEW life, NEW l, Home(tables, s, g, o, life),
           \A x \in Shown(tables, n.id) : x.document = d /\ x.timestamp < t,
           l[n.id] = "removed", Creates(w, n.id) = {},
           \A m \in NodeId \ {n.id} : l[m] = life[m] /\ Creates(w, m) = Creates(s, m),
           ToSet(w) \subseteq ToSet(s)
    PROVE  Home(after, w, remove(g, n.id), o, l)
<1>. DEFINE h == remove(g, n.id)
<1>1. g \in Graphs /\ Settled(tables, s, g, o)
    BY DEF Home, Settled, Drawn
<1>2. /\ h \in Graphs /\ Ids(h) = Ids(g) \ {n.id}
      /\ h.edges = {e \in g.edges : e[1] # n.id /\ e[2] # n.id}
    BY <1>1, RemoveGraph
<1>. HIDE DEF h
<1>3. Settled(after, w, h, o)
    <2>1. Drawn(h)
        BY <1>1, <1>2 DEF Settled, Drawn
    <2>2. after.edge = tables.edge
        BY DEF Removed
    <2>. QED  BY <1>1, <2>1, <2>2 DEF Settled
<1>4. ASSUME NEW m \in NodeId \ {n.id}
      PROVE  Place(after, w, h, l[m], m)
    <2>1. Place(tables, s, g, life[m], m) /\ l[m] = life[m]
        BY DEF Home
    <2>2. Untouched(tables, after, n.id) /\ Shown(after, m) = Shown(tables, m)
        BY DEF Removed
    <2>. QED  BY <1>2, <2>1, <2>2, OthersPlaced
<1>5. Place(after, w, h, l[n.id], n.id)
    <2>1. Shown(after, n.id) = {}
        BY DEF Removed
    <2>. QED  BY <2>1 DEF Place
<1>6. \A m \in NodeId : Place(after, w, h, l[m], m)
    BY <1>4, <1>5
<1>. QED  BY <1>3, <1>6 DEF Home, h

(* An edge is drawn or taken away.                                          *)
LEMMA EdgeHome ==
    ASSUME NEW r \in Replica, NEW from, NEW to, NEW t, NEW deleted,
           EdgeRow(r, from, to, t, deleted), <<from, to>> \in Drawable,
           NEW s, NEW w, NEW g, NEW h, NEW o, NEW life, Home(db[r], s, g, o, life),
           Drawn(h), Ids(h) = Ids(g), ToSet(w) \subseteq ToSet(s),
           \A n \in NodeId : Creates(w, n) = Creates(s, n)
    PROVE  Home(db'[r], w, h, o, life)
<1>. DEFINE tables == db[r]  after == db'[r]
<1>1. \A n : /\ Shown(after, n) = Shown(tables, n)
             /\ \A a : Written(after, a, n) = Written(tables, a, n)
    BY DEF EdgeRow, Shown, Written, NodeRows
<1>2. \A x \in after.edge : <<x.entity, x.entity_to>> \in Drawable
    <2>1. \A x \in tables.edge : <<x.entity, x.entity_to>> \in Drawable
        BY DEF Home, Settled
    <2>2. \A x \in after.edge : x \in tables.edge \/ (x.entity = from /\ x.entity_to = to)
        BY DEF EdgeRow, connectI
    <2>. QED  BY <2>1, <2>2
<1>3. Settled(after, w, h, o)
    BY <1>2 DEF Home, Settled
<1>. HIDE DEF tables, after
<1>4. ASSUME NEW n \in NodeId
      PROVE  Place(after, w, h, life[n], n)
    <2>1. Place(tables, s, g, life[n], n)
        BY DEF Home, tables
    <2>2. CreatedOK(tables, n) => CreatedOK(after, n)
        BY <1>1 DEF CreatedOK
    <2>. QED  BY <1>1, <2>1, <2>2 DEF Place
<1>. QED  BY <1>3, <1>4 DEF Home, after


(* A node whose creation ran to the end is found by open().                 *)
LEMMA CreatedIsFound ==
    ASSUME NEW now \in Nat, NEW tables \in Tables(now), NEW n \in NodeId, CreatedOK(tables, n),
           NEW row \in Shown(tables, n), row.type = Kind[n]
    PROVE  HasNode(tables, row)
<1>1. row.entity = n /\ ToSet(Attributes(row.type)) = Names(n) /\ Names(n) \subseteq Attribute
    BY KindAssumption, AttributesAre DEF Names, Shown
<1>2. ASSUME NEW a \in Names(n)
      PROVE  Latest(tables.store[a], n) # {}
    <2>1. PICK x \in Written(tables, a, n) : Written(tables, a, n) = {x} /\ ~x.deleted
        BY DEF CreatedOK
    <2>2. x.val \in Nat /\ x.timestamp \in Nat
        BY <1>1, RowFields
    <2>. QED  BY <2>1, <2>2, OneValue
<1>. QED  BY <1>1, <1>2 DEF HasNode

(* open() finds every node that the tables show.                            *)
LEMMA OpenedHome ==
    ASSUME NEW now \in Nat, NEW tables \in Tables(now), IsFiniteSet(Value), NEW d \in Document,
           \A n \in NodeId : \A x \in Shown(tables, n) : x.type = Kind[n] /\ x.document = d,
           NEW s, NEW g, NEW o, NEW life, Home(tables, s, g, o, life),
           \A n \in Ids(g) : Shown(tables, n) # {},
           NEW h, h = Opened(tables, d)
    PROVE  Home(tables, s, h, d, life)
<1>1. h \in Graphs /\ \A n \in Ids(h) : \E x \in Shown(tables, n) : x.document = d
    BY OpenedKnown
<1>2. /\ ToSet(h.nodes) = {NodeOf(tables, row) : row \in ShownIn(tables, d)}
      /\ h.edges = {p \in {row.entity : row \in ShownIn(tables, d)} \X {row.entity : row \in ShownIn(tables, d)} :
                       p[2] \in edges(tables.edge, p[1])}
    BY OpenedNodes
<1>3. Ids(h) = {row.entity : row \in ShownIn(tables, d)}
    <2>1. Ids(h) = {x.id : x \in {NodeOf(tables, row) : row \in ShownIn(tables, d)}}
        BY <1>2, IdsAre
    <2>2. \A row : NodeOf(tables, row).id = row.entity
        BY DEF NodeOf
    <2>. QED  BY <2>1, <2>2
<1>4. ASSUME NEW n \in NodeId, Shown(tables, n) # {}
      PROVE  n \in Ids(h)
    <2>1. PICK row : row \in Shown(tables, n)
        BY <1>4
    <2>2. CreatedOK(tables, n)
        BY <1>4 DEF Home, Place
    <2>3. HasNode(tables, row)
        BY <2>1, <2>2, CreatedIsFound
    <2>4. row \in ShownIn(tables, d) /\ row.entity = n
        BY <2>1, <2>3 DEF ShownIn, Shown
    <2>. QED  BY <1>3, <2>4
<1>5. Drawn(h)
    <2>1. ASSUME NEW p \in h.edges
          PROVE  p \in Drawable
        <3>1. p = <<p[1], p[2]>> /\ p[2] \in edges(tables.edge, p[1])
            BY <1>2
        <3>2. PICK x \in tables.edge : x.entity = p[1] /\ x.entity_to = p[2]
            BY <3>1 DEF edges, Live, Newest
        <3>. QED  BY <3>1, <3>2 DEF Home, Settled
    <2>2. h.edges \subseteq Ids(h) \X Ids(h)
        BY <1>2, <1>3
    <2>. QED  BY <1>1, <2>1, <2>2 DEF Drawn
<1>6. Settled(tables, s, h, d)
    BY <1>5 DEF Home, Settled
<1>7. ASSUME NEW n \in NodeId
      PROVE  Place(tables, s, h, life[n], n)
    <2>1. Place(tables, s, g, life[n], n)
        BY DEF Home
    <2>. QED  BY <1>4, <2>1 DEF Place
<1>. QED  BY <1>6, <1>7 DEF Home

-----------------------------------------------------------------------------
(* What is known of a node in a session *)

LEMMA ShownKnown ==
    ASSUME NEW now \in Nat, NEW tables \in Tables(now), NEW n, NEW x \in Shown(tables, n)
    PROVE  n \in NodeId /\ x.document \in Document /\ x.timestamp \in 0 .. now
BY RowFields DEF Shown

(* Rows that are shown stay, so what was ready stays ready.                 *)
LEMMA ReadyGrows ==
    ASSUME NEW tables, NEW after, NEW s, Ready(tables, s),
           \A e : Shown(tables, e) # {} => Shown(after, e) # {}
    PROVE  Ready(after, s)
BY DEF Ready, EndKnown

LEMMA EnteredShows ==
    ASSUME NEW now \in Nat, NEW tables \in Tables(now), NEW after, NEW n \in Nodes, NEW d, NEW t,
           Entered(tables, after, n, d, t)
    PROVE  /\ \A e : Shown(tables, e) # {} => Shown(after, e) # {}
           /\ Shown(after, n.id) # {}
<1>1. ASSUME NEW e, Shown(tables, e) # {}
      PROVE  Shown(after, e) # {}
    <2>1. e \in NodeId
        BY <1>1, ShownKnown
    <2>2. CASE e = n.id
        BY <2>2 DEF Entered
    <2>3. CASE e # n.id
        BY <1>1, <2>1, <2>3 DEF Entered
    <2>. QED  BY <2>2, <2>3
<1>. QED  BY <1>1 DEF Entered

(* While nobody has removed a node, a node in one graph has been announced  *)
(* to all.                                                                  *)
LEMMA EndsHeard ==
    ASSUME SessionInv, Calm, NEW r \in Replica, NEW n \in Ids(graph[r])
    PROVE  \A q \in Replica : Shown(db[q], n) # {} \/ Creates(inbox[q], n) # {}
<1>1. crashed = {} /\ AllSettled /\ RemovalInv
    BY DEF SessionInv
<1>2. n \in NodeId
    BY <1>1, Site, GraphFields DEF RemovalInv
<1>3. Shown(db[r], n) # {}
    BY <1>1, <1>2 DEF RemovalInv, RemovalComes
<1>4. stage[n] # "unused"
    BY <1>1, <1>2, <1>3 DEF RemovalInv, KnownOK, Births
<1>5. stage[n] = "created"
    <2>1. stage[n] \in {"unused", "partial", "created", "removed"}
        BY <1>1, <1>2 DEF RemovalInv, SessionTypes, Life
    <2>2. stage[n] # "partial"
        BY <1>1, <1>2 DEF AllSettled, Home, Place
    <2>. QED  BY <1>2, <1>4, <2>1, <2>2 DEF Calm
<1>6. ASSUME NEW q \in Replica
      PROVE  Shown(db[q], n) # {} \/ Creates(inbox[q], n) # {}
    <2>1. n \in Ids(graph[q]) \/ Creates(inbox[q], n) # {}
        BY <1>1, <1>2, <1>5 DEF AllSettled, Home, Place
    <2>2. n \in Ids(graph[q]) => Shown(db[q], n) # {}
        BY <1>1, <1>2 DEF RemovalInv, RemovalComes
    <2>. QED  BY <2>1, <2>2
<1>. QED  BY <1>6

-----------------------------------------------------------------------------
(* Each step keeps the invariant *)

LEMMA SettledHere ==
    ASSUME SessionInv, crashed = {}, NEW r \in Replica
    PROVE  /\ Home(db[r], inbox[r], graph[r], open[r], stage)
           /\ Settled(db[r], inbox[r], graph[r], open[r])
           /\ Drawn(graph[r]) /\ graph[r] \in Graphs /\ open[r] \in Document
           /\ IsOpen(r)
           /\ \A n \in NodeId : Place(db[r], inbox[r], graph[r], stage[n], n)
<1>1. Home(db[r], inbox[r], graph[r], open[r], stage)
    BY DEF SessionInv, AllSettled
<1>. QED  BY <1>1, ViewModelAssumption DEF Home, Settled, Drawn, IsOpen

LEMMA CalmHere ==
    ASSUME SessionInv, Calm, NEW r \in Replica
    PROVE  crashed = {} /\ Ready(db[r], inbox[r])
BY DEF SessionInv

LEMMA InvTypes ==
    ASSUME SessionInv
    PROVE  SessionTypes /\ RemovalInv /\ \A n \in NodeId : KnownOK(n) /\ BornOnce(n) /\ RemovalComes(n)
BY DEF SessionInv, RemovalInv

LEMMA EdgeEnds ==
    ASSUME NoCycles, NEW g, Drawn(g), NEW from \in Ids(g), NEW to \in Ids(g),
           <<from, to>> \in Drawable
    PROVE  /\ ConnectSafe(g, from, to) /\ Drawn(connect(g, from, to))
           /\ Ids(connect(g, from, to)) = Ids(g)
<1>1. from \in NodeId /\ to \in NodeId /\ g \in Graphs
    BY GraphFields DEF Drawn
<1>2. from # to
    <2>1. {from} \in SUBSET NodeId /\ {from} # {}
        BY <1>1
    <2>. QED  BY <2>1 DEF NoCycles
<1>3. connect(g, from, to) \in Graphs /\ Ids(connect(g, from, to)) = Ids(g)
    BY <1>1, EdgeGraph
<1>4. connect(g, from, to).edges = g.edges \cup {<<from, to>>}
    BY <1>1 DEF connect, Graphs
<1>. QED  BY <1>2, <1>3, <1>4 DEF Drawn, ConnectSafe

LEMMA EdgeGone ==
    ASSUME NEW g, Drawn(g), NEW from \in NodeId, NEW to \in NodeId
    PROVE  Drawn(disconnect(g, from, to)) /\ Ids(disconnect(g, from, to)) = Ids(g)
<1>1. g \in Graphs
    BY DEF Drawn
<1>2. disconnect(g, from, to) \in Graphs /\ Ids(disconnect(g, from, to)) = Ids(g)
    BY <1>1, EdgeGraph
<1>3. disconnect(g, from, to).edges = g.edges \ {<<from, to>>}
    BY <1>1 DEF disconnect, Graphs
<1>. QED  BY <1>2, <1>3 DEF Drawn

LEMMA SessionCreate ==
    ASSUME InSession, SessionInv, RemovalInv', NEW r \in Replica, NEW n \in Nodes,
           UserCreate(r, n)
    PROVE  SessionInv'
<1>. DEFINE d == open[r]  t == clock + 1  g == create(graph[r], n)  safe == MeshSafe(g)
            m == CreateDelete(n, d, "Assert", t)  after == db'[r]
<1>1. SessionTypes /\ Faultless /\ NoCycles
    BY InvTypes DEF InSession
<1>2. /\ Committed(r, after, g, Post(inbox, r, <<m>>), safe)
      /\ after \in Tables(t) /\ Entered(db[r], after, n, d, t)
      /\ clock < MaxTime /\ clock' = t /\ d \in Document
      /\ stage[n.id] = "unused" /\ stage' = [stage EXCEPT ![n.id] = "created"]
    BY <1>1, CreateDoes DEF CreateEffect
<1>3. n.id \in NodeId /\ stage \in Life
    BY <1>1, NodeFields DEF SessionTypes
<1>4. m \in Message(t)
    BY <1>1, <1>2, AnyTime, MessageIs
<1>5. m.type = "CreateDelete" /\ m.node = n /\ m.change = "Assert"
    BY DEF CreateDelete
<1>6. stage'[n.id] = "created" /\ \A k \in NodeId \ {n.id} : stage'[k] = stage[k]
    BY <1>2, <1>3 DEF Life
<1>. HIDE DEF m
<1>7. Lives(m, stage, stage') /\ Fine(m)
    BY <1>2, <1>5, <1>6 DEF Lives, Fine, CreateOf
<1>8. ASSUME crashed = {}
      PROVE  Home(after, inbox[r], g, d, stage') /\ safe
    <2>1. Home(db[r], inbox[r], graph[r], d, stage) /\ Place(db[r], inbox[r], graph[r], stage[n.id], n.id)
        BY <1>3, <1>8, SettledHere
    <2>2. \A a \in Attribute : Written(db[r], a, n.id) = {}
        BY <1>2, <2>1 DEF Place
    <2>3. Creates(inbox[r], n.id) = {}
        BY <1>2, <1>3, InvTypes DEF KnownOK, Births
    <2>4. Home(after, inbox[r], g, d, stage')
        <3>. DEFINE s == inbox[r]  tables == db[r]  l == stage'
        <3>1. /\ Entered(tables, after, n, d, t) /\ Home(tables, s, graph[r], d, stage)
              /\ l[n.id] \notin {"unused", "partial"} /\ Creates(s, n.id) = {}
              /\ \A k \in NodeId \ {n.id} : l[k] = stage[k] /\ Creates(s, k) = Creates(s, k)
              /\ ToSet(s) \subseteq ToSet(s)
            BY <1>2, <1>6, <2>1, <2>3
        <3>. HIDE DEF s, l, after, d, t, tables
        <3>2. \A a \in Attribute : Written(tables, a, n.id) = {}
            BY <2>2 DEF tables
        <3>3. Home(after, s, create(graph[r], n), d, l)
            BY <3>1, <3>2, EnteredHome
        <3>. QED  BY <3>3 DEF s, l
    <2>5. Drawn(g)
        BY <2>4 DEF Home, Settled
    <2>. QED  BY <1>1, <2>4, <2>5, DrawnIsMeshSafe
<1>9. ASSUME Calm'
      PROVE  safe /\ Ready(after, inbox[r])
    <2>1. Calm
        BY <1>7, <1>9 DEF Calm, Lives
    <2>2. crashed = {} /\ Ready(db[r], inbox[r])
        BY <2>1, CalmHere
    <2>3. Ready(after, inbox[r])
        BY <1>1, <1>2, <2>2, Site, EnteredShows, ReadyGrows
    <2>. QED  BY <1>8, <2>2, <2>3
<1>. HIDE DEF d, t, g, safe, after
<1>10. t = clock + 1 /\ m.type # "ConnectDisconnect" /\ d = open[r]
    BY <1>5 DEF t, d
<1>. QED  BY <1>2, <1>4, <1>7, <1>8, <1>9, <1>10, SessionAnnounces

LEMMA SessionRemove ==
    ASSUME InSession, SessionInv, RemovalInv', NEW r \in Replica \ crashed,
           NEW n \in ToSet(graph[r].nodes), UserRemove(r, n)
    PROVE  SessionInv'
<1>. DEFINE d == open[r]  t == clock + 1  g == remove(graph[r], n.id)  safe == MeshSafe(g)
            m == CreateDelete(n, d, "Retract", t)  after == db'[r]
<1>1. SessionTypes /\ Faultless /\ n \in Nodes /\ n.id \in Ids(graph[r])
    <2>1. SessionTypes /\ Faultless
        BY InvTypes DEF InSession
    <2>2. n \in Nodes
        BY <2>1, Site, GraphFields
    <2>. QED  BY <2>1, <2>2, IdsAre
<1>2. /\ Committed(r, after, g, Post(inbox, r, <<m>>), safe)
      /\ after \in Tables(t) /\ Removed(db[r], after, n, d, t)
      /\ clock < MaxTime /\ clock' = t /\ d \in Document
      /\ stage' = [stage EXCEPT ![n.id] = "removed"]
    BY <1>1, RemoveDoes DEF RemoveEffect
<1>3. n.id \in NodeId /\ stage \in Life
    BY <1>1, NodeFields DEF SessionTypes
<1>4. m \in Message(t)
    BY <1>1, <1>2, AnyTime, MessageIs
<1>5. m.type = "CreateDelete" /\ m.node = n /\ m.change = "Retract"
    BY DEF CreateDelete
<1>6. stage'[n.id] = "removed" /\ \A k \in NodeId \ {n.id} : stage'[k] = stage[k]
    BY <1>2, <1>3 DEF Life
<1>. HIDE DEF m
<1>7. Lives(m, stage, stage') /\ Fine(m)
    BY <1>2, <1>5, <1>6 DEF Lives, Fine, CreateOf
<1>8. ASSUME crashed = {}
      PROVE  Home(after, inbox[r], g, d, stage')
    <2>1. Home(db[r], inbox[r], graph[r], d, stage)
        BY <1>8, SettledHere
    <2>2. Shown(db[r], n.id) # {}
        BY <1>1, <1>3, InvTypes DEF RemovalComes
    <2>3. Creates(inbox[r], n.id) = {}
        BY <1>3, <2>2, InvTypes DEF KnownOK
    <2>4. \A x \in Shown(db[r], n.id) : x.document = d /\ x.timestamp < t
        <3>1. db[r] \in Tables(clock) /\ clock \in Nat
            BY <1>1, Site
        <3>2. \A x \in Shown(db[r], n.id) : x.document \in Document /\ x.timestamp \in 0 .. clock
            BY <3>1, ShownKnown
        <3>. QED  BY <1>2, <3>1, <3>2 DEF InSession
    <2>. DEFINE s == inbox[r]  tables == db[r]  l == stage'
    <2>5. /\ Removed(tables, after, n, d, t) /\ Home(tables, s, graph[r], d, stage)
          /\ l[n.id] = "removed" /\ Creates(s, n.id) = {}
          /\ \A k \in NodeId \ {n.id} : l[k] = stage[k] /\ Creates(s, k) = Creates(s, k)
          /\ ToSet(s) \subseteq ToSet(s)
        BY <1>2, <1>6, <2>1, <2>3
    <2>. HIDE DEF s, l, after, d, t, tables
    <2>6. \A x \in Shown(tables, n.id) : x.document = d /\ x.timestamp < t
        BY <2>4 DEF tables
    <2>7. Home(after, s, remove(graph[r], n.id), d, l)
        BY <1>1, <2>5, <2>6, RemovedHome
    <2>. QED  BY <2>7 DEF s, l
<1>9. ~Calm'
    BY <1>3, <1>6 DEF Calm
<1>. HIDE DEF d, t, g, safe, after
<1>10. t = clock + 1 /\ d = open[r]
    BY DEF t, d
<1>. QED  BY <1>2, <1>4, <1>7, <1>8, <1>9, <1>10, SessionAnnounces

(* The ends of an edge that a user draws or takes away are announced.       *)
LEMMA SessionUserEdge ==
    ASSUME InSession, SessionInv, RemovalInv', NEW r \in Replica, NEW h, NEW safe,
           NEW from \in Ids(graph[r]), NEW to \in Ids(graph[r]), NEW deleted \in BOOLEAN,
           UserEdgeEffect(r, from, to, h, safe, deleted),
           crashed = {} =>
              <<from, to>> \in Drawable /\ safe /\ Drawn(h) /\ Ids(h) = Ids(graph[r])
    PROVE  SessionInv'
<1>. DEFINE t == clock + 1  m == ConnectDisconnect(from, to, "Assert", t)  after == db'[r]
<1>1. SessionTypes /\ from \in NodeId /\ to \in NodeId
    BY InvTypes, Site, GraphFields
<1>2. /\ Committed(r, after, h, Post(inbox, r, <<m>>), safe)
      /\ EdgeRow(r, from, to, t, deleted) /\ clock < MaxTime /\ clock' = t /\ stage' = stage
    BY DEF UserEdgeEffect
<1>3. m \in Message(t)
    BY <1>1, <1>2, AnyTime, MessageIs
<1>4. m.type = "ConnectDisconnect" /\ m.from = from /\ m.to = to
    BY DEF ConnectDisconnect
<1>. HIDE DEF m
<1>5. Lives(m, stage, stage') /\ (crashed = {} => Fine(m))
    BY <1>2, <1>4 DEF Lives, Fine, CreateOf
<1>6. crashed = {} => Home(after, inbox[r], h, open[r], stage')
    BY <1>2, SettledHere, EdgeHome
<1>7. ASSUME Calm'
      PROVE  /\ safe /\ Ready(after, inbox[r])
             /\ \A q \in Replica : \A e \in {m.from, m.to} :
                   Shown(db[q], e) # {} \/ Creates(inbox[q], e) # {}
    <2>1. Calm
        BY <1>2, <1>7 DEF Calm
    <2>2. crashed = {} /\ Ready(db[r], inbox[r])
        BY <2>1, CalmHere
    <2>3. \A e : Shown(after, e) = Shown(db[r], e)
        BY <1>2 DEF EdgeRow, Shown, NodeRows
    <2>4. Ready(after, inbox[r])
        BY <2>2, <2>3, ReadyGrows
    <2>. QED  BY <1>4, <2>1, <2>2, <2>4, EndsHeard
<1>. HIDE DEF t, after
<1>8. t = clock + 1
    BY DEF t
<1>. QED  BY <1>2, <1>3, <1>5, <1>6, <1>7, <1>8, SessionAnnounces

LEMMA SessionConnect ==
    ASSUME InSession, SessionInv, RemovalInv', NEW r \in Replica,
           NEW from \in Ids(graph[r]), NEW to \in Ids(graph[r]), UserConnect(r, from, to)
    PROVE  SessionInv'
<1>. DEFINE h == connect(graph[r], from, to)
            safe == ConnectSafe(graph[r], from, to) /\ MeshSafe(h)
<1>1. SessionTypes /\ from \in NodeId /\ to \in NodeId /\ Faultless /\ NoCycles
    BY InvTypes, Site, GraphFields DEF InSession
<1>2. PICK alive \in BOOLEAN :
         <<from, to>> \in Drawable /\ UserEdgeEffect(r, from, to, h, safe, alive)
    BY <1>1, ConnectDoes DEF ConnectEffect
<1>3. crashed = {} => safe /\ Drawn(h) /\ Ids(h) = Ids(graph[r])
    BY <1>1, <1>2, SettledHere, EdgeEnds, DrawnIsMeshSafe
<1>. HIDE DEF h, safe
<1>. QED  BY <1>2, <1>3, SessionUserEdge

LEMMA SessionDisconnect ==
    ASSUME InSession, SessionInv, RemovalInv', NEW r \in Replica,
           NEW from \in Ids(graph[r]), NEW to \in Ids(graph[r]), UserDisconnect(r, from, to)
    PROVE  SessionInv'
<1>. DEFINE h == disconnect(graph[r], from, to)  safe == MeshSafe(h)
<1>1. SessionTypes /\ from \in NodeId /\ to \in NodeId /\ Faultless /\ NoCycles
    BY InvTypes, Site, GraphFields DEF InSession
<1>2. PICK dead \in BOOLEAN :
         <<from, to>> \in graph[r].edges /\ UserEdgeEffect(r, from, to, h, safe, dead)
    BY <1>1, DisconnectDoes DEF DisconnectEffect
<1>3. crashed = {} => <<from, to>> \in Drawable /\ safe /\ Drawn(h) /\ Ids(h) = Ids(graph[r])
    <2>1. crashed = {} => Drawn(h) /\ Ids(h) = Ids(graph[r])
        BY <1>1, SettledHere, EdgeGone
    <2>2. crashed = {} => <<from, to>> \in Drawable
        BY <1>2, SettledHere DEF Drawn
    <2>. QED  BY <1>1, <2>1, <2>2, DrawnIsMeshSafe
<1>. HIDE DEF h, safe
<1>. QED  BY <1>2, <1>3, SessionUserEdge

(* A message is taken.                                                      *)
LEMMA TakenHere ==
    ASSUME NEW now, NEW s \in Inbox(now), s # <<>>, NEW n, ~CreateOf(s[1], n)
    PROVE  ToSet(Tail(s)) \subseteq ToSet(s) /\ Creates(Tail(s), n) = Creates(s, n)
<1>1. ToSet(s) = {s[1]} \cup ToSet(Tail(s))
    BY TailHas DEF Inbox
<1>. QED  BY <1>1 DEF Creates

LEMMA SessionReceiveCreate ==
    ASSUME InSession, SessionInv, RemovalInv', NEW r \in Replica, NEW i \in DOMAIN inbox[r],
           ReceiveCreate(r, i)
    PROVE  SessionInv'
<1>1. SessionTypes /\ Faultless /\ NoCycles
    BY InvTypes DEF InSession
<1>2. PICK m \in ToSet(inbox[r]), safe \in BOOLEAN :
         /\ Receive(r, i, m, "CreateDelete", "Assert") /\ safe
         /\ Committed(r, db'[r], IF open[r] = m.document THEN create(graph[r], m.node) ELSE graph[r],
                      Taken(r, i), safe)
         /\ db'[r] \in Tables(clock)
         /\ Entered(db[r], db'[r], m.node, m.document, m.timestamp)
         /\ clock' = clock /\ stage' = stage
    BY <1>1, ReceiveCreateDoes DEF ReceiveCreateEffect
<1>. DEFINE n == m.node  d == m.document  t == m.timestamp  s == inbox[r]  tables == db[r]
            g == graph[r]  h == IF open[r] = d THEN create(g, n) ELSE g  after == db'[r]
<1>3. /\ s # <<>> /\ m = s[1] /\ m \in Message(clock) /\ m \in ToSet(s)
      /\ m.type = "CreateDelete" /\ m.change = "Assert"
    BY <1>1, <1>2, ReceivedIs
<1>4. n \in Nodes /\ n.id \in NodeId /\ d \in Document
    BY <1>3, MessageFields, NodeFields
<1>5. s \in Inbox(clock) /\ tables \in Tables(clock) /\ clock \in Nat
    BY <1>1, Site
<1>6. CreateOf(m, n.id) /\ m \in Creates(s, n.id)
    BY <1>3 DEF CreateOf, Creates
<1>7. Creates(Tail(s), n.id) = {}
    <2>1. InOrder(s, n.id)
        BY <1>4, InvTypes DEF KnownOK
    <2>. HIDE DEF s
    <2>. QED  BY <1>3, <1>5, <1>6, <2>1, TakenKeeps
<1>8. ToSet(Tail(s)) \subseteq ToSet(s) /\ \A k \in NodeId \ {n.id} : Creates(Tail(s), k) = Creates(s, k)
    <2>1. \A k \in NodeId \ {n.id} : ~CreateOf(s[1], k)
        BY <1>3 DEF CreateOf
    <2>2. ToSet(Tail(s)) \subseteq ToSet(s)
        <3>. HIDE DEF s
        <3>. QED  BY <1>3, <1>5, TailHas DEF Inbox
    <2>. HIDE DEF s
    <2>. QED  BY <1>3, <1>5, <2>1, <2>2, TakenHere
<1>9. crashed = {} => Home(after, Tail(s), h, open[r], stage)
    <2>. SUFFICES ASSUME crashed = {}
                  PROVE  Home(after, Tail(s), h, open[r], stage)
        OBVIOUS
    <2>1. /\ Home(tables, s, g, open[r], stage) /\ open[r] \in Document
          /\ Place(tables, s, g, stage[n.id], n.id)
        BY <1>4, SettledHere
    <2>2. h = create(g, n)
        BY <1>4, <2>1 DEF InSession
    <2>3. \A a \in Attribute : Written(tables, a, n.id) = {}
        BY <1>6, <2>1 DEF Place
    <2>4. stage[n.id] \notin {"unused", "partial"}
        <3>1. Birth(m) \in Births(tables, s, n.id)
            BY <1>6 DEF Births
        <3>2. stage[n.id] # "unused"
            BY <1>4, <3>1, InvTypes DEF KnownOK
        <3>. QED  BY <2>1, <3>2 DEF Place
    <2>. DEFINE w == Tail(s)
    <2>5. /\ Creates(w, n.id) = {} /\ ToSet(w) \subseteq ToSet(s)
          /\ \A k \in NodeId \ {n.id} : stage[k] = stage[k] /\ Creates(w, k) = Creates(s, k)
          /\ Entered(tables, after, n, d, t)
        BY <1>2, <1>7, <1>8
    <2>. HIDE DEF w, s, tables, after, n, d, t, g, h
    <2>6. Home(after, w, create(g, n), open[r], stage)
        BY <1>4, <2>1, <2>3, <2>4, <2>5, EnteredHome
    <2>. QED  BY <2>2, <2>6 DEF w
<1>10. Calm => Ready(after, Tail(s))
    <2>. SUFFICES ASSUME Calm
                  PROVE  Ready(after, Tail(s))
        OBVIOUS
    <2>1. Ready(tables, s)
        BY CalmHere
    <2>2. (\A e : Shown(tables, e) # {} => Shown(after, e) # {}) /\ Shown(after, n.id) # {}
        <3>1. Entered(tables, after, n, d, t)
            BY <1>2
        <3>. HIDE DEF tables, after, n, d, t
        <3>. QED  BY <1>4, <1>5, <3>1, EnteredShows
    <2>3. \A e : CreateOf(s[1], e) => Shown(after, e) # {}
        BY <1>3, <2>2 DEF CreateOf
    <2>. HIDE DEF tables, after, s
    <2>. QED  BY <1>3, <1>5, <2>1, <2>2, <2>3, TakenReady
<1>11. Committed(r, after, h, Taken(r, i), safe)
    BY <1>2
<1>. HIDE DEF h, after
<1>12. /\ crashed = {} /\ safe => Home(after, Tail(inbox[r]), h, open[r], stage)
       /\ Calm => safe /\ Ready(after, Tail(inbox[r]))
    BY <1>2, <1>9, <1>10
<1>. QED  BY <1>1, <1>2, <1>11, <1>12, SessionHears

(* A message about an edge, taken.                                          *)
LEMMA EdgeTaken ==
    ASSUME InSession, SessionInv, NEW r \in Replica, NEW i \in DOMAIN inbox[r], NEW m,
           NEW change, Receive(r, i, m, "ConnectDisconnect", change),
           NEW t, NEW deleted, EdgeRow(r, m.from, m.to, t, deleted), NEW h, crashed = {},
           Drawn(h), Ids(h) = Ids(graph[r])
    PROVE  Home(db'[r], Tail(inbox[r]), h, open[r], stage)
<1>. DEFINE s == inbox[r]  w == Tail(s)
<1>1. SessionTypes /\ Faultless
    BY InvTypes DEF InSession
<1>2. s # <<>> /\ m = s[1] /\ m \in ToSet(s) /\ m.type = "ConnectDisconnect"
    BY <1>1, ReceivedIs
<1>3. Home(db[r], s, graph[r], open[r], stage) /\ <<m.from, m.to>> \in Drawable
    BY <1>2, SettledHere DEF Settled, Fine
<1>4. s \in Inbox(clock)
    BY <1>1, Site
<1>5. \A n : ~CreateOf(s[1], n)
    BY <1>2 DEF CreateOf
<1>6. ToSet(w) \subseteq ToSet(s) /\ \A n \in NodeId : Creates(w, n) = Creates(s, n)
    <2>. HIDE DEF s
    <2>1. ToSet(Tail(s)) \subseteq ToSet(s)
        BY <1>2, <1>4, TailHas DEF Inbox
    <2>. QED  BY <1>2, <1>4, <1>5, <2>1, TakenHere
<1>. HIDE DEF w, s
<1>7. Home(db'[r], w, h, open[r], stage)
    BY <1>3, <1>6, EdgeHome
<1>. QED  BY <1>7 DEF w, s

LEMMA EdgeReady ==
    ASSUME InSession, SessionInv, NEW r \in Replica, NEW i \in DOMAIN inbox[r], NEW m,
           NEW change, Receive(r, i, m, "ConnectDisconnect", change),
           NEW t, NEW deleted, EdgeRow(r, m.from, m.to, t, deleted), Calm
    PROVE  /\ Ready(db'[r], Tail(inbox[r]))
           /\ m.from \in Ids(graph[r]) /\ m.to \in Ids(graph[r])
<1>. DEFINE s == inbox[r]  tables == db[r]  after == db'[r]
<1>1. SessionTypes /\ Faultless
    BY InvTypes DEF InSession
<1>2. s # <<>> /\ m = s[1] /\ m \in Message(clock) /\ m.type = "ConnectDisconnect"
    BY <1>1, ReceivedIs
<1>3. s \in Inbox(clock)
    BY <1>1, Site
<1>4. crashed = {} /\ Ready(tables, s)
    BY CalmHere
<1>5. \A e : Shown(after, e) = Shown(tables, e)
    BY DEF EdgeRow, Shown, NodeRows
<1>6. \A e : ~CreateOf(s[1], e)
    BY <1>2 DEF CreateOf
<1>7. Ready(after, Tail(s))
    <2>. HIDE DEF s, tables, after
    <2>. QED  BY <1>2, <1>3, <1>4, <1>5, <1>6, TakenReady
<1>8. Shown(tables, m.from) # {} /\ Shown(tables, m.to) # {}
    <2>. HIDE DEF s, tables
    <2>. QED  BY <1>2, <1>3, <1>4, ReadyFirst
<1>9. m.from \in NodeId /\ m.to \in NodeId
    BY <1>2, MessageFields
<1>10. m.from \in Ids(graph[r]) /\ m.to \in Ids(graph[r])
    BY <1>4, <1>8, <1>9, SettledHere DEF Place
<1>. QED  BY <1>7, <1>10

LEMMA SessionReceiveConnect ==
    ASSUME InSession, SessionInv, RemovalInv', NEW r \in Replica, NEW i \in DOMAIN inbox[r],
           ReceiveConnect(r, i)
    PROVE  SessionInv'
<1>1. SessionTypes /\ Faultless /\ NoCycles
    BY InvTypes DEF InSession
<1>2. PICK m \in ToSet(inbox[r]), alive \in BOOLEAN :
         /\ Receive(r, i, m, "ConnectDisconnect", "Assert") /\ ~alive
         /\ Committed(r, db'[r], connect(graph[r], m.from, m.to), Taken(r, i),
                      IsOpen(r) /\ ConnectSafe(graph[r], m.from, m.to))
         /\ EdgeRow(r, m.from, m.to, m.timestamp, alive)
         /\ clock' = clock /\ stage' = stage
    BY <1>1, ReceiveConnectDoes DEF ReceiveConnectEffect
<1>. DEFINE h == connect(graph[r], m.from, m.to)
            safe == IsOpen(r) /\ ConnectSafe(graph[r], m.from, m.to)
<1>3. m \in ToSet(inbox[r]) /\ m.type = "ConnectDisconnect"
    BY <1>1, <1>2, ReceivedIs
<1>4. ASSUME crashed = {}, ConnectSafe(graph[r], m.from, m.to)
      PROVE  Home(db'[r], Tail(inbox[r]), h, open[r], stage)
    <2>1. <<m.from, m.to>> \in Drawable /\ Drawn(graph[r])
        BY <1>3, <1>4, SettledHere DEF Settled, Fine
    <2>2. Drawn(h) /\ Ids(h) = Ids(graph[r])
        BY <1>1, <1>4, <2>1, EdgeEnds DEF ConnectSafe
    <2>. HIDE DEF h
    <2>. QED  BY <1>2, <1>4, <2>2, EdgeTaken
<1>5. ASSUME Calm
      PROVE  safe /\ Ready(db'[r], Tail(inbox[r]))
    <2>1. crashed = {}
        BY <1>5, CalmHere
    <2>2. /\ Ready(db'[r], Tail(inbox[r]))
          /\ m.from \in Ids(graph[r]) /\ m.to \in Ids(graph[r])
        BY <1>2, <1>5, EdgeReady
    <2>3. <<m.from, m.to>> \in Drawable /\ Drawn(graph[r]) /\ IsOpen(r)
        BY <1>3, <2>1, SettledHere DEF Settled, Fine
    <2>. QED  BY <1>1, <2>2, <2>3, EdgeEnds
<1>6. Committed(r, db'[r], h, Taken(r, i), safe)
    BY <1>2
<1>7. crashed = {} /\ safe => Home(db'[r], Tail(inbox[r]), h, open[r], stage)
    BY <1>4
<1>. HIDE DEF h, safe
<1>. QED  BY <1>1, <1>2, <1>5, <1>6, <1>7, SessionHears

LEMMA SessionReceiveDisconnect ==
    ASSUME InSession, SessionInv, RemovalInv', NEW r \in Replica, NEW i \in DOMAIN inbox[r],
           ReceiveDisconnect(r, i)
    PROVE  SessionInv'
<1>1. SessionTypes /\ Faultless /\ NoCycles
    BY InvTypes DEF InSession
<1>2. PICK m \in ToSet(inbox[r]), dead \in BOOLEAN :
         /\ Receive(r, i, m, "ConnectDisconnect", "Retract") /\ dead
         /\ Committed(r, db'[r], disconnect(graph[r], m.from, m.to), Taken(r, i), IsOpen(r))
         /\ EdgeRow(r, m.from, m.to, m.timestamp, dead)
         /\ clock' = clock /\ stage' = stage
    BY <1>1, ReceiveDisconnectDoes DEF ReceiveDisconnectEffect
<1>. DEFINE h == disconnect(graph[r], m.from, m.to)  safe == IsOpen(r)
<1>3. m \in Message(clock) /\ m.type = "ConnectDisconnect"
    BY <1>1, <1>2, ReceivedIs
<1>4. ASSUME crashed = {}
      PROVE  Home(db'[r], Tail(inbox[r]), h, open[r], stage)
    <2>1. Drawn(h) /\ Ids(h) = Ids(graph[r])
        BY <1>3, <1>4, MessageFields, SettledHere, EdgeGone
    <2>. HIDE DEF h
    <2>. QED  BY <1>2, <1>4, <2>1, EdgeTaken
<1>5. ASSUME Calm
      PROVE  safe /\ Ready(db'[r], Tail(inbox[r]))
    <2>1. crashed = {}
        BY <1>5, CalmHere
    <2>2. Ready(db'[r], Tail(inbox[r]))
        BY <1>2, <1>5, EdgeReady
    <2>. QED  BY <2>1, <2>2, SettledHere
<1>6. Committed(r, db'[r], h, Taken(r, i), safe)
    BY <1>2
<1>. HIDE DEF h, safe
<1>. QED  BY <1>1, <1>2, <1>4, <1>5, <1>6, SessionHears

LEMMA SentSettled ==
    ASSUME NEW t, NEW s \in Inbox(t), NEW u \in Inbox(t), \A m \in ToSet(u) : Fine(m),
           NEW tables, NEW g, NEW o, Settled(tables, s, g, o)
    PROVE  Settled(tables, Joined(s, u), g, o)
<1>1. ToSet(s \o u) = ToSet(s) \cup ToSet(u)
    BY ConcatHas DEF Inbox
<1>2. ToSet(Joined(s, u)) = ToSet(s) \cup ToSet(u)
    BY <1>1 DEF Joined
<1>. QED  BY <1>2 DEF Settled

LEMMA EchoFine ==
    ASSUME NEW now, now \in 0 .. now, NEW n \in Nodes, NEW sent, NEW echoes,
           Echo(now, sent, echoes, n)
    PROVE  sent \in Inbox(now) /\ \A m \in ToSet(sent) : Fine(m)
<1>1. CASE sent = <<>>
    BY <1>1 DEF Inbox, ToSet
<1>2. CASE \E d \in Document : sent = <<CreateDelete(n, d, "Retract", now)>>
    <2>1. PICK d \in Document : sent = <<CreateDelete(n, d, "Retract", now)>>
        BY <1>2
    <2>. DEFINE m == CreateDelete(n, d, "Retract", now)
    <2>2. m \in Message(now) /\ m.type = "CreateDelete"
        BY MessageIs DEF CreateDelete
    <2>. HIDE DEF m
    <2>3. <<m>> \in Inbox(now) /\ ToSet(<<m>>) = {m}
        BY <2>2, SentOne
    <2>. QED  BY <2>1, <2>2, <2>3 DEF Fine, m
<1>. QED  BY <1>1, <1>2 DEF Echo

LEMMA SessionReceiveRemove ==
    ASSUME InSession, SessionInv, RemovalInv', NEW r \in Replica, NEW i \in DOMAIN inbox[r],
           ReceiveRemove(r, i)
    PROVE  SessionInv'
<1>1. SessionTypes /\ RemovalInv /\ Faultless /\ NoCycles
    BY InvTypes DEF InSession
<1>2. PICK m \in ToSet(inbox[r]) : \E sent, echoes :
         /\ Receive(r, i, m, "CreateDelete", "Retract")
         /\ Echo(clock + 1, sent, echoes, m.node)
         /\ Committed(r, db'[r], remove(graph[r], m.node.id), Post(Taken(r, i), r, sent),
                      IsOpen(r) /\ MeshSafe(remove(graph[r], m.node.id)))
         /\ db'[r] \in Tables(clock + 1)
         /\ Removed(db[r], db'[r], m.node, m.document, m.timestamp)
         /\ clock < MaxTime /\ clock' = clock + 1 /\ stage' = stage
    BY <1>1, ReceiveRemoveDoes DEF ReceiveRemoveEffect
<1>3. PICK sent, echoes :
         /\ Receive(r, i, m, "CreateDelete", "Retract")
         /\ Echo(clock + 1, sent, echoes, m.node)
         /\ Committed(r, db'[r], remove(graph[r], m.node.id), Post(Taken(r, i), r, sent),
                      IsOpen(r) /\ MeshSafe(remove(graph[r], m.node.id)))
         /\ db'[r] \in Tables(clock + 1)
         /\ Removed(db[r], db'[r], m.node, m.document, m.timestamp)
         /\ clock < MaxTime /\ clock' = clock + 1 /\ stage' = stage
    BY <1>2
<1>. DEFINE n == m.node  d == m.document  t == m.timestamp  now == clock + 1  s == inbox[r]
            tables == db[r]  after == db'[r]  g == graph[r]  h == remove(g, n.id)
            boxes == Post(Taken(r, i), r, sent)  safe == IsOpen(r) /\ MeshSafe(h)
<1>4. /\ s # <<>> /\ m = s[1] /\ m \in Message(clock) /\ m \in ToSet(s)
      /\ m.type = "CreateDelete" /\ m.change = "Retract"
      /\ Taken(r, i) \in [Replica -> Inbox(clock)]
      /\ \A q \in Replica : q # r => Taken(r, i)[q] = inbox[q]
    BY <1>1, <1>3, ReceivedIs
<1>5. n \in Nodes /\ n.id \in NodeId /\ d \in Document
    BY <1>4, MessageFields, NodeFields
<1>6. s \in Inbox(clock) /\ tables \in Tables(clock) /\ clock \in Nat
    BY <1>1, Site
<1>7. now \in 0 .. now
    BY <1>6
<1>8. m \in Removals(s, n.id)
    BY <1>4 DEF RemovalOf, Removals
<1>9. stage[n.id] = "removed"
    BY <1>5, <1>8, InvTypes DEF KnownOK
<1>10. ~Calm'
    BY <1>3, <1>5, <1>9 DEF Calm
<1>11. Creates(Tail(s), n.id) = {}
    <2>1. InOrder(s, n.id) /\ RemovalOf(s[1], n.id)
        BY <1>4, <1>5, InvTypes DEF KnownOK, RemovalOf
    <2>. HIDE DEF s
    <2>. QED  BY <1>4, <1>6, <2>1, TakenKeeps
<1>12. ToSet(Tail(s)) \subseteq ToSet(s) /\ \A k \in NodeId : Creates(Tail(s), k) = Creates(s, k)
    <2>1. \A k \in NodeId : ~CreateOf(s[1], k)
        BY <1>4 DEF CreateOf
    <2>2. ToSet(Tail(s)) \subseteq ToSet(s)
        <3>. HIDE DEF s
        <3>. QED  BY <1>4, <1>6, TailHas DEF Inbox
    <2>. HIDE DEF s
    <2>. QED  BY <1>4, <1>6, <2>1, <2>2, TakenHere
<1>13. Echoed(r, n.id, boxes, now, echoes)
    <2>. HIDE DEF boxes, now
    <2>. QED  BY <1>1, <1>3, <1>4, <1>5, <1>7, EchoPosted DEF boxes, now
<1>14. ASSUME crashed = {}
       PROVE  Home(after, boxes[r], h, open[r], stage)
    <2>1. Home(tables, s, g, open[r], stage)
        BY <1>14, SettledHere
    <2>2. \A x \in Shown(tables, n.id) : x.document = d /\ x.timestamp < t
        <3>1. ASSUME NEW x \in Shown(tables, n.id)
              PROVE  x.document = d /\ x.timestamp < t
            <4>1. x.document \in Document
                BY <1>6, ShownKnown
            <4>2. Birth(x) \in Births(tables, s, n.id)
                BY DEF Births
            <4>3. Birth(x)[2] < t
                BY <1>5, <1>8, <4>2, InvTypes DEF BornOnce
            <4>. QED  BY <1>5, <4>1, <4>3 DEF InSession, Birth
        <3>. QED  BY <3>1
    <2>. DEFINE w == Tail(s)
    <2>3. /\ Removed(tables, after, n, d, t)
          /\ Creates(w, n.id) = {} /\ ToSet(w) \subseteq ToSet(s)
          /\ \A k \in NodeId \ {n.id} : stage[k] = stage[k] /\ Creates(w, k) = Creates(s, k)
        BY <1>3, <1>11, <1>12
    <2>4. boxes[r] = w
        BY <1>13 DEF Echoed
    <2>. HIDE DEF w, s, tables, after, n, d, t, g, boxes, h
    <2>5. Home(after, w, remove(g, n.id), open[r], stage)
        BY <1>5, <1>9, <2>1, <2>2, <2>3, RemovedHome
    <2>. QED  BY <2>4, <2>5 DEF h
<1>15. ASSUME crashed = {}, NEW q \in Replica, q # r
       PROVE  Home(db[q], boxes[q], graph[q], open[q], stage)
    <2>1. Home(db[q], inbox[q], graph[q], open[q], stage)
        BY <1>15, SettledHere
    <2>2. \A k \in NodeId : Creates(boxes[q], k) = Creates(inbox[q], k)
        BY <1>13, <1>15 DEF Echoed, Same
    <2>3. sent \in Inbox(now) /\ \A x \in ToSet(sent) : Fine(x)
        <3>1. Echo(now, sent, echoes, n)
            BY <1>3
        <3>. HIDE DEF now, n
        <3>. QED  BY <1>5, <1>7, <3>1, EchoFine
    <2>4. inbox[q] \in Inbox(now) /\ boxes[q] = Joined(inbox[q], sent)
        <3>. DEFINE rest == Taken(r, i)
        <3>1. \A p \in Replica : rest[p] \in Inbox(now)
            BY <1>4, <1>6, MessagesLater
        <3>2. rest \in [Replica -> Inbox(now)]
            BY <1>4, <3>1
        <3>. HIDE DEF now, rest
        <3>3. boxes[q] = Joined(rest[q], sent)
            BY <1>15, <2>3, <3>2, PostIs DEF rest
        <3>. QED  BY <1>4, <1>15, <3>1, <3>3 DEF rest
    <2>5. Settled(db[q], boxes[q], graph[q], open[q])
        <3>. HIDE DEF now, boxes
        <3>. QED  BY <2>1, <2>3, <2>4, SentSettled DEF Home
    <2>6. \A k \in NodeId : Place(db[q], boxes[q], graph[q], stage[k], k)
        BY <2>1, <2>2 DEF Home, Place
    <2>. QED  BY <2>5, <2>6 DEF Home
<1>16. Committed(r, after, h, boxes, safe) /\ stage' = stage
    BY <1>3
<1>. HIDE DEF after, h, boxes, safe
<1>. QED  BY <1>10, <1>14, <1>15, <1>16, SessionKeeps

LEMMA SessionOpen ==
    ASSUME InSession, SessionInv, RemovalInv', NEW r \in Replica, NEW d \in Document, Open(r, d)
    PROVE  SessionInv'
<1>. DEFINE h == Opened(db[r], d)
<1>1. SessionTypes
    BY InvTypes
<1>2. /\ open' = [open EXCEPT ![r] = d] /\ graph' = [graph EXCEPT ![r] = h]
      /\ db' = db /\ crashed' = crashed /\ inbox' = inbox /\ clock' = clock /\ stage' = stage
    BY DEF Open
<1>3. ASSUME crashed = {}
      PROVE  Home(db[r], inbox[r], h, d, stage)
    <2>. DEFINE tables == db[r]  g == graph[r]
    <2>1. Home(tables, inbox[r], g, open[r], stage) /\ g \in Graphs
        BY <1>3, SettledHere
    <2>2. clock \in Nat /\ tables \in Tables(clock)
        BY <1>1, Site
    <2>3. \A n \in NodeId : \A x \in Shown(tables, n) : x.type = Kind[n] /\ x.document = d
        <3>1. \A n \in NodeId : \A x \in Shown(tables, n) : x.type = Kind[n]
            BY InvTypes DEF KnownOK
        <3>2. \A n \in NodeId : \A x \in Shown(tables, n) : x.document \in Document
            BY <2>2, ShownKnown
        <3>. QED  BY <3>1, <3>2 DEF InSession
    <2>4. \A n \in Ids(g) : Shown(tables, n) # {}
        <3>1. Ids(g) \subseteq NodeId
            BY <2>1, GraphFields
        <3>. QED  BY <1>3, <3>1, InvTypes DEF RemovalComes
    <2>5. IsFiniteSet(Value) /\ h = Opened(tables, d)
        BY DEF InSession
    <2>. HIDE DEF h, tables, g
    <2>6. Home(tables, inbox[r], h, d, stage)
        BY <2>1, <2>2, <2>3, <2>4, <2>5, OpenedHome
    <2>. QED  BY <2>6 DEF tables
<1>. HIDE DEF h
<1>4. /\ open'[r] = d /\ graph'[r] = h
      /\ \A q \in Replica : q # r => open'[q] = open[q] /\ graph'[q] = graph[q]
    BY <1>1, <1>2 DEF SessionTypes
<1>5. crashed' = {} => AllSettled'
    BY <1>2, <1>3, <1>4 DEF AllSettled, SessionInv
<1>6. Calm' => crashed' = {} /\ \A q \in Replica : Ready(db'[q], inbox'[q])
    BY <1>2 DEF SessionInv, Calm
<1>. QED  BY <1>5, <1>6 DEF SessionInv

LEMMA SessionPeer ==
    ASSUME InSession, SessionInv, RemovalInv', NEW from \in NodeId, NEW to \in NodeId,
           PeerDisconnect(from, to)
    PROVE  SessionInv'
<1>. DEFINE t == clock + 1  m == ConnectDisconnect(from, to, "Retract", t)
<1>1. SessionTypes
    BY InvTypes
<1>2. /\ clock < MaxTime /\ clock' = t
      /\ inbox' = [q \in Replica |-> Append(inbox[q], m)]
      /\ db' = db /\ open' = open /\ graph' = graph /\ crashed' = crashed /\ stage' = stage
    BY DEF PeerDisconnect
<1>3. PICK r \in Replica : <<from, to>> \in graph[r].edges
    BY DEF PeerDisconnect
<1>4. m \in Message(t) /\ \A q \in Replica : inbox[q] \in Inbox(t)
    <2>1. t \in 0 .. t /\ inbox \in [Replica -> Inbox(t)]
        BY <1>1, <1>2, AnyTime
    <2>2. m \in Message(t)
        <3>. HIDE DEF t
        <3>. QED  BY <2>1, MessageIs
    <2>. QED  BY <2>1, <2>2
<1>5. m.type = "ConnectDisconnect" /\ m.from = from /\ m.to = to
    BY DEF ConnectDisconnect
<1>. HIDE DEF m, t
<1>6. \A q \in Replica : inbox'[q] = Joined(inbox[q], <<m>>)
    <2>1. ASSUME NEW q \in Replica
          PROVE  Append(inbox[q], m) = inbox[q] \o <<m>>
        <3>1. inbox[q] \in Seq(Message(t))
            BY <1>4 DEF Inbox
        <3>. QED  BY <1>4, <3>1
    <2>. QED  BY <1>2, <2>1 DEF Joined
<1>7. crashed = {} =>
         Fine(m) /\ from \in Ids(graph[r]) /\ to \in Ids(graph[r])
    <2>1. crashed = {} => Drawn(graph[r])
        BY SettledHere
    <2>. QED  BY <1>3, <1>5, <2>1 DEF Drawn, Fine
<1>8. Lives(m, stage, stage)
    BY <1>5 DEF Lives, CreateOf
<1>9. ASSUME crashed = {}, NEW q \in Replica
      PROVE  Home(db[q], Joined(inbox[q], <<m>>), graph[q], open[q], stage)
    <2>1. Home(db[q], inbox[q], graph[q], open[q], stage)
        BY <1>9, SettledHere
    <2>2. Settled(db[q], Joined(inbox[q], <<m>>), graph[q], open[q])
        BY <1>4, <1>7, <1>9, <2>1, AnnouncedSettled DEF Home
    <2>3. \A n \in NodeId : Place(db[q], Joined(inbox[q], <<m>>), graph[q], stage[n], n)
        BY <1>4, <1>8, <1>9, <2>1, AnnouncedPlace DEF Home
    <2>. QED  BY <2>2, <2>3 DEF Home
<1>10. ASSUME Calm, NEW q \in Replica
       PROVE  crashed = {} /\ Ready(db[q], Joined(inbox[q], <<m>>))
    <2>1. crashed = {} /\ Ready(db[q], inbox[q])
        BY <1>10, CalmHere
    <2>2. \A e \in {m.from, m.to} : Shown(db[q], e) # {} \/ Creates(inbox[q], e) # {}
        BY <1>5, <1>7, <1>10, <2>1, EndsHeard
    <2>. QED  BY <1>4, <2>1, <2>2, AnnouncedReady
<1>11. crashed' = {} => AllSettled'
    BY <1>2, <1>6, <1>9 DEF AllSettled
<1>12. Calm' => crashed' = {} /\ \A q \in Replica : Ready(db'[q], inbox'[q])
    BY <1>2, <1>6, <1>10 DEF Calm
<1>. QED  BY <1>11, <1>12 DEF SessionInv

LEMMA SessionReceiveUpdate ==
    ASSUME InSession, SessionInv, RemovalInv', NEW r \in Replica, NEW i \in DOMAIN inbox[r],
           ReceiveUpdate(r, i)
    PROVE  SessionInv'
<1>1. SessionTypes /\ Faultless
    BY InvTypes DEF InSession
<1>2. PICK m \in ToSet(inbox[r]) : Receive(r, i, m, "Update", "Assert") /\ stage' = stage
    BY DEF ReceiveUpdate
<1>3. m \in ToSet(inbox[r]) /\ m.type = "Update"
    BY <1>1, <1>2, ReceivedIs
<1>4. crashed # {}
    BY <1>3, SettledHere DEF Settled, Fine
<1>5. crashed \subseteq crashed'
    BY DEF ReceiveUpdate, Outcome
<1>. QED  BY <1>2, <1>4, <1>5 DEF SessionInv, Calm

LEMMA SessionStarts ==
    ASSUME InSession, SessionInit
    PROVE  SessionInv
<1>1. RemovalInv
    BY SessionInitRemoval
<1>2. \A s \in {<<>>} : ToSet(s) = {} /\ DOMAIN s = {} /\ \A n : Creates(s, n) = {}
    BY DEF Creates, ToSet
<1>3. \A n : Shown(EmptyTables, n) = {}
    BY DEF Shown, NodeRows, EmptyTables, ToSet
<1>4. \A n : \A a \in Attribute : Written(EmptyTables, a, n) = {}
    BY DEF Written, EmptyTables, Attribute
<1>5. Drawn(EmptyGraph) /\ EmptyTables.edge = {}
    BY EmptyGraphIs DEF EmptyGraph, EmptyTables, Drawn
<1>6. \A n \in NodeId : Place(EmptyTables, <<>>, EmptyGraph, "unused", n)
    BY <1>2, <1>3, <1>4 DEF Place
<1>7. \A d \in Document : Settled(EmptyTables, <<>>, EmptyGraph, d)
    BY <1>2, <1>5 DEF Settled
<1>8. AllSettled
    <2>1. ASSUME NEW r \in Replica
          PROVE  Home(db[r], inbox[r], graph[r], open[r], stage)
        <3>1. db[r] = EmptyTables /\ inbox[r] = <<>> /\ graph[r] = EmptyGraph /\ open[r] \in Document
              /\ \A n \in NodeId : stage[n] = "unused"
            BY DEF SessionInit
        <3>. QED  BY <1>6, <1>7, <3>1 DEF Home
    <2>. QED  BY <2>1 DEF AllSettled
<1>9. crashed = {} /\ \A r \in Replica : Ready(db[r], inbox[r])
    BY <1>2 DEF SessionInit, Ready
<1>. QED  BY <1>1, <1>8, <1>9 DEF SessionInv

LEMMA NextKeepsSession ==
    ASSUME InSession, SessionInv, [Next]_vars
    PROVE  SessionInv'
<1>1. RemovalInv'
    BY NextKeepsRemoval, InvTypes DEF InSession
<1>2. CASE UNCHANGED vars
    BY <1>1, <1>2 DEF vars, SessionInv, AllSettled, Calm
<1>3. CASE \E from, to \in NodeId : PeerDisconnect(from, to)
    BY <1>1, <1>3, SessionPeer
<1>4. ASSUME NEW r \in Replica \ crashed,
             \/ \E d \in Document : Open(r, d)
             \/ \E n \in Handed : UserCreate(r, n) \/ UserUpdate(r, n)
             \/ \E n \in ToSet(graph[r].nodes) : UserRemove(r, n)
             \/ \E from, to \in NodeId :
                   /\ {from, to} \subseteq Ids(graph[r])
                   /\ UserConnect(r, from, to) \/ UserDisconnect(r, from, to)
             \/ \E i \in DOMAIN inbox[r] :
                   \/ ReceiveCreate(r, i) \/ ReceiveRemove(r, i)
                   \/ ReceiveConnect(r, i) \/ ReceiveDisconnect(r, i)
                   \/ ReceiveUpdate(r, i)
      PROVE  SessionInv'
    <2>1. CASE \E d \in Document : Open(r, d)
        BY <1>1, <2>1, SessionOpen
    <2>2. CASE \E n \in Handed : UserCreate(r, n)
        BY <1>1, <2>2, SessionCreate DEF Handed
    <2>3. CASE \E n \in Handed : UserUpdate(r, n)
        BY <2>3 DEF UserUpdate, UserCall, InSession
    <2>4. CASE \E n \in ToSet(graph[r].nodes) : UserRemove(r, n)
        BY <1>1, <2>4, SessionRemove
    <2>5. CASE \E from, to \in Ids(graph[r]) : UserConnect(r, from, to)
        BY <1>1, <2>5, SessionConnect
    <2>6. CASE \E from, to \in Ids(graph[r]) : UserDisconnect(r, from, to)
        BY <1>1, <2>6, SessionDisconnect
    <2>7. CASE \E i \in DOMAIN inbox[r] : ReceiveCreate(r, i)
        BY <1>1, <2>7, SessionReceiveCreate
    <2>8. CASE \E i \in DOMAIN inbox[r] : ReceiveRemove(r, i)
        BY <1>1, <2>8, SessionReceiveRemove
    <2>9. CASE \E i \in DOMAIN inbox[r] : ReceiveConnect(r, i)
        BY <1>1, <2>9, SessionReceiveConnect
    <2>10. CASE \E i \in DOMAIN inbox[r] : ReceiveDisconnect(r, i)
        BY <1>1, <2>10, SessionReceiveDisconnect
    <2>11. CASE \E i \in DOMAIN inbox[r] : ReceiveUpdate(r, i)
        BY <1>1, <2>11, SessionReceiveUpdate
    <2>. QED  BY <1>4, <2>1, <2>2, <2>3, <2>4, <2>5, <2>6, <2>7, <2>8, <2>9, <2>10, <2>11
<1>. QED  BY <1>2, <1>3, <1>4 DEF Next

(* In a session every replica has the nodes that its tables show, and as    *)
(* long as nobody has removed a node every message about an edge comes      *)
(* after the creation of its ends.                                          *)
THEOREM SessionGraphInvariant ==
    ASSUME InSession
    PROVE  SessionSpec => []SessionInv
<1>1. SessionInit => SessionInv
    BY SessionStarts
<1>2. SessionInv /\ [Next]_vars => SessionInv'
    BY NextKeepsSession
<1>. QED  BY <1>1, <1>2, PTL DEF SessionSpec

(* A connect never arrives before the nodes it joins, as long as messages   *)
(* keep their order, every replica has the document open and nobody removes *)
(* a node: only then does Graph::connect find both ends.                    *)
THEOREM SessionConnectsFindTheirNodes ==
    ASSUME InSession
    PROVE  SessionSpec => []ConnectsFindTheirNodes
<1>1. SessionInv => ConnectsFindTheirNodes
    BY DEF SessionInv, Calm, ConnectsFindTheirNodes
<1>. QED  BY <1>1, SessionGraphInvariant, PTL

-----------------------------------------------------------------------------
(* A session in which nodes are created, connected and removed: when all    *)
(* that was done has arrived the replicas agree.                            *)
Converging == InSession /\ Calls \subseteq {"create", "connect", "remove"}

(* Whoever creates, shows, removes or stores a node means the same          *)
(* attributes.                                                              *)
Face(tables, s, g, n, f) ==
    /\ \A m \in ToSet(s) : m.type = "CreateDelete" /\ m.node.id = n => m.node.attr = f
    /\ \A x \in ToSet(g.nodes) : x.id = n => x.attr = f
    /\ \A a \in Names(n) : \A x \in Written(tables, a, n) : x.val = f[a]

Known(tables, s, g) ==
    \A n \in NodeId : \E f : Face(tables, s, g, n, f)

(* The edges of the graph are those that the tables hold for its nodes.     *)
Wired(tables, s, g, life) ==
    /\ \A x \in tables.edge :
          ~x.deleted /\ \A e \in {x.entity, x.entity_to} : life[e] # "unused" /\ Creates(s, e) = {}
    /\ \A m \in ToSet(s) : m.type = "ConnectDisconnect" =>
          m.change = "Assert" /\ \A e \in {m.from, m.to} : life[e] # "unused"
    /\ \A a, b \in Ids(g) : <<a, b>> \in g.edges <=> Linked(tables, a, b)

(* An edge is drawn or on its way.                                          *)
Joins(s, g, a, b) ==
    \/ <<a, b>> \in g.edges
    \/ \E m \in ToSet(s) : m.type = "ConnectDisconnect" /\ m.from = a /\ m.to = b

JoinsAgree(a, b) ==
    \A r, q \in Replica :
        stage[a] = "created" /\ stage[b] = "created" /\ Joins(inbox[r], graph[r], a, b)
            => Joins(inbox[q], graph[q], a, b)

AllFaced ==
    \A n \in NodeId : \E f : \A r \in Replica : Face(db[r], inbox[r], graph[r], n, f)

AllWired == \A r \in Replica : Wired(db[r], inbox[r], graph[r], stage)

AllJoined == \A a, b \in NodeId : JoinsAgree(a, b)

ConvergeInv ==
    /\ SessionInv
    /\ crashed = {} => AllFaced /\ AllWired /\ AllJoined

-----------------------------------------------------------------------------
(* Attributes *)

LEMMA FaceSent ==
    ASSUME NEW t, NEW s \in Inbox(t), NEW m \in Message(t), NEW tables, NEW g, NEW n, NEW f,
           m.type = "CreateDelete" /\ m.node.id = n => m.node.attr = f,
           Face(tables, s, g, n, f)
    PROVE  Face(tables, Joined(s, <<m>>), g, n, f)
<1>1. ToSet(Joined(s, <<m>>)) = ToSet(s) \cup {m}
    BY JoinedOne
<1>. QED  BY <1>1 DEF Face

LEMMA FaceEntered ==
    ASSUME NEW k \in Nodes, NEW d, NEW t, NEW tables, NEW after, Entered(tables, after, k, d, t),
           \A a \in Attribute : Written(tables, a, k.id) = {},
           NEW s, NEW w, ToSet(w) \subseteq ToSet(s), NEW g \in Graphs,
           NEW n \in NodeId, NEW f, k.id = n => k.attr = f, Face(tables, s, g, n, f)
    PROVE  Face(after, w, create(g, k), n, f)
<1>1. Names(n) \subseteq Attribute
    BY KindAssumption, AttributesAre DEF Names
<1>2. ToSet(create(g, k).nodes) = ToSet(g.nodes) \cup {k}
    BY CreateGraph
<1>3. ASSUME NEW a \in Names(n), NEW x \in Written(after, a, n)
      PROVE  x.val = f[a]
    <2>1. CASE n = k.id
        <3>1. Written(after, a, n)
                = {[entity |-> k.id, val |-> k.attr[a], timestamp |-> t, deleted |-> FALSE]}
            BY <2>1 DEF Entered
        <3>2. x.val = k.attr[a]
            BY <3>1
        <3>. QED  BY <2>1, <3>2
    <2>2. CASE n # k.id
        <3>1. x \in Written(tables, a, n)
            BY <1>1, <1>3, <2>2 DEF Entered, Untouched
        <3>. QED  BY <3>1 DEF Face
    <2>. QED  BY <2>1, <2>2
<1>. QED  BY <1>2, <1>3 DEF Face

LEMMA FaceRemoved ==
    ASSUME NEW k \in Nodes, NEW d, NEW t, NEW tables, NEW after, Removed(tables, after, k, d, t),
           NEW s, NEW w, ToSet(w) \subseteq ToSet(s), NEW g \in Graphs,
           NEW n \in NodeId, NEW f, k.id = n => k.attr = f, Face(tables, s, g, n, f)
    PROVE  Face(after, w, remove(g, k.id), n, f)
<1>1. Names(n) \subseteq Attribute
    BY KindAssumption, AttributesAre DEF Names
<1>2. ToSet(remove(g, k.id).nodes) \subseteq ToSet(g.nodes)
    BY RemoveGraph
<1>3. ASSUME NEW a \in Names(n), NEW x \in Written(after, a, n)
      PROVE  x.val = f[a]
    <2>1. CASE n = k.id
        <3>1. x \in Written(tables, a, n) \/ x.val = k.attr[a]
            BY <2>1 DEF Removed
        <3>. QED  BY <2>1, <3>1 DEF Face
    <2>2. CASE n # k.id
        <3>1. x \in Written(tables, a, n)
            BY <1>1, <1>3, <2>2 DEF Removed, Untouched
        <3>. QED  BY <3>1 DEF Face
    <2>. QED  BY <2>1, <2>2
<1>. QED  BY <1>2, <1>3 DEF Face

LEMMA FaceEdge ==
    ASSUME NEW r, NEW from, NEW to, NEW t, NEW deleted, EdgeRow(r, from, to, t, deleted),
           NEW s, NEW w, ToSet(w) \subseteq ToSet(s), NEW g, NEW h, h.nodes = g.nodes,
           NEW n, NEW f, Face(db[r], s, g, n, f)
    PROVE  Face(db'[r], w, h, n, f)
<1>1. \A a : Written(db'[r], a, n) = Written(db[r], a, n)
    BY DEF EdgeRow, Written
<1>. QED  BY <1>1 DEF Face

-----------------------------------------------------------------------------
(* Edges *)

(* A message is on its way to a replica.                                    *)
LEMMA WiredSent ==
    ASSUME NEW t, NEW s \in Inbox(t), NEW m \in Message(t), NEW life, NEW l, Lives(m, life, l),
           m.type = "ConnectDisconnect" =>
              m.change = "Assert" /\ \A e \in {m.from, m.to} : l[e] # "unused",
           NEW tables, NEW g, \A x \in tables.edge : {x.entity, x.entity_to} \subseteq NodeId,
           Wired(tables, s, g, life)
    PROVE  Wired(tables, Joined(s, <<m>>), g, l)
<1>. DEFINE w == Joined(s, <<m>>)
<1>1. /\ ToSet(w) = ToSet(s) \cup {m}
      /\ \A n : Creates(w, n) = Creates(s, n) \cup {x \in {m} : CreateOf(x, n)}
    BY JoinedOne
<1>. HIDE DEF w
<1>2. \A n \in NodeId : l[n] = "unused" => life[n] = "unused"
    BY DEF Lives
<1>3. ASSUME NEW x \in tables.edge, NEW e \in {x.entity, x.entity_to}
      PROVE  l[e] # "unused" /\ Creates(w, e) = {}
    <2>1. e \in NodeId /\ life[e] # "unused" /\ Creates(s, e) = {}
        BY DEF Wired
    <2>2. ~CreateOf(m, e)
        BY <2>1 DEF Lives
    <2>. QED  BY <1>1, <1>2, <2>1, <2>2
<1>4. ASSUME NEW x \in ToSet(w), x.type = "ConnectDisconnect"
      PROVE  x.change = "Assert" /\ \A e \in {x.from, x.to} : l[e] # "unused"
    <2>1. CASE x = m
        BY <1>4, <2>1
    <2>2. CASE x \in ToSet(s)
        <3>1. x.from \in NodeId /\ x.to \in NodeId
            <4>1. x \in Message(t)
                BY <2>2 DEF Inbox, ToSet
            <4>. QED  BY <1>4, <4>1, MessageFields
        <3>. QED  BY <1>2, <1>4, <2>2, <3>1 DEF Wired
    <2>. QED  BY <1>1, <2>1, <2>2
<1>5. \A a, b \in Ids(g) : <<a, b>> \in g.edges <=> Linked(tables, a, b)
    BY DEF Wired
<1>6. \A x \in tables.edge : ~x.deleted
    BY DEF Wired
<1>7. Wired(tables, w, g, l)
    BY <1>3, <1>4, <1>5, <1>6 DEF Wired
<1>. QED  BY <1>7 DEF w

(* No fewer nodes have been used, no fewer creations have arrived.          *)
Later(life, l, s, w) ==
    /\ ToSet(w) \subseteq ToSet(s)
    /\ \A n \in NodeId : l[n] = "unused" => life[n] = "unused"
    /\ \A n \in NodeId : Creates(w, n) \subseteq Creates(s, n)

LEMMA LaterWires ==
    ASSUME NEW t, NEW s \in Inbox(t), NEW w, NEW life, NEW l, Later(life, l, s, w),
           NEW tables, NEW after, after.edge = tables.edge,
           \A x \in tables.edge : {x.entity, x.entity_to} \subseteq NodeId,
           NEW g, NEW h, Wired(tables, s, g, life),
           \A a, b \in Ids(h) : <<a, b>> \in h.edges <=> Linked(after, a, b)
    PROVE  Wired(after, w, h, l)
<1>1. ASSUME NEW x \in after.edge, NEW e \in {x.entity, x.entity_to}
      PROVE  ~x.deleted /\ l[e] # "unused" /\ Creates(w, e) = {}
    <2>1. e \in NodeId /\ life[e] # "unused" /\ Creates(s, e) = {} /\ ~x.deleted
        BY DEF Wired
    <2>. QED  BY <2>1 DEF Later
<1>2. ASSUME NEW x \in ToSet(w), x.type = "ConnectDisconnect"
      PROVE  x.change = "Assert" /\ \A e \in {x.from, x.to} : l[e] # "unused"
    <2>1. x \in ToSet(s)
        BY DEF Later
    <2>2. x \in Message(t)
        BY <2>1 DEF Inbox, ToSet
    <2>3. x.from \in NodeId /\ x.to \in NodeId
        BY <1>2, <2>2, MessageFields
    <2>. QED  BY <1>2, <2>1, <2>3 DEF Wired, Later
<1>. QED  BY <1>1, <1>2 DEF Wired

(* A node that is new to the replica has no edges yet.                      *)
LEMMA WiredEntered ==
    ASSUME NEW t, NEW s \in Inbox(t), NEW w, NEW life, NEW l, Later(life, l, s, w),
           NEW tables, NEW after, after.edge = tables.edge,
           \A x \in tables.edge : {x.entity, x.entity_to} \subseteq NodeId,
           NEW g, Drawn(g), NEW n \in Nodes, n.id \notin Ids(g),
           life[n.id] = "unused" \/ Creates(s, n.id) # {}, Wired(tables, s, g, life)
    PROVE  Wired(after, w, create(g, n), l)
<1>. DEFINE h == create(g, n)
<1>1. h.edges = g.edges /\ Ids(h) = Ids(g) \cup {n.id}
    BY CreateGraph DEF Drawn
<1>. HIDE DEF h
<1>2. ASSUME NEW a \in Ids(h), NEW b \in Ids(h)
      PROVE  <<a, b>> \in h.edges <=> Linked(after, a, b)
    <2>1. CASE a \in Ids(g) /\ b \in Ids(g)
        BY <1>1, <2>1 DEF Wired, Linked
    <2>2. CASE a = n.id \/ b = n.id
        <3>1. <<a, b>> \notin g.edges
            BY <2>2 DEF Drawn
        <3>2. ~Linked(after, a, b)
            BY <2>2 DEF Linked, Wired
        <3>. QED  BY <1>1, <3>1, <3>2
    <2>. QED  BY <1>1, <2>1, <2>2
<1>3. Wired(after, w, h, l)
    BY <1>2, LaterWires
<1>. QED  BY <1>3 DEF h

LEMMA WiredRemoved ==
    ASSUME NEW t, NEW s \in Inbox(t), NEW w, NEW life, NEW l, Later(life, l, s, w),
           NEW tables, NEW after, after.edge = tables.edge,
           \A x \in tables.edge : {x.entity, x.entity_to} \subseteq NodeId,
           NEW g \in Graphs, NEW id, Wired(tables, s, g, life)
    PROVE  Wired(after, w, remove(g, id), l)
<1>. DEFINE h == remove(g, id)
<1>1. h.edges = {e \in g.edges : e[1] # id /\ e[2] # id} /\ Ids(h) = Ids(g) \ {id}
    BY RemoveGraph
<1>. HIDE DEF h
<1>2. ASSUME NEW a \in Ids(h), NEW b \in Ids(h)
      PROVE  <<a, b>> \in h.edges <=> Linked(after, a, b)
    <2>1. a \in Ids(g) /\ b \in Ids(g) /\ a # id /\ b # id
        BY <1>1
    <2>2. <<a, b>> \in h.edges <=> <<a, b>> \in g.edges
        BY <1>1, <2>1
    <2>. QED  BY <2>1, <2>2 DEF Wired, Linked
<1>3. Wired(after, w, h, l)
    BY <1>2, LaterWires
<1>. QED  BY <1>3 DEF h

(* An edge is drawn.                                                        *)
LEMMA WiredConnect ==
    ASSUME NEW t, NEW s \in Inbox(t), NEW w, NEW life, Later(life, life, s, w),
           NEW r, NEW from, NEW to, NEW u, NEW alive \in BOOLEAN, ~alive,
           EdgeRow(r, from, to, u, alive),
           \A x \in db[r].edge : {x.entity, x.entity_to} \subseteq NodeId,
           \A e \in {from, to} : life[e] # "unused" /\ Creates(w, e) = {},
           NEW g \in Graphs, Wired(db[r], s, g, life)
    PROVE  Wired(db'[r], w, connect(g, from, to), life)
<1>. DEFINE h == connect(g, from, to)  tables == db[r]  after == db'[r]
            row == [entity |-> from, entity_to |-> to, timestamp |-> u, deleted |-> alive]
<1>1. h.edges = g.edges \cup {<<from, to>>} /\ h.nodes = g.nodes
    BY DEF connect, Graphs
<1>2. Ids(h) = Ids(g)
    BY <1>1 DEF Ids
<1>. HIDE DEF h
<1>3. /\ row \in after.edge /\ row.entity = from /\ row.entity_to = to /\ ~row.deleted
      /\ \A x \in after.edge : x \in tables.edge \/ x = row
      /\ \A x \in tables.edge : x \in after.edge \/ x.deleted \/ (x.entity = from /\ x.entity_to = to)
    BY DEF EdgeRow, connectI
<1>. HIDE DEF row, tables, after
<1>4. ASSUME NEW x \in after.edge, NEW e \in {x.entity, x.entity_to}
      PROVE  ~x.deleted /\ life[e] # "unused" /\ Creates(w, e) = {}
    <2>1. CASE x = row
        BY <1>3, <2>1
    <2>2. CASE x \in tables.edge
        <3>1. e \in NodeId /\ life[e] # "unused" /\ Creates(s, e) = {} /\ ~x.deleted
            BY <2>2 DEF Wired, tables
        <3>. QED  BY <3>1 DEF Later
    <2>. QED  BY <1>3, <2>1, <2>2
<1>5. \A x \in ToSet(w) : x.type = "ConnectDisconnect" =>
         x.change = "Assert" /\ \A e \in {x.from, x.to} : life[e] # "unused"
    BY DEF Wired, Later
<1>6. ASSUME NEW a \in Ids(h), NEW b \in Ids(h)
      PROVE  <<a, b>> \in h.edges <=> Linked(after, a, b)
    <2>1. CASE a = from /\ b = to
        BY <1>1, <1>3, <2>1 DEF Linked
    <2>2. CASE ~(a = from /\ b = to)
        <3>1. <<a, b>> \in h.edges <=> <<a, b>> \in g.edges
            BY <1>1, <2>2
        <3>2. Linked(after, a, b) <=> Linked(tables, a, b)
            BY <1>3, <2>2 DEF Linked
        <3>. QED  BY <1>2, <3>1, <3>2 DEF Wired, tables
    <2>. QED  BY <2>1, <2>2
<1>7. Wired(after, w, h, life)
    BY <1>4, <1>5, <1>6 DEF Wired
<1>. QED  BY <1>7 DEF h, after

-----------------------------------------------------------------------------
(* Which edges the replicas know of *)

LEMMA JoinsSent ==
    ASSUME NEW t, NEW s \in Inbox(t), NEW m \in Message(t), NEW g, NEW a, NEW b
    PROVE  Joins(Joined(s, <<m>>), g, a, b) <=>
              \/ Joins(s, g, a, b)
              \/ m.type = "ConnectDisconnect" /\ m.from = a /\ m.to = b
<1>1. ToSet(Joined(s, <<m>>)) = ToSet(s) \cup {m}
    BY JoinedOne
<1>. QED  BY <1>1 DEF Joins

LEMMA JoinsTaken ==
    ASSUME NEW t, NEW s \in Inbox(t), s # <<>>, NEW g, NEW a, NEW b
    PROVE  Joins(s, g, a, b) <=>
              \/ Joins(Tail(s), g, a, b)
              \/ s[1].type = "ConnectDisconnect" /\ s[1].from = a /\ s[1].to = b
<1>1. ToSet(s) = {s[1]} \cup ToSet(Tail(s))
    BY TailHas DEF Inbox
<1>. QED  BY <1>1 DEF Joins

LEMMA JoinsUsed ==
    ASSUME NEW tables, NEW s, NEW g, NEW life, Drawn(g), Wired(tables, s, g, life),
           \A n \in Ids(g) : life[n] # "unused",
           NEW a, NEW b, Joins(s, g, a, b)
    PROVE  life[a] # "unused" /\ life[b] # "unused"
<1>1. CASE <<a, b>> \in g.edges
    BY <1>1 DEF Drawn
<1>2. CASE \E m \in ToSet(s) : m.type = "ConnectDisconnect" /\ m.from = a /\ m.to = b
    BY <1>2 DEF Wired
<1>. QED  BY <1>1, <1>2 DEF Joins

(* A step tells of the edges in new, to all replicas.                       *)
LEMMA JoinedKeeps ==
    ASSUME AllJoined, NEW new,
           \A a, b \in NodeId : stage'[a] = "created" /\ stage'[b] = "created" =>
              /\ \A q \in Replica :
                    Joins(inbox'[q], graph'[q], a, b) <=>
                       Joins(inbox[q], graph[q], a, b) \/ <<a, b>> \in new
              /\ \/ stage[a] = "created" /\ stage[b] = "created"
                 \/ \A q \in Replica : ~Joins(inbox[q], graph[q], a, b)
    PROVE  AllJoined'
BY DEF AllJoined, JoinsAgree

-----------------------------------------------------------------------------
(* The replicas that agree *)

LEMMA InAgreement ==
    ASSUME ConvergeInv, crashed = {}
    PROVE  /\ SessionInv /\ SessionTypes /\ AllFaced /\ AllWired /\ AllJoined
           /\ \A r \in Replica :
                 /\ Wired(db[r], inbox[r], graph[r], stage)
                 /\ Drawn(graph[r]) /\ graph[r] \in Graphs
                 /\ db[r] \in Tables(clock) /\ inbox[r] \in Inbox(clock)
                 /\ \A x \in db[r].edge : {x.entity, x.entity_to} \subseteq NodeId
                 /\ \A n \in Ids(graph[r]) :
                       /\ n \in NodeId /\ stage[n] # "unused"
                       /\ Shown(db[r], n) # {} /\ Creates(inbox[r], n) = {}
<1>1. SessionInv /\ SessionTypes /\ AllFaced /\ AllWired /\ AllJoined
    BY InvTypes DEF ConvergeInv
<1>2. ASSUME NEW r \in Replica
      PROVE  /\ Wired(db[r], inbox[r], graph[r], stage)
             /\ Drawn(graph[r]) /\ graph[r] \in Graphs
             /\ db[r] \in Tables(clock) /\ inbox[r] \in Inbox(clock) /\ clock \in Nat
    BY <1>1, SettledHere, Site DEF AllWired
<1>3. ASSUME NEW r \in Replica, NEW x \in db[r].edge
      PROVE  {x.entity, x.entity_to} \subseteq NodeId
    BY <1>2, RowFields
<1>4. ASSUME NEW r \in Replica, NEW n \in Ids(graph[r])
      PROVE  /\ n \in NodeId /\ stage[n] # "unused"
             /\ Shown(db[r], n) # {} /\ Creates(inbox[r], n) = {}
    <2>1. n \in NodeId
        BY <1>2, GraphFields
    <2>2. Shown(db[r], n) # {}
        BY <1>1, <2>1, InvTypes DEF RemovalComes
    <2>3. Births(db[r], inbox[r], n) # {}
        BY <2>2 DEF Births
    <2>. QED  BY <1>1, <2>1, <2>2, <2>3, InvTypes DEF KnownOK
<1>. QED  BY <1>1, <1>2, <1>3, <1>4

(* A call of replica r that is announced.                                   *)
LEMMA AnnouncedAgrees ==
    ASSUME ConvergeInv, SessionInv', NEW r \in Replica, NEW after, NEW h, NEW safe,
           NEW t, t = clock + 1, NEW m \in Message(t), clock < MaxTime,
           Committed(r, after, h, Post(inbox, r, <<m>>), safe),
           Lives(m, stage, stage'),
           m.type = "ConnectDisconnect" => m.change = "Assert",
           crashed = {} /\ safe =>
              /\ m.type = "ConnectDisconnect" => \A e \in {m.from, m.to} : stage'[e] # "unused"
              /\ \A n \in NodeId : \E f :
                    /\ \A q \in Replica : Face(db[q], inbox[q], graph[q], n, f)
                    /\ Face(after, inbox[r], h, n, f)
                    /\ m.type = "CreateDelete" /\ m.node.id = n => m.node.attr = f
              /\ Wired(after, inbox[r], h, stage')
              /\ \A a, b \in NodeId : stage'[a] = "created" /\ stage'[b] = "created" =>
                    (<<a, b>> \in h.edges <=>
                        \/ <<a, b>> \in graph[r].edges
                        \/ m.type = "ConnectDisconnect" /\ m.from = a /\ m.to = b)
    PROVE  ConvergeInv'
<1>. SUFFICES ASSUME crashed' = {}
              PROVE  AllFaced' /\ AllWired' /\ AllJoined'
    BY DEF ConvergeInv
<1>. DEFINE boxes == Post(inbox, r, <<m>>)
<1>1. SessionTypes
    BY InvTypes DEF ConvergeInv
<1>2. inbox \in [Replica -> Inbox(t)] /\ \A q \in Replica : inbox[q] \in Inbox(t)
    BY <1>1, AnyTime
<1>3. /\ boxes[r] = inbox[r]
      /\ \A q \in Replica : q # r => boxes[q] = Joined(inbox[q], <<m>>)
    <2>. DEFINE sent == <<m>>
    <2>1. sent \in Inbox(t)
        BY SentOne
    <2>. HIDE DEF sent
    <2>2. /\ Post(inbox, r, sent)[r] = inbox[r]
          /\ \A q \in Replica : q # r => Post(inbox, r, sent)[q] = Joined(inbox[q], sent)
        BY <1>2, <2>1, PostIs
    <2>. QED  BY <2>2 DEF sent
<1>. HIDE DEF boxes
<1>4. /\ db'[r] = after /\ graph'[r] = h /\ safe /\ crashed = {} /\ inbox' = boxes
      /\ \A q \in Replica : q # r => db'[q] = db[q] /\ graph'[q] = graph[q]
    BY <1>1, CommittedIs DEF boxes
<1>5. AllFaced'
    <2>1. ASSUME NEW n \in NodeId
          PROVE  \E f : \A q \in Replica : Face(db'[q], inbox'[q], graph'[q], n, f)
        <3>1. PICK f : /\ \A q \in Replica : Face(db[q], inbox[q], graph[q], n, f)
                       /\ Face(after, inbox[r], h, n, f)
                       /\ m.type = "CreateDelete" /\ m.node.id = n => m.node.attr = f
            BY <1>4
        <3>2. ASSUME NEW q \in Replica
              PROVE  Face(db'[q], inbox'[q], graph'[q], n, f)
            <4>1. CASE q = r
                BY <1>3, <1>4, <3>1, <4>1
            <4>2. CASE q # r
                BY <1>2, <1>3, <1>4, <3>1, <4>2, FaceSent
            <4>. QED  BY <4>1, <4>2
        <3>. QED  BY <3>2
    <2>. QED  BY <2>1 DEF AllFaced
<1>6. AllWired'
    <2>1. ASSUME NEW q \in Replica, q # r
          PROVE  Wired(db[q], Joined(inbox[q], <<m>>), graph[q], stage')
        <3>1. Wired(db[q], inbox[q], graph[q], stage)
              /\ \A x \in db[q].edge : {x.entity, x.entity_to} \subseteq NodeId
            BY <1>4, InAgreement
        <3>. QED  BY <1>2, <1>4, <3>1, WiredSent
    <2>. QED  BY <1>3, <1>4, <2>1 DEF AllWired
<1>7. AllJoined'
    <2>. DEFINE new == {p \in NodeId \X NodeId :
                           m.type = "ConnectDisconnect" /\ m.from = p[1] /\ m.to = p[2]}
    <2>. SUFFICES ASSUME NEW a \in NodeId, NEW b \in NodeId,
                         stage'[a] = "created", stage'[b] = "created"
                  PROVE  /\ \A q \in Replica :
                               Joins(inbox'[q], graph'[q], a, b) <=>
                                  Joins(inbox[q], graph[q], a, b) \/ <<a, b>> \in new
                         /\ \/ stage[a] = "created" /\ stage[b] = "created"
                            \/ \A q \in Replica : ~Joins(inbox[q], graph[q], a, b)
        <3>. HIDE DEF new
        <3>1. AllJoined
            BY <1>4, InAgreement
        <3>. QED  BY <3>1, JoinedKeeps
    <2>1. <<a, b>> \in new <=> m.type = "ConnectDisconnect" /\ m.from = a /\ m.to = b
        OBVIOUS
    <2>. HIDE DEF new
    <2>2. ASSUME NEW q \in Replica
          PROVE  Joins(inbox'[q], graph'[q], a, b) <=>
                    Joins(inbox[q], graph[q], a, b) \/ <<a, b>> \in new
        <3>1. CASE q = r
            BY <1>3, <1>4, <2>1, <3>1 DEF Joins
        <3>2. CASE q # r
            BY <1>2, <1>3, <1>4, <2>1, <3>2, JoinsSent
        <3>. QED  BY <3>1, <3>2
    <2>3. ASSUME NEW q \in Replica, Joins(inbox[q], graph[q], a, b)
          PROVE  stage[a] # "unused" /\ stage[b] # "unused"
        <3>1. /\ Wired(db[q], inbox[q], graph[q], stage) /\ Drawn(graph[q])
              /\ \A n \in Ids(graph[q]) : stage[n] # "unused"
            BY <1>4, InAgreement
        <3>. QED  BY <2>3, <3>1, JoinsUsed
    <2>4. \A n \in {a, b} : stage[n] \in {"created", "unused"}
        BY DEF Lives
    <2>. QED  BY <2>2, <2>3, <2>4
<1>. QED  BY <1>5, <1>6, <1>7

(* A message that is answered by none.                                      *)
LEMMA HeardAgrees ==
    ASSUME Faultless, ConvergeInv, SessionInv', NEW r \in Replica, NEW after, NEW h, NEW safe,
           NEW i \in DOMAIN inbox[r], NEW m, NEW type, NEW change,
           Receive(r, i, m, type, change), stage' = stage,
           Committed(r, after, h, Taken(r, i), safe),
           crashed = {} /\ safe =>
              /\ \A n \in NodeId : \A f :
                    Face(db[r], inbox[r], graph[r], n, f) => Face(after, Tail(inbox[r]), h, n, f)
              /\ Wired(after, Tail(inbox[r]), h, stage)
              /\ \A a, b \in NodeId :
                    Joins(Tail(inbox[r]), h, a, b) <=> Joins(inbox[r], graph[r], a, b)
    PROVE  ConvergeInv'
<1>. SUFFICES ASSUME crashed' = {}
              PROVE  AllFaced' /\ AllWired' /\ AllJoined'
    BY DEF ConvergeInv
<1>. DEFINE boxes == Taken(r, i)
<1>1. SessionTypes
    BY InvTypes DEF ConvergeInv
<1>2. boxes[r] = Tail(inbox[r]) /\ \A q \in Replica : q # r => boxes[q] = inbox[q]
    BY <1>1, ReceivedIs
<1>. HIDE DEF boxes
<1>3. /\ db'[r] = after /\ graph'[r] = h /\ safe /\ crashed = {} /\ inbox' = boxes
      /\ \A q \in Replica : q # r => db'[q] = db[q] /\ graph'[q] = graph[q]
    BY <1>1, CommittedIs DEF boxes
<1>4. AllFaced /\ AllWired /\ AllJoined
    BY <1>3, InAgreement
<1>5. AllFaced'
    <2>1. ASSUME NEW n \in NodeId
          PROVE  \E f : \A q \in Replica : Face(db'[q], inbox'[q], graph'[q], n, f)
        <3>1. PICK f : \A q \in Replica : Face(db[q], inbox[q], graph[q], n, f)
            BY <1>4 DEF AllFaced
        <3>2. \A q \in Replica : Face(db'[q], inbox'[q], graph'[q], n, f)
            BY <1>2, <1>3, <3>1
        <3>. QED  BY <3>2
    <2>. QED  BY <2>1 DEF AllFaced
<1>6. AllWired'
    BY <1>2, <1>3, <1>4 DEF AllWired
<1>7. AllJoined'
    <2>1. \A q \in Replica, a, b \in NodeId :
             Joins(inbox'[q], graph'[q], a, b) <=> Joins(inbox[q], graph[q], a, b)
        BY <1>2, <1>3
    <2>. QED  BY <1>4, <2>1 DEF AllJoined, JoinsAgree
<1>. QED  BY <1>5, <1>6, <1>7

-----------------------------------------------------------------------------
(* Each step keeps the agreement *)

(* Of a node that was not created yet nobody has an idea.                   *)
LEMMA UnusedFaced ==
    ASSUME ConvergeInv, crashed = {}, NEW n \in NodeId, stage[n] = "unused",
           NEW q \in Replica, NEW f
    PROVE  /\ Face(db[q], inbox[q], graph[q], n, f)
           /\ \A a \in Attribute : Written(db[q], a, n) = {}
           /\ n \notin Ids(graph[q])
<1>1. SessionInv /\ inbox[q] \in Inbox(clock)
    BY InAgreement
<1>2. Births(db[q], inbox[q], n) = {} /\ Removals(inbox[q], n) = {}
    BY <1>1, InvTypes DEF KnownOK
<1>3. ASSUME NEW m \in ToSet(inbox[q]), m.type = "CreateDelete"
      PROVE  m.node.id # n
    <2>1. m \in Message(clock)
        BY <1>1 DEF Inbox, ToSet
    <2>2. m.change \in {"Assert", "Retract"}
        BY <1>3, <2>1, MessageFields
    <2>3. m \notin Creates(inbox[q], n)
        BY <1>2 DEF Births
    <2>. QED  BY <1>2, <1>3, <2>2, <2>3 DEF Creates, Removals, CreateOf, RemovalOf
<1>4. n \notin Ids(graph[q])
    BY InAgreement
<1>5. \A x \in ToSet(graph[q].nodes) : x.id # n
    BY <1>4, IdsAre
<1>6. \A a \in Attribute : Written(db[q], a, n) = {}
    BY <1>1, SettledHere DEF Place
<1>7. Names(n) \subseteq Attribute
    BY KindAssumption, AttributesAre DEF Names
<1>. QED  BY <1>3, <1>4, <1>5, <1>6, <1>7 DEF Face

LEMMA ConvergeCreate ==
    ASSUME Converging, ConvergeInv, SessionInv', NEW r \in Replica, NEW n \in Nodes,
           UserCreate(r, n)
    PROVE  ConvergeInv'
<1>. DEFINE d == open[r]  t == clock + 1  g == graph[r]  h == create(g, n)  safe == MeshSafe(h)
            m == CreateDelete(n, d, "Assert", t)  after == db'[r]  s == inbox[r]  l == stage'
            tables == db[r]
<1>1. SessionTypes /\ Faultless /\ SessionInv
    BY InvTypes DEF ConvergeInv, Converging, InSession
<1>2. /\ Committed(r, after, h, Post(inbox, r, <<m>>), safe)
      /\ Entered(tables, after, n, d, t)
      /\ clock < MaxTime /\ clock' = t /\ d \in Document
      /\ stage[n.id] = "unused" /\ stage' = [stage EXCEPT ![n.id] = "created"]
    BY <1>1, CreateDoes DEF CreateEffect
<1>3. n.id \in NodeId /\ stage \in Life
    BY <1>1, NodeFields DEF SessionTypes
<1>4. m \in Message(t)
    BY <1>1, <1>2, AnyTime, MessageIs
<1>5. m.type = "CreateDelete" /\ m.node = n /\ m.change = "Assert"
    BY DEF CreateDelete
<1>6. l[n.id] = "created" /\ \A k \in NodeId \ {n.id} : l[k] = stage[k]
    BY <1>2, <1>3 DEF Life
<1>. HIDE DEF m
<1>7. Lives(m, stage, stage')
    BY <1>2, <1>5, <1>6 DEF Lives, CreateOf
<1>8. ASSUME crashed = {}
      PROVE  /\ \A k \in NodeId : \E f :
                   /\ \A q \in Replica : Face(db[q], inbox[q], graph[q], k, f)
                   /\ Face(after, s, h, k, f)
                   /\ m.type = "CreateDelete" /\ m.node.id = k => m.node.attr = f
             /\ Wired(after, s, h, l)
             /\ h.edges = g.edges
    <2>1. /\ g \in Graphs /\ Drawn(g) /\ s \in Inbox(clock) /\ Wired(tables, s, g, stage) /\ AllFaced
          /\ \A x \in tables.edge : {x.entity, x.entity_to} \subseteq NodeId
        BY <1>8, InAgreement
    <2>2. n.id \notin Ids(g) /\ \A a \in Attribute : Written(tables, a, n.id) = {}
        BY <1>2, <1>3, <1>8, UnusedFaced
    <2>3. Later(stage, l, s, s)
        BY <1>6 DEF Later
    <2>4. after.edge = tables.edge
        BY <1>2 DEF Entered
    <2>5. ASSUME NEW k \in NodeId, NEW f, n.id = k => n.attr = f, Face(tables, s, g, k, f)
          PROVE  Face(after, s, h, k, f)
        <3>. HIDE DEF after, tables, s, g, d, t
        <3>1. ToSet(s) \subseteq ToSet(s)
            OBVIOUS
        <3>. QED  BY <1>2, <2>1, <2>2, <2>5, <3>1, FaceEntered
    <2>6. ASSUME NEW k \in NodeId
          PROVE  \E f : /\ \A q \in Replica : Face(db[q], inbox[q], graph[q], k, f)
                        /\ Face(after, s, h, k, f)
                        /\ m.type = "CreateDelete" /\ m.node.id = k => m.node.attr = f
        <3>1. CASE k = n.id
            <4>1. \A q \in Replica : Face(db[q], inbox[q], graph[q], k, n.attr)
                BY <1>2, <1>3, <1>8, <3>1, UnusedFaced
            <4>2. Face(after, s, h, k, n.attr)
                BY <2>5, <3>1, <4>1
            <4>. QED  BY <1>5, <4>1, <4>2
        <3>2. CASE k # n.id
            <4>1. PICK f : \A q \in Replica : Face(db[q], inbox[q], graph[q], k, f)
                BY <2>1 DEF AllFaced
            <4>2. Face(after, s, h, k, f)
                BY <2>5, <3>2, <4>1
            <4>. QED  BY <1>5, <3>2, <4>1, <4>2
        <3>. QED  BY <3>1, <3>2
    <2>7. Wired(after, s, h, l)
        <3>. HIDE DEF after, tables, s, g, d, t, l
        <3>. QED  BY <1>2, <2>1, <2>2, <2>3, <2>4, WiredEntered
    <2>8. h.edges = g.edges
        BY <2>1, CreateGraph
    <2>. QED  BY <2>6, <2>7, <2>8
<1>9. ~(m.type = "ConnectDisconnect")
    BY <1>5
<1>10. t = clock + 1 /\ s = inbox[r] /\ l = stage' /\ g = graph[r]
    OBVIOUS
<1>. HIDE DEF d, t, g, h, safe, after, tables, s, l
<1>. QED  BY <1>1, <1>2, <1>4, <1>7, <1>8, <1>9, <1>10, AnnouncedAgrees

LEMMA ConvergeRemove ==
    ASSUME Converging, ConvergeInv, SessionInv', NEW r \in Replica \ crashed,
           NEW n \in ToSet(graph[r].nodes), UserRemove(r, n)
    PROVE  ConvergeInv'
<1>. DEFINE d == open[r]  t == clock + 1  g == graph[r]  h == remove(g, n.id)  safe == MeshSafe(h)
            m == CreateDelete(n, d, "Retract", t)  after == db'[r]  s == inbox[r]  l == stage'
            tables == db[r]
<1>1. SessionTypes /\ Faultless /\ SessionInv /\ n \in Nodes
    <2>1. SessionTypes /\ Faultless /\ SessionInv
        BY InvTypes DEF ConvergeInv, Converging, InSession
    <2>. QED  BY <2>1, Site, GraphFields
<1>2. /\ Committed(r, after, h, Post(inbox, r, <<m>>), safe)
      /\ Removed(tables, after, n, d, t)
      /\ clock < MaxTime /\ clock' = t /\ d \in Document
      /\ stage' = [stage EXCEPT ![n.id] = "removed"]
    BY <1>1, RemoveDoes DEF RemoveEffect
<1>3. n.id \in NodeId /\ stage \in Life
    BY <1>1, NodeFields DEF SessionTypes
<1>4. m \in Message(t)
    BY <1>1, <1>2, AnyTime, MessageIs
<1>5. m.type = "CreateDelete" /\ m.node = n /\ m.change = "Retract"
    BY DEF CreateDelete
<1>6. l[n.id] = "removed" /\ \A k \in NodeId \ {n.id} : l[k] = stage[k]
    BY <1>2, <1>3 DEF Life
<1>. HIDE DEF m
<1>7. Lives(m, stage, stage')
    BY <1>2, <1>5, <1>6 DEF Lives, CreateOf
<1>8. ASSUME crashed = {}
      PROVE  /\ \A k \in NodeId : \E f :
                   /\ \A q \in Replica : Face(db[q], inbox[q], graph[q], k, f)
                   /\ Face(after, s, h, k, f)
                   /\ m.type = "CreateDelete" /\ m.node.id = k => m.node.attr = f
             /\ Wired(after, s, h, l)
             /\ \A a, b \in NodeId : l[a] = "created" /\ l[b] = "created" =>
                   (<<a, b>> \in h.edges <=> <<a, b>> \in g.edges)
    <2>1. /\ g \in Graphs /\ s \in Inbox(clock) /\ Wired(tables, s, g, stage) /\ AllFaced
          /\ \A x \in tables.edge : {x.entity, x.entity_to} \subseteq NodeId
        BY <1>8, InAgreement
    <2>2. Later(stage, l, s, s)
        BY <1>6 DEF Later
    <2>3. after.edge = tables.edge
        BY <1>2 DEF Removed
    <2>4. ASSUME NEW k \in NodeId
          PROVE  \E f : /\ \A q \in Replica : Face(db[q], inbox[q], graph[q], k, f)
                        /\ Face(after, s, h, k, f)
                        /\ m.type = "CreateDelete" /\ m.node.id = k => m.node.attr = f
        <3>1. PICK f : \A q \in Replica : Face(db[q], inbox[q], graph[q], k, f)
            BY <2>1 DEF AllFaced
        <3>2. n.id = k => n.attr = f
            BY <3>1 DEF Face
        <3>3. Face(tables, s, g, k, f) /\ ToSet(s) \subseteq ToSet(s)
            BY <3>1
        <3>4. Face(after, s, h, k, f)
            <4>. HIDE DEF after, tables, s, g, d, t
            <4>. QED  BY <1>1, <1>2, <2>1, <3>2, <3>3, FaceRemoved
        <3>. QED  BY <1>5, <3>1, <3>2, <3>4
    <2>5. Wired(after, s, h, l)
        <3>. HIDE DEF after, tables, s, g, d, t, l
        <3>. QED  BY <2>1, <2>2, <2>3, WiredRemoved
    <2>6. \A a, b \in NodeId : l[a] = "created" /\ l[b] = "created" =>
             (<<a, b>> \in h.edges <=> <<a, b>> \in g.edges)
        <3>1. h.edges = {e \in g.edges : e[1] # n.id /\ e[2] # n.id}
            BY <2>1, RemoveGraph
        <3>. HIDE DEF h, l
        <3>. QED  BY <1>6, <3>1
    <2>. QED  BY <2>4, <2>5, <2>6
<1>9. ~(m.type = "ConnectDisconnect")
    BY <1>5
<1>10. t = clock + 1 /\ s = inbox[r] /\ l = stage' /\ g = graph[r]
    OBVIOUS
<1>. HIDE DEF d, t, g, h, safe, after, tables, s, l
<1>. QED  BY <1>1, <1>2, <1>4, <1>7, <1>8, <1>9, <1>10, AnnouncedAgrees

LEMMA ConvergeConnect ==
    ASSUME Converging, ConvergeInv, SessionInv', NEW r \in Replica,
           NEW from \in Ids(graph[r]), NEW to \in Ids(graph[r]), UserConnect(r, from, to)
    PROVE  ConvergeInv'
<1>. DEFINE t == clock + 1  g == graph[r]  h == connect(g, from, to)
            safe == ConnectSafe(g, from, to) /\ MeshSafe(h)
            m == ConnectDisconnect(from, to, "Assert", t)  after == db'[r]  s == inbox[r]
            tables == db[r]
<1>1. SessionTypes /\ from \in NodeId /\ to \in NodeId /\ Faultless /\ SessionInv
    BY InvTypes, Site, GraphFields DEF ConvergeInv, Converging, InSession
<1>2. PICK alive \in BOOLEAN :
         /\ ~alive /\ Committed(r, after, h, Post(inbox, r, <<m>>), safe)
         /\ EdgeRow(r, from, to, t, alive) /\ clock < MaxTime /\ clock' = t /\ stage' = stage
    BY <1>1, ConnectDoes DEF ConnectEffect, UserEdgeEffect
<1>3. m \in Message(t)
    BY <1>1, <1>2, AnyTime, MessageIs
<1>4. m.type = "ConnectDisconnect" /\ m.from = from /\ m.to = to /\ m.change = "Assert"
    BY DEF ConnectDisconnect
<1>. HIDE DEF m
<1>5. Lives(m, stage, stage')
    BY <1>2, <1>4 DEF Lives, CreateOf
<1>6. ASSUME crashed = {}
      PROVE  /\ \A e \in {from, to} : stage[e] # "unused"
             /\ \A k \in NodeId : \E f :
                   /\ \A q \in Replica : Face(db[q], inbox[q], graph[q], k, f)
                   /\ Face(after, s, h, k, f)
             /\ Wired(after, s, h, stage)
             /\ h.edges = g.edges \cup {<<from, to>>}
    <2>1. /\ g \in Graphs /\ s \in Inbox(clock) /\ Wired(tables, s, g, stage) /\ AllFaced
          /\ \A x \in tables.edge : {x.entity, x.entity_to} \subseteq NodeId
          /\ \A e \in {from, to} : stage[e] # "unused" /\ Creates(s, e) = {}
        BY <1>6, InAgreement
    <2>2. h.edges = g.edges \cup {<<from, to>>} /\ h.nodes = g.nodes
        BY <2>1 DEF connect, Graphs
    <2>3. Later(stage, stage, s, s) /\ ToSet(s) \subseteq ToSet(s)
        BY DEF Later
    <2>4. ASSUME NEW k \in NodeId
          PROVE  \E f : /\ \A q \in Replica : Face(db[q], inbox[q], graph[q], k, f)
                        /\ Face(after, s, h, k, f)
        <3>1. PICK f : \A q \in Replica : Face(db[q], inbox[q], graph[q], k, f)
            BY <2>1 DEF AllFaced
        <3>2. Face(db[r], s, g, k, f)
            BY <3>1
        <3>3. Face(db'[r], s, h, k, f)
            <4>. HIDE DEF s, g, t, h
            <4>. QED  BY <1>2, <2>2, <2>3, <3>2, FaceEdge
        <3>. QED  BY <3>1, <3>3
    <2>5. Wired(db'[r], s, h, stage)
        <3>1. /\ \A x \in db[r].edge : {x.entity, x.entity_to} \subseteq NodeId
              /\ Wired(db[r], s, g, stage)
            BY <2>1
        <3>. HIDE DEF s, g, t
        <3>. QED  BY <1>2, <2>1, <2>3, <3>1, WiredConnect
    <2>. QED  BY <2>1, <2>2, <2>4, <2>5
<1>7. ~(m.type = "CreateDelete")
    BY <1>4
<1>8. ASSUME crashed = {}, NEW a, NEW b
      PROVE  <<a, b>> \in h.edges <=>
                \/ <<a, b>> \in g.edges
                \/ m.type = "ConnectDisconnect" /\ m.from = a /\ m.to = b
    <2>1. h.edges = g.edges \cup {<<from, to>>}
        BY <1>6, <1>8
    <2>. HIDE DEF h, g
    <2>. QED  BY <1>4, <2>1
<1>9. t = clock + 1 /\ s = inbox[r] /\ g = graph[r]
    OBVIOUS
<1>. HIDE DEF t, g, h, safe, after, tables, s
<1>10. crashed = {} /\ safe =>
          /\ m.type = "ConnectDisconnect" => \A e \in {m.from, m.to} : stage'[e] # "unused"
          /\ \A n \in NodeId : \E f :
                /\ \A q \in Replica : Face(db[q], inbox[q], graph[q], n, f)
                /\ Face(after, inbox[r], h, n, f)
                /\ m.type = "CreateDelete" /\ m.node.id = n => m.node.attr = f
          /\ Wired(after, inbox[r], h, stage')
          /\ \A a, b \in NodeId : stage'[a] = "created" /\ stage'[b] = "created" =>
                (<<a, b>> \in h.edges <=>
                    \/ <<a, b>> \in graph[r].edges
                    \/ m.type = "ConnectDisconnect" /\ m.from = a /\ m.to = b)
    BY <1>2, <1>4, <1>6, <1>7, <1>8, <1>9
<1>. QED  BY <1>1, <1>2, <1>3, <1>4, <1>5, <1>9, <1>10, AnnouncedAgrees

(* The oldest message is taken.                                             *)
LEMMA TakenLater ==
    ASSUME NEW t, NEW s \in Inbox(t), s # <<>>, NEW life
    PROVE  Later(life, life, s, Tail(s)) /\ ToSet(Tail(s)) \subseteq ToSet(s)
<1>1. ToSet(s) = {s[1]} \cup ToSet(Tail(s))
    BY TailHas DEF Inbox
<1>. QED  BY <1>1 DEF Later, Creates

LEMMA ConvergeReceiveCreate ==
    ASSUME Converging, ConvergeInv, SessionInv', NEW r \in Replica, NEW i \in DOMAIN inbox[r],
           ReceiveCreate(r, i)
    PROVE  ConvergeInv'
<1>1. SessionTypes /\ Faultless /\ SessionInv
    BY InvTypes DEF ConvergeInv, Converging, InSession
<1>2. PICK m \in ToSet(inbox[r]), safe \in BOOLEAN :
         /\ Receive(r, i, m, "CreateDelete", "Assert") /\ safe
         /\ Committed(r, db'[r], IF open[r] = m.document THEN create(graph[r], m.node) ELSE graph[r],
                      Taken(r, i), safe)
         /\ db'[r] \in Tables(clock)
         /\ Entered(db[r], db'[r], m.node, m.document, m.timestamp)
         /\ clock' = clock /\ stage' = stage
    BY <1>1, ReceiveCreateDoes DEF ReceiveCreateEffect
<1>. DEFINE n == m.node  d == m.document  t == m.timestamp  s == inbox[r]  w == Tail(s)
            tables == db[r]  g == graph[r]  after == db'[r]
            h == IF open[r] = d THEN create(g, n) ELSE g
<1>3. /\ s # <<>> /\ m = s[1] /\ m \in Message(clock) /\ m \in ToSet(s)
      /\ m.type = "CreateDelete" /\ m.change = "Assert"
    BY <1>1, <1>2, ReceivedIs
<1>4. n \in Nodes /\ n.id \in NodeId /\ d \in Document
    BY <1>3, MessageFields, NodeFields
<1>5. m \in Creates(s, n.id)
    BY <1>3 DEF CreateOf, Creates
<1>6. ASSUME crashed = {}
      PROVE  /\ \A k \in NodeId : \A f : Face(tables, s, g, k, f) => Face(after, w, h, k, f)
             /\ Wired(after, w, h, stage)
             /\ \A a, b \in NodeId : Joins(w, h, a, b) <=> Joins(s, g, a, b)
    <2>1. /\ g \in Graphs /\ Drawn(g) /\ s \in Inbox(clock) /\ Wired(tables, s, g, stage)
          /\ \A x \in tables.edge : {x.entity, x.entity_to} \subseteq NodeId
          /\ n.id \notin Ids(g)
        BY <1>5, <1>6, InAgreement
    <2>2. h = create(g, n)
        <3>1. open[r] \in Document
            BY <1>1, <1>6, SettledHere
        <3>. QED  BY <1>4, <3>1 DEF Converging, InSession
    <2>3. Later(stage, stage, s, w) /\ ToSet(w) \subseteq ToSet(s)
        <3>. HIDE DEF s
        <3>. QED  BY <1>3, <2>1, TakenLater
    <2>4. \A a \in Attribute : Written(tables, a, n.id) = {}
        BY <1>1, <1>4, <1>5, <1>6, SettledHere DEF Place
    <2>5. Entered(tables, after, n, d, t) /\ after.edge = tables.edge
        BY <1>2 DEF Entered
    <2>6. ASSUME NEW k \in NodeId, NEW f, Face(tables, s, g, k, f)
          PROVE  Face(after, w, h, k, f)
        <3>1. n.id = k => n.attr = f
            BY <1>3, <2>6 DEF Face
        <3>. HIDE DEF after, tables, s, w, g, h, d, t, n
        <3>2. Face(after, w, create(g, n), k, f)
            BY <1>4, <2>1, <2>3, <2>4, <2>5, <2>6, <3>1, FaceEntered
        <3>. QED  BY <2>2, <3>2
    <2>7. Wired(after, w, h, stage)
        <3>1. Creates(s, n.id) # {}
            BY <1>5
        <3>. HIDE DEF after, tables, s, w, g, h, d, t, n
        <3>2. Wired(after, w, create(g, n), stage)
            BY <1>4, <2>1, <2>3, <2>5, <3>1, WiredEntered
        <3>. QED  BY <2>2, <3>2
    <2>8. ASSUME NEW a, NEW b
          PROVE  Joins(w, h, a, b) <=> Joins(s, g, a, b)
        <3>1. h.edges = g.edges
            BY <1>4, <2>1, <2>2, CreateGraph
        <3>. HIDE DEF h, g, s
        <3>2. Joins(s, g, a, b) <=> Joins(Tail(s), g, a, b)
            BY <1>3, <2>1, JoinsTaken
        <3>. QED  BY <3>1, <3>2 DEF Joins, w
    <2>. QED  BY <2>6, <2>7, <2>8
<1>7. Committed(r, after, h, Taken(r, i), safe)
    BY <1>2
<1>8. s = inbox[r] /\ w = Tail(inbox[r]) /\ g = graph[r] /\ tables = db[r]
    OBVIOUS
<1>. HIDE DEF h, after, s, w, g, tables
<1>. QED  BY <1>1, <1>2, <1>6, <1>7, <1>8, HeardAgrees

LEMMA ConvergeReceiveConnect ==
    ASSUME Converging, ConvergeInv, SessionInv', NEW r \in Replica, NEW i \in DOMAIN inbox[r],
           ReceiveConnect(r, i)
    PROVE  ConvergeInv'
<1>1. SessionTypes /\ Faultless /\ SessionInv
    BY InvTypes DEF ConvergeInv, Converging, InSession
<1>2. PICK m \in ToSet(inbox[r]), alive \in BOOLEAN :
         /\ Receive(r, i, m, "ConnectDisconnect", "Assert") /\ ~alive
         /\ Committed(r, db'[r], connect(graph[r], m.from, m.to), Taken(r, i),
                      IsOpen(r) /\ ConnectSafe(graph[r], m.from, m.to))
         /\ EdgeRow(r, m.from, m.to, m.timestamp, alive)
         /\ clock' = clock /\ stage' = stage
    BY <1>1, ReceiveConnectDoes DEF ReceiveConnectEffect
<1>. DEFINE s == inbox[r]  w == Tail(s)  g == graph[r]  h == connect(g, m.from, m.to)
            safe == IsOpen(r) /\ ConnectSafe(g, m.from, m.to)
<1>3. /\ s # <<>> /\ m = s[1] /\ m \in Message(clock) /\ m \in ToSet(s)
      /\ m.type = "ConnectDisconnect"
    BY <1>1, <1>2, ReceivedIs
<1>4. ASSUME crashed = {}, safe
      PROVE  /\ \A k \in NodeId : \A f : Face(db[r], s, g, k, f) => Face(db'[r], w, h, k, f)
             /\ Wired(db'[r], w, h, stage)
             /\ \A a, b \in NodeId : Joins(w, h, a, b) <=> Joins(s, g, a, b)
    <2>1. m.from \in Ids(g) /\ m.to \in Ids(g)
        BY <1>4 DEF ConnectSafe
    <2>2. /\ g \in Graphs /\ s \in Inbox(clock) /\ Wired(db[r], s, g, stage)
          /\ \A x \in db[r].edge : {x.entity, x.entity_to} \subseteq NodeId
          /\ \A e \in {m.from, m.to} : stage[e] # "unused" /\ Creates(s, e) = {} /\ e \in NodeId
        BY <1>4, <2>1, InAgreement
    <2>3. Later(stage, stage, s, w) /\ ToSet(w) \subseteq ToSet(s)
        <3>. HIDE DEF s
        <3>. QED  BY <1>3, <2>2, TakenLater
    <2>4. \A e \in {m.from, m.to} : stage[e] # "unused" /\ Creates(w, e) = {}
        BY <2>2, <2>3 DEF Later
    <2>5. h.edges = g.edges \cup {<<m.from, m.to>>} /\ h.nodes = g.nodes
        BY <2>2 DEF connect, Graphs
    <2>6. ASSUME NEW k \in NodeId, NEW f, Face(db[r], s, g, k, f)
          PROVE  Face(db'[r], w, h, k, f)
        <3>. HIDE DEF s, w, g, h
        <3>. QED  BY <1>2, <2>3, <2>5, <2>6, FaceEdge
    <2>7. Wired(db'[r], w, h, stage)
        <3>. HIDE DEF s, w, g
        <3>. QED  BY <1>2, <2>2, <2>3, <2>4, WiredConnect
    <2>8. ASSUME NEW a, NEW b
          PROVE  Joins(w, h, a, b) <=> Joins(s, g, a, b)
        <3>. HIDE DEF h, g, s
        <3>1. Joins(s, g, a, b) <=> Joins(Tail(s), g, a, b) \/ (m.from = a /\ m.to = b)
            BY <1>3, <2>2, JoinsTaken
        <3>2. Joins(w, h, a, b) <=> Joins(w, g, a, b) \/ (m.from = a /\ m.to = b)
            BY <2>5 DEF Joins
        <3>. QED  BY <3>1, <3>2 DEF w
    <2>. QED  BY <2>6, <2>7, <2>8
<1>5. Committed(r, db'[r], h, Taken(r, i), safe)
    BY <1>2
<1>6. s = inbox[r] /\ w = Tail(inbox[r]) /\ g = graph[r]
    OBVIOUS
<1>. HIDE DEF h, s, w, g, safe
<1>. QED  BY <1>1, <1>2, <1>4, <1>5, <1>6, HeardAgrees

(* The echo of a removal tells nothing new.                                 *)
LEMMA EchoHeard ==
    ASSUME NEW now, now \in 0 .. now, NEW n \in Nodes, NEW sent, NEW echoes,
           Echo(now, sent, echoes, n), NEW s \in Inbox(now),
           NEW w, w = Joined(s, sent), NEW tables, NEW g, NEW life,
           \A x \in tables.edge : {x.entity, x.entity_to} \subseteq NodeId
    PROVE  /\ \A k, f : (n.id = k => n.attr = f) /\ Face(tables, s, g, k, f) => Face(tables, w, g, k, f)
           /\ Wired(tables, s, g, life) => Wired(tables, w, g, life)
<1>1. CASE sent = <<>>
    <2>1. s \o <<>> = s
        BY DEF Inbox
    <2>2. w = s
        BY <1>1, <2>1 DEF Joined
    <2>. QED  BY <2>2
<1>2. CASE \E d \in Document : sent = <<CreateDelete(n, d, "Retract", now)>>
    <2>1. PICK d \in Document : sent = <<CreateDelete(n, d, "Retract", now)>>
        BY <1>2
    <2>. DEFINE m == CreateDelete(n, d, "Retract", now)
    <2>2. m \in Message(now)
        BY MessageIs
    <2>3. m.type = "CreateDelete" /\ m.node = n /\ m.change = "Retract"
        BY DEF CreateDelete
    <2>4. w = Joined(s, <<m>>)
        BY <2>1
    <2>. HIDE DEF m
    <2>5. Lives(m, life, life)
        BY <2>3 DEF Lives, CreateOf
    <2>6. ASSUME NEW k, NEW f, n.id = k => n.attr = f, Face(tables, s, g, k, f)
          PROVE  Face(tables, Joined(s, <<m>>), g, k, f)
        BY <2>2, <2>3, <2>6, FaceSent
    <2>7. ASSUME Wired(tables, s, g, life)
          PROVE  Wired(tables, Joined(s, <<m>>), g, life)
        BY <2>2, <2>3, <2>5, <2>7, WiredSent
    <2>. QED  BY <2>4, <2>6, <2>7
<1>. QED  BY <1>1, <1>2 DEF Echo

LEMMA EchoDraws ==
    ASSUME NEW now, now \in 0 .. now, NEW n \in Nodes, NEW sent, NEW echoes,
           Echo(now, sent, echoes, n), NEW s \in Inbox(now), NEW g, NEW a, NEW b
    PROVE  Joins(Joined(s, sent), g, a, b) <=> Joins(s, g, a, b)
<1>1. CASE sent = <<>>
    <2>1. s \o <<>> = s
        BY DEF Inbox
    <2>. QED  BY <1>1, <2>1 DEF Joined
<1>2. CASE \E d \in Document : sent = <<CreateDelete(n, d, "Retract", now)>>
    <2>1. PICK d \in Document : sent = <<CreateDelete(n, d, "Retract", now)>>
        BY <1>2
    <2>. DEFINE m == CreateDelete(n, d, "Retract", now)
    <2>2. m \in Message(now) /\ m.type = "CreateDelete"
        BY MessageIs DEF CreateDelete
    <2>3. sent = <<m>>
        BY <2>1
    <2>. HIDE DEF m
    <2>. QED  BY <2>2, <2>3, JoinsSent
<1>. QED  BY <1>1, <1>2 DEF Echo

LEMMA ConvergeReceiveRemove ==
    ASSUME Converging, ConvergeInv, SessionInv', NEW r \in Replica, NEW i \in DOMAIN inbox[r],
           ReceiveRemove(r, i)
    PROVE  ConvergeInv'
<1>. SUFFICES ASSUME crashed' = {}
              PROVE  AllFaced' /\ AllWired' /\ AllJoined'
    BY DEF ConvergeInv
<1>1. SessionTypes /\ Faultless /\ SessionInv
    BY InvTypes DEF ConvergeInv, Converging, InSession
<1>2. PICK m \in ToSet(inbox[r]) : \E sent, echoes :
         /\ Receive(r, i, m, "CreateDelete", "Retract")
         /\ Echo(clock + 1, sent, echoes, m.node)
         /\ Committed(r, db'[r], remove(graph[r], m.node.id), Post(Taken(r, i), r, sent),
                      IsOpen(r) /\ MeshSafe(remove(graph[r], m.node.id)))
         /\ db'[r] \in Tables(clock + 1)
         /\ Removed(db[r], db'[r], m.node, m.document, m.timestamp)
         /\ clock < MaxTime /\ clock' = clock + 1 /\ stage' = stage
    BY <1>1, ReceiveRemoveDoes DEF ReceiveRemoveEffect
<1>3. PICK sent, echoes :
         /\ Receive(r, i, m, "CreateDelete", "Retract")
         /\ Echo(clock + 1, sent, echoes, m.node)
         /\ Committed(r, db'[r], remove(graph[r], m.node.id), Post(Taken(r, i), r, sent),
                      IsOpen(r) /\ MeshSafe(remove(graph[r], m.node.id)))
         /\ db'[r] \in Tables(clock + 1)
         /\ Removed(db[r], db'[r], m.node, m.document, m.timestamp)
         /\ clock < MaxTime /\ clock' = clock + 1 /\ stage' = stage
    BY <1>2
<1>. DEFINE n == m.node  d == m.document  t == m.timestamp  now == clock + 1  s == inbox[r]
            w == Tail(s)  tables == db[r]  after == db'[r]  g == graph[r]  h == remove(g, n.id)
            rest == Taken(r, i)  boxes == Post(rest, r, sent)  safe == IsOpen(r) /\ MeshSafe(h)
<1>4. /\ s # <<>> /\ m = s[1] /\ m \in Message(clock) /\ m \in ToSet(s)
      /\ m.type = "CreateDelete" /\ m.change = "Retract"
      /\ rest \in [Replica -> Inbox(clock)] /\ rest[r] = w
      /\ \A q \in Replica : q # r => rest[q] = inbox[q]
    BY <1>1, <1>3, ReceivedIs
<1>5. n \in Nodes /\ n.id \in NodeId /\ d \in Document
    BY <1>4, MessageFields, NodeFields
<1>6. clock \in Nat /\ now \in 0 .. now /\ Echo(now, sent, echoes, n)
    BY <1>1, <1>3, Site
<1>7. rest \in [Replica -> Inbox(now)] /\ \A q \in Replica : rest[q] \in Inbox(now)
    <2>1. \A q \in Replica : rest[q] \in Inbox(now)
        BY <1>4, <1>6, MessagesLater
    <2>. HIDE DEF rest, now
    <2>. QED  BY <1>4, <2>1
<1>8. boxes[r] = w /\ \A q \in Replica : q # r => boxes[q] = Joined(inbox[q], sent)
    <2>. HIDE DEF rest, now, n, w
    <2>1. sent \in Inbox(now)
        BY <1>5, <1>6, EchoFine
    <2>. QED  BY <1>4, <1>7, <2>1, PostIs
<1>9. /\ db'[r] = after /\ graph'[r] = h /\ crashed = {} /\ inbox' = boxes
      /\ \A q \in Replica : q # r => db'[q] = db[q] /\ graph'[q] = graph[q]
    <2>1. Committed(r, after, h, boxes, safe)
        BY <1>3
    <2>. HIDE DEF after, h, boxes, safe
    <2>. QED  BY <1>1, <2>1, CommittedIs
<1>10. /\ AllFaced /\ AllWired /\ AllJoined
       /\ \A q \in Replica : \A x \in db[q].edge : {x.entity, x.entity_to} \subseteq NodeId
       /\ g \in Graphs /\ s \in Inbox(clock) /\ Wired(tables, s, g, stage)
    BY <1>9, InAgreement
<1>11. Removed(tables, after, n, d, t) /\ after.edge = tables.edge
    BY <1>3 DEF Removed
<1>12. stage[n.id] = "removed"
    <2>1. m \in Removals(s, n.id)
        BY <1>4 DEF RemovalOf, Removals
    <2>. QED  BY <1>1, <1>5, <2>1, InvTypes DEF KnownOK
<1>13. Later(stage, stage, s, w) /\ ToSet(w) \subseteq ToSet(s)
    <2>. HIDE DEF s
    <2>. QED  BY <1>4, <1>10, TakenLater
<1>14. ASSUME NEW k \in NodeId
       PROVE  \E f : \A q \in Replica : Face(db'[q], inbox'[q], graph'[q], k, f)
    <2>1. PICK f : \A q \in Replica : Face(db[q], inbox[q], graph[q], k, f)
        BY <1>10 DEF AllFaced
    <2>2. n.id = k => n.attr = f
        BY <1>4, <2>1 DEF Face
    <2>3. Face(after, w, h, k, f)
        <3>1. Face(tables, s, g, k, f)
            BY <2>1
        <3>. HIDE DEF after, tables, s, w, g, d, t, n
        <3>. QED  BY <1>5, <1>10, <1>11, <1>13, <2>2, <3>1, FaceRemoved DEF h
    <2>4. ASSUME NEW q \in Replica, q # r
          PROVE  Face(db[q], Joined(inbox[q], sent), graph[q], k, f)
        <3>1. inbox[q] \in Inbox(now) /\ Face(db[q], inbox[q], graph[q], k, f)
              /\ \A x \in db[q].edge : {x.entity, x.entity_to} \subseteq NodeId
            BY <1>4, <1>7, <1>10, <2>1, <2>4
        <3>. HIDE DEF now, n
        <3>. QED  BY <1>5, <1>6, <2>2, <3>1, EchoHeard
    <2>. HIDE DEF boxes, after, h, w
    <2>5. \A q \in Replica : Face(db'[q], inbox'[q], graph'[q], k, f)
        BY <1>8, <1>9, <2>3, <2>4
    <2>. QED  BY <2>5
<1>15. ASSUME NEW q \in Replica
       PROVE  Wired(db'[q], inbox'[q], graph'[q], stage')
    <2>1. CASE q = r
        <3>. HIDE DEF after, tables, s, w, g, n, boxes
        <3>1. Wired(after, w, h, stage)
            BY <1>10, <1>11, <1>13, WiredRemoved DEF tables
        <3>. HIDE DEF h
        <3>. QED  BY <1>3, <1>8, <1>9, <2>1, <3>1
    <2>2. CASE q # r
        <3>1. inbox[q] \in Inbox(now) /\ Wired(db[q], inbox[q], graph[q], stage)
              /\ \A x \in db[q].edge : {x.entity, x.entity_to} \subseteq NodeId
            BY <1>4, <1>7, <1>10, <2>2 DEF AllWired
        <3>. HIDE DEF now, n, boxes
        <3>2. Wired(db[q], Joined(inbox[q], sent), graph[q], stage)
            BY <1>5, <1>6, <3>1, EchoHeard
        <3>. QED  BY <1>3, <1>8, <1>9, <2>2, <3>2
    <2>. QED  BY <2>1, <2>2
<1>16. ASSUME NEW a \in NodeId, NEW b \in NodeId,
              stage'[a] = "created", stage'[b] = "created", NEW q \in Replica
       PROVE  Joins(inbox'[q], graph'[q], a, b) <=> Joins(inbox[q], graph[q], a, b)
    <2>1. CASE q = r
        <3>1. h.edges = {e \in g.edges : e[1] # n.id /\ e[2] # n.id}
            BY <1>10, RemoveGraph
        <3>2. a # n.id /\ b # n.id
            BY <1>3, <1>12, <1>16
        <3>3. Joins(s, g, a, b) <=> Joins(w, g, a, b)
            <4>. HIDE DEF s, g
            <4>. QED  BY <1>4, <1>10, JoinsTaken
        <3>. HIDE DEF h, w, n, boxes
        <3>4. Joins(w, h, a, b) <=> Joins(w, g, a, b)
            BY <3>1, <3>2 DEF Joins
        <3>. QED  BY <1>8, <1>9, <2>1, <3>3, <3>4
    <2>2. CASE q # r
        <3>1. inbox[q] \in Inbox(now)
            BY <1>4, <1>7, <2>2
        <3>. HIDE DEF now, n, boxes
        <3>2. Joins(Joined(inbox[q], sent), graph[q], a, b) <=> Joins(inbox[q], graph[q], a, b)
            BY <1>5, <1>6, <3>1, EchoDraws
        <3>. QED  BY <1>8, <1>9, <2>2, <3>2
    <2>. QED  BY <2>1, <2>2
<1>. HIDE DEF boxes, after, h, w, s, g, tables, n, d, t, now, rest, safe
<1>17. AllJoined'
    BY <1>3, <1>10, <1>16 DEF AllJoined, JoinsAgree
<1>. QED  BY <1>14, <1>15, <1>17 DEF AllFaced, AllWired

Made(id, kind, attr) == [id |-> id, kind |-> kind, attr |-> attr]

(* Nodes that agree on id and attributes are the same.                      *)
LEMMA IsMade ==
    ASSUME NEW x \in Nodes
    PROVE  x = Made(x.id, Kind[x.id], x.attr)
BY NodeFields DEF Made

LEMMA NodesEqual ==
    ASSUME NEW x \in Nodes, NEW y \in Nodes, x.id = y.id, x.attr = y.attr
    PROVE  x = y
BY IsMade

LEMMA NewestExists ==
    ASSUME NEW now \in Nat, NEW tables \in Tables(now), NEW rows, rows \subseteq tables.edge,
           rows # {}
    PROVE  Newest(rows) # {}
<1>. DEFINE times == {x.timestamp : x \in rows}
<1>1. \A x \in rows : x.timestamp \in 0 .. now
    BY RowFields
<1>2. times # {} /\ times \subseteq Nat /\ \A v \in times : v <= now
    BY <1>1
<1>3. PICK u \in times : \A v \in times : v <= u
    <2>. HIDE DEF times
    <2>. QED  BY <1>2, GreatestExists
<1>. QED  BY <1>3 DEF Newest

(* No edge is ever taken away: those of the table are its rows.             *)
LEMMA LinkedAre ==
    ASSUME NEW now \in Nat, NEW tables \in Tables(now), \A x \in tables.edge : ~x.deleted,
           NEW a, NEW b
    PROVE  b \in edges(tables.edge, a) <=> Linked(tables, a, b)
<1>. DEFINE pair == {x \in tables.edge : x.entity = a /\ x.entity_to = b}
<1>1. b \in edges(tables.edge, a) <=>
         Live(Newest(pair)) # {} /\ b \in {x.entity_to : x \in tables.edge}
    BY DEF edges
<1>2. Live(Newest(pair)) = Newest(pair)
    BY DEF Live, Newest
<1>3. Linked(tables, a, b) <=> pair # {}
    BY DEF Linked
<1>4. pair # {} => b \in {x.entity_to : x \in tables.edge}
    OBVIOUS
<1>5. Newest(pair) # {} <=> pair # {}
    <2>1. pair # {} => Newest(pair) # {}
        <3>1. pair \subseteq tables.edge
            OBVIOUS
        <3>. HIDE DEF pair
        <3>. QED  BY <3>1, NewestExists
    <2>. QED  BY <2>1 DEF Newest
<1>. QED  BY <1>1, <1>2, <1>3, <1>4, <1>5

(* open() shows what the graph shows.                                       *)
LEMMA OpenedSame ==
    ASSUME NEW now \in Nat, NEW tables \in Tables(now), IsFiniteSet(Value), NEW d \in Document,
           \A n \in NodeId : \A x \in Shown(tables, n) : x.type = Kind[n] /\ x.document = d,
           NEW s, NEW g, NEW o, NEW life, Home(tables, s, g, o, life),
           \A n \in Ids(g) : Shown(tables, n) # {},
           Wired(tables, s, g, life), Known(tables, s, g), NEW h, h = Opened(tables, d)
    PROVE  h \in Graphs /\ SameGraph(h, g) /\ Ids(h) = Ids(g)
<1>1. h \in Graphs /\ \A n \in Ids(h) : \E x \in Shown(tables, n) : x.document = d
    BY OpenedKnown
<1>2. g \in Graphs /\ g.edges \subseteq Ids(g) \X Ids(g)
    BY DEF Home, Settled, Drawn
<1>3. Home(tables, s, h, d, life)
    BY OpenedHome
<1>4. Ids(h) \subseteq NodeId /\ Ids(g) \subseteq NodeId
    BY <1>1, <1>2, GraphFields
<1>5. Ids(h) = Ids(g)
    <2>1. \A n \in Ids(h) : n \in Ids(g)
        BY <1>1, <1>4 DEF Home, Place
    <2>2. \A n \in Ids(g) : n \in Ids(h)
        BY <1>3, <1>4 DEF Home, Place
    <2>. QED  BY <2>1, <2>2
<1>6. /\ ToSet(h.nodes) = {NodeOf(tables, row) : row \in ShownIn(tables, d)}
      /\ h.edges = {p \in {row.entity : row \in ShownIn(tables, d)} \X {row.entity : row \in ShownIn(tables, d)} :
                       p[2] \in edges(tables.edge, p[1])}
    BY OpenedNodes
<1>7. Ids(h) = {row.entity : row \in ShownIn(tables, d)}
    <2>1. Ids(h) = {x.id : x \in {NodeOf(tables, row) : row \in ShownIn(tables, d)}}
        BY <1>6, IdsAre
    <2>2. \A row : NodeOf(tables, row).id = row.entity
        BY DEF NodeOf
    <2>. QED  BY <2>1, <2>2
<1>8. h.edges = g.edges
    <2>1. \A a, b \in Ids(g) : <<a, b>> \in g.edges <=> b \in edges(tables.edge, a)
        BY LinkedAre DEF Wired
    <2>2. h.edges = {p \in Ids(g) \X Ids(g) : p[2] \in edges(tables.edge, p[1])}
        BY <1>5, <1>6, <1>7
    <2>. QED  BY <1>2, <2>1, <2>2
<1>9. ASSUME NEW x \in ToSet(h.nodes), NEW y \in ToSet(g.nodes), x.id = y.id
      PROVE  x = y
    <2>1. x \in Nodes /\ y \in Nodes
        BY <1>1, <1>2, GraphFields
    <2>. DEFINE n == x.id
    <2>2. n \in NodeId /\ y.attr \in [Names(n) -> Value]
        BY <1>9, <2>1, NodeFields DEF Names
    <2>3. PICK f : Face(tables, s, g, n, f)
        BY <2>2 DEF Known
    <2>4. y.attr = f
        BY <1>9, <2>3 DEF Face
    <2>5. PICK row \in ShownIn(tables, d) : x = NodeOf(tables, row)
        BY <1>6
    <2>6. row.entity = n /\ row \in Shown(tables, n) /\ row.type = Kind[n]
        <3>1. row.entity = n
            BY <2>5 DEF NodeOf
        <3>2. row \in Shown(tables, n)
            BY <3>1 DEF ShownIn, Shown
        <3>. QED  BY <2>2, <3>1, <3>2
    <2>7. Names(n) \subseteq Attribute /\ ToSet(Attributes(row.type)) = Names(n)
        BY <2>2, <2>6, KindAssumption, AttributesAre DEF Names
    <2>8. ASSUME NEW a \in Names(n)
          PROVE  AttributeOf(tables, n, a) = f[a]
        <3>1. CreatedOK(tables, n)
            BY <2>2, <2>6 DEF Home, Place
        <3>2. PICK z \in Written(tables, a, n) : Written(tables, a, n) = {z} /\ ~z.deleted
            BY <3>1 DEF CreatedOK
        <3>3. z.val \in Nat /\ z.timestamp \in Nat
            BY <2>7, RowFields
        <3>4. z.val = f[a]
            BY <2>3, <2>8 DEF Face
        <3>. QED  BY <3>2, <3>3, <3>4, OneValue
    <2>9. x.attr = [a \in Names(n) |-> AttributeOf(tables, n, a)]
        BY <2>5, <2>6, <2>7 DEF NodeOf
    <2>10. x.attr = y.attr
        <3>1. y.attr = [a \in Names(n) |-> f[a]]
            BY <2>2, <2>4
        <3>. QED  BY <2>8, <2>9, <3>1
    <2>. HIDE DEF n
    <2>. QED  BY <1>9, <2>1, <2>10, NodesEqual
<1>10. ToSet(h.nodes) = ToSet(g.nodes)
    <2>. DEFINE shown == ToSet(h.nodes)  drawn == ToSet(g.nodes)
    <2>1. {x.id : x \in shown} = {x.id : x \in drawn}
        BY <1>5, IdsAre
    <2>2. shown \subseteq drawn
        BY <1>9, <2>1
    <2>3. drawn \subseteq shown
        BY <1>9, <2>1
    <2>. QED  BY <2>2, <2>3
<1>. QED  BY <1>1, <1>5, <1>8, <1>10 DEF SameGraph

(* Whatever document a replica opens, it sees what its graph shows.         *)
LEMMA OpenedHere ==
    ASSUME Converging, ConvergeInv, crashed = {}, NEW r \in Replica, NEW d \in Document,
           NEW h, h = Opened(db[r], d)
    PROVE  SameGraph(h, graph[r]) /\ Ids(h) = Ids(graph[r])
<1>. DEFINE tables == db[r]  g == graph[r]  s == inbox[r]
<1>1. SessionInv /\ SessionTypes /\ AllFaced /\ Wired(tables, s, g, stage)
      /\ \A n \in Ids(g) : Shown(tables, n) # {}
    BY InAgreement
<1>2. Home(tables, s, g, open[r], stage)
    BY <1>1, SettledHere
<1>3. clock \in Nat /\ tables \in Tables(clock)
    BY <1>1, Site
<1>4. \A n \in NodeId : \A x \in Shown(tables, n) : x.type = Kind[n] /\ x.document = d
    <2>1. \A n \in NodeId : \A x \in Shown(tables, n) : x.type = Kind[n]
        BY <1>1, InvTypes DEF KnownOK
    <2>2. \A n \in NodeId : \A x \in Shown(tables, n) : x.document \in Document
        BY <1>3, ShownKnown
    <2>. QED  BY <2>1, <2>2 DEF Converging, InSession
<1>5. Known(tables, s, g)
    BY <1>1 DEF AllFaced, Known
<1>6. IsFiniteSet(Value) /\ h = Opened(tables, d)
    BY DEF Converging, InSession
<1>. HIDE DEF tables, g, s
<1>7. SameGraph(h, g) /\ Ids(h) = Ids(g)
    BY <1>1, <1>2, <1>3, <1>4, <1>5, <1>6, OpenedSame
<1>. QED  BY <1>7 DEF g

(* Nothing tells a graph from another with the same nodes and edges.        *)
LEMMA SameAgrees ==
    ASSUME NEW g, NEW h, SameGraph(h, g), Ids(h) = Ids(g), NEW s, NEW tables
    PROVE  /\ \A n, f : Face(tables, s, g, n, f) => Face(tables, s, h, n, f)
           /\ \A life : Wired(tables, s, g, life) => Wired(tables, s, h, life)
           /\ \A a, b : Joins(s, h, a, b) <=> Joins(s, g, a, b)
BY DEF SameGraph, Face, Wired, Joins

LEMMA ConvergeOpen ==
    ASSUME Converging, ConvergeInv, SessionInv', NEW r \in Replica, NEW d \in Document,
           Open(r, d)
    PROVE  ConvergeInv'
<1>. DEFINE h == Opened(db[r], d)
<1>. SUFFICES ASSUME crashed' = {}
              PROVE  AllFaced' /\ AllWired' /\ AllJoined'
    BY DEF ConvergeInv
<1>1. /\ graph' = [graph EXCEPT ![r] = h]
      /\ db' = db /\ crashed' = crashed /\ inbox' = inbox /\ stage' = stage
    BY DEF Open
<1>2. SessionTypes /\ AllFaced /\ AllWired /\ AllJoined
    BY <1>1, InAgreement
<1>3. graph'[r] = h /\ \A q \in Replica : q # r => graph'[q] = graph[q]
    BY <1>1, <1>2 DEF SessionTypes
<1>4. SameGraph(h, graph[r]) /\ Ids(h) = Ids(graph[r])
    BY <1>1, OpenedHere
<1>. HIDE DEF h
<1>5. ASSUME NEW q \in Replica
      PROVE  /\ \A n, f : Face(db[q], inbox[q], graph[q], n, f) =>
                             Face(db[q], inbox[q], graph'[q], n, f)
             /\ Wired(db[q], inbox[q], graph'[q], stage)
             /\ \A a, b : Joins(inbox[q], graph'[q], a, b) <=> Joins(inbox[q], graph[q], a, b)
    <2>1. Wired(db[q], inbox[q], graph[q], stage)
        BY <1>2 DEF AllWired
    <2>2. CASE q = r
        BY <1>3, <1>4, <2>1, <2>2, SameAgrees
    <2>3. CASE q # r
        BY <1>3, <2>1, <2>3
    <2>. QED  BY <2>2, <2>3
<1>6. AllFaced'
    <2>1. ASSUME NEW n \in NodeId
          PROVE  \E f : \A q \in Replica : Face(db[q], inbox[q], graph'[q], n, f)
        <3>1. PICK f : \A q \in Replica : Face(db[q], inbox[q], graph[q], n, f)
            BY <1>2 DEF AllFaced
        <3>2. \A q \in Replica : Face(db[q], inbox[q], graph'[q], n, f)
            BY <1>5, <3>1
        <3>. QED  BY <3>2
    <2>. QED  BY <1>1, <2>1 DEF AllFaced
<1>7. AllWired'
    BY <1>1, <1>5 DEF AllWired
<1>8. AllJoined'
    BY <1>1, <1>2, <1>5 DEF AllJoined, JoinsAgree
<1>. QED  BY <1>6, <1>7, <1>8

(* Nobody disconnects or updates, so no message says so.                    *)
LEMMA NoDisconnect ==
    ASSUME Converging, ConvergeInv, SessionInv', NEW r \in Replica, NEW i \in DOMAIN inbox[r],
           ReceiveDisconnect(r, i)
    PROVE  ConvergeInv'
<1>1. SessionTypes /\ Faultless
    BY InvTypes DEF ConvergeInv, Converging, InSession
<1>2. PICK m \in ToSet(inbox[r]) : Receive(r, i, m, "ConnectDisconnect", "Retract")
    BY DEF ReceiveDisconnect
<1>3. m \in ToSet(inbox[r]) /\ m.type = "ConnectDisconnect" /\ m.change = "Retract"
    BY <1>1, <1>2, ReceivedIs
<1>4. crashed = {} => Wired(db[r], inbox[r], graph[r], stage)
    BY InAgreement
<1>5. crashed # {}
    BY <1>3, <1>4 DEF Wired
<1>6. crashed \subseteq crashed'
    BY DEF ReceiveDisconnect, Outcome
<1>. QED  BY <1>5, <1>6 DEF ConvergeInv

LEMMA NoUpdate ==
    ASSUME Converging, ConvergeInv, SessionInv', NEW r \in Replica, NEW i \in DOMAIN inbox[r],
           ReceiveUpdate(r, i)
    PROVE  ConvergeInv'
<1>1. SessionTypes /\ Faultless /\ SessionInv
    BY InvTypes DEF ConvergeInv, Converging, InSession
<1>2. PICK m \in ToSet(inbox[r]) : Receive(r, i, m, "Update", "Assert")
    BY DEF ReceiveUpdate
<1>3. m \in ToSet(inbox[r]) /\ m.type = "Update"
    BY <1>1, <1>2, ReceivedIs
<1>4. crashed # {}
    BY <1>1, <1>3, SettledHere DEF Settled, Fine
<1>5. crashed \subseteq crashed'
    BY DEF ReceiveUpdate, Outcome
<1>. QED  BY <1>4, <1>5 DEF ConvergeInv

LEMMA ConvergeStarts ==
    ASSUME Converging, SessionInit
    PROVE  ConvergeInv
<1>1. SessionInv
    BY SessionStarts DEF Converging
<1>2. \A s \in {<<>>} : ToSet(s) = {} /\ \A n : Creates(s, n) = {}
    BY DEF Creates, ToSet
<1>3. \A n : \A a \in Names(n) : n \in NodeId => Written(EmptyTables, a, n) = {}
    <2>1. \A n \in NodeId : Names(n) \subseteq Attribute
        BY KindAssumption, AttributesAre DEF Names
    <2>. QED  BY <2>1 DEF Written, EmptyTables, Attribute
<1>4. /\ ToSet(EmptyGraph.nodes) = {} /\ Ids(EmptyGraph) = {}
      /\ EmptyGraph.edges = {} /\ EmptyTables.edge = {}
    BY <1>2, EmptyGraphIs DEF EmptyGraph, EmptyTables
<1>5. \A r \in Replica : db[r] = EmptyTables /\ inbox[r] = <<>> /\ graph[r] = EmptyGraph
    BY DEF SessionInit
<1>6. \A n \in NodeId : \A f : Face(EmptyTables, <<>>, EmptyGraph, n, f)
    BY <1>2, <1>3, <1>4 DEF Face
<1>7. \A life : Wired(EmptyTables, <<>>, EmptyGraph, life)
    BY <1>2, <1>4 DEF Wired
<1>8. \A a, b : ~Joins(<<>>, EmptyGraph, a, b)
    BY <1>2, <1>4 DEF Joins
<1>9. AllFaced
    BY <1>5, <1>6 DEF AllFaced
<1>10. AllWired
    BY <1>5, <1>7 DEF AllWired
<1>11. AllJoined
    BY <1>5, <1>8 DEF AllJoined, JoinsAgree
<1>. QED  BY <1>1, <1>9, <1>10, <1>11 DEF ConvergeInv

LEMMA NextKeepsAgreement ==
    ASSUME Converging, ConvergeInv, [Next]_vars
    PROVE  ConvergeInv'
<1>1. SessionInv'
    BY NextKeepsSession DEF Converging, ConvergeInv
<1>2. CASE UNCHANGED vars
    BY <1>1, <1>2 DEF vars, ConvergeInv, AllFaced, AllWired, AllJoined, JoinsAgree
<1>3. CASE \E from, to \in NodeId : PeerDisconnect(from, to)
    BY <1>3 DEF PeerDisconnect, Converging
<1>4. ASSUME NEW r \in Replica \ crashed,
             \/ \E d \in Document : Open(r, d)
             \/ \E n \in Handed : UserCreate(r, n) \/ UserUpdate(r, n)
             \/ \E n \in ToSet(graph[r].nodes) : UserRemove(r, n)
             \/ \E from, to \in NodeId :
                   /\ {from, to} \subseteq Ids(graph[r])
                   /\ UserConnect(r, from, to) \/ UserDisconnect(r, from, to)
             \/ \E i \in DOMAIN inbox[r] :
                   \/ ReceiveCreate(r, i) \/ ReceiveRemove(r, i)
                   \/ ReceiveConnect(r, i) \/ ReceiveDisconnect(r, i)
                   \/ ReceiveUpdate(r, i)
      PROVE  ConvergeInv'
    <2>1. CASE \E d \in Document : Open(r, d)
        BY <1>1, <2>1, ConvergeOpen
    <2>2. CASE \E n \in Handed : UserCreate(r, n)
        BY <1>1, <2>2, ConvergeCreate DEF Handed
    <2>3. CASE \E n \in Handed : UserUpdate(r, n)
        BY <2>3 DEF UserUpdate, UserCall, Converging
    <2>4. CASE \E n \in ToSet(graph[r].nodes) : UserRemove(r, n)
        BY <1>1, <2>4, ConvergeRemove
    <2>5. CASE \E from, to \in Ids(graph[r]) : UserConnect(r, from, to)
        BY <1>1, <2>5, ConvergeConnect
    <2>6. CASE \E from, to \in Ids(graph[r]) : UserDisconnect(r, from, to)
        BY <2>6 DEF UserDisconnect, UserCall, Converging
    <2>7. CASE \E i \in DOMAIN inbox[r] : ReceiveCreate(r, i)
        BY <1>1, <2>7, ConvergeReceiveCreate
    <2>8. CASE \E i \in DOMAIN inbox[r] : ReceiveRemove(r, i)
        BY <1>1, <2>8, ConvergeReceiveRemove
    <2>9. CASE \E i \in DOMAIN inbox[r] : ReceiveConnect(r, i)
        BY <1>1, <2>9, ConvergeReceiveConnect
    <2>10. CASE \E i \in DOMAIN inbox[r] : ReceiveDisconnect(r, i)
        BY <1>1, <2>10, NoDisconnect
    <2>11. CASE \E i \in DOMAIN inbox[r] : ReceiveUpdate(r, i)
        BY <1>1, <2>11, NoUpdate
    <2>. QED  BY <1>4, <2>1, <2>2, <2>3, <2>4, <2>5, <2>6, <2>7, <2>8, <2>9, <2>10, <2>11
<1>. QED  BY <1>2, <1>3, <1>4 DEF Next

-----------------------------------------------------------------------------
(* What has arrived *)

(* When all has arrived a graph shows the nodes that were created and not   *)
(* removed: a node that was removed is shown only where the removal is      *)
(* still on its way, and there the removal is not spent.                    *)
LEMMA SpentOnly ==
    ASSUME Converging, ConvergeInv, AllArrived, NEW r \in Replica
    PROVE  /\ crashed = {}
           /\ \A n \in NodeId : Creates(inbox[r], n) = {}
           /\ \A m \in ToSet(inbox[r]) : m.type # "ConnectDisconnect"
           /\ \A n \in Ids(graph[r]) : Removals(inbox[r], n) = {}
<1>1. crashed = {} /\ \A m \in ToSet(inbox[r]) : Spent(r, m)
    BY DEF AllArrived
<1>2. \A m \in ToSet(inbox[r]) : m.type = "CreateDelete" /\ m.change = "Retract"
    BY <1>1 DEF Spent
<1>3. ASSUME NEW n \in Ids(graph[r]), NEW m \in Removals(inbox[r], n)
      PROVE  FALSE
    <2>1. PICK d : Document = {d}
        BY DEF Converging, InSession
    <2>2. m \in ToSet(inbox[r]) /\ m.node.id = n
        BY <1>3 DEF Removals, RemovalOf
    <2>3. n \notin Ids(Opened(db[r], d))
        BY <1>1, <2>1, <2>2 DEF Spent
    <2>4. Ids(Opened(db[r], d)) = Ids(graph[r])
        BY <1>1, <2>1, OpenedHere
    <2>. QED  BY <1>3, <2>3, <2>4
<1>. QED  BY <1>1, <1>2, <1>3 DEF Creates, CreateOf

LEMMA ArrivedShows ==
    ASSUME Converging, ConvergeInv, AllArrived, NEW r \in Replica
    PROVE  Ids(graph[r]) = {n \in NodeId : stage[n] = "created"}
<1>1. crashed = {} /\ SessionInv
    BY DEF AllArrived, ConvergeInv
<1>2. /\ \A n \in NodeId : Creates(inbox[r], n) = {}
      /\ \A n \in Ids(graph[r]) : Removals(inbox[r], n) = {}
    BY SpentOnly
<1>3. ASSUME NEW n \in Ids(graph[r])
      PROVE  n \in NodeId /\ stage[n] = "created"
    <2>1. n \in NodeId /\ stage[n] # "unused" /\ Shown(db[r], n) # {}
        BY <1>1, InAgreement
    <2>2. stage[n] # "partial"
        BY <1>1, <2>1, SettledHere DEF Place
    <2>3. stage[n] # "removed"
        <3>1. Births(db[r], inbox[r], n) # {}
            BY <2>1 DEF Births
        <3>. QED  BY <1>1, <1>2, <2>1, <3>1, InvTypes DEF RemovalComes
    <2>4. stage[n] \in {"unused", "partial", "created", "removed"}
        BY <1>1, <2>1, InvTypes DEF SessionTypes, Life
    <2>. QED  BY <2>1, <2>2, <2>3, <2>4
<1>4. ASSUME NEW n \in NodeId, stage[n] = "created"
      PROVE  n \in Ids(graph[r])
    BY <1>1, <1>2, <1>4, SettledHere DEF Place
<1>. QED  BY <1>3, <1>4

LEMMA ArrivedAgrees ==
    ASSUME Converging, ConvergeInv, AllArrived, NEW r \in Replica, NEW q \in Replica
    PROVE  /\ ToSet(graph[r].nodes) \subseteq ToSet(graph[q].nodes)
           /\ graph[r].edges \subseteq graph[q].edges
<1>1. /\ crashed = {} /\ AllFaced /\ AllJoined
      /\ \A m \in ToSet(inbox[q]) : m.type # "ConnectDisconnect"
    BY InAgreement, SpentOnly
<1>2. /\ Drawn(graph[r]) /\ graph[r] \in Graphs
      /\ Drawn(graph[q]) /\ graph[q] \in Graphs
    BY <1>1, InAgreement
<1>3. /\ Ids(graph[r]) = {n \in NodeId : stage[n] = "created"}
      /\ Ids(graph[q]) = {n \in NodeId : stage[n] = "created"}
    BY ArrivedShows
<1>4. ASSUME NEW x \in ToSet(graph[r].nodes)
      PROVE  x \in ToSet(graph[q].nodes)
    <2>1. x \in Nodes /\ x.id \in Ids(graph[r])
        BY <1>2, GraphFields, IdsAre
    <2>2. PICK y \in ToSet(graph[q].nodes) : y.id = x.id
        BY <1>3, <2>1, IdsAre
    <2>3. y \in Nodes /\ x.id \in NodeId
        BY <1>2, <1>3, <2>1, GraphFields
    <2>4. PICK f : /\ Face(db[r], inbox[r], graph[r], x.id, f)
                   /\ Face(db[q], inbox[q], graph[q], x.id, f)
        BY <1>1, <2>3 DEF AllFaced
    <2>5. x.attr = f /\ y.attr = f
        BY <2>2, <2>4 DEF Face
    <2>. QED  BY <2>1, <2>2, <2>3, <2>5, NodesEqual
<1>5. ASSUME NEW e \in graph[r].edges
      PROVE  e \in graph[q].edges
    <2>1. e \in Ids(graph[r]) \X Ids(graph[r])
        BY <1>2 DEF Drawn
    <2>2. PICK a \in NodeId, b \in NodeId : e = <<a, b>> /\ stage[a] = "created" /\ stage[b] = "created"
        BY <1>3, <2>1
    <2>3. Joins(inbox[r], graph[r], a, b)
        BY <2>2 DEF Joins
    <2>4. Joins(inbox[q], graph[q], a, b)
        BY <1>1, <2>2, <2>3 DEF AllJoined, JoinsAgree
    <2>. QED  BY <1>1, <2>2, <2>4 DEF Joins
<1>. QED  BY <1>4, <1>5

LEMMA ArrivedSame ==
    ASSUME Converging, ConvergeInv, AllArrived, NEW r \in Replica, NEW q \in Replica
    PROVE  SameGraph(graph[r], graph[q])
<1>1. /\ ToSet(graph[r].nodes) \subseteq ToSet(graph[q].nodes)
      /\ graph[r].edges \subseteq graph[q].edges
    BY ArrivedAgrees
<1>2. /\ ToSet(graph[q].nodes) \subseteq ToSet(graph[r].nodes)
      /\ graph[q].edges \subseteq graph[r].edges
    BY ArrivedAgrees
<1>. QED  BY <1>1, <1>2 DEF SameGraph

(* When nodes are created, connected and removed, what the graphs and the   *)
(* tables of the replicas hold agrees with what is still on its way.        *)
THEOREM SessionAgreement ==
    ASSUME Converging
    PROVE  SessionSpec => []ConvergeInv
<1>1. SessionInit => ConvergeInv
    BY ConvergeStarts
<1>2. ConvergeInv /\ [Next]_vars => ConvergeInv'
    BY NextKeepsAgreement
<1>. QED  BY <1>1, <1>2, PTL DEF SessionSpec

(* A replica that follows a document sees, without opening it again, what   *)
(* each replica would see of it after opening it: the view models apply     *)
(* every call and every message, a removal and its echoes as well, to the   *)
(* graph as DatabaseImpl does to the tables.                                *)
THEOREM SessionGraphsConverge ==
    ASSUME Converging
    PROVE  SessionSpec => []GraphsConverge
<1>1. ASSUME ConvergeInv
      PROVE  GraphsConverge
    <2>. SUFFICES ASSUME AllArrived, NEW r \in Replica, NEW q \in Replica
                  PROVE  SameGraph(graph[r], Opened(db[q], open[r]))
        BY DEF GraphsConverge
    <2>1. crashed = {} /\ SessionInv
        BY <1>1 DEF AllArrived, ConvergeInv
    <2>2. open[r] \in Document
        BY <2>1, SettledHere
    <2>3. SameGraph(Opened(db[q], open[r]), graph[q])
        BY <1>1, <2>1, <2>2, OpenedHere
    <2>4. SameGraph(graph[r], graph[q])
        BY <1>1, ArrivedSame
    <2>. QED  BY <2>3, <2>4 DEF SameGraph
<1>. QED  BY <1>1, SessionAgreement, PTL

(* When all that was done has arrived, all replicas would open the same     *)
(* graph of the document: what DatabaseImpl has stored of the calls of all  *)
(* users, removals among them, does not depend on how they were interleaved.*)
THEOREM SessionTablesConverge ==
    ASSUME Converging
    PROVE  SessionSpec => []TablesConverge
<1>1. ASSUME ConvergeInv
      PROVE  TablesConverge
    <2>. SUFFICES ASSUME AllArrived, NEW r \in Replica, NEW q \in Replica, NEW d \in Document
                  PROVE  SameGraph(Opened(db[r], d), Opened(db[q], d))
        BY DEF TablesConverge
    <2>1. crashed = {}
        BY DEF AllArrived
    <2>2. SameGraph(Opened(db[r], d), graph[r]) /\ SameGraph(Opened(db[q], d), graph[q])
        BY <1>1, <2>1, OpenedHere
    <2>3. SameGraph(graph[r], graph[q])
        BY <1>1, ArrivedSame
    <2>. QED  BY <2>2, <2>3 DEF SameGraph
<1>. QED  BY <1>1, SessionAgreement, PTL
=============================================================================
