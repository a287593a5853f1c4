------------------------ MODULE OrgUnitParentsProofs ------------------------
(***************************************************************************)
(* A parent exists as long as it has children.                             *)
(***************************************************************************)
EXTENDS OrgUnitTreeProofs

(***************************************************************************)
(* Where a unit may be.  As long as it is not uprooted, every path that    *)
(* goes through a unit comes from the parent that its CREATE names, and    *)
(* whatever has a unit below it is named as a parent: when only leaves     *)
(* move, the paths of a parent's children all begin with the parent's path.*)
(***************************************************************************)
Uprooted(log, n) == \E i \in DOMAIN log : log[i].node = n /\ Uproots(log, i)

NamedParent(payload) == Field(payload, "parent_org_node_key", NoNode)

Origins(log, n) ==
  {NamedParent(log[i].payload) :
     i \in {j \in DOMAIN log : log[j].node = n /\ log[j].type = "CREATE"}}

Above(path, k) == IF k = 1 THEN NoNode ELSE path[k - 1]

Chained(log, path) ==
  /\ \A k \in 1 .. Len(path) :
       Uprooted(log, path[k]) \/ Above(path, k) \in Origins(log, path[k])
  /\ \A k \in 1 .. (Len(path) - 1) : path[k] \in NamedParents(log)

(* The unit is created, on or before the day. *)
Born(log, n, d) == \E x \in ReplayEvents(log, n) : x.type = "CREATE" /\ x.date <= d

Housed(log, V) == \A v \in V : v.parent # NoNode => Born(log, v.parent, v.from)

Sited(log, V) ==
  OnlyLeavesMove(log) => /\ \A v \in V : Chained(log, v.path)
                         /\ Housed(log, V)

Childless(V, n) == \A v \in V : v.parent # n

(* Every unit has one CREATE, and the events of other types than CREATE,   *)
(* UPDATE and MOVE name no parent.                                         *)
OneCreate(log) ==
  \A i, j \in DOMAIN log :
    log[i].type = "CREATE" /\ log[j].type = "CREATE" /\ log[i].node = log[j].node => i = j
ParentsSaid(log) ==
  \A i \in DOMAIN log :
    log[i].type \in BaseTypes \ {"CREATE", "UPDATE", "MOVE"} => ~CarriesParent(log[i].payload)

(* What a longer log says stays said. *)
LEMMA NamedGrow ==
  ASSUME NEW log, LogOK(log), LogFine(log), NEW e
  PROVE  /\ NamedParents(log) \subseteq NamedParents(Append(log, e))
         /\ NamedParents(Append(log, e)) =
              NamedParents(log) \cup {e.payload[k] : k \in ParentKeys \cap DOMAIN e.payload}
         /\ \A i \in DOMAIN log : Uproots(Append(log, e), i) <=> Uproots(log, i)
         /\ OnlyLeavesMove(Append(log, e)) => OnlyLeavesMove(log)
<1> DEFINE new == Append(log, e)
<1>1. /\ DOMAIN new = 1 .. (Len(log) + 1)
      /\ \A i \in DOMAIN log : new[i] = log[i]
      /\ new[Len(log) + 1] = e
      /\ Len(log) \in Nat /\ DOMAIN log = 1 .. Len(log)
  BY AppendShape, LogShape
<1>2. DOMAIN new = DOMAIN log \cup {Len(log) + 1}
  BY <1>1
<1>3. \A i \in DOMAIN log : log[i].type \in {"CORRECT_EVENT", "RESCIND_EVENT"} =>
        log[i].target \in DOMAIN log
  BY DEF LogFine, BaseShape, FixShape, BaseTypes
<1> HIDE DEF new
<1>4. NamedParents(new) =
        NamedParents(log) \cup {e.payload[k] : k \in ParentKeys \cap DOMAIN e.payload}
  BY <1>1, <1>2 DEF NamedParents
<1>5. ASSUME NEW i \in DOMAIN log
      PROVE  Uproots(new, i) <=> Uproots(log, i)
  <2>1. new[i] = log[i]
    BY <1>1
  <2>2. log[i].type \in {"CORRECT_EVENT", "RESCIND_EVENT"} => new[log[i].target] = log[log[i].target]
    BY <1>1, <1>3
  <2> QED
    BY <2>1, <2>2 DEF Uproots
<1>6. OnlyLeavesMove(new) => OnlyLeavesMove(log)
  BY <1>1, <1>2, <1>4, <1>5 DEF OnlyLeavesMove
<1> QED
  BY <1>4, <1>5, <1>6 DEF new

LEMMA UprootedGrows ==
  ASSUME NEW log, LogOK(log), LogFine(log), NEW e, NEW n
  PROVE  /\ Uprooted(log, n) => Uprooted(Append(log, e), n)
         /\ Origins(log, n) \subseteq Origins(Append(log, e), n)
<1> DEFINE new == Append(log, e)
<1>1. /\ DOMAIN log \subseteq DOMAIN new
      /\ \A i \in DOMAIN log : new[i] = log[i]
  BY AppendShape, LogShape
<1>2. \A i \in DOMAIN log : Uproots(new, i) <=> Uproots(log, i)
  BY NamedGrow
<1> HIDE DEF new
<1>3. Uprooted(log, n) => Uprooted(new, n)
  BY <1>1, <1>2 DEF Uprooted
<1>4. Origins(log, n) \subseteq Origins(new, n)
  BY <1>1 DEF Origins
<1> QED
  BY <1>3, <1>4 DEF new

LEMMA ChainGrows ==
  ASSUME NEW log, LogOK(log), LogFine(log), NEW e, NEW path, Chained(log, path)
  PROVE  Chained(Append(log, e), path)
  BY NamedGrow, UprootedGrows DEF Chained

(* Below a chained path, a unit that comes from its end is chained.        *)
LEMMA ChainAppend ==
  ASSUME NEW log, NEW path \in Seq(Nodes), path # <<>>, Chained(log, path),
         path[Len(path)] \in NamedParents(log), NEW n \in Nodes,
         Uprooted(log, n) \/ path[Len(path)] \in Origins(log, n)
  PROVE  Chained(log, Append(path, n))
<1> DEFINE new == Append(path, n)
<1>1. /\ Len(path) \in Nat /\ Len(path) > 0 /\ Len(new) = Len(path) + 1
      /\ \A k \in 1 .. Len(path) : new[k] = path[k]
      /\ new[Len(path) + 1] = n
  OBVIOUS
<1> HIDE DEF new
<1>2. ASSUME NEW k \in 1 .. Len(new)
      PROVE  Uprooted(log, new[k]) \/ Above(new, k) \in Origins(log, new[k])
  <2>1. CASE k = Len(path) + 1
    <3>1. Above(new, k) = path[Len(path)]
      BY <2>1, <1>1 DEF Above
    <3> QED
      BY <2>1, <3>1, <1>1
  <2>2. CASE k # Len(path) + 1
    <3>1. k \in 1 .. Len(path)
      BY <2>2, <1>1
    <3>2. Above(new, k) = Above(path, k)
      BY <3>1, <1>1 DEF Above
    <3> QED
      BY <3>1, <3>2, <1>1 DEF Chained
  <2> QED
    BY <2>1, <2>2
<1>3. ASSUME NEW k \in 1 .. (Len(new) - 1)
      PROVE  new[k] \in NamedParents(log)
  BY <1>1 DEF Chained
<1> QED
  BY <1>2, <1>3 DEF Chained, new

(***************************************************************************)
(* Two paths that meet in a unit that is named as a parent are one up to   *)
(* there.                                                                  *)
(***************************************************************************)
LEMMA OriginsSingle ==
  ASSUME NEW log, OneCreate(log), NEW n, NEW a \in Origins(log, n), NEW b \in Origins(log, n)
  PROVE  a = b
  BY DEF OneCreate, Origins

Meet(p, q, k, l) == k \in 1 .. Len(p) /\ l \in 1 .. Len(q) /\ p[k] = q[l]

MeetHigher(log, p, q, k, l) ==
  /\ k = 1 <=> l = 1
  /\ k # 1 => Meet(p, q, k - 1, l - 1) /\ p[k - 1] \in NamedParents(log)

LEMMA MeetAbove ==
  ASSUME NEW log, OneCreate(log), OnlyLeavesMove(log),
         NEW p \in Seq(Nodes), NEW q \in Seq(Nodes), Chained(log, p), Chained(log, q),
         NEW k, NEW l, Meet(p, q, k, l), p[k] \in NamedParents(log)
  PROVE  MeetHigher(log, p, q, k, l)
<1>1. /\ k \in 1 .. Len(p) /\ l \in 1 .. Len(q) /\ p[k] = q[l]
      /\ Len(p) \in Nat /\ Len(q) \in Nat
      /\ \A i \in 1 .. Len(p) : p[i] # NoNode
      /\ \A i \in 1 .. Len(q) : q[i] # NoNode
  <2>1. \A n \in Nodes : n # NoNode
    BY NodesAssumption DEF Nodes, NoNode
  <2>2. /\ \A i \in 1 .. Len(p) : p[i] \in Nodes
        /\ \A i \in 1 .. Len(q) : q[i] \in Nodes
    OBVIOUS
  <2> QED
    BY <2>1, <2>2 DEF Meet
<1>2. ~Uprooted(log, p[k])
  BY DEF Uprooted, OnlyLeavesMove
<1>3. Above(p, k) \in Origins(log, p[k]) /\ Above(q, l) \in Origins(log, p[k])
  BY <1>1, <1>2 DEF Chained
<1>4. Above(p, k) = Above(q, l)
  BY <1>3, OriginsSingle
<1>5. /\ k # 1 => k - 1 \in 1 .. (Len(p) - 1) /\ Above(p, k) = p[k - 1]
      /\ l # 1 => l - 1 \in 1 .. Len(q) /\ Above(q, l) = q[l - 1]
  BY <1>1 DEF Above
<1>6. /\ k # 1 => Above(p, k) # NoNode
      /\ l # 1 => Above(q, l) # NoNode
      /\ k = 1 => Above(p, k) = NoNode
      /\ l = 1 => Above(q, l) = NoNode
  BY <1>1, <1>5 DEF Above
<1>7. k # 1 => p[k - 1] \in NamedParents(log)
  BY <1>5 DEF Chained
<1> QED
  BY <1>1, <1>4, <1>5, <1>6, <1>7 DEF Meet, MeetHigher

LEMMA Alike ==
  ASSUME NEW log, OneCreate(log), OnlyLeavesMove(log),
         NEW p \in Seq(Nodes), NEW q \in Seq(Nodes), Chained(log, p), Chained(log, q),
         NEW k, NEW l, Meet(p, q, k, l), p[k] \in NamedParents(log)
  PROVE  k = l /\ \A i \in 1 .. k : p[i] = q[i]
<1> DEFINE Joins(j) == Meet(p, q, k - j, l - j) /\ p[k - j] \in NamedParents(log)
           Bad == {j \in 0 .. (k - 1) : ~Joins(j)}
<1>1. /\ k \in 1 .. Len(p) /\ l \in 1 .. Len(q) /\ k \in Nat /\ l \in Nat
      /\ Len(p) \in Nat /\ Len(q) \in Nat
  BY DEF Meet
<1>2. Joins(0)
  BY <1>1
<1>3. ASSUME NEW j \in 0 .. (k - 2), Joins(j)
      PROVE  Joins(j + 1)
  <2>1. k - j # 1 /\ k - (j + 1) = (k - j) - 1 /\ l - (j + 1) = (l - j) - 1
    BY <1>1
  <2>2. MeetHigher(log, p, q, k - j, l - j)
    BY <1>3, MeetAbove
  <2> QED
    BY <2>1, <2>2 DEF MeetHigher
<1> HIDE DEF Joins
<1>4. Bad = {}
  <2>1. SUFFICES ASSUME Bad # {} PROVE FALSE
    OBVIOUS
  <2>2. Bad \subseteq Nat
    OBVIOUS
  <2>3. PICK j \in Bad : \A i \in Bad : j <= i
    BY <2>1, <2>2, LeastNat
  <2>4. j # 0 /\ j \in 1 .. (k - 1)
    BY <1>1, <1>2, <2>3
  <2>5. j - 1 \in 0 .. (k - 2) /\ j - 1 \notin Bad /\ (j - 1) + 1 = j
    BY <1>1, <2>3, <2>4
  <2>6. Joins(j - 1)
    BY <2>5, <1>1
  <2> QED
    BY <2>3, <2>5, <2>6, <1>3
<1>5. \A j \in 0 .. (k - 1) : Joins(j)
  BY <1>4
<1>6. k = l
  <2> DEFINE m == k - (k - 1)
             o == l - (k - 1)
  <2>1. Joins(k - 1) /\ m = 1
    BY <1>1, <1>5
  <2>2. Meet(p, q, m, o) /\ p[m] \in NamedParents(log)
    BY <2>1 DEF Joins
  <2> HIDE DEF m, o
  <2>3. MeetHigher(log, p, q, m, o)
    BY <2>2, MeetAbove
  <2> QED
    BY <2>1, <2>3, <1>1 DEF o, MeetHigher
<1>7. ASSUME NEW i \in 1 .. k
      PROVE  p[i] = q[i]
  <2>1. k - i \in 0 .. (k - 1) /\ k - (k - i) = i /\ l - (k - i) = i
    BY <1>1, <1>6
  <2>2. Joins(k - i)
    BY <2>1, <1>5
  <2> QED
    BY <2>1, <2>2 DEF Joins, Meet
<1> QED
  BY <1>6, <1>7

(* The rows below a parent lie below its path. *)
LEMMA ChildBelow ==
  ASSUME NEW log, OneCreate(log), OnlyLeavesMove(log),
         NEW v, RowOK(v), PathOK(v), Chained(log, v.path),
         NEW w, RowOK(w), PathOK(w), Chained(log, w.path), w.parent = v.node
  PROVE  /\ Under(w.path, v.path) /\ w.node # v.node
         /\ v.node \in NamedParents(log)
<1> DEFINE p == w.path
           q == v.path
           k == Len(p)
           l == Len(q)
<1>1. /\ p \in Seq(Nodes) /\ q \in Seq(Nodes) /\ k \in Nat /\ l \in Nat
      /\ v.node \in Nodes /\ v.node # NoNode
  BY NodesAssumption DEF RowOK, Nodes, NoNode
<1>2. l >= 1 /\ q[l] = v.node
  BY <1>1 DEF PathOK, Last
<1>3. k > 1 /\ p[k] = w.node /\ p[k - 1] = v.node
  BY <1>1 DEF PathOK, Last
<1>4. Chained(log, p) /\ Chained(log, q)
  OBVIOUS
<1> HIDE DEF p, q
<1>5. v.node \in NamedParents(log)
  BY <1>1, <1>3, <1>4 DEF Chained
<1>6. k - 1 = l /\ \A i \in 1 .. (k - 1) : p[i] = q[i]
  <2>1. Meet(p, q, k - 1, l) /\ p[k - 1] \in NamedParents(log)
    BY <1>1, <1>2, <1>3, <1>5 DEF Meet
  <2> QED
    BY <2>1, <1>1, <1>4, Alike
<1>7. ASSUME w.node = v.node PROVE FALSE
  <2>1. Meet(p, q, k, l) /\ p[k] \in NamedParents(log)
    BY <1>1, <1>2, <1>3, <1>5, <1>7 DEF Meet
  <2>2. k = l
    BY <2>1, <1>1, <1>4, Alike
  <2> QED
    BY <2>2, <1>1, <1>6
<1>8. Len(q) <= Len(p) /\ Heads(q, p, Len(q))
  BY <1>1, <1>6 DEF Heads
<1>9. Under(p, q)
  BY <1>1, <1>8, UnderHeads
<1> QED
  BY <1>5, <1>7, <1>9 DEF p, q

(***************************************************************************)
(* What a rebuild replays fits the log: a CREATE comes from the parent that*)
(* it names unless the unit is uprooted, and only uprooted units move.     *)
(***************************************************************************)
ParentsNamed(payload, log) ==
  \A k \in ParentKeys \cap DOMAIN payload : payload[k] \in NamedParents(log)

LEMMA PayloadNames ==
  ASSUME NEW log, NEW i \in DOMAIN log
  PROVE  ParentsNamed(log[i].payload, log)
  BY DEF ParentsNamed, NamedParents

LEMMA MergeNames ==
  ASSUME NEW log, NEW p, NEW q, ParentsNamed(p, log), ParentsNamed(q, log)
  PROVE  /\ ParentsNamed(Merge(p, q), log)
         /\ Carries(q, "parent_org_node_key") =>
              NamedParent(Merge(p, q)) = q["parent_org_node_key"]
         /\ ~Carries(q, "parent_org_node_key") => NamedParent(Merge(p, q)) = NamedParent(p)
         /\ CarriesParent(Merge(p, q)) => CarriesParent(p) \/ CarriesParent(q)
<1> DEFINE u == Without(q, "effective_date")
           m == Overlay(p, u)
<1>1. /\ DOMAIN u = DOMAIN q \ {"effective_date"}
      /\ \A k \in DOMAIN u : u[k] = q[k]
  BY DEF Without
<1>2. /\ DOMAIN m = DOMAIN p \cup DOMAIN u
      /\ \A k \in DOMAIN m : m[k] = IF k \in DOMAIN u THEN u[k] ELSE p[k]
  BY DEF Overlay
<1>3. m = Merge(p, q)
  BY DEF Merge
<1> HIDE DEF u, m
<1>4. ParentKeys = {"parent_org_node_key", "new_parent_org_node_key"}
  BY DEF ParentKeys
<1>5. \A k \in ParentKeys : k \in DOMAIN u <=> k \in DOMAIN q
  BY <1>1, <1>4
<1>6. ParentsNamed(m, log)
  BY <1>1, <1>2, <1>5 DEF ParentsNamed
<1>7. /\ Carries(q, "parent_org_node_key") => NamedParent(m) = q["parent_org_node_key"]
      /\ ~Carries(q, "parent_org_node_key") => NamedParent(m) = NamedParent(p)
  BY <1>1, <1>2, <1>4, <1>5 DEF NamedParent, Field, Carries
<1>8. CarriesParent(m) => CarriesParent(p) \/ CarriesParent(q)
  BY <1>1, <1>2 DEF CarriesParent, Carries
<1> QED
  BY <1>3, <1>6, <1>7, <1>8

LEMMA ReplayFits ==
  ASSUME NEW log, LogOK(log), LogFine(log), ParentsSaid(log),
         NEW n, NEW x \in ReplayEvents(log, n)
  PROVE  /\ x.type = "CREATE" => Uprooted(log, n) \/ NamedParent(x.payload) \in Origins(log, n)
         /\ Moves(x) => Uprooted(log, n)
         /\ ParentsNamed(x.payload, log)
<1>1. PICK i \in EffectiveIds(log, n) :
        x.id = i /\ x.type = ReplayType(log, i) /\ x.payload = EffectivePayload(log, i)
  BY DEF ReplayEvents
<1>2. i \in DOMAIN log /\ log[i].node = n /\ log[i].type \in BaseTypes
  BY DEF EffectiveIds
<1>3. x.type = "CREATE" <=> log[i].type = "CREATE"
  BY <1>1, ReplayPlain
<1>4. ParentsNamed(log[i].payload, log)
  BY <1>2, PayloadNames
<1>5. Moves(log[i]) => Uprooted(log, n)
  BY <1>2 DEF Uprooted, Uproots
<1>6. log[i].type = "CREATE" => NamedParent(log[i].payload) \in Origins(log, n)
  BY <1>2 DEF Origins
<1>7. CASE ~CorrectedBy(log, i, "CORRECT_EVENT")
  <2>1. x.payload = log[i].payload /\ x.type = EffectiveType(log, i)
    BY <1>1, <1>7 DEF EffectivePayload, ReplayType
  <2>2. Moves(x) => Moves(log[i])
    BY <2>1 DEF Moves, EffectiveType
  <2> QED
    BY <2>1, <2>2, <1>3, <1>4, <1>5, <1>6
<1>8. CASE CorrectedBy(log, i, "CORRECT_EVENT")
  <2> DEFINE j == Latest(log, CorrectionsOf(log, i))
             c == log[j]
  <2>1. CorrectionsOf(log, i) # {} /\ c.type = "CORRECT_EVENT"
    BY <1>8 DEF CorrectedBy
  <2>2. j \in CorrectionsOf(log, i)
    BY <2>1, LatestExists DEF CorrectionsOf
  <2>3. x.payload = Merge(log[i].payload, c.payload)
    BY <1>1, <1>8 DEF EffectivePayload, Correction
  <2> HIDE DEF j
  <2>4. j \in DOMAIN log /\ c.target = i
    BY <2>2 DEF CorrectionsOf
  <2>5. c.node = n /\ PayloadOK(c.payload)
    <3>1. FixShape(c, log)
      BY <2>1, <2>4 DEF LogFine, BaseShape, BaseTypes
    <3> QED
      BY <3>1, <2>4, <1>2 DEF FixShape, LogOK, EventOK
  <2>6. ParentsNamed(c.payload, log)
    BY <2>4, PayloadNames
  <2>7. CarriesParent(c.payload) /\ NewParent(c.payload) # NamedParent(log[i].payload)
        => Uprooted(log, n)
    BY <2>1, <2>4, <2>5 DEF Uprooted, Uproots, NamedParent
  <2> HIDE DEF c
  <2>8. ParentsNamed(x.payload, log)
    BY <2>3, <2>6, <1>4, MergeNames
  <2>9. ASSUME x.type = "CREATE", ~Uprooted(log, n)
        PROVE  NamedParent(x.payload) \in Origins(log, n)
    <3>1. CASE Carries(c.payload, "parent_org_node_key")
      <4>1. NamedParent(x.payload) = c.payload["parent_org_node_key"]
        BY <3>1, <2>3, <2>6, <1>4, MergeNames
      <4>2. CarriesParent(c.payload) /\ NewParent(c.payload) = c.payload["parent_org_node_key"]
        BY <3>1 DEF CarriesParent, NewParent
      <4> QED
        BY <4>1, <4>2, <2>7, <2>9, <1>3, <1>6
    <3>2. CASE ~Carries(c.payload, "parent_org_node_key")
      <4>1. NamedParent(x.payload) = NamedParent(log[i].payload)
        BY <3>2, <2>3, <2>6, <1>4, MergeNames
      <4> QED
        BY <4>1, <2>9, <1>3, <1>6
    <3> QED
      BY <3>1, <3>2
  <2>10. ASSUME Moves(x), ~Uprooted(log, n)
         PROVE  FALSE
    <3>1. ~Moves(log[i])
      BY <2>10, <1>5
    <3>2. EffectiveType(log, i) = log[i].type
      BY <1>8 DEF EffectiveType, CorrectedBy
    <3>3. x.type = "UPDATE" /\ CarriesParent(x.payload) /\ log[i].type # "CREATE"
      BY <3>1, <3>2, <2>10, <1>1, <1>3 DEF Moves, ReplayType
    <3>4. ~CarriesParent(log[i].payload)
      BY <3>1, <3>3, <1>2 DEF Moves, ParentsSaid
    <3>5. CarriesParent(c.payload)
      BY <3>3, <3>4, <2>3, <2>6, <1>4, MergeNames
    <3>6. NewParent(c.payload) # NoNode /\ NamedParent(log[i].payload) = NoNode
      BY <3>4, <3>5, <2>5, NewParentOK, NodesAssumption
         DEF CarriesParent, NamedParent, Field, Nodes, NoNode
    <3> QED
      BY <3>5, <3>6, <2>7, <2>10
  <2> QED
    BY <2>8, <2>9, <2>10
<1> QED
  BY <1>7, <1>8

(***************************************************************************)
(* Where an event leaves the rows of a projection.                         *)
(***************************************************************************)
Kept(w, V) == \E v \in V : w.node = v.node /\ w.path = v.path /\ v.from <= w.from

(* Below the parent q that the event names, from the day of the event on.  *)
Settled(w, V, n, p, d) ==
  /\ p # n /\ w.node = n /\ d <= w.from
  /\ \E q \in V : q.node = p /\ Covers(q, d) /\ w.path = Append(q.path, n)

(* No unit lies below a row of n. *)
NoneBelow(V, n) == \A v \in V : \A k \in 1 .. (Len(v.path) - 1) : v.path[k] # n

LEMMA KeptItself ==
  ASSUME NEW V, RowsOK(V), NEW w \in V
  PROVE  Kept(w, V)
<1>1. w.from \in Int
  BY DatesAreInts DEF RowsOK, RowOK
<1>2. w.from <= w.from
  BY <1>1
<1> QED
  BY <1>2 DEF Kept

LEMMA PlacesKept ==
  ASSUME NEW U, NEW V, NEW W, RowsOK(U), RowsOK(V), RowsOK(W),
         NEW n, NEW p, NEW d \in Dates,
         \A v \in V : Kept(v, U) \/ Settled(v, U, n, p, d),
         NEW w \in W, Kept(w, V)
  PROVE  Kept(w, U) \/ Settled(w, U, n, p, d)
<1>1. PICK v \in V : w.node = v.node /\ w.path = v.path /\ v.from <= w.from
  BY DEF Kept
<1>2. w.from \in Int /\ v.from \in Int /\ d \in Int /\ \A u \in U : u.from \in Int
  BY DatesAreInts DEF RowsOK, RowOK
<1>3. CASE Kept(v, U)
  BY <1>1, <1>2, <1>3 DEF Kept
<1>4. CASE Settled(v, U, n, p, d)
  BY <1>1, <1>2, <1>4 DEF Settled
<1> QED
  BY <1>3, <1>4

LEMMA RewritesPlaces ==
  ASSUME NEW V, RowsOK(V), NEW W, RowsOK(W), NEW n, NEW d, Rewrites(V, W, n, d), NEW w \in W
  PROVE  Kept(w, V)
<1>1. PICK v \in V : Within(w, v, d) /\ w.path = v.path
  BY DEF Rewrites
<1> QED
  BY <1>1 DEF Within, Kept

LEMMA MovePlaces ==
  ASSUME NEW db0, Good(db0), NEW r, TreeOK(db0, r), NEW n \in Nodes, NEW p \in Nodes,
         NEW d \in Dates, NoneBelow(db0.versions, n),
         NEW after \in ApplyMove(db0, n, p, d), NEW w \in after.versions
  PROVE  Kept(w, db0.versions) \/ Settled(w, db0.versions, n, p, d)
<1> DEFINE V == db0.versions
           a == RowAt(V, n, d)
           b == RowAt(V, p, d)
           old == a.path
           prefix == Append(b.path, n)
           T == RowsUnder(V, old)
           S == SplitAt(V, T, d)
<1>1. /\ ExistsAt(V, n, d) /\ ExistsAt(V, p, d) /\ ~Under(b.path, a.path)
      /\ after = [db0 EXCEPT !.versions = MoveRows(@, n, p, d)]
  BY DEF ApplyMove, MoveAllowed
<1>2. RowsOK(V) /\ WellFormed(V) /\ Tree(V, db0.root, r)
  BY GoodParts DEF TreeOK
<1>3. MoveRows(V, n, p, d) = {Moved(s, n, p, d, old, prefix) : s \in S}
  BY DEF MoveRows, Moved
<1>4. PICK s \in S : w = Moved(s, n, p, d, old, prefix)
  BY <1>1, <1>3, GoodParts
<1>5. /\ a \in V /\ a.node = n /\ Covers(a, d)
      /\ b \in V /\ b.node = p /\ Covers(b, d)
  BY <1>1, RowAtExists
<1>6. a.path \in Seq(Nodes) /\ a.path[Len(a.path)] = n /\ Len(a.path) > 0 /\ b.path \in Seq(Nodes)
  <2> HIDE DEF a, b, V
  <2>1. RowOK(a) /\ PathOK(a) /\ RowOK(b)
    BY <1>2, <1>5 DEF RowsOK, Tree
  <2> QED
    BY <1>5, <2>1 DEF RowOK, PathOK, Last
<1>7. T \in SUBSET V
  BY DEF RowsUnder
<1>8. p # n
  BY <1>1, <1>6, UnderItself
<1> HIDE DEF V, a, b, T
<1>9. RowsOK(S)
  BY <1>2, <1>7, SplitRowsOK
<1>10. PICK v \in V : Within(s, v, d) /\ s.path = v.path
  BY <1>2, <1>7, SplitPaths
<1>11. /\ prefix \in Seq(Nodes) /\ old \in Seq(Nodes)
  BY <1>6, AppendProperties
<1> HIDE DEF S
<1>12. RowOK(s) /\ RowOK(v) /\ PathOK(v) /\ s.from \in Int
  BY <1>2, <1>9, <1>10, DatesAreInts DEF RowsOK, RowOK, Tree
<1>13. old = a.path /\ prefix = Append(b.path, n)
  OBVIOUS
<1> HIDE DEF old, prefix
<1>14. MovesTo(w, s, n, d, old, prefix)
  BY <1>4, <1>11, <1>12, MovedShape
<1>15. CASE ~(Under(s.path, old) /\ d <= s.from)
  <2>1. w = s
    BY <1>14, <1>15 DEF MovesTo
  <2>2. Kept(w, V)
    BY <2>1, <1>10 DEF Within, Kept
  <2> QED
    BY <2>2 DEF V
<1>16. CASE Under(s.path, old) /\ d <= s.from
  <2>1. s.path \in Seq(Nodes) /\ Len(s.path) \in Nat /\ Len(old) \in Nat
    BY <1>11, <1>12 DEF RowOK
  <2>2. Len(old) <= Len(s.path) /\ s.path[Len(old)] = old[Len(old)] /\ Len(old) > 0
    BY <2>1, <1>6, <1>11, <1>13, <1>16, UnderHeads DEF Heads
  <2>3. Len(old) = Len(s.path)
    <3>1. Len(old) \notin 1 .. (Len(s.path) - 1)
      BY <2>2, <1>6, <1>10, <1>13 DEF NoneBelow, V
    <3> QED
      BY <3>1, <2>1, <2>2
  <2>4. s.node = n
    BY <2>2, <2>3, <1>6, <1>10, <1>12, <1>13 DEF PathOK, Last, Within
  <2>5. w.node = n /\ w.from = s.from /\ w.path = prefix
    BY <2>4, <1>14, <1>16 DEF MovesTo, SameSpan
  <2>6. Settled(w, V, n, p, d)
    BY <2>5, <1>5, <1>8, <1>13, <1>16 DEF Settled
  <2> QED
    BY <2>6 DEF V
<1> QED
  BY <1>15, <1>16

LEMMA FullNamesPlaces ==
  ASSUME NEW b, Good(b), NEW n, NEW d \in Dates, NEW w \in RebuildFullNames(b, n, d).versions
  PROVE  Kept(w, b.versions)
<1>1. RowsOK(b.versions)
  BY GoodParts
<1>2. PICK v \in b.versions : SameButFull(w, v)
  BY FullNamesRefresh
<1>3. Kept(v, b.versions)
  BY <1>1, KeptItself
<1> QED
  BY <1>2, <1>3 DEF Kept, SameButFull, SameSpan

(* The parent that an event gives its unit, NoNode when it makes a root.   *)
GivesPlace(x) == x.type = "CREATE" \/ Moves(x)
Place(x) == IF x.type = "CREATE" THEN NamedParent(x.payload) ELSE NewParent(x.payload)
Rooted(w, x) ==
  x.type = "CREATE" /\ Place(x) = NoNode /\ w.node = x.node /\ w.path = <<x.node>>

LEMMA LogicPlaces ==
  ASSUME NEW log, NEW db0, NEW r, TreeOK(db0, r), NEW x, Replays(log, db0, x),
         x.type # "CREATE", Moves(x) => NoneBelow(db0.versions, x.node),
         NEW after \in ApplyLogic(log, db0, x.node, x.type, x.date, x.payload),
         NEW w \in after.versions
  PROVE  \/ Kept(w, db0.versions)
         \/ Moves(x) /\ Settled(w, db0.versions, x.node, Place(x), x.date)
<1> DEFINE V == db0.versions
           n == x.node
           d == x.date
<1>1. /\ Good(db0) /\ n \in Nodes /\ d \in Dates /\ x.type \in BaseTypes
      /\ PayloadOK(x.payload) /\ Complete(x.type, x.payload) /\ Plain(x.type, x.payload)
  BY DEF Replays
<1>2. Good(after) /\ RowsOK(V) /\ RowsOK(after.versions)
  BY <1>1, ApplyLogicGood, GoodParts
<1>3. ASSUME Rewrites(V, after.versions, n, d)
      PROVE  Kept(w, V)
  BY <1>2, <1>3, RewritesPlaces
<1>4. CASE x.type = "UPDATE"
  <2>1. PICK b \in IF CarriesParent(x.payload) THEN ApplyMove(db0, n, NewParent(x.payload), d)
                                               ELSE {db0} :
          Good(b) /\ Rewrites(b.versions, after.versions, n, d)
    BY <1>1, <1>4, UpdateRewrites DEF ApplyLogic
  <2>2. CASE ~CarriesParent(x.payload)
    BY <1>3, <2>1, <2>2
  <2>3. CASE CarriesParent(x.payload)
    <3> DEFINE p == NewParent(x.payload)
    <3>1. p \in Nodes /\ Moves(x) /\ Place(x) = p
      BY <1>1, <1>4, <2>3, NewParentOK DEF Moves, Place
    <3>2. b \in ApplyMove(db0, n, p, d) /\ RowsOK(b.versions)
      BY <2>1, <2>3, GoodParts
    <3>3. \A v \in b.versions : Kept(v, V) \/ Settled(v, V, n, p, d)
      BY <1>1, <3>1, <3>2, MovePlaces
    <3>4. Kept(w, b.versions)
      BY <1>2, <2>1, <3>2, RewritesPlaces
    <3> HIDE DEF p
    <3>5. Kept(w, V) \/ Settled(w, V, n, p, d)
      BY <1>1, <1>2, <3>2, <3>3, <3>4, PlacesKept
    <3> QED
      BY <3>1, <3>5
  <2> QED
    BY <2>2, <2>3
<1>5. CASE x.type = "MOVE"
  <2>1. /\ Place(x) = x.payload["new_parent_org_node_key"] /\ Moves(x)
        /\ x.payload["new_parent_org_node_key"] \in Nodes
    BY <1>1, <1>5 DEF Complete, PayloadOK, Plain, Place, NewParent, Moves
  <2>2. after \in ApplyMove(db0, n, Place(x), d)
    BY <1>5, <2>1 DEF ApplyLogic
  <2> QED
    BY <1>1, <2>1, <2>2, MovePlaces
<1>6. CASE x.type = "RENAME"
  BY <1>1, <1>3, <1>6, RenameRewrites DEF ApplyLogic
<1>7. CASE x.type \in {"ENABLE", "DISABLE"}
  BY <1>1, <1>3, <1>7, StatusRewrites DEF ApplyLogic
<1>8. CASE x.type = "SET_BUSINESS_UNIT"
  BY <1>1, <1>3, <1>8, BusinessUnitRewrites DEF ApplyLogic
<1> QED
  BY <1>1, <1>4, <1>5, <1>6, <1>7, <1>8 DEF BaseTypes

LEMMA CreatePlaces ==
  ASSUME NEW log, NEW db0, NEW x, Replays(log, db0, x), x.type = "CREATE",
         NEW after \in ApplyCreate(db0, x.node, x.date, x.payload), NEW w \in after.versions
  PROVE  \/ Kept(w, db0.versions)
         \/ Settled(w, db0.versions, x.node, Place(x), x.date)
         \/ Rooted(w, x)
<1> DEFINE V == db0.versions
           n == x.node
           p == NamedParent(x.payload)
<1>1. /\ Good(db0) /\ x.date \in Dates /\ RowsOK(V) /\ Place(x) = p
  BY GoodParts DEF Replays, Place
<1>2. p = Field(x.payload, "parent_org_node_key", NoNode) /\ RowsOf(V, n) = {}
  BY DEF ApplyCreate, NamedParent
<1>3. ASSUME w \in V PROVE Kept(w, V)
  BY <1>1, <1>3, KeptItself
<1>4. CASE p = NoNode
  <2>1. after \in CreateRoot(db0, n, x.date, x.payload)
    BY <1>2, <1>4 DEF ApplyCreate
  <2> DEFINE row == NewRow(n, NoNode, <<n>>, x.date, x.payload, TRUE)
             codes == CreateCodes(db0.codes, n, x.payload)
  <2>2. after = [versions |-> V \cup {row}, root |-> n, codes |-> codes]
    BY <2>1 DEF CreateRoot
  <2>3. w \in V \/ (w.node = n /\ w.path = <<n>>)
    <3>1. row.node = n /\ row.path = <<n>>
      BY DEF NewRow
    <3> HIDE DEF row, codes
    <3>2. after.versions = V \cup {row}
      BY <2>2
    <3> QED
      BY <3>1, <3>2
  <2>4. CASE w \in V
    BY <1>3, <2>4
  <2>5. CASE w.node = n /\ w.path = <<n>>
    <3>1. Place(x) = NoNode
      BY <1>1, <1>4
    <3> QED
      BY <2>5, <3>1 DEF Rooted
  <2> QED
    BY <2>3, <2>4, <2>5
<1>5. CASE p # NoNode
  <2>1. after \in CreateChild(db0, n, p, x.date, x.payload)
    BY <1>2, <1>5 DEF ApplyCreate
  <2>2. PICK q \in ActiveParents(V, p, x.date) :
          after = [db0 EXCEPT
            !.versions = @ \cup {NewRow(n, p, Append(q.path, n), x.date, x.payload,
                                        Field(x.payload, "is_business_unit", FALSE))},
            !.codes = CreateCodes(@, n, x.payload)]
    BY <2>1 DEF CreateChild
  <2> DEFINE row == NewRow(n, p, Append(q.path, n), x.date, x.payload,
                           Field(x.payload, "is_business_unit", FALSE))
  <2>3. row.node = n /\ row.path = Append(q.path, n) /\ row.from = x.date
    BY DEF NewRow
  <2>4. q \in V /\ q.node = p /\ Covers(q, x.date) /\ p # n
    <3> HIDE DEF V, n, p
    <3>1. q \in V /\ q.node = p /\ Covers(q, x.date)
      BY <2>2 DEF ActiveParents
    <3>2. q \notin RowsOf(V, n)
      BY <1>2
    <3> QED
      BY <3>1, <3>2 DEF RowsOf
  <2>5. w \in V \/ (w.node = n /\ w.path = Append(q.path, n) /\ w.from = x.date)
    <3> HIDE DEF row
    <3>1. after.versions = V \cup {row}
      BY <1>1, <2>2, GoodParts DEF row
    <3> QED
      BY <2>3, <3>1
  <2>6. x.date <= x.date
    <3>1. x.date \in Int
      BY <1>1, DatesAreInts
    <3> QED
      BY <3>1
  <2>7. CASE w \in V
    BY <1>3, <2>7
  <2>8. CASE w.node = n /\ w.path = Append(q.path, n) /\ w.from = x.date
    <3>1. Settled(w, V, n, p, x.date)
      <4> HIDE DEF V, n, p
      <4> QED
        BY <2>4, <2>6, <2>8 DEF Settled
    <3> QED
      BY <1>1, <3>1
  <2> QED
    BY <2>5, <2>7, <2>8
<1> QED
  BY <1>4, <1>5

Places(V, W, x) ==
  \A w \in W : \/ Kept(w, V)
               \/ GivesPlace(x) /\ Settled(w, V, x.node, Place(x), x.date)
               \/ Rooted(w, x)

LEMMA KeptPlaces ==
  ASSUME NEW U, NEW V, NEW W, RowsOK(U), RowsOK(V), RowsOK(W), NEW x, x.date \in Dates,
         Places(U, V, x), \A w \in W : Kept(w, V)
  PROVE  Places(U, W, x)
<1> SUFFICES ASSUME NEW w \in W
             PROVE  \/ Kept(w, U)
                    \/ GivesPlace(x) /\ Settled(w, U, x.node, Place(x), x.date)
                    \/ Rooted(w, x)
  BY DEF Places
<1>1. PICK v \in V : w.node = v.node /\ w.path = v.path /\ v.from <= w.from
  BY DEF Kept
<1>2. w.from \in Int /\ v.from \in Int /\ x.date \in Int /\ \A u \in U : u.from \in Int
  BY DatesAreInts DEF RowsOK, RowOK
<1>3. CASE Kept(v, U)
  BY <1>1, <1>2, <1>3 DEF Kept
<1>4. CASE GivesPlace(x) /\ Settled(v, U, x.node, Place(x), x.date)
  BY <1>1, <1>2, <1>4 DEF Settled
<1>5. CASE Rooted(v, x)
  BY <1>1, <1>5 DEF Rooted
<1> QED
  BY <1>3, <1>4, <1>5 DEF Places

LEMMA ApplyPlaces ==
  ASSUME NEW log, NEW db0, NEW r, TreeOK(db0, r), NEW x, Replays(log, db0, x),
         Moves(x) => NoneBelow(db0.versions, x.node),
         NEW after \in Apply(log, db0, x.node, x.type, x.date, x.payload)
  PROVE  Places(db0.versions, after.versions, x)
<1> DEFINE L == ApplyLogic(log, db0, x.node, x.type, x.date, x.payload)
<1>1. /\ Good(db0) /\ RowsOK(db0.versions) /\ x.date \in Dates /\ x.node \in Nodes
      /\ x.type \in BaseTypes /\ PayloadOK(x.payload) /\ Complete(x.type, x.payload)
  BY GoodParts DEF Replays
<1>2. ASSUME NEW b \in L
      PROVE  Places(db0.versions, b.versions, x)
  <2>1. CASE x.type = "CREATE"
    <3>1. b \in ApplyCreate(db0, x.node, x.date, x.payload)
      BY <1>2, <2>1 DEF ApplyLogic
    <3> HIDE DEF L
    <3>2. \A w \in b.versions : \/ Kept(w, db0.versions)
                                \/ Settled(w, db0.versions, x.node, Place(x), x.date)
                                \/ Rooted(w, x)
      BY <2>1, <3>1, CreatePlaces
    <3> QED
      BY <2>1, <3>2 DEF Places, GivesPlace
  <2>2. CASE x.type # "CREATE"
    <3>1. \A w \in b.versions :
            \/ Kept(w, db0.versions)
            \/ Moves(x) /\ Settled(w, db0.versions, x.node, Place(x), x.date)
      BY <1>2, <2>2, LogicPlaces
    <3> QED
      BY <3>1 DEF Places, GivesPlace
  <2> QED
    BY <2>1, <2>2
<1>3. CASE ~ChangesNames(x.type, x.payload)
  <2>1. after \in L
    BY <1>3 DEF Apply
  <2> QED
    BY <2>1, <1>2
<1>4. CASE ChangesNames(x.type, x.payload)
  <2>1. PICK b \in L : after = RebuildFullNames(b, x.node, x.date)
    BY <1>4 DEF Apply
  <2>2. Good(b)
    BY <1>1, ApplyLogicGood
  <2> HIDE DEF L
  <2>3. Good(after) /\ RowsOK(b.versions) /\ RowsOK(after.versions)
    BY <2>1, <2>2, RebuildFullNamesGood, GoodParts
  <2>4. \A w \in after.versions : Kept(w, b.versions)
    BY <1>1, <2>1, <2>2, FullNamesPlaces
  <2> QED
    BY <1>1, <1>2, <2>3, <2>4, KeptPlaces
<1> QED
  BY <1>3, <1>4

(***************************************************************************)
(* An event that fits the log leaves the rows chained and housed, and a    *)
(* unit without children that it is replayed for gets none.                *)
(***************************************************************************)
LEMMA ParentFromPath ==
  ASSUME NEW v, RowOK(v), PathOK(v)
  PROVE  /\ Len(v.path) \in Nat /\ Len(v.path) >= 1 /\ v.path[Len(v.path)] = v.node
         /\ v.parent = Above(v.path, Len(v.path))
<1>1. v.path \in Seq(Nodes) /\ Len(v.path) \in Nat
  BY DEF RowOK
<1>2. Len(v.path) >= 1 /\ v.path[Len(v.path)] = v.node
  BY <1>1 DEF PathOK, Last
<1>3. v.parent = Above(v.path, Len(v.path))
  BY <1>1, <1>2 DEF PathOK, Above
<1> QED
  BY <1>1, <1>2, <1>3

LEMMA SettledParent ==
  ASSUME NEW w, RowOK(w), PathOK(w), NEW V, RowsOK(V), NEW n, NEW p, NEW d,
         Settled(w, V, n, p, d), \A v \in V : PathOK(v)
  PROVE  /\ w.parent = p /\ p # n /\ p \in Nodes /\ d <= w.from /\ w.node = n
         /\ ExistsAt(V, p, d)
         /\ \E q \in V : /\ q.path \in Seq(Nodes) /\ q.path # <<>>
                         /\ q.path[Len(q.path)] = p /\ w.path = Append(q.path, n)
<1>1. PICK q \in V : q.node = p /\ Covers(q, d) /\ w.path = Append(q.path, n)
  BY DEF Settled
<1>2. p # n /\ w.node = n /\ d <= w.from
  BY DEF Settled
<1>3. RowOK(q) /\ PathOK(q)
  BY DEF RowsOK
<1>4. /\ Len(q.path) \in Nat /\ Len(q.path) >= 1 /\ q.path[Len(q.path)] = p
      /\ q.path \in Seq(Nodes) /\ p \in Nodes
  BY <1>1, <1>3, ParentFromPath DEF RowOK
<1>5. n \in Nodes
  BY <1>2 DEF RowOK
<1>6. Len(w.path) = Len(q.path) + 1 /\ w.path[Len(q.path)] = q.path[Len(q.path)]
  BY <1>1, <1>4, <1>5, AppendProperties
<1>7. w.parent = p
  <2>1. w.parent = Above(w.path, Len(w.path))
    BY ParentFromPath
  <2> QED
    BY <2>1, <1>4, <1>6 DEF Above
<1>8. q.path # <<>>
  BY <1>4
<1> QED
  BY <1>1, <1>2, <1>4, <1>7, <1>8 DEF ExistsAt

LEMMA PlaceFits ==
  ASSUME NEW log, LogOK(log), LogFine(log), ParentsSaid(log), NEW n \in Nodes,
         NEW x \in ReplayEvents(log, n), GivesPlace(x)
  PROVE  /\ Uprooted(log, n) \/ Place(x) \in Origins(log, n)
         /\ Place(x) # NoNode => Place(x) \in NamedParents(log)
<1>1. /\ x.type = "CREATE" => Uprooted(log, n) \/ NamedParent(x.payload) \in Origins(log, n)
      /\ Moves(x) => Uprooted(log, n)
      /\ ParentsNamed(x.payload, log)
  BY ReplayFits
<1>2. Complete(x.type, x.payload)
  BY ReplayEventsOK DEF ReplayOK
<1>3. {"parent_org_node_key", "new_parent_org_node_key"} \subseteq ParentKeys
  BY DEF ParentKeys
<1>4. CASE x.type = "CREATE"
  <2>1. Place(x) = NamedParent(x.payload)
    BY <1>4 DEF Place
  <2>2. NamedParent(x.payload) # NoNode => NamedParent(x.payload) \in NamedParents(log)
    BY <1>1, <1>3 DEF NamedParent, Field, Carries, ParentsNamed
  <2> QED
    BY <2>1, <2>2, <1>1, <1>4
<1>5. CASE x.type # "CREATE"
  <2>1. Moves(x) /\ Place(x) = NewParent(x.payload)
    BY <1>5 DEF GivesPlace, Place
  <2>2. CarriesParent(x.payload)
    BY <2>1, <1>2 DEF Moves, Complete, CarriesParent
  <2>3. NewParent(x.payload) \in NamedParents(log)
    BY <2>2, <1>1, <1>3 DEF NewParent, CarriesParent, Carries, ParentsNamed
  <2> QED
    BY <2>1, <2>3, <1>1
<1> QED
  BY <1>4, <1>5

Shown(log, V, n) == \A m \in Nodes \ {n} : ShowsSet({}, ReplayEvents(log, m), V, m)

LEMMA PlacesSited ==
  ASSUME NEW log, LogOK(log), LogFine(log), ParentsSaid(log), NEW n \in Nodes,
         NEW x \in ReplayEvents(log, n), NEW V, RowsOK(V), NEW W, RowsOK(W),
         Places(V, W, x), \A v \in V : PathOK(v) /\ Chained(log, v.path), Housed(log, V),
         \A w \in W : PathOK(w), Shown(log, V, n)
  PROVE  /\ \A w \in W : Chained(log, w.path)
         /\ Housed(log, W)
         /\ Childless(V, n) => Childless(W, n)
<1>1. x.node = n /\ x.date \in Dates /\ n # NoNode
  BY ReplayPlain, NodesAssumption DEF Dated, Nodes, NoNode
<1>2. ASSUME NEW w \in W
      PROVE  /\ Chained(log, w.path)
             /\ w.parent # NoNode => Born(log, w.parent, w.from)
             /\ Childless(V, n) => w.parent # n
  <2>1. RowOK(w) /\ PathOK(w) /\ w.parent = Above(w.path, Len(w.path)) /\ w.from \in Int
    BY ParentFromPath, DatesAreInts DEF RowsOK, RowOK
  <2>2. CASE Kept(w, V)
    <3>1. PICK v \in V : w.node = v.node /\ w.path = v.path /\ v.from <= w.from
      BY <2>2 DEF Kept
    <3>2. RowOK(v) /\ PathOK(v) /\ Chained(log, v.path) /\ v.from \in Int
      BY DatesAreInts DEF RowsOK, RowOK
    <3>3. v.parent = w.parent
      BY <3>1, <3>2, <2>1, ParentFromPath
    <3>4. ASSUME w.parent # NoNode PROVE Born(log, w.parent, w.from)
      <4>1. PICK y \in ReplayEvents(log, w.parent) : y.type = "CREATE" /\ y.date <= v.from
        BY <3>3, <3>4 DEF Housed, Born
      <4>2. w.parent \in Nodes
        BY <2>1, <3>4 DEF RowOK
      <4>3. y.date \in Int
        BY <4>1, <4>2, ReplayPlain, DatesAreInts DEF Dated
      <4> QED
        BY <4>1, <4>3, <3>1, <3>2, <2>1 DEF Born
    <3> QED
      BY <3>1, <3>2, <3>3, <3>4 DEF Childless
  <2>3. CASE GivesPlace(x) /\ Settled(w, V, x.node, Place(x), x.date)
    <3> DEFINE p == Place(x)
    <3>1. /\ w.parent = p /\ p # n /\ p \in Nodes /\ x.date <= w.from /\ w.node = n
          /\ ExistsAt(V, p, x.date)
          /\ \E q \in V : /\ q.path \in Seq(Nodes) /\ q.path # <<>>
                          /\ q.path[Len(q.path)] = p /\ w.path = Append(q.path, n)
      BY <1>1, <2>1, <2>3, SettledParent
    <3>2. /\ Uprooted(log, n) \/ p \in Origins(log, n)
          /\ p # NoNode => p \in NamedParents(log)
      BY <2>3, PlaceFits
    <3> HIDE DEF p
    <3>3. p \in NamedParents(log)
      BY <3>1, <3>2, NodesAssumption DEF Nodes, NoNode
    <3>4. Chained(log, w.path)
      BY <3>1, <3>2, <3>3, ChainAppend
    <3>5. PICK y \in ReplayEvents(log, p) : y.type = "CREATE" /\ y.date <= x.date
      BY <1>1, <3>1 DEF Shown, ShowsSet
    <3>6. y.date \in Int /\ x.date \in Int
      BY <1>1, <3>1, <3>5, ReplayPlain, DatesAreInts DEF Dated
    <3>7. Born(log, w.parent, w.from)
      BY <2>1, <3>1, <3>5, <3>6 DEF Born
    <3> QED
      BY <3>1, <3>4, <3>7
  <2>4. CASE Rooted(w, x)
    <3>1. x.type = "CREATE" /\ Place(x) = NoNode /\ w.path = <<n>>
      BY <1>1, <2>4 DEF Rooted
    <3>2. Uprooted(log, n) \/ NoNode \in Origins(log, n)
      BY <3>1, PlaceFits DEF GivesPlace
    <3>3. Len(w.path) = 1 /\ w.path[1] = n
      BY <3>1
    <3>4. w.parent = NoNode
      BY <2>1, <3>3 DEF Above
    <3>5. Chained(log, w.path)
      BY <3>2, <3>3 DEF Chained, Above
    <3> QED
      BY <1>1, <3>4, <3>5
  <2> QED
    BY <2>2, <2>3, <2>4 DEF Places
<1> QED
  BY <1>2 DEF Housed, Childless

LEMMA ApplySited ==
  ASSUME NEW log, LogOK(log), LogFine(log), ParentsSaid(log),
         NEW applied, NEW db0, NEW x, Replays(applied, db0, x),
         x \in ReplayEvents(log, x.node),
         NEW r, TreeOK(db0, r), Sited(log, db0.versions), Shown(log, db0.versions, x.node),
         NEW after \in Apply(applied, db0, x.node, x.type, x.date, x.payload),
         NEW s, TreeOK(after, s)
  PROVE  /\ Sited(log, after.versions)
         /\ OnlyLeavesMove(log) /\ Childless(db0.versions, x.node)
              => Childless(after.versions, x.node)
<1> SUFFICES ASSUME OnlyLeavesMove(log)
             PROVE  /\ \A w \in after.versions : Chained(log, w.path)
                    /\ Housed(log, after.versions)
                    /\ Childless(db0.versions, x.node) => Childless(after.versions, x.node)
  BY DEF Sited
<1>1. /\ RowsOK(db0.versions) /\ RowsOK(after.versions)
      /\ \A v \in db0.versions : PathOK(v) /\ Chained(log, v.path)
      /\ \A w \in after.versions : PathOK(w)
      /\ Housed(log, db0.versions)
  BY ReplaysGood DEF TreeOK, Tree, Sited
<1>2. x.node \in Nodes
  BY DEF Replays
<1>3. ASSUME Moves(x) PROVE NoneBelow(db0.versions, x.node)
  <2>1. Uprooted(log, x.node)
    BY <1>3, ReplayFits
  <2>2. x.node \notin NamedParents(log)
    BY <2>1 DEF Uprooted, OnlyLeavesMove
  <2> QED
    BY <2>2, <1>1 DEF Chained, NoneBelow
<1>4. Places(db0.versions, after.versions, x)
  BY <1>3, ApplyPlaces
<1> QED
  BY <1>1, <1>2, <1>4, PlacesSited

(***************************************************************************)
(* What the log says of units: they are numbered as they come, every one   *)
(* has one CREATE, and parents are named where they are read.              *)
(***************************************************************************)
UnitsOf(log) == {log[i].node : i \in DOMAIN log}
Numbered(log) == \E k \in Nat : UnitsOf(log) = 1 .. k
LogSite(log) == OneCreate(log) /\ ParentsSaid(log) /\ Numbered(log)

SaysNoParent(e) ==
  e.type \in BaseTypes \ {"CREATE", "UPDATE", "MOVE"} => ~CarriesParent(e.payload)

LEMMA BasePayloadsSayNoParent ==
  ASSUME NEW type \in BaseTypes \ {"CREATE", "UPDATE", "MOVE"}, NEW p \in BasePayloads(type)
  PROVE  ~CarriesParent(p)
<1>1. CASE type = "RENAME"
  BY <1>1, PayloadsOK DEF BasePayloads, CarriesParent, Carries
<1>2. CASE type = "SET_BUSINESS_UNIT"
  BY <1>2, PayloadsOK DEF BasePayloads, CarriesParent, Carries
<1>3. CASE type \in {"DISABLE", "ENABLE"}
  <2>1. p = <<>> /\ DOMAIN <<>> = {}
    BY <1>3 DEF BasePayloads, Empty
  <2> QED
    BY <2>1 DEF CarriesParent, Carries
<1> QED
  BY <1>1, <1>2, <1>3 DEF BaseTypes

LEMMA AppendSite ==
  ASSUME NEW log, LogOK(log), LogSite(log), NEW e, SaysNoParent(e),
         IF e.type = "CREATE" THEN \A k \in Nat : UnitsOf(log) = 1 .. k => e.node = k + 1
                              ELSE e.node \in UnitsOf(log)
  PROVE  LogSite(Append(log, e))
<1> DEFINE new == Append(log, e)
           l == Len(log) + 1
<1>1. /\ DOMAIN new = DOMAIN log \cup {l} /\ l \notin DOMAIN log
      /\ \A i \in DOMAIN log : new[i] = log[i]
      /\ new[l] = e
  BY AppendShape, LogShape
<1> HIDE DEF new, l
<1>2. PICK k \in Nat : UnitsOf(log) = 1 .. k
  BY DEF LogSite, Numbered
<1>3. UnitsOf(new) = UnitsOf(log) \cup {e.node}
  BY <1>1 DEF UnitsOf
<1>4. ASSUME e.type = "CREATE"
      PROVE  e.node = k + 1 /\ \A i \in DOMAIN log : log[i].node # e.node
  <2>1. e.node = k + 1 /\ e.node \notin UnitsOf(log)
    BY <1>2, <1>4
  <2> QED
    BY <2>1 DEF UnitsOf
<1>5. Numbered(new)
  <2>1. CASE e.type = "CREATE"
    <3>1. UnitsOf(new) = 1 .. (k + 1)
      BY <1>2, <1>3, <1>4, <2>1
    <3> QED
      BY <3>1 DEF Numbered
  <2>2. CASE e.type # "CREATE"
    BY <1>2, <1>3, <2>2 DEF Numbered
  <2> QED
    BY <2>1, <2>2
<1>6. OneCreate(new)
  BY <1>1, <1>4 DEF LogSite, OneCreate
<1>7. ParentsSaid(new)
  BY <1>1 DEF LogSite, ParentsSaid, SaysNoParent
<1> QED
  BY <1>5, <1>6, <1>7 DEF LogSite, new

LEMMA EmptySite == LogSite(<<>>)
<1>1. DOMAIN <<>> = {}
  OBVIOUS
<1>2. UnitsOf(<<>>) = 1 .. 0
  BY <1>1 DEF UnitsOf
<1> QED
  BY <1>1, <1>2 DEF LogSite, OneCreate, ParentsSaid, Numbered

LEMMA FixSite ==
  ASSUME NEW log, LogOK(log), LogSite(log), NEW e, FixShape(e, log)
  PROVE  LogSite(Append(log, e))
<1>1. e.node \in UnitsOf(log) /\ e.type \notin BaseTypes /\ e.type # "CREATE"
  BY DEF FixShape, UnitsOf, CorrectionTypes, RescindTypes, BaseTypes
<1> QED
  BY <1>1, AppendSite DEF SaysNoParent

LEMMA FreshKeyIsNext ==
  ASSUME LogOK(events)
  PROVE  /\ Known = UnitsOf(events)
         /\ \A k \in Nat : UnitsOf(events) = 1 .. k => FreshKey = k + 1
<1>1. \A i \in DOMAIN events : events[i].node \in Nodes
  BY DEF LogOK, EventOK
<1>2. Known = UnitsOf(events)
  BY <1>1 DEF Known, Created, UnitsOf
<1>3. ASSUME NEW k \in Nat, UnitsOf(events) = 1 .. k
      PROVE  FreshKey = k + 1
  <2>1. Cardinality(1 .. k) = k
    BY FS_Interval
  <2> QED
    BY <2>1, <1>2, <1>3 DEF FreshKey
<1> QED
  BY <1>2, <1>3

LEMMA BaseSite ==
  ASSUME KernelInv, LogSite(events), SubmitBase
  PROVE  LogSite(events')
<1>1. PICK type \in BaseKinds, d \in Dates, time \in StartTimes :
        \E n \in Targets(type), payload \in BasePayloads(type) :
          SubmitEvent(type, n, d, payload, time)
  BY DEF SubmitBase
<1>2. PICK n \in Targets(type), payload \in BasePayloads(type) :
        SubmitEvent(type, n, d, payload, time)
  BY <1>1
<1>3. type \in BaseTypes /\ LogOK(events)
  BY KindsAssumption DEF KernelInv
<1> DEFINE e == Event(n, type, d, payload, NoTarget, time)
<1>4. e.node = n /\ e.type = type /\ e.payload = payload
  BY DEF Event
<1> HIDE DEF e
<1>5. events' = Append(events, e)
  BY <1>2 DEF SubmitEvent, e
<1>6. SaysNoParent(e)
  BY <1>2, <1>3, <1>4, BasePayloadsSayNoParent DEF SaysNoParent
<1>7. IF e.type = "CREATE" THEN \A k \in Nat : UnitsOf(events) = 1 .. k => e.node = k + 1
                           ELSE e.node \in UnitsOf(events)
  BY <1>2, <1>3, <1>4, FreshKeyIsNext DEF Targets
<1> QED
  BY <1>3, <1>5, <1>6, <1>7, AppendSite

(***************************************************************************)
(* A unit is created on a day: in terms of the log.                        *)
(***************************************************************************)
CreatedBy(log, n, i, d) ==
  i \in EffectiveIds(log, n) /\ log[i].type = "CREATE" /\ EffectiveDate(log, i) <= d

LEMMA BornByCreate ==
  ASSUME NEW log, LogOK(log), LogFine(log), NEW n, NEW d
  PROVE  Born(log, n, d) <=> \E i \in DOMAIN log : CreatedBy(log, n, i, d)
<1>1. ASSUME Born(log, n, d)
      PROVE  \E i \in DOMAIN log : CreatedBy(log, n, i, d)
  <2>1. PICK x \in ReplayEvents(log, n) : x.type = "CREATE" /\ x.date <= d
    BY <1>1 DEF Born
  <2>2. CreatedBy(log, n, x.id, d)
    BY <2>1, ReplayPlain DEF CreatedBy
  <2>3. x.id \in DOMAIN log
    BY <2>2 DEF CreatedBy, EffectiveIds
  <2> QED
    BY <2>2, <2>3
<1>2. ASSUME NEW i \in DOMAIN log, CreatedBy(log, n, i, d)
      PROVE  Born(log, n, d)
  <2> DEFINE x == Reading(log, n, i)
  <2>1. x \in ReplayEvents(log, n) /\ x.id = i
    BY <1>2 DEF CreatedBy, ReplayEvents, Reading
  <2> HIDE DEF x
  <2>2. x.type = "CREATE" /\ x.date = EffectiveDate(log, i)
    BY <1>2, <2>1, ReplayPlain DEF CreatedBy
  <2> QED
    BY <1>2, <2>1, <2>2 DEF Born, CreatedBy
<1> QED
  BY <1>1, <1>2

(* A correction of a CREATE that is not rescinded leaves it its day, or    *)
(* gives it the day that the correction carries.                           *)
LEMMA LatestOfMore ==
  ASSUME NEW log, LogOK(log), NEW new, LogOK(new), NEW J \in SUBSET (DOMAIN log), J # {},
         \A j \in J : new[j] = log[j], J \subseteq DOMAIN new, NEW l \in DOMAIN new
  PROVE  Latest(new, J \cup {l}) \in {l, Latest(log, J)}
<1> DEFINE m == Latest(new, J \cup {l})
           k == Latest(log, J)
<1>1. k \in J
  BY LatestExists
<1>2. m \in J \cup {l} /\ Newer(new, m, k)
  BY <1>1, LatestIsNewest
<1>3. m \in J => Newer(log, k, m)
  BY LatestIsNewest
<1> HIDE DEF m, k
<1>4. /\ \A j \in DOMAIN log : log[j].time \in Int
      /\ \A j \in DOMAIN log : j \in Int
  BY LogShape DEF LogOK, EventOK
<1>5. CASE m \in J
  <2>1. m \in DOMAIN log /\ k \in DOMAIN log /\ new[m] = log[m] /\ new[k] = log[k]
    BY <1>1, <1>5
  <2>2. m = k
    BY <2>1, <1>2, <1>3, <1>4, <1>5 DEF Newer
  <2> QED
    BY <2>2 DEF m, k
<1>6. CASE m = l
  BY <1>6 DEF m
<1> QED
  BY <1>2, <1>5, <1>6

LEMMA CorrectedDay ==
  ASSUME NEW log, NEW e, Appends(log, e), LogOK(Append(log, e)), e.type = "CORRECT_EVENT",
         NEW i \in DOMAIN log, e.target = i
  PROVE  \/ EffectiveDate(Append(log, e), i) = EffectiveDate(log, i)
         \/ /\ Carries(e.payload, "effective_date")
            /\ EffectiveDate(Append(log, e), i) = e.payload["effective_date"]
<1> DEFINE new == Append(log, e)
           l == Len(log) + 1
           J == DateCorrections(log, i)
           K == DateCorrections(new, i)
<1>1. /\ DOMAIN new = DOMAIN log \cup {l} /\ l \notin DOMAIN log /\ l \in DOMAIN new
      /\ \A j \in DOMAIN log : new[j] = log[j]
      /\ new[l] = e /\ LogOK(log) /\ LogOK(new)
  BY AppendShape, LogShape DEF Appends
<1>2. K = IF Carries(e.payload, "effective_date") THEN J \cup {l} ELSE J
  <2> HIDE DEF new, l
  <2> QED
    BY <1>1 DEF DateCorrections, CorrectionsOf
<1>3. J \in SUBSET (DOMAIN log)
  BY DEF DateCorrections, CorrectionsOf
<1> HIDE DEF new, l, J, K
<1>4. /\ EffectiveDate(log, i) = IF J = {} THEN log[i].date
                                ELSE log[Latest(log, J)].payload["effective_date"]
      /\ EffectiveDate(new, i) = IF K = {} THEN new[i].date
                                ELSE new[Latest(new, K)].payload["effective_date"]
  BY DEF EffectiveDate, J, K
<1>5. CASE ~Carries(e.payload, "effective_date")
  <2>1. K = J
    BY <1>2, <1>5
  <2>2. CASE J = {}
    BY <1>1, <1>4, <2>1, <2>2 DEF new
  <2>3. CASE J # {}
    <3>1. Latest(new, J) = Latest(log, J) /\ Latest(log, J) \in J
      BY <1>1, <1>3, <2>3, SameLatest, LatestExists
    <3> QED
      BY <1>1, <1>3, <1>4, <2>1, <2>3, <3>1 DEF new
  <2> QED
    BY <2>2, <2>3
<1>6. CASE Carries(e.payload, "effective_date") /\ J = {}
  <2>1. K = {l}
    BY <1>2, <1>6
  <2>2. Latest(new, K) = l
    BY <1>1, <2>1, LatestExists
  <2> QED
    BY <1>1, <1>4, <1>6, <2>1, <2>2 DEF new
<1>7. CASE Carries(e.payload, "effective_date") /\ J # {}
  <2>1. K = J \cup {l}
    BY <1>2, <1>7
  <2>2. Latest(new, K) \in {l, Latest(log, J)} /\ Latest(log, J) \in J
    BY <1>1, <1>3, <1>7, <2>1, LatestOfMore, LatestExists
  <2> QED
    BY <1>1, <1>3, <1>4, <1>7, <2>1, <2>2 DEF new
<1> QED
  BY <1>5, <1>6, <1>7

(***************************************************************************)
(* A longer log still houses the rows, when every unit that has children   *)
(* is still created on their first day.                                    *)
(***************************************************************************)
LEMMA BornStays ==
  ASSUME NEW log, NEW e, Appends(log, e), LogOK(Append(log, e)), LogFine(Append(log, e)),
         NEW n, NEW d, NEW i \in DOMAIN log, CreatedBy(log, n, i, d), e.target # i
  PROVE  Born(Append(log, e), n, d)
<1> DEFINE new == Append(log, e)
<1>1. /\ DOMAIN log \subseteq DOMAIN new /\ new[i] = log[i]
  BY AppendShape, LogShape DEF Appends
<1>2. /\ IsRescinded(new, i) <=> IsRescinded(log, i)
      /\ EffectiveDate(new, i) = EffectiveDate(log, i)
  BY SameReading DEF Appends
<1> HIDE DEF new
<1>3. CreatedBy(new, n, i, d)
  BY <1>1, <1>2 DEF CreatedBy, EffectiveIds
<1>4. LogOK(new) /\ LogFine(new)
  BY DEF new
<1> QED
  BY <1>1, <1>3, <1>4, BornByCreate DEF new

StillBorn(log, V, n) ==
  OnlyLeavesMove(log) => \A v \in V : v.parent = n => Born(log, n, v.from)

LEMMA SitedGrows ==
  ASSUME NEW log, NEW e, Appends(log, e), LogOK(Append(log, e)), LogFine(Append(log, e)),
         NEW V, Sited(log, V), BaseShape(e) \/ StillBorn(Append(log, e), V, e.node)
  PROVE  Sited(Append(log, e), V)
<1> DEFINE new == Append(log, e)
<1> SUFFICES ASSUME OnlyLeavesMove(new)
             PROVE  (\A v \in V : Chained(new, v.path)) /\ Housed(new, V)
  BY DEF Sited
<1>1. LogOK(log) /\ LogFine(log)
  BY DEF Appends
<1>2. OnlyLeavesMove(log) /\ (\A v \in V : Chained(log, v.path)) /\ Housed(log, V)
  BY <1>1, NamedGrow DEF Sited
<1>3. \A v \in V : Chained(new, v.path)
  BY <1>1, <1>2, ChainGrows
<1>4. ASSUME NEW v \in V, v.parent # NoNode
      PROVE  Born(new, v.parent, v.from)
  <2>1. CASE BaseShape(e)
    <3>1. PICK i \in DOMAIN log : CreatedBy(log, v.parent, i, v.from)
      BY <1>1, <1>2, <1>4, BornByCreate DEF Housed
    <3>2. e.target # i
      BY <1>1, <2>1, LogShape DEF BaseShape, NoTarget
    <3> QED
      BY <3>1, <3>2, BornStays
  <2>2. CASE ~BaseShape(e) /\ v.parent = e.node
    BY <2>2 DEF StillBorn
  <2>3. CASE v.parent # e.node
    <3>1. ReplayEvents(new, v.parent) = ReplayEvents(log, v.parent)
      BY <2>3, OtherUnitsSame
    <3> QED
      BY <3>1, <1>2, <1>4 DEF Housed, Born
  <2> QED
    BY <2>1, <2>2, <2>3
<1> QED
  BY <1>3, <1>4 DEF Housed

LEMMA SitedLess ==
  ASSUME NEW log, NEW V, NEW W \in SUBSET V, Sited(log, V)
  PROVE  Sited(log, W)
  BY DEF Sited, Housed

(* What a correction has looked at before it begins.                       *)
LateEnough(log, V, n, d, newDate) ==
  newDate > d /\ ExistsAt(V, n, d) =>
    \A m \in NodesUnder(V, RowAt(V, n, d).path) \ {n} :
      \A j \in EffectiveIds(log, m) :
        log[j].type = "CREATE" => EffectiveDate(log, j) >= newDate

Careful(log, V, e) ==
  /\ e.type = "RESCIND_ORG" /\ OnlyLeavesMove(log) => Childless(V, e.node)
  /\ /\ e.type = "CORRECT_EVENT" /\ log[e.target].type = "CREATE"
     /\ Carries(e.payload, "effective_date")
     => LateEnough(log, V, e.node, EffectiveDate(log, e.target), e.payload["effective_date"])

(* The rows of a projection that fits the log. *)
Fits(log, V) ==
  /\ LogOK(log) /\ LogFine(log) /\ LogSite(log)
  /\ RowsOK(V) /\ WellFormed(V)
  /\ \A v \in V : PathOK(v)
  /\ \A m \in Nodes : ShowsSet({}, ReplayEvents(log, m), V, m)
  /\ Sited(log, V)

LEMMA HasParent ==
  ASSUME NEW log, NEW V, Fits(log, V), OnlyLeavesMove(log), NEW v \in V, v.parent # NoNode
  PROVE  /\ v.parent \in Nodes /\ v.parent \in NamedParents(log)
         /\ v.node \in Nodes /\ v.from \in Dates /\ v.from \in Int
         /\ \E i \in DOMAIN log : CreatedBy(log, v.parent, i, v.from)
         /\ ExistsAt(V, v.parent, v.from)
         /\ ExistsAt(V, v.node, v.from)
<1>1. RowOK(v) /\ PathOK(v) /\ Chained(log, v.path) /\ Born(log, v.parent, v.from)
  BY DEF Fits, RowsOK, Sited, Housed
<1>2. /\ v.parent \in Nodes /\ v.node \in Nodes /\ v.from \in Dates /\ v.from \in Int
  BY <1>1, DatesAreInts DEF RowOK
<1>3. v.parent \in NamedParents(log)
  <2>1. Len(v.path) - 1 \in 1 .. (Len(v.path) - 1) /\ v.path[Len(v.path) - 1] = v.parent
    BY <1>1 DEF PathOK, RowOK
  <2> QED
    BY <2>1, <1>1 DEF Chained
<1>4. \E i \in DOMAIN log : CreatedBy(log, v.parent, i, v.from)
  BY <1>1, BornByCreate DEF Fits
<1>5. ExistsAt(V, v.parent, v.from)
  BY <1>1, <1>2 DEF Fits, ShowsSet, Born
<1>6. ExistsAt(V, v.node, v.from)
  BY RowStarts DEF Fits, ExistsAt
<1> QED
  BY <1>2, <1>3, <1>4, <1>5, <1>6

LEMMA ChildUnder ==
  ASSUME NEW log, NEW V, Fits(log, V), OnlyLeavesMove(log), NEW u \in V, NEW v \in V,
         v.parent = u.node
  PROVE  v.node \in NodesUnder(V, u.path) \ {u.node}
<1>1. /\ OneCreate(log) /\ RowOK(u) /\ PathOK(u) /\ Chained(log, u.path)
      /\ RowOK(v) /\ PathOK(v) /\ Chained(log, v.path)
  BY DEF Fits, LogSite, RowsOK, Sited
<1>2. Under(v.path, u.path) /\ v.node # u.node
  BY <1>1, ChildBelow
<1> QED
  BY <1>2 DEF NodesUnder

(* A CREATE that is moved to a later day comes before what is below it.    *)
LEMMA LateCreate ==
  ASSUME NEW log, NEW V, Fits(log, V), OnlyLeavesMove(log),
         NEW v \in V, v.parent # NoNode, NEW d \in Dates, ExistsAt(V, v.parent, d),
         NEW newDate \in Int, newDate > d, LateEnough(log, V, v.parent, d, newDate)
  PROVE  newDate <= v.from
<1> DEFINE u == RowAt(V, v.parent, d)
<1>1. u \in V /\ u.node = v.parent
  BY RowAtExists
<1>2. \A m \in NodesUnder(V, u.path) \ {v.parent} : \A j \in EffectiveIds(log, m) :
        log[j].type = "CREATE" => EffectiveDate(log, j) >= newDate
  BY DEF LateEnough
<1> HIDE DEF u
<1>3. v.node \in NodesUnder(V, u.path) \ {v.parent}
  BY <1>1, ChildUnder
<1>4. v.node \in Nodes /\ v.from \in Dates /\ ExistsAt(V, v.node, v.from) /\ v.from \in Int
  BY HasParent
<1>5. Born(log, v.node, v.from)
  BY <1>4 DEF Fits, ShowsSet, Born
<1>6. PICK j \in DOMAIN log : CreatedBy(log, v.node, j, v.from)
  BY <1>5, BornByCreate DEF Fits
<1>7. EffectiveDate(log, j) \in Int /\ EffectiveDate(log, j) >= newDate
      /\ EffectiveDate(log, j) <= v.from
  <2>1. EffectiveDate(log, j) \in Int
    BY EffectiveDateOK, DatesAreInts DEF Fits
  <2> QED
    BY <2>1, <1>2, <1>3, <1>6 DEF CreatedBy
<1> QED
  BY <1>4, <1>7

LEMMA StillEffective ==
  ASSUME NEW log, NEW e, Appends(log, e), LogOK(Append(log, e)), e.type = "CORRECT_EVENT",
         NEW n, NEW i \in EffectiveIds(log, n), e.target = i, ~HasRescind(log, i)
  PROVE  i \in EffectiveIds(Append(log, e), n) /\ Append(log, e)[i] = log[i]
<1> DEFINE new == Append(log, e)
<1>1. i \in DOMAIN log /\ log[i].node = n /\ log[i].type \in BaseTypes
  BY DEF EffectiveIds
<1>2. i \in DOMAIN new /\ new[i] = log[i] /\ i \in Nat
  BY <1>1, AppendShape, LogShape DEF Appends
<1>3. ~HasRescind(new, i)
  BY <1>2, AppendRescinds DEF Appends, RescindTypes
<1> HIDE DEF new
<1>4. CorrectionsOf(new, i) \in SUBSET (DOMAIN new)
  BY DEF CorrectionsOf
<1>5. LogOK(new)
  BY DEF new
<1>6. ~IsRescinded(new, i)
  BY <1>3, <1>4, <1>5, LatestExists DEF IsRescinded, HasRescind
<1> QED
  BY <1>1, <1>2, <1>6 DEF EffectiveIds, new

LEMMA CorrectedStillBorn ==
  ASSUME NEW log, NEW e, Appends(log, e), LogOK(Append(log, e)), LogFine(Append(log, e)),
         e.type = "CORRECT_EVENT", NEW V, Fits(log, V), Careful(log, V, e),
         OnlyLeavesMove(log), NEW v \in V, v.parent # NoNode,
         NEW i \in DOMAIN log, CreatedBy(log, v.parent, i, v.from),
         e.target = i, e.node = v.parent, ~HasRescind(log, i)
  PROVE  Born(Append(log, e), v.parent, v.from)
<1> DEFINE new == Append(log, e)
           n == v.parent
           d == EffectiveDate(log, i)
<1>1. /\ i \in EffectiveIds(log, n) /\ log[i].type = "CREATE" /\ d <= v.from
      /\ d \in Dates /\ d \in Int
  BY EffectiveDateOK, DatesAreInts DEF CreatedBy, Appends
<1>2. i \in EffectiveIds(new, n) /\ new[i] = log[i] /\ i \in DOMAIN new
  BY <1>1, StillEffective DEF EffectiveIds
<1>3. v.from \in Int /\ n \in Nodes
  BY HasParent
<1>4. EffectiveDate(new, i) <= v.from
  <2>1. CASE EffectiveDate(new, i) = d
    BY <2>1, <1>1
  <2>2. CASE EffectiveDate(new, i) # d
    <3> DEFINE newDate == e.payload["effective_date"]
    <3>1. Carries(e.payload, "effective_date") /\ EffectiveDate(new, i) = newDate
      BY <2>2, CorrectedDay
    <3>2. newDate \in Int
      <4>1. PayloadOK(e.payload)
        BY DEF Appends, EventOK
      <4> QED
        BY <4>1, <3>1, DatesAreInts DEF PayloadOK
    <3>3. LateEnough(log, V, n, d, newDate)
      BY <1>1, <3>1 DEF Careful
    <3>4. ExistsAt(V, n, d)
      <4>1. d <= d
        BY <1>1
      <4>2. CreatedBy(log, n, i, d)
        BY <1>1, <4>1 DEF CreatedBy
      <4> HIDE DEF d, n
      <4>3. Born(log, n, d)
        BY <4>2, BornByCreate DEF Appends
      <4> QED
        BY <4>3, <1>1, <1>3 DEF Fits, ShowsSet, Born
    <3> HIDE DEF newDate, d
    <3>5. newDate > d => newDate <= v.from
      BY <1>1, <3>2, <3>3, <3>4, LateCreate
    <3> QED
      BY <1>1, <1>3, <3>1, <3>2, <3>5
  <2> QED
    BY <2>1, <2>2
<1> HIDE DEF new, n
<1>5. CreatedBy(new, n, i, v.from)
  BY <1>1, <1>2, <1>4 DEF CreatedBy
<1>6. LogOK(new) /\ LogFine(new)
  BY DEF new
<1> QED
  BY <1>2, <1>5, <1>6, BornByCreate DEF new, n

LEMMA FixStillBorn ==
  ASSUME NEW log, NEW e, Appends(log, e), LogOK(Append(log, e)), LogFine(Append(log, e)),
         FixShape(e, log), ~HasRescind(log, e.target),
         NEW V, Fits(log, V), Careful(log, V, e)
  PROVE  StillBorn(Append(log, e), V, e.node)
<1> DEFINE new == Append(log, e)
           l == Len(log) + 1
<1> SUFFICES ASSUME OnlyLeavesMove(new), NEW v \in V, v.parent = e.node
             PROVE  Born(new, e.node, v.from)
  BY DEF StillBorn
<1>1. LogOK(log) /\ LogFine(log) /\ e.node \in Nodes /\ e.node # NoNode
  BY NodesAssumption DEF Appends, EventOK, Nodes, NoNode
<1>2. OnlyLeavesMove(log) /\ NamedParents(log) \subseteq NamedParents(new)
  BY <1>1, NamedGrow
<1>3. v.parent \in NamedParents(log)
  BY <1>1, <1>2, HasParent
<1>4. PICK i \in DOMAIN log : CreatedBy(log, v.parent, i, v.from)
  BY <1>1, <1>2, HasParent
<1>5. CASE e.target # i
  BY <1>4, <1>5, BornStays
<1>6. CASE e.target = i
  <2>1. log[e.target].type = "CREATE"
    BY <1>4, <1>6 DEF CreatedBy
  <2>2. ASSUME e.type = "RESCIND_EVENT" PROVE FALSE
    <3>1. l \in DOMAIN new /\ new[l] = e /\ new[e.target] = log[e.target]
      BY <1>1, <1>6, AppendShape, LogShape
    <3> HIDE DEF new, l
    <3>2. Uproots(new, l)
      BY <2>1, <2>2, <3>1 DEF Uproots
    <3> QED
      BY <3>1, <3>2, <1>2, <1>3 DEF OnlyLeavesMove
  <2>3. ASSUME e.type = "RESCIND_ORG" PROVE FALSE
    BY <2>3, <1>2 DEF Careful, Childless
  <2>4. ASSUME e.type = "CORRECT_STATUS" PROVE FALSE
    BY <2>4, <2>1 DEF FixShape
  <2>5. e.type = "CORRECT_EVENT"
    BY <2>2, <2>3, <2>4 DEF FixShape, CorrectionTypes, RescindTypes
  <2>6. Born(new, v.parent, v.from)
    BY <1>1, <1>2, <1>4, <1>6, <2>5, CorrectedStillBorn
  <2> QED
    BY <2>6
<1> QED
  BY <1>5, <1>6

(***************************************************************************)
(* The corrections that begin are careful.                                 *)
(***************************************************************************)
LEMMA ChildlessUnit ==
  ASSUME NEW log, NEW V, Fits(log, V), OnlyLeavesMove(log), NEW n \in Nodes,
         ~HasChildren(V, n)
  PROVE  Childless(V, n)
<1> SUFFICES ASSUME NEW v \in V, v.parent = n PROVE FALSE
  BY DEF Childless
<1> DEFINE R == RowsOf(V, n)
           T == {u.from : u \in R}
<1>1. v.parent # NoNode
  BY NodesAssumption DEF Nodes, NoNode
<1>2. ExistsAt(V, n, v.from)
  BY <1>1, HasParent
<1>3. R # {} /\ R \subseteq V
  BY <1>2 DEF ExistsAt, RowsOf
<1>4. \A u \in V : u.from \in 1 .. MaxDate
  BY DEF Fits, RowsOK, RowOK, Dates
<1>5. T \subseteq Nat /\ T # {} /\ MaxDate \in Nat /\ \A k \in T : k <= MaxDate
  BY <1>3, <1>4, DatesAssumption
<1>6. Max(T) \in T /\ \A k \in T : k <= Max(T)
  <2> HIDE DEF T
  <2> QED
    BY <1>5, MaxNat
<1>7. PICK u \in R : \A w \in R : w.from <= u.from
  BY <1>6
<1> DEFINE last == CHOOSE x \in R : \A w \in R : w.from <= x.from
<1>8. last \in R
  BY <1>7
<1>9. LatestPath(V, n) = last.path
  BY DEF LatestPath
<1> HIDE DEF last
<1>10. last \in V /\ last.node = n
  BY <1>3, <1>8 DEF RowsOf
<1>11. NodesUnder(V, last.path) = {n}
  BY <1>3, <1>9 DEF HasChildren
<1> HIDE DEF R, T
<1>12. v.node \in NodesUnder(V, last.path) \ {n}
  BY <1>10, ChildUnder
<1> QED
  BY <1>11, <1>12

LEMMA BeginsPending ==
  ASSUME NEW pending, NEW batch, BeginRebuild(pending, batch)
  PROVE  txn'.pending = pending /\ txn'.batch = batch
  BY DEF BeginRebuild, StartRebuild, NoTxn

LEMMA CorrectCareful ==
  ASSUME Correct
  PROVE  Careful(events, db.versions, txn'.pending) /\ txn'.batch = {}
<1>1. PICK n \in Known, d \in Dates, time \in StartTimes : CorrectEvent(n, d, time)
  BY DEF Correct
<1>2. PICK i \in EffectiveAt(events, n, d) : \E patch \in Patches(events[i].type) :
        LET payload == Overlay(EffectivePayload(events, i), patch)
            newDate == Field(payload, "effective_date", d)
        IN  /\ NoDescendantCreatedBefore(n, i, d, newDate)
            /\ BeginRebuild(Event(n, "CORRECT_EVENT", d, payload, i, time), {})
  BY <1>1 DEF CorrectEvent
<1>3. PICK patch \in Patches(events[i].type) :
        LET payload == Overlay(EffectivePayload(events, i), patch)
            newDate == Field(payload, "effective_date", d)
        IN  /\ NoDescendantCreatedBefore(n, i, d, newDate)
            /\ BeginRebuild(Event(n, "CORRECT_EVENT", d, payload, i, time), {})
  BY <1>2
<1> DEFINE payload == Overlay(EffectivePayload(events, i), patch)
           newDate == Field(payload, "effective_date", d)
           e == Event(n, "CORRECT_EVENT", d, payload, i, time)
<1>4. NoDescendantCreatedBefore(n, i, d, newDate) /\ BeginRebuild(e, {})
  BY <1>3
<1>5. e.node = n /\ e.type = "CORRECT_EVENT" /\ e.target = i /\ e.payload = payload
  BY DEF Event
<1>6. EffectiveDate(events, i) = d
  BY DEF EffectiveAt
<1> HIDE DEF payload, e
<1>7. ASSUME events[i].type = "CREATE", Carries(payload, "effective_date")
      PROVE  LateEnough(events, db.versions, n, d, payload["effective_date"])
  <2>1. newDate = payload["effective_date"]
    BY <1>7 DEF Field
  <2> QED
    BY <2>1, <1>4, <1>7 DEF NoDescendantCreatedBefore, LateEnough
<1>8. Careful(events, db.versions, e)
  BY <1>5, <1>6, <1>7 DEF Careful
<1> QED
  BY <1>4, <1>8, BeginsPending

LEMMA CorrectionsCareful ==
  ASSUME Fits(events, db.versions), Rescind \/ Correct \/ StatusCorrection \/ RescindUnit
  PROVE  /\ Careful(events, db.versions, txn'.pending)
         /\ txn'.batch # {} /\ OnlyLeavesMove(events) =>
              Childless(db.versions, txn'.pending.node)
<1>1. CASE Correct
  BY <1>1, CorrectCareful
<1>2. CASE Rescind
  <2>1. PICK n, d, time, i : BeginRebuild(Event(n, "RESCIND_EVENT", d, Empty, i, time), {})
    BY <1>2 DEF Rescind, RescindEvent
  <2>2. txn'.pending.type = "RESCIND_EVENT" /\ txn'.batch = {}
    BY <2>1, BeginsPending DEF Event
  <2> QED
    BY <2>2 DEF Careful
<1>3. CASE StatusCorrection
  <2>1. PICK n, d, status, i, time :
          BeginRebuild(Event(n, "CORRECT_STATUS", d, [target_status |-> status], i, time), {})
    BY <1>3 DEF StatusCorrection, CorrectStatus
  <2>2. txn'.pending.type = "CORRECT_STATUS" /\ txn'.batch = {}
    BY <2>1, BeginsPending DEF Event
  <2> QED
    BY <2>2 DEF Careful
<1>4. CASE RescindUnit
  <2>1. PICK n \in Known, time \in StartTimes : RescindOrg(n, time)
    BY <1>4 DEF RescindUnit
  <2>2. ~HasChildren(db.versions, n) /\ \E t, b : BeginRebuild(RescindOf(n, t, time), b)
    BY <2>1 DEF RescindOrg
  <2>3. PICK t, b : BeginRebuild(RescindOf(n, t, time), b)
    BY <2>2
  <2>4. txn'.pending.type = "RESCIND_ORG" /\ txn'.pending.node = n
    BY <2>3, BeginsPending DEF RescindOf, Event
  <2>5. OnlyLeavesMove(events) => Childless(db.versions, n)
    BY <2>1, <2>2, KnownNodes, ChildlessUnit
  <2> QED
    BY <2>4, <2>5 DEF Careful
<1> QED
  BY <1>1, <1>2, <1>3, <1>4

(***************************************************************************)
(* The invariant: what is committed fits its log; during a rebuild, the    *)
(* rows are chained and housed for the log that is about to be, and a unit *)
(* that is taken out event by event has no children.                       *)
(***************************************************************************)
SiteInv ==
  /\ HistoryInv /\ TreeInv
  /\ LogSite(events) /\ LogSite(txn.savedEvents)
  /\ Sited(CommittedLog, Committed.versions)
  /\ txn.open =>
       LET log == Append(events, txn.pending)
       IN  /\ Sited(log, db.versions)
           /\ txn.batch # {} /\ OnlyLeavesMove(log) =>
                Childless(db.versions, txn.pending.node)

LEMMA CommittedFits ==
  ASSUME SiteInv
  PROVE  Fits(CommittedLog, Committed.versions)
<1>1. \A m \in Nodes : ShowsSet({}, ReplayEvents(CommittedLog, m), Committed.versions, m)
  BY DEF SiteInv, HistoryInv, Told
<1>2. /\ LogOK(CommittedLog) /\ LogFine(CommittedLog) /\ LogSite(CommittedLog)
      /\ Good(Committed)
  BY DEF SiteInv, HistoryInv, FineInv, LedgerInv, KernelInv, TxnOK, CommittedLog, Committed
<1>3. \A v \in Committed.versions : PathOK(v)
  BY DEF SiteInv, TreeInv, TreeOK, Tree, Committed
<1> QED
  BY <1>1, <1>2, <1>3, GoodParts DEF Fits, SiteInv

LEMMA FitsParentsExist ==
  ASSUME SiteInv
  PROVE  ParentsExist
<1> DEFINE V == Committed.versions
           log == CommittedLog
<1> SUFFICES ASSUME OnlyLeavesMove(log), NEW v \in V, v.parent # NoNode, NEW d \in Dates,
                    Covers(v, d)
             PROVE  ExistsAt(V, v.parent, d)
  BY DEF ParentsExist
<1>1. Fits(log, V)
  BY CommittedFits
<1> HIDE DEF V, log
<1>2. /\ v.parent \in Nodes /\ v.from \in Int /\ d \in Int
      /\ \E i \in DOMAIN log : CreatedBy(log, v.parent, i, v.from)
  BY <1>1, HasParent, DatesAreInts
<1>3. PICK i \in DOMAIN log : CreatedBy(log, v.parent, i, v.from)
  BY <1>2
<1>4. EffectiveDate(log, i) \in Int
  BY <1>1, EffectiveDateOK, DatesAreInts DEF Fits
<1>5. CreatedBy(log, v.parent, i, d)
  BY <1>2, <1>3, <1>4 DEF CreatedBy, Covers
<1>6. Born(log, v.parent, d)
  BY <1>1, <1>5, BornByCreate DEF Fits
<1> QED
  BY <1>1, <1>2, <1>6 DEF Fits, ShowsSet, Born

(***************************************************************************)
(* The steps.                                                              *)
(***************************************************************************)
LEMMA FewerChildless ==
  ASSUME NEW V, NEW W \in SUBSET V, NEW n, Childless(V, n)
  PROVE  Childless(W, n)
  BY DEF Childless

(* The head of a rebuild: the log is about to grow, the rows of the unit go.*)
LEMMA StartSited ==
  ASSUME NEW log, NEW e, Appends(log, e), LogOK(Append(log, e)), LogFine(Append(log, e)),
         FixShape(e, log), ~HasRescind(log, e.target),
         Fits(log, db.versions), Careful(log, db.versions, e), NEW t, StartRebuild(t, log, e)
  PROVE  /\ Sited(Append(log, e), db'.versions)
         /\ db'.versions \subseteq db.versions
         /\ OnlyLeavesMove(Append(log, e)) => OnlyLeavesMove(log)
<1> DEFINE new == Append(log, e)
<1>1. StillBorn(new, db.versions, e.node)
  BY FixStillBorn
<1>2. Sited(new, db.versions)
  BY <1>1, SitedGrows DEF Fits
<1>3. db'.versions = db.versions \ RowsOf(db.versions, e.node)
  BY DEF StartRebuild, WithoutNode
<1>4. OnlyLeavesMove(new) => OnlyLeavesMove(log)
  BY NamedGrow DEF Fits
<1> HIDE DEF new
<1>5. db'.versions \subseteq db.versions
  BY <1>3
<1> QED
  BY <1>2, <1>4, <1>5, SitedLess DEF new

LEMMA SubmitBaseSite ==
  ASSUME SiteInv, HistoryInv', TreeInv', SubmitBase
  PROVE  SiteInv'
<1>1. PICK node, type, d, payload, e : Submits(node, type, d, payload, e)
  BY SubmitBaseWrites DEF SiteInv, HistoryInv, FineInv, LedgerInv
<1>2. ~txn.open /\ txn' = txn
  BY SubmitBaseWrites DEF SiteInv, HistoryInv, FineInv, LedgerInv
<1> DEFINE x == [id |-> Len(events) + 1, node |-> e.node, type |-> e.type,
                 date |-> e.date, payload |-> e.payload]
<1>3. /\ LogOK(events) /\ LogFine(events) /\ Good(db) /\ LogOK(events') /\ LogFine(events')
      /\ KernelInv
  BY DEF SiteInv, HistoryInv, FineInv, LedgerInv, KernelInv
<1>4. /\ BaseShape(e) /\ EventOK(e) /\ events' = Append(events, e) /\ e.target = 0
      /\ db' \in Apply(events, db, e.node, e.type, e.date, e.payload)
  BY <1>1 DEF Submits, BaseShape, NoTarget
<1>5. Appends(events, e)
  BY <1>3, <1>4, LogShape DEF Appends
<1>6. Replays(events, db, x)
  BY <1>1, <1>3 DEF Replays, Submits
<1>7. /\ x.node = e.node /\ x.type = e.type /\ x.date = e.date /\ x.payload = e.payload
  OBVIOUS
<1>8. x \in ReplayEvents(events', x.node)
  BY <1>4, <1>5, <1>7, BaseAppended
<1>9. db' \in Apply(events, db, x.node, x.type, x.date, x.payload)
  BY <1>4, <1>7
<1> HIDE DEF x
<1>10. LogSite(events')
  BY <1>3, BaseSite DEF SiteInv
<1>11. Sited(events', db.versions)
  <2>1. Sited(events, db.versions)
    BY <1>2 DEF SiteInv, CommittedLog, Committed
  <2> QED
    BY <2>1, <1>3, <1>4, <1>5, SitedGrows
<1>12. Shown(events', db.versions, x.node)
  <2>1. ASSUME NEW m \in Nodes, m # e.node
        PROVE  ShowsSet({}, ReplayEvents(events', m), db.versions, m)
    <3>1. ReplayEvents(events', m) = ReplayEvents(events, m)
      BY <2>1, <1>4, <1>5, OtherUnitsSame
    <3> QED
      BY <3>1, <1>2 DEF SiteInv, HistoryInv, Told, CommittedLog, Committed
  <2> QED
    BY <2>1, <1>7 DEF Shown
<1>13. TreeOK(db, db.root) /\ TreeOK(db', db'.root)
  BY <1>2 DEF SiteInv, TreeInv
<1>14. ParentsSaid(events')
  BY <1>10 DEF LogSite
<1>15. Sited(events', db'.versions)
  BY <1>3, <1>6, <1>8, <1>9, <1>11, <1>12, <1>13, <1>14, ApplySited
<1> QED
  BY <1>2, <1>10, <1>15 DEF SiteInv, CommittedLog, Committed

LEMMA BeginRebuildSite ==
  ASSUME SiteInv, HistoryInv', TreeInv', LockFree,
         Rescind \/ Correct \/ StatusCorrection \/ RescindUnit
  PROVE  SiteInv'
<1>1. PICK pending, batch : RebuildBegins(pending, batch)
  BY CorrectionsBeginFine DEF SiteInv, HistoryInv, FineInv, LedgerInv
<1> DEFINE t == [NoTxn EXCEPT !.batch = batch, !.savedEvents = events, !.saved = db]
<1>2. DOMAIN t = TxnFields /\ t.savedEvents = events /\ t.saved = db
  BY DEF NoTxn, TxnFields
<1>3. StartRebuild(t, events, pending) /\ events' = events
  BY <1>1 DEF RebuildBegins, BeginRebuild
<1> HIDE DEF t
<1>4. /\ LogOK(events) /\ LogFine(events) /\ Good(db)
      /\ EventOK(pending) /\ pending.target <= Len(events)
      /\ FixShape(pending, events) /\ ~HasRescind(events, pending.target)
  BY <1>1 DEF SiteInv, HistoryInv, FineInv, LedgerInv, KernelInv, RebuildBegins, FixOK, FixShape
<1>5. Appends(events, pending)
  BY <1>4 DEF Appends
<1>6. /\ txn'.open /\ txn'.pending = pending
      /\ txn'.savedEvents = events /\ txn'.saved = db
  BY <1>2, <1>3, <1>4, StartRebuildOK
<1> DEFINE new == Append(events, pending)
<1>7. LogOK(new) /\ LogFine(new)
  <2>1. pending.target \in Nat
    BY <1>4 DEF EventOK
  <2> QED
    BY <2>1, <1>4, AppendFine, AppendOK
<1>8. Fits(events, db.versions)
  BY CommittedFits DEF LockFree, CommittedLog, Committed
<1>9. /\ Careful(events, db.versions, pending)
      /\ txn'.batch # {} /\ OnlyLeavesMove(events) => Childless(db.versions, pending.node)
  BY <1>6, <1>8, CorrectionsCareful
<1> HIDE DEF new
<1>10. /\ Sited(new, db'.versions)
       /\ db'.versions \subseteq db.versions
       /\ OnlyLeavesMove(new) => OnlyLeavesMove(events)
  BY <1>3, <1>4, <1>5, <1>7, <1>8, <1>9, StartSited DEF new
<1>11. txn'.batch # {} /\ OnlyLeavesMove(new) => Childless(db'.versions, pending.node)
  BY <1>9, <1>10, FewerChildless
<1>12. Sited(CommittedLog', Committed'.versions) /\ LogSite(events)
  BY <1>6, <1>8 DEF SiteInv, CommittedLog, Committed, Fits
<1> QED
  BY <1>3, <1>6, <1>10, <1>11, <1>12 DEF SiteInv, new

LEMMA ReplayStepSite ==
  ASSUME SiteInv, HistoryInv', TreeInv', ReplayStep
  PROVE  SiteInv'
<1> DEFINE log == Append(events, txn.pending)
           m == txn.pending.node
           R == ReplayEvents(log, m)
<1>1. PICK y \in txn.todo :
        /\ IsFirst(y, txn.todo)
        /\ db' \in Apply(events, db, y.node, y.type, y.date, y.payload)
        /\ txn' = [txn EXCEPT !.todo = @ \ {y}]
  BY DEF ReplayStep
<1>2. txn.open /\ events' = events
  BY DEF ReplayStep
<1>3. /\ DOMAIN txn = TxnFields /\ LogOK(events) /\ Good(db) /\ ReplayOK(y)
  BY DEF SiteInv, HistoryInv, FineInv, LedgerInv, KernelInv, TxnOK, TxnFields
<1>4. /\ txn'.pending = txn.pending /\ txn'.saved = txn.saved /\ txn'.batch = txn.batch
      /\ txn'.savedEvents = txn.savedEvents /\ txn'.open = txn.open
  BY <1>1, <1>3 DEF TxnFields
<1>5. LogOK(log) /\ LogFine(log)
  BY <1>2, PendingAppends DEF SiteInv, HistoryInv
<1>6. /\ \A n \in Nodes \ {m} : Told(db.versions, log, n)
      /\ Partly(db.versions, R, txn.todo, m)
  BY <1>2 DEF SiteInv, HistoryInv, Replaying
<1>7. y \in R
  BY <1>6 DEF Partly
<1>8. y.node = m /\ Plain(y.type, y.payload)
  BY <1>5, <1>7, ReplayPlain
<1>9. Replays(events, db, y)
  BY <1>3, <1>8 DEF Replays, ReplayOK
<1>10. Shown(log, db.versions, m)
  BY <1>6 DEF Shown, Told
<1>11. ParentsSaid(log)
  <2>1. FixShape(txn.pending, events)
    BY <1>2 DEF SiteInv, HistoryInv, FineInv, PendingFine
  <2> QED
    BY <2>1, <1>3, FixSite DEF SiteInv, LogSite
<1>12. TreeOK(db, txn.saved.root) /\ TreeOK(db', txn.saved.root)
  BY <1>2, <1>4 DEF SiteInv, TreeInv
<1>13. /\ Sited(log, db.versions)
       /\ txn.batch # {} /\ OnlyLeavesMove(log) => Childless(db.versions, m)
  BY <1>2 DEF SiteInv
<1> HIDE DEF log, R, m
<1>14. /\ Sited(log, db'.versions)
       /\ OnlyLeavesMove(log) /\ Childless(db.versions, m) => Childless(db'.versions, m)
  BY <1>1, <1>5, <1>7, <1>8, <1>9, <1>10, <1>11, <1>12, <1>13, ApplySited DEF R
<1>15. CommittedLog' = CommittedLog /\ Committed' = Committed
  BY <1>2, <1>4 DEF CommittedLog, Committed
<1> QED
  BY <1>2, <1>4, <1>13, <1>14, <1>15 DEF SiteInv, log, m

(* When a rebuild is done, the rows fit the log that has its event.        *)
LEMMA DoneFits ==
  ASSUME SiteInv, RebuildDone
  PROVE  Fits(events', db.versions)
<1> DEFINE m == txn.pending.node
<1>1. txn.open /\ txn.todo = {} /\ events' = Append(events, txn.pending)
  BY DEF RebuildDone
<1>2. LogOK(events') /\ LogFine(events')
  BY <1>1, PendingAppends DEF SiteInv, HistoryInv
<1>3. /\ \A n \in Nodes \ {m} : Told(db.versions, events', n)
      /\ Partly(db.versions, ReplayEvents(events', m), {}, m)
  BY <1>1 DEF SiteInv, HistoryInv, Replaying
<1>4. Told(db.versions, events', m)
  BY <1>2, <1>3, PartlyEnds
<1>5. \A n \in Nodes : ShowsSet({}, ReplayEvents(events', n), db.versions, n)
  BY <1>3, <1>4 DEF Told
<1>6. LogSite(events')
  BY <1>1, FixSite DEF SiteInv, HistoryInv, FineInv, LedgerInv, KernelInv, PendingFine
<1>7. Good(db) /\ \A v \in db.versions : PathOK(v)
  BY <1>1 DEF SiteInv, HistoryInv, FineInv, LedgerInv, KernelInv, TreeInv, TreeOK, Tree
<1>8. Sited(events', db.versions)
  BY <1>1 DEF SiteInv
<1> QED
  BY <1>2, <1>5, <1>6, <1>7, <1>8, GoodParts DEF Fits

LEMMA NextTargetSite ==
  ASSUME SiteInv, HistoryInv', TreeInv', NextTarget
  PROVE  SiteInv'
<1>1. /\ RebuildDone /\ txn.open /\ events' = Append(events, txn.pending)
  BY DEF NextTarget, RebuildDone
<1>2. PICK t \in txn.batch :
        StartRebuild([txn EXCEPT !.batch = @ \ {t}], events',
                     RescindOf(txn.pending.node, t, txn.pending.time))
  BY DEF NextTarget
<1>3. DOMAIN txn = TxnFields /\ Good(db)
  BY DEF SiteInv, HistoryInv, FineInv, LedgerInv, KernelInv, TxnOK, TxnFields
<1> DEFINE rest == [txn EXCEPT !.batch = @ \ {t}]
           e == RescindOf(txn.pending.node, t, txn.pending.time)
           n == txn.pending.node
<1>4. /\ DOMAIN rest = TxnFields /\ rest.saved = txn.saved
      /\ rest.savedEvents = txn.savedEvents /\ rest.batch \subseteq txn.batch
  BY <1>3 DEF TxnFields
<1>5. StartRebuild(rest, events', e) /\ e.node = n /\ e.type = "RESCIND_ORG"
  BY <1>2 DEF RescindOf, Event
<1> HIDE DEF rest, e
<1>6. /\ txn'.open /\ txn'.pending = e /\ txn'.batch = rest.batch
      /\ txn'.saved = txn.saved /\ txn'.savedEvents = txn.savedEvents
  BY <1>3, <1>4, <1>5 DEF StartRebuild, TxnFields
<1> DEFINE new == Append(events', e)
<1>7. /\ Appends(events', e) /\ LogOK(new) /\ LogFine(new)
      /\ FixShape(e, events') /\ ~HasRescind(events', e.target)
  <2>1. /\ LogOK(events') /\ LogFine(events') /\ EventOK(e) /\ e.target <= Len(events')
        /\ FixShape(e, events') /\ ~HasRescind(events', e.target)
    BY <1>6 DEF HistoryInv, FineInv, LedgerInv, KernelInv, TxnOK, PendingFine
  <2>2. e.target \in Nat
    BY <2>1 DEF EventOK
  <2> QED
    BY <2>1, <2>2, AppendFine, AppendOK DEF Appends
<1>8. Fits(events', db.versions)
  BY <1>1, DoneFits
<1>9. OnlyLeavesMove(events') => Childless(db.versions, n)
  BY <1>1, <1>2 DEF SiteInv
<1>10. Careful(events', db.versions, e)
  BY <1>5, <1>9 DEF Careful
<1> HIDE DEF new, n
<1>11. /\ Sited(new, db'.versions)
       /\ db'.versions \subseteq db.versions
       /\ OnlyLeavesMove(new) => OnlyLeavesMove(events')
  BY <1>5, <1>7, <1>8, <1>10, StartSited DEF new
<1>12. OnlyLeavesMove(new) => Childless(db'.versions, n)
  BY <1>9, <1>11, FewerChildless
<1>13. CommittedLog' = CommittedLog /\ Committed' = Committed
  BY <1>1, <1>6 DEF CommittedLog, Committed
<1> QED
  BY <1>5, <1>6, <1>8, <1>11, <1>12, <1>13 DEF SiteInv, Fits, new

LEMMA CommitSite ==
  ASSUME SiteInv, HistoryInv', TreeInv', Commit
  PROVE  SiteInv'
<1>1. RebuildDone /\ txn' = NoTxn /\ db' = db
  BY DEF Commit
<1>2. Fits(events', db.versions)
  BY <1>1, DoneFits
<1>3. ~txn'.open /\ txn'.savedEvents = <<>>
  BY <1>1 DEF NoTxn
<1>4. LogSite(<<>>)
  BY EmptySite
<1> QED
  BY <1>1, <1>2, <1>3, <1>4 DEF SiteInv, Fits, CommittedLog, Committed

LEMMA SiteStep ==
  ASSUME SiteInv, [Next]_vars
  PROVE  SiteInv'
<1>1. HistoryInv' /\ TreeInv' /\ KernelInv
  BY HistoryStep, TreeStep DEF SiteInv, HistoryInv, FineInv, LedgerInv
<1>2. CASE Wait
  <2>1. events' = events /\ db' = db /\ txn' = txn
    BY <1>2 DEF Wait
  <2> QED
    BY <1>1, <2>1 DEF SiteInv, Committed, CommittedLog
<1>3. CASE SubmitBase
  BY <1>1, <1>3, SubmitBaseSite
<1>4. CASE Rescind \/ Correct \/ StatusCorrection \/ RescindUnit
  BY <1>1, <1>4, CorrectionsBeginFine, BeginRebuildSite
<1>5. CASE ReplayStep
  BY <1>1, <1>5, ReplayStepSite
<1>6. CASE NextTarget
  BY <1>1, <1>6, NextTargetSite
<1>7. CASE Commit
  BY <1>1, <1>7, CommitSite
<1>8. CASE Abort
  <2>1. /\ txn.open /\ events' = txn.savedEvents /\ db' = txn.saved
        /\ ~txn'.open /\ txn'.savedEvents = <<>>
    BY <1>8 DEF Abort, NoTxn
  <2> QED
    BY <1>1, <2>1, EmptySite DEF SiteInv, Committed, CommittedLog
<1>9. CASE UNCHANGED vars
  BY <1>1, <1>9 DEF vars, SiteInv, Committed, CommittedLog
<1> QED
  BY <1>2, <1>3, <1>4, <1>5, <1>6, <1>7, <1>8, <1>9 DEF Next

LEMMA SiteInit == Init => SiteInv
<1> SUFFICES ASSUME Init PROVE SiteInv
  OBVIOUS
<1>1. /\ ~txn.open /\ events = <<>> /\ db.versions = {} /\ txn.savedEvents = <<>>
  BY DEF Init, NoTxn, EmptyProjection
<1>2. \A log : Sited(log, {})
  BY DEF Sited, Housed
<1> QED
  BY <1>1, <1>2, HistoryInit, TreeInit, EmptySite DEF SiteInv, CommittedLog, Committed

(* Whatever is moved, corrected and rescinded, and whenever a rebuild      *)
(* fails: as long as only units move that no event names as a parent, a    *)
(* parent exists on every day on which it has a child.                     *)
THEOREM ParentsAlwaysExist == Spec => []ParentsExist
<1>1. Init => SiteInv
  BY SiteInit
<1>2. SiteInv /\ [Next]_vars => SiteInv'
  BY SiteStep
<1>3. SiteInv => ParentsExist
  BY FitsParentsExist
<1> QED
  BY <1>1, <1>2, <1>3, PTL DEF Spec
=============================================================================
