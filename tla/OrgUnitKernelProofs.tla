------------------------ MODULE OrgUnitKernelProofs ------------------------
(***************************************************************************)
(* Theorems about the OrgUnit kernel, for any number of units, days,       *)
(* names, codes and events.                                                *)
(*                                                                         *)
(* The first half is about the functions that write the projection: they   *)
(* preserve the types of the columns, and version rows that never overlap, *)
(* leave no gap and reach infinity.  ApplyGood puts the facts about single *)
(* functions together, for one turn of the replay loop.  The second half   *)
(* is the inductive invariant of the kernel.                               *)
(***************************************************************************)
EXTENDS OrgUnitProperties, SequenceTheorems, FiniteSetTheorems, TLAPS

Good(p) == ProjectionOK(p) /\ WellFormed(p.versions)

RowsOK(V) == \A v \in V : RowOK(v)

(* Two rows with the same node and the same days. *)
SameSpan(v, w) == v.node = w.node /\ v.from = w.from /\ v.to = w.to

LEMMA DatesAreInts == Dates \subseteq Int /\ Infinity \in Int
                      /\ \A d \in Dates : d < Infinity
  BY DatesAssumption DEF Dates, Infinity

(* RowAt chooses a row of the table as long as one exists. *)
LEMMA RowAtExists ==
  ASSUME NEW V, NEW n, NEW d, ExistsAt(V, n, d)
  PROVE  /\ RowAt(V, n, d) \in V
         /\ RowAt(V, n, d).node = n
         /\ Covers(RowAt(V, n, d), d)
  BY DEF ExistsAt, RowAt

(***************************************************************************)
(* split_org_unit_version_at.  A row of the split table comes from a row of*)
(* the old one: it is that row, or the part of it before or from d.        *)
(***************************************************************************)
Lower(v, d) == [v EXCEPT !.to = d]
Upper(v, d) == [v EXCEPT !.from = d]

IsCut(v, S, d) == v \in S /\ Covers(v, d) /\ v.from < d

LEMMA CutRows ==
  ASSUME NEW v, NEW d \in Dates, RowOK(v)
  PROVE  /\ RowOK(Lower(v, d)) /\ RowOK(Upper(v, d))
         /\ SameSpan(Lower(v, d), [node |-> v.node, from |-> v.from, to |-> d])
         /\ SameSpan(Upper(v, d), [node |-> v.node, from |-> d, to |-> v.to])
  BY DEF RowOK, Columns, Lower, Upper, SameSpan

LEMMA SplitMembers ==
  ASSUME NEW V, NEW S \in SUBSET V, NEW d, NEW w
  PROVE  w \in SplitAt(V, S, d) <=>
           \E v \in V : \/ w = v /\ ~IsCut(v, S, d)
                        \/ w = Lower(v, d) /\ IsCut(v, S, d)
                        \/ w = Upper(v, d) /\ IsCut(v, S, d)
  BY DEF SplitAt, Lower, Upper, IsCut

LEMMA SplitRowsOK ==
  ASSUME NEW V, NEW S \in SUBSET V, NEW d \in Dates, RowsOK(V)
  PROVE  RowsOK(SplitAt(V, S, d))
<1>1. \A v \in V : RowOK(v) /\ RowOK(Lower(v, d)) /\ RowOK(Upper(v, d))
  BY CutRows DEF RowsOK
<1> QED
  BY <1>1, SplitMembers DEF RowsOK

LEMMA SplitWellFormed ==
  ASSUME NEW V, NEW S \in SUBSET V, NEW d \in Dates, RowsOK(V), WellFormed(V)
  PROVE  WellFormed(SplitAt(V, S, d))
<1> DEFINE W == SplitAt(V, S, d)
<1>1. \A v \in V : v.from \in Int /\ v.to \in Int /\ v.from < v.to
  BY DatesAreInts DEF RowsOK, RowOK, WellFormed, NonEmptyRows
<1>2. d \in Int
  BY DatesAreInts
<1>3. \A v \in V : IsCut(v, S, d) => v.from < d /\ d < v.to
  BY DEF IsCut, Covers
<1>4. \A v \in V : /\ Lower(v, d).node = v.node
                   /\ Lower(v, d).from = v.from
                   /\ Lower(v, d).to = d
                   /\ Upper(v, d).node = v.node
                   /\ Upper(v, d).from = d
                   /\ Upper(v, d).to = v.to
  BY CutRows DEF RowsOK, SameSpan
<1>5. NonEmptyRows(W)
  BY <1>1, <1>2, <1>3, <1>4, SplitMembers DEF NonEmptyRows
<1>6. NoOverlap(W)
  <2> SUFFICES ASSUME NEW w \in W, NEW x \in W, w.node = x.node
               PROVE  w = x \/ w.to <= x.from \/ x.to <= w.from
    BY DEF NoOverlap
  <2>1. PICK v \in V : \/ w = v /\ ~IsCut(v, S, d)
                       \/ w = Lower(v, d) /\ IsCut(v, S, d)
                       \/ w = Upper(v, d) /\ IsCut(v, S, d)
    BY SplitMembers
  <2>2. PICK u \in V : \/ x = u /\ ~IsCut(u, S, d)
                       \/ x = Lower(u, d) /\ IsCut(u, S, d)
                       \/ x = Upper(u, d) /\ IsCut(u, S, d)
    BY SplitMembers
  <2>3. v.node = u.node => v = u \/ v.to <= u.from \/ u.to <= v.from
    BY DEF WellFormed, NoOverlap
  <2>4. CASE v = u
    BY <2>1, <2>2, <2>4, <1>1, <1>2, <1>3, <1>4
  <2>5. CASE v # u
    BY <2>1, <2>2, <2>3, <2>5, <1>1, <1>2, <1>3, <1>4
  <2> QED
    BY <2>4, <2>5
<1>7. ASSUME NEW v \in V
      PROVE  \E w \in W : w.node = v.node /\ w.from = v.from
  BY <1>4, SplitMembers
<1>8. NoGap(W)
  <2> SUFFICES ASSUME NEW w \in W, w.to # Infinity
               PROVE  \E x \in W : x.node = w.node /\ x.from = w.to
    BY DEF NoGap
  <2>1. PICK v \in V : \/ w = v /\ ~IsCut(v, S, d)
                       \/ w = Lower(v, d) /\ IsCut(v, S, d)
                       \/ w = Upper(v, d) /\ IsCut(v, S, d)
    BY SplitMembers
  <2>2. CASE w = Lower(v, d) /\ IsCut(v, S, d)
    <3>1. Upper(v, d) \in W
      BY <2>2, SplitMembers
    <3> QED
      BY <3>1, <2>2, <1>4
  <2>3. CASE w.to = v.to /\ w.node = v.node
    <3>1. PICK u \in V : u.node = v.node /\ u.from = v.to
      BY <2>3 DEF WellFormed, NoGap
    <3> QED
      BY <3>1, <2>3, <1>7
  <2> QED
    BY <2>1, <2>2, <2>3, <1>4
<1> QED
  BY <1>5, <1>6, <1>8 DEF WellFormed

(***************************************************************************)
(* Updates of columns other than the node and its days.                    *)
(***************************************************************************)
LEMMA SameSpansWellFormed ==
  ASSUME NEW V, NEW g, WellFormed(V), \A v \in V : SameSpan(g[v], v)
  PROVE  WellFormed({g[v] : v \in V})
<1>1. NonEmptyRows({g[v] : v \in V})
  BY DEF WellFormed, NonEmptyRows, SameSpan
<1>2. NoOverlap({g[v] : v \in V})
  BY DEF WellFormed, NoOverlap, SameSpan
<1>3. NoGap({g[v] : v \in V})
  <2> SUFFICES ASSUME NEW v \in V, v.to # Infinity
               PROVE  \E x \in {g[u] : u \in V} : x.node = g[v].node /\ x.from = g[v].to
    BY DEF NoGap, SameSpan
  <2>1. PICK u \in V : u.node = v.node /\ u.from = v.to
    BY DEF WellFormed, NoGap
  <2> QED
    BY <2>1 DEF SameSpan
<1> QED
  BY <1>1, <1>2, <1>3 DEF WellFormed

LEMMA RemoveWellFormed ==
  ASSUME NEW V, NEW n, WellFormed(V)
  PROVE  WellFormed(V \ RowsOf(V, n))
  BY DEF WellFormed, NonEmptyRows, NoOverlap, NoGap, RowsOf

(* The first row of a node. *)
LEMMA InsertWellFormed ==
  ASSUME NEW V, WellFormed(V), NEW r, r.from < r.to, r.to = Infinity,
         RowsOf(V, r.node) = {}
  PROVE  WellFormed(V \cup {r})
<1>1. \A v \in V : v.node # r.node
  BY DEF RowsOf
<1> QED
  BY <1>1 DEF WellFormed, NonEmptyRows, NoOverlap, NoGap

(***************************************************************************)
(* The keys of a payload, and those an event type cannot do without.       *)
(***************************************************************************)
PayloadOK(p) ==
  /\ Carries(p, "name") => p["name"] \in Names
  /\ Carries(p, "new_name") => p["new_name"] \in Names
  /\ Carries(p, "parent_org_node_key") => p["parent_org_node_key"] \in Nodes
  /\ Carries(p, "new_parent_org_node_key") => p["new_parent_org_node_key"] \in Nodes
  /\ Carries(p, "status") => p["status"] \in Statuses
  /\ Carries(p, "is_business_unit") => p["is_business_unit"] \in BOOLEAN
  /\ Carries(p, "effective_date") => p["effective_date"] \in Dates
  /\ Carries(p, "org_code") => p["org_code"] \in Codes

Complete(type, p) ==
  /\ type = "CREATE" => Carries(p, "name")
  /\ type = "MOVE" => Carries(p, "new_parent_org_node_key")
  /\ type = "RENAME" => Carries(p, "new_name")
  /\ type = "SET_BUSINESS_UNIT" => Carries(p, "is_business_unit")

(***************************************************************************)
(* The apply functions.                                                    *)
(***************************************************************************)
LEMMA GoodParts ==
  ASSUME NEW p
  PROVE  Good(p) <=> /\ DOMAIN p = {"versions", "root", "codes"}
                     /\ RowsOK(p.versions)
                     /\ WellFormed(p.versions)
                     /\ p.root \in Nodes \cup {NoNode}
                     /\ p.codes \subseteq Nodes \X Codes
  BY DEF Good, ProjectionOK, RowsOK

LEMMA NewVersionsGood ==
  ASSUME NEW p, Good(p), NEW V, RowsOK(V), WellFormed(V)
  PROVE  Good([p EXCEPT !.versions = V])
  BY GoodParts

LEMMA NewRowOK ==
  ASSUME NEW n \in Nodes, NEW parent \in Nodes \cup {NoNode}, NEW path \in Seq(Nodes),
         NEW d \in Dates, NEW payload, PayloadOK(payload), Carries(payload, "name"),
         NEW bu \in BOOLEAN
  PROVE  RowOK(NewRow(n, parent, path, d, payload, bu))
<1>1. payload.name \in Names
  BY DEF PayloadOK
<1>2. Field(payload, "status", "active") \in Statuses
  BY DEF PayloadOK, Field, Statuses
<1>3. <<payload.name>> \in [DOMAIN <<payload.name>> -> Names]
  BY <1>1
<1> QED
  BY <1>1, <1>2, <1>3, DatesAreInts DEF NewRow, RowOK, Columns

LEMMA CreateCodesOK ==
  ASSUME NEW codes \in SUBSET (Nodes \X Codes), NEW n \in Nodes, NEW payload,
         PayloadOK(payload)
  PROVE  CreateCodes(codes, n, payload) \subseteq Nodes \X Codes
  BY DEF CreateCodes, PayloadOK, Carries

LEMMA ApplyCreateGood ==
  ASSUME NEW db0, Good(db0), NEW n \in Nodes, NEW d \in Dates, NEW payload,
         PayloadOK(payload), Carries(payload, "name"),
         NEW after \in ApplyCreate(db0, n, d, payload)
  PROVE  Good(after)
<1> DEFINE p == Field(payload, "parent_org_node_key", NoNode)
           bu == Field(payload, "is_business_unit", FALSE)
<1>1. RowsOf(db0.versions, n) = {}
  BY DEF ApplyCreate
<1>2. p \in Nodes \cup {NoNode} /\ bu \in BOOLEAN
  BY DEF Field, PayloadOK
<1>3. CreateCodes(db0.codes, n, payload) \subseteq Nodes \X Codes
  BY CreateCodesOK, GoodParts
<1>4. ASSUME NEW r, RowOK(r), r.node = n, r.from < r.to, r.to = Infinity
      PROVE  RowsOK(db0.versions \cup {r}) /\ WellFormed(db0.versions \cup {r})
  BY <1>1, <1>4, GoodParts, InsertWellFormed DEF RowsOK
<1>5. CASE p = NoNode
  <2> DEFINE r == NewRow(n, NoNode, <<n>>, d, payload, TRUE)
  <2>1. RowOK(r) /\ r.node = n /\ r.from < r.to /\ r.to = Infinity
    <3>1. <<n>> \in Seq(Nodes) /\ NoNode \in Nodes \cup {NoNode} /\ TRUE \in BOOLEAN
      OBVIOUS
    <3>2. RowOK(r)
      BY <3>1, NewRowOK
    <3> QED
      BY <3>2, DatesAreInts DEF NewRow
  <2>2. after = [versions |-> db0.versions \cup {r}, root |-> n,
                 codes |-> CreateCodes(db0.codes, n, payload)]
    BY <1>5 DEF ApplyCreate, CreateRoot
  <2> HIDE DEF r
  <2> QED
    BY <2>1, <2>2, <1>3, <1>4, GoodParts
<1>6. CASE p # NoNode
  <2>1. PICK parent \in ActiveParents(db0.versions, p, d) :
          after = [db0 EXCEPT
            !.versions = @ \cup {NewRow(n, p, Append(parent.path, n), d, payload, bu)},
            !.codes = CreateCodes(@, n, payload)]
    BY <1>6 DEF ApplyCreate, CreateChild
  <2> DEFINE r == NewRow(n, p, Append(parent.path, n), d, payload, bu)
  <2>2. parent.path \in Seq(Nodes)
    BY GoodParts DEF ActiveParents, RowsOK, RowOK
  <2>3. Append(parent.path, n) \in Seq(Nodes)
    BY <2>2, AppendProperties
  <2>4. RowOK(r) /\ r.node = n /\ r.from < r.to /\ r.to = Infinity
    <3> HIDE DEF p, bu
    <3>1. RowOK(r)
      BY <2>3, <1>2, NewRowOK
    <3> QED
      BY <3>1, DatesAreInts DEF NewRow
  <2> HIDE DEF r, p, bu
  <2>5. after = [db0 EXCEPT !.versions = @ \cup {r},
                            !.codes = CreateCodes(@, n, payload)]
    BY <2>1 DEF r
  <2> QED
    BY <2>4, <2>5, <1>3, <1>4, GoodParts
<1> QED
  BY <1>5, <1>6

LEMMA SplitNodeGood ==
  ASSUME NEW V, NEW n, NEW d \in Dates, RowsOK(V), WellFormed(V)
  PROVE  RowsOK(SplitNode(V, n, d)) /\ WellFormed(SplitNode(V, n, d))
<1>1. RowsOf(V, n) \in SUBSET V
  BY DEF RowsOf
<1> QED
  BY <1>1, SplitRowsOK, SplitWellFormed DEF SplitNode

(* A column gets a new value in some of the rows. *)
LEMMA UpdateRows ==
  ASSUME NEW V, RowsOK(V), WellFormed(V), NEW g,
         \A v \in V : RowOK(g[v]) /\ SameSpan(g[v], v)
  PROVE  RowsOK({g[v] : v \in V}) /\ WellFormed({g[v] : v \in V})
  BY SameSpansWellFormed DEF RowsOK

LEMMA ApplyRenameGood ==
  ASSUME NEW db0, Good(db0), NEW n, NEW d \in Dates, NEW name \in Names, NEW stop,
         NEW after \in ApplyRename(db0, n, d, name, stop)
  PROVE  Good(after)
<1> DEFINE V == SplitNode(db0.versions, n, d)
           g == [v \in V |-> IF StartsIn(v, n, d, stop)
                             THEN [v EXCEPT !.name = name] ELSE v]
<1>1. RowsOK(V) /\ WellFormed(V)
  BY SplitNodeGood, GoodParts
<1>2. \A v \in V : RowOK(g[v]) /\ SameSpan(g[v], v)
  BY <1>1 DEF RowsOK, RowOK, Columns, SameSpan
<1>3. after = [db0 EXCEPT !.versions = {g[v] : v \in V}]
  BY DEF ApplyRename
<1> HIDE DEF V, g
<1> QED
  BY <1>1, <1>2, <1>3, UpdateRows, NewVersionsGood

LEMMA ApplySetBusinessUnitGood ==
  ASSUME NEW db0, Good(db0), NEW n, NEW d \in Dates, NEW bu \in BOOLEAN, NEW stop,
         NEW after \in ApplySetBusinessUnit(db0, n, d, bu, stop)
  PROVE  Good(after)
<1> DEFINE V == SplitNode(db0.versions, n, d)
           g == [v \in V |-> IF StartsIn(v, n, d, stop)
                             THEN [v EXCEPT !.bu = bu] ELSE v]
<1>1. RowsOK(V) /\ WellFormed(V)
  BY SplitNodeGood, GoodParts
<1>2. \A v \in V : RowOK(g[v]) /\ SameSpan(g[v], v)
  BY <1>1 DEF RowsOK, RowOK, Columns, SameSpan
<1>3. after = [db0 EXCEPT !.versions = {g[v] : v \in V}]
  BY DEF ApplySetBusinessUnit
<1> HIDE DEF V, g
<1> QED
  BY <1>1, <1>2, <1>3, UpdateRows, NewVersionsGood

LEMMA ApplyStatusGood ==
  ASSUME NEW db0, Good(db0), NEW n, NEW d \in Dates, NEW status \in Statuses,
         NEW after \in ApplyStatus(db0, n, d, status)
  PROVE  Good(after)
<1> DEFINE V == SplitNode(db0.versions, n, d)
           g == [v \in V |-> IF StartsIn(v, n, d, Infinity)
                             THEN [v EXCEPT !.status = status] ELSE v]
<1>1. RowsOK(V) /\ WellFormed(V)
  BY SplitNodeGood, GoodParts
<1>2. \A v \in V : RowOK(g[v]) /\ SameSpan(g[v], v)
  BY <1>1 DEF RowsOK, RowOK, Columns, SameSpan
<1>3. after = [db0 EXCEPT !.versions = {g[v] : v \in V}]
  BY DEF ApplyStatus
<1> HIDE DEF V, g
<1> QED
  BY <1>1, <1>2, <1>3, UpdateRows, NewVersionsGood

LEMMA RebaseOK ==
  ASSUME NEW v, RowOK(v), NEW n, NEW p \in Nodes, NEW oldPath \in Seq(Nodes),
         NEW prefix \in Seq(Nodes)
  PROVE  RowOK(Rebase(v, n, p, oldPath, prefix)) /\ SameSpan(Rebase(v, n, p, oldPath, prefix), v)
<1> DEFINE rest == SubSeq(v.path, Len(oldPath) + 1, Len(v.path))
<1>1. Len(oldPath) \in Nat /\ Len(v.path) \in Nat
  BY LenProperties DEF RowOK
<1>2. \A i \in (Len(oldPath) + 1) .. Len(v.path) : v.path[i] \in Nodes
  BY <1>1, ElementOfSeq DEF RowOK
<1>3. rest \in Seq(Nodes)
  BY <1>1, <1>2, SubSeqProperties
<1>4. prefix \o rest \in Seq(Nodes)
  BY <1>3, ConcatProperties
<1> HIDE DEF rest
<1>5. Rebase(v, n, p, oldPath, prefix) = IF v.node = n
          THEN [v EXCEPT !.parent = p, !.path = prefix]
          ELSE [v EXCEPT !.path = prefix \o rest]
  BY DEF Rebase, rest
<1> QED
  BY <1>4, <1>5 DEF RowOK, Columns, SameSpan

LEMMA ApplyMoveGood ==
  ASSUME NEW db0, Good(db0), NEW n \in Nodes, NEW p \in Nodes, NEW d \in Dates,
         NEW after \in ApplyMove(db0, n, p, d)
  PROVE  Good(after)
<1> DEFINE V0 == db0.versions
           oldPath == RowAt(V0, n, d).path
           prefix == Append(RowAt(V0, p, d).path, n)
           V == SplitAt(V0, RowsUnder(V0, oldPath), d)
           g == [v \in V |-> IF Under(v.path, oldPath) /\ d <= v.from
                             THEN Rebase(v, n, p, oldPath, prefix) ELSE v]
<1>1. ExistsAt(V0, n, d) /\ ExistsAt(V0, p, d)
  BY DEF ApplyMove, MoveAllowed
<1>2. RowOK(RowAt(V0, n, d)) /\ RowOK(RowAt(V0, p, d))
  BY <1>1, RowAtExists, GoodParts DEF RowsOK
<1>3. oldPath \in Seq(Nodes) /\ prefix \in Seq(Nodes)
  BY <1>2, AppendProperties DEF RowOK
<1>4. RowsOK(V) /\ WellFormed(V)
  <2>1. RowsUnder(V0, oldPath) \in SUBSET V0
    BY DEF RowsUnder
  <2> QED
    BY <2>1, GoodParts, SplitRowsOK, SplitWellFormed
<1>5. after = [db0 EXCEPT !.versions = {g[v] : v \in V}]
  BY DEF ApplyMove, MoveRows
<1> HIDE DEF V, oldPath, prefix
<1>6. \A v \in V : RowOK(g[v]) /\ SameSpan(g[v], v)
  BY <1>3, <1>4, RebaseOK DEF RowsOK, SameSpan
<1> HIDE DEF g
<1> QED
  BY <1>4, <1>5, <1>6, UpdateRows, NewVersionsGood

(***************************************************************************)
(* UPDATE runs up to four of the functions, one after the other.           *)
(***************************************************************************)
LEMMA NewNameOK ==
  ASSUME NEW payload, PayloadOK(payload), CarriesName(payload)
  PROVE  NewName(payload) \in Names
  BY DEF PayloadOK, CarriesName, NewName

LEMMA NewParentOK ==
  ASSUME NEW payload, PayloadOK(payload), CarriesParent(payload)
  PROVE  NewParent(payload) \in Nodes
  BY DEF PayloadOK, CarriesParent, NewParent

LEMMA ApplyUpdateGood ==
  ASSUME NEW log, NEW db0, Good(db0), NEW n \in Nodes, NEW d \in Dates, NEW payload,
         PayloadOK(payload), NEW after \in ApplyUpdate(log, db0, n, d, payload)
  PROVE  Good(after)
<1> DEFINE bu == payload["is_business_unit"]
           flagStop == StopDate(log, n, "SET_BUSINESS_UNIT", d)
           nameStop == StopDate(log, n, "RENAME", d)
           moved == IF CarriesParent(payload)
                    THEN ApplyMove(db0, n, NewParent(payload), d) ELSE {db0}
           switched == IF Carries(payload, "status")
                       THEN UNION {ApplyStatus(b, n, d, payload["status"]) : b \in moved}
                       ELSE moved
           classified == IF Carries(payload, "is_business_unit")
                         THEN UNION {ApplySetBusinessUnit(b, n, d, bu, flagStop)
                                     : b \in switched}
                         ELSE switched
           renamed == IF CarriesName(payload)
                      THEN UNION {ApplyRename(b, n, d, NewName(payload), nameStop)
                                  : b \in classified}
                      ELSE classified
<1>1. after \in renamed
  BY DEF ApplyUpdate, OnEach
<1>2. \A b \in moved : Good(b)
  BY NewParentOK, ApplyMoveGood
<1> HIDE DEF moved
<1>3. \A b \in switched : Good(b)
  <2>1. Carries(payload, "status") => payload["status"] \in Statuses
    BY DEF PayloadOK
  <2> QED
    BY <1>2, <2>1, ApplyStatusGood
<1> HIDE DEF switched
<1>4. \A b \in classified : Good(b)
  <2>1. Carries(payload, "is_business_unit") => bu \in BOOLEAN
    BY DEF PayloadOK
  <2> HIDE DEF bu, flagStop
  <2> QED
    BY <1>3, <2>1, ApplySetBusinessUnitGood
<1> HIDE DEF classified
<1>5. \A b \in renamed : Good(b)
  <2> HIDE DEF nameStop
  <2> QED
    BY <1>4, NewNameOK, ApplyRenameGood
<1> QED
  BY <1>1, <1>5

(***************************************************************************)
(* rebuild_full_name_path_subtree.                                         *)
(***************************************************************************)
LEMMA NamesOfOK ==
  ASSUME NEW V, RowsOK(V), NEW path, NEW d
  PROVE  NamesOf(V, path, d) \in [DOMAIN NamesOf(V, path, d) -> Names]
<1>1. \A i \in Present(V, path, d) : RowAt(V, path[i], d).name \in Names
  BY RowAtExists DEF Present, RowsOK, RowOK
<1> QED
  BY <1>1 DEF NamesOf

LEMMA RebuildFullNamesGood ==
  ASSUME NEW db0, Good(db0), NEW n, NEW d
  PROVE  Good(RebuildFullNames(db0, n, d))
<1> DEFINE V == db0.versions
           path == RowAt(V, n, d).path
           g == [v \in V |-> IF Under(v.path, path) /\ d <= v.from
                             THEN [v EXCEPT !.full = NamesOf(V, v.path, v.from)]
                             ELSE v]
<1>1. RowsOK(V) /\ WellFormed(V)
  BY GoodParts
<1>2. \A v \in V : RowOK(g[v]) /\ SameSpan(g[v], v)
  BY <1>1, NamesOfOK DEF RowsOK, RowOK, Columns, SameSpan
<1>3. RebuildFullNames(db0, n, d) = IF ~ExistsAt(V, n, d) THEN db0
                                    ELSE [db0 EXCEPT !.versions = {g[v] : v \in V}]
  BY DEF RebuildFullNames
<1> HIDE DEF V, g
<1> QED
  BY <1>1, <1>2, <1>3, UpdateRows, NewVersionsGood

(***************************************************************************)
(* One turn of the replay loop.                                            *)
(***************************************************************************)
LEMMA ApplyLogicGood ==
  ASSUME NEW log, NEW db0, Good(db0), NEW n \in Nodes, NEW type \in BaseTypes,
         NEW d \in Dates, NEW payload, PayloadOK(payload), Complete(type, payload),
         NEW after \in ApplyLogic(log, db0, n, type, d, payload)
  PROVE  Good(after)
<1>1. CASE type = "CREATE"
  BY <1>1, ApplyCreateGood DEF ApplyLogic, Complete
<1>2. CASE type = "UPDATE"
  BY <1>2, ApplyUpdateGood DEF ApplyLogic
<1>3. CASE type = "MOVE"
  <2>1. payload["new_parent_org_node_key"] \in Nodes
    BY <1>3 DEF Complete, PayloadOK
  <2> QED
    BY <1>3, <2>1, ApplyMoveGood DEF ApplyLogic
<1>4. CASE type = "RENAME"
  <2>1. payload["new_name"] \in Names
    BY <1>4 DEF Complete, PayloadOK
  <2> QED
    BY <1>4, <2>1, ApplyRenameGood DEF ApplyLogic
<1>5. CASE type \in {"DISABLE", "ENABLE"}
  BY <1>5, ApplyStatusGood DEF ApplyLogic, Statuses
<1>6. CASE type = "SET_BUSINESS_UNIT"
  <2>1. payload["is_business_unit"] \in BOOLEAN
    BY <1>6 DEF Complete, PayloadOK
  <2> QED
    BY <1>6, <2>1, ApplySetBusinessUnitGood DEF ApplyLogic
<1> QED
  BY <1>1, <1>2, <1>3, <1>4, <1>5, <1>6 DEF BaseTypes

LEMMA ApplyGood ==
  ASSUME NEW log, NEW db0, Good(db0), NEW n \in Nodes, NEW type \in BaseTypes,
         NEW d \in Dates, NEW payload, PayloadOK(payload), Complete(type, payload),
         NEW after \in Apply(log, db0, n, type, d, payload)
  PROVE  Good(after)
  BY ApplyLogicGood, RebuildFullNamesGood DEF Apply

LEMMA WithoutNodeGood ==
  ASSUME NEW p, Good(p), NEW n
  PROVE  Good(WithoutNode(p, n))
  BY GoodParts, RemoveWellFormed DEF WithoutNode, RowsOK

LEMMA EmptyGood == Good(EmptyProjection)
  BY GoodParts DEF EmptyProjection, RowsOK, WellFormed, NonEmptyRows, NoOverlap, NoGap

(***************************************************************************)
(* Numbers and finite sequences.                                           *)
(***************************************************************************)
LEMMA LeastNat ==
  ASSUME NEW T, T \subseteq Nat, T # {}
  PROVE  \E x \in T : \A y \in T : x <= y
<1> DEFINE R == {ss \in Nat \X Nat : ss[1] < ss[2]}
<1>1. IsWellFoundedOn(R, Nat)
  BY NatLessThanWellFounded DEF OpToRel
<1>2. PICK x \in T : \A y \in T : <<y, x>> \notin R
  <2> HIDE DEF R
  <2> QED
    BY <1>1, WFMin
<1>3. ASSUME NEW y \in T
      PROVE  x <= y
  <2>1. <<y, x>> \in Nat \X Nat
    OBVIOUS
  <2>2. y < x => <<y, x>> \in R
    BY <2>1
  <2> QED
    BY <1>2, <2>2
<1> QED
  BY <1>3

(* A bounded set of numbers has a greatest element. *)
LEMMA MaxNat ==
  ASSUME NEW T, T \subseteq Nat, T # {}, NEW bound \in Nat, \A t \in T : t <= bound
  PROVE  Max(T) \in T /\ \A t \in T : t <= Max(T)
<1> DEFINE B == {m \in Nat : \A t \in T : t <= m}
<1>1. PICK m \in B : \A k \in B : m <= k
  <2>1. B \subseteq Nat /\ B # {}
    OBVIOUS
  <2> HIDE DEF B
  <2> QED
    BY <2>1, LeastNat
<1>2. m \in T
  <2> SUFFICES ASSUME m \notin T PROVE FALSE
    OBVIOUS
  <2>1. \A t \in T : t <= m - 1
    OBVIOUS
  <2>2. PICK t \in T : t <= m - 1
    BY <2>1
  <2>3. m - 1 \in Nat
    BY <2>2
  <2> QED
    BY <1>1, <2>1, <2>3
<1>3. \E x \in T : \A t \in T : x >= t
  BY <1>2
<1>4. Max(T) \in T /\ \A t \in T : Max(T) >= t
  BY <1>3 DEF Max
<1> QED
  BY <1>4

(***************************************************************************)
(* The log.                                                                *)
(***************************************************************************)
EventOK(e) ==
  /\ e.node \in Nodes
  /\ e.type \in BaseTypes \cup CorrectionTypes
  /\ e.date \in Dates
  /\ e.target \in Nat
  /\ e.time \in Nat
  /\ PayloadOK(e.payload)
  /\ Complete(e.type, e.payload)

Elements(log) == {log[i] : i \in DOMAIN log}

LogOK(log) ==
  /\ log \in Seq(Elements(log))
  /\ \A i \in DOMAIN log : EventOK(log[i]) /\ log[i].target < i
  /\ \E bound \in Nat : \A i \in DOMAIN log : log[i].time <= bound

LEMMA LogShape ==
  ASSUME NEW log, LogOK(log)
  PROVE  Len(log) \in Nat /\ DOMAIN log = 1 .. Len(log)
  BY LenProperties DEF LogOK

LEMMA AppendShape ==
  ASSUME NEW log, LogOK(log), NEW e
  PROVE  /\ Append(log, e) \in Seq(Elements(Append(log, e)))
         /\ Len(Append(log, e)) = Len(log) + 1
         /\ DOMAIN Append(log, e) = 1 .. (Len(log) + 1)
         /\ \A i \in DOMAIN log : Append(log, e)[i] = log[i]
         /\ Append(log, e)[Len(log) + 1] = e
<1> DEFINE new == Append(log, e)
           S == Elements(log) \cup {e}
<1>1. log \in Seq(S) /\ e \in S
  BY SeqMonotonic DEF LogOK
<1>2. Len(log) \in Nat /\ DOMAIN log = 1 .. Len(log)
  BY LogShape
<1> HIDE DEF S
<1>3. /\ new \in Seq(S)
      /\ Len(new) = Len(log) + 1
      /\ \A i \in 1 .. Len(log) : new[i] = log[i]
      /\ new[Len(log) + 1] = e
  BY <1>1, AppendProperties
<1> HIDE DEF new
<1>4. DOMAIN new = 1 .. (Len(log) + 1)
  BY <1>3, LenProperties
<1>5. new \in Seq(Elements(new))
  <2>1. new \in [1 .. Len(new) -> S]
    BY <1>3, LenProperties
  <2>2. new \in [1 .. Len(new) -> Elements(new)]
    BY <2>1 DEF Elements
  <2>3. Len(new) \in Nat
    BY <1>3, LenProperties
  <2> QED
    BY <2>2, <2>3, SeqDef
<1> QED
  BY <1>2, <1>3, <1>4, <1>5 DEF new

LEMMA AppendOK ==
  ASSUME NEW log, LogOK(log), NEW e, EventOK(e), e.target <= Len(log)
  PROVE  LogOK(Append(log, e))
<1> DEFINE new == Append(log, e)
<1>1. /\ new \in Seq(Elements(new))
      /\ DOMAIN new = 1 .. (Len(log) + 1)
      /\ \A i \in DOMAIN log : new[i] = log[i]
      /\ new[Len(log) + 1] = e
  BY AppendShape
<1>2. Len(log) \in Nat /\ DOMAIN log = 1 .. Len(log)
  BY LogShape
<1> HIDE DEF new
<1>3. ASSUME NEW i \in DOMAIN new
      PROVE  EventOK(new[i]) /\ new[i].target < i
  <2>1. CASE i \in DOMAIN log
    BY <2>1, <1>1 DEF LogOK
  <2>2. CASE i = Len(log) + 1
    BY <2>2, <1>1, <1>2 DEF EventOK
  <2> QED
    BY <2>1, <2>2, <1>1, <1>2
<1>4. PICK bound \in Nat : \A i \in DOMAIN log : log[i].time <= bound
  BY DEF LogOK
<1>5. \A i \in DOMAIN new : new[i].time <= bound + e.time
  <2> SUFFICES ASSUME NEW i \in DOMAIN new
               PROVE  new[i].time <= bound + e.time
    OBVIOUS
  <2>1. CASE i \in DOMAIN log
    BY <2>1, <1>1, <1>4 DEF LogOK, EventOK
  <2>2. CASE i = Len(log) + 1
    BY <2>2, <1>1, <1>4 DEF EventOK
  <2> QED
    BY <2>1, <2>2, <1>1, <1>2
<1>6. bound + e.time \in Nat
  BY DEF EventOK
<1> QED
  BY <1>1, <1>3, <1>5, <1>6 DEF LogOK, new

(* One of the corrections of an event is the newest. *)
LEMMA LatestExists ==
  ASSUME NEW log, LogOK(log), NEW J \in SUBSET (DOMAIN log), J # {}
  PROVE  Latest(log, J) \in J
<1> DEFINE T == {log[j].time : j \in J}
           t == Max(T)
           K == {j \in J : log[j].time = t}
           k == Max(K)
<1>1. Len(log) \in Nat /\ DOMAIN log = 1 .. Len(log)
  BY LogShape
<1>2. \A j \in J : log[j].time \in Nat
  BY DEF LogOK, EventOK
<1>3. t \in T /\ \A u \in T : u <= t
  <2>1. PICK bound \in Nat : \A i \in DOMAIN log : log[i].time <= bound
    BY DEF LogOK
  <2>2. T \subseteq Nat /\ T # {} /\ \A u \in T : u <= bound
    BY <1>2, <2>1
  <2> HIDE DEF T
  <2> QED
    BY <2>2, MaxNat
<1> HIDE DEF t
<1>4. k \in K /\ \A j \in K : j <= k
  <2>1. K \subseteq Nat /\ K # {} /\ \A j \in K : j <= Len(log)
    BY <1>1, <1>3
  <2> HIDE DEF K
  <2> QED
    BY <2>1, <1>1, MaxNat
<1> HIDE DEF k
<1>5. ASSUME NEW j \in J
      PROVE  Newer(log, k, j)
  <2>1. log[j].time <= t /\ log[k].time = t /\ k \in Nat /\ j \in Nat
    BY <1>1, <1>3, <1>4
  <2>2. log[j].time = t => j <= k
    BY <1>4
  <2> QED
    BY <2>1, <2>2, <1>2, <1>4 DEF Newer
<1>6. k \in J
  BY <1>4
<1> QED
  BY <1>5, <1>6 DEF Latest

(***************************************************************************)
(* The views.                                                              *)
(***************************************************************************)
LEMMA CorrectionOK ==
  ASSUME NEW log, LogOK(log), NEW i \in DOMAIN log, CorrectionsOf(log, i) # {}
  PROVE  EventOK(Correction(log, i))
  BY LatestExists DEF Correction, CorrectionsOf, LogOK

LEMMA EffectiveDateOK ==
  ASSUME NEW log, LogOK(log), NEW i \in DOMAIN log
  PROVE  EffectiveDate(log, i) \in Dates
<1>1. CASE DateCorrections(log, i) = {}
  BY <1>1 DEF EffectiveDate, LogOK, EventOK
<1>2. CASE DateCorrections(log, i) # {}
  <2> DEFINE j == Latest(log, DateCorrections(log, i))
  <2>1. DateCorrections(log, i) \in SUBSET (DOMAIN log)
    BY DEF DateCorrections, CorrectionsOf
  <2>2. j \in DateCorrections(log, i)
    BY <1>2, <2>1, LatestExists
  <2>3. EventOK(log[j]) /\ Carries(log[j].payload, "effective_date")
    BY <2>2 DEF DateCorrections, CorrectionsOf, LogOK
  <2> QED
    BY <1>2, <2>3 DEF EffectiveDate, EventOK, PayloadOK
<1> QED
  BY <1>1, <1>2

(* What two payloads carry is in their union, and right. *)
LEMMA UnionOK ==
  ASSUME NEW p, NEW q, PayloadOK(p), PayloadOK(q)
  PROVE  /\ PayloadOK(Overlay(p, q))
         /\ DOMAIN p \subseteq DOMAIN Overlay(p, q)
  BY DEF Overlay, PayloadOK, Carries

LEMMA WithoutOK ==
  ASSUME NEW p, PayloadOK(p), NEW key
  PROVE  PayloadOK(Without(p, key))
  BY DEF Without, PayloadOK, Carries

LEMMA CompleteMonotonic ==
  ASSUME NEW p, NEW q, NEW type, DOMAIN q \subseteq DOMAIN p, Complete(type, q)
  PROVE  Complete(type, p)
  BY DEF Complete, Carries

LEMMA EffectivePayloadOK ==
  ASSUME NEW log, LogOK(log), NEW i \in DOMAIN log
  PROVE  /\ PayloadOK(EffectivePayload(log, i))
         /\ Complete(log[i].type, EffectivePayload(log, i))
<1>1. EventOK(log[i])
  BY DEF LogOK
<1>2. CASE CorrectedBy(log, i, "CORRECT_EVENT")
  <2> DEFINE patch == Without(Correction(log, i).payload, "effective_date")
  <2>1. EventOK(Correction(log, i))
    BY <1>2, CorrectionOK DEF CorrectedBy
  <2>2. PayloadOK(patch)
    BY <2>1, WithoutOK DEF EventOK
  <2>3. EffectivePayload(log, i) = Overlay(log[i].payload, patch)
    BY <1>2 DEF EffectivePayload, Merge
  <2> HIDE DEF patch
  <2>4. /\ PayloadOK(Overlay(log[i].payload, patch))
        /\ DOMAIN log[i].payload \subseteq DOMAIN Overlay(log[i].payload, patch)
    BY <2>2, <1>1, UnionOK DEF EventOK
  <2> QED
    BY <2>3, <2>4, <1>1, CompleteMonotonic DEF EventOK
<1>3. CASE ~CorrectedBy(log, i, "CORRECT_EVENT")
  BY <1>1, <1>3 DEF EffectivePayload, EventOK
<1> QED
  BY <1>2, <1>3

(* An event that a rebuild replays. *)
ReplayOK(e) ==
  /\ e.node \in Nodes
  /\ e.type \in BaseTypes
  /\ e.date \in Dates
  /\ PayloadOK(e.payload)
  /\ Complete(e.type, e.payload)

LEMMA ReplayEventsOK ==
  ASSUME NEW log, LogOK(log), NEW n \in Nodes, NEW e \in ReplayEvents(log, n)
  PROVE  ReplayOK(e) /\ e.node = n
<1>1. PICK i \in EffectiveIds(log, n) :
        e = [id |-> i, node |-> n, type |-> ReplayType(log, i),
             date |-> EffectiveDate(log, i), payload |-> EffectivePayload(log, i)]
  BY DEF ReplayEvents
<1>2. i \in DOMAIN log /\ log[i].type \in BaseTypes
  BY DEF EffectiveIds
<1>3. /\ EffectiveDate(log, i) \in Dates
      /\ PayloadOK(EffectivePayload(log, i))
      /\ Complete(log[i].type, EffectivePayload(log, i))
  BY <1>2, EffectiveDateOK, EffectivePayloadOK
<1>4. ReplayType(log, i) \in {"UPDATE", "ENABLE", "DISABLE", log[i].type}
  BY DEF ReplayType, EffectiveType
<1> QED
  BY <1>1, <1>2, <1>3, <1>4 DEF ReplayOK, Complete, BaseTypes

(***************************************************************************)
(* The inductive invariant.  TypeOK and VersionsWellFormed do not say what *)
(* a rebuild is still going to do: the events that are left to replay, and *)
(* the rescinds that are left of a batch, have to be in order as well, and *)
(* so has the log, from which the views derive them.                       *)
(***************************************************************************)
WaitingOK ==
  /\ waiting \subseteq Nat
  /\ \E bound \in Nat : \A t \in waiting : t <= bound
  /\ IsFiniteSet(waiting)
  /\ Cardinality(waiting) <= MaxWaiting

BatchOK ==
  /\ IsFiniteSet(txn.batch)
  /\ \A t \in txn.batch : t.id \in DOMAIN events /\ t.asOf \in Dates
  /\ Len(events) + 1 + Cardinality(txn.batch) <= MaxEvents

TxnOK ==
  /\ DOMAIN txn = {"open", "pending", "before", "todo", "batch", "savedEvents", "saved"}
  /\ Good(txn.saved)
  /\ LogOK(txn.savedEvents) /\ Len(txn.savedEvents) <= MaxEvents
  /\ \A e \in txn.todo : ReplayOK(e)
  /\ txn.open => /\ EventOK(txn.pending)
                 /\ txn.pending.target <= Len(events)
                 /\ BatchOK

KernelInv ==
  /\ Good(db)
  /\ LogOK(events) /\ Len(events) <= MaxEvents
  /\ WaitingOK
  /\ TxnOK

LEMMA EmptyLog == LogOK(<<>>) /\ Len(<<>>) = 0
<1>1. DOMAIN <<>> = {} /\ Len(<<>>) = 0
  OBVIOUS
<1>2. <<>> \in Seq(Elements(<<>>))
  BY EmptySeq
<1> QED
  BY <1>1, <1>2 DEF LogOK

LEMMA NoTxnOK ==
  ASSUME txn' = NoTxn
  PROVE  TxnOK'
<1>1. /\ DOMAIN NoTxn = {"open", "pending", "before", "todo", "batch", "savedEvents", "saved"}
      /\ NoTxn.open = FALSE /\ NoTxn.todo = {} /\ NoTxn.savedEvents = <<>>
      /\ NoTxn.saved = EmptyProjection
  BY DEF NoTxn
<1>2. 0 <= MaxEvents
  BY BoundsAssumption
<1> QED
  BY <1>1, <1>2, EmptyLog, EmptyGood DEF TxnOK

LEMMA InitInv == Init => KernelInv
<1> SUFFICES ASSUME Init PROVE KernelInv
  OBVIOUS
<1>1. /\ DOMAIN NoTxn = {"open", "pending", "before", "todo", "batch", "savedEvents", "saved"}
      /\ NoTxn.open = FALSE /\ NoTxn.todo = {} /\ NoTxn.savedEvents = <<>>
      /\ NoTxn.saved = EmptyProjection
  BY DEF NoTxn
<1>2. 0 <= MaxEvents /\ 0 <= MaxWaiting
  BY BoundsAssumption
<1>3. TxnOK
  BY <1>1, <1>2, EmptyLog, EmptyGood DEF TxnOK, Init
<1>4. WaitingOK
  BY <1>2, FS_EmptySet DEF WaitingOK, Init
<1> QED
  BY <1>2, <1>3, <1>4, EmptyLog, EmptyGood DEF KernelInv, Init

(***************************************************************************)
(* What a client can send.                                                 *)
(***************************************************************************)
LEMMA KnownNodes == Known \subseteq Nodes
  BY DEF Known

LEMMA PayloadsOK ==
  ASSUME NEW K, NEW p \in Payloads(K)
  PROVE  PayloadOK(p) /\ DOMAIN p = K
<1>1. DOMAIN p = K
  BY DEF Payloads
<1>2. /\ "name" \in K => p["name"] \in Names
      /\ "new_name" \in K => p["new_name"] \in Names
      /\ "parent_org_node_key" \in K => p["parent_org_node_key"] \in Known
      /\ "new_parent_org_node_key" \in K => p["new_parent_org_node_key"] \in Known
      /\ "status" \in K => p["status"] \in Statuses
      /\ "is_business_unit" \in K => p["is_business_unit"] \in BOOLEAN
      /\ "effective_date" \in K => p["effective_date"] \in Dates
      /\ "org_code" \in K => p["org_code"] \in Codes
  BY DEF Payloads, Offered, ValuesOf
<1> QED
  BY <1>1, <1>2, KnownNodes DEF PayloadOK, Carries

LEMMA BasePayloadsOK ==
  ASSUME NEW type \in BaseTypes, NEW p \in BasePayloads(type)
  PROVE  PayloadOK(p) /\ Complete(type, p)
<1>1. CASE type = "CREATE"
  <2>1. PICK K \in SUBSET (CreateKeys \cup {"parent_org_node_key"}) :
          p \in Payloads({"name"} \cup K \cup (IF Codes = {} THEN {} ELSE {"org_code"}))
    BY <1>1 DEF BasePayloads, CreatePayloads
  <2>2. PayloadOK(p) /\ "name" \in DOMAIN p
    BY <2>1, PayloadsOK
  <2> QED
    BY <2>2, <1>1 DEF Complete, Carries
<1>2. CASE type = "UPDATE"
  BY <1>2, PayloadsOK DEF BasePayloads, Complete
<1>3. CASE type = "MOVE"
  BY <1>3, PayloadsOK DEF BasePayloads, Complete, Carries
<1>4. CASE type = "RENAME"
  BY <1>4, PayloadsOK DEF BasePayloads, Complete, Carries
<1>5. CASE type = "SET_BUSINESS_UNIT"
  BY <1>5, PayloadsOK DEF BasePayloads, Complete, Carries
<1>6. CASE type \in {"DISABLE", "ENABLE"}
  <2>1. p = <<>> /\ DOMAIN <<>> = {}
    BY <1>6 DEF BasePayloads, Empty
  <2> QED
    BY <2>1, <1>6 DEF PayloadOK, Complete, Carries
<1> QED
  BY <1>1, <1>2, <1>3, <1>4, <1>5, <1>6 DEF BaseTypes

LEMMA PatchesOK ==
  ASSUME NEW type, NEW p \in Patches(type)
  PROVE  PayloadOK(p)
  BY PayloadsOK DEF Patches

LEMMA StartTimesOK ==
  ASSUME KernelInv
  PROVE  /\ Now \in Nat /\ StartTimes \subseteq Nat
         /\ \A i \in DOMAIN events : events[i].time <= Now
<1> DEFINE T == {0} \cup TimesInUse
<1>1. PICK b1 \in Nat : \A i \in DOMAIN events : events[i].time <= b1
  BY DEF KernelInv, LogOK
<1>2. PICK b2 \in Nat : \A t \in waiting : t <= b2
  BY DEF KernelInv, WaitingOK
<1>3. T \subseteq Nat
  BY DEF KernelInv, LogOK, EventOK, WaitingOK, TimesInUse
<1>4. ASSUME NEW t \in T
      PROVE  t <= b1 + b2
  <2>1. t \in Nat
    BY <1>3
  <2>2. t = 0 \/ t <= b1 \/ t <= b2
    BY <1>1, <1>2 DEF TimesInUse
  <2> QED
    BY <2>1, <2>2
<1>5. b1 + b2 \in Nat /\ T # {} /\ \A i \in DOMAIN events : events[i].time \in T
  BY DEF TimesInUse
<1> HIDE DEF T
<1>6. Max(T) \in Nat /\ \A t \in T : t <= Max(T)
  BY <1>3, <1>4, <1>5, MaxNat
<1>7. Now = 1 + Max(T)
  BY DEF Now, T
<1>8. Now \in Nat /\ \A t \in T : t <= Now
  BY <1>3, <1>6, <1>7
<1>9. \A i \in DOMAIN events : events[i].time <= Now
  BY <1>5, <1>8
<1> QED
  BY <1>8, <1>9 DEF StartTimes, KernelInv, WaitingOK

(***************************************************************************)
(* The head of a rebuild, for a new transaction and for the next rescind   *)
(* of a batch.                                                             *)
(***************************************************************************)
TxnFields == {"open", "pending", "before", "todo", "batch", "savedEvents", "saved"}

LEMMA StartRebuildOK ==
  ASSUME NEW t, DOMAIN t = TxnFields, NEW log, LogOK(log), Good(db),
         NEW pending, EventOK(pending), pending.target <= Len(log),
         StartRebuild(t, log, pending)
  PROVE  /\ Good(db')
         /\ DOMAIN txn' = TxnFields
         /\ txn'.open /\ txn'.pending = pending
         /\ \A e \in txn'.todo : ReplayOK(e)
         /\ txn'.batch = t.batch
         /\ txn'.savedEvents = t.savedEvents
         /\ txn'.saved = t.saved
<1> DEFINE todo == ReplayEvents(Append(log, pending), pending.node)
<1>1. db' = WithoutNode(db, pending.node)
  BY DEF StartRebuild
<1>2. \A e \in todo : ReplayOK(e)
  BY AppendOK, ReplayEventsOK DEF EventOK
<1>3. txn' = [t EXCEPT !.open = TRUE, !.pending = pending, !.todo = todo,
                       !.before = ExistsAt(db.versions, pending.node, pending.date)]
  BY DEF StartRebuild
<1> HIDE DEF todo
<1> QED
  BY <1>1, <1>2, <1>3, WithoutNodeGood DEF TxnFields

(* A transaction that gets the lock waits no longer. *)
LEMMA TakenOK ==
  ASSUME KernelInv, NEW time, waiting' = waiting \ {time}
  PROVE  WaitingOK'
<1>1. IsFiniteSet(waiting) /\ Cardinality(waiting) <= MaxWaiting
  BY DEF KernelInv, WaitingOK
<1>2. Cardinality(waiting) \in Nat
  BY <1>1, FS_CardinalityType
<1>3. /\ IsFiniteSet(waiting')
      /\ Cardinality(waiting') = IF time \in waiting THEN Cardinality(waiting) - 1
                                 ELSE Cardinality(waiting)
  BY <1>1, FS_RemoveElement
<1>4. Cardinality(waiting') <= MaxWaiting
  BY <1>1, <1>2, <1>3, BoundsAssumption
<1>5. waiting' \subseteq Nat /\ \E bound \in Nat : \A t \in waiting' : t <= bound
  BY DEF KernelInv, WaitingOK
<1> QED
  BY <1>3, <1>4, <1>5 DEF WaitingOK

(* What a client may ask a rebuild for: the correction or the rescind of   *)
(* an event of the same unit that nothing has rescinded yet.               *)
FixOK(e, log) ==
  /\ e.type \in CorrectionTypes
  /\ e.time \in StartTimes
  /\ e.target \in DOMAIN log
  /\ log[e.target].node = e.node
  /\ ~HasRescind(log, e.target)
  /\ e.type = "CORRECT_STATUS" => log[e.target].type \in {"ENABLE", "DISABLE"}
  /\ e.type = "CORRECT_EVENT" =>
       \E patch \in Patches(log[e.target].type) :
         e.payload = Overlay(EffectivePayload(log, e.target), patch)

(* The rescinds that are left of a batch are about other events, each one. *)
BatchFresh(batch, e, log) ==
  /\ \A t \in batch : /\ log[t.id].node = e.node
                       /\ ~HasRescind(log, t.id)
                       /\ t.id # e.target
  /\ \A t, u \in batch : t.id = u.id => t = u

(* A rebuild opens with an event in order, and with room for the batch.    *)
RebuildBegins(pending, batch) ==
  /\ EventOK(pending) /\ pending.target <= Len(events)
  /\ IsFiniteSet(batch)
  /\ \A t \in batch : t.id \in DOMAIN events /\ t.asOf \in Dates
  /\ Len(events) + 1 + Cardinality(batch) <= MaxEvents
  /\ FixOK(pending, events) /\ BatchFresh(batch, pending, events)
  /\ BeginRebuild(pending, batch)

LEMMA BeginRebuildInv ==
  ASSUME KernelInv, NEW pending, NEW batch, RebuildBegins(pending, batch)
  PROVE  KernelInv'
<1> /\ EventOK(pending) /\ pending.target <= Len(events)
    /\ IsFiniteSet(batch)
    /\ \A t \in batch : t.id \in DOMAIN events /\ t.asOf \in Dates
    /\ Len(events) + 1 + Cardinality(batch) <= MaxEvents
    /\ BeginRebuild(pending, batch)
  BY DEF RebuildBegins
<1> DEFINE t == [NoTxn EXCEPT !.batch = batch, !.savedEvents = events, !.saved = db]
<1>1. /\ DOMAIN t = TxnFields /\ t.batch = batch
      /\ t.savedEvents = events /\ t.saved = db
  BY DEF NoTxn, TxnFields
<1>2. StartRebuild(t, events, pending)
  BY DEF BeginRebuild
<1> HIDE DEF t
<1>3. LogOK(events) /\ Good(db) /\ Len(events) <= MaxEvents
  BY DEF KernelInv
<1>4. /\ Good(db')
      /\ DOMAIN txn' = TxnFields
      /\ txn'.open /\ txn'.pending = pending
      /\ \A e \in txn'.todo : ReplayOK(e)
      /\ txn'.batch = batch /\ txn'.savedEvents = events /\ txn'.saved = db
  BY <1>1, <1>2, <1>3, StartRebuildOK
<1>5. events' = events
  BY DEF BeginRebuild
<1>6. TxnOK'
  BY <1>3, <1>4, <1>5 DEF TxnOK, BatchOK, TxnFields
<1>7. WaitingOK'
  <2>1. waiting' = waiting \ {pending.time}
    BY DEF BeginRebuild
  <2> QED
    BY <2>1, TakenOK
<1> QED
  BY <1>3, <1>4, <1>5, <1>6, <1>7 DEF KernelInv

LEMMA EventFields ==
  ASSUME NEW n \in Nodes, NEW type \in BaseTypes \cup CorrectionTypes, NEW d \in Dates,
         NEW payload, PayloadOK(payload), Complete(type, payload),
         NEW target \in Nat, NEW time \in Nat
  PROVE  /\ EventOK(Event(n, type, d, payload, target, time))
         /\ Event(n, type, d, payload, target, time).target = target
         /\ Event(n, type, d, payload, target, time).time = time
         /\ Event(n, type, d, payload, target, time).node = n
         /\ Event(n, type, d, payload, target, time).type = type
         /\ Event(n, type, d, payload, target, time).date = d
         /\ Event(n, type, d, payload, target, time).payload = payload
  BY DEF Event, EventOK

(* Only a base event needs keys. *)
LEMMA CorrectionComplete ==
  ASSUME NEW type \in CorrectionTypes, NEW payload
  PROVE  Complete(type, payload)
  BY DEF CorrectionTypes, RescindTypes, Complete

LEMMA EmptyPayload == PayloadOK(Empty)
<1>1. DOMAIN <<>> = {}
  OBVIOUS
<1> QED
  BY <1>1 DEF Empty, PayloadOK, Carries

(***************************************************************************)
(* The steps.                                                              *)
(***************************************************************************)
LEMMA WaitInv ==
  ASSUME KernelInv, Wait
  PROVE  KernelInv'
<1>1. Now \in Nat
  BY StartTimesOK
<1>2. /\ waiting' = waiting \cup {Now} /\ Cardinality(waiting) < MaxWaiting
      /\ events' = events /\ db' = db /\ txn' = txn
  BY DEF Wait
<1>3. PICK bound \in Nat : \A t \in waiting : t <= bound
  BY DEF KernelInv, WaitingOK
<1>4. \A t \in waiting' : t <= bound + Now
  BY <1>1, <1>2, <1>3 DEF KernelInv, WaitingOK
<1>5. IsFiniteSet(waiting') /\ Cardinality(waiting') <= MaxWaiting
  <2>1. IsFiniteSet(waiting)
    BY DEF KernelInv, WaitingOK
  <2>2. Cardinality(waiting) \in Nat
    BY <2>1, FS_CardinalityType
  <2>3. Cardinality(waiting') = IF Now \in waiting THEN Cardinality(waiting)
                                ELSE Cardinality(waiting) + 1
    BY <1>2, <2>1, FS_AddElement
  <2> QED
    BY <1>2, <2>1, <2>2, <2>3, FS_AddElement, BoundsAssumption
<1>6. WaitingOK'
  <2>1. bound + Now \in Nat /\ waiting' \subseteq Nat
    BY <1>1, <1>2 DEF KernelInv, WaitingOK
  <2> QED
    BY <1>4, <1>5, <2>1 DEF WaitingOK
<1> QED
  BY <1>2, <1>6 DEF KernelInv, TxnOK, BatchOK

LEMMA SubmitBaseInv ==
  ASSUME KernelInv, SubmitBase
  PROVE  KernelInv'
<1>1. PICK type \in BaseKinds, d \in Dates, time \in StartTimes :
        \E n \in Targets(type), payload \in BasePayloads(type) :
          SubmitEvent(type, n, d, payload, time)
  BY DEF SubmitBase
<1>2. PICK n \in Targets(type), payload \in BasePayloads(type) :
        SubmitEvent(type, n, d, payload, time)
  BY <1>1
<1>3. type \in BaseTypes /\ n \in Nodes /\ time \in Nat
  BY KindsAssumption, KnownNodes, StartTimesOK DEF Targets
<1>4. PayloadOK(payload) /\ Complete(type, payload)
  BY <1>3, BasePayloadsOK
<1> DEFINE e == Event(n, type, d, payload, NoTarget, time)
<1>5. EventOK(e) /\ e.target = 0
  BY <1>3, <1>4, EventFields DEF NoTarget
<1> HIDE DEF e
<1>6. /\ ~txn.open /\ Len(events) < MaxEvents
      /\ db' \in Apply(events, db, n, type, d, payload)
      /\ events' = Append(events, e)
      /\ waiting' = waiting \ {time}
      /\ txn' = txn
  BY <1>2 DEF SubmitEvent, SubmitBase, LockFree, HasRoom, e
<1>7. LogOK(events) /\ Len(events) \in Nat
  BY LogShape DEF KernelInv
<1>8. LogOK(events') /\ Len(events') <= MaxEvents
  BY <1>5, <1>6, <1>7, AppendOK, AppendShape, BoundsAssumption
<1>9. Good(db')
  BY <1>3, <1>4, <1>6, ApplyGood DEF KernelInv
<1>10. TxnOK'
  BY <1>6 DEF KernelInv, TxnOK
<1>11. WaitingOK'
  BY <1>6, TakenOK
<1> QED
  BY <1>8, <1>9, <1>10, <1>11 DEF KernelInv

(* The corrections and rescinds of one event. *)
LEMMA SingleRebuild ==
  ASSUME KernelInv, HasRoom, NEW pending, EventOK(pending),
         FixOK(pending, events), BeginRebuild(pending, {})
  PROVE  RebuildBegins(pending, {})
<1>1. Len(events) \in Nat /\ DOMAIN events = 1 .. Len(events)
  BY LogShape DEF KernelInv
<1>2. pending.target <= Len(events) /\ Len(events) + 1 + Cardinality({}) <= MaxEvents
  BY <1>1, FS_EmptySet, BoundsAssumption DEF HasRoom, FixOK
<1>3. BatchFresh({}, pending, events)
  BY DEF BatchFresh
<1> QED
  BY <1>2, <1>3, FS_EmptySet DEF RebuildBegins

LEMMA RescindBegins ==
  ASSUME KernelInv, Rescind
  PROVE  LockFree /\ \E pending, batch : RebuildBegins(pending, batch)
<1>1. PICK n \in Known, d \in Dates, time \in StartTimes : RescindEvent(n, d, time)
  BY DEF Rescind
<1>2. PICK i \in EffectiveAt(events, n, d) :
        /\ ~HasRescind(events, i)
        /\ BeginRebuild(Event(n, "RESCIND_EVENT", d, Empty, i, time), {})
  BY <1>1 DEF RescindEvent
<1>3. i \in DOMAIN events /\ i \in Nat /\ events[i].node = n
  BY LogShape DEF KernelInv, EffectiveAt, EffectiveIds
<1>4. "RESCIND_EVENT" \in CorrectionTypes
  BY DEF CorrectionTypes, RescindTypes
<1> DEFINE e == Event(n, "RESCIND_EVENT", d, Empty, i, time)
<1>5. /\ EventOK(e) /\ e.target = i /\ e.node = n /\ e.time = time
      /\ e.type = "RESCIND_EVENT"
  BY <1>3, <1>4, KnownNodes, StartTimesOK, EmptyPayload, CorrectionComplete, EventFields
<1> HIDE DEF e
<1>6. LockFree /\ HasRoom /\ BeginRebuild(e, {})
  BY <1>2 DEF Rescind, e
<1>7. FixOK(e, events)
  BY <1>2, <1>3, <1>4, <1>5 DEF FixOK
<1> QED
  BY <1>5, <1>6, <1>7, SingleRebuild

LEMMA CorrectBegins ==
  ASSUME KernelInv, Correct
  PROVE  LockFree /\ \E pending, batch : RebuildBegins(pending, batch)
<1>1. PICK n \in Known, d \in Dates, time \in StartTimes : CorrectEvent(n, d, time)
  BY DEF Correct
<1>2. PICK i \in EffectiveAt(events, n, d) :
        \E patch \in Patches(events[i].type) :
          /\ ~HasRescind(events, i)
          /\ BeginRebuild(Event(n, "CORRECT_EVENT", d, Overlay(EffectivePayload(events, i), patch),
                                i, time), {})
  BY <1>1 DEF CorrectEvent
<1> PICK patch \in Patches(events[i].type) :
      /\ ~HasRescind(events, i)
      /\ BeginRebuild(Event(n, "CORRECT_EVENT", d, Overlay(EffectivePayload(events, i), patch),
                            i, time), {})
  BY <1>2
<1>3. i \in DOMAIN events /\ i \in Nat /\ events[i].node = n
  BY LogShape DEF KernelInv, EffectiveAt, EffectiveIds
<1>4. "CORRECT_EVENT" \in CorrectionTypes
  BY DEF CorrectionTypes
<1> DEFINE payload == Overlay(EffectivePayload(events, i), patch)
           e == Event(n, "CORRECT_EVENT", d, payload, i, time)
<1>5. PayloadOK(payload)
  BY <1>3, EffectivePayloadOK, PatchesOK, UnionOK DEF KernelInv
<1> HIDE DEF payload
<1>6. /\ EventOK(e) /\ e.target = i /\ e.node = n /\ e.time = time
      /\ e.type = "CORRECT_EVENT" /\ e.payload = payload
  BY <1>3, <1>4, <1>5, KnownNodes, StartTimesOK, CorrectionComplete, EventFields
<1> HIDE DEF e
<1>7. LockFree /\ HasRoom /\ BeginRebuild(e, {})
  BY DEF Correct, e, payload
<1>8. FixOK(e, events)
  BY <1>3, <1>4, <1>6 DEF FixOK, payload
<1> QED
  BY <1>6, <1>7, <1>8, SingleRebuild

LEMMA StatusCorrectionBegins ==
  ASSUME KernelInv, StatusCorrection
  PROVE  LockFree /\ \E pending, batch : RebuildBegins(pending, batch)
<1>1. PICK n \in Known, d \in Dates, status \in Statuses, time \in StartTimes :
        CorrectStatus(n, d, status, time)
  BY DEF StatusCorrection
<1> DEFINE payload == [target_status |-> status]
<1>2. PICK i \in EffectiveAt(events, n, d) :
        /\ events[i].type \in {"ENABLE", "DISABLE"}
        /\ ~HasRescind(events, i)
        /\ BeginRebuild(Event(n, "CORRECT_STATUS", d, payload, i, time), {})
  BY <1>1 DEF CorrectStatus
<1>3. i \in DOMAIN events /\ i \in Nat /\ events[i].node = n
  BY LogShape DEF KernelInv, EffectiveAt, EffectiveIds
<1>4. "CORRECT_STATUS" \in CorrectionTypes
  BY DEF CorrectionTypes
<1>5. PayloadOK(payload)
  BY DEF PayloadOK, Carries
<1> HIDE DEF payload
<1> DEFINE e == Event(n, "CORRECT_STATUS", d, payload, i, time)
<1>6. /\ EventOK(e) /\ e.target = i /\ e.node = n /\ e.time = time
      /\ e.type = "CORRECT_STATUS"
  BY <1>3, <1>4, <1>5, KnownNodes, StartTimesOK, CorrectionComplete, EventFields
<1> HIDE DEF e
<1>7. LockFree /\ HasRoom /\ BeginRebuild(e, {})
  BY <1>2 DEF StatusCorrection, e
<1>8. FixOK(e, events)
  BY <1>2, <1>3, <1>4, <1>6 DEF FixOK
<1> QED
  BY <1>6, <1>7, <1>8, SingleRebuild

(***************************************************************************)
(* RESCIND_ORG.                                                            *)
(***************************************************************************)
LEMMA ViewDateOK ==
  ASSUME NEW log, LogOK(log), NEW i \in DOMAIN log
  PROVE  ViewDate(log, i) \in Dates
  BY EffectiveDateOK DEF ViewDate, LogOK, EventOK

LEMMA RescindTargetsOK ==
  ASSUME NEW log, LogOK(log), NEW n
  PROVE  /\ IsFiniteSet(RescindTargets(log, n))
         /\ \A t \in RescindTargets(log, n) : /\ t.id \in DOMAIN log /\ t.asOf \in Dates
                                               /\ log[t.id].node = n
                                               /\ ~HasRescind(log, t.id)
         /\ \A t, u \in RescindTargets(log, n) : t.id = u.id => t = u
<1> DEFINE I == {j \in DOMAIN log : log[j].node = n /\ ~HasRescind(log, j)}
           T == RescindTargets(log, n)
           f == [i \in I |-> [id |-> i, date |-> log[i].date, asOf |-> ViewDate(log, i)]]
<1>1. IsFiniteSet(DOMAIN log)
  <2>1. DOMAIN log = 1 .. Len(log) /\ Len(log) \in Nat
    BY LogShape
  <2> QED
    BY <2>1, FS_Interval
<1>2. IsFiniteSet(I)
  BY <1>1, FS_Subset
<1>3. T = {[id |-> i, date |-> log[i].date, asOf |-> ViewDate(log, i)] : i \in I}
  BY DEF RescindTargets
<1>4. \A t \in T : t.id \in I /\ t.id \in DOMAIN log /\ t.asOf \in Dates
  BY <1>3, ViewDateOK
<1>5. \A t, u \in T : t.id = u.id => t = u
  BY <1>3
<1>6. f \in Surjection(I, T)
  BY <1>3 DEF Surjection
<1> HIDE DEF T, f
<1>7. IsFiniteSet(T)
  <2> HIDE DEF I
  <2> QED
    BY <1>2, <1>6, FS_Surjection
<1> QED
  BY <1>4, <1>5, <1>7 DEF T

LEMMA RescindOfOK ==
  ASSUME NEW n \in Nodes, NEW t, t.asOf \in Dates, t.id \in Nat, NEW time \in Nat
  PROVE  /\ EventOK(RescindOf(n, t, time))
         /\ RescindOf(n, t, time).target = t.id
         /\ RescindOf(n, t, time).node = n
         /\ RescindOf(n, t, time).time = time
         /\ RescindOf(n, t, time).type = "RESCIND_ORG"
<1>1. "RESCIND_ORG" \in CorrectionTypes
  BY DEF CorrectionTypes, RescindTypes
<1> QED
  BY <1>1, EmptyPayload, CorrectionComplete, EventFields DEF RescindOf

(* Taking the first target makes room for its event. *)
LEMMA TakeTarget ==
  ASSUME NEW batch, IsFiniteSet(batch), NEW t \in batch
  PROVE  /\ IsFiniteSet(batch \ {t})
         /\ Cardinality(batch \ {t}) \in Nat
         /\ Cardinality(batch \ {t}) + 1 = Cardinality(batch)
<1>1. Cardinality(batch) \in Nat /\ IsFiniteSet(batch \ {t})
  BY FS_CardinalityType, FS_RemoveElement
<1>2. Cardinality(batch \ {t}) = Cardinality(batch) - 1
  BY FS_RemoveElement
<1>3. Cardinality(batch \ {t}) \in Nat
  BY <1>1, FS_CardinalityType
<1> QED
  BY <1>1, <1>2, <1>3

LEMMA RescindUnitBegins ==
  ASSUME KernelInv, RescindUnit
  PROVE  LockFree /\ \E pending, batch : RebuildBegins(pending, batch)
<1>1. PICK n \in Known, time \in StartTimes : RescindOrg(n, time)
  BY DEF RescindUnit
<1> DEFINE batch == RescindTargets(events, n)
<1>2. /\ LockFree /\ Len(events) + Cardinality(batch) <= MaxEvents
      /\ \E t \in batch : BeginRebuild(RescindOf(n, t, time), batch \ {t})
  BY <1>1 DEF RescindOrg, RescindUnit
<1>3. /\ IsFiniteSet(batch)
      /\ \A t \in batch : /\ t.id \in DOMAIN events /\ t.asOf \in Dates
                           /\ events[t.id].node = n /\ ~HasRescind(events, t.id)
      /\ \A t, u \in batch : t.id = u.id => t = u
  BY RescindTargetsOK DEF KernelInv
<1> HIDE DEF batch
<1>4. PICK t \in batch : BeginRebuild(RescindOf(n, t, time), batch \ {t})
  BY <1>2
<1> DEFINE e == RescindOf(n, t, time)
<1>5. Len(events) \in Nat /\ DOMAIN events = 1 .. Len(events)
  BY LogShape DEF KernelInv
<1>6. /\ EventOK(e) /\ e.target = t.id /\ e.node = n /\ e.time = time
      /\ e.type = "RESCIND_ORG"
  BY <1>3, <1>5, KnownNodes, StartTimesOK, RescindOfOK
<1> HIDE DEF e
<1>7. e.target <= Len(events)
  BY <1>3, <1>5, <1>6
<1>8. IsFiniteSet(batch \ {t}) /\ Len(events) + 1 + Cardinality(batch \ {t}) <= MaxEvents
  <2>1. /\ IsFiniteSet(batch \ {t})
        /\ Cardinality(batch \ {t}) \in Nat
        /\ Cardinality(batch \ {t}) + 1 = Cardinality(batch)
    BY <1>3, TakeTarget
  <2> QED
    BY <1>2, <1>5, <2>1, BoundsAssumption
<1>9. BeginRebuild(e, batch \ {t})
  BY <1>4 DEF e
<1>10. \A u \in batch \ {t} : u.id \in DOMAIN events /\ u.asOf \in Dates
  BY <1>3
<1>11. FixOK(e, events)
  BY <1>3, <1>6 DEF FixOK, CorrectionTypes, RescindTypes
<1>12. BatchFresh(batch \ {t}, e, events)
  BY <1>3, <1>6 DEF BatchFresh
<1> QED
  BY <1>2, <1>6, <1>7, <1>8, <1>9, <1>10, <1>11, <1>12 DEF RebuildBegins

(***************************************************************************)
(* The steps inside a rebuild, and its end.                                *)
(***************************************************************************)
LEMMA ReplayStepInv ==
  ASSUME KernelInv, ReplayStep
  PROVE  KernelInv'
<1>1. PICK e \in txn.todo :
        /\ db' \in Apply(events, db, e.node, e.type, e.date, e.payload)
        /\ txn' = [txn EXCEPT !.todo = @ \ {e}]
  BY DEF ReplayStep
<1>2. events' = events /\ waiting' = waiting
  BY DEF ReplayStep
<1>3. ReplayOK(e)
  BY DEF KernelInv, TxnOK
<1>4. Good(db')
  BY <1>1, <1>3, ApplyGood DEF KernelInv, ReplayOK
<1>5. TxnOK'
  BY <1>1, <1>2 DEF KernelInv, TxnOK, BatchOK
<1> QED
  BY <1>2, <1>4, <1>5 DEF KernelInv, WaitingOK

(* The end of a rebuild lengthens the log by the pending event. *)
LEMMA RebuildDoneOK ==
  ASSUME KernelInv, RebuildDone
  PROVE  /\ txn.open
         /\ events' = Append(events, txn.pending)
         /\ LogOK(events') /\ Len(events') = Len(events) + 1
         /\ DOMAIN events \subseteq DOMAIN events'
         /\ Len(events) \in Nat
<1>1. txn.open /\ events' = Append(events, txn.pending)
  BY DEF RebuildDone
<1>2. LogOK(events) /\ EventOK(txn.pending) /\ txn.pending.target <= Len(events)
  BY <1>1 DEF KernelInv, TxnOK
<1>3. Len(events) \in Nat /\ DOMAIN events = 1 .. Len(events)
  BY <1>2, LogShape
<1> QED
  BY <1>1, <1>2, <1>3, AppendOK, AppendShape

LEMMA NextTargetInv ==
  ASSUME KernelInv, NextTarget
  PROVE  KernelInv'
<1>1. /\ txn.open
      /\ LogOK(events') /\ Len(events') = Len(events) + 1
      /\ DOMAIN events \subseteq DOMAIN events'
      /\ Len(events) \in Nat
  BY RebuildDoneOK DEF NextTarget
<1>2. PICK t \in txn.batch :
        StartRebuild([txn EXCEPT !.batch = @ \ {t}], events',
                     RescindOf(txn.pending.node, t, txn.pending.time))
  BY DEF NextTarget
<1>3. /\ DOMAIN txn = TxnFields
      /\ EventOK(txn.pending)
      /\ IsFiniteSet(txn.batch)
      /\ \A u \in txn.batch : u.id \in DOMAIN events /\ u.asOf \in Dates
      /\ Len(events) + 1 + Cardinality(txn.batch) <= MaxEvents
      /\ Good(txn.saved)
      /\ LogOK(txn.savedEvents) /\ Len(txn.savedEvents) <= MaxEvents
      /\ Good(db)
  BY <1>1 DEF KernelInv, TxnOK, BatchOK, TxnFields
<1> DEFINE rest == [txn EXCEPT !.batch = @ \ {t}]
           e == RescindOf(txn.pending.node, t, txn.pending.time)
<1>4. /\ DOMAIN rest = TxnFields /\ rest.batch = txn.batch \ {t}
      /\ rest.savedEvents = txn.savedEvents /\ rest.saved = txn.saved
  BY <1>3 DEF TxnFields
<1>5. DOMAIN events = 1 .. Len(events)
  BY LogShape DEF KernelInv
<1>6. EventOK(e) /\ e.target = t.id
  <2>1. txn.pending.node \in Nodes /\ txn.pending.time \in Nat
    BY <1>3 DEF EventOK
  <2>2. t.asOf \in Dates /\ t.id \in Nat
    BY <1>3, <1>5
  <2> QED
    BY <2>1, <2>2, RescindOfOK
<1>7. e.target <= Len(events')
  BY <1>1, <1>3, <1>5, <1>6
<1>8. StartRebuild(rest, events', e)
  BY <1>2
<1> HIDE DEF rest, e
<1>9. /\ Good(db')
      /\ DOMAIN txn' = TxnFields
      /\ txn'.open /\ txn'.pending = e
      /\ \A x \in txn'.todo : ReplayOK(x)
      /\ txn'.batch = rest.batch
      /\ txn'.savedEvents = rest.savedEvents
      /\ txn'.saved = rest.saved
  BY <1>1, <1>3, <1>4, <1>6, <1>7, <1>8, StartRebuildOK
<1>10. BatchOK'
  <2>1. /\ IsFiniteSet(txn.batch \ {t})
        /\ Cardinality(txn.batch \ {t}) \in Nat
        /\ Cardinality(txn.batch \ {t}) + 1 = Cardinality(txn.batch)
    BY <1>3, TakeTarget
  <2>2. Len(events') + 1 + Cardinality(txn.batch \ {t}) <= MaxEvents
    BY <1>1, <1>3, <2>1, BoundsAssumption
  <2> QED
    BY <1>1, <1>3, <1>4, <1>9, <2>1, <2>2 DEF BatchOK
<1>11. TxnOK'
  BY <1>3, <1>4, <1>6, <1>7, <1>9, <1>10 DEF TxnOK, TxnFields
<1>12. Len(events') <= MaxEvents
  <2>1. Cardinality(txn.batch) \in Nat
    BY <1>3, FS_CardinalityType
  <2> QED
    BY <1>1, <1>3, <2>1, BoundsAssumption
<1>13. WaitingOK'
  BY DEF NextTarget, KernelInv, WaitingOK
<1> QED
  BY <1>1, <1>9, <1>11, <1>12, <1>13 DEF KernelInv

LEMMA CommitInv ==
  ASSUME KernelInv, Commit
  PROVE  KernelInv'
<1>1. /\ txn.open
      /\ LogOK(events') /\ Len(events') = Len(events) + 1
      /\ Len(events) \in Nat
  BY RebuildDoneOK DEF Commit
<1>2. txn.batch = {} /\ txn' = NoTxn /\ db' = db /\ waiting' = waiting
  BY DEF Commit
<1>3. Len(events') <= MaxEvents
  BY <1>1, <1>2, FS_EmptySet, BoundsAssumption DEF KernelInv, TxnOK, BatchOK
<1>4. TxnOK'
  BY <1>2, NoTxnOK
<1> QED
  BY <1>1, <1>2, <1>3, <1>4 DEF KernelInv, WaitingOK

LEMMA AbortInv ==
  ASSUME KernelInv, Abort
  PROVE  KernelInv'
<1>1. /\ events' = txn.savedEvents /\ db' = txn.saved
      /\ txn' = NoTxn /\ waiting' = waiting
  BY DEF Abort
<1>2. TxnOK'
  BY <1>1, NoTxnOK
<1> QED
  BY <1>1, <1>2 DEF KernelInv, TxnOK, WaitingOK

LEMMA StepInv ==
  ASSUME KernelInv, [Next]_vars
  PROVE  KernelInv'
<1>1. CASE Wait
  BY <1>1, WaitInv
<1>2. CASE SubmitBase
  BY <1>2, SubmitBaseInv
<1>3. CASE Rescind
  BY <1>3, RescindBegins, BeginRebuildInv
<1>4. CASE Correct
  BY <1>4, CorrectBegins, BeginRebuildInv
<1>5. CASE StatusCorrection
  BY <1>5, StatusCorrectionBegins, BeginRebuildInv
<1>6. CASE RescindUnit
  BY <1>6, RescindUnitBegins, BeginRebuildInv
<1>7. CASE ReplayStep
  BY <1>7, ReplayStepInv
<1>8. CASE NextTarget
  BY <1>8, NextTargetInv
<1>9. CASE Commit
  BY <1>9, CommitInv
<1>10. CASE Abort
  BY <1>10, AbortInv
<1>11. CASE UNCHANGED vars
  BY <1>11 DEF vars, KernelInv, WaitingOK, TxnOK, BatchOK
<1> QED
  BY <1>1, <1>2, <1>3, <1>4, <1>5, <1>6, <1>7, <1>8, <1>9, <1>10, <1>11 DEF Next

(* Every reachable state of the kernel, in the middle of a rebuild or not, *)
(* satisfies the inductive invariant.                                      *)
THEOREM Inductive == Spec => []KernelInv
<1>1. Init => KernelInv
  BY InitInv
<1>2. KernelInv /\ [Next]_vars => KernelInv'
  BY StepInv
<1> QED
  BY <1>1, <1>2, PTL DEF Spec

LEMMA InvImplies ==
  ASSUME KernelInv
  PROVE  TypeOK /\ VersionsWellFormed
<1>1. Good(db) /\ Good(txn.saved) /\ LogOK(events)
  BY DEF KernelInv, TxnOK
<1>2. DOMAIN events = 1 .. Len(events) /\ Len(events) \in Nat
  BY LogShape DEF KernelInv
<1>3. ASSUME NEW i \in DOMAIN events
      PROVE  /\ events[i].node \in Nodes
             /\ events[i].type \in BaseTypes \cup CorrectionTypes
             /\ events[i].date \in Dates
             /\ events[i].target \in 0 .. (i - 1)
  BY <1>1, <1>2 DEF LogOK, EventOK
<1>4. TypeOK
  <2>1. ProjectionOK(db) /\ ProjectionOK(txn.saved)
    BY <1>1 DEF Good
  <2>2. Len(events) <= MaxEvents /\ Cardinality(waiting) <= MaxWaiting
    BY DEF KernelInv, WaitingOK
  <2> QED
    BY <1>3, <2>1, <2>2 DEF TypeOK
<1>5. VersionsWellFormed
  BY <1>1 DEF Good, VersionsWellFormed
<1> QED
  BY <1>4, <1>5

(* The projection, live and saved, holds rows of the declared columns, and *)
(* an event corrects or rescinds only an earlier one, whatever the number  *)
(* of units, days and events: no write function stores a row that the      *)
(* table definitions of org_unit_versions would refuse.                    *)
THEOREM TypeCorrect == Spec => []TypeOK
<1>1. KernelInv => TypeOK
  BY InvImplies
<1> QED
  BY <1>1, Inductive, PTL

(* The rows of a unit never overlap, never leave a gap and reach infinity, *)
(* in every state of every write function: neither the exclusion           *)
(* constraint nor assert_org_unit_validity can stop a transaction.         *)
THEOREM RowsWellFormed == Spec => []VersionsWellFormed
<1>1. KernelInv => VersionsWellFormed
  BY InvImplies
<1> QED
  BY <1>1, Inductive, PTL

(***************************************************************************)
(* What readers of the OrgUnit kernel can rely on: the kernel implements   *)
(* the ledger of OrgUnitLedger, and a tree keeps its root.                 *)
(***************************************************************************)

(***************************************************************************)
(* The inductive invariant.  While a rebuild is open, the log is the one   *)
(* readers see plus rescinds of one node, what is left to replay is about  *)
(* that node, and a root that is missing will be created again.            *)
(***************************************************************************)
Extends(new, old, n) ==
  /\ Len(old) <= Len(new)
  /\ \A i \in 1 .. Len(old) : new[i] = old[i]
  /\ \A i \in (Len(old) + 1) .. Len(new) : new[i].node = n

RootSafe(root, todo, n, saved) ==
  saved # NoNode =>
    \/ root = saved
    \/ root = NoNode /\ n = saved /\ \E e \in todo : e.type = "CREATE"

RebuildOK ==
  txn.open => /\ Extends(events, txn.savedEvents, txn.pending.node)
              /\ \A e \in txn.todo : e.node = txn.pending.node
              /\ RootSafe(db.root, txn.todo, txn.pending.node, txn.saved.root)

LedgerInv == KernelInv /\ RebuildOK

(***************************************************************************)
(* The root.                                                               *)
(***************************************************************************)
(* Only the CREATE of a root writes the org_trees row.                     *)
LEMMA ApplyUpdateRoot ==
  ASSUME NEW log, NEW db0, Good(db0), NEW n \in Nodes, NEW d \in Dates, NEW payload,
         PayloadOK(payload), NEW after \in ApplyUpdate(log, db0, n, d, payload)
  PROVE  after.root = db0.root
<1> DEFINE bu == payload["is_business_unit"]
           flagStop == StopDate(log, n, "SET_BUSINESS_UNIT", d)
           nameStop == StopDate(log, n, "RENAME", d)
           moved == IF CarriesParent(payload)
                    THEN ApplyMove(db0, n, NewParent(payload), d) ELSE {db0}
           switched == IF Carries(payload, "status")
                       THEN OnEach(moved, LAMBDA x :
                              ApplyStatus(x, n, d, payload["status"]))
                       ELSE moved
           classified == IF Carries(payload, "is_business_unit")
                         THEN OnEach(switched, LAMBDA x :
                                ApplySetBusinessUnit(x, n, d, bu, flagStop))
                         ELSE switched
<1>1. \A x \in moved : Good(x) /\ x.root = db0.root
  <2>1. CASE CarriesParent(payload)
    <3>1. NewParent(payload) \in Nodes
      BY <2>1, NewParentOK
    <3>2. \A x \in moved : Good(x)
      BY <2>1, <3>1, ApplyMoveGood
    <3>3. \A x \in moved : x.root = db0.root
      BY <2>1, GoodParts DEF ApplyMove
    <3> QED
      BY <3>2, <3>3
  <2> QED
    BY <2>1
<1> HIDE DEF moved
<1>2. \A x \in switched : Good(x) /\ x.root = db0.root
  <2>1. CASE Carries(payload, "status")
    <3>1. payload["status"] \in Statuses
      BY <2>1 DEF PayloadOK, Carries
    <3> SUFFICES ASSUME NEW x \in switched PROVE Good(x) /\ x.root = db0.root
      OBVIOUS
    <3>2. PICK y \in moved : x \in ApplyStatus(y, n, d, payload["status"])
      BY <2>1 DEF OnEach
    <3>3. Good(x)
      BY <1>1, <3>1, <3>2, ApplyStatusGood
    <3>4. x.root = y.root
      BY <1>1, <3>2, GoodParts DEF ApplyStatus
    <3> QED
      BY <1>1, <3>3, <3>4
  <2> QED
    BY <2>1, <1>1
<1> HIDE DEF switched
<1>3. \A x \in classified : Good(x) /\ x.root = db0.root
  <2>1. CASE Carries(payload, "is_business_unit")
    <3>1. bu \in BOOLEAN
      BY <2>1 DEF PayloadOK, Carries
    <3> SUFFICES ASSUME NEW x \in classified PROVE Good(x) /\ x.root = db0.root
      OBVIOUS
    <3>2. PICK y \in switched : x \in ApplySetBusinessUnit(y, n, d, bu, flagStop)
      BY <2>1 DEF OnEach
    <3>3. Good(x)
      BY <1>2, <3>1, <3>2, ApplySetBusinessUnitGood
    <3>4. x.root = y.root
      BY <1>2, <3>2, GoodParts DEF ApplySetBusinessUnit
    <3> QED
      BY <1>2, <3>3, <3>4
  <2> QED
    BY <2>1, <1>2
<1>4. CASE CarriesName(payload)
  <2>1. after \in OnEach(classified, LAMBDA x :
                    ApplyRename(x, n, d, NewName(payload), nameStop))
    BY <1>4 DEF ApplyUpdate, moved, switched
  <2> HIDE DEF classified
  <2>2. PICK y \in classified : after \in ApplyRename(y, n, d, NewName(payload), nameStop)
    BY <2>1 DEF OnEach
  <2> QED
    BY <1>3, <2>2, GoodParts DEF ApplyRename
<1>5. CASE ~CarriesName(payload)
  <2>1. after \in classified
    BY <1>5 DEF ApplyUpdate, moved, switched
  <2> QED
    BY <1>3, <2>1
<1> QED
  BY <1>4, <1>5

LEMMA ApplyCreateRoot ==
  ASSUME NEW db0, Good(db0), NEW n \in Nodes, NEW d, NEW payload,
         NEW after \in ApplyCreate(db0, n, d, payload)
  PROVE  /\ after.root # NoNode
         /\ after.root = db0.root \/ (db0.root = NoNode /\ after.root = n)
<1> DEFINE p == Field(payload, "parent_org_node_key", NoNode)
<1>1. CASE p = NoNode
  <2>1. after \in CreateRoot(db0, n, d, payload)
    BY <1>1 DEF ApplyCreate
  <2>2. db0.root = NoNode
    BY <2>1 DEF CreateRoot
  <2>3. after = [versions |-> db0.versions \cup {NewRow(n, NoNode, <<n>>, d, payload, TRUE)},
                 root |-> n, codes |-> CreateCodes(db0.codes, n, payload)]
    BY <2>1 DEF CreateRoot
  <2>4. n # NoNode
    BY DEF Nodes, NoNode
  <2> QED
    BY <2>2, <2>3, <2>4
<1>2. CASE p # NoNode
  <2>1. after \in CreateChild(db0, n, p, d, payload)
    BY <1>2 DEF ApplyCreate
  <2>2. db0.root # NoNode /\ after.root = db0.root
    BY <2>1, GoodParts DEF CreateChild
  <2> QED
    BY <2>2
<1> QED
  BY <1>1, <1>2

LEMMA ApplyLogicRoot ==
  ASSUME NEW log, NEW db0, Good(db0), NEW n \in Nodes, NEW type \in BaseTypes,
         NEW d \in Dates, NEW payload, PayloadOK(payload),
         NEW after \in ApplyLogic(log, db0, n, type, d, payload)
  PROVE  /\ type # "CREATE" => after.root = db0.root
         /\ type = "CREATE" => after.root # NoNode
         /\ after.root = db0.root \/ (db0.root = NoNode /\ after.root = n)
<1>1. CASE type = "CREATE"
  BY <1>1, ApplyCreateRoot DEF ApplyLogic
<1>2. CASE type = "UPDATE"
  BY <1>2, ApplyUpdateRoot DEF ApplyLogic
<1>3. CASE type = "MOVE"
  BY <1>3, GoodParts DEF ApplyLogic, ApplyMove
<1>4. CASE type = "RENAME"
  BY <1>4, GoodParts DEF ApplyLogic, ApplyRename
<1>5. CASE type \in {"ENABLE", "DISABLE"}
  BY <1>5, GoodParts DEF ApplyLogic, ApplyStatus
<1>6. CASE type = "SET_BUSINESS_UNIT"
  BY <1>6, GoodParts DEF ApplyLogic, ApplySetBusinessUnit
<1> QED
  BY <1>1, <1>2, <1>3, <1>4, <1>5, <1>6 DEF BaseTypes

LEMMA ApplyRoot ==
  ASSUME NEW log, NEW db0, Good(db0), NEW n \in Nodes, NEW type \in BaseTypes,
         NEW d \in Dates, NEW payload, PayloadOK(payload), Complete(type, payload),
         NEW after \in Apply(log, db0, n, type, d, payload)
  PROVE  /\ type # "CREATE" => after.root = db0.root
         /\ type = "CREATE" => after.root # NoNode
         /\ after.root = db0.root \/ (db0.root = NoNode /\ after.root = n)
<1>1. CASE ChangesNames(type, payload)
  <2>1. PICK x \in ApplyLogic(log, db0, n, type, d, payload) :
          after = RebuildFullNames(x, n, d)
    BY <1>1 DEF Apply
  <2>2. Good(x)
    BY ApplyLogicGood
  <2>3. after.root = x.root
    BY <2>1, <2>2, GoodParts DEF RebuildFullNames
  <2> QED
    BY <2>3, ApplyLogicRoot
<1>2. CASE ~ChangesNames(type, payload)
  BY <1>2, ApplyLogicRoot DEF Apply
<1> QED
  BY <1>1, <1>2

(***************************************************************************)
(* The steps that open a rebuild, or the next one of a batch.              *)
(***************************************************************************)
LEMMA StartRebuildRoot ==
  ASSUME NEW t, DOMAIN t = TxnFields, NEW log, LogOK(log), Good(db),
         NEW pending, EventOK(pending), pending.target <= Len(log),
         StartRebuild(t, log, pending), NEW saved, saved # NoNode => db.root = saved
  PROVE  /\ \A e \in txn'.todo : e.node = pending.node
         /\ RootSafe(db'.root, txn'.todo, pending.node, saved)
<1> DEFINE todo == ReplayEvents(Append(log, pending), pending.node)
<1>1. /\ db.root = pending.node => \E e \in todo : e.type = "CREATE"
      /\ db' = WithoutNode(db, pending.node)
      /\ txn' = [t EXCEPT !.open = TRUE, !.pending = pending, !.todo = todo,
                          !.before = ExistsAt(db.versions, pending.node, pending.date)]
  BY DEF StartRebuild
<1>2. \A e \in todo : e.node = pending.node
  BY AppendOK, ReplayEventsOK DEF EventOK
<1> HIDE DEF todo
<1>3. txn'.todo = todo
  BY <1>1 DEF TxnFields
<1>4. db'.root = IF db.root = pending.node THEN NoNode ELSE db.root
  BY <1>1 DEF WithoutNode
<1> QED
  BY <1>1, <1>2, <1>3, <1>4 DEF RootSafe

LEMMA ExtendsSame ==
  ASSUME NEW log, LogOK(log), NEW n
  PROVE  Extends(log, log, n)
<1>1. Len(log) \in Nat
  BY LogShape
<1> QED
  BY <1>1 DEF Extends

LEMMA ExtendsAppend ==
  ASSUME NEW log, LogOK(log), NEW old, Len(old) \in Nat, NEW n, Extends(log, old, n),
         NEW e, e.node = n
  PROVE  Extends(Append(log, e), old, n)
<1> DEFINE new == Append(log, e)
<1>1. /\ Len(new) = Len(log) + 1
      /\ \A i \in DOMAIN log : new[i] = log[i]
      /\ new[Len(log) + 1] = e
  BY AppendShape
<1>2. Len(log) \in Nat /\ DOMAIN log = 1 .. Len(log)
  BY LogShape
<1> HIDE DEF new
<1>3. \A i \in 1 .. Len(old) : new[i] = old[i]
  BY <1>1, <1>2 DEF Extends
<1>4. ASSUME NEW i \in (Len(old) + 1) .. Len(new)
      PROVE  new[i].node = n
  <2>1. i \in DOMAIN log \/ i = Len(log) + 1
    BY <1>1, <1>2
  <2>2. CASE i \in DOMAIN log
    BY <1>1, <1>2, <2>2 DEF Extends
  <2>3. CASE i = Len(log) + 1
    BY <1>1, <2>3
  <2> QED
    BY <2>1, <2>2, <2>3
<1> QED
  BY <1>1, <1>2, <1>3, <1>4 DEF Extends, new

(* What a step may do to what readers see. *)
Unseen == CommittedLog' = CommittedLog /\ Committed' = Committed

Visible == \/ Unseen
           \/ /\ Ledger!Publish
              /\ Committed.root # NoNode => Committed'.root = Committed.root

LEMMA BeginRebuildOK ==
  ASSUME KernelInv, LockFree, NEW pending, NEW batch, RebuildBegins(pending, batch)
  PROVE  RebuildOK' /\ Unseen
<1> DEFINE t == [NoTxn EXCEPT !.batch = batch, !.savedEvents = events, !.saved = db]
<1>1. DOMAIN t = TxnFields /\ t.savedEvents = events /\ t.saved = db
  BY DEF NoTxn, TxnFields
<1>2. StartRebuild(t, events, pending) /\ events' = events
  BY DEF RebuildBegins, BeginRebuild
<1> HIDE DEF t
<1>3. LogOK(events) /\ Good(db) /\ EventOK(pending) /\ pending.target <= Len(events)
  BY DEF KernelInv, RebuildBegins
<1>4. /\ txn'.open /\ txn'.pending = pending
      /\ txn'.savedEvents = events /\ txn'.saved = db
  BY <1>1, <1>2, <1>3, StartRebuildOK
<1>5. /\ \A e \in txn'.todo : e.node = pending.node
      /\ RootSafe(db'.root, txn'.todo, pending.node, db.root)
  BY <1>1, <1>2, <1>3, StartRebuildRoot
<1>6. Extends(events, events, pending.node)
  BY <1>3, ExtendsSame
<1>7. RebuildOK'
  BY <1>2, <1>4, <1>5, <1>6 DEF RebuildOK
<1>8. CommittedLog' = CommittedLog /\ Committed' = Committed
  BY <1>4 DEF LockFree, CommittedLog, Committed
<1> QED
  BY <1>7, <1>8 DEF Unseen

(* A transaction that commits publishes events of one node. *)
LEMMA PublishOK ==
  ASSUME NEW old, LogOK(old), NEW new, LogOK(new), NEW n, Extends(new, old, n),
         Len(old) < Len(new)
  PROVE  /\ Len(new) > Len(old)
         /\ SubSeq(new, 1, Len(old)) = old
         /\ \A i, j \in (Len(old) + 1) .. Len(new) : new[i].node = new[j].node
<1>1. Len(old) \in Nat /\ Len(new) \in Nat /\ DOMAIN old = 1 .. Len(old)
      /\ DOMAIN new = 1 .. Len(new)
  BY LogShape
<1>2. SubSeq(new, 1, Len(old)) = old
  <2> DEFINE S == Elements(new) \cup Elements(old)
             sub == SubSeq(new, 1, Len(old))
  <2>1. old \in Seq(S)
    BY SeqMonotonic DEF LogOK
  <2>2. \A i \in 1 .. Len(old) : new[i] \in S
    BY <1>1 DEF Elements
  <2> HIDE DEF S
  <2>3. /\ sub \in Seq(S)
        /\ Len(sub) = Len(old)
        /\ \A i \in 1 .. Len(old) : sub[i] = new[i]
    BY <1>1, <2>2, SubSeqProperties
  <2>4. \A i \in 1 .. Len(old) : sub[i] = old[i]
    BY <2>3 DEF Extends
  <2> HIDE DEF sub
  <2>5. sub = old
    BY <2>1, <2>3, <2>4, SeqEqual
  <2> QED
    BY <2>5 DEF sub
<1> QED
  BY <1>1, <1>2 DEF Extends

LEMMA SubmitBaseOK ==
  ASSUME LedgerInv, KernelInv', SubmitBase
  PROVE  RebuildOK' /\ Visible
<1>1. PICK type \in BaseKinds, d \in Dates, time \in StartTimes :
        \E n \in Targets(type), payload \in BasePayloads(type) :
          SubmitEvent(type, n, d, payload, time)
  BY DEF SubmitBase
<1>2. PICK n \in Targets(type), payload \in BasePayloads(type) :
        SubmitEvent(type, n, d, payload, time)
  BY <1>1
<1>3. type \in BaseTypes /\ n \in Nodes
  BY KindsAssumption, KnownNodes DEF Targets
<1>4. PayloadOK(payload) /\ Complete(type, payload)
  BY <1>3, BasePayloadsOK
<1> DEFINE e == Event(n, type, d, payload, NoTarget, time)
<1>5. e.node = n
  BY DEF Event
<1> HIDE DEF e
<1>6. /\ ~txn.open /\ txn' = txn
      /\ db' \in Apply(events, db, n, type, d, payload)
      /\ events' = Append(events, e)
  BY <1>2 DEF SubmitEvent, SubmitBase, LockFree, e
<1>7. LogOK(events) /\ LogOK(events') /\ Good(db) /\ Good(db')
  BY DEF LedgerInv, KernelInv
<1>8. db'.root = db.root \/ db.root = NoNode
  BY <1>3, <1>4, <1>6, <1>7, ApplyRoot
<1>9. Extends(events', events, n) /\ Len(events) < Len(events')
  BY <1>5, <1>6, <1>7, ExtendsSame, ExtendsAppend, AppendShape, LogShape
<1>10. /\ CommittedLog = events /\ CommittedLog' = events'
       /\ Committed = db /\ Committed' = db'
  BY <1>6 DEF CommittedLog, Committed
<1>11. Readable(db')
  BY <1>7 DEF Readable, Good
<1>12. Ledger!Publish
  BY <1>7, <1>9, <1>10, <1>11, PublishOK DEF Ledger!Publish
<1> QED
  BY <1>6, <1>8, <1>10, <1>12 DEF RebuildOK, Visible

LEMMA ReplayStepOK ==
  ASSUME LedgerInv, ReplayStep
  PROVE  RebuildOK' /\ Unseen
<1>1. PICK e \in txn.todo :
        /\ db' \in Apply(events, db, e.node, e.type, e.date, e.payload)
        /\ txn' = [txn EXCEPT !.todo = @ \ {e}]
  BY DEF ReplayStep
<1>2. events' = events /\ txn.open
  BY DEF ReplayStep
<1>3. Good(db) /\ ReplayOK(e) /\ DOMAIN txn = TxnFields
  BY DEF LedgerInv, KernelInv, TxnOK, TxnFields
<1>4. /\ Extends(events, txn.savedEvents, txn.pending.node)
      /\ \A x \in txn.todo : x.node = txn.pending.node
      /\ RootSafe(db.root, txn.todo, txn.pending.node, txn.saved.root)
  BY <1>2 DEF LedgerInv, RebuildOK
<1>5. /\ e.type # "CREATE" => db'.root = db.root
      /\ e.type = "CREATE" => db'.root # NoNode
      /\ db'.root = db.root \/ (db.root = NoNode /\ db'.root = e.node)
  BY <1>1, <1>3, ApplyRoot DEF ReplayOK
<1>6. RootSafe(db'.root, txn.todo \ {e}, txn.pending.node, txn.saved.root)
  BY <1>4, <1>5 DEF RootSafe
<1>7. /\ txn'.open /\ txn'.todo = txn.todo \ {e} /\ txn'.pending = txn.pending
      /\ txn'.savedEvents = txn.savedEvents /\ txn'.saved = txn.saved
  BY <1>1, <1>2, <1>3 DEF TxnFields
<1>8. RebuildOK'
  BY <1>2, <1>4, <1>6, <1>7 DEF RebuildOK
<1>9. CommittedLog' = CommittedLog /\ Committed' = Committed
  BY <1>2, <1>7 DEF CommittedLog, Committed
<1> QED
  BY <1>8, <1>9 DEF Unseen

(* When nothing is left to replay, the root is back. *)
LEMMA RebuiltRoot ==
  ASSUME LedgerInv, RebuildDone
  PROVE  /\ txn.saved.root # NoNode => db.root = txn.saved.root
         /\ Extends(events', txn.savedEvents, txn.pending.node)
         /\ Len(txn.savedEvents) < Len(events')
<1>1. /\ txn.open /\ txn.todo = {} /\ events' = Append(events, txn.pending)
  BY DEF RebuildDone
<1>2. LogOK(events) /\ LogOK(txn.savedEvents)
  BY DEF LedgerInv, KernelInv, TxnOK
<1>3. Len(txn.savedEvents) \in Nat /\ Len(events) \in Nat
  BY <1>2, LogShape
<1>4. /\ Extends(events, txn.savedEvents, txn.pending.node)
      /\ RootSafe(db.root, txn.todo, txn.pending.node, txn.saved.root)
  BY <1>1 DEF LedgerInv, RebuildOK
<1>5. Extends(events', txn.savedEvents, txn.pending.node)
  BY <1>1, <1>2, <1>3, <1>4, ExtendsAppend
<1>6. Len(txn.savedEvents) < Len(events')
  BY <1>1, <1>2, <1>3, <1>4, AppendShape DEF Extends
<1> QED
  BY <1>1, <1>4, <1>5, <1>6 DEF RootSafe

LEMMA NextTargetOK ==
  ASSUME LedgerInv, NextTarget
  PROVE  RebuildOK' /\ Unseen
<1>1. /\ txn.open
      /\ LogOK(events') /\ Len(events') = Len(events) + 1
      /\ DOMAIN events \subseteq DOMAIN events'
      /\ Len(events) \in Nat
  BY RebuildDoneOK DEF NextTarget, LedgerInv
<1>2. PICK t \in txn.batch :
        StartRebuild([txn EXCEPT !.batch = @ \ {t}], events',
                     RescindOf(txn.pending.node, t, txn.pending.time))
  BY DEF NextTarget
<1>3. /\ DOMAIN txn = TxnFields /\ EventOK(txn.pending) /\ Good(db)
      /\ \A u \in txn.batch : u.id \in DOMAIN events /\ u.asOf \in Dates
  BY <1>1 DEF LedgerInv, KernelInv, TxnOK, BatchOK, TxnFields
<1> DEFINE rest == [txn EXCEPT !.batch = @ \ {t}]
           e == RescindOf(txn.pending.node, t, txn.pending.time)
<1>4. /\ DOMAIN rest = TxnFields
      /\ rest.savedEvents = txn.savedEvents /\ rest.saved = txn.saved
  BY <1>3 DEF TxnFields
<1>5. DOMAIN events = 1 .. Len(events)
  BY LogShape DEF LedgerInv, KernelInv
<1>6. EventOK(e) /\ e.target = t.id /\ e.node = txn.pending.node
  <2>1. txn.pending.node \in Nodes /\ txn.pending.time \in Nat
    BY <1>3 DEF EventOK
  <2>2. t.asOf \in Dates /\ t.id \in Nat
    BY <1>3, <1>5
  <2> QED
    BY <2>1, <2>2, RescindOfOK DEF RescindOf, Event
<1>7. e.target <= Len(events')
  BY <1>1, <1>3, <1>5, <1>6
<1>8. StartRebuild(rest, events', e)
  BY <1>2
<1> HIDE DEF rest, e
<1>9. /\ txn'.open /\ txn'.pending = e
      /\ txn'.savedEvents = txn.savedEvents /\ txn'.saved = txn.saved
  BY <1>1, <1>3, <1>4, <1>6, <1>7, <1>8, StartRebuildOK
<1>10. /\ txn.saved.root # NoNode => db.root = txn.saved.root
       /\ Extends(events', txn.savedEvents, txn.pending.node)
  BY RebuiltRoot DEF NextTarget
<1>11. /\ \A x \in txn'.todo : x.node = e.node
       /\ RootSafe(db'.root, txn'.todo, e.node, txn.saved.root)
  BY <1>1, <1>3, <1>4, <1>6, <1>7, <1>8, <1>10, StartRebuildRoot, ZenonT(60)
<1>12. RebuildOK'
  BY <1>6, <1>9, <1>10, <1>11 DEF RebuildOK
<1>13. CommittedLog' = CommittedLog /\ Committed' = Committed
  BY <1>1, <1>9 DEF CommittedLog, Committed
<1> QED
  BY <1>12, <1>13 DEF Unseen

LEMMA CommitOK ==
  ASSUME LedgerInv, KernelInv', Commit
  PROVE  RebuildOK' /\ Visible
<1>1. RebuildDone /\ txn' = NoTxn /\ db' = db
  BY DEF Commit
<1>2. ~txn'.open
  BY <1>1 DEF NoTxn
<1>3. txn.open
  BY <1>1 DEF RebuildDone
<1>4. /\ CommittedLog = txn.savedEvents /\ CommittedLog' = events'
      /\ Committed = txn.saved /\ Committed' = db'
  BY <1>2, <1>3 DEF CommittedLog, Committed
<1>5. LogOK(txn.savedEvents) /\ LogOK(events') /\ Good(db')
  BY DEF LedgerInv, KernelInv, TxnOK
<1>6. /\ txn.saved.root # NoNode => db.root = txn.saved.root
      /\ Extends(events', txn.savedEvents, txn.pending.node)
      /\ Len(txn.savedEvents) < Len(events')
  BY <1>1, RebuiltRoot
<1>7. Readable(db')
  BY <1>5 DEF Readable, Good
<1>8. Ledger!Publish
  BY <1>4, <1>5, <1>6, <1>7, PublishOK DEF Ledger!Publish
<1> QED
  BY <1>1, <1>2, <1>4, <1>6, <1>8 DEF RebuildOK, Visible

LEMMA AbortOK ==
  ASSUME LedgerInv, Abort
  PROVE  RebuildOK' /\ Unseen
<1>1. /\ txn.open /\ events' = txn.savedEvents /\ db' = txn.saved /\ txn' = NoTxn
  BY DEF Abort
<1>2. ~txn'.open
  BY <1>1 DEF NoTxn
<1> QED
  BY <1>1, <1>2 DEF RebuildOK, Unseen, CommittedLog, Committed

LEMMA LedgerStep ==
  ASSUME LedgerInv, [Next]_vars
  PROVE  LedgerInv' /\ Visible
<1>1. KernelInv /\ KernelInv'
  BY StepInv DEF LedgerInv
<1>2. CASE Wait
  <2>1. events' = events /\ db' = db /\ txn' = txn
    BY <1>2 DEF Wait
  <2> QED
    BY <1>1, <2>1 DEF LedgerInv, RebuildOK, Visible, Unseen, CommittedLog, Committed
<1>3. CASE SubmitBase
  BY <1>1, <1>3, SubmitBaseOK DEF LedgerInv
<1>4. CASE Rescind
  BY <1>1, <1>4, RescindBegins, BeginRebuildOK DEF LedgerInv, Visible
<1>5. CASE Correct
  BY <1>1, <1>5, CorrectBegins, BeginRebuildOK DEF LedgerInv, Visible
<1>6. CASE StatusCorrection
  BY <1>1, <1>6, StatusCorrectionBegins, BeginRebuildOK DEF LedgerInv, Visible
<1>7. CASE RescindUnit
  BY <1>1, <1>7, RescindUnitBegins, BeginRebuildOK DEF LedgerInv, Visible
<1>8. CASE ReplayStep
  BY <1>1, <1>8, ReplayStepOK DEF LedgerInv, Visible
<1>9. CASE NextTarget
  BY <1>1, <1>9, NextTargetOK DEF LedgerInv, Visible
<1>10. CASE Commit
  BY <1>1, <1>10, CommitOK DEF LedgerInv
<1>11. CASE Abort
  BY <1>1, <1>11, AbortOK DEF LedgerInv, Visible
<1>12. CASE UNCHANGED vars
  BY <1>1, <1>12 DEF vars, LedgerInv, RebuildOK, Visible, Unseen, CommittedLog, Committed
<1> QED
  BY <1>2, <1>3, <1>4, <1>5, <1>6, <1>7, <1>8, <1>9, <1>10, <1>11, <1>12 DEF Next

LEMMA LedgerInit == Init => LedgerInv /\ Ledger!Init
<1> SUFFICES ASSUME Init PROVE LedgerInv /\ Ledger!Init
  OBVIOUS
<1>1. ~txn.open /\ events = <<>> /\ db = EmptyProjection
  BY DEF Init, NoTxn
<1> QED
  BY <1>1, InitInv DEF LedgerInv, RebuildOK, Ledger!Init, CommittedLog, Committed

(* Readers see the ledger of OrgUnitLedger: an append-only log, and a      *)
(* projection that changes only when a whole transaction about one node is *)
(* appended; a rebuild in progress and a rebuild that fails are invisible. *)
THEOREM LedgerImplemented == Spec => LedgerSpec
<1>1. LedgerInv /\ [Next]_vars => LedgerInv'
  BY LedgerStep
<1>2. LedgerInv /\ [Next]_vars => [Ledger!Publish]_(Ledger!ledgerVars)
  BY LedgerStep DEF Visible, Unseen, Ledger!ledgerVars
<1> QED
  BY <1>1, <1>2, LedgerInit, PTL DEF Spec, LedgerSpec, Ledger!Spec

(* Once the tree has a root, readers see that root for ever: a rebuild of  *)
(* the root deletes the org_trees row, and only the CREATE that it is      *)
(* bound to replay can insert it again.                                    *)
THEOREM RootNeverReplaced == Spec => RootKept
<1>1. LedgerInv /\ [Next]_vars => LedgerInv'
  BY LedgerStep
<1>2. LedgerInv /\ [Next]_vars =>
        [Committed.root # NoNode => Committed'.root = Committed.root]_vars
  BY LedgerStep DEF Visible, Unseen
<1> QED
  BY <1>1, <1>2, LedgerInit, PTL DEF Spec, RootKept
=============================================================================
