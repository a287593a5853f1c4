------------------------- MODULE OrgUnitTreeProofs -------------------------
(***************************************************************************)
(* The shape of the tree of organisation units: a stored path ends with    *)
(* the parent and the node of its row, the root is a business unit, and    *)
(* nothing else is without a parent.  The units have a code each.  While   *)
(* events come in date order, paths and full names follow the tree.        *)
(***************************************************************************)
EXTENDS OrgUnitHistoryProofs

(***************************************************************************)
(* The inductive invariant.  r is the root that readers see; `root` is the *)
(* org_trees row, which is missing while the root is rebuilt.              *)
(***************************************************************************)
RootRow(v, root, r) ==
  /\ v.parent = NoNode <=> v.node = r
  /\ v.node = r => v.bu /\ root = r

Tree(V, root, r) ==
  /\ root \in {NoNode, r}
  /\ \A v \in V : PathOK(v) /\ RootRow(v, root, r)
  /\ root # NoNode => \E v \in V : v.node = root

TreeOK(p, r) == Tree(p.versions, p.root, r)

TreeInv ==
  /\ LedgerInv
  /\ IF txn.open THEN /\ TreeOK(db, txn.saved.root)
                      /\ TreeOK(txn.saved, txn.saved.root)
                      /\ txn.saved.root # NoNode
     ELSE /\ TreeOK(db, db.root)
          /\ events # <<>> => db.root # NoNode

(***************************************************************************)
(* Statements that keep the shape of every row.                            *)
(***************************************************************************)
SameShape(w, v, r) ==
  /\ w.node = v.node /\ w.parent = v.parent /\ w.path = v.path
  /\ v.node = r /\ v.bu => w.bu

LEMMA ShapesKeepTree ==
  ASSUME NEW V, NEW W, NEW root, NEW r, Tree(V, root, r),
         \A w \in W : \E v \in V : SameShape(w, v, r),
         \A v \in V : \E w \in W : w.node = v.node
  PROVE  Tree(W, root, r)
<1>1. ASSUME NEW w \in W PROVE PathOK(w) /\ RootRow(w, root, r)
  <2>1. PICK v \in V : SameShape(w, v, r)
    OBVIOUS
  <2> QED
    BY <2>1 DEF Tree, PathOK, RootRow, SameShape
<1> QED
  BY <1>1 DEF Tree

LEMMA SplitShapes ==
  ASSUME NEW V, RowsOK(V), NEW S \in SUBSET V, NEW d, NEW r
  PROVE  /\ \A w \in SplitAt(V, S, d) : \E v \in V : SameShape(w, v, r)
         /\ \A v \in V : \E w \in SplitAt(V, S, d) : w.node = v.node
<1>1. \A v \in V : /\ SameShape(v, v, r)
                   /\ SameShape(Lower(v, d), v, r)
                   /\ SameShape(Upper(v, d), v, r)
  BY DEF RowsOK, RowOK, Columns, SameShape, Lower, Upper
<1>2. ASSUME NEW w \in SplitAt(V, S, d) PROVE \E v \in V : SameShape(w, v, r)
  <2>1. PICK v \in V : w = v \/ w = Lower(v, d) \/ w = Upper(v, d)
    BY SplitMembers
  <2> QED
    BY <1>1, <2>1
<1>3. ASSUME NEW v \in V PROVE \E w \in SplitAt(V, S, d) : w.node = v.node
  <2>1. v \in SplitAt(V, S, d) \/ Lower(v, d) \in SplitAt(V, S, d)
    BY SplitMembers
  <2> QED
    BY <1>1, <2>1 DEF SameShape
<1> QED
  BY <1>2, <1>3

LEMMA SplitNodeTree ==
  ASSUME NEW V, RowsOK(V), NEW n, NEW d, NEW root, NEW r, Tree(V, root, r)
  PROVE  Tree(SplitNode(V, n, d), root, r)
<1>1. RowsOf(V, n) \in SUBSET V
  BY DEF RowsOf
<1> DEFINE W == SplitNode(V, n, d)
<1>2. /\ \A w \in W : \E v \in V : SameShape(w, v, r)
      /\ \A v \in V : \E w \in W : w.node = v.node
  BY <1>1, SplitShapes, ZenonT(60) DEF SplitNode
<1> HIDE DEF W
<1>3. Tree(W, root, r)
  BY <1>2, ShapesKeepTree
<1> QED
  BY <1>3 DEF W

(* The rows get new values in columns that the shape does not read. *)
LEMMA UpdateTree ==
  ASSUME NEW V, NEW root, NEW r, Tree(V, root, r), NEW g,
         \A v \in V : SameShape(g[v], v, r)
  PROVE  Tree({g[v] : v \in V}, root, r)
<1>1. \A w \in {g[v] : v \in V} : \E v \in V : SameShape(w, v, r)
  OBVIOUS
<1>2. \A v \in V : \E w \in {g[u] : u \in V} : w.node = v.node
  BY DEF SameShape
<1> QED
  BY <1>1, <1>2, ShapesKeepTree

LEMMA NewVersionsTree ==
  ASSUME NEW p, Good(p), NEW V, NEW r, Tree(V, p.root, r)
  PROVE  TreeOK([p EXCEPT !.versions = V], r)
  BY GoodParts DEF TreeOK

LEMMA ApplyRenameTree ==
  ASSUME NEW db0, Good(db0), NEW n, NEW d \in Dates, NEW name, NEW stop,
         NEW r, TreeOK(db0, r), NEW after \in ApplyRename(db0, n, d, name, stop)
  PROVE  TreeOK(after, r)
<1> DEFINE V == SplitNode(db0.versions, n, d)
           g == [v \in V |-> IF StartsIn(v, n, d, stop)
                             THEN [v EXCEPT !.name = name] ELSE v]
<1>1. RowsOK(V) /\ Tree(V, db0.root, r)
  BY SplitNodeGood, SplitNodeTree, GoodParts DEF TreeOK
<1>2. \A v \in V : SameShape(g[v], v, r)
  BY <1>1 DEF RowsOK, RowOK, Columns, SameShape
<1>3. after = [db0 EXCEPT !.versions = {g[v] : v \in V}]
  BY DEF ApplyRename
<1> HIDE DEF V, g
<1>4. Tree({g[v] : v \in V}, db0.root, r)
  BY <1>1, <1>2, UpdateTree
<1> QED
  BY <1>3, <1>4, NewVersionsTree

LEMMA ApplyStatusTree ==
  ASSUME NEW db0, Good(db0), NEW n, NEW d \in Dates, NEW status,
         NEW r, TreeOK(db0, r), NEW after \in ApplyStatus(db0, n, d, status)
  PROVE  TreeOK(after, r)
<1> DEFINE V == SplitNode(db0.versions, n, d)
           g == [v \in V |-> IF StartsIn(v, n, d, Infinity)
                             THEN [v EXCEPT !.status = status] ELSE v]
<1>1. RowsOK(V) /\ Tree(V, db0.root, r)
  BY SplitNodeGood, SplitNodeTree, GoodParts DEF TreeOK
<1>2. \A v \in V : SameShape(g[v], v, r)
  BY <1>1 DEF RowsOK, RowOK, Columns, SameShape
<1>3. after = [db0 EXCEPT !.versions = {g[v] : v \in V}]
  BY DEF ApplyStatus
<1> HIDE DEF V, g
<1>4. Tree({g[v] : v \in V}, db0.root, r)
  BY <1>1, <1>2, UpdateTree
<1> QED
  BY <1>3, <1>4, NewVersionsTree

(* While the root is being rebuilt it has no rows, so that a missing       *)
(* org_trees row does not open the way for a plain root.                   *)
LEMMA ApplySetBusinessUnitTree ==
  ASSUME NEW db0, Good(db0), NEW n, NEW d \in Dates, NEW bu, NEW stop,
         NEW r, TreeOK(db0, r),
         NEW after \in ApplySetBusinessUnit(db0, n, d, bu, stop)
  PROVE  TreeOK(after, r)
<1> DEFINE V == SplitNode(db0.versions, n, d)
           g == [v \in V |-> IF StartsIn(v, n, d, stop)
                             THEN [v EXCEPT !.bu = bu] ELSE v]
<1>1. RowsOK(V) /\ Tree(V, db0.root, r)
  BY SplitNodeGood, SplitNodeTree, GoodParts DEF TreeOK
<1>2. ASSUME NEW v \in V PROVE SameShape(g[v], v, r)
  <2>1. v.node = r /\ v.node = n => bu
    BY <1>1 DEF Tree, RootRow, ApplySetBusinessUnit
  <2> QED
    BY <1>1, <2>1 DEF RowsOK, RowOK, Columns, SameShape, StartsIn
<1>3. after = [db0 EXCEPT !.versions = {g[v] : v \in V}]
  BY DEF ApplySetBusinessUnit
<1> HIDE DEF V, g
<1>4. Tree({g[v] : v \in V}, db0.root, r)
  BY <1>1, <1>2, UpdateTree
<1> QED
  BY <1>3, <1>4, NewVersionsTree

LEMMA RebuildFullNamesTree ==
  ASSUME NEW db0, Good(db0), NEW n, NEW d, NEW r, TreeOK(db0, r)
  PROVE  TreeOK(RebuildFullNames(db0, n, d), r)
<1> DEFINE V == db0.versions
           path == RowAt(V, n, d).path
           g == [v \in V |-> IF Under(v.path, path) /\ d <= v.from
                             THEN [v EXCEPT !.full = NamesOf(V, v.path, v.from)]
                             ELSE v]
<1>1. \A v \in V : SameShape(g[v], v, r)
  BY GoodParts DEF RowsOK, RowOK, Columns, SameShape
<1>2. RebuildFullNames(db0, n, d) = IF ~ExistsAt(V, n, d) THEN db0
                                    ELSE [db0 EXCEPT !.versions = {g[v] : v \in V}]
  BY DEF RebuildFullNames
<1>3. Tree(V, db0.root, r)
  BY DEF TreeOK
<1> HIDE DEF V, g
<1>4. Tree({g[v] : v \in V}, db0.root, r)
  BY <1>1, <1>3, UpdateTree
<1> QED
  BY <1>2, <1>4, NewVersionsTree

(***************************************************************************)
(* CREATE.                                                                 *)
(***************************************************************************)
LEMMA NewPathOK ==
  ASSUME NEW n \in Nodes, NEW p, NEW v, RowOK(v), PathOK(v), v.node = p
  PROVE  /\ Append(v.path, n) \in Seq(Nodes)
         /\ Len(Append(v.path, n)) > 1
         /\ Append(v.path, n)[Len(Append(v.path, n))] = n
         /\ Append(v.path, n)[Len(Append(v.path, n)) - 1] = p
<1>1. v.path \in Seq(Nodes) /\ v.path # <<>> /\ v.path[Len(v.path)] = p
  BY DEF RowOK, PathOK, Last
<1>2. Len(v.path) \in Nat \ {0}
  BY <1>1, EmptySeq
<1> QED
  BY <1>1, <1>2, AppendProperties

(* A new row has the shape of the tree, and its node had no row before. *)
LEMMA InsertTree ==
  ASSUME NEW V, NEW root, NEW r, Tree(V, root, r), NEW row, PathOK(row),
         RootRow(row, root, r)
  PROVE  Tree(V \cup {row}, root, r)
  BY DEF Tree

(* The first CREATE of the tree, or the one that a rebuild of the root     *)
(* replays: n becomes the root again.                                      *)
LEMMA CreateRootTree ==
  ASSUME NEW V, RowsOK(V), NEW r, NEW n \in Nodes, Tree(V, NoNode, r),
         r # NoNode => n = r, RowsOf(V, n) = {},
         NEW row, row.node = n, row.parent = NoNode, row.path = <<n>>, row.bu
  PROVE  Tree(V \cup {row}, n, n)
<1>1. PathOK(row)
  <2>1. /\ row.path # <<>> /\ Len(row.path) = 1 /\ row.path[1] = n
    OBVIOUS
  <2> QED
    BY <2>1 DEF PathOK, Last
<1>2. RootRow(row, n, n)
  BY DEF RootRow
<1>3. ASSUME NEW v \in V PROVE PathOK(v) /\ RootRow(v, n, n)
  <2>1. v.node # n /\ v.node \in Nodes
    BY DEF RowsOf, RowsOK, RowOK
  <2>2. v.node # NoNode
    BY <2>1 DEF Nodes, NoNode
  <2> QED
    BY <2>1, <2>2 DEF Tree, RootRow
<1> QED
  BY <1>1, <1>2, <1>3 DEF Tree

LEMMA ApplyCreateTree ==
  ASSUME NEW db0, Good(db0), NEW n \in Nodes, NEW d \in Dates, NEW payload,
         PayloadOK(payload), NEW r, TreeOK(db0, r),
         db0.root = NoNode /\ r # NoNode => n = r,
         NEW after \in ApplyCreate(db0, n, d, payload)
  PROVE  TreeOK(after, IF r = NoNode THEN after.root ELSE r)
<1> DEFINE p == Field(payload, "parent_org_node_key", NoNode)
           bu == Field(payload, "is_business_unit", FALSE)
           V == db0.versions
<1>1. RowsOf(V, n) = {} /\ RowsOK(V) /\ Tree(V, db0.root, r)
  BY GoodParts DEF ApplyCreate, TreeOK
<1>2. n # NoNode
  BY DEF Nodes, NoNode
<1>3. CASE p = NoNode
  <2> DEFINE row == NewRow(n, NoNode, <<n>>, d, payload, TRUE)
  <2>1. /\ db0.root = NoNode
        /\ after = [versions |-> V \cup {row}, root |-> n,
                    codes |-> CreateCodes(db0.codes, n, payload)]
    BY <1>3 DEF ApplyCreate, CreateRoot
  <2>2. row.node = n /\ row.parent = NoNode /\ row.path = <<n>> /\ row.bu
    BY DEF NewRow
  <2> HIDE DEF row, V
  <2>3. Tree(V \cup {row}, n, n)
    BY <1>1, <2>1, <2>2, CreateRootTree
  <2>4. (IF r = NoNode THEN after.root ELSE r) = n
    BY <2>1
  <2> QED
    BY <2>1, <2>3, <2>4 DEF TreeOK
<1>4. CASE p # NoNode
  <2>1. db0.root # NoNode
    BY <1>4 DEF ApplyCreate, CreateChild
  <2>2. PICK parent \in ActiveParents(V, p, d) :
          after = [db0 EXCEPT
            !.versions = @ \cup {NewRow(n, p, Append(parent.path, n), d, payload, bu)},
            !.codes = CreateCodes(@, n, payload)]
    BY <1>4 DEF ApplyCreate, CreateChild
  <2> DEFINE row == NewRow(n, p, Append(parent.path, n), d, payload, bu)
  <2>3. parent \in V /\ parent.node = p
    BY DEF ActiveParents
  <2>4. row.node = n /\ row.parent = p /\ row.path = Append(parent.path, n)
    BY DEF NewRow
  <2>5. after.versions = V \cup {row} /\ after.root = db0.root
    BY <2>2, GoodParts
  <2> HIDE DEF row, V, p
  <2>6. db0.root = r /\ \E v \in V : v.node = r
    BY <1>1, <2>1 DEF Tree
  <2>7. n # r
    BY <1>1, <2>6 DEF RowsOf
  <2>8. RowOK(parent) /\ PathOK(parent)
    BY <1>1, <2>3 DEF Tree, RowsOK
  <2>9. /\ row.path \in Seq(Nodes) /\ Len(row.path) > 1
        /\ row.path[Len(row.path)] = n /\ row.path[Len(row.path) - 1] = p
    BY <2>3, <2>4, <2>8, NewPathOK
  <2>10. PathOK(row)
    BY <1>4, <2>4, <2>9, EmptySeq DEF PathOK, Last
  <2>11. RootRow(row, db0.root, r)
    BY <1>4, <2>4, <2>7 DEF RootRow
  <2>12. Tree(V \cup {row}, db0.root, r)
    BY <1>1, <2>10, <2>11, InsertTree
  <2> QED
    BY <2>1, <2>5, <2>6, <2>12 DEF TreeOK
<1> QED
  BY <1>3, <1>4

(***************************************************************************)
(* MOVE.                                                                   *)
(***************************************************************************)
(* A row below the mover that is not the mover's: its path keeps at least  *)
(* its own label, and the label before it is the mover's or was already    *)
(* below it.                                                               *)
Rebased(path, old, prefix) == prefix \o SubSeq(path, Len(old) + 1, Len(path))

EndsLike(new, path) ==
  /\ Len(path) # 1 /\ Len(new) > 1 /\ new # <<>>
  /\ new[Len(new)] = path[Len(path)]
  /\ new[Len(new) - 1] = path[Len(path) - 1]

LEMMA RebasedPath ==
  ASSUME NEW old \in Seq(Nodes), NEW path \in Seq(Nodes), NEW prefix \in Seq(Nodes),
         Under(path, old), Len(old) > 0, old[Len(old)] # path[Len(path)],
         Len(prefix) > 1, prefix[Len(prefix)] = old[Len(old)]
  PROVE  EndsLike(Rebased(path, old, prefix), path)
<1> DEFINE n == old[Len(old)]
           m == path[Len(path)]
<1> HIDE DEF n, m
<1>1. PICK new : new = Rebased(path, old, prefix)
  OBVIOUS
<1>2. PICK L \in Nat, M \in Nat, K \in Nat :
        L = Len(old) /\ M = Len(path) /\ K = Len(prefix)
  BY LenProperties
<1>3. L <= M /\ SubSeq(old, 1, L) = SubSeq(path, 1, L)
  BY <1>2 DEF Under, IsPrefix
<1>4. path[L] = n /\ prefix[K] = n /\ path[M] = m /\ m # n
  <2>1. \A i \in 1 .. L : old[i] \in Nodes /\ path[i] \in Nodes
    BY <1>2, <1>3, ElementOfSeq
  <2>2. 1 \in Int /\ L \in Int /\ L \in 1 .. L - 1 + 1 /\ 1 + L - 1 = L
    BY <1>2
  <2>3. SubSeq(old, 1, L)[L] = old[L]
    BY <2>1, <2>2, SubSeqProperties
  <2>4. SubSeq(path, 1, L)[L] = path[L]
    BY <2>1, <2>2, SubSeqProperties
  <2> QED
    BY <1>2, <1>3, <2>3, <2>4 DEF n, m
<1>5. L < M
  BY <1>2, <1>3, <1>4
<1>6. PICK rest : rest = SubSeq(path, L + 1, M)
  OBVIOUS
<1>7. /\ rest \in Seq(Nodes) /\ Len(rest) = M - L
      /\ \A i \in 1 .. M - L : rest[i] = path[L + i]
  <2>1. \A i \in (L + 1) .. M : path[i] \in Nodes
    BY <1>2, ElementOfSeq
  <2>2. L + 1 \in Int /\ M \in Int
    OBVIOUS
  <2>3. /\ rest \in Seq(Nodes)
        /\ Len(rest) = IF L + 1 <= M THEN M - (L + 1) + 1 ELSE 0
        /\ \A i \in 1 .. M - (L + 1) + 1 : rest[i] = path[(L + 1) + i - 1]
    BY <1>6, <2>1, <2>2, SubSeqProperties
  <2> QED
    BY <1>5, <2>3
<1>8. /\ new \in Seq(Nodes) /\ Len(new) = K + (M - L)
      /\ \A i \in 1 .. K + (M - L) :
           new[i] = IF i <= K THEN prefix[i] ELSE rest[i - K]
  <2>1. new = prefix \o rest
    BY <1>1, <1>2, <1>6 DEF Rebased
  <2>2. /\ prefix \o rest \in Seq(Nodes)
        /\ Len(prefix \o rest) = Len(prefix) + Len(rest)
        /\ \A i \in 1 .. Len(prefix) + Len(rest) : (prefix \o rest)[i] =
             IF i <= Len(prefix) THEN prefix[i] ELSE rest[i - Len(prefix)]
    BY <1>7, ConcatProperties
  <2>3. /\ new \in Seq(Nodes) /\ Len(new) = Len(prefix) + Len(rest)
        /\ \A i \in 1 .. Len(prefix) + Len(rest) :
             new[i] = IF i <= Len(prefix) THEN prefix[i] ELSE rest[i - Len(prefix)]
    BY <2>1, <2>2
  <2> QED
    BY <1>2, <1>7, <2>3
<1>9. new[K + (M - L)] = m
  <2>1. K + (M - L) \in 1 .. K + (M - L) /\ ~(K + (M - L) <= K)
        /\ (K + (M - L)) - K = M - L /\ M - L \in 1 .. M - L /\ L + (M - L) = M
    BY <1>5
  <2>2. new[K + (M - L)] = rest[M - L]
    BY <1>8, <2>1
  <2> QED
    BY <1>2, <1>4, <1>7, <2>1, <2>2
<1>10. new[K + (M - L) - 1] = path[M - 1]
  <2>1. CASE M = L + 1
    <3>1. K + (M - L) - 1 = K /\ K \in 1 .. K + (M - L) /\ M - 1 = L
      BY <1>2, <2>1
    <3> QED
      BY <1>2, <1>4, <1>8, <3>1
  <2>2. CASE M > L + 1
    <3>1. /\ K + (M - L) - 1 \in 1 .. K + (M - L)
          /\ ~(K + (M - L) - 1 <= K)
          /\ (K + (M - L) - 1) - K = M - L - 1
          /\ M - L - 1 \in 1 .. M - L /\ L + (M - L - 1) = M - 1
      BY <2>2
    <3>2. new[K + (M - L) - 1] = rest[M - L - 1]
      BY <1>8, <3>1
    <3> QED
      BY <1>7, <3>1, <3>2
  <2>3. M = L + 1 \/ M > L + 1
    BY <1>5
  <2> QED
    BY <2>1, <2>2, <2>3
<1>11. M # 1 /\ K + (M - L) > 1
  <2>1. L > 0
    BY <1>2
  <2>2. K > 1
    BY <1>2
  <2> QED
    BY <1>5, <2>1, <2>2
<1>12. Len(path) # 1
  BY <1>2, <1>11
<1>13. Len(new) > 1
  BY <1>8, <1>11
<1>14. new # <<>>
  BY <1>13
<1>15. new[Len(new)] = path[Len(path)]
  BY <1>2, <1>4, <1>8, <1>9
<1>16. Len(new) - 1 = K + (M - L) - 1
  BY <1>8
<1>17. new[Len(new) - 1] = path[Len(path) - 1]
  BY <1>2, <1>10, <1>16
<1> QED
  BY <1>1, <1>12, <1>13, <1>14, <1>15, <1>17 DEF EndsLike

LEMMA RebaseTree ==
  ASSUME NEW v, RowOK(v), PathOK(v), NEW root, RootRow(v, root, root),
         NEW n, n # root, NEW p \in Nodes, NEW old \in Seq(Nodes),
         Len(old) > 0, old[Len(old)] = n, Under(v.path, old),
         NEW prefix \in Seq(Nodes), Len(prefix) > 1, prefix[Len(prefix)] = n,
         prefix[Len(prefix) - 1] = p
  PROVE  /\ PathOK(Rebase(v, n, p, old, prefix))
         /\ RootRow(Rebase(v, n, p, old, prefix), root, root)
         /\ Rebase(v, n, p, old, prefix).node = v.node
<1> DEFINE w == Rebase(v, n, p, old, prefix)
<1>1. p # NoNode
  BY DEF Nodes, NoNode
<1>2. CASE v.node = n
  <2>1. w.node = n /\ w.parent = p /\ w.path = prefix
    BY <1>2 DEF Rebase, RowOK, Columns
  <2> HIDE DEF w
  <2>2. PathOK(w)
    BY <1>1, <2>1, EmptySeq DEF PathOK, Last
  <2>3. RootRow(w, root, root)
    BY <1>1, <2>1 DEF RootRow
  <2> QED
    BY <1>2, <2>1, <2>2, <2>3 DEF w
<1>3. CASE v.node # n
  <2>1. /\ w.node = v.node /\ w.parent = v.parent /\ w.bu = v.bu
        /\ w.path = prefix \o SubSeq(v.path, Len(old) + 1, Len(v.path))
    BY <1>3 DEF Rebase, RowOK, Columns
  <2> HIDE DEF w
  <2>2. PICK path \in Seq(Nodes) : path = v.path
    BY DEF RowOK
  <2> DEFINE new == w.path
  <2>3. path[Len(path)] = v.node
    BY <2>2 DEF PathOK, Last
  <2>4. new = Rebased(path, old, prefix) /\ Under(path, old)
    BY <2>1, <2>2 DEF Rebased
  <2>5. EndsLike(new, path)
    BY <1>3, <2>3, <2>4, RebasedPath
  <2>6. IF v.parent = NoNode THEN Len(path) = 1 ELSE path[Len(path) - 1] = v.parent
    BY <2>2 DEF PathOK
  <2>7. v.parent # NoNode /\ path[Len(path) - 1] = v.parent
    BY <2>5, <2>6, Zenon DEF EndsLike
  <2>8. /\ new # <<>> /\ Len(new) > 1
        /\ new[Len(new)] = v.node /\ new[Len(new) - 1] = v.parent
    BY <2>3, <2>5, <2>7, Zenon DEF EndsLike
  <2>9. PathOK(w)
    BY <2>1, <2>2, <2>7, <2>8, Zenon DEF PathOK, Last
  <2>10. RootRow(w, root, root)
    BY <2>1 DEF RootRow
  <2> QED
    BY <2>1, <2>9, <2>10 DEF w
<1> QED
  BY <1>2, <1>3

LEMMA ApplyMoveTree ==
  ASSUME NEW db0, Good(db0), NEW n \in Nodes, NEW p \in Nodes, NEW d \in Dates,
         NEW r, TreeOK(db0, r), NEW after \in ApplyMove(db0, n, p, d)
  PROVE  TreeOK(after, r)
<1> DEFINE V0 == db0.versions
           old == RowAt(V0, n, d).path
           prefix == Append(RowAt(V0, p, d).path, n)
           V == SplitAt(V0, RowsUnder(V0, old), d)
           g == [v \in V |-> IF Under(v.path, old) /\ d <= v.from
                             THEN Rebase(v, n, p, old, prefix) ELSE v]
<1>1. /\ db0.root # NoNode /\ n # db0.root
      /\ ExistsAt(V0, n, d) /\ ExistsAt(V0, p, d)
  BY DEF ApplyMove, MoveAllowed
<1>2. RowsOK(V0) /\ Tree(V0, db0.root, r)
  BY GoodParts DEF TreeOK
<1>3. r = db0.root
  BY <1>1, <1>2 DEF Tree
<1>4. old \in Seq(Nodes) /\ Len(old) > 0 /\ old[Len(old)] = n
  <2> DEFINE a == RowAt(V0, n, d)
  <2>1. a \in V0 /\ a.node = n
    BY <1>1, RowAtExists
  <2> HIDE DEF a, V0
  <2>2. RowOK(a) /\ PathOK(a)
    BY <1>2, <2>1 DEF RowsOK, Tree
  <2>3. a.path \in Seq(Nodes) /\ a.path # <<>> /\ a.path[Len(a.path)] = n
    BY <2>1, <2>2 DEF RowOK, PathOK, Last
  <2> QED
    BY <2>3, EmptySeq DEF a
<1>5. /\ prefix \in Seq(Nodes) /\ Len(prefix) > 1 /\ prefix[Len(prefix)] = n
      /\ prefix[Len(prefix) - 1] = p
  <2> DEFINE b == RowAt(V0, p, d)
  <2>1. b \in V0 /\ b.node = p
    BY <1>1, RowAtExists
  <2> HIDE DEF b, V0
  <2>2. RowOK(b) /\ PathOK(b)
    BY <1>2, <2>1 DEF RowsOK, Tree
  <2> QED
    BY <2>1, <2>2, NewPathOK DEF b
<1>6. RowsUnder(V0, old) \in SUBSET V0
  BY DEF RowsUnder
<1>7. after = [db0 EXCEPT !.versions = {g[v] : v \in V}]
  BY DEF ApplyMove, MoveRows
<1> HIDE DEF old, prefix
<1>8. RowsOK(V)
  BY <1>2, <1>6, SplitRowsOK
<1>9. /\ \A w \in V : \E v \in V0 : SameShape(w, v, r)
      /\ \A v \in V0 : \E w \in V : w.node = v.node
  <2> HIDE DEF V0
  <2> QED
    BY <1>2, <1>6, SplitShapes, ZenonT(60)
<1> HIDE DEF V, V0
<1>10. Tree(V, db0.root, r)
  BY <1>2, <1>9, ShapesKeepTree
<1>11. ASSUME NEW v \in V
       PROVE  PathOK(g[v]) /\ RootRow(g[v], db0.root, r) /\ g[v].node = v.node
  <2>1. RowOK(v) /\ PathOK(v) /\ RootRow(v, db0.root, r)
    BY <1>8, <1>10 DEF RowsOK, Tree
  <2>2. CASE Under(v.path, old) /\ d <= v.from
    <3>1. g[v] = Rebase(v, n, p, old, prefix)
      BY <2>2
    <3> HIDE DEF g
    <3> QED
      BY <1>1, <1>3, <1>4, <1>5, <2>1, <2>2, <3>1, RebaseTree
  <2>3. CASE ~(Under(v.path, old) /\ d <= v.from)
    <3>1. g[v] = v
      BY <2>3
    <3> QED
      BY <2>1, <3>1
  <2> QED
    BY <2>2, <2>3
<1> HIDE DEF g
<1>12. Tree({g[v] : v \in V}, db0.root, r)
  BY <1>10, <1>11 DEF Tree
<1> QED
  BY <1>7, <1>12, NewVersionsTree

(***************************************************************************)
(* UPDATE, and every other event.                                          *)
(***************************************************************************)
LEMMA ApplyUpdateTree ==
  ASSUME NEW log, NEW db0, Good(db0), NEW n \in Nodes, NEW d \in Dates, NEW payload,
         PayloadOK(payload), NEW r, TreeOK(db0, r),
         NEW after \in ApplyUpdate(log, db0, n, d, payload)
  PROVE  TreeOK(after, r)
<1> DEFINE bu == payload["is_business_unit"]
           flagStop == StopDate(log, n, "SET_BUSINESS_UNIT", d)
           nameStop == StopDate(log, n, "RENAME", d)
           moved == IF CarriesParent(payload)
                    THEN ApplyMove(db0, n, NewParent(payload), d) ELSE {db0}
           switched == IF Carries(payload, "status")
                       THEN OnEach(moved, LAMBDA x :
                              ApplyStatus(x, n, d, payload["status"]))
                       ELSE moved
           classified == IF Carries(payload, "is_business_unit")
                         THEN OnEach(switched, LAMBDA x :
                                ApplySetBusinessUnit(x, n, d, bu, flagStop))
                         ELSE switched
<1>1. \A x \in moved : Good(x) /\ TreeOK(x, r)
  <2>1. CASE CarriesParent(payload)
    BY <2>1, NewParentOK, ApplyMoveGood, ApplyMoveTree
  <2> QED
    BY <2>1
<1> HIDE DEF moved
<1>2. \A x \in switched : Good(x) /\ TreeOK(x, r)
  <2>1. CASE Carries(payload, "status")
    <3>1. payload["status"] \in Statuses
      BY <2>1 DEF PayloadOK, Carries
    <3> SUFFICES ASSUME NEW x \in switched PROVE Good(x) /\ TreeOK(x, r)
      OBVIOUS
    <3>2. PICK y \in moved : x \in ApplyStatus(y, n, d, payload["status"])
      BY <2>1 DEF OnEach
    <3> QED
      BY <1>1, <3>1, <3>2, ApplyStatusGood, ApplyStatusTree
  <2> QED
    BY <2>1, <1>1
<1> HIDE DEF switched
<1>3. \A x \in classified : Good(x) /\ TreeOK(x, r)
  <2>1. CASE Carries(payload, "is_business_unit")
    <3>1. bu \in BOOLEAN
      BY <2>1 DEF PayloadOK, Carries
    <3> SUFFICES ASSUME NEW x \in classified PROVE Good(x) /\ TreeOK(x, r)
      OBVIOUS
    <3>2. PICK y \in switched : x \in ApplySetBusinessUnit(y, n, d, bu, flagStop)
      BY <2>1 DEF OnEach
    <3>3. Good(y) /\ TreeOK(y, r)
      BY <1>2, <3>2
    <3>4. TreeOK(x, r)
      BY <3>2, <3>3, ApplySetBusinessUnitTree
    <3> QED
      BY <3>1, <3>2, <3>3, <3>4, ApplySetBusinessUnitGood
  <2> QED
    BY <2>1, <1>2
<1>4. CASE CarriesName(payload)
  <2>1. after \in OnEach(classified, LAMBDA x :
                    ApplyRename(x, n, d, NewName(payload), nameStop))
    BY <1>4 DEF ApplyUpdate, moved, switched
  <2> HIDE DEF classified
  <2>2. PICK y \in classified : after \in ApplyRename(y, n, d, NewName(payload), nameStop)
    BY <2>1 DEF OnEach
  <2> QED
    BY <1>3, <2>2, ApplyRenameTree
<1>5. CASE ~CarriesName(payload)
  <2>1. after \in classified
    BY <1>5 DEF ApplyUpdate, moved, switched
  <2> QED
    BY <1>3, <2>1
<1> QED
  BY <1>4, <1>5

(* A CREATE may give a tree without a root its root; nothing else does.    *)
NewRoot(type, after, r) == IF type = "CREATE" /\ r = NoNode THEN after.root ELSE r

LEMMA ApplyLogicTree ==
  ASSUME NEW log, NEW db0, Good(db0), NEW n \in Nodes, NEW type \in BaseTypes,
         NEW d \in Dates, NEW payload, PayloadOK(payload), Complete(type, payload),
         NEW r, TreeOK(db0, r), db0.root = NoNode /\ r # NoNode => n = r,
         NEW after \in ApplyLogic(log, db0, n, type, d, payload)
  PROVE  TreeOK(after, NewRoot(type, after, r))
<1>1. CASE type = "CREATE"
  <2>1. after \in ApplyCreate(db0, n, d, payload)
    BY <1>1 DEF ApplyLogic
  <2>2. TreeOK(after, IF r = NoNode THEN after.root ELSE r)
    BY <2>1, ApplyCreateTree
  <2> QED
    BY <1>1, <2>2 DEF NewRoot
<1>2. ASSUME type # "CREATE" PROVE TreeOK(after, r)
  <2>1. CASE type = "UPDATE"
    BY <2>1, ApplyUpdateTree DEF ApplyLogic
  <2>2. CASE type = "MOVE"
    <3>1. payload["new_parent_org_node_key"] \in Nodes
      BY <2>2 DEF Complete, PayloadOK
    <3> QED
      BY <2>2, <3>1, ApplyMoveTree DEF ApplyLogic
  <2>3. CASE type = "RENAME"
    BY <2>3, ApplyRenameTree DEF ApplyLogic
  <2>4. CASE type \in {"ENABLE", "DISABLE"}
    BY <2>4, ApplyStatusTree DEF ApplyLogic
  <2>5. CASE type = "SET_BUSINESS_UNIT"
    BY <2>5, ApplySetBusinessUnitTree DEF ApplyLogic
  <2> QED
    BY <1>2, <2>1, <2>2, <2>3, <2>4, <2>5 DEF BaseTypes
<1> QED
  BY <1>1, <1>2 DEF NewRoot

LEMMA ApplyTree ==
  ASSUME NEW log, NEW db0, Good(db0), NEW n \in Nodes, NEW type \in BaseTypes,
         NEW d \in Dates, NEW payload, PayloadOK(payload), Complete(type, payload),
         NEW r, TreeOK(db0, r), db0.root = NoNode /\ r # NoNode => n = r,
         NEW after \in Apply(log, db0, n, type, d, payload)
  PROVE  TreeOK(after, NewRoot(type, after, r))
<1>1. CASE ChangesNames(type, payload)
  <2>1. PICK x \in ApplyLogic(log, db0, n, type, d, payload) :
          after = RebuildFullNames(x, n, d)
    BY <1>1 DEF Apply
  <2>2. Good(x) /\ TreeOK(x, NewRoot(type, x, r))
    BY ApplyLogicGood, ApplyLogicTree
  <2>3. after.root = x.root
    BY <2>1, <2>2, GoodParts DEF RebuildFullNames
  <2>4. TreeOK(after, NewRoot(type, x, r))
    BY <2>1, <2>2, RebuildFullNamesTree
  <2> QED
    BY <2>3, <2>4 DEF NewRoot
<1>2. CASE ~ChangesNames(type, payload)
  BY <1>2, ApplyLogicTree DEF Apply
<1> QED
  BY <1>1, <1>2

(***************************************************************************)
(* The steps.                                                              *)
(***************************************************************************)
LEMMA WithoutNodeTree ==
  ASSUME NEW p, NEW n, NEW r, TreeOK(p, r)
  PROVE  TreeOK(WithoutNode(p, n), r)
<1> DEFINE V == p.versions
           W == V \ RowsOf(V, n)
           root == IF p.root = n THEN NoNode ELSE p.root
<1>1. Tree(V, p.root, r)
  BY DEF TreeOK
<1>2. \A v \in W : v \in V /\ v.node # n
  BY DEF RowsOf
<1>3. \A v \in V : v.node # n => v \in W
  BY DEF RowsOf
<1>4. WithoutNode(p, n).versions = W /\ WithoutNode(p, n).root = root
  BY DEF WithoutNode
<1> HIDE DEF W, V
<1>5. ASSUME NEW v \in W PROVE PathOK(v) /\ RootRow(v, root, r)
  BY <1>1, <1>2 DEF Tree, RootRow
<1>6. root # NoNode => \E v \in W : v.node = root
  BY <1>1, <1>3 DEF Tree
<1>7. root \in {NoNode, r}
  BY <1>1 DEF Tree
<1>8. Tree(W, root, r)
  BY <1>5, <1>6, <1>7 DEF Tree
<1> QED
  BY <1>4, <1>8 DEF TreeOK

(* A client that names a unit has seen one: the log is not empty.          *)
LEMMA KnownLog ==
  ASSUME NEW n \in Known
  PROVE  events # <<>>
<1>1. PICK i \in DOMAIN events : events[i].node = n
  BY DEF Known, Created
<1>2. DOMAIN <<>> = {}
  OBVIOUS
<1> QED
  BY <1>1, <1>2

LEMMA SubmitBaseTree ==
  ASSUME TreeInv, SubmitBase
  PROVE  /\ ~txn'.open
         /\ TreeOK(db', db'.root)
         /\ db'.root # NoNode
<1>1. PICK type \in BaseKinds, d \in Dates, time \in StartTimes :
        \E n \in Targets(type), payload \in BasePayloads(type) :
          SubmitEvent(type, n, d, payload, time)
  BY DEF SubmitBase
<1>2. PICK n \in Targets(type), payload \in BasePayloads(type) :
        SubmitEvent(type, n, d, payload, time)
  BY <1>1
<1>3. type \in BaseTypes /\ n \in Nodes
  BY KindsAssumption, KnownNodes DEF Targets
<1>4. PayloadOK(payload) /\ Complete(type, payload)
  BY <1>3, BasePayloadsOK
<1>5. /\ ~txn.open /\ txn' = txn
      /\ db' \in Apply(events, db, n, type, d, payload)
  BY <1>2 DEF SubmitEvent, SubmitBase, LockFree
<1>6. Good(db) /\ TreeOK(db, db.root)
  BY <1>5 DEF TreeInv, LedgerInv, KernelInv
<1>7. /\ type # "CREATE" => db'.root = db.root
      /\ type = "CREATE" => db'.root # NoNode
      /\ db'.root = db.root \/ (db.root = NoNode /\ db'.root = n)
  BY <1>3, <1>4, <1>5, <1>6, ApplyRoot
<1>8. TreeOK(db', NewRoot(type, db', db.root))
  BY <1>3, <1>4, <1>5, <1>6, ApplyTree
<1>9. NewRoot(type, db', db.root) = db'.root
  BY <1>7 DEF NewRoot
<1>10. CASE type = "CREATE"
  BY <1>5, <1>7, <1>8, <1>9, <1>10
<1>11. CASE type # "CREATE"
  <2>1. n \in Known
    BY <1>11 DEF Targets
  <2>2. db.root # NoNode
    BY <1>5, <2>1, KnownLog DEF TreeInv
  <2> QED
    BY <1>5, <1>7, <1>8, <1>9, <1>11, <2>2
<1> QED
  BY <1>10, <1>11

(* What a step leaves when a rebuild is open.                              *)
OpenTree == /\ TreeOK(db, txn.saved.root)
            /\ TreeOK(txn.saved, txn.saved.root)
            /\ txn.saved.root # NoNode

LEMMA StartRebuildTree ==
  ASSUME NEW t, NEW log, NEW pending, StartRebuild(t, log, pending),
         NEW r, TreeOK(db, r)
  PROVE  TreeOK(db', r)
<1>1. db' = WithoutNode(db, pending.node)
  BY DEF StartRebuild
<1> QED
  BY <1>1, WithoutNodeTree

LEMMA BeginRebuildTree ==
  ASSUME TreeInv, LockFree, Known # {},
         NEW pending, NEW batch, RebuildBegins(pending, batch)
  PROVE  txn'.open /\ OpenTree'
<1> DEFINE t == [NoTxn EXCEPT !.batch = batch, !.savedEvents = events, !.saved = db]
<1>1. DOMAIN t = TxnFields /\ t.saved = db
  BY DEF NoTxn, TxnFields
<1>2. StartRebuild(t, events, pending)
  BY DEF RebuildBegins, BeginRebuild
<1> HIDE DEF t
<1>3. LogOK(events) /\ Good(db) /\ EventOK(pending) /\ pending.target <= Len(events)
  BY DEF TreeInv, LedgerInv, KernelInv, RebuildBegins
<1>4. txn'.open /\ txn'.saved = db
  BY <1>1, <1>2, <1>3, StartRebuildOK
<1>5. TreeOK(db, db.root) /\ db.root # NoNode
  BY KnownLog DEF TreeInv, LockFree
<1>6. TreeOK(db', db.root)
  BY <1>2, <1>5, StartRebuildTree
<1> QED
  BY <1>4, <1>5, <1>6 DEF OpenTree

LEMMA CorrectionsBegin ==
  ASSUME KernelInv, Rescind \/ Correct \/ StatusCorrection \/ RescindUnit
  PROVE  /\ LockFree
         /\ Known # {}
         /\ \E pending, batch : RebuildBegins(pending, batch)
<1>1. CASE Rescind
  BY <1>1, RescindBegins DEF Rescind
<1>2. CASE Correct
  BY <1>2, CorrectBegins DEF Correct
<1>3. CASE StatusCorrection
  BY <1>3, StatusCorrectionBegins DEF StatusCorrection
<1>4. CASE RescindUnit
  BY <1>4, RescindUnitBegins DEF RescindUnit
<1> QED
  BY <1>1, <1>2, <1>3, <1>4

LEMMA ReplayStepTree ==
  ASSUME TreeInv, ReplayStep
  PROVE  txn'.open /\ OpenTree'
<1>1. PICK e \in txn.todo :
        /\ db' \in Apply(events, db, e.node, e.type, e.date, e.payload)
        /\ txn' = [txn EXCEPT !.todo = @ \ {e}]
  BY DEF ReplayStep
<1>2. txn.open
  BY DEF ReplayStep
<1>3. Good(db) /\ ReplayOK(e) /\ DOMAIN txn = TxnFields
  BY DEF TreeInv, LedgerInv, KernelInv, TxnOK, TxnFields
<1> DEFINE r == txn.saved.root
<1>4. TreeOK(db, r) /\ TreeOK(txn.saved, r) /\ r # NoNode
  BY <1>2 DEF TreeInv
<1>5. db.root = NoNode => e.node = r
  BY <1>2, <1>4 DEF TreeInv, LedgerInv, RebuildOK, RootSafe
<1> HIDE DEF r
<1>6. TreeOK(db', NewRoot(e.type, db', r))
  BY <1>1, <1>3, <1>4, <1>5, ApplyTree DEF ReplayOK
<1>7. NewRoot(e.type, db', r) = r
  BY <1>4 DEF NewRoot
<1>8. txn'.open /\ txn'.saved = txn.saved
  BY <1>1, <1>2, <1>3 DEF TxnFields
<1> QED
  BY <1>4, <1>6, <1>7, <1>8 DEF OpenTree, r

LEMMA NextTargetTree ==
  ASSUME TreeInv, NextTarget
  PROVE  txn'.open /\ OpenTree'
<1>1. txn.open
  BY DEF NextTarget, RebuildDone
<1>2. PICK t \in txn.batch :
        StartRebuild([txn EXCEPT !.batch = @ \ {t}], events',
                     RescindOf(txn.pending.node, t, txn.pending.time))
  BY DEF NextTarget
<1> DEFINE rest == [txn EXCEPT !.batch = @ \ {t}]
           e == RescindOf(txn.pending.node, t, txn.pending.time)
           todo == ReplayEvents(Append(events', e), e.node)
<1>3. DOMAIN txn = TxnFields
  BY DEF TreeInv, LedgerInv, KernelInv, TxnOK, TxnFields
<1>4. DOMAIN rest = TxnFields /\ rest.saved = txn.saved
  BY <1>3 DEF TxnFields
<1>5. txn' = [rest EXCEPT !.open = TRUE, !.pending = e, !.todo = todo,
                          !.before = ExistsAt(db.versions, e.node, e.date)]
  BY <1>2 DEF StartRebuild
<1> HIDE DEF rest, e, todo
<1>6. txn'.open /\ txn'.saved = txn.saved
  BY <1>4, <1>5 DEF TxnFields
<1>7. /\ TreeOK(db, txn.saved.root) /\ TreeOK(txn.saved, txn.saved.root)
      /\ txn.saved.root # NoNode
  BY <1>1 DEF TreeInv
<1>8. TreeOK(db', txn.saved.root)
  BY <1>2, <1>7, StartRebuildTree
<1> QED
  BY <1>6, <1>7, <1>8 DEF OpenTree

LEMMA CommitTree ==
  ASSUME TreeInv, Commit
  PROVE  ~txn'.open /\ TreeOK(db', db'.root) /\ db'.root # NoNode
<1>1. RebuildDone /\ txn' = NoTxn /\ db' = db /\ txn.open
  BY DEF Commit, RebuildDone
<1>2. TreeOK(db, txn.saved.root) /\ txn.saved.root # NoNode
  BY <1>1 DEF TreeInv
<1>3. db.root = txn.saved.root
  BY <1>1, <1>2, RebuiltRoot DEF TreeInv
<1> QED
  BY <1>1, <1>2, <1>3 DEF NoTxn

LEMMA AbortTree ==
  ASSUME TreeInv, Abort
  PROVE  ~txn'.open /\ TreeOK(db', db'.root) /\ db'.root # NoNode
  BY DEF Abort, TreeInv, NoTxn

LEMMA TreeStep ==
  ASSUME TreeInv, [Next]_vars
  PROVE  TreeInv'
<1>1. LedgerInv /\ KernelInv /\ LedgerInv'
  BY LedgerStep DEF TreeInv, LedgerInv
<1>2. CASE Wait \/ UNCHANGED vars
  <2>1. events' = events /\ db' = db /\ txn' = txn
    BY <1>2 DEF Wait, vars
  <2> QED
    BY <1>1, <2>1 DEF TreeInv
<1>3. CASE SubmitBase \/ Commit \/ Abort
  <2>1. ~txn'.open /\ TreeOK(db', db'.root) /\ db'.root # NoNode
    BY <1>3, SubmitBaseTree, CommitTree, AbortTree
  <2> QED
    BY <1>1, <2>1 DEF TreeInv
<1>4. CASE Rescind \/ Correct \/ StatusCorrection \/ RescindUnit
  <2>1. txn'.open /\ OpenTree'
    BY <1>1, <1>4, CorrectionsBegin, BeginRebuildTree
  <2> QED
    BY <1>1, <2>1 DEF TreeInv, OpenTree
<1>5. CASE ReplayStep \/ NextTarget
  <2>1. txn'.open /\ OpenTree'
    BY <1>5, ReplayStepTree, NextTargetTree
  <2> QED
    BY <1>1, <2>1 DEF TreeInv, OpenTree
<1> QED
  BY <1>2, <1>3, <1>4, <1>5 DEF Next

LEMMA TreeInit == Init => TreeInv
<1> SUFFICES ASSUME Init PROVE TreeInv
  OBVIOUS
<1>1. ~txn.open /\ events = <<>> /\ db = EmptyProjection
  BY DEF Init, NoTxn
<1>2. Tree({}, NoNode, NoNode)
  BY DEF Tree
<1> QED
  BY <1>1, <1>2, LedgerInit DEF TreeInv, TreeOK, EmptyProjection

(* The path that a row stores ends with its parent and its own node, in    *)
(* every state that CREATE, MOVE, splitting and replay reach: a MOVE       *)
(* rebases the rows under the unit it moves, and a rebuild replays the     *)
(* moves of one unit against paths that other units' moves have left.      *)
THEOREM PathAlwaysEndsWithParent == Spec => []PathEndsWithParent
<1>1. TreeInv /\ [Next]_vars => TreeInv'
  BY TreeStep
<1>2. TreeInv => PathEndsWithParent
  BY DEF TreeInv, TreeOK, Tree, PathEndsWithParent
<1> QED
  BY <1>1, <1>2, TreeInit, PTL DEF Spec

(* The root is a business unit on every day and nothing else is without a  *)
(* parent, also while the root's own rows are deleted and replayed.        *)
THEOREM RootIsAlwaysBusinessUnit == Spec => []RootIsBusinessUnit
<1>1. TreeInv /\ [Next]_vars => TreeInv'
  BY TreeStep
<1>2. TreeInv => RootIsBusinessUnit
  <2> SUFFICES ASSUME TreeInv, NEW v \in db.versions
               PROVE  /\ v.node = db.root => v.bu /\ v.parent = NoNode
                      /\ v.parent = NoNode => v.node = Committed.root
    BY DEF RootIsBusinessUnit
  <2> DEFINE r == Committed.root
  <2>1. TreeOK(db, r)
    BY DEF TreeInv, Committed
  <2>2. v.node \in Nodes
    BY GoodParts DEF TreeInv, LedgerInv, KernelInv, RowsOK, RowOK
  <2>3. v.node # NoNode
    BY <2>2 DEF Nodes, NoNode
  <2> HIDE DEF r
  <2>4. RootRow(v, db.root, r) /\ db.root \in {NoNode, r}
    BY <2>1 DEF TreeOK, Tree
  <2> QED
    BY <2>3, <2>4 DEF RootRow, r
<1> QED
  BY <1>1, <1>2, TreeInit, PTL DEF Spec

-----------------------------------------------------------------------------
(***************************************************************************)
(* The organisation codes: a unit has a code as long as it has rows, and   *)
(* no two units have the same one, although a rebuild deletes the code     *)
(* with the rows and takes it again from the CREATE that it replays.       *)
(***************************************************************************)
Units(p) == {v.node : v \in p.versions}

CodesOK(p) ==
  /\ {r[1] : r \in p.codes} = Units(p)
  /\ \A r, s \in p.codes : r[1] = s[1] <=> r[2] = s[2]

(* Every CREATE carries a code: replaying it gives the unit its code back. *)
Coded(type, payload) == type = "CREATE" => Carries(payload, "org_code")

CodedLog(log) == \A i \in DOMAIN log : Coded(log[i].type, log[i].payload)

CodesInv ==
  /\ KernelInv
  /\ CodesOK(db) /\ CodedLog(events)
  /\ CodesOK(txn.saved) /\ CodedLog(txn.savedEvents)
  /\ \A e \in txn.todo : Coded(e.type, e.payload)
  /\ txn.open => txn.pending.type # "CREATE"

(***************************************************************************)
(* Only CREATE brings a unit or a code.                                    *)
(***************************************************************************)
SameUnits(after, before) ==
  after.codes = before.codes /\ Units(after) = Units(before)

LEMMA SameUnitsKeepCodes ==
  ASSUME NEW before, NEW after, SameUnits(after, before), CodesOK(before)
  PROVE  CodesOK(after)
  BY DEF SameUnits, CodesOK

SameNodes(W, V) == /\ \A w \in W : \E v \in V : w.node = v.node
                   /\ \A v \in V : \E w \in W : w.node = v.node

LEMMA SplitNodes ==
  ASSUME NEW V, RowsOK(V), NEW S \in SUBSET V, NEW d
  PROVE  SameNodes(SplitAt(V, S, d), V)
<1>1. \A v \in V : Lower(v, d).node = v.node /\ Upper(v, d).node = v.node
  BY DEF RowsOK, RowOK, Columns, Lower, Upper
<1>2. ASSUME NEW w \in SplitAt(V, S, d) PROVE \E v \in V : w.node = v.node
  <2>1. PICK v \in V : w = v \/ w = Lower(v, d) \/ w = Upper(v, d)
    BY SplitMembers
  <2> QED
    BY <1>1, <2>1
<1>3. ASSUME NEW v \in V PROVE \E w \in SplitAt(V, S, d) : w.node = v.node
  <2>1. v \in SplitAt(V, S, d) \/ Lower(v, d) \in SplitAt(V, S, d)
    BY SplitMembers
  <2> QED
    BY <1>1, <2>1
<1> QED
  BY <1>2, <1>3 DEF SameNodes

LEMMA SplitUnits ==
  ASSUME NEW p, Good(p), NEW S \in SUBSET p.versions,
         NEW d \in Dates
  PROVE  /\ SameNodes(SplitAt(p.versions, S, d), p.versions)
         /\ RowsOK(SplitAt(p.versions, S, d))
<1> DEFINE V == p.versions
<1>1. RowsOK(V) /\ S \in SUBSET V
  BY GoodParts
<1> HIDE DEF V
<1>2. RowsOK(SplitAt(V, S, d)) /\ SameNodes(SplitAt(V, S, d), V)
  BY <1>1, SplitRowsOK, SplitNodes
<1> QED
  BY <1>2 DEF V

LEMMA UpdateUnits ==
  ASSUME NEW U, NEW V, SameNodes(V, U), NEW g, \A v \in V : g[v].node = v.node
  PROVE  SameNodes({g[v] : v \in V}, U)
  BY DEF SameNodes

LEMMA NewVersionsUnits ==
  ASSUME NEW p, Good(p), NEW W, SameNodes(W, p.versions)
  PROVE  SameUnits([p EXCEPT !.versions = W], p)
<1>1. {w.node : w \in W} = {v.node : v \in p.versions}
  BY DEF SameNodes
<1> QED
  BY <1>1, GoodParts DEF SameUnits, Units

LEMMA ApplyRenameUnits ==
  ASSUME NEW db0, Good(db0), NEW n, NEW d \in Dates, NEW name, NEW stop,
         NEW after \in ApplyRename(db0, n, d, name, stop)
  PROVE  SameUnits(after, db0)
<1> DEFINE S == RowsOf(db0.versions, n)
           V == SplitAt(db0.versions, S, d)
           g == [v \in V |-> IF StartsIn(v, n, d, stop)
                             THEN [v EXCEPT !.name = name] ELSE v]
<1>1. S \in SUBSET db0.versions
  BY DEF RowsOf
<1>2. SameNodes(V, db0.versions) /\ RowsOK(V)
  BY <1>1, SplitUnits
<1>3. \A v \in V : g[v].node = v.node
  BY <1>2 DEF RowsOK, RowOK, Columns
<1>4. after = [db0 EXCEPT !.versions = {g[v] : v \in V}]
  BY DEF ApplyRename, SplitNode
<1> HIDE DEF V, g
<1>5. SameNodes({g[v] : v \in V}, db0.versions)
  BY <1>2, <1>3, UpdateUnits
<1> QED
  BY <1>4, <1>5, NewVersionsUnits

LEMMA ApplyStatusUnits ==
  ASSUME NEW db0, Good(db0), NEW n, NEW d \in Dates, NEW status,
         NEW after \in ApplyStatus(db0, n, d, status)
  PROVE  SameUnits(after, db0)
<1> DEFINE S == RowsOf(db0.versions, n)
           V == SplitAt(db0.versions, S, d)
           g == [v \in V |-> IF StartsIn(v, n, d, Infinity)
                             THEN [v EXCEPT !.status = status] ELSE v]
<1>1. S \in SUBSET db0.versions
  BY DEF RowsOf
<1>2. SameNodes(V, db0.versions) /\ RowsOK(V)
  BY <1>1, SplitUnits
<1>3. \A v \in V : g[v].node = v.node
  BY <1>2 DEF RowsOK, RowOK, Columns
<1>4. after = [db0 EXCEPT !.versions = {g[v] : v \in V}]
  BY DEF ApplyStatus, SplitNode
<1> HIDE DEF V, g
<1>5. SameNodes({g[v] : v \in V}, db0.versions)
  BY <1>2, <1>3, UpdateUnits
<1> QED
  BY <1>4, <1>5, NewVersionsUnits

LEMMA ApplySetBusinessUnitUnits ==
  ASSUME NEW db0, Good(db0), NEW n, NEW d \in Dates, NEW bu, NEW stop,
         NEW after \in ApplySetBusinessUnit(db0, n, d, bu, stop)
  PROVE  SameUnits(after, db0)
<1> DEFINE S == RowsOf(db0.versions, n)
           V == SplitAt(db0.versions, S, d)
           g == [v \in V |-> IF StartsIn(v, n, d, stop)
                             THEN [v EXCEPT !.bu = bu] ELSE v]
<1>1. S \in SUBSET db0.versions
  BY DEF RowsOf
<1>2. SameNodes(V, db0.versions) /\ RowsOK(V)
  BY <1>1, SplitUnits
<1>3. \A v \in V : g[v].node = v.node
  BY <1>2 DEF RowsOK, RowOK, Columns
<1>4. after = [db0 EXCEPT !.versions = {g[v] : v \in V}]
  BY DEF ApplySetBusinessUnit, SplitNode
<1> HIDE DEF V, g
<1>5. SameNodes({g[v] : v \in V}, db0.versions)
  BY <1>2, <1>3, UpdateUnits
<1> QED
  BY <1>4, <1>5, NewVersionsUnits

LEMMA ApplyMoveUnits ==
  ASSUME NEW db0, Good(db0), NEW n \in Nodes, NEW p \in Nodes, NEW d \in Dates,
         NEW after \in ApplyMove(db0, n, p, d)
  PROVE  SameUnits(after, db0)
<1> DEFINE old == RowAt(db0.versions, n, d).path
           prefix == Append(RowAt(db0.versions, p, d).path, n)
           S == RowsUnder(db0.versions, old)
           V == SplitAt(db0.versions, S, d)
           g == [v \in V |-> IF Under(v.path, old) /\ d <= v.from
                             THEN Rebase(v, n, p, old, prefix) ELSE v]
<1>1. S \in SUBSET db0.versions
  BY DEF RowsUnder
<1>2. SameNodes(V, db0.versions) /\ RowsOK(V)
  BY <1>1, SplitUnits
<1>3. \A v \in V : g[v].node = v.node
  <2> HIDE DEF old, prefix, V
  <2>1. \A v \in V : Rebase(v, n, p, old, prefix).node = v.node
    BY <1>2 DEF Rebase, RowsOK, RowOK, Columns
  <2> QED
    BY <2>1
<1>4. after = [db0 EXCEPT !.versions = {g[v] : v \in V}]
  BY DEF ApplyMove, MoveRows
<1> HIDE DEF V, g
<1>5. SameNodes({g[v] : v \in V}, db0.versions)
  BY <1>2, <1>3, UpdateUnits
<1> QED
  BY <1>4, <1>5, NewVersionsUnits

LEMMA RebuildFullNamesUnits ==
  ASSUME NEW db0, Good(db0), NEW n, NEW d
  PROVE  SameUnits(RebuildFullNames(db0, n, d), db0)
<1> DEFINE V == db0.versions
           path == RowAt(V, n, d).path
           g == [v \in V |-> IF Under(v.path, path) /\ d <= v.from
                             THEN [v EXCEPT !.full = NamesOf(V, v.path, v.from)]
                             ELSE v]
           after == RebuildFullNames(db0, n, d)
<1>1. \A v \in V : g[v].node = v.node
  BY GoodParts DEF RowsOK, RowOK, Columns
<1>2. after = IF ~ExistsAt(V, n, d) THEN db0
              ELSE [db0 EXCEPT !.versions = {g[v] : v \in V}]
  BY DEF RebuildFullNames
<1>3. DOMAIN db0 = {"versions", "root", "codes"}
  BY GoodParts
<1> HIDE DEF g, after
<1>4. {x.node : x \in {g[v] : v \in V}} = {v.node : v \in V}
  BY <1>1
<1>5. SameUnits(after, db0)
  BY <1>2, <1>3, <1>4 DEF SameUnits, Units
<1> QED
  BY <1>5 DEF after

LEMMA ApplyUpdateUnits ==
  ASSUME NEW log, NEW db0, Good(db0), NEW n \in Nodes, NEW d \in Dates, NEW payload,
         PayloadOK(payload), NEW after \in ApplyUpdate(log, db0, n, d, payload)
  PROVE  SameUnits(after, db0)
<1> DEFINE bu == payload["is_business_unit"]
           flagStop == StopDate(log, n, "SET_BUSINESS_UNIT", d)
           nameStop == StopDate(log, n, "RENAME", d)
           moved == IF CarriesParent(payload)
                    THEN ApplyMove(db0, n, NewParent(payload), d) ELSE {db0}
           switched == IF Carries(payload, "status")
                       THEN OnEach(moved, LAMBDA x :
                              ApplyStatus(x, n, d, payload["status"]))
                       ELSE moved
           classified == IF Carries(payload, "is_business_unit")
                         THEN OnEach(switched, LAMBDA x :
                                ApplySetBusinessUnit(x, n, d, bu, flagStop))
                         ELSE switched
<1>1. \A x \in moved : Good(x) /\ SameUnits(x, db0)
  <2>1. CASE CarriesParent(payload)
    BY <2>1, NewParentOK, ApplyMoveGood, ApplyMoveUnits
  <2> QED
    BY <2>1 DEF SameUnits
<1> HIDE DEF moved
<1>2. \A x \in switched : Good(x) /\ SameUnits(x, db0)
  <2>1. CASE Carries(payload, "status")
    <3>1. payload["status"] \in Statuses
      BY <2>1 DEF PayloadOK, Carries
    <3> SUFFICES ASSUME NEW x \in switched PROVE Good(x) /\ SameUnits(x, db0)
      OBVIOUS
    <3>2. PICK y \in moved : x \in ApplyStatus(y, n, d, payload["status"])
      BY <2>1 DEF OnEach
    <3>3. SameUnits(x, y)
      BY <1>1, <3>2, ApplyStatusUnits
    <3>4. SameUnits(x, db0)
      BY <1>1, <3>2, <3>3 DEF SameUnits
    <3> QED
      BY <1>1, <3>1, <3>2, <3>4, ApplyStatusGood
  <2> QED
    BY <2>1, <1>1
<1> HIDE DEF switched
<1>3. \A x \in classified : Good(x) /\ SameUnits(x, db0)
  <2>1. CASE Carries(payload, "is_business_unit")
    <3>1. bu \in BOOLEAN
      BY <2>1 DEF PayloadOK, Carries
    <3> SUFFICES ASSUME NEW x \in classified PROVE Good(x) /\ SameUnits(x, db0)
      OBVIOUS
    <3>2. PICK y \in switched : x \in ApplySetBusinessUnit(y, n, d, bu, flagStop)
      BY <2>1 DEF OnEach
    <3>3. Good(y) /\ SameUnits(y, db0)
      BY <1>2, <3>2
    <3>4. SameUnits(x, y)
      BY <3>2, <3>3, ApplySetBusinessUnitUnits
    <3>5. SameUnits(x, db0)
      BY <3>3, <3>4 DEF SameUnits
    <3> QED
      BY <3>1, <3>2, <3>3, <3>5, ApplySetBusinessUnitGood
  <2> QED
    BY <2>1, <1>2
<1>4. CASE CarriesName(payload)
  <2>1. after \in OnEach(classified, LAMBDA x :
                    ApplyRename(x, n, d, NewName(payload), nameStop))
    BY <1>4 DEF ApplyUpdate, moved, switched
  <2> HIDE DEF classified
  <2>2. PICK y \in classified : after \in ApplyRename(y, n, d, NewName(payload), nameStop)
    BY <2>1 DEF OnEach
  <2>3. SameUnits(after, y)
    BY <1>3, <2>2, ApplyRenameUnits
  <2> QED
    BY <1>3, <2>2, <2>3 DEF SameUnits
<1>5. CASE ~CarriesName(payload)
  <2>1. after \in classified
    BY <1>5 DEF ApplyUpdate, moved, switched
  <2> QED
    BY <1>3, <2>1
<1> QED
  BY <1>4, <1>5

(* The code of a new unit is one that no unit has.                         *)
LEMMA ApplyCreateCodes ==
  ASSUME NEW db0, Good(db0), NEW n \in Nodes, NEW d, NEW payload,
         Carries(payload, "org_code"), CodesOK(db0),
         NEW after \in ApplyCreate(db0, n, d, payload)
  PROVE  CodesOK(after)
<1> DEFINE code == payload["org_code"]
<1>1. \A r \in db0.codes : r[1] # n /\ r[2] # code
  BY DEF ApplyCreate, CodeFree
<1>2. \E row : /\ row.node = n
               /\ after.versions = db0.versions \cup {row}
               /\ after.codes = db0.codes \cup {<<n, code>>}
  <2> DEFINE p == Field(payload, "parent_org_node_key", NoNode)
             bu == Field(payload, "is_business_unit", FALSE)
  <2>1. CreateCodes(db0.codes, n, payload) = db0.codes \cup {<<n, code>>}
    BY DEF CreateCodes
  <2>2. CASE p = NoNode
    <3>1. after = [versions |-> db0.versions
                                  \cup {NewRow(n, NoNode, <<n>>, d, payload, TRUE)},
                   root |-> n, codes |-> CreateCodes(db0.codes, n, payload)]
      BY <2>2 DEF ApplyCreate, CreateRoot
    <3>2. NewRow(n, NoNode, <<n>>, d, payload, TRUE).node = n
      BY DEF NewRow
    <3> QED
      BY <2>1, <3>1, <3>2
  <2>3. CASE p # NoNode
    <3>1. PICK parent \in ActiveParents(db0.versions, p, d) :
            after = [db0 EXCEPT
              !.versions = @ \cup {NewRow(n, p, Append(parent.path, n), d, payload, bu)},
              !.codes = CreateCodes(@, n, payload)]
      BY <2>3 DEF ApplyCreate, CreateChild
    <3> DEFINE row == NewRow(n, p, Append(parent.path, n), d, payload, bu)
    <3>2. row.node = n
      BY DEF NewRow
    <3> HIDE DEF row
    <3>3. /\ after.versions = db0.versions \cup {row}
          /\ after.codes = CreateCodes(db0.codes, n, payload)
      BY <3>1, GoodParts DEF row
    <3> QED
      BY <2>1, <3>2, <3>3
  <2> QED
    BY <2>2, <2>3
<1>3. Units(after) = Units(db0) \cup {n}
  BY <1>2 DEF Units
<1>4. {r[1] : r \in after.codes} = {r[1] : r \in db0.codes} \cup {n}
  <2> DEFINE new == <<n, code>>
  <2>1. new[1] = n
    OBVIOUS
  <2>2. after.codes = db0.codes \cup {new}
    BY <1>2
  <2> HIDE DEF new
  <2> QED
    BY <2>1, <2>2
<1>5. \A r, s \in after.codes : r[1] = s[1] <=> r[2] = s[2]
  <2>1. <<n, code>>[1] = n /\ <<n, code>>[2] = code
    OBVIOUS
  <2> QED
    BY <1>1, <1>2, <2>1 DEF CodesOK
<1> QED
  BY <1>3, <1>4, <1>5 DEF CodesOK

LEMMA ApplyLogicCodes ==
  ASSUME NEW log, NEW db0, Good(db0), NEW n \in Nodes, NEW type \in BaseTypes,
         NEW d \in Dates, NEW payload, PayloadOK(payload), Complete(type, payload),
         Coded(type, payload), CodesOK(db0),
         NEW after \in ApplyLogic(log, db0, n, type, d, payload)
  PROVE  CodesOK(after)
<1>1. CASE type = "CREATE"
  BY <1>1, ApplyCreateCodes DEF ApplyLogic, Coded
<1>2. ASSUME type # "CREATE" PROVE SameUnits(after, db0)
  <2>1. CASE type = "UPDATE"
    BY <2>1, ApplyUpdateUnits DEF ApplyLogic
  <2>2. CASE type = "MOVE"
    <3>1. payload["new_parent_org_node_key"] \in Nodes
      BY <2>2 DEF Complete, PayloadOK
    <3> QED
      BY <2>2, <3>1, ApplyMoveUnits DEF ApplyLogic
  <2>3. CASE type = "RENAME"
    BY <2>3, ApplyRenameUnits DEF ApplyLogic
  <2>4. CASE type \in {"ENABLE", "DISABLE"}
    BY <2>4, ApplyStatusUnits DEF ApplyLogic
  <2>5. CASE type = "SET_BUSINESS_UNIT"
    BY <2>5, ApplySetBusinessUnitUnits DEF ApplyLogic
  <2> QED
    BY <1>2, <2>1, <2>2, <2>3, <2>4, <2>5 DEF BaseTypes
<1> QED
  BY <1>1, <1>2, SameUnitsKeepCodes

LEMMA ApplyCodes ==
  ASSUME NEW log, NEW db0, Good(db0), NEW n \in Nodes, NEW type \in BaseTypes,
         NEW d \in Dates, NEW payload, PayloadOK(payload), Complete(type, payload),
         Coded(type, payload), CodesOK(db0),
         NEW after \in Apply(log, db0, n, type, d, payload)
  PROVE  CodesOK(after)
<1>1. CASE ChangesNames(type, payload)
  <2>1. PICK x \in ApplyLogic(log, db0, n, type, d, payload) :
          after = RebuildFullNames(x, n, d)
    BY <1>1 DEF Apply
  <2>2. Good(x) /\ CodesOK(x)
    BY ApplyLogicGood, ApplyLogicCodes
  <2>3. SameUnits(after, x)
    BY <2>1, <2>2, RebuildFullNamesUnits
  <2> QED
    BY <2>2, <2>3, SameUnitsKeepCodes
<1>2. CASE ~ChangesNames(type, payload)
  BY <1>2, ApplyLogicCodes DEF Apply
<1> QED
  BY <1>1, <1>2

(***************************************************************************)
(* The log, and what a rebuild replays of it.                              *)
(***************************************************************************)
LEMMA AppendCoded ==
  ASSUME NEW log, LogOK(log), CodedLog(log), NEW e, Coded(e.type, e.payload)
  PROVE  CodedLog(Append(log, e))
<1> DEFINE new == Append(log, e)
<1>1. /\ DOMAIN new = 1 .. (Len(log) + 1)
      /\ \A i \in DOMAIN log : new[i] = log[i]
      /\ new[Len(log) + 1] = e
  BY AppendShape
<1>2. Len(log) \in Nat /\ DOMAIN log = 1 .. Len(log)
  BY LogShape
<1> HIDE DEF new
<1>3. ASSUME NEW i \in DOMAIN new PROVE Coded(new[i].type, new[i].payload)
  <2>1. i \in DOMAIN log \/ i = Len(log) + 1
    BY <1>1, <1>2
  <2> QED
    BY <1>1, <2>1 DEF CodedLog
<1> QED
  BY <1>3 DEF CodedLog, new

(* A correction never takes the code out of a payload, and never makes an  *)
(* event a CREATE.                                                         *)
LEMMA ReplayCoded ==
  ASSUME NEW log, CodedLog(log), NEW n, NEW e \in ReplayEvents(log, n)
  PROVE  Coded(e.type, e.payload)
<1>1. PICK i \in EffectiveIds(log, n) :
        e = [id |-> i, node |-> n, type |-> ReplayType(log, i),
             date |-> EffectiveDate(log, i), payload |-> EffectivePayload(log, i)]
  BY DEF ReplayEvents
<1>2. i \in DOMAIN log
  BY DEF EffectiveIds
<1>3. ReplayType(log, i) \in {"UPDATE", "ENABLE", "DISABLE", log[i].type}
  BY DEF ReplayType, EffectiveType
<1>4. DOMAIN log[i].payload \subseteq DOMAIN EffectivePayload(log, i)
  BY DEF EffectivePayload, Merge, Overlay
<1>5. e.type = ReplayType(log, i) /\ e.payload = EffectivePayload(log, i)
  BY <1>1
<1> QED
  BY <1>2, <1>3, <1>4, <1>5 DEF CodedLog, Coded, Carries

(* CREATE payloads carry a code whenever clients send codes.               *)
LEMMA CreatesCoded ==
  ASSUME Codes # {}, NEW type \in BaseTypes, NEW payload \in BasePayloads(type)
  PROVE  Coded(type, payload)
<1>1. CASE type = "CREATE"
  <2>1. PICK K \in SUBSET (CreateKeys \cup {"parent_org_node_key"}) :
          payload \in Payloads({"name"} \cup K \cup {"org_code"})
    BY <1>1 DEF BasePayloads, CreatePayloads
  <2>2. DOMAIN payload = {"name"} \cup K \cup {"org_code"}
    BY <2>1, PayloadsOK
  <2> QED
    BY <2>2 DEF Coded, Carries
<1> QED
  BY <1>1 DEF Coded

(***************************************************************************)
(* The steps.                                                              *)
(***************************************************************************)
LEMMA WithoutNodeCodes ==
  ASSUME NEW p, Good(p), CodesOK(p), NEW n
  PROVE  CodesOK(WithoutNode(p, n))
<1> DEFINE after == WithoutNode(p, n)
<1>1. /\ after.versions = p.versions \ RowsOf(p.versions, n)
      /\ after.codes = {r \in p.codes : r[1] # n}
  BY DEF WithoutNode
<1> HIDE DEF after
<1>2. Units(after) = Units(p) \ {n}
  BY <1>1 DEF Units, RowsOf
<1>3. {r[1] : r \in after.codes} = {r[1] : r \in p.codes} \ {n}
  BY <1>1
<1> QED
  BY <1>1, <1>2, <1>3 DEF CodesOK, after

LEMMA SubmitBaseCodes ==
  ASSUME Codes # {}, CodesInv, SubmitBase
  PROVE  CodesOK(db') /\ CodedLog(events') /\ txn' = txn
<1>1. PICK type \in BaseKinds, d \in Dates, time \in StartTimes :
        \E n \in Targets(type), payload \in BasePayloads(type) :
          SubmitEvent(type, n, d, payload, time)
  BY DEF SubmitBase
<1>2. PICK n \in Targets(type), payload \in BasePayloads(type) :
        SubmitEvent(type, n, d, payload, time)
  BY <1>1
<1>3. type \in BaseTypes /\ n \in Nodes
  BY KindsAssumption, KnownNodes DEF Targets
<1>4. PayloadOK(payload) /\ Complete(type, payload) /\ Coded(type, payload)
  BY <1>3, BasePayloadsOK, CreatesCoded
<1> DEFINE e == Event(n, type, d, payload, NoTarget, time)
<1>5. e.type = type /\ e.payload = payload
  BY DEF Event
<1> HIDE DEF e
<1>6. /\ txn' = txn
      /\ db' \in Apply(events, db, n, type, d, payload)
      /\ events' = Append(events, e)
  BY <1>2 DEF SubmitEvent, e
<1>7. Good(db) /\ LogOK(events) /\ CodesOK(db) /\ CodedLog(events)
  BY DEF CodesInv, KernelInv
<1>8. CodesOK(db')
  BY <1>3, <1>4, <1>6, <1>7, ApplyCodes
<1>9. CodedLog(events')
  BY <1>4, <1>5, <1>6, <1>7, AppendCoded
<1> QED
  BY <1>6, <1>8, <1>9

(* What a step of an open rebuild leaves.                                  *)
RebuildCodes ==
  /\ CodesOK(db) /\ CodedLog(events)
  /\ CodesOK(txn.saved) /\ CodedLog(txn.savedEvents)
  /\ \A e \in txn.todo : Coded(e.type, e.payload)
  /\ txn.pending.type # "CREATE"

LEMMA StartRebuildCodes ==
  ASSUME NEW t, DOMAIN t = TxnFields, NEW log, LogOK(log), CodedLog(log),
         NEW pending, pending.type # "CREATE", Good(db), CodesOK(db),
         StartRebuild(t, log, pending)
  PROVE  /\ CodesOK(db')
         /\ \A e \in txn'.todo : Coded(e.type, e.payload)
         /\ txn'.pending = pending
         /\ txn'.saved = t.saved /\ txn'.savedEvents = t.savedEvents
<1> DEFINE todo == ReplayEvents(Append(log, pending), pending.node)
<1>1. /\ db' = WithoutNode(db, pending.node)
      /\ txn' = [t EXCEPT !.open = TRUE, !.pending = pending, !.todo = todo,
                          !.before = ExistsAt(db.versions, pending.node, pending.date)]
  BY DEF StartRebuild
<1>2. CodedLog(Append(log, pending))
  BY AppendCoded DEF Coded
<1>3. \A e \in todo : Coded(e.type, e.payload)
  BY <1>2, ReplayCoded
<1> HIDE DEF todo
<1>4. /\ txn'.todo = todo /\ txn'.pending = pending
      /\ txn'.saved = t.saved /\ txn'.savedEvents = t.savedEvents
  BY <1>1 DEF TxnFields
<1> QED
  BY <1>1, <1>3, <1>4, WithoutNodeCodes

LEMMA BeginRebuildCodes ==
  ASSUME CodesInv, NEW pending, pending.type # "CREATE", NEW batch,
         BeginRebuild(pending, batch)
  PROVE  RebuildCodes'
<1> DEFINE t == [NoTxn EXCEPT !.batch = batch, !.savedEvents = events, !.saved = db]
<1>1. DOMAIN t = TxnFields /\ t.saved = db /\ t.savedEvents = events
  BY DEF NoTxn, TxnFields
<1>2. StartRebuild(t, events, pending) /\ events' = events
  BY DEF BeginRebuild
<1> HIDE DEF t
<1>3. Good(db) /\ LogOK(events) /\ CodesOK(db) /\ CodedLog(events)
  BY DEF CodesInv, KernelInv
<1>4. /\ CodesOK(db')
      /\ \A e \in txn'.todo : Coded(e.type, e.payload)
      /\ txn'.pending = pending
      /\ txn'.saved = db /\ txn'.savedEvents = events
  BY <1>1, <1>2, <1>3, StartRebuildCodes
<1> QED
  BY <1>2, <1>3, <1>4 DEF RebuildCodes

LEMMA CorrectionsBeginCoded ==
  ASSUME Rescind \/ Correct \/ StatusCorrection \/ RescindUnit
  PROVE  \E pending, batch : pending.type # "CREATE" /\ BeginRebuild(pending, batch)
<1>1. CASE Rescind
  BY <1>1 DEF Rescind, RescindEvent, Event
<1>2. CASE Correct
  BY <1>2 DEF Correct, CorrectEvent, Event
<1>3. CASE StatusCorrection
  BY <1>3 DEF StatusCorrection, CorrectStatus, Event
<1>4. CASE RescindUnit
  BY <1>4 DEF RescindUnit, RescindOrg, RescindOf, Event
<1> QED
  BY <1>1, <1>2, <1>3, <1>4

LEMMA ReplayStepCodes ==
  ASSUME CodesInv, ReplayStep
  PROVE  RebuildCodes'
<1>1. PICK e \in txn.todo :
        /\ db' \in Apply(events, db, e.node, e.type, e.date, e.payload)
        /\ txn' = [txn EXCEPT !.todo = @ \ {e}]
  BY DEF ReplayStep
<1>2. txn.open /\ events' = events
  BY DEF ReplayStep
<1>3. Good(db) /\ ReplayOK(e) /\ Coded(e.type, e.payload) /\ DOMAIN txn = TxnFields
  BY DEF CodesInv, KernelInv, TxnOK, TxnFields
<1>4. CodesOK(db')
  BY <1>1, <1>3, ApplyCodes DEF ReplayOK, CodesInv
<1>5. /\ txn'.todo = txn.todo \ {e} /\ txn'.pending = txn.pending
      /\ txn'.saved = txn.saved /\ txn'.savedEvents = txn.savedEvents
  BY <1>1, <1>3 DEF TxnFields
<1> QED
  BY <1>2, <1>4, <1>5 DEF CodesInv, RebuildCodes

LEMMA PendingCoded ==
  ASSUME CodesInv, RebuildDone
  PROVE  LogOK(events') /\ CodedLog(events') /\ txn.open
<1>1. txn.open /\ events' = Append(events, txn.pending) /\ LogOK(events')
  BY RebuildDoneOK DEF CodesInv
<1>2. LogOK(events) /\ CodedLog(events) /\ Coded(txn.pending.type, txn.pending.payload)
  BY <1>1 DEF CodesInv, KernelInv, Coded
<1> QED
  BY <1>1, <1>2, AppendCoded

LEMMA NextTargetCodes ==
  ASSUME CodesInv, NextTarget
  PROVE  RebuildCodes'
<1>1. PICK t \in txn.batch :
        StartRebuild([txn EXCEPT !.batch = @ \ {t}], events',
                     RescindOf(txn.pending.node, t, txn.pending.time))
  BY DEF NextTarget
<1> DEFINE rest == [txn EXCEPT !.batch = @ \ {t}]
           e == RescindOf(txn.pending.node, t, txn.pending.time)
<1>2. DOMAIN txn = TxnFields /\ Good(db) /\ CodesOK(db)
  BY DEF CodesInv, KernelInv, TxnOK, TxnFields
<1>3. /\ DOMAIN rest = TxnFields
      /\ rest.saved = txn.saved /\ rest.savedEvents = txn.savedEvents
  BY <1>2 DEF TxnFields
<1>4. LogOK(events') /\ CodedLog(events')
  BY PendingCoded DEF NextTarget
<1>5. e.type # "CREATE"
  BY DEF RescindOf, Event
<1>6. StartRebuild(rest, events', e)
  BY <1>1
<1> HIDE DEF rest, e
<1>7. /\ CodesOK(db')
      /\ \A x \in txn'.todo : Coded(x.type, x.payload)
      /\ txn'.pending = e
      /\ txn'.saved = txn.saved /\ txn'.savedEvents = txn.savedEvents
  BY <1>2, <1>3, <1>4, <1>5, <1>6, StartRebuildCodes
<1> QED
  BY <1>4, <1>5, <1>7 DEF RebuildCodes, CodesInv

LEMMA NoTxnCodes ==
  /\ CodesOK(NoTxn.saved) /\ CodedLog(NoTxn.savedEvents)
  /\ NoTxn.todo = {} /\ ~NoTxn.open
  BY DEF NoTxn, CodesOK, CodedLog, Units, EmptyProjection

LEMMA CodesStep ==
  ASSUME Codes # {}, CodesInv, [Next]_vars
  PROVE  CodesInv'
<1>1. KernelInv /\ KernelInv'
  BY StepInv DEF CodesInv
<1>2. CASE Wait \/ UNCHANGED vars
  <2>1. events' = events /\ db' = db /\ txn' = txn
    BY <1>2 DEF Wait, vars
  <2> QED
    BY <1>1, <2>1 DEF CodesInv
<1>3. CASE SubmitBase
  BY <1>1, <1>3, SubmitBaseCodes DEF CodesInv
<1>4. CASE Rescind \/ Correct \/ StatusCorrection \/ RescindUnit
  <2>1. RebuildCodes'
    BY <1>4, CorrectionsBeginCoded, BeginRebuildCodes
  <2> QED
    BY <1>1, <2>1 DEF CodesInv, RebuildCodes
<1>5. CASE ReplayStep \/ NextTarget
  <2>1. RebuildCodes'
    BY <1>5, ReplayStepCodes, NextTargetCodes
  <2> QED
    BY <1>1, <2>1 DEF CodesInv, RebuildCodes
<1>6. CASE Commit
  <2>1. CodedLog(events') /\ txn' = NoTxn /\ db' = db
    BY <1>6, PendingCoded DEF Commit
  <2> QED
    BY <1>1, <2>1, NoTxnCodes DEF CodesInv
<1>7. CASE Abort
  <2>1. events' = txn.savedEvents /\ db' = txn.saved /\ txn' = NoTxn
    BY <1>7 DEF Abort
  <2> QED
    BY <1>1, <2>1, NoTxnCodes DEF CodesInv
<1> QED
  BY <1>2, <1>3, <1>4, <1>5, <1>6, <1>7 DEF Next

LEMMA CodesInit == Init => CodesInv
<1> SUFFICES ASSUME Init PROVE CodesInv
  OBVIOUS
<1>1. events = <<>> /\ db = EmptyProjection /\ txn = NoTxn /\ KernelInv
  BY InitInv DEF Init
<1> QED
  BY <1>1, NoTxnCodes DEF CodesInv, NoTxn

(* Where every CREATE carries a code: a unit readers see has exactly one,  *)
(* the codes of units that are gone are free, and no two units ever share  *)
(* one, also while a rebuild has deleted a code and is about to take it    *)
(* again from the CREATE it replays.                                       *)
THEOREM CodesAlwaysFollowUnits ==
  ASSUME Codes # {}
  PROVE  Spec => []CodesFollowUnits
<1>1. CodesInv /\ [Next]_vars => CodesInv'
  BY CodesStep
<1>2. CodesInv => CodesFollowUnits
  BY DEF CodesInv, CodesOK, Units, CodesFollowUnits, Committed
<1> QED
  BY <1>1, <1>2, CodesInit, PTL DEF Spec

(***************************************************************************)
(* Stored paths while events come in date order.  Every label of a path is *)
(* a unit that exists on every day of the row, and the path of that unit   *)
(* on that day is the front of this one.                                   *)
(***************************************************************************)
Heads(short, long, k) == Len(short) = k /\ \A i \in 1 .. k : short[i] = long[i]

Ancestor(V, v, e, k) ==
  \E w \in V : w.node = v.path[k] /\ Covers(w, e) /\ Heads(w.path, v.path, k)

Lineage(V) ==
  \A v \in V, e \in Dates : Covers(v, e) =>
    \A k \in 1 .. Len(v.path) : Ancestor(V, v, e, k)

NoneLater(V, d) == \A v \in V : v.from <= d

(* An event of n on day d that leaves the paths alone.                     *)
Rewrites(V, W, n, d) ==
  /\ \A w \in W : \E v \in V :
       /\ Within(w, v, d) /\ w.path = v.path /\ w.full = v.full
       /\ w.node # n => w = v
  /\ \A v \in V, e \in Dates : Covers(v, e) =>
       \E w \in W : w.node = v.node /\ w.path = v.path /\ Covers(w, e)

LEMMA SplitPaths ==
  ASSUME NEW V, RowsOK(V), NEW T \in SUBSET V, NEW d \in Dates
  PROVE  /\ \A s \in SplitAt(V, T, d) : \E v \in V :
              /\ Within(s, v, d) /\ s.path = v.path /\ s.full = v.full
              /\ v \notin T => s = v
              /\ v \in T => s.to <= d \/ d <= s.from
         /\ \A v \in V, e \in Dates : Covers(v, e) =>
              \E s \in SplitAt(V, T, d) :
                s.node = v.node /\ s.path = v.path /\ Covers(s, e)
<1>1. ASSUME NEW v \in V
      PROVE  /\ RowOK(v) /\ v.from \in Int /\ v.to \in Int /\ d \in Int
             /\ Lower(v, d).node = v.node /\ Lower(v, d).from = v.from
             /\ Lower(v, d).to = d /\ Lower(v, d).path = v.path
             /\ Lower(v, d).full = v.full
             /\ Upper(v, d).node = v.node /\ Upper(v, d).from = d
             /\ Upper(v, d).to = v.to /\ Upper(v, d).path = v.path
             /\ Upper(v, d).full = v.full
  BY DatesAreInts DEF RowsOK, RowOK, Columns, Lower, Upper
<1>2. ASSUME NEW s \in SplitAt(V, T, d)
      PROVE  \E v \in V :
              /\ Within(s, v, d) /\ s.path = v.path /\ s.full = v.full
              /\ v \notin T => s = v
              /\ v \in T => s.to <= d \/ d <= s.from
  <2>1. PICK v \in V : \/ s = v /\ ~IsCut(v, T, d)
                       \/ s = Lower(v, d) /\ IsCut(v, T, d)
                       \/ s = Upper(v, d) /\ IsCut(v, T, d)
    BY SplitMembers
  <2> QED
    BY <1>1, <2>1 DEF Within, IsCut, Covers
<1>3. ASSUME NEW v \in V, NEW e \in Dates, Covers(v, e)
      PROVE  \E s \in SplitAt(V, T, d) :
                s.node = v.node /\ s.path = v.path /\ Covers(s, e)
  <2>1. e \in Int
    BY DatesAreInts
  <2>2. CASE ~IsCut(v, T, d)
    BY <1>3, <2>2, SplitMembers
  <2>3. CASE IsCut(v, T, d)
    <3>1. Lower(v, d) \in SplitAt(V, T, d) /\ Upper(v, d) \in SplitAt(V, T, d)
      BY <2>3, SplitMembers
    <3>2. Covers(Lower(v, d), e) \/ Covers(Upper(v, d), e)
      BY <1>1, <1>3, <2>1 DEF Covers
    <3> QED
      BY <1>1, <3>1, <3>2
  <2> QED
    BY <2>2, <2>3
<1> QED
  BY <1>2, <1>3

(* The rows of n are split, and those from d on get new values.            *)
LEMMA NodeRewrites ==
  ASSUME NEW V, RowsOK(V), NEW n, NEW d \in Dates, NEW W,
         \A s \in SplitNode(V, n, d) : \E w \in W : SameSpan(w, s) /\ w.path = s.path,
         \A w \in W : \E s \in SplitNode(V, n, d) :
           /\ SameSpan(w, s) /\ w.path = s.path /\ w.full = s.full
           /\ s.node # n => w = s
  PROVE  Rewrites(V, W, n, d)
<1> DEFINE T == RowsOf(V, n)
<1>1. T \in SUBSET V /\ \A v \in V : v \in T <=> v.node = n
  BY DEF RowsOf
<1> HIDE DEF T
<1>2. /\ \A s \in SplitAt(V, T, d) : \E v \in V :
              /\ Within(s, v, d) /\ s.path = v.path /\ s.full = v.full
              /\ v \notin T => s = v
      /\ \A v \in V, e \in Dates : Covers(v, e) =>
              \E s \in SplitAt(V, T, d) :
                s.node = v.node /\ s.path = v.path /\ Covers(s, e)
  BY <1>1, SplitPaths, ZenonT(60)
<1>3. SplitNode(V, n, d) = SplitAt(V, T, d)
  BY DEF SplitNode, T
<1>4. ASSUME NEW w \in W
      PROVE  \E v \in V :
               /\ Within(w, v, d) /\ w.path = v.path /\ w.full = v.full
               /\ w.node # n => w = v
  <2>1. PICK s \in SplitAt(V, T, d) :
           /\ SameSpan(w, s) /\ w.path = s.path /\ w.full = s.full
           /\ s.node # n => w = s
    BY <1>3
  <2>2. PICK v \in V :
              /\ Within(s, v, d) /\ s.path = v.path /\ s.full = v.full
              /\ v \notin T => s = v
    BY <1>2
  <2>3. s.node = v.node
    BY <2>2 DEF Within
  <2> QED
    BY <1>1, <2>1, <2>2, <2>3 DEF SameSpan, Within
<1>5. ASSUME NEW v \in V, NEW e \in Dates, Covers(v, e)
      PROVE  \E w \in W : w.node = v.node /\ w.path = v.path /\ Covers(w, e)
  <2>1. PICK s \in SplitAt(V, T, d) : s.node = v.node /\ s.path = v.path /\ Covers(s, e)
    BY <1>2, <1>5
  <2>2. PICK w \in W : SameSpan(w, s) /\ w.path = s.path
    BY <1>3
  <2> QED
    BY <2>1, <2>2 DEF SameSpan, Covers
<1> QED
  BY <1>4, <1>5 DEF Rewrites

LEMMA RewritesTwice ==
  ASSUME NEW U, RowsOK(U), NEW V, RowsOK(V), NEW W, RowsOK(W), NEW n, NEW d \in Dates,
         Rewrites(U, V, n, d), Rewrites(V, W, n, d)
  PROVE  Rewrites(U, W, n, d)
<1>1. ASSUME NEW w \in W
      PROVE  \E u \in U :
               /\ Within(w, u, d) /\ w.path = u.path /\ w.full = u.full
               /\ w.node # n => w = u
  <2>1. PICK v \in V :
               /\ Within(w, v, d) /\ w.path = v.path /\ w.full = v.full
               /\ w.node # n => w = v
    BY DEF Rewrites
  <2>2. PICK u \in U :
               /\ Within(v, u, d) /\ v.path = u.path /\ v.full = u.full
               /\ v.node # n => v = u
    BY DEF Rewrites
  <2>3. RowOK(w) /\ RowOK(v) /\ RowOK(u) /\ d \in Int
    BY DatesAreInts DEF RowsOK
  <2>4. /\ w.from \in Int /\ w.to \in Int /\ v.from \in Int /\ v.to \in Int
        /\ u.from \in Int /\ u.to \in Int
    BY <2>3, DatesAreInts DEF RowOK
  <2>5. Within(w, u, d)
    BY <2>1, <2>2, <2>3, <2>4 DEF Within
  <2>6. v.node = w.node /\ v.from <= w.from
    BY <2>1 DEF Within
  <2> QED
    BY <2>1, <2>2, <2>3, <2>4, <2>5, <2>6
<1>2. ASSUME NEW u \in U, NEW e \in Dates, Covers(u, e)
      PROVE  \E w \in W : w.node = u.node /\ w.path = u.path /\ Covers(w, e)
  <2>1. PICK v \in V : v.node = u.node /\ v.path = u.path /\ Covers(v, e)
    BY <1>2 DEF Rewrites
  <2> QED
    BY <2>1 DEF Rewrites
<1> QED
  BY <1>1, <1>2 DEF Rewrites

LEMMA RewritesNone ==
  ASSUME NEW V, RowsOK(V), NEW n, NEW d \in Dates
  PROVE  Rewrites(V, V, n, d)
<1>1. \A v \in V : v.from \in Int /\ v.to \in Int
  BY DatesAreInts DEF RowsOK, RowOK
<1> QED
  BY <1>1 DEF Rewrites, Within

LEMMA RenameRewrites ==
  ASSUME NEW db0, Good(db0), NEW n, NEW d \in Dates, NEW name, NEW stop,
         NEW after \in ApplyRename(db0, n, d, name, stop)
  PROVE  Rewrites(db0.versions, after.versions, n, d)
<1> DEFINE V == db0.versions
           S == SplitNode(V, n, d)
           g == [s \in S |-> IF StartsIn(s, n, d, stop) THEN [s EXCEPT !.name = name]
                             ELSE s]
<1>1. after = [db0 EXCEPT !.versions = {g[s] : s \in S}] /\ RowsOK(V)
  BY GoodParts DEF ApplyRename
<1>2. after.versions = {g[s] : s \in S}
  BY <1>1, GoodParts
<1>3. RowsOK(S)
  BY <1>1, SplitNodeRowsOK
<1>4. ASSUME NEW s \in S
      PROVE  /\ SameSpan(g[s], s) /\ g[s].path = s.path /\ g[s].full = s.full
             /\ s.node # n => g[s] = s
  <2>1. RowOK(s)
    BY <1>3 DEF RowsOK
  <2> QED
    BY <2>1 DEF RowOK, Columns, SameSpan, StartsIn
<1> HIDE DEF g, S, V
<1>5. /\ \A s \in S : \E w \in after.versions : SameSpan(w, s) /\ w.path = s.path
      /\ \A w \in after.versions : \E s \in S :
           /\ SameSpan(w, s) /\ w.path = s.path /\ w.full = s.full
           /\ s.node # n => w = s
  BY <1>2, <1>4
<1> QED
  BY <1>1, <1>5, NodeRewrites DEF S, V

LEMMA StatusRewrites ==
  ASSUME NEW db0, Good(db0), NEW n, NEW d \in Dates, NEW status,
         NEW after \in ApplyStatus(db0, n, d, status)
  PROVE  Rewrites(db0.versions, after.versions, n, d)
<1> DEFINE V == db0.versions
           S == SplitNode(V, n, d)
           g == [s \in S |-> IF StartsIn(s, n, d, Infinity)
                             THEN [s EXCEPT !.status = status] ELSE s]
<1>1. after = [db0 EXCEPT !.versions = {g[s] : s \in S}] /\ RowsOK(V)
  BY GoodParts DEF ApplyStatus
<1>2. after.versions = {g[s] : s \in S}
  BY <1>1, GoodParts
<1>3. RowsOK(S)
  BY <1>1, SplitNodeRowsOK
<1>4. ASSUME NEW s \in S
      PROVE  /\ SameSpan(g[s], s) /\ g[s].path = s.path /\ g[s].full = s.full
             /\ s.node # n => g[s] = s
  <2>1. RowOK(s)
    BY <1>3 DEF RowsOK
  <2> QED
    BY <2>1 DEF RowOK, Columns, SameSpan, StartsIn
<1> HIDE DEF g, S, V
<1>5. /\ \A s \in S : \E w \in after.versions : SameSpan(w, s) /\ w.path = s.path
      /\ \A w \in after.versions : \E s \in S :
           /\ SameSpan(w, s) /\ w.path = s.path /\ w.full = s.full
           /\ s.node # n => w = s
  BY <1>2, <1>4
<1> QED
  BY <1>1, <1>5, NodeRewrites DEF S, V

LEMMA BusinessUnitRewrites ==
  ASSUME NEW db0, Good(db0), NEW n, NEW d \in Dates, NEW bu, NEW stop,
         NEW after \in ApplySetBusinessUnit(db0, n, d, bu, stop)
  PROVE  Rewrites(db0.versions, after.versions, n, d)
<1> DEFINE V == db0.versions
           S == SplitNode(V, n, d)
           g == [s \in S |-> IF StartsIn(s, n, d, stop) THEN [s EXCEPT !.bu = bu] ELSE s]
<1>1. after = [db0 EXCEPT !.versions = {g[s] : s \in S}] /\ RowsOK(V)
  BY GoodParts DEF ApplySetBusinessUnit
<1>2. after.versions = {g[s] : s \in S}
  BY <1>1, GoodParts
<1>3. RowsOK(S)
  BY <1>1, SplitNodeRowsOK
<1>4. ASSUME NEW s \in S
      PROVE  /\ SameSpan(g[s], s) /\ g[s].path = s.path /\ g[s].full = s.full
             /\ s.node # n => g[s] = s
  <2>1. RowOK(s)
    BY <1>3 DEF RowsOK
  <2> QED
    BY <2>1 DEF RowOK, Columns, SameSpan, StartsIn
<1> HIDE DEF g, S, V
<1>5. /\ \A s \in S : \E w \in after.versions : SameSpan(w, s) /\ w.path = s.path
      /\ \A w \in after.versions : \E s \in S :
           /\ SameSpan(w, s) /\ w.path = s.path /\ w.full = s.full
           /\ s.node # n => w = s
  BY <1>2, <1>4
<1> QED
  BY <1>1, <1>5, NodeRewrites DEF S, V

LEMMA RewritesKeepLineage ==
  ASSUME NEW V, RowsOK(V), NEW W, RowsOK(W), NEW n, NEW d \in Dates,
         Rewrites(V, W, n, d), Lineage(V)
  PROVE  Lineage(W)
<1> SUFFICES ASSUME NEW w \in W, NEW e \in Dates, Covers(w, e), NEW k \in 1 .. Len(w.path)
             PROVE  Ancestor(W, w, e, k)
  BY DEF Lineage
<1>1. PICK v \in V : Within(w, v, d) /\ w.path = v.path
  BY DEF Rewrites
<1>2. RowOK(v) /\ RowOK(w) /\ e \in Int
  BY DatesAreInts DEF RowsOK
<1>3. v.from \in Int /\ v.to \in Int /\ w.from \in Int /\ w.to \in Int
  BY <1>2, DatesAreInts DEF RowOK
<1>4. Covers(v, e)
  BY <1>1, <1>2, <1>3 DEF Within, Covers
<1>5. PICK x \in V : x.node = v.path[k] /\ Covers(x, e) /\ Heads(x.path, v.path, k)
  BY <1>1, <1>4 DEF Lineage, Ancestor
<1>6. PICK y \in W : y.node = x.node /\ y.path = x.path /\ Covers(y, e)
  BY <1>5 DEF Rewrites
<1> QED
  BY <1>1, <1>5, <1>6 DEF Ancestor

(***************************************************************************)
(* MOVE.                                                                   *)
(***************************************************************************)
LEMMA UnderHeads ==
  ASSUME NEW path \in Seq(Nodes), NEW old \in Seq(Nodes)
  PROVE  Under(path, old) <=> Len(old) <= Len(path) /\ Heads(old, path, Len(old))
<1>1. PICK L \in Nat, M \in Nat : L = Len(old) /\ M = Len(path)
  BY LenProperties
<1>2. CASE ~(L <= M)
  BY <1>1, <1>2 DEF Under, IsPrefix
<1>3. CASE L <= M
  <2>1. /\ \A i \in 1 .. L : old[i] \in Nodes /\ path[i] \in Nodes
        /\ 1 \in Int /\ L \in Int
    BY <1>1, <1>3, ElementOfSeq
  <2>2. PICK a : a = SubSeq(old, 1, L)
    OBVIOUS
  <2>3. PICK b : b = SubSeq(path, 1, L)
    OBVIOUS
  <2>4. /\ a \in Seq(Nodes) /\ Len(a) = (IF 1 <= L THEN L - 1 + 1 ELSE 0)
        /\ \A i \in 1 .. L - 1 + 1 : a[i] = old[1 + i - 1]
    BY <2>1, <2>2, SubSeqProperties
  <2>5. /\ b \in Seq(Nodes) /\ Len(b) = (IF 1 <= L THEN L - 1 + 1 ELSE 0)
        /\ \A i \in 1 .. L - 1 + 1 : b[i] = path[1 + i - 1]
    BY <2>1, <2>3, SubSeqProperties
  <2>6. Len(a) = L /\ \A i \in 1 .. L : a[i] = old[i]
    BY <2>4
  <2>7. Len(b) = L /\ \A i \in 1 .. L : b[i] = path[i]
    BY <2>5
  <2>8. Under(path, old) <=> a = b
    BY <1>1, <1>3, <2>2, <2>3 DEF Under, IsPrefix
  <2>9. a = b <=> \A i \in 1 .. L : old[i] = path[i]
    <3>1. ASSUME \A i \in 1 .. L : old[i] = path[i] PROVE a = b
      BY <3>1, <2>4, <2>5, <2>6, <2>7, SeqEqual
    <3>2. ASSUME a = b PROVE \A i \in 1 .. L : old[i] = path[i]
      BY <3>2, <2>6, <2>7
    <3> QED
      BY <3>1, <3>2
  <2> QED
    BY <1>1, <1>3, <2>8, <2>9 DEF Heads
<1> QED
  BY <1>2, <1>3

Exchanges(new, path, old, prefix) ==
  /\ Len(new) = Len(prefix) + (Len(path) - Len(old))
  /\ \A i \in 1 .. Len(new) :
       new[i] = IF i <= Len(prefix) THEN prefix[i] ELSE path[Len(old) + (i - Len(prefix))]

LEMMA RebasedShape ==
  ASSUME NEW old \in Seq(Nodes), NEW path \in Seq(Nodes), NEW prefix \in Seq(Nodes),
         Len(old) <= Len(path)
  PROVE  Exchanges(Rebased(path, old, prefix), path, old, prefix)
<1>1. PICK new : new = Rebased(path, old, prefix)
  OBVIOUS
<1>2. PICK L \in Nat, M \in Nat, K \in Nat :
        L = Len(old) /\ M = Len(path) /\ K = Len(prefix)
  BY LenProperties
<1>3. PICK rest : rest = SubSeq(path, L + 1, M)
  OBVIOUS
<1>4. /\ rest \in Seq(Nodes) /\ Len(rest) = M - L
      /\ \A i \in 1 .. M - L : rest[i] = path[L + i]
  <2>1. \A i \in (L + 1) .. M : path[i] \in Nodes
    BY <1>2, ElementOfSeq
  <2>2. L + 1 \in Int /\ M \in Int
    OBVIOUS
  <2>3. /\ rest \in Seq(Nodes)
        /\ Len(rest) = IF L + 1 <= M THEN M - (L + 1) + 1 ELSE 0
        /\ \A i \in 1 .. M - (L + 1) + 1 : rest[i] = path[(L + 1) + i - 1]
    BY <1>3, <2>1, <2>2, SubSeqProperties
  <2>4. L <= M /\ M - (L + 1) + 1 = M - L
    BY <1>2
  <2>5. Len(rest) = M - L
    BY <2>3, <2>4
  <2>6. \A i \in 1 .. M - L : rest[i] = path[L + i]
    BY <2>3, <2>4
  <2> QED
    BY <2>3, <2>5, <2>6
<1>5. new = prefix \o rest
  BY <1>1, <1>2, <1>3 DEF Rebased
<1>6. /\ Len(new) = Len(prefix) + Len(rest)
      /\ \A i \in 1 .. Len(prefix) + Len(rest) :
           new[i] = IF i <= Len(prefix) THEN prefix[i] ELSE rest[i - Len(prefix)]
  <2>1. /\ Len(prefix \o rest) = Len(prefix) + Len(rest)
        /\ \A i \in 1 .. Len(prefix) + Len(rest) : (prefix \o rest)[i] =
             IF i <= Len(prefix) THEN prefix[i] ELSE rest[i - Len(prefix)]
    BY <1>4, ConcatProperties
  <2> QED
    BY <1>5, <2>1
<1>7. Len(new) = K + (M - L)
  BY <1>2, <1>4, <1>6
<1>8. ASSUME NEW i \in 1 .. K + (M - L), ~(i <= K)
      PROVE  new[i] = path[L + (i - K)]
  <2>1. i - K \in 1 .. M - L
    BY <1>8
  <2>2. rest[i - K] = path[L + (i - K)]
    BY <1>4, <2>1
  <2> QED
    BY <1>2, <1>4, <1>6, <1>8, <2>2
<1>9. Exchanges(new, path, old, prefix)
  BY <1>2, <1>6, <1>7, <1>8 DEF Exchanges
<1> QED
  BY <1>1, <1>9

LEMMA ReachesEnd ==
  ASSUME NEW V, RowsOK(V), WellFormed(V), NEW d \in Dates, NoneLater(V, d),
         NEW v \in V, Covers(v, d), NEW e \in Dates, d <= e
  PROVE  Covers(v, e)
<1>1. RowOK(v) /\ d \in Int /\ e \in Int /\ e < Infinity /\ Infinity \in Int
  BY DatesAreInts, DatesAssumption DEF RowsOK, Dates, Infinity
<1>2. v.to = Infinity
  <2> SUFFICES ASSUME v.to # Infinity PROVE FALSE
    OBVIOUS
  <2>1. PICK w \in V : w.node = v.node /\ w.from = v.to
    BY DEF WellFormed, NoGap
  <2>2. w.from <= d /\ d < v.to
    BY DEF NoneLater, Covers
  <2>3. v.to \in Int
    BY <1>1, DatesAreInts DEF RowOK
  <2> QED
    BY <1>1, <2>1, <2>2, <2>3
<1>3. v.from \in Int /\ v.from <= d
  BY <1>1, DatesAreInts DEF RowOK, Covers
<1> QED
  BY <1>1, <1>2, <1>3 DEF Covers

(* A row as MOVE leaves it. *)
Moved(s, n, p, d, old, prefix) ==
  IF Under(s.path, old) /\ d <= s.from THEN Rebase(s, n, p, old, prefix) ELSE s

MovesTo(w, s, n, d, old, prefix) ==
  /\ SameSpan(w, s) /\ w.full = s.full
  /\ ~(Under(s.path, old) /\ d <= s.from) => w = s
  /\ Under(s.path, old) /\ d <= s.from =>
       /\ s.node = n => w.path = prefix
       /\ s.node # n => w.path = Rebased(s.path, old, prefix)
       /\ \A i \in 1 .. Len(prefix) : w.path[i] = prefix[i]

LEMMA MovedShape ==
  ASSUME NEW s, RowOK(s), NEW n, NEW p, NEW d, NEW old \in Seq(Nodes),
         NEW prefix \in Seq(Nodes)
  PROVE  MovesTo(Moved(s, n, p, d, old, prefix), s, n, d, old, prefix)
<1>1. PICK w : w = Moved(s, n, p, d, old, prefix)
  OBVIOUS
<1>2. ASSUME ~(Under(s.path, old) /\ d <= s.from) PROVE MovesTo(w, s, n, d, old, prefix)
  BY <1>1, <1>2 DEF Moved, SameSpan, MovesTo
<1>3. ASSUME Under(s.path, old) /\ d <= s.from PROVE MovesTo(w, s, n, d, old, prefix)
  <2>1. w = Rebase(s, n, p, old, prefix)
    BY <1>1, <1>3 DEF Moved
  <2>2. /\ SameSpan(w, s) /\ w.full = s.full
        /\ s.node = n => w.path = prefix
        /\ s.node # n => w.path = Rebased(s.path, old, prefix)
    BY <2>1 DEF Rebase, RowOK, Columns, SameSpan, Rebased
  <2>3. PICK path \in Seq(Nodes) : path = s.path
    BY DEF RowOK
  <2>4. Len(old) <= Len(path)
    BY <1>3, <2>3, UnderHeads
  <2>5. ASSUME s.node # n PROVE \A i \in 1 .. Len(prefix) : w.path[i] = prefix[i]
    <3>1. PICK new : new = Rebased(path, old, prefix)
      OBVIOUS
    <3>2. /\ Len(new) = Len(prefix) + (Len(path) - Len(old))
          /\ \A i \in 1 .. Len(new) :
               new[i] = IF i <= Len(prefix) THEN prefix[i]
                        ELSE path[Len(old) + (i - Len(prefix))]
      <4>1. Exchanges(new, path, old, prefix)
        BY <2>3, <2>4, <3>1, RebasedShape
      <4> QED
        BY <4>1 DEF Exchanges
    <3>3. Len(old) \in Nat /\ Len(path) \in Nat /\ Len(prefix) \in Nat
      BY LenProperties
    <3>4. \A i \in 1 .. Len(prefix) : new[i] = prefix[i]
      BY <2>4, <3>2, <3>3
    <3> QED
      BY <2>2, <2>3, <2>5, <3>1, <3>4
  <2> QED
    BY <1>3, <2>2, <2>5 DEF MovesTo
<1> QED
  BY <1>1, <1>2, <1>3

AfterMove(V, a, b, n, p, d) ==
  {Moved(s, n, p, d, a.path, Append(b.path, n)) : s \in SplitAt(V, RowsUnder(V, a.path), d)}

LEMMA SplitLineage ==
  ASSUME NEW V, RowsOK(V), WellFormed(V), NEW T \in SUBSET V, NEW d \in Dates, Lineage(V),
         NEW S, S = SplitAt(V, T, d)
  PROVE  Lineage(S)
<1>1. /\ \A s \in S : \E v \in V :
              Within(s, v, d) /\ s.path = v.path
      /\ \A v \in V, e \in Dates : Covers(v, e) =>
              \E s \in S : s.node = v.node /\ s.path = v.path /\ Covers(s, e)
  BY SplitPaths
<1>2. RowsOK(S)
  BY SplitRowsOK
<1> SUFFICES ASSUME NEW s \in S, NEW e \in Dates, Covers(s, e), NEW k \in 1 .. Len(s.path)
             PROVE  Ancestor(S, s, e, k)
  BY DEF Lineage
<1>3. PICK v \in V : Within(s, v, d) /\ s.path = v.path
  BY <1>1
<1>4. RowOK(v) /\ RowOK(s) /\ e \in Int
  BY <1>2, DatesAreInts DEF RowsOK
<1>5. v.from \in Int /\ v.to \in Int /\ s.from \in Int /\ s.to \in Int
  BY <1>4, DatesAreInts DEF RowOK
<1>6. Covers(v, e)
  BY <1>3, <1>4, <1>5 DEF Within, Covers
<1>7. PICK x \in V : x.node = v.path[k] /\ Covers(x, e) /\ Heads(x.path, v.path, k)
  BY <1>3, <1>6 DEF Lineage, Ancestor
<1>8. PICK y \in S : y.node = x.node /\ y.path = x.path /\ Covers(y, e)
  BY <1>1, <1>7
<1> QED
  BY <1>3, <1>7, <1>8 DEF Ancestor

LEMMA MoveLineage ==
  ASSUME NEW V, RowsOK(V), WellFormed(V), Lineage(V), NEW d \in Dates, NoneLater(V, d),
         NEW n \in Nodes, NEW p \in Nodes, NEW a \in V, a.node = n, Covers(a, d),
         a.path[Len(a.path)] = n, NEW b \in V, Covers(b, d), ~Under(b.path, a.path)
  PROVE  Lineage(AfterMove(V, a, b, n, p, d))
<1> SUFFICES ASSUME NEW old, old = a.path, NEW prefix, prefix = Append(b.path, n),
                    NEW S, S = SplitAt(V, RowsUnder(V, old), d),
                    NEW W, W = {Moved(s, n, p, d, old, prefix) : s \in S}
             PROVE  Lineage(W)
  BY DEF AfterMove
<1> DEFINE T == RowsUnder(V, old)
<1>1. T \in SUBSET V /\ \A v \in V : v \in T <=> Under(v.path, old)
  BY DEF RowsUnder
<1> HIDE DEF T
<1>2. RowsOK(S) /\ WellFormed(S) /\ Lineage(S)
  BY <1>1, SplitRowsOK, SplitWellFormed, SplitLineage DEF T
<1>3. /\ \A s \in S : \E v \in V :
              /\ Within(s, v, d) /\ s.path = v.path
              /\ v \in T => s.to <= d \/ d <= s.from
      /\ \A v \in V, e \in Dates : Covers(v, e) =>
              \E s \in S : s.node = v.node /\ s.path = v.path /\ Covers(s, e)
  BY <1>1, SplitPaths DEF T
<1>4. /\ b.path \in Seq(Nodes) /\ old \in Seq(Nodes) /\ prefix \in Seq(Nodes)
      /\ Len(prefix) = Len(b.path) + 1
      /\ \A i \in 1 .. Len(b.path) : prefix[i] = b.path[i]
      /\ prefix[Len(prefix)] = n
  <2>1. b.path \in Seq(Nodes) /\ old \in Seq(Nodes)
    BY DEF RowsOK, RowOK
  <2> QED
    BY <2>1, AppendProperties
<1>5. PICK L \in Nat, K \in Nat : L = Len(old) /\ K = Len(prefix) /\ K = Len(b.path) + 1
  BY <1>4, LenProperties
<1>6. ASSUME NEW s \in S
      PROVE  /\ RowOK(s) /\ s.path \in Seq(Nodes) /\ Len(s.path) \in Nat
             /\ s.from \in Int /\ s.to \in Int
  <2>1. RowOK(s)
    BY <1>2 DEF RowsOK
  <2> QED
    BY <2>1, DatesAreInts, LenProperties DEF RowOK
<1>7. d \in Int /\ Dates \subseteq Int
  BY DatesAreInts
(* A row below the mover lies before the day or after it. *)
<1>8. ASSUME NEW s \in S, Under(s.path, old)
      PROVE  s.to <= d \/ d <= s.from
  BY <1>1, <1>3, <1>8
<1> DEFINE Shifts(s) == Under(s.path, old) /\ d <= s.from
           g == [s \in S |-> Moved(s, n, p, d, old, prefix)]
<1>9. ASSUME NEW s \in S
      PROVE  /\ g[s] \in W /\ SameSpan(g[s], s)
             /\ ~Shifts(s) => g[s] = s
             /\ Shifts(s) => /\ s.node = n => g[s].path = prefix
                             /\ s.node # n => g[s].path = Rebased(s.path, old, prefix)
                             /\ \A i \in 1 .. K : g[s].path[i] = prefix[i]
  <2>1. PICK w : w = Moved(s, n, p, d, old, prefix)
    OBVIOUS
  <2>2. w = g[s] /\ w \in W
    BY <2>1
  <2>3. RowOK(s) /\ old \in Seq(Nodes) /\ prefix \in Seq(Nodes)
    BY <1>4, <1>6
  <2> HIDE DEF g
  <2>4. MovesTo(w, s, n, d, old, prefix)
    BY <2>1, <2>3, MovedShape
  <2>5. /\ SameSpan(w, s)
        /\ ~(Under(s.path, old) /\ d <= s.from) => w = s
        /\ Under(s.path, old) /\ d <= s.from =>
             /\ s.node = n => w.path = prefix
             /\ s.node # n => w.path = Rebased(s.path, old, prefix)
             /\ \A i \in 1 .. Len(prefix) : w.path[i] = prefix[i]
    BY <2>4 DEF MovesTo
  <2> QED
    BY <1>5, <2>2, <2>5
<1>10. W = {g[s] : s \in S}
  OBVIOUS
<1> HIDE DEF g
<1>11. ASSUME NEW s \in S, NEW e \in Dates, Covers(s, e), Under(s.path, old), d <= e
       PROVE  Shifts(s)
  BY <1>6, <1>7, <1>8, <1>11 DEF Covers
<1>12. ASSUME NEW s \in S, NEW e \in Dates, Covers(s, e), Shifts(s)
       PROVE  d <= e /\ Covers(a, e) /\ Covers(b, e)
  <2>1. d <= e
    BY <1>6, <1>7, <1>12 DEF Covers
  <2> QED
    BY <2>1, ReachesEnd
(* The rows that stay keep their ancestors: those stay too. *)
<1>13. ASSUME NEW s \in S, NEW e \in Dates, Covers(s, e), ~Shifts(s),
              NEW k \in 1 .. Len(s.path)
       PROVE  Ancestor(W, s, e, k)
  <2>1. PICK x \in S : x.node = s.path[k] /\ Covers(x, e) /\ Heads(x.path, s.path, k)
    BY <1>2, <1>13 DEF Lineage, Ancestor
  <2>2. ASSUME Shifts(x) PROVE FALSE
    <3>1. d <= e
      BY <1>12, <2>1, <2>2
    <3>2. L <= Len(x.path) /\ Heads(old, x.path, L)
      BY <1>4, <1>5, <1>6, <2>2, UnderHeads
    <3>3. L <= Len(s.path) /\ Heads(old, s.path, L)
      <4>1. Len(x.path) = k /\ \A i \in 1 .. k : x.path[i] = s.path[i]
        BY <2>1 DEF Heads
      <4>2. Len(old) = L /\ \A i \in 1 .. L : old[i] = x.path[i]
        BY <3>2 DEF Heads
      <4>3. k \in Nat /\ k <= Len(s.path) /\ L <= k
        BY <1>6, <3>2, <4>1
      <4>4. \A i \in 1 .. L : old[i] = s.path[i]
        BY <1>5, <4>1, <4>2, <4>3
      <4> QED
        BY <4>2, <4>3, <4>4 DEF Heads
    <3>4. Under(s.path, old)
      BY <1>4, <1>5, <1>6, <3>3, UnderHeads
    <3> QED
      BY <1>11, <1>13, <3>1, <3>4
  <2>3. x \in W
    BY <1>9, <2>2
  <2> QED
    BY <2>1, <2>3 DEF Ancestor
(* The mover's new row. *)
<1>14. ASSUME NEW s \in S, NEW e \in Dates, Covers(s, e), Shifts(s)
       PROVE  \E y \in S : y.node = n /\ Covers(y, e) /\ Shifts(y) /\ y.path = old
  <2>1. d <= e /\ Covers(a, e)
    BY <1>12, <1>14
  <2>2. PICK y \in S : y.node = n /\ y.path = old /\ Covers(y, e)
    BY <1>3, <2>1
  <2>3. Under(y.path, old)
    BY <1>4, <2>2, UnderItself
  <2> QED
    BY <1>11, <2>1, <2>2, <2>3
(* Below the new parent. *)
<1>15. ASSUME NEW s \in S, NEW e \in Dates, Covers(s, e), Shifts(s), NEW k \in 1 .. K - 1
       PROVE  Ancestor(W, g[s], e, k)
  <2>1. Covers(b, e) /\ k \in 1 .. Len(b.path) /\ k \in 1 .. K
    BY <1>5, <1>12, <1>15
  <2>2. PICK x \in V : x.node = b.path[k] /\ Covers(x, e) /\ Heads(x.path, b.path, k)
    BY <2>1 DEF Lineage, Ancestor
  <2>3. PICK y \in S : y.node = x.node /\ y.path = x.path /\ Covers(y, e)
    BY <1>3, <2>2
  <2>4. ASSUME Under(y.path, old) PROVE FALSE
    <3>1. L <= Len(y.path) /\ Heads(old, y.path, L)
      BY <1>4, <1>5, <1>6, <2>4, UnderHeads
    <3>2. L <= Len(b.path) /\ Heads(old, b.path, L)
      BY <1>5, <2>1, <2>2, <2>3, <3>1 DEF Heads
    <3> QED
      BY <1>4, <1>5, <3>2, UnderHeads
  <2>5. y \in W
    BY <1>9, <2>4
  <2>6. \A i \in 1 .. k : i \in 1 .. K /\ g[s].path[i] = prefix[i] /\ prefix[i] = b.path[i]
    BY <1>4, <1>5, <1>9, <1>15, <2>1
  <2>7. k \in 1 .. k /\ y.node = b.path[k] /\ Len(y.path) = k
        /\ \A i \in 1 .. k : y.path[i] = b.path[i]
    BY <2>1, <2>2, <2>3 DEF Heads
  <2>8. y.node = g[s].path[k] /\ \A i \in 1 .. k : y.path[i] = g[s].path[i]
    BY <2>6, <2>7
  <2> QED
    BY <2>3, <2>5, <2>7, <2>8 DEF Ancestor, Heads
<1>16. ASSUME NEW s \in S, NEW e \in Dates, Covers(s, e), Shifts(s)
       PROVE  Ancestor(W, g[s], e, K)
  <2>1. PICK y \in S : y.node = n /\ Covers(y, e) /\ Shifts(y) /\ y.path = old
    BY <1>14, <1>16
  <2>2. g[y].path = prefix /\ g[y].node = n /\ Covers(g[y], e) /\ g[y] \in W
    BY <1>9, <2>1 DEF SameSpan, Covers
  <2>3. \A i \in 1 .. K : g[s].path[i] = prefix[i]
    BY <1>9, <1>16
  <2>4. K \in 1 .. K /\ prefix[K] = n
    BY <1>4, <1>5, LenProperties
  <2> QED
    BY SMTT(30), <1>5, <2>2, <2>3, <2>4 DEF Ancestor, Heads
(* Below the mover. *)
<1>17. ASSUME NEW s \in S, s.node # n, Shifts(s)
       PROVE  /\ L <= Len(s.path) /\ Heads(old, s.path, L)
              /\ Len(g[s].path) = K + (Len(s.path) - L)
              /\ \A i \in 1 .. Len(g[s].path) :
                   g[s].path[i] = IF i <= K THEN prefix[i] ELSE s.path[L + (i - K)]
  <2>1. L <= Len(s.path) /\ Heads(old, s.path, L)
    BY <1>4, <1>5, <1>6, <1>17, UnderHeads
  <2>2. PICK path \in Seq(Nodes) : path = s.path
    BY <1>6
  <2>3. PICK new : new = Rebased(path, old, prefix)
    OBVIOUS
  <2>4. new = g[s].path
    BY <1>9, <1>17, <2>2, <2>3
  <2>5. /\ Len(new) = Len(prefix) + (Len(path) - Len(old))
        /\ \A i \in 1 .. Len(new) :
             new[i] = IF i <= Len(prefix) THEN prefix[i]
                      ELSE path[Len(old) + (i - Len(prefix))]
    <3>1. Len(old) <= Len(path)
      BY <1>5, <2>1, <2>2
    <3>2. Exchanges(new, path, old, prefix)
      BY <1>4, <2>2, <2>3, <3>1, RebasedShape
    <3> QED
      BY <3>2 DEF Exchanges
  <2> QED
    BY <1>5, <2>1, <2>2, <2>4, <2>5
<1>18. ASSUME NEW s \in S, NEW e \in Dates, Covers(s, e), Shifts(s), s.node # n,
              NEW k \in 1 .. Len(g[s].path), k > K
       PROVE  Ancestor(W, g[s], e, k)
  <2>1. PICK M \in Nat, j \in Nat : M = Len(s.path) /\ j = L + (k - K)
    BY <1>6, <1>18
  <2>2. L < j /\ j \in 1 .. M /\ k = K + (j - L)
    BY <1>17, <1>18, <2>1
  <2>3. PICK t \in S : t.node = s.path[j] /\ Covers(t, e) /\ Heads(t.path, s.path, j)
    BY <1>2, <1>18, <2>1, <2>2 DEF Lineage, Ancestor
  <2>4. Heads(old, s.path, L)
    BY <1>17, <1>18
  <2>5. L <= Len(t.path) /\ Heads(old, t.path, L)
    BY <2>2, <2>3, <2>4 DEF Heads
  <2>6. Under(t.path, old)
    BY <1>4, <1>5, <1>6, <2>5, UnderHeads
  <2>7. Shifts(t)
    BY <1>11, <1>12, <1>18, <2>3, <2>6
  <2>8. t.node # n
    <3>1. PICK y \in S : y.node = n /\ Covers(y, e) /\ Shifts(y) /\ y.path = old
      BY <1>14, <1>18
    <3>2. t.node = n => t = y
      <4>1. t.node = y.node => t = y \/ t.to <= y.from \/ y.to <= t.from
        BY <1>2, <2>3, <3>1 DEF WellFormed, NoOverlap
      <4>2. /\ t.from \in Int /\ t.to \in Int /\ y.from \in Int /\ y.to \in Int
            /\ e \in Int
        BY <1>6, <1>7, <2>3, <3>1
      <4> QED
        BY <2>3, <3>1, <4>1, <4>2 DEF Covers
    <3> QED
      BY <1>5, <2>2, <2>3, <3>1, <3>2 DEF Heads
  <2>9. /\ Len(g[t].path) = K + (Len(t.path) - L)
        /\ \A i \in 1 .. Len(g[t].path) :
             g[t].path[i] = IF i <= K THEN prefix[i] ELSE t.path[L + (i - K)]
    BY <1>17, <2>7, <2>8
  <2>10. Len(t.path) = j /\ \A i \in 1 .. j : t.path[i] = s.path[i]
    BY <2>3 DEF Heads
  <2>11. Len(g[t].path) = k
    BY <2>2, <2>9, <2>10
  <2>12. \A i \in 1 .. Len(g[s].path) :
           g[s].path[i] = IF i <= K THEN prefix[i] ELSE s.path[L + (i - K)]
    BY <1>17, <1>18
  <2>13. ASSUME NEW i \in 1 .. k PROVE g[t].path[i] = g[s].path[i]
    <3>1. i \in 1 .. Len(g[t].path) /\ i \in 1 .. Len(g[s].path)
      BY <1>18, <2>11
    <3>2. CASE i <= K
      BY <2>9, <2>12, <3>1, <3>2
    <3>3. CASE ~(i <= K)
      <4>1. L + (i - K) \in 1 .. j
        BY <2>2, <3>3
      <4> QED
        BY <2>9, <2>10, <2>12, <3>1, <3>3, <4>1
    <3> QED
      BY <3>2, <3>3
  <2>14. g[s].path[k] = s.path[j]
    BY <1>18, <2>1, <2>12
  <2>15. g[t] \in W /\ g[t].node = t.node /\ Covers(g[t], e)
    BY <1>9, <2>3 DEF SameSpan, Covers
  <2> QED
    BY <2>3, <2>11, <2>13, <2>14, <2>15 DEF Ancestor, Heads
<1>19. ASSUME NEW s \in S, NEW e \in Dates, Covers(g[s], e), NEW k \in 1 .. Len(g[s].path)
       PROVE  Ancestor(W, g[s], e, k)
  <2>1. Covers(s, e)
    BY <1>9, <1>19 DEF SameSpan, Covers
  <2>2. CASE ~Shifts(s)
    BY <1>9, <1>13, <1>19, <2>1, <2>2
  <2>3. CASE Shifts(s) /\ k < K
    <3>1. k \in 1 .. K - 1
      BY <2>3
    <3> QED
      BY <1>15, <2>1, <2>3, <3>1
  <2>4. CASE Shifts(s) /\ k = K
    BY <1>16, <2>1, <2>4
  <2>5. CASE Shifts(s) /\ k > K
    <3>1. s.node # n
      BY <1>5, <1>9, <1>19, <2>5
    <3> QED
      BY <1>18, <1>19, <2>1, <2>5, <3>1
  <2> QED
    BY <2>2, <2>3, <2>4, <2>5
<1> SUFFICES ASSUME NEW w \in W, NEW e \in Dates, Covers(w, e), NEW k \in 1 .. Len(w.path)
             PROVE  Ancestor(W, w, e, k)
  BY DEF Lineage
<1>20. PICK s \in S : w = g[s]
  BY <1>10
<1> QED
  BY <1>19, <1>20

(* What the name of a unit is and where its rows begin is left to the     *)
(* history of the units; here is which rows get another path or full name. *)
Has(path, n) == \E k \in 1 .. Len(path) : path[k] = n

Alters(V, W, n, d) ==
  \A w \in W : \/ d <= w.from /\ Has(w.path, n)
               \/ \E v \in V : /\ w.node = v.node /\ w.from = v.from
                               /\ w.path = v.path /\ w.full = v.full

LEMMA ApplyMoveLineage ==
  ASSUME NEW db0, Good(db0), NEW r, TreeOK(db0, r), NEW n \in Nodes, NEW p \in Nodes,
         NEW d \in Dates, NoneLater(db0.versions, d), Lineage(db0.versions),
         NEW after \in ApplyMove(db0, n, p, d)
  PROVE  Lineage(after.versions) /\ Alters(db0.versions, after.versions, n, d)
<1> DEFINE V == db0.versions
           a == RowAt(V, n, d)
           b == RowAt(V, p, d)
           old == a.path
           prefix == Append(b.path, n)
           T == RowsUnder(V, old)
           S == SplitAt(V, T, d)
           W == {Moved(s, n, p, d, old, prefix) : s \in S}
<1>1. /\ ExistsAt(V, n, d) /\ ExistsAt(V, p, d) /\ ~Under(b.path, a.path)
      /\ after = [db0 EXCEPT !.versions = MoveRows(@, n, p, d)]
  BY DEF ApplyMove, MoveAllowed
<1>2. RowsOK(V) /\ WellFormed(V) /\ Tree(V, db0.root, r)
  BY GoodParts DEF TreeOK
<1>3. MoveRows(V, n, p, d) = W
  BY DEF MoveRows, Moved
<1>4. after.versions = W
  BY <1>1, <1>3, GoodParts
<1>5. /\ a \in V /\ a.node = n /\ Covers(a, d)
      /\ b \in V /\ b.node = p /\ Covers(b, d)
  BY <1>1, RowAtExists
<1>6. a.path \in Seq(Nodes) /\ a.path[Len(a.path)] = n /\ b.path \in Seq(Nodes)
  <2> HIDE DEF a, b, V
  <2>1. RowOK(a) /\ PathOK(a) /\ RowOK(b)
    BY <1>2, <1>5 DEF RowsOK, Tree
  <2> QED
    BY <1>5, <2>1 DEF RowOK, PathOK, Last
<1>7. NoneLater(V, d) /\ Lineage(V)
  OBVIOUS
<1>8. T \in SUBSET V /\ \A v \in V : v \in T <=> Under(v.path, old)
  BY DEF RowsUnder
<1>9. Lineage(W)
  <2>1. W = AfterMove(V, a, b, n, p, d)
    BY DEF AfterMove
  <2> HIDE DEF V, a, b, W
  <2>2. Lineage(AfterMove(V, a, b, n, p, d))
    BY <1>1, <1>2, <1>5, <1>6, <1>7, MoveLineage
  <2> QED
    BY <2>1, <2>2
<1> HIDE DEF V, a, b, T
<1>10. /\ prefix \in Seq(Nodes) /\ old \in Seq(Nodes)
       /\ Len(prefix) \in Nat \ {0} /\ prefix[Len(prefix)] = n
  BY <1>6, AppendProperties, LenProperties
<1>11. RowsOK(S)
  BY <1>2, <1>8, SplitRowsOK
<1>12. \A s \in S : \E v \in V :
         /\ Within(s, v, d) /\ s.path = v.path /\ s.full = v.full
         /\ v \notin T => s = v
  BY <1>2, <1>8, SplitPaths
<1> HIDE DEF prefix, old, S
<1>13. ASSUME NEW w \in W
       PROVE  \/ d <= w.from /\ Has(w.path, n)
              \/ \E v \in V : /\ w.node = v.node /\ w.from = v.from
                              /\ w.path = v.path /\ w.full = v.full
  <2>1. PICK s \in S : w = Moved(s, n, p, d, old, prefix)
    OBVIOUS
  <2>2. RowOK(s) /\ s.from \in Int /\ d \in Int
    BY <1>11, DatesAreInts DEF RowsOK, RowOK
  <2>3. MovesTo(w, s, n, d, old, prefix)
    BY <1>10, <2>1, <2>2, MovedShape
  <2>4. CASE Under(s.path, old) /\ d <= s.from
    <3>1. w.path[Len(prefix)] = n /\ w.from = s.from
      BY <1>10, <2>3, <2>4 DEF MovesTo, SameSpan
    <3>2. Len(prefix) \in 1 .. Len(w.path)
      <4>1. CASE s.node = n
        BY <1>10, <2>3, <2>4, <4>1 DEF MovesTo
      <4>2. CASE s.node # n
        <5>1. PICK path \in Seq(Nodes) : path = s.path
          BY <2>2 DEF RowOK
        <5>2. Len(old) <= Len(path) /\ Len(old) \in Nat /\ Len(path) \in Nat
          BY <1>10, <2>4, <5>1, UnderHeads, LenProperties
        <5>3. Exchanges(Rebased(path, old, prefix), path, old, prefix)
          BY <1>10, <5>2, RebasedShape
        <5>4. w.path = Rebased(path, old, prefix)
          BY <2>3, <2>4, <4>2, <5>1 DEF MovesTo
        <5>5. Len(w.path) = Len(prefix) + (Len(path) - Len(old))
          BY <5>3, <5>4 DEF Exchanges
        <5> QED
          BY <1>10, <5>2, <5>5
      <4> QED
        BY <4>1, <4>2
    <3> QED
      BY <2>4, <3>1, <3>2 DEF Has
  <2>5. CASE ~(Under(s.path, old) /\ d <= s.from)
    <3>1. w = s
      BY <2>3, <2>5 DEF MovesTo
    <3>2. PICK v \in V : /\ Within(s, v, d) /\ s.path = v.path /\ s.full = v.full
                         /\ v \notin T => s = v
      BY <1>12
    <3>3. s.from = v.from
      BY <1>8, <2>2, <2>5, <3>2 DEF Within
    <3> QED
      BY <3>1, <3>2, <3>3 DEF Within
  <2> QED
    BY <2>4, <2>5
<1> HIDE DEF W
<1>14. Lineage(after.versions) /\ Alters(V, after.versions, n, d)
  BY <1>4, <1>9, <1>13 DEF Alters
<1> QED
  BY <1>14 DEF V

(* The mover, and whatever an event rewrites after that. *)
LEMMA AltersRewrites ==
  ASSUME NEW U, RowsOK(U), NEW V, RowsOK(V), NEW W, RowsOK(W), NEW n, NEW d \in Dates,
         Alters(U, V, n, d), Rewrites(V, W, n, d),
         \A w \in W : w.node = n => Has(w.path, n)
  PROVE  Alters(U, W, n, d)
<1> SUFFICES ASSUME NEW w \in W
             PROVE  \/ d <= w.from /\ Has(w.path, n)
                    \/ \E u \in U : /\ w.node = u.node /\ w.from = u.from
                                    /\ w.path = u.path /\ w.full = u.full
  BY DEF Alters
<1>1. PICK v \in V : /\ Within(w, v, d) /\ w.path = v.path /\ w.full = v.full
                     /\ w.node # n => w = v
  BY DEF Rewrites
<1>2. w.from \in Int /\ v.from \in Int /\ d \in Int
  BY DatesAreInts DEF RowsOK, RowOK
<1>3. CASE d <= v.from /\ Has(v.path, n)
  BY <1>1, <1>2, <1>3 DEF Within
<1>4. CASE \E u \in U : /\ v.node = u.node /\ v.from = u.from
                        /\ v.path = u.path /\ v.full = u.full
  <2>1. CASE w.from = v.from
    BY <1>1, <1>4, <2>1 DEF Within
  <2>2. CASE w.from # v.from
    BY <1>1, <1>2, <2>2 DEF Within
  <2> QED
    BY <2>1, <2>2
<1> QED
  BY <1>3, <1>4 DEF Alters

(***************************************************************************)
(* Every other event: a MOVE, if any, and then what leaves the paths alone.*)
(***************************************************************************)
LEMMA UpdateRewrites ==
  ASSUME NEW log, NEW db0, Good(db0), NEW n \in Nodes, NEW d \in Dates, NEW payload,
         PayloadOK(payload), NEW after \in ApplyUpdate(log, db0, n, d, payload)
  PROVE  \E b \in IF CarriesParent(payload) THEN ApplyMove(db0, n, NewParent(payload), d)
                                            ELSE {db0} :
           /\ Good(b) /\ Good(after)
           /\ Rewrites(b.versions, after.versions, n, d)
<1> DEFINE bu == payload["is_business_unit"]
           flagStop == StopDate(log, n, "SET_BUSINESS_UNIT", d)
           nameStop == StopDate(log, n, "RENAME", d)
           moved == IF CarriesParent(payload)
                    THEN ApplyMove(db0, n, NewParent(payload), d) ELSE {db0}
           switched == IF Carries(payload, "status")
                       THEN OnEach(moved, LAMBDA x :
                              ApplyStatus(x, n, d, payload["status"]))
                       ELSE moved
           classified == IF Carries(payload, "is_business_unit")
                         THEN OnEach(switched, LAMBDA x :
                                ApplySetBusinessUnit(x, n, d, bu, flagStop))
                         ELSE switched
<1>1. ASSUME NEW x, NEW y, NEW z, Good(x), Good(y), Good(z),
             Rewrites(x.versions, y.versions, n, d),
             Rewrites(y.versions, z.versions, n, d)
      PROVE  Rewrites(x.versions, z.versions, n, d)
  <2>1. RowsOK(x.versions) /\ RowsOK(y.versions) /\ RowsOK(z.versions)
    BY <1>1, GoodParts
  <2> QED
    BY <1>1, <2>1, RewritesTwice
<1>2. ASSUME NEW x, Good(x) PROVE Rewrites(x.versions, x.versions, n, d)
  BY <1>2, GoodParts, RewritesNone
<1>3. \A x \in moved : Good(x)
  BY NewParentOK, ApplyMoveGood
<1>4. after \in IF CarriesName(payload)
                THEN OnEach(classified, LAMBDA x :
                       ApplyRename(x, n, d, NewName(payload), nameStop))
                ELSE classified
  BY DEF ApplyUpdate
<1> HIDE DEF moved
<1>5. ASSUME NEW x \in switched
      PROVE  Good(x) /\ \E b \in moved : Rewrites(b.versions, x.versions, n, d)
  <2>1. CASE Carries(payload, "status")
    <3>1. payload["status"] \in Statuses
      BY <2>1 DEF PayloadOK, Carries
    <3>2. PICK y \in moved : x \in ApplyStatus(y, n, d, payload["status"])
      BY <2>1 DEF OnEach
    <3>3. Good(y)
      BY <1>3, <3>2
    <3> QED
      BY <3>1, <3>2, <3>3, ApplyStatusGood, StatusRewrites
  <2>2. CASE ~Carries(payload, "status")
    BY <1>2, <1>3, <2>2
  <2> QED
    BY <2>1, <2>2
<1> HIDE DEF switched
<1>6. ASSUME NEW x \in classified
      PROVE  Good(x) /\ \E b \in moved : Rewrites(b.versions, x.versions, n, d)
  <2>1. CASE Carries(payload, "is_business_unit")
    <3>1. bu \in BOOLEAN
      BY <2>1 DEF PayloadOK, Carries
    <3>2. PICK y \in switched : x \in ApplySetBusinessUnit(y, n, d, bu, flagStop)
      BY <2>1 DEF OnEach
    <3>3. PICK b \in moved : Rewrites(b.versions, y.versions, n, d)
      BY <1>5
    <3>4. Good(y) /\ Good(b)
      BY <1>3, <1>5
    <3>5. Good(x) /\ Rewrites(y.versions, x.versions, n, d)
      BY <3>1, <3>2, <3>4, ApplySetBusinessUnitGood, BusinessUnitRewrites
    <3> QED
      BY <1>1, <3>3, <3>4, <3>5
  <2>2. CASE ~Carries(payload, "is_business_unit")
    BY <1>5, <2>2
  <2> QED
    BY <2>1, <2>2
<1> HIDE DEF classified
<1>7. \E b \in moved :
        Good(after) /\ Rewrites(b.versions, after.versions, n, d)
  <2>1. CASE CarriesName(payload)
    <3>1. PICK y \in classified : after \in ApplyRename(y, n, d, NewName(payload), nameStop)
      BY <1>4, <2>1 DEF OnEach
    <3>2. PICK b \in moved : Rewrites(b.versions, y.versions, n, d)
      BY <1>6
    <3>3. Good(y) /\ Good(b)
      BY <1>3, <1>6
    <3>4. Good(after) /\ Rewrites(y.versions, after.versions, n, d)
      BY <2>1, <3>1, <3>3, NewNameOK, ApplyRenameGood, RenameRewrites
    <3>5. Rewrites(b.versions, after.versions, n, d)
      BY <1>1, <3>2, <3>3, <3>4
    <3> QED
      BY <3>4, <3>5
  <2>2. CASE ~CarriesName(payload)
    BY <1>4, <1>6, <2>2
  <2> QED
    BY <2>1, <2>2
<1> QED
  BY <1>3, <1>7 DEF moved

LEMMA OwnLabel ==
  ASSUME NEW p, Good(p), NEW r, TreeOK(p, r), NEW v \in p.versions
  PROVE  Has(v.path, v.node)
<1>1. RowOK(v) /\ PathOK(v)
  BY GoodParts DEF RowsOK, TreeOK, Tree
<1>2. v.path \in Seq(Nodes) /\ v.path # <<>> /\ v.path[Len(v.path)] = v.node
  BY <1>1 DEF RowOK, PathOK, Last
<1>3. Len(v.path) \in 1 .. Len(v.path)
  BY <1>2, EmptySeq
<1> QED
  BY <1>2, <1>3 DEF Has

LEMMA AltersNothing ==
  ASSUME NEW V, NEW n, NEW d
  PROVE  Alters(V, V, n, d)
  BY DEF Alters

(* An event that is no CREATE, before the full names are rebuilt.          *)
LEMMA LogicLineage ==
  ASSUME NEW log, NEW db0, Good(db0), NEW r, TreeOK(db0, r), NEW n \in Nodes,
         NEW type \in BaseTypes \ {"CREATE"}, NEW d \in Dates, NEW payload,
         PayloadOK(payload), Complete(type, payload),
         NoneLater(db0.versions, d), Lineage(db0.versions),
         NEW after \in ApplyLogic(log, db0, n, type, d, payload)
  PROVE  /\ Lineage(after.versions) /\ Alters(db0.versions, after.versions, n, d)
         /\ ~ChangesNames(type, payload) => Rewrites(db0.versions, after.versions, n, d)
<1>1. TreeOK(after, r) /\ Good(after)
  <2>1. TreeOK(after, r)
    <3>1. CASE type = "UPDATE"
      BY <3>1, ApplyUpdateTree DEF ApplyLogic
    <3>2. CASE type = "MOVE"
      BY <3>2, ApplyMoveTree DEF ApplyLogic, Complete, PayloadOK
    <3>3. CASE type = "RENAME"
      BY <3>3, ApplyRenameTree DEF ApplyLogic
    <3>4. CASE type \in {"ENABLE", "DISABLE"}
      BY <3>4, ApplyStatusTree DEF ApplyLogic
    <3>5. CASE type = "SET_BUSINESS_UNIT"
      BY <3>5, ApplySetBusinessUnitTree DEF ApplyLogic
    <3> QED
      BY <3>1, <3>2, <3>3, <3>4, <3>5 DEF BaseTypes
  <2> QED
    BY <2>1, ApplyLogicGood
<1>2. ASSUME NEW b, Good(b), Lineage(b.versions), Alters(db0.versions, b.versions, n, d),
             Rewrites(b.versions, after.versions, n, d)
      PROVE  Lineage(after.versions) /\ Alters(db0.versions, after.versions, n, d)
  <2>1. RowsOK(db0.versions) /\ RowsOK(b.versions) /\ RowsOK(after.versions)
    BY <1>1, <1>2, GoodParts
  <2>2. \A w \in after.versions : w.node = n => Has(w.path, n)
    BY <1>1, OwnLabel
  <2> QED
    BY <1>2, <2>1, <2>2, RewritesKeepLineage, AltersRewrites
<1>3. ASSUME Rewrites(db0.versions, after.versions, n, d)
      PROVE  Lineage(after.versions) /\ Alters(db0.versions, after.versions, n, d)
  BY <1>2, <1>3, AltersNothing
<1>4. ASSUME NEW p \in Nodes, NEW b \in ApplyMove(db0, n, p, d)
      PROVE  Good(b) /\ Lineage(b.versions) /\ Alters(db0.versions, b.versions, n, d)
  BY ApplyMoveGood, ApplyMoveLineage
<1>5. CASE type = "UPDATE"
  <2>1. PICK b \in IF CarriesParent(payload) THEN ApplyMove(db0, n, NewParent(payload), d)
                                            ELSE {db0} :
          Good(b) /\ Rewrites(b.versions, after.versions, n, d)
    BY <1>5, UpdateRewrites DEF ApplyLogic
  <2>2. CASE CarriesParent(payload)
    <3>1. NewParent(payload) \in Nodes
      BY <2>2, NewParentOK
    <3>2. ChangesNames(type, payload)
      BY <1>5, <2>2 DEF ChangesNames
    <3>3. b \in ApplyMove(db0, n, NewParent(payload), d)
      BY <2>2
    <3>4. Lineage(b.versions) /\ Alters(db0.versions, b.versions, n, d)
      BY <1>4, <3>1, <3>3
    <3> QED
      BY <1>2, <2>1, <3>2, <3>4
  <2>3. CASE ~CarriesParent(payload)
    BY <1>3, <2>1, <2>3
  <2> QED
    BY <2>2, <2>3
<1>6. CASE type = "MOVE"
  <2>1. payload["new_parent_org_node_key"] \in Nodes /\ ChangesNames(type, payload)
    BY <1>6 DEF Complete, PayloadOK, ChangesNames
  <2>2. after \in ApplyMove(db0, n, payload["new_parent_org_node_key"], d)
    BY <1>6 DEF ApplyLogic
  <2> QED
    BY <1>4, <2>1, <2>2
<1>7. CASE type = "RENAME"
  BY <1>3, <1>7, RenameRewrites DEF ApplyLogic
<1>8. CASE type \in {"ENABLE", "DISABLE"}
  BY <1>3, <1>8, StatusRewrites DEF ApplyLogic
<1>9. CASE type = "SET_BUSINESS_UNIT"
  BY <1>3, <1>9, BusinessUnitRewrites DEF ApplyLogic
<1> QED
  BY <1>5, <1>6, <1>7, <1>8, <1>9 DEF BaseTypes

LEMMA CreateLineage ==
  ASSUME NEW db0, Good(db0), NEW n \in Nodes, NEW d \in Dates, NEW payload,
         NoneLater(db0.versions, d), Lineage(db0.versions),
         NEW after \in ApplyCreate(db0, n, d, payload)
  PROVE  Lineage(after.versions) /\ Alters(db0.versions, after.versions, n, d)
<1> DEFINE p == Field(payload, "parent_org_node_key", NoNode)
           V == db0.versions
<1>1. RowsOK(V) /\ WellFormed(V) /\ d \in Int /\ d <= d /\ Dates \subseteq Int
  BY GoodParts, DatesAreInts
<1>2. ASSUME NEW row, row.node = n, row.from = d, row.to = Infinity,
             NEW K \in Nat, Len(row.path) = K + 1, row.path[K + 1] = n,
             \A e \in Dates : d <= e => \A k \in 1 .. K : Ancestor(V, row, e, k)
      PROVE  Lineage(V \cup {row}) /\ Alters(V, V \cup {row}, n, d)
  <2> DEFINE W == V \cup {row}
  <2>1. ASSUME NEW w \in W, NEW e \in Dates, Covers(w, e), NEW k \in 1 .. Len(w.path)
        PROVE  Ancestor(W, w, e, k)
    <3>1. CASE w \in V
      BY <2>1, <3>1 DEF Lineage, Ancestor
    <3>2. CASE w = row
      <4>1. d <= e
        BY <1>2, <2>1, <3>2 DEF Covers
      <4>2. CASE k \in 1 .. K
        BY <1>2, <3>2, <4>1, <4>2 DEF Ancestor
      <4>3. CASE k = K + 1
        BY <1>2, <2>1, <3>2, <4>3 DEF Ancestor, Heads
      <4> QED
        BY <1>2, <2>1, <3>2, <4>2, <4>3
    <3> QED
      BY <3>1, <3>2
  <2>2. Has(row.path, n)
    BY <1>2 DEF Has
  <2>3. ASSUME NEW w \in W
        PROVE  \/ d <= w.from /\ Has(w.path, n)
               \/ \E v \in V : /\ w.node = v.node /\ w.from = v.from
                               /\ w.path = v.path /\ w.full = v.full
    BY <1>1, <1>2, <2>2
  <2> QED
    BY <2>1, <2>3 DEF Lineage, Alters
<1>3. CASE p = NoNode
  <2> DEFINE row == NewRow(n, NoNode, <<n>>, d, payload, TRUE)
  <2>1. after = [versions |-> V \cup {row}, root |-> n,
                 codes |-> CreateCodes(db0.codes, n, payload)]
    BY <1>3 DEF ApplyCreate, CreateRoot
  <2>2. row.node = n /\ row.from = d /\ row.to = Infinity /\ row.path = <<n>>
    BY DEF NewRow
  <2> HIDE DEF row
  <2>3. Len(row.path) = 0 + 1 /\ row.path[0 + 1] = n /\ 0 \in Nat /\ 1 .. 0 = {}
    BY <2>2
  <2>4. \A e \in Dates : d <= e => \A k \in 1 .. 0 : Ancestor(V, row, e, k)
    BY <2>3
  <2>5. Lineage(V \cup {row}) /\ Alters(V, V \cup {row}, n, d)
    BY <1>2, <2>2, <2>3, <2>4
  <2> QED
    BY <2>1, <2>5
<1>4. CASE p # NoNode
  <2> DEFINE bu == Field(payload, "is_business_unit", FALSE)
  <2>1. PICK parent \in ActiveParents(V, p, d) :
          after = [db0 EXCEPT
            !.versions = @ \cup {NewRow(n, p, Append(parent.path, n), d, payload, bu)},
            !.codes = CreateCodes(@, n, payload)]
    BY <1>4 DEF ApplyCreate, CreateChild
  <2> DEFINE row == NewRow(n, p, Append(parent.path, n), d, payload, bu)
  <2>2. parent \in V /\ Covers(parent, d)
    BY DEF ActiveParents
  <2>3. /\ row.node = n /\ row.from = d /\ row.to = Infinity
        /\ row.path = Append(parent.path, n)
    BY DEF NewRow
  <2>4. after.versions = V \cup {row}
    BY <2>1, GoodParts
  <2>5. parent.path \in Seq(Nodes)
    BY <1>1, <2>2 DEF RowsOK, RowOK
  <2> HIDE DEF row, V
  <2>6. PICK K \in Nat : K = Len(parent.path)
    BY <2>5, LenProperties
  <2>7. /\ Len(row.path) = K + 1 /\ row.path[K + 1] = n
        /\ \A i \in 1 .. K : row.path[i] = parent.path[i]
    BY <2>3, <2>5, <2>6, AppendProperties
  <2>8. ASSUME NEW e \in Dates, d <= e, NEW k \in 1 .. K
        PROVE  Ancestor(V, row, e, k)
    <3>1. Covers(parent, e)
      BY <1>1, <2>2, <2>8, ReachesEnd DEF V
    <3>2. PICK x \in V : /\ x.node = parent.path[k] /\ Covers(x, e)
                         /\ Heads(x.path, parent.path, k)
      BY <2>2, <2>6, <3>1 DEF Lineage, Ancestor, V
    <3>3. \A i \in 1 .. k : row.path[i] = parent.path[i]
      BY <2>7
    <3>4. k \in 1 .. k
      OBVIOUS
    <3> QED
      BY <3>2, <3>3, <3>4 DEF Ancestor, Heads
  <2>9. Lineage(V \cup {row}) /\ Alters(V, V \cup {row}, n, d)
    BY <1>2, <2>3, <2>7, <2>8
  <2> QED
    BY <2>4, <2>9 DEF V
<1> QED
  BY <1>3, <1>4

(***************************************************************************)
(* The full names.                                                         *)
(***************************************************************************)
LEMMA NamesAgree ==
  ASSUME NEW V, NEW W, NEW path, NEW day,
         \A i \in DOMAIN path : ExistsAt(V, path[i], day) <=> ExistsAt(W, path[i], day),
         \A i \in DOMAIN path : ExistsAt(V, path[i], day) =>
           RowAt(V, path[i], day).name = RowAt(W, path[i], day).name
  PROVE  NamesOf(V, path, day) = NamesOf(W, path, day)
<1>1. Present(V, path, day) = Present(W, path, day)
  BY DEF Present
<1>2. \A i \in Present(V, path, day) :
        RowAt(V, path[i], day).name = RowAt(W, path[i], day).name
  BY DEF Present
<1> QED
  BY <1>1, <1>2 DEF NamesOf

(* The same rows, with other full names. *)
SameButFull(w, v) ==
  SameSpan(w, v) /\ w.path = v.path /\ w.name = v.name

Refreshes(V, W) ==
  /\ \A w \in W : \E v \in V : SameButFull(w, v)
  /\ \A v \in V : \E w \in W : SameButFull(w, v)

LEMMA RefreshLineage ==
  ASSUME NEW V, NEW W, Refreshes(V, W), Lineage(V)
  PROVE  Lineage(W)
<1> SUFFICES ASSUME NEW w \in W, NEW e \in Dates, Covers(w, e), NEW k \in 1 .. Len(w.path)
             PROVE  Ancestor(W, w, e, k)
  BY DEF Lineage
<1>1. PICK v \in V : SameButFull(w, v)
  BY DEF Refreshes
<1>2. Covers(v, e) /\ v.path = w.path
  BY <1>1 DEF SameButFull, SameSpan, Covers
<1>3. PICK x \in V : x.node = v.path[k] /\ Covers(x, e) /\ Heads(x.path, v.path, k)
  BY <1>2 DEF Lineage, Ancestor
<1>4. PICK y \in W : SameButFull(y, x)
  BY <1>3 DEF Refreshes
<1> QED
  BY <1>2, <1>3, <1>4 DEF SameButFull, SameSpan, Covers, Ancestor

LEMMA RefreshNames ==
  ASSUME NEW V, RowsOK(V), WellFormed(V), NEW W, RowsOK(W), WellFormed(W),
         Refreshes(V, W), NEW path, NEW day \in Dates
  PROVE  NamesOf(V, path, day) = NamesOf(W, path, day)
<1>1. ASSUME NEW m
      PROVE  /\ ExistsAt(V, m, day) <=> ExistsAt(W, m, day)
             /\ ExistsAt(V, m, day) => RowAt(V, m, day).name = RowAt(W, m, day).name
  <2>1. ExistsAt(V, m, day) => ExistsAt(W, m, day)
    BY DEF ExistsAt, Refreshes, SameButFull, SameSpan, Covers
  <2>2. ExistsAt(W, m, day) => ExistsAt(V, m, day)
    BY DEF ExistsAt, Refreshes, SameButFull, SameSpan, Covers
  <2>3. ASSUME ExistsAt(V, m, day) PROVE RowAt(V, m, day).name = RowAt(W, m, day).name
    <3>1. PICK w \in W : w.node = m /\ Covers(w, day)
      BY <2>1, <2>3 DEF ExistsAt
    <3>2. PICK v \in V : SameButFull(w, v)
      BY DEF Refreshes
    <3>3. v.node = m /\ Covers(v, day) /\ v.name = w.name
      BY <3>1, <3>2 DEF SameButFull, SameSpan, Covers
    <3>4. RowAt(W, m, day) = w
      BY <3>1, RowAtIs
    <3>5. RowAt(V, m, day) = v
      BY <3>3, RowAtIs
    <3> QED
      BY <3>3, <3>4, <3>5
  <2> QED
    BY <2>1, <2>2, <2>3
<1> QED
  BY <1>1, NamesAgree

(* After an event of n, a row from that day on whose path has n holds the  *)
(* names that its ancestors have.                                          *)
Renewed(W, n, d) ==
  \A w \in W : d <= w.from /\ Has(w.path, n) => NamesCurrent(W, w)

LEMMA FullNamesRefresh ==
  ASSUME NEW b, Good(b), NEW n, NEW d \in Dates, NEW after,
         after = RebuildFullNames(b, n, d)
  PROVE  /\ Refreshes(b.versions, after.versions)
         /\ \A w \in after.versions : \E v \in b.versions :
              /\ SameButFull(w, v)
              /\ \/ w.full = v.full
                 \/ /\ ExistsAt(b.versions, n, d) /\ d <= w.from
                    /\ Under(w.path, RowAt(b.versions, n, d).path)
         /\ ExistsAt(b.versions, n, d) =>
              \A w \in after.versions :
                d <= w.from /\ Under(w.path, RowAt(b.versions, n, d).path) =>
                  w.full = NamesOf(b.versions, w.path, w.from)
<1> DEFINE V == b.versions
           path == RowAt(V, n, d).path
           g == [v \in V |-> IF Under(v.path, path) /\ d <= v.from
                             THEN [v EXCEPT !.full = NamesOf(V, v.path, v.from)]
                             ELSE v]
<1>1. RowsOK(V)
  BY GoodParts
<1>2. ASSUME NEW v \in V
      PROVE  /\ SameButFull(g[v], v) /\ SameButFull(v, v)
             /\ g[v].full = v.full \/ (Under(v.path, path) /\ d <= v.from)
             /\ Under(v.path, path) /\ d <= v.from => g[v].full = NamesOf(V, v.path, v.from)
  <2>1. RowOK(v)
    BY <1>1 DEF RowsOK
  <2> QED
    BY <2>1 DEF RowOK, Columns, SameSpan, SameButFull
<1>3. CASE ~ExistsAt(V, n, d)
  <2>1. after.versions = V
    BY <1>3 DEF RebuildFullNames
  <2> HIDE DEF g, path
  <2> QED
    BY <1>2, <1>3, <2>1 DEF Refreshes
<1>4. CASE ExistsAt(V, n, d)
  <2>1. after.versions = {g[v] : v \in V}
    BY <1>4, GoodParts DEF RebuildFullNames
  <2> HIDE DEF g, V
  <2>2. \A w \in after.versions : \E v \in V : w = g[v]
    BY <2>1
  <2>3. \A v \in V : g[v] \in after.versions
    BY <2>1
  <2>4. \A v \in V : g[v].path = v.path /\ g[v].from = v.from
    BY <1>2 DEF SameButFull, SameSpan
  <2>5. Refreshes(V, after.versions)
    BY <1>2, <2>2, <2>3 DEF Refreshes
  <2> HIDE DEF path
  <2>6. ASSUME NEW w \in after.versions
        PROVE  /\ \E v \in V : /\ SameButFull(w, v)
                               /\ w.full = v.full \/ (d <= w.from /\ Under(w.path, path))
               /\ d <= w.from /\ Under(w.path, path) => w.full = NamesOf(V, w.path, w.from)
    <3>1. PICK v \in V : w = g[v]
      BY <2>2
    <3> QED
      BY <1>2, <2>4, <3>1
  <2>7. \A w \in after.versions : \E v \in V :
          /\ SameButFull(w, v)
          /\ w.full = v.full \/ (ExistsAt(V, n, d) /\ d <= w.from /\ Under(w.path, path))
    BY <1>4, <2>6
  <2>8. \A w \in after.versions :
          d <= w.from /\ Under(w.path, path) => w.full = NamesOf(V, w.path, w.from)
    BY <2>6
  <2> QED
    BY <2>5, <2>7, <2>8 DEF V, path
<1> QED
  BY <1>3, <1>4

LEMMA RebuiltNames ==
  ASSUME NEW b, Good(b), NEW r, TreeOK(b, r), NEW n \in Nodes, NEW d \in Dates,
         Lineage(b.versions), NEW V, Alters(V, b.versions, n, d),
         NoneLater(RebuildFullNames(b, n, d).versions, d)
  PROVE  /\ Lineage(RebuildFullNames(b, n, d).versions)
         /\ Alters(V, RebuildFullNames(b, n, d).versions, n, d)
         /\ Renewed(RebuildFullNames(b, n, d).versions, n, d)
<1> DEFINE U == b.versions
           path == RowAt(U, n, d).path
<1>1. PICK after : after = RebuildFullNames(b, n, d)
  OBVIOUS
<1> DEFINE W == after.versions
<1>2. /\ Refreshes(U, W)
      /\ \A w \in W : \E v \in U :
           /\ SameButFull(w, v)
           /\ w.full = v.full \/ (ExistsAt(U, n, d) /\ d <= w.from /\ Under(w.path, path))
      /\ ExistsAt(U, n, d) =>
           \A w \in W : d <= w.from /\ Under(w.path, path) =>
             w.full = NamesOf(U, w.path, w.from)
  BY <1>1, FullNamesRefresh
<1>3. Good(after)
  BY <1>1, RebuildFullNamesGood
<1>4. RowsOK(U) /\ WellFormed(U) /\ RowsOK(W) /\ WellFormed(W)
  BY <1>3, GoodParts
<1>5. NoneLater(W, d) /\ Lineage(U) /\ Alters(V, U, n, d)
  BY <1>1
<1>6. \A v \in U : v.node = n => Has(v.path, n)
  BY OwnLabel
<1> HIDE DEF U, W
<1>7. Lineage(W)
  BY <1>2, <1>5, RefreshLineage
<1>8. ASSUME NEW v \in U PROVE v.path \in Seq(Nodes) /\ Len(v.path) \in Nat
  BY <1>4, LenProperties DEF RowsOK, RowOK
<1>9. ASSUME ExistsAt(U, n, d)
      PROVE  /\ RowAt(U, n, d) \in U /\ RowAt(U, n, d).node = n /\ Covers(RowAt(U, n, d), d)
  BY <1>9, RowAtExists
<1>10. ASSUME NEW w \in W
       PROVE  \/ d <= w.from /\ Has(w.path, n)
              \/ \E v \in V : /\ w.node = v.node /\ w.from = v.from
                              /\ w.path = v.path /\ w.full = v.full
  <2>1. PICK u \in U :
          /\ SameButFull(w, u)
          /\ w.full = u.full \/ (ExistsAt(U, n, d) /\ d <= w.from /\ Under(w.path, path))
    BY <1>2
  <2>2. w.node = u.node /\ w.from = u.from /\ w.path = u.path
    BY <2>1 DEF SameButFull, SameSpan
  <2>3. CASE w.full = u.full
    BY <1>5, <2>2, <2>3 DEF Alters
  <2>4. CASE ExistsAt(U, n, d) /\ d <= w.from /\ Under(w.path, path)
    <3>1. path \in Seq(Nodes) /\ Has(path, n)
      BY <1>6, <1>8, <1>9, <2>4
    <3> HIDE DEF path
    <3>2. Len(path) <= Len(u.path) /\ Heads(path, u.path, Len(path))
      BY <1>8, <2>2, <2>4, <3>1, UnderHeads
    <3>3. PICK k \in 1 .. Len(path) : path[k] = n
      BY <3>1 DEF Has
    <3>4. k \in 1 .. Len(u.path) /\ u.path[k] = n
      BY <1>8, <3>1, <3>2, <3>3, LenProperties DEF Heads
    <3> QED
      BY <2>2, <2>4, <3>4 DEF Has
  <2> QED
    BY <2>1, <2>3, <2>4
<1>11. ASSUME NEW w \in W, d <= w.from, Has(w.path, n)
       PROVE  NamesCurrent(W, w)
  <2>1. PICK u \in U : SameButFull(w, u)
    BY <1>2
  <2>2. w.from = d /\ w.from < w.to
    <3>1. w.from \in Int /\ d \in Int
      BY <1>4, DatesAreInts DEF RowsOK, RowOK
    <3> QED
      BY <1>4, <1>5, <1>11, <3>1 DEF NoneLater, WellFormed, NonEmptyRows
  <2>3. Covers(u, d) /\ u.path = w.path
    <3>1. w.from \in Int /\ w.to \in Int
      BY <1>4, DatesAreInts DEF RowsOK, RowOK
    <3> QED
      BY <2>1, <2>2, <3>1 DEF SameButFull, SameSpan, Covers
  <2>4. PICK k \in 1 .. Len(w.path) : w.path[k] = n
    BY <1>11 DEF Has
  <2>5. PICK y \in U : y.node = n /\ Covers(y, d) /\ Heads(y.path, u.path, k)
    BY <1>5, <2>3, <2>4 DEF Lineage, Ancestor
  <2>6. ExistsAt(U, n, d) /\ path = y.path
    BY <1>4, <2>5, RowAtIs DEF ExistsAt
  <2> HIDE DEF path
  <2>7. Under(u.path, y.path)
    <3>1. Len(y.path) = k /\ k <= Len(u.path)
      BY <1>8, <2>3, <2>4, <2>5 DEF Heads
    <3> QED
      BY <1>8, <2>5, <3>1, UnderHeads
  <2>8. w.full = NamesOf(U, w.path, w.from)
    BY <1>2, <1>11, <2>3, <2>6, <2>7
  <2>9. NamesOf(U, w.path, w.from) = NamesOf(W, w.path, w.from)
    BY <1>2, <1>4, <2>2, RefreshNames
  <2> QED
    BY <2>8, <2>9 DEF NamesCurrent
<1>12. Alters(V, W, n, d) /\ Renewed(W, n, d)
  BY <1>10, <1>11 DEF Alters, Renewed
<1> QED
  BY <1>1, <1>7, <1>12 DEF W

LEMMA ApplyLineage ==
  ASSUME NEW log, NEW db0, Good(db0), NEW r, TreeOK(db0, r), NEW n \in Nodes,
         NEW type \in BaseTypes, NEW d \in Dates, NEW payload,
         PayloadOK(payload), Complete(type, payload),
         db0.root = NoNode /\ r # NoNode => n = r,
         NoneLater(db0.versions, d), Lineage(db0.versions),
         NEW after \in Apply(log, db0, n, type, d, payload), NoneLater(after.versions, d)
  PROVE  /\ Lineage(after.versions)
         /\ ChangesNames(type, payload) => /\ Alters(db0.versions, after.versions, n, d)
                                           /\ Renewed(after.versions, n, d)
         /\ ~ChangesNames(type, payload) => Rewrites(db0.versions, after.versions, n, d)
<1>1. ASSUME NEW b \in ApplyLogic(log, db0, n, type, d, payload)
      PROVE  /\ Good(b) /\ TreeOK(b, NewRoot(type, b, r))
             /\ Lineage(b.versions) /\ Alters(db0.versions, b.versions, n, d)
             /\ ~ChangesNames(type, payload) => Rewrites(db0.versions, b.versions, n, d)
  <2>1. Good(b) /\ TreeOK(b, NewRoot(type, b, r))
    BY ApplyLogicGood, ApplyLogicTree
  <2>2. CASE type = "CREATE"
    <3>1. b \in ApplyCreate(db0, n, d, payload) /\ ChangesNames(type, payload)
      BY <2>2 DEF ApplyLogic, ChangesNames
    <3> QED
      BY <2>1, <3>1, CreateLineage
  <2>3. CASE type # "CREATE"
    BY <2>1, <2>3, LogicLineage
  <2> QED
    BY <2>2, <2>3
<1>2. CASE ChangesNames(type, payload)
  <2>1. PICK b \in ApplyLogic(log, db0, n, type, d, payload) :
          after = RebuildFullNames(b, n, d)
    BY <1>2 DEF Apply
  <2>2. /\ Good(b) /\ TreeOK(b, NewRoot(type, b, r))
        /\ Lineage(b.versions) /\ Alters(db0.versions, b.versions, n, d)
    BY <1>1
  <2>3. NoneLater(RebuildFullNames(b, n, d).versions, d)
    BY <2>1
  <2> QED
    BY <1>2, <2>1, <2>2, <2>3, RebuiltNames
<1>3. CASE ~ChangesNames(type, payload)
  BY <1>1, <1>3 DEF Apply
<1> QED
  BY <1>2, <1>3

(***************************************************************************)
(* What an event in date order does to the rows that names are read from:  *)
(* they keep the days on which they begin, but for the day of the event.   *)
(***************************************************************************)
Advances(V, W, e) ==
  /\ \A w \in W : w.from = e.date \/ \E v \in V : v.from = w.from
  /\ \A v \in V : \E w \in W : w.node = v.node /\ w.from = v.from
  /\ ~LeavesNames(e) => \E w \in W : w.node = e.node /\ w.from = e.date
  /\ \A w \in W : w.node # e.node \/ w.from < e.date \/ LeavesNames(e) =>
       \E v \in V : /\ w.node = v.node /\ v.from <= w.from /\ w.to <= v.to
                    /\ w.name = v.name
  /\ \A m \in Nodes, day \in Dates : ExistsAt(V, m, day) => ExistsAt(W, m, day)

LEMMA LeavesOrChanges ==
  ASSUME NEW e, e.type \in BaseTypes
  PROVE  /\ LeavesNames(e) <=> ~ChangesNames(e.type, e.payload)
         /\ LeavesNames(e) => "name" \notin Effects(e)
         /\ ~LeavesNames(e) => Effects(e) # {}
<1>1. LeavesNames(e) <=> ~ChangesNames(e.type, e.payload)
  BY DEF LeavesNames, ChangesNames, BaseTypes
<1>2. LeavesNames(e) => "name" \notin Effects(e)
  BY EffectsOf DEF LeavesNames
<1>3. ASSUME ~LeavesNames(e) PROVE Effects(e) # {}
  <2>1. \/ e.type \in {"CREATE", "MOVE", "RENAME"}
        \/ e.type = "UPDATE" /\ (CarriesParent(e.payload) \/ CarriesName(e.payload))
    BY <1>3 DEF LeavesNames, BaseTypes
  <2>2. "name" \in Effects(e) \/ "parent" \in Effects(e)
    BY <2>1, EffectsOf DEF Attributes
  <2> QED
    BY <2>2
<1> QED
  BY <1>1, <1>2, <1>3

LEMMA BeginsAdvances ==
  ASSUME NEW V, RowsOK(V), NEW W, NEW e, e.type = "CREATE", e.date \in Dates,
         Begins(V, W, e)
  PROVE  Advances(V, W, e)
<1>1. ~LeavesNames(e)
  BY DEF LeavesNames
<1>2. \A w \in W : IF w.node = e.node THEN w.from = e.date
                   ELSE \E v \in V : SameRow(w, v)
  BY DEF Begins
<1>3. \A v \in V : \E w \in W : SameSpan(w, v)
  BY DEF Begins
<1>4. \A v \in V : v.from \in Int /\ v.to \in Int
  BY DatesAreInts DEF RowsOK, RowOK
<1>5. ASSUME NEW w \in W, w.node # e.node
      PROVE  \E v \in V : /\ w.node = v.node /\ w.from = v.from
                          /\ v.from <= w.from /\ w.to <= v.to /\ w.name = v.name
  <2>1. PICK v \in V : SameRow(w, v)
    BY <1>2, <1>5
  <2>2. SameSpan(w, v) /\ w.name = v.name
    BY <2>1 DEF SameRow, Column, Attributes
  <2> QED
    BY <1>4, <2>2 DEF SameSpan
<1>6. \A m \in Nodes, day \in Dates : ExistsAt(V, m, day) => ExistsAt(W, m, day)
  BY <1>3 DEF ExistsAt, SameSpan, Covers
<1>7. \E w \in W : w.node = e.node /\ w.from = e.date
  BY <1>2 DEF Begins
<1>8. \A v \in V : \E w \in W : w.node = v.node /\ w.from = v.from
  BY <1>3 DEF SameSpan
<1>9. \A w \in W : w.from = e.date \/ \E v \in V : v.from = w.from
  BY <1>2, <1>5
<1>10. ASSUME NEW w \in W, w.node = e.node PROVE ~(w.from < e.date)
  <2>1. w.from = e.date /\ e.date \in Int
    BY <1>2, <1>10, DatesAreInts
  <2> QED
    BY <2>1
<1> QED
  BY <1>1, <1>5, <1>6, <1>7, <1>8, <1>9, <1>10 DEF Advances

LEMMA RowStarts ==
  ASSUME NEW V, RowsOK(V), WellFormed(V), NEW v \in V
  PROVE  /\ v.node \in Nodes /\ v.path \in Seq(Nodes)
         /\ v.from \in Dates /\ v.from \in Int /\ v.to \in Int
         /\ Covers(v, v.from)
<1>1. RowOK(v) /\ v.from < v.to
  BY DEF RowsOK, WellFormed, NonEmptyRows
<1>2. /\ v.node \in Nodes /\ v.path \in Seq(Nodes)
      /\ v.from \in Dates /\ v.from \in Int /\ v.to \in Int
  BY <1>1, DatesAreInts DEF RowOK
<1> QED
  BY <1>1, <1>2 DEF Covers

LEMMA TouchAdvances ==
  ASSUME NEW V, RowsOK(V), WellFormed(V), NEW W, RowsOK(W), WellFormed(W), NEW e,
         e.type \in BaseTypes, e.node \in Nodes, e.date \in Dates,
         Touch(V, W, e, {"name"}, Effects(e)),
         Effects(e) # {} => ExistsAt(V, e.node, e.date)
  PROVE  Advances(V, W, e)
<1>1. ASSUME NEW v \in V
      PROVE  /\ v.node \in Nodes /\ v.from \in Dates /\ v.from \in Int /\ v.to \in Int
             /\ Covers(v, v.from)
  BY RowStarts
<1>2. ASSUME NEW w \in W
      PROVE  w.from \in Int /\ w.to \in Int /\ e.date \in Int
  BY DatesAreInts DEF RowsOK, RowOK
<1>3. ASSUME NEW w \in W
      PROVE  \E v \in V : Within(w, v, e.date) /\ Shows(w, v, e, {"name"}, Effects(e))
  BY DEF Touch
<1>4. \A m \in Nodes, day \in Dates : ExistsAt(V, m, day) => ExistsAt(W, m, day)
  BY DEF Touch
<1>5. \A w \in W : w.from = e.date \/ \E v \in V : v.from = w.from
  BY <1>3 DEF Within
<1>6. ASSUME NEW v \in V
      PROVE  \E w \in W : w.node = v.node /\ w.from = v.from
  <2>1. ExistsAt(W, v.node, v.from)
    BY <1>1, <1>4 DEF ExistsAt
  <2>2. PICK w \in W : w.node = v.node /\ Covers(w, v.from)
    BY <2>1 DEF ExistsAt
  <2>3. PICK u \in V : Within(w, u, e.date)
    BY <1>3
  <2>4. u.node = v.node /\ u.from <= w.from /\ w.from <= v.from /\ v.from < u.to
    BY <1>1, <1>2, <2>2, <2>3 DEF Within, Covers
  <2>5. u = v
    <3>1. u = v \/ u.to <= v.from \/ v.to <= u.from
      BY <2>4 DEF WellFormed, NoOverlap
    <3>2. v.from < v.to /\ u.from <= v.from
      BY <1>1, <1>2, <2>4 DEF Covers
    <3> QED
      BY <1>1, <2>4, <3>1, <3>2
  <2>6. w.from = v.from
    BY <1>1, <1>2, <2>4, <2>5
  <2> QED
    BY <2>2, <2>6
<1>7. ASSUME ~LeavesNames(e)
      PROVE  \E w \in W : w.node = e.node /\ w.from = e.date
  <2>1. Effects(e) # {}
    BY <1>7, LeavesOrChanges
  <2>2. PICK w \in W : w.node = e.node /\ Covers(w, e.date)
    BY <1>4, <2>1 DEF ExistsAt
  <2>3. w.to <= e.date \/ e.date <= w.from
    BY <2>1, <2>2 DEF Touch
  <2>4. w.from = e.date
    BY <1>2, <2>2, <2>3 DEF Covers
  <2> QED
    BY <2>2, <2>4
<1>8. ASSUME NEW w \in W, w.node # e.node \/ w.from < e.date \/ LeavesNames(e)
      PROVE  \E v \in V : /\ w.node = v.node /\ v.from <= w.from /\ w.to <= v.to
                          /\ w.name = v.name
  <2>1. PICK v \in V : Within(w, v, e.date) /\ Shows(w, v, e, {"name"}, Effects(e))
    BY <1>3
  <2>2. w.node # e.node \/ ("name" \in {"name"} /\ (w.from < e.date \/ "name" \notin Effects(e)))
    BY <1>8, LeavesOrChanges
  <2>3. Column("name", w) = Column("name", v)
    BY <2>1, <2>2 DEF Shows, Attributes
  <2> QED
    BY <2>1, <2>3 DEF Within, Column
<1> QED
  BY <1>4, <1>5, <1>6, <1>7, <1>8 DEF Advances

LEMMA ApplyAdvances ==
  ASSUME NEW log, LogOK(log), NEW db0, Good(db0), NEW e,
         EventOK(e), e.type \in BaseTypes, Plain(e.type, e.payload),
         NoneLater(db0.versions, e.date),
         NEW after \in Apply(log, db0, e.node, e.type, e.date, e.payload)
  PROVE  Good(after) /\ Advances(db0.versions, after.versions, e)
<1> DEFINE V == db0.versions
           W == after.versions
<1>1. /\ e.node \in Nodes /\ e.date \in Dates
      /\ PayloadOK(e.payload) /\ Complete(e.type, e.payload)
  BY DEF EventOK
<1>2. Good(after)
  BY <1>1, ApplyGood
<1>3. RowsOK(V) /\ WellFormed(V) /\ RowsOK(W) /\ WellFormed(W)
  BY <1>2, GoodParts
<1>4. CASE e.type = "CREATE"
  <2>1. Begins(V, W, e)
    BY <1>1, <1>4, CreateBegins DEF V, W
  <2> HIDE DEF V, W
  <2>2. Advances(V, W, e)
    BY <1>1, <1>3, <1>4, <2>1, BeginsAdvances
  <2> QED
    BY <1>2, <2>2 DEF V, W
<1>5. CASE e.type # "CREATE"
  <2>1. Clear(V, e.node, e.date)
    BY DEF NoneLater, Clear
  <2>2. Asked(log, db0, e, {"name"})
    BY <1>1, <2>1 DEF Asked
  <2>3. /\ Touch(V, W, e, {"name"}, Effects(e))
        /\ Effects(e) # {} => ExistsAt(V, e.node, e.date)
    BY <1>5, <2>2, ApplyTouches DEF V, W
  <2> HIDE DEF V, W
  <2>4. Advances(V, W, e)
    BY <1>1, <1>3, <2>3, TouchAdvances
  <2> QED
    BY <1>2, <2>4 DEF V, W
<1> QED
  BY <1>4, <1>5

(* The names that a row was given, and those that it would get now.        *)
LEMMA SameNames ==
  ASSUME NEW V, RowsOK(V), WellFormed(V), NEW W, RowsOK(W), WellFormed(W), NEW e,
         Advances(V, W, e), e.date \in Dates, Lineage(V), NEW v \in V,
         ~Has(v.path, e.node) \/ v.from < e.date \/ LeavesNames(e)
  PROVE  NamesOf(V, v.path, v.from) = NamesOf(W, v.path, v.from)
<1> DEFINE day == v.from
           path == v.path
<1>1. /\ day \in Dates /\ day \in Int /\ e.date \in Int /\ Covers(v, day)
      /\ path \in Seq(Nodes)
  BY RowStarts, DatesAreInts
<1>2. DOMAIN path = 1 .. Len(path) /\ \A k \in DOMAIN path : path[k] \in Nodes
  BY <1>1, LenProperties, ElementOfSeq
<1>3. ASSUME NEW k \in DOMAIN path
      PROVE  ExistsAt(V, path[k], day) /\ ExistsAt(W, path[k], day)
  <2>1. ExistsAt(V, path[k], day)
    BY <1>1, <1>2, <1>3 DEF Lineage, Ancestor, ExistsAt
  <2> QED
    BY <1>1, <1>2, <1>3, <2>1 DEF Advances
<1>4. ASSUME NEW k \in DOMAIN path
      PROVE  RowAt(V, path[k], day).name = RowAt(W, path[k], day).name
  <2> DEFINE m == path[k]
  <2>1. PICK w \in W : w.node = m /\ Covers(w, day)
    BY <1>3, <1>4 DEF ExistsAt
  <2>2. w.from \in Int /\ w.to \in Int
    BY DatesAreInts DEF RowsOK, RowOK
  <2>3. w.node # e.node \/ w.from < e.date \/ LeavesNames(e)
    <3>1. w.from <= day
      BY <2>1 DEF Covers
    <3>2. ~Has(v.path, e.node) => m # e.node
      BY <1>2, <1>4 DEF Has
    <3>3. day < e.date => w.from < e.date
      BY <1>1, <2>2, <3>1
    <3> HIDE DEF m
    <3> QED
      BY <2>1, <3>2, <3>3
  <2>4. PICK x \in V : /\ w.node = x.node /\ x.from <= w.from /\ w.to <= x.to
                       /\ w.name = x.name
    BY <2>3 DEF Advances
  <2>5. x.from \in Int /\ x.to \in Int
    BY DatesAreInts DEF RowsOK, RowOK
  <2>6. Covers(x, day)
    BY <1>1, <2>1, <2>2, <2>4, <2>5 DEF Covers
  <2> HIDE DEF m, day
  <2>7. RowAt(W, w.node, day) = w
    BY <1>1, <2>1, RowAtIs
  <2>8. RowAt(V, x.node, day) = x
    BY <1>1, <2>6, RowAtIs
  <2> QED
    BY <2>1, <2>4, <2>7, <2>8 DEF m
<1> HIDE DEF day, path
<1>5. NamesOf(V, path, day) = NamesOf(W, path, day)
  BY <1>3, <1>4, NamesAgree
<1> QED
  BY <1>5 DEF day, path

(***************************************************************************)
(* A log in date order.  Besides the paths, what the log says of the full  *)
(* names: an event that changes names has a row that begins on its day, so *)
(* that a row that begins on another day was not begun by it.              *)
(***************************************************************************)
DatedRows(log, V) ==
  /\ \A v \in V : \E i \in DOMAIN log : v.from <= log[i].date
  /\ \A i \in DOMAIN log : ~LeavesNames(log[i]) =>
       \E v \in V : v.node = log[i].node /\ v.from = log[i].date

StaleOrCurrent(log, V) == \A v \in V : StartsStale(log, v) \/ NamesCurrent(V, v)

LineOK(log, V) ==
  Chronological(log) => Lineage(V) /\ DatedRows(log, V) /\ StaleOrCurrent(log, V)

LEMMA ChronologicalAppend ==
  ASSUME NEW log, LogOK(log), NEW e, Chronological(Append(log, e))
  PROVE  /\ Chronological(log) /\ e.type \in BaseTypes
         /\ \A i \in DOMAIN log : log[i].date <= e.date
<1> DEFINE new == Append(log, e)
<1>1. /\ DOMAIN new = 1 .. (Len(log) + 1) /\ DOMAIN log = 1 .. Len(log) /\ Len(log) \in Nat
      /\ \A i \in DOMAIN log : new[i] = log[i]
      /\ new[Len(log) + 1] = e
  BY AppendShape, LogShape
<1>2. \A j \in DOMAIN new : new[j].type \in BaseTypes /\ \A i \in 1 .. j : new[i].date <= new[j].date
  BY DEF Chronological
<1> HIDE DEF new
<1>3. Chronological(log)
  <2> SUFFICES ASSUME NEW j \in DOMAIN log
               PROVE  /\ log[j].type \in BaseTypes
                      /\ \A i \in 1 .. j : log[i].date <= log[j].date
    BY DEF Chronological
  <2>1. j \in DOMAIN new /\ new[j] = log[j] /\ \A i \in 1 .. j : new[i] = log[i]
    BY <1>1
  <2> QED
    BY <1>2, <2>1
<1>4. e.type \in BaseTypes /\ \A i \in DOMAIN log : log[i].date <= e.date
  <2>1. Len(log) + 1 \in DOMAIN new /\ \A i \in DOMAIN log : i \in 1 .. (Len(log) + 1)
    BY <1>1
  <2> QED
    BY <1>1, <1>2, <2>1
<1> QED
  BY <1>3, <1>4

(* The events of a row's unit on the day on which it begins.               *)
OwnEvents(log, v) == {i \in DOMAIN log : log[i].node = v.node /\ log[i].date = v.from}

LEMMA OwnAppended ==
  ASSUME NEW log, LogOK(log), NEW e, NEW v, NEW w, w.node = v.node, w.from = v.from,
         StartsStale(log, v), w.node # e.node \/ w.from # e.date \/ LeavesNames(e)
  PROVE  StartsStale(Append(log, e), w)
<1> DEFINE new == Append(log, e)
<1>1. /\ DOMAIN new = 1 .. (Len(log) + 1) /\ DOMAIN log = 1 .. Len(log) /\ Len(log) \in Nat
      /\ \A i \in DOMAIN log : new[i] = log[i]
      /\ new[Len(log) + 1] = e
  BY AppendShape, LogShape
<1>2. /\ OwnEvents(log, v) # {}
      /\ \A i \in OwnEvents(log, v) : LeavesNames(log[i])
  BY DEF StartsStale, OwnEvents
<1> HIDE DEF new
<1>3. OwnEvents(new, w) # {}
  BY <1>1, <1>2 DEF OwnEvents
<1>4. ASSUME NEW i \in OwnEvents(new, w)
      PROVE  LeavesNames(new[i])
  <2>1. CASE i \in DOMAIN log
    BY <1>1, <1>2, <1>4, <2>1 DEF OwnEvents
  <2>2. CASE i \notin DOMAIN log
    <3>1. new[i] = e
      BY <1>1, <1>4, <2>2 DEF OwnEvents
    <3> QED
      BY <1>4, <3>1 DEF OwnEvents
  <2> QED
    BY <2>1, <2>2
<1>5. StartsStale(new, w)
  BY <1>3, <1>4 DEF StartsStale, OwnEvents
<1> QED
  BY <1>5 DEF new

LEMMA DatedAppend ==
  ASSUME NEW log, LogOK(log), NEW V, RowsOK(V), NEW W, NEW e, e.date \in Dates,
         Advances(V, W, e), DatedRows(log, V)
  PROVE  DatedRows(Append(log, e), W)
<1> DEFINE new == Append(log, e)
<1>1. /\ DOMAIN new = 1 .. (Len(log) + 1) /\ DOMAIN log = 1 .. Len(log) /\ Len(log) \in Nat
      /\ \A i \in DOMAIN log : new[i] = log[i]
      /\ new[Len(log) + 1] = e
  BY AppendShape, LogShape
<1> HIDE DEF new
<1>2. e.date \in Int
  BY DatesAreInts
<1>3. ASSUME NEW w \in W PROVE \E i \in DOMAIN new : w.from <= new[i].date
  <2>1. CASE w.from = e.date
    <3>1. Len(log) + 1 \in DOMAIN new /\ w.from <= new[Len(log) + 1].date
      BY <1>1, <1>2, <2>1
    <3> QED
      BY <3>1
  <2>2. CASE \E v \in V : v.from = w.from
    <3>1. PICK v \in V : v.from = w.from
      BY <2>2
    <3>2. PICK i \in DOMAIN log : v.from <= log[i].date
      BY DEF DatedRows
    <3>3. i \in DOMAIN new /\ new[i] = log[i]
      BY <1>1
    <3> QED
      BY <3>1, <3>2, <3>3
  <2> QED
    BY <2>1, <2>2 DEF Advances
<1>4. ASSUME NEW i \in DOMAIN new, ~LeavesNames(new[i])
      PROVE  \E w \in W : w.node = new[i].node /\ w.from = new[i].date
  <2>1. CASE i \in DOMAIN log
    <3>1. PICK v \in V : v.node = log[i].node /\ v.from = log[i].date
      BY <1>1, <1>4, <2>1 DEF DatedRows
    <3>2. PICK w \in W : w.node = v.node /\ w.from = v.from
      BY DEF Advances
    <3> QED
      BY <1>1, <2>1, <3>1, <3>2
  <2>2. CASE i \notin DOMAIN log
    <3>1. new[i] = e
      BY <1>1, <2>2
    <3> QED
      BY <1>4, <3>1 DEF Advances
  <2> QED
    BY <2>1, <2>2
<1>5. DatedRows(new, W)
  BY <1>3, <1>4 DEF DatedRows
<1> QED
  BY <1>5 DEF new

(* A row whose full name the event leaves alone.                           *)
LEMMA CurrentKept ==
  ASSUME NEW V, RowsOK(V), WellFormed(V), NEW W, RowsOK(W), WellFormed(W), NEW e,
         Advances(V, W, e), e.date \in Dates, Lineage(V),
         NEW v \in V, NEW w \in W, NamesCurrent(V, v),
         w.from = v.from, w.path = v.path, w.full = v.full,
         ~Has(v.path, e.node) \/ v.from < e.date \/ LeavesNames(e)
  PROVE  NamesCurrent(W, w)
<1>1. NamesOf(V, v.path, v.from) = NamesOf(W, v.path, v.from)
  BY SameNames
<1> QED
  BY <1>1 DEF NamesCurrent

LEMMA ChangedNames ==
  ASSUME NEW log, LogOK(log), NEW V, RowsOK(V), WellFormed(V),
         NEW W, RowsOK(W), WellFormed(W), NEW e, e.date \in Dates,
         Advances(V, W, e), Lineage(V), StaleOrCurrent(log, V),
         Alters(V, W, e.node, e.date), Renewed(W, e.node, e.date),
         \A w \in W : Has(w.path, w.node)
  PROVE  StaleOrCurrent(Append(log, e), W)
<1> SUFFICES ASSUME NEW w \in W
             PROVE  StartsStale(Append(log, e), w) \/ NamesCurrent(W, w)
  BY DEF StaleOrCurrent
<1>1. CASE e.date <= w.from /\ Has(w.path, e.node)
  BY <1>1 DEF Renewed
<1>2. CASE ~(e.date <= w.from /\ Has(w.path, e.node))
  <2>1. PICK v \in V : /\ w.node = v.node /\ w.from = v.from
                       /\ w.path = v.path /\ w.full = v.full
    BY <1>2 DEF Alters
  <2>2. w.from \in Int /\ e.date \in Int
    BY RowStarts, DatesAreInts
  <2>3. ~Has(v.path, e.node) \/ v.from < e.date
    BY <1>2, <2>1, <2>2
  <2>4. CASE NamesCurrent(V, v)
    BY <2>1, <2>3, <2>4, CurrentKept
  <2>5. CASE StartsStale(log, v)
    <3>1. w.node # e.node \/ w.from # e.date
      BY <1>2, <2>2
    <3> QED
      BY <2>1, <2>5, <3>1, OwnAppended
  <2> QED
    BY <2>4, <2>5 DEF StaleOrCurrent
<1> QED
  BY <1>1, <1>2

LEMMA LeftNames ==
  ASSUME NEW log, LogOK(log), NEW V, RowsOK(V), WellFormed(V),
         NEW W, RowsOK(W), WellFormed(W), NEW e, e.date \in Dates, LeavesNames(e),
         Advances(V, W, e), Lineage(V), DatedRows(log, V), StaleOrCurrent(log, V),
         Rewrites(V, W, e.node, e.date)
  PROVE  StaleOrCurrent(Append(log, e), W)
<1> DEFINE new == Append(log, e)
<1> SUFFICES ASSUME NEW w \in W
             PROVE  StartsStale(new, w) \/ NamesCurrent(W, w)
  BY DEF StaleOrCurrent
<1>1. PICK v \in V :
         /\ Within(w, v, e.date) /\ w.path = v.path /\ w.full = v.full
         /\ w.node # e.node => w = v
  BY DEF Rewrites
<1>2. /\ w.node = v.node /\ v.from <= w.from /\ w.to <= v.to
      /\ w.from = v.from \/ w.from = e.date
  BY <1>1 DEF Within
<1>3. CASE w.from = v.from
  <2>1. CASE NamesCurrent(V, v)
    BY <1>1, <1>3, <2>1, CurrentKept
  <2>2. CASE StartsStale(log, v)
    BY <1>2, <1>3, <2>2, OwnAppended
  <2> QED
    BY <2>1, <2>2 DEF StaleOrCurrent
<1>4. CASE w.from # v.from
  <2>1. w.node = e.node /\ w.from = e.date
    BY <1>1, <1>2, <1>4
  <2>2. /\ DOMAIN new = 1 .. (Len(log) + 1) /\ DOMAIN log = 1 .. Len(log)
        /\ Len(log) \in Nat
        /\ \A i \in DOMAIN log : new[i] = log[i]
        /\ new[Len(log) + 1] = e
    BY AppendShape, LogShape
  <2>3. ASSUME NEW i \in DOMAIN log, log[i].node = w.node, log[i].date = w.from
        PROVE  LeavesNames(log[i])
    <3> SUFFICES ASSUME ~LeavesNames(log[i]) PROVE FALSE
      OBVIOUS
    <3>1. PICK u \in V : u.node = log[i].node /\ u.from = log[i].date
      BY DEF DatedRows
    <3>2. u = v \/ u.to <= v.from \/ v.to <= u.from
      BY <1>2, <2>3, <3>1 DEF WellFormed, NoOverlap
    <3>3. /\ u.from \in Int /\ u.to \in Int /\ v.from \in Int /\ v.to \in Int
          /\ w.from \in Int /\ w.to \in Int /\ Covers(u, u.from) /\ Covers(w, w.from)
      BY RowStarts
    <3> QED
      BY <1>2, <1>4, <2>3, <3>1, <3>2, <3>3 DEF Covers
  <2> HIDE DEF new
  <2>4. Len(log) + 1 \in OwnEvents(new, w)
    BY <2>1, <2>2 DEF OwnEvents
  <2>5. ASSUME NEW i \in OwnEvents(new, w) PROVE LeavesNames(new[i])
    <3>1. i \in DOMAIN new /\ new[i].node = w.node /\ new[i].date = w.from
      BY <2>5 DEF OwnEvents
    <3>2. i \in DOMAIN log \/ new[i] = e
      BY <2>2, <3>1
    <3> QED
      BY <2>2, <2>3, <3>1, <3>2
  <2> QED
    BY <2>4, <2>5 DEF StartsStale, OwnEvents
<1> QED
  BY <1>3, <1>4

LEMMA LineAppend ==
  ASSUME NEW log, LogOK(log), NEW db0, Good(db0), TreeOK(db0, db0.root), NEW e,
         EventOK(e), Plain(e.type, e.payload), LineOK(log, db0.versions),
         e.type \in BaseTypes,
         NEW after \in Apply(log, db0, e.node, e.type, e.date, e.payload),
         NEW r, TreeOK(after, r)
  PROVE  LineOK(Append(log, e), after.versions)
<1> DEFINE V == db0.versions
           W == after.versions
<1> SUFFICES ASSUME Chronological(Append(log, e))
             PROVE  /\ Lineage(W) /\ DatedRows(Append(log, e), W)
                    /\ StaleOrCurrent(Append(log, e), W)
  BY DEF LineOK
<1>1. Chronological(log) /\ \A i \in DOMAIN log : log[i].date <= e.date
  BY ChronologicalAppend
<1>2. Lineage(V) /\ DatedRows(log, V) /\ StaleOrCurrent(log, V)
  BY <1>1 DEF LineOK
<1>3. /\ e.node \in Nodes /\ e.date \in Dates
      /\ PayloadOK(e.payload) /\ Complete(e.type, e.payload)
  BY DEF EventOK
<1>4. NoneLater(V, e.date)
  <2> SUFFICES ASSUME NEW v \in V PROVE v.from <= e.date
    BY DEF NoneLater
  <2>1. PICK i \in DOMAIN log : v.from <= log[i].date
    BY <1>2 DEF DatedRows
  <2>2. log[i].date <= e.date /\ log[i].date \in Int /\ e.date \in Int /\ v.from \in Int
    BY <1>1, <1>3, GoodParts, DatesAreInts DEF LogOK, EventOK, RowsOK, RowOK
  <2> QED
    BY <2>1, <2>2
<1>5. Good(after) /\ Advances(V, W, e)
  BY <1>4, ApplyAdvances DEF V
<1>6. RowsOK(V) /\ WellFormed(V) /\ RowsOK(W) /\ WellFormed(W)
  BY <1>5, GoodParts
<1>7. NoneLater(W, e.date)
  <2> SUFFICES ASSUME NEW w \in W PROVE w.from <= e.date
    BY DEF NoneLater
  <2>1. w.from = e.date \/ \E v \in V : v.from = w.from
    BY <1>5 DEF Advances
  <2>2. e.date \in Int
    BY <1>3, DatesAreInts
  <2> QED
    BY <1>4, <2>1, <2>2 DEF NoneLater
<1>8. /\ Lineage(W)
      /\ ChangesNames(e.type, e.payload) =>
           Alters(V, W, e.node, e.date) /\ Renewed(W, e.node, e.date)
      /\ ~ChangesNames(e.type, e.payload) => Rewrites(V, W, e.node, e.date)
  <2>1. db0.root = NoNode /\ db0.root # NoNode => e.node = db0.root
    OBVIOUS
  <2> QED
    BY <1>2, <1>3, <1>4, <1>7, <2>1, ApplyLineage DEF V, W
<1>9. \A w \in W : Has(w.path, w.node)
  BY <1>5, OwnLabel
<1>10. LeavesNames(e) <=> ~ChangesNames(e.type, e.payload)
  BY LeavesOrChanges
<1> HIDE DEF V, W
<1>11. DatedRows(Append(log, e), W)
  BY <1>2, <1>3, <1>5, <1>6, DatedAppend
<1>12. StaleOrCurrent(Append(log, e), W)
  <2>1. CASE LeavesNames(e)
    BY <1>2, <1>3, <1>5, <1>6, <1>8, <1>10, <2>1, LeftNames
  <2>2. CASE ~LeavesNames(e)
    BY <1>2, <1>3, <1>5, <1>6, <1>8, <1>9, <1>10, <2>2, ChangedNames
  <2> QED
    BY <2>1, <2>2
<1> QED
  BY <1>8, <1>11, <1>12

(***************************************************************************)
(* The inductive invariant: what readers see, while the log is in order of *)
(* the dates and nothing was ever corrected.                               *)
(***************************************************************************)
LineInv ==
  /\ FineInv
  /\ TreeInv
  /\ LineOK(CommittedLog, Committed.versions)

LEMMA SubmitBaseLine ==
  ASSUME LineInv, SubmitBase
  PROVE  LineOK(CommittedLog', Committed'.versions)
<1>1. PICK n, type, d, payload, e : Submits(n, type, d, payload, e)
  BY SubmitBaseWrites DEF LineInv, FineInv, LedgerInv
<1>2. ~txn.open /\ txn' = txn
  BY SubmitBaseWrites DEF LineInv, FineInv, LedgerInv
<1>3. /\ LogOK(events) /\ Good(db) /\ TreeOK(db, db.root)
      /\ LineOK(events, db.versions)
  BY <1>2 DEF LineInv, TreeInv, LedgerInv, KernelInv, CommittedLog, Committed
<1>4. /\ EventOK(e) /\ Plain(e.type, e.payload) /\ e.type \in BaseTypes
      /\ db' \in Apply(events, db, e.node, e.type, e.date, e.payload)
      /\ events' = Append(events, e)
  BY <1>1 DEF Submits
<1>5. TreeOK(db', db'.root)
  BY SubmitBaseTree DEF LineInv
<1>6. LineOK(Append(events, e), db'.versions)
  BY <1>3, <1>4, <1>5, LineAppend
<1> QED
  BY <1>2, <1>4, <1>6 DEF CommittedLog, Committed

(* A rebuild leaves a correction in the log.                               *)
LEMMA CommitLine ==
  ASSUME LineInv, Commit
  PROVE  LineOK(CommittedLog', Committed'.versions)
<1>1. /\ txn.open /\ events' = Append(events, txn.pending) /\ ~txn'.open
  BY DEF Commit, RebuildDone, NoTxn
<1>2. LogOK(events) /\ txn.pending.type \in CorrectionTypes
  BY <1>1 DEF LineInv, FineInv, LedgerInv, KernelInv, PendingFine, FixShape
<1>3. txn.pending.type \notin BaseTypes
  BY <1>2 DEF BaseTypes, CorrectionTypes, RescindTypes
<1>4. ~Chronological(events')
  BY <1>1, <1>2, <1>3, ChronologicalAppend
<1> QED
  BY <1>1, <1>4 DEF LineOK, CommittedLog

LEMMA LineStep ==
  ASSUME LineInv, [Next]_vars
  PROVE  LineInv'
<1>1. FineInv' /\ TreeInv'
  BY FineStep, TreeStep DEF LineInv
<1>2. LedgerInv /\ KernelInv /\ KernelInv'
  BY <1>1 DEF LineInv, FineInv, LedgerInv
<1>3. CASE SubmitBase
  BY <1>1, <1>3, SubmitBaseLine DEF LineInv
<1>4. CASE Commit
  BY <1>1, <1>4, CommitLine DEF LineInv
<1>5. ASSUME ~SubmitBase, ~Commit PROVE Unseen
  <2>1. CASE Wait \/ UNCHANGED vars
    <3>1. events' = events /\ db' = db /\ txn' = txn
      BY <2>1 DEF Wait, vars
    <3> QED
      BY <3>1 DEF Unseen, CommittedLog, Committed
  <2>2. CASE Rescind \/ Correct \/ StatusCorrection \/ RescindUnit
    BY <1>2, <2>2, CorrectionsBegin, BeginRebuildOK
  <2>3. CASE ReplayStep
    BY <1>2, <2>3, ReplayStepOK
  <2>4. CASE NextTarget
    BY <1>2, <2>4, NextTargetOK
  <2>5. CASE Abort
    BY <1>2, <2>5, AbortOK
  <2> QED
    BY <1>5, <2>1, <2>2, <2>3, <2>4, <2>5 DEF Next
<1> QED
  BY <1>1, <1>3, <1>4, <1>5 DEF LineInv, Unseen

LEMMA LineInit == Init => LineInv
<1> SUFFICES ASSUME Init PROVE LineInv
  OBVIOUS
<1>1. ~txn.open /\ events = <<>> /\ db.versions = {} /\ DOMAIN <<>> = {}
  BY DEF Init, NoTxn, EmptyProjection
<1>2. LineOK(<<>>, {})
  BY <1>1 DEF LineOK, Lineage, DatedRows, StaleOrCurrent
<1> QED
  BY <1>1, <1>2, FineInit, TreeInit DEF LineInv, CommittedLog, Committed

(* The path of the parent, and the node: the path of a row.                *)
LEMMA LineagePaths ==
  ASSUME NEW V, RowsOK(V), WellFormed(V), Lineage(V), NEW v \in V, PathOK(v)
  PROVE  PathCurrent(V, v)
<1> SUFFICES ASSUME v.parent # NoNode, NEW d \in Dates, Covers(v, d)
             PROVE  /\ ExistsAt(V, v.parent, d)
                    /\ v.path = Append(RowAt(V, v.parent, d).path, v.node)
  BY DEF PathCurrent
<1> DEFINE k == Len(v.path) - 1
<1>1. v.path \in Seq(Nodes) /\ Len(v.path) \in Nat
  BY LenProperties DEF RowsOK, RowOK
<1>2. k \in 1 .. Len(v.path) /\ v.path[k] = v.parent /\ v.path[Len(v.path)] = v.node
  BY <1>1 DEF PathOK, Last
<1>3. PICK w \in V : w.node = v.path[k] /\ Covers(w, d) /\ Heads(w.path, v.path, k)
  BY <1>2 DEF Lineage, Ancestor
<1> HIDE DEF k
<1>4. RowAt(V, v.parent, d) = w /\ ExistsAt(V, v.parent, d)
  BY <1>2, <1>3, RowAtIs DEF ExistsAt
<1>5. w.path \in Seq(Nodes) /\ v.node \in Nodes
  BY DEF RowsOK, RowOK
<1>6. /\ Append(w.path, v.node) \in Seq(Nodes)
      /\ Len(Append(w.path, v.node)) = Len(w.path) + 1
      /\ \A i \in 1 .. Len(w.path) : Append(w.path, v.node)[i] = w.path[i]
      /\ Append(w.path, v.node)[Len(w.path) + 1] = v.node
  BY <1>5, AppendProperties
<1>7. Len(w.path) = k /\ \A i \in 1 .. k : w.path[i] = v.path[i]
  BY <1>3 DEF Heads
<1>8. Len(v.path) = k + 1 /\ k \in Nat
  BY <1>1, <1>2 DEF k
<1>9. \A i \in 1 .. Len(v.path) : v.path[i] = Append(w.path, v.node)[i]
  BY <1>2, <1>6, <1>7, <1>8
<1>10. v.path = Append(w.path, v.node)
  BY <1>1, <1>6, <1>7, <1>8, <1>9, SeqEqual
<1> QED
  BY <1>4, <1>10

(* While nothing is backdated or corrected, a stored path is on every day  *)
(* of its row the path of the parent's row of that day and the node: MOVE  *)
(* finds every row below the unit it moves by the path that the unit has   *)
(* on the day of the move, and leaves none behind.                         *)
THEOREM PathsAlwaysCurrent == Spec => []PathsCurrent
<1>1. LineInv /\ [Next]_vars => LineInv'
  BY LineStep
<1>2. LineInv => PathsCurrent
  <2> SUFFICES ASSUME LineInv, Chronological(CommittedLog), NEW v \in Committed.versions
               PROVE  PathCurrent(Committed.versions, v)
    BY DEF PathsCurrent
  <2>1. Lineage(Committed.versions)
    BY DEF LineInv, LineOK
  <2>2. Good(Committed) /\ TreeOK(Committed, Committed.root)
    BY DEF LineInv, TreeInv, LedgerInv, KernelInv, TxnOK, Committed
  <2>3. RowsOK(Committed.versions) /\ WellFormed(Committed.versions) /\ PathOK(v)
    BY <2>2, GoodParts DEF TreeOK, Tree
  <2> QED
    BY <2>1, <2>3, LineagePaths
<1> QED
  BY <1>1, <1>2, LineInit, PTL DEF Spec

(* Under the same condition a stored full name holds the names that the    *)
(* units of the path had on the day the row began, unless that day saw     *)
(* nothing of the unit but a change of status or of the business unit flag:*)
(* those cut a row and copy a full name that may be older than the names.  *)
THEOREM FullNamesAlwaysCurrent == Spec => []FullNamesCurrent
<1>1. LineInv /\ [Next]_vars => LineInv'
  BY LineStep
<1>2. LineInv => FullNamesCurrent
  BY DEF LineInv, LineOK, StaleOrCurrent, FullNamesCurrent
<1> QED
  BY <1>1, <1>2, LineInit, PTL DEF Spec
=============================================================================
