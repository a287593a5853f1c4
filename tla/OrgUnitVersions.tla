-------------------------- MODULE OrgUnitVersions --------------------------
(***************************************************************************)
(* The projection tables of the OrgUnit kernel and the functions that      *)
(* write them.                                                             *)
(*                                                                         *)
(* A tenant's projection is a record                                       *)
(*   versions : the rows of org_unit_versions                              *)
(*   root     : the root of the tenant's org_trees row, NoNode when absent *)
(*   codes    : the rows of org_unit_codes, as pairs <<node, code>>        *)
(*                                                                         *)
(* Each apply_*_logic function of the engine is an operator that returns   *)
(* the SET of projections the call may leave behind: a singleton when it   *)
(* returns, the empty set when it RAISEs.                                  *)
(*                                                                         *)
(* Abstracted: the tenant (one tenant, every statement filters on it), the *)
(* manager and the ext_* columns, last_event_id, and the text of names.    *)
(***************************************************************************)
EXTENDS Integers, FiniteSets, Sequences, SequencesExt

CONSTANTS MaxNodes,   \* how many organisation units may ever be created
          MaxDate     \* the last calendar day that is told apart

ASSUME NodesAssumption == MaxNodes \in Nat \ {0}
ASSUME DatesAssumption == MaxDate \in Nat \ {0}

Nodes == 1 .. MaxNodes
NoNode == 0
Dates == 1 .. MaxDate
Infinity == MaxDate + 1
Statuses == {"active", "disabled"}

EmptyProjection == [versions |-> {}, root |-> NoNode, codes |-> {}]

(* A row is valid from its date `from` up to, and not including, `to`. *)
Covers(v, d) == v.from <= d /\ d < v.to
ExistsAt(V, n, d) == \E v \in V : v.node = n /\ Covers(v, d)
RowAt(V, n, d) == CHOOSE v \in V : v.node = n /\ Covers(v, d)

(* ltree's  p <@ q : p is q or lies below q. *)
Under(p, q) == IsPrefix(q, p)
NodesUnder(V, p) == {v.node : v \in {w \in V : Under(w.path, p)}}

(* Mutant of SplitAt: the old row keeps its end.                           *)
SplitOverlapping(V, S, d) ==
  V \cup {[v EXCEPT !.from = d] : v \in {w \in S : Covers(w, d) /\ w.from < d}}
(* split_org_unit_version_at, for every row of S: a row that covers d and  *)
(* starts before it is cut in two at d.                                    *)
SplitAt(V, S, d) ==
  LET cut == {v \in S : Covers(v, d) /\ v.from < d}
  IN  (V \ cut) \cup {[v EXCEPT !.to = d] : v \in cut}
                \cup {[v EXCEPT !.from = d] : v \in cut}

RowsOf(V, n) == {v \in V : v.node = n}
RowsUnder(V, p) == {v \in V : Under(v.path, p)}
SplitNode(V, n, d) == SplitAt(V, RowsOf(V, n), d)

(* The rows of a node that start in [d, stop). *)
StartsIn(v, n, d, stop) == v.node = n /\ d <= v.from /\ v.from < stop

(* A payload is a record over the JSON keys it carries. *)
Carries(payload, key) == key \in DOMAIN payload
Field(payload, key, default) ==
  IF Carries(payload, key) THEN payload[key] ELSE default

(***************************************************************************)
(* CREATE.  A root needs an empty tree and becomes a business unit; any    *)
(* other node needs an ACTIVE parent on its date.  The code table keeps    *)
(* one code per node and one node per code.                                *)
(***************************************************************************)
NewRow(n, parent, path, d, payload, bu) ==
  [node |-> n, parent |-> parent, path |-> path, from |-> d, to |-> Infinity,
   name |-> payload.name, full |-> <<payload.name>>,
   status |-> Field(payload, "status", "active"), bu |-> bu]

CreateCodes(codes, n, payload) ==
  IF Carries(payload, "org_code")
  THEN codes \cup {<<n, payload.org_code>>} ELSE codes

CodeFree(codes, n, payload) ==
  Carries(payload, "org_code") =>
    \A r \in codes : r[1] # n /\ r[2] # payload.org_code

(* Mutant of CreateRoot: the default of every other node.                  *)
CreatePlainRoot(db, n, d, payload) ==
  IF db.root # NoNode THEN {}
  ELSE {[versions |-> db.versions
                        \cup {NewRow(n, NoNode, <<n>>, d, payload,
                                     Field(payload, "is_business_unit", FALSE))},
         root |-> n,
         codes |-> CreateCodes(db.codes, n, payload)]}

CreateRoot(db, n, d, payload) ==
  IF db.root # NoNode \/ ~Field(payload, "is_business_unit", TRUE) THEN {}
  ELSE {[versions |-> db.versions
                        \cup {NewRow(n, NoNode, <<n>>, d, payload, TRUE)},
         root |-> n,
         codes |-> CreateCodes(db.codes, n, payload)]}

ActiveParents(V, p, d) ==
  {v \in V : v.node = p /\ v.status = "active" /\ Covers(v, d)}

CreateChild(db, n, p, d, payload) ==
  IF db.root = NoNode THEN {}
  ELSE {[db EXCEPT
          !.versions = @ \cup {NewRow(n, p, Append(parent.path, n), d, payload,
                               Field(payload, "is_business_unit", FALSE))},
          !.codes = CreateCodes(@, n, payload)]
        : parent \in ActiveParents(db.versions, p, d)}

ApplyCreate(db, n, d, payload) ==
  LET p == Field(payload, "parent_org_node_key", NoNode)
  IN  IF RowsOf(db.versions, n) # {} \/ ~CodeFree(db.codes, n, payload) THEN {}
      ELSE IF p = NoNode THEN CreateRoot(db, n, d, payload)
                         ELSE CreateChild(db, n, p, d, payload)

(***************************************************************************)
(* MOVE.  Every row below the mover's path on day d is split at d, and     *)
(* every row below that path that starts on or after d is rebased, whatever*)
(* later moves said.  The new parent may be disabled.                      *)
(***************************************************************************)
(* Mutant of Rebase: the path moves, the parent column does not.           *)
RebasePathOnly(v, n, p, oldPath, prefix) ==
  [v EXCEPT !.path = prefix \o SubSeq(@, Len(oldPath) + 1, Len(@))]

Rebase(v, n, p, oldPath, prefix) ==
  IF v.node = n
  THEN [v EXCEPT !.parent = p, !.path = prefix]
  ELSE [v EXCEPT !.path = prefix \o SubSeq(@, Len(oldPath) + 1, Len(@))]

(* Mutant of MoveRows: the node moves without its subtree.                 *)
MoveNodeOnly(V, n, p, d) ==
  LET oldPath == RowAt(V, n, d).path
      prefix == Append(RowAt(V, p, d).path, n)
  IN  {IF v.node = n /\ d <= v.from
       THEN Rebase(v, n, p, oldPath, prefix) ELSE v : v \in SplitNode(V, n, d)}

MoveRows(V, n, p, d) ==
  LET oldPath == RowAt(V, n, d).path
      prefix == Append(RowAt(V, p, d).path, n)
  IN  {IF Under(v.path, oldPath) /\ d <= v.from
       THEN Rebase(v, n, p, oldPath, prefix) ELSE v
       : v \in SplitAt(V, RowsUnder(V, oldPath), d)}

MoveAllowed(db, n, p, d) ==
  /\ db.root # NoNode
  /\ n # db.root
  /\ ExistsAt(db.versions, n, d)
  /\ ExistsAt(db.versions, p, d)
  /\ ~Under(RowAt(db.versions, p, d).path, RowAt(db.versions, n, d).path)

ApplyMove(db, n, p, d) ==
  IF MoveAllowed(db, n, p, d)
  THEN {[db EXCEPT !.versions = MoveRows(@, n, p, d)]} ELSE {}

(***************************************************************************)
(* RENAME and SET_BUSINESS_UNIT write the rows from d up to `stop`, the    *)
(* next event of the same type; ENABLE and DISABLE write every later row.  *)
(***************************************************************************)
ApplyRename(db, n, d, name, stop) ==
  IF ExistsAt(db.versions, n, d)
  THEN {[db EXCEPT !.versions =
          {IF StartsIn(v, n, d, stop) THEN [v EXCEPT !.name = name] ELSE v
           : v \in SplitNode(@, n, d)}]}
  ELSE {}

ApplySetBusinessUnit(db, n, d, bu, stop) ==
  IF ExistsAt(db.versions, n, d) /\ (n = db.root => bu)
  THEN {[db EXCEPT !.versions =
          {IF StartsIn(v, n, d, stop) THEN [v EXCEPT !.bu = bu] ELSE v
           : v \in SplitNode(@, n, d)}]}
  ELSE {}

ApplyStatus(db, n, d, status) ==
  IF ExistsAt(db.versions, n, d)
  THEN {[db EXCEPT !.versions =
          {IF StartsIn(v, n, d, Infinity) THEN [v EXCEPT !.status = status]
                                          ELSE v
           : v \in SplitNode(@, n, d)}]}
  ELSE {}

(***************************************************************************)
(* rebuild_full_name_path_subtree: the rows below a path that start on or  *)
(* after d get the names their ancestors have on the day the row starts, by*)
(* depth; an ancestor without a row on that day drops out of the join.     *)
(***************************************************************************)
Present(V, path, d) == {i \in DOMAIN path : ExistsAt(V, path[i], d)}

(* Mutant of NamesOf: the labels of the path instead of the names.         *)
NodeLabels(V, path, d) == [i \in Present(V, path, d) |-> path[i]]

NamesOf(V, path, d) ==
  [i \in Present(V, path, d) |-> RowAt(V, path[i], d).name]

RebuildFullNames(db, n, d) ==
  IF ~ExistsAt(db.versions, n, d) THEN db
  ELSE LET path == RowAt(db.versions, n, d).path
       IN  [db EXCEPT !.versions =
             {IF Under(v.path, path) /\ d <= v.from
              THEN [v EXCEPT !.full = NamesOf(db.versions, v.path, v.from)]
              ELSE v : v \in db.versions}]

(***************************************************************************)
(* assert_org_unit_validity, for the nodes in S.                           *)
(***************************************************************************)
Later(v, w) == v.node = w.node /\ v.from < w.from

ValidityHolds(V, S) ==
  \A v \in {w \in V : w.node \in S} :
    LET later == {w \in V : Later(v, w)}
    IN  IF later = {} THEN v.to = Infinity
        ELSE \E w \in later : w.from = v.to /\ \A u \in later : w.from <= u.from
=============================================================================
