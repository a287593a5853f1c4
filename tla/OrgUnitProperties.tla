------------------------- MODULE OrgUnitProperties -------------------------
(***************************************************************************)
(* What the OrgUnit kernel guarantees, stated over OrgUnitKernel.          *)
(***************************************************************************)
EXTENDS OrgUnitKernel

(***************************************************************************)
(* Readers never see a rebuild in progress: what is committed is the state *)
(* that the open transaction would go back to.                             *)
(***************************************************************************)
CommittedLog == IF txn.open THEN txn.savedEvents ELSE events
Committed == IF txn.open THEN txn.saved ELSE db

(***************************************************************************)
(* Type correctness.                                                       *)
(***************************************************************************)
Columns == {"node", "parent", "path", "from", "to", "name", "full", "status", "bu"}

RowOK(v) ==
  /\ DOMAIN v = Columns
  /\ v.node \in Nodes
  /\ v.parent \in Nodes \cup {NoNode}
  /\ v.path \in Seq(Nodes)
  /\ v.from \in Dates
  /\ v.to \in Dates \cup {Infinity}
  /\ v.name \in Names
  /\ v.full \in [DOMAIN v.full -> Names]
  /\ v.status \in Statuses
  /\ v.bu \in BOOLEAN

ProjectionOK(p) ==
  /\ DOMAIN p = {"versions", "root", "codes"}
  /\ \A v \in p.versions : RowOK(v)
  /\ p.root \in Nodes \cup {NoNode}
  /\ p.codes \subseteq Nodes \X Codes

(* TypeOK: the projection, live and saved, holds rows of the declared      *)
(* columns, and the log stays within its bound.                            *)
TypeOK ==
  /\ ProjectionOK(db)
  /\ ProjectionOK(txn.saved)
  /\ \A i \in DOMAIN events : /\ events[i].node \in Nodes
                              /\ events[i].type \in BaseTypes \cup CorrectionTypes
                              /\ events[i].date \in Dates
                              /\ events[i].target \in 0 .. (i - 1)
  /\ Len(events) <= MaxEvents
  /\ Cardinality(waiting) <= MaxWaiting

(***************************************************************************)
(* The versions of a node.                                                 *)
(***************************************************************************)
NonEmptyRows(V) == \A v \in V : v.from < v.to
NoOverlap(V) == \A v, w \in V : v.node = w.node => v = w \/ v.to <= w.from
                                                       \/ w.to <= v.from
NoGap(V) == \A v \in V : v.to # Infinity =>
                           \E w \in V : w.node = v.node /\ w.from = v.to

WellFormed(V) == NonEmptyRows(V) /\ NoOverlap(V) /\ NoGap(V)

(* The rows of a node never overlap, never leave a gap and reach infinity, *)
(* at every step of every write function, also in the middle of a rebuild: *)
(* the exclusion constraint and assert_org_unit_validity never fire.       *)
VersionsWellFormed == WellFormed(db.versions) /\ WellFormed(txn.saved.versions)

(***************************************************************************)
(* The tree.                                                               *)
(***************************************************************************)
PathOK(v) ==
  /\ v.path # <<>>
  /\ Last(v.path) = v.node
  /\ IF v.parent = NoNode THEN Len(v.path) = 1
     ELSE Len(v.path) > 1 /\ v.path[Len(v.path) - 1] = v.parent

(* node_path always ends with the row's parent and the row's own node: the *)
(* two ways of reading a parent agree, whatever order MOVEs and rebuilds   *)
(* rebased the rows in.                                                    *)
PathEndsWithParent == \A v \in db.versions : PathOK(v)

(* The root of the tree is a business unit on every day of its life, and   *)
(* the only unit without a parent.                                         *)
RootIsBusinessUnit ==
  \A v \in db.versions : /\ v.node = db.root => v.bu /\ v.parent = NoNode
                         /\ v.parent = NoNode => v.node = Committed.root

(* Once there is a root it stays the root: rebuilding it deletes and       *)
(* reinserts the org_trees row, and nobody can take its place meanwhile.   *)
RootKept == [][Committed.root # NoNode => Committed'.root = Committed.root]_vars

(***************************************************************************)
(* The history of an attribute: on any day, the value given by the last    *)
(* effective event up to that day that sets the attribute.                 *)
(***************************************************************************)
Attributes == {"name", "bu", "status", "parent"}

SetByUpdate(a, payload) ==
  CASE a = "name"   -> CarriesName(payload)
    [] a = "bu"     -> Carries(payload, "is_business_unit")
    [] a = "status" -> Carries(payload, "status")
    [] a = "parent" -> CarriesParent(payload)

SetterTypes(a) ==
  CASE a = "name"   -> {"CREATE", "RENAME"}
    [] a = "bu"     -> {"CREATE", "SET_BUSINESS_UNIT"}
    [] a = "status" -> {"CREATE", "ENABLE", "DISABLE"}
    [] a = "parent" -> {"CREATE", "MOVE"}

Setters(a, replayed) ==
  {e \in replayed :
     e.type \in SetterTypes(a) \/ (e.type = "UPDATE" /\ SetByUpdate(a, e.payload))}

ValueSet(a, e) ==
  CASE a = "name" -> NewName(e.payload)
    [] a = "bu" -> Field(e.payload, "is_business_unit",
                         ~Carries(e.payload, "parent_org_node_key"))
    [] a = "status" -> IF e.type = "DISABLE" THEN "disabled"
                       ELSE Field(e.payload, "status", "active")
    [] a = "parent" -> IF e.type = "CREATE"
                       THEN Field(e.payload, "parent_org_node_key", NoNode)
                       ELSE NewParent(e.payload)

Column(a, v) == CASE a = "name" -> v.name [] a = "bu" -> v.bu
                  [] a = "status" -> v.status [] a = "parent" -> v.parent

LastOf(S) == CHOOSE a \in S : \A b \in S : Before(b, a)

History(a, setters, d) == ValueSet(a, LastOf({e \in setters : e.date <= d}))

Births(log, n) ==
  {EffectiveDate(log, i) : i \in {j \in EffectiveIds(log, n) : log[j].type = "CREATE"}}

(* The node exists from its CREATE on, and shows its history in A.         *)
ShowsHistory(A, log, V, n) ==
  LET replayed == ReplayEvents(log, n)
      births == Births(log, n)
  IN  /\ \A d \in Dates : ExistsAt(V, n, d) <=> \E born \in births : born <= d
      /\ \A a \in A :
           LET setters == Setters(a, replayed)
           IN  \A d \in {e \in Dates : ExistsAt(V, n, e)} :
                 Column(a, RowAt(V, n, d)) = History(a, setters, d)

(* The node's events since its last rebuild were submitted in the order of *)
(* their dates.                                                            *)
LastFix(log, n) ==
  Max({0} \cup {i \in DOMAIN log : log[i].node = n /\ log[i].type \in CorrectionTypes})
InOrder(log, n) ==
  \A j \in (LastFix(log, n) + 1) .. Len(log) :
    log[j].node = n =>
      \A i \in EffectiveIds(log, n) : i < j => EffectiveDate(log, i) <= log[j].date

(* None of the node's moves since its last rebuild came before the day of  *)
(* an earlier event of another unit: the move of a unit above cuts the     *)
(* node's rows, and what lies behind the cut is out of a later MOVE's reach.*)
Moves(e) == e.type = "MOVE" \/ (e.type = "UPDATE" /\ CarriesParent(e.payload))
DaysOf(e) ==
  {e.date} \cup IF Carries(e.payload, "effective_date")
                THEN {e.payload["effective_date"]} ELSE {}
MovesInOrder(log, n) ==
  \A j \in (LastFix(log, n) + 1) .. Len(log) :
    log[j].node = n /\ Moves(log[j]) =>
      \A i \in 1 .. (j - 1) : log[i].node # n /\ log[i].type # "CREATE" =>
        \A d \in DaysOf(log[i]) : d <= log[j].date

(* A rebuild, and every event that is not backdated, leaves the node with  *)
(* exactly the history that its effective events tell; and with the parent *)
(* that they tell, as long as no unit above it has moved on a later day.   *)
HistoryShown ==
  \A n \in Nodes : InOrder(CommittedLog, n) =>
    ShowsHistory(IF MovesInOrder(CommittedLog, n) THEN Attributes
                 ELSE Attributes \ {"parent"},
                 CommittedLog, Committed.versions, n)

(* Only RENAMEs, corrected or not, set the node's name after its CREATE,   *)
(* and only SET_BUSINESS_UNITs its flag: those that a write looks ahead to.*)
SetByOwnTypes(log, n) ==
  \A i \in EffectiveIds(log, n) :
    ReplayType(log, i) = "UPDATE" =>
      /\ CarriesName(EffectivePayload(log, i)) => EffectiveType(log, i) = "RENAME"
      /\ Carries(EffectivePayload(log, i), "is_business_unit") =>
           EffectiveType(log, i) = "SET_BUSINESS_UNIT"

(* RENAME and SET_BUSINESS_UNIT may be backdated: a later event of the     *)
(* same type still takes over on its own day.                              *)
BackdatingSafe ==
  \A n \in Nodes : SetByOwnTypes(CommittedLog, n) =>
    ShowsHistory({"name", "bu"}, CommittedLog, Committed.versions, n)

(* A rescinded event never takes effect again.                             *)
RescindIsFinal ==
  \A i \in DOMAIN CommittedLog :
    HasRescind(CommittedLog, i) => IsRescinded(CommittedLog, i)

(* The node may leave its place although it has children: it moves, its     *)
(* correction names another parent, or its CREATE is rescinded by itself.  *)
Uproots(log, i) ==
  LET e == log[i]
  IN  \/ Moves(e)
      \/ /\ e.type = "CORRECT_EVENT" /\ CarriesParent(e.payload)
         /\ NewParent(e.payload) # Field(log[e.target].payload, "parent_org_node_key", NoNode)
      \/ e.type = "RESCIND_EVENT" /\ log[e.target].type = "CREATE"

ParentKeys == {"parent_org_node_key", "new_parent_org_node_key"}
NamedParents(log) ==
  UNION {{log[i].payload[k] : k \in ParentKeys \cap DOMAIN log[i].payload} : i \in DOMAIN log}

OnlyLeavesMove(log) ==
  \A i \in DOMAIN log : Uproots(log, i) => log[i].node \notin NamedParents(log)

(* A parent exists on every day on which it has a child, as long as what   *)
(* moves has never been a parent: RESCIND_ORG and the correction of a      *)
(* CREATE look for children below a path, and find them all then.          *)
ParentsExist ==
  OnlyLeavesMove(CommittedLog) =>
    LET V == Committed.versions
    IN  \A v \in V : v.parent # NoNode =>
          \A d \in Dates : Covers(v, d) => ExistsAt(V, v.parent, d)

(* A node has a code exactly as long as it has rows, and no two nodes ever *)
(* have the same code.                                                     *)
CodesFollowUnits ==
  /\ {r[1] : r \in Committed.codes} = {v.node : v \in Committed.versions}
  /\ \A r, s \in db.codes : r[1] = s[1] <=> r[2] = s[2]

(***************************************************************************)
(* The stored paths and full names against the tree they cache.            *)
(***************************************************************************)
Chronological(log) ==
  \A j \in DOMAIN log : log[j].type \in BaseTypes /\ \A i \in 1 .. j : log[i].date <= log[j].date

PathCurrent(V, v) ==
  v.parent # NoNode =>
    \A d \in {e \in Dates : Covers(v, e)} :
      ExistsAt(V, v.parent, d) /\ v.path = Append(RowAt(V, v.parent, d).path, v.node)

NamesCurrent(V, v) == v.full = NamesOf(V, v.path, v.from)

(* While events come in date order, a node's path is on every day of a row *)
(* the path its parent has that day, plus the node: MOVE rewrites the whole *)
(* subtree, and only it.                                                   *)
PathsCurrent ==
  Chronological(CommittedLog) =>
    \A v \in Committed.versions : PathCurrent(Committed.versions, v)

(* An event that cuts the node's rows and does not rebuild full names: the *)
(* row that starts on its day begins with a copy of an older full name.    *)
LeavesNames(e) ==
  \/ e.type \in {"ENABLE", "DISABLE", "SET_BUSINESS_UNIT"}
  \/ e.type = "UPDATE" /\ ~CarriesParent(e.payload) /\ ~CarriesName(e.payload)
StartsStale(log, v) ==
  LET own == {i \in DOMAIN log : log[i].node = v.node /\ log[i].date = v.from}
  IN  own # {} /\ \A i \in own : LeavesNames(log[i])

(* While events come in date order, a full name holds the names that the   *)
(* ancestors had on the day the row began, unless nothing but a change of  *)
(* status or of the business unit flag began the row.                      *)
FullNamesCurrent ==
  Chronological(CommittedLog) =>
    \A v \in Committed.versions :
      StartsStale(CommittedLog, v) \/ NamesCurrent(Committed.versions, v)

(***************************************************************************)
(* What the documents say and the code does not do.                        *)
(***************************************************************************)
(* No path ever meets the same node twice.                                 *)
NoCycle == \A v \in Committed.versions : IsInjective(v.path)

(* Rescinding a unit never meets an event that cannot be replayed.         *)
RescindOrgReplays ==
  txn.open /\ txn.pending.type = "RESCIND_ORG" =>
    \A e \in txn.todo : IsFirst(e, txn.todo) =>
      Apply(events, db, e.node, e.type, e.date, e.payload) # {}

(* A unit that has children is not deleted: none is left behind.           *)
DeletedLeavesNoChildren ==
  \A i \in DOMAIN CommittedLog : CommittedLog[i].type = "RESCIND_ORG" =>
    \A v \in Committed.versions : v.parent # CommittedLog[i].node

(***************************************************************************)
(* Readers see the ledger of OrgUnitLedger: log and projection change in   *)
(* the same instant, by whole transactions about one node, and a           *)
(* transaction that fails leaves no trace.                                 *)
(***************************************************************************)
Readable(p) == WellFormed(p.versions)
Ledger == INSTANCE OrgUnitLedger WITH log <- CommittedLog, projection <- Committed,
                                      Blank <- EmptyProjection, Acceptable <- Readable
LedgerSpec == Ledger!Spec

(***************************************************************************)
(* A rebuild runs to its end: a PL/pgSQL function is never descheduled for *)
(* good, it returns, or raises, or its connection is lost.                 *)
(***************************************************************************)
RunRebuild == ReplayStep \/ NextTarget \/ Commit \/ Abort
FairSpec == Spec /\ WF_vars(RunRebuild)

(* The tenant's write lock is always given back.                           *)
LockReleased == txn.open ~> LockFree
=============================================================================
