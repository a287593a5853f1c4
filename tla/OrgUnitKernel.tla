--------------------------- MODULE OrgUnitKernel ---------------------------
(***************************************************************************)
(* The write side of the OrgUnit kernel: the submit_* functions of the     *)
(* engine, run by transactions that take one advisory lock per tenant.     *)
(*                                                                         *)
(* A base event is applied to the projection in one step.  A correction or *)
(* a rescind deletes the rows of its node and replays the node's history   *)
(* with the new event in it; here the replay is one step per event, so     *)
(* that its intermediate states are visible to the invariants, and the     *)
(* transaction may fail at every one of them.                              *)
(***************************************************************************)
EXTENDS OrgUnitEvents

CONSTANTS Names,       \* values of the name columns
          Codes,       \* organisation codes, {} for CREATEs without a code
          BaseKinds,   \* the event types clients submit
          FixKinds,    \* the correction types clients submit
          CreateKeys,  \* optional keys of a CREATE payload
          UpdateKeys,  \* keys of an UPDATE payload
          PatchKeys,   \* keys of a correction patch
          MaxEvents,   \* bound on the length of the log
          MaxWaiting   \* bound on the transactions waiting for the lock

ASSUME KindsAssumption == BaseKinds \subseteq BaseTypes
                          /\ FixKinds \subseteq CorrectionTypes
ASSUME BoundsAssumption == MaxEvents \in Nat /\ MaxWaiting \in Nat

VARIABLES events,   \* org_events
          db,       \* the projection tables, as the lock holder sees them
          txn,      \* the rebuild in progress
          waiting   \* start times of transactions that wait for the lock

vars == <<events, db, txn, waiting>>

Empty == <<>>   \* the payload {}
NoEvent == Event(NoNode, "", 0, Empty, NoTarget, 0)
NoTxn == [open |-> FALSE, pending |-> NoEvent, before |-> FALSE, todo |-> {},
          batch |-> {}, savedEvents |-> <<>>, saved |-> EmptyProjection]

Init == /\ events = <<>>
        /\ db = EmptyProjection
        /\ txn = NoTxn
        /\ waiting = {}

(***************************************************************************)
(* Transaction times.  now() is fixed when the transaction begins, which   *)
(* may be long before it gets the lock.  Only the order of times matters.  *)
(***************************************************************************)
TimesInUse == {events[i].time : i \in DOMAIN events} \cup waiting
Now == 1 + Max({0} \cup TimesInUse)
StartTimes == waiting \cup {Now}

Wait == /\ Cardinality(waiting) < MaxWaiting
        /\ waiting' = waiting \cup {Now}
        /\ UNCHANGED <<events, db, txn>>

LockFree == ~txn.open
HasRoom == Len(events) < MaxEvents

(***************************************************************************)
(* Payloads.  The service resolves parent codes to nodes that have been    *)
(* created, and maps a patch to the keys of the event it corrects; the     *)
(* unified write sends the keys of WriteKeys to any event.                 *)
(***************************************************************************)
Created(n) == \E i \in DOMAIN events : events[i].node = n
Known == {n \in Nodes : Created(n)}
FreshKey == 1 + Cardinality(Known)

ValuesOf(key) ==
  CASE key \in {"name", "new_name"} -> Names
    [] key \in {"parent_org_node_key", "new_parent_org_node_key"} -> Known
    [] key = "status" -> Statuses
    [] key = "is_business_unit" -> BOOLEAN
    [] key = "effective_date" -> Dates
    [] key = "org_code" -> Codes

(* The payloads that carry exactly the keys K.                             *)
Offered(key, K) == IF key \in K THEN ValuesOf(key) ELSE {0}
Payloads(K) ==
  {[k \in K |-> CASE k = "name" -> a
                  [] k = "new_name" -> b
                  [] k = "parent_org_node_key" -> c
                  [] k = "new_parent_org_node_key" -> d
                  [] k = "status" -> e
                  [] k = "is_business_unit" -> f
                  [] k = "effective_date" -> g
                  [] k = "org_code" -> h] :
     a \in Offered("name", K), b \in Offered("new_name", K),
     c \in Offered("parent_org_node_key", K),
     d \in Offered("new_parent_org_node_key", K),
     e \in Offered("status", K), f \in Offered("is_business_unit", K),
     g \in Offered("effective_date", K), h \in Offered("org_code", K)}

NonEmptySubsets(K) == (SUBSET K) \ {{}}

CreatePayloads ==
  UNION {Payloads({"name"} \cup K \cup (IF Codes = {} THEN {} ELSE {"org_code"}))
         : K \in SUBSET (CreateKeys \cup {"parent_org_node_key"})}

BasePayloads(type) ==
  CASE type = "CREATE" -> CreatePayloads
    [] type = "UPDATE" -> UNION {Payloads(K) : K \in NonEmptySubsets(UpdateKeys)}
    [] type = "MOVE"   -> Payloads({"new_parent_org_node_key"})
    [] type = "RENAME" -> Payloads({"new_name"})
    [] type = "SET_BUSINESS_UNIT" -> Payloads({"is_business_unit"})
    [] type \in {"DISABLE", "ENABLE"} -> {Empty}

WriteKeys == {"name", "parent_org_node_key", "status", "is_business_unit",
              "effective_date"}

CorrectKeys(type) ==
  {"effective_date"} \cup
  CASE type = "CREATE" -> {"name", "parent_org_node_key", "is_business_unit"}
    [] type = "RENAME" -> {"new_name"}
    [] type = "MOVE"   -> {"new_parent_org_node_key"}
    [] type = "SET_BUSINESS_UNIT" -> {"is_business_unit"}
    [] OTHER -> {}

Patches(type) ==
  UNION {Payloads(K) : K \in NonEmptySubsets(PatchKeys \cap WriteKeys)
                             \cup NonEmptySubsets(PatchKeys \cap CorrectKeys(type))}

(***************************************************************************)
(* submit_org_event.  A CREATE draws its key from the allocator.           *)
(***************************************************************************)
SnapshotsPresent(type, before, after) ==
  CASE type = "CREATE" -> after
    [] type \in RescindTypes -> before
    [] OTHER -> before /\ after

(* The nodes whose validity is asserted.                                   *)
Affected(V, n, type, d, payload) ==
  IF type = "MOVE" \/ (type = "UPDATE" /\ CarriesParent(payload))
  THEN NodesUnder(V, RowAt(V, n, d).path) ELSE {n}

Targets(type) == IF type = "CREATE" THEN {FreshKey} \cap Nodes ELSE Known

SubmitEvent(type, n, d, payload, time) ==
  /\ \E after \in Apply(events, db, n, type, d, payload) :
       /\ ValidityHolds(after.versions, Affected(after.versions, n, type, d, payload))
       /\ SnapshotsPresent(type, ExistsAt(db.versions, n, d),
                                 ExistsAt(after.versions, n, d))
       /\ db' = after
  /\ events' = Append(events, Event(n, type, d, payload, NoTarget, time))
  /\ waiting' = waiting \ {time}
  /\ UNCHANGED txn

(***************************************************************************)
(* The head of rebuild_org_unit_versions_for_org_with_pending_event: the   *)
(* node leaves the projection, and its history, read with the pending      *)
(* event in the log, is what remains to be replayed.  A root that would    *)
(* lose its CREATE is refused.                                             *)
(***************************************************************************)
(* Mutant of WithoutNode: the rebuild forgets org_unit_codes.              *)
WithoutRows(p, n) ==
  [p EXCEPT !.versions = @ \ RowsOf(@, n),
            !.root = IF @ = n THEN NoNode ELSE @]

WithoutNode(p, n) ==
  [versions |-> p.versions \ RowsOf(p.versions, n),
   root |-> IF p.root = n THEN NoNode ELSE p.root,
   codes |-> {r \in p.codes : r[1] # n}]

(* Mutants of StartRebuild: the root may lose its CREATE; the pending event *)
(* is not part of the history.                                             *)
StartRebuildUnguarded(t, log, pending) ==
  /\ db' = WithoutNode(db, pending.node)
  /\ txn' = [t EXCEPT !.open = TRUE, !.pending = pending,
                      !.todo = ReplayEvents(Append(log, pending), pending.node),
                      !.before = ExistsAt(db.versions, pending.node, pending.date)]
StartRebuildWithoutPending(t, log, pending) ==
  LET n == pending.node
      todo == ReplayEvents(log, n)
  IN  /\ db.root = n => \E e \in todo : e.type = "CREATE"
      /\ db' = WithoutNode(db, n)
      /\ txn' = [t EXCEPT !.open = TRUE, !.pending = pending, !.todo = todo,
                          !.before = ExistsAt(db.versions, n, pending.date)]

StartRebuild(t, log, pending) ==
  LET n == pending.node
      todo == ReplayEvents(Append(log, pending), n)
  IN  /\ db.root = n => \E e \in todo : e.type = "CREATE"
      /\ db' = WithoutNode(db, n)
      /\ txn' = [t EXCEPT !.open = TRUE, !.pending = pending, !.todo = todo,
                          !.before = ExistsAt(db.versions, n, pending.date)]

BeginRebuild(pending, batch) ==
  /\ StartRebuild([NoTxn EXCEPT !.batch = batch, !.savedEvents = events,
                                !.saved = db], events, pending)
  /\ waiting' = waiting \ {pending.time}
  /\ UNCHANGED events

(***************************************************************************)
(* submit_org_event_rescind: one effective event of the node on day d.     *)
(***************************************************************************)
RescindEvent(n, d, time) ==
  /\ \E i \in EffectiveAt(events, n, d) :
       /\ ~HasRescind(events, i)
       /\ BeginRebuild(Event(n, "RESCIND_EVENT", d, Empty, i, time), {})

(***************************************************************************)
(* submit_org_event_correction.                                            *)
(***************************************************************************)
(* The corrected date stays strictly between the neighbouring dates and    *)
(* meets no other effective event.                                         *)
DateInRange(n, i, d, newDate) ==
  /\ \A o \in EffectiveDates(events, n) : /\ o < d => o < newDate
                                         /\ o > d => newDate < o
  /\ EffectiveAt(events, n, newDate) \subseteq {i}

ParentAcceptable(n, payload, newDate) ==
  LET p == Field(payload, "parent_org_node_key", NoNode)
  IN  p # NoNode => p # n /\ ExistsAt(db.versions, p, newDate)

(* A CREATE does not move past the CREATE of a node that was ever below it.*)
NoDescendantCreatedBefore(n, i, d, newDate) ==
  events[i].type = "CREATE" /\ newDate > d /\ ExistsAt(db.versions, n, d)
  => \A m \in NodesUnder(db.versions, RowAt(db.versions, n, d).path) \ {n} :
       \A j \in EffectiveIds(events, m) :
         events[j].type = "CREATE" => EffectiveDate(events, j) >= newDate

CorrectEvent(n, d, time) ==
  /\ \E i \in EffectiveAt(events, n, d) : \E patch \in Patches(events[i].type) :
       LET payload == Overlay(EffectivePayload(events, i), patch)
           newDate == Field(payload, "effective_date", d)
       IN  /\ ~HasRescind(events, i)
           /\ DateInRange(n, i, d, newDate)
           /\ ParentAcceptable(n, payload, newDate)
           /\ NoDescendantCreatedBefore(n, i, d, newDate)
           /\ BeginRebuild(Event(n, "CORRECT_EVENT", d, payload, i, time), {})

(***************************************************************************)
(* submit_org_status_correction: only of an ENABLE or a DISABLE.           *)
(***************************************************************************)
CorrectStatus(n, d, status, time) ==
  /\ \E i \in EffectiveAt(events, n, d) :
       /\ events[i].type \in {"ENABLE", "DISABLE"}
       /\ ~HasRescind(events, i)
       /\ BeginRebuild(Event(n, "CORRECT_STATUS", d, [target_status |-> status],
                             i, time), {})

(***************************************************************************)
(* submit_org_rescind: every event of the node, corrections and rescinds   *)
(* included, in the order of date and id, one rebuild each.                *)
(***************************************************************************)
(* ORDER BY effective_date, id.                                            *)
Before(a, b) == a.date < b.date \/ (a.date = b.date /\ a.id <= b.id)
IsFirst(a, S) == a \in S /\ \A b \in S : Before(a, b)

LatestPath(V, n) ==
  (CHOOSE v \in RowsOf(V, n) : \A w \in RowsOf(V, n) : w.from <= v.from).path

(* Mutant of HasChildren: the check reads nothing.                         *)
HasNoChildren(V, n) == FALSE

HasChildren(V, n) ==
  RowsOf(V, n) # {} /\ NodesUnder(V, LatestPath(V, n)) # {n}

ViewDate(log, i) ==
  IF i \in EffectiveIds(log, log[i].node) THEN EffectiveDate(log, i) ELSE log[i].date

RescindTargets(log, n) ==
  {[id |-> i, date |-> log[i].date, asOf |-> ViewDate(log, i)] :
     i \in {j \in DOMAIN log : log[j].node = n /\ ~HasRescind(log, j)}}

RescindOf(n, target, time) ==
  Event(n, "RESCIND_ORG", target.asOf, Empty, target.id, time)

RescindOrg(n, time) ==
  LET batch == RescindTargets(events, n)
  IN  /\ n # db.root
      /\ ~HasChildren(db.versions, n)
      /\ Len(events) + Cardinality(batch) <= MaxEvents
      /\ \E t \in batch :
           /\ IsFirst(t, batch)
           /\ BeginRebuild(RescindOf(n, t, time), batch \ {t})

(***************************************************************************)
(* The replay loop, its end, and the end of the transaction.               *)
(***************************************************************************)
ReplayStep ==
  /\ txn.open
  /\ \E e \in txn.todo :
       /\ IsFirst(e, txn.todo)
       /\ db' \in Apply(events, db, e.node, e.type, e.date, e.payload)
       /\ txn' = [txn EXCEPT !.todo = @ \ {e}]
  /\ UNCHANGED <<events, waiting>>

RebuildDone ==
  LET n == txn.pending.node
  IN  /\ txn.open
      /\ txn.todo = {}
      /\ RowsOf(db.versions, n) # {} =>
           ValidityHolds(db.versions, NodesUnder(db.versions, LatestPath(db.versions, n)))
      /\ SnapshotsPresent(txn.pending.type, txn.before,
                          ExistsAt(db.versions, n, txn.pending.date))
      /\ events' = Append(events, txn.pending)

NextTarget ==
  /\ RebuildDone
  /\ \E t \in txn.batch :
       /\ IsFirst(t, txn.batch)
       /\ StartRebuild([txn EXCEPT !.batch = @ \ {t}], events',
                       RescindOf(txn.pending.node, t, txn.pending.time))
  /\ UNCHANGED waiting

Commit ==
  /\ RebuildDone
  /\ txn.batch = {}
  /\ txn' = NoTxn
  /\ UNCHANGED <<db, waiting>>

(* Mutants of Abort: no transaction around the rebuild; a lock of the       *)
(* session, which a rollback does not release.                             *)
AbortKeepingRows ==
  /\ txn.open
  /\ events' = txn.savedEvents
  /\ txn' = NoTxn
  /\ UNCHANGED <<db, waiting>>
AbortKeepingLock ==
  /\ txn.open
  /\ events' = txn.savedEvents
  /\ db' = txn.saved
  /\ UNCHANGED <<txn, waiting>>

(* RAISE, or a lost connection: everything since BEGIN is undone.          *)
Abort ==
  /\ txn.open
  /\ events' = txn.savedEvents
  /\ db' = txn.saved
  /\ txn' = NoTxn
  /\ UNCHANGED waiting

(***************************************************************************)
(* What a client can ask for.  Every submit function begins with           *)
(* pg_advisory_xact_lock, so it goes on only while nobody holds the lock.  *)
(***************************************************************************)
SubmitBase ==
  /\ LockFree
  /\ HasRoom
  /\ \E type \in BaseKinds, d \in Dates, time \in StartTimes :
       \E n \in Targets(type), payload \in BasePayloads(type) :
         SubmitEvent(type, n, d, payload, time)

Rescind ==
  /\ "RESCIND_EVENT" \in FixKinds
  /\ LockFree
  /\ HasRoom
  /\ \E n \in Known, d \in Dates, time \in StartTimes : RescindEvent(n, d, time)

Correct ==
  /\ "CORRECT_EVENT" \in FixKinds
  /\ LockFree
  /\ HasRoom
  /\ \E n \in Known, d \in Dates, time \in StartTimes : CorrectEvent(n, d, time)

StatusCorrection ==
  /\ "CORRECT_STATUS" \in FixKinds
  /\ LockFree
  /\ HasRoom
  /\ \E n \in Known, d \in Dates, status \in Statuses, time \in StartTimes :
       CorrectStatus(n, d, status, time)

RescindUnit ==
  /\ "RESCIND_ORG" \in FixKinds
  /\ LockFree
  /\ HasRoom
  /\ \E n \in Known, time \in StartTimes : RescindOrg(n, time)

Next == \/ Wait
        \/ SubmitBase
        \/ Rescind
        \/ Correct
        \/ StatusCorrection
        \/ RescindUnit
        \/ ReplayStep
        \/ NextTarget
        \/ Commit
        \/ Abort

Spec == Init /\ [][Next]_vars
=============================================================================
