--------------------------- MODULE OrgUnitEvents ---------------------------
(***************************************************************************)
(* The append-only log of the OrgUnit kernel (org_events) and the two      *)
(* readings of it: the view org_events_effective, which the guards read,   *)
(* and org_events_effective_for_replay, which a rebuild replays.           *)
(*                                                                         *)
(* A log is a sequence; the position of an event is its id, because ids    *)
(* are drawn and events inserted under the tenant's write lock.  An event  *)
(* is                                                                      *)
(*   node, type, date : org_node_key, event_type, effective_date           *)
(*   payload          : the JSON object, without the keys op, reason,      *)
(*                      target_event_uuid and target_effective_date        *)
(*   target           : the id of payload.target_event_uuid, 0 when absent *)
(*   time             : tx_time, the START of the transaction              *)
(***************************************************************************)
EXTENDS OrgUnitVersions

BaseTypes == {"CREATE", "UPDATE", "MOVE", "RENAME", "DISABLE", "ENABLE",
              "SET_BUSINESS_UNIT"}
RescindTypes == {"RESCIND_EVENT", "RESCIND_ORG"}
CorrectionTypes == {"CORRECT_EVENT", "CORRECT_STATUS"} \cup RescindTypes

NoTarget == 0

Event(n, type, d, payload, target, time) ==
  [node |-> n, type |-> type, date |-> d, payload |-> payload,
   target |-> target, time |-> time]

CorrectionsOf(log, i) == {j \in DOMAIN log : log[j].target = i}

(* ORDER BY tx_time DESC, id DESC: the transaction that STARTED last wins, *)
(* not the one that was applied last.                                      *)
Newer(log, j, k) == \/ log[j].time > log[k].time
                    \/ log[j].time = log[k].time /\ j >= k
(* Mutant of Latest: the first correction wins.                            *)
Earliest(log, J) == CHOOSE j \in J : \A k \in J : Newer(log, k, j)

Latest(log, J) == CHOOSE j \in J : \A k \in J : Newer(log, j, k)

DateCorrections(log, i) ==
  {j \in CorrectionsOf(log, i) :
     log[j].type = "CORRECT_EVENT" /\ Carries(log[j].payload, "effective_date")}

(* jsonb's  p || q : the keys of both, and q's value where both have one.   *)
Overlay(p, q) ==
  [k \in DOMAIN p \cup DOMAIN q |-> IF k \in DOMAIN q THEN q[k] ELSE p[k]]

(* merge_org_event_payload_with_correction: the patch wins, and its        *)
(* effective_date is not merged.                                           *)
Without(payload, key) == [k \in DOMAIN payload \ {key} |-> payload[k]]
Merge(payload, patch) == Overlay(payload, Without(patch, "effective_date"))

(***************************************************************************)
(* One event of the log as the views show it.                              *)
(***************************************************************************)
IsRescinded(log, i) ==
  /\ CorrectionsOf(log, i) # {}
  /\ log[Latest(log, CorrectionsOf(log, i))].type \in RescindTypes

CorrectedBy(log, i, type) ==
  /\ CorrectionsOf(log, i) # {}
  /\ log[Latest(log, CorrectionsOf(log, i))].type = type

Correction(log, i) == log[Latest(log, CorrectionsOf(log, i))]

(* The date sticks: it is that of the newest correction that carries one.  *)
EffectiveDate(log, i) ==
  IF DateCorrections(log, i) = {} THEN log[i].date
  ELSE log[Latest(log, DateCorrections(log, i))].payload["effective_date"]

EffectivePayload(log, i) ==
  IF CorrectedBy(log, i, "CORRECT_EVENT")
  THEN Merge(log[i].payload, Correction(log, i).payload)
  ELSE log[i].payload

EffectiveType(log, i) ==
  IF CorrectedBy(log, i, "CORRECT_STATUS")
  THEN IF Correction(log, i).payload["target_status"] = "active"
       THEN "ENABLE" ELSE "DISABLE"
  ELSE log[i].type

CoreKeys == {"name", "new_name", "parent_org_node_key",
             "new_parent_org_node_key", "status", "is_business_unit"}

(* A corrected event whose payload carries a core key is replayed as an    *)
(* UPDATE: what it did before the correction is lost unless a key says it. *)
ReplayType(log, i) ==
  IF /\ CorrectedBy(log, i, "CORRECT_EVENT")
     /\ log[i].type # "CREATE"
     /\ DOMAIN EffectivePayload(log, i) \cap CoreKeys # {}
  THEN "UPDATE" ELSE EffectiveType(log, i)

EffectiveIds(log, n) ==
  {i \in DOMAIN log : /\ log[i].node = n
                      /\ log[i].type \in BaseTypes
                      /\ ~IsRescinded(log, i)}

(* org_events_effective_for_replay, for a log that ends with the pending   *)
(* event.                                                                  *)
ReplayEvents(log, n) ==
  {[id |-> i, node |-> n, type |-> ReplayType(log, i),
    date |-> EffectiveDate(log, i), payload |-> EffectivePayload(log, i)]
   : i \in EffectiveIds(log, n)}

EffectiveAt(log, n, d) == {i \in EffectiveIds(log, n) : EffectiveDate(log, i) = d}
EffectiveDates(log, n) == {EffectiveDate(log, i) : i \in EffectiveIds(log, n)}

(* Mutant of StopDate: every later row is written.                         *)
NeverStops(log, n, type, d) == Infinity

(* The day on which the next event of this type takes over.                *)
StopDate(log, n, type, d) ==
  LET later == {EffectiveDate(log, i) :
                  i \in {j \in EffectiveIds(log, n) :
                           EffectiveType(log, j) = type}}
      stops == {s \in later : s > d}
  IN  IF stops = {} THEN Infinity ELSE Min(stops)

HasRescind(log, i) ==
  \E j \in CorrectionsOf(log, i) : log[j].type \in RescindTypes

(***************************************************************************)
(* Applying one event to the projection.  `log` is the committed log, which*)
(* apply_rename_logic and apply_set_business_unit_logic read through the   *)
(* view, even while a rebuild replays a log with one event more.           *)
(***************************************************************************)
OnEach(projections, Step(_)) == UNION {Step(db) : db \in projections}

CarriesParent(payload) == \/ Carries(payload, "parent_org_node_key")
                          \/ Carries(payload, "new_parent_org_node_key")
CarriesName(payload) == Carries(payload, "name") \/ Carries(payload, "new_name")

(* COALESCE(payload->>'name', payload->>'new_name'), and the same for the  *)
(* parent: the older spelling is read only when the newer one is absent.   *)
NewParent(payload) ==
  IF Carries(payload, "parent_org_node_key")
  THEN payload["parent_org_node_key"] ELSE payload["new_parent_org_node_key"]
NewName(payload) ==
  IF Carries(payload, "name") THEN payload["name"] ELSE payload["new_name"]

(* Mutant of ApplyUpdate: the name is written only when nothing else is.   *)
ApplyUpdateFirstKey(log, db, n, d, payload) ==
  IF CarriesName(payload)
  THEN ApplyRename(db, n, d, NewName(payload), StopDate(log, n, "RENAME", d))
  ELSE IF CarriesParent(payload) THEN ApplyMove(db, n, NewParent(payload), d)
  ELSE IF Carries(payload, "status") THEN ApplyStatus(db, n, d, payload["status"])
  ELSE ApplySetBusinessUnit(db, n, d, payload["is_business_unit"],
                            StopDate(log, n, "SET_BUSINESS_UNIT", d))

ApplyUpdate(log, db, n, d, payload) ==
  LET moved == IF CarriesParent(payload)
               THEN ApplyMove(db, n, NewParent(payload), d) ELSE {db}
      switched == IF Carries(payload, "status")
                  THEN OnEach(moved, LAMBDA b :
                         ApplyStatus(b, n, d, payload["status"]))
                  ELSE moved
      classified == IF Carries(payload, "is_business_unit")
                    THEN OnEach(switched, LAMBDA b :
                           ApplySetBusinessUnit(b, n, d,
                             payload["is_business_unit"],
                             StopDate(log, n, "SET_BUSINESS_UNIT", d)))
                    ELSE switched
  IN  IF CarriesName(payload)
      THEN OnEach(classified, LAMBDA b :
             ApplyRename(b, n, d, NewName(payload), StopDate(log, n, "RENAME", d)))
      ELSE classified

(* The apply_*_logic call of the event's type.                             *)
ApplyLogic(log, db, n, type, d, payload) ==
  CASE type = "CREATE"  -> ApplyCreate(db, n, d, payload)
    [] type = "UPDATE"  -> ApplyUpdate(log, db, n, d, payload)
    [] type = "MOVE"    -> ApplyMove(db, n, payload["new_parent_org_node_key"], d)
    [] type = "RENAME"  -> ApplyRename(db, n, d, payload["new_name"],
                                       StopDate(log, n, "RENAME", d))
    [] type = "DISABLE" -> ApplyStatus(db, n, d, "disabled")
    [] type = "ENABLE"  -> ApplyStatus(db, n, d, "active")
    [] type = "SET_BUSINESS_UNIT" ->
         ApplySetBusinessUnit(db, n, d, payload["is_business_unit"],
                              StopDate(log, n, "SET_BUSINESS_UNIT", d))

(* Mutant of ChangesNames: a MOVE keeps the old full names.                *)
ChangesOwnName(type, payload) ==
  type \in {"CREATE", "RENAME"} \/ (type = "UPDATE" /\ CarriesName(payload))

ChangesNames(type, payload) ==
  \/ type \in {"CREATE", "MOVE", "RENAME"}
  \/ type = "UPDATE" /\ (CarriesParent(payload) \/ CarriesName(payload))

(* One turn of the replay loop, and the CASE of submit_org_event: the      *)
(* apply call, then the full names of the node's subtree.                  *)
Apply(log, db, n, type, d, payload) ==
  IF ChangesNames(type, payload)
  THEN {RebuildFullNames(b, n, d) : b \in ApplyLogic(log, db, n, type, d, payload)}
  ELSE ApplyLogic(log, db, n, type, d, payload)
=============================================================================
