------------------------- MODULE OrgUnitDetailsPage -------------------------
(***************************************************************************)
(* OrgUnitDetailsPage: the records of one unit, its audit trail and the    *)
(* dialog that adds, inserts, corrects or deletes a record, while another  *)
(* administrator writes to the same unit.                                  *)
(*                                                                         *)
(* A record has core fields and plain extension fields, the latter from    *)
(* the day they are enabled on.  The form keeps the values of the fields   *)
(* that were shown when it was opened; a write sends those of the fields   *)
(* shown by then that differ from them.  (Fields of dictionaries go the    *)
(* way of the core fields.)                                                *)
(***************************************************************************)
EXTENDS OrgUnitRecordDates, Sequences

CONSTANTS CoreFields,       \* name, parent, manager ...
          Name, Unclearable, \* that must be there; those not sent when blank
          PlainFields,      \* extension fields that are typed
          Values,           \* of fields; NoValue is the empty text, or null
          Trimmed,          \* a typed value without the blanks around it
          FirstValue,       \* of every field in the first records
          OthersValues,     \* bound on the values others write
          ExtDays,          \* days extension fields are enabled on
          LastDay,          \* days are 1..LastDay
          FirstRecords,     \* the days of the unit's records at first
          LinkDays,         \* the days links to the page carry
          UnitBudget,       \* bound on what the user and the others do
          MaxAudit          \* bound on the audit events

NoValue == 0

ASSUME FieldAssumption == /\ Name \in Unclearable /\ Unclearable \subseteq CoreFields
                          /\ CoreFields \cap PlainFields = {}
ASSUME ValueAssumption == /\ Values \subseteq Nat
                          /\ {NoValue, FirstValue} \cup OthersValues \subseteq Values
                          /\ Trimmed \in [Values -> Values] /\ Trimmed[NoValue] = NoValue
                          /\ \A v \in Values : Trimmed[Trimmed[v]] = Trimmed[v]
ASSUME RecordDayAssumption == /\ LastDay \in Nat \ {0, 1}   \* today is a day
                              /\ LinkDays \subseteq 1..LastDay
                              /\ FirstRecords \subseteq 1..LastDay
                              /\ FirstRecords # {}
                              /\ ExtDays \subseteq 1..LastDay
ASSUME DetailBounds == UnitBudget \in Nat /\ MaxAudit \in Nat

NoUuid == 0

Fields == CoreFields \cup PlainFields

VARIABLES records,         \* the unit's records on the server, by day
          enabledFrom,     \* the day a plain field is enabled from
          auditLog,        \* how many audit events the unit has
          versionsKnown,   \* versionsQuery: the days of the records
          detailsKnown,    \* detailQuery: the values and the day they were asked for
          auditKnown,      \* auditQuery: the events
          detailAddress,   \* the search parameters
          detailBack,      \* the history entry before
          action,          \* actionState, actionForm and recordDatePlan
          writing,         \* actionMutation
          detailSpent

detailVars == <<records, enabledFrom, auditLog, versionsKnown, detailsKnown, auditKnown,
                detailAddress, detailBack, action, writing, detailSpent>>
serverSide == <<records, enabledFrom, auditLog>>
queryVars == <<versionsKnown, detailsKnown, auditKnown>>
placeVars == <<detailAddress, detailBack>>

Today == LastDay - 1
NotYet == LastDay + 2      \* later than every day the form takes
EnabledOn(d) == {f \in PlainFields : enabledFrom[f] <= d}

NoAction == [kind |-> "none", plan |-> NoPlan, date |-> NoDay,
             corrected |-> NoDay, form |-> <<>>, original |-> <<>>, touched |-> {},
             openedOn |-> {}]
NotWriting == [stage |-> "no", kind |-> "none", target |-> NoDay, date |-> NoDay,
               patch |-> <<>>, kept |-> {}]

NoDetails == [day |-> NoDay, values |-> <<>>]

DetailInit ==
  /\ enabledFrom \in [PlainFields -> ExtDays \cup {NotYet}]
  /\ records = [d \in FirstRecords |->
       [f \in Fields |-> IF f \in CoreFields \cup EnabledOn(d) THEN FirstValue ELSE NoValue]]
  /\ auditLog = 1
  /\ versionsKnown = {}
  /\ detailsKnown = NoDetails
  /\ auditKnown = {}
  /\ \E asOf \in {NoDay} \cup LinkDays, requested \in {NoDay} \cup LinkDays,
        tab \in {"profile", "audit"} :
       detailAddress = [asOf |-> asOf, requested |-> requested, tab |-> tab,
                        uuid |-> NoUuid]
  /\ detailBack = detailAddress
  /\ action = NoAction
  /\ writing = NotWriting
  /\ detailSpent = 0

Acts == detailSpent < UnitBudget /\ detailSpent' = detailSpent + 1

AsOf == IF detailAddress.asOf = NoDay THEN Today ELSE detailAddress.asOf
EffectiveDate ==
  ResolveOrgUnitEffectiveDate(AsOf, detailAddress.requested, versionsKnown)

(* The values in force on a day; the server tells those of the fields that *)
(* are enabled on it.                                                      *)
InForce(d) == {r \in DOMAIN records : r <= d}
ValuesOn(d) == records[Max(InForce(d))]
ToldOn(d) == [f \in CoreFields \cup EnabledOn(d) |-> ValuesOn(d)[f]]

(***************************************************************************)
(* The queries are read when the page opens, when a key changes, after a   *)
(* write and when the browser is online again, one by one.                 *)
(***************************************************************************)
LoadVersions ==
  /\ versionsKnown' = DOMAIN records
  /\ UNCHANGED <<detailsKnown, auditKnown>>
LoadDetails ==
  /\ InForce(EffectiveDate) # {}
  /\ detailsKnown' = [day |-> EffectiveDate, values |-> ToldOn(EffectiveDate)]
  /\ UNCHANGED <<versionsKnown, auditKnown>>
LoadAudit ==
  /\ auditKnown' = 1..auditLog
  /\ UNCHANGED <<versionsKnown, detailsKnown>>

(***************************************************************************)
(* The address.  The two effects of a render write it from what was        *)
(* rendered: of two writes the second stays.                               *)
(***************************************************************************)
UpdateDetailSearch(to) == detailAddress' = to /\ detailBack' = detailAddress

LeavesAsOf == /\ detailAddress.asOf # NoDay
              /\ detailAddress.requested = NoDay
              /\ versionsKnown # {}
LacksAudit == /\ detailAddress.tab = "audit"
              /\ auditKnown # {}
              /\ detailAddress.uuid \notin auditKnown
DetailEffectsRan == ~LeavesAsOf /\ ~LacksAudit

(* Mutant of ToEffectiveDate: the record in force is not requested.        *)
ToProfile == [detailAddress EXCEPT !.tab = "profile"]

ToEffectiveDate == [detailAddress EXCEPT !.asOf = NoDay, !.requested = EffectiveDate,
                                         !.tab = "profile"]
ToFirstAudit == [detailAddress EXCEPT !.uuid = Max(auditKnown)]

DetailEffects ==
  /\ ~DetailEffectsRan
  /\ UpdateDetailSearch(IF LacksAudit THEN ToFirstAudit ELSE ToEffectiveDate)
  /\ UNCHANGED <<action, writing, detailSpent>>
  /\ UNCHANGED serverSide /\ UNCHANGED queryVars

Query ==
  /\ DetailEffectsRan
  /\ LoadVersions \/ LoadDetails \/ LoadAudit
  /\ UNCHANGED <<action, writing, detailSpent>>
  /\ UNCHANGED serverSide /\ UNCHANGED placeVars

ViewCurrent == [detailAddress EXCEPT !.asOf = NoDay, !.requested = NoDay,
                                     !.tab = "profile", !.uuid = NoUuid]
SelectVersion(d) == [detailAddress EXCEPT !.asOf = NoDay, !.requested = d,
                                          !.tab = "profile"]
SelectTab(tab) == [detailAddress EXCEPT !.tab = tab,
                                        !.uuid = IF tab = "audit" THEN @ ELSE NoUuid]
SelectAudit(uuid) == [detailAddress EXCEPT !.tab = "audit", !.uuid = uuid]

(* The dialog covers the page; the browser's back button works under it.   *)
Browse ==
  /\ DetailEffectsRan
  /\ Acts
  /\ \E to \in {detailBack} \cup
               IF action.kind # "none" THEN {}
               ELSE {ViewCurrent} \cup {SelectVersion(d) : d \in versionsKnown}
                      \cup {SelectTab(tab) : tab \in {"profile", "audit"}}
                      \cup {SelectAudit(u) : u \in auditKnown} :
       to # detailAddress /\ UpdateDetailSearch(to)
  /\ UNCHANGED <<action, writing>>
  /\ UNCHANGED serverSide /\ UNCHANGED queryVars

(***************************************************************************)
(* The dialog.                                                             *)
(***************************************************************************)
HasDetails == detailsKnown.day = EffectiveDate
ShownFields == IF HasDetails THEN DOMAIN detailsKnown.values ELSE CoreFields

Form(kind, date, plan) ==
  [NoAction EXCEPT !.kind = kind, !.date = date, !.plan = plan,
                   !.openedOn = versionsKnown, !.form = detailsKnown.values,
                   !.original = detailsKnown.values]

OpenRecordWizard(mode) ==
  LET plan == PlanRecordEffectiveDate(mode, versionsKnown, EffectiveDate) IN
  /\ versionsKnown # {}
  /\ HasDetails
  /\ plan.kind # "invalid_input"
  /\ action' = Form(mode, plan.default, plan)

OpenCorrectAction == /\ HasDetails
                     /\ action' = Form("correct", EffectiveDate, NoPlan)

OpenDeleteAction ==
  /\ versionsKnown # {}
  /\ action' = [NoAction EXCEPT !.kind = "delete", !.date = EffectiveDate]

Open ==
  /\ DetailEffectsRan
  /\ action.kind = "none"
  /\ Acts
  /\ \/ \E mode \in {"add", "insert"} : OpenRecordWizard(mode)
     \/ OpenCorrectAction \/ OpenDeleteAction
  /\ UNCHANGED writing
  /\ UNCHANGED serverSide /\ UNCHANGED queryVars /\ UNCHANGED placeVars

(* By Escape; the cancel button waits for the write that is under way.     *)
Close ==
  /\ action.kind # "none"
  /\ action' = NoAction
  /\ UNCHANGED <<writing, detailSpent>>
  /\ UNCHANGED serverSide /\ UNCHANGED queryVars /\ UNCHANGED placeVars

IsRecordWizard == action.kind \in {"add", "insert"}

(* A field the form does not know is shown blank.                          *)
FieldValue(a, f) == IF f \in DOMAIN a.form THEN a.form[f] ELSE NoValue

With(rs, d, values) == [r \in DOMAIN rs \cup {d} |-> IF r = d THEN values ELSE rs[r]]

EditField(f, v) ==
  action' = [action EXCEPT !.form = With(@, f, v), !.touched = @ \cup {f}]
EditDate(d) == IsRecordWizard /\ action' = [action EXCEPT !.date = d]
EditCorrectedDate(d) == action.kind = "correct" /\ action' = [action EXCEPT !.corrected = d]

Edit ==
  /\ action.kind \in {"add", "insert", "correct"}
  /\ Acts
  /\ \/ \E f \in ShownFields, v \in Values : v # FieldValue(action, f) /\ EditField(f, v)
     \/ \E d \in {NoDay} \cup 1..(LastDay + 1) :
          d # action.date /\ (EditDate(d) \/ EditCorrectedDate(d))
  /\ UNCHANGED writing
  /\ UNCHANGED serverSide /\ UNCHANGED queryVars /\ UNCHANGED placeVars

(***************************************************************************)
(* The write.                                                              *)
(***************************************************************************)
(* What is sent of a field is trimmed.  A core field is compared with its  *)
(* trimmed original, a plain one with its original as it is, which is      *)
(* undefined, and so different, for a field the form does not know.        *)
CoreChanged(a, f) ==
  /\ Trimmed[a.form[f]] # Trimmed[a.original[f]]
  /\ ~(f \in Unclearable /\ Trimmed[a.form[f]] = NoValue)
PlainChanged(a, f) == f \in DOMAIN a.original => Trimmed[FieldValue(a, f)] # a.original[f]

(* Mutant of BuildOrgUnitWritePatch: the form is compared with what is     *)
(* shown by now.                                                           *)
PatchOfShown(a) ==
  [f \in {g \in ShownFields :
          HasDetails /\ Trimmed[FieldValue(a, g)] # detailsKnown.values[g]} |->
     Trimmed[FieldValue(a, f)]]

BuildOrgUnitWritePatch(a) ==
  [f \in {g \in ShownFields : IF g \in CoreFields THEN CoreChanged(a, g)
                                                 ELSE PlainChanged(a, g)} |->
     Trimmed[FieldValue(a, f)]]

(* The fields the user left alone, but for the plain ones that are shown   *)
(* by now and whose original the form does not know or knows untrimmed.    *)
FieldsKept(a) ==
  Fields \ (a.touched \cup
    {f \in ShownFields \ CoreFields :
       f \in DOMAIN a.original => Trimmed[a.original[f]] # a.original[f]})

DateAccepted == IsRecordWizard => ValidatePlannedEffectiveDate(action.plan, action.date)

WriteDate == IF action.kind = "correct" /\ action.corrected # NoDay
             THEN action.corrected ELSE action.date

ConfirmWrite ==
  LET patch == BuildOrgUnitWritePatch(action) IN
  /\ action.kind \in {"add", "insert", "correct"}
  /\ DateAccepted
  /\ DOMAIN patch # {}
  /\ Trimmed[action.form[Name]] # NoValue
  /\ writing' = [stage |-> "sent", kind |-> action.kind, target |-> action.date,
                 date |-> WriteDate, patch |-> patch, kept |-> FieldsKept(action)]

(* What is deleted is decided when it is confirmed: the record shown then, *)
(* or the unit if it is the only one.                                      *)
ConfirmDelete ==
  /\ action.kind = "delete"
  /\ writing' = [NotWriting EXCEPT
                   !.stage = "sent",
                   !.kind = IF Cardinality(versionsKnown) <= 1 THEN "deleteOrg" ELSE "delete",
                   !.target = EffectiveDate]

Confirm ==
  /\ DetailEffectsRan
  /\ writing.stage = "no"
  /\ Acts
  /\ ConfirmWrite \/ ConfirmDelete
  /\ UNCHANGED action
  /\ UNCHANGED serverSide /\ UNCHANGED queryVars /\ UNCHANGED placeVars

(* The server: a new record takes what is in force on its day, a corrected *)
(* one what it had; the patch is laid over it.  A patch with a field that  *)
(* is not enabled on the day is refused.                                   *)
Patched(base) == [f \in Fields |-> IF f \in DOMAIN writing.patch THEN writing.patch[f]
                                   ELSE base[f]]
Base == IF writing.kind = "correct" THEN records[writing.target] ELSE ValuesOn(writing.date)
Without(d) == [r \in DOMAIN records \ {d} |-> records[r]]
PatchAllowed == DOMAIN writing.patch \subseteq CoreFields \cup EnabledOn(writing.date)

Written ==
  \/ /\ writing.kind \in {"add", "insert"} /\ PatchAllowed
     /\ writing.date \notin DOMAIN records /\ InForce(writing.date) # {}
     /\ records' = With(records, writing.date, Patched(Base))
  \/ /\ writing.kind = "correct" /\ PatchAllowed
     /\ writing.target \in DOMAIN records
     /\ writing.date \notin DOMAIN records \ {writing.target}
     /\ records' = With(Without(writing.target), writing.date, Patched(Base))

Rescinded ==
  \/ /\ writing.kind = "delete"
     /\ writing.target \in DOMAIN records /\ Cardinality(DOMAIN records) > 1
     /\ records' = Without(writing.target)
  \/ /\ writing.kind = "deleteOrg"
     /\ UNCHANGED records   \* the page is left

WriteApplied ==
  /\ writing.stage = "sent"
  /\ auditLog < MaxAudit
  /\ Written \/ Rescinded
  /\ auditLog' = auditLog + 1
  /\ writing' = [writing EXCEPT !.stage = "done"]
  /\ UNCHANGED <<enabledFrom, action, detailSpent>>
  /\ UNCHANGED queryVars /\ UNCHANGED placeVars

(* The write is refused, or its answer is lost, that of the second attempt *)
(* too, which the server recognises by its request id.                     *)
WriteFails ==
  /\ writing.stage \in {"sent", "done"}
  /\ writing' = NotWriting
  /\ UNCHANGED <<action, detailSpent>>
  /\ UNCHANGED serverSide /\ UNCHANGED queryVars /\ UNCHANGED placeVars

(* Success closes the dialog that is open then.                            *)
WriteSucceeds ==
  /\ writing.stage = "done"
  /\ writing' = NotWriting
  /\ action' = NoAction
  /\ UNCHANGED detailSpent
  /\ UNCHANGED serverSide /\ UNCHANGED queryVars /\ UNCHANGED placeVars

OtherAdminWrites ==
  /\ Acts
  /\ auditLog < MaxAudit
  /\ \E d \in DOMAIN records, v \in OthersValues : \E f \in CoreFields \cup EnabledOn(d) :
       /\ records[d][f] # v
       /\ f \in Unclearable => Trimmed[v] # NoValue
       /\ records' = [records EXCEPT ![d][f] = v]
  /\ auditLog' = auditLog + 1
  /\ UNCHANGED <<enabledFrom, action, writing>>
  /\ UNCHANGED queryVars /\ UNCHANGED placeVars

(* An extension field is enabled while the page is open.                   *)
OtherAdminEnablesField ==
  /\ Acts
  /\ \E f \in PlainFields, d \in ExtDays :
       enabledFrom[f] = NotYet /\ enabledFrom' = [enabledFrom EXCEPT ![f] = d]
  /\ UNCHANGED <<records, auditLog, action, writing>>
  /\ UNCHANGED queryVars /\ UNCHANGED placeVars

DetailNext ==
  \/ DetailEffects \/ Query \/ Browse \/ Open \/ Close \/ Edit \/ Confirm
  \/ WriteApplied \/ WriteFails \/ WriteSucceeds
  \/ OtherAdminWrites \/ OtherAdminEnablesField

(* The records, the address, the dialog and the write have their shape.    *)
DetailTypeOK ==
  /\ DOMAIN records \subseteq Nat \ {NoDay} /\ records # <<>>
  /\ detailAddress.requested \in Nat
  /\ auditKnown \subseteq 1..auditLog
  /\ writing.stage \in {"no", "sent", "done"}
  /\ action.kind \in {"none", "add", "insert", "correct", "delete"}

(* A write leaves the fields the user did not touch as the server has them *)
(* at that moment, whatever the other administrator wrote and the page     *)
(* read again since the dialog was opened: the patch is the difference to  *)
(* the originals kept in the form (buildOrgUnitWritePatch).  This is not   *)
(* so of a plain extension field that is shown when the write is confirmed *)
(* but was not when the dialog was opened: it is written as null.  A text  *)
(* that was stored with blanks around it is written without them.          *)
OnlyEditedFieldsWritten ==
  [][writing.stage = "sent" /\ writing'.stage = "done"
       /\ writing.kind \in {"add", "insert", "correct"} =>
       \A f \in writing.kept : records'[writing.date][f] = Base[f]]_detailVars

(* The wizard accepts the days that are free and in their place among the  *)
(* records the dialog was opened on, and no other: after them all for a    *)
(* record that is added, and for one inserted at the last record; next to  *)
(* the selected record, and not before the first, for any other.           *)
NextToSelected(d) ==
  \A r \in action.openedOn : /\ ~(action.plan.selected < r /\ r < d)
                             /\ ~(d < r /\ r < action.plan.selected)

AcceptedDateIsFree ==
  IsRecordWizard =>
    (DateAccepted <=>
       /\ action.date \notin action.openedOn
       /\ \E r \in action.openedOn : r < action.date
       /\ IF action.kind = "add" \/ action.plan.selected = Max(action.openedOn)
          THEN \A r \in action.openedOn : r < action.date
          ELSE NextToSelected(action.date))

(* How many runs of the effects are left until the address is at rest.     *)
DetailWay == (IF LeavesAsOf THEN 1 ELSE 0) + (IF LacksAudit THEN 1 ELSE 0)
=============================================================================
