--------------------------- MODULE FieldConfigsPage ---------------------------
(***************************************************************************)
(* The page OrgUnitFieldConfigsPage with the server behind it: the list of *)
(* fields as of a day, the dialog that enables a field, the dialog that    *)
(* disables one or postpones its end, calls that are answered late, twice  *)
(* or never, and another administrator.                                    *)
(***************************************************************************)
EXTENDS FieldConfigs

CONSTANTS FieldModes,      \* how a field key is enabled: builtin, dict, custom
          BuiltinType,     \* the value type of a built-in definition
          ListDays,        \* days the list can be shown as of
          RowFilters,      \* sets of row states the list is filtered by
          LastConfigDate,  \* bound on the date
          ConfigBudget     \* bound on what users do

ASSUME ConfigDayAssumption ==
  LastConfigDate \in Nat \ {0} /\ ListDays \subseteq 1..LastConfigDate

VARIABLES listView,        \* as_of and the row states the filter lets through
          fetched,         \* what the list query has fetched, by as_of
          openedOn,        \* todayUtc, computed when the page was opened
          enableOpen, enableForm, enableRequestID,
          selectedConfig,  \* the disable dialog: at most one mode and row
          disabledOn, disableRequestID,
          enabling, disabling,  \* the pending mutations
          onTheWire, answers,
          configSpent

configDialogVars == <<enableOpen, enableForm, enableRequestID,
                      selectedConfig, disabledOn, disableRequestID>>
configCallVars == <<enabling, disabling, onTheWire, answers>>
configPageVars == <<configVars, listView, fetched, openedOn, configDialogVars,
                    configCallVars, configSpent>>

NoKey == ""
NoLabel == ""
OwnLabel == "own"
RowStates == {"enabled", "pending", "disabled"}
ASSUME RowFilterAssumption == RowFilters \subseteq SUBSET RowStates

NoCall == [at |-> 0, attempt |-> 0]
NotPending == [phase |-> "idle", call |-> NoCall]
MaxAttempts == 2

Later(a, b) == IF a > b THEN a ELSE b
ConfigActs == configSpent < ConfigBudget /\ configSpent' = configSpent + 1

(* Ids that no act before has made; those of others are negative.          *)
NewRequestID == configSpent + 1
OthersRequestID == -3 - configSpent

(* A field of a dictionary that was given no label is called what the      *)
(* dictionary is called when the call is served.                           *)
DictNames == {"dict 1", "dict 2"}

ASSUME DefinitionAssumption ==
  /\ {BuiltinType, "text"} \subseteq ValueTypes
  /\ {NoLabel, OwnLabel} \cup DictNames \subseteq Labels

EmptyEnableForm == [mode |-> "builtin", key |-> NoKey, valueType |-> "text",
                    label |-> NoLabel, enabledOn |-> Later(openedOn, listView.asOf)]

FirstConfigs ==
  {NoEntries} \cup
  {[f \in {k} |-> [column |-> <<BuiltinType, 1>>, label |-> NoLabel,
                   enabledOn |-> 1, disabledOn |-> d]] :
     k \in {f \in ConfigKeys : FieldModes[f] = "builtin"}, d \in {NotDisabled, 2}}

FirstEvents(first) ==
  LET ended == {f \in DOMAIN first : first[f].disabledOn # NotDisabled} IN
  [id \in {-1 : f \in DOMAIN first} \cup {-2 : f \in ended} |->
     LET f == CHOOSE g \in DOMAIN first : TRUE IN
     IF id = -1
     THEN [type |-> "ENABLE", key |-> f, valueType |-> BuiltinType,
           label |-> NoLabel, enabledOn |-> 1]
     ELSE [type |-> "DISABLE", key |-> f, disabledOn |-> first[f].disabledOn]]

ConfigPageInit ==
  /\ configs \in FirstConfigs
  /\ events = FirstEvents(configs)
  /\ currentDate = 1 /\ beganOn = NoEntries
  /\ openedOn = 1
  /\ listView = [asOf |-> openedOn, states |-> RowStates]
  /\ fetched = NoEntries
  /\ enableOpen = FALSE /\ enableForm = EmptyEnableForm /\ enableRequestID = 0
  /\ selectedConfig = {} /\ disabledOn = openedOn /\ disableRequestID = 0
  /\ enabling = NotPending /\ disabling = NotPending
  /\ onTheWire = {} /\ answers = {}
  /\ configSpent = 0

-----------------------------------------------------------------------------
(* The list.                                                               *)

FieldConfigsKnown ==
  IF listView.asOf \in DOMAIN fetched THEN fetched[listView.asOf] ELSE NoEntries

ExistingFieldKeys == DOMAIN FieldConfigsKnown

RowState(config, asOf) ==
  IF asOf < config.enabledOn THEN "pending"
  ELSE IF config.disabledOn # NotDisabled /\ config.disabledOn <= asOf THEN "disabled"
  ELSE "enabled"

RowsAll == [f \in ExistingFieldKeys |-> RowState(FieldConfigsKnown[f], listView.asOf)]
RowsFiltered == {f \in DOMAIN RowsAll : RowsAll[f] \in listView.states}

UpdateConfigSearch(to) == to # listView /\ listView' = to

(* The filter bar writes all of its inputs into the address at once.       *)
ApplyFilter ==
  /\ ConfigActs
  /\ ~enableOpen /\ selectedConfig = {}
  /\ \E to \in [asOf : ListDays, states : RowFilters] : UpdateConfigSearch(to)
  /\ UNCHANGED <<configVars, fetched, openedOn, configDialogVars, configCallVars>>

Refetched == fetched' = Extended(fetched, listView.asOf, configs)

(* The list is fetched once for every as_of, and again when the user comes *)
(* back to the window.                                                     *)
ConfigsFetched ==
  /\ listView.asOf \notin DOMAIN fetched
  /\ Refetched
  /\ UNCHANGED <<configVars, listView, openedOn, configDialogVars, configCallVars, configSpent>>

WindowFocused ==
  /\ fetched # NoEntries
  /\ ConfigActs
  /\ Refetched
  /\ UNCHANGED <<configVars, listView, openedOn, configDialogVars, configCallVars>>

-----------------------------------------------------------------------------
(* The dialog that enables a field.                                        *)

OpenEnableDialog ==
  /\ ConfigActs
  /\ ~enableOpen /\ selectedConfig = {}
  /\ enableOpen' = TRUE
  /\ enableForm' = EmptyEnableForm
  /\ enableRequestID' = NewRequestID
  /\ UNCHANGED <<configVars, listView, fetched, openedOn, selectedConfig, disabledOn,
                 disableRequestID, configCallVars>>

CloseEnableDialog ==
  /\ enableOpen
  /\ ConfigActs
  /\ enableOpen' = FALSE
  /\ UNCHANGED <<configVars, listView, fetched, openedOn, enableForm, enableRequestID,
                 selectedConfig, disabledOn, disableRequestID, configCallVars>>

(* Another form is another request.                                        *)
EnableFormChanged(form) == enableForm' = form /\ enableRequestID' = NewRequestID

ChangeMode(mode) ==
  /\ mode # enableForm.mode
  /\ EnableFormChanged([enableForm EXCEPT !.mode = mode, !.key = NoKey,
                                          !.valueType = "text", !.label = NoLabel])

(* The keys that are offered; a custom key is typed.                       *)
AvailableKeys(mode) ==
  {key \in ConfigKeys : /\ FieldModes[key] = mode
                        /\ mode = "custom" \/ key \notin ExistingFieldKeys}

ChangeFieldKey(key) ==
  /\ key # enableForm.key
  /\ key \in AvailableKeys(enableForm.mode)
  /\ EnableFormChanged([enableForm EXCEPT !.key = key,
       !.label = IF enableForm.mode = "custom" THEN @ ELSE NoLabel])

ChangeValueType(t) ==
  /\ enableForm.mode = "custom"
  /\ t # enableForm.valueType
  /\ EnableFormChanged([enableForm EXCEPT !.valueType = t])

ChangeLabel(label) ==
  /\ enableForm.mode \in {"custom", "dict"}
  /\ label # enableForm.label
  /\ EnableFormChanged([enableForm EXCEPT !.label = label])

ChangeEnabledOn(day) ==
  /\ day # enableForm.enabledOn
  /\ EnableFormChanged([enableForm EXCEPT !.enabledOn = day])

SelectMode ==
  /\ enableOpen
  /\ configSpent < ConfigBudget
  /\ \E mode \in {"builtin", "dict", "custom"} : ChangeMode(mode)
  /\ UNCHANGED <<configVars, listView, fetched, openedOn, enableOpen, selectedConfig,
                 disabledOn, disableRequestID, configCallVars, configSpent>>

EditEnableForm ==
  /\ enableOpen
  /\ ConfigActs
  /\ \/ \E key \in ConfigKeys : ChangeFieldKey(key)
     \/ \E t \in ValueTypes : ChangeValueType(t)
     \/ \E label \in {NoLabel, OwnLabel} : ChangeLabel(label)
     \/ \E day \in 1..LastConfigDate : ChangeEnabledOn(day)
  /\ UNCHANGED <<configVars, listView, fetched, openedOn, enableOpen, selectedConfig,
                 disabledOn, disableRequestID, configCallVars>>

EnableFormValid == enableForm.key # NoKey /\ enableForm.key \notin ExistingFieldKeys

ValueTypeOf(form) ==
  CASE form.mode = "builtin" -> BuiltinType
    [] form.mode = "dict" -> "text"
    [] form.mode = "custom" -> form.valueType

LabelsAtServer(request) ==
  IF request.mode = "dict" /\ request.event.label = NoLabel
  THEN DictNames ELSE {request.event.label}

Sent(request) == onTheWire' = onTheWire \cup {request}
Pending(request) == [phase |-> "sent", call |-> request]

SubmitEnable ==
  /\ enableOpen
  /\ enabling = NotPending
  /\ EnableFormValid
  /\ ConfigActs
  /\ LET request == [at |-> configSpent', attempt |-> 1, id |-> enableRequestID,
                     mode |-> enableForm.mode,
                     event |-> [type |-> "ENABLE", key |-> enableForm.key,
                                valueType |-> ValueTypeOf(enableForm),
                                label |-> enableForm.label,
                                enabledOn |-> enableForm.enabledOn],
                     seen |-> {}]
     IN enabling' = Pending(request) /\ Sent(request)
  /\ UNCHANGED <<configVars, listView, fetched, openedOn, configDialogVars, disabling,
                 answers>>

-----------------------------------------------------------------------------
(* The dialog that disables a field or postpones its end.                  *)

CanDisable(row) == row.disabledOn = NotDisabled
CanPostpone(row) == row.disabledOn # NotDisabled /\ openedOn < row.disabledOn

FirstDisabledOn(mode, row) ==
  IF mode = "disable" THEN Later(openedOn, row.enabledOn)
  ELSE Later(Later(row.disabledOn + 1, openedOn), row.enabledOn)

OpenDisableDialog ==
  /\ ConfigActs
  /\ ~enableOpen /\ selectedConfig = {}
  /\ \E f \in RowsFiltered, mode \in {"disable", "postpone"} :
       LET row == FieldConfigsKnown[f] IN
       /\ IF mode = "disable" THEN CanDisable(row) ELSE CanPostpone(row)
       /\ selectedConfig' = {[mode |-> mode, key |-> f, row |-> row]}
       /\ disabledOn' = FirstDisabledOn(mode, row)
  /\ disableRequestID' = NewRequestID
  /\ UNCHANGED <<configVars, listView, fetched, openedOn, enableOpen, enableForm,
                 enableRequestID, configCallVars>>

CloseDisableDialog ==
  /\ selectedConfig # {}
  /\ ConfigActs
  /\ selectedConfig' = {}
  /\ UNCHANGED <<configVars, listView, fetched, openedOn, enableOpen, enableForm,
                 enableRequestID, disabledOn, disableRequestID, configCallVars>>

(* Mutant of DisabledOnChanged: the request keeps its id.                  *)
DisabledOnKept(day) == disabledOn' = day /\ UNCHANGED disableRequestID

DisabledOnChanged(day) == disabledOn' = day /\ disableRequestID' = NewRequestID

EditDisabledOn ==
  /\ selectedConfig # {}
  /\ ConfigActs
  /\ \E day \in (1..LastConfigDate) \ {disabledOn} : DisabledOnChanged(day)
  /\ UNCHANGED <<configVars, listView, fetched, openedOn, enableOpen, enableForm,
                 enableRequestID, selectedConfig, configCallVars>>

(* Mutant of DisableFormValid: the day before which the field ends now     *)
(* counts as later.                                                        *)
SameDayValid(selected, day) ==
  /\ openedOn <= day
  /\ selected.row.enabledOn <= day
  /\ selected.mode = "postpone" =>
       /\ openedOn < selected.row.disabledOn
       /\ selected.row.disabledOn <= day

DisableFormValid(selected, day) ==
  /\ openedOn <= day
  /\ selected.row.enabledOn <= day
  /\ selected.mode = "postpone" =>
       /\ openedOn < selected.row.disabledOn
       /\ selected.row.disabledOn < day

SubmitDisable ==
  /\ disabling = NotPending
  /\ ConfigActs
  /\ \E selected \in selectedConfig :
       /\ DisableFormValid(selected, disabledOn)
       /\ LET request == [at |-> configSpent', attempt |-> 1, id |-> disableRequestID,
                          mode |-> selected.mode,
                          event |-> [type |-> "DISABLE", key |-> selected.key,
                                     disabledOn |-> disabledOn],
                          seen |-> {selected.row}]
          IN disabling' = Pending(request) /\ Sent(request)
  /\ UNCHANGED <<configVars, listView, fetched, openedOn, configDialogVars, enabling,
                 answers>>

-----------------------------------------------------------------------------
(* The server, the network, the clock and others.                          *)

AtServer(request) ==
  IF request.event.type = "ENABLE"
  THEN {[request.event EXCEPT !.label = label] : label \in LabelsAtServer(request)}
  ELSE {request.event}

(* A disable call is overtaken if its field is not what the page saw or    *)
(* the date its transaction began on is not the page's.                    *)
Overtaken(request) ==
  \/ DateOf(request) # openedOn
  \/ request.event.key \notin DOMAIN configs
  \/ configs[request.event.key] \notin request.seen

(* The transaction of a disable begins on a date and waits for the lock;   *)
(* then it is served, or it is cancelled, and the call is never answered.  *)
DisableBegins ==
  /\ \E request \in onTheWire : request.event.type = "DISABLE" /\ BeginDisable(request)
  /\ UNCHANGED <<listView, fetched, openedOn, configDialogVars, configCallVars, configSpent>>

DisableCancelled ==
  /\ \E request \in DOMAIN beganOn :
       /\ EndWithoutEffect(request)
       /\ onTheWire' = onTheWire \ {request}
  /\ UNCHANGED <<listView, fetched, openedOn, configDialogVars, enabling, disabling, answers,
                 configSpent>>

ServeConfigCall ==
  /\ \E request \in onTheWire : \E e \in AtServer(request) :
       /\ Handle(request, request.id, e)
       /\ onTheWire' = onTheWire \ {request}
       /\ answers' = answers \cup
            {[request |-> request, outcome |-> OutcomeOf(request, request.id, e),
              overtaken |-> Overtaken(request)]}
  /\ UNCHANGED <<listView, fetched, openedOn, configDialogVars, enabling, disabling, configSpent>>

(* An answer reaches the mutation that waits for it, if it still does.  A  *)
(* mutation that succeeded is pending until the list was fetched again, or *)
(* that failed, too; then it closes its dialog.                            *)
AfterAnswer(pending, answer) ==
  IF pending.call # answer.request THEN pending
  ELSE IF answer.outcome = "done" THEN [pending EXCEPT !.phase = "refreshing"]
  ELSE NotPending

ConfigAnswered ==
  /\ \E answer \in answers :
       /\ answers' = answers \ {answer}
       /\ enabling' = AfterAnswer(enabling, answer)
       /\ disabling' = AfterAnswer(disabling, answer)
  /\ UNCHANGED <<configVars, listView, fetched, openedOn, configDialogVars, onTheWire, configSpent>>

EnableRefreshed ==
  /\ enabling.phase = "refreshing"
  /\ Refetched \/ UNCHANGED fetched
  /\ enabling' = NotPending
  /\ enableOpen' = FALSE
  /\ UNCHANGED <<configVars, listView, openedOn, enableForm, enableRequestID, selectedConfig,
                 disabledOn, disableRequestID, disabling, onTheWire, answers,
                 configSpent>>

DisableRefreshed ==
  /\ disabling.phase = "refreshing"
  /\ Refetched \/ UNCHANGED fetched
  /\ disabling' = NotPending
  /\ selectedConfig' = {}
  /\ UNCHANGED <<configVars, listView, openedOn, enableOpen, enableForm, enableRequestID,
                 disabledOn, disableRequestID, enabling, onTheWire, answers,
                 configSpent>>

(* The connection breaks or the answer is late: the call is sent once more *)
(* as it was, then the mutation fails.  What was sent may still arrive.    *)
ConfigCallResent(request) ==
  LET again == [request EXCEPT !.attempt = @ + 1] IN
  /\ request.attempt < MaxAttempts
  /\ Sent(again)
  /\ \/ enabling.call = request /\ enabling' = Pending(again) /\ UNCHANGED disabling
     \/ disabling.call = request /\ disabling' = Pending(again) /\ UNCHANGED enabling

ConfigCallFails(request) ==
  /\ request.attempt = MaxAttempts
  /\ \/ enabling.call = request /\ enabling' = NotPending /\ UNCHANGED disabling
     \/ disabling.call = request /\ disabling' = NotPending /\ UNCHANGED enabling
  /\ UNCHANGED onTheWire

ConfigCallLost ==
  /\ \E pending \in {enabling, disabling} :
       /\ pending.phase = "sent"
       /\ ConfigCallResent(pending.call) \/ ConfigCallFails(pending.call)
  /\ UNCHANGED <<configVars, listView, fetched, openedOn, configDialogVars,
                 answers, configSpent>>

(* Another administrator enables a field, ends one at once or postpones an *)
(* end as far as the bound on the date allows, by calls that would be done *)
(* if they were served at once.                                            *)
OthersRequest(e) ==
  [at |-> configSpent', attempt |-> MaxAttempts, id |-> OthersRequestID, mode |-> "others",
   event |-> e, seen |-> {}]
OthersDay(f) == IF configs[f].disabledOn = NotDisabled THEN currentDate ELSE LastConfigDate

OtherAdminEnables ==
  /\ ConfigActs
  /\ \E f \in ConfigKeys : EnableTenantFieldConfig(OthersRequestID,
       [type |-> "ENABLE", key |-> f, valueType |-> BuiltinType,
        label |-> NoLabel, enabledOn |-> currentDate])
  /\ UNCHANGED <<listView, fetched, openedOn, configDialogVars, configCallVars>>

OtherAdminDisables ==
  /\ ConfigActs
  /\ \E f \in DOMAIN configs :
       LET request == OthersRequest([type |-> "DISABLE", key |-> f,
                                     disabledOn |-> OthersDay(f)])
       IN /\ DisableAllowed(request.event, currentDate)
          /\ BeginDisable(request)
          /\ Sent(request)
  /\ UNCHANGED <<listView, fetched, openedOn, configDialogVars, enabling, disabling, answers>>

Midnight ==
  /\ ConfigActs
  /\ currentDate < LastConfigDate
  /\ NextDate
  /\ UNCHANGED <<listView, fetched, openedOn, configDialogVars, configCallVars>>

ConfigPageNext ==
  \/ ApplyFilter \/ ConfigsFetched \/ WindowFocused
  \/ OpenEnableDialog \/ CloseEnableDialog \/ SelectMode \/ EditEnableForm \/ SubmitEnable
  \/ OpenDisableDialog \/ CloseDisableDialog \/ EditDisabledOn \/ SubmitDisable
  \/ DisableBegins \/ DisableCancelled \/ ServeConfigCall
  \/ ConfigAnswered \/ EnableRefreshed \/ DisableRefreshed \/ ConfigCallLost
  \/ OtherAdminEnables \/ OtherAdminDisables \/ Midnight

ConfigPageSpec == ConfigPageInit /\ [][ConfigPageNext]_configPageVars

-----------------------------------------------------------------------------
(* A request id names one change: every edit of a form makes a new id, so  *)
(* a call that is sent again after its answer was lost is recognised and   *)
(* never taken for another change, but for a field that was left the name  *)
(* of a dictionary that was renamed in between.                            *)
RequestNamesOneChange ==
  \A a \in answers : a.outcome = "conflict" =>
    a.request.mode = "dict" /\ a.request.event.label = NoLabel

(* The rules the page checks before it disables or postpones are the rules *)
(* of the server: a call is refused only if another administrator or the   *)
(* date has overtaken what the page showed.                                *)
RefusedOnlyIfOvertaken ==
  \A a \in answers :
    a.outcome = "refused" /\ a.request.event.type = "DISABLE" => a.overtaken
=============================================================================
