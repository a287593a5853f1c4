----------------------------- MODULE FieldConfigs -----------------------------
(***************************************************************************)
(* The extension fields of a tenant: a field is enabled once, on a         *)
(* physical column of its value type, and disabled or its end postponed.   *)
(* Every call carries a request id that names one change; the database     *)
(* functions hold one lock per tenant, so each is a step.  The date a      *)
(* disable is held against is older: it is that of the beginning of the    *)
(* transaction, which then waits for the lock.                             *)
(***************************************************************************)
EXTENDS Integers

CONSTANTS ConfigKeys,      \* field keys
          ValueTypes,
          ColumnCount,     \* how many physical columns a value type has
          Labels,          \* what a field can be called
          ConfigRequestIDs

ASSUME ColumnCountAssumption == ColumnCount \in [ValueTypes -> Nat]

VARIABLES configs,         \* tenant_field_configs, by field key
          events,          \* tenant_field_config_events, by request id
          currentDate,
          beganOn          \* current_date of the disables that wait, by call

configVars == <<configs, events, currentDate, beganOn>>

ConfigDays == Nat \ {0}
NotDisabled == 0

Columns == {<<t, k>> : t \in ValueTypes, k \in Nat}

EnableEvents == [type : {"ENABLE"}, key : ConfigKeys, valueType : ValueTypes,
                 label : Labels, enabledOn : ConfigDays]
DisableEvents == [type : {"DISABLE"}, key : ConfigKeys, disabledOn : ConfigDays]

Extended(f, x, y) == [z \in DOMAIN f \cup {x} |-> IF z = x THEN y ELSE f[z]]
Reduced(f, x) == [z \in DOMAIN f \ {x} |-> f[z]]

(* Mutant of FreeColumns: the columns of disabled fields are taken again.  *)
UnusedColumns(t) ==
  {k \in 1..ColumnCount[t] : \A f \in DOMAIN configs :
     configs[f].column = <<t, k>> => configs[f].disabledOn \in 1..currentDate}

(* A column stays with its field for good, disabled or not.                *)
FreeColumns(t) ==
  {k \in 1..ColumnCount[t] : \A f \in DOMAIN configs : configs[f].column # <<t, k>>}

EnableAllowed(e) == e.key \notin DOMAIN configs /\ FreeColumns(e.valueType) # {}

EnableField(e) ==
  /\ EnableAllowed(e)
  /\ \E k \in FreeColumns(e.valueType) :
       /\ \A j \in FreeColumns(e.valueType) : k <= j
       /\ configs' = Extended(configs, e.key,
            [column |-> <<e.valueType, k>>, label |-> e.label,
             enabledOn |-> e.enabledOn, disabledOn |-> NotDisabled])

(* Mutants of DisabledOnAllowed: the end may lie in the past; it may be    *)
(* moved to an earlier day.                                                *)
BackdatedOnAllowed(config, day, date) ==
  /\ config.enabledOn <= day
  /\ config.disabledOn # NotDisabled =>
       date < config.disabledOn /\ config.disabledOn < day

AnyOnAllowed(config, day, date) ==
  /\ config.enabledOn <= day
  /\ date <= day
  /\ config.disabledOn # NotDisabled => date < config.disabledOn

(* The end is not before the beginning and not before the date of the      *)
(* transaction; an end that was set is only postponed, and only until it   *)
(* is reached.  The trigger on the table repeats the rule.                 *)
DisabledOnAllowed(config, day, date) ==
  /\ config.enabledOn <= day
  /\ date <= day
  /\ config.disabledOn # NotDisabled =>
       date < config.disabledOn /\ config.disabledOn < day

DisableAllowed(e, date) ==
  e.key \in DOMAIN configs /\ DisabledOnAllowed(configs[e.key], e.disabledOn, date)

DisableField(e, date) ==
  /\ DisableAllowed(e, date)
  /\ configs' = [configs EXCEPT ![e.key].disabledOn = e.disabledOn]

IsNew(id) == id \notin DOMAIN events
Logged(id, e) == events' = Extended(events, id, e)

EnableTenantFieldConfig(id, e) ==
  /\ IsNew(id)
  /\ EnableField(e)
  /\ Logged(id, e)
  /\ UNCHANGED <<currentDate, beganOn>>

(* The transaction of a disable begins; it has the lock; it ends without   *)
(* effect, as one that is refused or cancelled does.                       *)
BeginDisable(call) ==
  /\ call \notin DOMAIN beganOn
  /\ beganOn' = Extended(beganOn, call, currentDate)
  /\ UNCHANGED <<configs, events, currentDate>>

DisableTenantFieldConfig(call, id, e) ==
  /\ call \in DOMAIN beganOn
  /\ IsNew(id)
  /\ DisableField(e, beganOn[call])
  /\ Logged(id, e)
  /\ beganOn' = Reduced(beganOn, call)
  /\ UNCHANGED currentDate

EndWithoutEffect(call) ==
  /\ beganOn' = Reduced(beganOn, call)
  /\ UNCHANGED <<configs, events, currentDate>>

(* What a call is answered: a request that is known is done already, or    *)
(* was another change.                                                     *)
DateOf(call) == IF call \in DOMAIN beganOn THEN beganOn[call] ELSE currentDate

AllowedEvent(call, e) ==
  IF e.type = "ENABLE" THEN EnableAllowed(e) ELSE DisableAllowed(e, DateOf(call))

OutcomeOf(call, id, e) ==
  IF IsNew(id) THEN IF AllowedEvent(call, e) THEN "done" ELSE "refused"
  ELSE IF events[id] = e THEN "done" ELSE "conflict"

Handle(call, id, e) ==
  /\ e.type = "DISABLE" => call \in DOMAIN beganOn
  /\ \/ e.type = "ENABLE" /\ EnableTenantFieldConfig(id, e)
     \/ e.type = "DISABLE" /\ DisableTenantFieldConfig(call, id, e)
     \/ ~(IsNew(id) /\ AllowedEvent(call, e)) /\ EndWithoutEffect(call)

NextDate == currentDate' = currentDate + 1 /\ UNCHANGED <<configs, events, beganOn>>

NoEntries == [x \in {} |-> x]

ConfigsInit ==
  /\ configs = NoEntries /\ events = NoEntries
  /\ currentDate = 1 /\ beganOn = NoEntries

(* A call is one of any number of attempts at a change.                    *)
ConfigsNext ==
  \/ \E id \in ConfigRequestIDs, e \in EnableEvents : EnableTenantFieldConfig(id, e)
  \/ \E id \in ConfigRequestIDs, e \in DisableEvents, attempt \in Nat :
       LET call == <<id, e, attempt>> IN
       \/ BeginDisable(call)
       \/ DisableTenantFieldConfig(call, id, e)
       \/ EndWithoutEffect(call)
  \/ NextDate

ConfigsSpec == ConfigsInit /\ [][ConfigsNext]_configVars

EnabledAsOf(config, day) ==
  /\ config.enabledOn <= day
  /\ config.disabledOn # NotDisabled => day < config.disabledOn

(* Two fields never have the same column, so no value is read under the    *)
(* name of another field, however long ago that one was disabled.          *)
ColumnsDistinct ==
  \A f, g \in DOMAIN configs : configs[f].column = configs[g].column => f = g

(* The table is what its log says: a field begins on the day of its one    *)
(* ENABLE event and ends on the latest day of its DISABLE events.          *)
ConfigsFollowEvents ==
  \A f \in DOMAIN configs :
    /\ \E id \in DOMAIN events :
         /\ events[id].type = "ENABLE" /\ events[id].key = f
         /\ events[id].enabledOn = configs[f].enabledOn
    /\ configs[f].disabledOn # NotDisabled =>
         \E id \in DOMAIN events :
           /\ events[id].type = "DISABLE" /\ events[id].key = f
           /\ events[id].disabledOn = configs[f].disabledOn
    /\ \A id \in DOMAIN events :
         events[id].type = "DISABLE" /\ events[id].key = f =>
           events[id].disabledOn <= configs[f].disabledOn

(* What a field was on a day that is over is not rewritten, nor is a field *)
(* taken away, by any call: a day counts as over when it is over for every *)
(* call that has begun.  disable_tenant_field_config holds a disable       *)
(* against current_date, the date of its transaction, so that one that     *)
(* waits over midnight may still end a field on the day it began, but none *)
(* reaches further back, however long it waits and whoever wrote since.    *)
DaysOver == {d \in 1..(currentDate - 1) : \A call \in DOMAIN beganOn : d < beganOn[call]}

PastKept ==
  \A f \in DOMAIN configs :
    /\ f \in DOMAIN configs'
    /\ \A d \in DaysOver : EnabledAsOf(configs'[f], d) = EnabledAsOf(configs[f], d)

PastIsKept == [][PastKept]_configVars
=============================================================================
