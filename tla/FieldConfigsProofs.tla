-------------------------- MODULE FieldConfigsProofs --------------------------
(***************************************************************************)
(* Theorems about FieldConfigs, for every set of keys, value types,        *)
(* columns, labels and requests: columns are never shared, the table is    *)
(* what its log says, and the past is not rewritten.                       *)
(***************************************************************************)
EXTENDS FieldConfigs, TLAPS

Configs == [column : Columns, label : Labels, enabledOn : ConfigDays, disabledOn : Nat]

ConfigsTypeOK ==
  /\ \A f \in DOMAIN configs : f \in ConfigKeys /\ configs[f] \in Configs
  /\ \A id \in DOMAIN events : events[id] \in EnableEvents \cup DisableEvents
  /\ currentDate \in ConfigDays
  /\ \A call \in DOMAIN beganOn : beganOn[call] \in ConfigDays

(* A field that is not configured has no end in the log: what a later      *)
(* ENABLE begins has not ended yet.                                        *)
DisabledAreConfigured ==
  \A id \in DOMAIN events : events[id].type = "DISABLE" => events[id].key \in DOMAIN configs

ConfigsInv ==
  /\ ConfigsTypeOK
  /\ ColumnsDistinct
  /\ DisabledAreConfigured
  /\ ConfigsFollowEvents

-----------------------------------------------------------------------------
(* An ENABLE takes a column of the field's value type that no field has.   *)
LEMMA EnableTakesFreeColumn ==
  ASSUME ColumnCountAssumption, NEW e \in EnableEvents, EnableField(e)
  PROVE  \E k \in Nat :
           LET config == [column |-> <<e.valueType, k>>, label |-> e.label,
                          enabledOn |-> e.enabledOn, disabledOn |-> NotDisabled]
           IN /\ configs' = Extended(configs, e.key, config)
              /\ config \in Configs
              /\ \A f \in DOMAIN configs : configs[f].column # <<e.valueType, k>>
<1>1. PICK k \in FreeColumns(e.valueType) :
        configs' = Extended(configs, e.key,
                     [column |-> <<e.valueType, k>>, label |-> e.label,
                      enabledOn |-> e.enabledOn, disabledOn |-> NotDisabled])
  BY DEF EnableField
<1>2. e.valueType \in ValueTypes /\ e.label \in Labels /\ e.enabledOn \in ConfigDays
  BY DEF EnableEvents
<1>3. ColumnCount[e.valueType] \in Nat
  BY <1>2 DEF ColumnCountAssumption
<1>4. k \in Nat /\ \A f \in DOMAIN configs : configs[f].column # <<e.valueType, k>>
  BY <1>3 DEF FreeColumns
<1>5. <<e.valueType, k>> \in Columns
  BY <1>2, <1>4 DEF Columns
<1>6. [column |-> <<e.valueType, k>>, label |-> e.label,
       enabledOn |-> e.enabledOn, disabledOn |-> NotDisabled] \in Configs
  BY <1>2, <1>5 DEF Configs, NotDisabled
<1>7. QED
  BY <1>1, <1>4, <1>6

-----------------------------------------------------------------------------
(* The invariant holds of the empty tables.                                *)
LEMMA ConfigsInvInit == ConfigsInit => ConfigsInv
BY DEF ConfigsInit, ConfigsInv, ConfigsTypeOK, ColumnsDistinct, DisabledAreConfigured,
       ConfigsFollowEvents, NoEntries, ConfigDays

(* An ENABLE keeps it.                                                     *)
LEMMA EnableKeepsInv ==
  ASSUME ColumnCountAssumption, ConfigsInv, NEW id,
         NEW e \in EnableEvents, EnableTenantFieldConfig(id, e)
  PROVE  ConfigsInv'
<1>1. PICK k \in Nat :
        LET config == [column |-> <<e.valueType, k>>, label |-> e.label,
                       enabledOn |-> e.enabledOn, disabledOn |-> NotDisabled]
        IN /\ configs' = Extended(configs, e.key, config)
           /\ config \in Configs
           /\ \A f \in DOMAIN configs : configs[f].column # <<e.valueType, k>>
  BY EnableTakesFreeColumn DEF EnableTenantFieldConfig
<1> DEFINE config == [column |-> <<e.valueType, k>>, label |-> e.label,
                      enabledOn |-> e.enabledOn, disabledOn |-> NotDisabled]
<1>2. /\ DOMAIN configs' = DOMAIN configs \cup {e.key}
      /\ configs'[e.key] = config
      /\ \A f \in DOMAIN configs : f # e.key => configs'[f] = configs[f]
  BY <1>1 DEF Extended
<1>3. e.key \notin DOMAIN configs /\ id \notin DOMAIN events
  BY DEF EnableTenantFieldConfig, EnableField, EnableAllowed, IsNew
<1>4. /\ DOMAIN events' = DOMAIN events \cup {id}
      /\ events'[id] = e
      /\ \A i \in DOMAIN events : events'[i] = events[i]
  BY <1>3 DEF EnableTenantFieldConfig, Logged, Extended
<1>5. /\ e.key \in ConfigKeys /\ e.type = "ENABLE"
      /\ currentDate' = currentDate /\ beganOn' = beganOn
  BY DEF EnableEvents, EnableTenantFieldConfig
<1> HIDE DEF config
<1>6. /\ config \in Configs
      /\ config.column = <<e.valueType, k>>
      /\ config.enabledOn = e.enabledOn /\ config.disabledOn = NotDisabled
  BY <1>1 DEF config
<1>7. ConfigsTypeOK'
  BY <1>2, <1>3, <1>4, <1>5, <1>6 DEF ConfigsInv, ConfigsTypeOK
<1>8. ColumnsDistinct'
  BY <1>1, <1>2, <1>3, <1>6 DEF ConfigsInv, ColumnsDistinct
<1>9. DisabledAreConfigured'
  BY <1>2, <1>4, <1>5 DEF ConfigsInv, DisabledAreConfigured
<1>10. ConfigsFollowEvents'
  <2> SUFFICES ASSUME NEW f \in DOMAIN configs'
               PROVE  /\ \E i \in DOMAIN events' :
                           /\ events'[i].type = "ENABLE" /\ events'[i].key = f
                           /\ events'[i].enabledOn = configs'[f].enabledOn
                      /\ configs'[f].disabledOn # NotDisabled =>
                           \E i \in DOMAIN events' :
                             /\ events'[i].type = "DISABLE" /\ events'[i].key = f
                             /\ events'[i].disabledOn = configs'[f].disabledOn
                      /\ \A i \in DOMAIN events' :
                           events'[i].type = "DISABLE" /\ events'[i].key = f =>
                             events'[i].disabledOn <= configs'[f].disabledOn
    BY DEF ConfigsFollowEvents
  <2>1. CASE f = e.key
    <3>1. \A i \in DOMAIN events' : ~(events'[i].type = "DISABLE" /\ events'[i].key = f)
      BY <2>1, <1>3, <1>4, <1>5 DEF ConfigsInv, DisabledAreConfigured
    <3>2. QED
      BY <2>1, <3>1, <1>2, <1>4, <1>5, <1>6
  <2>2. CASE f # e.key
    <3>1. f \in DOMAIN configs /\ configs'[f] = configs[f]
      BY <2>2, <1>2
    <3>2. QED
      BY <2>2, <3>1, <1>4, <1>5 DEF ConfigsInv, ConfigsFollowEvents
  <2>3. QED
    BY <2>1, <2>2
<1>11. QED
  BY <1>7, <1>8, <1>9, <1>10 DEF ConfigsInv

(* A DISABLE moves one end, to a day that is later than all before it.     *)
LEMMA DisableFacts ==
  ASSUME ConfigsTypeOK, NEW call, NEW id,
         NEW e \in DisableEvents, DisableTenantFieldConfig(call, id, e)
  PROVE  /\ e.key \in DOMAIN configs /\ id \notin DOMAIN events
         /\ call \in DOMAIN beganOn /\ beganOn[call] \in ConfigDays
         /\ DisabledOnAllowed(configs[e.key], e.disabledOn, beganOn[call])
         /\ DOMAIN configs' = DOMAIN configs
         /\ \A f \in DOMAIN configs : f # e.key => configs'[f] = configs[f]
         /\ configs'[e.key] = [configs[e.key] EXCEPT !.disabledOn = e.disabledOn]
         /\ e.disabledOn \in ConfigDays
         /\ configs[e.key].disabledOn < e.disabledOn
         /\ currentDate' = currentDate /\ beganOn' = Reduced(beganOn, call)
<1>1. e.key \in DOMAIN configs /\ id \notin DOMAIN events
      /\ call \in DOMAIN beganOn /\ beganOn[call] \in ConfigDays
      /\ DisabledOnAllowed(configs[e.key], e.disabledOn, beganOn[call])
  BY DEF DisableTenantFieldConfig, DisableField, DisableAllowed, IsNew, ConfigsTypeOK
<1>2. configs' = [configs EXCEPT ![e.key].disabledOn = e.disabledOn]
      /\ currentDate' = currentDate /\ beganOn' = Reduced(beganOn, call)
  BY DEF DisableTenantFieldConfig, DisableField
<1>3. e.disabledOn \in ConfigDays
  BY DEF DisableEvents
<1>4. configs[e.key].disabledOn < e.disabledOn
  <2>1. configs[e.key].disabledOn \in Nat
    BY <1>1 DEF ConfigsTypeOK, Configs
  <2>2. QED
    BY <1>1, <1>3, <2>1 DEF DisabledOnAllowed, NotDisabled, ConfigDays
<1>5. QED
  BY <1>1, <1>2, <1>3, <1>4

(* It keeps the invariant.                                                 *)
LEMMA DisableKeepsInv ==
  ASSUME ConfigsInv, NEW call, NEW id,
         NEW e \in DisableEvents, DisableTenantFieldConfig(call, id, e)
  PROVE  ConfigsInv'
<1> DEFINE old == configs[e.key]
           new == configs'[e.key]
<1>1. /\ e.key \in DOMAIN configs /\ id \notin DOMAIN events
      /\ DOMAIN configs' = DOMAIN configs
      /\ \A f \in DOMAIN configs : f # e.key => configs'[f] = configs[f]
      /\ new = [old EXCEPT !.disabledOn = e.disabledOn]
      /\ e.disabledOn \in ConfigDays /\ old.disabledOn < e.disabledOn
      /\ currentDate' = currentDate
  BY DisableFacts DEF ConfigsInv
<1>11. \A c \in DOMAIN beganOn' : c \in DOMAIN beganOn /\ beganOn'[c] = beganOn[c]
  BY DEF DisableTenantFieldConfig, Reduced
<1>2. /\ DOMAIN events' = DOMAIN events \cup {id}
      /\ events'[id] = e
      /\ \A i \in DOMAIN events : events'[i] = events[i]
  BY <1>1 DEF DisableTenantFieldConfig, Logged, Extended
<1>3. e.type = "DISABLE"
  BY DEF DisableEvents
<1>4. old \in Configs
  BY <1>1 DEF ConfigsInv, ConfigsTypeOK
<1>5. /\ new \in Configs /\ new.column = old.column
      /\ new.enabledOn = old.enabledOn /\ new.disabledOn = e.disabledOn
  BY <1>1, <1>4 DEF Configs, ConfigDays
<1> HIDE DEF old, new
<1>6. ConfigsTypeOK'
  BY <1>1, <1>2, <1>5, <1>11 DEF ConfigsInv, ConfigsTypeOK, new
<1>7. ColumnsDistinct'
  <2>1. \A f \in DOMAIN configs : configs'[f].column = configs[f].column
    <3> TAKE f \in DOMAIN configs
    <3>1. CASE f = e.key
      BY <3>1, <1>5 DEF old, new
    <3>2. CASE f # e.key
      BY <3>2, <1>1
    <3>3. QED
      BY <3>1, <3>2
  <2>2. QED
    BY <2>1, <1>1 DEF ConfigsInv, ColumnsDistinct
<1>8. DisabledAreConfigured'
  BY <1>1, <1>2 DEF ConfigsInv, DisabledAreConfigured
<1>9. ConfigsFollowEvents'
  <2> SUFFICES ASSUME NEW f \in DOMAIN configs'
               PROVE  /\ \E i \in DOMAIN events' :
                           /\ events'[i].type = "ENABLE" /\ events'[i].key = f
                           /\ events'[i].enabledOn = configs'[f].enabledOn
                      /\ configs'[f].disabledOn # NotDisabled =>
                           \E i \in DOMAIN events' :
                             /\ events'[i].type = "DISABLE" /\ events'[i].key = f
                             /\ events'[i].disabledOn = configs'[f].disabledOn
                      /\ \A i \in DOMAIN events' :
                           events'[i].type = "DISABLE" /\ events'[i].key = f =>
                             events'[i].disabledOn <= configs'[f].disabledOn
    BY DEF ConfigsFollowEvents
  <2>1. CASE f = e.key
    <3>1. \A i \in DOMAIN events :
            events[i].type = "DISABLE" /\ events[i].key = f =>
              events[i].disabledOn \in Nat /\ events[i].disabledOn <= old.disabledOn
      BY <2>1, <1>1 DEF ConfigsInv, ConfigsTypeOK, ConfigsFollowEvents, EnableEvents,
                        DisableEvents, ConfigDays, old
    <3>2. \E i \in DOMAIN events :
            /\ events[i].type = "ENABLE" /\ events[i].key = f
            /\ events[i].enabledOn = old.enabledOn
      BY <2>1, <1>1 DEF ConfigsInv, ConfigsFollowEvents, old
    <3>3. old.disabledOn \in Nat /\ e.disabledOn \in Nat
      BY <1>1, <1>4 DEF Configs, ConfigDays
    <3>4. \A i \in DOMAIN events' :
            events'[i].type = "DISABLE" /\ events'[i].key = f =>
              events'[i].disabledOn <= new.disabledOn
      BY <3>1, <3>3, <1>1, <1>2, <1>5
    <3>5. QED
      BY <2>1, <3>2, <3>4, <1>2, <1>3, <1>5 DEF new, DisableEvents
  <2>2. CASE f # e.key
    <3>1. f \in DOMAIN configs /\ configs'[f] = configs[f]
      BY <2>2, <1>1
    <3>2. QED
      BY <2>2, <3>1, <1>1, <1>2 DEF ConfigsInv, ConfigsFollowEvents
  <2>3. QED
    BY <2>1, <2>2
<1>10. QED
  BY <1>6, <1>7, <1>8, <1>9 DEF ConfigsInv

(* A step of the tables, whoever made the request id.                      *)
ConfigChange ==
  \/ \E id : \E e \in EnableEvents : EnableTenantFieldConfig(id, e)
  \/ \E call, id : \E e \in DisableEvents : DisableTenantFieldConfig(call, id, e)
  \/ \E call : BeginDisable(call) \/ EndWithoutEffect(call)
  \/ NextDate

LEMMA NextIsChange == ConfigsNext => ConfigChange
BY DEF ConfigsNext, ConfigChange

(* A transaction that begins, or ends without effect, changes what waits.  *)
LEMMA WaitingChange ==
  ASSUME NEW call, BeginDisable(call) \/ EndWithoutEffect(call)
  PROVE  /\ UNCHANGED <<configs, events, currentDate>>
         /\ \A c \in DOMAIN beganOn' :
              \/ c \in DOMAIN beganOn /\ beganOn'[c] = beganOn[c]
              \/ beganOn'[c] = currentDate
<1>1. CASE BeginDisable(call)
  BY <1>1 DEF BeginDisable, Extended
<1>2. CASE EndWithoutEffect(call)
  BY <1>2 DEF EndWithoutEffect, Reduced
<1>3. QED
  BY <1>1, <1>2

(* So does a day that passes, and so does every step.                      *)
LEMMA ConfigsInvNext ==
  ASSUME ColumnCountAssumption, ConfigsInv, [ConfigChange]_configVars
  PROVE  ConfigsInv'
<1>1. CASE \E id : \E e \in EnableEvents : EnableTenantFieldConfig(id, e)
  BY <1>1, EnableKeepsInv
<1>2. CASE \E call, id : \E e \in DisableEvents : DisableTenantFieldConfig(call, id, e)
  BY <1>2, DisableKeepsInv
<1>3. CASE NextDate
  BY <1>3 DEF NextDate, ConfigsInv, ConfigsTypeOK, ColumnsDistinct, DisabledAreConfigured,
              ConfigsFollowEvents, ConfigDays
<1>6. CASE \E call : BeginDisable(call) \/ EndWithoutEffect(call)
  <2>1. UNCHANGED <<configs, events, currentDate>> /\ ConfigsTypeOK'
    BY <1>6, WaitingChange DEF ConfigsInv, ConfigsTypeOK
  <2>2. QED
    BY <2>1 DEF ConfigsInv, ColumnsDistinct, DisabledAreConfigured, ConfigsFollowEvents
<1>4. CASE UNCHANGED configVars
  BY <1>4 DEF configVars, ConfigsInv, ConfigsTypeOK, ColumnsDistinct, DisabledAreConfigured,
              ConfigsFollowEvents
<1>5. QED
  BY <1>1, <1>2, <1>3, <1>4, <1>6 DEF ConfigChange

(* What is true of the tables of every tenant at any time.                 *)
THEOREM ConfigsAlwaysInv == ConfigsSpec => []ConfigsInv
<1> USE ColumnCountAssumption
<1>1. ConfigsInit => ConfigsInv
  BY ConfigsInvInit
<1>2. ConfigsInv /\ [ConfigsNext]_configVars => ConfigsInv'
  BY ConfigsInvNext, NextIsChange
<1>3. QED
  BY <1>1, <1>2, PTL DEF ConfigsSpec

(* No two fields, disabled ones included, ever share a physical column,    *)
(* however many fields compete for however few columns                     *)
(* (enable_tenant_field_config).                                           *)
THEOREM ColumnsAlwaysDistinct == ConfigsSpec => []ColumnsDistinct
<1>1. ConfigsInv => ColumnsDistinct
  BY DEF ConfigsInv
<1>2. QED
  BY <1>1, ConfigsAlwaysInv, PTL

(* The table of field configurations is always what its events say: one    *)
(* ENABLE begins a field, the latest of its DISABLE events ends it.        *)
THEOREM ConfigsAlwaysFollowEvents == ConfigsSpec => []ConfigsFollowEvents
<1>1. ConfigsInv => ConfigsFollowEvents
  BY DEF ConfigsInv
<1>2. QED
  BY <1>1, ConfigsAlwaysInv, PTL

-----------------------------------------------------------------------------
(* A field is on a past day what it was, before and after a new end.       *)
LEMMA DisableKeepsPast ==
  ASSUME ConfigsTypeOK, NEW call, NEW id,
         NEW e \in DisableEvents, DisableTenantFieldConfig(call, id, e)
  PROVE  PastKept
<1> SUFFICES ASSUME NEW f \in DOMAIN configs, NEW d \in DaysOver
             PROVE  /\ f \in DOMAIN configs'
                    /\ EnabledAsOf(configs'[f], d) = EnabledAsOf(configs[f], d)
  BY DisableFacts DEF PastKept
<1>1. f \in DOMAIN configs'
  BY DisableFacts
<1>2. CASE f # e.key
  BY <1>1, <1>2, DisableFacts
<1>3. CASE f = e.key
  <2>7. call \in DOMAIN beganOn /\ beganOn[call] \in ConfigDays
    BY DisableFacts
  <2>1. /\ configs[f] \in Configs /\ beganOn[call] \in Nat
        /\ d \in Nat /\ d < beganOn[call]
    BY <2>7 DEF ConfigsTypeOK, ConfigDays, DaysOver
  <2>2. /\ configs'[f] = [configs[f] EXCEPT !.disabledOn = e.disabledOn]
        /\ DisabledOnAllowed(configs[f], e.disabledOn, beganOn[call])
        /\ e.disabledOn \in ConfigDays
    BY <1>3, DisableFacts
  <2>3. /\ configs'[f].enabledOn = configs[f].enabledOn
        /\ configs'[f].disabledOn = e.disabledOn
        /\ configs[f].disabledOn \in Nat
    BY <2>1, <2>2 DEF Configs
  <2>4. d < e.disabledOn
    BY <2>1, <2>2 DEF DisabledOnAllowed, ConfigDays
  <2>5. configs[f].disabledOn # NotDisabled => d < configs[f].disabledOn
    BY <2>1, <2>2, <2>3 DEF DisabledOnAllowed
  <2>6. QED
    BY <1>1, <2>3, <2>4, <2>5 DEF EnabledAsOf
<1>4. QED
  BY <1>2, <1>3

(* An ENABLE leaves the other fields alone.                                *)
LEMMA EnableKeepsPast ==
  ASSUME ColumnCountAssumption, NEW id, NEW e \in EnableEvents, EnableTenantFieldConfig(id, e)
  PROVE  PastKept
<1>1. e.key \notin DOMAIN configs
  BY DEF EnableTenantFieldConfig, EnableField, EnableAllowed
<1>2. /\ DOMAIN configs' = DOMAIN configs \cup {e.key}
      /\ \A f \in DOMAIN configs : configs'[f] = configs[f]
  BY <1>1, EnableTakesFreeColumn, ZenonT(60) DEF EnableTenantFieldConfig, Extended
<1>3. QED
  BY <1>2 DEF PastKept

LEMMA ChangeKeepsPast ==
  ASSUME ColumnCountAssumption, ConfigsInv, [ConfigChange]_configVars
  PROVE  [PastKept]_configVars
<1>1. CASE \E id : \E e \in EnableEvents : EnableTenantFieldConfig(id, e)
  BY <1>1, EnableKeepsPast
<1>2. CASE \E call, id : \E e \in DisableEvents : DisableTenantFieldConfig(call, id, e)
  BY <1>2, DisableKeepsPast DEF ConfigsInv
<1>3. CASE NextDate
  BY <1>3 DEF NextDate, PastKept
<1>6. CASE \E call : BeginDisable(call) \/ EndWithoutEffect(call)
  BY <1>6, WaitingChange DEF PastKept
<1>4. CASE UNCHANGED configVars
  BY <1>4
<1>5. QED
  BY <1>1, <1>2, <1>3, <1>4, <1>6 DEF ConfigChange

(* No step rewrites on which of the days that are over for every call that *)
(* has begun a field was in force, or takes a configured field away: the   *)
(* rules of disable_tenant_field_config, held against the date of the      *)
(* transaction, are enough, however long transactions wait for the lock.   *)
THEOREM PastAlwaysKept == ConfigsSpec => PastIsKept
<1>1. ConfigsInv /\ [ConfigsNext]_configVars => [PastKept]_configVars
  BY ColumnCountAssumption, ChangeKeepsPast, NextIsChange
<1>2. QED
  BY <1>1, ConfigsAlwaysInv, PTL DEF ConfigsSpec, PastIsKept
=============================================================================
