# Formal models of Bugs & Blossoms

TLA+ models of the HR/organisation system in `src/`: the organisation kernel in
SQL, the CubeBox turns and their panel, and the pages of the web application
with the parts of the server they write to. TLC configurations check them on
small instances, and TLAPS checks theorems about them for every value of the
constants. Everything is translated from the code; where a plan document says
something else, the disagreement is a finding (section 5).

Paths below are relative to `src/`. `schema/` stands for
`modules/orgunit/infrastructure/persistence/schema/`, `pages/` for
`apps/web/src/pages/`.

## 1. Inventory

### OrgUnit kernel — `schema/00023`, `00026`, `00028`
* **State.** `org_events` (append-only log; base events CREATE, UPDATE, MOVE,
  RENAME, ENABLE, DISABLE, SET_BUSINESS_UNIT, and the events CORRECT_EVENT,
  CORRECT_STATUS, RESCIND_EVENT, RESCIND_ORG that point at an earlier one);
  the projection `org_unit_versions` (rows with a validity range, parent, path,
  names, status), `org_trees` (the root), `org_unit_codes`.
* **Operations.** `submit_org_event`, `submit_org_event_correction`,
  `submit_org_status_correction`, `submit_org_event_rescind`,
  `submit_org_rescind`. All take one advisory transaction lock per tenant. A
  base event goes straight to the projection through an `apply_*_logic`
  function. The others delete the unit's rows and replay its history, as the
  effective views show it with the pending event appended.
* **Interactions.** Called by the OrgUnit store in a transaction per request;
  draws keys from the node-key allocator; read by the read side, by role
  scopes (IAM) and by CubeBox queries.
* **Hard.** Backdated events; corrections of corrections; the order of
  `tx_time` (transaction START) against the order of the lock; a rebuild that
  fails half way; cached paths and full names; rebuilding the root.
* **Correct when.** Ranges of a unit never overlap nor leave gaps; parent and
  path agree; there is one root and it stays; the projection shows what the
  effective events tell; what is rescinded stays rescinded; codes live with
  their unit; readers see whole transactions only.

### OrgUnit node-key allocator — `schema/00024`
`allocate_org_node_key` draws from a sequence per tenant and encodes the number
as a guard letter and seven base-32 digits. Hard: the carry into the guard
letter, exhaustion, numbers lost by a rollback. Correct when encoding is
injective and decoding inverts it.

### OrgUnit write service and store — `modules/orgunit/services/orgunit_write_service.go`, `orgunit_mutation_policy.go`, `.../orgunit_pg_store.go`
No state of its own. `Write`, `Correct`, `CorrectStatus`, `RescindRecord`,
`RescindOrg` resolve codes to keys, evaluate field policies, build payloads and
call one kernel function; organisation codes may be allocated under a lock per
prefix. Hard: everything it resolved is from an earlier transaction; retries by
`request_id`; two locks taken by two requests in different scopes. Correct when
a retry changes nothing and two units never get one code.

### OrgUnit read side — `schema/00027`, `orgunit_read_service.go`
Queries of one day over the projection, and the audit log. No state.

### Field configurations — `schema/00030`, `internal/server/orgunit_field_metadata_*.go`
`tenant_field_configs` (which field of a tenant has which physical column, from
which day, until which day) with its event log; enable and disable under a lock
per tenant, by request id. Hard: columns run out and must not be given twice;
disabling may be repeated to postpone the end, by a caller who saw an older row
or whose transaction began before midnight and got the lock after it. Correct
when columns are distinct, the table is what its log says and days that are past
for every transaction that has begun keep what they were.

### CubeBox server — `modules/cubebox/`, `internal/server/cubebox_*.go`
Conversations as event logs with a unique sequence number, turns streamed
from a model provider (gateway) or answered by queries (query flow), an
in-memory registry of the running turns' interrupt channels. Hard: two turns of
one conversation, an interrupt racing the last chunk, a cancelled request whose
terminal event is written under a context of its own, an event whose append
fails, turn ids that repeat between conversations. Correct when a turn has one
outcome, nothing follows it, the registry forgets it, and every turn ends.

### CubeBox panel — `pages/cubebox/`
A provider with a reducer: the shown conversation, the composer, the list, the
streams being read, a conversation created by the first message. Hard: events of
a stream arrive after another conversation was selected, answers in any order,
a reload in mid-stream. Correct when the live view is what a reload shows and
no turn is shown as streaming that nobody reads.

### Web pages — `pages/org`, `pages/dicts`, `pages/authz`, `components/OrgUnitTreeSelector.tsx`
Each page keeps its address, dialogs, drafts and caches; none shares state with
another but through the server.
* **Organisation page**: address, keyword and debounce, tree with lazy children,
  search, create dialog. Hard: effects that write the address, late children, a
  create sent again.
* **Details page**: records by date, audit trail, four write dialogs. Hard:
  dates next to neighbours, a patch against refreshed data, extension fields
  that appear under an open form.
* **Field configuration page**: list by day, enable and disable dialogs, request
  ids. Hard: midnight, other administrators, calls sent twice.
* **Dictionary release panel**: form, preview, release. Hard: which edition of
  the form was previewed, failures that come late.
* **Role and assignment pages**: drafts replaced as a whole under a revision.
  Hard: other administrators, an answer after the selection changed.
* **Organisation picker**: draft, highlight, search path. Hard: overlapping
  loads, children loaded before other users changed the tree.

### Other parts
Field policies (`schema/00032`), dictionaries and the server side of a baseline
release (`modules/iam/.../00007`, `00008`, `dicts_release.go`), the statements
inside the role runtime's transactions (`authz_runtime_store.go`), sessions,
tenancy and superadmin, routing, the rest of the web application, tooling: see
section 6.

## 2. Modules

| Module | Models | Source |
|---|---|---|
| `OrgUnitVersions` | the projection and every `apply_*_logic` function as an operator from a projection to the SET of projections it may leave (empty: it raises) | `00026:554-1850`, tables of `00023` |
| `OrgUnitEvents` | the log, the views `org_events_effective` and `org_events_effective_for_replay`, and the dispatch of one event to its apply function | `00026:86-210`, `1658-2222` |
| `OrgUnitKernel` | the state machine: transactions, the lock, the submit functions, the replay loop, commit and abort | `00026:2002-3634`, `00028` |
| `OrgUnitLedger` | the abstract specification: an append-only log, and a projection that changes in the instant events about one node are appended | – |
| `FieldConfigs` | enabling and disabling of fields, their log, the date | `00030`, `orgunit_field_metadata_store.go` |
| `CubeBoxTimeline` | the data both sides of CubeBox share: events, replay of a log, the reducer | `reducer.ts`, `types.ts`, `store.go` |
| `CubeBoxTurns` | the server under arbitrary clients: logs, turns step by step, registry | `gateway.go`, `cubebox_query_flow.go`, `runtime.go`, `store.go`, `turn_prep.go`, `cubebox_api.go` |
| `CubeBox` | the server composed with the provider and the panel | `CubeBoxProvider.tsx`, `CubeBoxPanel.tsx`, `api.ts` |
| `OrgUnitsPage`, `OrgUnitRecordDates`, `OrgUnitDetailsPage`, `DictReleasePanel`, `AuthzRolePages`, `OrgUnitPicker` | one page or component each, with the effects of its calls on the server | the page, its `api/` functions, the handler it calls |
| `FieldConfigsPage` | the page composed with `FieldConfigs` | `OrgUnitFieldConfigsPage.tsx` |
| `WebPages` | the pages by route | `router/index.tsx` |
| `OrgUnitProperties`, `CubeBoxTurnsProperties`, `CubeBoxProperties` | the properties of the first three parts (those of a page stand at the end of its module) | – |
| `MCOrgUnitKernel`, `MCCubeBoxTurns`, `MCCubeBox`, `MCWebPages` | constants (and symmetry) for TLC | – |
| `OrgUnitKernelProofs`, `OrgUnitHistoryProofs`, `OrgUnitTreeProofs`, `OrgUnitParentsProofs`, `CubeBoxTurnsProofs`, `CubeBoxProofs`, `FieldConfigsProofs`, `WebPagesProofs` | lemmas and theorems | – |

### Correspondence: the kernel

State. `events` is `org_events`; the position in the sequence is the `id`,
because ids are drawn under the tenant's lock. `db` holds `org_unit_versions`
(`versions`), `org_trees` (`root`) and `org_unit_codes` (`codes`) as the lock
holder sees them. `txn` is the transaction that holds the lock during a
rebuild: the pending event, the events left to replay, the rescinds left of a
`RESCIND_ORG` batch, and the tables a rollback returns to. `waiting` holds the
start times (`now()`, hence `tx_time`) of transactions that began and wait for
the lock.

Steps. A base event is one atomic step (`SubmitEvent`): the lock excludes other
writers, and a raise leaves nothing behind, so it is a step that does not
happen. A rebuild is opened by one step (`BeginRebuild`), has one step per
replayed event (`ReplayStep`), and ends in `Commit`, in `NextTarget` (the next
rescind of a batch) or in `Abort`. `Abort` is possible at every step: a raise,
or a lost connection. A replay whose next event raises has no `ReplayStep`, so
`Abort` is all that is left. Readers see `CommittedLog` and `Committed`: inside
a rebuild those are the saved log and tables.

Quirks of the code that the models keep on purpose:
* the newest correction is the one with the greatest `tx_time`, a START time;
* a corrected event whose payload has a core key is replayed as an UPDATE;
* the date of a correction sticks even when a later correction carries none;
* during a rebuild the stop date of RENAME and SET_BUSINESS_UNIT comes from the
  view WITHOUT the pending event;
* ENABLE, DISABLE and MOVE overwrite all later rows, RENAME and
  SET_BUSINESS_UNIT stop at the next event of their own type;
* a MOVE rebases every later row under the path of its day, tests cycles on
  that day only, and accepts a disabled parent;
* nothing refuses a second effective event of a unit on one day;
* an ancestor without a row on a day drops out of a full name of that day.

Abstractions. One tenant (every statement filters on it). Dates are
`1..MaxDate` and an end of range `Infinity`. Names and codes are model values.
Payloads are functions from the keys they carry; `reason`, `op` and the target
keys are the fields `type` and `target`. Left out: ext fields and their
snapshots, the manager column, event uuids, request ids and the idempotent
retry, `last_event_id`, and the texts of errors. The before and after snapshots
are their presence, which is all their constraint reads.

### Correspondence: CubeBox

A turn is a record with a program counter; one action is what happens between
two writes to the log, the stream or the registry. `Receive` is the request;
`Prepare` reads the log, numbers the turn `turn_seq_N` and registers it;
`Start` to `CompleteTurn` append one event each; `FinishTurn` is the deferred
call. An append fails when its number is taken or by a `Fault`; `WriteOrStop`
and `WriteAnyway` are the two ways the code goes on. `out` is what has been
written to the stream and not been read. `gone` is a cancelled request: later
events still reach the log where the code detaches the context. `LookAtInterrupt`
is the select on the channel, `InterruptTurn` closes it.
`Restart` loses turns and registry and keeps the log.

`view` is the reducer's state; `calls`, `listing` and `ensuring` are the
requests under way, with the list shared by its callers
(`refreshConversations`) and the creation shared by first messages
(`ensureConversation`). Serving a call and receiving its answer are two steps.
`mixed` and `steady` are history: whether an event of another conversation came
into the view, and which streams were read from start to end on one timeline.

### Correspondence: the pages

An action is an event handler, an effect, a timer or the arrival of an answer;
what React renders in between is a function of the state. A call to the server
is sent, served and answered in separate steps; it may be lost, and the HTTP
client sends it once more by itself (`httpClient.ts:76`) where that can be
told from the outside. The server's part is what the handler does with the call
in one transaction. Quirks kept on purpose: a closure keeps what its render saw,
but a pending mutation of react-query takes the callbacks of the latest render;
a failing clipboard copy sets the stage of the release panel; a dialog that was
closed and opened again is closed by the answer to the old one; today is
computed once per visit; children that were asked for under an old view are
entered under the new one. A disable of a field is three steps: the call is
sent, its transaction begins, which fixes `current_date` (`beganOn`), and it is
served when it has the lock, or cancelled (`orgunit_field_metadata_store.go:326`,
`00030:1121`). On the details page the form (`action.form`, `action.original`)
has the fields that were told when it was opened, a write those of the current
details query (`ShownFields`), which other extension fields may have joined
since; values can be blank (`NoValue`) or differ by blanks only (`Trimmed`). The
picker's server has one tree of a few (`PickerTrees`) and other users turn one
into another; a load reads the tree and is received in one step, so an answer
from an older tree than the last is not modelled, nor what the tree component
does with a unit that stands at two places. Dates are small numbers, forms are known by their
edition or by the fields they touch, names by model values. Tables, columns,
paging, texts and permissions to show a button are left out.

## 3. Runs

| Run | Instance | Shows |
|---|---|---|
| `structure` | 4 units, 3 dates, 2 names, 5 events; CREATE, MOVE, RENAME, ENABLE, corrections of dates and parents, rescinds; one transaction at a time | `TypeOK`, `VersionsWellFormed`, `PathEndsWithParent`, `RootIsBusinessUnit`, `PathsCurrent`, `FullNamesCurrent`, `RescindIsFinal`, `RootKept`, refinement `LedgerSpec` |
| `history` | 2 units, 2 dates, 2 names, 4 events; CREATE, RENAME, SET_BUSINESS_UNIT; a transaction may wait, so `tx_time` and `id` disagree | `HistoryShown`, `BackdatingSafe` |
| `updates` | 2 units, 2 dates, 3 events; UPDATE with every set of keys, MOVE, ENABLE, DISABLE, status corrections, corrections that turn events into UPDATEs | `HistoryShown` for all four attributes |
| `deletion` | 3 units, 3 dates, 3 codes, 5 events; CREATE, MOVE, `RESCIND_ORG`, `RESCIND_EVENT`, date corrections; fairness | `CodesFollowUnits`, `ParentsExist`, `LockReleased` |
| `cubebox_turns` | 2 conversations, 2 turns, both flows, any clients, at most 1 delta, faults and restarts within `Budget` 3; fairness | `ServerTypeOK`, `OneOutcome`, `DeltasFirst`, `RegistryFollowsTurns`, `TurnEnds` |
| `cubebox` | the panel with 2 conversations, 2 turns of the provider flow, 1 call at a time, at most 1 delta, `Budget` 2 | `TypeOK`, `StreamingIsRead`, `LiveIsReplay`, refinement `TurnsSpec` |
| `web_pages` | every page on its own route, 3 or 4 user actions (8 on the release panel) with every order of answers, losses, other users and midnight | the properties of the pages and of `FieldConfigs` |
| `rescind_wins`, `rescind_org`, `deletion_children`, `cycle`, `assignment_crossed` | see section 5 | one documented statement each, violated |

**What the page properties say.** `OneUnitPerDialog`: however often a create is
sent again, one opening of the dialog creates one unit. `TreeIsCurrent`: the
tree belongs to the shown view and has the units created here.
`AcceptedDateIsFree`: the dates accepted are those that are next to the selected
record and free, and no other.
`OnlyEditedFieldsWritten`, `OnlyTouchedPartsReplaced`, `OnlyTouchedRowsReplaced`:
a write changes what the user touched and undoes nobody else's, within the
conditions below.
`ReleaseWasPreviewed`, `BusyHasRequest`: what is released was previewed; a panel
that is closed waits for something. `ColumnsDistinct`, `ConfigsFollowEvents`,
`PastIsKept`: the table of fields, its log, and the days that are over. `RequestNamesOneChange`,
`RefusedOnlyIfOvertaken`: the page's ids and rules agree with the server's.
`HighlightIsDraft`: the highlighted unit is the one that is picked, unless the
search for it lacked something that is named.
`AddressesSettle`: the effects that write addresses stop. `AddressesNearRest`:
why they do: each run of one leaves fewer to come (`UnitsWay`, `DetailWay`), none
is left only at rest, and only the user, a call he started or the first answer of
a query adds to them.

**Bounds of the kernel.** Three dates are the least that tell "before", "on" and
"after" an event apart and leave a row in the middle; a RENAME and a flag need
only a date and a later one. Four units give a chain of three below which a
subtree moves, and the cycle needs three. Five events are a tree of three, a
change, and a correction of it; four suffice for a unit, two changes and a
correction. One waiting transaction is enough for two transactions to overlap.
The runs share the modules but not the alphabet of event types, since the
products of all types and all payload keys would leave room for two events
only. `MaxEvents` and `MaxWaiting` cap the log and the queue in the guards
(`HasRoom`, `Wait`). Names (in `structure`, `history`, `updates`) are symmetric:
the kernel compares them and never orders them. The runs with a liveness
property use no symmetry.

**Bounds of CubeBox.** Two turns are the least that collide: on a number in one
conversation, on a registry entry in two. `Budget` bounds what disturbs: a click
or a further turn counts 1, a second turn in a conversation whose turn still
runs and a failure nothing in the model causes count 2; a turn that finds its number taken
or its client gone fails for free. Three allow a fault or an overlapping turn and
one more step of a user. `Requests` are the sequence numbers that clients of
the server ask for, `MaxUnread` is how much of a stream waits to be read; in
`cubebox` the `Requests` go beyond any number the instance reaches, since its
panel must ask for nothing that the server does not know.

**Bounds of the pages.** Each page counts what users do (`UnitsBudget`,
`UnitBudget`, `ReleaseBudget`, `AuthzBudget`, `ConfigBudget`, `PickerBudget`);
answers, effects and timers are free. Four are: open, edit, send, and a
disturbance between two of them. Further bounds: `LastDay` 4 leaves a gap
between two records; `LastConfigDate` 3 a day that is past, today and one to
come, and with `ListDays` and `RowFilters` one other way to show the list;
`SomeColumns` fewer columns than fields; another administrator ends a field
today or postpones an end as far as the dates go. The details page has a core
field that must not be blank and an extension field, enabled from the start, from
day 2 (`ExtDays`) or not yet, with a blank value, two others and one with a blank
around it. The picker has two trees: in the second a unit is moved and another
is made beside where it was. Two principals and three roles,
one read-only, one that needs a scope. The visit is to one page, so `WebPages`
does not multiply their states.

Budgets are why deadlock is not checked: their end is not the system's.

**Statement conditions.** `HistoryShown` speaks of a unit whose events since its
last rebuild came in date order: the code lets a backdated ENABLE overwrite a
later DISABLE, so without the condition the statement is false, and with it
every rebuild is covered unconditionally. Of the parent it speaks only while
the unit's moves are not older than events of other units (`MovesInOrder`): the
move of an ancestor cuts the unit's rows, and a backdated MOVE stops at such a
cut. `BackdatingSafe` speaks of units whose name, or flag, is set by events of
its own type (`SetByOwnTypes`), the only ones a RENAME or SET_BUSINESS_UNIT
looks ahead to. `PathsCurrent` and `FullNamesCurrent` speak of logs in date order
without corrections for the same reason; a row that only a change of status or
flag began copies its full name from the row before (`StartsStale`).
`ParentsExist` speaks of logs in which what changes its place has never been a
parent (`OnlyLeavesMove`): a deletion looks for children below one path, and
misses those with an older one (finding), and the RESCIND_EVENT of a CREATE
looks for none.
`RescindIsFinal` is checked for transactions that do not overlap and violated
when they do (finding). `LiveIsReplay` speaks of streams read from start to end
on one timeline and written without a failure; it compares texts, and the status
once the turn has stored what finishes it, because a reply without an end is
marked by the next interruption that is read, of whatever turn. `TreeIsCurrent` speaks of children whose
answer no change of the view overtook, `ReleaseWasPreviewed` of releases no
failing copy came before, `OnlyTouchedRowsReplaced` of drafts made from the
principal they are saved for (the rest is the finding). `OnlyEditedFieldsWritten`
excepts plain extension fields that are shown when the write is confirmed and
that the form did not know, or knew with blanks around the value (`FieldsKept`):
those the code writes, as null or trimmed. `HighlightIsDraft` excepts a search
that did not have the list its hit is in as the server that found it has it,
when the roots or the path were missing, a load failed or another user changed
the tree (`missed`); if the list is the server's in spite of that, the hit is
drafted. `PastIsKept` counts a day as over when it is over for every disable that
has begun (`DaysOver`): one that began yesterday and waits for the lock may still
end a field yesterday. In each case the code does
otherwise outside of the condition, and the module says so.

**Fairness.** `LockReleased`: weak fairness of
`ReplayStep \/ NextTarget \/ Commit \/ Abort`. A PL/pgSQL function runs on a
backend that is never descheduled for good, its loop is over a finite set, and a
raise or a broken connection ends the transaction; `Abort` is in the set, not
fair on its own. `TurnEnds`: weak fairness of each turn's next step (a goroutine
runs; the HTTP client of the provider gives up after 60 s, `gateway.go:535`) and of the
delivery of its stream (a writer to a connection is read or cancelled), and
nothing about interrupts, faults or clients. `AddressesSettle`: React runs the
effects of what it rendered and a timer fires; nothing is assumed of users,
server or network, so an answer may never come.

**Refinements.** `LedgerSpec`: readers of the kernel see an abstract ledger.
`TurnsSpec`: the panel is one of the clients that `CubeBoxTurns` allows, so what
holds of the turns under any client, and is proved of them, holds with it.

**Mutants.** Every property of a passing run has a mutated definition next to
the original, commented as a mutant, such as a MOVE that forgets the subtree, a
turn that leaves its entry in the registry, or a request id per attempt; the
property must fail for it.

## 4. Proofs

TLAPS proves, for every value of the constants:

| Theorem | Statement |
|---|---|
| `Inductive`, `TypeCorrect` | `Spec => []KernelInv`, `Spec => []TypeOK` (kernel) |
| `RowsWellFormed` | `Spec => []VersionsWellFormed`: no overlap, no gap, up to infinity, in every state of every rebuild |
| `LedgerImplemented` | `Spec => LedgerSpec`: the kernel implements `OrgUnitLedger` |
| `RootNeverReplaced` | `Spec => RootKept` |
| `RescindAlwaysFinal` | `Spec => [](TimesFollowIds(CommittedLog) => RescindIsFinal)` |
| `RescindFinalWithoutWaiting` | `Spec => []RescindIsFinal`, if `MaxWaiting = 0` |
| `HistoryAlwaysShown` | `Spec => []HistoryShown` |
| `BackdatingAlwaysSafe` | `Spec => []BackdatingSafe` |
| `PathAlwaysEndsWithParent` | `Spec => []PathEndsWithParent` |
| `RootIsAlwaysBusinessUnit` | `Spec => []RootIsBusinessUnit` |
| `PathsAlwaysCurrent` | `Spec => []PathsCurrent` |
| `FullNamesAlwaysCurrent` | `Spec => []FullNamesCurrent` |
| `ParentsAlwaysExist` | `Spec => []ParentsExist` |
| `CodesAlwaysFollowUnits` | `Spec => []CodesFollowUnits`, where every CREATE carries a code |
| `ServerAlwaysTyped` | `TurnsSpec => []ServerTypeOK`: shapes, and no number of a log twice |
| `OneOutcomeAlways`, `RegistryAlwaysFollows` | `TurnsSpec => []OneOutcome`, `TurnsSpec => []RegistryFollowsTurns` |
| `DeltasAlwaysFirst` | `TurnsSpec => []DeltasFirst` |
| `PanelAlwaysTyped`, `StreamingIsAlwaysRead` | `Spec => []TypeOK`, `Spec => []StreamingIsRead` (panel) |
| `LiveAlwaysReplay` | `Spec => []LiveIsReplay`: the live timeline and the replayed one |
| `PanelUsesServer` | `Spec => TurnsSpec`, if clients may ask for any number (`Requests = Nat \ {0}`) |
| `ServerPromisesKept` | the four invariants of the turns, beside the panel, whatever `Requests` is |
| `ConfigsAlwaysInv`, `ColumnsAlwaysDistinct`, `ConfigsAlwaysFollowEvents`, `PastAlwaysKept` | `ConfigsSpec` implies `[]ConfigsInv`, `[]ColumnsDistinct`, `[]ConfigsFollowEvents`, `PastIsKept` |
| `PageKeepsColumnsDistinct`, `PageKeepsConfigsAndEvents`, `PageKeepsPast` | the last three for `WebSpec`, with the page as the client |
| `RequestAlwaysNamesOneChange`, `RefusedAlwaysOvertaken` | `WebSpec => []RequestNamesOneChange`, `WebSpec => []RefusedOnlyIfOvertaken` |
| `AddressesAlwaysNearRest` | `WebSpec => AddressesNearRest` |
| `UnitsAlwaysTyped`, `OneUnitPerDialogAlways`, `TreeAlwaysCurrent` | `WebSpec` implies `[]UnitsTypeOK`, `[]OneUnitPerDialog`, `[]TreeIsCurrent` |
| `DetailsAlwaysTyped`, `AcceptedDateAlwaysFree`, `UntouchedFieldsKept` | `WebSpec` implies `[]DetailTypeOK`, `[]AcceptedDateIsFree`, `OnlyEditedFieldsWritten` |
| `RoomForARecord` | when some day is accepted for an insert, and when the plan says that none is, for every set of records |
| `HighlightAlwaysDraft` | `WebSpec => []HighlightIsDraft` |
| `OnlyPreviewedIsReleased`, `ClosedPanelWaits` | `WebSpec => []ReleaseWasPreviewed`, `WebSpec => []BusyHasRequest` |
| `OthersRolesNeverUndone`, `OthersAssignmentsNeverUndone` | `WebSpec => OnlyTouchedPartsReplaced`, `WebSpec => OnlyTouchedRowsReplaced` |

Assumptions, all named in the module that declares the constant. Kernel: there
is a unit and a date, clients submit known event types, bounds are numbers
(`NodesAssumption`, `DatesAssumption`, `KindsAssumption`, `BoundsAssumption`).
CubeBox: flows, drafts and requests are what their names say, conversations are
numbers (`FlowAssumption`, `DraftAssumption`, `RequestAssumption`, `TurnBounds`,
`CallBound`, `ConversationAssumption`). Field configurations: a number of columns
per type (`ColumnCountAssumption`). Pages: there is a view; today is among the
days, which are at least two; the path of a picker unit has the paths of its
ancestors before it in every tree (`PathAssumption`); values are numbers, a
blank one stays blank and what is trimmed stays trimmed (`ValueAssumption`), the
name is a core field and no core field an extension field (`FieldAssumption`);
there is a configuration day and a field
to configure (`ConfigDayAssumption`, `DefinitionAssumption`); the markers
`Renamed` and `Scope` are no capabilities and there is a principal
(`RoleAssumption`). Three theorems assume more, as their statement says:
`CodesAlwaysFollowUnits` that clients send codes (`Codes # {}`),
`RescindFinalWithoutWaiting` that transactions do not overlap, and
`PanelUsesServer` that the server is one for any client.

### The kernel

*The invariant.* `VersionsWellFormed` is not inductive. A step of a rebuild
applies an event chosen earlier, an abort restores tables saved earlier, and a
later rebuild reads dates and payloads from corrections in the log. `KernelInv`
therefore adds: the saved tables are well formed (`Good(txn.saved)`); every
event of the log, also of the saved one, has a unit, a date and a payload in
their ranges and carries the keys its type is applied with (`EventOK`,
`Complete`), and corrects an earlier event only; every event left to replay is
of that kind (`ReplayOK`); the rescinds left of a batch point into the log and
fit its bound. Without the completeness of payloads a replay could read a key
that is not there; without bounded `tx_time`s "the newest correction" need not
exist (`LatestExists`).

*The argument.* The first half of `OrgUnitKernelProofs` shows that cutting rows
at a date, mapping rows without touching their spans, adding the first row of a unit and removing
all of them each preserve `WellFormed`, and composes these to `ApplyGood`: one
turn of the replay loop preserves types and ranges. The second half shows
that the views yield dates in range and payloads complete (`EffectiveDateOK`,
`EffectivePayloadOK`, `ReplayEventsOK`), then has a lemma per action. The
refinement ends the module.

*Refinement.* The mapping sends `log` to `CommittedLog` and `projection` to
`Committed`. `LedgerInv` adds to `KernelInv` that during a rebuild the log
extends the saved one by rescinds of the unit being rebuilt (`Extends`), and
that a root that is missing is the unit being rebuilt and its CREATE is still to
be replayed (`RootSafe`). Then every step but `SubmitEvent` and `Commit` is a
stutter for readers, and those two are `Publish` steps.

*The log.* `FineInv` adds to `LedgerInv` what the submit functions check before
they append (`LogFine`, `PendingFine`): a correction or rescind is about an event
of the same unit, nothing is said of an event after its rescind, a payload
spells a key in one way. The view picks what is in force by `tx_time`; where
times follow ids (`TimesFollowIds`) that is the last one said, a rescind if there
is one, which is `RescindAlwaysFinal`. Where nobody waits times do follow ids
(`OrderInv`).

*The history.* A fold over the log is never formed: `HistoryInv` says of every
unit, against the set of its effective events, what the rows show on each day
(`Told`: `ShowsSet` for the attributes whose events came in order, where rows
begin, how the events divide the days). A base event adds one element to that
set and rewrites the rows from its day to its stop, and both change in the same
way (`Writes` of each `apply_*_logic`, then `ToldAfter`). A rebuild removes the
rows and replays the set in order, so that after each step the rows tell exactly
the events replayed so far (`Partly`), and at its end all of them. For other
units the pending event changes nothing that is read of them, except that the
move of an ancestor cuts rows; `Started` keeps account of those cuts.

*The tree.* `TreeInv` adds to `LedgerInv` the shape of the rows (`Tree`): a row
ends with its parent and its node, and the root that readers see is exactly the
node whose rows have no parent, a business unit on every day. The `org_trees`
row is a third opinion: it is missing while the root is rebuilt, and `Tree`
keeps it apart from the root readers see; it is there only if the root has
rows. A MOVE is where the argument is long: rebasing keeps the last two nodes of
a path below the moved one, because the part it replaces ends with the moved
node (`RebasedPath`). That a MOVE is refused without an `org_trees` row keeps
it from giving the root a parent in mid-rebuild; that the CREATE left to replay
is the root's own (`RootSafe`) keeps any other unit from becoming one.

*Paths and names.* `LineInv` adds, for what readers see while the log is in date
order and nothing was corrected (`LineOK`): every unit on the path of a row has,
on each day of that row, a row whose own path is the beginning of it (`Lineage`,
which carries a MOVE through the whole subtree, where the parent's path alone
would not); no row begins on a day without an event (`DatedRows`), so that the
newest event meets the newest rows; and full names are the names of the day the
row began, or stale (`StaleOrCurrent`). A correction ends the condition, so that
rebuilds need no argument.

*The parents.* `SiteInv` joins `HistoryInv` and `TreeInv` with the place of every
row. As long as only units move that are no parents (`OnlyLeavesMove`), each unit
on a path follows the parent its one CREATE names, or has been uprooted and is
then nobody's parent (`Chained`); two paths that meet in a parent therefore are
one up to there (`Alike`), which is why looking for children below one path finds
them all (`ChildBelow`). A row's parent is created on or before the row's first
day by what the log says (`Housed`), not by what the table holds: in mid-rebuild
the parent's rows are gone and the log still has its CREATE. The two corrections
that can take a CREATE away look first: RESCIND_ORG for children
(`ChildlessUnit`), and a later date for CREATEs below that come before it
(`LateEnough`), so every row stays housed in the longer log (`FixStillBorn`); a
RESCIND_EVENT of a CREATE does not look, and uproots. What an event of the replay
writes keeps its place, follows the parent the event names, or is a root
(`ApplyPlaces`). `HistoryInv` turns "created in the log" into a row in the table.

*The codes.* `CodesInv` adds to `KernelInv` that tables, also the saved ones,
have exactly one code per unit, and that every CREATE in the log and among the
events left to replay carries one. Only CREATE and the deletion that opens a
rebuild change units or codes (`SameUnits` for all else); a correction
overlays the payload of a CREATE and cannot lose its code (`ReplayCoded`).

### The turns

*The invariant.* `OneOutcome` is not inductive: whether an append can follow a
completion depends on turns that still run. `ServerInv` adds, for every turn
that writes, that its first event is stored under the number that is its id and
that every stored event of the turn is below the number it writes next
(`WrittenUpTo`); that two turns of one conversation that write have different
ids (`WritersDiffer`); and that an entry of the registry belongs to a turn that
has been registered under that id and is not over (`RegistryOK`).

*The argument.* A step either adds events under numbers that are free
(`AddingMove`) or leaves the logs alone (`QuietMove`). A turn that begins takes
the number N and the id N in one append: if the number is free, no turn with
that id has stored anything (`FreshStoredNothing`), so it differs from every
other writer; if it is taken, the turn ends without having written. After
that its events have its id, and numbers above those it wrote: a completion
comes last because the turn is no writer afterwards, and no other turn has its
id. The registry may lose an entry to another turn, and never keeps one.
There is one lemma per action and one for each way to write.

*The story of a turn.* `DeltasFirst` needs to know what a turn has yet to write
and who else may write under its id. `StoryInv` therefore says, besides
`DeltasFirst`: turns of one conversation that have stored something have
different ids (`SpeakersDiffer`, which also counts turns that are over and
still being read); a turn that may go on talking has stored nothing that
finishes its reply, and its stream holds only what is stored (`TurnStory`); a
stream none of whose writes failed holds the latest events, in order, and
what finishes the reply is read after all before it (`OutStory`). Every step of
a turn is a tale: it stores a set of events and says a sequence of them
(`Tale`), and `TaleKeepsStory` is proved once for all of them; what the others do
only adds to logs and shortens streams (`Aside`).

### The panel

`PanelInv` joins `ServerInv` with the shape of the view and of the calls
(`ClientInv`), what a stream may still say (`StreamOK`: after the end of a turn
nothing that shows it as streaming again) and that a streaming view has an open
stream (`OpenStream`); the last needs the one before, because a stream is read
to its end while other calls replace the view. That logs stay finite
(`LogsFinite`) is what lets a replay be taken in order. The refinement then is a
case per action: each is a step of the server, or the panel's own.

*Live and replayed.* `LiveIsReplay` compares a view built event by event, with
other turns, lists and other people's events between, to a fold over a log. Both are
compared to a third thing: what a set of events tells of a turn
(`Tells`: its message, as many deltas as the set has, and the status its end
gives). Applying one more event tells that event as well, if no delta comes
after an end (`OwnEventTells`, where `DeltasFirst` is needed). For the fold, the
numbers of events after which it tells just those events form a set that holds 0
and with each number the next (`Upwards`), so the replay tells the whole log
(`ReplayTells`); no induction theorem with a predicate is needed. For the view,
`LiveInv` adds to `StoryInv` that a stream that is followed has told exactly what
is stored and no longer unread (`SteadyOK`); that the view mentions only turns of
its log (`FromLog`), so that a turn that begins finds nothing under its id; and
that what a call carries is stored (`PayloadsStored`). When a stream has been read
to its end, nothing is unread, both have told the same set, and sets that are
the same tell the same (`TellsAgree`).

### The field configurations

`ConfigsInv` joins types, `ColumnsDistinct`, `ConfigsFollowEvents` and that a
DISABLE event is of a configured field (`DisabledAreConfigured`), without which
a field that is enabled could find an older end of its key in the log.
`PastAlwaysKept` follows because the earliest end a disable accepts is the date
its transaction began on, and an end that was set is moved only if it is later
than that date, to a day that is later as well (`DisabledOnAllowed`). Dates of
transactions that wait are part of the state (`beganOn`), so a day before the
oldest of them is out of every disable's reach (`DisableKeepsPast`).

### The pages

`ReleaseInv`: until a copy fails during a request, the requests under way are
for the form as it is, and the stage says so (`Undisturbed`).

`AuthzInv`: a draft, wherever it is kept (in the form, in a cache, in a fetch
or in a save under way), has a revision that is not ahead of the server's, and
if it is the server's, the draft differs from what is stored only where it was
touched (`Holds`). A replacement raises the revision, so that every draft made
before it is refused; what is taken is therefore current, and undoes nothing.
The steps of other pages leave both alone, so the theorems are about the whole
`WebSpec`.

`UnitsInv`: a create under way carries the number of the dialog it was sent
from, two units never have one number; children and calls for them belong to
the view the effects last ran on, and hold what was reported, unless they are
overtaken. `DetailInv`: a write has a plan made for its date, and a form whose
untouched fields are the original ones (`ActionShape`), and a write under way has
none of the fields it is to keep in its patch (`WritingShape`): fields that the
form does not know are in the patch, and are not to be kept. `AcceptedDateAlwaysFree` is an
equivalence, from the plans alone (`AddPlan`, `InsertPlan`): a plan that allowed
less than the days between two records would fail it as well. `PickerInv`: as
long as nobody changed the tree, what is loaded of it is the tree's, and a search
that lacks nothing has the list its hit is in, or loads it with the last parent
of its path (`SeesTree`); a hit among what the search knows is drafted, so
whatever the reason, only one whose list was not the server's is not.

`RestInv` is the safety half of `AddressesSettle`. The effects of the
organisation page write the keyword, the debounced keyword and the view to
each other, each from what one render saw. `UnitsWay` counts the runs that are
left: three for a debounce that is due, two for a debounced keyword on its way to
the address, one for each part of the address that an effect removes. What one
effect writes the others find in place on their next run, so every run lowers the
count (`UnitsNearRest`); at 0 the effects ran on what is shown (`EffectsInv`),
which is `UnitsAddressAtRest`. `DetailWay` does the
same for a link's `as_of` and audit event. What remains of the liveness property
is that a fair run happens while the count is not 0, and that users stop.

`ConfigPageInv`: whatever carries a request id, a call, a dialog or an event,
stands for the same change, and ids not sent yet are above all others, those of
other administrators below them (`ChangesInv`); a row that a dialog or call goes by was the server's on some day,
so that only midnight or a later disable can make its date refused
(`AnswersInv`). The page's steps are steps of `FieldConfigs`, so the theorems of
the table are inherited.

### Only model-checked

`LockReleased`, `TurnEnds` and `AddressesSettle` are liveness under fairness, out
of the prover's reach (of the last the safety half is proved). The other properties of the passing runs are proved.

## 5. Findings

Each is a run that checks one documented statement and finds it violated.

* `rescind_wins` — `075c:71` lets a rescind win over a correction; the view picks
  the greatest `tx_time` (`00026:162`), which is when the transaction began, so
  a correction that began later but got the lock earlier wins.
* `rescind_org` — `075c:56` and `:249`: RESCIND_ORG rescinds all events of a
  unit; the loop starts with the CREATE (`00026:2980`), and the replay of what
  is left then raises.
* `deletion_children` — `075c:59`: a unit that has children is not deleted. The
  check compares the children's paths with the latest path of the unit
  (`00026:2884`); a child created on a day before the unit's subtree moved has
  the older path on all days, and stays behind.
* `cycle` — `docs/archive/dev-plans/026-...:139` promises cycle detection; the
  MOVE compares paths of its own day only (`00026:1109`), and a later day gets a
  path that meets a unit twice.
* `assignment_crossed` — `docs/dev-plans/489-...:307` wants the scopes of user A
  never saved for user B. The `onSuccess` of the save
  (`pages/authz/AuthzRolePages.tsx:505`) stores the answer under the key of the
  user selected by then; B's form shows A's assignment with A's revision, and a
  save of it is accepted when the revisions are equal.

Met while reading, without a run of their own.

Kernel: a backdated ENABLE or DISABLE
overwrites later status events (`078:81`); a backdated RENAME overwrites a later
UPDATE of the name (`026:840`); after a correction of a date the same request
sent again is refused (`075c:95`); a CREATE cannot be corrected to a later
date, because its after-snapshot is taken on the old one; RESCIND_EVENT of a
CREATE does not look for children; a second effective event of a unit on one day
is inserted (`00028:269`), which `075c:89` wants refused;
correcting a DISABLE with a name makes it an UPDATE that no longer disables.

CubeBox: a list that fails to refresh marks a finished turn as an error; the
first message of a new conversation can find its composer emptied by the loading
of the conversation it just created; selecting the shown conversation again in
mid-stream doubles or loses deltas; the reply of a failed turn keeps its
streaming mark, until a later turn's interruption is read; an accepted event clears text typed
since; an interrupt can miss its turn because `turn_seq_N` repeats between
conversations; the query flow does not look at the interrupt, so a stopped
query goes on.

Pages: a dialog closed while its call runs and opened again is closed by the old
success; the deletion on the details page uses the record selected at the moment
of confirmation; a link with `as_of` and `tab=audit` ends on the profile; before
the roots are loaded the create form insists on a root; the answer to a role's
save replaces the draft of the role selected since; enabling a field again after
a lost answer is refused by the page although it succeeded; between records of
the day before and the day after, no day is accepted for an insert and the plan
proposes one all the same (`RoomForARecord`; `orgUnitRecordDateRules.ts:177`),
where "no slot" is told for the first record only
(`docs/archive/dev-plans/101i-...:154` wants it told); the label of a
dictionary field left blank is the dictionary's name, so a repeated call after a
renaming is a conflict. A disable that waits for the lock over midnight is
accepted with yesterday's date, since `current_date` is that of the beginning of
its transaction, although `00030:1161` calls such a date forbidden, and
the trigger on the table (`00030:194`) reads the same date. A plain extension field that appears under an
open form, by a refetch or by the browser's back button, is sent as null
(`OrgUnitDetailsPage.tsx:755`), and edits of extension fields are dropped without
a word when the details of another day are still loading. A search in the picker
can highlight a unit that confirm does not pick, for the reasons named above; and
`indexNodes` (`OrgUnitTreeSelector.tsx:92`) has no guard against a cycle, which
children loaded before and after a move can form, where `buildTreeNodes` has one
(`:71`).

## 6. Not modelled

* **Kernel**: ext fields and snapshots, the manager column, request ids and
  event uuids. They do not steer the log or the projection; repeated sends are
  modelled where the web application repeats them.
* **Node keys and organisation codes**: the codec's carry lies 32^7 keys away;
  the allocator of codes is decided by a unique index under the write lock.
* **Read side, routing, sessions, tenancy, superadmin, tooling, migrations**:
  stateless, or tables with single-statement writes.
* **Field policies, rekey of fields, dictionaries and the release on the server,
  the statements of role transactions against each other**: they have state worth
  modelling and are the next candidates, in that order: policies share the
  lock and the log of `FieldConfigs`; a release replays events like a rebuild;
  the role runtime needs one step per statement at read-committed isolation
  (a role is read without a lock while its capabilities change,
  `authz_runtime_store.go:664`).
* **CubeBox**: planner and tools of a query (a turn either answers or
  fails), compaction of prompts, model settings.
* **Extension fields that are disabled while the details page is open**: fields
  of a form would disappear; the model only lets them appear.
* **Web application**: pages that show one query or write one form, the shell,
  permissions, texts; of the modelled pages the tables, filters and
  options.
* **Without a proof**: see "Only model-checked" in section 4.
