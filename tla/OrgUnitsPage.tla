---------------------------- MODULE OrgUnitsPage ----------------------------
(***************************************************************************)
(* OrgUnitsPage: the organisation tree, its search and the dialog that     *)
(* creates a unit.  The page's filters live in the address; a handler, an  *)
(* effect or an await that goes on writes the address it saw when it was   *)
(* rendered, not the one that is there now.                                *)
(*                                                                         *)
(* A view of the tree is a pair of as_of and include_disabled: they are    *)
(* changed, and the tree depends on them, in the same way.                 *)
(***************************************************************************)
EXTENDS Integers, Sequences, FiniteSets

CONSTANTS Views,          \* the views of the tree
          Keywords,       \* the keywords; NoKeyword is the empty one
          Ancestors,      \* the parents on the path to the unit that is searched
          Codes,          \* organisation codes the user enters
          UnitsBudget     \* bound on what the user does

NoKeyword == 0
NoCode == 0
ViewOfLink == CHOOSE v \in Views : TRUE

ASSUME ViewAssumption == Views # {}
ASSUME KeywordAssumption == NoKeyword \in Keywords
ASSUME CodeAssumption == NoCode \notin Codes
ASSUME AncestorAssumption == Ancestors \in Seq(STRING)
ASSUME UnitsBound == UnitsBudget \in Nat

VARIABLES address,       \* the search parameters
          backAddress,   \* the history entry before
          keywordInput,
          debouncedKeyword,
          ranEffectsOn,  \* the address and keyword the effects last ran on
          children,      \* childrenByParent: what was answered for a parent
          treeLoading,   \* childrenLoading
          candidates,    \* searchCandidates: is there a choice to make
          treeCalls,     \* the loads and searches under way
          dialog,        \* the create dialog
          creating,      \* createMutation
          createdUnits,  \* the units the server has created for this page
          reported,      \* those the page has been told of
          unitsSpent

unitsVars == <<address, backAddress, keywordInput, debouncedKeyword, ranEffectsOn,
               children, treeLoading, candidates, treeCalls, dialog,
               creating, createdUnits, reported, unitsSpent>>
treeVars == <<children, treeLoading, candidates, treeCalls>>
addressVars == <<address, backAddress, keywordInput, debouncedKeyword>>
createVars == <<dialog, creating, createdUnits, reported>>

NoTree == [p \in {} |-> <<>>]
NoDialog == [open |-> FALSE, number |-> 0, code |-> NoCode]
NotCreating == [stage |-> "no", request |-> 0, dialog |-> 0, code |-> 0]

(* The page is opened at an address as a link may carry it.                *)
UnitsInit ==
  /\ \E keyword \in Keywords, ext, bare \in BOOLEAN :
       address = [node |-> FALSE, view |-> ViewOfLink, keyword |-> keyword,
                  ext |-> ext, bare |-> bare]
  /\ backAddress = address
  /\ keywordInput = address.keyword
  /\ debouncedKeyword = address.keyword
  /\ ranEffectsOn = <<>>
  /\ children = NoTree
  /\ treeLoading = FALSE
  /\ candidates = FALSE
  /\ treeCalls = {}
  /\ dialog = NoDialog
  /\ creating = NotCreating
  /\ createdUnits = {}
  /\ reported = {}
  /\ unitsSpent = 0

UserActs == unitsSpent < UnitsBudget /\ unitsSpent' = unitsSpent + 1
Unasked == UNCHANGED unitsSpent

(***************************************************************************)
(* The effects of a render run together on what was rendered; of several   *)
(* writes to the address the last one stays.                               *)
(***************************************************************************)
EffectInputs == <<address, debouncedKeyword>>
EffectsRan == ranEffectsOn = EffectInputs

Navigate(to) == address' = to /\ backAddress' = address

(* A late answer is not stopped; it is marked, for the property.           *)
ResetTree ==
  /\ children' = NoTree
  /\ treeCalls' = {[call EXCEPT !.overtaken = TRUE] : call \in treeCalls}

FirstRender == ranEffectsOn = <<>>
KeywordChanged == FirstRender \/ ranEffectsOn[1].keyword # address.keyword
(* Mutant of ViewChanged: the view is missing from the effect's inputs.    *)
OpenedOnly == FirstRender
ViewChanged == FirstRender \/ ranEffectsOn[1].view # address.view

(* Mutant of SyncKeyword: the debounced keyword is one of its inputs.      *)
SyncOverDebounced ==
  keywordInput' = IF debouncedKeyword # address.keyword THEN address.keyword
                  ELSE keywordInput
SyncKeyword == keywordInput' = IF KeywordChanged THEN address.keyword ELSE keywordInput

WriteAddress ==
  IF debouncedKeyword # address.keyword
  THEN Navigate([address EXCEPT !.keyword = debouncedKeyword])
  ELSE /\ UNCHANGED backAddress
       /\ address' = IF address.ext THEN [address EXCEPT !.ext = FALSE]
                     ELSE [address EXCEPT !.bare = FALSE]

Effects ==
  /\ ~EffectsRan
  /\ ranEffectsOn' = EffectInputs
  /\ SyncKeyword
  /\ IF ViewChanged THEN ResetTree ELSE UNCHANGED <<children, treeCalls>>
  /\ WriteAddress
  /\ UNCHANGED <<debouncedKeyword, treeLoading, candidates, unitsSpent>>
  /\ UNCHANGED createVars

Debounce ==
  /\ EffectsRan
  /\ debouncedKeyword # keywordInput
  /\ debouncedKeyword' = keywordInput
  /\ UNCHANGED <<address, backAddress, keywordInput, ranEffectsOn, unitsSpent>>
  /\ UNCHANGED treeVars /\ UNCHANGED createVars

(***************************************************************************)
(* What the user does with the filters; the dialog covers them.            *)
(***************************************************************************)
UpdateSearch(patched) ==
  /\ Navigate(patched)
  /\ UNCHANGED <<keywordInput, debouncedKeyword>>

TypeKeyword ==
  /\ \E k \in Keywords \ {keywordInput} : keywordInput' = k
  /\ UNCHANGED <<address, backAddress, debouncedKeyword>>
ChangeView ==
  \E v \in Views \ {address.view} : UpdateSearch([address EXCEPT !.view = v])
SelectNode == ~address.node /\ UpdateSearch([address EXCEPT !.node = TRUE])

Filter ==
  /\ EffectsRan
  /\ ~dialog.open
  /\ UserActs
  /\ TypeKeyword \/ ChangeView \/ SelectNode
  /\ UNCHANGED ranEffectsOn
  /\ UNCHANGED treeVars /\ UNCHANGED createVars

(* The browser goes back, or forward again.                                *)
Back ==
  /\ EffectsRan
  /\ address # backAddress
  /\ UserActs
  /\ Navigate(backAddress)
  /\ UNCHANGED <<keywordInput, debouncedKeyword, ranEffectsOn>>
  /\ UNCHANGED treeVars /\ UNCHANGED createVars

(***************************************************************************)
(* Children are loaded when a node is expanded and, one parent after the   *)
(* other, on the way to a unit that was searched.  A call keeps the        *)
(* address and the tree it was started with.                               *)
(***************************************************************************)
TreeCall(search, rest) ==
  [search |-> search, rest |-> rest, from |-> address, had |-> DOMAIN children,
   stage |-> IF search THEN "search" ELSE "sent", answer |-> {}, overtaken |-> FALSE]

HasTreeRoom(kind) == \A call \in treeCalls : call.search # kind

ExpandNode ==
  /\ EffectsRan /\ ~dialog.open
  /\ HasTreeRoom(FALSE)
  /\ UserActs
  /\ \E i \in DOMAIN Ancestors :
       /\ Ancestors[i] \notin DOMAIN children
       /\ treeCalls' = treeCalls \cup {TreeCall(FALSE, <<Ancestors[i]>>)}
  /\ treeLoading' = TRUE
  /\ UNCHANGED <<children, candidates, ranEffectsOn>>
  /\ UNCHANGED addressVars /\ UNCHANGED createVars

(* Enter or the search button, and the choice among ambiguous results.     *)
Locate ==
  /\ EffectsRan /\ ~dialog.open
  /\ HasTreeRoom(TRUE)
  /\ keywordInput # NoKeyword \/ candidates
  /\ UserActs
  /\ candidates' = FALSE
  /\ treeCalls' = treeCalls \cup {TreeCall(TRUE, Ancestors)}
  /\ UNCHANGED <<children, treeLoading, ranEffectsOn>>
  /\ UNCHANGED addressVars /\ UNCHANGED createVars

Answer(call) ==
  /\ call.stage = "sent"
  /\ \E stage \in {"answered", "failed"} :
       treeCalls' = (treeCalls \ {call}) \cup
                      {[call EXCEPT !.stage = stage, !.answer = createdUnits]}
  /\ UNCHANGED <<children, treeLoading, candidates, ranEffectsOn, unitsSpent>>
  /\ UNCHANGED addressVars /\ UNCHANGED createVars

(* The parents the call did not see loaded are loaded one by one; at the   *)
(* end a search selects the unit, at the address it was started from.      *)
GoOn(call, rest, loading) ==
  IF rest # <<>>
  THEN /\ treeCalls' = (treeCalls \ {call}) \cup
                         {[call EXCEPT !.rest = rest, !.stage = "sent", !.answer = {}]}
       /\ treeLoading' = TRUE
       /\ UNCHANGED addressVars
  ELSE /\ treeCalls' = treeCalls \ {call}
       /\ treeLoading' = loading
       /\ IF call.search THEN UpdateSearch([call.from EXCEPT !.node = TRUE])
          ELSE UNCHANGED addressVars

(* The parents that are left to load: those the page did not have when the *)
(* search began, or none for a root or a path that is not told.            *)
FoundPaths(call) == {SelectSeq(call.rest, LAMBDA p : p \notin call.had), <<>>}

SearchAnswered(call) ==
  /\ call.stage = "search"
  /\ EffectsRan
  /\ \/ /\ \E parents \in FoundPaths(call) : GoOn(call, parents, treeLoading)
        /\ UNCHANGED candidates
     \/ /\ candidates' \in BOOLEAN   \* ambiguous, or failed
        /\ treeCalls' = treeCalls \ {call}
        /\ UNCHANGED treeLoading /\ UNCHANGED addressVars
  /\ UNCHANGED <<children, ranEffectsOn, unitsSpent>> /\ UNCHANGED createVars

ChildrenAnswered(call) ==
  /\ call.stage \in {"answered", "failed"}
  /\ EffectsRan
  /\ children' = IF call.stage = "failed" THEN children
                 ELSE [p \in DOMAIN children \cup {Head(call.rest)} |->
                         IF p = Head(call.rest)
                         THEN [view |-> call.from.view, units |-> call.answer,
                               overtaken |-> call.overtaken]
                         ELSE children[p]]
  /\ GoOn(call, Tail(call.rest), FALSE)
  /\ UNCHANGED <<candidates, ranEffectsOn, unitsSpent>> /\ UNCHANGED createVars

(***************************************************************************)
(* The create dialog.  Its request id is made when it is opened and kept   *)
(* for every attempt; it may be closed and opened again while an attempt   *)
(* is under way.  Of the form only the code is told apart.  A dialog that  *)
(* is opened later makes another request.                                  *)
(***************************************************************************)
OpenCreateDialog ==
  /\ EffectsRan /\ ~dialog.open
  /\ UserActs
  /\ dialog' = [open |-> TRUE, number |-> dialog.number + 1, code |-> NoCode]
  /\ UNCHANGED <<creating, createdUnits, reported, ranEffectsOn>>
  /\ UNCHANGED addressVars /\ UNCHANGED treeVars

CreateDialogStep == /\ UNCHANGED <<createdUnits, ranEffectsOn>>
                    /\ UNCHANGED addressVars

CloseCreateDialog ==
  /\ dialog.open
  /\ dialog' = [dialog EXCEPT !.open = FALSE]
  /\ UNCHANGED <<creating, reported, unitsSpent>> /\ UNCHANGED treeVars
  /\ CreateDialogStep

(* The form stays open to edits while an attempt is under way.             *)
EnterCode ==
  /\ dialog.open
  /\ IF dialog.code = NoCode THEN Unasked ELSE UserActs
  /\ \E code \in Codes \ {dialog.code} : dialog' = [dialog EXCEPT !.code = code]
  /\ UNCHANGED <<creating, reported>> /\ UNCHANGED treeVars
  /\ CreateDialogStep

CanCreateUnit(d) == d.code # NoCode

(* Mutant of RequestID: every attempt is a request of its own.             *)
RequestOfAttempt(d) == d.number + unitsSpent
RequestID(d) == d.number

Create ==
  /\ dialog.open
  /\ creating.stage = "no"
  /\ CanCreateUnit(dialog)
  /\ UserActs
  /\ creating' = [stage |-> "sent", request |-> RequestID(dialog),
                  dialog |-> dialog.number, code |-> dialog.code]
  /\ UNCHANGED <<dialog, reported>> /\ UNCHANGED treeVars
  /\ CreateDialogStep

(* The server creates one unit for a request id and one with a code; that  *)
(* a request was served before is answered with success, whatever the form *)
(* says by now.                                                            *)
ServerCreates ==
  LET unit == [request |-> creating.request, dialog |-> creating.dialog,
               code |-> creating.code]
  IN /\ creating.stage = "sent"
     /\ \/ /\ \A u \in createdUnits : u.request # unit.request /\ u.code # unit.code
           /\ createdUnits' = createdUnits \cup {unit}
           /\ creating' = [creating EXCEPT !.stage = "done"]
        \/ /\ \E u \in createdUnits : u.request = unit.request
           /\ creating' = [creating EXCEPT !.stage = "done"]
           /\ UNCHANGED createdUnits
        \/ creating' = [creating EXCEPT !.stage = "failed"] /\ UNCHANGED createdUnits
     /\ UNCHANGED <<dialog, reported, ranEffectsOn, unitsSpent>>
     /\ UNCHANGED addressVars /\ UNCHANGED treeVars

(* The answer to the last attempt of request() is lost; that it sends a    *)
(* create twice by itself makes no difference to the server.               *)
CreateAnswerLost ==
  /\ creating.stage = "done"
  /\ creating' = [creating EXCEPT !.stage = "failed"]
  /\ UNCHANGED <<dialog, reported, unitsSpent>> /\ UNCHANGED treeVars
  /\ CreateDialogStep

(* Success resets the tree, waits for the queries to be read again and     *)
(* closes the dialog that is open then.                                    *)
CreateSucceeds ==
  /\ creating.stage = "done"
  /\ ResetTree
  /\ creating' = [creating EXCEPT !.stage = "refresh"]
  /\ reported' = createdUnits
  /\ UNCHANGED <<dialog, treeLoading, candidates, unitsSpent>>
  /\ CreateDialogStep

RefreshedAfterWrite ==
  /\ creating.stage = "refresh"
  /\ creating' = NotCreating
  /\ dialog' = [dialog EXCEPT !.open = FALSE]
  /\ UNCHANGED <<reported, unitsSpent>> /\ UNCHANGED treeVars
  /\ CreateDialogStep

CreateFails ==
  /\ creating.stage = "failed"
  /\ creating' = NotCreating
  /\ UNCHANGED <<dialog, reported, unitsSpent>> /\ UNCHANGED treeVars
  /\ CreateDialogStep

UnitsNext ==
  \/ Effects \/ Debounce
  \/ Filter \/ Back \/ ExpandNode \/ Locate
  \/ \E call \in treeCalls : Answer(call) \/ SearchAnswered(call) \/ ChildrenAnswered(call)
  \/ OpenCreateDialog \/ CloseCreateDialog \/ EnterCode \/ Create
  \/ ServerCreates \/ CreateAnswerLost \/ CreateSucceeds \/ RefreshedAfterWrite
  \/ CreateFails

(***************************************************************************)
(* The filters, the tree, the dialog and the calls have their shape.       *)
(***************************************************************************)
UnitsTypeOK ==
  /\ address.view \in Views /\ address.keyword \in Keywords
  /\ keywordInput \in Keywords /\ debouncedKeyword \in Keywords
  /\ \A p \in DOMAIN children : children[p].view \in Views
  /\ \A call \in treeCalls : call.stage \in {"search", "sent", "answered", "failed"}
  /\ creating.stage \in {"no", "sent", "done", "failed", "refresh"}
  /\ creating.stage # "no" =>
       creating.code \in Codes /\ creating.dialog \in 1..dialog.number

(* However often a create is sent again after its answer was lost, edited  *)
(* in between or sent from a dialog opened while another attempt runs, one *)
(* opening of the dialog creates at most one unit: createForm.requestID is *)
(* made by emptyCreateForm and not by an attempt.                          *)
OneUnitPerDialog ==
  \A u, w \in createdUnits : u.dialog = w.dialog => u = w

(* The children shown below a node are those of the shown view and hold    *)
(* every unit the page has reported as created, but for an answer that was *)
(* under way when the filters changed or the tree was reset (which is never*)
(* asked for again).                                                       *)
TreeIsCurrent ==
  EffectsRan =>
    \A p \in DOMAIN children :
      ~children[p].overtaken =>
        children[p].view = address.view /\ reported \subseteq children[p].units

(* The input, the debounced keyword and the address agree, and the address *)
(* is free of what the page removes from it.                               *)
UnitsAddressAtRest ==
  /\ EffectsRan
  /\ keywordInput = address.keyword /\ debouncedKeyword = address.keyword
  /\ ~address.ext /\ ~address.bare
(* How many runs of the effects and of the debounce are left until the     *)
(* address is at rest: a debounced keyword costs three, the keyword goes   *)
(* to the address in two, and what is removed from it goes one by one.     *)
Leftovers == (IF address.ext THEN 1 ELSE 0) + (IF address.bare THEN 1 ELSE 0)
DebounceDue == IF keywordInput = debouncedKeyword THEN 0 ELSE 3

UnitsWay ==
  IF EffectsRan THEN DebounceDue
  ELSE IF debouncedKeyword # address.keyword THEN Leftovers + 2
  ELSE Leftovers + 1 + (IF KeywordChanged THEN 0 ELSE DebounceDue)
=============================================================================
