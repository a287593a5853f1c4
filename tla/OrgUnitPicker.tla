----------------------------- MODULE OrgUnitPicker -----------------------------
(***************************************************************************)
(* OrgUnitTreeField and the picker it opens: a tree whose nodes are loaded *)
(* when they are expanded, a search that loads the way to what it found,   *)
(* and a draft that is handed to the form when the user confirms.  A       *)
(* search goes on with the nodes it saw when it was started, while other   *)
(* users move, create and disable units.                                   *)
(***************************************************************************)
EXTENDS Integers, Sequences, SequencesExt

CONSTANTS PickerTrees,   \* by unit: the codes from its root down to it
          FirstTree,     \* the one the server has at first
          PickerBudget   \* bound on what the user does

PickerUnits == UNION {DOMAIN t : t \in PickerTrees}
NoPick == "no unit"

ASSUME PathAssumption ==
  /\ FirstTree \in PickerTrees
  /\ NoPick \notin PickerUnits
  /\ \A t \in PickerTrees : \A u \in DOMAIN t :
       /\ t[u] \in Seq(DOMAIN t) \ {<<>>}
       /\ Last(t[u]) = u
       /\ LET parents == Front(t[u]) IN parents # <<>> => t[Last(parents)] = parents
ASSUME PickerBound == PickerBudget \in Nat

VARIABLES picked,           \* the field's value
          pickerOpen,
          draft,            \* draft
          highlighted,      \* selectedOrgCode
          missed,           \* could the search that highlighted it not draft it
          roots,            \* the codes of roots
          rootsLoading,
          childrenByParent, \* by parent: the codes of its children
          loads,            \* children under way for nodes that were expanded
          searches,         \* searches under way
          tree,             \* the server's tree
          treeChanged,      \* since the picker was opened
          pickerSpent

serverTree == <<tree, treeChanged>>
treeState == <<roots, rootsLoading, childrenByParent, loads, searches>>
choice == <<draft, highlighted, missed>>
pickerVars == <<picked, pickerOpen, choice, treeState, serverTree, pickerSpent>>

PickerActs == pickerSpent < PickerBudget /\ pickerSpent' = pickerSpent + 1

PickerInit ==
  /\ picked \in {NoPick} \cup PickerUnits
  /\ pickerOpen = FALSE
  /\ draft = picked /\ highlighted = picked /\ missed = FALSE
  /\ roots = {} /\ rootsLoading = TRUE /\ childrenByParent = <<>>
  /\ loads = {} /\ searches = {}
  /\ tree = FirstTree /\ treeChanged = FALSE
  /\ pickerSpent = 0

ParentsOf(u) == Front(tree[u])
Siblings(u) == {w \in DOMAIN tree : ParentsOf(w) = ParentsOf(u)}
RootUnits == {u \in DOMAIN tree : ParentsOf(u) = <<>>}
ChildrenOf(p) == {u \in DOMAIN tree : p \in DOMAIN tree /\ ParentsOf(u) = tree[p]}

(* The nodes of the tree: what is reached from the roots through children. *)
Reaches(nodes) ==
  /\ roots \subseteq nodes
  /\ \A p \in nodes \cap DOMAIN childrenByParent : childrenByParent[p] \subseteq nodes
NodesByCode ==
  {u \in PickerUnits : \A nodes \in SUBSET PickerUnits : Reaches(nodes) => u \in nodes}

(* Another user moves, creates or disables a unit.  What is loaded is read *)
(* from the tree and received in one step.                                 *)
TreeChanges ==
  /\ pickerOpen
  /\ tree' \in PickerTrees \ {tree}
  /\ treeChanged' = TRUE
  /\ UNCHANGED <<picked, pickerOpen, choice, treeState, pickerSpent>>

(* The picker is made anew whenever it is opened.                          *)
OpenPicker ==
  /\ ~pickerOpen
  /\ PickerActs
  /\ pickerOpen' = TRUE
  /\ draft' = picked /\ highlighted' = picked /\ missed' = FALSE
  /\ roots' = {} /\ rootsLoading' = TRUE /\ childrenByParent' = <<>>
  /\ loads' = {} /\ searches' = {} /\ treeChanged' = FALSE
  /\ UNCHANGED <<picked, tree>>

(* What is still under way when it is closed reaches nobody.               *)
Closed ==
  /\ pickerOpen' = FALSE /\ loads' = {} /\ searches' = {}
  /\ UNCHANGED <<roots, rootsLoading, childrenByParent, serverTree>>

ClosePicker ==
  /\ pickerOpen
  /\ Closed
  /\ UNCHANGED <<picked, choice, pickerSpent>>

ConfirmPick ==
  /\ pickerOpen
  /\ draft # NoPick
  /\ picked' = draft
  /\ Closed
  /\ UNCHANGED <<choice, pickerSpent>>

ClearPick ==
  /\ ~pickerOpen
  /\ picked # NoPick
  /\ PickerActs
  /\ picked' = NoPick
  /\ UNCHANGED <<pickerOpen, choice, treeState, serverTree>>

(* The roots come, or the call fails.                                      *)
RootsAnswered ==
  /\ pickerOpen
  /\ rootsLoading
  /\ rootsLoading' = FALSE
  /\ roots' \in {RootUnits, {}}
  /\ UNCHANGED <<picked, pickerOpen, choice, childrenByParent, loads, searches>>
  /\ UNCHANGED <<serverTree, pickerSpent>>

PickNode ==
  /\ pickerOpen
  /\ PickerActs
  /\ \E u \in NodesByCode : draft' = u /\ highlighted' = u
  /\ missed' = FALSE
  /\ UNCHANGED <<picked, pickerOpen, treeState, serverTree>>

ExpandPickerNode ==
  /\ pickerOpen
  /\ PickerActs
  /\ \E p \in NodesByCode \ DOMAIN childrenByParent :
       loads' = loads \cup {[at |-> pickerSpent', parent |-> p]}
  /\ UNCHANGED <<picked, pickerOpen, choice, roots, rootsLoading, childrenByParent, searches>>
  /\ UNCHANGED serverTree

WithChildren(p, children) ==
  [q \in DOMAIN childrenByParent \cup {p} |->
     IF q = p THEN children ELSE childrenByParent[q]]

(* A load that fails leaves the node as it was, closed.                    *)
ChildrenLoaded ==
  /\ \E load \in loads :
       /\ loads' = loads \ {load}
       /\ childrenByParent' \in
            {childrenByParent, WithChildren(load.parent, ChildrenOf(load.parent))}
  /\ UNCHANGED <<picked, pickerOpen, choice, roots, rootsLoading, searches>>
  /\ UNCHANGED <<serverTree, pickerSpent>>

(* The parents a search goes through; known is what it knows of the tree,  *)
(* list the roots or children it saw last, siblings those among which the  *)
(* server found the unit; lacks, whether something it needs was missing.   *)
SearchCall(u) ==
  [at |-> pickerSpent', target |-> u, stage |-> "search", parents |-> <<>>,
   had |-> childrenByParent, known |-> NodesByCode,
   list |-> roots, siblings |-> {}, lacks |-> roots = {}]

Search ==
  /\ pickerOpen
  /\ PickerActs
  /\ \E u \in PickerUnits : searches' = searches \cup {SearchCall(u)}
  /\ UNCHANGED <<picked, pickerOpen, choice, roots, rootsLoading, childrenByParent, loads>>
  /\ UNCHANGED serverTree

(* The server finds the unit and tells its path, or no path, or fails.     *)
Found(call) ==
  LET told == [call EXCEPT !.stage = "path", !.siblings = Siblings(call.target)] IN
  IF call.target \in DOMAIN tree
  THEN {[told EXCEPT !.parents = ParentsOf(call.target)], [told EXCEPT !.lacks = TRUE]}
  ELSE {}

SearchFound ==
  /\ \E call \in searches :
       /\ call.stage = "search"
       /\ \E found \in {{told} : told \in Found(call)} \cup {{}} :
            searches' = (searches \ {call}) \cup found
  /\ UNCHANGED <<picked, pickerOpen, choice, roots, rootsLoading, childrenByParent, loads>>
  /\ UNCHANGED <<serverTree, pickerSpent>>

(* Mutant of LoadedNodes: the search stays with the nodes it began with.   *)
SeenNodes(call, children) == call.known
LoadedNodes(call, children) == call.known \cup children

(* One parent after the other; children that were there when the search    *)
(* was started are taken from there.  A load that fails is passed over.    *)
AfterParent(call, children) ==
  [call EXCEPT !.parents = Tail(@), !.known = LoadedNodes(call, children),
               !.list = children]

EnsurePathLoaded ==
  /\ \E call \in searches :
       /\ call.stage = "path"
       /\ call.parents # <<>>
       /\ LET p == Head(call.parents)
              goOn(next) == searches' = (searches \ {call}) \cup {next}
          IN \/ /\ p \in DOMAIN call.had
                /\ goOn(AfterParent(call, call.had[p]))
                /\ UNCHANGED childrenByParent
             \/ /\ p \notin DOMAIN call.had
                /\ goOn(AfterParent(call, ChildrenOf(p)))
                /\ childrenByParent' = WithChildren(p, ChildrenOf(p))
             \/ /\ p \notin DOMAIN call.had
                /\ goOn([AfterParent(call, {}) EXCEPT !.lacks = TRUE])
                /\ UNCHANGED childrenByParent
  /\ UNCHANGED <<picked, pickerOpen, choice, roots, rootsLoading, loads>>
  /\ UNCHANGED <<serverTree, pickerSpent>>

(* The unit is highlighted in any case, drafted only if its node is known. *)
SearchEnds ==
  /\ \E call \in searches :
       /\ call.stage = "path"
       /\ call.parents = <<>>
       /\ searches' = searches \ {call}
       /\ highlighted' = call.target
       /\ draft' = IF call.target \in call.known THEN call.target ELSE draft
       /\ missed' = (call.list # call.siblings /\ (call.lacks \/ treeChanged))
  /\ UNCHANGED <<picked, pickerOpen, roots, rootsLoading, childrenByParent, loads>>
  /\ UNCHANGED <<serverTree, pickerSpent>>

PickerNext ==
  \/ OpenPicker \/ ClosePicker \/ ConfirmPick \/ ClearPick
  \/ RootsAnswered \/ PickNode \/ ExpandPickerNode \/ ChildrenLoaded
  \/ Search \/ SearchFound \/ EnsurePathLoaded \/ SearchEnds
  \/ TreeChanges

(* What the user confirms is the unit the tree highlights, whatever        *)
(* searches and loads overlapped, unless the last search did not have the  *)
(* list the unit is in (the roots, or its parent's children) as the server *)
(* that found it has it, for one of these reasons: the roots were not      *)
(* there when it began, it was told no path, a load failed, or another     *)
(* user changed the tree while the picker was open.  Then a unit may be    *)
(* highlighted that confirm does not pick.                                 *)
HighlightIsDraft == pickerOpen => highlighted = draft \/ missed
=============================================================================
