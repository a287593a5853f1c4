---------------------------- MODULE AuthzRolePages ----------------------------
(***************************************************************************)
(* RoleManagementPage and UserAuthorizationPage: the definition of a role  *)
(* and the assignment of a principal are edited in a draft and replaced as *)
(* a whole, while other administrators replace them, too.  The server      *)
(* takes a replacement of the revision it has, and no other.               *)
(*                                                                         *)
(* A definition is the set of its parts: the capabilities, and Renamed for *)
(* the text fields.  An assignment is the set of its roles, with Scope for *)
(* its organisation rows.                                                  *)
(***************************************************************************)
EXTENDS Integers, FiniteSets

CONSTANTS RoleSlugs,      \* the slugs of roles
          SystemRoles,    \* the roles that are read-only
          ScopedRoles,    \* the roles that need an organisation scope
          FirstRoles,     \* the roles there are at first
          Capabilities,
          Principals,
          AuthzBudget     \* bound on what the user and the others do

Renamed == "renamed"
Scope == "scope"
Parts == Capabilities \cup {Renamed}
NoSlug == "none"

ASSUME RoleAssumption == /\ SystemRoles \subseteq FirstRoles
                         /\ ScopedRoles \subseteq RoleSlugs
                         /\ FirstRoles \ ScopedRoles # {}
                         /\ FirstRoles \subseteq RoleSlugs
                         /\ Principals # {}
                         /\ Renamed \notin Capabilities
                         /\ NoSlug \notin RoleSlugs \cup Principals
                         /\ {Scope, "create"} \cap RoleSlugs = {}
ASSUME AuthzBound == AuthzBudget \in Nat

VARIABLES definitions,     \* the server's roles
          rolesKnown,      \* rolesQuery
          selectedRoleSlug,
          roleDraft,
          roleSave,        \* saveMutation of the role page
          assignments,     \* the server's assignments
          assignmentKnown, \* assignmentQuery, by principal
          assignmentFetch, \* its fetches: what the server has answered
          selectedPrincipal,
          assignmentTab,   \* tab
          assignmentDraft,
          assignmentSave,  \* saveMutation of the assignment page
          authzSpent

roleVars == <<definitions, rolesKnown, selectedRoleSlug, roleDraft, roleSave>>
assignmentVars == <<assignments, assignmentKnown, assignmentFetch, selectedPrincipal,
                    assignmentTab, assignmentDraft, assignmentSave>>
authzVars == <<roleVars, assignmentVars, authzSpent>>

(* What a draft is based on, and what the user has changed in it.          *)
Draft(of, revision, content) ==
  [of |-> of, revision |-> revision, content |-> content, touched |-> {}]
NoDraft == Draft(NoSlug, 0, {})
EmptyRoleDraft == [NoDraft EXCEPT !.of = "create"]
Idle == [stage |-> "no", to |-> NoSlug, draft |-> NoDraft]

FirstVersion(content) == [revision |-> 1, content |-> content]
AnyCapability == {CHOOSE c \in Capabilities : TRUE}
PlainRole == {CHOOSE r \in FirstRoles \ ScopedRoles : TRUE}
AnyPrincipal == CHOOSE p \in Principals : TRUE

AuthzInit ==
  /\ definitions = [r \in FirstRoles |-> FirstVersion(AnyCapability)]
  /\ rolesKnown = [r \in {} |-> FirstVersion({})]
  /\ selectedRoleSlug = NoSlug
  /\ roleDraft = NoDraft
  /\ roleSave = Idle
  /\ \E others \in {{}, PlainRole \cup {Scope}} :
       assignments = [p \in Principals |->
                        FirstVersion(IF p = AnyPrincipal THEN PlainRole ELSE others)]
  /\ assignmentKnown = [p \in Principals |-> NoDraft]
  /\ assignmentFetch = [p \in {AnyPrincipal} |-> NoDraft]
  /\ selectedPrincipal = AnyPrincipal
  /\ assignmentTab = "roles"
  /\ assignmentDraft = NoDraft
  /\ assignmentSave = Idle
  /\ authzSpent = 0

AuthzActs == authzSpent < AuthzBudget /\ authzSpent' = authzSpent + 1

Toggled(draft, part) ==
  [draft EXCEPT !.content = (@ \ {part}) \cup ({part} \ @), !.touched = @ \cup {part}]

(***************************************************************************)
(* The server replaces what has the revision of the draft.                 *)
(***************************************************************************)
Replaced(stored, draft) == [revision |-> stored.revision + 1, content |-> draft.content]
IsCurrent(stored, draft) == stored.revision = draft.revision
CanAssign(content) == /\ content \cap RoleSlugs # {}
                      /\ ScopedRoles \cap content # {} => Scope \in content

UpdateRoleDefinition(slug, draft) ==
  /\ slug \in DOMAIN definitions \ SystemRoles
  /\ IsCurrent(definitions[slug], draft)
  /\ definitions' = [definitions EXCEPT ![slug] = Replaced(@, draft)]

CreateRoleDefinition(slug, draft) ==
  /\ slug \notin DOMAIN definitions
  /\ definitions' = [r \in DOMAIN definitions \cup {slug} |->
                       IF r = slug THEN FirstVersion(draft.content) ELSE definitions[r]]

ReplacePrincipalAssignment(p, draft) ==
  /\ IsCurrent(assignments[p], draft)
  /\ CanAssign(draft.content)
  /\ assignments' = [assignments EXCEPT ![p] = Replaced(@, draft)]

(***************************************************************************)
(* RoleManagementPage.  Without a draft the form shows the role that is    *)
(* selected, or the first one, as it was last read.                        *)
(***************************************************************************)
DraftFromRole(slug, roles) == Draft(slug, roles[slug].revision, roles[slug].content)

SelectedRole ==
  IF selectedRoleSlug \in DOMAIN rolesKnown THEN selectedRoleSlug
  ELSE IF DOMAIN rolesKnown # {} THEN CHOOSE r \in DOMAIN rolesKnown : TRUE
  ELSE NoSlug

(* Mutant of ActiveRoleDraft: a draft takes the revision that is known now.*)
RebasedRoleDraft ==
  IF roleDraft.of \in DOMAIN rolesKnown
  THEN [roleDraft EXCEPT !.revision = rolesKnown[roleDraft.of].revision]
  ELSE IF roleDraft # NoDraft THEN roleDraft
  ELSE IF SelectedRole # NoSlug THEN DraftFromRole(SelectedRole, rolesKnown)
  ELSE EmptyRoleDraft

ActiveRoleDraft ==
  IF roleDraft # NoDraft THEN roleDraft
  ELSE IF SelectedRole # NoSlug THEN DraftFromRole(SelectedRole, rolesKnown)
  ELSE EmptyRoleDraft

Editable == ActiveRoleDraft.of \notin SystemRoles

ReadRoles ==
  /\ rolesKnown' = definitions
  /\ UNCHANGED <<definitions, selectedRoleSlug, roleDraft, roleSave, authzSpent>>

PickRole ==
  /\ AuthzActs
  /\ \/ \E r \in DOMAIN rolesKnown :
          selectedRoleSlug' = r /\ roleDraft' = DraftFromRole(r, rolesKnown)
     \/ selectedRoleSlug' = NoSlug /\ roleDraft' = EmptyRoleDraft
  /\ UNCHANGED <<definitions, rolesKnown, roleSave>>

(* The capabilities are closed during a save, the text fields are not.     *)
EditRole ==
  /\ Editable
  /\ AuthzActs
  /\ \E part \in (IF roleSave.stage = "no" THEN Parts ELSE {Renamed}) :
       roleDraft' = Toggled(ActiveRoleDraft, part)
  /\ UNCHANGED <<definitions, rolesKnown, selectedRoleSlug, roleSave>>

SaveRole ==
  /\ roleSave.stage = "no"
  /\ Editable
  /\ ActiveRoleDraft.content \cap Capabilities # {}
  /\ AuthzActs
  /\ \E slug \in (IF ActiveRoleDraft.of = "create" THEN RoleSlugs ELSE {ActiveRoleDraft.of}) :
       roleSave' = [stage |-> "sent", to |-> slug, draft |-> ActiveRoleDraft]
  /\ UNCHANGED <<definitions, rolesKnown, selectedRoleSlug, roleDraft>>

ServeRole ==
  /\ roleSave.stage = "sent"
  /\ IF roleSave.draft.of = "create" THEN CreateRoleDefinition(roleSave.to, roleSave.draft)
     ELSE UpdateRoleDefinition(roleSave.to, roleSave.draft)
  /\ roleSave' = [roleSave EXCEPT !.stage = "done",
                                  !.draft = DraftFromRole(roleSave.to, definitions')]
  /\ UNCHANGED <<rolesKnown, selectedRoleSlug, roleDraft, authzSpent>>

RoleSaved ==
  /\ roleSave.stage = "done"
  /\ selectedRoleSlug' = roleSave.to
  /\ roleDraft' = roleSave.draft
  /\ roleSave' = Idle
  /\ UNCHANGED <<definitions, rolesKnown, authzSpent>>

RoleNotSaved ==
  /\ roleSave.stage \in {"sent", "done"}
  /\ roleSave' = Idle
  /\ UNCHANGED <<definitions, rolesKnown, selectedRoleSlug, roleDraft, authzSpent>>

OtherAdminReplacesRole ==
  /\ AuthzActs
  /\ \E r \in DOMAIN definitions, part \in Parts :
       UpdateRoleDefinition(r, Toggled(DraftFromRole(r, definitions), part))
  /\ UNCHANGED <<rolesKnown, selectedRoleSlug, roleDraft, roleSave>>

RoleNext ==
  /\ \/ ReadRoles \/ PickRole \/ EditRole \/ SaveRole
     \/ ServeRole \/ RoleSaved \/ RoleNotSaved \/ OtherAdminReplacesRole
  /\ UNCHANGED assignmentVars

(***************************************************************************)
(* UserAuthorizationPage.  The assignment is read again when a principal   *)
(* is selected; until the first answer the draft is empty, of revision 0.  *)
(***************************************************************************)
AssignmentDraftFromResponse(p) == Draft(p, assignments[p].revision, assignments[p].content)

(* Mutant of ActiveAssignmentDraft: a draft takes the revision known now.  *)
RebasedAssignmentDraft ==
  LET known == assignmentKnown[selectedPrincipal] IN
  IF assignmentDraft # NoDraft THEN [assignmentDraft EXCEPT !.revision = known.revision]
  ELSE known

ActiveAssignmentDraft ==
  IF assignmentDraft # NoDraft THEN assignmentDraft ELSE assignmentKnown[selectedPrincipal]

IsFetching(p) == p \in DOMAIN assignmentFetch
Fetching(p) == [q \in DOMAIN assignmentFetch \cup {p} |->
                  IF IsFetching(q) THEN assignmentFetch[q] ELSE NoDraft]

(* The first principal is selected when the page opens.                    *)
SelectPrincipal ==
  /\ AuthzActs
  /\ \E p \in Principals : /\ selectedPrincipal' = p
                           /\ assignmentFetch' = Fetching(p)
  /\ assignmentDraft' = NoDraft
  /\ UNCHANGED <<assignments, assignmentKnown, assignmentTab, assignmentSave>>

SelectAssignmentTab ==
  /\ assignmentTab' = IF assignmentTab = "roles" THEN "org" ELSE "roles"
  /\ UNCHANGED <<assignments, assignmentKnown, assignmentFetch, selectedPrincipal,
                 assignmentDraft, assignmentSave, authzSpent>>

AssignmentRead ==
  /\ \E p \in DOMAIN assignmentFetch :
       /\ assignmentFetch[p] = NoDraft
       /\ assignmentFetch' = [assignmentFetch EXCEPT ![p] = AssignmentDraftFromResponse(p)]
  /\ UNCHANGED <<assignments, assignmentKnown, selectedPrincipal, assignmentTab,
                 assignmentDraft, assignmentSave, authzSpent>>

(* The answer is taken, or lost.                                           *)
AssignmentFetched ==
  /\ \E p \in DOMAIN assignmentFetch :
       /\ assignmentFetch' = [q \in DOMAIN assignmentFetch \ {p} |-> assignmentFetch[q]]
       /\ \/ /\ assignmentFetch[p] # NoDraft
             /\ assignmentKnown' = [assignmentKnown EXCEPT ![p] = assignmentFetch[p]]
          \/ UNCHANGED assignmentKnown
  /\ UNCHANGED <<assignments, selectedPrincipal, assignmentTab, assignmentDraft,
                 assignmentSave, authzSpent>>

UpdateDraft ==
  /\ AuthzActs
  /\ \E item \in (IF assignmentTab = "roles" THEN RoleSlugs ELSE {Scope}) :
       assignmentDraft' = Toggled(ActiveAssignmentDraft, item)
  /\ UNCHANGED <<assignments, assignmentKnown, assignmentFetch, selectedPrincipal,
                 assignmentTab, assignmentSave>>

CancelDraft ==
  /\ ~IsFetching(selectedPrincipal)
  /\ assignmentSave.stage = "no"
  /\ AuthzActs
  /\ assignmentDraft' = NoDraft
  /\ assignmentFetch' = Fetching(selectedPrincipal)
  /\ UNCHANGED <<assignments, assignmentKnown, selectedPrincipal, assignmentTab, assignmentSave>>

SaveAssignment ==
  /\ ~IsFetching(selectedPrincipal)
  /\ assignmentSave.stage = "no"
  /\ ActiveAssignmentDraft.content \cap RoleSlugs # {}
  /\ AuthzActs
  /\ assignmentSave' = [stage |-> "sent", to |-> selectedPrincipal,
                        draft |-> ActiveAssignmentDraft]
  /\ UNCHANGED <<assignments, assignmentKnown, assignmentFetch, selectedPrincipal, assignmentTab,
                 assignmentDraft>>

ServeAssignment ==
  /\ assignmentSave.stage = "sent"
  /\ ReplacePrincipalAssignment(assignmentSave.to, assignmentSave.draft)
  /\ assignmentSave' = [assignmentSave EXCEPT !.stage = "done",
       !.draft = Draft(assignmentSave.to, assignments'[assignmentSave.to].revision,
                       assignments'[assignmentSave.to].content)]
  /\ UNCHANGED <<assignmentKnown, assignmentFetch, selectedPrincipal, assignmentTab, assignmentDraft,
                 authzSpent>>

(* The answer is kept under the principal that is selected by then.        *)
AssignmentSaved ==
  /\ assignmentSave.stage = "done"
  /\ assignmentKnown' = [assignmentKnown EXCEPT ![selectedPrincipal] = assignmentSave.draft]
  /\ assignmentDraft' = NoDraft
  /\ assignmentSave' = Idle
  /\ UNCHANGED <<assignments, assignmentFetch, selectedPrincipal, assignmentTab, authzSpent>>

AssignmentNotSaved ==
  /\ assignmentSave.stage \in {"sent", "done"}
  /\ IF assignmentSave.stage = "sent" /\ ~CanAssign(assignmentSave.draft.content)
     THEN assignmentTab' \in {assignmentTab, "org"}   \* authz_org_scope_required
     ELSE UNCHANGED assignmentTab
  /\ assignmentSave' = Idle
  /\ UNCHANGED <<assignments, assignmentKnown, assignmentFetch, selectedPrincipal,
                 assignmentDraft, authzSpent>>

OtherAdminReplacesAssignment ==
  /\ AuthzActs
  /\ \E p \in Principals, item \in RoleSlugs \cup {Scope} :
       ReplacePrincipalAssignment(p, Toggled(AssignmentDraftFromResponse(p), item))
  /\ UNCHANGED <<assignmentKnown, assignmentFetch, selectedPrincipal, assignmentTab,
                 assignmentDraft, assignmentSave>>

AssignmentNext ==
  /\ \/ SelectPrincipal \/ SelectAssignmentTab \/ AssignmentRead \/ AssignmentFetched
     \/ UpdateDraft \/ CancelDraft \/ SaveAssignment \/ ServeAssignment
     \/ AssignmentSaved \/ AssignmentNotSaved \/ OtherAdminReplacesAssignment
  /\ UNCHANGED roleVars

AuthzSpec == AuthzInit /\ [][RoleNext \/ AssignmentNext]_authzVars

(* Another administrator's replacement is never undone: a role that is     *)
(* replaced keeps, of every part the user did not touch in this draft, what*)
(* the server has at that moment, however often the list was read again,   *)
(* the role left and selected again or a save repeated in between          *)
(* (activeDraft carries its revision with its content).                    *)
OnlyTouchedPartsReplaced ==
  [][roleSave.stage = "sent" /\ roleSave'.stage = "done" /\ roleSave.draft.of # "create" =>
       LET slug == roleSave.to IN
       \A part \in Parts \ roleSave.draft.touched :
         part \in definitions'[slug].content <=> part \in definitions[slug].content]_authzVars

(* So it is with the rows of an assignment, as long as the draft was made  *)
(* from an assignment of the principal it is saved for.                    *)
OnlyTouchedRowsReplaced ==
  [][assignmentSave.stage = "sent" /\ assignmentSave'.stage = "done"
       /\ assignmentSave.draft.of = assignmentSave.to =>
       LET p == assignmentSave.to IN
       \A item \in (RoleSlugs \cup {Scope}) \ assignmentSave.draft.touched :
         item \in assignments'[p].content <=> item \in assignments[p].content]_authzVars

(* DEV-PLAN-489 promises that the scopes of one user are never saved to    *)
(* another: what the server takes was drafted from an assignment of the    *)
(* principal it is saved for.                                              *)
ScopesStayWithTheirUser ==
  [][assignmentSave.stage = "sent" /\ assignmentSave'.stage = "done" =>
       assignmentSave.draft.of = assignmentSave.to]_authzVars
=============================================================================
