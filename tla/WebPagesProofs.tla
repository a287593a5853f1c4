--------------------------- MODULE WebPagesProofs ---------------------------
(***************************************************************************)
(* The pages of the web application, for any number of units, records,     *)
(* roles, principals, fields, days and actions: a dialog creates one unit, *)
(* a write takes nothing back that the user left alone, a release is what  *)
(* was previewed, and forms are judged by what the server will find.       *)
(***************************************************************************)
EXTENDS WebPages, FieldConfigsProofs, NaturalsInduction, WellFoundedInduction,
        FiniteSetTheorems, TLAPS

(***************************************************************************)
(* The release panel.  Until a copy fails during a request, a request      *)
(* under way is about the form as it is, and closes it.                    *)
(***************************************************************************)
Undisturbed ==
  /\ releaseStage = "ready" => previewedEdition = edition
  /\ previewCalls # {} => releaseStage = "previewing" /\ previewCalls = {edition}
  /\ releaseCalls # {} => releaseStage = "releasing" /\ releaseCalls = {edition}

ReleaseInv ==
  /\ ReleaseWasPreviewed
  /\ BusyHasRequest
  /\ ~copyFailedBusy => Undisturbed

LEMMA ReleaseRests ==
  ASSUME ReleaseInv, UNCHANGED releaseVars
  PROVE  ReleaseInv'
  BY DEF ReleaseInv, ReleaseWasPreviewed, BusyHasRequest, ReleaseBusy, Undisturbed,
         releaseVars

LEMMA FormChanges ==
  ASSUME ReleaseInv, ~ReleaseBusy, ResetRelease,
         UNCHANGED <<previewCalls, releaseCalls, copies, sentReleases, copyFailedBusy>>
  PROVE  ReleaseInv'
  BY DEF ReleaseInv, ReleaseWasPreviewed, BusyHasRequest, ReleaseBusy, Undisturbed,
         ResetRelease, ToStage

LEMMA PreviewStarts ==
  ASSUME ReleaseInv, OnPreviewRelease
  PROVE  ReleaseInv'
<1>1. CASE ValidForm
  <2>1. /\ releaseStage' = "previewing" /\ previewCalls' = previewCalls \cup {edition}
        /\ UNCHANGED <<edition, previewedEdition, releaseCalls, sentReleases, copyFailedBusy>>
        /\ ~ReleaseBusy
    BY <1>1 DEF OnPreviewRelease, ToStage
  <2>2. ReleaseWasPreviewed' /\ BusyHasRequest'
    BY <2>1 DEF ReleaseInv, ReleaseWasPreviewed, BusyHasRequest
  <2>3. ~copyFailedBusy => previewCalls = {} /\ releaseCalls = {}
    BY <2>1 DEF ReleaseInv, Undisturbed, ReleaseBusy
  <2>4. ~copyFailedBusy' => Undisturbed'
    BY <2>1, <2>3 DEF Undisturbed
  <2> QED
    BY <2>2, <2>4 DEF ReleaseInv
<1>2. CASE ~ValidForm
  BY <1>2 DEF OnPreviewRelease, ToStage, ReleaseInv, ReleaseWasPreviewed,
              BusyHasRequest, ReleaseBusy, Undisturbed
<1> QED
  BY <1>1, <1>2

LEMMA ReleaseStarts ==
  ASSUME ReleaseInv, OnExecuteRelease
  PROVE  ReleaseInv'
<1>1. CASE ValidForm
  <2> DEFINE r == [edition |-> edition, previewed |-> previewedEdition,
                   overtaken |-> copyFailedBusy]
  <2>1. /\ releaseStage' = "releasing" /\ releaseCalls' = releaseCalls \cup {edition}
        /\ sentReleases' = sentReleases \cup {r}
        /\ UNCHANGED <<edition, previewedEdition, previewCalls, copyFailedBusy>>
        /\ ~ReleaseBusy /\ releaseStage = "ready"
    BY <1>1 DEF OnExecuteRelease, CanExecute, ToStage
  <2>2. r.overtaken \/ r.previewed = r.edition
    BY <2>1 DEF ReleaseInv, Undisturbed
  <2> HIDE DEF r
  <2>3. ReleaseWasPreviewed' /\ BusyHasRequest'
    BY <2>1, <2>2 DEF ReleaseInv, ReleaseWasPreviewed, BusyHasRequest
  <2>4. ~copyFailedBusy => previewCalls = {} /\ releaseCalls = {}
    BY <2>1 DEF ReleaseInv, Undisturbed, ReleaseBusy
  <2>5. ~copyFailedBusy' => Undisturbed'
    BY <2>1, <2>4 DEF Undisturbed
  <2> QED
    BY <2>3, <2>5 DEF ReleaseInv
<1>2. CASE ~ValidForm
  BY <1>2 DEF OnExecuteRelease, CanExecute, ToStage, ReleaseInv,
              ReleaseWasPreviewed, BusyHasRequest, ReleaseBusy, Undisturbed
<1> QED
  BY <1>1, <1>2

LEMMA PreviewEnds ==
  ASSUME ReleaseInv, PreviewAnswered
  PROVE  ReleaseInv'
<1>1. PICK e \in previewCalls : /\ previewCalls' = previewCalls \ {e}
                                /\ PreviewSucceeds(e) \/ CallFails
  BY DEF PreviewAnswered
<1>2. UNCHANGED <<edition, releaseCalls, sentReleases, copyFailedBusy>>
  BY DEF PreviewAnswered
<1>3. \/ releaseStage' \in {"ready", "conflict"} /\ previewedEdition' = e
      \/ releaseStage' = "fail" /\ previewedEdition' = previewedEdition
  BY <1>1 DEF PreviewSucceeds, CallFails, ToStage, NextStageAfterPreview
<1>4. ReleaseWasPreviewed' /\ BusyHasRequest'
  BY <1>2, <1>3 DEF ReleaseInv, ReleaseWasPreviewed, BusyHasRequest, ReleaseBusy
<1>5. ~copyFailedBusy => previewCalls = {edition} /\ releaseCalls = {}
  BY <1>1 DEF ReleaseInv, Undisturbed
<1>6. ~copyFailedBusy' => Undisturbed'
  BY <1>1, <1>2, <1>3, <1>5 DEF Undisturbed
<1> QED
  BY <1>4, <1>6 DEF ReleaseInv

LEMMA ReleaseEnds ==
  ASSUME ReleaseInv, ReleaseAnswered
  PROVE  ReleaseInv'
<1>1. PICK e \in releaseCalls : /\ releaseCalls' = releaseCalls \ {e}
                                /\ ReleaseSucceeds \/ CallFails
  BY DEF ReleaseAnswered
<1>2. UNCHANGED <<edition, previewCalls, sentReleases, copyFailedBusy>>
  BY DEF ReleaseAnswered
<1>3. releaseStage' \in {"success", "fail"} /\ previewedEdition' = previewedEdition
  BY <1>1 DEF ReleaseSucceeds, CallFails, ToStage
<1>4. ReleaseWasPreviewed' /\ BusyHasRequest'
  BY <1>2, <1>3 DEF ReleaseInv, ReleaseWasPreviewed, BusyHasRequest, ReleaseBusy
<1>5. ~copyFailedBusy => releaseCalls = {edition} /\ previewCalls = {}
  BY <1>1 DEF ReleaseInv, Undisturbed
<1>6. ~copyFailedBusy' => Undisturbed'
  BY <1>1, <1>2, <1>3, <1>5 DEF Undisturbed
<1> QED
  BY <1>4, <1>6 DEF ReleaseInv

LEMMA CopyEnds ==
  ASSUME ReleaseInv, Copied
  PROVE  ReleaseInv'
<1>1. UNCHANGED <<edition, previewedEdition, previewCalls, releaseCalls, sentReleases>>
  BY DEF Copied
<1>2. CASE UNCHANGED <<releaseStage, copyFailedBusy>>
  BY <1>1, <1>2 DEF ReleaseInv, ReleaseWasPreviewed, BusyHasRequest, ReleaseBusy, Undisturbed
<1>3. CASE /\ releaseStage' = "fail"
           /\ copyFailedBusy' = (copyFailedBusy \/ previewCalls \cup releaseCalls # {})
  BY <1>1, <1>3 DEF ReleaseInv, ReleaseWasPreviewed, BusyHasRequest, ReleaseBusy, Undisturbed
<1> QED
  BY <1>2, <1>3 DEF Copied, ToStage

LEMMA ReleaseStep ==
  ASSUME ReleaseInv, [WebNext]_webVars
  PROVE  ReleaseInv'
<1>1. CASE UNCHANGED releaseVars
  BY <1>1, ReleaseRests
<1>2. CASE ReleaseNext
  <2>1. CASE OnReleaseFieldChange \/ OnResetRelease
    BY <2>1, FormChanges DEF OnReleaseFieldChange, OnResetRelease
  <2>2. CASE OnCopyField
    BY <2>2 DEF OnCopyField, ReleaseInv, ReleaseWasPreviewed, BusyHasRequest,
                ReleaseBusy, Undisturbed
  <2> QED
    BY <1>2, <2>1, <2>2, PreviewStarts, ReleaseStarts, PreviewEnds, ReleaseEnds, CopyEnds
       DEF ReleaseNext
<1>3. UNCHANGED releaseVars \/ ReleaseNext
  BY DEF WebNext, webVars, UnitsPage, DetailsPage, ConfigsPage, DictsPage, RolesPage,
         AssignmentsPage, Picker, OthersRest
<1> QED
  BY <1>1, <1>2, <1>3

LEMMA ReleaseBegins == WebInit => ReleaseInv
  BY DEF WebInit, ReleaseInit, ReleaseInv, ReleaseWasPreviewed, BusyHasRequest,
         ReleaseBusy, Undisturbed

(* Nothing is released but the edition that was previewed, unless a copy   *)
(* failed during a request, in any order of edits, answers and copies.     *)
THEOREM OnlyPreviewedIsReleased == WebSpec => []ReleaseWasPreviewed
<1>1. ReleaseInv /\ [WebNext]_webVars => ReleaseInv'
  BY ReleaseStep
<1>2. ReleaseInv => ReleaseWasPreviewed
  BY DEF ReleaseInv
<1> QED
  BY <1>1, <1>2, ReleaseBegins, PTL DEF WebSpec

(* A panel that is closed waits for an answer that is still to come.       *)
THEOREM ClosedPanelWaits == WebSpec => []BusyHasRequest
<1>1. ReleaseInv /\ [WebNext]_webVars => ReleaseInv'
  BY ReleaseStep
<1>2. ReleaseInv => BusyHasRequest
  BY DEF ReleaseInv
<1> QED
  BY <1>1, <1>2, ReleaseBegins, PTL DEF WebSpec

(***************************************************************************)
(* Drafts.  A draft may hold an older revision of what it is a draft of;   *)
(* if it holds the current one, it differs only where the user touched it. *)
(* That is why a save that the server takes undoes nothing.                *)
(***************************************************************************)
IsDraft(d) == /\ DOMAIN d = {"of", "revision", "content", "touched"}
              /\ d.revision \in Nat

Differs(d, content) == {x \in d.content \cup content :
                          ~(x \in d.content <=> x \in content)}

(* d holds what was stored once, but for the changes of the user.          *)
Holds(d, stored) ==
  /\ d.revision <= stored.revision
  /\ d.revision = stored.revision => Differs(d, stored.content) \subseteq d.touched

(* stored is a function from slugs, or from principals.                    *)
DraftOK(d, stored) ==
  IsDraft(d) /\ (d.of \in DOMAIN stored => Holds(d, stored[d.of]))

StoredOK(stored) == \A x \in DOMAIN stored : stored[x].revision \in Nat

LEMMA NoDraftOK ==
  ASSUME NEW stored, NoSlug \notin DOMAIN stored
  PROVE  DraftOK(NoDraft, stored)
  BY DEF NoDraft, Draft, DraftOK, IsDraft

LEMMA ToggledOK ==
  ASSUME NEW stored, NEW d, DraftOK(d, stored), NEW part
  PROVE  DraftOK(Toggled(d, part), stored) /\ Toggled(d, part).of = d.of
<1> DEFINE t == Toggled(d, part)
<1>1. /\ DOMAIN t = DOMAIN d /\ t.of = d.of /\ t.revision = d.revision
      /\ t.content = (d.content \ {part}) \cup ({part} \ d.content)
      /\ t.touched = d.touched \cup {part}
  BY DEF Toggled, DraftOK, IsDraft
<1> HIDE DEF t
<1>2. ASSUME NEW content, Differs(d, content) \subseteq d.touched
      PROVE  Differs(t, content) \subseteq t.touched
  BY <1>1, <1>2 DEF Differs
<1>3. DraftOK(t, stored)
  BY <1>1, <1>2 DEF DraftOK, IsDraft, Holds
<1> QED
  BY <1>1, <1>3 DEF t

(* A fresh copy of what is stored, or of what was read.                    *)
LEMMA FreshDraftOK ==
  ASSUME NEW stored, StoredOK(stored), NEW x \in DOMAIN stored
  PROVE  DraftOK(Draft(x, stored[x].revision, stored[x].content), stored)
<1> DEFINE d == Draft(x, stored[x].revision, stored[x].content)
<1>1. /\ DOMAIN d = {"of", "revision", "content", "touched"}
      /\ d.of = x /\ d.revision = stored[x].revision /\ d.content = stored[x].content
  BY DEF Draft
<1> HIDE DEF d
<1>2. Differs(d, stored[x].content) = {}
  BY <1>1 DEF Differs
<1>3. d.revision \in Nat
  BY <1>1 DEF StoredOK
<1>4. DraftOK(d, stored)
  BY <1>1, <1>2, <1>3 DEF DraftOK, IsDraft, Holds
<1> QED
  BY <1>4 DEF d

Replacement(new, stored, x, by) ==
  /\ DOMAIN new = DOMAIN stored
  /\ new[x] = Replaced(stored[x], by)
  /\ \A y \in DOMAIN stored \ {x} : new[y] = stored[y]

(* A replacement leaves every draft of before with an older revision.      *)
LEMMA ReplacedOK ==
  ASSUME NEW stored, StoredOK(stored), NEW x \in DOMAIN stored, NEW by,
         NEW new, Replacement(new, stored, x, by)
  PROVE  /\ StoredOK(new)
         /\ \A d : DraftOK(d, stored) => DraftOK(d, new)
         /\ new[x].content = by.content
<1>1. /\ DOMAIN new = DOMAIN stored
      /\ new[x].revision = stored[x].revision + 1 /\ new[x].content = by.content
      /\ \A y \in DOMAIN stored \ {x} : new[y] = stored[y]
  BY DEF Replacement, Replaced
<1>2. StoredOK(new)
  BY <1>1 DEF StoredOK
<1>3. ASSUME NEW d, DraftOK(d, stored) PROVE DraftOK(d, new)
  <2>1. CASE d.of = x
    <3>1. d.revision \in Nat /\ stored[x].revision \in Nat
          /\ d.revision <= stored[x].revision
      BY <1>3, <2>1 DEF DraftOK, IsDraft, Holds, StoredOK
    <3> QED
      BY <1>1, <1>3, <2>1, <3>1 DEF DraftOK, Holds
  <2>2. CASE d.of # x
    BY <1>1, <1>3, <2>2 DEF DraftOK
  <2> QED
    BY <2>1, <2>2
<1> QED
  BY <1>1, <1>2, <1>3

(* What the server takes differs from what it has only where it was        *)
(* touched.                                                                *)
LEMMA TakenIsTouched ==
  ASSUME NEW stored, NEW d, DraftOK(d, stored), d.of \in DOMAIN stored,
         IsCurrent(stored[d.of], d), NEW part, part \notin d.touched
  PROVE  part \in d.content <=> part \in stored[d.of].content
  BY DEF DraftOK, Holds, Differs, IsCurrent

(***************************************************************************)
(* The role page.                                                          *)
(***************************************************************************)
RoleDraftOK(d, stored) ==
  DraftOK(d, stored) /\ d.of \in DOMAIN stored \cup {NoSlug, "create"}

RolesInv ==
  /\ DOMAIN definitions \subseteq RoleSlugs /\ StoredOK(definitions)
  /\ \A r \in DOMAIN rolesKnown : RoleDraftOK(DraftFromRole(r, rolesKnown), definitions)
  /\ RoleDraftOK(roleDraft, definitions)
  /\ DOMAIN roleSave = {"stage", "to", "draft"}
  /\ RoleDraftOK(roleSave.draft, definitions)
  /\ roleSave.stage = "sent" =>
       IF roleSave.draft.of = "create" THEN roleSave.to \in RoleSlugs
       ELSE roleSave.to = roleSave.draft.of

LEMMA NoRoleDraftOK ==
  ASSUME NEW stored, DOMAIN stored \subseteq RoleSlugs
  PROVE  RoleDraftOK(NoDraft, stored) /\ RoleDraftOK(EmptyRoleDraft, stored)
<1>1. NoSlug \notin RoleSlugs /\ "create" \notin RoleSlugs
  BY RoleAssumption
<1> QED
  BY <1>1 DEF NoDraft, EmptyRoleDraft, Draft, RoleDraftOK, DraftOK, IsDraft

LEMMA FreshRoleDraftOK ==
  ASSUME NEW stored, StoredOK(stored), NEW r \in DOMAIN stored
  PROVE  RoleDraftOK(DraftFromRole(r, stored), stored)
<1>1. DraftFromRole(r, stored).of = r
  BY DEF DraftFromRole, Draft
<1> QED
  BY <1>1, FreshDraftOK DEF DraftFromRole, RoleDraftOK

LEMMA ActiveRoleDraftOK ==
  ASSUME RolesInv
  PROVE  RoleDraftOK(ActiveRoleDraft, definitions)
<1>1. SelectedRole # NoSlug => SelectedRole \in DOMAIN rolesKnown
  BY DEF SelectedRole
<1> QED
  BY <1>1, NoRoleDraftOK DEF RolesInv, ActiveRoleDraft

(* What the server does keeps every draft in order.                        *)
RolesGrow(old, new) ==
  /\ DOMAIN new \subseteq RoleSlugs /\ StoredOK(new)
  /\ \A d : RoleDraftOK(d, old) => RoleDraftOK(d, new)

LEMMA UpdateRoleOK ==
  ASSUME RolesInv, NEW slug, NEW edits, UpdateRoleDefinition(slug, edits)
  PROVE  RolesGrow(definitions, definitions') /\ slug \in DOMAIN definitions'
<1>1. /\ slug \in DOMAIN definitions
      /\ Replacement(definitions', definitions, slug, edits)
  BY DEF UpdateRoleDefinition, Replacement
<1>2. /\ StoredOK(definitions')
      /\ \A d : DraftOK(d, definitions) => DraftOK(d, definitions')
  BY <1>1, ReplacedOK DEF RolesInv
<1>3. DOMAIN definitions' = DOMAIN definitions
  BY <1>1 DEF Replacement
<1> QED
  BY <1>1, <1>2, <1>3 DEF RolesInv, RolesGrow, RoleDraftOK

LEMMA CreateRoleOK ==
  ASSUME RolesInv, NEW slug \in RoleSlugs, NEW edits, CreateRoleDefinition(slug, edits)
  PROVE  RolesGrow(definitions, definitions') /\ slug \in DOMAIN definitions'
<1>1. /\ slug \notin DOMAIN definitions
      /\ DOMAIN definitions' = DOMAIN definitions \cup {slug}
      /\ definitions'[slug].revision = 1
      /\ \A r \in DOMAIN definitions : definitions'[r] = definitions[r]
  BY DEF CreateRoleDefinition, FirstVersion
<1>2. StoredOK(definitions')
  BY <1>1 DEF RolesInv, StoredOK
<1>3. slug # NoSlug /\ slug # "create"
  BY RoleAssumption
<1>4. \A d : RoleDraftOK(d, definitions) => RoleDraftOK(d, definitions')
  BY <1>1, <1>3 DEF RoleDraftOK, DraftOK
<1> QED
  BY <1>1, <1>2, <1>4 DEF RolesInv, RolesGrow

LEMMA ServeRoleOK ==
  ASSUME RolesInv, ServeRole
  PROVE  RolesInv'
<1>1. RolesGrow(definitions, definitions') /\ roleSave.to \in DOMAIN definitions'
  <2>1. CASE roleSave.draft.of = "create"
    <3>1. CreateRoleDefinition(roleSave.to, roleSave.draft)
      BY <2>1 DEF ServeRole
    <3>2. roleSave.to \in RoleSlugs
      BY <2>1 DEF ServeRole, RolesInv
    <3> QED
      BY <3>1, <3>2, CreateRoleOK
  <2>2. CASE roleSave.draft.of # "create"
    BY <2>2, UpdateRoleOK DEF ServeRole
  <2> QED
    BY <2>1, <2>2
<1> DEFINE d == DraftFromRole(roleSave.to, definitions')
<1>2. RoleDraftOK(d, definitions')
  BY <1>1, FreshRoleDraftOK DEF RolesGrow
<1>3. roleSave' = [roleSave EXCEPT !.stage = "done", !.draft = d]
  BY DEF ServeRole
<1> HIDE DEF d
<1>4. /\ DOMAIN roleSave' = {"stage", "to", "draft"}
      /\ roleSave'.draft = d /\ roleSave'.stage = "done"
  BY <1>3 DEF RolesInv
<1>5. UNCHANGED <<rolesKnown, roleDraft>>
  BY DEF ServeRole
<1>6. \A r \in DOMAIN rolesKnown' : RoleDraftOK(DraftFromRole(r, rolesKnown'), definitions')
  BY <1>1, <1>5 DEF RolesInv, RolesGrow
<1> QED
  BY <1>1, <1>2, <1>4, <1>5, <1>6 DEF RolesInv, RolesGrow

LEMMA RoleStep ==
  ASSUME RolesInv, RoleNext
  PROVE  RolesInv'
<1> USE DEF RolesInv
<1>1. CASE ReadRoles
  BY <1>1, FreshRoleDraftOK DEF ReadRoles
<1>2. CASE PickRole
  BY <1>2, NoRoleDraftOK DEF PickRole
<1>3. CASE EditRole
  <2>1. PICK part : roleDraft' = Toggled(ActiveRoleDraft, part)
    BY <1>3 DEF EditRole
  <2>2. RoleDraftOK(roleDraft', definitions)
    BY <2>1, ActiveRoleDraftOK, ToggledOK DEF RoleDraftOK
  <2> QED
    BY <1>3, <2>2 DEF EditRole
<1>4. CASE SaveRole
  <2>1. PICK slug \in (IF ActiveRoleDraft.of = "create" THEN RoleSlugs
                       ELSE {ActiveRoleDraft.of}) :
          roleSave' = [stage |-> "sent", to |-> slug, draft |-> ActiveRoleDraft]
    BY <1>4 DEF SaveRole
  <2>2. RoleDraftOK(ActiveRoleDraft, definitions)
    BY ActiveRoleDraftOK
  <2>3. UNCHANGED <<definitions, rolesKnown, roleDraft>>
    BY <1>4 DEF SaveRole
  <2> QED
    BY <2>1, <2>2, <2>3
<1>5. CASE ServeRole
  BY <1>5, ServeRoleOK
<1>6. CASE RoleSaved \/ RoleNotSaved
  BY <1>6, NoRoleDraftOK DEF RoleSaved, RoleNotSaved, Idle
<1>7. CASE OtherAdminReplacesRole
  <2>1. PICK r, edits : UpdateRoleDefinition(r, edits)
    BY <1>7 DEF OtherAdminReplacesRole
  <2>2. RolesGrow(definitions, definitions')
    BY <2>1, UpdateRoleOK
  <2>3. UNCHANGED <<rolesKnown, roleDraft, roleSave>>
    BY <1>7 DEF OtherAdminReplacesRole
  <2> QED
    BY <2>2, <2>3 DEF RolesGrow
<1> QED
  BY <1>1, <1>2, <1>3, <1>4, <1>5, <1>6, <1>7 DEF RoleNext

(* The server takes a definition.                                          *)
LEMMA TakenRole ==
  ASSUME RolesInv, RoleNext, roleSave.stage = "sent", roleSave'.stage = "done",
         roleSave.draft.of # "create", NEW part, part \notin roleSave.draft.touched
  PROVE  part \in definitions'[roleSave.to].content
           <=> part \in definitions[roleSave.to].content
<1>1. ServeRole
  <2>1. ~ReadRoles /\ ~PickRole /\ ~EditRole /\ ~OtherAdminReplacesRole
    BY DEF ReadRoles, PickRole, EditRole, OtherAdminReplacesRole
  <2>2. ~SaveRole /\ ~RoleSaved /\ ~RoleNotSaved
    BY DEF SaveRole, RoleSaved, RoleNotSaved, Idle
  <2> QED
    BY <2>1, <2>2 DEF RoleNext
<1> DEFINE slug == roleSave.to
           d == roleSave.draft
<1>2. /\ slug \in DOMAIN definitions /\ IsCurrent(definitions[slug], d)
      /\ Replacement(definitions', definitions, slug, d)
  BY <1>1 DEF ServeRole, UpdateRoleDefinition, Replacement
<1>3. d.of = slug /\ DraftOK(d, definitions) /\ StoredOK(definitions)
  BY DEF RolesInv, RoleDraftOK
<1> HIDE DEF d, slug
<1>4. part \in d.content <=> part \in definitions[slug].content
  BY <1>2, <1>3, TakenIsTouched DEF d
<1>5. definitions'[slug].content = d.content
  BY <1>2, <1>3, ReplacedOK
<1> QED
  BY <1>4, <1>5 DEF slug

(***************************************************************************)
(* The assignment page.  A draft may be of another principal than the one  *)
(* it is kept for, after an answer that came late.                         *)
(***************************************************************************)
AssignmentsInv ==
  /\ DOMAIN assignments = Principals /\ StoredOK(assignments)
  /\ DOMAIN assignmentKnown = Principals
  /\ \A p \in Principals : DraftOK(assignmentKnown[p], assignments)
  /\ DOMAIN assignmentFetch \subseteq Principals
  /\ \A p \in DOMAIN assignmentFetch : DraftOK(assignmentFetch[p], assignments)
  /\ selectedPrincipal \in Principals
  /\ DraftOK(assignmentDraft, assignments)
  /\ DOMAIN assignmentSave = {"stage", "to", "draft"}
  /\ DraftOK(assignmentSave.draft, assignments)
  /\ assignmentSave.stage = "sent" => assignmentSave.to \in Principals

LEMMA NoAssignmentDraftOK ==
  ASSUME AssignmentsInv
  PROVE  DraftOK(NoDraft, assignments)
  BY RoleAssumption, NoDraftOK DEF AssignmentsInv

LEMMA ActiveAssignmentDraftOK ==
  ASSUME AssignmentsInv
  PROVE  DraftOK(ActiveAssignmentDraft, assignments)
  BY DEF AssignmentsInv, ActiveAssignmentDraft

LEMMA ReplaceAssignmentOK ==
  ASSUME AssignmentsInv, NEW p \in Principals, NEW edits,
         ReplacePrincipalAssignment(p, edits)
  PROVE  /\ IsCurrent(assignments[p], edits)
         /\ DOMAIN assignments' = Principals /\ StoredOK(assignments')
         /\ \A d : DraftOK(d, assignments) => DraftOK(d, assignments')
         /\ assignments'[p].content = edits.content
<1>1. /\ Replacement(assignments', assignments, p, edits)
      /\ IsCurrent(assignments[p], edits)
  BY DEF ReplacePrincipalAssignment, Replacement, AssignmentsInv
<1>2. /\ StoredOK(assignments')
      /\ \A d : DraftOK(d, assignments) => DraftOK(d, assignments')
      /\ assignments'[p].content = edits.content
  BY <1>1, ReplacedOK DEF AssignmentsInv
<1> QED
  BY <1>1, <1>2 DEF Replacement, AssignmentsInv

LEMMA FetchingOK ==
  ASSUME AssignmentsInv, NEW p \in Principals
  PROVE  /\ DOMAIN Fetching(p) \subseteq Principals
         /\ \A q \in DOMAIN Fetching(p) : DraftOK(Fetching(p)[q], assignments)
  BY NoAssignmentDraftOK DEF AssignmentsInv, Fetching, IsFetching

LEMMA ServeAssignmentOK ==
  ASSUME AssignmentsInv, ServeAssignment
  PROVE  AssignmentsInv'
<1> DEFINE p == assignmentSave.to
           d == Draft(p, assignments'[p].revision, assignments'[p].content)
<1>1. /\ p \in Principals /\ ReplacePrincipalAssignment(p, assignmentSave.draft)
      /\ assignmentSave' = [assignmentSave EXCEPT !.stage = "done", !.draft = d]
      /\ UNCHANGED <<assignmentKnown, assignmentFetch, selectedPrincipal, assignmentDraft>>
  BY DEF ServeAssignment, AssignmentsInv
<1> HIDE DEF d, p
<1>2. /\ DOMAIN assignments' = Principals /\ StoredOK(assignments')
      /\ \A x : DraftOK(x, assignments) => DraftOK(x, assignments')
  BY <1>1, ReplaceAssignmentOK
<1>3. DraftOK(d, assignments')
  BY <1>1, <1>2, FreshDraftOK DEF d
<1>4. /\ DOMAIN assignmentSave' = {"stage", "to", "draft"}
      /\ assignmentSave'.draft = d /\ assignmentSave'.stage = "done"
  BY <1>1 DEF AssignmentsInv
<1> QED
  BY <1>1, <1>2, <1>3, <1>4 DEF AssignmentsInv

LEMMA AssignmentStep ==
  ASSUME AssignmentsInv, AssignmentNext
  PROVE  AssignmentsInv'
<1> USE DEF AssignmentsInv
<1>1. CASE SelectPrincipal
  BY <1>1, NoAssignmentDraftOK, FetchingOK DEF SelectPrincipal
<1>2. CASE SelectAssignmentTab
  BY <1>2 DEF SelectAssignmentTab
<1>3. CASE AssignmentRead
  <2>1. PICK p \in DOMAIN assignmentFetch :
          assignmentFetch' = [assignmentFetch EXCEPT ![p] = AssignmentDraftFromResponse(p)]
    BY <1>3 DEF AssignmentRead
  <2>2. DraftOK(AssignmentDraftFromResponse(p), assignments)
    BY FreshDraftOK DEF AssignmentDraftFromResponse
  <2> QED
    BY <1>3, <2>1, <2>2 DEF AssignmentRead
<1>4. CASE AssignmentFetched
  <2>1. PICK p \in DOMAIN assignmentFetch :
          /\ assignmentFetch' = [q \in DOMAIN assignmentFetch \ {p} |-> assignmentFetch[q]]
          /\ \/ assignmentKnown' = [assignmentKnown EXCEPT ![p] = assignmentFetch[p]]
             \/ UNCHANGED assignmentKnown
    BY <1>4 DEF AssignmentFetched
  <2> QED
    BY <1>4, <2>1 DEF AssignmentFetched
<1>5. CASE UpdateDraft
  <2>1. PICK item : assignmentDraft' = Toggled(ActiveAssignmentDraft, item)
    BY <1>5 DEF UpdateDraft
  <2>2. DraftOK(assignmentDraft', assignments)
    BY <2>1, ActiveAssignmentDraftOK, ToggledOK
  <2> QED
    BY <1>5, <2>2 DEF UpdateDraft
<1>6. CASE CancelDraft
  BY <1>6, NoAssignmentDraftOK, FetchingOK DEF CancelDraft
<1>7. CASE SaveAssignment
  BY <1>7, ActiveAssignmentDraftOK DEF SaveAssignment
<1>8. CASE ServeAssignment
  BY <1>8, ServeAssignmentOK
<1>9. CASE AssignmentSaved
  BY <1>9, NoAssignmentDraftOK DEF AssignmentSaved, Idle
<1>10. CASE AssignmentNotSaved
  BY <1>10, NoAssignmentDraftOK DEF AssignmentNotSaved, Idle
<1>11. CASE OtherAdminReplacesAssignment
  <2>1. PICK p \in Principals : \E edits : ReplacePrincipalAssignment(p, edits)
    BY <1>11 DEF OtherAdminReplacesAssignment
  <2>2. PICK edits : ReplacePrincipalAssignment(p, edits)
    BY <2>1
  <2>3. /\ DOMAIN assignments' = Principals /\ StoredOK(assignments')
        /\ \A d : DraftOK(d, assignments) => DraftOK(d, assignments')
    BY <2>2, ReplaceAssignmentOK
  <2>4. UNCHANGED <<assignmentKnown, assignmentFetch, selectedPrincipal,
                    assignmentDraft, assignmentSave>>
    BY <1>11 DEF OtherAdminReplacesAssignment
  <2> QED
    BY <2>3, <2>4
<1> QED
  BY <1>1, <1>2, <1>3, <1>4, <1>5, <1>6, <1>7, <1>8, <1>9, <1>10, <1>11
     DEF AssignmentNext

(* The server takes an assignment.                                         *)
LEMMA TakenAssignment ==
  ASSUME AssignmentsInv, AssignmentNext, assignmentSave.stage = "sent",
         assignmentSave'.stage = "done", assignmentSave.draft.of = assignmentSave.to,
         NEW item, item \notin assignmentSave.draft.touched
  PROVE  item \in assignments'[assignmentSave.to].content
           <=> item \in assignments[assignmentSave.to].content
<1>1. ServeAssignment
  <2>1. /\ ~SelectPrincipal /\ ~SelectAssignmentTab /\ ~AssignmentRead
        /\ ~AssignmentFetched /\ ~UpdateDraft /\ ~CancelDraft
        /\ ~OtherAdminReplacesAssignment
    BY DEF SelectPrincipal, SelectAssignmentTab, AssignmentRead, AssignmentFetched,
           UpdateDraft, CancelDraft, OtherAdminReplacesAssignment
  <2>2. ~SaveAssignment /\ ~AssignmentSaved /\ ~AssignmentNotSaved
    BY DEF SaveAssignment, AssignmentSaved, AssignmentNotSaved, Idle
  <2> QED
    BY <2>1, <2>2 DEF AssignmentNext
<1> DEFINE p == assignmentSave.to
           d == assignmentSave.draft
<1>2. p \in Principals /\ ReplacePrincipalAssignment(p, d)
  BY <1>1 DEF ServeAssignment, AssignmentsInv
<1>3. d.of = p /\ DraftOK(d, assignments) /\ p \in DOMAIN assignments
  BY <1>2 DEF AssignmentsInv
<1> HIDE DEF d, p
<1>4. IsCurrent(assignments[p], d) /\ assignments'[p].content = d.content
  BY <1>2, ReplaceAssignmentOK
<1>5. item \in d.content <=> item \in assignments[p].content
  BY <1>3, <1>4, TakenIsTouched DEF d
<1> QED
  BY <1>4, <1>5 DEF p

(***************************************************************************)
(* Both pages, visited or at rest.                                         *)
(***************************************************************************)
AuthzInv == RolesInv /\ AssignmentsInv

LEMMA AuthzBegins == WebInit => AuthzInv
<1> SUFFICES ASSUME AuthzInit PROVE AuthzInv
  BY DEF WebInit
<1>1. /\ DOMAIN definitions = FirstRoles /\ StoredOK(definitions)
      /\ DOMAIN assignments = Principals /\ StoredOK(assignments)
  BY DEF AuthzInit, FirstVersion, StoredOK
<1>2. DOMAIN definitions \subseteq RoleSlugs
  BY <1>1, RoleAssumption
<1>3. RoleDraftOK(NoDraft, definitions)
  BY <1>2, NoRoleDraftOK
<1>4. DraftOK(NoDraft, assignments)
  BY <1>1, NoDraftOK, RoleAssumption
<1>5. RolesInv
  BY <1>1, <1>2, <1>3 DEF AuthzInit, RolesInv, Idle
<1>6. AnyPrincipal \in Principals
  BY RoleAssumption DEF AnyPrincipal
<1>7. AssignmentsInv
  BY <1>1, <1>4, <1>6 DEF AuthzInit, AssignmentsInv, Idle
<1> QED
  BY <1>5, <1>7 DEF AuthzInv

LEMMA AuthzActsOrRests ==
  ASSUME [WebNext]_webVars
  PROVE  \/ UNCHANGED authzVars
         \/ RoleNext /\ UNCHANGED assignmentVars
         \/ AssignmentNext /\ UNCHANGED roleVars
  BY DEF WebNext, webVars, UnitsPage, DetailsPage, ConfigsPage, DictsPage, RolesPage,
         AssignmentsPage, Picker, OthersRest, RoleNext, AssignmentNext

LEMMA AuthzStep ==
  ASSUME AuthzInv, [WebNext]_webVars
  PROVE  AuthzInv'
<1>1. UNCHANGED roleVars => RolesInv'
  BY DEF AuthzInv, RolesInv, roleVars
<1>2. UNCHANGED assignmentVars => AssignmentsInv'
  BY DEF AuthzInv, AssignmentsInv, assignmentVars
<1>3. UNCHANGED authzVars => UNCHANGED roleVars /\ UNCHANGED assignmentVars
  BY DEF authzVars
<1> QED
  BY <1>1, <1>2, <1>3, AuthzActsOrRests, RoleStep, AssignmentStep DEF AuthzInv

(* No save of a role undoes a replacement by another administrator: of the *)
(* parts the user did not touch the server keeps what it has, however long *)
(* the draft was kept, reloaded beside, or saved again.                    *)
THEOREM OthersRolesNeverUndone == WebSpec => OnlyTouchedPartsReplaced
<1>1. AuthzInv /\ [WebNext]_webVars => AuthzInv'
  BY AuthzStep
<1>2. AuthzInv /\ [WebNext]_webVars =>
        [roleSave.stage = "sent" /\ roleSave'.stage = "done" /\ roleSave.draft.of # "create" =>
           LET slug == roleSave.to IN
           \A part \in Parts \ roleSave.draft.touched :
             part \in definitions'[slug].content <=> part \in definitions[slug].content]_authzVars
  <2> SUFFICES ASSUME AuthzInv, [WebNext]_webVars, ~UNCHANGED authzVars,
                      roleSave.stage = "sent", roleSave'.stage = "done",
                      roleSave.draft.of # "create",
                      NEW part \in Parts \ roleSave.draft.touched
               PROVE  part \in definitions'[roleSave.to].content
                        <=> part \in definitions[roleSave.to].content
    OBVIOUS
  <2>1. RoleNext
    BY AuthzActsOrRests DEF roleVars
  <2> QED
    BY <2>1, TakenRole DEF AuthzInv
<1> QED
  BY <1>1, <1>2, AuthzBegins, PTL DEF WebSpec, OnlyTouchedPartsReplaced

(* So it is with the rows of an assignment whose draft is of the principal *)
(* it is saved for.                                                        *)
THEOREM OthersAssignmentsNeverUndone == WebSpec => OnlyTouchedRowsReplaced
<1>1. AuthzInv /\ [WebNext]_webVars => AuthzInv'
  BY AuthzStep
<1>2. AuthzInv /\ [WebNext]_webVars =>
        [assignmentSave.stage = "sent" /\ assignmentSave'.stage = "done"
           /\ assignmentSave.draft.of = assignmentSave.to =>
           LET p == assignmentSave.to IN
           \A item \in (RoleSlugs \cup {Scope}) \ assignmentSave.draft.touched :
             item \in assignments'[p].content <=> item \in assignments[p].content]_authzVars
  <2> SUFFICES ASSUME AuthzInv, [WebNext]_webVars, ~UNCHANGED authzVars,
                      assignmentSave.stage = "sent", assignmentSave'.stage = "done",
                      assignmentSave.draft.of = assignmentSave.to,
                      NEW item \in (RoleSlugs \cup {Scope}) \ assignmentSave.draft.touched
               PROVE  item \in assignments'[assignmentSave.to].content
                        <=> item \in assignments[assignmentSave.to].content
    OBVIOUS
  <2>1. AssignmentNext
    BY AuthzActsOrRests DEF assignmentVars
  <2> QED
    BY <2>1, TakenAssignment DEF AuthzInv
<1> QED
  BY <1>1, <1>2, AuthzBegins, PTL DEF WebSpec, OnlyTouchedRowsReplaced

(***************************************************************************)
(* The organisation page.  What a call is started from has the shape of    *)
(* the address, so what it writes back has it too.                         *)
(***************************************************************************)
AddressShape(a) == a \in [node : BOOLEAN, view : Views, keyword : Keywords,
                           ext : BOOLEAN, bare : BOOLEAN]

FiltersInv ==
  /\ AddressShape(address) /\ AddressShape(backAddress)
  /\ keywordInput \in Keywords /\ debouncedKeyword \in Keywords

CallShape(call) ==
  /\ DOMAIN call = {"search", "rest", "from", "had", "stage", "answer", "overtaken"}
  /\ AddressShape(call.from)
  /\ call.stage \in {"search", "sent", "answered", "failed"}

(* What the tree has, and what is still to come for it, is of the view the *)
(* effects last ran on; it holds what was reported, unless it is overtaken.*)
ShownView == ranEffectsOn[1].view

CallCurrent(call) ==
  ~call.overtaken =>
    /\ call.from.view = ShownView
    /\ call.stage = "answered" => reported \subseteq call.answer

TreeInv ==
  /\ \A call \in treeCalls : CallShape(call) /\ CallCurrent(call)
  /\ \A p \in DOMAIN children :
       /\ children[p].view \in Views
       /\ ~children[p].overtaken =>
            children[p].view = ShownView /\ reported \subseteq children[p].units

(* An attempt carries the request of the dialog it was sent from.          *)
CreateInv ==
  /\ DOMAIN dialog = {"open", "number", "code"}
  /\ dialog.number \in Nat /\ dialog.code \in Codes \cup {NoCode}
  /\ dialog.open => 1 <= dialog.number
  /\ DOMAIN creating = {"stage", "request", "dialog", "code"}
  /\ creating.stage \in {"no", "sent", "done", "failed", "refresh"}
  /\ creating.stage # "no" => /\ creating.code \in Codes
                              /\ creating.dialog \in 1..dialog.number
                              /\ creating.request = creating.dialog
  /\ \A u \in createdUnits : u.request = u.dialog
  /\ \A u, w \in createdUnits : u.request = w.request => u = w
  /\ reported \subseteq createdUnits

UnitsInv == FiltersInv /\ TreeInv /\ CreateInv

(* The filters and the tree depend on the create only by what it reported, *)
(* the create on neither.                                                  *)
LEMMA CreateRests ==
  ASSUME UnitsInv, UNCHANGED createVars
  PROVE  CreateInv' /\ UNCHANGED <<createdUnits, reported>>
  BY DEF UnitsInv, CreateInv, createVars

LEMMA FiltersRest ==
  ASSUME UnitsInv, UNCHANGED addressVars
  PROVE  FiltersInv' /\ UNCHANGED address
  BY DEF UnitsInv, FiltersInv, AddressShape, addressVars

LEMMA TreeRests ==
  ASSUME UnitsInv, UNCHANGED treeVars, UNCHANGED ranEffectsOn, UNCHANGED reported
  PROVE  TreeInv'
  BY DEF UnitsInv, TreeInv, CallShape, CallCurrent, AddressShape, ShownView, treeVars

LEMMA TreeIsReset ==
  ASSUME UnitsInv, ResetTree
  PROVE  TreeInv'
<1>1. ASSUME NEW call \in treeCalls'
      PROVE  CallShape(call) /\ call.overtaken
  <2>1. PICK c \in treeCalls : call = [c EXCEPT !.overtaken = TRUE]
    BY <1>1 DEF ResetTree
  <2>2. CallShape(c)
    BY DEF UnitsInv, TreeInv
  <2> QED
    BY <2>1, <2>2 DEF CallShape
<1>2. DOMAIN children' = {}
  BY DEF ResetTree, NoTree
<1>3. \A call \in treeCalls' : CallShape(call)' /\ CallCurrent(call)'
  BY <1>1 DEF CallShape, CallCurrent, AddressShape
<1> QED
  BY <1>2, <1>3 DEF TreeInv

LEMMA AddressWritten ==
  ASSUME UnitsInv, WriteAddress
  PROVE  AddressShape(address)' /\ AddressShape(backAddress)'
<1>1. AddressShape(address) /\ AddressShape(backAddress) /\ debouncedKeyword \in Keywords
  BY DEF UnitsInv, FiltersInv
<1>2. CASE Navigate([address EXCEPT !.keyword = debouncedKeyword])
  BY <1>1, <1>2 DEF Navigate, AddressShape
<1>3. CASE address' = [address EXCEPT !.ext = FALSE] /\ UNCHANGED backAddress
  BY <1>1, <1>3 DEF AddressShape
<1>4. CASE address' = [address EXCEPT !.bare = FALSE] /\ UNCHANGED backAddress
  BY <1>1, <1>4 DEF AddressShape
<1> QED
  BY <1>2, <1>3, <1>4 DEF WriteAddress

LEMMA EffectsOK ==
  ASSUME UnitsInv, Effects
  PROVE  UnitsInv'
<1>1. CreateInv' /\ UNCHANGED <<createdUnits, reported>>
  BY CreateRests DEF Effects
<1>2. FiltersInv'
  <2>1. keywordInput' \in Keywords /\ debouncedKeyword' \in Keywords
    BY DEF Effects, SyncKeyword, UnitsInv, FiltersInv, AddressShape
  <2> QED
    BY <2>1, AddressWritten DEF Effects, FiltersInv
<1>3. CASE ViewChanged
  BY <1>1, <1>2, <1>3, TreeIsReset DEF Effects, UnitsInv
<1>4. CASE ~ViewChanged
  <2>1. /\ ranEffectsOn' = <<address, debouncedKeyword>>
        /\ ranEffectsOn[1].view = address.view
        /\ UNCHANGED <<children, treeCalls>>
    BY <1>4 DEF Effects, EffectInputs, ViewChanged
  <2>2. ShownView' = ShownView
    BY <2>1 DEF ShownView
  <2>3. TreeInv'
    BY <2>1, <2>2, <1>1 DEF UnitsInv, TreeInv, CallShape, CallCurrent, AddressShape
  <2> QED
    BY <1>1, <1>2, <2>3 DEF UnitsInv
<1> QED
  BY <1>3, <1>4

(* A call begins with the view that is shown.                              *)
LEMMA CallBegins ==
  ASSUME UnitsInv, EffectsRan, NEW search \in BOOLEAN, NEW rest,
         treeCalls' = treeCalls \cup {TreeCall(search, rest)},
         UNCHANGED <<children, ranEffectsOn, reported>>
  PROVE  TreeInv'
<1> DEFINE call == TreeCall(search, rest)
<1>1. ranEffectsOn[1] = address
  BY DEF EffectsRan, EffectInputs
<1>2. CallShape(call) /\ CallCurrent(call)
  BY <1>1 DEF TreeCall, CallShape, CallCurrent, ShownView, UnitsInv, FiltersInv
<1> HIDE DEF call
<1>3. \A c \in treeCalls' : CallShape(c) /\ CallCurrent(c)
  BY <1>2 DEF UnitsInv, TreeInv, call
<1>4. \A c \in treeCalls' : CallShape(c)' /\ CallCurrent(c)'
  BY <1>3 DEF CallShape, CallCurrent, AddressShape, ShownView
<1> QED
  BY <1>4 DEF UnitsInv, TreeInv, ShownView

(* A call goes on, or ends.                                                *)
LEMMA CallGoesOn ==
  ASSUME NEW call, CallShape(call), CallCurrent(call),
         NEW stage \in {"sent", "answered", "failed"}, NEW rest, NEW answer,
         stage = "answered" => reported \subseteq answer
  PROVE  LET next == [call EXCEPT !.rest = rest, !.stage = stage, !.answer = answer]
         IN  CallShape(next) /\ CallCurrent(next)
  BY DEF CallShape, CallCurrent

LEMMA CallsGoOn ==
  ASSUME UnitsInv, NEW next, CallShape(next), CallCurrent(next),
         treeCalls' \subseteq treeCalls \cup {next}, UNCHANGED <<ranEffectsOn, reported>>
  PROVE  \A c \in treeCalls' : CallShape(c)' /\ CallCurrent(c)'
<1>1. \A c \in treeCalls' : CallShape(c) /\ CallCurrent(c)
  BY DEF UnitsInv, TreeInv
<1> QED
  BY <1>1 DEF CallShape, CallCurrent, AddressShape, ShownView

LEMMA GoneOn ==
  ASSUME UnitsInv, NEW call \in treeCalls, NEW rest, NEW loading,
         GoOn(call, rest, loading), UNCHANGED <<ranEffectsOn, reported>>
  PROVE  FiltersInv' /\ \A c \in treeCalls' : CallShape(c)' /\ CallCurrent(c)'
<1> DEFINE next == [call EXCEPT !.rest = rest, !.stage = "sent", !.answer = {}]
<1>1. treeCalls' \subseteq treeCalls \cup {next}
  BY DEF GoOn
<1>2. \A c \in treeCalls' : CallShape(c)' /\ CallCurrent(c)'
  <2>1. CallShape(next) /\ CallCurrent(next)
    BY CallGoesOn DEF UnitsInv, TreeInv
  <2> HIDE DEF next
  <2> QED
    BY <1>1, <2>1, CallsGoOn
<1>3. CASE UNCHANGED addressVars
  BY <1>2, <1>3, FiltersRest
<1>4. CASE UpdateSearch([call.from EXCEPT !.node = TRUE])
  <2>1. AddressShape(call.from) /\ FiltersInv
    BY DEF UnitsInv, TreeInv, CallShape
  <2>2. FiltersInv'
    BY <1>4, <2>1 DEF UpdateSearch, Navigate, FiltersInv, AddressShape
  <2> QED
    BY <1>2, <2>2
<1> QED
  BY <1>3, <1>4 DEF GoOn

LEMMA CallStep ==
  ASSUME UnitsInv, NEW call \in treeCalls,
         Answer(call) \/ SearchAnswered(call) \/ ChildrenAnswered(call)
  PROVE  UnitsInv'
<1>1. /\ CreateInv' /\ UNCHANGED <<createdUnits, reported>> /\ UNCHANGED ranEffectsOn
      /\ reported \subseteq createdUnits
  BY CreateRests DEF Answer, SearchAnswered, ChildrenAnswered, UnitsInv, CreateInv
<1>2. CallShape(call) /\ CallCurrent(call)
  BY DEF UnitsInv, TreeInv
<1>3. CASE Answer(call)
  <2>1. PICK stage \in {"answered", "failed"} :
          treeCalls' = (treeCalls \ {call}) \cup
                         {[call EXCEPT !.stage = stage, !.answer = createdUnits]}
    BY <1>3 DEF Answer
  <2>2. [call EXCEPT !.stage = stage, !.answer = createdUnits]
          = [call EXCEPT !.rest = call.rest, !.stage = stage, !.answer = createdUnits]
    BY <1>2 DEF CallShape
  <2>3. \A c \in treeCalls' : CallShape(c)' /\ CallCurrent(c)'
    <3> DEFINE next == [call EXCEPT !.rest = call.rest, !.stage = stage,
                                    !.answer = createdUnits]
    <3>1. CallShape(next) /\ CallCurrent(next)
      BY <1>1, <1>2, CallGoesOn
    <3>2. treeCalls' \subseteq treeCalls \cup {next}
      BY <2>1, <2>2
    <3> HIDE DEF next
    <3> QED
      BY <3>1, <3>2, <1>1, CallsGoOn
  <2>4. FiltersInv' /\ UNCHANGED children
    BY <1>3, FiltersRest DEF Answer
  <2> QED
    BY <1>1, <2>3, <2>4 DEF UnitsInv, TreeInv, ShownView
<1>4. CASE SearchAnswered(call)
  <2>1. FiltersInv' /\ \A c \in treeCalls' : CallShape(c)' /\ CallCurrent(c)'
    <3>1. CASE \E parents \in FoundPaths(call) : GoOn(call, parents, treeLoading)
      BY <3>1, <1>1, GoneOn
    <3>2. CASE treeCalls' = treeCalls \ {call} /\ UNCHANGED addressVars
      BY <3>2, <1>1, FiltersRest DEF UnitsInv, TreeInv, CallShape, CallCurrent,
                                     AddressShape, ShownView
    <3> QED
      BY <1>4, <3>1, <3>2 DEF SearchAnswered
  <2> QED
    BY <1>1, <1>4, <2>1 DEF SearchAnswered, UnitsInv, TreeInv, ShownView
<1>5. CASE ChildrenAnswered(call)
  <2>1. FiltersInv' /\ \A c \in treeCalls' : CallShape(c)' /\ CallCurrent(c)'
    BY <1>1, <1>5, GoneOn DEF ChildrenAnswered
  <2>2. ASSUME NEW p \in DOMAIN children'
        PROVE  /\ children'[p].view \in Views
               /\ ~children'[p].overtaken =>
                    children'[p].view = ShownView' /\ reported' \subseteq children'[p].units
    <3>1. ShownView' = ShownView
      BY <1>1 DEF ShownView
    <3>2. CASE call.stage = "failed" \/ p # Head(call.rest)
      <4>1. p \in DOMAIN children /\ children'[p] = children[p]
        BY <1>5, <2>2, <3>2 DEF ChildrenAnswered
      <4> QED
        BY <4>1, <3>1, <1>1 DEF UnitsInv, TreeInv
    <3>3. CASE call.stage # "failed" /\ p = Head(call.rest)
      <4>1. /\ call.stage = "answered"
            /\ children'[p] = [view |-> call.from.view, units |-> call.answer,
                               overtaken |-> call.overtaken]
        BY <1>5, <2>2, <3>3 DEF ChildrenAnswered
      <4> QED
        BY <4>1, <3>1, <1>1, <1>2 DEF CallShape, CallCurrent, AddressShape
    <3> QED
      BY <3>2, <3>3
  <2> QED
    BY <1>1, <2>1, <2>2 DEF UnitsInv, TreeInv
<1> QED
  BY <1>3, <1>4, <1>5

(* The user's filters, the browser, and the calls that they start.         *)
LEMMA FilterStep ==
  ASSUME UnitsInv, Debounce \/ Filter \/ Back \/ ExpandNode \/ Locate
  PROVE  UnitsInv'
<1>1. CreateInv' /\ UNCHANGED <<createdUnits, reported>>
  BY CreateRests DEF Debounce, Filter, Back, ExpandNode, Locate
<1> USE DEF UnitsInv, FiltersInv
<1>2. CASE Debounce
  BY <1>1, <1>2, TreeRests DEF Debounce, AddressShape
<1>3. CASE Filter
  <2>1. TreeInv'
    BY <1>1, <1>3, TreeRests DEF Filter
  <2>2. CASE TypeKeyword
    BY <1>1, <2>1, <2>2 DEF TypeKeyword, AddressShape
  <2>3. CASE ChangeView \/ SelectNode
    <3>1. AddressShape(address) /\ AddressShape([address EXCEPT !.node = TRUE])
          /\ \A v \in Views : AddressShape([address EXCEPT !.view = v])
      BY DEF AddressShape
    <3>2. PICK a : UpdateSearch(a) /\ AddressShape(a)
      BY <2>3, <3>1 DEF ChangeView, SelectNode
    <3>3. FiltersInv'
      BY <3>2 DEF UpdateSearch, Navigate, AddressShape
    <3> QED
      BY <3>3, <1>1, <2>1
  <2> QED
    BY <1>3, <2>2, <2>3 DEF Filter
<1>4. CASE Back
  BY <1>1, <1>4, TreeRests DEF Back, Navigate, AddressShape
<1>5. CASE ExpandNode
  <2>1. PICK rest : treeCalls' = treeCalls \cup {TreeCall(FALSE, rest)}
    BY <1>5 DEF ExpandNode
  <2>2. TreeInv'
    BY <1>1, <1>5, <2>1, CallBegins DEF ExpandNode
  <2> QED
    BY <1>1, <1>5, <2>2, FiltersRest DEF ExpandNode
<1>6. CASE Locate
  <2>1. TreeInv'
    BY <1>1, <1>6, CallBegins DEF Locate
  <2> QED
    BY <1>1, <1>6, <2>1, FiltersRest DEF Locate
<1> QED
  BY <1>2, <1>3, <1>4, <1>5, <1>6

(* The create dialog and the server.                                       *)
LEMMA DialogStep ==
  ASSUME UnitsInv, OpenCreateDialog \/ CloseCreateDialog \/ EnterCode \/ Create
  PROVE  UnitsInv'
<1>1. /\ UNCHANGED addressVars /\ UNCHANGED treeVars
      /\ UNCHANGED <<ranEffectsOn, createdUnits, reported>>
  BY DEF OpenCreateDialog, CloseCreateDialog, EnterCode, Create, CreateDialogStep
<1>2. FiltersInv' /\ TreeInv'
  BY <1>1, FiltersRest, TreeRests
<1> USE DEF UnitsInv, CreateInv
<1>3. CASE OpenCreateDialog
  BY <1>1, <1>2, <1>3 DEF OpenCreateDialog
<1>4. CASE CloseCreateDialog
  BY <1>1, <1>2, <1>4 DEF CloseCreateDialog
<1>5. CASE EnterCode
  BY <1>1, <1>2, <1>5 DEF EnterCode
<1>6. CASE Create
  BY <1>1, <1>2, <1>6 DEF Create, CanCreateUnit, RequestID
<1> QED
  BY <1>3, <1>4, <1>5, <1>6

LEMMA ServerCreatesOK ==
  ASSUME UnitsInv, ServerCreates
  PROVE  UnitsInv'
<1>1. UNCHANGED addressVars /\ UNCHANGED treeVars /\ UNCHANGED <<ranEffectsOn, dialog, reported>>
  BY DEF ServerCreates
<1>2. FiltersInv' /\ TreeInv'
  BY <1>1, FiltersRest, TreeRests
<1> DEFINE unit == [request |-> creating.request, dialog |-> creating.dialog,
                    code |-> creating.code]
<1>3. CreateInv /\ creating.stage = "sent"
  BY DEF UnitsInv, ServerCreates
<1>4. \E stage \in {"done", "failed"} : creating' = [creating EXCEPT !.stage = stage]
  BY DEF ServerCreates
<1>5. \/ UNCHANGED createdUnits
      \/ /\ \A u \in createdUnits : u.request # unit.request
         /\ createdUnits' = createdUnits \cup {unit}
  BY DEF ServerCreates
<1>6. unit.request = unit.dialog
  BY <1>3 DEF CreateInv
<1> HIDE DEF unit
<1>7. /\ \A u \in createdUnits' : u.request = u.dialog
      /\ \A u, w \in createdUnits' : u.request = w.request => u = w
      /\ reported' \subseteq createdUnits'
  BY <1>1, <1>3, <1>5, <1>6 DEF CreateInv
<1>8. CreateInv'
  BY <1>1, <1>3, <1>4, <1>7 DEF CreateInv
<1> QED
  BY <1>2, <1>8 DEF UnitsInv

LEMMA CreateEnds ==
  ASSUME UnitsInv, \/ CreateAnswerLost \/ CreateSucceeds
                   \/ RefreshedAfterWrite \/ CreateFails
  PROVE  UnitsInv'
<1>1. UNCHANGED addressVars /\ UNCHANGED <<ranEffectsOn, createdUnits>>
  BY DEF CreateAnswerLost, CreateSucceeds, RefreshedAfterWrite, CreateFails,
         CreateDialogStep
<1>2. FiltersInv'
  BY <1>1, FiltersRest
<1>3. TreeInv'
  <2>1. CASE CreateSucceeds
    BY <2>1, TreeIsReset DEF CreateSucceeds
  <2>2. CASE ~CreateSucceeds
    BY <2>2, <1>1, TreeRests DEF CreateAnswerLost, RefreshedAfterWrite, CreateFails
  <2> QED
    BY <2>1, <2>2
<1>4. CreateInv'
  BY <1>1 DEF UnitsInv, CreateInv, CreateAnswerLost, CreateSucceeds, RefreshedAfterWrite,
              CreateFails, NotCreating
<1> QED
  BY <1>2, <1>3, <1>4 DEF UnitsInv

LEMMA UnitsBegin == WebInit => UnitsInv
<1> SUFFICES ASSUME UnitsInit PROVE UnitsInv
  BY DEF WebInit
<1>1. ViewOfLink \in Views
  BY ViewAssumption DEF ViewOfLink
<1>2. FiltersInv
  BY <1>1 DEF UnitsInit, FiltersInv, AddressShape
<1>3. TreeInv
  BY DEF UnitsInit, TreeInv, NoTree
<1>4. CreateInv
  BY DEF UnitsInit, CreateInv, NoDialog, NotCreating
<1> QED
  BY <1>2, <1>3, <1>4 DEF UnitsInv

LEMMA UnitsStep ==
  ASSUME UnitsInv, [WebNext]_webVars
  PROVE  UnitsInv'
<1>1. UNCHANGED unitsVars \/ UnitsNext
  BY DEF WebNext, webVars, UnitsPage, DetailsPage, ConfigsPage, DictsPage, RolesPage,
         AssignmentsPage, Picker, OthersRest
<1>2. CASE UNCHANGED unitsVars
  <2>1. /\ UNCHANGED createVars /\ UNCHANGED addressVars /\ UNCHANGED treeVars
        /\ UNCHANGED ranEffectsOn
    BY <1>2 DEF unitsVars, createVars, addressVars, treeVars
  <2> QED
    BY <2>1, CreateRests, FiltersRest, TreeRests DEF UnitsInv
<1>3. CASE UnitsNext
  BY <1>3, EffectsOK, FilterStep, CallStep, DialogStep, ServerCreatesOK, CreateEnds
     DEF UnitsNext
<1> QED
  BY <1>1, <1>2, <1>3

(* The filters, the tree, the dialog and the calls keep their shape.       *)
THEOREM UnitsAlwaysTyped == WebSpec => []UnitsTypeOK
<1>1. UnitsInv /\ [WebNext]_webVars => UnitsInv'
  BY UnitsStep
<1>2. UnitsInv => UnitsTypeOK
  BY DEF UnitsInv, FiltersInv, TreeInv, CreateInv, CallShape, AddressShape, UnitsTypeOK
<1> QED
  BY <1>1, <1>2, UnitsBegin, PTL DEF WebSpec

(* Whatever attempts, lost answers, edits and dialogs come, the server     *)
(* creates at most one unit for one opening of the dialog.                 *)
THEOREM OneUnitPerDialogAlways == WebSpec => []OneUnitPerDialog
<1>1. UnitsInv /\ [WebNext]_webVars => UnitsInv'
  BY UnitsStep
<1>2. UnitsInv => OneUnitPerDialog
  BY DEF UnitsInv, CreateInv, OneUnitPerDialog
<1> QED
  BY <1>1, <1>2, UnitsBegin, PTL DEF WebSpec

(* No answer of another view, or from before a unit was reported, stands in*)
(* the tree, but one that was under way when the tree was reset.           *)
THEOREM TreeAlwaysCurrent == WebSpec => []TreeIsCurrent
<1>1. UnitsInv /\ [WebNext]_webVars => UnitsInv'
  BY UnitsStep
<1>2. UnitsInv => TreeIsCurrent
  <2>1. EffectsRan => ranEffectsOn[1] = address
    BY DEF EffectsRan, EffectInputs
  <2> QED
    BY <2>1 DEF UnitsInv, TreeInv, ShownView, TreeIsCurrent
<1> QED
  BY <1>1, <1>2, UnitsBegin, PTL DEF WebSpec

(***************************************************************************)
(* The details page.  First the days of records: some numbers above zero,  *)
(* bounded, so that the first and the last of them exist.                  *)
(***************************************************************************)
Days(S) == S \subseteq Nat \ {NoDay} /\ \E last \in Nat : \A d \in S : d <= last

LEMMA LeastDay ==
  ASSUME NEW S, S \subseteq Nat, S # {}
  PROVE  Min(S) \in S /\ \A d \in S : Min(S) <= d
<1> DEFINE R == {ss \in Nat \X Nat : ss[1] < ss[2]}
<1>1. IsWellFoundedOn(R, Nat)
  BY NatLessThanWellFounded DEF OpToRel
<1>2. PICK x \in S : \A y \in S : <<y, x>> \notin R
  <2> HIDE DEF R
  <2> QED
    BY <1>1, WFMin
<1>3. ASSUME NEW y \in S
      PROVE  x <= y
  <2>1. <<y, x>> \in Nat \X Nat
    OBVIOUS
  <2>2. y < x => <<y, x>> \in R
    BY <2>1
  <2> QED
    BY <1>2, <2>2
<1> QED
  BY <1>3 DEF Min

LEMMA GreatestDay ==
  ASSUME NEW S, Days(S), S # {}
  PROVE  Max(S) \in S /\ \A d \in S : d <= Max(S)
<1> DEFINE B == {m \in Nat : \A d \in S : d <= m}
           m == Min(B)
<1>1. m \in B /\ \A k \in B : m <= k
  <2>1. B \subseteq Nat /\ B # {}
    BY DEF Days
  <2> HIDE DEF B
  <2> QED
    BY <2>1, LeastDay
<1>2. S \subseteq Nat /\ m \in Nat /\ \A d \in S : d <= m
  BY <1>1 DEF Days
<1>3. \A k \in Nat : (\A d \in S : d <= k) => m <= k
  BY <1>1
<1> HIDE DEF B, m
<1>4. m \in S
  <2> SUFFICES ASSUME m \notin S PROVE FALSE
    OBVIOUS
  <2>1. \A d \in S : d <= m - 1
    BY <1>2
  <2>2. PICK d \in S : d <= m - 1
    BY <2>1
  <2>3. m - 1 \in Nat
    BY <1>2, <2>2
  <2> QED
    BY <1>2, <1>3, <2>1, <2>3
<1>5. \E x \in S : \A d \in S : x >= d
  BY <1>2, <1>4
<1>6. Max(S) \in S /\ \A d \in S : Max(S) >= d
  BY <1>5 DEF Max
<1> QED
  BY <1>2, <1>6

LEMMA DaysAreInts ==
  ASSUME NEW S, Days(S)
  PROVE  \A d \in S : d \in Int /\ d > 0
  BY DEF Days, NoDay

LEMMA FewerDays ==
  ASSUME NEW S, Days(S), NEW T, T \subseteq S
  PROVE  Days(T)
  BY DEF Days

LEMMA OneMoreDay ==
  ASSUME NEW S, Days(S), NEW d \in Nat \ {NoDay}
  PROVE  Days(S \cup {d})
<1>1. PICK last \in Nat : \A x \in S : x <= last
  BY DEF Days
<1> DEFINE later == IF d <= last THEN last ELSE d
<1>2. later \in Nat /\ \A x \in S \cup {d} : x <= later
  BY <1>1 DEF Days
<1> QED
  BY <1>2 DEF Days

LEMMA DaysAreFinite ==
  ASSUME NEW S, Days(S)
  PROVE  IsFiniteSet(S)
  BY FS_BoundedSetOfNaturals DEF Days

(* The day that is shown is a record, if any is known.                     *)
LEMMA ResolvedDay ==
  ASSUME NEW asOf \in Nat \ {NoDay}, NEW requested \in Nat, NEW versions, Days(versions)
  PROVE  LET d == ResolveOrgUnitEffectiveDate(asOf, requested, versions)
         IN  d \in Nat \ {NoDay} /\ (versions # {} => d \in versions)
<1> DEFINE inForce == {d \in versions : d <= asOf}
<1>1. inForce # {} => Max(inForce) \in versions
  BY GreatestDay, FewerDays
<1>2. versions # {} => Min(versions) \in versions
  BY LeastDay DEF Days
<1>3. versions \subseteq Nat \ {NoDay}
  BY DEF Days
<1> HIDE DEF inForce
<1> QED
  BY <1>1, <1>2, <1>3 DEF ResolveOrgUnitEffectiveDate, inForce, NoDay

(***************************************************************************)
(* The plan of the wizard and the check of the date that is entered.       *)
(***************************************************************************)
IsPlan(plan, mode, dates) ==
  /\ Days(dates) /\ dates # {}
  /\ \E selected \in dates : plan = PlanRecordEffectiveDate(mode, dates, selected)

NextTo(selected, date, dates) ==
  \A d \in dates : /\ ~(selected < d /\ d < date)
                   /\ ~(date < d /\ d < selected)

InPlace(mode, selected, date, dates) ==
  /\ date \notin dates
  /\ \E d \in dates : d < date
  /\ IF mode = "add" \/ selected = Max(dates) THEN \A d \in dates : d < date
     ELSE NextTo(selected, date, dates)

LEMMA AddPlan ==
  ASSUME NEW dates, Days(dates), NEW selected \in dates,
         NEW plan, plan = PlanRecordEffectiveDate("add", dates, selected),
         NEW date \in Nat
  PROVE  /\ ValidatePlannedEffectiveDate(plan, date) <=> InPlace("add", selected, date, dates)
         /\ plan.selected = selected
<1>1. Max(dates) \in dates /\ \A d \in dates : d <= Max(dates)
  BY GreatestDay
<1>2. dates \subseteq Nat \ {NoDay} /\ dates # {} /\ selected # NoDay
  BY DEF Days
<1>3. /\ ~(dates = {} \/ selected = NoDay)
      /\ plan = Plan("add", selected, Max(dates) + 1, Max(dates) + 1, NoDay)
  <2>1. ~(dates = {} \/ selected = NoDay)
    BY <1>2
  <2> QED
    BY <2>1, Zenon DEF PlanRecordEffectiveDate
<1>4. /\ plan.kind = "add" /\ plan.min = Max(dates) + 1 /\ plan.max = NoDay
      /\ plan.selected = selected
  BY <1>3 DEF Plan
<1>5. Max(dates) \in Int /\ \A d \in dates : d \in Int /\ d > 0
  BY <1>1, DaysAreInts
<1>6. ValidatePlannedEffectiveDate(plan, date) <=> date >= Max(dates) + 1
  BY <1>1, <1>4, <1>5 DEF ValidatePlannedEffectiveDate, NoDay
<1>7. date >= Max(dates) + 1 <=> \A d \in dates : d < date
  BY <1>1, <1>5
<1>8. (\A d \in dates : d < date) => date \notin dates /\ \E d \in dates : d < date
  BY <1>1, <1>5
<1> QED
  BY <1>4, <1>6, <1>7, <1>8 DEF InPlace

(* The records before and after the selected one, and the last of each.    *)
LEMMA AroundSelected ==
  ASSUME NEW dates, Days(dates), NEW selected \in dates
  PROVE  LET earlier == {d \in dates : d < selected}
             later == {d \in dates : d > selected}
         IN /\ dates \subseteq Nat \ {NoDay} /\ \A d \in dates : d \in Int /\ d > 0
            /\ Max(dates) \in dates /\ \A d \in dates : d <= Max(dates)
            /\ earlier # {} => /\ Max(earlier) \in earlier
                               /\ \A d \in earlier : d <= Max(earlier)
            /\ later # {} => /\ Min(later) \in later
                             /\ \A d \in later : Min(later) <= d
            /\ later = {} <=> selected = Max(dates)
<1> DEFINE earlier == {d \in dates : d < selected}
           later == {d \in dates : d > selected}
<1>1. \A d \in dates : d \in Int /\ d > 0
  BY DaysAreInts
<1>2. dates \subseteq Nat \ {NoDay} /\ dates # {}
  BY DEF Days
<1>3. Max(dates) \in dates /\ \A d \in dates : d <= Max(dates)
  BY <1>2, GreatestDay
<1>4. earlier # {} => Max(earlier) \in earlier /\ \A d \in earlier : d <= Max(earlier)
  BY GreatestDay, FewerDays
<1>5. later # {} => Min(later) \in later /\ \A d \in later : Min(later) <= d
  BY LeastDay, <1>2
<1>6. later = {} <=> selected = Max(dates)
  BY <1>1, <1>3
<1> QED
  BY <1>1, <1>2, <1>3, <1>4, <1>5, <1>6

(* The first and the last day of the slot of the selected record.          *)
SlotFrom(dates, selected) ==
  LET earlier == {d \in dates : d < selected}
  IN IF earlier = {} THEN selected + 1 ELSE Max(earlier) + 1
SlotTo(dates, selected) == Min({d \in dates : d > selected}) - 1

LEMMA InsertPlanKind ==
  ASSUME NEW dates, Days(dates), NEW selected \in dates,
         NEW plan, plan = PlanRecordEffectiveDate("insert", dates, selected),
         selected # Max(dates)
  PROVE  LET min == SlotFrom(dates, selected)
             max == SlotTo(dates, selected)
         IN /\ min \in Int /\ min > 0 /\ max \in Int /\ max > 0
            /\ plan.min = min /\ plan.max = max /\ plan.selected = selected
            /\ plan.kind = IF min > max THEN "insert_no_slot" ELSE "insert"
<1> DEFINE earlier == {d \in dates : d < selected}
           later == {d \in dates : d > selected}
           min == IF earlier = {} THEN selected + 1 ELSE Max(earlier) + 1
           max == Min(later) - 1
<1>1. /\ dates \subseteq Nat \ {NoDay} /\ \A d \in dates : d \in Int /\ d > 0
      /\ earlier # {} => Max(earlier) \in earlier
      /\ later # {} /\ Min(later) \in later
  BY AroundSelected
<1>2. selected # NoDay /\ dates # {}
  BY <1>1
<1>3. plan = Plan(IF min > max THEN "insert_no_slot" ELSE "insert",
                  selected, selected + 1, min, max)
  BY <1>1, <1>2 DEF PlanRecordEffectiveDate
<1>4. selected \in Int /\ selected > 0 /\ Min(later) \in Int /\ selected < Min(later)
  BY <1>1
<1>5. earlier # {} => Max(earlier) \in Int /\ Max(earlier) > 0
  BY <1>1
<1>6. min \in Int /\ min > 0 /\ max \in Int /\ max > 0
  BY <1>4, <1>5
<1> HIDE DEF earlier, later, min, max, SlotFrom, SlotTo
<1>7. /\ plan.min = min /\ plan.max = max /\ plan.selected = selected
      /\ plan.kind = IF min > max THEN "insert_no_slot" ELSE "insert"
  BY <1>3 DEF Plan
<1> QED
  BY <1>6, <1>7 DEF earlier, later, min, max, SlotFrom, SlotTo

LEMMA InsertPlan ==
  ASSUME NEW dates, Days(dates), NEW selected \in dates,
         NEW plan, plan = PlanRecordEffectiveDate("insert", dates, selected),
         NEW date \in Nat
  PROVE  /\ ValidatePlannedEffectiveDate(plan, date) <=> InPlace("insert", selected, date, dates)
         /\ plan.selected = selected
<1> DEFINE earlier == {d \in dates : d < selected}
           later == {d \in dates : d > selected}
           min == SlotFrom(dates, selected)
           max == SlotTo(dates, selected)
<1>1. /\ dates \subseteq Nat \ {NoDay} /\ \A d \in dates : d \in Int /\ d > 0
      /\ Max(dates) \in dates /\ \A d \in dates : d <= Max(dates)
      /\ earlier # {} => Max(earlier) \in earlier /\ \A d \in earlier : d <= Max(earlier)
      /\ later # {} => Min(later) \in later /\ \A d \in later : Min(later) <= d
      /\ later = {} <=> selected = Max(dates)
  BY AroundSelected
<1>2. dates # {} /\ selected # NoDay /\ Max(dates) \in Int /\ selected \in Int
  BY <1>1
<1>3. CASE selected = Max(dates)
  <2>1. plan = Plan("insert_as_add", selected, Max(dates) + 1, Max(dates) + 1, NoDay)
    BY <1>1, <1>2, <1>3 DEF PlanRecordEffectiveDate
  <2>2. /\ plan.kind = "insert_as_add" /\ plan.min = Max(dates) + 1 /\ plan.max = NoDay
        /\ plan.selected = selected
    BY <2>1 DEF Plan
  <2> HIDE DEF earlier, later
  <2>3. ValidatePlannedEffectiveDate(plan, date) <=> date >= Max(dates) + 1
    BY <1>1, <1>2, <1>3, <2>2 DEF ValidatePlannedEffectiveDate, NoDay
  <2>4. date >= Max(dates) + 1 <=> \A d \in dates : d < date
    BY <1>1, <1>2
  <2>5. (\A d \in dates : d < date) => date \notin dates /\ \E d \in dates : d < date
    BY <1>1, <1>2
  <2> QED
    BY <1>3, <2>2, <2>3, <2>4, <2>5 DEF InPlace
<1>4. CASE selected # Max(dates)
  <2>1. /\ min \in Int /\ min > 0 /\ max \in Int /\ max > 0
        /\ plan.min = min /\ plan.max = max /\ plan.selected = selected
        /\ plan.kind = IF min > max THEN "insert_no_slot" ELSE "insert"
    BY <1>4, InsertPlanKind
  <2>2. ValidatePlannedEffectiveDate(plan, date) <=>
          date >= min /\ date <= max /\ date # selected
    <3> HIDE DEF min, max
    <3>1. date >= min /\ date <= max => ~(min > max) /\ date # NoDay
      BY <2>1 DEF NoDay
    <3>2. min # NoDay /\ max # NoDay
      BY <2>1 DEF NoDay
    <3> QED
      BY <2>1, <3>1, <3>2 DEF ValidatePlannedEffectiveDate
  <2>3. Min(later) \in dates /\ Min(later) > selected /\ \A d \in dates : d > selected => Min(later) <= d
    BY <1>1, <1>4
  <2>4. date <= max <=> \A d \in dates : d > selected => date < d
    <3>1. Min(later) \in Int /\ \A d \in dates : d \in Int
      BY <1>1, <2>3
    <3>2. max = Min(later) - 1
      BY DEF SlotTo
    <3> HIDE DEF earlier, later, max
    <3> QED
      BY <2>3, <3>1, <3>2
  <2>5. date >= min <=> /\ \A d \in dates : d < selected => d < date
                        /\ \E d \in dates : d < date
    <3>1. CASE earlier = {}
      <4>1. \A d \in dates : ~(d < selected)
        BY <3>1
      <4>2. min = selected + 1
        BY <3>1 DEF SlotFrom
      <4> HIDE DEF earlier, min
      <4> QED
        BY <1>1, <1>2, <4>1, <4>2
    <3>2. CASE earlier # {}
      <4>1. /\ Max(earlier) \in dates /\ Max(earlier) < selected
            /\ \A d \in dates : d < selected => d <= Max(earlier)
        BY <1>1, <3>2
      <4>2. min = Max(earlier) + 1
        BY <3>2 DEF SlotFrom
      <4>3. Max(earlier) \in Int /\ \A d \in dates : d \in Int
        BY <1>1, <4>1
      <4> HIDE DEF earlier, min
      <4> QED
        BY <1>2, <4>1, <4>2, <4>3
    <3> QED
      BY <3>1, <3>2
  <2>6. /\ \A d \in dates : d > selected => date < d
        /\ \A d \in dates : d < selected => d < date
        /\ date # selected
        <=> date \notin dates /\ NextTo(selected, date, dates)
    <3> HIDE DEF earlier, later, min, max
    <3>1. ASSUME NEW d \in dates
          PROVE  /\ d > selected /\ date # d =>
                      (date < d <=> ~(selected < d /\ d < date))
                 /\ d < selected /\ date # d =>
                      (d < date <=> ~(date < d /\ d < selected))
                 /\ d > selected /\ date < d => date # d
                 /\ d < selected /\ d < date => date # d
                 /\ d > selected \/ d < selected \/ d = selected
      BY <1>1, <1>2
    <3>2. ASSUME date \notin dates, NextTo(selected, date, dates)
          PROVE  /\ \A d \in dates : d > selected => date < d
                 /\ \A d \in dates : d < selected => d < date
                 /\ date # selected
      BY <3>1, <3>2 DEF NextTo
    <3>3. ASSUME \A d \in dates : d > selected => date < d,
                 \A d \in dates : d < selected => d < date,
                 date # selected
          PROVE  date \notin dates /\ NextTo(selected, date, dates)
      <4>1. \A d \in dates : date # d
        BY <3>1, <3>3
      <4> QED
        BY <3>1, <3>3, <4>1 DEF NextTo
    <3> QED
      BY <3>2, <3>3
  <2> HIDE DEF earlier, later, min, max
  <2> QED
    BY <1>4, <2>1, <2>2, <2>4, <2>5, <2>6 DEF InPlace
<1> QED
  BY <1>3, <1>4

(***************************************************************************)
(* The page.  The form of a dialog that writes a record has the fields     *)
(* that were shown when it was opened, those that the user did not touch   *)
(* as they were, and those he touched; so a write has nothing of the       *)
(* fields that are to be kept.                                             *)
(***************************************************************************)
RecordsInv ==
  /\ Days(DOMAIN records) /\ DOMAIN records # {}
  /\ \A d \in DOMAIN records : DOMAIN records[d] = Fields
  /\ auditLog \in Nat

KnownInv ==
  /\ Days(versionsKnown)
  /\ detailsKnown.day # NoDay => CoreFields \subseteq DOMAIN detailsKnown.values
  /\ auditKnown \subseteq 1..auditLog

PlaceShape(a) == /\ DOMAIN a = {"asOf", "requested", "tab", "uuid"}
                 /\ a.asOf \in Nat /\ a.requested \in Nat

PlaceInv == PlaceShape(detailAddress) /\ PlaceShape(detailBack)

WritesRecord(kind) == kind \in {"add", "insert", "correct"}

ActionShape(a) ==
  /\ DOMAIN a = {"kind", "plan", "date", "corrected", "form", "original", "touched",
                 "openedOn"}
  /\ a.kind \in {"none", "add", "insert", "correct", "delete"}
  /\ a.kind \in {"add", "insert"} => /\ IsPlan(a.plan, a.kind, a.openedOn)
                                     /\ a.date \in Nat
  /\ a.kind = "correct" => a.date \in Nat \ {NoDay} /\ a.corrected \in Nat
  /\ WritesRecord(a.kind) =>
       /\ CoreFields \subseteq DOMAIN a.original
       /\ DOMAIN a.form = DOMAIN a.original \cup a.touched
       /\ \A f \in DOMAIN a.original \ a.touched : a.form[f] = a.original[f]

WritingShape(w) ==
  /\ DOMAIN w = {"stage", "kind", "target", "date", "patch", "kept"}
  /\ w.stage \in {"no", "sent", "done"}
  /\ WritesRecord(w.kind) => /\ w.date \in Nat \ {NoDay}
                             /\ w.kept \subseteq Fields /\ DOMAIN w.patch \cap w.kept = {}

DetailInv ==
  /\ RecordsInv /\ KnownInv /\ PlaceInv
  /\ ActionShape(action) /\ WritingShape(writing)

LEMMA ServerSideRests ==
  ASSUME DetailInv, UNCHANGED serverSide
  PROVE  RecordsInv' /\ (UNCHANGED queryVars => KnownInv')
  BY DEF DetailInv, RecordsInv, KnownInv, serverSide, queryVars, Days

LEMMA PlaceRests ==
  ASSUME DetailInv, UNCHANGED placeVars
  PROVE  PlaceInv'
  BY DEF DetailInv, PlaceInv, PlaceShape, placeVars

LEMMA ActionRests ==
  ASSUME DetailInv, UNCHANGED action
  PROVE  ActionShape(action)'
  BY DEF DetailInv, ActionShape, IsPlan, WritesRecord

LEMMA WritingRests ==
  ASSUME DetailInv, UNCHANGED writing
  PROVE  WritingShape(writing)'
  BY DEF DetailInv, WritingShape, WritesRecord

LEMMA ShownDay ==
  ASSUME DetailInv
  PROVE  /\ EffectiveDate \in Nat \ {NoDay}
         /\ versionsKnown # {} => EffectiveDate \in versionsKnown
<1>1. AsOf \in Nat \ {NoDay}
  BY RecordDayAssumption DEF AsOf, Today, DetailInv, PlaceInv, PlaceShape, NoDay
<1> QED
  BY <1>1, ResolvedDay DEF EffectiveDate, DetailInv, KnownInv, PlaceInv, PlaceShape

(* The server.                                                             *)
LEMMA WithRecord ==
  ASSUME NEW rs, Days(DOMAIN rs), \A r \in DOMAIN rs : DOMAIN rs[r] = Fields,
         NEW d \in Nat \ {NoDay}, NEW values, DOMAIN values = Fields
  PROVE  /\ Days(DOMAIN With(rs, d, values)) /\ DOMAIN With(rs, d, values) # {}
         /\ \A r \in DOMAIN With(rs, d, values) : DOMAIN With(rs, d, values)[r] = Fields
         /\ With(rs, d, values)[d] = values
<1> DEFINE new == With(rs, d, values)
<1>1. DOMAIN new = DOMAIN rs \cup {d}
  BY DEF With
<1>2. \A r \in DOMAIN new : new[r] = IF r = d THEN values ELSE rs[r]
  BY DEF With
<1> HIDE DEF new
<1>3. Days(DOMAIN new)
  BY <1>1, OneMoreDay
<1>4. /\ DOMAIN new # {} /\ new[d] = values
      /\ \A r \in DOMAIN new : DOMAIN new[r] = Fields
  BY <1>1, <1>2
<1> QED
  BY <1>3, <1>4 DEF new

LEMMA WithoutRecord ==
  ASSUME RecordsInv, NEW d
  PROVE  /\ DOMAIN Without(d) = DOMAIN records \ {d} /\ Days(DOMAIN Without(d))
         /\ \A r \in DOMAIN Without(d) : DOMAIN Without(d)[r] = Fields
<1>1. /\ DOMAIN Without(d) = DOMAIN records \ {d}
      /\ \A r \in DOMAIN records \ {d} : Without(d)[r] = records[r]
  BY DEF Without
<1> QED
  BY <1>1, FewerDays DEF RecordsInv

LEMMA WrittenOK ==
  ASSUME DetailInv, Written
  PROVE  /\ Days(DOMAIN records') /\ DOMAIN records' # {}
         /\ \A d \in DOMAIN records' : DOMAIN records'[d] = Fields
         /\ records'[writing.date] = Patched(Base)
<1>1. DOMAIN Patched(Base) = Fields
  BY DEF Patched
<1>2. RecordsInv /\ writing.date \in Nat \ {NoDay}
  BY DEF DetailInv, WritingShape, WritesRecord, Written
<1> DEFINE values == Patched(Base)
           rest == Without(writing.target)
<1>3. \/ records' = With(records, writing.date, values)
      \/ records' = With(rest, writing.date, values)
  BY DEF Written
<1>4. DOMAIN values = Fields
  BY <1>1
<1>5. Days(DOMAIN rest) /\ \A r \in DOMAIN rest : DOMAIN rest[r] = Fields
  BY <1>2, WithoutRecord
<1> HIDE DEF values, rest
<1>6. \E rs : /\ Days(DOMAIN rs) /\ \A r \in DOMAIN rs : DOMAIN rs[r] = Fields
             /\ records' = With(rs, writing.date, values)
  BY <1>2, <1>3, <1>5 DEF RecordsInv
<1>7. /\ Days(DOMAIN records') /\ DOMAIN records' # {}
      /\ \A d \in DOMAIN records' : DOMAIN records'[d] = Fields
      /\ records'[writing.date] = values
  BY <1>2, <1>4, <1>6, WithRecord
<1> QED
  BY <1>7 DEF values

LEMMA WriteAppliedOK ==
  ASSUME DetailInv, WriteApplied
  PROVE  DetailInv'
<1>1. /\ auditLog' = auditLog + 1 /\ UNCHANGED action /\ UNCHANGED queryVars
      /\ UNCHANGED placeVars /\ writing' = [writing EXCEPT !.stage = "done"]
  BY DEF WriteApplied
<1>2. /\ Days(DOMAIN records') /\ DOMAIN records' # {}
      /\ \A d \in DOMAIN records' : DOMAIN records'[d] = Fields
  <2>1. CASE Written
    BY <2>1, WrittenOK
  <2>2. CASE writing.kind = "delete" /\ Rescinded
    <3>1. /\ writing.target \in DOMAIN records /\ Cardinality(DOMAIN records) > 1
          /\ records' = Without(writing.target)
      BY <2>2 DEF Rescinded
    <3>2. IsFiniteSet(DOMAIN records) /\ RecordsInv
      BY DaysAreFinite DEF DetailInv, RecordsInv
    <3>3. DOMAIN records \ {writing.target} # {}
      <4> DEFINE D == DOMAIN records
      <4>1. IsFiniteSet(D) /\ Cardinality(D) > 1 /\ writing.target \in D
        BY <3>1, <3>2
      <4> HIDE DEF D
      <4>2. Cardinality(D) # 1
        BY <4>1
      <4>3. D # {writing.target}
        BY <4>1, <4>2, FS_Singleton
      <4> QED
        BY <4>1, <4>3 DEF D
    <3> QED
      BY <3>1, <3>2, <3>3, WithoutRecord
  <2>3. CASE UNCHANGED records
    BY <2>3 DEF DetailInv, RecordsInv, Days
  <2> QED
    BY <2>1, <2>2, <2>3 DEF WriteApplied, Rescinded
<1>3. RecordsInv'
  BY <1>1, <1>2 DEF DetailInv, RecordsInv, Days
<1>4. KnownInv'
  BY <1>1 DEF DetailInv, RecordsInv, KnownInv, queryVars, Days
<1>5. WritingShape(writing)'
  BY <1>1 DEF DetailInv, WritingShape, WritesRecord
<1> QED
  BY <1>1, <1>3, <1>4, <1>5, PlaceRests, ActionRests DEF DetailInv

LEMMA OtherAdminWritesOK ==
  ASSUME DetailInv, OtherAdminWrites
  PROVE  DetailInv'
<1>1. PICK d \in DOMAIN records, v \in OthersValues :
        \E f \in CoreFields \cup EnabledOn(d) : records' = [records EXCEPT ![d][f] = v]
  BY DEF OtherAdminWrites
<1>2. /\ auditLog' = auditLog + 1 /\ UNCHANGED action /\ UNCHANGED writing
      /\ UNCHANGED queryVars /\ UNCHANGED placeVars
  BY DEF OtherAdminWrites
<1>3. DOMAIN records' = DOMAIN records
      /\ \A r \in DOMAIN records : DOMAIN records'[r] = DOMAIN records[r]
  BY <1>1
<1>4. RecordsInv'
  <2>1. auditLog' \in Nat /\ Days(DOMAIN records') /\ DOMAIN records' # {}
    BY <1>2, <1>3 DEF DetailInv, RecordsInv
  <2>2. \A r \in DOMAIN records' : DOMAIN records'[r] = Fields
    BY <1>3 DEF DetailInv, RecordsInv
  <2> QED
    BY <2>1, <2>2 DEF RecordsInv, Days
<1>5. KnownInv'
  <2>1. UNCHANGED <<versionsKnown, detailsKnown, auditKnown>> /\ KnownInv
    BY <1>2 DEF queryVars, DetailInv
  <2>2. auditKnown' \subseteq 1..auditLog'
    BY <1>2, <2>1 DEF DetailInv, RecordsInv, KnownInv
  <2> QED
    BY <2>1, <2>2 DEF KnownInv, Days
<1> QED
  BY <1>2, <1>4, <1>5, PlaceRests, ActionRests, WritingRests DEF DetailInv

LEMMA OtherAdminEnablesOK ==
  ASSUME DetailInv, OtherAdminEnablesField
  PROVE  DetailInv'
<1>1. /\ UNCHANGED <<records, auditLog, action, writing>>
      /\ UNCHANGED queryVars /\ UNCHANGED placeVars
  BY DEF OtherAdminEnablesField
<1>2. RecordsInv' /\ KnownInv'
  BY <1>1 DEF DetailInv, RecordsInv, KnownInv, queryVars, Days
<1> QED
  BY <1>1, <1>2, PlaceRests, ActionRests, WritingRests DEF DetailInv

LEMMA WriteFailsOK ==
  ASSUME DetailInv, WriteFails
  PROVE  DetailInv'
<1>1. UNCHANGED action /\ UNCHANGED serverSide /\ UNCHANGED queryVars /\ UNCHANGED placeVars
  BY DEF WriteFails
<1>2. WritingShape(writing)'
  BY DEF WriteFails, WritingShape, NotWriting, WritesRecord
<1> QED
  BY <1>1, <1>2, ServerSideRests, PlaceRests, ActionRests DEF DetailInv

LEMMA NoActionShape == ActionShape(NoAction)
BY DEF NoAction, ActionShape, WritesRecord

LEMMA DialogCloses ==
  ASSUME DetailInv, Close \/ WriteSucceeds
  PROVE  DetailInv'
<1>1. UNCHANGED serverSide /\ UNCHANGED queryVars /\ UNCHANGED placeVars /\ action' = NoAction
  BY DEF Close, WriteSucceeds
<1>2. ActionShape(action)'
  BY <1>1, NoActionShape DEF ActionShape, IsPlan, WritesRecord
<1>3. WritingShape(writing)'
  <2>1. CASE Close
    BY <2>1, WritingRests DEF Close
  <2>2. CASE WriteSucceeds
    BY <2>2 DEF WriteSucceeds, WritingShape, NotWriting, WritesRecord
  <2> QED
    BY <2>1, <2>2
<1> QED
  BY <1>1, <1>2, <1>3, ServerSideRests, PlaceRests DEF DetailInv

(* The address.                                                            *)
LEMMA SearchUpdated ==
  ASSUME DetailInv, NEW to, PlaceShape(to), UpdateDetailSearch(to)
  PROVE  PlaceInv'
BY DEF UpdateDetailSearch, PlaceInv, PlaceShape, DetailInv

LEMMA AddressMoves ==
  ASSUME DetailInv, DetailEffects \/ Browse
  PROVE  DetailInv'
<1>1. /\ UNCHANGED <<action, writing>> /\ UNCHANGED serverSide /\ UNCHANGED queryVars
  BY DEF DetailEffects, Browse
<1>2. PlaceShape(detailAddress) /\ PlaceShape(detailBack)
  BY DEF DetailInv, PlaceInv
<1>3. EffectiveDate \in Nat /\ versionsKnown \subseteq Nat
  BY ShownDay DEF DetailInv, KnownInv, Days
<1>4. PlaceInv'
  <2>1. CASE DetailEffects
    <3>1. PlaceShape(ToFirstAudit) /\ PlaceShape(ToEffectiveDate)
      BY <1>2, <1>3 DEF PlaceShape, ToFirstAudit, ToEffectiveDate, NoDay
    <3> QED
      BY <2>1, <3>1, SearchUpdated DEF DetailEffects
  <2>2. CASE Browse
    <3>1. PlaceShape(ViewCurrent) /\ \A d \in versionsKnown : PlaceShape(SelectVersion(d))
      BY <1>2, <1>3 DEF PlaceShape, ViewCurrent, SelectVersion, NoDay
    <3>2. \A x : PlaceShape(SelectTab(x)) /\ PlaceShape(SelectAudit(x))
      BY <1>2 DEF PlaceShape, SelectTab, SelectAudit
    <3>3. PICK to : UpdateDetailSearch(to) /\ PlaceShape(to)
      BY <1>2, <2>2, <3>1, <3>2 DEF Browse
    <3> QED
      BY <3>3, SearchUpdated
  <2> QED
    BY <2>1, <2>2
<1> QED
  BY <1>1, <1>4, ServerSideRests, ActionRests, WritingRests DEF DetailInv

(* What the page reads.                                                    *)
LEMMA QueryOK ==
  ASSUME DetailInv, Query
  PROVE  DetailInv'
<1>1. UNCHANGED <<action, writing>> /\ UNCHANGED serverSide /\ UNCHANGED placeVars
  BY DEF Query
<1>2. UNCHANGED auditLog /\ RecordsInv /\ KnownInv
  BY <1>1 DEF serverSide, DetailInv
<1>3. KnownInv'
  <2>1. CASE LoadVersions
    BY <1>2, <2>1 DEF LoadVersions, KnownInv, RecordsInv, Days
  <2>2. CASE LoadDetails
    <3>1. CoreFields \subseteq DOMAIN ToldOn(EffectiveDate)
      BY DEF ToldOn
    <3> QED
      BY <1>2, <2>2, <3>1 DEF LoadDetails, KnownInv, Days
  <2>3. CASE LoadAudit
    BY <1>2, <2>3 DEF LoadAudit, KnownInv, Days
  <2> QED
    BY <2>1, <2>2, <2>3 DEF Query
<1> QED
  BY <1>1, <1>3, ServerSideRests, PlaceRests, ActionRests, WritingRests DEF DetailInv

(* The dialog.                                                             *)
LEMMA PlannedDay ==
  ASSUME NEW mode \in {"add", "insert"}, NEW dates, Days(dates), NEW selected \in dates
  PROVE  PlanRecordEffectiveDate(mode, dates, selected).default \in Nat
<1>1. selected \in Nat \ {NoDay} /\ dates # {}
  BY DEF Days
<1>2. Max(dates) \in Nat
  BY GreatestDay DEF Days
<1> QED
  BY <1>1, <1>2 DEF PlanRecordEffectiveDate, Plan, NoDay

LEMMA OpenOK ==
  ASSUME DetailInv, Open
  PROVE  DetailInv'
<1>1. /\ UNCHANGED writing /\ UNCHANGED serverSide /\ UNCHANGED queryVars
      /\ UNCHANGED placeVars
  BY DEF Open
<1>2. EffectiveDate \in Nat \ {NoDay} /\ (versionsKnown # {} => EffectiveDate \in versionsKnown)
  BY ShownDay
<1>3. KnownInv
  BY DEF DetailInv
<1>4. ActionShape(action')
  <2>1. ASSUME NEW mode \in {"add", "insert"}, OpenRecordWizard(mode)
        PROVE  ActionShape(action')
    <3> DEFINE plan == PlanRecordEffectiveDate(mode, versionsKnown, EffectiveDate)
    <3>1. versionsKnown # {} /\ HasDetails /\ action' = Form(mode, plan.default, plan)
      BY <2>1 DEF OpenRecordWizard
    <3>2. IsPlan(plan, mode, versionsKnown)
      BY <1>2, <1>3, <3>1 DEF IsPlan, KnownInv
    <3>3. plan.default \in Nat
      BY <1>2, <1>3, <3>1, PlannedDay DEF KnownInv
    <3>4. CoreFields \subseteq DOMAIN detailsKnown.values
      BY <1>2, <1>3, <3>1 DEF HasDetails, KnownInv
    <3> HIDE DEF plan
    <3> QED
      BY <3>1, <3>2, <3>3, <3>4 DEF Form, NoAction, ActionShape, WritesRecord
  <2>2. CASE OpenCorrectAction
    <3>1. HasDetails /\ action' = Form("correct", EffectiveDate, NoPlan)
      BY <2>2 DEF OpenCorrectAction
    <3>2. CoreFields \subseteq DOMAIN detailsKnown.values
      BY <1>2, <1>3, <3>1 DEF HasDetails, KnownInv
    <3> QED
      BY <1>2, <3>1, <3>2 DEF Form, NoAction, NoDay, ActionShape, WritesRecord
  <2>3. CASE OpenDeleteAction
    BY <2>3 DEF OpenDeleteAction, NoAction, ActionShape, WritesRecord
  <2> QED
    BY <2>1, <2>2, <2>3 DEF Open
<1>5. ActionShape(action)'
  BY <1>4 DEF ActionShape, IsPlan, WritesRecord
<1> QED
  BY <1>1, <1>5, ServerSideRests, PlaceRests, WritingRests DEF DetailInv

LEMMA EditOK ==
  ASSUME DetailInv, Edit
  PROVE  DetailInv'
<1>1. /\ UNCHANGED writing /\ UNCHANGED serverSide /\ UNCHANGED queryVars
      /\ UNCHANGED placeVars
  BY DEF Edit
<1>2. ActionShape(action) /\ WritesRecord(action.kind)
  BY DEF DetailInv, Edit, WritesRecord
<1>3. ActionShape(action')
  <2>1. ASSUME NEW f, NEW v, EditField(f, v)
        PROVE  ActionShape(action')
    <3>1. action' = [action EXCEPT !.form = With(action.form, f, v),
                                   !.touched = action.touched \cup {f}]
      BY <2>1 DEF EditField
    <3>2. /\ DOMAIN action' = DOMAIN action
          /\ action'.form = With(action.form, f, v)
          /\ action'.touched = action.touched \cup {f}
          /\ action'.original = action.original /\ action'.kind = action.kind
          /\ action'.plan = action.plan /\ action'.openedOn = action.openedOn
          /\ action'.date = action.date /\ action'.corrected = action.corrected
      BY <1>2, <3>1 DEF ActionShape
    <3>4. /\ DOMAIN With(action.form, f, v) = DOMAIN action.form \cup {f}
          /\ \A g \in DOMAIN action.form \ {f} : With(action.form, f, v)[g] = action.form[g]
      BY DEF With
    <3>3. /\ DOMAIN action'.form = DOMAIN action'.original \cup action'.touched
          /\ \A g \in DOMAIN action'.original \ action'.touched :
               action'.form[g] = action'.original[g]
      BY <1>2, <3>2, <3>4 DEF ActionShape
    <3> QED
      BY <1>2, <3>2, <3>3 DEF ActionShape
  <2>2. ASSUME NEW d \in {NoDay} \cup 1..(LastDay + 1), EditDate(d) \/ EditCorrectedDate(d)
        PROVE  ActionShape(action')
    <3>1. d \in Nat
      BY RecordDayAssumption DEF NoDay
    <3>2. \/ IsRecordWizard /\ action' = [action EXCEPT !.date = d]
          \/ action.kind = "correct" /\ action' = [action EXCEPT !.corrected = d]
      BY <2>2 DEF EditDate, EditCorrectedDate
    <3> QED
      BY <1>2, <3>1, <3>2 DEF ActionShape, IsRecordWizard, WritesRecord
  <2> QED
    BY <2>1, <2>2 DEF Edit
<1>4. ActionShape(action)'
  BY <1>3 DEF ActionShape, IsPlan, WritesRecord
<1> QED
  BY <1>1, <1>4, ServerSideRests, PlaceRests, WritingRests DEF DetailInv

(* A date is accepted; of the form, nothing is sent that is to be kept.    *)
LEMMA PatchSparesKept ==
  ASSUME NEW a, ActionShape(a), WritesRecord(a.kind)
  PROVE  DOMAIN BuildOrgUnitWritePatch(a) \cap FieldsKept(a) = {}
<1> SUFFICES ASSUME NEW f \in ShownFields, f \in FieldsKept(a),
                    IF f \in CoreFields THEN CoreChanged(a, f) ELSE PlainChanged(a, f)
             PROVE  FALSE
  BY DEF BuildOrgUnitWritePatch
<1>1. f \notin a.touched
  BY DEF FieldsKept
<1>2. CASE f \in CoreFields
  <2>1. a.form[f] = a.original[f]
    BY <1>1, <1>2 DEF ActionShape
  <2> QED
    BY <1>2, <2>1 DEF CoreChanged
<1>3. CASE f \notin CoreFields
  <2>1. f \in DOMAIN a.original /\ Trimmed[a.original[f]] = a.original[f]
    BY <1>3 DEF FieldsKept
  <2>2. FieldValue(a, f) = a.original[f]
    BY <1>1, <2>1 DEF ActionShape, FieldValue
  <2> QED
    BY <1>3, <2>1, <2>2 DEF PlainChanged
<1> QED
  BY <1>2, <1>3

LEMMA ConfirmOK ==
  ASSUME DetailInv, Confirm
  PROVE  DetailInv'
<1>1. /\ UNCHANGED action /\ UNCHANGED serverSide /\ UNCHANGED queryVars
      /\ UNCHANGED placeVars
  BY DEF Confirm
<1>2. ActionShape(action)
  BY DEF DetailInv
<1>3. WritingShape(writing')
  <2>1. CASE ConfirmWrite
    <3> DEFINE patch == BuildOrgUnitWritePatch(action)
    <3>1. /\ WritesRecord(action.kind) /\ DateAccepted
          /\ writing' = [stage |-> "sent", kind |-> action.kind, target |-> action.date,
                         date |-> WriteDate, patch |-> patch, kept |-> FieldsKept(action)]
      BY <2>1 DEF ConfirmWrite, WritesRecord
    <3>2. FieldsKept(action) \subseteq Fields /\ DOMAIN patch \cap FieldsKept(action) = {}
      BY <1>2, <3>1, PatchSparesKept DEF FieldsKept
    <3>3. WriteDate \in Nat \ {NoDay}
      <4>1. CASE action.kind = "correct"
        BY <1>2, <4>1 DEF WriteDate, ActionShape
      <4>2. CASE IsRecordWizard
        <5>1. action.date # NoDay
          BY <3>1, <4>2 DEF DateAccepted, ValidatePlannedEffectiveDate
        <5> QED
          BY <1>2, <4>2, <5>1 DEF WriteDate, ActionShape, IsRecordWizard
      <4> QED
        BY <3>1, <4>1, <4>2 DEF WritesRecord, IsRecordWizard
    <3> HIDE DEF patch
    <3> QED
      BY <3>1, <3>2, <3>3 DEF WritingShape
  <2>2. CASE ConfirmDelete
    BY <2>2 DEF ConfirmDelete, NotWriting, WritingShape, WritesRecord
  <2> QED
    BY <2>1, <2>2 DEF Confirm
<1>4. WritingShape(writing)'
  BY <1>3 DEF WritingShape, WritesRecord
<1> QED
  BY <1>1, <1>4, ServerSideRests, PlaceRests, ActionRests DEF DetailInv

LEMMA DetailBegins == WebInit => DetailInv
<1> SUFFICES ASSUME DetailInit PROVE DetailInv
  BY DEF WebInit
<1>1. RecordsInv
  <2>1. DOMAIN records = FirstRecords /\ \A d \in FirstRecords : DOMAIN records[d] = Fields
    BY DEF DetailInit
  <2>2. Days(FirstRecords)
    <3>1. FirstRecords \subseteq Nat \ {NoDay} /\ \A d \in FirstRecords : d <= LastDay
      BY RecordDayAssumption DEF NoDay
    <3>2. LastDay \in Nat
      BY RecordDayAssumption
    <3> QED
      BY <3>1, <3>2 DEF Days
  <2> QED
    BY <2>1, <2>2, RecordDayAssumption DEF DetailInit, RecordsInv
<1>2. KnownInv
  BY DEF DetailInit, KnownInv, NoDetails, Days
<1>3. PlaceInv
  <2>1. {NoDay} \cup LinkDays \subseteq Nat
    BY RecordDayAssumption DEF NoDay
  <2> QED
    BY <2>1 DEF DetailInit, PlaceInv, PlaceShape
<1>4. ActionShape(action) /\ WritingShape(writing)
  BY NoActionShape DEF DetailInit, WritingShape, NotWriting, WritesRecord
<1> QED
  BY <1>1, <1>2, <1>3, <1>4 DEF DetailInv

LEMMA DetailStep ==
  ASSUME DetailInv, [WebNext]_webVars
  PROVE  DetailInv'
<1>1. UNCHANGED detailVars \/ DetailNext
  BY DEF WebNext, webVars, UnitsPage, DetailsPage, ConfigsPage, DictsPage, RolesPage,
         AssignmentsPage, Picker, OthersRest
<1>2. CASE UNCHANGED detailVars
  <2>1. /\ UNCHANGED serverSide /\ UNCHANGED queryVars /\ UNCHANGED placeVars
        /\ UNCHANGED action /\ UNCHANGED writing
    BY <1>2 DEF detailVars, serverSide, queryVars, placeVars
  <2> QED
    BY <2>1, ServerSideRests, PlaceRests, ActionRests, WritingRests DEF DetailInv
<1>3. CASE DetailNext
  BY <1>3, AddressMoves, QueryOK, OpenOK, DialogCloses, EditOK, ConfirmOK, WriteAppliedOK,
     WriteFailsOK, OtherAdminWritesOK, OtherAdminEnablesOK DEF DetailNext
<1> QED
  BY <1>1, <1>2, <1>3

(* The unit keeps a record, on days that are days, and the page's state    *)
(* keeps its shape.                                                        *)
THEOREM DetailsAlwaysTyped == WebSpec => []DetailTypeOK
<1>1. DetailInv /\ [WebNext]_webVars => DetailInv'
  BY DetailStep
<1>2. DetailInv => DetailTypeOK
  <2> SUFFICES ASSUME DetailInv PROVE DetailTypeOK
    OBVIOUS
  <2>1. records # <<>>
    BY DEF DetailInv, RecordsInv
  <2> QED
    BY <2>1 DEF DetailInv, RecordsInv, KnownInv, PlaceInv, PlaceShape, ActionShape,
                WritingShape, Days, DetailTypeOK
<1> QED
  BY <1>1, <1>2, DetailBegins, PTL DEF WebSpec

(* Whatever the page reads again while the dialog is open, the wizard      *)
(* accepts the days that are free and in their place among the records it  *)
(* was opened on, and no other.                                            *)
THEOREM AcceptedDateAlwaysFree == WebSpec => []AcceptedDateIsFree
<1>1. DetailInv /\ [WebNext]_webVars => DetailInv'
  BY DetailStep
<1>2. DetailInv => AcceptedDateIsFree
  <2> SUFFICES ASSUME DetailInv, IsRecordWizard
               PROVE  DateAccepted <=>
                        InPlace(action.kind, action.plan.selected, action.date, action.openedOn)
    BY DEF AcceptedDateIsFree, InPlace, NextTo, NextToSelected
  <2>1. /\ action.kind \in {"add", "insert"} /\ action.date \in Nat
        /\ IsPlan(action.plan, action.kind, action.openedOn)
        /\ DateAccepted <=> ValidatePlannedEffectiveDate(action.plan, action.date)
    BY DEF DetailInv, ActionShape, IsRecordWizard, DateAccepted
  <2> DEFINE dates == action.openedOn
  <2>2. PICK selected \in dates :
          action.plan = PlanRecordEffectiveDate(action.kind, dates, selected)
    BY <2>1 DEF IsPlan
  <2>3. Days(dates)
    BY <2>1 DEF IsPlan
  <2>4. CASE action.kind = "add"
    BY <2>1, <2>2, <2>3, <2>4, AddPlan
  <2>5. CASE action.kind = "insert"
    BY <2>1, <2>2, <2>3, <2>5, InsertPlan
  <2> QED
    BY <2>1, <2>4, <2>5
<1> QED
  BY <1>1, <1>2, DetailBegins, PTL DEF WebSpec

(* When a record can be inserted: after the last one, or when a day next   *)
(* to the selected record is free, which for the first is the day after    *)
(* it.  planRecordEffectiveDate says that there is no slot for the first   *)
(* record only; for one between two records of the days before and after   *)
(* it, no day is accepted either.                                          *)
THEOREM RoomForARecord ==
  ASSUME NEW dates, Days(dates), NEW selected \in dates
  PROVE  LET plan == PlanRecordEffectiveDate("insert", dates, selected)
             room == \E date \in Nat : ValidatePlannedEffectiveDate(plan, date)
             first == \A d \in dates : selected <= d
         IN /\ room <=> \/ selected = Max(dates)
                        \/ selected + 1 \notin dates
                        \/ ~first /\ selected - 1 \notin dates
            /\ plan.kind = "insert_no_slot" <=> first /\ ~room
<1> DEFINE plan == PlanRecordEffectiveDate("insert", dates, selected)
           room == \E date \in Nat : ValidatePlannedEffectiveDate(plan, date)
           first == \A d \in dates : selected <= d
           earlier == {d \in dates : d < selected}
           later == {d \in dates : d > selected}
<1>1. /\ dates \subseteq Nat \ {NoDay} /\ \A d \in dates : d \in Int /\ d > 0
      /\ Max(dates) \in dates /\ \A d \in dates : d <= Max(dates)
      /\ earlier # {} => Max(earlier) \in earlier /\ \A d \in earlier : d <= Max(earlier)
      /\ later # {} => Min(later) \in later /\ \A d \in later : Min(later) <= d
      /\ later = {} <=> selected = Max(dates)
  BY AroundSelected
<1>2. selected \in Int /\ selected > 0 /\ Max(dates) \in Int
  BY <1>1
<1>3. room <=> \E date \in Nat : InPlace("insert", selected, date, dates)
  <2>1. \A date \in Nat : ValidatePlannedEffectiveDate(plan, date)
                            <=> InPlace("insert", selected, date, dates)
    BY InsertPlan
  <2> HIDE DEF plan
  <2> QED
    BY <2>1
<1>4. first <=> earlier = {}
  <2>1. \A d \in dates : selected <= d <=> ~(d < selected)
    BY <1>1, <1>2
  <2> QED
    BY <2>1
<1>5. ASSUME selected = Max(dates)
      PROVE  room
  <2>1. Max(dates) + 1 \in Nat /\ \A d \in dates : d < Max(dates) + 1
    BY <1>1, <1>2
  <2>2. Max(dates) + 1 \notin dates
    BY <1>1, <1>2
  <2>3. InPlace("insert", selected, Max(dates) + 1, dates)
    BY <1>1, <1>5, <2>1, <2>2 DEF InPlace
  <2> QED
    BY <1>3, <2>1, <2>3
<1>6. ASSUME selected # Max(dates), selected + 1 \notin dates
      PROVE  room
  <2>1. NextTo(selected, selected + 1, dates) /\ selected + 1 \in Nat
    BY <1>1, <1>2 DEF NextTo
  <2>2. InPlace("insert", selected, selected + 1, dates)
    BY <1>2, <1>6, <2>1 DEF InPlace
  <2> QED
    BY <1>3, <2>1, <2>2
<1>7. ASSUME selected # Max(dates), ~first, selected - 1 \notin dates
      PROVE  room
  <2>1. PICK d \in dates : d < selected
    BY <1>1, <1>2, <1>7
  <2>2. d < selected - 1
    BY <1>1, <1>2, <1>7, <2>1
  <2>3. NextTo(selected, selected - 1, dates) /\ selected - 1 \in Nat
    BY <1>1, <1>2 DEF NextTo
  <2>4. InPlace("insert", selected, selected - 1, dates)
    BY <1>7, <2>2, <2>3 DEF InPlace
  <2> QED
    BY <1>3, <2>3, <2>4
<1>8. ASSUME selected # Max(dates), selected + 1 \in dates,
             first \/ selected - 1 \in dates, room
      PROVE  FALSE
  <2>1. PICK date \in Nat : InPlace("insert", selected, date, dates)
    BY <1>3, <1>8
  <2>2. /\ date \notin dates /\ NextTo(selected, date, dates)
        /\ \E d \in dates : d < date
    BY <1>8, <2>1 DEF InPlace
  <2>3. ~(selected + 1 < date)
    BY <1>2, <1>8, <2>2 DEF NextTo
  <2>4. date # selected /\ date # selected + 1
    BY <1>8, <2>2
  <2>5. date < selected
    BY <1>2, <2>3, <2>4
  <2>6. CASE first
    BY <1>1, <1>2, <2>2, <2>5, <2>6
  <2>7. CASE selected - 1 \in dates
    <3>1. ~(date < selected - 1)
      BY <1>2, <2>2, <2>7 DEF NextTo
    <3>2. date # selected - 1
      BY <2>2, <2>7
    <3> QED
      BY <1>2, <2>5, <3>1, <3>2
  <2> QED
    BY <1>8, <2>6, <2>7
<1>9. plan.kind = "insert_no_slot" <=> first /\ selected # Max(dates) /\ selected + 1 \in dates
  <2>1. CASE selected = Max(dates)
    <3>1. plan = Plan("insert_as_add", selected, Max(dates) + 1, Max(dates) + 1, NoDay)
      BY <1>1, <1>2, <2>1 DEF PlanRecordEffectiveDate, NoDay
    <3> QED
      BY <2>1, <3>1 DEF Plan
  <2>2. CASE selected # Max(dates)
    <3> DEFINE min == SlotFrom(dates, selected)
               max == SlotTo(dates, selected)
    <3>1. plan.kind = IF min > max THEN "insert_no_slot" ELSE "insert"
      BY <2>2, InsertPlanKind
    <3>2. Min(later) \in dates /\ Min(later) > selected /\ \A d \in dates : d > selected => Min(later) <= d
      BY <1>1, <2>2
    <3>3. Min(later) \in Int /\ max = Min(later) - 1
      BY <1>1, <3>2 DEF SlotTo
    <3>4. CASE earlier = {}
      <4>1. min = selected + 1 /\ first
        BY <1>4, <3>4 DEF SlotFrom
      <4>2. min > max <=> Min(later) = selected + 1
        <5> HIDE DEF later, earlier
        <5> QED
          BY <1>2, <3>2, <3>3, <4>1
      <4>3. Min(later) = selected + 1 <=> selected + 1 \in dates
        <5> HIDE DEF later, earlier
        <5> QED
          BY <1>2, <3>2, <3>3
      <4> HIDE DEF min, max, later, earlier, plan
      <4> QED
        BY <2>2, <3>1, <4>1, <4>2, <4>3
    <3>5. CASE earlier # {}
      <4>1. min = Max(earlier) + 1 /\ Max(earlier) \in Int /\ Max(earlier) < selected
        BY <1>1, <3>5 DEF SlotFrom
      <4>2. ~(min > max) /\ ~first
        <5>1. ~first
          BY <1>4, <3>5
        <5> HIDE DEF later, earlier, first
        <5> QED
          BY <1>2, <3>2, <3>3, <4>1, <5>1
      <4> HIDE DEF min, max, later, earlier, plan
      <4> QED
        BY <3>1, <4>2
    <3> QED
      BY <3>4, <3>5
  <2> QED
    BY <2>1, <2>2
<1>10. room <=> \/ selected = Max(dates)
                \/ selected + 1 \notin dates
                \/ ~first /\ selected - 1 \notin dates
  <2> HIDE DEF room, first, plan, earlier, later
  <2> QED
    BY <1>5, <1>6, <1>7, <1>8
<1>11. plan.kind = "insert_no_slot" <=> first /\ ~room
  <2> HIDE DEF room, first, plan, earlier, later
  <2> QED
    BY <1>9, <1>10
<1> QED
  BY <1>10, <1>11

(* A write leaves what the user did not touch as the server has it then,   *)
(* whatever was read again and whichever fields were enabled since the     *)
(* dialog was opened, but for the plain fields that FieldsKept leaves out. *)
THEOREM UntouchedFieldsKept == WebSpec => OnlyEditedFieldsWritten
<1>1. DetailInv /\ [WebNext]_webVars => DetailInv'
  BY DetailStep
<1>2. DetailInv /\ [WebNext]_webVars =>
        [writing.stage = "sent" /\ writing'.stage = "done"
           /\ writing.kind \in {"add", "insert", "correct"} =>
           \A f \in writing.kept : records'[writing.date][f] = Base[f]]_detailVars
  <2> SUFFICES ASSUME DetailInv, [WebNext]_webVars,
                      writing.stage = "sent", writing'.stage = "done",
                      WritesRecord(writing.kind),
                      NEW f \in writing.kept
               PROVE  records'[writing.date][f] = Base[f]
    BY DEF WritesRecord
  <2>1. WriteApplied
    <3>1. UNCHANGED detailVars \/ DetailNext
      BY DEF WebNext, webVars, UnitsPage, DetailsPage, ConfigsPage, DictsPage, RolesPage,
             AssignmentsPage, Picker, OthersRest
    <3>2. writing' # writing
      OBVIOUS
    <3>3. writing' # NotWriting
      BY DEF NotWriting
    <3>4. ~Confirm
      BY DEF Confirm
    <3> QED
      BY <3>1, <3>2, <3>3, <3>4 DEF DetailNext, detailVars, DetailEffects, Query, Browse, Open,
         Close, Edit, WriteFails, WriteSucceeds, OtherAdminWrites, OtherAdminEnablesField
  <2>2. Written
    BY <2>1 DEF WriteApplied, Rescinded, WritesRecord
  <2>3. records'[writing.date] = Patched(Base)
    BY <2>2, WrittenOK
  <2>4. f \in Fields /\ f \notin DOMAIN writing.patch
    BY DEF DetailInv, WritingShape
  <2> QED
    BY <2>3, <2>4 DEF Patched
<1> QED
  BY <1>1, <1>2, DetailBegins, PTL DEF WebSpec, OnlyEditedFieldsWritten

(***************************************************************************)
(* The addresses come to rest: the safety half of it.  The effects have    *)
(* nothing left to do on what they last ran on, so who writes an address   *)
(* that is at rest wakes them, and each of their runs is one of those that *)
(* are left.                                                               *)
(***************************************************************************)
EffectsInv ==
  EffectsRan => debouncedKeyword = address.keyword /\ ~address.ext /\ ~address.bare

RestInv ==
  /\ UnitsInv /\ DetailInv
  /\ EffectsInv
  /\ unitsSpent \in Nat /\ detailSpent \in Nat

(* What a step of the page does to the address but for the effects: none   *)
(* of them, or one that is paid for, at a moment when the effects have run.*)
AddressRests ==
  /\ UNCHANGED <<address, keywordInput, debouncedKeyword, ranEffectsOn>>
  /\ unitsSpent' \in {unitsSpent, unitsSpent + 1}

AddressPaidFor ==
  /\ EffectsRan
  /\ UNCHANGED <<debouncedKeyword, ranEffectsOn>>
  /\ \/ unitsSpent' = unitsSpent + 1
     \/ UNCHANGED unitsSpent /\ \E call \in treeCalls : treeCalls' = treeCalls \ {call}

LEMMA GoOnActs ==
  ASSUME NEW call \in treeCalls, NEW rest, NEW loading, GoOn(call, rest, loading),
         EffectsRan, UNCHANGED <<ranEffectsOn, unitsSpent>>
  PROVE  AddressRests \/ AddressPaidFor
<1>1. CASE rest # <<>>
  BY <1>1 DEF GoOn, addressVars, AddressRests
<1>2. CASE rest = <<>>
  <2>1. UNCHANGED debouncedKeyword /\ treeCalls' = treeCalls \ {call}
    BY <1>2 DEF GoOn, UpdateSearch, addressVars
  <2> QED
    BY <2>1 DEF AddressPaidFor
<1> QED
  BY <1>1, <1>2

LEMMA AddressActs ==
  ASSUME UnitsNext
  PROVE  \/ (Effects \/ Debounce) /\ UNCHANGED unitsSpent
         \/ AddressRests
         \/ AddressPaidFor
<1>1. CASE Effects \/ Debounce
  BY <1>1 DEF Effects, Debounce
<1>2. CASE Filter
  BY <1>2 DEF Filter, UserActs, TypeKeyword, ChangeView, SelectNode, UpdateSearch, AddressPaidFor
<1>3. CASE Back
  BY <1>3 DEF Back, UserActs, AddressPaidFor
<1>4. CASE ExpandNode \/ Locate
  BY <1>4 DEF ExpandNode, Locate, UserActs, addressVars, AddressRests
<1>5. ASSUME NEW call \in treeCalls, Answer(call) \/ SearchAnswered(call) \/ ChildrenAnswered(call)
      PROVE  AddressRests \/ AddressPaidFor
  <2>1. CASE Answer(call)
    BY <2>1 DEF Answer, addressVars, AddressRests
  <2>2. CASE SearchAnswered(call)
    <3>1. EffectsRan /\ UNCHANGED <<ranEffectsOn, unitsSpent>>
      BY <2>2 DEF SearchAnswered
    <3>2. \/ \E parents \in FoundPaths(call) : GoOn(call, parents, treeLoading)
          \/ UNCHANGED addressVars
      BY <2>2 DEF SearchAnswered
    <3>3. ASSUME UNCHANGED addressVars
          PROVE  AddressRests
      BY <3>1, <3>3 DEF addressVars, AddressRests
    <3> QED
      BY <3>1, <3>2, <3>3, GoOnActs
  <2>3. CASE ChildrenAnswered(call)
    BY <2>3, GoOnActs DEF ChildrenAnswered
  <2> QED
    BY <1>5, <2>1, <2>2, <2>3
<1>6. CASE OpenCreateDialog \/ CloseCreateDialog \/ EnterCode \/ Create
  BY <1>6 DEF OpenCreateDialog, CloseCreateDialog, EnterCode, Create, CreateDialogStep,
              UserActs, Unasked, addressVars, AddressRests
<1>7. CASE \/ ServerCreates \/ CreateAnswerLost \/ CreateSucceeds \/ RefreshedAfterWrite
           \/ CreateFails
  BY <1>7 DEF ServerCreates, CreateAnswerLost, CreateSucceeds, RefreshedAfterWrite,
              CreateFails, CreateDialogStep, addressVars, AddressRests
<1> QED
  BY <1>1, <1>2, <1>3, <1>4, <1>5, <1>6, <1>7 DEF UnitsNext

LEMMA EffectsAtRest ==
  ASSUME UnitsInv, Effects
  PROVE  EffectsInv'
<1> SUFFICES ASSUME EffectsRan'
             PROVE  (debouncedKeyword = address.keyword /\ ~address.ext /\ ~address.bare)'
  BY DEF EffectsInv
<1>1. ranEffectsOn' = <<address, debouncedKeyword>> /\ debouncedKeyword' = debouncedKeyword
  BY DEF Effects, EffectInputs
<1>2. address' = address
  BY <1>1 DEF EffectsRan, EffectInputs
<1>3. DOMAIN address = {"node", "view", "keyword", "ext", "bare"}
  BY DEF UnitsInv, FiltersInv, AddressShape
<1>4. WriteAddress
  BY DEF Effects
<1>5. debouncedKeyword = address.keyword
  BY <1>2, <1>3, <1>4 DEF WriteAddress, Navigate
<1>6. ~address.ext
  BY <1>2, <1>3, <1>4, <1>5 DEF WriteAddress
<1>7. ~address.bare
  BY <1>2, <1>3, <1>4, <1>5, <1>6 DEF WriteAddress
<1> QED
  BY <1>1, <1>2, <1>5, <1>6, <1>7

LEMMA EffectsInvStep ==
  ASSUME UnitsInv, EffectsInv, [UnitsNext]_unitsVars
  PROVE  EffectsInv'
<1>1. CASE Effects
  BY <1>1, EffectsAtRest
<1>2. CASE Debounce
  <2>1. /\ ranEffectsOn = <<address, debouncedKeyword>> /\ debouncedKeyword' # debouncedKeyword
        /\ UNCHANGED <<address, ranEffectsOn>>
    BY <1>2 DEF Debounce, EffectsRan, EffectInputs
  <2> QED
    BY <2>1 DEF EffectsInv, EffectsRan, EffectInputs
<1>3. CASE UNCHANGED <<address, debouncedKeyword, ranEffectsOn>>
  BY <1>3 DEF EffectsInv, EffectsRan, EffectInputs
<1>4. CASE AddressPaidFor
  <2>1. EffectsRan' => address' = address
    BY <1>4 DEF AddressPaidFor, EffectsRan, EffectInputs
  <2> QED
    BY <1>4, <2>1 DEF AddressPaidFor, EffectsInv
<1> QED
  BY <1>1, <1>2, <1>3, <1>4, AddressActs DEF AddressRests, unitsVars

(* The way to rest of the organisation page.                               *)
LEMMA EffectsNearer ==
  ASSUME UnitsInv, EffectsInv, Effects
  PROVE  UnitsWay' < UnitsWay
<1>1. /\ ~EffectsRan /\ SyncKeyword /\ WriteAddress
      /\ ranEffectsOn' = <<address, debouncedKeyword>> /\ UNCHANGED debouncedKeyword
  BY DEF Effects, EffectInputs
<1>2. address \in [node : BOOLEAN, view : Views, keyword : Keywords,
                   ext : BOOLEAN, bare : BOOLEAN]
  BY DEF UnitsInv, FiltersInv, AddressShape
<1>3. EffectsRan' <=> address' = address
  BY <1>1 DEF EffectsRan, EffectInputs
<1>4. KeywordChanged' <=> address.keyword # address'.keyword
  BY <1>1 DEF KeywordChanged, FirstRender
<1>5. CASE debouncedKeyword # address.keyword
  <2>1. UnitsWay = Leftovers + 2
    BY <1>1, <1>5 DEF UnitsWay
  <2>2. address' = [address EXCEPT !.keyword = debouncedKeyword]
    BY <1>1, <1>5 DEF WriteAddress, Navigate
  <2>3. address'.keyword = debouncedKeyword /\ Leftovers' = Leftovers
    BY <1>2, <2>2 DEF Leftovers
  <2>4. ~EffectsRan' /\ KeywordChanged'
    BY <1>3, <1>4, <1>5, <2>3
  <2>5. UnitsWay' = Leftovers + 1
    BY <1>1, <2>3, <2>4 DEF UnitsWay, Leftovers
  <2>6. Leftovers \in Nat
    BY DEF Leftovers
  <2> QED
    BY <2>1, <2>5, <2>6
<1>6. CASE debouncedKeyword = address.keyword
  <2>1. UnitsWay = Leftovers + 1 + (IF KeywordChanged THEN 0 ELSE DebounceDue)
    BY <1>1, <1>6 DEF UnitsWay
  <2>2. address' = IF address.ext THEN [address EXCEPT !.ext = FALSE]
                   ELSE [address EXCEPT !.bare = FALSE]
    BY <1>1, <1>6 DEF WriteAddress
  <2>3. address'.keyword = debouncedKeyword /\ ~KeywordChanged'
    BY <1>2, <1>4, <1>6, <2>2
  <2>4. DebounceDue' = IF KeywordChanged THEN 0 ELSE DebounceDue
    BY <1>1, <1>6 DEF DebounceDue, SyncKeyword
  <2>5. DebounceDue' \in Nat /\ Leftovers \in Nat /\ Leftovers' \in Nat
    BY DEF DebounceDue, Leftovers
  <2>6. CASE EffectsRan'
    BY <2>1, <2>4, <2>5, <2>6 DEF UnitsWay
  <2>7. CASE ~EffectsRan'
    <3>1. UnitsWay' = Leftovers' + 1 + DebounceDue'
      BY <2>3, <2>7, <1>1 DEF UnitsWay
    <3>2. Leftovers' < Leftovers
      <4>1. CASE address.ext
        BY <1>2, <2>2, <4>1 DEF Leftovers
      <4>2. CASE ~address.ext
        <5>1. address' # address /\ address' = [address EXCEPT !.bare = FALSE]
          BY <1>3, <2>2, <2>7, <4>2
        <5>2. address.bare /\ ~address'.bare /\ address'.ext = address.ext
          BY <1>2, <5>1
        <5> QED
          BY <4>2, <5>2 DEF Leftovers
      <4> QED
        BY <4>1, <4>2
    <3>3. UnitsWay = Leftovers + 1 + DebounceDue'
      BY <2>1, <2>4
    <3>4. \A a, b, d \in Nat : a < b => a + 1 + d < b + 1 + d
      OBVIOUS
    <3> QED
      BY <2>5, <3>1, <3>2, <3>3, <3>4, Zenon
  <2> QED
    BY <2>6, <2>7
<1> QED
  BY <1>5, <1>6

LEMMA DebounceNearer ==
  ASSUME EffectsInv, Debounce
  PROVE  UnitsWay' < UnitsWay
<1>1. /\ EffectsRan /\ debouncedKeyword # keywordInput
      /\ debouncedKeyword' = keywordInput
      /\ UNCHANGED <<address, keywordInput, ranEffectsOn>>
  BY DEF Debounce
<1>2. UnitsWay = 3
  BY <1>1 DEF UnitsWay, DebounceDue
<1>3. ~EffectsRan' /\ debouncedKeyword' # address'.keyword /\ Leftovers' = 0
  BY <1>1 DEF EffectsInv, EffectsRan, EffectInputs, Leftovers
<1>4. UnitsWay' = 2
  BY <1>3 DEF UnitsWay
<1> QED
  BY <1>2, <1>4

LEMMA WayRests ==
  ASSUME UNCHANGED <<address, keywordInput, debouncedKeyword, ranEffectsOn>>
  PROVE  UnitsWay' = UnitsWay
  BY DEF UnitsWay, Leftovers, DebounceDue, EffectsRan, EffectInputs, KeywordChanged, FirstRender

LEMMA UnitsNearRest ==
  ASSUME UnitsInv, EffectsInv, unitsSpent \in Nat, [UnitsNext]_unitsVars
  PROVE  /\ unitsSpent' \in Nat
         /\ Effects \/ Debounce => UnitsWay' < UnitsWay
         /\ UnitsWay' > UnitsWay => \/ unitsSpent' > unitsSpent
                                    \/ \E call \in treeCalls : treeCalls' = treeCalls \ {call}
<1>1. UnitsWay \in Nat /\ UnitsWay' \in Nat
  BY DEF UnitsWay, Leftovers, DebounceDue
<1>2. Effects \/ Debounce => UnitsWay' < UnitsWay
  BY EffectsNearer, DebounceNearer
<1>3. CASE Effects \/ Debounce
  BY <1>1, <1>2, <1>3 DEF Effects, Debounce
<1>4. CASE AddressRests
  BY <1>1, <1>2, <1>4, WayRests DEF AddressRests
<1>5. CASE AddressPaidFor
  BY <1>2, <1>5 DEF AddressPaidFor
<1>6. CASE UNCHANGED unitsVars
  BY <1>1, <1>2, <1>6, WayRests DEF unitsVars
<1> QED
  BY <1>3, <1>4, <1>5, <1>6, AddressActs

(* The way to rest of the details page.                                    *)
LEMMA DetailEffectsNearer ==
  ASSUME DetailInv, DetailEffects
  PROVE  DetailWay' < DetailWay
<1>1. DOMAIN detailAddress = {"asOf", "requested", "tab", "uuid"}
  BY DEF DetailInv, PlaceInv, PlaceShape
<1>2. UNCHANGED queryVars
  BY DEF DetailEffects
<1>3. CASE LacksAudit
  <2>1. detailAddress' = [detailAddress EXCEPT !.uuid = Max(auditKnown)]
    BY <1>3 DEF DetailEffects, UpdateDetailSearch, ToFirstAudit
  <2>2. Max(auditKnown) \in auditKnown
    <3>1. auditKnown \subseteq 1..auditLog /\ auditLog \in Nat
      BY DEF DetailInv, KnownInv, RecordsInv
    <3>2. Days(auditKnown) /\ auditKnown # {}
      BY <1>3, <3>1 DEF LacksAudit, Days, NoDay
    <3> QED
      BY <3>2, GreatestDay
  <2>3. ~LacksAudit' /\ (LeavesAsOf' <=> LeavesAsOf)
    BY <1>1, <1>2, <2>1, <2>2 DEF LacksAudit, LeavesAsOf, queryVars
  <2> QED
    BY <1>3, <2>3 DEF DetailWay
<1>4. CASE ~LacksAudit
  <2>1. LeavesAsOf
    BY <1>4 DEF DetailEffects, DetailEffectsRan
  <2>2. detailAddress' = [detailAddress EXCEPT !.asOf = NoDay, !.requested = EffectiveDate,
                                               !.tab = "profile"]
    BY <1>4 DEF DetailEffects, UpdateDetailSearch, ToEffectiveDate
  <2>3. detailAddress'.asOf = NoDay /\ detailAddress'.tab = "profile"
    BY <1>1, <2>2
  <2>4. ~LeavesAsOf' /\ ~LacksAudit'
    BY <2>3 DEF LeavesAsOf, LacksAudit
  <2> QED
    BY <1>4, <2>1, <2>4 DEF DetailWay
<1> QED
  BY <1>3, <1>4

LEMMA DetailSpends ==
  ASSUME DetailNext
  PROVE  detailSpent' \in {detailSpent, detailSpent + 1}
  BY DEF DetailNext, DetailEffects, Query, Browse, Open, Close, Edit, Confirm,
         WriteApplied, WriteFails, WriteSucceeds, OtherAdminWrites, OtherAdminEnablesField,
         Acts

FirstAnswer == \/ versionsKnown = {} /\ versionsKnown' # {}
               \/ auditKnown = {} /\ auditKnown' # {}

LEMMA QueryAway ==
  ASSUME DetailInv, Query
  PROVE  DetailWay' = DetailWay \/ FirstAnswer
<1>1. UNCHANGED <<detailAddress, auditLog>> /\ ~LacksAudit
  BY DEF Query, placeVars, serverSide, DetailEffectsRan
<1>2. CASE LoadVersions
  <2>1. (LacksAudit' <=> LacksAudit)
    BY <1>1, <1>2 DEF LoadVersions, LacksAudit
  <2>2. versionsKnown' # {}
    BY <1>2 DEF LoadVersions, DetailInv, RecordsInv
  <2>3. versionsKnown # {} => (LeavesAsOf' <=> LeavesAsOf)
    BY <1>1, <2>2 DEF LeavesAsOf
  <2> QED
    BY <2>1, <2>2, <2>3 DEF DetailWay, FirstAnswer
<1>3. CASE LoadDetails
  BY <1>1, <1>3 DEF LoadDetails, DetailWay, LacksAudit, LeavesAsOf
<1>4. CASE LoadAudit
  <2>1. (LeavesAsOf' <=> LeavesAsOf)
    BY <1>1, <1>4 DEF LoadAudit, LeavesAsOf
  <2>2. CASE auditKnown = {} /\ auditKnown' # {}
    BY <2>2 DEF FirstAnswer
  <2>3. CASE auditKnown = {} /\ auditKnown' = {}
    BY <1>1, <2>1, <2>3 DEF DetailWay, LacksAudit
  <2>4. CASE auditKnown # {}
    <3>1. auditKnown \subseteq auditKnown'
      BY <1>4 DEF LoadAudit, DetailInv, KnownInv
    <3>2. ~LacksAudit'
      BY <1>1, <2>4, <3>1 DEF LacksAudit
    <3> QED
      BY <1>1, <2>1, <3>2 DEF DetailWay
  <2> QED
    BY <2>2, <2>3, <2>4
<1> QED
  BY <1>2, <1>3, <1>4 DEF Query

LEMMA DetailNearRest ==
  ASSUME DetailInv, [DetailNext]_detailVars
  PROVE  /\ DetailEffects => DetailWay' < DetailWay
         /\ DetailWay' > DetailWay => detailSpent' = detailSpent + 1 \/ FirstAnswer
<1>1. DetailEffects => DetailWay' < DetailWay
  BY DetailEffectsNearer
<1>2. DetailWay \in Nat /\ DetailWay' \in Nat
  BY DEF DetailWay
<1>3. CASE DetailEffects
  BY <1>1, <1>2, <1>3
<1>4. CASE Query
  BY <1>1, <1>2, <1>4, QueryAway
<1>5. CASE Browse
  BY <1>1, <1>5 DEF Browse, Acts
<1>6. CASE UNCHANGED placeVars /\ UNCHANGED queryVars
  <2>1. DetailWay' = DetailWay
    BY <1>6 DEF placeVars, queryVars, DetailWay, LeavesAsOf, LacksAudit
  <2> QED
    BY <1>1, <1>2, <2>1
<1>7. CASE \/ Open \/ Close \/ Edit \/ Confirm
           \/ WriteApplied \/ WriteFails \/ WriteSucceeds
           \/ OtherAdminWrites \/ OtherAdminEnablesField
  <2>1. UNCHANGED placeVars /\ UNCHANGED queryVars
    BY <1>7 DEF Open, Close, Edit, Confirm, WriteApplied, WriteFails, WriteSucceeds,
                OtherAdminWrites, OtherAdminEnablesField
  <2> QED
    BY <1>6, <2>1
<1>8. CASE UNCHANGED detailVars
  BY <1>6, <1>8 DEF detailVars, placeVars, queryVars
<1> QED
  BY <1>3, <1>4, <1>5, <1>7, <1>8 DEF DetailNext

LEMMA RestStep ==
  ASSUME RestInv, [WebNext]_webVars
  PROVE  /\ RestInv'
         /\ [UnitsNext]_unitsVars /\ [DetailNext]_detailVars
<1>1. [UnitsNext]_unitsVars /\ [DetailNext]_detailVars
  BY DEF WebNext, webVars, UnitsPage, DetailsPage, ConfigsPage, DictsPage, RolesPage,
         AssignmentsPage, Picker, OthersRest
<1>2. UnitsInv' /\ DetailInv'
  BY UnitsStep, DetailStep DEF RestInv
<1>3. EffectsInv' /\ unitsSpent' \in Nat
  BY <1>1, EffectsInvStep, UnitsNearRest DEF RestInv
<1>4. detailSpent' \in Nat
  BY <1>1, DetailSpends DEF RestInv, detailVars
<1> QED
  BY <1>1, <1>2, <1>3, <1>4 DEF RestInv

(* The effects do not chase each other: each run of one, and of the        *)
(* debounce, is one of those that are left, and when none is left the      *)
(* address is at rest; only what the user did, a call he started or the    *)
(* first answer of a query ever adds to them.                              *)
THEOREM AddressesAlwaysNearRest == WebSpec => AddressesNearRest
<1>1. WebInit => RestInv
  <2> SUFFICES ASSUME WebInit PROVE RestInv
    OBVIOUS
  <2>1. ranEffectsOn = <<>> /\ unitsSpent = 0 /\ detailSpent = 0
    BY DEF WebInit, UnitsInit, DetailInit
  <2>2. EffectsInv
    BY <2>1 DEF EffectsInv, EffectsRan, EffectInputs
  <2> QED
    BY <2>1, <2>2, UnitsBegin, DetailBegins DEF RestInv
<1>2. RestInv /\ [WebNext]_webVars => RestInv'
  BY RestStep
<1>3. RestInv /\ [WebNext]_webVars =>
        [/\ UnitsPage /\ (Effects \/ Debounce) => UnitsWay' < UnitsWay
         /\ UnitsWay' = 0 => UnitsAddressAtRest'
         /\ UnitsWay' > UnitsWay =>
              \/ unitsSpent' > unitsSpent
              \/ \E call \in treeCalls : treeCalls' = treeCalls \ {call}
         /\ DetailsPage /\ DetailEffects => DetailWay' < DetailWay
         /\ DetailWay' > DetailWay =>
              \/ detailSpent' > detailSpent
              \/ versionsKnown = {} /\ versionsKnown' # {}
              \/ auditKnown = {} /\ auditKnown' # {}]_webVars
  <2> SUFFICES ASSUME RestInv, [WebNext]_webVars
               PROVE  /\ Effects \/ Debounce => UnitsWay' < UnitsWay
                      /\ UnitsWay' = 0 => UnitsAddressAtRest'
                      /\ UnitsWay' > UnitsWay =>
                           \/ unitsSpent' > unitsSpent
                           \/ \E call \in treeCalls : treeCalls' = treeCalls \ {call}
                      /\ DetailEffects => DetailWay' < DetailWay
                      /\ DetailWay' > DetailWay =>
                           detailSpent' > detailSpent \/ FirstAnswer
    BY DEF FirstAnswer
  <2>1. RestInv' /\ [UnitsNext]_unitsVars /\ [DetailNext]_detailVars
    BY RestStep
  <2>2. /\ Effects \/ Debounce => UnitsWay' < UnitsWay
        /\ UnitsWay' > UnitsWay =>
             \/ unitsSpent' > unitsSpent
             \/ \E call \in treeCalls : treeCalls' = treeCalls \ {call}
    BY <2>1, UnitsNearRest DEF RestInv
  <2>3. UnitsWay' = 0 => UnitsAddressAtRest'
    <3>1. UnitsWay' = 0 => EffectsRan' /\ keywordInput' = debouncedKeyword'
      BY DEF UnitsWay, Leftovers, DebounceDue
    <3> QED
      BY <2>1, <3>1 DEF RestInv, EffectsInv, UnitsAddressAtRest
  <2>4. /\ DetailEffects => DetailWay' < DetailWay
        /\ DetailWay' > DetailWay => detailSpent' > detailSpent \/ FirstAnswer
    <3>1. detailSpent \in Nat
      BY DEF RestInv
    <3> QED
      BY <2>1, <3>1, DetailNearRest DEF RestInv
  <2> QED
    BY <2>2, <2>3, <2>4
<1> QED
  BY <1>1, <1>2, <1>3, PTL DEF WebSpec, AddressesNearRest

(***************************************************************************)
(* The picker.  As long as nobody changes the tree, what is loaded of it   *)
(* is the tree's, and a search that lacks nothing ends with the list its   *)
(* target is in, or has still to load it: the parents of a path are loaded *)
(* in its order.                                                           *)
(***************************************************************************)
SearchShape(call) ==
  /\ DOMAIN call = {"at", "target", "stage", "parents", "had", "known", "list",
                    "siblings", "lacks"}
  /\ call.stage \in {"search", "path"}
  /\ call.parents \in Seq(PickerUnits)
  /\ call.stage = "search" => call.parents = <<>>
  /\ call.list \subseteq call.known
  /\ call.stage = "path" => call.target \in call.siblings

SeesTree(call) ==
  /\ \A p \in DOMAIN call.had : call.had[p] = ChildrenOf(p)
  /\ call.stage = "search" => call.list = RootUnits
  /\ call.stage = "path" /\ call.parents = <<>> => call.siblings = call.list
  /\ call.stage = "path" /\ call.parents # <<>> =>
       call.siblings = ChildrenOf(Last(call.parents))

SearchOK(call) == SearchShape(call) /\ (treeChanged \/ call.lacks \/ SeesTree(call))

IsLoaded(list, loaded) ==
  /\ list \in {{}, RootUnits}
  /\ \A p \in DOMAIN loaded : loaded[p] = ChildrenOf(p)

PickerInv ==
  /\ tree \in PickerTrees
  /\ roots \subseteq PickerUnits
  /\ treeChanged \/ IsLoaded(roots, childrenByParent)
  /\ \A call \in searches : SearchOK(call)
  /\ highlighted = draft \/ missed

(* A step that leaves the tree alone.                                      *)
LEMMA PickerGoesOn ==
  ASSUME PickerInv, UNCHANGED serverTree, roots' \subseteq PickerUnits,
         treeChanged \/ IsLoaded(roots', childrenByParent'),
         \A call \in searches' : SearchOK(call),
         highlighted' = draft' \/ missed'
  PROVE  PickerInv'
<1>1. tree' = tree /\ treeChanged' = treeChanged
  BY DEF serverTree
<1>2. RootUnits' = RootUnits /\ \A p : ChildrenOf(p)' = ChildrenOf(p)
  BY <1>1 DEF RootUnits, ChildrenOf, ParentsOf
<1>3. (treeChanged \/ IsLoaded(roots, childrenByParent))'
  BY <1>1, <1>2 DEF IsLoaded
<1>4. \A call \in searches' : SearchOK(call)'
  BY <1>1, <1>2 DEF SearchOK, SearchShape, SeesTree
<1> QED
  BY <1>1, <1>3, <1>4 DEF PickerInv

LEMMA PathOfParent ==
  ASSUME PickerInv, NEW u \in DOMAIN tree
  PROVE  /\ ParentsOf(u) \in Seq(PickerUnits)
         /\ u \in Siblings(u)
         /\ ParentsOf(u) # <<>> => Siblings(u) = ChildrenOf(Last(ParentsOf(u)))
         /\ ParentsOf(u) = <<>> => Siblings(u) = RootUnits
<1>1. tree[u] \in Seq(DOMAIN tree) /\ tree[u] # <<>> /\ tree \in PickerTrees
  BY PathAssumption DEF PickerInv
<1>2. ParentsOf(u) \in Seq(DOMAIN tree)
  BY <1>1 DEF ParentsOf, Front
<1>3. DOMAIN tree \subseteq PickerUnits
  BY <1>1 DEF PickerUnits
<1>4. ParentsOf(u) \in Seq(PickerUnits)
  BY <1>2, <1>3
<1>5. ParentsOf(u) # <<>> => /\ Last(ParentsOf(u)) \in DOMAIN tree
                             /\ tree[Last(ParentsOf(u))] = ParentsOf(u)
  <2>1. ParentsOf(u) # <<>> => tree[Last(ParentsOf(u))] = ParentsOf(u)
    BY <1>1, PathAssumption DEF ParentsOf
  <2>2. ParentsOf(u) # <<>> => Last(ParentsOf(u)) \in DOMAIN tree
    BY <1>2 DEF Last
  <2> QED
    BY <2>1, <2>2
<1> QED
  BY <1>4, <1>5 DEF Siblings, ChildrenOf, RootUnits

LEMMA SearchBegins ==
  ASSUME PickerInv, NEW u
  PROVE  SearchOK(SearchCall(u))
<1> DEFINE call == SearchCall(u)
<1>1. /\ DOMAIN call = {"at", "target", "stage", "parents", "had", "known", "list",
                        "siblings", "lacks"}
      /\ call.target = u /\ call.parents = <<>> /\ call.stage = "search"
      /\ call.had = childrenByParent /\ call.known = NodesByCode
      /\ call.list = roots /\ call.lacks = (roots = {})
  BY DEF SearchCall
<1> HIDE DEF call
<1>2. roots \subseteq NodesByCode
  BY DEF NodesByCode, Reaches, PickerInv
<1>3. SearchShape(call)
  BY <1>1, <1>2 DEF SearchShape
<1>4. treeChanged \/ call.lacks \/ SeesTree(call)
  BY <1>1 DEF PickerInv, IsLoaded, SeesTree
<1> QED
  BY <1>3, <1>4 DEF SearchOK, call

LEMMA SearchFoundOK ==
  ASSUME PickerInv, SearchFound
  PROVE  PickerInv'
<1>1. PICK call \in searches :
        /\ call.stage = "search"
        /\ \E found \in {{told} : told \in Found(call)} \cup {{}} :
             searches' = (searches \ {call}) \cup found
  BY DEF SearchFound
<1>2. /\ UNCHANGED <<choice, serverTree>> /\ UNCHANGED <<roots, childrenByParent>>
  BY DEF SearchFound
<1>3. SearchOK(call)
  BY DEF PickerInv
<1>4. ASSUME NEW told \in Found(call)
      PROVE  SearchOK(told)
  <2> DEFINE u == call.target
  <2>1. u \in DOMAIN tree
    BY <1>4 DEF Found
  <2>2. /\ ParentsOf(u) \in Seq(PickerUnits)
        /\ u \in Siblings(u)
        /\ ParentsOf(u) # <<>> => Siblings(u) = ChildrenOf(Last(ParentsOf(u)))
        /\ ParentsOf(u) = <<>> => Siblings(u) = RootUnits
    BY <2>1, PathOfParent
  <2>3. /\ DOMAIN told = DOMAIN call /\ told.stage = "path" /\ told.target = u
        /\ told.siblings = Siblings(u) /\ told.had = call.had
        /\ told.known = call.known /\ told.list = call.list
        /\ \/ told.parents = ParentsOf(u) /\ told.lacks = call.lacks
           \/ told.parents = <<>> /\ told.lacks = TRUE
    <3> DEFINE here == [call EXCEPT !.stage = "path", !.siblings = Siblings(u)]
    <3>1. \/ told = [here EXCEPT !.parents = ParentsOf(u)]
          \/ told = [here EXCEPT !.lacks = TRUE]
      BY <1>4, <2>1 DEF Found
    <3>2. DOMAIN call = {"at", "target", "stage", "parents", "had", "known", "list",
                         "siblings", "lacks"}
      BY <1>3 DEF SearchOK, SearchShape
    <3>3. call.parents = <<>>
      BY <1>1, <1>3 DEF SearchOK, SearchShape
    <3>4. /\ DOMAIN here = DOMAIN call /\ here.stage = "path" /\ here.target = u
          /\ here.siblings = Siblings(u) /\ here.had = call.had /\ here.lacks = call.lacks
          /\ here.known = call.known /\ here.list = call.list /\ here.parents = <<>>
      BY <3>2, <3>3
    <3> HIDE DEF here, u
    <3>5. CASE told = [here EXCEPT !.parents = ParentsOf(u)]
      BY <3>2, <3>4, <3>5
    <3>6. CASE told = [here EXCEPT !.lacks = TRUE]
      BY <3>2, <3>4, <3>6
    <3> QED
      BY <3>1, <3>5, <3>6
  <2> HIDE DEF u
  <2>4. SearchShape(told)
    <3>1. told.parents \in Seq(PickerUnits)
      <4>1. <<>> \in Seq(PickerUnits)
        OBVIOUS
      <4>2. told.parents \in {ParentsOf(u), <<>>}
        BY <2>3
      <4> QED
        BY <2>2, <4>1, <4>2, Zenon
    <3>2. SearchShape(call)
      BY <1>3 DEF SearchOK
    <3> QED
      BY <2>2, <2>3, <3>1, <3>2 DEF SearchShape
  <2>5. SeesTree(call) /\ told.parents = ParentsOf(u) => SeesTree(told)
    BY <1>1, <2>2, <2>3 DEF SeesTree
  <2> QED
    BY <1>3, <2>3, <2>4, <2>5 DEF SearchOK
<1>5. \A c \in searches' : SearchOK(c)
  BY <1>1, <1>4 DEF PickerInv
<1> QED
  BY <1>2, <1>5, PickerGoesOn DEF PickerInv, choice

LEMMA LastOfTail ==
  ASSUME NEW S, NEW s \in Seq(S), s # <<>>
  PROVE  /\ Tail(s) \in Seq(S)
         /\ \/ Tail(s) = <<>> /\ Last(s) = Head(s)
            \/ Tail(s) # <<>> /\ Last(Tail(s)) = Last(s)
<1>1. Len(s) \in Nat \ {0} /\ Head(s) = s[1]
  OBVIOUS
<1>2. /\ Tail(s) \in Seq(S) /\ Len(Tail(s)) = Len(s) - 1
      /\ \A i \in 1..(Len(s) - 1) : Tail(s)[i] = s[i + 1]
  OBVIOUS
<1>3. \A t \in Seq(S) : (Len(t) = 0) <=> (t = <<>>)
  OBVIOUS
<1>4. CASE Len(s) = 1
  <2>1. Tail(s) = <<>>
    <3> DEFINE t == Tail(s)
    <3>1. t \in Seq(S) /\ Len(t) = 0
      BY <1>2, <1>4
    <3> HIDE DEF t
    <3>2. t = <<>>
      BY <1>3, <3>1
    <3> QED
      BY <3>2 DEF t
  <2> QED
    BY <1>1, <1>4, <2>1 DEF Last
<1>5. CASE Len(s) # 1
  <2>1. Len(s) - 1 \in 1..(Len(s) - 1) /\ Len(s) - 1 + 1 = Len(s)
    <3> DEFINE n == Len(s)
    <3>1. n \in Nat \ {0, 1}
      BY <1>1, <1>5
    <3> HIDE DEF n
    <3>2. n - 1 \in 1..(n - 1) /\ n - 1 + 1 = n
      BY <3>1
    <3> QED
      BY <3>2 DEF n
  <2>2. Tail(s)[Len(s) - 1] = s[Len(s)]
    BY <1>2, <2>1
  <2>3. Tail(s) # <<>>
    <3> DEFINE t == Tail(s)
    <3>1. t \in Seq(S) /\ Len(t) # 0
      BY <1>1, <1>2, <1>5
    <3> HIDE DEF t
    <3>2. t # <<>>
      BY <1>3, <3>1
    <3> QED
      BY <3>2 DEF t
  <2> QED
    BY <1>2, <2>2, <2>3 DEF Last
<1> QED
  BY <1>2, <1>4, <1>5

(* What a parent is given by a search is what its children are, or the     *)
(* search lacks it.                                                        *)
LEMMA ParentLoaded ==
  ASSUME NEW call, SearchOK(call), call.stage = "path", call.parents # <<>>,
         NEW below, NEW next,
         \/ next = AfterParent(call, below) /\ below = ChildrenOf(Head(call.parents))
         \/ next = AfterParent(call, below) /\ treeChanged
         \/ next = AfterParent(call, below) /\ call.lacks
         \/ next = [AfterParent(call, below) EXCEPT !.lacks = TRUE]
  PROVE  SearchOK(next)
<1> DEFINE p == Head(call.parents)
<1>1. SearchShape(call)
  BY DEF SearchOK
<1>2. /\ Tail(call.parents) \in Seq(PickerUnits)
      /\ \/ Tail(call.parents) = <<>> /\ Last(call.parents) = p
         \/ Tail(call.parents) # <<>> /\ Last(Tail(call.parents)) = Last(call.parents)
  BY <1>1, LastOfTail DEF SearchShape
<1>3. /\ DOMAIN next = DOMAIN call /\ next.stage = "path" /\ next.target = call.target
      /\ next.parents = Tail(call.parents) /\ next.had = call.had
      /\ next.known = call.known \cup below /\ next.list = below
      /\ next.siblings = call.siblings
      /\ \/ next.lacks = TRUE
         \/ next.lacks = call.lacks /\ (below = ChildrenOf(p) \/ treeChanged \/ call.lacks)
  BY <1>1 DEF AfterParent, LoadedNodes, SearchShape
<1> HIDE DEF p
<1>4. SearchShape(next)
  BY <1>1, <1>2, <1>3 DEF SearchShape
<1>5. SeesTree(call) /\ below = ChildrenOf(p) => SeesTree(next)
  BY <1>2, <1>3 DEF SeesTree
<1> QED
  BY <1>3, <1>4, <1>5 DEF SearchOK

LEMMA LoadedStays ==
  ASSUME PickerInv, NEW p, childrenByParent' = WithChildren(p, ChildrenOf(p)), roots' = roots
  PROVE  treeChanged \/ IsLoaded(roots', childrenByParent')
<1>1. /\ DOMAIN childrenByParent' = DOMAIN childrenByParent \cup {p}
      /\ childrenByParent'[p] = ChildrenOf(p)
      /\ \A q \in DOMAIN childrenByParent \ {p} : childrenByParent'[q] = childrenByParent[q]
  BY DEF WithChildren
<1> QED
  BY <1>1 DEF PickerInv, IsLoaded

LEMMA EnsurePathLoadedOK ==
  ASSUME PickerInv, EnsurePathLoaded
  PROVE  PickerInv'
<1>1. PICK call \in searches :
        /\ call.stage = "path" /\ call.parents # <<>>
        /\ \E next :
             /\ searches' = (searches \ {call}) \cup {next}
             /\ LET p == Head(call.parents)
                IN \/ /\ p \in DOMAIN call.had
                      /\ next = AfterParent(call, call.had[p])
                      /\ UNCHANGED childrenByParent
                   \/ /\ next = AfterParent(call, ChildrenOf(p))
                      /\ childrenByParent' = WithChildren(p, ChildrenOf(p))
                   \/ /\ next = [AfterParent(call, {}) EXCEPT !.lacks = TRUE]
                      /\ UNCHANGED childrenByParent
  BY DEF EnsurePathLoaded
<1>2. PICK next :
        /\ searches' = (searches \ {call}) \cup {next}
        /\ LET p == Head(call.parents)
           IN \/ /\ p \in DOMAIN call.had
                 /\ next = AfterParent(call, call.had[p])
                 /\ UNCHANGED childrenByParent
              \/ /\ next = AfterParent(call, ChildrenOf(p))
                 /\ childrenByParent' = WithChildren(p, ChildrenOf(p))
              \/ /\ next = [AfterParent(call, {}) EXCEPT !.lacks = TRUE]
                 /\ UNCHANGED childrenByParent
  BY <1>1
<1>3. UNCHANGED <<choice, serverTree>> /\ roots' = roots
  BY DEF EnsurePathLoaded
<1> DEFINE p == Head(call.parents)
<1>4. SearchOK(call)
  BY DEF PickerInv
<1>5. SearchOK(next)
  <2>1. CASE p \in DOMAIN call.had /\ next = AfterParent(call, call.had[p])
    <3>1. call.had[p] = ChildrenOf(p) \/ treeChanged \/ call.lacks
      BY <1>4, <2>1 DEF SearchOK, SeesTree
    <3> HIDE DEF p
    <3> QED
      BY <1>1, <1>2, <1>4, <2>1, <3>1, ParentLoaded DEF p
  <2>2. CASE next = AfterParent(call, ChildrenOf(p))
    BY <1>1, <1>4, <2>2, ParentLoaded
  <2>3. CASE next = [AfterParent(call, {}) EXCEPT !.lacks = TRUE]
    BY <1>1, <1>4, <2>3, ParentLoaded
  <2> QED
    BY <1>2, <2>1, <2>2, <2>3
<1>6. treeChanged \/ IsLoaded(roots', childrenByParent')
  <2>1. CASE UNCHANGED childrenByParent
    BY <1>3, <2>1 DEF PickerInv
  <2>2. CASE childrenByParent' = WithChildren(p, ChildrenOf(p))
    BY <1>3, <2>2, LoadedStays
  <2> QED
    BY <1>2, <2>1, <2>2
<1>7. \A c \in searches' : SearchOK(c)
  BY <1>2, <1>5 DEF PickerInv
<1> QED
  BY <1>3, <1>6, <1>7, PickerGoesOn DEF PickerInv, choice

LEMMA SearchEndsOK ==
  ASSUME PickerInv, SearchEnds
  PROVE  PickerInv'
<1>1. PICK call \in searches :
        /\ call.stage = "path" /\ call.parents = <<>>
        /\ searches' = searches \ {call}
        /\ highlighted' = call.target
        /\ draft' = IF call.target \in call.known THEN call.target ELSE draft
        /\ missed' = (call.list # call.siblings /\ (call.lacks \/ treeChanged))
  BY DEF SearchEnds
<1>2. UNCHANGED serverTree /\ UNCHANGED <<roots, childrenByParent>>
  BY DEF SearchEnds
<1>3. SearchOK(call)
  BY DEF PickerInv
<1>4. call.list = call.siblings => call.target \in call.known
  BY <1>1, <1>3 DEF SearchOK, SearchShape
<1>5. call.list = call.siblings \/ call.lacks \/ treeChanged
  BY <1>1, <1>3 DEF SearchOK, SeesTree
<1>6. highlighted' = draft' \/ missed'
  BY <1>1, <1>4, <1>5
<1> QED
  BY <1>1, <1>2, <1>6, PickerGoesOn DEF PickerInv

LEMMA PickerStep ==
  ASSUME PickerInv, [WebNext]_webVars
  PROVE  PickerInv'
<1>1. UNCHANGED pickerVars \/ PickerNext
  BY DEF WebNext, webVars, UnitsPage, DetailsPage, ConfigsPage, DictsPage, RolesPage,
         AssignmentsPage, Picker, OthersRest
<1>2. ASSUME UNCHANGED choice, UNCHANGED serverTree, UNCHANGED <<roots, childrenByParent>>,
             searches' \subseteq searches
      PROVE  PickerInv'
  BY <1>2, PickerGoesOn DEF PickerInv, choice
<1>3. CASE UNCHANGED pickerVars
  BY <1>2, <1>3 DEF pickerVars, treeState
<1>4. CASE OpenPicker
  <2>1. treeChanged' = FALSE /\ searches' = {} /\ roots' = {} /\ childrenByParent' = <<>>
        /\ tree' = tree /\ highlighted' = draft'
    BY <1>4 DEF OpenPicker
  <2> QED
    BY <2>1 DEF PickerInv, IsLoaded
<1>5. CASE ClosePicker \/ ConfirmPick
  BY <1>2, <1>5 DEF ClosePicker, ConfirmPick, Closed
<1>6. CASE ClearPick \/ ExpandPickerNode
  BY <1>2, <1>6 DEF ClearPick, ExpandPickerNode, treeState
<1>7. CASE PickNode
  <2>1. UNCHANGED serverTree /\ UNCHANGED <<roots, childrenByParent, searches>>
        /\ highlighted' = draft'
    BY <1>7 DEF PickNode, treeState
  <2> QED
    BY <2>1, PickerGoesOn DEF PickerInv
<1>8. CASE Search
  <2>1. PICK u : searches' = searches \cup {SearchCall(u)}
    BY <1>8 DEF Search
  <2>2. \A c \in searches' : SearchOK(c)
    BY <2>1, SearchBegins DEF PickerInv
  <2> QED
    BY <1>8, <2>2, PickerGoesOn DEF Search, choice, PickerInv
<1>9. CASE RootsAnswered
  <2>1. /\ UNCHANGED <<choice, serverTree>> /\ UNCHANGED <<searches, childrenByParent>>
        /\ roots' \in {RootUnits, {}}
    BY <1>9 DEF RootsAnswered
  <2>2. RootUnits \subseteq PickerUnits
    BY DEF RootUnits, PickerUnits, PickerInv
  <2> QED
    BY <2>1, <2>2, PickerGoesOn DEF choice, PickerInv, IsLoaded
<1>10. CASE ChildrenLoaded
  <2>1. PICK p : \/ UNCHANGED childrenByParent
                 \/ childrenByParent' = WithChildren(p, ChildrenOf(p))
    BY <1>10 DEF ChildrenLoaded
  <2>2. UNCHANGED <<choice, serverTree>> /\ UNCHANGED <<roots, searches>>
    BY <1>10 DEF ChildrenLoaded
  <2>3. treeChanged \/ IsLoaded(roots', childrenByParent')
    BY <2>1, <2>2, LoadedStays DEF PickerInv
  <2> QED
    BY <2>2, <2>3, PickerGoesOn DEF choice, PickerInv
<1>11. CASE TreeChanges
  <2>1. /\ tree' \in PickerTrees /\ treeChanged' = TRUE /\ UNCHANGED <<choice, treeState>>
    BY <1>11 DEF TreeChanges
  <2>2. UNCHANGED <<draft, highlighted, missed, roots, searches>>
    BY <2>1 DEF choice, treeState
  <2> QED
    BY <2>1, <2>2 DEF PickerInv, SearchOK, SearchShape
<1> QED
  BY <1>1, <1>3, <1>4, <1>5, <1>6, <1>7, <1>8, <1>9, <1>10, <1>11, SearchFoundOK,
     EnsurePathLoadedOK, SearchEndsOK DEF PickerNext

(* However searches and loads overlap, and whoever changes the tree, the   *)
(* unit that is highlighted is the one that confirm picks, unless the last *)
(* search did not have the list the unit is in as the server had it.       *)
THEOREM HighlightAlwaysDraft == WebSpec => []HighlightIsDraft
<1>1. WebInit => PickerInv
  BY PathAssumption DEF WebInit, PickerInit, PickerInv, IsLoaded
<1>2. PickerInv /\ [WebNext]_webVars => PickerInv'
  BY PickerStep
<1>3. PickerInv => HighlightIsDraft
  BY DEF PickerInv, HighlightIsDraft
<1> QED
  BY <1>1, <1>2, <1>3, PTL DEF WebSpec

(***************************************************************************)
(* The field configuration page.  What the page shows are rows the server  *)
(* has had, what it sends are events the server understands.               *)
(***************************************************************************)
FormModes == {"builtin", "dict", "custom"}
EnableForms == [mode : FormModes, key : ConfigKeys \cup {NoKey}, valueType : ValueTypes,
                label : {NoLabel, OwnLabel}, enabledOn : ConfigDays]
Selections == [mode : {"disable", "postpone"}, key : ConfigKeys, row : Configs]

Rows(list) == \A f \in DOMAIN list : f \in ConfigKeys /\ list[f] \in Configs

PageShape ==
  /\ configSpent \in Nat
  /\ openedOn \in ConfigDays /\ listView.asOf \in ConfigDays
  /\ \A d \in DOMAIN fetched : Rows(fetched[d])

FormsInv ==
  /\ enableForm \in EnableForms
  /\ disabledOn \in ConfigDays
  /\ selectedConfig \subseteq Selections
  /\ \A s \in selectedConfig : s.mode = "disable" => s.row.disabledOn = NotDisabled
  /\ \A s, t \in selectedConfig : s = t
  /\ enableOpen => selectedConfig = {}

LEMMA RowsKnown ==
  ASSUME PageShape
  PROVE  Rows(FieldConfigsKnown)
BY DEF PageShape, Rows, FieldConfigsKnown, NoEntries

LEMMA LaterDay ==
  ASSUME NEW a \in Nat, NEW b \in ConfigDays
  PROVE  Later(a, b) \in ConfigDays /\ Later(b, a) \in ConfigDays
BY DEF Later, ConfigDays

LEMMA LastDays == 1..LastConfigDate \subseteq ConfigDays
BY ConfigDayAssumption DEF ConfigDays

LEMMA EmptyFormShape ==
  ASSUME PageShape
  PROVE  EmptyEnableForm \in EnableForms
<1>1. Later(openedOn, listView.asOf) \in ConfigDays
  BY LaterDay DEF PageShape, ConfigDays
<1> QED
  BY <1>1, DefinitionAssumption DEF EmptyEnableForm, EnableForms, FormModes

LEMMA ReadAgain ==
  ASSUME PageShape, ConfigsInv, Refetched
  PROVE  \A d \in DOMAIN fetched' : Rows(fetched'[d])
<1>1. Rows(configs)
  BY DEF ConfigsInv, ConfigsTypeOK, Rows
<1>2. \A d \in DOMAIN fetched' :
        fetched'[d] = configs \/ (d \in DOMAIN fetched /\ fetched'[d] = fetched[d])
  BY DEF Refetched, Extended
<1> QED
  BY <1>1, <1>2 DEF PageShape

LEMMA PageShapeStep ==
  ASSUME PageShape, ConfigsInv, ConfigPageNext \/ UNCHANGED configPageVars
  PROVE  PageShape'
<1>1. ASSUME UNCHANGED <<listView, fetched, openedOn>>, configSpent' \in {configSpent, configSpent + 1}
      PROVE  PageShape'
  BY <1>1 DEF PageShape, Rows
<1>2. ASSUME UNCHANGED openedOn, Refetched, UNCHANGED listView,
             configSpent' \in {configSpent, configSpent + 1}
      PROVE  PageShape'
  BY <1>2, ReadAgain DEF PageShape, Rows
<1>3. CASE ApplyFilter
  <2>1. listView'.asOf \in ConfigDays
    BY <1>3, ConfigDayAssumption, LastDays DEF ApplyFilter, UpdateConfigSearch
  <2> QED
    BY <1>3, <2>1 DEF ApplyFilter, ConfigActs, PageShape, Rows
<1>4. CASE ConfigsFetched \/ WindowFocused
  BY <1>2, <1>4 DEF ConfigsFetched, WindowFocused, ConfigActs
<1>5. CASE EnableRefreshed \/ DisableRefreshed
  BY <1>1, <1>2, <1>5 DEF EnableRefreshed, DisableRefreshed
<1>6. CASE \/ OpenEnableDialog \/ CloseEnableDialog \/ EditEnableForm \/ SubmitEnable
           \/ OpenDisableDialog \/ CloseDisableDialog \/ EditDisabledOn \/ SubmitDisable
           \/ OtherAdminEnables \/ OtherAdminDisables \/ Midnight
  BY <1>1, <1>6 DEF OpenEnableDialog, CloseEnableDialog, EditEnableForm, SubmitEnable,
     OpenDisableDialog, CloseDisableDialog, EditDisabledOn, SubmitDisable,
     OtherAdminEnables, OtherAdminDisables, Midnight, ConfigActs
<1>7. CASE \/ SelectMode \/ DisableBegins \/ DisableCancelled \/ ServeConfigCall
           \/ ConfigAnswered \/ ConfigCallLost \/ UNCHANGED configPageVars
  BY <1>1, <1>7 DEF SelectMode, DisableBegins, DisableCancelled, ServeConfigCall,
     ConfigAnswered, ConfigCallLost, configPageVars
<1> QED
  BY <1>3, <1>4, <1>5, <1>6, <1>7 DEF ConfigPageNext

LEMMA FormEdited ==
  ASSUME PageShape, FormsInv, OpenEnableDialog \/ SelectMode \/ EditEnableForm
  PROVE  enableForm' \in EnableForms
<1> USE DEF EnableForms, FormModes, FormsInv
<1>1. {NoKey} \cup ConfigKeys = ConfigKeys \cup {NoKey} /\ "text" \in ValueTypes
  BY DefinitionAssumption
<1>2. CASE OpenEnableDialog
  BY <1>2, EmptyFormShape DEF OpenEnableDialog
<1>3. CASE SelectMode
  <2>1. PICK mode \in FormModes :
          enableForm' = [enableForm EXCEPT !.mode = mode, !.key = NoKey,
                                           !.valueType = "text", !.label = NoLabel]
    BY <1>3 DEF SelectMode, ChangeMode, EnableFormChanged
  <2> QED
    BY <1>1, <2>1
<1>4. CASE EditEnableForm
  <2>1. CASE \E key \in ConfigKeys : ChangeFieldKey(key)
    <3>1. PICK key \in ConfigKeys :
            enableForm' = [enableForm EXCEPT !.key = key,
                             !.label = IF enableForm.mode = "custom" THEN @ ELSE NoLabel]
      BY <2>1 DEF ChangeFieldKey, EnableFormChanged
    <3> QED
      BY <3>1
  <2>2. CASE \E t \in ValueTypes : ChangeValueType(t)
    BY <2>2 DEF ChangeValueType, EnableFormChanged
  <2>3. CASE \E label \in {NoLabel, OwnLabel} : ChangeLabel(label)
    BY <2>3 DEF ChangeLabel, EnableFormChanged
  <2>4. CASE \E day \in 1..LastConfigDate : ChangeEnabledOn(day)
    BY <2>4, LastDays DEF ChangeEnabledOn, EnableFormChanged
  <2> QED
    BY <1>4, <2>1, <2>2, <2>3, <2>4 DEF EditEnableForm
<1> QED
  BY <1>2, <1>3, <1>4

LEMMA DialogOpened ==
  ASSUME PageShape, FormsInv, OpenDisableDialog
  PROVE  FormsInv'
<1>1. PICK f \in RowsFiltered, mode \in {"disable", "postpone"} :
        LET row == FieldConfigsKnown[f] IN
        /\ IF mode = "disable" THEN CanDisable(row) ELSE CanPostpone(row)
        /\ selectedConfig' = {[mode |-> mode, key |-> f, row |-> row]}
        /\ disabledOn' = FirstDisabledOn(mode, row)
  BY DEF OpenDisableDialog
<1> DEFINE row == FieldConfigsKnown[f]
<1>2. f \in ConfigKeys /\ row \in Configs
  BY RowsKnown DEF RowsFiltered, RowsAll, ExistingFieldKeys, Rows
<1>3. row.enabledOn \in ConfigDays /\ row.disabledOn + 1 \in ConfigDays
  BY <1>2 DEF Configs, ConfigDays
<1>4. disabledOn' \in ConfigDays
  <2>1. openedOn \in ConfigDays /\ ConfigDays \subseteq Nat
    BY DEF PageShape, ConfigDays
  <2> HIDE DEF row
  <2> QED
    BY <1>1, <1>3, <2>1, LaterDay DEF FirstDisabledOn, row
<1>5. mode = "disable" => row.disabledOn = NotDisabled
  BY <1>1 DEF CanDisable
<1>6. enableForm' = enableForm /\ ~enableOpen'
  BY DEF OpenDisableDialog
<1> HIDE DEF row
<1>7. selectedConfig' = {[mode |-> mode, key |-> f, row |-> row]}
  BY <1>1 DEF row
<1> QED
  BY <1>2, <1>4, <1>5, <1>6, <1>7 DEF FormsInv, Selections

LEMMA FormsStep ==
  ASSUME PageShape, FormsInv, ConfigPageNext \/ UNCHANGED configPageVars
  PROVE  FormsInv'
<1>1. ASSUME UNCHANGED <<enableForm, disabledOn>>, enableOpen' => enableOpen,
             selectedConfig' \subseteq selectedConfig
      PROVE  FormsInv'
  BY <1>1 DEF FormsInv
<1>2. CASE OpenEnableDialog \/ SelectMode \/ EditEnableForm
  <2>1. UNCHANGED <<disabledOn, selectedConfig>> /\ (enableOpen' => selectedConfig = {})
    BY <1>2 DEF OpenEnableDialog, SelectMode, EditEnableForm, FormsInv
  <2> QED
    BY <1>2, <2>1, FormEdited DEF FormsInv
<1>3. CASE EditDisabledOn
  BY <1>3, LastDays DEF EditDisabledOn, DisabledOnChanged, FormsInv
<1>4. CASE \/ ApplyFilter \/ ConfigsFetched \/ WindowFocused \/ CloseEnableDialog
           \/ SubmitEnable \/ CloseDisableDialog \/ SubmitDisable
  BY <1>1, <1>4 DEF ApplyFilter, ConfigsFetched, WindowFocused, CloseEnableDialog,
     SubmitEnable, CloseDisableDialog, SubmitDisable, configDialogVars
<1>5. CASE \/ DisableBegins \/ DisableCancelled \/ ServeConfigCall \/ ConfigAnswered
           \/ EnableRefreshed \/ DisableRefreshed \/ ConfigCallLost
           \/ OtherAdminEnables \/ OtherAdminDisables \/ Midnight
           \/ UNCHANGED configPageVars
  BY <1>1, <1>5 DEF DisableBegins, DisableCancelled, ServeConfigCall, ConfigAnswered,
     EnableRefreshed, DisableRefreshed, ConfigCallLost, OtherAdminEnables,
     OtherAdminDisables, Midnight, configPageVars, configDialogVars
<1> QED
  BY <1>2, <1>3, <1>4, <1>5, DialogOpened DEF ConfigPageNext

(* A disable call goes by what its row showed and by the day of the page.  *)
EndAllowed(row, day) ==
  /\ row.enabledOn <= day /\ openedOn <= day
  /\ row.disabledOn # NotDisabled => openedOn < row.disabledOn /\ row.disabledOn < day

RequestShape(r) ==
  /\ DOMAIN r = {"at", "attempt", "id", "mode", "event", "seen"}
  /\ r.event \in EnableEvents \cup DisableEvents
  /\ r.event.type = "DISABLE" => \A row \in r.seen : EndAllowed(row, r.event.disabledOn)

PendingShape(p) == DOMAIN p = {"phase", "call"} /\ (p.phase = "idle" => p.call = NoCall)

CallsPending == {p.call : p \in {q \in {enabling, disabling} : q.phase # "idle"}}
ConfigCalls == onTheWire \cup CallsPending

CallsInv ==
  /\ \A r \in ConfigCalls : RequestShape(r)
  /\ \A a \in answers : RequestShape(a.request)
  /\ PendingShape(enabling) /\ PendingShape(disabling)

(* What a call asks for, and what the dialogs would ask for.               *)
ChangeOf(r) == [id |-> r.id, mode |-> r.mode, event |-> r.event]
CallChanges == {ChangeOf(r) : r \in ConfigCalls}

EnableChange ==
  [id |-> enableRequestID, mode |-> enableForm.mode,
   event |-> [type |-> "ENABLE", key |-> enableForm.key, valueType |-> ValueTypeOf(enableForm),
              label |-> enableForm.label, enabledOn |-> enableForm.enabledOn]]
DisableChange(selected) ==
  [id |-> disableRequestID, mode |-> selected.mode,
   event |-> [type |-> "DISABLE", key |-> selected.key, disabledOn |-> disabledOn]]
Offered == {c \in {EnableChange} : enableOpen} \cup {DisableChange(s) : s \in selectedConfig}

LEMMA DayStays ==
  ASSUME ConfigPageNext \/ UNCHANGED configPageVars
  PROVE  openedOn' = openedOn
BY DEF ConfigPageNext, configPageVars, ApplyFilter, ConfigsFetched, WindowFocused,
   OpenEnableDialog, CloseEnableDialog, SelectMode, EditEnableForm, SubmitEnable,
   OpenDisableDialog, CloseDisableDialog, EditDisabledOn, SubmitDisable, DisableBegins,
   DisableCancelled, ServeConfigCall, ConfigAnswered, EnableRefreshed, DisableRefreshed,
   ConfigCallLost, OtherAdminEnables, OtherAdminDisables, Midnight

(* A step with new calls keeps the invariant if they are as they should be.*)
CallsMove(new) ==
  /\ openedOn' = openedOn
  /\ \A r \in new : RequestShape(r)
  /\ ConfigCalls' \subseteq ConfigCalls \cup new
  /\ PendingShape(enabling') /\ PendingShape(disabling')
  /\ \A a \in answers' : a \in answers \/ a.request \in ConfigCalls

LEMMA CallsGo ==
  ASSUME CallsInv, NEW new, CallsMove(new)
  PROVE  CallsInv'
<1> USE DEF CallsMove
<1>1. \A r : RequestShape(r)' <=> RequestShape(r)
  BY DEF RequestShape, EndAllowed
<1>2. \A p : PendingShape(p)' <=> PendingShape(p)
  BY DEF PendingShape
<1>3. \A r \in ConfigCalls' : RequestShape(r)
  BY DEF CallsInv
<1>4. \A a \in answers' : RequestShape(a.request)
  BY DEF CallsInv
<1>5. PendingShape(enabling)' /\ PendingShape(disabling)'
  BY DEF PendingShape
<1>6. \A r \in ConfigCalls' : RequestShape(r)'
  BY <1>1, <1>3
<1>7. \A a \in answers' : RequestShape(a.request)'
  BY <1>1, <1>4
<1> QED
  BY <1>5, <1>6, <1>7 DEF CallsInv

LEMMA CallsRest ==
  ASSUME CallsInv, UNCHANGED <<onTheWire, enabling, disabling>>
  PROVE  ConfigCalls' = ConfigCalls /\ PendingShape(enabling') /\ PendingShape(disabling')
BY DEF CallsInv, ConfigCalls, CallsPending

LEMMA AnswerTaken ==
  ASSUME NEW p, PendingShape(p), NEW answer, RequestShape(answer.request)
  PROVE  LET q == AfterAnswer(p, answer)
         IN  PendingShape(q) /\ (q.phase # "idle" => p.phase # "idle" /\ q.call = p.call)
<1>1. answer.request # NoCall
  BY DEF RequestShape, NoCall
<1> QED
  BY <1>1 DEF AfterAnswer, PendingShape, NotPending

LEMMA NotPendingShape == PendingShape(NotPending) /\ NotPending.phase = "idle"
BY DEF PendingShape, NotPending

LEMMA PendingFrom ==
  ASSUME NEW new,
         \A p \in {enabling', disabling'} :
           p.phase # "idle" =>
             p.call \in new \/ \E q \in {enabling, disabling} : q.phase # "idle" /\ p.call = q.call
  PROVE  CallsPending' \subseteq CallsPending \cup new
BY DEF CallsPending

(* The calls that are under way: after a step, they are those from before, *)
(* copies of them, or what a dialog offered when it was submitted.         *)
LEMMA EnableSubmitted ==
  ASSUME FormsInv, CallsInv, openedOn' = openedOn, SubmitEnable
  PROVE  CallsInv' /\ CallChanges' \subseteq CallChanges \cup Offered
<1> DEFINE request == [at |-> configSpent', attempt |-> 1, id |-> enableRequestID,
                       mode |-> enableForm.mode,
                       event |-> [type |-> "ENABLE", key |-> enableForm.key,
                                  valueType |-> ValueTypeOf(enableForm),
                                  label |-> enableForm.label,
                                  enabledOn |-> enableForm.enabledOn],
                       seen |-> {}]
<1>1. /\ enabling' = Pending(request) /\ onTheWire' = onTheWire \cup {request}
      /\ UNCHANGED <<disabling, answers>> /\ enableOpen
  BY DEF SubmitEnable, Sent
<1>2. request.event \in EnableEvents
  <2>1. ValueTypeOf(enableForm) \in ValueTypes /\ enableForm.label \in Labels
    BY DefinitionAssumption DEF FormsInv, EnableForms, FormModes, ValueTypeOf
  <2>2. enableForm.key \in ConfigKeys /\ enableForm.enabledOn \in ConfigDays
    BY DEF FormsInv, EnableForms, SubmitEnable, EnableFormValid
  <2> QED
    BY <2>1, <2>2 DEF EnableEvents
<1>3. RequestShape(request)
  BY <1>2 DEF RequestShape
<1>4. ChangeOf(request) \in Offered
  BY <1>1 DEF ChangeOf, Offered, EnableChange
<1> HIDE DEF request
<1>5. PendingShape(enabling') /\ enabling'.call = request
  BY <1>1 DEF Pending, PendingShape
<1>6. ConfigCalls' \subseteq ConfigCalls \cup {request}
  BY <1>1, <1>5, PendingFrom DEF ConfigCalls
<1>7. CallsInv'
  <2>1. PendingShape(disabling')
    BY <1>1 DEF CallsInv
  <2> QED
    <3>1. CallsMove({request})
      BY <1>1, <1>3, <1>5, <1>6, <2>1 DEF CallsMove
    <3> QED
      BY <3>1, CallsGo
<1> QED
  BY <1>4, <1>6, <1>7 DEF CallChanges

LEMMA DisableSubmitted ==
  ASSUME FormsInv, CallsInv, openedOn' = openedOn, SubmitDisable
  PROVE  CallsInv' /\ CallChanges' \subseteq CallChanges \cup Offered
<1>1. PICK selected \in selectedConfig :
        /\ DisableFormValid(selected, disabledOn)
        /\ LET request == [at |-> configSpent', attempt |-> 1, id |-> disableRequestID,
                          mode |-> selected.mode,
                          event |-> [type |-> "DISABLE", key |-> selected.key,
                                     disabledOn |-> disabledOn],
                          seen |-> {selected.row}]
           IN disabling' = Pending(request) /\ Sent(request)
  BY DEF SubmitDisable
<1> DEFINE request == [at |-> configSpent', attempt |-> 1, id |-> disableRequestID,
                       mode |-> selected.mode,
                       event |-> [type |-> "DISABLE", key |-> selected.key,
                                  disabledOn |-> disabledOn],
                       seen |-> {selected.row}]
<1>2. /\ disabling' = Pending(request) /\ onTheWire' = onTheWire \cup {request}
      /\ UNCHANGED <<enabling, answers>>
  BY <1>1 DEF SubmitDisable, Sent
<1>3. /\ selected.mode \in {"disable", "postpone"} /\ selected.key \in ConfigKeys
      /\ disabledOn \in ConfigDays
      /\ selected.mode = "disable" => selected.row.disabledOn = NotDisabled
  BY DEF FormsInv, Selections
<1>4. RequestShape(request)
  <2>1. request.event \in DisableEvents
    BY <1>3 DEF DisableEvents
  <2>2. EndAllowed(selected.row, disabledOn)
    BY <1>1, <1>3 DEF EndAllowed, DisableFormValid
  <2> QED
    BY <2>1, <2>2 DEF RequestShape
<1>5. ChangeOf(request) \in Offered
  BY DEF ChangeOf, Offered, DisableChange
<1> HIDE DEF request
<1>6. PendingShape(disabling') /\ disabling'.call = request
  BY <1>2 DEF Pending, PendingShape
<1>7. ConfigCalls' \subseteq ConfigCalls \cup {request}
  BY <1>2, <1>6, PendingFrom DEF ConfigCalls
<1>8. CallsInv'
  <2>1. PendingShape(enabling')
    BY <1>2 DEF CallsInv
  <2> QED
    <3>1. CallsMove({request})
      BY <1>2, <1>4, <1>6, <1>7, <2>1 DEF CallsMove
    <3> QED
      BY <3>1, CallsGo
<1> QED
  BY <1>5, <1>7, <1>8 DEF CallChanges

LEMMA CallLost ==
  ASSUME CallsInv, openedOn' = openedOn, ConfigCallLost
  PROVE  CallsInv' /\ CallChanges' \subseteq CallChanges
<1>1. PICK pending \in {enabling, disabling} :
        /\ pending.phase = "sent"
        /\ ConfigCallResent(pending.call) \/ ConfigCallFails(pending.call)
  BY DEF ConfigCallLost
<1> DEFINE call == pending.call
           again == [call EXCEPT !.attempt = @ + 1]
<1>2. call \in ConfigCalls /\ RequestShape(call)
  BY <1>1 DEF CallsInv, ConfigCalls, CallsPending
<1>3. RequestShape(again) /\ ChangeOf(again) = ChangeOf(call)
  BY <1>2 DEF RequestShape, ChangeOf
<1>4. UNCHANGED answers /\ PendingShape(enabling) /\ PendingShape(disabling)
  BY DEF ConfigCallLost, CallsInv
<1>5. CASE ConfigCallResent(call)
  <2>1. /\ onTheWire' = onTheWire \cup {again}
        /\ \A p \in {enabling', disabling'} : p = Pending(again) \/ p \in {enabling, disabling}
    BY <1>5 DEF ConfigCallResent, Sent
  <2> HIDE DEF again
  <2>2. PendingShape(Pending(again)) /\ Pending(again).call = again
    BY DEF Pending, PendingShape
  <2>3. ConfigCalls' \subseteq ConfigCalls \cup {again}
    BY <2>1, <2>2, PendingFrom DEF ConfigCalls
  <2>4. PendingShape(enabling') /\ PendingShape(disabling')
    BY <1>4, <2>1, <2>2
  <2>5. CallsInv'
    <3>1. CallsMove({again})
      BY <1>3, <1>4, <2>3, <2>4 DEF CallsMove
    <3> QED
      BY <3>1, CallsGo
  <2> QED
    BY <1>2, <1>3, <2>3, <2>5 DEF CallChanges
<1>6. CASE ConfigCallFails(call)
  <2>1. /\ onTheWire' = onTheWire
        /\ \A p \in {enabling', disabling'} : p = NotPending \/ p \in {enabling, disabling}
    BY <1>6 DEF ConfigCallFails
  <2>2. ConfigCalls' \subseteq ConfigCalls
    BY <2>1, NotPendingShape, PendingFrom DEF ConfigCalls
  <2>3. PendingShape(enabling') /\ PendingShape(disabling')
    BY <1>4, <2>1, NotPendingShape
  <2>4. CallsInv'
    <3>1. CallsMove({})
      BY <1>4, <2>2, <2>3 DEF CallsMove
    <3> QED
      BY <3>1, CallsGo
  <2> QED
    BY <2>2, <2>4 DEF CallChanges
<1> QED
  BY <1>1, <1>5, <1>6

LEMMA CallAnswered ==
  ASSUME CallsInv, openedOn' = openedOn,
         \/ ServeConfigCall \/ DisableCancelled \/ ConfigAnswered
         \/ EnableRefreshed \/ DisableRefreshed
  PROVE  CallsInv' /\ CallChanges' \subseteq CallChanges
<1>1. PendingShape(enabling) /\ PendingShape(disabling)
  BY DEF CallsInv
<1>2. /\ ConfigCalls' \subseteq ConfigCalls
      /\ PendingShape(enabling') /\ PendingShape(disabling')
      /\ \A a \in answers' : a \in answers \/ a.request \in ConfigCalls
  <2>1. CASE ServeConfigCall \/ DisableCancelled
    BY <1>1, <2>1 DEF ServeConfigCall, DisableCancelled, ConfigCalls, CallsPending
  <2>2. CASE ConfigAnswered
    <3>1. PICK answer \in answers : /\ answers' = answers \ {answer}
                                    /\ enabling' = AfterAnswer(enabling, answer)
                                    /\ disabling' = AfterAnswer(disabling, answer)
                                    /\ UNCHANGED onTheWire
      BY <2>2 DEF ConfigAnswered
    <3>2. RequestShape(answer.request)
      BY DEF CallsInv
    <3>3. /\ PendingShape(enabling') /\ PendingShape(disabling')
          /\ enabling'.phase # "idle" =>
               enabling.phase # "idle" /\ enabling'.call = enabling.call
          /\ disabling'.phase # "idle" =>
               disabling.phase # "idle" /\ disabling'.call = disabling.call
      BY <1>1, <3>1, <3>2, AnswerTaken
    <3>4. CallsPending' \subseteq CallsPending \cup {}
      BY <3>3, PendingFrom
    <3> QED
      BY <3>1, <3>3, <3>4 DEF ConfigCalls
  <2>3. CASE EnableRefreshed \/ DisableRefreshed
    <3>1. /\ UNCHANGED <<onTheWire, answers>>
          /\ \A p \in {enabling', disabling'} : p = NotPending \/ p \in {enabling, disabling}
      BY <2>3 DEF EnableRefreshed, DisableRefreshed
    <3>2. CallsPending' \subseteq CallsPending \cup {}
      BY <3>1, NotPendingShape, PendingFrom
    <3> QED
      BY <1>1, <3>1, <3>2, NotPendingShape DEF ConfigCalls
  <2> QED
    BY <2>1, <2>2, <2>3
<1>3. CallsInv'
  <2>1. CallsMove({})
    BY <1>2 DEF CallsMove
  <2> QED
    BY <2>1, CallsGo
<1> QED
  BY <1>2, <1>3 DEF CallChanges

LEMMA CallsUntouched ==
  ASSUME CallsInv, openedOn' = openedOn, UNCHANGED configCallVars
  PROVE  CallsInv' /\ CallChanges' \subseteq CallChanges
<1>1. ConfigCalls' = ConfigCalls /\ PendingShape(enabling') /\ PendingShape(disabling')
      /\ answers' = answers
  BY CallsRest DEF configCallVars
<1>2. CallsInv'
  <2>1. CallsMove({})
    BY <1>1 DEF CallsMove
  <2> QED
    BY <2>1, CallsGo
<1> QED
  BY <1>1, <1>2 DEF CallChanges

(***************************************************************************)
(* Request ids.  Whatever has an id, a call or a dialog, asks for the same *)
(* change, and so does the event that was logged for it; a new id is above *)
(* all that were sent, and a new one of others below all.                  *)
(***************************************************************************)
ChangesInv ==
  /\ \A c, d \in CallChanges \cup Offered : c.id = d.id => c = d
  /\ \A c \in CallChanges \cup Offered :
       /\ c.id \in Int
       /\ c.id \in DOMAIN events => events[c.id] \in AtServer(c)
       /\ OthersRequestID < c.id /\ c.id <= configSpent + 1
  /\ \A c \in CallChanges : c.id <= configSpent
  /\ \A id \in DOMAIN events : id \in Int /\ OthersRequestID < id /\ id <= configSpent

Spends == configSpent' \in {configSpent, configSpent + 1}

LEMMA ChangesStay ==
  ASSUME PageShape, ChangesInv, Spends, UNCHANGED events,
         CallChanges' \subseteq CallChanges, Offered' \subseteq Offered
  PROVE  ChangesInv'
BY DEF PageShape, ChangesInv, Spends, OthersRequestID

LEMMA ChangeSubmitted ==
  ASSUME PageShape, ChangesInv, configSpent' = configSpent + 1, UNCHANGED events,
         CallChanges' \subseteq CallChanges \cup Offered, Offered' \subseteq Offered
  PROVE  ChangesInv'
BY DEF PageShape, ChangesInv, OthersRequestID

LEMMA ChangeOffered ==
  ASSUME PageShape, ChangesInv, Spends, UNCHANGED events,
         CallChanges' \subseteq CallChanges,
         \A c, d \in Offered' : c = d /\ c.id = configSpent + 1
  PROVE  ChangesInv'
<1>1. /\ configSpent \in Nat /\ OthersRequestID \in Int /\ OthersRequestID < 0
      /\ OthersRequestID' \in Int /\ OthersRequestID' <= OthersRequestID
  <2>1. configSpent \in Nat /\ configSpent' \in Nat /\ configSpent <= configSpent'
    BY DEF PageShape, Spends
  <2>2. \A m, n \in Nat : m <= n =>
          /\ -3 - m \in Int /\ -3 - m < 0
          /\ -3 - n \in Int /\ -3 - n <= -3 - m
    OBVIOUS
  <2> QED
    BY <2>1, <2>2 DEF OthersRequestID
<1>2. \A c \in CallChanges' : /\ c \in CallChanges /\ c.id \in Int
                              /\ OthersRequestID < c.id /\ c.id <= configSpent
  BY DEF ChangesInv
<1>3. \A c, d \in (CallChanges \cup Offered)' : c.id = d.id => c = d
  BY <1>1, <1>2 DEF ChangesInv
<1>4. \A id \in DOMAIN events' : /\ id \in Int /\ id <= configSpent /\ id # configSpent + 1
                                 /\ OthersRequestID' < id
  BY <1>1 DEF ChangesInv
<1>5. ASSUME NEW c \in (CallChanges \cup Offered)'
      PROVE  /\ c.id \in Int
             /\ c.id \in DOMAIN events' => events'[c.id] \in AtServer(c)
             /\ OthersRequestID' < c.id /\ c.id <= configSpent' + 1
  <2>1. CASE c \in CallChanges'
    BY <1>1, <1>2, <2>1 DEF ChangesInv, Spends
  <2>2. CASE c \in Offered'
    BY <1>1, <1>4, <2>2 DEF Spends
  <2> QED
    BY <2>1, <2>2
<1> QED
  BY <1>1, <1>2, <1>3, <1>4, <1>5 DEF ChangesInv, Spends

(* The log grows by an event.                                              *)
LEMMA ChangeLogged ==
  ASSUME PageShape, ChangesInv, UNCHANGED configSpent, NEW c \in CallChanges, NEW e \in AtServer(c),
         events' = Extended(events, c.id, e),
         CallChanges' \subseteq CallChanges, Offered' \subseteq Offered
  PROVE  ChangesInv'
<1>1. /\ DOMAIN events' = DOMAIN events \cup {c.id} /\ events'[c.id] = e
      /\ \A id \in DOMAIN events : id # c.id => events'[id] = events[id]
  BY DEF Extended
<1>2. /\ c.id \in Int /\ OthersRequestID < c.id /\ c.id <= configSpent
      /\ OthersRequestID' = OthersRequestID
  BY DEF ChangesInv, OthersRequestID
<1>3. ASSUME NEW d \in (CallChanges \cup Offered)'
      PROVE  d.id \in DOMAIN events' => events'[d.id] \in AtServer(d)
  <2>1. d \in CallChanges \cup Offered
    OBVIOUS
  <2>2. d.id = c.id => d = c
    BY <2>1 DEF ChangesInv
  <2> QED
    BY <1>1, <2>1, <2>2 DEF ChangesInv
<1> QED
  BY <1>1, <1>2, <1>3 DEF ChangesInv

LEMMA OthersIDs ==
  ASSUME PageShape, configSpent' = configSpent + 1
  PROVE  /\ configSpent \in Nat /\ OthersRequestID \in Int /\ OthersRequestID < 0
         /\ OthersRequestID' = OthersRequestID - 1
BY DEF PageShape, OthersRequestID

LEMMA OthersLogged ==
  ASSUME PageShape, ChangesInv, configSpent' = configSpent + 1, NEW e,
         events' = Extended(events, OthersRequestID, e),
         CallChanges' \subseteq CallChanges, Offered' \subseteq Offered
  PROVE  ChangesInv'
<1>1. /\ DOMAIN events' = DOMAIN events \cup {OthersRequestID}
      /\ \A id \in DOMAIN events : id # OthersRequestID => events'[id] = events[id]
  BY DEF Extended
<1>2. ASSUME NEW d \in (CallChanges \cup Offered)'
      PROVE  d.id \in DOMAIN events' => events'[d.id] \in AtServer(d)
  <2>1. d \in CallChanges \cup Offered /\ d.id \in Int /\ OthersRequestID < d.id
    BY DEF ChangesInv
  <2> QED
    BY <1>1, <2>1, OthersIDs DEF ChangesInv
<1> QED
  BY <1>1, <1>2, OthersIDs DEF ChangesInv

LEMMA OthersCalled ==
  ASSUME PageShape, ChangesInv, configSpent' = configSpent + 1, UNCHANGED events,
         NEW c, c.id = OthersRequestID,
         CallChanges' \subseteq CallChanges \cup {c}, Offered' \subseteq Offered
  PROVE  ChangesInv'
<1>1. ASSUME NEW d \in (CallChanges \cup Offered)'
      PROVE  \/ d = c
             \/ d \in CallChanges \cup Offered /\ d.id \in Int /\ OthersRequestID < d.id
  BY DEF ChangesInv
<1>2. \A id \in DOMAIN events : id \in Int /\ OthersRequestID < id
  BY DEF ChangesInv
<1>3. c.id \notin DOMAIN events
  BY <1>2, OthersIDs
<1>4. \A d, f \in (CallChanges \cup Offered)' : d.id = f.id => d = f
  BY <1>1, OthersIDs DEF ChangesInv
<1>5. ASSUME NEW d \in (CallChanges \cup Offered)'
      PROVE  /\ d.id \in Int
             /\ d.id \in DOMAIN events' => events'[d.id] \in AtServer(d)
             /\ OthersRequestID' < d.id /\ d.id <= configSpent' + 1
  BY <1>1, <1>3, OthersIDs DEF ChangesInv
<1>6. \A d \in CallChanges' : d.id <= configSpent'
  BY OthersIDs DEF ChangesInv
<1> QED
  BY <1>2, <1>4, <1>5, <1>6, OthersIDs DEF ChangesInv

(* What the steps of the page do to the tables.                            *)
LEMMA EventSent ==
  ASSUME NEW r, RequestShape(r), NEW e \in AtServer(r)
  PROVE  e \in EnableEvents \cup DisableEvents /\ (e.type = "DISABLE" => e = r.event)
<1>1. CASE r.event.type = "ENABLE"
  <2>1. r.event \in EnableEvents
    BY <1>1 DEF RequestShape, DisableEvents
  <2>2. PICK label \in LabelsAtServer(r) : e = [r.event EXCEPT !.label = label]
    BY <1>1 DEF AtServer
  <2>3. label \in Labels
    BY <2>1, <2>2, DefinitionAssumption DEF LabelsAtServer, EnableEvents
  <2> QED
    BY <2>1, <2>2, <2>3 DEF EnableEvents
<1>2. CASE r.event.type # "ENABLE"
  BY <1>2 DEF AtServer, RequestShape
<1> QED
  BY <1>1, <1>2

LEMMA ServedIsChange ==
  ASSUME CallsInv, NEW r \in onTheWire, NEW e \in AtServer(r), Handle(r, r.id, e)
  PROVE  [ConfigChange]_configVars
<1>1. e \in EnableEvents \cup DisableEvents
  BY EventSent DEF CallsInv, ConfigCalls
<1>2. (e.type = "ENABLE" => e \in EnableEvents) /\ (e.type = "DISABLE" => e \in DisableEvents)
  BY <1>1 DEF EnableEvents, DisableEvents
<1> QED
  BY <1>2 DEF Handle, ConfigChange

LEMMA OthersAreChanges ==
  ASSUME ConfigsInv, OtherAdminEnables \/ OtherAdminDisables
  PROVE  ConfigChange
<1>1. CASE OtherAdminEnables
  <2>1. PICK f \in ConfigKeys : EnableTenantFieldConfig(OthersRequestID,
              [type |-> "ENABLE", key |-> f, valueType |-> BuiltinType,
               label |-> NoLabel, enabledOn |-> currentDate])
    BY <1>1 DEF OtherAdminEnables
  <2>2. [type |-> "ENABLE", key |-> f, valueType |-> BuiltinType,
         label |-> NoLabel, enabledOn |-> currentDate] \in EnableEvents
    BY DefinitionAssumption DEF EnableEvents, ConfigsInv, ConfigsTypeOK
  <2> QED
    BY <2>1, <2>2 DEF ConfigChange
<1>2. CASE OtherAdminDisables
  BY <1>2 DEF OtherAdminDisables, ConfigChange
<1> QED
  BY <1>1, <1>2

LEMMA PageStepIsChange ==
  ASSUME ConfigsInv, CallsInv, ConfigPageNext \/ UNCHANGED configPageVars
  PROVE  [ConfigChange]_configVars
<1>1. CASE ServeConfigCall
  BY <1>1, ServedIsChange DEF ServeConfigCall
<1>2. CASE OtherAdminEnables \/ OtherAdminDisables
  BY <1>2, OthersAreChanges
<1>3. CASE DisableBegins \/ DisableCancelled \/ Midnight
  BY <1>3 DEF DisableBegins, DisableCancelled, Midnight, ConfigChange
<1>4. CASE UNCHANGED configPageVars
  BY <1>4 DEF configPageVars
<1> QED
  BY <1>1, <1>2, <1>3, <1>4 DEF ConfigPageNext, ApplyFilter, ConfigsFetched, WindowFocused,
   OpenEnableDialog, CloseEnableDialog, SelectMode, EditEnableForm, SubmitEnable,
   OpenDisableDialog, CloseDisableDialog, EditDisabledOn, SubmitDisable,
   ConfigAnswered, EnableRefreshed, DisableRefreshed, ConfigCallLost

(* What the dialogs offer.                                                 *)
LEMMA OffersRest ==
  ASSUME UNCHANGED configDialogVars
  PROVE  Offered' = Offered
<1>1. UNCHANGED <<enableOpen, enableForm, enableRequestID, selectedConfig, disabledOn,
                  disableRequestID>>
  BY DEF configDialogVars
<1>2. EnableChange' = EnableChange /\ \A s : DisableChange(s)' = DisableChange(s)
  BY <1>1 DEF EnableChange, DisableChange, ValueTypeOf
<1> QED
  BY <1>1, <1>2 DEF Offered

LEMMA OffersEnd ==
  ASSUME \/ CloseEnableDialog \/ CloseDisableDialog \/ EnableRefreshed \/ DisableRefreshed
  PROVE  Offered' \subseteq Offered
<1>1. /\ UNCHANGED <<enableForm, enableRequestID, disabledOn, disableRequestID>>
      /\ enableOpen' => enableOpen
      /\ selectedConfig' \subseteq selectedConfig
  BY DEF CloseEnableDialog, CloseDisableDialog, EnableRefreshed, DisableRefreshed
<1>2. EnableChange' = EnableChange /\ \A s : DisableChange(s)' = DisableChange(s)
  BY <1>1 DEF EnableChange, DisableChange, ValueTypeOf
<1> QED
  BY <1>1, <1>2 DEF Offered

LEMMA OffersAnew ==
  ASSUME FormsInv, \/ OpenEnableDialog \/ SelectMode \/ EditEnableForm
                   \/ OpenDisableDialog \/ EditDisabledOn
  PROVE  \A c, d \in Offered' : c = d /\ c.id = configSpent + 1
<1>1. CASE OpenEnableDialog \/ SelectMode \/ EditEnableForm
  <2>1. selectedConfig' = {}
    BY <1>1 DEF OpenEnableDialog, SelectMode, EditEnableForm, FormsInv
  <2>2. enableRequestID' = configSpent + 1
    BY <1>1 DEF OpenEnableDialog, SelectMode, EditEnableForm, ChangeMode, ChangeFieldKey,
       ChangeValueType, ChangeLabel, ChangeEnabledOn, EnableFormChanged, NewRequestID
  <2>3. EnableChange'.id = configSpent + 1
    BY <2>2 DEF EnableChange
  <2>4. Offered' \subseteq {EnableChange'}
    BY <2>1 DEF Offered
  <2> QED
    BY <2>3, <2>4
<1>2. CASE OpenDisableDialog \/ EditDisabledOn
  <2>1. /\ ~enableOpen' /\ disableRequestID' = configSpent + 1
        /\ \A s, t \in selectedConfig' : s = t
    BY <1>2 DEF OpenDisableDialog, EditDisabledOn, DisabledOnChanged, NewRequestID, FormsInv
  <2>2. \A s : DisableChange(s)'.id = configSpent + 1
    BY <2>1 DEF DisableChange
  <2> QED
    BY <2>1, <2>2 DEF Offered
<1> QED
  BY <1>1, <1>2

LEMMA ServedLogs ==
  ASSUME PageShape, ChangesInv, CallsInv, ServeConfigCall,
         CallChanges' \subseteq CallChanges
  PROVE  ChangesInv'
<1>1. PICK r \in onTheWire : \E x \in AtServer(r) : Handle(r, r.id, x)
  BY DEF ServeConfigCall
<1>2. PICK e \in AtServer(r) : Handle(r, r.id, e)
  BY <1>1
<1>3. UNCHANGED configSpent /\ Offered' \subseteq Offered
  BY OffersRest DEF ServeConfigCall
<1>4. CASE events' = Extended(events, r.id, e)
  <2>1. ChangeOf(r) \in CallChanges /\ ChangeOf(r).id = r.id
    BY DEF CallChanges, ConfigCalls, ChangeOf
  <2>2. AtServer(ChangeOf(r)) = AtServer(r)
    BY DEF AtServer, LabelsAtServer, ChangeOf
  <2> QED
    BY <1>2, <1>3, <1>4, <2>1, <2>2, ChangeLogged
<1>5. CASE UNCHANGED events
  BY <1>3, <1>5, ChangesStay DEF Spends
<1> QED
  BY <1>2, <1>4, <1>5 DEF Handle, EnableTenantFieldConfig, DisableTenantFieldConfig, Logged,
     EndWithoutEffect

(* Another administrator's call has an id of its own.                      *)
LEMMA OthersDisable ==
  ASSUME PageShape, ConfigsInv, CallsInv, ChangesInv, openedOn' = openedOn, OtherAdminDisables
  PROVE  CallsInv' /\ ChangesInv'
<1>1. PICK f \in DOMAIN configs :
        LET request == OthersRequest([type |-> "DISABLE", key |-> f,
                                      disabledOn |-> OthersDay(f)])
        IN BeginDisable(request) /\ Sent(request)
  BY DEF OtherAdminDisables
<1> DEFINE e == [type |-> "DISABLE", key |-> f, disabledOn |-> OthersDay(f)]
           request == OthersRequest(e)
<1>2. e \in DisableEvents
  <2>1. OthersDay(f) \in ConfigDays
    BY ConfigDayAssumption DEF OthersDay, ConfigsInv, ConfigsTypeOK, ConfigDays
  <2> QED
    BY <2>1 DEF DisableEvents, ConfigsInv, ConfigsTypeOK
<1>3. RequestShape(request)
  BY <1>2 DEF RequestShape, OthersRequest
<1>4. ChangeOf(request).id = OthersRequestID
  BY DEF ChangeOf, OthersRequest
<1>5. onTheWire' = onTheWire \cup {request} /\ UNCHANGED events
  BY <1>1 DEF Sent, BeginDisable
<1> HIDE DEF request
<1>6. /\ UNCHANGED <<enabling, disabling, answers>> /\ UNCHANGED configDialogVars
      /\ configSpent' = configSpent + 1
  BY DEF OtherAdminDisables, ConfigActs
<1>7. ConfigCalls' \subseteq ConfigCalls \cup {request}
  BY <1>5, <1>6 DEF ConfigCalls, CallsPending
<1>8. CallsInv'
  <2>1. PendingShape(enabling') /\ PendingShape(disabling')
    BY <1>6 DEF CallsInv
  <2>2. CallsMove({request})
    BY <1>3, <1>6, <1>7, <2>1 DEF CallsMove
  <2> QED
    BY <2>2, CallsGo
<1>9. CallChanges' \subseteq CallChanges \cup {ChangeOf(request)}
  BY <1>7 DEF CallChanges
<1> QED
  BY <1>4, <1>5, <1>6, <1>8, <1>9, OffersRest, OthersCalled

LEMMA CallsAndChangesStep ==
  ASSUME PageShape, ConfigsInv, FormsInv, CallsInv, ChangesInv,
         ConfigPageNext \/ UNCHANGED configPageVars
  PROVE  CallsInv' /\ ChangesInv'
<1>1. openedOn' = openedOn
  BY DayStays
<1>2. CASE SubmitEnable \/ SubmitDisable
  <2>1. /\ configSpent' = configSpent + 1 /\ UNCHANGED events /\ UNCHANGED configDialogVars
    BY <1>2 DEF SubmitEnable, SubmitDisable, ConfigActs, configVars
  <2>2. CallsInv' /\ CallChanges' \subseteq CallChanges \cup Offered
    BY <1>1, <1>2, EnableSubmitted, DisableSubmitted
  <2> QED
    BY <2>1, <2>2, OffersRest, ChangeSubmitted
<1>3. CASE ServeConfigCall
  BY <1>1, <1>3, CallAnswered, ServedLogs
<1>4. CASE EnableRefreshed \/ DisableRefreshed
  <2>1. UNCHANGED <<events, configSpent>>
    BY <1>4 DEF EnableRefreshed, DisableRefreshed, configVars
  <2> QED
    BY <1>1, <1>4, <2>1, CallAnswered, OffersEnd, ChangesStay DEF Spends
<1>5. CASE DisableCancelled \/ ConfigAnswered \/ ConfigCallLost
  <2>1. UNCHANGED <<events, configSpent>> /\ UNCHANGED configDialogVars
    BY <1>5 DEF DisableCancelled, EndWithoutEffect, ConfigAnswered, ConfigCallLost, configVars
  <2>2. CallsInv' /\ CallChanges' \subseteq CallChanges
    BY <1>1, <1>5, CallAnswered, CallLost
  <2> QED
    BY <2>1, <2>2, OffersRest, ChangesStay DEF Spends
<1>6. CASE \/ OpenEnableDialog \/ SelectMode \/ EditEnableForm
           \/ OpenDisableDialog \/ EditDisabledOn
  <2>1. UNCHANGED events /\ UNCHANGED configCallVars /\ Spends
    BY <1>6 DEF OpenEnableDialog, SelectMode, EditEnableForm, OpenDisableDialog,
       EditDisabledOn, configVars, ConfigActs, Spends
  <2> QED
    BY <1>1, <1>6, <2>1, CallsUntouched, OffersAnew, ChangeOffered
<1>7. CASE CloseEnableDialog \/ CloseDisableDialog
  <2>1. UNCHANGED events /\ UNCHANGED configCallVars /\ Spends
    BY <1>7 DEF CloseEnableDialog, CloseDisableDialog, configVars, ConfigActs, Spends
  <2> QED
    BY <1>1, <1>7, <2>1, CallsUntouched, OffersEnd, ChangesStay
<1>8. CASE \/ ApplyFilter \/ ConfigsFetched \/ WindowFocused \/ DisableBegins
           \/ Midnight \/ UNCHANGED configPageVars
  <2>1. /\ UNCHANGED events /\ UNCHANGED configCallVars /\ UNCHANGED configDialogVars
        /\ Spends
    BY <1>8 DEF ApplyFilter, ConfigsFetched, WindowFocused, DisableBegins, BeginDisable,
       Midnight, NextDate, configVars, ConfigActs, Spends, configPageVars
  <2> QED
    BY <1>1, <2>1, CallsUntouched, OffersRest, ChangesStay
<1>9. CASE OtherAdminEnables
  <2>1. /\ UNCHANGED configCallVars /\ UNCHANGED configDialogVars
        /\ configSpent' = configSpent + 1
        /\ \E e : events' = Extended(events, OthersRequestID, e)
    BY <1>9 DEF OtherAdminEnables, EnableTenantFieldConfig, Logged, ConfigActs
  <2> QED
    BY <1>1, <2>1, CallsUntouched, OffersRest, OthersLogged
<1> QED
  BY <1>1, <1>2, <1>3, <1>4, <1>5, <1>6, <1>7, <1>8, <1>9, OthersDisable DEF ConfigPageNext

(* The answers.                                                            *)
LEMMA ConflictOnlyOverLabel ==
  ASSUME CallsInv, ChangesInv, NEW r \in onTheWire, NEW e \in AtServer(r),
         OutcomeOf(r, r.id, e) = "conflict"
  PROVE  r.mode = "dict" /\ r.event.label = NoLabel
<1>1. r.id \in DOMAIN events /\ events[r.id] # e
  BY DEF OutcomeOf, IsNew
<1>2. ChangeOf(r) \in CallChanges /\ ChangeOf(r).id = r.id
  BY DEF CallChanges, ConfigCalls, ChangeOf
<1>3. AtServer(ChangeOf(r)) = AtServer(r)
  BY DEF AtServer, LabelsAtServer, ChangeOf
<1>4. events[r.id] \in AtServer(r)
  BY <1>1, <1>2, <1>3 DEF ChangesInv
<1>5. r.event.type = "ENABLE"
  BY <1>1, <1>4 DEF AtServer
<1>6. LabelsAtServer(r) # {r.event.label}
  BY <1>1, <1>4, <1>5 DEF AtServer
<1> QED
  BY <1>6 DEF LabelsAtServer

LEMMA RefusedOnlyLate ==
  ASSUME CallsInv, NEW r \in onTheWire, NEW e \in AtServer(r), r.event.type = "DISABLE",
         OutcomeOf(r, r.id, e) = "refused"
  PROVE  Overtaken(r)
<1> SUFFICES ASSUME ~Overtaken(r) PROVE FALSE
  OBVIOUS
<1>1. DateOf(r) = openedOn /\ r.event.key \in DOMAIN configs
      /\ configs[r.event.key] \in r.seen
  BY DEF Overtaken
<1>2. EndAllowed(configs[r.event.key], r.event.disabledOn)
  BY <1>1 DEF CallsInv, ConfigCalls, RequestShape
<1>3. DisableAllowed(r.event, DateOf(r))
  BY <1>1, <1>2 DEF DisableAllowed, DisabledOnAllowed, EndAllowed
<1>4. e = r.event
  BY DEF AtServer
<1> QED
  BY <1>3, <1>4 DEF OutcomeOf, AllowedEvent

AnswersInv == RequestNamesOneChange /\ RefusedOnlyIfOvertaken

LEMMA AnswersStep ==
  ASSUME CallsInv, ChangesInv, AnswersInv, ConfigPageNext \/ UNCHANGED configPageVars
  PROVE  AnswersInv'
<1> USE DEF AnswersInv, RequestNamesOneChange, RefusedOnlyIfOvertaken
<1>1. CASE ServeConfigCall
  <2>1. PICK r \in onTheWire : \E e \in AtServer(r) :
          answers' = answers \cup {[request |-> r, outcome |-> OutcomeOf(r, r.id, e),
                                    overtaken |-> Overtaken(r)]}
    BY <1>1 DEF ServeConfigCall
  <2>2. PICK e \in AtServer(r) :
          answers' = answers \cup {[request |-> r, outcome |-> OutcomeOf(r, r.id, e),
                                    overtaken |-> Overtaken(r)]}
    BY <2>1
  <2>3. /\ OutcomeOf(r, r.id, e) = "conflict" => r.mode = "dict" /\ r.event.label = NoLabel
        /\ OutcomeOf(r, r.id, e) = "refused" /\ r.event.type = "DISABLE" => Overtaken(r)
    BY ConflictOnlyOverLabel, RefusedOnlyLate
  <2> QED
    BY <2>2, <2>3
<1>2. CASE ~ServeConfigCall
  <2>1. answers' \subseteq answers
    BY <1>2 DEF ConfigPageNext, configPageVars, configCallVars, ApplyFilter, ConfigsFetched,
       WindowFocused, OpenEnableDialog, CloseEnableDialog, SelectMode, EditEnableForm,
       SubmitEnable, OpenDisableDialog, CloseDisableDialog, EditDisabledOn, SubmitDisable,
       DisableBegins, DisableCancelled, ConfigAnswered, EnableRefreshed, DisableRefreshed,
       ConfigCallLost, OtherAdminEnables, OtherAdminDisables, Midnight
  <2> QED
    BY <2>1
<1> QED
  BY <1>1, <1>2

ConfigPageInv ==
  /\ ConfigsInv /\ PageShape /\ FormsInv /\ CallsInv /\ ChangesInv /\ AnswersInv

LEMMA ConfigPageBegins == WebInit => ConfigPageInv
<1> SUFFICES ASSUME ConfigPageInit PROVE ConfigPageInv
  BY DEF WebInit
<1>1. PageShape
  BY DEF ConfigPageInit, PageShape, Rows, NoEntries, ConfigDays
<1>2. FormsInv
  <2>1. enableForm \in EnableForms
    BY <1>1, EmptyFormShape DEF ConfigPageInit
  <2> QED
    BY <2>1 DEF ConfigPageInit, FormsInv, ConfigDays
<1>3. CallsInv /\ AnswersInv
  BY DEF ConfigPageInit, CallsInv, ConfigCalls, CallsPending, NotPending, PendingShape,
     AnswersInv, RequestNamesOneChange, RefusedOnlyIfOvertaken
<1>4. CASE configs = NoEntries
  <2>1. DOMAIN events = {}
    BY <1>4 DEF ConfigPageInit, FirstEvents, NoEntries
  <2>2. ConfigsInv
    BY <1>4, <2>1 DEF ConfigPageInit, ConfigsInv, ConfigsTypeOK, ColumnsDistinct,
       DisabledAreConfigured, ConfigsFollowEvents, NoEntries, ConfigDays
  <2>3. ChangesInv
    BY <2>1 DEF ConfigPageInit, ChangesInv, CallChanges, ConfigCalls, CallsPending,
       NotPending, Offered, OthersRequestID
  <2> QED
    BY <1>1, <1>2, <1>3, <2>2, <2>3 DEF ConfigPageInv
<1>5. CASE configs # NoEntries
  <2>1. PICK k \in ConfigKeys, d \in {NotDisabled, 2} :
          configs = [f \in {k} |-> [column |-> <<BuiltinType, 1>>, label |-> NoLabel,
                                    enabledOn |-> 1, disabledOn |-> d]]
    <3> DEFINE one(k, d) == [f \in {k} |-> [column |-> <<BuiltinType, 1>>, label |-> NoLabel,
                                           enabledOn |-> 1, disabledOn |-> d]]
               keys == {f \in ConfigKeys : FieldModes[f] = "builtin"}
    <3>1. configs \in {one(k, d) : k \in keys, d \in {NotDisabled, 2}}
      <4>1. FirstConfigs = {NoEntries} \cup {one(k, d) : k \in keys, d \in {NotDisabled, 2}}
        BY DEF FirstConfigs
      <4> HIDE DEF one, keys
      <4>2. configs \in FirstConfigs
        BY DEF ConfigPageInit
      <4> QED
        BY <1>5, <4>1, <4>2
    <3> HIDE DEF one
    <3>2. PICK k \in keys, d \in {NotDisabled, 2} : configs = one(k, d)
      BY <3>1
    <3> QED
      BY <3>2 DEF one
  <2>2. /\ DOMAIN configs = {k} /\ configs[k].disabledOn = d /\ configs[k].enabledOn = 1
        /\ configs[k] \in Configs
    BY <2>1, DefinitionAssumption DEF Configs, Columns, ConfigDays, NotDisabled
  <2>3. /\ DOMAIN events = IF d = NotDisabled THEN {-1} ELSE {-1, -2}
        /\ events[-1] = [type |-> "ENABLE", key |-> k, valueType |-> BuiltinType,
                         label |-> NoLabel, enabledOn |-> 1]
        /\ d # NotDisabled => events[-2] = [type |-> "DISABLE", key |-> k, disabledOn |-> d]
    <3> DEFINE logged(id, f) ==
                 IF id = -1
                 THEN [type |-> "ENABLE", key |-> f, valueType |-> BuiltinType,
                       label |-> NoLabel, enabledOn |-> 1]
                 ELSE [type |-> "DISABLE", key |-> f, disabledOn |-> configs[f].disabledOn]
               ids == {-1 : f \in {k}} \cup {-2 : f \in {g \in {k} : d # NotDisabled}}
    <3>1. (CHOOSE g \in DOMAIN configs : TRUE) = k
      BY <2>2
    <3>2. {f \in DOMAIN configs : configs[f].disabledOn # NotDisabled}
            = {g \in {k} : d # NotDisabled}
      BY <2>2
    <3>3. events = [id \in ids |-> logged(id, k)]
      BY <2>2, <3>1, <3>2 DEF ConfigPageInit, FirstEvents
    <3>4. ids = IF d = NotDisabled THEN {-1} ELSE {-1, -2}
      OBVIOUS
    <3> HIDE DEF ids
    <3>5. -1 \in ids /\ (d # NotDisabled => -2 \in ids)
      BY <3>4
    <3>6. DOMAIN events = ids /\ \A id \in ids : events[id] = logged(id, k)
      BY <3>3
    <3> QED
      BY <2>2, <3>4, <3>5, <3>6
  <2>4. ConfigsTypeOK
    <3>1. currentDate \in ConfigDays /\ DOMAIN beganOn = {}
      BY DEF ConfigPageInit, ConfigDays, NoEntries
    <3>2. \A id \in DOMAIN events : events[id] \in EnableEvents \cup DisableEvents
      BY <2>3, DefinitionAssumption DEF EnableEvents, DisableEvents, ConfigDays, NotDisabled
    <3> QED
      BY <2>2, <3>1, <3>2 DEF ConfigsTypeOK
  <2>5. ColumnsDistinct /\ DisabledAreConfigured
    BY <2>2, <2>3 DEF ColumnsDistinct, DisabledAreConfigured
  <2>6. ConfigsFollowEvents
    BY <2>2, <2>3 DEF ConfigsFollowEvents, NotDisabled
  <2>7. ChangesInv
    BY <2>3 DEF ConfigPageInit, ChangesInv, CallChanges, ConfigCalls, CallsPending,
       NotPending, Offered, OthersRequestID
  <2> QED
    BY <1>1, <1>2, <1>3, <2>4, <2>5, <2>6, <2>7 DEF ConfigPageInv, ConfigsInv
<1> QED
  BY <1>4, <1>5

LEMMA ConfigPageStep ==
  ASSUME ConfigPageInv, [WebNext]_webVars
  PROVE  ConfigPageInv' /\ [PastKept]_configVars
<1>1. ConfigPageNext \/ UNCHANGED configPageVars
  BY DEF WebNext, webVars, UnitsPage, DetailsPage, ConfigsPage, DictsPage, RolesPage,
         AssignmentsPage, Picker, OthersRest
<1> USE DEF ConfigPageInv
<1>2. [ConfigChange]_configVars
  BY <1>1, PageStepIsChange
<1>3. ConfigsInv' /\ [PastKept]_configVars
  BY <1>2, ColumnCountAssumption, ConfigsInvNext, ChangeKeepsPast
<1>4. PageShape' /\ FormsInv' /\ CallsInv' /\ ChangesInv' /\ AnswersInv'
  BY <1>1, PageShapeStep, FormsStep, CallsAndChangesStep, AnswersStep
<1> QED
  BY <1>3, <1>4

(* No two fields share a column, whatever calls are resent and answered    *)
(* late.                                                                   *)
THEOREM PageKeepsColumnsDistinct == WebSpec => []ColumnsDistinct
<1>1. ConfigPageInv => ColumnsDistinct
  BY DEF ConfigPageInv, ConfigsInv
<1>2. ConfigPageInv /\ [WebNext]_webVars => ConfigPageInv'
  BY ConfigPageStep
<1> QED
  BY <1>1, <1>2, ConfigPageBegins, PTL DEF WebSpec

(* The fields are what the log says, under the page and under others.      *)
THEOREM PageKeepsConfigsAndEvents == WebSpec => []ConfigsFollowEvents
<1>1. ConfigPageInv => ConfigsFollowEvents
  BY DEF ConfigPageInv, ConfigsInv
<1>2. ConfigPageInv /\ [WebNext]_webVars => ConfigPageInv'
  BY ConfigPageStep
<1> QED
  BY <1>1, <1>2, ConfigPageBegins, PTL DEF WebSpec

(* No call of the page or of others, late or waiting, rewrites a day that  *)
(* is over for every call that has begun.                                  *)
THEOREM PageKeepsPast == WebSpec => PastIsKept
<1>1. ConfigPageInv /\ [WebNext]_webVars => ConfigPageInv'
  BY ConfigPageStep
<1>2. ConfigPageInv /\ [WebNext]_webVars => [PastKept]_configVars
  BY ConfigPageStep
<1> QED
  BY <1>1, <1>2, ConfigPageBegins, PTL DEF WebSpec, PastIsKept

(* A call that is sent again is never taken for another change, but for    *)
(* the name of a dictionary that the server fills in.                      *)
THEOREM RequestAlwaysNamesOneChange == WebSpec => []RequestNamesOneChange
<1>1. ConfigPageInv => RequestNamesOneChange
  BY DEF ConfigPageInv, AnswersInv
<1>2. ConfigPageInv /\ [WebNext]_webVars => ConfigPageInv'
  BY ConfigPageStep
<1> QED
  BY <1>1, <1>2, ConfigPageBegins, PTL DEF WebSpec

(* The server refuses no end of a field that the page let through, unless  *)
(* someone or the date came in between.                                    *)
THEOREM RefusedAlwaysOvertaken == WebSpec => []RefusedOnlyIfOvertaken
<1>1. ConfigPageInv => RefusedOnlyIfOvertaken
  BY DEF ConfigPageInv, AnswersInv
<1>2. ConfigPageInv /\ [WebNext]_webVars => ConfigPageInv'
  BY ConfigPageStep
<1> QED
  BY <1>1, <1>2, ConfigPageBegins, PTL DEF WebSpec
=============================================================================
