--------------------------- MODULE DictReleasePanel ---------------------------
(***************************************************************************)
(* The release panel of DictConfigsPage: a baseline is previewed, found    *)
(* free of conflicts and released.  The form is known by its edition; the  *)
(* ids that a result shows can be copied, which may fail late.             *)
(***************************************************************************)
EXTENDS Integers, FiniteSets

CONSTANTS ReleaseBudget,   \* bound on what the user does
          MaxEdition       \* bound on the editions of the form

ASSUME ReleaseBounds == ReleaseBudget \in Nat /\ MaxEdition \in Nat

VARIABLES edition,         \* releaseForm, by its edition; 0 is not valid
          releaseStage,
          previewedEdition,\* the edition the stage's preview was of
          resultShown,     \* releaseResult is not null
          previewCalls,    \* previews under way, by edition
          releaseCalls,    \* releases under way, by edition
          copies,          \* clipboard writes under way
          sentReleases,    \* the releases that were ever sent
          copyFailedBusy,  \* did a copy fail while a request was under way
          releaseSpent

releaseVars == <<edition, releaseStage, previewedEdition, resultShown, previewCalls,
                 releaseCalls, copies, sentReleases, copyFailedBusy, releaseSpent>>

Invalid == 0
NotPreviewed == 0

ReleaseInit ==
  /\ edition = Invalid
  /\ releaseStage = "idle"
  /\ previewedEdition = NotPreviewed
  /\ resultShown = FALSE
  /\ previewCalls = {} /\ releaseCalls = {} /\ copies = 0
  /\ sentReleases = {}
  /\ copyFailedBusy = FALSE
  /\ releaseSpent = 0

ReleaseBusy == releaseStage \in {"previewing", "releasing"}
ReleaseActs == releaseSpent < ReleaseBudget /\ releaseSpent' = releaseSpent + 1

ToStage(stage) == releaseStage' = stage

(* Mutant of ResetRelease: the stage stays.                                *)
ForgetPreview == /\ UNCHANGED releaseStage
                 /\ previewedEdition' = NotPreviewed
                 /\ resultShown' = FALSE

(* A change of the form takes the preview and the result away, unless a    *)
(* request is under way (then the fields are disabled).                    *)
ResetRelease == /\ ToStage("idle")
                /\ previewedEdition' = NotPreviewed
                /\ resultShown' = FALSE

OnReleaseFieldChange ==
  /\ ~ReleaseBusy
  /\ ReleaseActs
  /\ edition < MaxEdition
  /\ edition' = edition + 1
  /\ ResetRelease
  /\ UNCHANGED <<previewCalls, releaseCalls, copies, sentReleases, copyFailedBusy>>

(* The form returns to what it was at first, with a new request id.        *)
OnResetRelease ==
  /\ ~ReleaseBusy
  /\ ReleaseActs
  /\ edition # Invalid
  /\ edition' = Invalid
  /\ ResetRelease
  /\ UNCHANGED <<previewCalls, releaseCalls, copies, sentReleases, copyFailedBusy>>

ValidForm == edition # Invalid

OnPreviewRelease ==
  /\ ~ReleaseBusy
  /\ ReleaseActs
  /\ IF ValidForm
     THEN /\ ToStage("previewing")
          /\ previewCalls' = previewCalls \cup {edition}
     ELSE ToStage("fail") /\ UNCHANGED previewCalls
  /\ UNCHANGED <<edition, previewedEdition, resultShown, releaseCalls, copies,
                 sentReleases, copyFailedBusy>>

CanExecute == ~ReleaseBusy /\ releaseStage = "ready"

OnExecuteRelease ==
  /\ CanExecute
  /\ ReleaseActs
  /\ IF ValidForm
     THEN /\ ToStage("releasing")
          /\ releaseCalls' = releaseCalls \cup {edition}
          /\ sentReleases' = sentReleases \cup
               {[edition |-> edition, previewed |-> previewedEdition,
                 overtaken |-> copyFailedBusy]}
     ELSE ToStage("fail") /\ UNCHANGED <<releaseCalls, sentReleases>>
  /\ UNCHANGED <<edition, previewedEdition, resultShown, previewCalls, copies, copyFailedBusy>>

(* Answers; every one sets the stage, whatever it was in the meantime.     *)
NextStageAfterPreview(conflicts) == IF conflicts THEN "conflict" ELSE "ready"

PreviewSucceeds(e) ==
  \E conflicts \in BOOLEAN :
    /\ ToStage(NextStageAfterPreview(conflicts))
    /\ previewedEdition' = e
    /\ resultShown' = FALSE

(* Mutant of CallFails: a failed call leaves the stage.                    *)
CallIgnored == UNCHANGED <<releaseStage, previewedEdition, resultShown>>

CallFails == ToStage("fail") /\ UNCHANGED <<previewedEdition, resultShown>>

PreviewAnswered ==
  /\ \E e \in previewCalls :
       /\ previewCalls' = previewCalls \ {e}
       /\ PreviewSucceeds(e) \/ CallFails
  /\ UNCHANGED <<edition, releaseCalls, copies, sentReleases, copyFailedBusy, releaseSpent>>

ReleaseSucceeds == ToStage("success") /\ resultShown' = TRUE /\ UNCHANGED previewedEdition

ReleaseAnswered ==
  /\ \E e \in releaseCalls :
       /\ releaseCalls' = releaseCalls \ {e}
       /\ ReleaseSucceeds \/ CallFails
  /\ UNCHANGED <<edition, previewCalls, copies, sentReleases, copyFailedBusy, releaseSpent>>

(* Copying an id of the result; a copy that fails sets the stage, too.     *)
OnCopyField ==
  /\ resultShown
  /\ ReleaseActs
  /\ copies' = copies + 1
  /\ UNCHANGED <<edition, releaseStage, previewedEdition, resultShown, previewCalls,
                 releaseCalls, sentReleases, copyFailedBusy>>

Copied ==
  /\ copies > 0
  /\ copies' = copies - 1
  /\ \/ UNCHANGED <<releaseStage, copyFailedBusy>>
     \/ /\ ToStage("fail")
        /\ copyFailedBusy' = (copyFailedBusy \/ previewCalls \cup releaseCalls # {})
  /\ UNCHANGED <<edition, previewedEdition, resultShown, previewCalls, releaseCalls,
                 sentReleases, releaseSpent>>

ReleaseNext ==
  \/ OnReleaseFieldChange \/ OnResetRelease \/ OnPreviewRelease \/ OnExecuteRelease
  \/ PreviewAnswered \/ ReleaseAnswered \/ OnCopyField \/ Copied

(* What is released is the form as it was previewed, free of conflicts:    *)
(* fields are closed and answers of one form cannot make another one ready,*)
(* but for a copy that failed while a request was under way, which opens   *)
(* the form again.                                                         *)
ReleaseWasPreviewed ==
  \A r \in sentReleases : r.overtaken \/ r.previewed = r.edition

(* A busy panel, whose fields and buttons are all disabled, waits for a    *)
(* request that is under way: no order of answers, failures and copies     *)
(* leaves it closed for ever.                                              *)
BusyHasRequest == ReleaseBusy => previewCalls \cup releaseCalls # {}
=============================================================================
