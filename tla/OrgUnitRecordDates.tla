------------------------- MODULE OrgUnitRecordDates -------------------------
(***************************************************************************)
(* The dates of the record wizard and of the details page: which days a    *)
(* new record of a unit may begin on, and which record a page shows.  Days *)
(* are numbers, NoDay is null; ISO dates compare as they do.               *)
(***************************************************************************)
EXTENDS Integers, FiniteSets, FiniteSetsExt

NoDay == 0

Plan(kind, selected, default, min, max) ==
  [kind |-> kind, selected |-> selected, default |-> default, min |-> min, max |-> max]
NoPlan == Plan("none", NoDay, NoDay, NoDay, NoDay)

(* Adding is after the last record; inserting is next to the selected one, *)
(* and never before the first.                                             *)
PlanRecordEffectiveDate(mode, dates, selected) ==
  LET last == Max(dates)
      earlier == {d \in dates : d < selected}
      later == {d \in dates : d > selected}
      min == IF earlier = {} THEN selected + 1 ELSE Max(earlier) + 1
      max == Min(later) - 1
  IN IF dates = {} \/ selected = NoDay
     THEN Plan("invalid_input", selected, IF dates = {} THEN selected ELSE last + 1,
               NoDay, NoDay)
     ELSE IF mode = "add" THEN Plan("add", selected, last + 1, last + 1, NoDay)
     ELSE IF selected \notin dates
     THEN Plan("invalid_input", selected, last + 1, NoDay, NoDay)
     ELSE IF later = {} THEN Plan("insert_as_add", selected, last + 1, last + 1, NoDay)
     ELSE Plan(IF min > max THEN "insert_no_slot" ELSE "insert",
               selected, selected + 1, min, max)

(* Mutant of ValidatePlannedEffectiveDate: the upper end is not looked at. *)
ValidateFrom(plan, date) ==
  /\ date # NoDay
  /\ plan.kind \in {"add", "insert", "insert_as_add"}
  /\ plan.min # NoDay => date >= plan.min
  /\ plan.kind # "add" => date # plan.selected

ValidatePlannedEffectiveDate(plan, date) ==
  /\ date # NoDay
  /\ plan.kind \in {"add", "insert", "insert_as_add"}
  /\ plan.min # NoDay => date >= plan.min
  /\ plan.max # NoDay => date <= plan.max
  /\ plan.kind # "add" => date # plan.selected

(* The requested record if the unit has it, else the one in force.         *)
ResolveOrgUnitEffectiveDate(asOf, requested, versions) ==
  LET inForce == {d \in versions : d <= asOf} IN
  IF versions = {} THEN IF requested # NoDay THEN requested ELSE asOf
  ELSE IF requested \in versions THEN requested
  ELSE IF inForce # {} THEN Max(inForce)
  ELSE Min(versions)
=============================================================================
