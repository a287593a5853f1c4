------------------------------- MODULE WebPages -------------------------------
(***************************************************************************)
(* The pages of the web application that keep state of their own.  A       *)
(* visit is to one page: what a page keeps is gone when it is left, so the *)
(* route is chosen once and the other pages rest.  So it is with the       *)
(* organisation picker, which three of them open over their forms: it      *)
(* knows nothing of the page but the value of its field.                   *)
(***************************************************************************)
EXTENDS OrgUnitsPage, OrgUnitDetailsPage, DictReleasePanel, AuthzRolePages,
        FieldConfigsPage, OrgUnitPicker

VARIABLE route

webVars == <<route, unitsVars, detailVars, releaseVars, authzVars, configPageVars,
             pickerVars>>

Routes == {"/org/units", "/org/units/:orgCode", "/org/units/field-configs", "/dicts",
           "/authz/roles", "/authz/user-assignments", "picker"}

(* A page that is not visited is as it is opened without parameters.       *)
Unvisited ==
  /\ route # "/org/units" =>
       address.keyword = NoKeyword /\ ~address.ext /\ ~address.bare
  /\ route # "/org/units/:orgCode" =>
       /\ detailAddress.asOf = NoDay /\ detailAddress.requested = NoDay
       /\ detailAddress.tab = "profile"
       /\ EnabledOn(LastDay + 1) = {}
  /\ route # "/authz/user-assignments" =>
       \A p \in Principals : Scope \notin assignments[p].content
  /\ route # "/org/units/field-configs" => configs = NoEntries
  /\ route # "picker" => picked = NoPick

WebInit ==
  /\ route \in Routes
  /\ UnitsInit /\ DetailInit /\ ReleaseInit /\ AuthzInit /\ ConfigPageInit
  /\ PickerInit
  /\ Unvisited

OthersRest(visited) ==
  /\ UNCHANGED route
  /\ visited # "units" => UNCHANGED unitsVars
  /\ visited # "detail" => UNCHANGED detailVars
  /\ visited # "configs" => UNCHANGED configPageVars
  /\ visited # "release" => UNCHANGED releaseVars
  /\ visited # "authz" => UNCHANGED authzVars
  /\ visited # "picker" => UNCHANGED pickerVars

UnitsPage == route = "/org/units" /\ OthersRest("units")
DetailsPage == route = "/org/units/:orgCode" /\ OthersRest("detail")
ConfigsPage == route = "/org/units/field-configs" /\ OthersRest("configs")
DictsPage == route = "/dicts" /\ OthersRest("release")
RolesPage == route = "/authz/roles" /\ OthersRest("authz")
AssignmentsPage == route = "/authz/user-assignments" /\ OthersRest("authz")
Picker == route = "picker" /\ OthersRest("picker")

WebNext ==
  \/ UnitsPage /\ UnitsNext
  \/ DetailsPage /\ DetailNext
  \/ ConfigsPage /\ ConfigPageNext
  \/ DictsPage /\ ReleaseNext
  \/ RolesPage /\ RoleNext
  \/ AssignmentsPage /\ AssignmentNext
  \/ Picker /\ PickerNext

(* React runs the effects of what it rendered, timers fire.  Nothing is    *)
(* assumed of the user, of the server or of the network.                   *)
WebFairness ==
  /\ WF_unitsVars(UnitsPage /\ Effects)
  /\ WF_unitsVars(UnitsPage /\ Debounce)
  /\ WF_detailVars(DetailsPage /\ DetailEffects)

WebSpec == WebInit /\ [][WebNext]_webVars /\ WebFairness

(* The effects that write the address stop.  On the organisation page the  *)
(* input, the debounced keyword and the address agree in the end, whatever *)
(* the user types, the browser goes back to or a late search writes over   *)
(* the address; on the details page a link with as_of ends at the record   *)
(* in force and a link to the audit tab at an event that is listed.  Every *)
(* effect writes from what one render saw; none undoes another for ever.   *)
AddressesSettle ==
  <>[](/\ route = "/org/units" => UnitsAddressAtRest
      /\ route = "/org/units/:orgCode" => DetailEffectsRan)
(* Why they stop: every run of an effect or of the debounce brings the     *)
(* address nearer to rest, no run is left only when it is at rest, and     *)
(* nothing drives it away for nothing: that costs an act of the user, the  *)
(* end of a call he started, or the first answer of a query.               *)
AddressesNearRest ==
  [][/\ UnitsPage /\ (Effects \/ Debounce) => UnitsWay' < UnitsWay
     /\ UnitsWay' = 0 => UnitsAddressAtRest'
     /\ UnitsWay' > UnitsWay =>
          \/ unitsSpent' > unitsSpent
          \/ \E call \in treeCalls : treeCalls' = treeCalls \ {call}
     /\ DetailsPage /\ DetailEffects => DetailWay' < DetailWay
     /\ DetailWay' > DetailWay =>
          \/ detailSpent' > detailSpent
          \/ versionsKnown = {} /\ versionsKnown' # {}
          \/ auditKnown = {} /\ auditKnown' # {}]_webVars
=============================================================================
