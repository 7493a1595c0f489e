------------------------ MODULE MissionAuthorization ------------------------
(***************************************************************************)
(* The decision on a proposed mission (mission_authorization.cpp).  The    *)
(* source is one chain of early returns; it is kept as one chain whose     *)
(* tests are named.  The textual reason of a verdict is left out.          *)
(***************************************************************************)
EXTENDS MissionIntentContract, FiniteSetsExt

MissionAuthorizationDecision ==
  {"ALLOW", "DENY", "DEFER", "REQUIRE_HIGHER_AUTHORITY"}

\* An item in any other frame carries no global position.
GlobalFrames ==
  {"GLOBAL", "GLOBAL_RELATIVE_ALT", "GLOBAL_INT", "GLOBAL_RELATIVE_ALT_INT",
   "GLOBAL_TERRAIN_ALT", "GLOBAL_TERRAIN_ALT_INT"}

uses_global_position(item) == item.frame \in GlobalFrames

PositionIndices(mission) ==
  {i \in DOMAIN mission.items : uses_global_position(mission.items[i])}
first_position_item(mission) == mission.items[Min(PositionIndices(mission))]
last_position_item(mission)  == mission.items[Max(PositionIndices(mission))]

\* A contract is provisioned, well formed and inside its validity window.
ContractApplies(contract, unix_time) ==
  /\ contract.contract_id # 0
  /\ validate_mission_intent_contract(contract)
  /\ contract_valid_at(contract, unix_time)

\* Mutant: the comparison with the administrator is the wrong way round.
InFlightReplanBlocked_for_admin(contract, authority, vehicle_in_flight) ==
  /\ vehicle_in_flight
  /\ ~contract.allow_in_flight_replanning
  /\ authority = "SECURITY_ADMIN"

InFlightReplanBlocked(contract, authority, vehicle_in_flight) ==
  /\ vehicle_in_flight
  /\ ~contract.allow_in_flight_replanning
  /\ authority # "SECURITY_ADMIN"

DestinationChangeBlocked(delta, contract, authority) ==
  /\ delta.destination_changed
  /\ contract.destination_change_requires_authority
  /\ ~authority_can_change_destination(authority, contract.authority_policy)
  /\ ~ /\ contract.emergency_policy.allow_destination_change
       /\ authority_can_use_emergency_policy(authority, contract.authority_policy)

\* The items whose command neither the normal policy nor the emergency
\* policy in these hands permits.  The first of them decides.
OffendingItems(mission, contract, authority) ==
  {i \in DOMAIN mission.items :
     /\ ~command_allowed(mission.items[i].command, contract.command_policy)
     /\ ~ /\ emergency_command_allowed(mission.items[i].command,
                                       contract.emergency_policy)
          /\ authority_can_use_emergency_policy(authority,
                                                contract.authority_policy)}

CommandVerdict(mission, offending, contract) ==
  IF emergency_command_allowed(mission.items[Min(offending)].command,
                               contract.emergency_policy)
  THEN "REQUIRE_HIGHER_AUTHORITY" ELSE "DENY"

\* Mutant: only the ends of the mission are looked at.
InsideContractGeometry_ends_only(mission, contract) ==
  /\ PositionIndices(mission) # {}
  /\ point_inside_region(first_position_item(mission).x, contract.start_region)
  /\ point_inside_region(last_position_item(mission).x, contract.terminal_region)

\* The geometric limits: start and terminal region, altitude envelope,
\* excluded regions and corridor.
InsideContractGeometry(mission, contract) ==
  /\ PositionIndices(mission) # {}
  /\ point_inside_region(first_position_item(mission).x, contract.start_region)
  /\ point_inside_region(last_position_item(mission).x, contract.terminal_region)
  /\ \A i \in PositionIndices(mission) :
       LET item == mission.items[i] IN
       /\ altitude_inside_envelope(item.z, contract.altitude)
       /\ ~point_inside_excluded_region(item.x, contract)
       /\ point_inside_corridor(item.x, contract.corridor)

evaluate_mission_authorization(mission, delta, class, budget, contract, authority, in_flight, time) ==
  LET policy == contract.authority_policy
      offending == OffendingItems(mission, contract, authority)
  IN
  IF ~ContractApplies(contract, time) THEN "DEFER"
  ELSE IF class = "NO_OP_REUPLOAD" THEN "ALLOW"
  ELSE IF class \in {"ROLLBACK", "STALE_PARENT", "CONCURRENT_CONFLICT"}
       THEN "DENY"
  ELSE IF /\ class = "UNRELATED_REPLACEMENT"
          /\ ~authority_can_administer_contract(authority, policy)
       THEN "REQUIRE_HIGHER_AUTHORITY"
  ELSE IF ~budget.within_budget
       THEN IF budget.requires_higher_authority
            THEN "REQUIRE_HIGHER_AUTHORITY" ELSE "DEFER"
  ELSE IF \/ InFlightReplanBlocked(contract, authority, in_flight)
          \/ DestinationChangeBlocked(delta, contract, authority)
       THEN "REQUIRE_HIGHER_AUTHORITY"
  ELSE IF offending # {} THEN CommandVerdict(mission, offending, contract)
  ELSE IF ~InsideContractGeometry(mission, contract) THEN "DENY"
  ELSE "ALLOW"

=============================================================================
