--------------------------- MODULE GatewayPolicy ---------------------------
(***************************************************************************)
(* The policy the gateway is built with (udp_gateway.cpp).  Positions are  *)
(* metres from the centre of the start region, towards the terminal region.*)
(***************************************************************************)
EXTENDS MissionChangeBudget, MissionAuthorization

mission_contract ==
  [contract_id |-> 1001,
   start_region    |-> [center |-> 0,  radius_m |-> 500],
   terminal_region |-> [center |-> 56, radius_m |-> 500],
   corridor |-> [centerline |-> <<-100, 234>>, allowed_deviation_m |-> 500],
   excluded_regions |-> {},
   altitude |-> [minimum_m |-> 0, maximum_m |-> 120],
   command_policy |-> [allowed_commands |-> {"TAKEOFF", "WAYPOINT", "RTL", "LAND"},
                       prohibited_commands |-> {}],
   emergency_policy |-> [allowed_commands |-> {"RTL", "LAND"},
                         allow_destination_change |-> TRUE],
   authority_policy |->
     [destination_change_authorities |-> {"SECURITY_ADMIN"},
      emergency_authorities |-> {"EMERGENCY_AUTHORITY", "SECURITY_ADMIN"},
      contract_admin_authorities |-> {"SECURITY_ADMIN"}],
   allow_in_flight_replanning |-> TRUE,
   destination_change_requires_authority |-> TRUE,
   has_validity_window |-> FALSE, valid_from |-> 0, valid_until |-> 0]

proposal_authority == "NORMAL_OPERATOR"

=============================================================================
