----------------------- MODULE MissionIntentContract -----------------------
(***************************************************************************)
(* The mission intent contract and its predicates                          *)
(* (mission_intent_contract.cpp).  Positions are metres along a line, so   *)
(* the great-circle distance is the absolute difference, a region is an    *)
(* interval and the corridor is a band around the segments of its          *)
(* centreline.  Vectors that are only searched are sets.                   *)
(***************************************************************************)
EXTENDS FloatValues, Sequences

distance_m(a, b) == IF a < b THEN b - a ELSE a - b

\* The distance to the closest point of the segment (the clamped parameter t).
point_to_segment_distance_m(point, start, end) ==
  LET low  == IF start < end THEN start ELSE end
      high == IF start < end THEN end ELSE start
  IN  IF point < low THEN low - point
      ELSE IF point > high THEN point - high ELSE 0

point_inside_region(x, region) == distance_m(x, region.center) <= region.radius_m

point_inside_corridor(x, corridor) ==
  LET line == corridor.centerline IN
  \/ /\ Len(line) = 1
     /\ distance_m(x, line[1]) <= corridor.allowed_deviation_m
  \/ \E i \in 1..(Len(line) - 1) :
       point_to_segment_distance_m(x, line[i], line[i + 1])
         <= corridor.allowed_deviation_m

point_inside_excluded_region(x, contract) ==
  \E region \in contract.excluded_regions : point_inside_region(x, region)

\* Comparisons with NaN are false.
altitude_inside_envelope(z, envelope) ==
  /\ z # NaN
  /\ envelope.minimum_m <= Unsigned(z) /\ Unsigned(z) <= envelope.maximum_m

\* An empty list of allowed commands allows every command.
command_allowed(command, policy) ==
  /\ command \notin policy.prohibited_commands
  /\ policy.allowed_commands = {} \/ command \in policy.allowed_commands

emergency_command_allowed(command, policy) ==
  command \in policy.allowed_commands

authority_can_change_destination(authority, policy) ==
  authority \in policy.destination_change_authorities

authority_can_use_emergency_policy(authority, policy) ==
  authority \in policy.emergency_authorities

authority_can_administer_contract(authority, policy) ==
  authority \in policy.contract_admin_authorities

contract_valid_at(contract, unix_time) ==
  contract.has_validity_window =>
    contract.valid_from <= unix_time /\ unix_time <= contract.valid_until

validate_mission_intent_contract(contract) ==
  /\ contract.start_region.radius_m >= 0
  /\ contract.terminal_region.radius_m >= 0
  /\ contract.corridor.allowed_deviation_m >= 0
  /\ contract.altitude.minimum_m <= contract.altitude.maximum_m
  /\ \A region \in contract.excluded_regions : region.radius_m >= 0
  /\ contract.has_validity_window => contract.valid_from <= contract.valid_until

=============================================================================
