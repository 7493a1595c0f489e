----------------------------- MODULE MCGateway -----------------------------
(***************************************************************************)
(* Values for the constants of Gateway.                                    *)
(***************************************************************************)
EXTENDS Gateway

Item(command, x, z, param) ==
  [command |-> command, frame |-> "GLOBAL", x |-> x, z |-> z, param |-> param]

\* mavlink_mission_item_int_t{}: latitude and longitude zero are far away.
ZeroItem == Item("NONE", -5270000, 0, 0)

\* Two waypoints within the change budget of each other, and a landing.
Near   == Item("WAYPOINT", 0, 50, 0)
Moved  == Item("WAYPOINT", 60, 50, 0)
Home   == Item("LAND", 100, 0, 0)
\* Above the envelope.
High   == Item("WAYPOINT", 0, 150, 0)

LineageItems == {Near, Moved, High}
ServiceItems == {Near, Home}
EvidenceItems == {Near}
=============================================================================
