-------------------------- MODULE MCGatewaySystem --------------------------
(***************************************************************************)
(* Values for the constants of GatewaySystem.                              *)
(***************************************************************************)
EXTENDS GatewaySystem

Item(command, x, z, param) ==
  [command |-> command, frame |-> "GLOBAL", x |-> x, z |-> z, param |-> param]

ZeroItem == Item("NONE", -5270000, 0, 0)
Near   == Item("WAYPOINT", 0, 50, 0)
Moved  == Item("WAYPOINT", 60, 50, 0)
Home   == Item("LAND", 100, 0, 0)
High   == Item("WAYPOINT", 0, 150, 0)

SystemItems == {Near, Moved, Home, High}

\* A route, a change and a part of it within the budget, and a mission outside
\* the contract.
VariedPlans == {<<Near, Home>>, <<Moved, Home>>, <<Home>>, <<High>>}
\* Fewer of them.
RoutePlans == {<<Near, Home>>, <<Moved, Home>>}
ShortPlans == {<<Near, Home>>, <<Home>>, <<High>>}
PointPlans == {<<Near>>, <<Moved>>}
=============================================================================
