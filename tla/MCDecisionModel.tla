-------------------------- MODULE MCDecisionModel --------------------------
(***************************************************************************)
(* Values for the constants of DecisionModel.                              *)
(***************************************************************************)
EXTENDS DecisionModel

Item(command, frame, x, z, param) ==
  [command |-> command, frame |-> frame, x |-> x, z |-> z, param |-> param]
ZeroItem == Item("NONE", "GLOBAL", -5270000, 0, 0)

\* A waypoint; the same one with -0.0 for 0.0, with another yaw, moved to the
\* limit of the budget, and raised beyond it; a landing.
Base    == Item("WAYPOINT", "GLOBAL", 0, 50, 0)
Signed  == Item("WAYPOINT", "GLOBAL", 0, 50, NegZero)
Turned  == Item("WAYPOINT", "GLOBAL", 0, 50, 90)
Limit   == Item("WAYPOINT", "GLOBAL", 100, 50, 0)
High    == Item("WAYPOINT", "GLOBAL", 0, 81, 0)
Landing == Item("LAND", "GLOBAL", 100, 50, 0)
DeltaItems == {Base, Signed, Turned, Limit, High, Landing}

\* On the ground, and with -0.0 for the altitude; with a yaw left to the vehicle;
\* without an altitude, as a position and as none; above another reference.
Low     == Item("WAYPOINT", "GLOBAL", 0, 0, 0)
Sunk    == Item("WAYPOINT", "GLOBAL", 0, NegZero, 0)
FreeYaw == Item("WAYPOINT", "GLOBAL", 0, 50, NaN)
NoHeight == Item("WAYPOINT", "GLOBAL", 0, NaN, 0)
Return  == Item("RTL", "MISSION", 0, 0, 0)
Vague   == Item("RTL", "MISSION", 0, NaN, 0)
Relative == Item("WAYPOINT", "GLOBAL_RELATIVE_ALT", 0, 50, 0)
OddItems == {Base, Low, Sunk, FreeYaw, NoHeight, Return, Vague, Relative}
FreeYawItems == {Base, FreeYaw, Limit, Landing}

\* Within the budget of the first one, beyond the corridor but inside no budget,
\* and a landing near them.
Moved  == Item("WAYPOINT", "GLOBAL", 60, 50, 0)
Far    == Item("WAYPOINT", "GLOBAL", 560, 50, 0)
Touch  == Item("LAND", "GLOBAL", 60, 0, 0)
PolicyItems == {Base, Moved, Far, Touch, Return}

\* The gateway's contract; no replanning in flight; landing only in an
\* emergency; a region nobody may enter.
Contracts ==
  {mission_contract,
   [mission_contract EXCEPT !.allow_in_flight_replanning = FALSE],
   [mission_contract EXCEPT !.command_policy.allowed_commands = {"WAYPOINT", "RTL"}],
   [mission_contract EXCEPT !.excluded_regions = {[center |-> 70, radius_m |-> 10]}]}

\* Every change of a mission of up to n items.
Changes(items, n) ==
  [lineage: {<<m>> : m \in MissionsOf(items, n)}, mission: MissionsOf(items, n),
   contract: {mission_contract}]

\* Every proposal of short missions to a lineage of up to two of them.
ShortMissions == MissionsOf(PolicyItems, 2)
Proposals ==
  [lineage: BoundedSeq(ShortMissions, 2), mission: ShortMissions, contract: Contracts]

AllCases == Changes(DeltaItems, 3) \cup Changes(OddItems, 2) \cup Proposals
FreeYawCases == Changes(FreeYawItems, 2)

\* The gateway's budget, and one whose single limits bind on short missions.
LooseBudget ==
  [DefaultChangeBudget EXCEPT !.maximum_insertions = 1, !.maximum_deletions = 1,
     !.maximum_changed_item_percent = 100, !.allow_destination_change = TRUE]
MCBudgets == {DefaultChangeBudget, LooseBudget}
=============================================================================
