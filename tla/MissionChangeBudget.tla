------------------------ MODULE MissionChangeBudget ------------------------
(***************************************************************************)
(* The limits on how far one revision may move away from the committed     *)
(* mission (mission_change_budget.cpp).  Distances are in metres; the      *)
(* changed-item ratio is a pair of counts, so a limit on it is a percentage*)
(* and no division is needed.                                              *)
(***************************************************************************)
EXTENDS Integers

\* enum class MissionAuthorityTier
MissionAuthorityTier ==
  {"NORMAL_OPERATOR", "EMERGENCY_AUTHORITY", "SECURITY_ADMIN"}

\* The defaults of struct MissionChangeBudget, which the gateway uses.
DefaultChangeBudget ==
  [maximum_horizontal_change_m |-> 100,
   maximum_altitude_change_m   |-> 30,
   maximum_insertions          |-> 2,
   maximum_deletions           |-> 2,
   maximum_changed_item_percent |-> 50,
   allow_destination_change    |-> FALSE]

\* Mutant: the altitude limit is not looked at.
BudgetExceeded_any_altitude(delta, budget) ==
  \/ delta.maximum_horizontal_displacement_m > budget.maximum_horizontal_change_m
  \/ delta.inserted > budget.maximum_insertions
  \/ delta.deleted > budget.maximum_deletions
  \/ 100 * delta.item_changes > budget.maximum_changed_item_percent * delta.mission_size
  \/ delta.destination_changed /\ ~budget.allow_destination_change

BudgetExceeded(delta, budget) ==
  \/ delta.maximum_horizontal_displacement_m > budget.maximum_horizontal_change_m
  \/ delta.maximum_altitude_change_m > budget.maximum_altitude_change_m
  \/ delta.inserted > budget.maximum_insertions
  \/ delta.deleted > budget.maximum_deletions
  \/ 100 * delta.item_changes > budget.maximum_changed_item_percent * delta.mission_size
  \/ delta.destination_changed /\ ~budget.allow_destination_change

\* budget_violation: an administrator is let through, anyone else needs
\* higher authority.
evaluate_change_budget(delta, budget, authority) ==
  LET within == \/ delta.no_op
                \/ ~BudgetExceeded(delta, budget)
                \/ authority = "SECURITY_ADMIN"
  IN  [within_budget |-> within, requires_higher_authority |-> ~within]

=============================================================================
