--------------------------- MODULE DecisionModel ---------------------------
(***************************************************************************)
(* The pure part of a decision, from a lineage and a proposal to the       *)
(* verdicts, the way the gateway calls it (udp_gateway.cpp:357-481): the   *)
(* delta and what the change budget makes of it, and the decision chain    *)
(* for every authority tier, in flight and on the ground.  Each case is    *)
(* decided on once, after its lineage has been committed.                  *)
(***************************************************************************)
EXTENDS MissionDelta, MissionRevisionCausality, GatewayPolicy, SequencesExt

CONSTANTS
  Cases,     \* what is decided on: lineage, mission and contract
  Budgets    \* change budgets to measure the delta against

VARIABLES case, revisions, delta, verdicts

\* Whoever may do something, a higher tier may do it too.
TiersOrdered(policy) ==
  \A tiers \in {policy.destination_change_authorities, policy.emergency_authorities,
                policy.contract_admin_authorities} :
    /\ "NORMAL_OPERATOR" \in tiers => "EMERGENCY_AUTHORITY" \in tiers
    /\ "EMERGENCY_AUTHORITY" \in tiers => "SECURITY_ADMIN" \in tiers

ASSUME CasesAssumption ==
  \A c \in Cases :
    /\ c.mission \in CanonicalMissions("MISSION")
    /\ c.lineage \in Seq(CanonicalMissions("MISSION"))
    /\ TiersOrdered(c.contract.authority_policy)

\* Limits are never negative.
ASSUME BudgetsAssumption ==
  Budgets \subseteq
    [maximum_horizontal_change_m: Nat, maximum_altitude_change_m: Nat,
     maximum_insertions: Nat, maximum_deletions: Nat, maximum_changed_item_percent: Nat,
     allow_destination_change: BOOLEAN]

Mission(items) == [mission_type |-> "MISSION", items |-> items]
MissionsOf(items, n) == {Mission(s) : s \in BoundedSeq(items, n)}

Init ==
  /\ case \in Cases
  /\ revisions = NewTracker
  /\ delta = None /\ verdicts = None

\* A lineage is the missions that were proposed and committed, in order.
Commit ==
  /\ verdicts = None /\ revisions.next_id <= Len(case.lineage)
  /\ revisions' = commit_proposed_revision(
                    propose_mission_revision(revisions, case.lineage[revisions.next_id]))
  /\ UNCHANGED <<case, delta, verdicts>>

Delta(tracker) ==
  IF tracker.current = None THEN NoDelta
  ELSE compute_mission_delta(tracker.current.mission, tracker.proposed.mission)

Verdict(tracker, the_delta, authority, in_flight) ==
  LET class == classify_revision_causality(tracker,
                 make_proposal_record(tracker.proposed, tracker.current), the_delta, None)
      budget == evaluate_change_budget(the_delta, DefaultChangeBudget, authority)
  IN evaluate_mission_authorization(tracker.proposed.mission, the_delta, class, budget,
                                    case.contract, authority, in_flight, 0)

Verdicts(tracker, the_delta) ==
  [authority \in MissionAuthorityTier |->
     [in_flight \in BOOLEAN |-> Verdict(tracker, the_delta, authority, in_flight)]]

Decide ==
  /\ verdicts = None /\ revisions.next_id > Len(case.lineage)
  /\ revisions' = propose_mission_revision(revisions, case.mission)
  /\ delta' = Delta(revisions')
  /\ verdicts' = Verdicts(revisions', delta')
  /\ UNCHANGED case

Next == Commit \/ Decide

Spec == Init /\ [][Next]_<<case, revisions, delta, verdicts>>

-----------------------------------------------------------------------------
(* What the delta and the budget measure                                    *)

\* There is a delta of two missions.
Compared == verdicts # None /\ revisions.current # None
current == revisions.current.mission
proposed == revisions.proposed.mission

SameContent == revisions.current.hash = revisions.proposed.hash

\* A delta is a no-op exactly when the two missions have the same hash: the
\* budget and the causality class see the same re-uploads (mission_delta.cpp:
\* 66-82, 611, canonical_mission.cpp:11-26, tests/mission_delta_test.cpp:59).
NoOpIffSameHash == Compared => (delta.no_op <=> SameContent)

\* The same as far as the comparison of floats with == lets it hold: a no-op has
\* the committed hash whatever the floats are, and the committed hash is a no-op
\* if the committed mission has no NaN.
NoOpIffSameNumbers ==
  Compared =>
    /\ delta.no_op => SameContent
    /\ SameContent /\ (\A i \in DOMAIN current.items :
                      NaN \notin {current.items[i].z, current.items[i].param})
         => delta.no_op

Pairs == (DOMAIN current.items) \X (DOMAIN proposed.items)
SameItem(p) == same_semantic_item(current.items[p[1]], proposed.items[p[2]])

\* The alignment is a common subsequence, and no common subsequence is longer
\* (mission_delta.cpp:116-174).
AlignmentIsLongest ==
  Compared =>
    LET matches == align_exact_items(current.items, proposed.items) IN
    /\ CommonSubsequence(current.items, proposed.items, matches)
    /\ \A pairs \in SUBSET {p \in Pairs : SameItem(p)} :
         CommonSubsequence(current.items, proposed.items, pairs)
           => Cardinality(pairs) <= Cardinality(matches)

\* Every item is used once: the items that were kept, moved, reordered or
\* changed are as many on both sides (mission_delta.cpp:463-609).
ItemsAccountedFor ==
  Compared =>
    Len(current.items) - delta.deleted = Len(proposed.items) - delta.inserted

\* Two items a change within the budget may turn into one another.
Close(p, budget) ==
  LET a == current.items[p[1]]  b == proposed.items[p[2]] IN
  /\ horizontal_distance_m(a, b) <= budget.maximum_horizontal_change_m
  /\ a.z # NaN /\ b.z # NaN
  /\ altitude_change_m(a, b) <= budget.maximum_altitude_change_m

\* What the budget is for, without the algorithm: if an operator's change is
\* within it, the missions can be matched item by item so that matched items
\* are equal or close, and few items are changed, added or left out
\* (mission_change_budget.cpp:32-125 on the output of mission_delta.cpp).
BudgetBoundsChange ==
  Compared =>
    \A budget \in Budgets :
      evaluate_change_budget(delta, budget, proposal_authority).within_budget =>
        \E pairs \in SUBSET Pairs :
          LET changed == {p \in pairs : ~SameItem(p)}
              lost    == Len(current.items) - Cardinality(pairs)
              added   == Len(proposed.items) - Cardinality(pairs)
          IN
          /\ Injective(pairs)
          /\ \A p \in changed : Close(p, budget)
          /\ lost <= budget.maximum_deletions
          /\ added <= budget.maximum_insertions
          /\ 100 * (Cardinality(changed) + lost + added)
               <= budget.maximum_changed_item_percent * delta.mission_size
-----------------------------------------------------------------------------
(* What is allowed                                                          *)

Allowed(authority, in_flight) == verdicts[authority][in_flight] = "ALLOW"

\* What a tier is allowed, every higher tier is allowed, and what is allowed in
\* flight is allowed on the ground: no check of the chain turns an authority
\* into a handicap (mission_authorization.cpp:168-298).
AuthorityMonotone ==
  verdicts # None =>
    \A in_flight \in BOOLEAN :
      /\ Allowed("NORMAL_OPERATOR", in_flight) => Allowed("EMERGENCY_AUTHORITY", in_flight)
      /\ Allowed("EMERGENCY_AUTHORITY", in_flight) => Allowed("SECURITY_ADMIN", in_flight)
      /\ \A authority \in MissionAuthorityTier :
           Allowed(authority, TRUE) => Allowed(authority, FALSE)

\* An operator's change of the committed mission keeps what the mission ends
\* with, and if that is no position, as with a return, the last position is in
\* the terminal region of the contract.  Delta and budget look at the last item,
\* the contract at the last positional one; a re-upload is looked at by none of
\* them (mission_delta.cpp:302-312, mission_change_budget.cpp:109-118,
\* mission_authorization.cpp:54-70, 118-128, 230-259, 310-322).
OperatorKeepsDestination ==
  Compared /\ Allowed("NORMAL_OPERATOR", FALSE) =>
    LET old == current.items  new == proposed.items IN
    /\ old = <<>> <=> new = <<>>
    /\ old # <<>> /\ new # <<>> =>
         LET a == old[Len(old)]  b == new[Len(new)] IN
         /\ a.command = b.command /\ a.x = b.x
         /\ canonical_float(a.z) = canonical_float(b.z)
    /\ SameContent \/ point_inside_region(last_position_item(proposed).x,
                                      case.contract.terminal_region)

\* No tier is allowed content the lineage has left behind, nor new content
\* outside the contract (README.md:287, 382).
NoTierOverridesHardLimits ==
  verdicts # None =>
    \A authority \in MissionAuthorityTier, in_flight \in BOOLEAN :
      Allowed(authority, in_flight) =>
        \/ /\ revisions.current # None
           /\ revisions.proposed.hash = revisions.current.hash
        \/ /\ ~historical_content_exists(revisions, revisions.proposed.hash)
           /\ InsideContractGeometry(revisions.proposed.mission, case.contract)
=============================================================================
