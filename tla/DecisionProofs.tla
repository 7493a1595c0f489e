--------------------------- MODULE DecisionProofs ---------------------------
(***************************************************************************)
(* What the decision chain allows and what the delta and the budget        *)
(* measure, for every lineage, every proposal, every budget and every      *)
(* contract whose authorities are ordered.                                 *)
(***************************************************************************)
EXTENDS DecisionModel, DeltaProofs

\* The tiers of the contract compiled into the gateway are ordered.
THEOREM GatewayTiersOrdered == TiersOrdered(mission_contract.authority_policy)
BY DEF mission_contract, TiersOrdered

-----------------------------------------------------------------------------
(* The chain                                                                *)

\* Everything a proposal that is no re-upload has to pass in the chain.
Passed(mission, delta_, class, budget, contract, authority, in_flight) ==
  /\ class \notin {"ROLLBACK", "STALE_PARENT", "CONCURRENT_CONFLICT"}
  /\ class = "UNRELATED_REPLACEMENT" =>
       authority_can_administer_contract(authority, contract.authority_policy)
  /\ budget.within_budget
  /\ ~InFlightReplanBlocked(contract, authority, in_flight)
  /\ ~DestinationChangeBlocked(delta_, contract, authority)
  /\ OffendingItems(mission, contract, authority) = {}
  /\ InsideContractGeometry(mission, contract)

\* The chain of early returns as a condition: a verdict is ALLOW exactly for a
\* re-upload and for what passes every test, under a contract that applies.
LEMMA AllowCondition ==
  ASSUME NEW mission, NEW delta_, NEW class, NEW budget, NEW contract, NEW authority,
         NEW in_flight, NEW time
  PROVE  evaluate_mission_authorization(mission, delta_, class, budget, contract,
           authority, in_flight, time) = "ALLOW"
         <=> /\ ContractApplies(contract, time)
             /\ \/ class = "NO_OP_REUPLOAD"
                \/ Passed(mission, delta_, class, budget, contract, authority, in_flight)
BY DEF evaluate_mission_authorization, CommandVerdict, Passed

\* b is a tier no lower than a.
HigherTier(a, b) ==
  \/ a = b
  \/ a = "NORMAL_OPERATOR" /\ b = "EMERGENCY_AUTHORITY"
  \/ a = "EMERGENCY_AUTHORITY" /\ b = "SECURITY_ADMIN"

\* No test gets harder with a higher tier, and none gets harder on the ground.
LEMMA PassedMonotone ==
  ASSUME NEW mission, NEW delta_, NEW class, NEW contract,
         TiersOrdered(contract.authority_policy),
         NEW a \in MissionAuthorityTier, NEW b \in MissionAuthorityTier, HigherTier(a, b),
         NEW f \in BOOLEAN, NEW g \in BOOLEAN, g => f,
         Passed(mission, delta_, class,
                evaluate_change_budget(delta_, DefaultChangeBudget, a), contract, a, f)
  PROVE  Passed(mission, delta_, class,
                evaluate_change_budget(delta_, DefaultChangeBudget, b), contract, b, g)
<1> DEFINE policy == contract.authority_policy
<1>1. /\ authority_can_administer_contract(a, policy)
           => authority_can_administer_contract(b, policy)
      /\ authority_can_change_destination(a, policy)
           => authority_can_change_destination(b, policy)
      /\ authority_can_use_emergency_policy(a, policy)
           => authority_can_use_emergency_policy(b, policy)
  BY DEF TiersOrdered, HigherTier, authority_can_administer_contract,
         authority_can_change_destination, authority_can_use_emergency_policy
<1> HIDE DEF policy
<1>2. evaluate_change_budget(delta_, DefaultChangeBudget, b).within_budget
  <2>1. evaluate_change_budget(delta_, DefaultChangeBudget, a).within_budget
    BY DEF Passed
  <2> QED BY <2>1 DEF evaluate_change_budget, HigherTier
<1>3. ~InFlightReplanBlocked(contract, b, g)
  BY DEF Passed, InFlightReplanBlocked, HigherTier
<1>4. ~DestinationChangeBlocked(delta_, contract, b)
  BY <1>1 DEF Passed, DestinationChangeBlocked, policy
<1>5. OffendingItems(mission, contract, b) = {}
  BY <1>1 DEF Passed, OffendingItems, policy
<1> QED BY <1>1, <1>2, <1>3, <1>4, <1>5 DEF Passed, policy

\* A verdict is monotone in the tier and in the flight state.
LEMMA VerdictMonotone ==
  ASSUME NEW tracker, NEW delta_, TiersOrdered(case.contract.authority_policy),
         NEW a \in MissionAuthorityTier, NEW b \in MissionAuthorityTier, HigherTier(a, b),
         NEW f \in BOOLEAN, NEW g \in BOOLEAN, g => f,
         Verdict(tracker, delta_, a, f) = "ALLOW"
  PROVE  Verdict(tracker, delta_, b, g) = "ALLOW"
<1> DEFINE class == classify_revision_causality(tracker,
                      make_proposal_record(tracker.proposed, tracker.current), delta_, None)
           mission == tracker.proposed.mission
           budget(authority) == evaluate_change_budget(delta_, DefaultChangeBudget, authority)
           verdict(authority, in_flight) ==
             evaluate_mission_authorization(mission, delta_, class, budget(authority),
                                            case.contract, authority, in_flight, 0)
<1>1. \A authority, in_flight :
        Verdict(tracker, delta_, authority, in_flight) = verdict(authority, in_flight)
  BY DEF Verdict
<1>2. verdict(a, f) = "ALLOW"
  BY <1>1
<1> HIDE DEF class, mission
<1>3. /\ ContractApplies(case.contract, 0)
      /\ \/ class = "NO_OP_REUPLOAD"
         \/ Passed(mission, delta_, class, budget(a), case.contract, a, f)
  BY <1>2, AllowCondition
<1>4. \/ class = "NO_OP_REUPLOAD"
      \/ Passed(mission, delta_, class, budget(b), case.contract, b, g)
  BY <1>3, PassedMonotone
<1>5. verdict(b, g) = "ALLOW"
  BY <1>3, <1>4, AllowCondition
<1> QED BY <1>1, <1>5

-----------------------------------------------------------------------------
(* What has been decided                                                    *)

\* The hash of a revision is the hash of its mission.
IsRevision(r) ==
  /\ r.mission \in CanonicalMissions("MISSION")
  /\ r.hash = compute_mission_hash(r.mission)

\* The fields of a tracker; without a current revision there is no history.
IsTracker(t) ==
  /\ t = [parent |-> t.parent, current |-> t.current, proposed |-> t.proposed,
          history |-> t.history, next_id |-> t.next_id]
  /\ t.next_id \in Nat \ {0}
  /\ t.current = None \/ IsRevision(t.current)
  /\ t.proposed = None \/ IsRevision(t.proposed)
  /\ t.current = None => t.history = <<>>

\* The delta is the one of the lineage that is kept, and the verdicts are those
\* on both.
DecidedInv ==
  /\ case \in Cases
  /\ IsTracker(revisions)
  /\ verdicts # None =>
       /\ IsRevision(revisions.proposed)
       /\ delta = Delta(revisions)
       /\ verdicts = Verdicts(revisions, delta)

\* Nothing has been committed or decided at first.
LEMMA DecidedInit == Init => DecidedInv
BY DEF Init, NewTracker, DecidedInv, IsTracker

\* Proposing and committing keep a tracker.
LEMMA TrackerStep ==
  ASSUME NEW t, IsTracker(t), NEW mission \in CanonicalMissions("MISSION")
  PROVE  LET p == propose_mission_revision(t, mission) IN
         IsTracker(p) /\ IsRevision(p.proposed) /\ IsTracker(commit_proposed_revision(p))
<1> DEFINE revision == make_mission_revision(t.next_id, mission)
           p == propose_mission_revision(t, mission)
           next == t.next_id + 1
<1>1. IsRevision(revision)
  BY DEF make_mission_revision, IsRevision
<1>2. next \in Nat \ {0}
  BY DEF IsTracker
<1>3. p = [t EXCEPT !.proposed = revision, !.next_id = next]
  BY DEF propose_mission_revision
<1> HIDE DEF revision, next, p
<1>4. p = [parent |-> t.parent, current |-> t.current, proposed |-> revision,
           history |-> t.history, next_id |-> next]
  BY <1>3 DEF IsTracker
<1>5. IsTracker(p) /\ IsRevision(p.proposed)
  BY <1>1, <1>2, <1>4 DEF IsTracker
<1>6. ASSUME NEW q, IsTracker(q) PROVE IsTracker(commit_proposed_revision(q))
  BY <1>6 DEF IsTracker, commit_proposed_revision, can_commit
<1> QED BY <1>5, <1>6 DEF p

\* Committing a lineage and deciding on a proposal keep the invariant.
LEMMA DecidedStep == DecidedInv /\ [Next]_<<case, revisions, delta, verdicts>> => DecidedInv'
<1> SUFFICES ASSUME DecidedInv, [Next]_<<case, revisions, delta, verdicts>>
             PROVE  DecidedInv'
  OBVIOUS
<1>1. CASE Commit
  <2> DEFINE mission == case.lineage[revisions.next_id]
             p == propose_mission_revision(revisions, mission)
  <2>1. mission \in CanonicalMissions("MISSION")
    <3>1. /\ case.lineage \in Seq(CanonicalMissions("MISSION"))
          /\ revisions.next_id \in 1..Len(case.lineage)
      BY <1>1, CasesAssumption DEF Commit, DecidedInv, IsTracker
    <3> QED BY <3>1
  <2>2. revisions' = commit_proposed_revision(p)
    BY <1>1 DEF Commit
  <2> HIDE DEF mission
  <2>3. IsTracker(revisions')
    BY <2>1, <2>2, TrackerStep DEF DecidedInv
  <2> QED BY <1>1, <2>3 DEF Commit, DecidedInv
<1>2. CASE Decide
  <2>1. case.mission \in CanonicalMissions("MISSION")
    BY CasesAssumption DEF DecidedInv
  <2>2. IsTracker(revisions') /\ IsRevision(revisions'.proposed)
    BY <1>2, <2>1, TrackerStep DEF Decide, DecidedInv
  <2>3. delta' = Delta(revisions') /\ verdicts' = Verdicts(revisions, delta)'
    BY <1>2 DEF Decide, Verdicts, Verdict
  <2> QED BY <1>2, <2>2, <2>3 DEF Decide, DecidedInv
<1>3. CASE UNCHANGED <<case, revisions, delta, verdicts>>
  BY <1>3 DEF DecidedInv, Verdicts, Verdict
<1> QED BY <1>1, <1>2, <1>3 DEF Next

\* What is allowed is what the chain allows on the lineage that is kept.
LEMMA AllowedIsVerdict ==
  ASSUME DecidedInv, verdicts # None,
         NEW authority \in MissionAuthorityTier, NEW in_flight \in BOOLEAN
  PROVE  Allowed(authority, in_flight)
           <=> Verdict(revisions, delta, authority, in_flight) = "ALLOW"
BY DEF DecidedInv, Allowed, Verdicts

\* What a tier may do every higher tier may do, and what is allowed in flight is
\* allowed on the ground.
THEOREM AuthorityIsMonotone == Spec => []AuthorityMonotone
<1>1. DecidedInv => AuthorityMonotone
  <2> SUFFICES ASSUME DecidedInv, verdicts # None, NEW in_flight \in BOOLEAN
               PROVE
                 /\ Allowed("NORMAL_OPERATOR", in_flight)
                      => Allowed("EMERGENCY_AUTHORITY", in_flight)
                 /\ Allowed("EMERGENCY_AUTHORITY", in_flight)
                      => Allowed("SECURITY_ADMIN", in_flight)
                 /\ \A authority \in MissionAuthorityTier :
                      Allowed(authority, TRUE) => Allowed(authority, FALSE)
    BY DEF AuthorityMonotone
  <2>1. TiersOrdered(case.contract.authority_policy)
    BY CasesAssumption DEF DecidedInv
  <2>2. ASSUME NEW a \in MissionAuthorityTier, NEW b \in MissionAuthorityTier,
               HigherTier(a, b), NEW f \in BOOLEAN, NEW g \in BOOLEAN, g => f, Allowed(a, f)
        PROVE  Allowed(b, g)
    BY <2>1, <2>2, VerdictMonotone, AllowedIsVerdict
  <2>3. /\ HigherTier("NORMAL_OPERATOR", "EMERGENCY_AUTHORITY")
        /\ HigherTier("EMERGENCY_AUTHORITY", "SECURITY_ADMIN")
        /\ \A a : HigherTier(a, a)
        /\ {"NORMAL_OPERATOR", "EMERGENCY_AUTHORITY", "SECURITY_ADMIN"}
             = MissionAuthorityTier
    BY DEF HigherTier, MissionAuthorityTier
  <2> QED BY <2>2, <2>3
<1> QED BY <1>1, DecidedInit, DecidedStep, PTL DEF Spec

\* No tier is allowed superseded content, nor new content outside the geometric
\* limits of the contract.
THEOREM HardLimitsHold == Spec => []NoTierOverridesHardLimits
<1>1. DecidedInv => NoTierOverridesHardLimits
  <2> SUFFICES ASSUME DecidedInv, verdicts # None,
                      NEW authority \in MissionAuthorityTier, NEW in_flight \in BOOLEAN,
                      Allowed(authority, in_flight)
               PROVE
                 \/ /\ revisions.current # None
                    /\ revisions.proposed.hash = revisions.current.hash
                 \/ /\ ~historical_content_exists(revisions, revisions.proposed.hash)
                    /\ InsideContractGeometry(revisions.proposed.mission, case.contract)
    BY DEF NoTierOverridesHardLimits
  <2> DEFINE record == make_proposal_record(revisions.proposed, revisions.current)
             class == classify_revision_causality(revisions, record, delta, None)
             budget == evaluate_change_budget(delta, DefaultChangeBudget, authority)
             mission == revisions.proposed.mission
  <2>1. record.revision = revisions.proposed
    BY DEF make_proposal_record
  <2>2. \/ class = "NO_OP_REUPLOAD"
        \/ Passed(mission, delta, class, budget, case.contract, authority, in_flight)
    <3>1. evaluate_mission_authorization(mission, delta, class, budget, case.contract,
                                         authority, in_flight, 0) = "ALLOW"
      BY AllowedIsVerdict DEF Verdict
    <3> HIDE DEF class, budget, mission
    <3> QED BY <3>1, AllowCondition
  <2> HIDE DEF record
  <2>3. class = "NO_OP_REUPLOAD" =>
          revisions.current # None /\ revisions.proposed.hash = revisions.current.hash
    BY <2>1 DEF classify_revision_causality
  <2>4. class # "ROLLBACK" /\ revisions.current # None =>
          \/ revisions.proposed.hash = revisions.current.hash
          \/ ~historical_content_exists(revisions, revisions.proposed.hash)
    BY <2>1 DEF classify_revision_causality
  <2>5. revisions.current = None =>
          ~historical_content_exists(revisions, revisions.proposed.hash)
    BY DEF DecidedInv, IsTracker, historical_content_exists
  <2> QED BY <2>2, <2>3, <2>4, <2>5 DEF Passed
<1> QED BY <1>1, DecidedInit, DecidedStep, PTL DEF Spec

-----------------------------------------------------------------------------
(* What the delta and the budget measure                                    *)

\* Once two missions have been compared, the delta is the one between them.
LEMMA ComparedMissions ==
  ASSUME DecidedInv, Compared
  PROVE  /\ IsRevision(revisions.current) /\ IsRevision(revisions.proposed)
         /\ current \in CanonicalMissions("MISSION")
         /\ proposed \in CanonicalMissions("MISSION")
         /\ current.items \in Seq(CanonicalItem) /\ proposed.items \in Seq(CanonicalItem)
         /\ delta = compute_mission_delta(current, proposed)
<1>1. IsRevision(revisions.current) /\ IsRevision(revisions.proposed)
  BY DEF DecidedInv, Compared, IsTracker
<1>2. current \in CanonicalMissions("MISSION") /\ proposed \in CanonicalMissions("MISSION")
  BY <1>1 DEF IsRevision, current, proposed
<1>3. delta = compute_mission_delta(current, proposed)
  BY DEF DecidedInv, Compared, Delta, current, proposed
<1>4. current.items \in Seq(CanonicalItem) /\ proposed.items \in Seq(CanonicalItem)
  BY <1>2 DEF CanonicalMissions
<1> QED BY <1>1, <1>2, <1>3, <1>4

\* A no-op is a re-upload under the committed hash, and without a NaN in the
\* committed mission every such re-upload is a no-op.
THEOREM NoOpIsSameHash == Spec => []NoOpIffSameNumbers
<1>1. DecidedInv => NoOpIffSameNumbers
  <2> SUFFICES ASSUME DecidedInv, Compared
               PROVE  /\ delta.no_op => SameContent
                      /\ SameContent /\ FloatsAreNumbers(current) => delta.no_op
    BY DEF NoOpIffSameNumbers, FloatsAreNumbers
  <2>1. SameContent <=> compute_mission_hash(current) = compute_mission_hash(proposed)
    BY ComparedMissions DEF IsRevision, current, proposed, SameContent
  <2>2. delta.no_op => compute_mission_hash(current) = compute_mission_hash(proposed)
    BY ComparedMissions, NoOpHash
  <2>3. /\ FloatsAreNumbers(current)
        /\ compute_mission_hash(current) = compute_mission_hash(proposed)
        => delta.no_op
    BY ComparedMissions, HashNoOp
  <2> QED BY <2>1, <2>2, <2>3
<1> QED BY <1>1, DecidedInit, DecidedStep, PTL DEF Spec

\* The alignment is a longest common subsequence of any two missions.
THEOREM LongestAlignment == Spec => []AlignmentIsLongest
<1>1. DecidedInv => AlignmentIsLongest
  <2> SUFFICES ASSUME DecidedInv, Compared PROVE AlignmentIsLongest
    BY DEF AlignmentIsLongest
  <2> DEFINE matches == align_exact_items(current.items, proposed.items)
  <2>1. /\ CommonSubsequence(current.items, proposed.items, matches)
        /\ \A pairs \in SUBSET Pairs :
             CommonSubsequence(current.items, proposed.items, pairs)
               => Cardinality(pairs) <= Cardinality(matches)
    BY ComparedMissions, AlignmentCorrect DEF Pairs
  <2>2. \A pairs \in SUBSET {p \in Pairs : SameItem(p)} : pairs \in SUBSET Pairs
    OBVIOUS
  <2> HIDE DEF matches
  <2>3. \A pairs \in SUBSET {p \in Pairs : SameItem(p)} :
          CommonSubsequence(current.items, proposed.items, pairs)
            => Cardinality(pairs) <= Cardinality(matches)
    BY <2>1, <2>2
  <2> QED BY <2>1, <2>3, Zenon DEF AlignmentIsLongest, matches
<1> QED BY <1>1, DecidedInit, DecidedStep, PTL DEF Spec

\* Whatever the alignment, the reorders and the pairing find, as many items of
\* one mission are kept as of the other.
THEOREM EveryItemAccountedFor == Spec => []ItemsAccountedFor
<1>1. DecidedInv => ItemsAccountedFor
  <2> SUFFICES ASSUME DecidedInv, Compared
               PROVE  Len(current.items) - delta.deleted
                        = Len(proposed.items) - delta.inserted
    BY DEF ItemsAccountedFor
  <2> DEFINE n == Len(current.items)
             m == Len(proposed.items)
             c == Cardinality(Related(current, proposed))
             x == delta.deleted
             y == delta.inserted
  <2>1. c \in Nat /\ x = n - c /\ y = m - c /\ n \in Nat /\ m \in Nat
    BY ComparedMissions, ItemsOutside
  <2> HIDE DEF n, m, c, x, y
  <2>2. n - x = m - y
    BY <2>1
  <2> QED BY <2>2 DEF n, m, x, y
<1> QED BY <1>1, DecidedInit, DecidedStep, PTL DEF Spec

\* Within a budget there is a matching of the two missions whose changed pairs
\* are close and few: the one the delta was computed from.
THEOREM BudgetIsBound == Spec => []BudgetBoundsChange
<1>1. DecidedInv => BudgetBoundsChange
  <2> SUFFICES ASSUME DecidedInv, Compared, NEW budget \in Budgets,
                      evaluate_change_budget(delta, budget, proposal_authority).within_budget
               PROVE
                 \E pairs \in SUBSET Pairs :
                   LET changed == {p \in pairs : ~SameItem(p)}
                       lost    == Len(current.items) - Cardinality(pairs)
                       added   == Len(proposed.items) - Cardinality(pairs)
                   IN
                   /\ Injective(pairs)
                   /\ \A p \in changed : Close(p, budget)
                   /\ lost <= budget.maximum_deletions
                   /\ added <= budget.maximum_insertions
                   /\ 100 * (Cardinality(changed) + lost + added)
                        <= budget.maximum_changed_item_percent * delta.mission_size
    BY Zenon DEF BudgetBoundsChange
  <2> DEFINE related == Related(current, proposed)
             changed == Paired(current, proposed)
             reorders == Cardinality(Reordered(current, proposed))
             far == delta.maximum_horizontal_displacement_m
             high == delta.maximum_altitude_change_m
             x == delta.deleted
             y == delta.inserted
             total == delta.item_changes
             size == delta.mission_size
             c == Cardinality(changed)
  <2>1. /\ delta = compute_mission_delta(current, proposed)
        /\ current.items \in Seq(CanonicalItem) /\ proposed.items \in Seq(CanonicalItem)
    BY ComparedMissions
  <2>2. related \in SUBSET Pairs /\ Injective(related)
    BY <2>1, RelatedMatching DEF Pairs, PairSets
  <2>3. {p \in related : ~SameItem(p)} = changed
    BY <2>1, ChangedPairs DEF SameItem, Same
  <2>4. /\ x = Len(current.items) - Cardinality(related)
        /\ y = Len(proposed.items) - Cardinality(related)
        /\ x \in Nat /\ y \in Nat
    BY <2>1, ItemsOutside
  <2>5. /\ total = reorders + c + x + y /\ reorders \in Nat /\ c \in Nat
        /\ c = 0 => changed = {}
    BY <2>1, ChangesCounted
  <2>6. /\ delta.no_op <=> total = 0
        /\ size \in Nat
    <3>1. size = Max({Len(current.items), Len(proposed.items)}) /\ (delta.no_op <=> total = 0)
      BY <2>1, DeltaFields
    <3>2. Len(current.items) \in Nat /\ Len(proposed.items) \in Nat
      BY <2>1
    <3> QED BY <3>1, <3>2, MaxOfTwo
  <2>7. /\ far \in Nat /\ high \in Nat
        /\ \A p \in changed :
             LET v == current.items[p[1]]  w == proposed.items[p[2]] IN
             /\ horizontal_distance_m(v, w) \in Nat /\ horizontal_distance_m(v, w) <= far
             /\ v.z # NaN /\ w.z # NaN
             /\ altitude_change_m(v, w) \in Nat /\ altitude_change_m(v, w) <= high
    BY <2>1, ChangesBounded
  <2> DEFINE h == budget.maximum_horizontal_change_m
             a == budget.maximum_altitude_change_m
             i == budget.maximum_insertions
             d == budget.maximum_deletions
             percent == budget.maximum_changed_item_percent
  <2>8. h \in Nat /\ a \in Nat /\ i \in Nat /\ d \in Nat /\ percent \in Nat
    BY BudgetsAssumption
  <2>9. \/ total = 0
        \/ /\ ~(far > h) /\ ~(high > a) /\ ~(y > i) /\ ~(x > d)
           /\ ~(100 * total > percent * size)
    BY <2>6 DEF evaluate_change_budget, BudgetExceeded, proposal_authority
  <2> HIDE DEF related, changed, reorders, far, high, x, y, total, size, c, h, a, i, d, percent
  <2>10. x <= d /\ y <= i
    <3>1. x \in Nat /\ y \in Nat /\ c \in Nat /\ reorders \in Nat /\ i \in Nat /\ d \in Nat
      BY <2>4, <2>5, <2>8
    <3>2. total = reorders + c + x + y
      BY <2>5
    <3>3. total = 0 \/ (~(y > i) /\ ~(x > d))
      BY <2>9
    <3> QED BY <3>1, <3>2, <3>3
  <2>11. 100 * (c + x + y) <= percent * size
    <3>1. percent * size \in Nat
      BY <2>6, <2>8
    <3> DEFINE limit == percent * size
    <3> HIDE DEF limit
    <3>2. limit \in Nat /\ (total = 0 \/ ~(100 * total > limit))
      BY <2>9, <3>1 DEF limit
    <3>3. x \in Nat /\ y \in Nat /\ c \in Nat /\ reorders \in Nat
      BY <2>4, <2>5
    <3>4. total = reorders + c + x + y
      BY <2>5
    <3>5. 100 * (c + x + y) <= limit
      BY <3>2, <3>3, <3>4
    <3> QED BY <3>5 DEF limit
  <2>12. ASSUME NEW p \in changed PROVE Close(p, budget)
    <3> DEFINE v == current.items[p[1]]
               w == proposed.items[p[2]]
    <3>1. total # 0
      <4> SUFFICES ASSUME total = 0 PROVE FALSE
        OBVIOUS
      <4>1. c = 0
        BY <2>4, <2>5
      <4> QED BY <2>5, <4>1
    <3>2. /\ horizontal_distance_m(v, w) \in Nat /\ horizontal_distance_m(v, w) <= far
          /\ v.z # NaN /\ w.z # NaN
          /\ altitude_change_m(v, w) \in Nat /\ altitude_change_m(v, w) <= high
      BY <2>7
    <3> HIDE DEF v, w
    <3>3. horizontal_distance_m(v, w) <= h /\ altitude_change_m(v, w) <= a
      BY <2>7, <2>8, <2>9, <3>1, <3>2
    <3> QED BY <3>2, <3>3 DEF Close, v, w, h, a
  <2>13. Cardinality({p \in related : ~SameItem(p)}) = c
    BY <2>3 DEF c
  <2>14. /\ \A p \in {q \in related : ~SameItem(q)} : Close(p, budget)
         /\ Len(current.items) - Cardinality(related) <= budget.maximum_deletions
         /\ Len(proposed.items) - Cardinality(related) <= budget.maximum_insertions
         /\ 100 * (Cardinality({p \in related : ~SameItem(p)})
                     + (Len(current.items) - Cardinality(related))
                     + (Len(proposed.items) - Cardinality(related)))
              <= budget.maximum_changed_item_percent * delta.mission_size
    BY <2>3, <2>4, <2>10, <2>11, <2>12, <2>13 DEF d, i, percent, size
  <2> QED BY <2>2, <2>14
<1> QED BY <1>1, DecidedInit, DecidedStep, PTL DEF Spec

-----------------------------------------------------------------------------
(* The destination                                                          *)

\* Two missions end with the same, as far as the destination goes.
SameEnd(old, new) ==
  /\ old = <<>> <=> new = <<>>
  /\ old # <<>> /\ new # <<>> =>
       LET a == old[Len(old)]  b == new[Len(new)] IN
       /\ a.command = b.command /\ a.x = b.x
       /\ canonical_float(a.z) = canonical_float(b.z)

\* Missions of one content end with the same.
LEMMA SameContentSameEnd ==
  ASSUME NEW a \in CanonicalMissions("MISSION"), NEW b \in CanonicalMissions("MISSION"),
         compute_mission_hash(a) = compute_mission_hash(b)
  PROVE  SameEnd(a.items, b.items)
<1>1. /\ a.items \in Seq(CanonicalItem) /\ b.items \in Seq(CanonicalItem)
      /\ Len(a.items) = Len(b.items)
  BY SameHash DEF CanonicalMissions
<1>2. a.items = <<>> <=> b.items = <<>>
  BY <1>1
<1>3. ASSUME a.items # <<>>
      PROVE  LET v == a.items[Len(a.items)]  w == b.items[Len(b.items)] IN
             /\ v.command = w.command /\ v.x = w.x
             /\ canonical_float(v.z) = canonical_float(w.z)
  <2>1. Len(a.items) \in DOMAIN a.items
    BY <1>1, <1>3
  <2> QED BY <1>1, <2>1, SameHash DEF canonical_float
<1> QED BY <1>2, <1>3 DEF SameEnd

\* What an operator is allowed on the ground keeps what the mission ends with,
\* and unless it is a re-upload leads into the terminal region.
THEOREM DestinationIsKept == Spec => []OperatorKeepsDestination
<1>1. DecidedInv => OperatorKeepsDestination
  <2> SUFFICES ASSUME DecidedInv, Compared, Allowed("NORMAL_OPERATOR", FALSE)
               PROVE
                 /\ SameEnd(current.items, proposed.items)
                 /\ SameContent \/ point_inside_region(last_position_item(proposed).x,
                                                      case.contract.terminal_region)
    BY DEF OperatorKeepsDestination, SameEnd
  <2>1. /\ current \in CanonicalMissions("MISSION")
        /\ proposed \in CanonicalMissions("MISSION")
        /\ delta = compute_mission_delta(current, proposed)
        /\ revisions.current.hash = compute_mission_hash(current)
        /\ revisions.proposed.hash = compute_mission_hash(proposed)
    BY ComparedMissions DEF IsRevision, current, proposed
  <2>2. SameContent => SameEnd(current.items, proposed.items)
    BY <2>1, SameContentSameEnd DEF SameContent
  <2>3. ~delta.destination_changed => SameEnd(current.items, proposed.items)
    <3>1. delta.destination_changed = destination_changed(current.items, proposed.items)
      BY <2>1, DeltaFields
    <3> QED BY <3>1 DEF destination_changed, SameEnd, float_equal, canonical_float
  <2> DEFINE record == make_proposal_record(revisions.proposed, revisions.current)
             class == classify_revision_causality(revisions, record, delta, None)
             budget == evaluate_change_budget(delta, DefaultChangeBudget, "NORMAL_OPERATOR")
             mission == revisions.proposed.mission
  <2>4. \/ class = "NO_OP_REUPLOAD"
        \/ Passed(mission, delta, class, budget, case.contract, "NORMAL_OPERATOR", FALSE)
    <3>1. evaluate_mission_authorization(mission, delta, class, budget, case.contract,
                                         "NORMAL_OPERATOR", FALSE, 0) = "ALLOW"
      BY AllowedIsVerdict DEF Verdict, Compared, MissionAuthorityTier
    <3> HIDE DEF class, budget, mission
    <3> QED BY <3>1, AllowCondition
  <2>5. class = "NO_OP_REUPLOAD" => SameContent
    <3>1. record.revision = revisions.proposed
      BY DEF make_proposal_record
    <3> HIDE DEF record
    <3> QED BY <3>1 DEF classify_revision_causality, SameContent
  <2>6. budget.within_budget => SameContent \/ ~delta.destination_changed
    <3>1. delta.no_op => SameContent
      BY <2>1, NoOpHash DEF SameContent
    <3>2. budget.within_budget => delta.no_op \/ ~delta.destination_changed
      BY DEF evaluate_change_budget, BudgetExceeded, DefaultChangeBudget
    <3> QED BY <3>1, <3>2
  <2>7. InsideContractGeometry(mission, case.contract)
          => point_inside_region(last_position_item(proposed).x,
                                 case.contract.terminal_region)
    BY DEF InsideContractGeometry, proposed
  <2> HIDE DEF class, budget, mission
  <2>8. SameContent \/ ~delta.destination_changed
    BY <2>4, <2>5, <2>6 DEF Passed
  <2>9. SameContent \/ InsideContractGeometry(mission, case.contract)
    BY <2>4, <2>5 DEF Passed
  <2> QED BY <2>2, <2>3, <2>7, <2>8, <2>9
<1> QED BY <1>1, DecidedInit, DecidedStep, PTL DEF Spec
=============================================================================
