---------------------------- MODULE MissionDelta ----------------------------
(***************************************************************************)
(* The semantic difference between two canonical missions                  *)
(* (mission_delta.cpp): exact items are aligned by a longest common        *)
(* subsequence, equal items left over are reorders, the remaining items    *)
(* are paired greedily by a score, and what is still unpaired was deleted  *)
(* or inserted.  A set of pairs <<i, j>> relates item i of the current     *)
(* mission to item j of the proposed one.                                  *)
(***************************************************************************)
EXTENDS CanonicalMission, Integers, FiniteSetsExt

Distance(a, b) == IF a < b THEN b - a ELSE a - b

horizontal_distance_m(a, b) == Distance(a.x, b.x)

\* Meant for altitudes that are numbers.
altitude_change_m(a, b) == Distance(Unsigned(a.z), Unsigned(b.z))

\* All comparisons are C++ == on the fields, so an item with a NaN is not even
\* the same as itself.
parameters_differ(a, b) == ~float_equal(a.param, b.param) \/ a.frame # b.frame

\* Mutant: the parameters are not compared.
same_item_any_parameter(a, b) ==
  a.command = b.command /\ a.frame = b.frame /\ a.x = b.x /\ float_equal(a.z, b.z)

same_semantic_item(a, b) ==
  /\ a.command = b.command /\ a.frame = b.frame
  /\ a.x = b.x /\ float_equal(a.z, b.z)
  /\ float_equal(a.param, b.param)

likely_same_logical_item(a, b) ==
  a.x = b.x \/ (a.command = b.command /\ a.frame = b.frame)

Old(pairs) == {p[1] : p \in pairs}
New(pairs) == {p[2] : p \in pairs}

\* Mutant: items are only compared index by index.
align_by_index(current, proposed) ==
  {p \in (DOMAIN current) \X (DOMAIN proposed) :
     p[1] = p[2] /\ same_semantic_item(current[p[1]], proposed[p[2]])}

Cells(current, proposed) == (0..Len(current)) \X (0..Len(proposed))

\* The table of longest-common-subsequence lengths.
lcs_lengths(current, proposed) ==
  LET dp[c \in Cells(current, proposed)] ==
        IF c[1] = 0 \/ c[2] = 0 THEN 0
        ELSE IF same_semantic_item(current[c[1]], proposed[c[2]])
             THEN dp[<<c[1] - 1, c[2] - 1>>] + 1
        ELSE Max({dp[<<c[1] - 1, c[2]>>], dp[<<c[1], c[2] - 1>>]})
  IN  dp

\* The walk back through the table from every cell; on a tie it drops an item of
\* the current mission.
lcs_matches(current, proposed, dp) ==
  LET matches[c \in Cells(current, proposed)] ==
        IF c[1] = 0 \/ c[2] = 0 THEN {}
        ELSE IF same_semantic_item(current[c[1]], proposed[c[2]])
             THEN matches[<<c[1] - 1, c[2] - 1>>] \cup {c}
        ELSE IF dp[<<c[1] - 1, c[2]>>] >= dp[<<c[1], c[2] - 1>>]
             THEN matches[<<c[1] - 1, c[2]>>]
             ELSE matches[<<c[1], c[2] - 1>>]
  IN  matches

align_exact_items(current, proposed) ==
  lcs_matches(current, proposed, lcs_lengths(current, proposed))
    [<<Len(current), Len(proposed)>>]

\* Mutant: a proposed item that was taken is not marked as used.
reordered_items_reused(current, proposed, matches) ==
  LET equal(i) == {j \in DOMAIN proposed \ New(matches) :
                     same_semantic_item(current[i], proposed[j])}
  IN  {<<i, Min(equal(i))>> :
         i \in {k \in DOMAIN current \ Old(matches) : equal(k) # {}}}

\* An unmatched item of the current mission takes the first unused equal item
\* of the proposed one.
reorder_item(current, proposed, matches, done, i) ==
  LET equal == {j \in DOMAIN proposed \ New(matches \cup done) :
                  same_semantic_item(current[i], proposed[j])}
  IN  IF i \in Old(matches) \/ equal = {} THEN done
      ELSE done \cup {<<i, Min(equal)>>}

reordered_items(current, proposed, matches) ==
  LET upto[i \in 0..Len(current)] ==
        IF i = 0 THEN {} ELSE reorder_item(current, proposed, matches, upto[i - 1], i)
  IN  upto[Len(current)]

\* The score of a pair, in thousandths: 100 m plus the distance unless the
\* position is the same, 0.01 per metre of altitude, 0.001 per index.
pair_score(current, proposed, p) ==
  LET a == current[p[1]]  b == proposed[p[2]] IN
  (IF a.x = b.x THEN 0 ELSE 100000 + 1000 * horizontal_distance_m(a, b))
    + 10 * altitude_change_m(a, b) + Distance(p[1], p[2])

\* The scan keeps the first pair with the lowest score (a strict <).
best_pair(current, proposed, candidates) ==
  LET score(p) == pair_score(current, proposed, p)
      before(p, q) == \/ score(p) < score(q)
                      \/ score(p) = score(q) /\ p[1] < q[1]
                      \/ score(p) = score(q) /\ p[1] = q[1] /\ p[2] <= q[2]
  IN  CHOOSE p \in candidates : \A q \in candidates : before(p, q)

\* With a NaN altitude the score is NaN, which is less than nothing.
has_score(a, b) == a.z # NaN /\ b.z # NaN

\* One round pairs the best two items that are left and alike.
pair_items(current, proposed, used, done) ==
  LET free == (DOMAIN current \ Old(used \cup done)) \X (DOMAIN proposed \ New(used \cup done))
      candidates == {p \in free :
                       LET a == current[p[1]]  b == proposed[p[2]] IN
                       likely_same_logical_item(a, b) /\ has_score(a, b)}
  IN  IF candidates = {} THEN done
      ELSE done \cup {best_pair(current, proposed, candidates)}

paired_items(current, proposed, used) ==
  LET round[k \in 0..Len(current)] ==
        IF k = 0 THEN {} ELSE pair_items(current, proposed, used, round[k - 1])
  IN  round[Len(current)]

\* classify_change: the types of a paired item; the list may be empty.
change_types(a, b) ==
  {type \in {"MOVE_HORIZONTAL", "ALTITUDE_CHANGE", "COMMAND_CHANGE", "PARAMETER_CHANGE"} :
     CASE type = "MOVE_HORIZONTAL"  -> horizontal_distance_m(a, b) > 0
       [] type = "ALTITUDE_CHANGE"  -> ~float_equal(a.z, b.z)
       [] type = "COMMAND_CHANGE"   -> a.command # b.command
       [] type = "PARAMETER_CHANGE" -> parameters_differ(a, b)}

\* Mutant: the first items are compared instead of the last ones.
start_changed(current, proposed) ==
  IF current = <<>> \/ proposed = <<>> THEN ~(current = <<>> /\ proposed = <<>>)
  ELSE LET a == current[1]  b == proposed[1] IN
       a.command # b.command \/ a.x # b.x \/ ~float_equal(a.z, b.z)

destination_changed(current, proposed) ==
  IF current = <<>> \/ proposed = <<>> THEN ~(current = <<>> /\ proposed = <<>>)
  ELSE LET a == current[Len(current)]  b == proposed[Len(proposed)] IN
       a.command # b.command \/ a.x # b.x \/ ~float_equal(a.z, b.z)

\* MissionDelta{}: what the gateway uses while nothing is committed.
NoDelta ==
  [no_op |-> FALSE, inserted |-> 0, deleted |-> 0, reordered |-> 0,
   maximum_horizontal_displacement_m |-> 0, maximum_altitude_change_m |-> 0,
   item_changes |-> 0, mission_size |-> 0,
   destination_changed |-> FALSE, major_replacement |-> FALSE]

\* The destination and major-replacement entries the code appends to the list
\* of changes do not count as item changes.
calculate_summary(current, proposed, reordered, paired, related) ==
  LET deleted   == DOMAIN current \ Old(related)
      inserted  == DOMAIN proposed \ New(related)
      modified  == {p \in paired : change_types(current[p[1]], proposed[p[2]]) # {}}
      changes   == Cardinality(reordered) + Cardinality(modified)
                     + Cardinality(deleted) + Cardinality(inserted)
      size      == Max({Len(current), Len(proposed)})
  IN
  [no_op |-> changes = 0,
   inserted |-> Cardinality(inserted),
   deleted |-> Cardinality(deleted),
   reordered |-> Cardinality(reordered),
   maximum_horizontal_displacement_m |->
     Max({0} \cup {horizontal_distance_m(current[p[1]], proposed[p[2]]) : p \in modified}),
   maximum_altitude_change_m |->
     Max({0} \cup {altitude_change_m(current[p[1]], proposed[p[2]]) : p \in modified}),
   item_changes |-> changes,
   mission_size |-> size,
   destination_changed |-> destination_changed(current, proposed),
   major_replacement |-> size > 0 /\ changes >= size]

compute_mission_delta(current_mission, proposed_mission) ==
  LET current   == current_mission.items
      proposed  == proposed_mission.items
      matches   == align_exact_items(current, proposed)
      reordered == reordered_items(current, proposed, matches)
      paired    == paired_items(current, proposed, matches \cup reordered)
  IN  calculate_summary(current, proposed, reordered, paired,
                        matches \cup reordered \cup paired)

-----------------------------------------------------------------------------
(* What a matching of two missions is                                       *)

\* Each item is in one pair at most.
Injective(pairs) ==
  \A p, q \in pairs : p # q => p[1] # q[1] /\ p[2] # q[2]

\* Equal items in the order of both missions.
CommonSubsequence(current, proposed, pairs) ==
  \A p, q \in pairs :
    /\ same_semantic_item(current[p[1]], proposed[p[2]])
    /\ p = q \/ (p[1] < q[1] /\ p[2] < q[2]) \/ (q[1] < p[1] /\ q[2] < p[2])

=============================================================================
