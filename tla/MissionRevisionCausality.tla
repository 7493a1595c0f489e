---------------------- MODULE MissionRevisionCausality ----------------------
(***************************************************************************)
(* How a proposal relates to the committed lineage                         *)
(* (mission_revision_causality.cpp).  A proposal record keeps the revision *)
(* and the hash of the revision it was made against; the principal and the *)
(* time only go to the log.                                                *)
(***************************************************************************)
EXTENDS MissionRevisionTracker

RevisionCausalityClass ==
  {"INITIAL_MISSION", "NO_OP_REUPLOAD", "NORMAL_CHILD", "STALE_PARENT",
   "ROLLBACK", "CONCURRENT_CONFLICT", "UNRELATED_REPLACEMENT"}

make_proposal_record(revision, expected_parent) ==
  [revision |-> revision,
   expected_parent_hash |->
     IF expected_parent = None THEN None ELSE expected_parent.hash,
   state |-> "PROPOSED"]

\* Another proposal is pending against the same committed parent.
Conflicts(current, proposal, active_proposal) ==
  /\ active_proposal # None
  /\ active_proposal.state = "PROPOSED"
  /\ active_proposal.revision.id # proposal.revision.id
  /\ active_proposal.revision.hash # proposal.revision.hash
  /\ active_proposal.expected_parent_hash = current.hash
  /\ proposal.expected_parent_hash = current.hash

\* Mutant: the replacement test comes before the rollback test.
classify_replacement_first(tracker, proposal, delta, active_proposal) ==
  LET current == tracker.current IN
  IF current = None THEN "INITIAL_MISSION"
  ELSE IF proposal.revision.hash = current.hash THEN "NO_OP_REUPLOAD"
  ELSE IF delta.major_replacement THEN "UNRELATED_REPLACEMENT"
  ELSE IF historical_content_exists(tracker, proposal.revision.hash)
       THEN "ROLLBACK"
  ELSE "NORMAL_CHILD"

\* The first test that succeeds decides, in the order of the source.
classify_revision_causality(tracker, proposal, delta, active_proposal) ==
  LET current == tracker.current IN
  IF current = None THEN "INITIAL_MISSION"
  ELSE IF proposal.revision.hash = current.hash THEN "NO_OP_REUPLOAD"
  ELSE IF historical_content_exists(tracker, proposal.revision.hash)
       THEN "ROLLBACK"
  ELSE IF Conflicts(current, proposal, active_proposal)
       THEN "CONCURRENT_CONFLICT"
  ELSE IF proposal.expected_parent_hash # current.hash THEN "STALE_PARENT"
  ELSE IF delta.major_replacement THEN "UNRELATED_REPLACEMENT"
  ELSE "NORMAL_CHILD"

=============================================================================
