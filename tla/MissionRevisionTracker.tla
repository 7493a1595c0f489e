----------------------- MODULE MissionRevisionTracker -----------------------
(***************************************************************************)
(* The lineage of mission revisions the gateway keeps                      *)
(* (mission_revision_tracker.cpp): the committed revision, its             *)
(* predecessors, and at most one proposal.  The functions that change      *)
(* struct MissionRevisionTracker are operators from a tracker to a tracker.*)
(***************************************************************************)
EXTENDS CanonicalMission

CONSTANT None   \* std::nullopt

\* MissionRevisionTracker mission_revisions{}
NewTracker ==
  [parent |-> None, current |-> None, proposed |-> None,
   history |-> <<>>, next_id |-> 1]

\* Mutant: next_id is not incremented.
propose_under_same_id(tracker, mission) ==
  [tracker EXCEPT !.proposed = make_mission_revision(tracker.next_id, mission)]

\* Overwrites a proposal that is still pending.
propose_mission_revision(tracker, mission) ==
  [tracker EXCEPT !.proposed = make_mission_revision(tracker.next_id, mission),
                  !.next_id = @ + 1]

\* A caller commits only a tracker for which this holds; otherwise
\* commit_proposed_revision returns false and changes nothing.
can_commit(tracker) == tracker.proposed # None

\* Mutant: the revision that is replaced is forgotten.
commit_without_history(tracker) ==
  IF ~can_commit(tracker) THEN tracker
  ELSE [tracker EXCEPT !.parent = tracker.current, !.current = tracker.proposed,
                       !.proposed = None]

\* Mutant: the current revision stays when there is one.
commit_first_only(tracker) ==
  IF ~can_commit(tracker) THEN tracker
  ELSE IF tracker.current = None
       THEN [tracker EXCEPT !.current = tracker.proposed, !.proposed = None]
       ELSE [tracker EXCEPT !.parent = tracker.current, !.proposed = None]

\* The revision that is replaced goes to history even when the proposal has
\* the same content.
commit_proposed_revision(tracker) ==
  LET superseded == tracker.current # None IN
  IF ~can_commit(tracker) THEN tracker
  ELSE [tracker EXCEPT
          !.history = IF superseded THEN Append(@, tracker.current) ELSE @,
          !.parent  = IF superseded THEN tracker.current ELSE @,
          !.current = tracker.proposed,
          !.proposed = None]

\* Mutant: the proposal stays.
reject_nothing(tracker) == tracker

reject_proposed_revision(tracker) == [tracker EXCEPT !.proposed = None]

\* Mutant: the search stops one revision early.
historical_content_before_last(tracker, hash) ==
  \E i \in 1..(Len(tracker.history) - 1) : tracker.history[i].hash = hash

historical_content_exists(tracker, hash) ==
  \E i \in DOMAIN tracker.history : tracker.history[i].hash = hash

=============================================================================
