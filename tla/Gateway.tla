------------------------------ MODULE Gateway ------------------------------
(***************************************************************************)
(* The loop of the DRACO gateway (udp_gateway.cpp, run_gateway) in an open *)
(* environment: at any moment any ground control station may send any      *)
(* frame, and PX4 may answer, repeat itself or stay silent.  Lost, late    *)
(* and repeated datagrams need no action of their own, because the gateway *)
(* only sees what arrives.                                                 *)
(*                                                                         *)
(* One iteration of the loop serves at most one datagram of a ground       *)
(* station and then at most one datagram of PX4, and ends by refreshing    *)
(* the freshness flags.  Variable loop says which part comes next.         *)
(*                                                                         *)
(* px4_out, gcs_out and decision_record are what the last step sent and    *)
(* logged; a step that sends or logs nothing empties them.  They hold the  *)
(* messages the gateway makes itself: a datagram it passes on changes      *)
(* nothing in the gateway and is left out.                                 *)
(***************************************************************************)
EXTENDS MissionDelta, MissionRevisionCausality, GatewayPolicy, StateCache

CONSTANTS
  Gcs,           \* ground control stations: an address and a system id
  ArmedValues,   \* what a HEARTBEAT may report of arming
  LandedValues,  \* what an EXTENDED_SYS_STATE may report
  SendResults,   \* outcomes of the sendto of MISSION_COUNT (TRUE: sent)
  MaxCount,      \* bound: largest count in a MISSION_COUNT
  MaxRevisions,  \* bound: number of proposals
  MaxTime        \* bound: the clock

ASSUME GatewayAssumption ==
  /\ ArmedValues \subseteq {"ARMED", "DISARMED"}
  /\ LandedValues \subseteq {"IN_AIR", "ON_GROUND"}
  /\ SendResults \subseteq BOOLEAN
  /\ MaxCount \in Nat /\ MaxRevisions \in Nat /\ MaxTime \in Nat
  /\ None \notin Gcs

\* The missions an upload can hold, what compute_mission_hash makes of them,
\* and the revisions made from them.
Missions == [mission_type: MissionTypes, items: Seq(Items \cup {BlankItem})]

HashedItems == {canonical_item(item) : item \in Items \cup {BlankItem}}
Contents == [mission_type: MissionTypes, items: Seq(HashedItems)]

Revisions ==
  {revision \in [id: Nat, hash: Contents, mission: Missions] :
     revision.hash = compute_mission_hash(revision.mission)}

ASSUME NoneAssumption ==
  None \notin Revisions /\ None \notin Missions /\ None \notin Contents

VARIABLES
  mission_upload,               \* the buffered upload of a ground station
  proposal_created_for_upload,  \* the buffered upload has been decided on
  mission_revisions,            \* the revision tracker
  committed_canonical_mission,  \* what the next delta is computed against
  px4_authorized_upload_active, \* PX4 is loading an authorised mission
  active_gcs,                   \* active_gcs_sysid and active_gcs_compid
  client_addr,                  \* sender of the last datagram, None: no GCS yet
  state_cache, now, loop,
  px4_out, gcs_out, decision_record

session  == <<mission_upload, proposal_created_for_upload, active_gcs>>
lineage  == <<mission_revisions, committed_canonical_mission>>
outputs  == <<px4_out, gcs_out, decision_record>>
vars     == <<session, lineage, px4_authorized_upload_active, client_addr,
              state_cache, now, loop, outputs>>

-----------------------------------------------------------------------------
(* The decision on a complete upload                                        *)

\* What the policy says of the proposal pending in revisions.
Authorization(revisions, committed, canonical, in_flight) ==
  LET delta  == IF committed = None THEN NoDelta
                ELSE compute_mission_delta(committed, canonical)
      record == make_proposal_record(revisions.proposed, revisions.current)
      causality == classify_revision_causality(revisions, record, delta, None)
      budget == evaluate_change_budget(delta, DefaultChangeBudget, proposal_authority)
  IN  evaluate_mission_authorization(canonical, delta, causality, budget,
        mission_contract, proposal_authority, in_flight, now)

\* Mutant: a disarmed vehicle in the air counts as flying.
vehicle_in_air ==
  /\ evidence_is_usable(state_cache["landed_state"])
  /\ state_cache["landed_state"].value = "IN_AIR"

\* Read from the flags of the cache as the last refresh or message left them.
vehicle_in_flight ==
  /\ evidence_is_usable(state_cache["armed"])
  /\ evidence_is_usable(state_cache["landed_state"])
  /\ state_cache["armed"].value = "ARMED"
  /\ state_cache["landed_state"].value = "IN_AIR"

EvidenceUsable(snapshot) ==
  \A field \in DecisionFields : evidence_is_usable(snapshot[field])

\* The upload proposed as the next revision.
Proposed(upload) ==
  propose_mission_revision(mission_revisions, make_canonical_mission(upload))

\* An ALLOW without usable evidence becomes a DEFER.
DecisionRecord(verdict, usable) ==
  [authorization |-> IF verdict = "ALLOW" /\ ~usable THEN "DEFER" ELSE verdict,
   evidence_usable |-> usable,
   vehicle_in_flight |-> vehicle_in_flight]

Decision(upload) ==
  DecisionRecord(Authorization(Proposed(upload), committed_canonical_mission,
                               make_canonical_mission(upload), vehicle_in_flight),
                 EvidenceUsable(make_evidence_snapshot(state_cache, now)))

-----------------------------------------------------------------------------
(* Messages                                                                 *)

MissionCountToPx4(count) == [type |-> "MISSION_COUNT", count |-> count]
MissionItemToPx4(seq, payload) ==
  [type |-> "MISSION_ITEM_INT", seq |-> seq, payload |-> payload]
MissionRequest(seq, mission_type, addr) ==
  [type |-> "MISSION_REQUEST_INT", seq |-> seq, mission_type |-> mission_type, to |-> addr]
MissionAck(origin, result, target, addr) ==
  [type |-> "MISSION_ACK", origin |-> origin, result |-> result,
   target |-> target, to |-> addr]

\* The seq an item of the buffer was received with; an unfilled slot has none
\* and says 0.
stored_seq(upload, seq) == IF upload.received[seq + 1] THEN seq ELSE 0

\* Item seq of an upload as it is encoded for PX4.
StoredItem(upload, seq) ==
  MissionItemToPx4(stored_seq(upload, seq), upload.items[seq + 1])

ItemFrames ==
  [seq: 0..MaxCount, mission_type: MissionTypes, payload: Items]

-----------------------------------------------------------------------------
Init ==
  /\ mission_upload = NoUpload
  /\ proposal_created_for_upload = FALSE
  /\ mission_revisions = NewTracker
  /\ committed_canonical_mission = None
  /\ px4_authorized_upload_active = FALSE
  /\ active_gcs = None
  /\ client_addr = None
  /\ state_cache = EmptyCache
  /\ now = 0
  /\ loop = "poll"
  /\ px4_out = {} /\ gcs_out = {} /\ decision_record = None

-----------------------------------------------------------------------------
(* Datagrams of ground stations, served first in an iteration               *)

GcsDatagram(g) ==
  /\ loop = "poll" /\ loop' = "px4"
  /\ client_addr' = g
  /\ UNCHANGED <<state_cache, now>>

\* Mutant: the new upload inherits the decision on the last one.
HandleMissionCount_decided(g, count) ==
  /\ GcsDatagram(g)
  /\ active_gcs' = g
  /\ mission_upload' = start_mission_upload("MISSION", count)
  /\ gcs_out' = IF count > 0 THEN {MissionRequest(0, "MISSION", g)} ELSE {}
  /\ px4_out' = {} /\ decision_record' = None
  /\ UNCHANGED <<lineage, px4_authorized_upload_active, proposal_created_for_upload>>

\* Mutant: while an upload runs a MISSION_COUNT is not answered.
HandleMissionCount_when_free(g, count) ==
  /\ GcsDatagram(g)
  /\ active_gcs' = g
  /\ mission_upload' = start_mission_upload("MISSION", count)
  /\ proposal_created_for_upload' = FALSE
  /\ gcs_out' = IF count > 0 /\ ~mission_upload.active
                THEN {MissionRequest(0, "MISSION", g)} ELSE {}
  /\ px4_out' = {} /\ decision_record' = None
  /\ UNCHANGED <<lineage, px4_authorized_upload_active>>

\* MISSION_COUNT of type MISSION
HandleMissionCount(g, count) ==
  /\ GcsDatagram(g)
  /\ active_gcs' = g
  /\ mission_upload' = start_mission_upload("MISSION", count)
  /\ proposal_created_for_upload' = FALSE
  /\ gcs_out' = IF count > 0 THEN {MissionRequest(0, "MISSION", g)} ELSE {}
  /\ px4_out' = {} /\ decision_record' = None
  /\ UNCHANGED <<lineage, px4_authorized_upload_active>>

\* MISSION_ITEM_INT that leaves the gateway nothing to decide; the next request
\* carries the mission type of the item, not that of the upload
BufferMissionItem(g, item) ==
  LET upload == store_mission_item(mission_upload, item) IN
  /\ proposal_created_for_upload \/ ~mission_upload_complete(upload)
  /\ GcsDatagram(g)
  /\ mission_upload' = upload
  /\ gcs_out' = IF mission_upload_complete(upload) \/ MissingSeqs(upload) = {} THEN {}
                ELSE {MissionRequest(Min(MissingSeqs(upload)), item.mission_type, g)}
  /\ px4_out' = {} /\ decision_record' = None
  /\ UNCHANGED <<proposal_created_for_upload, active_gcs, lineage,
                 px4_authorized_upload_active>>

\* MISSION_ITEM_INT that finds the upload complete: the upload becomes a
\* proposal and is decided on
DecideMissionItem(g, item, upload) ==
  /\ ~proposal_created_for_upload /\ mission_upload_complete(upload)
  /\ mission_revisions.next_id <= MaxRevisions
  /\ GcsDatagram(g)
  /\ decision_record' = Decision(upload)
  /\ UNCHANGED <<active_gcs, committed_canonical_mission>>

\* Mutant: a denial does not end the transfer to PX4.
DenyMission_during_transfer(g, item) ==
  LET upload == store_mission_item(mission_upload, item) IN
  /\ DecideMissionItem(g, item, upload)
  /\ Decision(upload).authorization # "ALLOW"
  /\ mission_revisions' = reject_proposed_revision(Proposed(upload))
  /\ mission_upload' = [upload EXCEPT !.active = FALSE]
  /\ proposal_created_for_upload' = FALSE
  /\ gcs_out' = {MissionAck("DRACO", "DENIED", active_gcs, g)}
  /\ px4_out' = {}
  /\ UNCHANGED px4_authorized_upload_active

DenyMission(g, item) ==
  LET upload == store_mission_item(mission_upload, item) IN
  /\ DecideMissionItem(g, item, upload)
  /\ Decision(upload).authorization # "ALLOW"
  /\ mission_revisions' = reject_proposed_revision(Proposed(upload))
  /\ mission_upload' = [upload EXCEPT !.active = FALSE]
  /\ proposal_created_for_upload' = FALSE
  /\ px4_authorized_upload_active' = FALSE
  /\ gcs_out' = {MissionAck("DRACO", "DENIED", active_gcs, g)}
  /\ px4_out' = {}

\* Mutant: a mission counts as offered although it could not be sent.
AllowMission_unsent(g, item, sent) ==
  LET upload == store_mission_item(mission_upload, item)
      offers == ~px4_authorized_upload_active /\ sent
  IN
  /\ DecideMissionItem(g, item, upload)
  /\ Decision(upload).authorization = "ALLOW"
  /\ mission_revisions' = Proposed(upload)
  /\ mission_upload' = upload
  /\ proposal_created_for_upload' = TRUE
  /\ px4_authorized_upload_active' = TRUE
  /\ px4_out' = IF offers THEN {MissionCountToPx4(upload.expected_count)} ELSE {}
  /\ gcs_out' = {}

\* Mutant: the revision is committed before PX4 has answered.
AllowMission_commits(g, item, sent) ==
  LET upload == store_mission_item(mission_upload, item)
      offers == ~px4_authorized_upload_active /\ sent
  IN
  /\ DecideMissionItem(g, item, upload)
  /\ Decision(upload).authorization = "ALLOW"
  /\ mission_revisions' = commit_proposed_revision(Proposed(upload))
  /\ mission_upload' = upload
  /\ proposal_created_for_upload' = TRUE
  /\ px4_authorized_upload_active' = (px4_authorized_upload_active \/ sent)
  /\ px4_out' = IF offers THEN {MissionCountToPx4(upload.expected_count)} ELSE {}
  /\ gcs_out' = {}

\* Mutant: the buffer is emptied once its mission is a proposal.
AllowMission_emptied(g, item, sent) ==
  LET upload == store_mission_item(mission_upload, item)
      offers == ~px4_authorized_upload_active /\ sent
  IN
  /\ DecideMissionItem(g, item, upload)
  /\ Decision(upload).authorization = "ALLOW"
  /\ mission_revisions' = Proposed(upload)
  /\ mission_upload' = start_mission_upload("MISSION", upload.expected_count)
  /\ proposal_created_for_upload' = TRUE
  /\ px4_authorized_upload_active' = (px4_authorized_upload_active \/ sent)
  /\ px4_out' = IF offers THEN {MissionCountToPx4(upload.expected_count)} ELSE {}
  /\ gcs_out' = {}

\* Mutant: the count is the last seq.
AllowMission_one_short(g, item, sent) ==
  LET upload == store_mission_item(mission_upload, item)
      offers == ~px4_authorized_upload_active /\ sent
  IN
  /\ DecideMissionItem(g, item, upload)
  /\ Decision(upload).authorization = "ALLOW"
  /\ mission_revisions' = Proposed(upload)
  /\ mission_upload' = upload
  /\ proposal_created_for_upload' = TRUE
  /\ px4_authorized_upload_active' = (px4_authorized_upload_active \/ sent)
  /\ px4_out' = IF offers THEN {MissionCountToPx4(upload.expected_count - 1)} ELSE {}
  /\ gcs_out' = {}

\* Mutant: the upload is acknowledged as soon as it is allowed.
AllowMission_acknowledged(g, item, sent) ==
  LET upload == store_mission_item(mission_upload, item)
      offers == ~px4_authorized_upload_active /\ sent
  IN
  /\ DecideMissionItem(g, item, upload)
  /\ Decision(upload).authorization = "ALLOW"
  /\ mission_revisions' = Proposed(upload)
  /\ mission_upload' = upload
  /\ proposal_created_for_upload' = TRUE
  /\ px4_authorized_upload_active' = (px4_authorized_upload_active \/ sent)
  /\ px4_out' = IF offers THEN {MissionCountToPx4(upload.expected_count)} ELSE {}
  /\ gcs_out' = {MissionAck("DRACO", "ACCEPTED", active_gcs, g)}

\* PX4 is offered the mission only if it is not loading one already, and is
\* taken to be loading only if the offer could be sent.
AllowMission(g, item, sent) ==
  LET upload == store_mission_item(mission_upload, item)
      offers == ~px4_authorized_upload_active /\ sent
  IN
  /\ DecideMissionItem(g, item, upload)
  /\ Decision(upload).authorization = "ALLOW"
  /\ mission_revisions' = Proposed(upload)
  /\ mission_upload' = upload
  /\ proposal_created_for_upload' = TRUE
  /\ px4_authorized_upload_active' = (px4_authorized_upload_active \/ sent)
  /\ px4_out' = IF offers THEN {MissionCountToPx4(upload.expected_count)} ELSE {}
  /\ gcs_out' = {}

\* Any other datagram goes to PX4 as it came.
RelayGcsDatagram(g) ==
  /\ GcsDatagram(g)
  /\ px4_out' = {} /\ gcs_out' = {} /\ decision_record' = None
  /\ UNCHANGED <<session, lineage, px4_authorized_upload_active>>

-----------------------------------------------------------------------------
(* Datagrams of PX4, and the end of the iteration                           *)

EndOfIteration(cache) ==
  /\ loop' = "poll"
  /\ state_cache' = refresh_state_freshness(cache, now)
  /\ decision_record' = None
  /\ UNCHANGED <<now, client_addr>>

\* Mutant: items are served outside an authorised upload.
ServeMissionItem_always(seq) ==
  /\ EndOfIteration(state_cache)
  /\ px4_out' = IF seq < Len(mission_upload.items)
                THEN {StoredItem(mission_upload, seq)} ELSE {}
  /\ gcs_out' = {}
  /\ UNCHANGED <<session, lineage, px4_authorized_upload_active>>

\* MISSION_REQUEST_INT addressed to the gateway while PX4 loads a mission;
\* a seq outside the buffer gets no answer
ServeMissionItem(seq) ==
  /\ px4_authorized_upload_active
  /\ EndOfIteration(state_cache)
  /\ px4_out' = IF seq < Len(mission_upload.items)
                THEN {StoredItem(mission_upload, seq)} ELSE {}
  /\ gcs_out' = {}
  /\ UNCHANGED <<session, lineage, px4_authorized_upload_active>>

\* MISSION_ACK addressed to the gateway while PX4 loads a mission
FinishPx4Upload(result) ==
  /\ px4_authorized_upload_active
  /\ EndOfIteration(state_cache)
  /\ px4_authorized_upload_active' = FALSE
  /\ mission_upload' = [mission_upload EXCEPT !.active = FALSE]
  /\ proposal_created_for_upload' = FALSE
  /\ gcs_out' = {MissionAck("PX4", result, active_gcs, client_addr)}
  /\ px4_out' = {}
  /\ UNCHANGED active_gcs

\* Mutant: the base of the next delta is set by the first commit only.
CommitRevision_keeps_base ==
  /\ mission_upload_complete(mission_upload)
  /\ FinishPx4Upload("ACCEPTED")
  /\ mission_revisions' = commit_proposed_revision(mission_revisions)
  /\ committed_canonical_mission' =
       IF committed_canonical_mission = None THEN make_canonical_mission(mission_upload)
       ELSE committed_canonical_mission

CommitRevision ==
  /\ mission_upload_complete(mission_upload)
  /\ FinishPx4Upload("ACCEPTED")
  /\ mission_revisions' = commit_proposed_revision(mission_revisions)
  /\ committed_canonical_mission' =
       IF can_commit(mission_revisions) THEN make_canonical_mission(mission_upload)
       ELSE committed_canonical_mission

RejectRevision(result) ==
  /\ result = "ACCEPTED" => ~mission_upload_complete(mission_upload)
  /\ FinishPx4Upload(result)
  /\ mission_revisions' = reject_proposed_revision(mission_revisions)
  /\ UNCHANGED committed_canonical_mission

\* Telemetry updates the cache and goes on to the ground station.
HandleTelemetry(msgid, value) ==
  /\ EndOfIteration(update_state_cache(state_cache, msgid, value, now))
  /\ gcs_out' = {} /\ px4_out' = {}
  /\ UNCHANGED <<session, lineage, px4_authorized_upload_active>>

\* Nothing from PX4 in this iteration, or a datagram that is only passed on:
\* so are the mission frames of PX4 outside an upload.
NoPx4Message ==
  /\ EndOfIteration(state_cache)
  /\ gcs_out' = {} /\ px4_out' = {}
  /\ UNCHANGED <<session, lineage, px4_authorized_upload_active>>

\* A recvfrom that fails continues with the next iteration: no refresh.
RecvFailed ==
  /\ loop' = "poll"
  /\ px4_out' = {} /\ gcs_out' = {} /\ decision_record' = None
  /\ UNCHANGED <<session, lineage, px4_authorized_upload_active, client_addr,
                 state_cache, now>>

\* Time passes at any point of the loop.
Tick ==
  /\ now < MaxTime /\ now' = now + 1
  /\ px4_out' = {} /\ gcs_out' = {} /\ decision_record' = None
  /\ UNCHANGED <<session, lineage, px4_authorized_upload_active, client_addr,
                 state_cache, loop>>

-----------------------------------------------------------------------------
Telemetry ==
  [msgid: {"HEARTBEAT"}, value: ArmedValues]
    \cup [msgid: {"EXTENDED_SYS_STATE"}, value: LandedValues]
    \cup [msgid: Messages \ {"HEARTBEAT", "EXTENDED_SYS_STATE"}, value: {"NONE"}]

GcsStep ==
  \E g \in Gcs :
    \/ \E count \in 0..MaxCount : HandleMissionCount(g, count)
    \/ \E item \in ItemFrames :
         \/ BufferMissionItem(g, item)
         \/ DenyMission(g, item)
         \/ \E sent \in SendResults : AllowMission(g, item, sent)
    \/ RelayGcsDatagram(g)

Px4Step ==
  \/ \E seq \in 0..MaxCount : ServeMissionItem(seq)
  \/ CommitRevision
  \/ \E result \in {"ACCEPTED", "ERROR"} : RejectRevision(result)
  \/ \E message \in Telemetry : HandleTelemetry(message.msgid, message.value)
  \/ NoPx4Message

Next == GcsStep \/ Px4Step \/ RecvFailed \/ Tick

Spec == Init /\ [][Next]_vars

-----------------------------------------------------------------------------
(* Types                                                                    *)

OptionalRevision == Revisions \cup {None}

TrackerStates ==
  [parent: OptionalRevision, current: OptionalRevision,
   proposed: OptionalRevision, history: Seq(Revisions), next_id: Nat]

\* The variables have their types; the received flags and the items of the
\* buffer have the announced length.
TypeOK ==
  /\ mission_upload \in MissionUploadTransaction
  /\ Len(mission_upload.items) = mission_upload.expected_count
  /\ Len(mission_upload.received) = mission_upload.expected_count
  /\ proposal_created_for_upload \in BOOLEAN
  /\ mission_revisions \in TrackerStates
  /\ committed_canonical_mission \in Missions \cup {None}
  /\ px4_authorized_upload_active \in BOOLEAN
  /\ active_gcs \in Gcs \cup {None}
  /\ client_addr \in Gcs \cup {None}
  /\ state_cache \in [Fields -> EvidenceField]
  /\ now \in Nat
  /\ loop \in {"poll", "px4"}

-----------------------------------------------------------------------------
(* The upload session                                                       *)

\* A running upload of at least one item has been decided on exactly when all
\* its items have arrived: no complete upload is forgotten, none is decided
\* on twice, and a new MISSION_COUNT starts over (udp_gateway.cpp:222, 335,
\* 348, 547, 893).
UploadDecidedOnce ==
  mission_upload.active /\ mission_upload.expected_count > 0 =>
    (mission_upload_complete(mission_upload) <=> proposal_created_for_upload)

\* While PX4 loads a mission there is a proposal its answer will commit or
\* reject, however many uploads were decided on in the meantime
\* (udp_gateway.cpp:549, 592, 802, 835, 892).
Px4UploadHasProposal ==
  px4_authorized_upload_active => mission_revisions.proposed # None

-----------------------------------------------------------------------------
(* The lineage                                                              *)

Committed ==
  IF mission_revisions.current = None THEN mission_revisions.history
  ELSE Append(mission_revisions.history, mission_revisions.current)

\* Revisions are committed in the order in which they were proposed, the
\* parent is the revision that was replaced last, and a pending proposal is
\* newer than all of them.
LineageOrdered ==
  LET tracker == mission_revisions  n == Len(tracker.history) IN
  /\ \A i, j \in DOMAIN Committed : i < j => Committed[i].id < Committed[j].id
  /\ \A i \in DOMAIN Committed : Committed[i].id < tracker.next_id
  /\ tracker.proposed # None =>
       /\ tracker.proposed.id < tracker.next_id
       /\ \A i \in DOMAIN Committed : Committed[i].id < tracker.proposed.id
  /\ tracker.parent = IF n = 0 THEN None ELSE tracker.history[n]

\* The contents that became current, in order, and the content that waits for
\* the answer of PX4: how the gateway implements MissionLedger.
CommittedContents == [i \in 1..Len(Committed) |-> Committed[i].hash]
PendingContent ==
  IF mission_revisions.proposed = None THEN None ELSE mission_revisions.proposed.hash

Ledger == INSTANCE MissionLedger WITH
  ledger <- CommittedContents, pending <- PendingContent

\* Content that other content has replaced is never committed again: between
\* two commits of the same content only that content was committed.  Rollbacks
\* are stopped although a proposal may wait while others are decided on
\* (mission_revision_causality.cpp:76-84, mission_revision_tracker.cpp:23-32).
NoSupersededContentRecommitted == Ledger!NoReturn

\* A proposal that waits for PX4 would be allowed again by the policy against
\* the lineage as it now is: nothing it was judged against has changed.
PendingStillAuthorized ==
  mission_revisions.proposed # None =>
    \E in_flight \in BOOLEAN :
      Authorization(mission_revisions, committed_canonical_mission,
                    mission_revisions.proposed.mission, in_flight) = "ALLOW"

\* What is committed uses the commands, the altitudes and the corridor of the
\* contract, although a re-upload of the current content is allowed without
\* looking at any of them and the commit re-reads none
\* (mission_authorization.cpp:118-128, 301-393, udp_gateway.cpp:802-807).
CommittedInsideContract ==
  mission_revisions.current # None =>
    LET items     == mission_revisions.current.mission.items
        altitude  == mission_contract.altitude
        line      == mission_contract.corridor.centerline
        deviation == mission_contract.corridor.allowed_deviation_m
    IN
    \A i \in DOMAIN items :
      /\ items[i].command \in mission_contract.command_policy.allowed_commands
      /\ uses_global_position(items[i]) =>
           /\ items[i].z # NaN
           /\ altitude.minimum_m <= Unsigned(items[i].z)
           /\ Unsigned(items[i].z) <= altitude.maximum_m
           /\ line[1] - deviation <= items[i].x
           /\ items[i].x <= line[Len(line)] + deviation

\* The abstract specification of the lineage.
LedgerSpec == Ledger!LedgerSpec

-----------------------------------------------------------------------------
(* The transfer to PX4                                                      *)

\* Every item PX4 is sent is the item of that seq in the proposal that was
\* allowed (README.md:314).
ServedItemIsAuthorized ==
  [][\A m \in px4_out' :
       m.type = "MISSION_ITEM_INT" =>
         /\ mission_revisions.proposed # None
         /\ LET items == mission_revisions.proposed.mission.items IN
            m.seq < Len(items) /\ m.payload = items[m.seq + 1]]_vars

\* The mission the next delta is computed against is the mission of the
\* current revision.
CommittedIsCurrent ==
  committed_canonical_mission =
    IF mission_revisions.current = None THEN None
    ELSE mission_revisions.current.mission

\* The answer of PX4 goes to the ground station that uploaded the mission
\* (udp_gateway.cpp:841).
ResultReachesUploader ==
  [][\A m \in gcs_out' :
       m.type = "MISSION_ACK" /\ m.origin = "PX4" => m.to = m.target]_vars

-----------------------------------------------------------------------------
(* Evidence                                                                 *)

\* PX4 is offered a mission only while the three fields the decision rests on
\* were observed within the threshold, whatever the flags of the cache said
\* and whichever refreshes were skipped (mission_decision_record.cpp:38-50,
\* udp_gateway.cpp:450-462, 685).
OfferedOnFreshEvidence ==
  [][(\E m \in px4_out' : m.type = "MISSION_COUNT") =>
       \A field \in DecisionFields :
         /\ state_cache[field].valid
         /\ now - state_cache[field].observed_at <= Threshold]_vars

\* The flight state is read from the flags of the cache and the evidence is
\* judged on a refreshed copy; whenever the evidence is usable the two agree
\* (udp_gateway.cpp:390-399, mission_decision_record.cpp:38-50).
FlightStateAgreesWithEvidence ==
  [][decision_record' # None /\ decision_record'.evidence_usable =>
       (decision_record'.vehicle_in_flight <=>
          /\ state_cache["armed"].value = "ARMED"
          /\ state_cache["landed_state"].value = "IN_AIR")]_vars

=============================================================================
