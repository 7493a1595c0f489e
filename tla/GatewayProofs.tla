--------------------------- MODULE GatewayProofs ---------------------------
(***************************************************************************)
(* Theorems about Gateway for every value of its constants: its types and  *)
(* the decision of an upload, that it implements MissionLedger, and what   *)
(* follows from that for the lineage and the contract.                     *)
(***************************************************************************)
EXTENDS Gateway, TLAPS

LedgerProofs == INSTANCE MissionLedgerProofs WITH
  ledger <- CommittedContents, pending <- PendingContent

-----------------------------------------------------------------------------
(* The operators keep the types                                             *)

\* A function on 1..n is a sequence of length n.
LEMMA ConstantSequence ==
  ASSUME NEW S, NEW x \in S, NEW n \in Nat
  PROVE  [i \in 1..n |-> x] \in Seq(S) /\ Len([i \in 1..n |-> x]) = n
OBVIOUS

\* Replacing an element keeps a sequence a sequence of the same length.
LEMMA ReplacedSequence ==
  ASSUME NEW S, NEW s \in Seq(S), NEW x \in S, NEW k \in 1..Len(s)
  PROVE  [s EXCEPT ![k] = x] \in Seq(S) /\ Len([s EXCEPT ![k] = x]) = Len(s)
OBVIOUS

\* A started upload is a transaction of the announced length.
LEMMA StartType ==
  ASSUME NEW type \in MissionTypes, NEW count \in Nat
  PROVE  /\ start_mission_upload(type, count) \in MissionUploadTransaction
         /\ Len(start_mission_upload(type, count).items) = count
         /\ Len(start_mission_upload(type, count).received) = count
<1>1. [i \in 1..count |-> BlankItem] \in Seq(Items \cup {BlankItem})
      /\ Len([i \in 1..count |-> BlankItem]) = count
  BY ConstantSequence
<1>2. [i \in 1..count |-> FALSE] \in Seq(BOOLEAN)
      /\ Len([i \in 1..count |-> FALSE]) = count
  BY ConstantSequence
<1> QED BY <1>1, <1>2 DEF start_mission_upload, MissionUploadTransaction

\* Storing an item keeps the transaction a transaction of the same length.
LEMMA StoreType ==
  ASSUME NEW t \in MissionUploadTransaction,
         Len(t.items) = t.expected_count, Len(t.received) = t.expected_count,
         NEW item \in ItemFrames, MaxCount \in Nat
  PROVE  /\ store_mission_item(t, item) \in MissionUploadTransaction
         /\ store_mission_item(t, item).expected_count = t.expected_count
         /\ Len(store_mission_item(t, item).items) = t.expected_count
         /\ Len(store_mission_item(t, item).received) = t.expected_count
<1>1. CASE ~ItemBelongs(t, item)
  BY <1>1 DEF store_mission_item
<1>2. CASE ItemBelongs(t, item)
  <2> DEFINE k == item.seq + 1
  <2>1. k \in 1..Len(t.items) /\ k \in 1..Len(t.received)
    BY <1>2 DEF ItemBelongs, MissionUploadTransaction, ItemFrames
  <2>2. item.payload \in Items \cup {BlankItem}
    BY DEF ItemFrames
  <2>3. [t.items EXCEPT ![k] = item.payload] \in Seq(Items \cup {BlankItem})
        /\ Len([t.items EXCEPT ![k] = item.payload]) = Len(t.items)
    BY <2>1, <2>2, ReplacedSequence DEF MissionUploadTransaction
  <2>4. [t.received EXCEPT ![k] = TRUE] \in Seq(BOOLEAN)
        /\ Len([t.received EXCEPT ![k] = TRUE]) = Len(t.received)
    BY <2>1, ReplacedSequence DEF MissionUploadTransaction
  <2>5. store_mission_item(t, item)
          = [t EXCEPT !.items = [t.items EXCEPT ![k] = item.payload],
                      !.received = [t.received EXCEPT ![k] = TRUE]]
    BY <1>2 DEF store_mission_item, MissionUploadTransaction
  <2> HIDE DEF k
  <2> QED BY <2>3, <2>4, <2>5 DEF MissionUploadTransaction
<1> QED BY <1>1, <1>2

\* The canonical mission of a transaction is a mission.
LEMMA CanonicalType ==
  ASSUME NEW t \in MissionUploadTransaction
  PROVE  make_canonical_mission(t) \in Missions
BY DEF make_canonical_mission, Missions, MissionUploadTransaction

\* The hash of a mission is a content.
LEMMA HashType ==
  ASSUME NEW mission \in Missions
  PROVE  compute_mission_hash(mission) \in Contents
<1> DEFINE hashed == [i \in DOMAIN mission.items |-> canonical_item(mission.items[i])]
<1>1. hashed \in Seq(HashedItems)
  BY DEF Missions, HashedItems
<1>2. compute_mission_hash(mission) = [mission EXCEPT !.items = hashed]
  BY DEF compute_mission_hash, serialize_canonical_mission
<1> HIDE DEF hashed
<1> QED BY <1>1, <1>2 DEF Missions, Contents

\* A revision made from a mission is a revision.
LEMMA RevisionType ==
  ASSUME NEW id \in Nat, NEW mission \in Missions
  PROVE  make_mission_revision(id, mission) \in Revisions
BY HashType DEF make_mission_revision, Revisions

\* Proposing, committing and rejecting keep a tracker a tracker.
LEMMA ProposeType ==
  ASSUME NEW t \in TrackerStates, NEW mission \in Missions
  PROVE  propose_mission_revision(t, mission) \in TrackerStates
<1> DEFINE revision == make_mission_revision(t.next_id, mission)
<1>1. revision \in OptionalRevision /\ t.next_id + 1 \in Nat
  BY RevisionType DEF TrackerStates, OptionalRevision
<1>2. propose_mission_revision(t, mission)
        = [t EXCEPT !.proposed = revision, !.next_id = t.next_id + 1]
  BY DEF propose_mission_revision
<1> HIDE DEF revision
<1> QED BY <1>1, <1>2 DEF TrackerStates

\* Rejecting a proposal keeps the type of the tracker.
LEMMA RejectType ==
  ASSUME NEW t \in TrackerStates
  PROVE  reject_proposed_revision(t) \in TrackerStates
BY DEF reject_proposed_revision, TrackerStates, OptionalRevision

\* Committing a proposal keeps the type of the tracker.
LEMMA CommitType ==
  ASSUME NEW t \in TrackerStates
  PROVE  commit_proposed_revision(t) \in TrackerStates
<1>1. t.current # None => Append(t.history, t.current) \in Seq(Revisions)
  BY DEF TrackerStates, OptionalRevision
<1> QED BY <1>1 DEF commit_proposed_revision, can_commit, TrackerStates, OptionalRevision

\* Updating and refreshing keep a cache a cache.
LEMMA RefreshType ==
  ASSUME NEW cache \in [Fields -> EvidenceField], NEW time \in Nat
  PROVE  refresh_state_freshness(cache, time) \in [Fields -> EvidenceField]
BY DEF refresh_state_freshness, refresh_evidence_field, EvidenceField, EvidenceFreshness

\* A telemetry message keeps the type of the cache.
LEMMA UpdateType ==
  ASSUME NEW cache \in [Fields -> EvidenceField], NEW time \in Nat,
         NEW msgid, NEW value \in EvidenceValues
  PROVE  update_state_cache(cache, msgid, value, time) \in [Fields -> EvidenceField]
BY DEF update_state_cache, EvidenceField, EvidenceFreshness

-----------------------------------------------------------------------------
(* Type correctness                                                         *)

\* The initial state is of the type.
LEMMA TypeInit == Init => TypeOK
<1> SUFFICES ASSUME Init PROVE TypeOK
  OBVIOUS
<1>1. mission_upload \in MissionUploadTransaction
      /\ Len(mission_upload.items) = mission_upload.expected_count
      /\ Len(mission_upload.received) = mission_upload.expected_count
  BY DEF Init, NoUpload, MissionUploadTransaction, MissionTypes
<1>2. mission_revisions \in TrackerStates
  BY DEF Init, NewTracker, TrackerStates, OptionalRevision
<1>3. state_cache \in [Fields -> EvidenceField]
  BY DEF Init, EmptyCache, NoEvidence, EvidenceField, EvidenceValues, EvidenceFreshness
<1> QED BY <1>1, <1>2, <1>3 DEF Init, TypeOK

\* What every datagram of a ground station leaves well typed.
LEMMA TypeGcsDatagram ==
  ASSUME TypeOK, NEW g \in Gcs, GcsDatagram(g)
  PROVE  /\ client_addr' \in Gcs \cup {None}
         /\ state_cache' \in [Fields -> EvidenceField]
         /\ now' \in Nat /\ loop' \in {"poll", "px4"}
BY DEF TypeOK, GcsDatagram

\* What every datagram of PX4 leaves well typed.
LEMMA TypeEndOfIteration ==
  ASSUME TypeOK, NEW cache \in [Fields -> EvidenceField], EndOfIteration(cache)
  PROVE  /\ client_addr' \in Gcs \cup {None}
         /\ state_cache' \in [Fields -> EvidenceField]
         /\ now' \in Nat /\ loop' \in {"poll", "px4"}
BY RefreshType DEF TypeOK, EndOfIteration

\* Every step keeps the type.
LEMMA TypeStep == TypeOK /\ [Next]_vars => TypeOK'
<1> SUFFICES ASSUME TypeOK, [Next]_vars PROVE TypeOK'
  OBVIOUS
<1> USE GatewayAssumption
<1>1. ASSUME NEW g \in Gcs, NEW count \in 0..MaxCount, HandleMissionCount(g, count)
      PROVE  TypeOK'
  <2>1. /\ mission_upload' \in MissionUploadTransaction
        /\ Len(mission_upload.items)' = mission_upload'.expected_count
        /\ Len(mission_upload.received)' = mission_upload'.expected_count
    <3>1. start_mission_upload("MISSION", count).expected_count = count
      BY DEF start_mission_upload
    <3> QED BY <1>1, <3>1, StartType DEF HandleMissionCount, MissionTypes
  <2> QED BY <1>1, <2>1, TypeGcsDatagram DEF HandleMissionCount, TypeOK, lineage
<1>2. ASSUME NEW g \in Gcs, NEW item \in ItemFrames, BufferMissionItem(g, item)
      PROVE  TypeOK'
  BY <1>2, StoreType, TypeGcsDatagram DEF BufferMissionItem, TypeOK, lineage
<1>3. ASSUME NEW g \in Gcs, NEW item \in ItemFrames, DenyMission(g, item)
      PROVE  TypeOK'
  <2> DEFINE upload == store_mission_item(mission_upload, item)
  <2>1. /\ upload \in MissionUploadTransaction
        /\ Len(upload.items) = upload.expected_count
        /\ Len(upload.received) = upload.expected_count
    BY StoreType DEF TypeOK
  <2>2. mission_revisions' \in TrackerStates
    BY <1>3, <2>1, CanonicalType, ProposeType, RejectType
    DEF DenyMission, Proposed, TypeOK
  <2>3. /\ mission_upload' \in MissionUploadTransaction
        /\ Len(mission_upload.items)' = mission_upload'.expected_count
        /\ Len(mission_upload.received)' = mission_upload'.expected_count
    BY <1>3, <2>1 DEF DenyMission, MissionUploadTransaction
  <2> QED BY <1>3, <2>2, <2>3, TypeGcsDatagram
          DEF DenyMission, DecideMissionItem, TypeOK
<1>4. ASSUME NEW g \in Gcs, NEW item \in ItemFrames, NEW sent \in SendResults,
             AllowMission(g, item, sent)
      PROVE  TypeOK'
  <2> DEFINE upload == store_mission_item(mission_upload, item)
  <2>1. /\ upload \in MissionUploadTransaction
        /\ Len(upload.items) = upload.expected_count
        /\ Len(upload.received) = upload.expected_count
    BY StoreType DEF TypeOK
  <2>2. mission_revisions' \in TrackerStates
    BY <1>4, <2>1, CanonicalType, ProposeType DEF AllowMission, Proposed, TypeOK
  <2> QED BY <1>4, <2>1, <2>2, TypeGcsDatagram
          DEF AllowMission, DecideMissionItem, TypeOK
<1>5. ASSUME NEW g \in Gcs, RelayGcsDatagram(g)
      PROVE  TypeOK'
  BY <1>5, TypeGcsDatagram DEF RelayGcsDatagram, TypeOK, session, lineage
<1>6. ASSUME NEW seq \in 0..MaxCount, ServeMissionItem(seq)
      PROVE  TypeOK'
  BY <1>6, TypeEndOfIteration DEF ServeMissionItem, TypeOK, session, lineage
<1>7. ASSUME NEW result, FinishPx4Upload(result)
      PROVE  /\ mission_upload' \in MissionUploadTransaction
             /\ Len(mission_upload.items)' = mission_upload'.expected_count
             /\ Len(mission_upload.received)' = mission_upload'.expected_count
  BY <1>7 DEF FinishPx4Upload, TypeOK, MissionUploadTransaction
<1>8. CASE CommitRevision
  <2>1. mission_revisions' \in TrackerStates
    BY <1>8, CommitType DEF CommitRevision, TypeOK
  <2>2. committed_canonical_mission' \in Missions \cup {None}
    BY <1>8, CanonicalType DEF CommitRevision, TypeOK
  <2> QED BY <1>7, <1>8, <2>1, <2>2, TypeEndOfIteration
          DEF CommitRevision, FinishPx4Upload, TypeOK
<1>9. ASSUME NEW result, RejectRevision(result)
      PROVE  TypeOK'
  <2>1. mission_revisions' \in TrackerStates
    BY <1>9, RejectType DEF RejectRevision, TypeOK
  <2> QED BY <1>7, <1>9, <2>1, TypeEndOfIteration
          DEF RejectRevision, FinishPx4Upload, TypeOK
<1>10. ASSUME NEW message \in Telemetry, HandleTelemetry(message.msgid, message.value)
       PROVE  TypeOK'
  <2>1. message.value \in EvidenceValues
    BY DEF Telemetry, EvidenceValues
  <2>2. update_state_cache(state_cache, message.msgid, message.value, now)
          \in [Fields -> EvidenceField]
    BY <2>1, UpdateType DEF TypeOK
  <2> QED BY <1>10, <2>2, TypeEndOfIteration
          DEF HandleTelemetry, TypeOK, session, lineage
<1>11. CASE NoPx4Message
  BY <1>11, TypeEndOfIteration DEF NoPx4Message, TypeOK, session, lineage
<1>12. CASE RecvFailed
  BY <1>12 DEF RecvFailed, TypeOK, session, lineage
<1>13. CASE Tick
  BY <1>13 DEF Tick, TypeOK, session, lineage
<1>14. CASE UNCHANGED vars
  BY <1>14 DEF vars, TypeOK, session, lineage, outputs
<1> QED BY <1>1, <1>2, <1>3, <1>4, <1>5, <1>6, <1>8, <1>9, <1>10, <1>11, <1>12,
           <1>13, <1>14 DEF Next, GcsStep, Px4Step

\* The variables of the gateway always have their types: the buffer has the
\* announced length, and every revision carries the hash of its mission.
THEOREM TypeCorrect == Spec => []TypeOK
BY TypeInit, TypeStep, PTL DEF Spec

-----------------------------------------------------------------------------
(* The upload session                                                       *)

\* A complete upload stays complete when an item comes again.
LEMMA StoreKeepsComplete ==
  ASSUME NEW t \in MissionUploadTransaction, NEW item \in ItemFrames,
         Len(t.items) = t.expected_count, Len(t.received) = t.expected_count,
         mission_upload_complete(t)
  PROVE  mission_upload_complete(store_mission_item(t, item))
<1>1. CASE ~ItemBelongs(t, item)
  BY <1>1 DEF store_mission_item
<1>2. CASE ItemBelongs(t, item)
  <2> DEFINE flags == [t.received EXCEPT ![item.seq + 1] = TRUE]
  <2>1. /\ store_mission_item(t, item).active = t.active
        /\ store_mission_item(t, item).received = flags
    BY <1>2 DEF store_mission_item, MissionUploadTransaction
  <2>2. DOMAIN flags = DOMAIN t.received
        /\ \A i \in DOMAIN flags : flags[i] = TRUE \/ flags[i] = t.received[i]
    BY DEF MissionUploadTransaction
  <2> HIDE DEF flags
  <2> QED BY <2>1, <2>2 DEF mission_upload_complete
<1> QED BY <1>1, <1>2

\* Storing an item leaves the transaction as active as it was.
LEMMA StoreKeepsActive ==
  ASSUME NEW t \in MissionUploadTransaction, NEW item
  PROVE  /\ store_mission_item(t, item).active = t.active
         /\ store_mission_item(t, item).expected_count = t.expected_count
BY DEF store_mission_item, MissionUploadTransaction

\* The two session invariants together are inductive.
SessionInv == UploadDecidedOnce /\ Px4UploadHasProposal

\* There is no upload at first.
LEMMA SessionInit == Init => SessionInv
BY DEF Init, SessionInv, UploadDecidedOnce, Px4UploadHasProposal, NoUpload

\* The session invariant is inductive relative to TypeOK.
LEMMA SessionStep == TypeOK /\ SessionInv /\ [Next]_vars => SessionInv'
<1> SUFFICES ASSUME TypeOK, SessionInv, [Next]_vars PROVE SessionInv'
  OBVIOUS
<1> USE DEF SessionInv
<1>1. ASSUME NEW g \in Gcs, NEW count \in 0..MaxCount, HandleMissionCount(g, count)
      PROVE  SessionInv'
  <2>1. UploadDecidedOnce'
    <3>1. count > 0 => ~mission_upload_complete(start_mission_upload("MISSION", count))
      <4> SUFFICES ASSUME count > 0
                   PROVE  ~mission_upload_complete(start_mission_upload("MISSION", count))
        OBVIOUS
      <4>1. 1 \in 1..count
        BY GatewayAssumption
      <4> QED BY <4>1 DEF mission_upload_complete, start_mission_upload
    <3>2. start_mission_upload("MISSION", count).expected_count = count
      BY DEF start_mission_upload
    <3> QED BY <1>1, <3>1, <3>2
            DEF HandleMissionCount, UploadDecidedOnce, mission_upload_complete
  <2>2. Px4UploadHasProposal'
    BY <1>1 DEF HandleMissionCount, Px4UploadHasProposal, lineage
  <2> QED BY <2>1, <2>2
<1>2. ASSUME NEW g \in Gcs, NEW item \in ItemFrames, BufferMissionItem(g, item)
      PROVE  SessionInv'
  <2>1. UploadDecidedOnce'
    BY <1>2, StoreKeepsComplete, StoreKeepsActive
    DEF BufferMissionItem, UploadDecidedOnce, TypeOK, mission_upload_complete
  <2>2. Px4UploadHasProposal'
    BY <1>2 DEF BufferMissionItem, Px4UploadHasProposal, lineage
  <2> QED BY <2>1, <2>2
<1>3. ASSUME NEW g \in Gcs, NEW item \in ItemFrames, DenyMission(g, item)
      PROVE  SessionInv'
  <2>1. ~mission_upload'.active
    BY <1>3, StoreType, GatewayAssumption
    DEF DenyMission, TypeOK, MissionUploadTransaction
  <2> QED BY <1>3, <2>1 DEF DenyMission, UploadDecidedOnce, Px4UploadHasProposal
<1>4. ASSUME NEW g \in Gcs, NEW item \in ItemFrames, NEW sent \in SendResults,
             AllowMission(g, item, sent)
      PROVE  SessionInv'
  <2> DEFINE upload == store_mission_item(mission_upload, item)
  <2>1. mission_revisions'.proposed # None
    <3>1. make_canonical_mission(upload) \in Missions
      BY StoreType, CanonicalType, GatewayAssumption DEF TypeOK
    <3>2. mission_revisions'.proposed
            = make_mission_revision(mission_revisions.next_id, make_canonical_mission(upload))
      BY <1>4 DEF AllowMission, Proposed, propose_mission_revision, TypeOK, TrackerStates
    <3> QED BY <3>1, <3>2, RevisionType, NoneAssumption DEF TypeOK, TrackerStates
  <2>2. UploadDecidedOnce'
    BY <1>4 DEF AllowMission, DecideMissionItem, UploadDecidedOnce, mission_upload_complete
  <2> QED BY <2>1, <2>2 DEF Px4UploadHasProposal
<1>5. ASSUME NEW result, FinishPx4Upload(result)
      PROVE  SessionInv'
  <2>1. ~mission_upload'.active /\ ~px4_authorized_upload_active'
    BY <1>5 DEF FinishPx4Upload, TypeOK, MissionUploadTransaction
  <2> QED BY <2>1 DEF UploadDecidedOnce, Px4UploadHasProposal
<1>6. ASSUME UNCHANGED <<session, lineage, px4_authorized_upload_active>>
      PROVE  SessionInv'
  BY <1>6 DEF session, lineage, UploadDecidedOnce, Px4UploadHasProposal,
              mission_upload_complete
<1> QED BY <1>1, <1>2, <1>3, <1>4, <1>5, <1>6
        DEF Next, GcsStep, Px4Step, RelayGcsDatagram, ServeMissionItem, CommitRevision,
            RejectRevision, HandleTelemetry, NoPx4Message, RecvFailed, Tick, vars

\* Every complete upload is decided on exactly once.
THEOREM UploadsDecidedOnce == Spec => []UploadDecidedOnce
<1>1. SessionInv => UploadDecidedOnce
  BY DEF SessionInv
<1> QED BY <1>1, TypeCorrect, SessionInit, SessionStep, PTL DEF Spec

\* While PX4 loads a mission, its answer finds a proposal to commit or reject.
THEOREM Px4UploadsHaveProposals == Spec => []Px4UploadHasProposal
<1>1. SessionInv => Px4UploadHasProposal
  BY DEF SessionInv
<1> QED BY <1>1, TypeCorrect, SessionInit, SessionStep, PTL DEF Spec

-----------------------------------------------------------------------------
(* The evidence a decision rests on                                         *)

\* A field that is usable in a snapshot was observed within the threshold.
LEMMA UsableIsRecent ==
  ASSUME NEW cache \in [Fields -> EvidenceField], NEW time \in Nat,
         NEW field \in Fields,
         evidence_is_usable(make_evidence_snapshot(cache, time)[field])
  PROVE  cache[field].valid /\ time - cache[field].observed_at <= Threshold
<1>1. make_evidence_snapshot(cache, time)[field] = refresh_evidence_field(cache[field], time)
  BY DEF make_evidence_snapshot, refresh_state_freshness
<1>2. cache[field] \in EvidenceField
  OBVIOUS
<1> QED BY <1>1, <1>2 DEF refresh_evidence_field, evidence_is_usable, EvidenceField

\* An ALLOW that goes out was given on usable evidence.
LEMMA AllowedOnUsableEvidence ==
  ASSUME NEW upload, Decision(upload).authorization = "ALLOW"
  PROVE  EvidenceUsable(make_evidence_snapshot(state_cache, now))
<1> DEFINE verdict == Authorization(Proposed(upload), committed_canonical_mission,
                                    make_canonical_mission(upload), vehicle_in_flight)
           usable == EvidenceUsable(make_evidence_snapshot(state_cache, now))
<1>1. DecisionRecord(verdict, usable).authorization = "ALLOW"
  BY DEF Decision
<1> HIDE DEF verdict, usable
<1>2. usable
  BY <1>1 DEF DecisionRecord
<1> QED BY <1>2 DEF usable

\* What OfferedOnFreshEvidence says of a step.
OfferIsFresh ==
  (\E m \in px4_out' : m.type = "MISSION_COUNT") =>
     \A field \in DecisionFields :
       /\ state_cache[field].valid
       /\ now - state_cache[field].observed_at <= Threshold

\* Only an allowed upload sends a MISSION_COUNT to PX4.
LEMMA OfferStep == TypeOK /\ [Next]_vars => OfferIsFresh \/ UNCHANGED vars
<1> SUFFICES ASSUME TypeOK, Next PROVE OfferIsFresh
  OBVIOUS
<1>1. ASSUME NEW g \in Gcs, NEW item \in ItemFrames, NEW sent \in SendResults,
             AllowMission(g, item, sent)
      PROVE  OfferIsFresh
  <2>1. EvidenceUsable(make_evidence_snapshot(state_cache, now))
    BY <1>1, AllowedOnUsableEvidence DEF AllowMission
  <2>2. DecisionFields \subseteq Fields
    BY FieldsAssumption
  <2> QED BY <2>1, <2>2, UsableIsRecent DEF OfferIsFresh, EvidenceUsable, TypeOK
<1>2. ASSUME px4_out' = {}
      PROVE  OfferIsFresh
  BY <1>2 DEF OfferIsFresh
<1>3. ASSUME NEW seq \in 0..MaxCount, ServeMissionItem(seq)
      PROVE  OfferIsFresh
  <2>1. \A m \in px4_out' : m.type # "MISSION_COUNT"
    BY <1>3 DEF ServeMissionItem, StoredItem, MissionItemToPx4
  <2> QED BY <2>1 DEF OfferIsFresh
<1> QED BY <1>1, <1>2, <1>3
        DEF Next, GcsStep, Px4Step, HandleMissionCount, BufferMissionItem, DenyMission,
            RelayGcsDatagram, CommitRevision, RejectRevision, FinishPx4Upload,
            HandleTelemetry, NoPx4Message, RecvFailed, Tick

\* PX4 is offered a mission only on evidence within the threshold.
THEOREM OffersOnFreshEvidence == Spec => OfferedOnFreshEvidence
<1>1. TypeOK /\ [Next]_vars => [OfferIsFresh]_vars
  BY OfferStep
<1>2. [][OfferIsFresh]_vars <=> OfferedOnFreshEvidence
  BY DEF OfferIsFresh, OfferedOnFreshEvidence
<1> QED BY <1>1, <1>2, TypeCorrect, PTL DEF Spec

-----------------------------------------------------------------------------
(* The flags of the cache                                                   *)

\* A flag may say FRESH for too long, but never STALE too early: whatever is
\* within the threshold is marked as fresh.
FlagsInv ==
  \A field \in Fields :
    state_cache[field].valid /\ now - state_cache[field].observed_at <= Threshold
      => state_cache[field].freshness = "FRESH"

\* The cache starts without valid evidence.
LEMMA FlagsInit == Init => FlagsInv
BY DEF Init, EmptyCache, NoEvidence, FlagsInv

\* A refresh marks what is within the threshold as fresh.
LEMMA RefreshedFlags ==
  ASSUME NEW cache \in [Fields -> EvidenceField], NEW field \in Fields,
         now \in Nat,
         state_cache' = refresh_state_freshness(cache, now), now' = now,
         state_cache'[field].valid,
         now' - state_cache'[field].observed_at <= Threshold
  PROVE  state_cache'[field].freshness = "FRESH"
<1>1. state_cache'[field] = refresh_evidence_field(cache[field], now)
  BY DEF refresh_state_freshness
<1>2. cache[field] \in EvidenceField
  OBVIOUS
<1> QED BY <1>1, <1>2 DEF refresh_evidence_field, EvidenceField

\* Every iteration refreshes, and an iteration that is skipped only lets time
\* pass or leaves the cache alone.
LEMMA FlagsStep == TypeOK /\ FlagsInv /\ [Next]_vars => FlagsInv'
<1> SUFFICES ASSUME TypeOK, FlagsInv, [Next]_vars PROVE FlagsInv'
  OBVIOUS
<1>1. ASSUME NEW cache \in [Fields -> EvidenceField], EndOfIteration(cache)
      PROVE  FlagsInv'
  BY <1>1, RefreshedFlags DEF EndOfIteration, FlagsInv, TypeOK
<1>2. ASSUME NEW message \in Telemetry, HandleTelemetry(message.msgid, message.value)
      PROVE  FlagsInv'
  <2>1. message.value \in EvidenceValues
    BY GatewayAssumption DEF Telemetry, EvidenceValues
  <2>2. update_state_cache(state_cache, message.msgid, message.value, now)
          \in [Fields -> EvidenceField]
    BY <2>1, UpdateType DEF TypeOK
  <2> QED BY <1>1, <1>2, <2>2 DEF HandleTelemetry
<1>3. CASE Tick
  <2>1. \A field \in Fields : state_cache[field].observed_at \in Nat
    BY DEF TypeOK, EvidenceField
  <2> QED BY <1>3, <2>1, ThresholdAssumption DEF Tick, FlagsInv, TypeOK
<1>4. ASSUME UNCHANGED <<state_cache, now>>
      PROVE  FlagsInv'
  BY <1>4 DEF FlagsInv
<1>5. state_cache \in [Fields -> EvidenceField]
  BY DEF TypeOK
<1> QED BY <1>1, <1>2, <1>3, <1>4, <1>5
        DEF Next, GcsStep, Px4Step, HandleMissionCount, BufferMissionItem, DenyMission,
            AllowMission, DecideMissionItem, GcsDatagram, RelayGcsDatagram,
            ServeMissionItem, CommitRevision, RejectRevision, FinishPx4Upload,
            NoPx4Message, RecvFailed, vars

\* What FlightStateAgreesWithEvidence says of a step.
FlightAgrees ==
  decision_record' # None /\ decision_record'.evidence_usable =>
    (decision_record'.vehicle_in_flight <=>
       /\ state_cache["armed"].value = "ARMED"
       /\ state_cache["landed_state"].value = "IN_AIR")

\* The snapshot and the flags of the cache agree on what is usable, so the two
\* readings a decision makes of the same fields cannot differ.
LEMMA FlightStep == TypeOK /\ FlagsInv /\ [Next]_vars => FlightAgrees \/ UNCHANGED vars
<1> SUFFICES ASSUME TypeOK, FlagsInv, Next PROVE FlightAgrees
  OBVIOUS
<1>1. ASSUME NEW upload, decision_record' = Decision(upload)
      PROVE  FlightAgrees
  <2> DEFINE verdict == Authorization(Proposed(upload), committed_canonical_mission,
                                      make_canonical_mission(upload), vehicle_in_flight)
             usable == EvidenceUsable(make_evidence_snapshot(state_cache, now))
  <2>1. decision_record' = DecisionRecord(verdict, usable)
    BY <1>1 DEF Decision
  <2>2. usable => evidence_is_usable(state_cache["armed"])
                  /\ evidence_is_usable(state_cache["landed_state"])
    <3>1. {"armed", "landed_state"} \subseteq DecisionFields /\ DecisionFields \subseteq Fields
      BY FieldsAssumption DEF DecisionFields
    <3>2. ASSUME NEW field \in {"armed", "landed_state"}, usable
          PROVE  evidence_is_usable(state_cache[field])
      <4>1. state_cache[field].valid /\ now - state_cache[field].observed_at <= Threshold
        BY <3>1, <3>2, UsableIsRecent DEF EvidenceUsable, TypeOK
      <4> QED BY <3>1, <4>1 DEF FlagsInv, evidence_is_usable
    <3> QED BY <3>2
  <2> HIDE DEF verdict, usable
  <2>3. /\ decision_record'.evidence_usable = usable
        /\ decision_record'.vehicle_in_flight = vehicle_in_flight
    BY <2>1 DEF DecisionRecord
  <2> QED BY <2>2, <2>3 DEF FlightAgrees, vehicle_in_flight
<1>2. ASSUME decision_record' = None
      PROVE  FlightAgrees
  BY <1>2 DEF FlightAgrees
<1> QED BY <1>1, <1>2
        DEF Next, GcsStep, Px4Step, HandleMissionCount, BufferMissionItem, DenyMission,
            AllowMission, DecideMissionItem, RelayGcsDatagram, ServeMissionItem,
            CommitRevision, RejectRevision, FinishPx4Upload, HandleTelemetry,
            NoPx4Message, EndOfIteration, RecvFailed, Tick

\* Whenever the evidence of a decision is usable, the flight state it was taken
\* with is the one the evidence shows.
THEOREM FlightStateIsEvidence == Spec => FlightStateAgreesWithEvidence
<1>1. TypeOK /\ FlagsInv /\ [Next]_vars => [FlightAgrees]_vars
  BY FlightStep
<1>2. [][FlightAgrees]_vars <=> FlightStateAgreesWithEvidence
  BY DEF FlightAgrees, FlightStateAgreesWithEvidence
<1> QED BY <1>1, <1>2, TypeCorrect, FlagsInit, FlagsStep, PTL DEF Spec


-----------------------------------------------------------------------------
(* The policy                                                               *)

\* Nothing the policy allows takes up superseded content: the content is the
\* current one, or is in no revision of the history.
LEMMA AllowedIsNotRollback ==
  ASSUME NEW revisions, NEW committed, NEW canonical, NEW in_flight,
         Authorization(revisions, committed, canonical, in_flight) = "ALLOW",
         revisions.current # None
  PROVE  \/ revisions.proposed.hash = revisions.current.hash
         \/ ~historical_content_exists(revisions, revisions.proposed.hash)
<1> DEFINE delta == IF committed = None THEN NoDelta
                    ELSE compute_mission_delta(committed, canonical)
           record == make_proposal_record(revisions.proposed, revisions.current)
           causality == classify_revision_causality(revisions, record, delta, None)
           budget == evaluate_change_budget(delta, DefaultChangeBudget, proposal_authority)
<1>1. evaluate_mission_authorization(canonical, delta, causality, budget,
        mission_contract, proposal_authority, in_flight, now) = "ALLOW"
  BY DEF Authorization
<1>2. causality # "ROLLBACK"
  <2> HIDE DEF delta, record, causality, budget
  <2> QED BY <1>1 DEF evaluate_mission_authorization
<1>3. record.revision = revisions.proposed
  BY DEF make_proposal_record
<1> HIDE DEF delta, record
<1> QED BY <1>2, <1>3 DEF classify_revision_causality

-----------------------------------------------------------------------------
(* The refinement                                                           *)

\* There is no history before there is a current revision: without it a first
\* commit would not extend the ledger.
LineageInv == mission_revisions.current = None => mission_revisions.history = <<>>

\* A new tracker has neither.
LEMMA LineageInit == Init => LineageInv
BY DEF Init, LineageInv, NewTracker

\* A first commit sets the current revision, and nothing clears it.
LEMMA LineageStep == TypeOK /\ LineageInv /\ [Next]_vars => LineageInv'
<1> SUFFICES ASSUME TypeOK, LineageInv, [Next]_vars PROVE LineageInv'
  OBVIOUS
<1>1. ASSUME NEW g \in Gcs, NEW item \in ItemFrames, DenyMission(g, item)
      PROVE  LineageInv'
  BY <1>1 DEF DenyMission, Proposed, propose_mission_revision,
              reject_proposed_revision, LineageInv, TypeOK, TrackerStates
<1>2. ASSUME NEW g \in Gcs, NEW item \in ItemFrames, NEW sent \in SendResults,
             AllowMission(g, item, sent)
      PROVE  LineageInv'
  BY <1>2 DEF AllowMission, Proposed, propose_mission_revision, LineageInv,
              TypeOK, TrackerStates
<1>3. CASE CommitRevision
  BY <1>3 DEF CommitRevision, commit_proposed_revision, can_commit, LineageInv,
              TypeOK, TrackerStates
<1>4. ASSUME NEW result, RejectRevision(result)
      PROVE  LineageInv'
  BY <1>4 DEF RejectRevision, reject_proposed_revision, LineageInv, TypeOK,
              TrackerStates
<1>5. CASE UNCHANGED lineage
  BY <1>5 DEF lineage, LineageInv
<1> QED BY <1>1, <1>2, <1>3, <1>4, <1>5
        DEF Next, GcsStep, Px4Step, HandleMissionCount, BufferMissionItem,
            RelayGcsDatagram, ServeMissionItem, HandleTelemetry, NoPx4Message,
            RecvFailed, Tick, vars

\* The committed revisions are a sequence of revisions, and the ledger is the
\* sequence of their contents.
LEMMA CommittedType ==
  ASSUME TypeOK
  PROVE  /\ Committed \in Seq(Revisions)
         /\ CommittedContents \in Seq(Contents)
         /\ DOMAIN CommittedContents = 1..Len(Committed)
         /\ Len(CommittedContents) = Len(Committed)
         /\ \A i \in 1..Len(Committed) : CommittedContents[i] = Committed[i].hash
<1>1. Committed \in Seq(Revisions)
  BY DEF TypeOK, TrackerStates, OptionalRevision, Committed
<1>2. \A i \in 1..Len(Committed) : Committed[i].hash \in Contents
  BY <1>1 DEF Revisions
<1> HIDE DEF Committed
<1> QED BY <1>1, <1>2 DEF CommittedContents

\* A step that leaves the committed revisions leaves the ledger.
LEMMA LedgerUnchanged ==
  ASSUME mission_revisions'.current = mission_revisions.current,
         mission_revisions'.history = mission_revisions.history
  PROVE  UNCHANGED CommittedContents
BY DEF CommittedContents, Committed

\* A rejection withdraws what was pending.
LEMMA RejectWithdraws ==
  ASSUME TypeOK, NEW t \in TrackerStates,
         t.current = mission_revisions.current, t.history = mission_revisions.history,
         mission_revisions' = reject_proposed_revision(t)
  PROVE  Ledger!Withdraw
<1>1. /\ mission_revisions'.current = mission_revisions.current
      /\ mission_revisions'.history = mission_revisions.history
      /\ mission_revisions'.proposed = None
  BY DEF reject_proposed_revision, TrackerStates
<1>2. PendingContent' = None
  BY <1>1 DEF PendingContent
<1> QED BY <1>1, <1>2, LedgerUnchanged DEF Ledger!Withdraw

\* An upload the policy allows is an offer of its content.
LEMMA AllowOffers ==
  ASSUME TypeOK, LineageInv, NEW g \in Gcs, NEW item \in ItemFrames,
         NEW sent \in SendResults, AllowMission(g, item, sent)
  PROVE  Ledger!Offer
<1> DEFINE upload == store_mission_item(mission_upload, item)
           proposal == make_mission_revision(mission_revisions.next_id,
                                             make_canonical_mission(upload))
<1>1. proposal \in Revisions
  BY StoreType, CanonicalType, RevisionType, GatewayAssumption
  DEF TypeOK, TrackerStates
<1>2. /\ Proposed(upload).current = mission_revisions.current
      /\ Proposed(upload).history = mission_revisions.history
      /\ Proposed(upload).proposed = proposal
  BY DEF Proposed, propose_mission_revision, TypeOK, TrackerStates
<1>3. mission_revisions' = Proposed(upload)
  BY DEF AllowMission
<1>4. Authorization(Proposed(upload), committed_canonical_mission,
                    make_canonical_mission(upload), vehicle_in_flight) = "ALLOW"
  <2> HIDE DEF proposal
  <2>1. Decision(upload).authorization = "ALLOW"
    BY DEF AllowMission
  <2> HIDE DEF upload
  <2> DEFINE verdict == Authorization(Proposed(upload), committed_canonical_mission,
                                      make_canonical_mission(upload), vehicle_in_flight)
             usable == EvidenceUsable(make_evidence_snapshot(state_cache, now))
  <2>2. DecisionRecord(verdict, usable).authorization = "ALLOW"
    BY <2>1 DEF Decision
  <2> HIDE DEF verdict, usable
  <2>3. verdict = "ALLOW"
    BY <2>2 DEF DecisionRecord
  <2> QED BY <2>3 DEF verdict
<1> HIDE DEF proposal, upload
<1>5. mission_revisions.current # None =>
        \/ proposal.hash = mission_revisions.current.hash
        \/ \A i \in DOMAIN mission_revisions.history :
             mission_revisions.history[i].hash # proposal.hash
  BY <1>2, <1>4, AllowedIsNotRollback DEF historical_content_exists
<1>6. PendingContent' = proposal.hash /\ proposal.hash \in Contents
  BY <1>1, <1>2, <1>3, NoneAssumption DEF PendingContent, Revisions
<1>7. ~Ledger!Superseded(proposal.hash)
  <2>1. CASE mission_revisions.current = None
    <3>1. Committed = <<>>
      BY <2>1 DEF LineageInv, Committed
    <3> QED BY <3>1, CommittedType DEF Ledger!Superseded
  <2>2. CASE mission_revisions.current # None
    <3> DEFINE n == Len(mission_revisions.history)
    <3>1. /\ n \in Nat /\ Len(Committed) = n + 1
          /\ Committed[n + 1] = mission_revisions.current
          /\ \A i \in 1..n : Committed[i] = mission_revisions.history[i]
          /\ DOMAIN mission_revisions.history = 1..n
      BY <2>2 DEF Committed, TypeOK, TrackerStates, OptionalRevision
    <3> HIDE DEF n
    <3>2. /\ DOMAIN CommittedContents = 1..(n + 1)
          /\ Len(CommittedContents) = n + 1
          /\ CommittedContents[n + 1] = mission_revisions.current.hash
          /\ \A i \in 1..n : CommittedContents[i] = mission_revisions.history[i].hash
      BY <3>1, CommittedType
    <3>3. CASE proposal.hash = mission_revisions.current.hash
      BY <3>1, <3>2, <3>3 DEF Ledger!Superseded
    <3>4. CASE proposal.hash # mission_revisions.current.hash
      <4>1. \A i \in 1..(n + 1) : CommittedContents[i] # proposal.hash
        BY <1>5, <2>2, <3>1, <3>2, <3>4
      <4> QED BY <3>2, <4>1 DEF Ledger!Superseded
    <3> QED BY <3>3, <3>4
  <2> QED BY <2>1, <2>2
<1>8. UNCHANGED CommittedContents
  BY <1>2, <1>3, LedgerUnchanged
<1> QED BY <1>6, <1>7, <1>8 DEF Ledger!Offer

\* Committing the proposal appends its content to the ledger.
LEMMA CommitAppends ==
  ASSUME TypeOK, LineageInv, CommitRevision, can_commit(mission_revisions)
  PROVE  Ledger!Commit
<1> DEFINE proposal == mission_revisions.proposed
<1>1. proposal # None /\ proposal \in Revisions
  BY DEF can_commit, TypeOK, TrackerStates, OptionalRevision
<1>2. /\ mission_revisions'.proposed = None /\ mission_revisions'.current = proposal
      /\ mission_revisions'.history = Committed
  BY DEF CommitRevision, commit_proposed_revision, TypeOK, TrackerStates,
         LineageInv, Committed
<1>3. Committed' = Append(Committed, proposal)
  BY <1>1, <1>2 DEF Committed
<1>4. PendingContent = proposal.hash /\ PendingContent' = None
  BY <1>1, <1>2 DEF PendingContent
<1>5. CommittedContents' = Append(CommittedContents, proposal.hash)
  <2>1. Committed \in Seq(Revisions) /\ Len(Committed) \in Nat
    BY CommittedType
  <2>2. Len(Committed') = Len(Committed) + 1
    BY <1>1, <1>3, <2>1
  <2>3. CommittedContents'
          = [i \in 1..(Len(Committed) + 1) |-> Append(Committed, proposal)[i].hash]
    BY <1>3, <2>2 DEF CommittedContents
  <2>4. \A i \in 1..(Len(Committed) + 1) :
          Append(Committed, proposal)[i]
            = IF i = Len(Committed) + 1 THEN proposal ELSE Committed[i]
    BY <1>1, <2>1
  <2>5. Append(CommittedContents, proposal.hash)
          = [i \in 1..(Len(Committed) + 1) |->
               IF i = Len(Committed) + 1 THEN proposal.hash ELSE CommittedContents[i]]
    BY CommittedType
  <2> HIDE DEF proposal
  <2> QED BY <2>1, <2>3, <2>4, <2>5, CommittedType
<1>6. PendingContent # None
  BY <1>1, <1>4, NoneAssumption DEF Revisions
<1> QED BY <1>4, <1>5, <1>6 DEF Ledger!Commit

\* The gateway starts with an empty ledger.
LEMMA LedgerRefinesInit == Init => Ledger!LedgerInit
BY DEF Init, NewTracker, Ledger!LedgerInit, CommittedContents, PendingContent, Committed

\* Every step of the gateway is a step of the ledger or leaves it alone.
LEMMA LedgerRefinesStep ==
  TypeOK /\ LineageInv /\ [Next]_vars => [Ledger!LedgerNext]_(Ledger!ledger_vars)
<1> SUFFICES ASSUME TypeOK, LineageInv, [Next]_vars
             PROVE  Ledger!LedgerNext \/ UNCHANGED Ledger!ledger_vars
  OBVIOUS
<1>1. ASSUME NEW g \in Gcs, NEW item \in ItemFrames, DenyMission(g, item)
      PROVE  Ledger!Withdraw
  <2> DEFINE upload == store_mission_item(mission_upload, item)
  <2>1. Proposed(upload) \in TrackerStates
    BY StoreType, CanonicalType, ProposeType, GatewayAssumption DEF Proposed, TypeOK
  <2>2. /\ Proposed(upload).current = mission_revisions.current
        /\ Proposed(upload).history = mission_revisions.history
    BY DEF Proposed, propose_mission_revision, TypeOK, TrackerStates
  <2> QED BY <1>1, <2>1, <2>2, RejectWithdraws DEF DenyMission
<1>2. ASSUME NEW result, RejectRevision(result)
      PROVE  Ledger!Withdraw
  BY <1>2, RejectWithdraws DEF RejectRevision, TypeOK
<1>3. ASSUME CommitRevision, ~can_commit(mission_revisions)
      PROVE  UNCHANGED mission_revisions
  BY <1>3 DEF CommitRevision, commit_proposed_revision
<1>4. ASSUME UNCHANGED mission_revisions
      PROVE  UNCHANGED Ledger!ledger_vars
  BY <1>4 DEF Ledger!ledger_vars, CommittedContents, Committed, PendingContent
<1> QED BY <1>1, <1>2, <1>3, <1>4, AllowOffers, CommitAppends
        DEF Next, GcsStep, Px4Step, HandleMissionCount, BufferMissionItem,
            RelayGcsDatagram, ServeMissionItem, HandleTelemetry, NoPx4Message,
            RecvFailed, Tick, vars, lineage, Ledger!LedgerNext

\* The gateway implements the ledger: every step that touches the lineage is
\* an offer of content that is not superseded, a withdrawal, or the commit of
\* what is pending.
THEOREM GatewayImplementsLedger == Spec => LedgerSpec
BY TypeCorrect, LineageInit, LineageStep, LedgerRefinesInit, LedgerRefinesStep, PTL
DEF Spec, LedgerSpec, Ledger!LedgerSpec

\* What is pending is not superseded, with the rest of the ledger's invariant.
LEMMA LedgerInvHolds == Spec => []LedgerProofs!LedgerInv
<1>1. Ledger!LedgerInit => LedgerProofs!LedgerInit
  BY DEF Ledger!LedgerInit, LedgerProofs!LedgerInit
<1>2. [Ledger!LedgerNext]_(Ledger!ledger_vars)
        => [LedgerProofs!LedgerNext]_(LedgerProofs!ledger_vars)
  BY DEF Ledger!LedgerNext, Ledger!ledger_vars, Ledger!Offer, Ledger!Withdraw,
         Ledger!Commit, Ledger!Superseded, LedgerProofs!LedgerNext,
         LedgerProofs!ledger_vars, LedgerProofs!Offer, LedgerProofs!Withdraw,
         LedgerProofs!Commit, LedgerProofs!Superseded
<1> QED BY <1>1, <1>2, LedgerProofs!LedgerInvInit, LedgerProofs!LedgerInvStep,
           GatewayImplementsLedger, PTL
        DEF LedgerSpec, Ledger!LedgerSpec

\* Content that other content has replaced is never committed again.
THEOREM SupersededNeverRecommitted == Spec => []NoSupersededContentRecommitted
<1>1. LedgerProofs!LedgerInv => NoSupersededContentRecommitted
  BY DEF LedgerProofs!LedgerInv, LedgerProofs!NoReturn, Ledger!NoReturn,
         NoSupersededContentRecommitted
<1> QED BY <1>1, LedgerInvHolds, PTL

-----------------------------------------------------------------------------
(* The order of the lineage                                                 *)

\* What LineageOrdered says, as a predicate of a sequence of revisions and the
\* rest of a tracker.
Ordered(revisions, proposed, next_id) ==
  /\ \A i, j \in 1..Len(revisions) : i < j => revisions[i].id < revisions[j].id
  /\ \A i \in 1..Len(revisions) : revisions[i].id < next_id
  /\ proposed # None =>
       /\ proposed.id < next_id
       /\ \A i \in 1..Len(revisions) : revisions[i].id < proposed.id

\* The parent is the revision that precedes the current one.
ParentIsLast ==
  LET tracker == mission_revisions  n == Len(tracker.history) IN
  tracker.parent = IF n = 0 THEN None ELSE tracker.history[n]

\* LineageOrdered in these two parts.
LEMMA OrderedIsLineageOrdered ==
  ASSUME TypeOK
  PROVE  LineageOrdered <=>
           /\ Ordered(Committed, mission_revisions.proposed, mission_revisions.next_id)
           /\ ParentIsLast
<1>1. DOMAIN Committed = 1..Len(Committed)
  BY CommittedType
<1> HIDE DEF Committed
<1> QED BY <1>1 DEF LineageOrdered, Ordered, ParentIsLast

\* Proposing under next_id keeps the order, whether the proposal is kept or not.
LEMMA ProposeKeepsOrder ==
  ASSUME NEW revisions \in Seq(Revisions), NEW next_id \in Nat, NEW proposed,
         Ordered(revisions, proposed, next_id),
         NEW proposal, proposal.id = next_id
  PROVE  /\ Ordered(revisions, proposal, next_id + 1)
         /\ Ordered(revisions, None, next_id + 1)
<1>1. \A i \in 1..Len(revisions) : revisions[i].id \in Nat
  BY DEF Revisions
<1> QED BY <1>1 DEF Ordered

\* Dropping the proposal keeps the order.
LEMMA RejectKeepsOrder ==
  ASSUME NEW revisions, NEW next_id, NEW proposed, Ordered(revisions, proposed, next_id)
  PROVE  Ordered(revisions, None, next_id)
BY DEF Ordered

\* Appending the proposal keeps the order.
LEMMA CommitKeepsOrder ==
  ASSUME NEW revisions \in Seq(Revisions), NEW next_id \in Nat,
         NEW proposed \in Revisions, proposed # None,
         Ordered(revisions, proposed, next_id)
  PROVE  Ordered(Append(revisions, proposed), None, next_id)
<1> DEFINE n == Len(revisions)
           longer == Append(revisions, proposed)
<1>1. /\ n \in Nat /\ Len(longer) = n + 1 /\ longer[n + 1] = proposed
      /\ \A i \in 1..n : longer[i] = revisions[i]
  OBVIOUS
<1> HIDE DEF n, longer
<1>2. \A i \in 1..(n + 1) : longer[i].id < next_id
  BY <1>1 DEF Ordered, n
<1>3. ASSUME NEW i \in 1..(n + 1), NEW j \in 1..(n + 1), i < j
      PROVE  longer[i].id < longer[j].id
  <2>1. i \in 1..n
    BY <1>1, <1>3
  <2>2. CASE j \in 1..n
    BY <1>1, <1>3, <2>1, <2>2 DEF Ordered, n
  <2>3. CASE j = n + 1
    BY <1>1, <2>1, <2>3 DEF Ordered, n
  <2> QED BY <1>1, <2>2, <2>3
<1> QED BY <1>1, <1>2, <1>3 DEF Ordered, longer

\* A new tracker is ordered.
LEMMA LineageOrderedInit == Init => LineageOrdered
BY DEF Init, NewTracker, LineageOrdered, Committed

\* The order is inductive relative to TypeOK and LineageInv.
LEMMA LineageOrderedStep ==
  TypeOK /\ TypeOK' /\ LineageInv /\ LineageOrdered /\ [Next]_vars => LineageOrdered'
<1> SUFFICES ASSUME TypeOK, TypeOK', LineageInv, LineageOrdered, [Next]_vars
             PROVE  LineageOrdered'
  OBVIOUS
<1> DEFINE t == mission_revisions
<1>1. Ordered(Committed, t.proposed, t.next_id) /\ ParentIsLast
  BY OrderedIsLineageOrdered
<1>2. Committed \in Seq(Revisions) /\ t.next_id \in Nat
  BY CommittedType DEF TypeOK, TrackerStates
<1>3. ASSUME Ordered(Committed', t'.proposed, t'.next_id), ParentIsLast'
      PROVE  LineageOrdered'
  <2>1. Committed' \in Seq(Revisions)
    BY DEF TypeOK, TrackerStates, OptionalRevision, Committed
  <2>2. DOMAIN Committed' = 1..Len(Committed')
    BY <2>1
  <2> HIDE DEF Committed
  <2> QED BY <1>3, <2>2 DEF LineageOrdered, Ordered, ParentIsLast
<1>4. ASSUME t'.current = t.current, t'.history = t.history, t'.parent = t.parent
      PROVE  Committed' = Committed /\ ParentIsLast'
  BY <1>1, <1>4 DEF Committed, ParentIsLast
<1>5. ASSUME NEW upload,
             LET tracker == Proposed(upload) IN
             t' = tracker \/ t' = reject_proposed_revision(tracker)
      PROVE  LineageOrdered'
  <2> DEFINE proposal == make_mission_revision(t.next_id, make_canonical_mission(upload))
  <2>1. /\ t'.current = t.current /\ t'.history = t.history /\ t'.parent = t.parent
        /\ t'.next_id = t.next_id + 1
        /\ t'.proposed \in {proposal, None}
    BY <1>5 DEF Proposed, propose_mission_revision, reject_proposed_revision,
                TypeOK, TrackerStates
  <2>2. proposal.id = t.next_id
    BY DEF make_mission_revision
  <2> HIDE DEF proposal
  <2>3. Ordered(Committed, t'.proposed, t'.next_id)
    BY <1>1, <1>2, <2>1, <2>2, ProposeKeepsOrder
  <2> QED BY <1>3, <1>4, <2>1, <2>3
<1>6. ASSUME t' = reject_proposed_revision(t)
      PROVE  LineageOrdered'
  <2>1. /\ t'.current = t.current /\ t'.history = t.history /\ t'.parent = t.parent
        /\ t'.next_id = t.next_id /\ t'.proposed = None
    BY <1>6 DEF reject_proposed_revision, TypeOK, TrackerStates
  <2> QED BY <1>1, <1>3, <1>4, <2>1, RejectKeepsOrder
<1>7. ASSUME t' = commit_proposed_revision(t), can_commit(t)
      PROVE  LineageOrdered'
  <2>1. t.proposed # None /\ t.proposed \in Revisions
    BY <1>7 DEF can_commit, TypeOK, TrackerStates, OptionalRevision
  <2>2. /\ t'.proposed = None /\ t'.current = t.proposed /\ t'.next_id = t.next_id
        /\ t'.history = Committed
        /\ t'.parent = IF t.current = None THEN t.parent ELSE t.current
    BY <1>7 DEF commit_proposed_revision, TypeOK, TrackerStates, LineageInv, Committed
  <2>3. Committed' = Append(Committed, t.proposed)
    BY <2>1, <2>2 DEF Committed
  <2>4. Ordered(Committed', t'.proposed, t'.next_id)
    BY <1>1, <1>2, <2>1, <2>2, <2>3, CommitKeepsOrder
  <2>5. ParentIsLast'
    <3>1. CASE t.current = None
      BY <1>1, <2>2, <3>1 DEF ParentIsLast, LineageInv, Committed
    <3>2. CASE t.current # None
      <4>1. /\ Committed = Append(t.history, t.current)
            /\ t.history \in Seq(Revisions) /\ t.current \in Revisions
        BY <3>2 DEF Committed, TypeOK, TrackerStates, OptionalRevision
      <4>2. Len(Committed) # 0 /\ Committed[Len(Committed)] = t.current
        BY <4>1
      <4> QED BY <2>2, <3>2, <4>2 DEF ParentIsLast
    <3> QED BY <3>1, <3>2
  <2> QED BY <1>3, <2>4, <2>5
<1>8. ASSUME UNCHANGED t
      PROVE  LineageOrdered'
  BY <1>8 DEF LineageOrdered, Committed
<1>9. CASE CommitRevision
  <2>1. ~can_commit(t) => UNCHANGED t
    BY <1>9 DEF CommitRevision, commit_proposed_revision
  <2> QED BY <1>7, <1>8, <1>9, <2>1 DEF CommitRevision
<1> QED BY <1>5, <1>6, <1>8, <1>9
        DEF Next, GcsStep, Px4Step, HandleMissionCount, BufferMissionItem, DenyMission,
            AllowMission, RejectRevision, RelayGcsDatagram, ServeMissionItem,
            HandleTelemetry, NoPx4Message, RecvFailed, Tick, vars, lineage

\* Revisions are committed in the order in which they were proposed.
THEOREM LineageIsOrdered == Spec => []LineageOrdered
BY TypeCorrect, LineageInit, LineageStep, LineageOrderedInit, LineageOrderedStep, PTL
DEF Spec

-----------------------------------------------------------------------------
(* The pending proposal                                                     *)

\* Authorization at a given time: Authorization is this at now.
AuthorizationAt(revisions, committed, canonical, in_flight, time) ==
  LET delta  == IF committed = None THEN NoDelta
                ELSE compute_mission_delta(committed, canonical)
      record == make_proposal_record(revisions.proposed, revisions.current)
      causality == classify_revision_causality(revisions, record, delta, None)
      budget == evaluate_change_budget(delta, DefaultChangeBudget, proposal_authority)
  IN  evaluate_mission_authorization(canonical, delta, causality, budget,
        mission_contract, proposal_authority, in_flight, time)

\* The gateway's contract has no validity window, so time plays no part.
LEMMA VerdictIgnoresTime ==
  ASSUME NEW revisions, NEW committed, NEW canonical, NEW in_flight, NEW t1, NEW t2
  PROVE  AuthorizationAt(revisions, committed, canonical, in_flight, t1)
           = AuthorizationAt(revisions, committed, canonical, in_flight, t2)
<1>1. mission_contract.has_validity_window = FALSE
  BY DEF mission_contract
<1>2. ContractApplies(mission_contract, t1) = ContractApplies(mission_contract, t2)
  <2>1. contract_valid_at(mission_contract, t1) /\ contract_valid_at(mission_contract, t2)
    BY <1>1 DEF contract_valid_at
  <2> QED BY <2>1 DEF ContractApplies
<1> QED BY <1>2 DEF AuthorizationAt, evaluate_mission_authorization

\* Nothing waits for PX4 at first.
LEMMA PendingInit == Init => PendingStillAuthorized
BY DEF Init, NewTracker, PendingStillAuthorized

\* A proposal is authorized when it is made, and neither the base it was
\* compared with nor the lineage changes while it waits.
LEMMA PendingStep ==
  TypeOK /\ PendingStillAuthorized /\ [Next]_vars => PendingStillAuthorized'
<1> SUFFICES ASSUME TypeOK, PendingStillAuthorized, [Next]_vars
             PROVE  PendingStillAuthorized'
  OBVIOUS
<1>1. ASSUME NEW g \in Gcs, NEW item \in ItemFrames, NEW sent \in SendResults,
             AllowMission(g, item, sent)
      PROVE  PendingStillAuthorized'
  <2> DEFINE upload == store_mission_item(mission_upload, item)
             canonical == make_canonical_mission(upload)
             proposed == Proposed(upload)
  <2>1. Authorization(proposed, committed_canonical_mission, canonical,
                      vehicle_in_flight) = "ALLOW"
    <3>1. Decision(upload).authorization = "ALLOW"
      BY <1>1 DEF AllowMission
    <3> HIDE DEF upload
    <3> DEFINE verdict == Authorization(Proposed(upload), committed_canonical_mission,
                                        canonical, vehicle_in_flight)
               usable == EvidenceUsable(make_evidence_snapshot(state_cache, now))
    <3>2. DecisionRecord(verdict, usable).authorization = "ALLOW"
      BY <3>1 DEF Decision
    <3> HIDE DEF verdict, usable
    <3>3. verdict = "ALLOW"
      BY <3>2 DEF DecisionRecord
    <3> QED BY <3>3 DEF verdict
  <2>2. proposed.proposed.mission = canonical
    BY DEF Proposed, propose_mission_revision, make_mission_revision, TypeOK, TrackerStates
  <2>3. /\ mission_revisions' = proposed
        /\ committed_canonical_mission' = committed_canonical_mission
        /\ now' = now
    BY <1>1 DEF AllowMission, DecideMissionItem, GcsDatagram
  <2>4. vehicle_in_flight \in BOOLEAN
    BY DEF vehicle_in_flight
  <2> HIDE DEF upload, canonical, proposed
  <2> QED BY <2>1, <2>2, <2>3, <2>4 DEF PendingStillAuthorized, Authorization
<1>2. ASSUME mission_revisions'.proposed = None
      PROVE  PendingStillAuthorized'
  BY <1>2 DEF PendingStillAuthorized
<1>3. ASSUME UNCHANGED lineage
      PROVE  PendingStillAuthorized'
  <2>1. \A in_flight \in BOOLEAN :
          Authorization(mission_revisions, committed_canonical_mission,
                        mission_revisions.proposed.mission, in_flight)
            = AuthorizationAt(mission_revisions, committed_canonical_mission,
                              mission_revisions.proposed.mission, in_flight, now)
    BY DEF Authorization, AuthorizationAt
  <2>2. \A in_flight \in BOOLEAN :
          Authorization(mission_revisions, committed_canonical_mission,
                        mission_revisions.proposed.mission, in_flight)'
            = AuthorizationAt(mission_revisions', committed_canonical_mission',
                              mission_revisions'.proposed.mission, in_flight, now')
    BY DEF Authorization, AuthorizationAt
  <2> QED BY <1>3, <2>1, <2>2, VerdictIgnoresTime DEF PendingStillAuthorized, lineage
<1>4. ASSUME NEW g \in Gcs, NEW item \in ItemFrames, DenyMission(g, item)
      PROVE  mission_revisions'.proposed = None
  <2>1. Proposed(store_mission_item(mission_upload, item)) \in TrackerStates
    BY StoreType, CanonicalType, ProposeType, GatewayAssumption DEF Proposed, TypeOK
  <2> QED BY <1>4, <2>1 DEF DenyMission, reject_proposed_revision, TrackerStates
<1>5. ASSUME NEW result, RejectRevision(result)
      PROVE  mission_revisions'.proposed = None
  BY <1>5 DEF RejectRevision, reject_proposed_revision, TypeOK, TrackerStates
<1>6. CASE CommitRevision
  BY <1>2, <1>6 DEF CommitRevision, commit_proposed_revision, can_commit, TypeOK, TrackerStates
<1> QED BY <1>1, <1>2, <1>3, <1>4, <1>5, <1>6
        DEF Next, GcsStep, Px4Step, HandleMissionCount, BufferMissionItem,
            RelayGcsDatagram, ServeMissionItem, HandleTelemetry, NoPx4Message,
            RecvFailed, Tick, vars

\* What waits for PX4 would be allowed again.
THEOREM PendingIsAuthorized == Spec => []PendingStillAuthorized
BY TypeCorrect, PendingInit, PendingStep, PTL DEF Spec

-----------------------------------------------------------------------------
(* The contract                                                             *)

\* An item inside the contract, as CommittedInsideContract has it.
InsideContract(item) ==
  LET altitude  == mission_contract.altitude
      line      == mission_contract.corridor.centerline
      deviation == mission_contract.corridor.allowed_deviation_m
  IN
  /\ item.command \in mission_contract.command_policy.allowed_commands
  /\ uses_global_position(item) =>
       /\ item.z # NaN
       /\ altitude.minimum_m <= Unsigned(item.z)
       /\ Unsigned(item.z) <= altitude.maximum_m
       /\ line[1] - deviation <= item.x
       /\ item.x <= line[Len(line)] + deviation

\* All items of an optional revision are inside the contract.
RevisionInside(revision) ==
  revision # None =>
    \A i \in DOMAIN revision.mission.items : InsideContract(revision.mission.items[i])

\* What the chain allows an operator is a re-upload, or passed the tests of
\* commands and geometry.
LEMMA AllowedPassedTests ==
  ASSUME NEW mission, NEW delta, NEW class, NEW budget, NEW contract, NEW authority,
         NEW in_flight, NEW time,
         evaluate_mission_authorization(mission, delta, class, budget, contract,
           authority, in_flight, time) = "ALLOW"
  PROVE  \/ class = "NO_OP_REUPLOAD"
         \/ /\ class \notin {"ROLLBACK", "STALE_PARENT", "CONCURRENT_CONFLICT"}
            /\ budget.within_budget
            /\ OffendingItems(mission, contract, authority) = {}
            /\ InsideContractGeometry(mission, contract)
BY DEF evaluate_mission_authorization, CommandVerdict

\* A position in the corridor is within the deviation of its ends.
LEMMA CorridorBounds ==
  ASSUME NEW x \in Int, point_inside_corridor(x, mission_contract.corridor)
  PROVE  LET line      == mission_contract.corridor.centerline
             deviation == mission_contract.corridor.allowed_deviation_m
         IN  line[1] - deviation <= x /\ x <= line[Len(line)] + deviation
<1> DEFINE corridor == mission_contract.corridor
           line == corridor.centerline
<1>1. line = <<-100, 234>> /\ corridor.allowed_deviation_m = 500
  BY DEF mission_contract
<1>2. Len(line) = 2 /\ line[1] = -100 /\ line[2] = 234
  BY <1>1
<1>3. PICK i \in 1..1 : point_to_segment_distance_m(x, line[i], line[i + 1]) <= 500
  <2> HIDE DEF line
  <2> QED BY <1>1, <1>2 DEF point_inside_corridor, line
<1>4. point_to_segment_distance_m(x, -100, 234) <= 500
  <2> HIDE DEF line
  <2> QED BY <1>2, <1>3
<1>5. -600 <= x /\ x <= 734
  BY <1>4 DEF point_to_segment_distance_m
<1> HIDE DEF line, corridor
<1> QED BY <1>1, <1>2, <1>5 DEF line, corridor

\* What passes the tests of the gateway's contract for its operator has all its
\* items inside.
LEMMA TestedIsInside ==
  ASSUME NEW mission \in Missions,
         OffendingItems(mission, mission_contract, proposal_authority) = {},
         InsideContractGeometry(mission, mission_contract),
         NEW i \in DOMAIN mission.items
  PROVE  InsideContract(mission.items[i])
<1> DEFINE item == mission.items[i]
<1>1. item \in Items \cup {BlankItem} /\ item.x \in Int
  BY ItemAssumption DEF Missions, CanonicalItem
<1>2. item.command \in mission_contract.command_policy.allowed_commands
  <2>1. /\ mission_contract.command_policy.allowed_commands
             = {"TAKEOFF", "WAYPOINT", "RTL", "LAND"}
        /\ mission_contract.authority_policy.emergency_authorities
             = {"EMERGENCY_AUTHORITY", "SECURITY_ADMIN"}
    BY DEF mission_contract
  <2>2. ~authority_can_use_emergency_policy(proposal_authority,
                                            mission_contract.authority_policy)
    BY <2>1 DEF authority_can_use_emergency_policy, proposal_authority
  <2>3. command_allowed(item.command, mission_contract.command_policy)
    BY <2>2 DEF OffendingItems
  <2> QED BY <2>1, <2>3 DEF command_allowed
<1>3. ASSUME uses_global_position(item)
      PROVE  /\ altitude_inside_envelope(item.z, mission_contract.altitude)
             /\ point_inside_corridor(item.x, mission_contract.corridor)
  BY <1>3 DEF InsideContractGeometry, PositionIndices
<1> HIDE DEF item
<1> QED BY <1>1, <1>2, <1>3, CorridorBounds DEF InsideContract, altitude_inside_envelope, item

\* The hash tells missions apart that differ in anything the contract looks at:
\* it only normalises the sign of a zero.
LEMMA SameHashSameInside ==
  ASSUME NEW a \in Revisions, NEW b \in Revisions, a.hash = b.hash,
         \A i \in DOMAIN a.mission.items : InsideContract(a.mission.items[i])
  PROVE  \A i \in DOMAIN b.mission.items : InsideContract(b.mission.items[i])
<1>1. ASSUME NEW r \in Revisions
      PROVE  /\ r.mission \in Missions /\ r.hash \in Contents
             /\ r.hash.items = [i \in DOMAIN r.mission.items |->
                                  canonical_item(r.mission.items[i])]
  BY DEF Revisions, compute_mission_hash, serialize_canonical_mission, Missions
<1>2. DOMAIN a.mission.items = DOMAIN b.mission.items
  <2>1. /\ DOMAIN a.hash.items = DOMAIN a.mission.items
        /\ DOMAIN b.hash.items = DOMAIN b.mission.items
    BY <1>1
  <2> QED BY <2>1
<1> SUFFICES ASSUME NEW i \in DOMAIN b.mission.items
             PROVE  InsideContract(b.mission.items[i])
  OBVIOUS
<1> DEFINE p == a.mission.items[i]
           q == b.mission.items[i]
<1>3. p \in Items \cup {BlankItem} /\ q \in Items \cup {BlankItem}
  <2>1. a.mission \in Missions /\ b.mission \in Missions
    BY <1>1
  <2>2. a.mission.items \in Seq(Items \cup {BlankItem})
        /\ b.mission.items \in Seq(Items \cup {BlankItem})
    BY <2>1 DEF Missions
  <2> QED BY <1>2, <2>2
<1>4. canonical_item(p) = canonical_item(q)
  <2>1. a.hash.items[i] = canonical_item(p) /\ b.hash.items[i] = canonical_item(q)
    BY <1>1, <1>2
  <2> QED BY <2>1
<1>5. InsideContract(p)
  BY <1>2
<1> HIDE DEF p, q
<1>6. /\ p.command = q.command /\ p.frame = q.frame /\ p.x = q.x
      /\ Unsigned(p.z) = Unsigned(q.z)
  <2>1. p \in CanonicalItem /\ q \in CanonicalItem
    BY <1>3, ItemAssumption
  <2>2. ASSUME NEW u \in CanonicalItem
        PROVE  LET t == canonical_item(u) IN
               /\ t.command = u.command /\ t.frame = u.frame /\ t.x = u.x
               /\ t.z = Unsigned(u.z)
    <3> DEFINE t == [u EXCEPT !.z = canonical_float(@)]
    <3>1. /\ t = [command |-> u.command, frame |-> u.frame, x |-> u.x,
                  z |-> Unsigned(u.z), param |-> u.param]
      BY DEF CanonicalItem, canonical_float
    <3>2. canonical_item(u) = [t EXCEPT !.param = canonical_float(@)]
      BY <3>1 DEF canonical_item
    <3> QED BY <3>1, <3>2
  <2> QED BY <1>4, <2>1, <2>2
<1>7. p.z # NaN => q.z # NaN
  <2>1. p.z \in FloatValue
    BY <1>3, ItemAssumption DEF CanonicalItem
  <2> QED BY <1>6, <2>1, FloatAssumption DEF FloatValue, Unsigned
<1>8. InsideContract(q)
  BY <1>5, <1>6, <1>7 DEF InsideContract, uses_global_position
<1> QED BY <1>8 DEF q

\* What the policy allows on top of a current revision inside the contract is
\* inside the contract, also when it is allowed as a re-upload without a test.
LEMMA AllowedIsInside ==
  ASSUME NEW revisions, revisions.proposed \in Revisions,
         revisions.current \in OptionalRevision, RevisionInside(revisions.current),
         NEW committed, NEW in_flight,
         Authorization(revisions, committed, revisions.proposed.mission, in_flight) = "ALLOW"
  PROVE  RevisionInside(revisions.proposed)
<1> DEFINE mission == revisions.proposed.mission
           delta == IF committed = None THEN NoDelta
                    ELSE compute_mission_delta(committed, mission)
           record == make_proposal_record(revisions.proposed, revisions.current)
           causality == classify_revision_causality(revisions, record, delta, None)
           budget == evaluate_change_budget(delta, DefaultChangeBudget, proposal_authority)
<1>1. evaluate_mission_authorization(mission, delta, causality, budget,
        mission_contract, proposal_authority, in_flight, now) = "ALLOW"
  BY DEF Authorization
<1>2. record.revision = revisions.proposed
  BY DEF make_proposal_record
<1>3. mission \in Missions
  BY DEF Revisions
<1> HIDE DEF mission, delta, record
<1>4. CASE causality = "NO_OP_REUPLOAD"
  <2>1. revisions.current # None /\ revisions.proposed.hash = revisions.current.hash
    BY <1>2, <1>4 DEF classify_revision_causality
  <2> QED BY <2>1, SameHashSameInside DEF OptionalRevision, RevisionInside
<1>5. CASE causality # "NO_OP_REUPLOAD"
  <2> HIDE DEF causality, budget
  <2>1. /\ OffendingItems(mission, mission_contract, proposal_authority) = {}
        /\ InsideContractGeometry(mission, mission_contract)
    BY <1>1, <1>5, AllowedPassedTests
  <2>2. \A i \in DOMAIN mission.items : InsideContract(mission.items[i])
    BY <1>3, <2>1, TestedIsInside
  <2> QED BY <2>2 DEF RevisionInside, mission
<1> QED BY <1>4, <1>5

\* Nothing is committed at first.
LEMMA InsideInit == Init => RevisionInside(mission_revisions.current)
BY DEF Init, NewTracker, RevisionInside

\* The current revision changes in a commit only, and what is committed would
\* be allowed now.
LEMMA InsideStep ==
  /\ TypeOK /\ PendingStillAuthorized /\ RevisionInside(mission_revisions.current)
  /\ [Next]_vars
  => RevisionInside(mission_revisions.current)'
<1> SUFFICES ASSUME TypeOK, PendingStillAuthorized,
                    RevisionInside(mission_revisions.current), [Next]_vars
             PROVE  RevisionInside(mission_revisions.current)'
  OBVIOUS
<1>1. ASSUME mission_revisions'.current = mission_revisions.current
      PROVE  RevisionInside(mission_revisions.current)'
  BY <1>1 DEF RevisionInside, InsideContract
<1>2. ASSUME NEW g \in Gcs, NEW item \in ItemFrames, DenyMission(g, item)
      PROVE  mission_revisions'.current = mission_revisions.current
  BY <1>2 DEF DenyMission, Proposed, propose_mission_revision,
              reject_proposed_revision, TypeOK, TrackerStates
<1>3. ASSUME NEW g \in Gcs, NEW item \in ItemFrames, NEW sent \in SendResults,
             AllowMission(g, item, sent)
      PROVE  mission_revisions'.current = mission_revisions.current
  BY <1>3 DEF AllowMission, Proposed, propose_mission_revision, TypeOK, TrackerStates
<1>4. ASSUME NEW result, RejectRevision(result)
      PROVE  mission_revisions'.current = mission_revisions.current
  BY <1>4 DEF RejectRevision, reject_proposed_revision, TypeOK, TrackerStates
<1>5. CASE CommitRevision
  <2>1. CASE can_commit(mission_revisions)
    <3>1. mission_revisions'.current = mission_revisions.proposed
      BY <1>5, <2>1 DEF CommitRevision, commit_proposed_revision, TypeOK, TrackerStates
    <3>2. /\ mission_revisions.proposed \in Revisions
          /\ mission_revisions.current \in OptionalRevision
      BY <2>1 DEF can_commit, TypeOK, TrackerStates, OptionalRevision
    <3>3. PICK in_flight \in BOOLEAN :
            Authorization(mission_revisions, committed_canonical_mission,
                          mission_revisions.proposed.mission, in_flight) = "ALLOW"
      BY <2>1 DEF PendingStillAuthorized, can_commit
    <3>4. RevisionInside(mission_revisions.proposed)
      BY <3>2, <3>3, AllowedIsInside
    <3> QED BY <3>1, <3>4 DEF RevisionInside, InsideContract
  <2>2. CASE ~can_commit(mission_revisions)
    BY <1>1, <1>5, <2>2 DEF CommitRevision, commit_proposed_revision
  <2> QED BY <2>1, <2>2
<1> QED BY <1>1, <1>2, <1>3, <1>4, <1>5
        DEF Next, GcsStep, Px4Step, HandleMissionCount, BufferMissionItem,
            RelayGcsDatagram, ServeMissionItem, HandleTelemetry, NoPx4Message,
            RecvFailed, Tick, vars, lineage

\* Whatever is committed, at any time and after any series of uploads, uses the
\* commands, altitudes and corridor of the contract.
THEOREM CommittedIsInsideContract == Spec => []CommittedInsideContract
<1>1. RevisionInside(mission_revisions.current) => CommittedInsideContract
  BY DEF RevisionInside, InsideContract, CommittedInsideContract
<1> QED BY <1>1, TypeCorrect, PendingIsAuthorized, InsideInit, InsideStep, PTL DEF Spec

-----------------------------------------------------------------------------
(* The transfer to PX4                                                      *)

\* While PX4 loads a mission nothing touches the buffer.  This is no promise of
\* the gateway: any station that sends MISSION_COUNT or an item then breaks it.
TransferUndisturbed ==
  px4_authorized_upload_active /\ px4_authorized_upload_active'
    => UNCHANGED mission_upload

\* What PX4 is served from is the pending proposal.
BufferIsProposal ==
  px4_authorized_upload_active =>
    /\ mission_revisions.proposed # None
    /\ mission_upload_complete(mission_upload)
    /\ make_canonical_mission(mission_upload) = mission_revisions.proposed.mission

TransferInv == BufferIsProposal /\ CommittedIsCurrent

\* Nothing is loaded or committed at first.
LEMMA TransferInit == Init => TransferInv
BY DEF Init, TransferInv, BufferIsProposal, CommittedIsCurrent, NewTracker

\* An ALLOW makes the buffer the proposal, another one included.
LEMMA AllowKeepsTransfer ==
  ASSUME TypeOK, TransferInv, NEW g \in Gcs, NEW item \in ItemFrames,
         NEW sent \in SendResults, AllowMission(g, item, sent)
  PROVE  TransferInv'
<1> DEFINE upload == store_mission_item(mission_upload, item)
           revision == make_mission_revision(mission_revisions.next_id,
                                             make_canonical_mission(upload))
<1>1. /\ mission_revisions'.proposed = revision
      /\ mission_revisions'.current = mission_revisions.current
  BY DEF AllowMission, Proposed, propose_mission_revision, TypeOK, TrackerStates
<1>2. revision # None
  <2>1. make_canonical_mission(upload) \in Missions
    BY StoreType, CanonicalType, GatewayAssumption DEF TypeOK
  <2> QED BY <2>1, RevisionType, NoneAssumption DEF TypeOK, TrackerStates
<1>3. revision.mission = make_canonical_mission(upload)
  BY DEF make_mission_revision
<1>4. /\ mission_upload' = upload /\ mission_upload_complete(upload)
      /\ committed_canonical_mission' = committed_canonical_mission
  BY DEF AllowMission, DecideMissionItem
<1> HIDE DEF upload, revision
<1>5. BufferIsProposal'
  BY <1>1, <1>2, <1>3, <1>4 DEF BufferIsProposal
<1>6. CommittedIsCurrent'
  BY <1>1, <1>4 DEF CommittedIsCurrent, TransferInv
<1> QED BY <1>5, <1>6 DEF TransferInv

\* The answer of PX4 ends the transfer, and a commit takes the base from the
\* buffer and the revision from the proposal.
LEMMA AnswerKeepsTransfer ==
  ASSUME TypeOK, TransferInv,
         CommitRevision \/ \E result \in {"ACCEPTED", "ERROR"} : RejectRevision(result)
  PROVE  TransferInv'
<1>1. px4_authorized_upload_active /\ px4_authorized_upload_active' = FALSE
  BY DEF CommitRevision, RejectRevision, FinishPx4Upload
<1>2. BufferIsProposal'
  BY <1>1 DEF BufferIsProposal
<1>3. CommittedIsCurrent'
  <2>1. CASE CommitRevision
    <3>1. can_commit(mission_revisions)
          /\ make_canonical_mission(mission_upload) = mission_revisions.proposed.mission
      BY <1>1 DEF TransferInv, BufferIsProposal, can_commit
    <3>2. mission_revisions'.current = mission_revisions.proposed
      BY <2>1, <3>1 DEF CommitRevision, commit_proposed_revision, TypeOK, TrackerStates
    <3>3. committed_canonical_mission' = mission_revisions.proposed.mission
      BY <2>1, <3>1 DEF CommitRevision
    <3>4. mission_revisions.proposed # None
      BY <3>1 DEF can_commit
    <3> QED BY <3>2, <3>3, <3>4 DEF CommittedIsCurrent
  <2>2. ASSUME NEW result, RejectRevision(result)
        PROVE  CommittedIsCurrent'
    <3>1. mission_revisions'.current = mission_revisions.current
      BY <2>2 DEF RejectRevision, reject_proposed_revision, TypeOK, TrackerStates
    <3> QED BY <2>2, <3>1 DEF RejectRevision, CommittedIsCurrent, TransferInv
  <2> QED BY <2>1, <2>2
<1> QED BY <1>2, <1>3 DEF TransferInv

\* Undisturbed steps keep what PX4 is served from.
LEMMA TransferStep ==
  TypeOK /\ TransferInv /\ [Next]_vars /\ [TransferUndisturbed]_vars => TransferInv'
<1> SUFFICES ASSUME TypeOK, TransferInv, [Next]_vars, [TransferUndisturbed]_vars
             PROVE  TransferInv'
  OBVIOUS
<1>1. ASSUME UNCHANGED <<lineage, px4_authorized_upload_active>>
      PROVE  TransferInv'
  <2>1. CommittedIsCurrent'
    BY <1>1 DEF lineage, CommittedIsCurrent, TransferInv
  <2>2. px4_authorized_upload_active => mission_upload' = mission_upload
    BY <1>1 DEF TransferUndisturbed, vars, session
  <2>3. BufferIsProposal'
    BY <1>1, <2>2 DEF lineage, BufferIsProposal, TransferInv, mission_upload_complete,
                      make_canonical_mission
  <2> QED BY <2>1, <2>3 DEF TransferInv
<1>2. ASSUME NEW g \in Gcs, NEW item \in ItemFrames, DenyMission(g, item)
      PROVE  TransferInv'
  <2>1. mission_revisions'.current = mission_revisions.current
    BY <1>2 DEF DenyMission, Proposed, propose_mission_revision,
                reject_proposed_revision, TypeOK, TrackerStates
  <2> QED BY <1>2, <2>1 DEF DenyMission, DecideMissionItem, TransferInv, BufferIsProposal,
                            CommittedIsCurrent
<1> QED BY <1>1, <1>2, AllowKeepsTransfer, AnswerKeepsTransfer
        DEF Next, GcsStep, Px4Step, HandleMissionCount, BufferMissionItem,
            RelayGcsDatagram, ServeMissionItem, HandleTelemetry, NoPx4Message,
            RecvFailed, Tick, vars

\* As long as no station touches the buffer during a transfer, the base of the
\* next delta is the mission of the current revision: for any number of
\* stations and missions, although the commit reads the one from the buffer and
\* the other from the tracker.
THEOREM UndisturbedBaseIsCurrent ==
  Spec /\ [][TransferUndisturbed]_vars => []CommittedIsCurrent
<1>1. TransferInv => CommittedIsCurrent
  BY DEF TransferInv
<1> QED BY <1>1, TypeCorrect, TransferInit, TransferStep, PTL DEF Spec

\* The body of ServedItemIsAuthorized.
ServedIsAuthorized ==
  \A m \in px4_out' :
    m.type = "MISSION_ITEM_INT" =>
      /\ mission_revisions.proposed # None
      /\ LET items == mission_revisions.proposed.mission.items IN
         m.seq < Len(items) /\ m.payload = items[m.seq + 1]

\* A complete buffer serves each item with its own seq.
LEMMA CompleteBufferServes ==
  ASSUME TypeOK, TransferInv, NEW seq \in 0..MaxCount, ServeMissionItem(seq)
  PROVE  ServedIsAuthorized
<1>1. CASE seq < Len(mission_upload.items)
  <2>1. /\ mission_revisions.proposed # None
        /\ mission_upload_complete(mission_upload)
        /\ mission_revisions.proposed.mission.items = mission_upload.items
    BY DEF ServeMissionItem, TransferInv, BufferIsProposal, make_canonical_mission
  <2>2. seq + 1 \in DOMAIN mission_upload.received
    BY <1>1, GatewayAssumption DEF TypeOK, MissionUploadTransaction
  <2>3. stored_seq(mission_upload, seq) = seq
    BY <2>1, <2>2 DEF stored_seq, mission_upload_complete
  <2>4. px4_out' = {MissionItemToPx4(seq, mission_upload.items[seq + 1])}
    BY <1>1, <2>3 DEF ServeMissionItem, StoredItem
  <2> QED BY <1>1, <2>1, <2>4 DEF ServedIsAuthorized, MissionItemToPx4
<1>2. CASE ~(seq < Len(mission_upload.items))
  BY <1>2 DEF ServeMissionItem, ServedIsAuthorized
<1> QED BY <1>1, <1>2

\* Only ServeMissionItem sends an item.
LEMMA ServedStep ==
  TypeOK /\ TransferInv /\ [Next]_vars => ServedIsAuthorized \/ UNCHANGED vars
<1> SUFFICES ASSUME TypeOK, TransferInv, Next PROVE ServedIsAuthorized
  OBVIOUS
<1>1. ASSUME NEW g \in Gcs, NEW item \in ItemFrames, NEW sent \in SendResults,
             AllowMission(g, item, sent)
      PROVE  ServedIsAuthorized
  BY <1>1 DEF AllowMission, MissionCountToPx4, ServedIsAuthorized
<1>2. ASSUME px4_out' = {}
      PROVE  ServedIsAuthorized
  BY <1>2 DEF ServedIsAuthorized
<1> QED BY <1>1, <1>2, CompleteBufferServes
        DEF Next, GcsStep, Px4Step, HandleMissionCount, BufferMissionItem, DenyMission,
            RelayGcsDatagram, CommitRevision, RejectRevision, FinishPx4Upload,
            HandleTelemetry, NoPx4Message, RecvFailed, Tick

\* As long as no station touches the buffer during a transfer, every item PX4 is
\* sent is the item of that seq in the proposal that was allowed last, however
\* often and in whatever order PX4 asks.
THEOREM UndisturbedItemsAreAuthorized ==
  Spec /\ [][TransferUndisturbed]_vars => ServedItemIsAuthorized
<1>1. TypeOK /\ TransferInv /\ [Next]_vars => [ServedIsAuthorized]_vars
  BY ServedStep
<1>2. [][ServedIsAuthorized]_vars <=> ServedItemIsAuthorized
  BY DEF ServedIsAuthorized, ServedItemIsAuthorized
<1> QED BY <1>1, <1>2, TypeCorrect, TransferInit, TransferStep, PTL DEF Spec

=============================================================================
