------------------------- MODULE SystemStationProofs -------------------------
(***************************************************************************)
(* The closed system with one station and no restarts, for every set of    *)
(* items, missions, refusals and losses: it implements MissionService, and *)
(* PX4 holds what the lineage says.  Either the link to PX4 loses nothing, *)
(* or the station does not start over; it never starts over while anything *)
(* is on its way, and sends no item twice.                                 *)
(*                                                                         *)
(* The argument: at any moment at most one message of the session is on    *)
(* its way, and it tells which phase the session is in.  A station may     *)
(* only start over when nothing is on its way, and while PX4 loads a       *)
(* mission something always is, unless it was lost.                        *)
(***************************************************************************)
EXTENDS SystemProofs

\* The station, when there is but one.
station == CHOOSE g \in Gcs : TRUE

\* With a second station, or one that starts over while a loss keeps PX4 from
\* answering, the properties below do not hold.  That they hold with early
\* retries and repeated items is only model-checked.
SingleStation ==
  /\ Gcs = {station} /\ MaxRestarts = 0 /\ ~Repeats
  /\ MaxPx4Losses = 0 \/ ~Retries

-----------------------------------------------------------------------------
(* The phases of the session                                                *)

\* The mission the station waits for.
Expected == asked[station]

\* Nothing is on its way between the gateway and PX4, and PX4 loads nothing.
LinkIdle == to_px4 = <<>> /\ from_px4 = <<>> /\ px4_transfer = None

\* The upload is of this plan, and holds its first k items and no other.
Holds(upload, plan, k) ==
  /\ upload \in MissionUploadTransaction
  /\ upload.active /\ upload.mission_type = "MISSION"
  /\ upload.expected_count = Len(plan)
  /\ Len(upload.items) = Len(plan) /\ Len(upload.received) = Len(plan)
  /\ \A i \in 1..Len(plan) : upload.received[i] <=> i <= k
  /\ \A i \in 1..k : upload.items[i] = plan[i]

\* No message of a session is on its way: the station waits for nothing, or
\* a message was lost and it will start over.
Silent ==
  /\ to_gcs = {} /\ LinkIdle
  /\ ~px4_authorized_upload_active

\* The request to erase the mission is on its way, or PX4's acknowledgement of
\* it, before or after the gateway has passed it on.
Cleared == MissionAck("PX4", "ACCEPTED", station, station)
Clearing ==
  /\ station \in erasing /\ Expected = None
  /\ px4_transfer = None /\ ~px4_authorized_upload_active
  /\ \/ to_gcs = {} /\ from_px4 = <<>> /\ to_px4 = <<MissionClearAll(station)>>
     \/ to_gcs = {} /\ from_px4 = <<Px4Ack("ACCEPTED", station)>> /\ to_px4 = <<>>
     \/ to_gcs = {Cleared} /\ LinkQuiet

\* The gateway has asked the station for item k.
Collecting(k) ==
  /\ to_gcs = {MissionRequest(k, "MISSION", station)} /\ LinkIdle
  /\ ~px4_authorized_upload_active
  /\ Expected # None /\ k < Len(Expected) /\ Holds(mission_upload, Expected, k)
  /\ active_gcs = station

\* The gateway has answered; what it calls accepted, PX4 holds.
Answered(ack) ==
  /\ to_gcs = {ack} /\ LinkIdle
  /\ ~px4_authorized_upload_active
  /\ Expected # None
  /\ ack.result = "ACCEPTED" => px4_mission = Expected /\ Len(Expected) > 0

Answers ==
  {MissionAck("DRACO", "DENIED", station, station),
   MissionAck("PX4", "ERROR", station, station),
   MissionAck("PX4", "ACCEPTED", station, station)}

\* PX4 loads the mission the station waits for, which is the mission of the
\* pending proposal and of the buffer.
Loading ==
  /\ to_gcs = {}
  /\ px4_authorized_upload_active
  /\ Expected # None /\ Len(Expected) > 0
  /\ Holds(mission_upload, Expected, Len(Expected))
  /\ mission_revisions.proposed # None
  /\ mission_revisions.proposed.mission = MissionOf(Expected)
  /\ active_gcs = station /\ client_addr = station

\* The mission has been announced to PX4.
Offered ==
  /\ to_px4 = <<MissionCountToPx4(Len(Expected))>>
  /\ from_px4 = <<>> /\ px4_transfer = None

\* PX4 has the first k items, and the request for the next or its answer is on
\* its way, or was lost.
Fetching(k) ==
  /\ px4_transfer # None /\ px4_transfer.count = Len(Expected)
  /\ px4_transfer.items \in Seq(Items) /\ Len(px4_transfer.items) = k
  /\ k < Len(Expected)
  /\ \A i \in 1..k : px4_transfer.items[i] = Expected[i]
  /\ \/ from_px4 = <<Px4Request(k)>> /\ to_px4 = <<>>
     \/ from_px4 = <<>> /\ to_px4 = <<MissionItemToPx4(k, Expected[k + 1])>>
     \/ LinkQuiet /\ ~Retries

\* PX4 has taken the mission, and says so.
Taken ==
  /\ from_px4 = <<Px4Ack("ACCEPTED", "DRACO")>> /\ to_px4 = <<>> /\ px4_transfer = None
  /\ px4_mission = Expected

\* PX4 has refused the mission, and says so.
Refused ==
  from_px4 = <<Px4Ack("ERROR", "DRACO")>> /\ to_px4 = <<>> /\ px4_transfer = None

\* The offer or the answer of PX4 was lost: the transfer stays active for ever.
Hung ==
  /\ LinkQuiet /\ px4_transfer = None /\ ~Retries
  /\ px4_authorized_upload_active

PhaseInv ==
  \/ Silent
  \/ Clearing
  \/ \E k \in 0..MaxCount : Collecting(k)
  \/ \E ack \in Answers : Answered(ack)
  \/ Loading /\ (Offered \/ (\E k \in 0..MaxCount : Fetching(k)) \/ Taken \/ Refused \/ Hung)

-----------------------------------------------------------------------------
(* What PX4 has taken                                                       *)

\* PX4 has taken the mission of each committed revision, in this order, and
\* then that of the proposal if its acceptance is on its way, or was lost.
LoadsAreCommits ==
  LET n == Len(Committed) IN
  /\ px4_loads \in Seq(Seq(Items))
  /\ Len(px4_loads) = n \/ Len(px4_loads) = n + 1
  /\ from_px4 = <<Px4Ack("ACCEPTED", "DRACO")>> => Len(px4_loads) = n + 1
  /\ Len(px4_loads) = n + 1 =>
       /\ from_px4 = <<Px4Ack("ACCEPTED", "DRACO")>> \/ Hung
       /\ px4_loads[n + 1] = Expected
  /\ \A i \in 1..n : Committed[i].mission = MissionOf(px4_loads[i])
  /\ px4_mission # <<>> =>
       px4_loads # <<>> /\ px4_mission = px4_loads[Len(px4_loads)]

\* What the station was told and waits for, and the count of lost messages.
StationTypeOK ==
  /\ erasing \subseteq Gcs
  /\ answer \in [Gcs -> {"NONE", "ACCEPTED", "DENIED", "ERROR"}]
  /\ px4_losses \in Nat

StationInv == PhaseInv /\ LoadsAreCommits /\ StationTypeOK

-----------------------------------------------------------------------------
(* The upload                                                               *)

\* What the station may wait for.
LEMMA ExpectedType ==
  ASSUME SingleStation, TrafficInv
  PROVE  /\ station \in Gcs /\ \A g \in Gcs : g = station
         /\ Expected \in Plans \cup {None}
         /\ Expected # None => Expected \in Seq(Items) /\ Len(Expected) \in 0..MaxCount
<1>1. station \in Gcs /\ \A g \in Gcs : g = station
  BY DEF SingleStation
<1>2. Expected \in Plans \cup {None}
  BY <1>1 DEF TrafficInv, Expected
<1> QED BY <1>1, <1>2, SystemAssumption, GatewayAssumption

\* A started upload holds nothing yet.
LEMMA StartHoldsNothing ==
  ASSUME NEW plan \in Seq(Items)
  PROVE  Holds(start_mission_upload("MISSION", Len(plan)), plan, 0)
<1>1. Len(plan) \in Nat
  OBVIOUS
<1>2. /\ start_mission_upload("MISSION", Len(plan)) \in MissionUploadTransaction
      /\ Len(start_mission_upload("MISSION", Len(plan)).items) = Len(plan)
      /\ Len(start_mission_upload("MISSION", Len(plan)).received) = Len(plan)
  BY <1>1, StartType DEF MissionTypes
<1> QED BY <1>1, <1>2 DEF start_mission_upload, Holds

\* Storing the item that was asked for makes it one item more.
LEMMA StoreHoldsOneMore ==
  ASSUME NEW plan \in Seq(Items), Len(plan) \in 0..MaxCount,
         NEW k \in Nat, k < Len(plan), Holds(mission_upload, plan, k)
  PROVE  LET item == [seq |-> k, mission_type |-> "MISSION", payload |-> plan[k + 1]]
         IN  Holds(store_mission_item(mission_upload, item), plan, k + 1)
<1> DEFINE item == [seq |-> k, mission_type |-> "MISSION", payload |-> plan[k + 1]]
           upload == store_mission_item(mission_upload, item)
<1>1. item \in ItemFrames /\ MaxCount \in Nat
  BY GatewayAssumption DEF ItemFrames, MissionTypes
<1>2. /\ upload \in MissionUploadTransaction
      /\ upload.expected_count = Len(plan)
      /\ Len(upload.items) = Len(plan) /\ Len(upload.received) = Len(plan)
  BY <1>1, StoreType DEF Holds
<1>3. ItemBelongs(mission_upload, item)
  BY DEF ItemBelongs, Holds
<1>4. /\ upload.active = mission_upload.active
      /\ upload.mission_type = mission_upload.mission_type
      /\ upload.items = [mission_upload.items EXCEPT ![k + 1] = plan[k + 1]]
      /\ upload.received = [mission_upload.received EXCEPT ![k + 1] = TRUE]
  BY <1>3 DEF store_mission_item, Holds, MissionUploadTransaction
<1>5. /\ mission_upload.items \in Seq(Items \cup {BlankItem})
      /\ mission_upload.received \in Seq(BOOLEAN)
      /\ Len(mission_upload.items) = Len(plan)
      /\ Len(mission_upload.received) = Len(plan)
  BY DEF Holds, MissionUploadTransaction
<1> HIDE DEF upload, item
<1>6. ASSUME NEW i \in 1..Len(plan)
      PROVE  upload.received[i] <=> i <= k + 1
  <2>1. mission_upload.received[i] <=> i <= k
    BY DEF Holds
  <2>2. CASE i = k + 1
    <3>1. upload.received[i] = TRUE
      BY <1>4, <1>5, <2>2
    <3> QED BY <2>2, <3>1
  <2>3. CASE i # k + 1
    <3>1. upload.received[i] = mission_upload.received[i]
      BY <1>4, <1>5, <2>3
    <3>2. i <= k + 1 <=> i <= k
      BY <2>3
    <3> QED BY <2>1, <3>1, <3>2
  <2> QED BY <2>2, <2>3
<1>7. \A i \in 1..(k + 1) : upload.items[i] = plan[i]
  <2>1. \A i \in 1..Len(plan) :
          upload.items[i] = IF i = k + 1 THEN plan[k + 1] ELSE mission_upload.items[i]
    BY <1>4, <1>5
  <2>2. \A i \in 1..k : mission_upload.items[i] = plan[i]
    BY DEF Holds
  <2> QED BY <2>1, <2>2
<1>8. upload.active /\ upload.mission_type = "MISSION"
  BY <1>4 DEF Holds
<1>9. Holds(upload, plan, k + 1)
  BY <1>2, <1>6, <1>7, <1>8 DEF Holds
<1> QED BY <1>9 DEF upload, item

\* An upload that does not hold everything is incomplete, and its first missing
\* item comes after those it holds.
LEMMA IncompleteUpload ==
  ASSUME NEW plan \in Seq(Items), NEW upload, NEW k \in Nat, k < Len(plan),
         Holds(upload, plan, k)
  PROVE  /\ ~mission_upload_complete(upload)
         /\ MissingSeqs(upload) # {} /\ Min(MissingSeqs(upload)) = k
<1>1. DOMAIN upload.received = 1..Len(plan)
  BY DEF Holds, MissionUploadTransaction
<1>2. \A i \in 1..Len(plan) : upload.received[i] <=> i <= k
  BY DEF Holds
<1>3. k + 1 \in 1..Len(plan)
  OBVIOUS
<1>4. ~mission_upload_complete(upload)
  BY <1>1, <1>2, <1>3 DEF mission_upload_complete
<1>5. k \in MissingSeqs(upload)
  <2>1. k + 1 \in {i \in DOMAIN upload.received : ~upload.received[i]}
    BY <1>1, <1>2, <1>3
  <2>2. (k + 1) - 1 = k
    OBVIOUS
  <2> QED BY <2>1, <2>2 DEF MissingSeqs
<1>6. \A seq \in MissingSeqs(upload) : seq \in Int /\ k <= seq
  BY <1>1, <1>2 DEF MissingSeqs
<1>7. Min(MissingSeqs(upload)) = k
  <2>1. ASSUME NEW x \in MissingSeqs(upload), \A y \in MissingSeqs(upload) : x <= y
        PROVE  x = k
    BY <1>5, <1>6, <2>1
  <2>2. \A y \in MissingSeqs(upload) : k <= y
    BY <1>6
  <2> QED BY <1>5, <2>1, <2>2, Zenon DEF Min
<1> QED BY <1>4, <1>5, <1>7

\* An upload that holds everything is complete, and is the plan.
LEMMA CompleteUpload ==
  ASSUME NEW plan \in Seq(Items), NEW upload, Holds(upload, plan, Len(plan))
  PROVE  /\ mission_upload_complete(upload)
         /\ upload.items = plan
         /\ make_canonical_mission(upload) = MissionOf(plan)
<1>1. DOMAIN upload.received = 1..Len(plan)
  BY DEF Holds, MissionUploadTransaction
<1>2. mission_upload_complete(upload)
  BY <1>1 DEF Holds, mission_upload_complete
<1>3. upload.items = plan
  <2>1. upload.items \in Seq(Items \cup {BlankItem}) /\ Len(upload.items) = Len(plan)
    BY DEF Holds, MissionUploadTransaction
  <2>2. \A i \in 1..Len(plan) : upload.items[i] = plan[i]
    BY DEF Holds
  <2> QED BY <2>1, <2>2
<1> QED BY <1>2, <1>3 DEF make_canonical_mission, MissionOf, Holds

-----------------------------------------------------------------------------
(* Steps of the station                                                     *)

\* When appending gives a sequence.
LEMMA AppendIs ==
  ASSUME NEW S, NEW s \in Seq(S), NEW b \in S, NEW t \in Seq(S), NEW n \in Nat,
         Len(s) + 1 = n, Len(t) = n, t[n] = b, \A i \in 1..Len(s) : t[i] = s[i]
  PROVE  Append(s, b) = t
OBVIOUS

\* The links carry one message or two.
LEMMA ShortSequences ==
  ASSUME NEW a, NEW b
  PROVE  /\ Append(<<>>, a) = <<a>> /\ Append(<<a>>, b) = <<a, b>>
         /\ Head(<<a>>) = a /\ Tail(<<a>>) = <<>>
         /\ Head(<<a, b>>) = a /\ Tail(<<a, b>>) = <<b>>
         /\ <<a>> # <<>> /\ <<a, b>> # <<>>
<1>1. /\ <<a>> \in Seq({a, b}) /\ <<a, b>> \in Seq({a, b}) /\ b \in {a, b}
      /\ Len(<<a>>) = 1 /\ Len(<<a, b>>) = 2
  OBVIOUS
<1>2. Append(<<>>, a) = <<a>>
  OBVIOUS
<1>3. Append(<<a>>, b) = <<a, b>>
  <2>1. <<a, b>>[2] = b /\ \A i \in 1..Len(<<a>>) : <<a, b>>[i] = <<a>>[i]
    OBVIOUS
  <2>2. Len(<<a>>) + 1 = 2 /\ 2 \in Nat
    BY <1>1
  <2> QED BY <1>1, <2>1, <2>2, AppendIs, Zenon
<1>4. Head(<<a>>) = a /\ Head(<<a, b>>) = a
  OBVIOUS
<1>5. Tail(<<a>>) = <<>> /\ Tail(<<a, b>>) = <<b>>
  OBVIOUS
<1> QED BY <1>1, <1>2, <1>3, <1>4, <1>5

\* A step of the gateway sends to a station, to PX4, or to nobody.
LEMMA WhatIsSent ==
  ASSUME NEW gcs_in_flight, NEW px4_in_flight, NEW m, Send(gcs_in_flight, px4_in_flight)
  PROVE  /\ gcs_out' = {} /\ px4_out' = {} =>
              to_gcs' = gcs_in_flight /\ to_px4' = px4_in_flight
         /\ gcs_out' = {m} /\ px4_out' = {} =>
              to_gcs' = gcs_in_flight \cup {m} /\ to_px4' = px4_in_flight
         /\ gcs_out' = {} /\ px4_out' = {m} =>
              to_gcs' = gcs_in_flight /\ to_px4' = Append(px4_in_flight, m)
<1>1. (CHOOSE x \in {m} : TRUE) = m
  OBVIOUS
<1> QED BY <1>1 DEF Send

\* A MISSION_COUNT that reaches a silent gateway is answered by a request for
\* the first item.
LEMMA CountPhase ==
  ASSUME SingleStation, TrafficInv, Silent,
         Expected' \in Seq(Items), Len(Expected') \in 0..MaxCount, Expected' # None,
         HandleMissionCount(station, Len(Expected')), Send(to_gcs, to_px4),
         UNCHANGED <<from_px4, px4_transfer>>
  PROVE  PhaseInv'
<1> DEFINE plan == Expected'
           request == MissionRequest(0, "MISSION", station)
<1>1. /\ ~px4_authorized_upload_active' /\ active_gcs' = station
      /\ mission_upload' = start_mission_upload("MISSION", Len(plan))
      /\ gcs_out' = (IF Len(plan) > 0 THEN {request} ELSE {}) /\ px4_out' = {}
  BY DEF HandleMissionCount, Silent
<1>2. Holds(mission_upload', plan, 0)
  BY <1>1, StartHoldsNothing
<1>3. LinkIdle'
  BY <1>1, WhatIsSent DEF Silent, LinkIdle, Send
<1>4. CASE Len(plan) > 0
  <2>1. to_gcs' = {request}
    <3>1. gcs_out' = {request} /\ px4_out' = {}
      BY <1>1, <1>4
    <3>2. to_gcs' = to_gcs \cup {request}
      BY <3>1, WhatIsSent
    <3> QED BY <3>2 DEF Silent
  <2>2. Collecting(0)'
    BY <1>1, <1>2, <1>3, <1>4, <2>1 DEF Collecting
  <2> QED BY <2>2, GatewayAssumption DEF PhaseInv
<1>5. CASE ~(Len(plan) > 0)
  <2>1. to_gcs' = {}
    <3>1. gcs_out' = {} /\ px4_out' = {}
      BY <1>1, <1>5
    <3> QED BY <3>1, WhatIsSent DEF Silent
  <2> QED BY <1>1, <1>3, <2>1 DEF Silent, PhaseInv
<1> QED BY <1>4, <1>5

\* A station that waits for nothing asks only when all is silent.
LEMMA AskPhase ==
  ASSUME SingleStation, TrafficInv, PhaseInv, NEW g \in Gcs, NEW plan \in Plans,
         Ask(g, plan)
  PROVE  /\ g = station /\ Silent /\ Expected = None
         /\ Expected' = plan /\ plan \in Seq(Items) /\ Len(plan) \in 0..MaxCount
         /\ plan # None /\ UNCHANGED <<from_px4, px4_transfer>>
<1>1. g = station /\ Expected = None
  BY ExpectedType DEF Ask, Expected
<1>2. Silent
  BY <1>1 DEF PhaseInv, Clearing, Collecting, Answered, Loading, Ask
<1>3. Expected' = plan
  BY <1>1 DEF Ask, Expected, TrafficInv
<1> QED BY <1>1, <1>2, <1>3, SystemAssumption, GatewayAssumption DEF Ask, px4

\* A station only starts over when nothing is on its way.
LEMMA QuietIsSilent ==
  ASSUME PhaseInv, Quiet, Retries
  PROVE  Silent
BY DEF PhaseInv, Quiet, LinkQuiet, Clearing, Collecting, Answered, Loading, Offered,
       Fetching, Taken, Refused, Hung

\* Nothing on its way to the station but what the phase says.
LEMMA MessageToStation ==
  ASSUME PhaseInv, NEW m \in to_gcs
  PROVE  /\ LinkIdle /\ ~px4_authorized_upload_active
         /\ to_gcs = {m}
         /\ \/ \E k \in 0..MaxCount :
                 Collecting(k) /\ m = MissionRequest(k, "MISSION", station)
            \/ m \in Answers /\ Answered(m)
            \/ Clearing /\ m = Cleared
BY DEF PhaseInv, Silent, Clearing, LinkIdle, LinkQuiet, Collecting, Answered, Loading

\* What reaches the station, or is lost, leaves silence.
LEMMA ReceivePhase ==
  ASSUME PhaseInv, NEW m \in to_gcs, to_gcs' = to_gcs \ {m},
         UNCHANGED <<to_px4, from_px4, px4_transfer, px4_authorized_upload_active>>
  PROVE  PhaseInv'
<1>1. to_gcs' = {}
  BY MessageToStation
<1> QED BY <1>1, MessageToStation DEF PhaseInv, Silent, LinkIdle

\* The item the station answers a request with.
Wanted(k) == [seq |-> k, mission_type |-> "MISSION", payload |-> Expected[k + 1]]

\* A request is answered with the item that was asked for.
LEMMA RequestAnswered ==
  ASSUME SingleStation, TrafficInv, PhaseInv, NEW request \in to_gcs, ForUpload(request)
  PROVE  \E k \in 0..MaxCount :
           /\ Collecting(k) /\ request.to = station
           /\ ItemFrame(request) = Wanted(k)
<1>1. PICK k \in 0..MaxCount : Collecting(k) /\ request = MissionRequest(k, "MISSION", station)
  <2>1. request \notin Answers /\ request # Cleared
    BY DEF ForUpload, Answers, Cleared, MissionAck
  <2> QED BY <2>1, MessageToStation
<1>2. request.seq = k /\ request.to = station
  BY <1>1 DEF MissionRequest
<1> QED BY <1>1, <1>2 DEF ItemFrame, Wanted, Expected

\* The policy answers ALLOW or the upload is denied; either way the decision
\* proposes the mission the station waits for.
LEMMA ProposedMission ==
  ASSUME TypeOK, NEW plan \in Seq(Items), NEW upload, Holds(upload, plan, Len(plan))
  PROVE  /\ Proposed(upload).proposed # None
         /\ Proposed(upload).proposed.mission = MissionOf(plan)
<1>1. make_canonical_mission(upload) = MissionOf(plan) /\ make_canonical_mission(upload) \in Missions
  BY CompleteUpload, CanonicalType DEF Holds
<1>2. mission_revisions \in TrackerStates /\ mission_revisions.next_id \in Nat
  BY DEF TypeOK, TrackerStates
<1>3. Proposed(upload).proposed
        = make_mission_revision(mission_revisions.next_id, make_canonical_mission(upload))
  BY <1>2 DEF Proposed, propose_mission_revision, TrackerStates
<1>4. make_mission_revision(mission_revisions.next_id, make_canonical_mission(upload))
        \in Revisions
  BY <1>1, <1>2, RevisionType
<1> QED BY <1>1, <1>3, <1>4, NoneAssumption DEF make_mission_revision

\* The item that was asked for: the gateway asks for the next, or it has them
\* all and denies the mission, offers it to PX4, or could not send the offer.
LEMMA ItemPhase ==
  ASSUME SingleStation, TypeOK, SessionInv, TrafficInv, PhaseInv,
         NEW request \in to_gcs, SendItem(request)
  PROVE  PhaseInv'
<1>1. PICK k \in 0..MaxCount :
        /\ Collecting(k) /\ request.to = station /\ ItemFrame(request) = Wanted(k)
  BY RequestAnswered DEF SendItem
<1> DEFINE plan == Expected
           upload == store_mission_item(mission_upload, Wanted(k))
<1>2. /\ plan \in Seq(Items) /\ Len(plan) \in 0..MaxCount /\ plan # None
      /\ k \in Nat /\ k < Len(plan) /\ Holds(mission_upload, plan, k)
      /\ station \in Gcs
  BY <1>1, ExpectedType DEF Collecting
<1>3. Holds(upload, plan, k + 1)
  BY <1>2, StoreHoldsOneMore DEF Wanted
<1>4. ~proposal_created_for_upload
  <2>1. ~mission_upload_complete(mission_upload)
    BY <1>2, IncompleteUpload
  <2>2. mission_upload.active /\ mission_upload.expected_count > 0
    BY <1>2 DEF Holds
  <2> QED BY <2>1, <2>2 DEF SessionInv, UploadDecidedOnce
<1>5. Expected' = plan /\ UNCHANGED <<from_px4, px4_transfer>>
  BY DEF SendItem, stations, px4, Expected
<1>6. to_gcs \ {request} = {} /\ LinkIdle /\ active_gcs = station
      /\ ~px4_authorized_upload_active
      /\ Send(to_gcs \ {request}, to_px4)
  BY <1>1, MessageToStation DEF Collecting, SendItem
<1> HIDE DEF upload, plan
<1>7. CASE BufferMissionItem(station, Wanted(k))
  <2>1. k + 1 < Len(plan)
    <3>1. ~mission_upload_complete(upload)
      BY <1>4, <1>7 DEF BufferMissionItem, upload
    <3>2. k + 1 # Len(plan)
      BY <1>2, <1>3, <3>1, CompleteUpload
    <3> QED BY <1>2, <3>2
  <2>2. /\ ~mission_upload_complete(upload)
        /\ MissingSeqs(upload) # {} /\ Min(MissingSeqs(upload)) = k + 1
    BY <1>2, <1>3, <2>1, IncompleteUpload
  <2> DEFINE next == MissionRequest(k + 1, "MISSION", station)
  <2>3. /\ mission_upload' = upload /\ gcs_out' = {next} /\ px4_out' = {}
        /\ UNCHANGED <<active_gcs, px4_authorized_upload_active>>
    BY <1>7, <2>2 DEF BufferMissionItem, Wanted, upload
  <2>4. to_gcs' = {next} /\ to_px4' = to_px4
    <3>1. to_gcs' = (to_gcs \ {request}) \cup {next} /\ to_px4' = to_px4
      BY <1>6, <2>3, WhatIsSent
    <3> QED BY <1>6, <3>1
  <2>5. Collecting(k + 1)'
    BY <1>2, <1>3, <1>5, <1>6, <2>1, <2>3, <2>4 DEF Collecting, LinkIdle, Holds
  <2>6. k + 1 \in 0..MaxCount
    BY <1>2, <2>1, GatewayAssumption
  <2> QED BY <2>5, <2>6 DEF PhaseInv
<1>8. ASSUME DecideMissionItem(station, Wanted(k), upload)
      PROVE  Holds(upload, plan, Len(plan))
  <2>1. mission_upload_complete(upload)
    BY <1>8 DEF DecideMissionItem
  <2>2. ~(k + 1 < Len(plan))
    BY <1>2, <1>3, <2>1, IncompleteUpload
  <2>3. k + 1 = Len(plan)
    BY <1>2, <2>2
  <2> QED BY <1>3, <2>3
<1>9. CASE DenyMission(station, Wanted(k))
  <2> DEFINE ack == MissionAck("DRACO", "DENIED", station, station)
  <2>1. ~px4_authorized_upload_active' /\ gcs_out' = {ack} /\ px4_out' = {}
    BY <1>6, <1>9 DEF DenyMission
  <2>2. to_gcs' = {ack} /\ to_px4' = to_px4
    <3>1. to_gcs' = (to_gcs \ {request}) \cup {ack} /\ to_px4' = to_px4
      BY <1>6, <2>1, WhatIsSent
    <3> QED BY <1>6, <3>1
  <2>3. ack \in Answers /\ ack.result = "DENIED"
    BY DEF Answers, MissionAck
  <2> HIDE DEF ack
  <2>4. Answered(ack)'
    BY <1>2, <1>5, <1>6, <2>1, <2>2, <2>3 DEF Answered, LinkIdle
  <2> QED BY <2>3, <2>4 DEF PhaseInv, Answers
<1>10. ASSUME NEW sent \in SendResults, AllowMission(station, Wanted(k), sent)
       PROVE  PhaseInv'
  <2>1. Holds(upload, plan, Len(plan))
    BY <1>8, <1>10 DEF AllowMission, upload
  <2> DEFINE offer == MissionCountToPx4(Len(plan))
  <2>2. /\ mission_upload' = upload /\ mission_revisions' = Proposed(upload)
        /\ px4_authorized_upload_active' = sent
        /\ px4_out' = (IF sent THEN {offer} ELSE {}) /\ gcs_out' = {}
        /\ active_gcs' = active_gcs /\ client_addr' = station
    <3>1. sent \in BOOLEAN /\ px4_authorized_upload_active = FALSE
      BY <1>6, GatewayAssumption DEF TypeOK
    <3>2. upload.expected_count = Len(plan)
      BY <2>1 DEF Holds
    <3> QED BY <1>10, <3>1, <3>2 DEF AllowMission, DecideMissionItem, GcsDatagram, upload
  <2>3. CASE sent
    <3>1. to_gcs' = {} /\ to_px4' = Append(to_px4, offer)
      BY <1>6, <2>2, <2>3, WhatIsSent DEF SendItem
    <3>2. Loading'
      BY <1>2, <1>5, <1>6, <2>1, <2>2, <2>3, <3>1, ProposedMission DEF Loading, Holds
    <3>3. Offered'
      <4>1. Append(<<>>, offer) = <<offer>>
        BY ShortSequences
      <4>2. to_px4' = <<offer>>
        BY <1>6, <3>1, <4>1 DEF LinkIdle
      <4> HIDE DEF offer
      <4>3. from_px4' = <<>> /\ px4_transfer' = None
        BY <1>5, <1>6 DEF LinkIdle
      <4> QED BY <1>5, <4>2, <4>3 DEF Offered, offer
    <3> QED BY <3>2, <3>3 DEF PhaseInv
  <2>4. CASE ~sent
    <3>1. to_gcs' = {} /\ to_px4' = to_px4
      BY <1>6, <2>2, <2>4, WhatIsSent DEF SendItem
    <3> QED BY <1>5, <1>6, <2>2, <2>4, <3>1 DEF Silent, LinkIdle, PhaseInv
  <2> QED BY <2>3, <2>4
<1> QED BY <1>1, <1>7, <1>9, <1>10 DEF SendItem

-----------------------------------------------------------------------------
(* Steps of the gateway and of PX4                                          *)

\* PX4 only speaks while it loads a mission or when it has erased one, and says
\* one thing at a time.
LEMMA WhatPx4Says ==
  ASSUME PhaseInv, from_px4 # <<>>
  PROVE  /\ to_px4 = <<>>
         /\ \/ Clearing /\ to_gcs = {} /\ from_px4 = <<Px4Ack("ACCEPTED", station)>>
            \/ /\ Loading
               /\ \/ \E k \in 0..MaxCount : Fetching(k) /\ from_px4 = <<Px4Request(k)>>
                  \/ Taken \/ Refused
BY DEF PhaseInv, Silent, Clearing, Collecting, Answered, LinkIdle, Offered, Fetching, Taken,
       Refused, Hung, LinkQuiet

\* Its acknowledgement of an erasure is not for the gateway, all else is.
LEMMA WhoPx4SpeaksTo ==
  ASSUME SingleStation, PhaseInv, from_px4 # <<>>
  PROVE  /\ ForGateway(Head(from_px4)) =>
              /\ Loading
              /\ \/ \E k \in 0..MaxCount : Fetching(k) /\ from_px4 = <<Px4Request(k)>>
                 \/ Taken \/ Refused
         /\ ~ForGateway(Head(from_px4)) =>
              Clearing /\ to_gcs = {} /\ from_px4 = <<Px4Ack("ACCEPTED", station)>>
<1>1. \A m : Head(<<m>>) = m
  BY ShortSequences
<1>2. \A k : ForGateway(Px4Request(k))
  BY DEF ForGateway, Px4Request
<1>3. ForGateway(Px4Ack("ACCEPTED", "DRACO")) /\ ForGateway(Px4Ack("ERROR", "DRACO"))
  BY DEF ForGateway, Px4Ack
<1>4. ~ForGateway(Px4Ack("ACCEPTED", station))
  <2>1. station \in Gcs
    BY DEF SingleStation
  <2> QED BY <2>1, SystemAssumption DEF ForGateway, Px4Ack
<1> QED BY <1>1, <1>2, <1>3, <1>4, WhatPx4Says DEF Taken, Refused

\* PX4 has the request to erase, the announced count, or the item it asked for.
LEMMA WhatPx4Reads ==
  ASSUME PhaseInv, to_px4 # <<>>
  PROVE  /\ from_px4 = <<>>
         /\ \/ Clearing /\ to_gcs = {} /\ to_px4 = <<MissionClearAll(station)>>
            \/ Loading /\ Offered
            \/ /\ Loading
               /\ \E k \in 0..MaxCount :
                    Fetching(k) /\ to_px4 = <<MissionItemToPx4(k, Expected[k + 1])>>
BY DEF PhaseInv, Silent, Clearing, Collecting, Answered, LinkIdle, Offered, Fetching, Taken, Refused,
       Hung, LinkQuiet

\* What the gateway makes of an answer of PX4: it serves the item, commits the
\* revision, or rejects it.
LEMMA AnswerOfPx4 ==
  ASSUME SingleStation, TrafficInv, PhaseInv, HandlePx4Message
  PROVE  /\ Loading /\ to_px4 = <<>> /\ from_px4' = <<>>
         /\ \/ \E k \in 0..MaxCount :
                 Fetching(k) /\ from_px4 = <<Px4Request(k)>> /\ ServeMissionItem(k)
            \/ Taken /\ CommitRevision
            \/ Refused /\ RejectRevision("ERROR")
<1>1. /\ Loading /\ to_px4 = <<>> /\ from_px4 # <<>>
      /\ \/ \E k \in 0..MaxCount : Fetching(k) /\ from_px4 = <<Px4Request(k)>>
         \/ Taken \/ Refused
  BY WhatPx4Says, WhoPx4SpeaksTo DEF HandlePx4Message
<1>2. mission_upload_complete(mission_upload) /\ px4_authorized_upload_active
  BY <1>1, ExpectedType, CompleteUpload DEF Loading
<1>3. ASSUME NEW m, from_px4 = <<m>>
      PROVE  Head(from_px4) = m /\ from_px4' = <<>>
  BY <1>3, ShortSequences DEF HandlePx4Message
<1>4. ASSUME NEW k \in 0..MaxCount, Fetching(k), from_px4 = <<Px4Request(k)>>
      PROVE  ServeMissionItem(k) /\ from_px4' = <<>>
  <2>1. Head(from_px4) = Px4Request(k) /\ from_px4' = <<>>
    BY <1>3, <1>4
  <2> QED BY <1>2, <2>1 DEF HandlePx4Message, Px4Request, Px4Ack
<1>5. CASE Taken
  <2>1. Head(from_px4) = Px4Ack("ACCEPTED", "DRACO") /\ from_px4' = <<>>
    BY <1>3, <1>5 DEF Taken
  <2>2. ~RejectRevision("ACCEPTED")
    BY <1>2 DEF RejectRevision
  <2> QED BY <1>1, <1>2, <1>5, <2>1, <2>2 DEF HandlePx4Message, Px4Ack
<1>6. CASE Refused
  <2>1. Head(from_px4) = Px4Ack("ERROR", "DRACO") /\ from_px4' = <<>>
    BY <1>3, <1>6 DEF Refused
  <2> QED BY <1>1, <1>2, <1>6, <2>1 DEF HandlePx4Message, Px4Ack
<1> QED BY <1>1, <1>4, <1>5, <1>6

\* The item PX4 asked for is served from its place, and an answer of PX4 is
\* passed on to the station.
LEMMA Px4MessagePhase ==
  ASSUME SingleStation, TrafficInv, PhaseInv, HandlePx4Message
  PROVE  PhaseInv'
<1>1. /\ Loading /\ to_px4 = <<>> /\ from_px4' = <<>>
      /\ Expected \in Seq(Items) /\ Send(to_gcs, to_px4) /\ to_gcs = {}
      /\ Expected' = Expected /\ UNCHANGED <<px4_transfer, px4_mission>>
  BY AnswerOfPx4, ExpectedType DEF Loading, HandlePx4Message, stations, px4, Expected
<1>2. ASSUME NEW k \in 0..MaxCount, Fetching(k), from_px4 = <<Px4Request(k)>>,
             ServeMissionItem(k)
      PROVE  PhaseInv'
  <2> DEFINE item == MissionItemToPx4(k, Expected[k + 1])
  <2>1. /\ k < Len(mission_upload.items) /\ mission_upload.items[k + 1] = Expected[k + 1]
        /\ mission_upload.received[k + 1]
    BY <1>1, <1>2, CompleteUpload DEF Loading, Holds, Fetching
  <2>2. px4_out' = {item} /\ gcs_out' = {} /\ UNCHANGED <<session, lineage, client_addr>>
        /\ UNCHANGED px4_authorized_upload_active
    BY <1>2, <2>1 DEF ServeMissionItem, EndOfIteration, StoredItem, stored_seq
  <2>3. to_gcs' = {} /\ to_px4' = Append(to_px4, item)
    BY <1>1, <2>2, WhatIsSent
  <2>4. to_px4' = <<item>>
    BY <1>1, <2>3, ShortSequences
  <2>5. Loading'
    BY <1>1, <2>2, <2>3 DEF Loading, session, lineage
  <2>6. Fetching(k)'
    BY <1>1, <1>2, <2>4 DEF Fetching
  <2> QED BY <2>5, <2>6 DEF PhaseInv
<1>3. ASSUME NEW result \in {"ACCEPTED", "ERROR"}, FinishPx4Upload(result),
             px4_transfer = None, result = "ACCEPTED" => Taken
      PROVE  PhaseInv'
  <2> DEFINE ack == MissionAck("PX4", result, station, station)
  <2>1. ~px4_authorized_upload_active' /\ gcs_out' = {ack} /\ px4_out' = {}
    BY <1>1, <1>3 DEF FinishPx4Upload, Loading
  <2>2. to_gcs' = to_gcs \cup {ack} /\ to_px4' = to_px4
    BY <1>1, <2>1, WhatIsSent
  <2>3. ack \in Answers /\ ack.result = result
    BY DEF Answers, MissionAck
  <2> HIDE DEF ack
  <2>4. to_gcs' = {ack} /\ LinkIdle'
    BY <1>1, <1>3, <2>2 DEF LinkIdle
  <2>5. Answered(ack)'
    BY <1>1, <1>3, <2>1, <2>2, <2>3, <2>4 DEF Answered, Loading, Taken
  <2> QED BY <2>3, <2>5 DEF PhaseInv, Answers
<1> QED BY <1>2, <1>3, AnswerOfPx4 DEF CommitRevision, RejectRevision, Taken, Refused

\* Going on with a transfer that has the first k items of the mission: PX4 asks
\* for the next, or takes the mission.
LEMMA ContinueExpected ==
  ASSUME TrafficInv, Expected \in Seq(Items), Len(Expected) \in 0..MaxCount,
         NEW transfer, NEW k \in Nat, k <= Len(Expected),
         transfer \in Loads, transfer.count = Len(Expected),
         transfer.items \in Seq(Items), Len(transfer.items) = k,
         \A i \in 1..k : transfer.items[i] = Expected[i],
         Continue(transfer), from_px4 = <<>>, to_px4' = <<>>, Expected' = Expected
  PROVE  \/ /\ k < Len(Expected) /\ Fetching(k)'
            /\ UNCHANGED <<px4_mission, px4_loads>>
            /\ from_px4' = <<Px4Request(k)>>
         \/ /\ Taken' /\ px4_mission' = Expected
            /\ px4_loads' = Append(px4_loads, Expected)
<1>1. CASE k < Len(Expected)
  <2>1. /\ px4_transfer' = transfer /\ from_px4' = Append(<<>>, Px4Request(k))
        /\ UNCHANGED <<px4_mission, px4_loads>>
    BY <1>1 DEF Continue
  <2>2. from_px4' = <<Px4Request(k)>>
    BY <2>1, ShortSequences
  <2>3. transfer # None
    <3>1. transfer \in [count: Nat, items: Seq(Items)]
      BY GatewayAssumption DEF Loads
    <3> QED BY <3>1, SystemAssumption
  <2> QED BY <1>1, <2>1, <2>2, <2>3 DEF Fetching
<1>2. CASE ~(k < Len(Expected))
  <2>1. transfer.items = Expected
    BY <1>2
  <2>2. /\ px4_transfer' = None /\ px4_mission' = Expected
        /\ px4_loads' = Append(px4_loads, Expected)
        /\ from_px4' = Append(<<>>, Px4Ack("ACCEPTED", "DRACO"))
    BY <1>2, <2>1 DEF Continue
  <2>3. from_px4' = <<Px4Ack("ACCEPTED", "DRACO")>>
    BY <2>2, ShortSequences
  <2> QED BY <2>2, <2>3 DEF Taken
<1> QED BY <1>1, <1>2

\* What PX4 makes of the message it reads: it erases its mission, goes on with
\* the mission the station waits for, or refuses it.
LEMMA ReadingOfPx4 ==
  ASSUME SingleStation, TypeOK, TrafficInv, PhaseInv, Px4Receives
  PROVE  /\ from_px4 = <<>> /\ Expected' = Expected /\ UNCHANGED <<vars, to_gcs, stations>>
         /\ \/ /\ Clearing /\ to_gcs = {} /\ to_px4' = <<>>
               /\ from_px4' = <<Px4Ack("ACCEPTED", station)>>
               /\ px4_mission' = <<>> /\ UNCHANGED <<px4_transfer, px4_loads>>
            \/ /\ Loading /\ to_px4' = <<>>
               /\ \/ /\ \E k \in 0..MaxCount : Fetching(k)'
                     /\ UNCHANGED <<px4_mission, px4_loads>>
                     /\ from_px4' # <<Px4Ack("ACCEPTED", "DRACO")>>
                  \/ /\ Taken' /\ px4_mission' = Expected
                     /\ px4_loads' = Append(px4_loads, Expected)
                  \/ Refused' /\ UNCHANGED <<px4_mission, px4_loads>>
<1> DEFINE m == Head(to_px4)
           offer == MissionCountToPx4(Len(Expected))
<1>1. /\ to_px4 # <<>> /\ to_px4' = Tail(to_px4) /\ UNCHANGED <<vars, to_gcs, stations>>
      /\ Expected' = Expected
  BY DEF Px4Receives, stations, Expected
<1>2. from_px4 = <<>>
  BY <1>1, WhatPx4Reads
<1>3. CASE Clearing /\ to_gcs = {} /\ to_px4 = <<MissionClearAll(station)>>
  <2>1. m = MissionClearAll(station) /\ to_px4' = <<>>
    BY <1>1, <1>3, ShortSequences
  <2>2. /\ px4_mission' = <<>> /\ UNCHANGED <<px4_transfer, px4_loads>>
        /\ from_px4' = Append(<<>>, Px4Ack("ACCEPTED", station))
    BY <1>2, <1>3, <2>1 DEF Px4Receives, Px4ReceivesCount, Px4ReceivesItem, Px4Clears,
                            Px4Ignores, MissionClearAll, Clearing
  <2>3. from_px4' = <<Px4Ack("ACCEPTED", station)>>
    BY <2>2, ShortSequences
  <2> QED BY <1>1, <1>2, <1>3, <2>1, <2>2, <2>3
<1>5. ASSUME RefuseTransfer, to_px4' = <<>>
      PROVE  Refused' /\ UNCHANGED <<px4_mission, px4_loads>>
  BY <1>2, <1>5, ShortSequences DEF RefuseTransfer, Refused
<1>6. ASSUME Loading
      PROVE  Expected \in Seq(Items) /\ Len(Expected) \in 1..MaxCount
  BY <1>6, ExpectedType, GatewayAssumption DEF Loading
<1>7. ASSUME NEW k \in Nat, Fetching(k)', Expected \in Seq(Items), Len(Expected) \in 1..MaxCount
      PROVE  k \in 0..MaxCount
  BY <1>1, <1>7, GatewayAssumption DEF Fetching
<1>8. \A k : Px4Request(k) # Px4Ack("ACCEPTED", "DRACO")
  BY DEF Px4Request, Px4Ack
<1>9. CASE Loading /\ Offered
  <2>1. m = offer /\ to_px4' = <<>>
    BY <1>1, <1>9, ShortSequences DEF Offered
  <2> DEFINE transfer == [count |-> Len(Expected), items |-> <<>>]
  <2>2. Continue(transfer) \/ RefuseTransfer
    BY <2>1 DEF Px4Receives, Px4ReceivesCount, Px4ReceivesItem, Px4Clears, Px4Ignores,
                MissionCountToPx4
  <2>3. CASE Continue(transfer)
    <3>1. transfer \in Loads /\ transfer.items \in Seq(Items) /\ Len(transfer.items) = 0
      BY <1>6, <1>9, GatewayAssumption DEF Loads
    <3> HIDE DEF transfer
    <3>2. transfer.count = Len(Expected)
      BY DEF transfer
    <3>3. \/ /\ Fetching(0)' /\ UNCHANGED <<px4_mission, px4_loads>>
             /\ from_px4' = <<Px4Request(0)>>
          \/ /\ Taken' /\ px4_mission' = Expected
             /\ px4_loads' = Append(px4_loads, Expected)
      BY <1>1, <1>2, <1>6, <1>9, <2>1, <2>3, <3>1, <3>2, ContinueExpected
    <3> QED BY <1>1, <1>2, <1>6, <1>7, <1>8, <1>9, <2>1, <3>3, ShortSequences
  <2> QED BY <1>1, <1>2, <1>5, <1>9, <2>1, <2>2, <2>3
<1>10. ASSUME Loading, NEW k \in 0..MaxCount, Fetching(k),
              to_px4 = <<MissionItemToPx4(k, Expected[k + 1])>>
       PROVE  /\ to_px4' = <<>>
              /\ \/ /\ \E j \in 0..MaxCount : Fetching(j)'
                    /\ UNCHANGED <<px4_mission, px4_loads>>
                    /\ from_px4' # <<Px4Ack("ACCEPTED", "DRACO")>>
                 \/ /\ Taken' /\ px4_mission' = Expected
                    /\ px4_loads' = Append(px4_loads, Expected)
                 \/ Refused' /\ UNCHANGED <<px4_mission, px4_loads>>
  <2>1. m = MissionItemToPx4(k, Expected[k + 1]) /\ to_px4' = <<>>
    BY <1>1, <1>10, ShortSequences
  <2> DEFINE items == Append(px4_transfer.items, Expected[k + 1])
             transfer == [px4_transfer EXCEPT !.items = items]
  <2>2. Continue(transfer) \/ RefuseTransfer
    <3>1. m.type = "MISSION_ITEM_INT" /\ m.seq = k /\ m.payload = Expected[k + 1]
      BY <2>1 DEF MissionItemToPx4
    <3>2. Px4Expects(m)
      BY <1>10, <3>1 DEF Px4Expects, Fetching
    <3>3. Px4ReceivesItem(m)
      BY <3>1, <3>2 DEF Px4Receives, Px4ReceivesCount, Px4Clears, Px4Ignores
    <3> QED BY <3>1, <3>3 DEF Px4ReceivesItem
  <2>3. CASE Continue(transfer)
    <3>1. /\ px4_transfer \in Loads /\ px4_transfer.items \in Seq(Items)
          /\ px4_transfer.count = Len(Expected) /\ Len(px4_transfer.items) = k
          /\ k \in Nat /\ k < Len(Expected) /\ Expected[k + 1] \in Items
      BY <1>6, <1>10, GatewayAssumption DEF Fetching, TrafficInv, Transfers
    <3>2. items \in Seq(Items) /\ Len(items) = k + 1
          /\ \A i \in 1..(k + 1) : items[i] = Expected[i]
      <4>1. \A i \in 1..(k + 1) :
              items[i] = IF i = k + 1 THEN Expected[k + 1] ELSE px4_transfer.items[i]
        BY <3>1
      <4>2. \A i \in 1..k : px4_transfer.items[i] = Expected[i]
        BY <1>10 DEF Fetching
      <4> QED BY <3>1, <4>1, <4>2
    <3> HIDE DEF items
    <3>3. transfer \in Loads /\ transfer.count = Len(Expected) /\ transfer.items = items
      BY <3>1, <3>2 DEF Loads
    <3> HIDE DEF transfer
    <3>4. \/ /\ Fetching(k + 1)' /\ UNCHANGED <<px4_mission, px4_loads>>
             /\ from_px4' = <<Px4Request(k + 1)>>
          \/ /\ Taken' /\ px4_mission' = Expected
             /\ px4_loads' = Append(px4_loads, Expected)
      <4>1. k + 1 \in Nat /\ k + 1 <= Len(Expected)
        BY <1>6, <1>10, <3>1
      <4> QED BY <1>1, <1>2, <1>6, <1>10, <2>1, <2>3, <3>2, <3>3, <4>1, ContinueExpected
    <3> QED BY <1>6, <1>7, <1>8, <1>10, <2>1, <3>1, <3>4, ShortSequences
  <2> QED BY <1>5, <2>1, <2>2, <2>3
<1> QED BY <1>1, <1>2, <1>3, <1>9, <1>10, WhatPx4Reads

\* A step that leaves the session and the links alone leaves the phase.
LEMMA PhaseUnchanged ==
  ASSUME PhaseInv,
         UNCHANGED <<to_gcs, to_px4, from_px4, px4_transfer, px4_mission, asked,
                     mission_upload, active_gcs, mission_revisions,
                     px4_authorized_upload_active>>,
         UNCHANGED erasing \/ Quiet,
         Loading => UNCHANGED client_addr
  PROVE  PhaseInv'
<1>1. Expected' = Expected
  BY DEF Expected
<1>2. Silent => Silent'
  BY DEF Silent, LinkIdle
<1>3. \A k \in 0..MaxCount : Collecting(k) => Collecting(k)'
  BY <1>1 DEF Collecting, LinkIdle
<1>4. \A ack \in Answers : Answered(ack) => Answered(ack)'
  BY <1>1 DEF Answered, LinkIdle
<1>5. Loading => Loading'
  BY <1>1 DEF Loading
<1>6. (Offered => Offered') /\ (Taken => Taken') /\ (Refused => Refused')
      /\ (\A k \in 0..MaxCount : Fetching(k) => Fetching(k)') /\ (Hung => Hung')
  BY <1>1 DEF Offered, Taken, Refused, Fetching, Hung, LinkQuiet
<1>7. Clearing => Clearing'
  BY <1>1 DEF Clearing, Quiet, LinkQuiet
<1> QED BY <1>2, <1>3, <1>4, <1>5, <1>6, <1>7 DEF PhaseInv, Answers

\* Reading a message takes PX4 to the next phase.
LEMMA Px4ReceivesPhase ==
  ASSUME SingleStation, TypeOK, TrafficInv, PhaseInv, Px4Receives
  PROVE  PhaseInv'
<1>1. from_px4 = <<>> /\ Expected' = Expected
      /\ UNCHANGED <<mission_upload, active_gcs, mission_revisions, client_addr,
                     px4_authorized_upload_active, to_gcs>>
  BY ReadingOfPx4 DEF vars, session, lineage
<1>2. Loading => Loading'
  BY <1>1 DEF Loading
<1>3. CASE /\ Clearing /\ to_gcs = {} /\ to_px4' = <<>> /\ UNCHANGED px4_transfer
           /\ from_px4' = <<Px4Ack("ACCEPTED", station)>>
  <2>1. UNCHANGED erasing
    BY DEF Px4Receives, stations
  <2> QED BY <1>1, <1>3, <2>1 DEF Clearing, PhaseInv
<1>5. CASE Loading /\ ((\E k \in 0..MaxCount : Fetching(k)') \/ Taken' \/ Refused')
  BY <1>2, <1>5 DEF PhaseInv
<1> QED BY <1>3, <1>5, ReadingOfPx4

\* When nothing is on its way PX4 asks again for the item it waits for.
LEMMA Px4RetriesPhase ==
  ASSUME PhaseInv, Px4Retries
  PROVE  PhaseInv' /\ Loading /\ ~Hung /\ from_px4 = <<>> /\ Expected' = Expected
         /\ \E k \in 0..MaxCount : from_px4' = <<Px4Request(k)>>
<1>1. PICK k \in 0..MaxCount : Loading /\ Fetching(k)
  BY DEF PhaseInv, Silent, Clearing, Collecting, Answered, LinkIdle, Offered, Taken, Refused,
         Hung, Px4Retries
<1>2. /\ from_px4 = <<>> /\ to_px4' = <<>> /\ from_px4' = <<Px4Request(k)>>
      /\ Expected' = Expected
      /\ UNCHANGED <<vars, to_gcs, stations, px4>>
  BY <1>1 DEF Px4Retries, LinkQuiet, Fetching, stations, Expected
<1>3. Loading'
  BY <1>1, <1>2 DEF Loading, vars, session, lineage
<1>4. Fetching(k)'
  BY <1>1, <1>2 DEF Fetching, px4
<1>5. ~Hung
  BY <1>1 DEF Fetching, Hung
<1> QED BY <1>1, <1>2, <1>3, <1>4, <1>5 DEF PhaseInv

\* Without what it was about to read or say, an erasure leaves silence.
LEMMA ErasureLost ==
  ASSUME Clearing, to_gcs = {}, to_px4' = <<>>, from_px4' = <<>>,
         UNCHANGED <<vars, to_gcs, px4>>
  PROVE  PhaseInv' /\ ~Loading
BY DEF Clearing, Loading, Silent, LinkIdle, PhaseInv, vars, px4

\* A loss leaves the transfer hung, or PX4 asking again; what is lost of an
\* erasure leaves silence.
LEMMA Px4LosesPhase ==
  ASSUME SingleStation, TrafficInv, StationTypeOK, PhaseInv, Px4Loses
  PROVE  /\ PhaseInv' /\ Expected' = Expected /\ from_px4' = <<>>
         /\ from_px4 # <<>> /\ Loading /\ ~(\E k \in 0..MaxCount : Fetching(k)) => Hung'
<1>1. ~Retries
  BY DEF SingleStation, Px4Loses, StationTypeOK
<1>2. /\ UNCHANGED <<vars, to_gcs, stations, px4>> /\ Expected' = Expected
      /\ Loading => Loading'
  BY DEF Px4Loses, stations, Expected, Loading, vars, session, lineage
<1>3. CASE from_px4 # <<>> /\ from_px4' = Tail(from_px4) /\ UNCHANGED to_px4
  <2>1. /\ to_px4 = <<>>
        /\ \/ Clearing /\ to_gcs = {} /\ from_px4 = <<Px4Ack("ACCEPTED", station)>>
           \/ /\ Loading
              /\ \/ \E k \in 0..MaxCount : Fetching(k) /\ from_px4 = <<Px4Request(k)>>
                 \/ Taken \/ Refused
    BY <1>3, WhatPx4Says
  <2>2. from_px4' = <<>> /\ to_px4' = <<>>
    BY <1>3, <2>1, ShortSequences DEF Taken, Refused
  <2>3. ASSUME NEW k \in 0..MaxCount, Fetching(k)
        PROVE  Fetching(k)'
    BY <1>1, <1>2, <2>2, <2>3 DEF Fetching, LinkQuiet, px4
  <2>4. ASSUME Loading, Taken \/ Refused
        PROVE  PhaseInv' /\ Hung'
    <3>1. px4_transfer = None /\ px4_transfer' = None
      BY <1>2, <2>4 DEF Taken, Refused, px4
    <3>2. Loading' /\ px4_authorized_upload_active'
      BY <1>2, <2>4 DEF Loading
    <3>3. Hung'
      BY <1>1, <2>2, <3>1, <3>2 DEF Hung, LinkQuiet
    <3> QED BY <1>2, <2>2, <3>2, <3>3 DEF PhaseInv
  <2>5. Loading /\ (\E k \in 0..MaxCount : Fetching(k)) => PhaseInv'
    BY <1>2, <2>3 DEF PhaseInv
  <2>6. Clearing /\ to_gcs = {} => PhaseInv' /\ ~Loading
    BY <1>2, <2>2, ErasureLost
  <2> QED BY <1>2, <2>1, <2>2, <2>4, <2>5, <2>6
<1>4. CASE to_px4 # <<>> /\ to_px4' = Tail(to_px4) /\ UNCHANGED from_px4
  <2>1. from_px4 = <<>> /\ from_px4' = <<>>
    BY <1>4, WhatPx4Reads
  <2>2. CASE Clearing /\ to_gcs = {} /\ to_px4 = <<MissionClearAll(station)>>
    <3>1. to_px4' = <<>>
      BY <1>4, <2>2, ShortSequences
    <3> QED BY <1>2, <2>1, <2>2, <3>1, ErasureLost
  <2>3. CASE Loading /\ Offered
    <3>1. to_px4' = <<>>
      BY <1>4, <2>3, ShortSequences DEF Offered
    <3> QED BY <1>1, <1>2, <2>1, <2>3, <3>1 DEF Offered, Hung, LinkQuiet, Loading, PhaseInv, px4
  <2>4. ASSUME Loading, NEW k \in 0..MaxCount, Fetching(k),
               to_px4 = <<MissionItemToPx4(k, Expected[k + 1])>>
        PROVE  PhaseInv'
    <3>1. to_px4' = <<>>
      BY <1>4, <2>4, ShortSequences
    <3>2. Fetching(k)'
      BY <1>1, <1>2, <2>1, <2>4, <3>1 DEF Fetching, LinkQuiet, px4
    <3> QED BY <1>2, <2>4, <3>2 DEF PhaseInv
  <2> QED BY <1>2, <1>4, <2>1, <2>2, <2>3, <2>4, WhatPx4Reads
<1> QED BY <1>3, <1>4 DEF Px4Loses

\* The gateway passes the acknowledgement of an erasure on, or knows nobody to
\* pass it on to.
LEMMA RelayPhase ==
  ASSUME SingleStation, TypeOK, PhaseInv, RelayPx4Message
  PROVE  /\ PhaseInv' /\ ~Hung
         /\ from_px4 = <<Px4Ack("ACCEPTED", station)>> /\ from_px4' = <<>>
<1>1. Clearing /\ to_gcs = {} /\ from_px4 = <<Px4Ack("ACCEPTED", station)>>
  BY WhoPx4SpeaksTo DEF RelayPx4Message
<1>2. /\ Head(from_px4) = Px4Ack("ACCEPTED", station) /\ from_px4' = <<>>
      /\ to_px4' = to_px4 /\ to_px4 = <<>>
  BY <1>1, ShortSequences, WhatPx4Says DEF RelayPx4Message
<1>3. client_addr \in {None, station}
  BY DEF TypeOK, SingleStation
<1>4. UNCHANGED <<px4_authorized_upload_active, px4_transfer, asked, erasing>>
  BY DEF RelayPx4Message, NoPx4Message, EndOfIteration, px4, stations
<1>5. to_gcs' = {} \/ to_gcs' = {Cleared}
  BY <1>1, <1>2, <1>3 DEF RelayPx4Message, Px4Ack, Cleared
<1>6. ASSUME to_gcs' = {}
      PROVE  PhaseInv'
  <2>1. Silent'
    BY <1>1, <1>2, <1>4, <1>6 DEF Silent, LinkIdle, Clearing
  <2> QED BY <2>1 DEF PhaseInv
<1>7. ASSUME to_gcs' = {Cleared}
      PROVE  PhaseInv'
  <2>1. Cleared' = Cleared /\ Expected' = Expected
    BY <1>4 DEF Cleared, Expected
  <2>2. Clearing'
    BY <1>1, <1>2, <1>4, <1>7, <2>1 DEF Clearing, LinkQuiet
  <2> QED BY <2>2 DEF PhaseInv
<1>8. ~Hung
  BY <1>1 DEF Clearing, Hung
<1> QED BY <1>1, <1>2, <1>5, <1>6, <1>7, <1>8

\* Every step of the system keeps the session in one of its phases.
LEMMA PhaseStep ==
  ASSUME SingleStation, TypeOK, SessionInv, TrafficInv, StationTypeOK, PhaseInv,
         [SystemNext]_system_vars
  PROVE  PhaseInv'
<1>1. ASSUME NEW g \in Gcs, NEW plan \in Plans, StartUpload(g, plan)
      PROVE  PhaseInv'
  <2>1. /\ g = station /\ Silent /\ Expected' = plan /\ plan \in Seq(Items)
        /\ Len(plan) \in 0..MaxCount /\ plan # None /\ UNCHANGED <<from_px4, px4_transfer>>
    BY <1>1, AskPhase DEF StartUpload
  <2> QED BY <1>1, <2>1, CountPhase DEF StartUpload
<1>2. ASSUME NEW g \in Gcs, NEW plan \in Plans, StartUploadLost(g, plan)
      PROVE  PhaseInv'
  <2>1. Silent /\ UNCHANGED <<from_px4, px4_transfer, to_px4, to_gcs>>
    BY <1>2, AskPhase DEF StartUploadLost
  <2>2. UNCHANGED px4_authorized_upload_active
    BY <1>2 DEF StartUploadLost, vars
  <2> QED BY <2>1, <2>2 DEF Silent, LinkIdle, PhaseInv
<1>3. ASSUME NEW g \in Gcs, RetryUpload(g)
      PROVE  PhaseInv'
  <2>1. Silent /\ g = station /\ Expected # None
    BY <1>3, QuietIsSilent, ExpectedType DEF RetryUpload, Expected
  <2>2. Expected' = Expected /\ UNCHANGED <<from_px4, px4_transfer>>
    BY <1>3 DEF RetryUpload, stations, px4, Expected
  <2>3. HandleMissionCount(station, Len(Expected')) /\ Send(to_gcs, to_px4)
    BY <1>3, <2>1, <2>2 DEF RetryUpload, Expected
  <2> QED BY <2>1, <2>2, <2>3, ExpectedType, CountPhase
<1>4. ASSUME NEW g \in Gcs, ClearMission(g)
      PROVE  PhaseInv'
  <2>1. Expected = None
    BY <1>4, ExpectedType DEF ClearMission, Expected
  <2>2. g = station
    BY ExpectedType
  <2>3. Silent
    BY <1>4, <2>1, <2>2 DEF PhaseInv, Clearing, Collecting, Answered, Loading, ClearMission
  <2>4. to_px4' = Append(<<>>, MissionClearAll(station))
    BY <1>4, <2>2, <2>3 DEF ClearMission, Silent, LinkIdle
  <2>5. to_px4' = <<MissionClearAll(station)>>
    BY <2>4, ShortSequences
  <2>6. /\ UNCHANGED <<to_gcs, from_px4, px4_transfer, px4_authorized_upload_active, asked>>
        /\ station \in erasing'
    BY <1>4, <2>2 DEF ClearMission, RelayGcsDatagram, px4
  <2> QED BY <2>1, <2>3, <2>5, <2>6 DEF Silent, LinkIdle, Clearing, Expected, PhaseInv
<1>5. ASSUME NEW m \in to_gcs, SendItem(m)
      PROVE  PhaseInv'
  BY <1>5, ItemPhase
<1>6. ASSUME NEW m \in to_gcs, ReceiveAck(m) \/ ReceiveErasure(m) \/ Discard(m) \/ Lose(m)
      PROVE  PhaseInv'
  <2>1. /\ to_gcs' = to_gcs \ {m}
        /\ UNCHANGED <<to_px4, from_px4, px4_transfer, px4_authorized_upload_active>>
    BY <1>6 DEF ReceiveAck, ReceiveErasure, Discard, Lose, px4, vars
  <2> QED BY <2>1, ReceivePhase
<1>7. CASE HandlePx4Message
  BY <1>7, Px4MessagePhase
<1>8. CASE ReceiveTelemetry \/ FinishIteration
  BY <1>8, PhaseUnchanged
  DEF ReceiveTelemetry, FinishIteration, HandleTelemetry, NoPx4Message, RecvFailed,
      EndOfIteration, session, lineage, stations, px4
<1>9. CASE Restart
  BY <1>9 DEF Restart, SingleStation, TrafficInv
<1>10. CASE Px4Receives
  BY <1>10, Px4ReceivesPhase
<1>11. CASE Px4Retries
  BY <1>11, Px4RetriesPhase
<1>12. CASE UNCHANGED system_vars
  BY <1>12, PhaseUnchanged DEF system_vars, vars, session, lineage, stations, px4
<1>13. CASE Px4Loses
  BY <1>13, Px4LosesPhase
<1>14. CASE RelayPx4Message
  BY <1>14, RelayPhase
<1>15. ASSUME NEW g \in Gcs, GiveUpErasure(g)
       PROVE  PhaseInv'
  BY <1>15, PhaseUnchanged DEF GiveUpErasure, vars, session, lineage, px4
<1>16. ASSUME NEW g \in Gcs, RetryEarly(g)
       PROVE  PhaseInv'
  BY <1>16 DEF RetryEarly, SingleStation
<1>17. ASSUME NEW g \in Gcs, NEW seq \in 0..MaxCount, RepeatItem(g, seq)
       PROVE  PhaseInv'
  BY <1>17 DEF RepeatItem, SingleStation
<1> QED BY <1>1, <1>2, <1>3, <1>4, <1>5, <1>6, <1>7, <1>8, <1>9, <1>10, <1>11, <1>12, <1>13,
           <1>14, <1>15, <1>16, <1>17
        DEF SystemNext, StationStep, GatewayOwnStep, Px4OwnStep

-----------------------------------------------------------------------------
(* PX4 has taken what is committed                                          *)

\* Proposing and rejecting leave the committed revisions.
LEMMA CommittedKept ==
  ASSUME TypeOK, NEW mission,
         \/ UNCHANGED mission_revisions
         \/ mission_revisions' = reject_proposed_revision(mission_revisions)
         \/ mission_revisions' = propose_mission_revision(mission_revisions, mission)
         \/ mission_revisions' =
              reject_proposed_revision(propose_mission_revision(mission_revisions, mission))
  PROVE  Committed' = Committed /\ mission_revisions'.current = mission_revisions.current
<1>1. mission_revisions \in TrackerStates
  BY DEF TypeOK
<1>2. mission_revisions'.history = mission_revisions.history
      /\ mission_revisions'.current = mission_revisions.current
  BY <1>1 DEF propose_mission_revision, reject_proposed_revision, TrackerStates
<1> QED BY <1>2 DEF Committed

\* A commit extends them by the proposal.
LEMMA CommitExtends ==
  ASSUME TypeOK, LineageInv, CommitRevision, mission_revisions.proposed # None
  PROVE  /\ Committed' = Append(Committed, mission_revisions.proposed)
         /\ mission_revisions'.current = mission_revisions.proposed
         /\ committed_canonical_mission' = make_canonical_mission(mission_upload)
<1>1. /\ mission_revisions'.current = mission_revisions.proposed
      /\ mission_revisions'.history = Committed
  BY DEF CommitRevision, commit_proposed_revision, can_commit, TypeOK, TrackerStates,
         LineageInv, Committed
<1>2. Committed' = Append(Committed, mission_revisions.proposed)
  BY <1>1 DEF Committed
<1> QED BY <1>1, <1>2 DEF CommitRevision, can_commit

\* The acceptance of PX4 on its way, as its only message.
Acceptance == <<Px4Ack("ACCEPTED", "DRACO")>>

\* It is no other message, and not nothing.
LEMMA AcceptanceIsOne ==
  /\ Acceptance # <<>> /\ Acceptance # <<Px4Ack("ERROR", "DRACO")>>
  /\ \A k : Acceptance # <<Px4Request(k)>>
  /\ SingleStation => Acceptance # <<Px4Ack("ACCEPTED", station)>>
<1>1. \A k : Px4Request(k) # Px4Ack("ACCEPTED", "DRACO")
  BY DEF Px4Request, Px4Ack
<1>2. Px4Ack("ERROR", "DRACO") # Px4Ack("ACCEPTED", "DRACO")
  BY DEF Px4Ack
<1>3. \A m : <<m>> # <<>> /\ Head(<<m>>) = m
  BY ShortSequences
<1>4. SingleStation => Px4Ack("ACCEPTED", station) # Px4Ack("ACCEPTED", "DRACO")
  <2>1. SingleStation => station \in Gcs
    BY DEF SingleStation
  <2> QED BY <2>1, SystemAssumption DEF Px4Ack
<1> QED BY <1>1, <1>2, <1>3, <1>4 DEF Acceptance

\* Without an acceptance the missions PX4 has taken are those of the committed
\* revisions; it may only be erased.
LEMMA LoadsKept ==
  ASSUME TypeOK, LoadsAreCommits, Committed' = Committed, UNCHANGED px4_loads,
         from_px4 # Acceptance, ~Hung, from_px4' # Acceptance,
         px4_mission' = px4_mission \/ px4_mission' = <<>>
  PROVE  LoadsAreCommits'
<1>1. Len(Committed) \in Nat
  BY CommittedType
<1>2. Len(px4_loads) = Len(Committed)
  BY DEF LoadsAreCommits, Acceptance
<1> QED BY <1>1, <1>2 DEF LoadsAreCommits, Acceptance

\* A step of the station finds PX4 silent, or does not concern PX4.
LEMMA StationStepKeepsLoads ==
  ASSUME SingleStation, TypeOK, TrafficInv, PhaseInv, LoadsAreCommits, StationStep,
         \A g \in Gcs : ~GiveUpErasure(g)
  PROVE  LoadsAreCommits'
<1>0. \A g \in Gcs : ~RetryEarly(g) /\ \A seq : ~RepeatItem(g, seq)
  BY DEF RetryEarly, RepeatItem, SingleStation
<1>1. from_px4 = <<>> /\ ~Hung
  <2>1. Silent => from_px4 = <<>> /\ ~Hung
    BY DEF Silent, LinkIdle, Hung
  <2>2. ASSUME NEW g \in Gcs, NEW plan \in Plans, Ask(g, plan)
        PROVE  from_px4 = <<>> /\ ~Hung
    BY <2>1, <2>2, AskPhase
  <2>3. ASSUME NEW g \in Gcs, ClearMission(g)
        PROVE  from_px4 = <<>> /\ ~Hung
    <3>1. Expected = None /\ station \notin erasing
      BY <2>3, ExpectedType DEF ClearMission, Expected
    <3> QED BY <2>1, <3>1 DEF PhaseInv, Clearing, Collecting, Answered, Loading
  <2>4. ASSUME NEW m \in to_gcs
        PROVE  from_px4 = <<>> /\ ~Hung
    BY MessageToStation DEF LinkIdle, Hung
  <2> QED BY <1>0, <2>1, <2>2, <2>3, <2>4, QuietIsSilent
          DEF StationStep, StartUpload, StartUploadLost, RetryUpload
<1>2. UNCHANGED <<from_px4, px4_loads, px4_mission>>
  BY <1>0 DEF StationStep, StartUpload, StartUploadLost, Ask, RetryUpload, ClearMission,
              SendItem, ReceiveAck, ReceiveErasure, Discard, Lose, px4
<1>3. Committed' = Committed
  <2>1. ASSUME NEW request, SendItem(request)
        PROVE  Committed' = Committed
    BY <2>1, CommittedKept
    DEF SendItem, BufferMissionItem, DenyMission, AllowMission, Proposed, lineage
  <2>2. CASE UNCHANGED mission_revisions
    BY <2>2 DEF Committed
  <2> QED BY <1>0, <2>1, <2>2
          DEF StationStep, StartUpload, StartUploadLost, RetryUpload, ClearMission,
              ReceiveAck, ReceiveErasure, Discard, Lose, HandleMissionCount,
              RelayGcsDatagram, vars, lineage
<1> QED BY <1>1, <1>2, <1>3, LoadsKept, AcceptanceIsOne

\* An answer of PX4 commits the mission it has taken, and no other.
LEMMA Px4MessageKeepsLoads ==
  ASSUME SingleStation, TypeOK, TrafficInv, LineageInv, PhaseInv, LoadsAreCommits,
         HandlePx4Message
  PROVE  LoadsAreCommits'
<1>0. ~Hung
  BY DEF HandlePx4Message, Hung, LinkQuiet
<1>1. /\ Loading /\ from_px4' = <<>> /\ UNCHANGED <<px4_loads, px4_mission>>
      /\ \/ \E k \in 0..MaxCount :
              Fetching(k) /\ from_px4 = <<Px4Request(k)>> /\ ServeMissionItem(k)
         \/ Taken /\ CommitRevision
         \/ Refused /\ RejectRevision("ERROR")
  BY AnswerOfPx4 DEF HandlePx4Message, px4
<1>2. CASE from_px4 # Acceptance /\ (UNCHANGED mission_revisions \/ RejectRevision("ERROR"))
  <2>1. Committed' = Committed
    BY <1>2, CommittedKept DEF RejectRevision
  <2> QED BY <1>0, <1>1, <1>2, <2>1, LoadsKept, AcceptanceIsOne
<1>3. CASE Taken /\ CommitRevision
  <2> DEFINE proposal == mission_revisions.proposed
             n == Len(Committed)
  <2>1. /\ proposal # None /\ proposal.mission = MissionOf(Expected)
    BY <1>1 DEF Loading
  <2>2. Committed' = Append(Committed, proposal)
    BY <1>3, <2>1, CommitExtends
  <2>4. /\ from_px4 = Acceptance /\ px4_loads \in Seq(Seq(Items))
        /\ Len(px4_loads) = n + 1 /\ px4_loads[n + 1] = Expected
        /\ \A i \in 1..n : Committed[i].mission = MissionOf(px4_loads[i])
        /\ px4_mission # <<>> =>
             px4_loads # <<>> /\ px4_mission = px4_loads[Len(px4_loads)]
    BY <1>3 DEF Taken, LoadsAreCommits, Acceptance
  <2>5. Committed \in Seq(Revisions) /\ n \in Nat /\ proposal \in Revisions
    BY <2>1, CommittedType DEF TypeOK, TrackerStates, OptionalRevision
  <2> HIDE DEF proposal
  <2>6. /\ Len(Committed') = n + 1
        /\ \A i \in 1..(n + 1) :
             Committed'[i] = IF i = n + 1 THEN proposal ELSE Committed[i]
    BY <2>2, <2>5
  <2> HIDE DEF n
  <2>7. \A i \in 1..(n + 1) : Committed'[i].mission = MissionOf(px4_loads[i])
    <3>1. Committed'[n + 1] = proposal
      BY <2>5, <2>6
    <3>2. \A i \in 1..n : Committed'[i] = Committed[i]
      BY <2>5, <2>6
    <3>3. \A i \in 1..n : Committed'[i].mission = MissionOf(px4_loads[i])
      BY <2>4, <3>2
    <3>4. Committed'[n + 1].mission = MissionOf(px4_loads[n + 1])
      BY <2>1, <2>4, <3>1
    <3>5. \A i \in 1..(n + 1) : i = n + 1 \/ i \in 1..n
      BY <2>5
    <3> QED BY <3>3, <3>4, <3>5, Zenon
  <2>8. LoadsAreCommits'
    BY <1>1, <2>4, <2>5, <2>6, <2>7, AcceptanceIsOne DEF LoadsAreCommits, Acceptance
  <2> QED BY <2>8
<1> QED BY <1>1, <1>2, <1>3, AcceptanceIsOne
        DEF ServeMissionItem, RejectRevision, Refused, lineage

\* What PX4 reads makes it take the mission of the proposal, or none.
LEMMA Px4ReceivesKeepsLoads ==
  ASSUME SingleStation, TypeOK, TrafficInv, PhaseInv, LoadsAreCommits, Px4Receives
  PROVE  LoadsAreCommits'
<1>1. from_px4 = <<>> /\ Expected' = Expected /\ Committed' = Committed
  BY ReadingOfPx4 DEF vars, lineage, Committed
<1>0. ~Hung
  BY DEF Px4Receives, Hung, LinkQuiet
<1>2. CASE /\ UNCHANGED px4_loads /\ from_px4' # Acceptance
           /\ px4_mission' = px4_mission \/ px4_mission' = <<>>
  BY <1>0, <1>1, <1>2, LoadsKept, AcceptanceIsOne
<1>3. CASE Loading /\ Taken' /\ px4_mission' = Expected
           /\ px4_loads' = Append(px4_loads, Expected)
  <2> DEFINE n == Len(Committed)
  <2>1. /\ px4_loads \in Seq(Seq(Items)) /\ Len(px4_loads) = n /\ n \in Nat
        /\ \A i \in 1..n : Committed[i].mission = MissionOf(px4_loads[i])
    BY <1>0, <1>1, CommittedType, AcceptanceIsOne DEF LoadsAreCommits, Acceptance
  <2>2. Expected \in Seq(Items)
    BY <1>3, ExpectedType DEF Loading
  <2> HIDE DEF n
  <2>3. /\ px4_loads' \in Seq(Seq(Items)) /\ Len(px4_loads') = n + 1
        /\ \A i \in 1..(n + 1) :
             px4_loads'[i] = IF i = n + 1 THEN Expected ELSE px4_loads[i]
    BY <1>3, <2>1, <2>2
  <2>4. /\ \A i \in 1..n : Committed[i].mission = MissionOf(px4_loads'[i])
        /\ px4_loads'[n + 1] = Expected /\ px4_loads' # <<>>
    BY <2>1, <2>3
  <2>5. from_px4' = Acceptance
    BY <1>3 DEF Taken, Acceptance
  <2> QED BY <1>1, <1>3, <2>3, <2>4, <2>5 DEF LoadsAreCommits, Acceptance, n
<1> QED BY <1>2, <1>3, ReadingOfPx4, AcceptanceIsOne DEF Refused, Acceptance

\* What is lost is an acceptance of the mission PX4 has taken, or no load.
LEMMA Px4LosesKeepsLoads ==
  ASSUME SingleStation, TypeOK, TrafficInv, StationTypeOK, PhaseInv, LoadsAreCommits, Px4Loses
  PROVE  LoadsAreCommits'
<1>1. /\ Expected' = Expected /\ Committed' = Committed /\ from_px4' = <<>>
      /\ UNCHANGED <<px4_loads, px4_mission>>
  BY Px4LosesPhase DEF Px4Loses, vars, lineage, Committed, px4
<1>2. ~Hung
  BY DEF Px4Loses, Hung, LinkQuiet
<1>3. CASE from_px4 # Acceptance
  BY <1>1, <1>2, <1>3, LoadsKept, AcceptanceIsOne
<1>4. CASE from_px4 = Acceptance
  <2>1. Taken /\ Loading
    BY <1>4, WhatPx4Says, AcceptanceIsOne DEF Refused, Acceptance
  <2>2. ~(\E k \in 0..MaxCount : Fetching(k))
    BY <2>1 DEF Taken, Fetching
  <2>3. Hung'
    BY <1>4, <2>1, <2>2, Px4LosesPhase, AcceptanceIsOne
  <2> QED BY <1>1, <1>4, <2>3, AcceptanceIsOne DEF LoadsAreCommits, Acceptance
<1> QED BY <1>3, <1>4

\* Nothing has been taken or committed at first.
LEMMA StationInit ==
  ASSUME SingleStation
  PROVE  SystemInit => StationInv
<1> SUFFICES ASSUME SystemInit PROVE StationInv
  OBVIOUS
<1>1. /\ to_gcs = {} /\ to_px4 = <<>> /\ from_px4 = <<>> /\ px4_transfer = None
      /\ px4_mission = <<>> /\ px4_loads = <<>> /\ px4_losses = 0
      /\ answer = [g \in Gcs |-> "NONE"]
      /\ Init
  BY DEF SystemInit
<1>2. PhaseInv
  BY <1>1 DEF Init, PhaseInv, Silent, LinkIdle
<1>3. Committed = <<>>
  BY <1>1 DEF Init, NewTracker, Committed
<1>4. from_px4 # Acceptance
  BY <1>1, AcceptanceIsOne
<1>5. LoadsAreCommits
  <2>1. Len(Committed) = 0 /\ Len(px4_loads) = 0 /\ px4_loads \in Seq(Seq(Items))
    BY <1>1, <1>3
  <2> QED BY <1>1, <1>4, <2>1 DEF LoadsAreCommits, Acceptance
<1>6. StationTypeOK
  BY <1>1 DEF SystemInit, StationTypeOK
<1> QED BY <1>2, <1>5, <1>6 DEF StationInv

\* Every step of the system keeps what PX4 has taken in line with what is
\* committed.
LEMMA LoadsStep ==
  ASSUME SingleStation, TypeOK, TrafficInv, LineageInv, StationTypeOK, PhaseInv,
         LoadsAreCommits, [SystemNext]_system_vars
  PROVE  LoadsAreCommits'
<1>1. CASE StationStep /\ \A g \in Gcs : ~GiveUpErasure(g)
  BY <1>1, StationStepKeepsLoads
<1>2. CASE HandlePx4Message
  BY <1>2, Px4MessageKeepsLoads
<1>3. ASSUME UNCHANGED <<mission_revisions, from_px4, to_px4, px4_loads, px4_mission,
                         px4_transfer, asked, px4_authorized_upload_active>>
      PROVE  LoadsAreCommits'
  BY <1>3 DEF LoadsAreCommits, Committed, Expected, Hung, LinkQuiet
<1>4. CASE ReceiveTelemetry \/ FinishIteration
  BY <1>3, <1>4 DEF ReceiveTelemetry, FinishIteration, HandleTelemetry, NoPx4Message,
                    RecvFailed, EndOfIteration, session, lineage, stations, px4
<1>5. CASE Restart
  BY <1>5 DEF Restart, SingleStation, TrafficInv
<1>6. CASE Px4Receives
  BY <1>6, Px4ReceivesKeepsLoads
<1>7. CASE Px4Retries
  <2>1. /\ ~Hung /\ from_px4 # Acceptance /\ from_px4' # Acceptance
    BY <1>7, Px4RetriesPhase, AcceptanceIsOne
  <2>2. UNCHANGED <<mission_revisions, px4_loads, px4_mission>>
    BY <1>7 DEF Px4Retries, vars, lineage, px4
  <2> QED BY <2>1, <2>2, LoadsKept DEF Committed
<1>8. CASE UNCHANGED system_vars
  BY <1>3, <1>8 DEF system_vars, vars, session, lineage, stations, px4
<1>9. CASE Px4Loses
  BY <1>9, Px4LosesKeepsLoads
<1>10. ASSUME NEW g \in Gcs, GiveUpErasure(g)
       PROVE  LoadsAreCommits'
  BY <1>3, <1>10 DEF GiveUpErasure, vars, lineage, px4
<1>11. CASE RelayPx4Message
  <2>1. /\ ~Hung /\ from_px4 # Acceptance /\ from_px4' # Acceptance
    BY <1>11, RelayPhase, AcceptanceIsOne
  <2>2. UNCHANGED <<mission_revisions, px4_loads, px4_mission>>
    BY <1>11 DEF RelayPx4Message, NoPx4Message, lineage, px4
  <2> QED BY <2>1, <2>2, LoadsKept DEF Committed
<1> QED BY <1>1, <1>2, <1>4, <1>5, <1>6, <1>7, <1>8, <1>9, <1>10, <1>11
        DEF SystemNext, GatewayOwnStep, Px4OwnStep

\* What an answer the station waits for says.
LEMMA AnswerSays ==
  ASSUME PhaseInv, NEW ack \in to_gcs, AnswersUpload(ack)
  PROVE  /\ ack \in Answers /\ Answered(ack)
         /\ ack.to = station /\ ack.result \in {"ACCEPTED", "DENIED", "ERROR"}
<1>1. \A k : MissionRequest(k, "MISSION", station).type # "MISSION_ACK"
  BY DEF MissionRequest
<1>2. ~(Clearing /\ ack = Cleared)
  BY DEF Clearing, Cleared, MissionAck, AnswersUpload, Expected
<1>3. ack \in Answers /\ Answered(ack)
  BY <1>1, <1>2, MessageToStation DEF AnswersUpload
<1> QED BY <1>3 DEF Answers, MissionAck

\* The station is told one of the results.
LEMMA StationTypeStep ==
  ASSUME SingleStation, TrafficInv, StationTypeOK, PhaseInv, [SystemNext]_system_vars
  PROVE  StationTypeOK'
<1>1. CASE UNCHANGED <<answer, px4_losses>> /\ erasing' \subseteq Gcs
  BY <1>1 DEF StationTypeOK
<1>2. ASSUME NEW g \in Gcs, NEW plan \in Plans, Ask(g, plan)
      PROVE  StationTypeOK'
  BY <1>2 DEF Ask, StationTypeOK
<1>3. ASSUME NEW m \in to_gcs, ReceiveAck(m)
      PROVE  StationTypeOK'
  <2>1. m.result \in {"ACCEPTED", "DENIED", "ERROR"}
    BY <1>3, AnswerSays DEF ReceiveAck
  <2> QED BY <1>3, <2>1 DEF ReceiveAck, StationTypeOK, faults
<1>4. CASE Restart
  BY <1>4 DEF Restart, SingleStation, TrafficInv
<1>5. CASE Px4Loses
  BY <1>5 DEF Px4Loses, StationTypeOK, stations
<1>6. ASSUME NEW g \in Gcs, ClearMission(g) \/ GiveUpErasure(g)
      PROVE  StationTypeOK'
  BY <1>1, <1>6 DEF ClearMission, GiveUpErasure, StationTypeOK, faults
<1>7. ASSUME NEW m \in to_gcs, ReceiveErasure(m)
      PROVE  StationTypeOK'
  BY <1>1, <1>7 DEF ReceiveErasure, StationTypeOK, faults
<1>8. CASE UNCHANGED <<answer, px4_losses, erasing>>
  BY <1>1, <1>8 DEF StationTypeOK
<1> QED BY <1>2, <1>3, <1>4, <1>5, <1>6, <1>7, <1>8
        DEF SystemNext, StationStep, GatewayOwnStep, Px4OwnStep, StartUpload,
            StartUploadLost, RetryUpload, RetryEarly, RepeatItem, SendItem, Discard, Lose,
            HandlePx4Message, RelayPx4Message, ReceiveTelemetry, FinishIteration,
            Px4Receives, Px4Retries, system_vars, stations, faults

-----------------------------------------------------------------------------
(* Theorems                                                                 *)

\* The lineage and the phases, on top of the types, the session and the traffic
\* that hold of every system.
StationSystemInv == SystemInv /\ LineageInv /\ StationInv

\* With one station the gateway is never restarted.
LEMMA SystemStepsTheGateway ==
  ASSUME SingleStation, SystemInv, [SystemNext]_system_vars
  PROVE  [Next]_vars
<1>1. Restart => FALSE
  BY DEF SingleStation, SystemInv, TrafficInv, Restart
<1> QED BY <1>1, SystemStepIsGateway DEF SystemInv

\* The station invariant is inductive.
LEMMA StationInvHolds ==
  ASSUME SingleStation
  PROVE  SystemSpec => []StationSystemInv
<1>1. SystemInit => LineageInv /\ StationInv
  BY StationInit, LineageInit DEF SystemInit
<1>2. SystemInv /\ LineageInv /\ StationInv /\ [SystemNext]_system_vars
        => LineageInv' /\ StationInv'
  <2> SUFFICES ASSUME SystemInv, LineageInv, StationInv, [SystemNext]_system_vars
               PROVE  LineageInv' /\ StationInv'
    OBVIOUS
  <2>1. LineageInv'
    BY SystemStepsTheGateway, LineageStep DEF SystemInv
  <2>2. PhaseInv'
    BY PhaseStep DEF SystemInv, StationInv
  <2>3. LoadsAreCommits'
    BY LoadsStep DEF SystemInv, StationInv
  <2>4. StationTypeOK'
    BY StationTypeStep DEF SystemInv, StationInv
  <2> QED BY <2>1, <2>2, <2>3, <2>4 DEF StationInv
<1> QED BY <1>1, <1>2, SystemInvHolds, PTL DEF SystemSpec, StationSystemInv

\* The current revision is the last committed.
LEMMA CurrentIsLast ==
  ASSUME TypeOK, LineageInv
  PROVE  /\ Len(Committed) \in Nat
         /\ mission_revisions.current = None => Len(Committed) = 0
         /\ mission_revisions.current # None =>
              Len(Committed) > 0
              /\ Committed[Len(Committed)] = mission_revisions.current
BY DEF TypeOK, TrackerStates, OptionalRevision, LineageInv, Committed

\* The mission of every committed revision is among those PX4 has taken, at its
\* place.
LEMMA CommittedWasTaken ==
  ASSUME TypeOK, LoadsAreCommits
  PROVE  \A i \in 1..Len(Committed) :
           i \in DOMAIN px4_loads /\ px4_loads[i] = ItemsOf(Committed[i])
<1>1. Len(Committed) \in Nat /\ px4_loads \in Seq(Seq(Items))
      /\ Len(px4_loads) >= Len(Committed)
  BY CommittedType DEF LoadsAreCommits
<1>2. ASSUME NEW i \in 1..Len(Committed)
      PROVE  i \in DOMAIN px4_loads /\ px4_loads[i] = ItemsOf(Committed[i])
  <2>1. Committed[i].mission = MissionOf(px4_loads[i])
    BY DEF LoadsAreCommits
  <2> QED BY <1>1, <1>2, <2>1 DEF ItemsOf, MissionOf
<1> QED BY <1>2

\* What is committed, PX4 has taken (README.md:52, 216).
THEOREM CommittedWasAccepted ==
  ASSUME SingleStation
  PROVE  SystemSpec => []CommittedIsAccepted
<1>1. StationSystemInv => CommittedIsAccepted
  <2> SUFFICES ASSUME StationSystemInv, mission_revisions.current # None
               PROVE  \E i \in DOMAIN px4_loads :
                        px4_loads[i] = ItemsOf(mission_revisions.current)
    BY DEF CommittedIsAccepted
  <2>1. TypeOK /\ LineageInv /\ LoadsAreCommits
    BY DEF StationSystemInv, SystemInv, StationInv
  <2> DEFINE n == Len(Committed)
  <2>2. n \in 1..n /\ Committed[n] = mission_revisions.current
    BY <2>1, CurrentIsLast
  <2> QED BY <2>1, <2>2, CommittedWasTaken
<1> QED BY <1>1, StationInvHolds, PTL

\* When no mission is loaded, PX4 holds the mission of the current revision, or
\* none (README.md:315-316).
THEOREM Px4HoldsWhatIsCurrent ==
  ASSUME SingleStation
  PROVE  SystemSpec => []Px4HoldsCurrent
<1>1. StationSystemInv => Px4HoldsCurrent
  <2> SUFFICES ASSUME StationSystemInv, ~px4_authorized_upload_active, px4_mission # <<>>
               PROVE  /\ mission_revisions.current # None
                      /\ px4_mission = ItemsOf(mission_revisions.current)
    BY DEF Px4HoldsCurrent
  <2>1. TypeOK /\ LineageInv /\ LoadsAreCommits /\ PhaseInv
    BY DEF StationSystemInv, SystemInv, StationInv
  <2> DEFINE n == Len(Committed)
  <2>2. from_px4 # Acceptance /\ ~Hung
    BY <2>1, WhatPx4Says, AcceptanceIsOne DEF Loading, Hung
  <2>3. /\ px4_loads \in Seq(Seq(Items)) /\ px4_loads # <<>>
        /\ Len(px4_loads) = n /\ px4_mission = px4_loads[n]
    BY <2>1, <2>2 DEF LoadsAreCommits, Acceptance
  <2>4. n \in Nat /\ n # 0
    BY <2>1, <2>3, CurrentIsLast
  <2>5. mission_revisions.current # None /\ Committed[n] = mission_revisions.current
    BY <2>1, <2>4, CurrentIsLast
  <2> QED BY <2>1, <2>3, <2>4, <2>5, CommittedWasTaken
<1> QED BY <1>1, StationInvHolds, PTL

\* Whatever PX4 takes is the mission of the pending proposal (README.md:314).
THEOREM Px4OnlyTakesProposal ==
  ASSUME SingleStation
  PROVE  SystemSpec => Px4TakesProposal
<1>1. StationSystemInv /\ [SystemNext]_system_vars
        => [px4_loads' # px4_loads =>
              /\ mission_revisions.proposed # None
              /\ px4_mission' = ItemsOf(mission_revisions.proposed)]_system_vars
  <2> SUFFICES ASSUME StationSystemInv, [SystemNext]_system_vars, px4_loads' # px4_loads
               PROVE  /\ mission_revisions.proposed # None
                      /\ px4_mission' = ItemsOf(mission_revisions.proposed)
    OBVIOUS
  <2>1. TypeOK /\ TrafficInv /\ PhaseInv
    BY DEF StationSystemInv, SystemInv, StationInv
  <2>2. Px4Receives
    BY DEF SystemNext, StationStep, GatewayOwnStep, Px4OwnStep, StartUpload,
           StartUploadLost, Ask, RetryUpload, RetryEarly, RepeatItem, ClearMission,
           GiveUpErasure, SendItem, ReceiveAck, ReceiveErasure, Discard, Lose, HandlePx4Message,
           RelayPx4Message, ReceiveTelemetry, FinishIteration, Restart, Px4Retries,
           Px4Loses, system_vars, px4
  <2>3. Loading /\ px4_mission' = Expected
    BY <2>1, <2>2, ReadingOfPx4
  <2> QED BY <2>3 DEF Loading, ItemsOf, MissionOf
<1> QED BY <1>1, StationInvHolds, PTL DEF SystemSpec, Px4TakesProposal

\* What is on its way is of the types of the messages, in every phase.
LEMMA TrafficTypes ==
  ASSUME SingleStation, TypeOK, TrafficInv, PhaseInv
  PROVE  /\ to_gcs \subseteq GcsMessages
         /\ to_px4 \in Seq(MessagesToPx4) /\ from_px4 \in Seq(MessagesFromPx4)
<1>1. station \in Gcs
  BY ExpectedType
<1>2. \A k \in Nat : MissionRequest(k, "MISSION", station) \in GcsMessages
  BY <1>1 DEF MissionRequest, GcsMessages, MissionTypes
<1>3. Answers \cup {Cleared} \subseteq GcsMessages
  BY <1>1 DEF Answers, Cleared, MissionAck, GcsMessages
<1>4. to_gcs \subseteq GcsMessages
  <2> SUFFICES ASSUME NEW m \in to_gcs PROVE m \in GcsMessages
    OBVIOUS
  <2>1. 0..MaxCount \subseteq Nat
    BY GatewayAssumption
  <2> QED BY <1>2, <1>3, <2>1, MessageToStation
<1>5. from_px4 \in Seq(MessagesFromPx4)
  <2>1. Px4Requests \cup Px4Acks \subseteq MessagesFromPx4
    BY GatewayAssumption DEF Px4Requests, Px4Acks, MessagesFromPx4
  <2>2. from_px4 \in Seq(Px4Requests \cup Px4Acks)
    BY DEF TrafficInv
  <2> QED BY <2>1, <2>2
<1>6. to_px4 \in Seq(MessagesToPx4)
  <2>1. /\ MissionClearAll(station) \in MessagesToPx4
        /\ \A n \in Nat : MissionCountToPx4(n) \in MessagesToPx4
        /\ \A n \in Nat, item \in Items : MissionItemToPx4(n, item) \in MessagesToPx4
    BY <1>1 DEF MissionClearAll, MissionCountToPx4, MissionItemToPx4, MessagesToPx4
  <2>2. \A m \in MessagesToPx4 : <<m>> \in Seq(MessagesToPx4)
    OBVIOUS
  <2>4. <<>> \in Seq(MessagesToPx4)
    OBVIOUS
  <2>5. CASE to_px4 = <<>>
    BY <2>4, <2>5
  <2>6. CASE to_px4 = <<MissionClearAll(station)>>
    BY <2>1, <2>2, <2>6
  <2>7. CASE Loading /\ Offered
    <3>1. Len(Expected) \in Nat
      BY <2>7, ExpectedType, GatewayAssumption DEF Loading
    <3> HIDE DEF MessagesToPx4
    <3> QED BY <2>1, <2>2, <2>7, <3>1 DEF Offered
  <2>8. ASSUME Loading, NEW k \in 0..MaxCount, Fetching(k),
               to_px4 = <<MissionItemToPx4(k, Expected[k + 1])>>
        PROVE  to_px4 \in Seq(MessagesToPx4)
    <3>1. Expected \in Seq(Items) /\ k \in Nat /\ k < Len(Expected)
      BY <2>8, ExpectedType, GatewayAssumption DEF Loading, Fetching
    <3>2. Expected[k + 1] \in Items
      BY <3>1
    <3> QED BY <2>1, <2>2, <2>8, <3>1, <3>2
  <2> QED BY <2>5, <2>6, <2>7, <2>8, WhatPx4Reads
<1> QED BY <1>4, <1>5, <1>6

\* What PX4 is loading, holds and has taken is made of items of missions.
LEMMA Px4Types ==
  ASSUME SingleStation, TrafficInv, PhaseInv, LoadsAreCommits, TypeOK
  PROVE  /\ px4_transfer \in [count: Nat, items: Seq(Items)] \cup {None}
         /\ px4_mission \in Seq(Items) /\ px4_loads \in Seq(Seq(Items))
<1>1. px4_transfer \in [count: Nat, items: Seq(Items)] \cup {None}
  <2>1. px4_transfer # None => \E k \in 0..MaxCount : Fetching(k)
    BY DEF PhaseInv, Silent, Clearing, Collecting, Answered, LinkIdle, Offered, Taken,
           Refused, Hung
  <2>2. CASE px4_transfer # None
    <3>1. px4_transfer.items \in Seq(Items)
      BY <2>1, <2>2 DEF Fetching
    <3>2. px4_transfer \in [count: 0..MaxCount, items: Seq(Items \cup {BlankItem})]
      BY <2>2 DEF TrafficInv, Transfers, Loads
    <3>3. px4_transfer.count \in Nat
      BY <3>2, GatewayAssumption
    <3> QED BY <3>1, <3>2, <3>3
  <2> QED BY <2>2
<1>2. px4_loads \in Seq(Seq(Items))
  BY DEF LoadsAreCommits
<1>3. px4_mission \in Seq(Items)
  <2>1. CASE px4_mission = <<>>
    BY <2>1
  <2>2. CASE px4_mission # <<>>
    <3>1. px4_loads # <<>> /\ px4_mission = px4_loads[Len(px4_loads)]
      BY <2>2 DEF LoadsAreCommits
    <3> QED BY <1>2, <3>1
  <2> QED BY <2>1, <2>2
<1> QED BY <1>1, <1>2, <1>3

\* The parties hold and exchange what the protocol knows: PX4 is never sent the
\* blank item an unfilled slot of the buffer holds (mission_reconstructor.cpp:
\* 21-27), and no result goes to a station the gateway does not know.
THEOREM SystemTypesHold ==
  ASSUME SingleStation
  PROVE  SystemSpec => []SystemTypeOK
<1>1. StationSystemInv => SystemTypeOK
  <2> SUFFICES ASSUME StationSystemInv PROVE SystemTypeOK
    OBVIOUS
  <2>1. /\ TypeOK /\ TrafficInv /\ PhaseInv /\ LoadsAreCommits
        /\ answer \in [Gcs -> {"NONE", "ACCEPTED", "DENIED", "ERROR"}] /\ erasing \subseteq Gcs
    BY DEF StationSystemInv, SystemInv, StationInv, StationTypeOK
  <2>2. asked \in [Gcs -> Plans \cup {None}]
    BY <2>1 DEF TrafficInv
  <2> QED BY <2>1, <2>2, TrafficTypes, Px4Types DEF SystemTypeOK
<1> QED BY <1>1, StationInvHolds, PTL

\* What a step of the system makes the gateway send to PX4: an item it was asked
\* for, the offer of a mission, or nothing.
LEMMA WhatPx4IsSent ==
  ASSUME SingleStation, TypeOK, TrafficInv, PhaseInv, [SystemNext]_system_vars
  PROVE  \/ UNCHANGED vars
         \/ px4_out' = {}
         \/ \E k \in 0..MaxCount : Loading /\ Fetching(k) /\ ServeMissionItem(k)
         \/ \E m \in to_gcs, sent \in SendResults :
              SendItem(m) /\ AllowMission(m.to, ItemFrame(m), sent)
<1>1. CASE StationStep
  BY <1>1 DEF StationStep, StartUpload, StartUploadLost, RetryUpload, RetryEarly, RepeatItem,
              ClearMission, GiveUpErasure, SendItem, ReceiveAck, ReceiveErasure, Discard,
              Lose, HandleMissionCount, RelayGcsDatagram, BufferMissionItem, DenyMission
<1>2. CASE HandlePx4Message
  BY <1>2, AnswerOfPx4 DEF CommitRevision, RejectRevision, FinishPx4Upload
<1>3. CASE ReceiveTelemetry \/ FinishIteration \/ RelayPx4Message
  BY <1>3 DEF ReceiveTelemetry, FinishIteration, RelayPx4Message, HandleTelemetry,
              NoPx4Message, RecvFailed
<1>4. CASE Restart
  BY <1>4 DEF Restart
<1>5. CASE Px4OwnStep \/ UNCHANGED system_vars
  BY <1>5 DEF Px4OwnStep, Px4Receives, Px4Retries, Px4Loses, system_vars
<1> QED BY <1>1, <1>2, <1>3, <1>4, <1>5 DEF SystemNext, GatewayOwnStep

\* Every item PX4 is sent is the item of that seq in the proposal that was
\* allowed (README.md:314).
THEOREM Px4IsSentTheProposal ==
  ASSUME SingleStation
  PROVE  SystemSpec => ServedItemIsAuthorized
<1> DEFINE Authorized ==
             \A m \in px4_out' :
               m.type = "MISSION_ITEM_INT" =>
                 /\ mission_revisions.proposed # None
                 /\ LET items == mission_revisions.proposed.mission.items IN
                    m.seq < Len(items) /\ m.payload = items[m.seq + 1]
<1>1. StationSystemInv /\ [SystemNext]_system_vars => [Authorized]_vars
  <2> SUFFICES ASSUME StationSystemInv, [SystemNext]_system_vars
               PROVE  Authorized \/ UNCHANGED vars
    OBVIOUS
  <2>1. TypeOK /\ TrafficInv /\ PhaseInv
    BY DEF StationSystemInv, SystemInv, StationInv
  <2>2. ASSUME NEW k \in 0..MaxCount, Loading, Fetching(k), ServeMissionItem(k)
        PROVE  Authorized
    <3> DEFINE m == MissionItemToPx4(k, Expected[k + 1])
    <3>1. /\ Expected \in Seq(Items) /\ k \in Nat /\ k < Len(Expected)
          /\ mission_revisions.proposed # None
          /\ mission_revisions.proposed.mission.items = Expected
      BY <2>1, <2>2, ExpectedType, GatewayAssumption DEF Loading, Fetching, MissionOf
    <3>2. Len(mission_upload.items) = Len(Expected)
          /\ mission_upload.items[k + 1] = Expected[k + 1] /\ mission_upload.received[k + 1]
      BY <2>2, <3>1 DEF Loading, Holds
    <3>3. px4_out' = {m}
      BY <2>2, <3>1, <3>2 DEF ServeMissionItem, StoredItem, stored_seq
    <3>4. m.seq = k /\ m.payload = Expected[k + 1]
      BY DEF MissionItemToPx4
    <3> QED BY <3>1, <3>3, <3>4
  <2>3. ASSUME NEW m \in to_gcs, NEW sent \in SendResults,
               AllowMission(m.to, ItemFrame(m), sent)
        PROVE  Authorized
    BY <2>3 DEF AllowMission, MissionCountToPx4
  <2> QED BY <2>1, <2>2, <2>3, WhatPx4IsSent
<1> QED BY <1>1, StationInvHolds, PTL DEF SystemSpec, ServedItemIsAuthorized

\* What a message does to PX4 is a step of the service, or none.
LEMMA ReadingIsService ==
  ASSUME SingleStation, TypeOK, TrafficInv, PhaseInv, Px4Receives
  PROVE  \/ Service!Erase \/ (\E g \in Gcs : Service!Take(g))
         \/ UNCHANGED <<asked, answer, px4_mission>>
<1>1. UNCHANGED <<asked, answer>>
  BY DEF Px4Receives, stations
<1>2. CASE px4_mission' = <<>>
  BY <1>1, <1>2 DEF Service!Erase
<1>3. CASE Loading /\ px4_mission' = Expected
  <2>1. station \in Gcs /\ Expected # None /\ Expected # <<>>
    BY <1>3, ExpectedType DEF Loading
  <2>2. Service!Take(station)
    BY <1>1, <1>3, <2>1 DEF Service!Take, Expected
  <2> QED BY <2>1, <2>2
<1>4. CASE UNCHANGED px4_mission
  BY <1>1, <1>4
<1> QED BY <1>2, <1>3, <1>4, ReadingOfPx4

\* An answer is an acceptance by the service, or a refusal.
LEMMA AnswerIsService ==
  ASSUME SingleStation, TrafficInv, PhaseInv, NEW ack \in to_gcs, ReceiveAck(ack)
  PROVE  \E g \in Gcs : Service!Accept(g) \/ Service!Refuse(g)
<1>1. /\ Answered(ack) /\ ack.to = station
      /\ ack.result \in {"ACCEPTED", "DENIED", "ERROR"}
  BY AnswerSays DEF ReceiveAck
<1>2. /\ station \in Gcs /\ asked[station] # None
      /\ asked' = [asked EXCEPT ![station] = None]
      /\ answer' = [answer EXCEPT ![station] = ack.result]
      /\ UNCHANGED px4_mission
  BY <1>1, ExpectedType DEF ReceiveAck, AnswersUpload, px4
<1>3. CASE ack.result = "ACCEPTED"
  <2>1. px4_mission = asked[station] /\ px4_mission # <<>>
    BY <1>1, <1>2, <1>3 DEF Answered, Expected
  <2> QED BY <1>2, <1>3, <2>1 DEF Service!Accept
<1>4. CASE ack.result \in {"DENIED", "ERROR"}
  BY <1>2, <1>4 DEF Service!Refuse, Service!Refusals
<1> QED BY <1>1, <1>3, <1>4

\* The closed system implements the service: a station that is told ACCEPTED
\* asked for the mission PX4 holds at that moment, whatever was lost, denied,
\* refused or repeated before.
THEOREM SystemImplementsService ==
  ASSUME SingleStation
  PROVE  SystemSpec => ServiceSpec
<1>1. SystemInit => Service!ServiceInit
  BY DEF SystemInit, Service!ServiceInit
<1>2. StationSystemInv /\ [SystemNext]_system_vars
        => [Service!ServiceNext]_(Service!service_vars)
  <2> SUFFICES ASSUME StationSystemInv, [SystemNext]_system_vars
               PROVE  Service!ServiceNext \/ UNCHANGED Service!service_vars
    OBVIOUS
  <2>1. TypeOK /\ TrafficInv /\ PhaseInv
    BY DEF StationSystemInv, SystemInv, StationInv
  <2>2. ASSUME UNCHANGED <<asked, answer, px4_mission>>
        PROVE  UNCHANGED Service!service_vars
    BY <2>2 DEF Service!service_vars
  <2>3. ASSUME NEW g \in Gcs, NEW plan \in Plans, Ask(g, plan)
        PROVE  Service!Ask(g)
    BY <2>3 DEF Ask, Service!Ask, px4
  <2>4. ASSUME NEW g \in Gcs,
               RetryUpload(g) \/ RetryEarly(g) \/ ClearMission(g) \/ GiveUpErasure(g)
        PROVE  UNCHANGED Service!service_vars
    BY <2>2, <2>4 DEF RetryUpload, RetryEarly, ClearMission, GiveUpErasure, stations, px4
  <2>5. ASSUME NEW g \in Gcs, NEW seq \in 0..MaxCount, RepeatItem(g, seq)
        PROVE  UNCHANGED Service!service_vars
    BY <2>2, <2>5 DEF RepeatItem, stations, px4
  <2>6. ASSUME NEW m \in to_gcs, SendItem(m) \/ ReceiveErasure(m) \/ Discard(m) \/ Lose(m)
        PROVE  UNCHANGED Service!service_vars
    BY <2>2, <2>6 DEF SendItem, ReceiveErasure, Discard, Lose, stations, px4
  <2>7. CASE GatewayOwnStep \/ Px4Retries \/ Px4Loses \/ UNCHANGED system_vars
    BY <2>2, <2>7 DEF GatewayOwnStep, HandlePx4Message, RelayPx4Message, ReceiveTelemetry,
                      FinishIteration, Restart, Px4Retries, Px4Loses, system_vars, stations,
                      px4
  <2>8. CASE Px4Receives
    BY <2>1, <2>2, <2>8, ReadingIsService DEF Service!ServiceNext
  <2> QED BY <2>1, <2>3, <2>4, <2>5, <2>6, <2>7, <2>8, AnswerIsService
          DEF SystemNext, StationStep, Px4OwnStep, StartUpload, StartUploadLost,
              Service!ServiceNext
<1> QED BY <1>1, <1>2, StationInvHolds, PTL DEF SystemSpec, ServiceSpec, Service!ServiceSpec

\* The contents PX4 has taken are those of the lineage, and last that of the
\* pending proposal if its acceptance is on its way, or was lost.
LEMMA LoadedAreCommitted ==
  ASSUME SingleStation, TypeOK, LineageInv, TrafficInv, PhaseInv, LoadsAreCommits
  PROVE  LET n == Len(Committed) IN
         /\ DOMAIN LoadedContents \subseteq 1..(n + 1)
         /\ \A i \in 1..n : LoadedContents[i] = CommittedContents[i]
         /\ n + 1 \in DOMAIN LoadedContents =>
              PendingContent # None /\ LoadedContents[n + 1] = PendingContent
<1> DEFINE n == Len(Committed)
<1>1. /\ n \in Nat /\ Committed \in Seq(Revisions) /\ px4_loads \in Seq(Seq(Items))
      /\ DOMAIN LoadedContents = 1..Len(px4_loads)
  BY CommittedType DEF LoadsAreCommits, LoadedContents
<1>2. Len(px4_loads) = n \/ Len(px4_loads) = n + 1
  BY DEF LoadsAreCommits
<1>3. ASSUME NEW i \in 1..n
      PROVE  LoadedContents[i] = CommittedContents[i]
  <2>1. Committed[i].mission = MissionOf(px4_loads[i]) /\ Committed[i] \in Revisions
    BY <1>1 DEF LoadsAreCommits
  <2>2. Committed[i].hash = compute_mission_hash(MissionOf(px4_loads[i]))
    BY <2>1 DEF Revisions
  <2>3. LoadedContents[i] = compute_mission_hash(MissionOf(px4_loads[i]))
    BY <1>1, <1>2 DEF LoadedContents
  <2> QED BY <2>2, <2>3, CommittedType
<1>4. ASSUME n + 1 \in DOMAIN LoadedContents
      PROVE  PendingContent # None /\ LoadedContents[n + 1] = PendingContent
  <2>1. Len(px4_loads) = n + 1
    BY <1>1, <1>2, <1>4
  <2>2. Loading
    <3>1. Hung => Loading
      BY DEF Hung, PhaseInv, Silent, Clearing, Collecting, Answered
    <3>2. from_px4 = Acceptance \/ Hung
      BY <2>1 DEF LoadsAreCommits, Acceptance
    <3> QED BY <3>1, <3>2, WhatPx4Says, AcceptanceIsOne
  <2>3. px4_loads[n + 1] = Expected
    BY <2>1 DEF LoadsAreCommits
  <2>4. LoadedContents[n + 1] = compute_mission_hash(MissionOf(Expected))
    BY <1>1, <1>4, <2>3 DEF LoadedContents
  <2>5. mission_revisions.proposed \in Revisions
    BY <2>2 DEF Loading, TypeOK, TrackerStates, OptionalRevision
  <2>6. mission_revisions.proposed.hash = compute_mission_hash(MissionOf(Expected))
    BY <2>2, <2>5 DEF Loading, Revisions
  <2>7. PendingContent = mission_revisions.proposed.hash
    BY <2>2 DEF Loading, PendingContent
  <2>8. PendingContent # None
    BY <2>5, <2>7, NoneAssumption DEF Revisions
  <2> QED BY <2>4, <2>6, <2>7, <2>8
<1> QED BY <1>1, <1>2, <1>3, <1>4

\* The missions PX4 takes never return to content another has replaced: the
\* promise the gateway keeps about its ledger reaches the vehicle
\* (mission_revision_causality.cpp:76-84).
THEOREM VehicleNeverReturns ==
  ASSUME SingleStation
  PROVE  SystemSpec => []Px4NeverReturns
<1>1. StationSystemInv /\ LedgerProofs!LedgerInv => Px4NeverReturns
  <2> SUFFICES ASSUME StationSystemInv, LedgerProofs!LedgerInv,
                      NEW i \in DOMAIN LoadedContents, NEW j \in DOMAIN LoadedContents,
                      NEW k \in DOMAIN LoadedContents,
                      i < j, j < k, LoadedContents[i] = LoadedContents[k]
               PROVE  LoadedContents[j] = LoadedContents[i]
    BY DEF Px4NeverReturns, Vehicle!NoReturn
  <2> DEFINE n == Len(Committed)
             loaded == LoadedContents
             ledger == CommittedContents
  <2>1. TypeOK /\ LineageInv /\ TrafficInv /\ PhaseInv /\ LoadsAreCommits
    BY DEF StationSystemInv, SystemInv, StationInv
  <2>2. n \in Nat /\ DOMAIN ledger = 1..n /\ Len(ledger) = n /\ ledger \in Seq(Contents)
    BY <2>1, CommittedType
  <2>3. /\ DOMAIN loaded \subseteq 1..(n + 1)
        /\ \A l \in 1..n : loaded[l] = ledger[l]
        /\ n + 1 \in DOMAIN loaded => PendingContent # None /\ loaded[n + 1] = PendingContent
    BY <2>1, LoadedAreCommitted
  <2>4. \A a, b, c \in 1..n : a < b /\ b < c /\ ledger[a] = ledger[c] => ledger[b] = ledger[a]
    BY <2>2 DEF LedgerProofs!LedgerInv, LedgerProofs!NoReturn
  <2>5. PendingContent # None =>
          \/ ledger # <<>> /\ ledger[n] = PendingContent
          \/ \A l \in 1..n : ledger[l] # PendingContent
    BY <2>2 DEF LedgerProofs!LedgerInv, LedgerProofs!Superseded
  <2>6. i \in 1..n /\ j \in 1..n /\ k \in 1..(n + 1)
    BY <2>2, <2>3
  <2> HIDE DEF n, loaded, ledger
  <2>7. loaded[i] = loaded[k] /\ i < j /\ j < k
    BY DEF loaded
  <2>8. CASE k \in 1..n
    BY <2>3, <2>4, <2>6, <2>7, <2>8 DEF loaded
  <2>9. CASE k = n + 1
    <3>1. ledger[i] = PendingContent /\ PendingContent # None
      <4>1. k \in DOMAIN loaded
        BY DEF loaded
      <4> QED BY <2>3, <2>6, <2>7, <2>9, <4>1
    <3>2. ledger[n] = PendingContent
      BY <2>5, <2>6, <3>1
    <3>3. ledger[j] = ledger[i]
      BY <2>2, <2>4, <2>6, <2>7, <3>1, <3>2
    <3> QED BY <2>3, <2>6, <3>3 DEF loaded
  <2> QED BY <2>2, <2>6, <2>8, <2>9
<1>2. SystemSpec => Spec
  BY SystemIsGateway DEF SingleStation
<1> QED BY <1>1, <1>2, LedgerInvHolds, StationInvHolds, PTL

=============================================================================
