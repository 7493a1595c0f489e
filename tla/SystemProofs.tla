---------------------------- MODULE SystemProofs ----------------------------
(***************************************************************************)
(* The closed system GatewaySystem and the gateway in an open environment, *)
(* for every value of the constants: what the stations, the network and    *)
(* PX4 do to the gateway is a behaviour of Gateway, up to restarts.  And a *)
(* revision is committed for a mission PX4 has taken, once for each: every *)
(* acceptance of PX4 that is on its way or was turned into a commit belongs*)
(* to a mission PX4 has taken.                                             *)
(***************************************************************************)
EXTENDS GatewaySystem, GatewayProofs, FiniteSetTheorems

-----------------------------------------------------------------------------
(* What is on its way                                                       *)

OfferedCounts == [type: {"MISSION_COUNT"}, count: 0..MaxCount]
ServedItems ==
  [type: {"MISSION_ITEM_INT"}, seq: Nat, payload: Items \cup {BlankItem}]
ClearRequests == [type: {"MISSION_CLEAR_ALL"}, from: Gcs]
ToPx4 == OfferedCounts \cup ServedItems \cup ClearRequests
Px4Requests == [type: {"MISSION_REQUEST_INT"}, seq: 0..MaxCount]
Px4Acks ==
  [type: {"MISSION_ACK"}, result: {"ACCEPTED", "ERROR"}, target: Gcs \cup {"DRACO"}]
Loads == [count: 0..MaxCount, items: Seq(Items \cup {BlankItem})]
Transfers == {transfer \in Loads : Len(transfer.items) < transfer.count}

ReachStations(messages) ==
  \A m \in messages : m.type = "MISSION_REQUEST_INT" => m.to \in Gcs

\* Announced counts stay within the bound on their way from a station through
\* the gateway to PX4, PX4 asks for nothing beyond them, and only stations are
\* asked for items.
TrafficInv ==
  /\ mission_upload.expected_count \in 0..MaxCount
  /\ asked \in [Gcs -> Plans \cup {None}]
  /\ ReachStations(to_gcs)
  /\ to_px4 \in Seq(ToPx4)
  /\ from_px4 \in Seq(Px4Requests \cup Px4Acks)
  /\ px4_transfer \in Transfers \cup {None}
  /\ restarts \in Nat

\* Nothing is on its way at first.
LEMMA TrafficInit == SystemInit => TrafficInv
BY SystemAssumption, GatewayAssumption
DEF SystemInit, Init, TrafficInv, NoUpload, ReachStations

\* What a step of the gateway sends, and what it makes of the announced count.
LEMMA GatewaySends ==
  ASSUME TypeOK, mission_upload.expected_count \in 0..MaxCount, Next
  PROVE  /\ px4_out' \subseteq ToPx4
         /\ ReachStations(gcs_out')
         /\ mission_upload'.expected_count \in 0..MaxCount
<1> USE GatewayAssumption DEF ReachStations
<1>1. ASSUME NEW g \in Gcs, NEW count \in 0..MaxCount, HandleMissionCount(g, count)
      PROVE  /\ px4_out' = {} /\ ReachStations(gcs_out')
             /\ mission_upload'.expected_count \in 0..MaxCount
  BY <1>1 DEF HandleMissionCount, MissionRequest, start_mission_upload
<1>2. ASSUME NEW item \in ItemFrames
      PROVE  store_mission_item(mission_upload, item).expected_count
               = mission_upload.expected_count
  BY StoreKeepsActive DEF TypeOK
<1>3. ASSUME NEW g \in Gcs, NEW item \in ItemFrames, BufferMissionItem(g, item)
      PROVE  /\ px4_out' = {} /\ ReachStations(gcs_out')
             /\ mission_upload'.expected_count \in 0..MaxCount
  BY <1>2, <1>3 DEF BufferMissionItem, MissionRequest
<1>4. ASSUME NEW g \in Gcs, NEW item \in ItemFrames, DenyMission(g, item)
      PROVE  /\ px4_out' = {} /\ ReachStations(gcs_out')
             /\ mission_upload'.expected_count \in 0..MaxCount
  <2>1. store_mission_item(mission_upload, item) \in MissionUploadTransaction
    BY StoreType DEF TypeOK
  <2> QED BY <1>2, <1>4, <2>1 DEF DenyMission, MissionAck, MissionUploadTransaction
<1>5. ASSUME NEW g \in Gcs, NEW item \in ItemFrames, NEW sent \in SendResults,
             AllowMission(g, item, sent)
      PROVE  /\ px4_out' \subseteq ToPx4 /\ gcs_out' = {}
             /\ mission_upload'.expected_count \in 0..MaxCount
  BY <1>2, <1>5 DEF AllowMission, MissionCountToPx4, ToPx4, OfferedCounts
<1>6. ASSUME NEW seq \in 0..MaxCount, ServeMissionItem(seq)
      PROVE  px4_out' \subseteq ToPx4 /\ gcs_out' = {} /\ UNCHANGED mission_upload
  <2>1. seq < Len(mission_upload.items) =>
          mission_upload.items[seq + 1] \in Items \cup {BlankItem}
    BY DEF TypeOK, MissionUploadTransaction
  <2> QED BY <1>6, <2>1
          DEF ServeMissionItem, StoredItem, stored_seq, MissionItemToPx4, ToPx4,
              ServedItems, session
<1>7. ASSUME NEW result, FinishPx4Upload(result)
      PROVE  /\ px4_out' = {} /\ ReachStations(gcs_out')
             /\ mission_upload'.expected_count \in 0..MaxCount
  BY <1>7 DEF FinishPx4Upload, MissionAck, TypeOK, MissionUploadTransaction
<1>8. CASE px4_out' = {} /\ gcs_out' = {} /\ UNCHANGED session
  BY <1>8 DEF session
<1> QED BY <1>1, <1>3, <1>4, <1>5, <1>6, <1>7, <1>8
        DEF Next, GcsStep, Px4Step, RelayGcsDatagram, CommitRevision, RejectRevision,
            HandleTelemetry, NoPx4Message, RecvFailed, Tick

\* What is sent joins what is on its way.
LEMMA SendKeepsTraffic ==
  ASSUME NEW gcs_in_flight, ReachStations(gcs_in_flight), ReachStations(gcs_out'),
         NEW px4_in_flight \in Seq(ToPx4), px4_out' \subseteq ToPx4,
         Send(gcs_in_flight, px4_in_flight)
  PROVE  ReachStations(to_gcs') /\ to_px4' \in Seq(ToPx4)
<1>1. ReachStations(to_gcs')
  BY DEF Send, ReachStations
<1>2. to_px4' \in Seq(ToPx4)
  <2>1. CASE px4_out' = {}
    BY <2>1 DEF Send
  <2>2. CASE px4_out' # {}
    <3>1. (CHOOSE m \in px4_out' : TRUE) \in ToPx4
      BY <2>2
    <3> QED BY <2>2, <3>1 DEF Send
  <2> QED BY <2>1, <2>2
<1> QED BY <1>1, <1>2

-----------------------------------------------------------------------------
(* Every step of the system is one of the gateway, or leaves it alone       *)

\* The item a station is asked for is an item of a mission.
LEMMA ItemFrameType ==
  ASSUME TrafficInv, NEW request \in to_gcs, ForUpload(request)
  PROVE  request.to \in Gcs /\ ItemFrame(request) \in ItemFrames
<1>1. request.to \in Gcs
  BY DEF TrafficInv, ReachStations, ForUpload
<1>2. /\ asked[request.to] \in Seq(Items) /\ Len(asked[request.to]) <= MaxCount
      /\ request.seq \in 0..(Len(asked[request.to]) - 1)
  BY <1>1, SystemAssumption DEF TrafficInv, ForUpload
<1>3. request.seq \in 0..MaxCount /\ asked[request.to][request.seq + 1] \in Items
  BY <1>2, GatewayAssumption
<1> QED BY <1>1, <1>3 DEF ItemFrame, ItemFrames, MissionTypes

\* So is the one it repeats.
LEMMA RepeatedFrameType ==
  ASSUME TrafficInv, NEW g \in Gcs, NEW seq \in 0..MaxCount, RepeatItem(g, seq)
  PROVE  ItemFrame(MissionRequest(seq, "MISSION", g)) \in ItemFrames
<1>1. asked[g] \in Seq(Items) /\ seq < Len(asked[g]) /\ seq \in Nat
  BY SystemAssumption, GatewayAssumption DEF TrafficInv, RepeatItem
<1>2. asked[g][seq + 1] \in Items
  BY <1>1
<1> QED BY <1>2 DEF ItemFrame, ItemFrames, MissionRequest, MissionTypes

\* A station's step, other than reading or losing what it was sent, is one of
\* the gateway's.
LEMMA StationIsGateway ==
  ASSUME TrafficInv, StationStep
  PROVE  Next \/ UNCHANGED vars
<1> USE DEF Next, GcsStep
<1>1. ASSUME NEW g \in Gcs, NEW plan \in Plans, StartUpload(g, plan)
      PROVE  Next
  <2>1. Len(plan) \in 0..MaxCount
    BY SystemAssumption, GatewayAssumption
  <2> QED BY <1>1, <2>1 DEF StartUpload
<1>2. ASSUME NEW g \in Gcs, RetryUpload(g)
      PROVE  Next
  <2>1. Len(asked[g]) \in 0..MaxCount
    BY <1>2, SystemAssumption, GatewayAssumption DEF RetryUpload, TrafficInv
  <2> QED BY <1>2, <2>1 DEF RetryUpload
<1>3. ASSUME NEW g \in Gcs, ClearMission(g)
      PROVE  Next
  BY <1>3 DEF ClearMission
<1>4. ASSUME NEW m \in to_gcs, SendItem(m)
      PROVE  Next
  BY <1>4, ItemFrameType DEF SendItem
<1>5. ASSUME NEW g \in Gcs, RetryEarly(g)
      PROVE  Next
  <2>1. Len(asked[g]) \in 0..MaxCount
    BY <1>5, SystemAssumption, GatewayAssumption DEF RetryEarly, TrafficInv
  <2> QED BY <1>5, <2>1 DEF RetryEarly
<1>6. ASSUME NEW g \in Gcs, NEW seq \in 0..MaxCount, RepeatItem(g, seq)
      PROVE  Next
  BY <1>6, RepeatedFrameType DEF RepeatItem
<1> QED BY <1>1, <1>2, <1>3, <1>4, <1>5, <1>6
        DEF StationStep, StartUploadLost, GiveUpErasure, ReceiveAck, ReceiveErasure,
            Discard, Lose

\* What the gateway reads from PX4 is a message of PX4.
LEMMA HeadFromPx4 ==
  ASSUME TrafficInv, from_px4 # <<>>
  PROVE  Head(from_px4) \in Px4Requests \cup Px4Acks
         /\ Tail(from_px4) \in Seq(Px4Requests \cup Px4Acks)
BY DEF TrafficInv

\* What the gateway does with a message of PX4.
LEMMA Px4MessageIsGateway ==
  ASSUME TrafficInv, HandlePx4Message
  PROVE  Next
<1> DEFINE m == Head(from_px4)
<1>1. m \in Px4Requests \cup Px4Acks
  BY HeadFromPx4 DEF HandlePx4Message
<1>2. ASSUME m.type = "MISSION_REQUEST_INT", ServeMissionItem(m.seq)
      PROVE  Next
  <2>1. m.seq \in 0..MaxCount
    BY <1>1, <1>2 DEF Px4Requests, Px4Acks
  <2> QED BY <1>2, <2>1 DEF Next, Px4Step
<1>3. ASSUME m.type = "MISSION_ACK", RejectRevision(m.result)
      PROVE  Next
  <2>1. m.result \in {"ACCEPTED", "ERROR"}
    BY <1>1, <1>3 DEF Px4Requests, Px4Acks
  <2> QED BY <1>3, <2>1 DEF Next, Px4Step
<1> QED BY <1>2, <1>3 DEF HandlePx4Message, Next, Px4Step

\* The gateway's own steps, a restart apart.
LEMMA OwnStepIsGateway ==
  ASSUME TrafficInv, GatewayOwnStep
  PROVE  Next \/ Restart
BY Px4MessageIsGateway
DEF GatewayOwnStep, RelayPx4Message, ReceiveTelemetry, FinishIteration, Next, Px4Step

\* A step of the system is a step of the gateway, none of it, or a restart.
LEMMA SystemStepIsGateway ==
  ASSUME TrafficInv, [SystemNext]_system_vars
  PROVE  [Next]_vars \/ Restart
<1>1. CASE Px4OwnStep
  BY <1>1 DEF Px4OwnStep, Px4Receives, Px4Retries, Px4Loses
<1> QED BY <1>1, StationIsGateway, OwnStepIsGateway DEF SystemNext, system_vars

-----------------------------------------------------------------------------
(* The traffic invariant is inductive                                       *)

\* PX4 makes of what it receives a transfer within the announced count.
LEMMA ContinueKeepsTraffic ==
  ASSUME NEW transfer \in Loads, Continue(transfer),
         from_px4 \in Seq(Px4Requests \cup Px4Acks)
  PROVE  /\ px4_transfer' \in Transfers \cup {None}
         /\ from_px4' \in Seq(Px4Requests \cup Px4Acks)
<1>1. CASE Len(transfer.items) < transfer.count
  <2>1. Len(transfer.items) \in 0..MaxCount
    BY <1>1, GatewayAssumption DEF Loads
  <2>2. Px4Request(Len(transfer.items)) \in Px4Requests
    BY <2>1 DEF Px4Request, Px4Requests
  <2>3. /\ px4_transfer' = transfer
        /\ from_px4' = Append(from_px4, Px4Request(Len(transfer.items)))
    BY <1>1 DEF Continue
  <2> QED BY <1>1, <2>2, <2>3 DEF Transfers
<1>2. CASE ~(Len(transfer.items) < transfer.count)
  <2>1. Px4Ack("ACCEPTED", "DRACO") \in Px4Acks
    BY DEF Px4Ack, Px4Acks
  <2>2. px4_transfer' = None /\ from_px4' = Append(from_px4, Px4Ack("ACCEPTED", "DRACO"))
    BY <1>2 DEF Continue
  <2> QED BY <2>1, <2>2
<1> QED BY <1>1, <1>2

\* A refusal ends the transfer.
LEMMA RefuseKeepsTraffic ==
  ASSUME RefuseTransfer, from_px4 \in Seq(Px4Requests \cup Px4Acks)
  PROVE  /\ px4_transfer' \in Transfers \cup {None}
         /\ from_px4' \in Seq(Px4Requests \cup Px4Acks)
<1>1. Px4Ack("ERROR", "DRACO") \in Px4Acks
  BY DEF Px4Ack, Px4Acks
<1> QED BY <1>1 DEF RefuseTransfer

\* PX4 receiving a message.
LEMMA Px4ReceivesKeepsTraffic ==
  ASSUME TrafficInv, Px4Receives
  PROVE  TrafficInv'
<1> DEFINE m == Head(to_px4)
<1>1. m \in ToPx4 /\ to_px4' \in Seq(ToPx4)
  BY DEF Px4Receives, TrafficInv
<1>2. mission_upload' = mission_upload /\ asked' = asked /\ to_gcs' = to_gcs
      /\ restarts' = restarts
  BY DEF Px4Receives, vars, session, stations, faults
<1>3. /\ px4_transfer' \in Transfers \cup {None}
      /\ from_px4' \in Seq(Px4Requests \cup Px4Acks)
  <2>1. CASE Px4ReceivesCount(m)
    <3>1. m.count \in 0..MaxCount
      BY <1>1, <2>1 DEF Px4ReceivesCount, ToPx4, OfferedCounts, ServedItems, ClearRequests
    <3>2. [count |-> m.count, items |-> <<>>] \in Loads
      BY <3>1 DEF Loads
    <3> QED BY <2>1, <3>2, ContinueKeepsTraffic, RefuseKeepsTraffic
            DEF Px4ReceivesCount, TrafficInv
  <2>2. CASE Px4ReceivesItem(m)
    <3>1. CASE Continue([px4_transfer EXCEPT !.items = Append(@, m.payload)])
      <4>1. m.payload \in Items \cup {BlankItem}
        BY <1>1, <2>2 DEF Px4ReceivesItem, ToPx4, OfferedCounts, ServedItems, ClearRequests
      <4>2. px4_transfer \in Loads
        BY <2>2 DEF Px4ReceivesItem, Px4Expects, TrafficInv, Transfers
      <4>3. Append(px4_transfer.items, m.payload) \in Seq(Items \cup {BlankItem})
        BY <4>1, <4>2 DEF Loads
      <4>4. [px4_transfer EXCEPT !.items = Append(@, m.payload)] \in Loads
        BY <4>2, <4>3 DEF Loads
      <4> QED BY <3>1, <4>4, ContinueKeepsTraffic DEF TrafficInv
    <3> QED BY <2>2, <3>1, RefuseKeepsTraffic DEF Px4ReceivesItem, TrafficInv
  <2>3. CASE Px4Clears(m)
    <3>1. m.from \in Gcs
      BY <1>1, <2>3 DEF Px4Clears, ToPx4, OfferedCounts, ServedItems, ClearRequests
    <3>2. Px4Ack("ACCEPTED", m.from) \in Px4Acks
      BY <3>1 DEF Px4Ack, Px4Acks
    <3> QED BY <2>3, <3>2 DEF Px4Clears, TrafficInv
  <2>4. CASE Px4Ignores(m)
    BY <2>4 DEF Px4Ignores, px4, TrafficInv
  <2> QED BY <2>1, <2>2, <2>3, <2>4 DEF Px4Receives
<1> QED BY <1>1, <1>2, <1>3 DEF TrafficInv

\* A step of the gateway that sends.
LEMMA GatewayKeepsTraffic ==
  ASSUME TypeOK, TrafficInv, Next,
         NEW gcs_in_flight \in SUBSET to_gcs, Send(gcs_in_flight, to_px4),
         asked' \in [Gcs -> Plans \cup {None}],
         from_px4' \in Seq(Px4Requests \cup Px4Acks),
         UNCHANGED <<px4, restarts>>
  PROVE  TrafficInv'
<1>1. /\ px4_out' \subseteq ToPx4 /\ ReachStations(gcs_out')
      /\ mission_upload'.expected_count \in 0..MaxCount
  BY GatewaySends DEF TrafficInv
<1>2. ReachStations(gcs_in_flight)
  BY DEF TrafficInv, ReachStations
<1>3. ReachStations(to_gcs') /\ to_px4' \in Seq(ToPx4)
  BY <1>1, <1>2, SendKeepsTraffic DEF TrafficInv
<1> QED BY <1>1, <1>3 DEF TrafficInv, px4

\* Every step keeps the traffic within bounds.
LEMMA TrafficStep == TypeOK /\ TrafficInv /\ [SystemNext]_system_vars => TrafficInv'
<1> SUFFICES ASSUME TypeOK, TrafficInv, [SystemNext]_system_vars PROVE TrafficInv'
  OBVIOUS
<1>1. ASSUME NEW g \in Gcs, NEW plan \in Plans, StartUpload(g, plan)
      PROVE  TrafficInv'
  <2>1. Next
    <3>1. Len(plan) \in 0..MaxCount
      BY SystemAssumption, GatewayAssumption
    <3> QED BY <1>1, <3>1 DEF StartUpload, Next, GcsStep
  <2>2. asked' \in [Gcs -> Plans \cup {None}]
    BY <1>1 DEF StartUpload, Ask, TrafficInv
  <2>3. Send(to_gcs, to_px4) /\ from_px4' = from_px4 /\ UNCHANGED <<px4, restarts>>
    BY <1>1 DEF StartUpload, Ask
  <2> QED BY <2>1, <2>2, <2>3, GatewayKeepsTraffic DEF TrafficInv
<1>2. ASSUME NEW g \in Gcs, NEW plan \in Plans, StartUploadLost(g, plan)
      PROVE  TrafficInv'
  <2>1. asked' \in [Gcs -> Plans \cup {None}]
    BY <1>2 DEF StartUploadLost, Ask, TrafficInv
  <2> QED BY <1>2, <2>1
          DEF StartUploadLost, Ask, TrafficInv, vars, session, px4
<1>3. ASSUME NEW g \in Gcs, RetryUpload(g)
      PROVE  TrafficInv'
  <2>1. Next
    <3>1. Len(asked[g]) \in 0..MaxCount
      BY <1>3, SystemAssumption, GatewayAssumption DEF RetryUpload, TrafficInv
    <3> QED BY <1>3, <3>1 DEF RetryUpload, Next, GcsStep
  <2> QED BY <1>3, <2>1, GatewayKeepsTraffic
          DEF RetryUpload, TrafficInv, stations, faults
<1>4. ASSUME NEW g \in Gcs, ClearMission(g)
      PROVE  TrafficInv'
  <2>1. MissionClearAll(g) \in ToPx4
    BY DEF MissionClearAll, ToPx4, ClearRequests
  <2>2. to_px4' \in Seq(ToPx4)
    BY <1>4, <2>1 DEF ClearMission, TrafficInv
  <2> QED BY <1>4, <2>2
          DEF ClearMission, RelayGcsDatagram, TrafficInv, session, stations, px4, faults
<1>5. ASSUME NEW m \in to_gcs, SendItem(m)
      PROVE  TrafficInv'
  <2>1. Next
    BY <1>5, ItemFrameType DEF SendItem, Next, GcsStep
  <2> QED BY <1>5, <2>1, GatewayKeepsTraffic
          DEF SendItem, TrafficInv, stations, faults
<1>6. ASSUME NEW m \in to_gcs,
             ReceiveAck(m) \/ ReceiveErasure(m) \/ Discard(m) \/ Lose(m)
      PROVE  TrafficInv'
  <2>1. asked' \in [Gcs -> Plans \cup {None}]
    BY <1>6 DEF ReceiveAck, ReceiveErasure, Discard, Lose, stations, TrafficInv
  <2> QED BY <1>6, <2>1
          DEF ReceiveAck, ReceiveErasure, Discard, Lose, TrafficInv, ReachStations, vars,
              session, px4, faults
<1>7. CASE HandlePx4Message
  <2>1. Next
    BY <1>7, Px4MessageIsGateway
  <2>2. from_px4' \in Seq(Px4Requests \cup Px4Acks)
    BY <1>7, HeadFromPx4 DEF HandlePx4Message
  <2> QED BY <1>7, <2>1, <2>2, GatewayKeepsTraffic
          DEF HandlePx4Message, TrafficInv, stations, faults
<1>8. CASE ReceiveTelemetry \/ FinishIteration
  BY <1>8 DEF ReceiveTelemetry, FinishIteration, HandleTelemetry, NoPx4Message,
              RecvFailed, TrafficInv, session, stations, px4, faults
<1>14. CASE RelayPx4Message
  <2>1. ReachStations(to_gcs')
    BY <1>14 DEF RelayPx4Message, TrafficInv, ReachStations, MissionAck
  <2>2. from_px4' \in Seq(Px4Requests \cup Px4Acks)
    BY <1>14, HeadFromPx4 DEF RelayPx4Message
  <2> QED BY <1>14, <2>1, <2>2
          DEF RelayPx4Message, NoPx4Message, TrafficInv, session, stations, px4, faults
<1>15. ASSUME NEW g \in Gcs, RetryEarly(g)
       PROVE  TrafficInv'
  <2>1. Next
    <3>1. Len(asked[g]) \in 0..MaxCount
      BY <1>15, SystemAssumption, GatewayAssumption DEF RetryEarly, TrafficInv
    <3> QED BY <1>15, <3>1 DEF RetryEarly, Next, GcsStep
  <2> QED BY <1>15, <2>1, GatewayKeepsTraffic DEF RetryEarly, TrafficInv, stations
<1>16. ASSUME NEW g \in Gcs, NEW seq \in 0..MaxCount, RepeatItem(g, seq)
       PROVE  TrafficInv'
  <2>1. Next
    BY <1>16, RepeatedFrameType DEF RepeatItem, Next, GcsStep
  <2> QED BY <1>16, <2>1, GatewayKeepsTraffic DEF RepeatItem, TrafficInv, stations
<1>17. ASSUME NEW g \in Gcs, GiveUpErasure(g)
       PROVE  TrafficInv'
  BY <1>17 DEF GiveUpErasure, TrafficInv, vars, session, px4, faults
<1>9. CASE Restart
  BY <1>9, GatewayAssumption DEF Restart, NoUpload, TrafficInv, stations, px4
<1>10. CASE Px4Receives
  BY <1>10, Px4ReceivesKeepsTraffic
<1>11. CASE Px4Retries
  <2>1. Px4Request(Len(px4_transfer.items)) \in Px4Requests
    BY <1>11, GatewayAssumption
    DEF Px4Retries, TrafficInv, Transfers, Loads, Px4Request, Px4Requests
  <2> QED BY <1>11, <2>1 DEF Px4Retries, TrafficInv, vars, session, stations, px4, faults
<1>12. CASE Px4Loses
  <2>1. to_px4 # <<>> => Tail(to_px4) \in Seq(ToPx4)
    BY DEF TrafficInv
  <2>2. to_px4' \in Seq(ToPx4) /\ from_px4' \in Seq(Px4Requests \cup Px4Acks)
    BY <1>12, <2>1, HeadFromPx4 DEF Px4Loses, TrafficInv
  <2>3. UNCHANGED <<mission_upload, asked, to_gcs, px4_transfer, restarts>>
    BY <1>12 DEF Px4Loses, vars, session, stations, px4
  <2> QED BY <2>2, <2>3 DEF TrafficInv
<1>13. CASE UNCHANGED system_vars
  BY <1>13 DEF system_vars, TrafficInv, vars, session, stations, px4, faults
<1> QED BY <1>1, <1>2, <1>3, <1>4, <1>5, <1>6, <1>7, <1>8, <1>9, <1>10, <1>11, <1>12,
           <1>13, <1>14, <1>15, <1>16, <1>17
        DEF SystemNext, StationStep, GatewayOwnStep, Px4OwnStep

-----------------------------------------------------------------------------
(* Theorems                                                                 *)

\* A restart puts the gateway into a state of the type, with no upload.
LEMMA RestartInv == TypeOK /\ Restart => TypeOK' /\ SessionInv'
<1> SUFFICES ASSUME TypeOK, Restart PROVE TypeOK' /\ SessionInv'
  OBVIOUS
<1>1. mission_upload' \in MissionUploadTransaction
      /\ Len(mission_upload.items)' = mission_upload'.expected_count
      /\ Len(mission_upload.received)' = mission_upload'.expected_count
  BY DEF Restart, NoUpload, MissionUploadTransaction, MissionTypes
<1>2. mission_revisions' \in TrackerStates
  BY DEF Restart, NewTracker, TrackerStates, OptionalRevision
<1>3. state_cache' \in [Fields -> EvidenceField]
  BY DEF Restart, EmptyCache, NoEvidence, EvidenceField, EvidenceValues, EvidenceFreshness
<1>4. TypeOK'
  BY <1>1, <1>2, <1>3 DEF Restart, TypeOK
<1>5. SessionInv'
  BY DEF Restart, NoUpload, SessionInv, UploadDecidedOnce, Px4UploadHasProposal
<1> QED BY <1>4, <1>5

\* The gateway's types and session, and the traffic around it.
SystemInv == TypeOK /\ SessionInv /\ TrafficInv

\* The system invariant is inductive.
LEMMA SystemInvHolds == SystemSpec => []SystemInv
<1>1. SystemInit => SystemInv
  BY TypeInit, SessionInit, TrafficInit DEF SystemInit, SystemInv
<1>2. SystemInv /\ [SystemNext]_system_vars => SystemInv'
  BY TypeStep, SessionStep, TrafficStep, SystemStepIsGateway, RestartInv DEF SystemInv
<1> QED BY <1>1, <1>2, PTL DEF SystemSpec

\* With stations and PX4 around it, and through losses and restarts, a complete
\* upload is decided on exactly once, and while PX4 loads a mission there is a
\* proposal for its answer.
THEOREM SystemSessions == SystemSpec => [](UploadDecidedOnce /\ Px4UploadHasProposal)
<1>1. SystemInv => UploadDecidedOnce /\ Px4UploadHasProposal
  BY DEF SystemInv, SessionInv
<1> QED BY <1>1, SystemInvHolds, PTL

\* While the gateway is not restarted, what the system does to it is a behaviour
\* of Gateway: whatever holds of the gateway in every environment holds in this.
THEOREM SystemIsGateway ==
  ASSUME MaxRestarts = 0
  PROVE  SystemSpec => Spec
<1>1. SystemInit => Init
  BY DEF SystemInit
<1>2. SystemInv /\ [SystemNext]_system_vars => [Next]_vars
  <2>1. SystemInv /\ Restart => FALSE
    BY DEF SystemInv, TrafficInv, Restart
  <2> QED BY <2>1, SystemStepIsGateway DEF SystemInv
<1> QED BY <1>1, <1>2, SystemInvHolds, PTL DEF SystemSpec, Spec

-----------------------------------------------------------------------------
(* Acceptances on their way                                                 *)

Accepted == Px4Ack("ACCEPTED", "DRACO")
Accepts(messages) == {i \in DOMAIN messages : messages[i] = Accepted}

\* There are finitely many of them.
LEMMA AcceptsFinite ==
  ASSUME NEW S, NEW s \in Seq(S)
  PROVE  IsFiniteSet(Accepts(s)) /\ Cardinality(Accepts(s)) \in Nat
<1>1. IsFiniteSet(1..Len(s))
  BY FS_Interval
<1>2. Accepts(s) \in SUBSET (1..Len(s))
  BY DEF Accepts
<1> QED BY <1>1, <1>2, FS_Subset, FS_CardinalityType

\* A message that is not an acceptance adds none.
LEMMA AppendOther ==
  ASSUME NEW S, NEW s \in Seq(S), NEW m \in S, m # Accepted
  PROVE  Accepts(Append(s, m)) = Accepts(s)
BY DEF Accepts

\* An acceptance adds one.
LEMMA AppendAccepted ==
  ASSUME NEW S, NEW s \in Seq(S), Accepted \in S
  PROVE  Cardinality(Accepts(Append(s, Accepted))) = Cardinality(Accepts(s)) + 1
<1>1. Accepts(Append(s, Accepted)) = Accepts(s) \cup {Len(s) + 1}
  BY DEF Accepts
<1>2. Len(s) + 1 \notin Accepts(s)
  BY DEF Accepts
<1> QED BY <1>1, <1>2, AcceptsFinite, FS_AddElement

\* Taking the first message away takes its acceptance away.
LEMMA TailAccepts ==
  ASSUME NEW S, NEW s \in Seq(S), s # <<>>
  PROVE  /\ Cardinality(Accepts(Tail(s))) <= Cardinality(Accepts(s))
         /\ Head(s) = Accepted =>
              Cardinality(Accepts(Tail(s))) = Cardinality(Accepts(s)) - 1
<1> DEFINE rest == Accepts(s) \ {1}
           shift == [i \in Accepts(Tail(s)) |-> i + 1]
<1>1. /\ IsFiniteSet(rest) /\ IsFiniteSet(Accepts(s)) /\ Cardinality(Accepts(s)) \in Nat
      /\ Cardinality(rest) = IF 1 \in Accepts(s) THEN Cardinality(Accepts(s)) - 1
                             ELSE Cardinality(Accepts(s))
  BY AcceptsFinite, FS_RemoveElement
<1>2. Tail(s) \in Seq(S) /\ Len(Tail(s)) = Len(s) - 1
      /\ \A i \in 1..(Len(s) - 1) : Tail(s)[i] = s[i + 1]
  OBVIOUS
<1>3. shift \in Bijection(Accepts(Tail(s)), rest)
  <2>1. \A i \in Accepts(Tail(s)) : i + 1 \in rest
    BY <1>2 DEF Accepts
  <2>2. \A j \in rest : j - 1 \in Accepts(Tail(s)) /\ (j - 1) + 1 = j
    BY <1>2 DEF Accepts
  <2>3. \A i, k \in Accepts(Tail(s)) : i + 1 = k + 1 => i = k
    BY <1>2 DEF Accepts
  <2>4. shift \in [Accepts(Tail(s)) -> rest]
    BY <2>1
  <2>5. shift \in Injection(Accepts(Tail(s)), rest)
    BY <2>3, <2>4 DEF Injection, IsInjective
  <2>6. shift \in Surjection(Accepts(Tail(s)), rest)
    BY <2>2, <2>4 DEF Surjection
  <2> QED BY <2>5, <2>6 DEF Bijection
<1>4. Cardinality(Accepts(Tail(s))) = Cardinality(rest)
  <2>1. IsFiniteSet(Accepts(Tail(s)))
    BY <1>2, AcceptsFinite
  <2>2. ExistsBijection(Accepts(Tail(s)), rest)
    BY <1>3 DEF ExistsBijection
  <2> QED BY <2>1, <2>2, FS_Bijection
<1>5. 1 \in Accepts(s) <=> Head(s) = Accepted
  BY DEF Accepts
<1> QED BY <1>1, <1>4, <1>5

-----------------------------------------------------------------------------
(* Commits                                                                  *)

\* Only a commit makes the lineage longer, by one revision at most.
LEMMA TrackerLength ==
  ASSUME TypeOK
  PROVE  /\ Len(Committed) \in Nat
         /\ mission_revisions' = reject_proposed_revision(mission_revisions)
              => Len(Committed)' = Len(Committed)
         /\ mission_revisions' = commit_proposed_revision(mission_revisions)
              => Len(Committed)' <= Len(Committed) + 1
<1>1. mission_revisions \in TrackerStates /\ mission_revisions.history \in Seq(Revisions)
  BY DEF TypeOK, TrackerStates
<1>2. Len(Committed) = IF mission_revisions.current = None THEN Len(mission_revisions.history)
                       ELSE Len(mission_revisions.history) + 1
  BY <1>1 DEF Committed, TrackerStates, OptionalRevision
<1>3. ASSUME mission_revisions' = reject_proposed_revision(mission_revisions)
      PROVE  Len(Committed)' = Len(Committed)
  BY <1>1, <1>3 DEF reject_proposed_revision, Committed, TrackerStates
<1>4. ASSUME mission_revisions' = commit_proposed_revision(mission_revisions),
             can_commit(mission_revisions)
      PROVE  Len(Committed)' <= Len(Committed) + 1
  <2> DEFINE superseded == mission_revisions.current # None
             history == IF superseded
                        THEN Append(mission_revisions.history, mission_revisions.current)
                        ELSE mission_revisions.history
  <2>1. mission_revisions'.history = history
        /\ mission_revisions'.current = mission_revisions.proposed
        /\ mission_revisions.proposed # None
    BY <1>1, <1>4 DEF commit_proposed_revision, can_commit, TrackerStates
  <2>2. history \in Seq(Revisions) /\ Len(history) = Len(Committed)
    BY <1>1, <1>2 DEF TrackerStates, OptionalRevision
  <2>3. Committed' = Append(history, mission_revisions.proposed)
    BY <2>1 DEF Committed
  <2> HIDE DEF history
  <2> QED BY <2>2, <2>3
<1>5. ASSUME mission_revisions' = commit_proposed_revision(mission_revisions),
             ~can_commit(mission_revisions)
      PROVE  Len(Committed)' = Len(Committed)
  BY <1>5 DEF commit_proposed_revision, Committed
<1> QED BY <1>1, <1>2, <1>3, <1>4, <1>5

\* Proposing changes nothing in the lineage, whether the proposal is kept or not.
LEMMA ProposalLength ==
  ASSUME TypeOK, NEW mission,
         \/ mission_revisions' = propose_mission_revision(mission_revisions, mission)
         \/ mission_revisions' =
              reject_proposed_revision(propose_mission_revision(mission_revisions, mission))
  PROVE  Len(Committed)' = Len(Committed)
<1>1. mission_revisions \in TrackerStates
  BY DEF TypeOK
<1>2. mission_revisions'.history = mission_revisions.history
      /\ mission_revisions'.current = mission_revisions.current
  BY <1>1 DEF propose_mission_revision, reject_proposed_revision, TrackerStates
<1> QED BY <1>2 DEF Committed

-----------------------------------------------------------------------------
(* The count                                                                *)

\* Commits and acceptances on their way are as many missions as PX4 has taken,
\* or fewer: acceptances are lost, and a restart forgets the commits.
LoadsInv ==
  /\ px4_loads \in Seq(Seq(Items \cup {BlankItem}))
  /\ Len(Committed) + Cardinality(Accepts(from_px4)) <= Len(px4_loads)

\* There is nothing to count at first.
LEMMA LoadsInit == SystemInit => LoadsInv
<1> SUFFICES ASSUME SystemInit PROVE LoadsInv
  OBVIOUS
<1>1. Accepts(from_px4) = {}
  BY DEF SystemInit, Accepts
<1>2. Committed = <<>>
  BY DEF SystemInit, Init, NewTracker, Committed
<1> QED BY <1>1, <1>2, FS_EmptySet DEF SystemInit, LoadsInv

\* A step after which no more is committed, taken or on its way.
LEMMA LoadCountKept ==
  ASSUME LoadsInv, TypeOK, TypeOK', px4_loads' = px4_loads,
         TrafficInv, TrafficInv',
         Len(Committed)' <= Len(Committed),
         Cardinality(Accepts(from_px4))' <= Cardinality(Accepts(from_px4))
  PROVE  LoadsInv'
<1>1. Cardinality(Accepts(from_px4)) \in Nat /\ Cardinality(Accepts(from_px4))' \in Nat
  BY AcceptsFinite DEF TrafficInv
<1>2. Len(Committed) \in Nat /\ Len(Committed)' \in Nat
  <2>1. Len(Committed) \in Nat
    BY TrackerLength
  <2>2. Len(Committed)' \in Nat
    BY DEF Committed, TypeOK, TrackerStates, OptionalRevision
  <2> QED BY <2>1, <2>2
<1> QED BY <1>1, <1>2 DEF LoadsInv

\* PX4 goes on with a transfer: it asks, or takes the mission and says so.
LEMMA ContinueLoads ==
  ASSUME LoadsInv, TypeOK, TrafficInv, NEW transfer \in Loads, Continue(transfer),
         UNCHANGED mission_revisions
  PROVE  LoadsInv'
<1>1. from_px4 \in Seq(Px4Requests \cup Px4Acks) /\ Accepted \in Px4Requests \cup Px4Acks
  BY DEF TrafficInv, Accepted, Px4Ack, Px4Acks
<1>2. Cardinality(Accepts(from_px4)) \in Nat /\ Len(Committed) \in Nat
  BY <1>1, AcceptsFinite, TrackerLength
<1>3. Committed' = Committed
  BY DEF Committed
<1>4. CASE Len(transfer.items) < transfer.count
  <2> DEFINE request == Px4Request(Len(transfer.items))
  <2>1. request \in Px4Requests
    BY <1>4, GatewayAssumption DEF Loads, Px4Request, Px4Requests
  <2>2. request # Accepted
    BY DEF Px4Request, Accepted, Px4Ack
  <2>3. from_px4' = Append(from_px4, request) /\ px4_loads' = px4_loads
    BY <1>4 DEF Continue
  <2>4. Accepts(from_px4)' = Accepts(from_px4)
    BY <1>1, <2>1, <2>2, <2>3, AppendOther
  <2> QED BY <1>3, <2>3, <2>4 DEF LoadsInv
<1>5. CASE ~(Len(transfer.items) < transfer.count)
  <2>1. from_px4' = Append(from_px4, Accepted)
        /\ px4_loads' = Append(px4_loads, transfer.items)
    BY <1>5 DEF Continue, Accepted
  <2>2. Cardinality(Accepts(from_px4))' = Cardinality(Accepts(from_px4)) + 1
    BY <1>1, <2>1, AppendAccepted
  <2>3. px4_loads' \in Seq(Seq(Items \cup {BlankItem})) /\ Len(px4_loads') = Len(px4_loads) + 1
    BY <2>1 DEF LoadsInv, Loads
  <2> QED BY <1>2, <1>3, <2>2, <2>3 DEF LoadsInv
<1> QED BY <1>4, <1>5

\* PX4 refuses a mission.
LEMMA RefuseLoads ==
  ASSUME LoadsInv, TrafficInv, RefuseTransfer, UNCHANGED mission_revisions
  PROVE  LoadsInv'
<1>1. /\ Px4Ack("ERROR", "DRACO") \in Px4Requests \cup Px4Acks
      /\ Px4Ack("ERROR", "DRACO") # Accepted
  BY DEF Px4Ack, Px4Acks, Accepted
<1>2. Accepts(from_px4)' = Accepts(from_px4)
  BY <1>1, AppendOther DEF RefuseTransfer, TrafficInv
<1> QED BY <1>2 DEF RefuseTransfer, LoadsInv, Committed

\* The gateway reads a message of PX4: it commits only for an acceptance.
LEMMA Px4MessageLoads ==
  ASSUME LoadsInv, TypeOK, TypeOK', TrafficInv, TrafficInv',
         HandlePx4Message \/ RelayPx4Message
  PROVE  LoadsInv'
<1> DEFINE m == Head(from_px4)
<1>1. /\ from_px4 # <<>> /\ from_px4' = Tail(from_px4)
      /\ from_px4 \in Seq(Px4Requests \cup Px4Acks)
      /\ px4_loads' = px4_loads
  BY DEF HandlePx4Message, RelayPx4Message, TrafficInv, px4
<1>2. /\ Cardinality(Accepts(from_px4))' <= Cardinality(Accepts(from_px4))
      /\ m = Accepted =>
           Cardinality(Accepts(from_px4))' = Cardinality(Accepts(from_px4)) - 1
  BY <1>1, TailAccepts
<1>3. CASE m = Px4Ack("ACCEPTED", "DRACO") /\ CommitRevision
  <2>1. Len(Committed)' <= Len(Committed) + 1
    BY <1>3, TrackerLength DEF CommitRevision
  <2>2. Cardinality(Accepts(from_px4))' = Cardinality(Accepts(from_px4)) - 1
    BY <1>2, <1>3 DEF Accepted
  <2>3. /\ Cardinality(Accepts(from_px4)) \in Nat
        /\ Len(Committed) \in Nat /\ Len(Committed)' \in Nat
    BY <1>1, AcceptsFinite, TrackerLength DEF Committed, TypeOK, TrackerStates, OptionalRevision
  <2> QED BY <1>1, <2>1, <2>2, <2>3 DEF LoadsInv
<1>4. CASE RejectRevision(m.result)
  <2>1. Len(Committed)' = Len(Committed)
    BY <1>4, TrackerLength DEF RejectRevision
  <2>2. Len(Committed) \in Nat
    BY TrackerLength
  <2> QED BY <1>1, <1>2, <2>1, <2>2, LoadCountKept
<1>5. CASE UNCHANGED mission_revisions
  <2>1. Len(Committed)' = Len(Committed) /\ Len(Committed) \in Nat
    BY <1>5, TrackerLength DEF Committed
  <2> QED BY <1>1, <1>2, <2>1, LoadCountKept
<1> QED BY <1>3, <1>4, <1>5
        DEF HandlePx4Message, RelayPx4Message, ServeMissionItem, NoPx4Message, lineage

\* PX4 reads a message of the gateway.
LEMMA Px4ReceivesLoads ==
  ASSUME LoadsInv, TypeOK, TrafficInv, Px4Receives
  PROVE  LoadsInv'
<1> DEFINE m == Head(to_px4)
<1>1. m \in ToPx4
  BY DEF Px4Receives, TrafficInv
<1>2. UNCHANGED mission_revisions
  BY DEF Px4Receives, vars, lineage
<1>3. CASE Px4ReceivesCount(m)
  <2>1. [count |-> m.count, items |-> <<>>] \in Loads
    BY <1>1, <1>3
    DEF Px4ReceivesCount, ToPx4, OfferedCounts, ServedItems, ClearRequests, Loads
  <2> QED BY <1>2, <1>3, <2>1, ContinueLoads, RefuseLoads DEF Px4ReceivesCount
<1>4. CASE Px4ReceivesItem(m)
  <2>1. m.payload \in Items \cup {BlankItem}
    BY <1>1, <1>4 DEF Px4ReceivesItem, ToPx4, OfferedCounts, ServedItems, ClearRequests
  <2>2. px4_transfer \in Loads
    BY <1>4 DEF Px4ReceivesItem, Px4Expects, TrafficInv, Transfers
  <2>3. Append(px4_transfer.items, m.payload) \in Seq(Items \cup {BlankItem})
    BY <2>1, <2>2 DEF Loads
  <2>4. [px4_transfer EXCEPT !.items = Append(@, m.payload)] \in Loads
    BY <2>2, <2>3 DEF Loads
  <2> QED BY <1>2, <1>4, <2>4, ContinueLoads, RefuseLoads DEF Px4ReceivesItem
<1>5. CASE Px4Clears(m)
  <2>1. m.from \in Gcs
    BY <1>1, <1>5 DEF Px4Clears, ToPx4, OfferedCounts, ServedItems, ClearRequests
  <2>2. /\ Px4Ack("ACCEPTED", m.from) \in Px4Requests \cup Px4Acks
        /\ Px4Ack("ACCEPTED", m.from) # Accepted
    BY <2>1, SystemAssumption DEF Px4Ack, Px4Acks, Accepted
  <2>3. Accepts(from_px4)' = Accepts(from_px4)
    BY <1>5, <2>2, AppendOther DEF Px4Clears, TrafficInv
  <2> QED BY <1>2, <1>5, <2>3 DEF Px4Clears, LoadsInv, Committed
<1>6. CASE Px4Ignores(m)
  BY <1>2, <1>6 DEF Px4Ignores, px4, LoadsInv, Committed, Accepts
<1> QED BY <1>3, <1>4, <1>5, <1>6 DEF Px4Receives

\* A decision on an upload changes nothing in the lineage.
LEMMA SendItemLength ==
  ASSUME TypeOK, NEW request, SendItem(request)
  PROVE  Len(Committed)' = Len(Committed)
<1>1. CASE UNCHANGED mission_revisions
  BY <1>1 DEF Committed
<1> QED BY <1>1, ProposalLength
        DEF SendItem, BufferMissionItem, DenyMission, AllowMission, Proposed, lineage

\* Every step keeps the count.
LEMMA LoadCountStep ==
  ASSUME TypeOK, TypeOK', TrafficInv, TrafficInv', LoadsInv, [SystemNext]_system_vars
  PROVE  LoadsInv'
<1>1. Len(Committed) \in Nat /\ Cardinality(Accepts(from_px4)) \in Nat
  BY TrackerLength, AcceptsFinite DEF TrafficInv
<1>2. CASE StationStep
  <2>1. px4_loads' = px4_loads /\ from_px4' = from_px4
    BY <1>2 DEF StationStep, StartUpload, StartUploadLost, Ask, RetryUpload, RetryEarly,
                RepeatItem, ClearMission, GiveUpErasure, SendItem, ReceiveAck, ReceiveErasure, Discard,
                Lose, px4
  <2>2. Len(Committed)' = Len(Committed)
    <3>1. CASE UNCHANGED mission_revisions
      BY <3>1 DEF Committed
    <3> QED BY <1>2, <3>1, SendItemLength
            DEF StationStep, StartUpload, StartUploadLost, RetryUpload, RetryEarly,
                RepeatItem, BufferMissionItem, ClearMission, GiveUpErasure, ReceiveAck, ReceiveErasure, Discard, Lose,
                HandleMissionCount, RelayGcsDatagram, vars, lineage
  <2> QED BY <1>1, <2>1, <2>2, LoadCountKept DEF Accepts
<1>3. CASE HandlePx4Message \/ RelayPx4Message
  BY <1>3, Px4MessageLoads
<1>4. CASE ReceiveTelemetry \/ FinishIteration
  BY <1>4 DEF ReceiveTelemetry, FinishIteration, HandleTelemetry, NoPx4Message, RecvFailed,
              lineage, px4, LoadsInv, Committed, Accepts
<1>5. CASE Restart
  <2>1. Accepts(from_px4)' = {} /\ Committed' = <<>>
    BY <1>5 DEF Restart, Accepts, NewTracker, Committed
  <2>2. px4_loads' = px4_loads
    BY <1>5 DEF Restart, px4
  <2> QED BY <2>1, <2>2, FS_EmptySet DEF LoadsInv
<1>6. CASE Px4Receives
  BY <1>6, Px4ReceivesLoads
<1>7. CASE Px4Retries
  <2> DEFINE request == Px4Request(Len(px4_transfer.items))
  <2>1. from_px4 = <<>> /\ from_px4' = <<request>> /\ UNCHANGED <<mission_revisions, px4_loads>>
    BY <1>7 DEF Px4Retries, LinkQuiet, vars, lineage, px4
  <2>2. request # Accepted
    BY DEF Px4Request, Accepted, Px4Ack
  <2>3. Accepts(from_px4)' = Accepts(from_px4)
    BY <2>1, <2>2 DEF Accepts
  <2> QED BY <2>1, <2>3 DEF LoadsInv, Committed
<1>8. CASE Px4Loses
  <2>1. UNCHANGED <<mission_revisions, px4_loads>>
    BY <1>8 DEF Px4Loses, vars, lineage, px4
  <2>2. Cardinality(Accepts(from_px4))' <= Cardinality(Accepts(from_px4))
    <3>1. CASE from_px4' = from_px4
      BY <1>1, <3>1 DEF Accepts
    <3>2. CASE from_px4 # <<>> /\ from_px4' = Tail(from_px4)
      BY <3>2, TailAccepts DEF TrafficInv
    <3> QED BY <1>8, <3>1, <3>2 DEF Px4Loses
  <2> QED BY <1>1, <2>1, <2>2, LoadCountKept DEF Committed
<1>9. CASE UNCHANGED system_vars
  BY <1>9 DEF system_vars, vars, lineage, px4, LoadsInv, Committed, Accepts
<1> QED BY <1>2, <1>3, <1>4, <1>5, <1>6, <1>7, <1>8, <1>9
        DEF SystemNext, GatewayOwnStep, Px4OwnStep

-----------------------------------------------------------------------------
\* A revision is committed for a mission PX4 has taken, once for each, for any
\* number of stations and missions, and through any losses and restarts.
THEOREM CommitsHaveLoads == SystemSpec => []EveryCommitHasALoad
<1>1. SystemInit => LoadsInv
  BY LoadsInit
<1>2. SystemInv /\ SystemInv' /\ LoadsInv /\ [SystemNext]_system_vars => LoadsInv'
  BY LoadCountStep DEF SystemInv
<1>3. SystemInv /\ LoadsInv => EveryCommitHasALoad
  <2> SUFFICES ASSUME SystemInv, LoadsInv PROVE EveryCommitHasALoad
    OBVIOUS
  <2>1. Len(Committed) \in Nat /\ Cardinality(Accepts(from_px4)) \in Nat
    BY TrackerLength, AcceptsFinite DEF SystemInv, TrafficInv
  <2> QED BY <2>1 DEF LoadsInv, EveryCommitHasALoad
<1> QED BY <1>1, <1>2, <1>3, SystemInvHolds, PTL DEF SystemSpec
=============================================================================
