--------------------------- MODULE GatewaySystem ---------------------------
(***************************************************************************)
(* The gateway between ground control stations and PX4: the actions of     *)
(* Gateway composed with the parties that send what the gateway receives.  *)
(* Stations and PX4 are not part of the repository; they follow the        *)
(* mission protocol as far as udp_gateway.cpp relies on it.                *)
(*                                                                         *)
(* A station asks for a mission with MISSION_COUNT, sends the items it is  *)
(* asked for, and waits for a MISSION_ACK.  If everything falls silent, it *)
(* starts over; an early retry does not wait for the silence, and an item  *)
(* may arrive twice.  It does one thing at a time: while it waits for an   *)
(* answer to MISSION_CLEAR_ALL it asks for no mission.  PX4 asks for the   *)
(* items of an announced mission one after the other, takes the mission    *)
(* when it has all of them and says so, or refuses it.                     *)
(*                                                                         *)
(* Datagrams to the stations may arrive in any order, the two directions   *)
(* of the link to PX4 keep theirs.  What a station sends is handled in the *)
(* step that sends it: what delays it, delays the step.  Evidence does not *)
(* age here: PX4 goes on sending telemetry.                                *)
(***************************************************************************)
EXTENDS Gateway

CONSTANTS
  Plans,         \* the missions stations ask for: sequences of items
  Retries,       \* whether a station that is not answered starts over
  Repeats,       \* whether early retries and repeated items occur
  MaxUploads,    \* bound: missions asked for
  MaxLosses,     \* bound: datagrams lost between the gateway and stations,
                 \* failing sendto calls, early retries and repeated items
  MaxPx4Losses,  \* bound: datagrams lost between the gateway and PX4
  MaxRestarts    \* bound: restarts of the gateway

ASSUME SystemAssumption ==
  /\ \A plan \in Plans : plan \in Seq(Items) /\ Len(plan) <= MaxCount
  /\ None \notin Plans /\ None \notin [count: Nat, items: Seq(Items)]
  /\ Retries \in BOOLEAN /\ Repeats \in BOOLEAN
  /\ "DRACO" \notin Gcs
  /\ MaxUploads \in Nat /\ MaxLosses \in Nat
  /\ MaxPx4Losses \in Nat /\ MaxRestarts \in Nat

VARIABLES
  asked,         \* the mission a station waits to be answered for
  answer,        \* the last result a station was told
  erasing,       \* the stations that wait for an answer to MISSION_CLEAR_ALL
  to_gcs,        \* datagrams on their way to the stations
  to_px4,        \* datagrams on their way to PX4
  from_px4,      \* datagrams on their way from PX4
  px4_transfer,  \* the mission PX4 is loading: announced count, items so far
  px4_mission,   \* the mission PX4 would fly, <<>>: none
  px4_loads,     \* the missions PX4 has taken, in order
  uploads, losses, px4_losses, restarts

stations == <<asked, answer, erasing>>
px4      == <<px4_transfer, px4_mission, px4_loads>>
faults   == <<losses, px4_losses, restarts>>
system_vars == <<vars, stations, to_gcs, to_px4, from_px4, px4, uploads, faults>>

\* PX4 asks the gateway for items, and acknowledges to whom it was asked by.
MissionClearAll(g) == [type |-> "MISSION_CLEAR_ALL", from |-> g]
Px4Request(seq) == [type |-> "MISSION_REQUEST_INT", seq |-> seq]
Px4Ack(result, target) == [type |-> "MISSION_ACK", result |-> result, target |-> target]

LinkQuiet == to_px4 = <<>> /\ from_px4 = <<>>
Quiet == to_gcs = {} /\ LinkQuiet

SystemInit ==
  /\ Init
  /\ asked = [g \in Gcs |-> None] /\ answer = [g \in Gcs |-> "NONE"]
  /\ erasing = {}
  /\ to_gcs = {} /\ to_px4 = <<>> /\ from_px4 = <<>>
  /\ px4_transfer = None /\ px4_mission = <<>> /\ px4_loads = <<>>
  /\ uploads = 0 /\ losses = 0 /\ px4_losses = 0 /\ restarts = 0

\* What a step of the gateway sends joins what is on its way.
Send(gcs_in_flight, px4_in_flight) ==
  /\ to_gcs' = gcs_in_flight \cup gcs_out'
  /\ to_px4' = IF px4_out' = {} THEN px4_in_flight
               ELSE Append(px4_in_flight, CHOOSE m \in px4_out' : TRUE)

-----------------------------------------------------------------------------
(* Ground stations                                                          *)

Ask(g, plan) ==
  /\ asked[g] = None /\ g \notin erasing
  /\ uploads < MaxUploads /\ uploads' = uploads + 1
  /\ asked' = [asked EXCEPT ![g] = plan]
  /\ answer' = [answer EXCEPT ![g] = "NONE"]
  /\ UNCHANGED <<erasing, from_px4, px4, px4_losses, restarts>>

StartUpload(g, plan) ==
  /\ Ask(g, plan)
  /\ HandleMissionCount(g, Len(plan))
  /\ Send(to_gcs, to_px4)
  /\ UNCHANGED losses

\* The MISSION_COUNT is lost.
StartUploadLost(g, plan) ==
  /\ Ask(g, plan)
  /\ losses < MaxLosses /\ losses' = losses + 1
  /\ UNCHANGED <<vars, to_gcs, to_px4>>

\* The station is not answered, and starts over.
RetryUpload(g) ==
  /\ Retries /\ Quiet /\ asked[g] # None
  /\ HandleMissionCount(g, Len(asked[g]))
  /\ Send(to_gcs, to_px4)
  /\ UNCHANGED <<stations, from_px4, px4, uploads, faults>>

\* The station is not answered quickly enough, and starts over while requests
\* of its last attempt are on their way, though no answer is.
RetryEarly(g) ==
  /\ Repeats /\ LinkQuiet /\ to_gcs # {} /\ asked[g] # None
  /\ \A m \in to_gcs : m.type = "MISSION_REQUEST_INT"
  /\ losses < MaxLosses /\ losses' = losses + 1
  /\ HandleMissionCount(g, Len(asked[g]))
  /\ Send(to_gcs, to_px4)
  /\ UNCHANGED <<stations, from_px4, px4, uploads, px4_losses, restarts>>

ForUpload(request) ==
  /\ request.type = "MISSION_REQUEST_INT"
  /\ asked[request.to] # None
  /\ request.seq \in 0..(Len(asked[request.to]) - 1)

ItemFrame(request) ==
  [seq |-> request.seq, mission_type |-> "MISSION",
   payload |-> asked[request.to][request.seq + 1]]

\* The item that was asked for arrives at the gateway.
SendItem(request) ==
  /\ ForUpload(request)
  /\ \/ BufferMissionItem(request.to, ItemFrame(request)) /\ UNCHANGED losses
     \/ DenyMission(request.to, ItemFrame(request)) /\ UNCHANGED losses
     \/ \E sent \in SendResults :
          /\ AllowMission(request.to, ItemFrame(request), sent)
          /\ IF sent THEN UNCHANGED losses
             ELSE losses < MaxLosses /\ losses' = losses + 1
  /\ Send(to_gcs \ {request}, to_px4)
  /\ UNCHANGED <<stations, from_px4, px4, uploads, px4_losses, restarts>>

\* An item the buffer holds arrives again, so there is nothing to decide; it may
\* do so while PX4 is served from the buffer.
RepeatItem(g, seq) ==
  /\ Repeats /\ asked[g] # None /\ seq < Len(asked[g])
  /\ mission_upload.active
  /\ seq < Len(mission_upload.received) /\ mission_upload.received[seq + 1]
  /\ losses < MaxLosses /\ losses' = losses + 1
  /\ BufferMissionItem(g, ItemFrame(MissionRequest(seq, "MISSION", g)))
  /\ Send(to_gcs, to_px4)
  /\ UNCHANGED <<stations, from_px4, px4, uploads, px4_losses, restarts>>

AnswersUpload(m) ==
  m.type = "MISSION_ACK" /\ m.target = m.to /\ asked[m.to] # None

AnswersErasure(m) ==
  m.type = "MISSION_ACK" /\ m.target = m.to /\ m.to \in erasing

ReceiveAck(ack) ==
  /\ AnswersUpload(ack)
  /\ asked' = [asked EXCEPT ![ack.to] = None]
  /\ answer' = [answer EXCEPT ![ack.to] = ack.result]
  /\ to_gcs' = to_gcs \ {ack}
  /\ UNCHANGED <<vars, erasing, to_px4, from_px4, px4, uploads, faults>>

\* A datagram that belongs to nothing the station it reaches waits for.
Discard(m) ==
  /\ ~ForUpload(m) /\ ~AnswersUpload(m) /\ ~AnswersErasure(m)
  /\ to_gcs' = to_gcs \ {m}
  /\ UNCHANGED <<vars, stations, to_px4, from_px4, px4, uploads, faults>>

\* A datagram to a station, or what the station answers to it, is lost.
Lose(m) ==
  /\ losses < MaxLosses /\ losses' = losses + 1
  /\ to_gcs' = to_gcs \ {m}
  /\ UNCHANGED <<vars, stations, to_px4, from_px4, px4, uploads, px4_losses, restarts>>

\* A station that waits for nothing has the mission of PX4 erased.
ClearMission(g) ==
  /\ asked[g] = None /\ g \notin erasing /\ px4_mission # <<>>
  /\ erasing' = erasing \cup {g}
  /\ RelayGcsDatagram(g)
  /\ to_px4' = Append(to_px4, MissionClearAll(g))
  /\ UNCHANGED <<to_gcs, asked, answer, from_px4, px4, uploads, faults>>

\* The station is told that the mission is erased.
ReceiveErasure(ack) ==
  /\ AnswersErasure(ack)
  /\ erasing' = erasing \ {ack.to}
  /\ to_gcs' = to_gcs \ {ack}
  /\ UNCHANGED <<vars, asked, answer, to_px4, from_px4, px4, uploads, faults>>

\* It is not told, and no longer waits.
GiveUpErasure(g) ==
  /\ Quiet /\ g \in erasing
  /\ erasing' = erasing \ {g}
  /\ UNCHANGED <<vars, asked, answer, to_gcs, to_px4, from_px4, px4, uploads, faults>>

-----------------------------------------------------------------------------
(* The gateway                                                              *)

ForGateway(m) == m.type = "MISSION_ACK" => m.target = "DRACO"

\* What PX4 sends to the gateway; outside a transfer it is only passed on, to a
\* station that has no use for it.
HandlePx4Message ==
  /\ from_px4 # <<>> /\ ForGateway(Head(from_px4))
  /\ LET m == Head(from_px4) IN
     \/ m.type = "MISSION_REQUEST_INT" /\ ServeMissionItem(m.seq)
     \/ m = Px4Ack("ACCEPTED", "DRACO") /\ CommitRevision
     \/ m.type = "MISSION_ACK" /\ RejectRevision(m.result)
     \/ ~px4_authorized_upload_active /\ NoPx4Message
  /\ from_px4' = Tail(from_px4)
  /\ Send(to_gcs, to_px4)
  /\ UNCHANGED <<stations, px4, uploads, faults>>

\* An acknowledgement PX4 addresses to a station goes to the sender of the last
\* datagram, whoever that is.
RelayPx4Message ==
  /\ from_px4 # <<>> /\ ~ForGateway(Head(from_px4))
  /\ NoPx4Message
  /\ LET m == Head(from_px4) IN
     to_gcs' = IF client_addr = None THEN to_gcs
               ELSE to_gcs \cup {MissionAck("PX4", m.result, m.target, client_addr)}
  /\ from_px4' = Tail(from_px4)
  /\ UNCHANGED <<stations, to_px4, px4, uploads, faults>>

ReceiveTelemetry ==
  /\ \E message \in Telemetry : HandleTelemetry(message.msgid, message.value)
  /\ UNCHANGED <<to_gcs, stations, to_px4, from_px4, px4, uploads, faults>>

\* The iteration ends without a mission frame of PX4.
FinishIteration ==
  /\ loop = "px4"
  /\ NoPx4Message \/ RecvFailed
  /\ UNCHANGED <<to_gcs, stations, to_px4, from_px4, px4, uploads, faults>>

\* poll fails, run_gateway returns and the process ends with the datagrams in
\* its sockets; it is started again.
Restart ==
  /\ restarts < MaxRestarts /\ restarts' = restarts + 1
  /\ mission_upload' = NoUpload
  /\ proposal_created_for_upload' = FALSE
  /\ mission_revisions' = NewTracker
  /\ committed_canonical_mission' = None
  /\ px4_authorized_upload_active' = FALSE
  /\ active_gcs' = None /\ client_addr' = None
  /\ state_cache' = EmptyCache
  /\ loop' = "poll"
  /\ px4_out' = {} /\ gcs_out' = {} /\ decision_record' = None
  /\ from_px4' = <<>>
  /\ UNCHANGED <<now, to_gcs, stations, to_px4, px4, uploads, losses, px4_losses>>

-----------------------------------------------------------------------------
(* PX4                                                                      *)

\* PX4 asks for the next item, or takes the mission as it has all of them.
Continue(transfer) ==
  IF Len(transfer.items) < transfer.count
  THEN /\ px4_transfer' = transfer
       /\ from_px4' = Append(from_px4, Px4Request(Len(transfer.items)))
       /\ UNCHANGED <<px4_mission, px4_loads>>
  ELSE /\ px4_transfer' = None
       /\ px4_mission' = transfer.items
       /\ px4_loads' = Append(px4_loads, transfer.items)
       /\ from_px4' = Append(from_px4, Px4Ack("ACCEPTED", "DRACO"))

RefuseTransfer ==
  /\ px4_transfer' = None
  /\ from_px4' = Append(from_px4, Px4Ack("ERROR", "DRACO"))
  /\ UNCHANGED <<px4_mission, px4_loads>>

\* A MISSION_COUNT starts over whatever PX4 is loading.
Px4ReceivesCount(m) ==
  /\ m.type = "MISSION_COUNT"
  /\ Continue([count |-> m.count, items |-> <<>>]) \/ RefuseTransfer

Px4Expects(m) == px4_transfer # None /\ m.seq = Len(px4_transfer.items)

Px4ReceivesItem(m) ==
  /\ m.type = "MISSION_ITEM_INT"
  /\ Px4Expects(m)
  /\ \/ Continue([px4_transfer EXCEPT !.items = Append(@, m.payload)])
     \/ RefuseTransfer

\* PX4 erases its mission and says so; while it loads one it does neither.
Px4Clears(m) ==
  /\ m.type = "MISSION_CLEAR_ALL" /\ px4_transfer = None
  /\ px4_mission' = <<>>
  /\ from_px4' = Append(from_px4, Px4Ack("ACCEPTED", m.from))
  /\ UNCHANGED <<px4_transfer, px4_loads>>

Px4Ignores(m) ==
  /\ \/ m.type = "MISSION_ITEM_INT" /\ ~Px4Expects(m)
     \/ m.type = "MISSION_CLEAR_ALL" /\ px4_transfer # None
  /\ UNCHANGED <<px4, from_px4>>

Px4Receives ==
  /\ to_px4 # <<>> /\ to_px4' = Tail(to_px4)
  /\ LET m == Head(to_px4) IN
     Px4ReceivesCount(m) \/ Px4ReceivesItem(m) \/ Px4Clears(m) \/ Px4Ignores(m)
  /\ UNCHANGED <<vars, to_gcs, stations, uploads, faults>>

\* PX4 asks again for an item that did not come.
Px4Retries ==
  /\ px4_transfer # None /\ LinkQuiet
  /\ from_px4' = <<Px4Request(Len(px4_transfer.items))>>
  /\ UNCHANGED <<vars, to_gcs, stations, to_px4, px4, uploads, faults>>

Px4Loses ==
  /\ px4_losses < MaxPx4Losses /\ px4_losses' = px4_losses + 1
  /\ \/ to_px4 # <<>> /\ to_px4' = Tail(to_px4) /\ UNCHANGED from_px4
     \/ from_px4 # <<>> /\ from_px4' = Tail(from_px4) /\ UNCHANGED to_px4
  /\ UNCHANGED <<vars, to_gcs, stations, px4, uploads, losses, restarts>>

-----------------------------------------------------------------------------
StationStep ==
  \/ \E g \in Gcs :
       \/ \E plan \in Plans : StartUpload(g, plan) \/ StartUploadLost(g, plan)
       \/ RetryUpload(g) \/ RetryEarly(g)
       \/ \E seq \in 0..MaxCount : RepeatItem(g, seq)
       \/ ClearMission(g) \/ GiveUpErasure(g)
  \/ \E m \in to_gcs :
       SendItem(m) \/ ReceiveAck(m) \/ ReceiveErasure(m) \/ Discard(m) \/ Lose(m)

GatewayOwnStep ==
  HandlePx4Message \/ RelayPx4Message \/ ReceiveTelemetry \/ FinishIteration \/ Restart

Px4OwnStep == Px4Receives \/ Px4Retries \/ Px4Loses

SystemNext == StationStep \/ GatewayOwnStep \/ Px4OwnStep

SystemSpec == SystemInit /\ [][SystemNext]_system_vars

\* The loop reads the datagram with which station g answers a request (what
\* SendItem does to loop and client_addr).
ReadAnswer(g) ==
  /\ mission_revisions.next_id <= MaxRevisions
  /\ \E m \in to_gcs : m.to = g /\ ForUpload(m)
  /\ loop = "poll" /\ loop' = "px4"
  /\ client_addr' = g

\* The loop goes on, PX4 answers, and stations read what they are sent.  A
\* datagram of a station waits in the socket until the loop reads it, and the
\* timer of a station runs on whatever PX4 repeats: these two need strong
\* fairness.  Nobody has to ask for anything, to send telemetry or to fail.
Fairness ==
  /\ WF_system_vars(HandlePx4Message \/ RelayPx4Message)
  /\ WF_system_vars(FinishIteration)
  /\ WF_system_vars(Px4Receives)
  /\ WF_system_vars(Px4Retries)
  /\ WF_system_vars(\E m \in to_gcs : ReceiveAck(m) \/ ReceiveErasure(m) \/ Discard(m))
  /\ \A g \in Gcs : SF_loop(ReadAnswer(g)) /\ SF_system_vars(RetryUpload(g))

FairSystemSpec == SystemSpec /\ Fairness

-----------------------------------------------------------------------------
(* Types                                                                    *)

ItemsOf(revision) == revision.mission.items
GcsMessages ==
  [type: {"MISSION_REQUEST_INT"}, seq: Nat, mission_type: MissionTypes, to: Gcs]
    \cup [type: {"MISSION_ACK"}, origin: {"DRACO", "PX4"},
          result: {"ACCEPTED", "DENIED", "ERROR"}, target: Gcs, to: Gcs]
MessagesToPx4 ==
  [type: {"MISSION_COUNT"}, count: Nat]
    \cup [type: {"MISSION_ITEM_INT"}, seq: Nat, payload: Items]
    \cup [type: {"MISSION_CLEAR_ALL"}, from: Gcs]
MessagesFromPx4 ==
  [type: {"MISSION_REQUEST_INT"}, seq: Nat]
    \cup [type: {"MISSION_ACK"}, result: {"ACCEPTED", "ERROR"},
          target: Gcs \cup {"DRACO"}]

\* The parties hold and exchange what the protocol knows: PX4 is never sent
\* the blank item an unfilled slot of the buffer holds (mission_reconstructor.cpp:
\* 21-27), and no result goes to a station the gateway does not know.
SystemTypeOK ==
  /\ asked \in [Gcs -> Plans \cup {None}]
  /\ answer \in [Gcs -> {"NONE", "ACCEPTED", "DENIED", "ERROR"}]
  /\ erasing \subseteq Gcs
  /\ to_gcs \subseteq GcsMessages
  /\ to_px4 \in Seq(MessagesToPx4) /\ from_px4 \in Seq(MessagesFromPx4)
  /\ px4_transfer \in [count: Nat, items: Seq(Items)] \cup {None}
  /\ px4_mission \in Seq(Items) /\ px4_loads \in Seq(Seq(Items))

-----------------------------------------------------------------------------
(* What PX4 holds and what the lineage says                                 *)

\* PX4 only ever takes the mission the pending proposal describes: between the
\* offer and the last item nothing replaced the proposal or the buffer, and
\* every item came from its place (README.md:314).
Px4TakesProposal ==
  [][px4_loads' # px4_loads =>
       /\ mission_revisions.proposed # None
       /\ px4_mission' = ItemsOf(mission_revisions.proposed)]_system_vars

\* What is committed is a mission PX4 has taken (README.md:52, 216).
CommittedIsAccepted ==
  mission_revisions.current # None =>
    \E i \in DOMAIN px4_loads : px4_loads[i] = ItemsOf(mission_revisions.current)

\* When no transfer runs, PX4 holds the mission of the current revision, unless
\* a station had it erased: what PX4 accepted was committed and what it refused
\* was not (README.md:315-316).
Px4HoldsCurrent ==
  ~px4_authorized_upload_active /\ px4_mission # <<>> =>
    /\ mission_revisions.current # None
    /\ px4_mission = ItemsOf(mission_revisions.current)

\* A mission of these items.
MissionOf(items) == [mission_type |-> "MISSION", items |-> items]

\* The missions PX4 takes never return to content another has replaced: the
\* promise the gateway keeps about its ledger (NoSupersededContentRecommitted)
\* reaches the vehicle (mission_revision_causality.cpp:76-84).
LoadedContents ==
  [i \in 1..Len(px4_loads) |-> compute_mission_hash(MissionOf(px4_loads[i]))]
Vehicle == INSTANCE MissionLedger WITH ledger <- LoadedContents, pending <- None
Px4NeverReturns == Vehicle!NoReturn

\* A revision is committed for a mission PX4 has taken, once for each, however
\* the uploads of several stations overlap, and whatever PX4 took instead
\* (udp_gateway.cpp:792-807).
EveryCommitHasALoad == Len(Committed) <= Len(px4_loads)

-----------------------------------------------------------------------------
(* What a station is told                                                   *)

\* The abstract specification of the system: a station that is told ACCEPTED
\* asked for the mission PX4 holds at that moment, through lost datagrams,
\* denials, refusals and repeated uploads.
Service == INSTANCE MissionService WITH
  Stations <- Gcs,
  held <- IF px4_mission = <<>> THEN None ELSE px4_mission
ServiceSpec == Service!ServiceSpec

\* Every station that asks for a mission is answered, although the gateway
\* itself never times out or repeats a request (udp_gateway.cpp:164-943).
UploadsAnswered == Service!EveryoneIsAnswered

\* A transfer to PX4 comes to its end, and with it the readiness for the next
\* one (udp_gateway.cpp:553, 592, 892; README.md:311-316).
TransferEnds == px4_authorized_upload_active ~> ~px4_authorized_upload_active

=============================================================================
