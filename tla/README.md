# DRACO in TLA+

A verification project for the DRACO gateway: TLA+ modules translated from the
C++ sources under `src/`, TLC runs over small instances, and TLAPS proofs for
every value of the constants.

DRACO is a UDP gateway between ground control stations (GCS) and a PX4
autopilot. It passes MAVLink traffic on, except for mission uploads: those it
buffers, compares with the mission that was committed last, judges against a
policy and, if they are allowed, uploads to PX4 itself. PX4's acceptance commits
the mission to a lineage of revisions.

The project has two views of the gateway. `Gateway` is the program alone in an
environment that may send it anything at any time: what holds there holds
whatever stations, PX4 and the network do. `GatewaySystem` puts stations, PX4, links
that lose datagrams and a restart around the same actions: only there can be
said what PX4 ends up with, what a station is told, and that it is told anything.

## 1. Inventory

| Component | Source | State it keeps | Operations |
|---|---|---|---|
| Gateway loop | `udp_gateway.cpp` | all variables below, `committed_canonical_mission`, `px4_authorized_upload_active`, `proposal_created_for_upload`, `active_gcs_*`, `client_addr`, `have_gcs` | one `poll` loop: a datagram of a GCS, then a datagram of PX4, then a refresh of the evidence |
| Mission reconstructor | `mission_reconstructor.*` | `MissionUploadTransaction` (active, count, items, received) | start, store item, complete? |
| Canonical mission, hash | `canonical_mission.*`, `mission_revision.*` | none | canonical form, serialisation, SHA-256, revision |
| Revision tracker | `mission_revision_tracker.*` | parent, current, proposed, history, next id | propose, commit, reject, search the history |
| Causality | `mission_revision_causality.*` | none | proposal record, classification |
| Semantic delta | `mission_delta.*` | none | alignment (longest common subsequence), reorders, greedy pairing, summary |
| Change budget | `mission_change_budget.*` | none | limits on a delta, by authority |
| Intent contract | `mission_intent_contract.*` | none | regions, corridor, altitude, commands, authorities, validity |
| Authorization | `mission_authorization.*` | none | the decision chain |
| Decision record | `mission_decision_record.*` | none | snapshot of the evidence, `evidence_usable` |
| State cache | `state_cache.*` | twelve evidence fields with time and freshness | update by message, refresh, snapshot |
| MAVLink parser | `mavlink_parser.*` | the library's parser state per channel | bytes to frames |
| Semantic classifier | `semantic_classifier.*` | none | family and operation of a message, for the log |
| Research freeze | `phase4_research_freeze.*` | none | constant lists |

How they interact. Everything runs in one thread; components call each other as
functions and share the variables of `run_gateway`. A `MISSION_COUNT` starts
an upload, each `MISSION_ITEM_INT` is stored, and the frame that finds the upload
complete runs the whole decision: propose, delta, record, causality, budget,
authorization, evidence. A denial goes back to the GCS. An allowance sends a
`MISSION_COUNT` to PX4; PX4's requests are served *from the same buffer*, and
PX4's `MISSION_ACK` commits or rejects *whatever is proposed then*. Telemetry of
PX4 updates the state cache.

What is hard. There is no second thread, but there are three parties (any number
of GCSs, the gateway, PX4) whose datagrams interleave, and the transfer to PX4
spans many iterations while the buffer, the proposal, the base of the delta and
the three flags that tie them together stay open to the next GCS datagram.
Datagrams are lost, repeated and late; nothing times out. Freshness flags are
refreshed at the end of an iteration that a `continue` may skip. The rest is
numerical: limits, float equality, alignment. The lineage lives in memory while
PX4 keeps its mission, so a restart separates the two. `PROJECT.json` lists each hazard
with its line and the properties that would notice it.

What makes each component correct:

- *Reconstructor and session*: a complete upload is decided on exactly once.
- *Lineage*: revisions are committed in order, superseded content never returns,
  what waits for PX4 is what the policy would still allow.
- *Transfer*: PX4 is offered and served exactly what was allowed; what is
  committed is what PX4 was given; the result reaches the uploader.
- *Evidence*: no mission is offered on evidence older than the threshold.
- *Delta and budget*: a change within the budget really is small; equal content
  and empty delta are the same thing.
- *Authorization*: more authority never allows less; no authority overrides
  rollback or geometry.
- *The whole*: PX4 holds what the lineage says it holds; a station is told
  ACCEPTED only when PX4 holds what it asked for; every upload is answered.
- *Parser*: the two directions do not disturb each other; nothing is reported
  that was not received whole.
- *Classifier*: its lists agree with each other; no message of PX4 passes for
  a change.

## 2. Modules

| Module | Models | Notes |
|---|---|---|
| `MissionReconstructor` | upload buffer | C++ index `seq` is element `seq + 1` |
| `FloatValues` | floats and their `==` | integers, `NegZero` (-0.0) and `NaN` |
| `CanonicalMission` | canonical missions and hash | the serialisation stands for its SHA-256 digest; altitude and parameter are floats |
| `MissionRevisionTracker` | revision tracker | operators from tracker to tracker; `None` is `std::nullopt` |
| `MissionRevisionCausality` | classification | all seven classes |
| `MissionDelta` | semantic delta | pairs of indices instead of lists of changes |
| `MissionChangeBudget` | change budget | ratio limits as percentages |
| `MissionIntentContract` | contract predicates | positions on a line |
| `MissionAuthorization` | decision chain | named tests, same order |
| `GatewayPolicy` | the contract and authority compiled into the gateway | centres in metres from the start region, along the corridor |
| `StateCache` | evidence and freshness | a function from fields to records |
| `Gateway` | the loop | composes all of the above |
| `MissionLedger` | abstract specification of the lineage | what `Gateway` implements |
| `GatewaySystem` | the gateway, stations, PX4, links, restarts | the actions of `Gateway`, each conjoined with what its datagram comes from and goes to |
| `MissionService` | abstract specification of the system | what an operator may expect; `GatewaySystem` implements it for one station |
| `MavlinkParser` | parser with the library's channels | pieces of frames instead of bytes |
| `SemanticClassifier` | the two classifications | with the lists as the code has them |
| `DecisionModel` | the pure part of a decision on all bounded inputs | delta, causality, budget and chain as the gateway calls them; a lineage is committed step by step, then the proposal is decided on |
| `ParserModel`, `ClassifierModel` | datagrams of both directions through the parser; frames through the classifier | |
| `MCGateway`, `MCGatewaySystem`, `MCDecisionModel`, `MCParserModel`, `MCClassifierModel` | constants of the runs | |
| `GatewayProofs`, `MissionLedgerProofs` | theorems on types, session, evidence, lineage, contract and transfer; on the ledger | the second is instantiated by the first |
| `DeltaProofs` | what the algorithms of the delta compute | induction over the table and the loops |
| `DecisionProofs` | theorems on the decision chain, the delta and the budget | |
| `ClassifierProofs` | theorems on the classifications | |
| `ParserProofs` | theorems on the parser | induction over the stream of a direction |
| `SystemProofs` | the closed system is a gateway of the open one; sessions through restarts; every commit has a load of PX4 | |
| `SystemStationProofs` | the closed system with one station, through losses, implements the service, and PX4 holds what the lineage says | |

### `Gateway` and the code

Each variable carries the name of its C++ variable; `active_gcs` stands for
`active_gcs_sysid` and `active_gcs_compid`, and `client_addr = None` for
`have_gcs == false`. `px4_out`, `gcs_out` and `decision_record` hold what the
last step sent and decided, so that action properties can speak of it. Datagrams that
are passed on unchanged are not in the outputs.

| Action | Code (`udp_gateway.cpp`) |
|---|---|
| `HandleMissionCount` | 204-269 |
| `BufferMissionItem` | 271-333, an item with nothing to decide |
| `DenyMission` | 335-550, complete upload, any verdict but `ALLOW` |
| `AllowMission` | 335-481, 551-597, with the result of `sendto` |
| `RelayGcsDatagram` | 612-671 |
| `ServeMissionItem` | 701-769; what is sent is the stored item with the seq it was stored with, 0 for a slot nothing was stored in |
| `CommitRevision`, `RejectRevision` | 770-895 |
| `HandleTelemetry` | 686-700 and `update_state_cache` |
| `NoPx4Message` | 672-700, nothing from PX4 or something only passed on |
| `RecvFailed` | 181-186, 678-685: `continue` skips the refresh |
| `Tick` | the steady clock |

An action is a whole handler: the decision is one step with everything it
changes, and every PX4 action ends with the refresh at the bottom of the loop.
The environment is open: any GCS may send any frame at any time, PX4 may request
any item, accept or reject at any time it is loading. So lost, repeated and
reordered datagrams are covered without actions of their own.

### `GatewaySystem` and the code

The steps of the gateway are the actions of `Gateway`, unchanged. The closed
system says where their inputs come from and where their outputs go.

| Action | What happens | Of `Gateway` |
|---|---|---|
| `StartUpload`, `RetryUpload` | a station sends its `MISSION_COUNT`, for the first time or again | `HandleMissionCount` |
| `StartUploadLost` | that datagram is lost | none |
| `RetryEarly` | a station sends its `MISSION_COUNT` again while requests of its last attempt are on their way, though no answer is | `HandleMissionCount` |
| `RepeatItem` | an item the buffer holds arrives again, possibly while PX4 is served from the buffer | `BufferMissionItem` |
| `SendItem` | a station answers a request, for every outcome of the handler | `BufferMissionItem`, `DenyMission`, `AllowMission` |
| `ReceiveAck`, `Discard`, `Lose` | a datagram reaches a station, is of no use to it, or is lost | none |
| `ClearMission` | a station sends `MISSION_CLEAR_ALL`, which is passed on (612-671) | `RelayGcsDatagram` |
| `RelayPx4Message` | PX4's acknowledgement of that, which is passed on to the sender of the last datagram (916-925) | `NoPx4Message` |
| `ReceiveErasure`, `GiveUpErasure` | the station is told that the mission is erased, or waits no longer | none |
| `HandlePx4Message` | the head of the link from PX4 is handled | `ServeMissionItem`, `CommitRevision`, `RejectRevision`, `NoPx4Message` |
| `ReceiveTelemetry`, `FinishIteration` | the rest of the loop | `HandleTelemetry`, `NoPx4Message`, `RecvFailed` |
| `Restart` | `poll` fails, `run_gateway` returns (167-170), the process is started again; its variables have their initial values (84-139) | none |
| `Px4Receives`, `Px4Retries`, `Px4Loses` | PX4 and its links | none |

Stations and PX4 are not in the repository. They are modelled as far as
`udp_gateway.cpp` relies on them, and assumed to do no more than the following.

- A station waits for one thing at a time: a mission, or the answer to
  `MISSION_CLEAR_ALL`. A `MISSION_ACK` does not say what it answers, and the gateway
  passes PX4's answer to an erasure on like the result of an upload; that a
  station does not take the one for the other is owed to this discipline
  and not to the gateway. It answers a request if it has the item, and takes a
  `MISSION_ACK` only if it names the station.
- A station starts over when nothing is on its way; with `Repeats` also while
  requests are, and an item may arrive twice.
- Datagrams of stations are handled when they are sent: a delay on the way to the gateway
  is a delay of the step, and losing the answer to a request is losing the
  request. An item of a former upload that the network keeps back until
  another upload runs is not modelled in the closed system; in `Gateway` it is.
- PX4 asks for the items in order, ignores an item out of order, takes the mission
  with the last item or refuses it at any point, starts over on a new
  `MISSION_COUNT`, and asks again when its link is quiet. It erases no mission
  while it loads one.
- Datagrams to stations are a set (any order), the two links of PX4 are queues.
- Evidence does not age: PX4 goes on with its telemetry. The age of evidence is
  the subject of `gateway_evidence`.
- A restart loses what is in the socket from PX4; the operator starts the process
  again. Datagrams on their way to stations and PX4 arrive all the same.

The definitions whose comment starts with *Mutant* are faulty variants of the
definition below them, used to confirm that each property can fail.

### Abstractions

- A position is a point on a line (metres along the corridor) instead of
  latitude and longitude; the code uses positions only through distances,
  containment in regions and equality. The contract's constants are converted.
- `param` stands for `param1..param4`, `current` and `autocontinue`, which the
  code compares and hashes together.
- The six global frames are apart, as the delta and the hash compare them; the contract
  treats them alike (`GlobalFrames`). Mission types are `MISSION` and one other.
- Altitudes and parameters are floats: integers, -0.0 and NaN, with the comparisons
  of C++. Infinities and rounding are left out.
- SHA-256 is injective on what a run produces.
- One frame per datagram. What several frames in one datagram change is what they
  change one after the other. What differs is the relay: an upload frame keeps
  the whole datagram from PX4, which README.md:477 of the repository itself names
  as a limitation.
- Lists of changes are counts; the counters of the summary that nothing reads are
  left out, and so are the reasons of verdicts and everything only logged.
- Each iteration may find a datagram on either socket; the `poll` that fails and
  ends the program is `Restart`.
- In the parser a frame is its pieces, and the magic byte occurs only in the first
  of them. The library resynchronises in the same way on a magic byte inside a
  payload, which the pieces cannot show.
- A message for the classifier is its direction, id, command and `param1`; the
  table of ids, families and operations is the code's.
- Time starts at 0 with an empty cache; freshness compares differences only.

## 3. Runs

| Run | Question | Bounds |
|---|---|---|
| `gateway_lineage` | Do session and lineage stay consistent under every interleaving, is nothing outside the contract ever committed, and does the gateway implement `MissionLedger`? | 1 GCS, 3 items (one too high), missions of 0 to 2 items, 3 proposals, `sendto` may fail |
| `gateway_evidence` | Is evidence fresh whenever a mission is offered? | 2 proposals, threshold 1, clock to 3, all telemetry values |
| `decision_chain` | Does the delta measure what the budget limits; is authority monotone, the destination kept, the hard limits hard? | every change of a mission of up to 3 of 6 items, and of up to 2 of 8 with -0.0 and NaN for altitude or parameter, other frames and items without position; every proposal of up to 2 of 5 items to a lineage of up to 2 such missions, 4 contracts |
| `system_service` | Is PX4 given exactly what was allowed, do PX4 and lineage agree, and does a station that is told ACCEPTED get what it asked for? | 1 station, 3 uploads of 4 missions, retries, 2 losses towards stations, early retries or repeated items, `sendto` may fail |
| `system_answers` | Is every upload answered, does every transfer end, is PX4 served only what was allowed and the station told the truth, through losses and a restart of the gateway? | 1 station, 2 uploads of 3 missions, 2 losses towards stations, early retries or repeated items, 1 restart, `sendto` may fail, fairness |
| `system_px4_loss` | Does PX4 still only take what was authorised, and is it committed once, when its link loses datagrams? | 3 uploads, 2 losses, no retry by the station |
| `parser_streams` | Do the directions keep apart, are frames reported whole, in order and once? | 3 pieces per frame, 3 datagrams in each direction, 6 kinds of datagram |
| `classifier_operations` | Do the classifications agree about a change, and does PX4 never ask for one? | every id, command and limit of the tables, both directions |
| `system_late_item`, `system_commit`, `result_addressee`, `delta_free_yaw` | Four statements of the repository the code does not keep | see section 5 |

Why the bounds are enough to be interesting. Three proposals are what a rollback
takes (A, B, A). Two items make missions that differ by a change inside the
budget, one outside it, a reorder, an insertion and a deletion. A threshold of 1
and a clock to 3 separate fresh, exactly on the limit and stale, for each of the
three fields on its own. Missions of three items are the shortest in which
alignment, reorder and pairing all have something left to do. In
`gateway_lineage` telemetry says disarmed and on the ground and the clock stands
still; flight state and age vary in `gateway_evidence`. One GCS is enough where
the addressee plays no part, since the gateway treats every sender alike: the
number of GCSs is a parameter of the theorems.

In the closed system the missions are a route, a change of it within the budget,
a part of it, and a mission outside the contract, so that an upload is allowed,
denied as a rollback and denied by the contract. Three uploads are again what a rollback
takes. `MaxLosses` counts datagrams lost towards stations, failed `sendto`s, early
retries and repeated items: one is enough to disturb every stage of an upload, two to
do so twice, at two stages or in two ways. With a loss towards PX4 and a
station that starts over, or with two stations, the strong properties are false
(section 5); `system_px4_loss` asks what is left of them when nobody starts over, and
the theorems `CommitsHaveLoads`, `UndisturbedItemsAreAuthorized` and
`UndisturbedBaseIsCurrent` what is left for any number of stations.
`MaxRevisions` bounds the proposals. In the run with fairness it is never
reached: each upload is decided once, and again only if an answer to it is lost.
In `system_service` it ends a series of offers whose `sendto` fails and which the
station repeats.

The parser's datagrams are whole frames, a beginning without its rest, a rest
without its beginning, and both next to whole frames: with three of them in each
direction a frame can be cut, completed and confused with another.

Fairness. `Gateway` states none: an open environment need not answer. `Fairness`
of `GatewaySystem` assumes, besides `SystemSpec`:

- weak fairness of the loop (`HandlePx4Message \/ RelayPx4Message`,
  `FinishIteration`): `run_gateway` is a loop without waits other than `poll`, which has a timeout (163-167);
- weak fairness of PX4 (`Px4Receives`, `Px4Retries`) and of stations that read what
  they are sent (`ReceiveAck`, `ReceiveErasure`, `Discard`);
- strong fairness of `ReadAnswer(g)`: a datagram of station `g` waits in the socket
  while the loop is busy with others, so it is read if the loop comes round
  to the socket again and again. The subscript is the loop, because
  reading is all that is promised, not what the handler makes of it;
- strong fairness of `RetryUpload(g)`: a station's timer runs on, whatever PX4
  repeats in the meantime.

Nobody has to ask for a mission, to send telemetry, to lose a datagram or to restart,
and losses are bounded. Nothing in the gateway repeats or times out: the two
liveness properties show that, towards the stations, the retries of the parties
are enough for missions of at least one item. They are not on the link to PX4, nor
for an empty mission (section 5).

Deadlock is checked except in `decision_chain` and `delta_free_yaw`, which stop
after the decision by design, and in `parser_streams`, which stops after the last
datagram. The closed system never stops: the loop goes on.

What the properties say is in the comment above each of them. The ones with the
longest reach:

- `LedgerSpec` and `NoSupersededContentRecommitted`: although proposals are
  overwritten, denied and answered late, the sequence of committed contents never
  returns to one that was replaced.
- `PendingStillAuthorized`: what waits for PX4 would be allowed again against the
  lineage as it now is.
- `BudgetBoundsChange`: states what the budget is for without the algorithm: an
  item-by-item matching must exist in which all changed items are close and few
  items are changed, lost or added.
- `ServiceSpec`: the whole system is a service in which a station is told ACCEPTED
  only while the vehicle holds the mission it asked for.
- `Px4NeverReturns`: the promise about the ledger reaches the vehicle. It speaks of
  contents: missions that differ only in the sign of a zero are the same content,
  and PX4 may take them in turn.
- `EveryCommitHasALoad`: whatever is committed in the wrong place when uploads
  overlap, never more is committed than PX4 has taken.
- `NoOpIffSameNumbers`: what the hash and the delta, with two notions of equality of
  floats, still agree on.
- `OperatorKeepsDestination`: delta and budget look at the last item, the contract at
  the last positional item, and nothing looks at a re-upload. Together they keep what
  the mission ends with, and a mission that ends with no position, as with
  a return, still has its last position in the terminal region. It speaks of command,
  place and altitude: frames are not compared (section 5).

## 4. Proofs

All theorems hold for every value of the constants: any set of items, any number
of ground stations, missions of any length, any number of proposals, any clock,
any number of losses and restarts.

*Type correctness* (`TypeCorrect`). Inductive as it stands. It contains two
relations between state: `items` and `received` have the announced length, and
the hash of every revision is the hash of its mission. The operators' lemmas
(`StartType`, `StoreType`, `ProposeType`, `CommitType`, `RefreshType`, ...) come
first; `TypeStep` has one step per action.

*Session* (`UploadsDecidedOnce`, `Px4UploadsHaveProposals`). The conjunction
`SessionInv` of both is inductive relative to `TypeOK`. The argument: a started
upload of at least one item misses its first item; storing never takes an item
away (`StoreKeepsComplete`), so an upload becomes complete only in a step that
decides on it; every step that deactivates the upload clears the flag.

*Ledger* (`LedgerNeverReturns`, in `MissionLedgerProofs`). `NoReturn` alone is not
inductive: a commit appends the pending content, so `LedgerInv` adds that the
pending content is not superseded. `AppendNoReturn` is the heart of it.

*Refinement* (`GatewayImplementsLedger`, in `GatewayProofs`). The mapping
takes the committed revisions to the sequence of their contents and the
proposal to its content. `AllowedIsNotRollback` shows from the decision chain
that an allowed proposal is the current content or is in no revision of the
history; `AllowOffers`, `RejectWithdraws` and `CommitAppends` map the steps. The
invariant it needs beyond types is `LineageInv`: no history before a current
revision. `SupersededNeverRecommitted` then follows from the ledger's theorem by
instantiation.

*Order* (`LineageIsOrdered`). `LineageOrdered` is inductive relative to `TypeOK`
and `LineageInv`. It is split into `Ordered`, a predicate of a sequence and the
next id with one lemma per operation of the tracker, and `ParentIsLast`.

*Pending proposal* (`PendingIsAuthorized`). A proposal is allowed when it is made;
while it waits neither the lineage nor the base of the delta changes. The clock
does, and `VerdictIgnoresTime` shows that it plays no part: the contract compiled
into the gateway has no validity window. The run finds the property true with
the clock standing still; the theorem is what covers time.

*Evidence* (`OffersOnFreshEvidence`, `FlightStateIsEvidence`). A field that is usable
in a snapshot was observed within the threshold (`UsableIsRecent`). The snapshot
is refreshed and the flags of the cache need not be, since `continue` skips the
refresh. `FlagsInv` says in which direction they may be wrong: a flag may say
FRESH too long, never STALE too early. So usable evidence is also usable by the
flags, from which the flight state is read.

*Contract* (`CommittedIsInsideContract`, in `GatewayProofs`). A re-upload of
the current content is allowed before any test, so that an allowed mission is
inside the contract holds only if the current one is: `InsideStep` carries it from
revision to revision. Besides, the tests are made when a mission is proposed and the
commit comes later; `PendingIsAuthorized` bridges the gap. `TestedIsInside` turns the
tests into the bounds, `CorridorBounds` the distance to a segment into an interval, and
`SameHashSameInside` shows that a re-upload, which may differ in the sign of a
zero, is inside as well.

*Decision chain* (`AuthorityIsMonotone`, `HardLimitsHold`, in `DecisionProofs`).
`AllowCondition` turns the chain of early returns into a condition, `PassedMonotone`
compares its tests for two tiers. Whatever the delta is, they hold. That a higher tier is
in every list a lower one is in is the assumption `CasesAssumption`: a
contract may list any tiers. `GatewayTiersOrdered` proves it of the contract
compiled into the gateway.

*Transfer* (`UndisturbedItemsAreAuthorized`, `UndisturbedBaseIsCurrent`, in
`GatewayProofs`). For any number of stations in the open environment. Their
hypothesis `TransferUndisturbed` is that no station touches the buffer while PX4
loads from it. The gateway promises nothing of the kind, and without it both fail, as
`system_late_item` shows of what PX4 takes; what they say is that this is the only way a transfer goes
wrong: neither repeated requests, nor failed offers, denials, answers
in any order or a second upload between two transfers do. The invariant `TransferInv`
says that during a transfer the buffer is complete and is the pending proposal, and
that the base of the delta is the current mission; `CompleteBufferServes`
shows that a complete buffer serves each item with its own seq.

*Delta* (`LongestAlignment`, `EveryItemAccountedFor`, `BudgetIsBound`,
`NoOpIsSameHash`, `DestinationIsKept`, in `DecisionProofs` on top of
`DeltaProofs`). For missions of any length and any items these say what the
alignment, the loops over the leftovers and the summary compute. The table, the
walk back through it and the loops are recursive functions, and an induction
principle with a predicate for a parameter cannot be instantiated; so the
induction is over sets. `SetInduction` gets from the well-foundedness of `<`
that a set with 0 and the successor of each of its numbers holds every number,
`BoundedInduction` and `CellInduction` follow, and the set is the one of the
numbers or cells for which the invariant holds. A recursive function first has
to be shown to exist (`LoopExists`, `TableExists`) before its definition can be
used (`LengthsTable`, `MatchesTable`).

- `AlignmentCorrect`: the walk from any cell collects a common subsequence of the
  two missions up to that cell, with as many pairs as the table says
  (`EveryCellTraced`), and no common subsequence up to it has more
  (`EveryCellLongest`): take the last pair away and what is left belongs to the
  cell on the diagonal, or the last item of one mission is in no pair.
- `ReorderCorrect`, `PairCorrect`: what the loops add uses items of its own
  (`Apart`), reordered pairs are equal, and after the first loop no equal items
  are left, so every pair of the second has a change (`PairedIsModified`). With
  the alignment they are one matching (`RelatedMatching`), and what is deleted or
  inserted is what it leaves over (`ItemsOutside`).
- `BudgetIsBound`: that matching is the witness; the largest displacement bounds
  every pair (`ChangesBounded`), and the changed, deleted and inserted items are
  no more than the changes the budget counts.
- `NoOpIsSameHash`: a no-op matches all items of both missions in order, so each
  with the one at its own place (`TotalSubsequence`). Conversely the diagonal is
  a common subsequence of all items, so the alignment has to find all of them.
  This direction needs that no parameter or altitude of the committed mission is NaN;
  `delta_free_yaw` (section 5) shows what happens with one. The first needs nothing.
- `DestinationIsKept`: what an operator is allowed has either the committed hash, and
  then its last item up to the sign of a zero, or passed the test of the last item
  and the contract's test of the last position.

`DecidedInv` carries this to the decisions: revisions have missions of canonical
items and the hash of their mission, and delta and verdicts are those of the
lineage that is kept.

*Classifier* (`FamiliesAndOperationsAgree`, `Px4AsksForNoChange`, in
`ClassifierProofs`): for every id, command, parameter and limit, by cases over
the lists.

*Composition* (`SystemIsGateway`, in `SystemProofs`). Without restarts the
closed system implements `Spec` of `Gateway`, so every theorem above holds with
stations, PX4 and losses around the gateway. Each step of a party uses actions of
`Gateway` with inputs of its own, and it has to be shown that these are inputs
`Gateway` allows: the invariant `TrafficInv` bounds what is on its way (stations only
wait for missions of `Plans`, PX4 asks only for items below an announced count, and
its answers are among the two it has).

*Sessions through restarts* (`SystemSessions`). With restarts the system is no
longer a behaviour of `Spec`, but a restart establishes the invariants of
types and session anew, so a complete upload is still decided on exactly once.

*Commits* (`CommitsHaveLoads`). That no more is committed
than PX4 has taken is not inductive. `LoadsInv` counts: commits and the
acceptances that are still on their way from PX4 are together no more than its
loads. A load sends one acceptance, a commit uses one up, a loss or a restart
can only lower the sum. The lemmas on counting acceptances in a queue
(appending, removing the head) come first.

*One station* (`SystemImplementsService`, `Px4HoldsWhatIsCurrent`,
`VehicleNeverReturns` and four more, in `SystemStationProofs`). Their hypothesis
`SingleStation` is one station, no restarts, no early retries or repeated items, and
either a link to PX4 that loses nothing or a station that does not start over; any
missions, any number of uploads, denials, refusals, erasures, failed offers and losses.
So overlapping uploads and items that come late are excluded: with a second
station, or with one that starts over while a lost item keeps PX4 from answering,
the properties are false (section 5). With early retries and repeated items they
hold in the runs; that is not proved. The invariant has two halves.

- `PhaseInv`: at any moment at most one message of the session is on its way, and
  it tells which phase the session is in: `Silent`, `Collecting(k)` (the
  gateway has the first `k` items and has asked for the next), `Answered(ack)`,
  `Clearing` (an erasure or its acknowledgement is on its way), or `Loading`, in
  which PX4 has been offered the mission, fetches item `k`, or has taken or refused it. Each phase says what buffer, proposal, transfer and
  the station's request have to do with each other; in `Loading` all four are the
  same mission. A station starts over only if nothing is on its way
  (`QuietIsSilent`), and while PX4 loads something always is unless it was lost, so
  nothing changes the buffer under a transfer. A lost item or request leaves the
  phase, as PX4 asks again (`Px4RetriesPhase`); a lost offer or answer leaves the
  transfer `Hung`: active for ever, as `udp_gateway.cpp` has no timeout for it.
- `LoadsAreCommits`: PX4 has taken the mission of each committed revision, in this
  order, and then that of the proposal if its acceptance is on its way or was lost.

`PhaseStep` and `LoadsStep` have one step per action, on top of lemmas for the
handlers (`ItemPhase`, `AnswerOfPx4`, `ReadingOfPx4`, `RelayPhase`) and for losses
(`Px4LosesPhase`, `ErasureLost`, `Px4LosesKeepsLoads`). The theorems follow: the
refinement of `MissionService` maps what PX4 takes to `Take`, and an answer to
`Accept` or `Refuse`; `VehicleNeverReturns` adds the invariant of the ledger, as
the content whose acceptance is on its way is pending and so not superseded.

*Parser* (`OwnDatagramsOnly`, `MessagesWereReceived`, `WholeDatagramsReported`, in
`ParserProofs`). For frames of any number of pieces and datagrams of any length.
`ParseConcat` is the heart of it: data can be cut anywhere, since the channel carries
what the rest needs. So the invariant `StreamsParsed` relates each direction to its
whole stream: the messages reported and what its channel holds are what parsing the
stream at once leaves. That no datagram of the other direction appears in it is
`DirectionsIndependent`. `ReportedWereReceived` then is a statement about parsing one
stream, by induction on it: what the channel holds is the end of the stream
(`Located`), so a frame that is completed is intact in the stream and lies behind
all those before it (`FoundNext`). It bears no hypothesis about the datagrams: frames may
be cut, mixed or incomplete. For `WholeFramesReported` the invariant adds
that datagrams of whole frames leave the channel empty (`WholeFramesInv`), and
`FramesParsed` that whole frames are reported one by one.

Assumptions: the named `ASSUME`s of `Gateway`, `GatewaySystem`, `StateCache`,
`FloatValues`, `CanonicalMission`, `DecisionModel`, `MavlinkParser` and `ParserModel`
(the bounds are naturals, `NaN` and `NegZero` are no integers and not the same, `None` is no value of a type and no transfer, items have the fields of canonical items, the
evidence fields of a decision are kept, tiers are ordered, the cases of
`DecisionModel` are missions of canonical items and its budgets are not negative,
plans are missions of at most `MaxCount` items, a frame has a piece, datagrams are
sequences of pieces), which TLC evaluates in the runs of these modules; and
the injectivity of the hash, which is built into `CanonicalMission`.

Only model-checked so far:

- the closed system with restarts (`system_answers`), beyond sessions and commits;
- early retries and repeated items (`system_service`, `system_answers`), beyond the same;
- liveness (`UploadsAnswered`, `TransferEnds`), which is out of the provers' reach.

## 5. Where code and documentation disagree

Each of these is a run.

1. `system_late_item`: README.md:314 says DRACO sends the authorized buffered
   mission. The buffer is emptied by a `MISSION_COUNT`, and changed by a late item,
   while PX4 is loading from it. One lost item and a station that starts over
   are enough. The run has missions of one item: it is lost on its way to PX4, the station
   starts over with a `MISSION_COUNT`, PX4 asks for item 0 again, is sent the
   blank slot, whose seq is 0, and takes it as the mission. In a longer mission a
   blank slot in a later place would be sent with seq 0 too, and PX4 ignores an item it
   did not ask for; there the first item, or an item of another mission in
   the same place, has the effect.
2. `system_commit`: README.md:216 says a revision is committed only after PX4
   accepted it, README.md:311-312 that after ALLOW DRACO starts its own upload. A
   mission that is allowed while PX4 loads another replaces its proposal and is
   not sent; the acceptance of the first commits the second.
3. `result_addressee`: the comment at `udp_gateway.cpp:841` says the result goes
   to the original GCS. It goes to the sender of the last datagram.
4. `delta_free_yaw`: README.md:205 says the canonical representation is used for
   hashing and comparison. The hash normalises NaN, the comparison does not: a
   mission with a NaN parameter has a delta to itself.

What follows was met while modelling and is plain from the lines themselves, so it
has no run:

- An acceptance that arrives after another upload has begun rejects the proposal
  (`udp_gateway.cpp:792`, 833-838), while README.md:315-316 has it committed.
- The destination is compared without its frame (`mission_delta.cpp:308-312`): the same
  number above another altitude reference is another place, but no change of the
  destination. It counts as a changed item.
- Items are stored whoever sends them (`udp_gateway.cpp:283`): the items of two
  uploads at the same time make one mission.
- The gateway passes no active proposal to the classification
  (`udp_gateway.cpp:381`), so the concurrent conflict of README.md:287 and 375
  is never found in operation.
- An offer that is lost on its way to PX4 leaves the transfer active for ever
  (`udp_gateway.cpp:592`): nothing repeats it.
- A `MISSION_COUNT` of 0 is not answered (`udp_gateway.cpp:223`).
- The parser keeps what is incomplete for the next datagram of that direction
  (`mavlink_parser.cpp:9`), while README.md:105 has it rejected.
- The classifier's list of evidence (`semantic_classifier.cpp:73-86`) lacks
  `MISSION_CURRENT` and `ESTIMATOR_STATUS`, which the state cache keeps as evidence.

## 6. Plan

1. *Core (done)*: `Gateway` and its parts; types, session, lineage and evidence
   proved.
2. *Closed system (done)*: `GatewaySystem`, `MissionService`; safety, refinement and
   liveness checked; composition, sessions and commits proved.
3. *Parser and classifier (done)*. A module of its own for datagrams of several frames
   was planned and dropped: all it would add is the relay decision, which is
   one assignment and one test.
4. *More proofs (under way)*: contract, decision chain, delta, budget, classifier,
   parser, the transfer for any number of stations, and the closed system with one station,
   through losses on both links, are proved. Next: the closed system through restarts, and
   with early retries and repeated items, where a phase has several messages on their way.

## 7. Not modelled, and why

- MAVLink bytes, checksums, sockets and addresses: I/O of libraries.
- `main.cpp`, the log, the names of enumerators: no state.
- `phase4_research_freeze.*`: constant lists for an evaluation.
- Memory that survives a restart: the code has none, and no statement of the
  repository promises that a rollback is recognised after one.
- The results of `sendto` other than that of the offer: they change no state. A
  datagram that is not sent is a lost one.
- Great-circle geometry: real arithmetic is out of reach of TLC and of the
  provers; the line keeps what the decisions depend on.

## Running

    tlc -workers 2 -config GatewayLineage.cfg MCGateway
    tlc -workers 2 -config DecisionChain.cfg MCDecisionModel
    tlapm GatewayProofs.tla
    tlapm DeltaProofs.tla
    tlapm DecisionProofs.tla
    tlapm ClassifierProofs.tla
    tlapm ParserProofs.tla
    tlc -workers 2 -config SystemService.cfg MCGatewaySystem
    tlc -workers 2 -config ParserStreams.cfg MCParserModel
    tlc -workers 2 -config ClassifierOperations.cfg MCClassifierModel
    tlapm MissionLedgerProofs.tla
    tlapm SystemProofs.tla
    tlapm SystemStationProofs.tla
