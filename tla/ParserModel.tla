---------------------------- MODULE ParserModel ----------------------------
(***************************************************************************)
(* Datagrams of both directions, in any order, through the parser.         *)
(***************************************************************************)
EXTENDS MavlinkParser

CONSTANTS
  Datagrams,      \* what arrives: sequences of pieces
  MaxDatagrams    \* bound: datagrams of one direction

ASSUME DatagramsAssumption ==
  MaxDatagrams \in Nat /\ Datagrams \subseteq Seq(AnyPiece)

VARIABLES
  channels,       \* what the library keeps of a frame that is not complete
  received,       \* the datagrams of each direction
  reported        \* the messages found in each of them

vars == <<channels, received, reported>>

Init ==
  /\ channels = [channel \in 0..1 |-> <<>>]
  /\ received = [d \in Directions |-> <<>>]
  /\ reported = [d \in Directions |-> <<>>]

Receive(direction, data) ==
  LET channel == channel_of(direction)
      parsed  == parse_mavlink_data(channels[channel], data)
  IN
  /\ Len(received[direction]) < MaxDatagrams
  /\ channels' = [channels EXCEPT ![channel] = parsed.channel]
  /\ received' = [received EXCEPT ![direction] = Append(@, data)]
  /\ reported' = [reported EXCEPT ![direction] = Append(@, parsed.messages)]

Next == \E direction \in Directions, data \in Datagrams : Receive(direction, data)

Spec == Init /\ [][Next]_vars

-----------------------------------------------------------------------------
Messages(direction) == FlattenSeq(reported[direction])
Stream(direction) == FlattenSeq(received[direction])

\* What is reported of one direction is what its own datagrams hold, one after
\* the other, however those of the other direction come between them
\* (mavlink_parser.cpp:9).
DirectionsIndependent ==
  \A d \in Directions : Messages(d) = parse_mavlink_data(<<>>, Stream(d)).messages

\* Where in a stream a frame begins that is followed by the rest of it.
IntactFrames(stream) ==
  {i \in 1..(Len(stream) - Pieces + 1) :
     SubSeq(stream, i, i + Pieces - 1) = Whole(stream[i].frame)}

\* Every message was received in one piece, and the messages are reported in
\* the order they came, none of them twice (mavlink_parser.cpp:13-25): the k-th
\* message is the frame at the k-th of some places in the stream.
ReportedWereReceived ==
  \A d \in Directions :
    \E places \in SUBSET IntactFrames(Stream(d)) :
      /\ Len(Messages(d)) = Cardinality(places)
      /\ \A i \in places :
           Messages(d)[Cardinality({j \in places : j <= i})] = Stream(d)[i].frame

\* The frames of a datagram that consists of whole ones.
FramesOf(data) == [i \in 1..(Len(data) \div Pieces) |-> data[i * Pieces].frame]
WholeFrames(data) ==
  data = FlattenSeq([i \in DOMAIN FramesOf(data) |-> Whole(FramesOf(data)[i])])

\* Where only datagrams of whole frames arrive, each is reported frame by frame,
\* whatever arrives in the other direction (README.md:104).
WholeFramesReported ==
  \A d \in Directions :
    (\A k \in DOMAIN received[d] : WholeFrames(received[d][k])) =>
      \A k \in DOMAIN received[d] : reported[d][k] = FramesOf(received[d][k])

=============================================================================
