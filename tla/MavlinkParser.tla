--------------------------- MODULE MavlinkParser ---------------------------
(***************************************************************************)
(* From datagrams to frames (mavlink_parser.cpp).  Bytes are taken in      *)
(* pieces: a frame is its pieces 1..Pieces, a datagram a sequence of       *)
(* pieces, of whole frames or not.  The parser of the MAVLink library      *)
(* keeps the frame it is in the middle of, for each channel, from one call *)
(* to the next; its magic byte is taken to occur only in the first piece.  *)
(***************************************************************************)
EXTENDS Naturals, SequencesExt

CONSTANT Pieces   \* pieces of a frame

ASSUME PiecesAssumption == Pieces \in Nat \ {0}

Directions == {"GCS_TO_PX4", "PX4_TO_GCS"}

\* A frame is known by its name.
Frames == STRING
AnyPiece == [frame: Frames, n: 1..Pieces]
Piece(frame, n) == [frame |-> frame, n |-> n]
Whole(frame) == [n \in 1..Pieces |-> Piece(frame, n)]

\* Mutant: a frame that is not intact is reported as the one it began as.
parse_char_unchecked(channel, piece) ==
  LET begun == Append(channel, piece) IN
  CASE channel = <<>> /\ piece.n # 1 -> [channel |-> <<>>, messages |-> <<>>]
    [] Len(begun) = Pieces -> [channel |-> <<>>, messages |-> <<begun[1].frame>>]
    [] OTHER -> [channel |-> begun, messages |-> <<>>]

\* mavlink_parse_char: between frames everything but a beginning is skipped, in
\* a frame as much is taken as its length says, and only a frame that is intact
\* is reported.
mavlink_parse_char(channel, piece) ==
  LET begun == IF channel = <<>> /\ piece.n # 1 THEN <<>> ELSE Append(channel, piece) IN
  IF Len(begun) < Pieces THEN [channel |-> begun, messages |-> <<>>]
  ELSE [channel  |-> <<>>,
        messages |-> IF begun = Whole(begun[1].frame) THEN <<begun[1].frame>> ELSE <<>>]

\* Mutant: the last message replaces those before it.
parse_next_last_message(parsed, piece) ==
  LET next == mavlink_parse_char(parsed.channel, piece) IN
  IF next.messages = <<>> THEN [next EXCEPT !.messages = parsed.messages] ELSE next

\* The body of the loop over the data: a message goes behind those before it.
parse_next(parsed, piece) ==
  LET next == mavlink_parse_char(parsed.channel, piece) IN
  [channel |-> next.channel, messages |-> parsed.messages \o next.messages]

\* parse_mavlink_data: the messages found in the data, and what the channel
\* keeps of it.
parse_mavlink_data(channel, data) ==
  LET parsed[i \in 0..Len(data)] ==
        IF i = 0 THEN [channel |-> channel, messages |-> <<>>]
        ELSE parse_next(parsed[i - 1], data[i])
  IN  parsed[Len(data)]

\* Mutant: one channel for everything.
same_channel(direction) == 0

\* Each direction has a channel of the library's parser, whoever sends.
channel_of(direction) == IF direction = "GCS_TO_PX4" THEN 0 ELSE 1
=============================================================================
