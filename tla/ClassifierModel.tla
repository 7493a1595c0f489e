-------------------------- MODULE ClassifierModel --------------------------
(***************************************************************************)
(* The frames the gateway sees and what it logs of each: its family and    *)
(* its operation (udp_gateway.cpp:612-627, 896-910).                       *)
(***************************************************************************)
EXTENDS SemanticClassifier

CONSTANTS
  MessageIds,    \* ids of messages without a command
  Commands,      \* MAV_CMD values
  Params         \* values of param1

VARIABLE logged

Message(direction, msgid, command, param1) ==
  [direction |-> direction, msgid |-> msgid, command |-> command, param1 |-> param1]
Frames ==
  {Message(d, m, "NONE", 0) : d \in Directions, m \in MessageIds}
    \cup {Message(d, m, c, p) : d \in Directions, m \in {"COMMAND_LONG", "COMMAND_INT"},
                                c \in Commands, p \in Params}

Classified(parsed) ==
  [message   |-> parsed,
   family    |-> classify_message_family(parsed),
   operation |-> classify_semantic_operation(parsed)]

Init == logged = {}

HandleFrame(parsed) == logged' = {Classified(parsed)}

Next == \E parsed \in Frames : HandleFrame(parsed)

Spec == Init /\ [][Next]_logged

-----------------------------------------------------------------------------
\* The operations a station's message of a family may ask for.
OperationsOf(family) ==
  CASE family = "COMMAND" ->
         {"ARM", "DISARM", "TAKEOFF", "LAND", "RTL", "MODE_CHANGE",
          "POSITION_TARGET", "READ_ONLY", "UNKNOWN_WRITE"}
    [] family = "PARAMETER" -> {"PARAMETER_WRITE"}
    [] family = "MISSION" -> {"MISSION_CHANGE"}
    [] family = "POSITION_OR_SETPOINT" -> {"POSITION_TARGET"}
    [] family = "MODE_OR_CONTROL" -> {"MODE_CHANGE", "DIRECT_CONTROL"}
    [] family = "OTHER" -> {"UNKNOWN_WRITE", "OTHER"}
    [] OTHER -> {family}

\* The lists the two classifications keep of the same messages agree: no
\* station's message has the family of a change and the operation of something
\* else, or the other way round (semantic_classifier.cpp:13-98, 202-258).
ClassificationsAgree ==
  \A entry \in logged :
    entry.message.direction = "GCS_TO_PX4" => entry.operation \in OperationsOf(entry.family)

PassiveOperations == {"READ_ONLY", "ACK_OR_RESPONSE", "STATE_EVIDENCE", "OTHER"}

\* Whatever PX4 sends, and whatever family it is of, it asks for no change:
\* every test for a change asks for the direction (semantic_classifier.cpp:
\* 167-258, 309).
OnlyStationsChange ==
  \A entry \in logged :
    entry.message.direction = "PX4_TO_GCS" => entry.operation \in PassiveOperations
=============================================================================
