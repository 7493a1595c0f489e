------------------------- MODULE SemanticClassifier -------------------------
(***************************************************************************)
(* What kind of message the gateway takes a frame for: its family and the  *)
(* operation it asks for (semantic_classifier.cpp).  The two are coded     *)
(* separately, each with lists of message ids of its own, and so they are  *)
(* here.  A message is [direction, msgid, command, param1]; the last two   *)
(* matter in command messages only, and param1 is in tenths.               *)
(***************************************************************************)
EXTENDS Integers

CONSTANT NaN   \* a param1 that is not a number

Directions == {"GCS_TO_PX4", "PX4_TO_GCS"}

MessageFamily ==
  {"READ_ONLY", "COMMAND", "PARAMETER", "MISSION", "POSITION_OR_SETPOINT",
   "MODE_OR_CONTROL", "ACK_OR_RESPONSE", "STATE_EVIDENCE", "OTHER"}
SemanticOperation ==
  {"READ_ONLY", "ARM", "DISARM", "TAKEOFF", "LAND", "RTL", "MODE_CHANGE",
   "DIRECT_CONTROL", "PARAMETER_WRITE", "MISSION_CHANGE", "POSITION_TARGET",
   "ACK_OR_RESPONSE", "STATE_EVIDENCE", "UNKNOWN_WRITE", "OTHER"}

\* The messages of PX4 that are evidence of its state.
EvidenceMessages ==
  {"HEARTBEAT", "SYS_STATUS", "ATTITUDE", "ATTITUDE_QUATERNION",
   "GLOBAL_POSITION_INT", "LOCAL_POSITION_NED", "EXTENDED_SYS_STATE"}

classify_message_family(parsed) ==
  LET IsOneOf(msgids) == parsed.msgid \in msgids IN
  CASE IsOneOf({"COMMAND_LONG", "COMMAND_INT"}) -> "COMMAND"
    [] IsOneOf({"PARAM_SET", "PARAM_EXT_SET"}) -> "PARAMETER"
    [] IsOneOf({"MISSION_COUNT", "MISSION_ITEM", "MISSION_ITEM_INT",
                "MISSION_CLEAR_ALL", "MISSION_SET_CURRENT",
                "MISSION_WRITE_PARTIAL_LIST"}) -> "MISSION"
    [] IsOneOf({"SET_POSITION_TARGET_LOCAL_NED",
                "SET_POSITION_TARGET_GLOBAL_INT"}) -> "POSITION_OR_SETPOINT"
    [] IsOneOf({"SET_MODE", "MANUAL_CONTROL",
                "RC_CHANNELS_OVERRIDE"}) -> "MODE_OR_CONTROL"
    [] IsOneOf({"COMMAND_ACK", "MISSION_ACK", "PARAM_VALUE",
                "PARAM_EXT_ACK"}) -> "ACK_OR_RESPONSE"
    [] parsed.direction = "PX4_TO_GCS" /\ IsOneOf(EvidenceMessages) -> "STATE_EVIDENCE"
    [] IsOneOf({"PARAM_REQUEST_READ", "PARAM_REQUEST_LIST",
                "PARAM_EXT_REQUEST_READ", "PARAM_EXT_REQUEST_LIST",
                "MISSION_REQUEST_LIST", "MISSION_REQUEST",
                "MISSION_REQUEST_INT", "MISSION_REQUEST_PARTIAL_LIST",
                "REQUEST_EVENT"}) -> "READ_ONLY"
    [] OTHER -> "OTHER"

\* A comparison with NaN is false.
map_mav_cmd(command, param1) ==
  CASE command = "COMPONENT_ARM_DISARM" ->
         IF param1 # NaN /\ param1 > 5 THEN "ARM" ELSE "DISARM"
    [] command = "NAV_TAKEOFF" -> "TAKEOFF"
    [] command = "NAV_LAND" -> "LAND"
    [] command = "NAV_RETURN_TO_LAUNCH" -> "RTL"
    [] command = "DO_SET_MODE" -> "MODE_CHANGE"
    [] command = "DO_REPOSITION" -> "POSITION_TARGET"
    [] command = "REQUEST_MESSAGE" -> "READ_ONLY"
    [] OTHER -> "UNKNOWN_WRITE"

\* Mutant: the direction of a message is not asked for.
FromAnyone(parsed, msgids) == parsed.msgid \in msgids

FromStation(parsed, msgids) ==
  parsed.direction = "GCS_TO_PX4" /\ parsed.msgid \in msgids

\* Mutant: a partial list is forgotten among the changes.
WholeMissionChanges ==
  {"MISSION_COUNT", "MISSION_ITEM", "MISSION_ITEM_INT", "MISSION_CLEAR_ALL",
   "MISSION_SET_CURRENT"}

\* The messages of a station that change a mission.
MissionChanges ==
  {"MISSION_COUNT", "MISSION_ITEM", "MISSION_ITEM_INT", "MISSION_CLEAR_ALL",
   "MISSION_SET_CURRENT", "MISSION_WRITE_PARTIAL_LIST"}

\* The operation a family stands for, whoever sent the message.
PassiveOperation(parsed) ==
  LET family == classify_message_family(parsed) IN
  IF family \in {"READ_ONLY", "ACK_OR_RESPONSE", "STATE_EVIDENCE"} THEN family
  ELSE IF /\ parsed.direction = "GCS_TO_PX4"
          /\ parsed.msgid \notin {"HEARTBEAT", "PING", "SYSTEM_TIME", "TIMESYNC"}
       THEN "UNKNOWN_WRITE"
  ELSE "OTHER"

classify_semantic_operation(parsed) ==
  CASE FromStation(parsed, {"COMMAND_LONG", "COMMAND_INT"}) ->
         map_mav_cmd(parsed.command, parsed.param1)
    [] FromStation(parsed, {"PARAM_SET", "PARAM_EXT_SET"}) -> "PARAMETER_WRITE"
    [] FromStation(parsed, MissionChanges) -> "MISSION_CHANGE"
    [] FromStation(parsed, {"SET_POSITION_TARGET_LOCAL_NED",
                            "SET_POSITION_TARGET_GLOBAL_INT"}) -> "POSITION_TARGET"
    [] FromStation(parsed, {"SET_MODE"}) -> "MODE_CHANGE"
    [] FromStation(parsed, {"MANUAL_CONTROL", "RC_CHANNELS_OVERRIDE"}) -> "DIRECT_CONTROL"
    [] OTHER -> PassiveOperation(parsed)
=============================================================================
