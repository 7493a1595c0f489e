------------------------- MODULE MCClassifierModel -------------------------
(***************************************************************************)
(* Values for the constants of ClassifierModel.                            *)
(***************************************************************************)
EXTENDS ClassifierModel

\* Every id either classification knows, and two that neither knows.
MCMessageIds ==
  {"PARAM_SET", "PARAM_EXT_SET", "MISSION_COUNT", "MISSION_ITEM",
   "MISSION_ITEM_INT", "MISSION_CLEAR_ALL", "MISSION_SET_CURRENT",
   "MISSION_WRITE_PARTIAL_LIST", "SET_POSITION_TARGET_LOCAL_NED",
   "SET_POSITION_TARGET_GLOBAL_INT", "SET_MODE", "MANUAL_CONTROL",
   "RC_CHANNELS_OVERRIDE", "COMMAND_ACK", "MISSION_ACK", "PARAM_VALUE",
   "PARAM_EXT_ACK", "ATTITUDE", "ATTITUDE_QUATERNION", "PARAM_REQUEST_READ",
   "PARAM_REQUEST_LIST", "PARAM_EXT_REQUEST_READ", "PARAM_EXT_REQUEST_LIST",
   "MISSION_REQUEST_LIST", "MISSION_REQUEST", "MISSION_REQUEST_INT",
   "MISSION_REQUEST_PARTIAL_LIST", "REQUEST_EVENT", "PING", "SYSTEM_TIME",
   "TIMESYNC", "STATUSTEXT", "HEARTBEAT", "SYS_STATUS", "GLOBAL_POSITION_INT",
   "LOCAL_POSITION_NED", "EXTENDED_SYS_STATE", "MISSION_CURRENT"}

MCCommands ==
  {"COMPONENT_ARM_DISARM", "NAV_TAKEOFF", "NAV_LAND", "NAV_RETURN_TO_LAUNCH",
   "DO_SET_MODE", "DO_REPOSITION", "REQUEST_MESSAGE", "DO_SET_HOME"}

\* Below, at and above the limit of 0.5.
MCParams == {0, 5, 6, NaN}
=============================================================================
