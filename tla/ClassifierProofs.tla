-------------------------- MODULE ClassifierProofs --------------------------
(***************************************************************************)
(* The two classifications agree for every message id, command and         *)
(* parameter, also for those in no list of the code.                       *)
(***************************************************************************)
EXTENDS ClassifierModel, TLAPS

\* A command asks for an operation of the family of commands.
LEMMA CommandOperations ==
  ASSUME NEW command, NEW param1
  PROVE  map_mav_cmd(command, param1) \in OperationsOf("COMMAND")
BY DEF map_mav_cmd, OperationsOf

\* What a station sends has an operation of its family.
LEMMA StationAgrees ==
  ASSUME NEW parsed, parsed.direction = "GCS_TO_PX4"
  PROVE  classify_semantic_operation(parsed)
           \in OperationsOf(classify_message_family(parsed))
<1> DEFINE family == classify_message_family(parsed)
           operation == classify_semantic_operation(parsed)
<1> USE DEF MissionChanges, EvidenceMessages
<1>1. CASE parsed.msgid \in {"COMMAND_LONG", "COMMAND_INT"}
  <2>1. family = "COMMAND"
    BY <1>1 DEF classify_message_family
  <2>2. operation = map_mav_cmd(parsed.command, parsed.param1)
    BY <1>1 DEF classify_semantic_operation, FromStation
  <2> QED BY <2>1, <2>2, CommandOperations
<1>2. CASE parsed.msgid \in {"PARAM_SET", "PARAM_EXT_SET"}
  <2>1. family = "PARAMETER"
    BY <1>2 DEF classify_message_family
  <2>2. operation = "PARAMETER_WRITE"
    BY <1>2 DEF classify_semantic_operation, FromStation
  <2> QED BY <2>1, <2>2 DEF OperationsOf
<1>3. CASE parsed.msgid \in MissionChanges
  <2>1. family = "MISSION"
    BY <1>3 DEF classify_message_family
  <2>2. operation = "MISSION_CHANGE"
    BY <1>3 DEF classify_semantic_operation, FromStation
  <2> QED BY <2>1, <2>2 DEF OperationsOf
<1>4. CASE parsed.msgid \in {"SET_POSITION_TARGET_LOCAL_NED", "SET_POSITION_TARGET_GLOBAL_INT"}
  <2>1. family = "POSITION_OR_SETPOINT"
    BY <1>4 DEF classify_message_family
  <2>2. operation = "POSITION_TARGET"
    BY <1>4 DEF classify_semantic_operation, FromStation
  <2> QED BY <2>1, <2>2 DEF OperationsOf
<1>5. CASE parsed.msgid \in {"SET_MODE", "MANUAL_CONTROL", "RC_CHANNELS_OVERRIDE"}
  <2>1. family = "MODE_OR_CONTROL"
    BY <1>5 DEF classify_message_family
  <2>2. operation \in {"MODE_CHANGE", "DIRECT_CONTROL"}
    BY <1>5 DEF classify_semantic_operation, FromStation
  <2> QED BY <2>1, <2>2 DEF OperationsOf
<1>6. CASE parsed.msgid \notin
             {"COMMAND_LONG", "COMMAND_INT", "PARAM_SET", "PARAM_EXT_SET",
              "SET_POSITION_TARGET_LOCAL_NED", "SET_POSITION_TARGET_GLOBAL_INT",
              "SET_MODE", "MANUAL_CONTROL", "RC_CHANNELS_OVERRIDE"} \cup MissionChanges
  <2>1. family \in {"ACK_OR_RESPONSE", "READ_ONLY", "OTHER"}
    BY <1>6 DEF classify_message_family, MissionChanges
  <2>2. operation = PassiveOperation(parsed)
    BY <1>6 DEF classify_semantic_operation, FromStation
  <2>3. operation = family \/ (family = "OTHER" /\ operation \in {"UNKNOWN_WRITE", "OTHER"})
    <3> HIDE DEF family
    <3> QED BY <2>1, <2>2 DEF PassiveOperation, family
  <2> HIDE DEF family, operation
  <2>4. operation \in OperationsOf(family)
    BY <2>1, <2>3 DEF OperationsOf
  <2> QED BY <2>4 DEF family, operation
<1> QED BY <1>1, <1>2, <1>3, <1>4, <1>5, <1>6

\* What PX4 sends is passive, whatever it is.
LEMMA Px4IsPassive ==
  ASSUME NEW parsed, parsed.direction = "PX4_TO_GCS"
  PROVE  classify_semantic_operation(parsed) \in PassiveOperations
<1> DEFINE family == classify_message_family(parsed)
<1>1. classify_semantic_operation(parsed) = PassiveOperation(parsed)
  BY DEF classify_semantic_operation, FromStation
<1>2. PassiveOperation(parsed)
        = IF family \in {"READ_ONLY", "ACK_OR_RESPONSE", "STATE_EVIDENCE"} THEN family
          ELSE "OTHER"
  <2> HIDE DEF family
  <2> QED BY DEF PassiveOperation, family
<1> HIDE DEF family
<1> QED BY <1>1, <1>2 DEF PassiveOperations

\* Everything that is logged is a message with its two classifications.
LoggedInv ==
  \A entry \in logged :
    /\ entry.family = classify_message_family(entry.message)
    /\ entry.operation = classify_semantic_operation(entry.message)

\* Nothing is logged at first, and each frame is classified on its own.
LEMMA LoggedInvariant == Spec => []LoggedInv
<1>1. Init => LoggedInv
  BY DEF Init, LoggedInv
<1>2. LoggedInv /\ [Next]_logged => LoggedInv'
  BY DEF LoggedInv, Next, HandleFrame, Classified
<1> QED BY <1>1, <1>2, PTL DEF Spec

\* A station's message has the operation of its family, for every id, command
\* and parameter.
THEOREM FamiliesAndOperationsAgree == Spec => []ClassificationsAgree
<1>1. LoggedInv => ClassificationsAgree
  BY StationAgrees DEF LoggedInv, ClassificationsAgree
<1> QED BY <1>1, LoggedInvariant, PTL

\* PX4 never asks for a change.
THEOREM Px4AsksForNoChange == Spec => []OnlyStationsChange
<1>1. LoggedInv => OnlyStationsChange
  BY Px4IsPassive DEF LoggedInv, OnlyStationsChange
<1> QED BY <1>1, LoggedInvariant, PTL
=============================================================================
