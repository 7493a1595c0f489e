----------------------------- MODULE StateCache -----------------------------
(***************************************************************************)
(* The vehicle evidence the gateway derives from PX4 traffic and its       *)
(* freshness (state_cache.h, state_cache.cpp).  A cache is a function from *)
(* fields to evidence records.  The value of a field stands for what the   *)
(* message said; only armed and landed_state are ever read by the program. *)
(* Source ids go nowhere but the log and are left out, and so is age, which*)
(* every refresh computes anew.                                            *)
(***************************************************************************)
EXTENDS Integers

CONSTANTS
  Fields,      \* the fields of the cache an instance keeps
  Threshold    \* kEvidenceFreshnessThreshold

AllFields ==
  {"armed", "base_mode", "custom_mode", "system_status", "control_state",
   "failsafe_active", "landed_state", "global_position", "local_position",
   "mission_state", "system_health", "estimator_health"}

\* The fields a mission decision looks at.
DecisionFields == {"armed", "landed_state", "global_position"}

ASSUME FieldsAssumption == DecisionFields \subseteq Fields /\ Fields \subseteq AllFields
ASSUME ThresholdAssumption == Threshold \in Nat

EvidenceFreshness == {"FRESH", "STALE", "INVALID", "UNKNOWN"}
Messages ==
  {"HEARTBEAT", "EXTENDED_SYS_STATE", "GLOBAL_POSITION_INT", "LOCAL_POSITION_NED",
   "MISSION_CURRENT", "SYS_STATUS", "ESTIMATOR_STATUS"}
EvidenceValues == {"NONE", "ARMED", "DISARMED", "IN_AIR", "ON_GROUND"}

EvidenceField ==
  [value: EvidenceValues, observed_at: Nat, valid: BOOLEAN,
   freshness: EvidenceFreshness]

\* EvidenceField<T>{} and StateCache{}
NoEvidence ==
  [value |-> "NONE", observed_at |-> 0, valid |-> FALSE, freshness |-> "UNKNOWN"]
EmptyCache == [field \in Fields |-> NoEvidence]

FieldsOf(msgid) ==
  CASE msgid = "HEARTBEAT" -> {"armed", "base_mode", "custom_mode",
                               "system_status", "control_state", "failsafe_active"}
    [] msgid = "EXTENDED_SYS_STATE"  -> {"landed_state"}
    [] msgid = "GLOBAL_POSITION_INT" -> {"global_position"}
    [] msgid = "LOCAL_POSITION_NED"  -> {"local_position"}
    [] msgid = "MISSION_CURRENT"     -> {"mission_state"}
    [] msgid = "SYS_STATUS"          -> {"system_health"}
    [] msgid = "ESTIMATOR_STATUS"    -> {"estimator_health"}

\* Only messages of PX4 reach this operator: the caller is the PX4 branch of
\* the loop, which stamps the direction that the source tests first.
update_state_cache(cache, msgid, value, now) ==
  [field \in Fields |->
     IF field \in FieldsOf(msgid)
     THEN [value |-> value, observed_at |-> now, valid |-> TRUE,
           freshness |-> "FRESH"]
     ELSE cache[field]]

refresh_evidence_field(field, now) ==
  [field EXCEPT !.freshness =
     IF ~field.valid THEN (IF @ = "INVALID" THEN @ ELSE "UNKNOWN")
     ELSE IF now - field.observed_at <= Threshold THEN "FRESH" ELSE "STALE"]

refresh_state_freshness(cache, now) ==
  [field \in Fields |-> refresh_evidence_field(cache[field], now)]

\* Mutant: the copy keeps the flags of the last refresh.
make_stale_snapshot(cache, now) == cache

\* A copy of the cache, refreshed at the moment it is taken.
make_evidence_snapshot(cache, now) == refresh_state_freshness(cache, now)

evidence_is_usable(field) == field.valid /\ field.freshness = "FRESH"

=============================================================================
