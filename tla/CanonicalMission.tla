-------------------------- MODULE CanonicalMission --------------------------
(***************************************************************************)
(* Canonical missions, their content hash and floating-point equality      *)
(* (canonical_mission.cpp, mission_revision.cpp).                          *)
(*                                                                         *)
(* A canonical item is a record with fields command, frame, x, z, param:   *)
(*   x      the horizontal position, in metres along a line (it stands for *)
(*          the pair lat/lon, which the code only uses through distances   *)
(*          and equality);                                                 *)
(*   z      the altitude in metres, a float;                               *)
(*   param  stands for param1..param4, current and autocontinue, which the *)
(*          code always uses together, as one float.                       *)
(* A mission is a record with fields mission_type and items, a sequence.   *)
(* The seq of an item is its index, since the buffer stores it there.      *)
(***************************************************************************)
EXTENDS MissionReconstructor, FloatValues

CanonicalItem ==
  [command: STRING, frame: STRING, x: Int, z: FloatValue, param: FloatValue]

\* The missions of one type.
CanonicalMissions(type) == [mission_type: {type}, items: Seq(CanonicalItem)]

ASSUME ItemAssumption == Items \cup {BlankItem} \subseteq CanonicalItem

make_canonical_mission(transaction) ==
  [mission_type |-> transaction.mission_type, items |-> transaction.items]

\* Two floats have the same text when both are NaN, or when they are equal
\* after -0.0 has become 0.0 (max_digits10 keeps any other two apart).
canonical_float(value) == Unsigned(value)

canonical_item(item) ==
  [item EXCEPT !.z = canonical_float(@), !.param = canonical_float(@)]

serialize_canonical_mission(mission) ==
  [mission EXCEPT !.items =
     [i \in DOMAIN mission.items |-> canonical_item(mission.items[i])]]

\* SHA-256 is taken to be injective on the serialisations a run produces,
\* so the serialisation stands for its digest.
compute_mission_hash(mission) == serialize_canonical_mission(mission)

make_mission_revision(id, mission) ==
  [id |-> id, hash |-> compute_mission_hash(mission), mission |-> mission]

=============================================================================
