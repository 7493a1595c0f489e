---------------------------- MODULE FloatValues ----------------------------
(***************************************************************************)
(* The floats of a mission item, as far as the program tells them apart:   *)
(* integers, NegZero (-0.0) and NaN.  Infinities are left out.             *)
(***************************************************************************)
EXTENDS Integers

CONSTANTS NaN, NegZero

ASSUME FloatAssumption == NaN # NegZero /\ NaN \notin Int /\ NegZero \notin Int

FloatValue == Int \cup {NegZero, NaN}

\* C++ operator== on floats: -0.0 equals 0.0, and NaN equals nothing.
Unsigned(value) == IF value = NegZero THEN 0 ELSE value
float_equal(a, b) == a # NaN /\ b # NaN /\ Unsigned(a) = Unsigned(b)

=============================================================================
