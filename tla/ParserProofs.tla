---------------------------- MODULE ParserProofs ----------------------------
(***************************************************************************)
(* The parser, for frames of any number of pieces and datagrams of any     *)
(* length: the directions do not disturb each other, every message was     *)
(* received in one piece and in this order, and datagrams of whole frames  *)
(* are reported frame by frame.                                            *)
(*                                                                         *)
(* What a loop over a sequence computes is described by the sequence of    *)
(* its states; induction is stated with sets, so that a fact to be proved  *)
(* by induction is membership in a set.                                    *)
(***************************************************************************)
EXTENDS ParserModel, SequenceTheorems, FiniteSetTheorems, WellFoundedInduction, TLAPS

-----------------------------------------------------------------------------
(* Induction and loops                                                      *)

\* The smallest number outside a set that holds 0 would follow a number in it.
LEMMA NumberInduction ==
  ASSUME NEW S, 0 \in S, \A n \in Nat : n \in S => n + 1 \in S
  PROVE  Nat \subseteq S
<1> SUFFICES ASSUME Nat \ S # {} PROVE FALSE
  OBVIOUS
<1> DEFINE lt == OpToRel(<, Nat)
           T == Nat \ S
<1>1. PICK n \in T : \A m \in T : ~(<<m, n>> \in lt)
  <2>1. T \subseteq Nat /\ T # {}
    OBVIOUS
  <2>2. IsWellFoundedOn(lt, Nat)
    BY NatLessThanWellFounded, Zenon
  <2> HIDE DEF T, lt
  <2> QED BY <2>1, <2>2, WFMin, Zenon
<1>2. n - 1 \in Nat /\ n - 1 \in T
  OBVIOUS
<1>3. <<n - 1, n>> \in lt
  BY <1>2 DEF OpToRel
<1> HIDE DEF lt, T
<1> QED BY <1>1, <1>2, <1>3, Zenon

\* Induction up to a number.
LEMMA InductionUpTo ==
  ASSUME NEW N \in Nat, NEW S, 0 \in S, \A n \in 1..N : n - 1 \in S => n \in S
  PROVE  0..N \subseteq S
<1> DEFINE T == {n \in Nat : n <= N => n \in S}
<1>1. 0 \in T
  OBVIOUS
<1>2. ASSUME NEW n \in Nat, n \in T PROVE n + 1 \in T
  <2>1. n + 1 \in 1..N => (n + 1) - 1 \in S
    BY <1>2
  <2> QED BY <2>1
<1> HIDE DEF T
<1>3. Nat \subseteq T
  BY <1>1, <1>2, NumberInduction
<1> QED BY <1>3 DEF T

\* Induction on sequences, from the empty one by what comes behind.
LEMMA AppendInduction ==
  ASSUME NEW A, NEW T, <<>> \in T,
         \A s \in Seq(A), x \in A : s \in T => Append(s, x) \in T
  PROVE  Seq(A) \subseteq T
<1> DEFINE S == {n \in Nat : \A s \in Seq(A) : Len(s) = n => s \in T}
<1>1. 0 \in S
  BY EmptySeq
<1>2. ASSUME NEW n \in Nat, n \in S PROVE n + 1 \in S
  <2> SUFFICES ASSUME NEW s \in Seq(A), Len(s) = n + 1 PROVE s \in T
    OBVIOUS
  <2>1. PICK r \in Seq(A), x \in A : s = Append(r, x)
    BY SequenceEmptyOrAppend
  <2>2. Len(r) = n
    BY <2>1
  <2> QED BY <1>2, <2>1, <2>2
<1> HIDE DEF S
<1>3. Nat \subseteq S
  BY <1>1, <1>2, NumberInduction
<1> QED BY <1>3 DEF S

\* A loop that runs N times over a state in V has its sequence of states.
LoopOver(N, V, v0, G) == N \in Nat /\ v0 \in V /\ G \in [V \X (1..N) -> V]
States(N, V, v0, G, f) ==
  f \in [0..N -> V] /\ f[0] = v0 /\ \A i \in 1..N : f[i] = G[<<f[i - 1], i>>]

\* Every such loop has one.
LEMMA StatesExist ==
  ASSUME NEW N, NEW V, NEW v0, NEW G, LoopOver(N, V, v0, G)
  PROVE  \E f : States(N, V, v0, G, f)
<1> N \in Nat /\ v0 \in V /\ G \in [V \X (1..N) -> V]
  BY DEF LoopOver
<1> DEFINE S == {n \in Nat : n <= N => \E f : States(n, V, v0, G, f)}
<1>1. 0 \in S
  <2>1. States(0, V, v0, G, [i \in 0..0 |-> v0])
    BY DEF States
  <2> QED BY <2>1
<1>2. ASSUME NEW n \in Nat, n \in S PROVE n + 1 \in S
  <2> SUFFICES ASSUME n + 1 <= N, NEW f, States(n, V, v0, G, f)
               PROVE  \E g : States(n + 1, V, v0, G, g)
    BY <1>2
  <2> DEFINE g == [i \in 0..n + 1 |-> IF i = n + 1 THEN G[<<f[n], n + 1>>] ELSE f[i]]
  <2>1. f \in [0..n -> V] /\ f[0] = v0 /\ \A i \in 1..n : f[i] = G[<<f[i - 1], i>>]
    BY DEF States
  <2>2. g \in [0..n + 1 -> V] /\ g[0] = v0
    BY <2>1
  <2>3. ASSUME NEW i \in 1..n + 1 PROVE g[i] = G[<<g[i - 1], i>>]
    <3>1. i - 1 \in 0..n + 1 /\ i - 1 # n + 1 /\ i \in 0..n + 1
      OBVIOUS
    <3>2. g[i - 1] = f[i - 1] /\ g[i] = IF i = n + 1 THEN G[<<f[n], n + 1>>] ELSE f[i]
      BY <3>1
    <3>3. CASE i = n + 1
      <4>1. i - 1 = n
        BY <3>3
      <4> HIDE DEF g
      <4> QED BY <3>2, <3>3, <4>1
    <3>4. CASE i # n + 1
      <4>1. i \in 1..n
        BY <3>4
      <4> HIDE DEF g
      <4> QED BY <2>1, <3>2, <3>4, <4>1
    <3> QED BY <3>3, <3>4
  <2> HIDE DEF g
  <2> QED BY <2>2, <2>3 DEF States
<1> HIDE DEF S
<1>3. N \in S
  BY <1>1, <1>2, NumberInduction
<1> QED BY <1>3 DEF S

-----------------------------------------------------------------------------
(* The concatenation of sequences                                           *)

\* What the concatenation holds after each of the sequences.
Concatenated(ss, S, f) ==
  /\ f \in [0..Len(ss) -> Seq(S)] /\ f[0] = <<>>
  /\ \A i \in 1..Len(ss) : f[i] = f[i - 1] \o ss[i]
  /\ FlattenSeq(ss) = f[Len(ss)]

\* The concatenation is computed step by step.
LEMMA FlattenStates ==
  ASSUME NEW S, NEW ss \in Seq(Seq(S))
  PROVE  \E f : Concatenated(ss, S, f)
<1> DEFINE n == Len(ss)
           V == Seq(S)
           G == [x \in V \X (1..n) |-> x[1] \o ss[x[2]]]
           body(u) == [i \in 1..n |-> IF i = 1 THEN ss[i] ELSE u[i - 1] \o ss[i]]
<1>0. n \in Nat /\ \A i \in 1..n : ss[i] \in V
  OBVIOUS
<1>e. <<>> \in V /\ \A s \in V : <<>> \o s = s
  OBVIOUS
<1>c. \A s \in V, t \in V : s \o t \in V
  OBVIOUS
<1>1. CASE n = 0
  <2> DEFINE f == [i \in 0..0 |-> <<>>]
  <2>1. ss = <<>> /\ FlattenSeq(ss) = <<>>
    BY <1>1, EmptySeq DEF FlattenSeq
  <2>2. f \in [0..Len(ss) -> Seq(S)] /\ f[0] = <<>> /\ f[Len(ss)] = <<>>
    BY <1>1
  <2>3. \A i \in 1..Len(ss) : f[i] = f[i - 1] \o ss[i]
    BY <1>1
  <2> HIDE DEF f
  <2> QED BY <2>1, <2>2, <2>3 DEF Concatenated
<1>2. CASE n # 0
  <2> HIDE DEF V
  <2>1. LoopOver(n, V, <<>>, G)
    <3> HIDE DEF n
    <3> QED BY <1>0, <1>e, <1>c DEF LoopOver
  <2>2. PICK h : States(n, V, <<>>, G, h)
    <3> HIDE DEF G, n
    <3> QED BY <2>1, StatesExist
  <2>3. \E u : u = body(u)
    <3> DEFINE u == [i \in 1..n |-> h[i]]
    <3>1. h \in [0..n -> V] /\ h[0] = <<>> /\ \A i \in 1..n : h[i] = G[<<h[i - 1], i>>]
      BY <2>2 DEF States
    <3> HIDE DEF n
    <3>2. \A i \in 1..n : i - 1 \in 0..n /\ h[i - 1] \in V
      BY <1>0, <3>1
    <3>3. \A i \in 1..n : h[i] = h[i - 1] \o ss[i]
      BY <3>1, <3>2
    <3>4. ASSUME NEW i \in 1..n PROVE u[i] = IF i = 1 THEN ss[i] ELSE u[i - 1] \o ss[i]
      <4>1. CASE i = 1
        BY <1>0, <1>e, <3>1, <3>3, <4>1
      <4>2. CASE i # 1
        <5>1. i - 1 \in 1..n
          BY <1>0, <4>2
        <5> QED BY <3>3, <4>2, <5>1
      <4> QED BY <4>1, <4>2
    <3>5. u = body(u)
      BY <3>4
    <3> HIDE DEF u, body
    <3> QED BY <3>5
  <2> DEFINE u == CHOOSE w : w = body(w)
  <2>4. u = body(u)
    <3> HIDE DEF body
    <3> QED BY <2>3, Zenon
  <2>5. FlattenSeq(ss) = u[n]
    BY <1>2, Zenon DEF FlattenSeq
  <2> HIDE DEF u, n
  <2>6. \A i \in 1..n : u[i] = IF i = 1 THEN ss[i] ELSE u[i - 1] \o ss[i]
    BY <2>4
  <2> HIDE DEF body
  <2> DEFINE f == [i \in 0..n |-> IF i = 0 THEN <<>> ELSE u[i]]
             T == {i \in 0..n : f[i] \in V}
  <2>7. ASSUME NEW i \in 1..n PROVE f[i] = f[i - 1] \o ss[i]
    <3>1. i \in 0..n /\ i - 1 \in 0..n /\ i # 0 /\ ss[i] \in V
      BY <1>0
    <3>2. f[i] = u[i] /\ f[i - 1] = IF i - 1 = 0 THEN <<>> ELSE u[i - 1]
      BY <3>1
    <3> HIDE DEF f
    <3>3. CASE i = 1
      BY <1>e, <2>6, <3>1, <3>2, <3>3
    <3>4. CASE i # 1
      <4>1. i - 1 # 0
        BY <1>0, <3>4
      <4>2. f[i] = u[i] /\ f[i - 1] = u[i - 1]
        BY <3>2, <4>1, Zenon
      <4> QED BY <2>6, <3>4, <4>2, Zenon
    <3> QED BY <3>3, <3>4
  <2>8. f[0] = <<>> /\ f[n] = u[n] /\ f = [i \in 0..n |-> f[i]]
    BY <1>0, <1>2
  <2> HIDE DEF f
  <2>9. 0 \in T /\ \A i \in 1..n : i - 1 \in T => i \in T
    <3>1. 0 \in 0..n
      BY <1>0
    <3>2. ASSUME NEW i \in 1..n, f[i - 1] \in V PROVE f[i] \in V /\ i \in 0..n
      <4>1. i \in 0..n /\ ss[i] \in V
        BY <1>0
      <4>2. f[i] = f[i - 1] \o ss[i]
        BY <2>7, Zenon
      <4> QED BY <1>c, <3>2, <4>1, <4>2, Zenon
    <3> QED BY <1>e, <2>8, <3>1, <3>2
  <2>10. 0..n \subseteq T
    <3> HIDE DEF T
    <3> QED BY <1>0, <2>9, InductionUpTo
  <2>11. f \in [0..n -> V]
    BY <2>8, <2>10
  <2>12. Concatenated(ss, S, f)
    BY <2>5, <2>7, <2>8, <2>11 DEF Concatenated, n, V
  <2> QED BY <2>12
<1> QED BY <1>1, <1>2

\* A sequence behind the others goes behind what they hold.
LEMMA FlattenAppend ==
  ASSUME NEW S, NEW ss \in Seq(Seq(S)), NEW x \in Seq(S)
  PROVE  /\ FlattenSeq(ss) \in Seq(S)
         /\ FlattenSeq(Append(ss, x)) = FlattenSeq(ss) \o x
<1> DEFINE n == Len(ss)
           ssx == Append(ss, x)
<1>1. n \in Nat /\ ssx \in Seq(Seq(S)) /\ Len(ssx) = n + 1 /\ ssx[n + 1] = x
  OBVIOUS
<1>2. \A i \in 1..n : ssx[i] = ss[i]
  OBVIOUS
<1>3. PICK f : Concatenated(ss, S, f)
  BY FlattenStates
<1>4. PICK g : Concatenated(ssx, S, g)
  <2> HIDE DEF ssx
  <2> QED BY <1>1, FlattenStates
<1> DEFINE T == {i \in 0..n : g[i] = f[i]}
<1>5. /\ f \in [0..n -> Seq(S)] /\ f[0] = <<>> /\ FlattenSeq(ss) = f[n]
      /\ \A i \in 1..n : f[i] = f[i - 1] \o ss[i]
  BY <1>3 DEF Concatenated
<1>6. /\ g[0] = <<>> /\ FlattenSeq(ssx) = g[n + 1]
      /\ \A i \in 1..n + 1 : g[i] = g[i - 1] \o ssx[i]
  BY <1>1, <1>4 DEF Concatenated
<1> HIDE DEF n, ssx
<1>7. 0 \in T /\ \A i \in 1..n : i - 1 \in T => i \in T
  <2>1. 0 \in 0..n
    BY <1>1
  <2>2. ASSUME NEW i \in 1..n, g[i - 1] = f[i - 1] PROVE g[i] = f[i] /\ i \in 0..n
    <3>1. i \in 1..n + 1 /\ i \in 0..n
      BY <1>1
    <3> QED BY <1>2, <1>5, <1>6, <2>2, <3>1
  <2> QED BY <1>5, <1>6, <2>1, <2>2
<1>8. g[n] = f[n]
  <2> HIDE DEF T
  <2>1. 0..n \subseteq T
    BY <1>1, <1>7, InductionUpTo
  <2>2. n \in T
    BY <1>1, <2>1
  <2> QED BY <2>2 DEF T
<1>9. g[n + 1] = g[n] \o x
  <2>1. n + 1 \in 1..n + 1 /\ (n + 1) - 1 = n
    BY <1>1
  <2> QED BY <1>1, <1>6, <2>1
<1> QED BY <1>1, <1>5, <1>6, <1>8, <1>9 DEF ssx

-----------------------------------------------------------------------------
(* The parser on a sequence of pieces                                       *)

Parsed == [channel: Seq(AnyPiece), messages: Seq(Frames)]

\* What has been parsed after each of the pieces.
ParsedUpTo(channel, data, f) ==
  /\ f \in [0..Len(data) -> Parsed] /\ f[0] = [channel |-> channel, messages |-> <<>>]
  /\ \A i \in 1..Len(data) : f[i] = parse_next(f[i - 1], data[i])
  /\ parse_mavlink_data(channel, data) = f[Len(data)]

\* What mavlink_parse_char keeps and reports.
LEMMA ParseCharType ==
  ASSUME NEW channel \in Seq(AnyPiece), NEW piece \in AnyPiece
  PROVE  mavlink_parse_char(channel, piece) \in Parsed
<1> DEFINE begun == IF channel = <<>> /\ piece.n # 1 THEN <<>> ELSE Append(channel, piece)
           next == mavlink_parse_char(channel, piece)
<1>1. begun \in Seq(AnyPiece) /\ <<>> \in Seq(Frames)
  OBVIOUS
<1>2. next = IF Len(begun) < Pieces THEN [channel |-> begun, messages |-> <<>>]
             ELSE [channel  |-> <<>>,
                   messages |-> IF begun = Whole(begun[1].frame) THEN <<begun[1].frame>>
                                ELSE <<>>]
  BY DEF mavlink_parse_char
<1> SUFFICES next \in Parsed
  OBVIOUS
<1> HIDE DEF begun, next
<1>3. CASE Len(begun) < Pieces
  BY <1>1, <1>2, <1>3 DEF Parsed
<1>4. CASE ~(Len(begun) < Pieces)
  <2>1. begun[1] \in AnyPiece
    BY <1>1, <1>4, PiecesAssumption
  <2>2. <<begun[1].frame>> \in Seq(Frames)
    BY <2>1 DEF AnyPiece
  <2> QED BY <1>1, <1>2, <1>4, <2>2, EmptySeq DEF Parsed
<1> QED BY <1>3, <1>4

\* One more piece keeps the type.
LEMMA ParseNextType ==
  ASSUME NEW parsed \in Parsed, NEW piece \in AnyPiece
  PROVE  parse_next(parsed, piece) \in Parsed
<1> DEFINE next == mavlink_parse_char(parsed.channel, piece)
<1>1. parsed.channel \in Seq(AnyPiece) /\ parsed.messages \in Seq(Frames)
  BY DEF Parsed
<1>2. next \in Parsed
  BY <1>1, ParseCharType
<1> HIDE DEF next
<1>3. next.channel \in Seq(AnyPiece) /\ parsed.messages \o next.messages \in Seq(Frames)
  BY <1>1, <1>2 DEF Parsed
<1> QED BY <1>3 DEF parse_next, next, Parsed

\* parse_mavlink_data goes through the data piece by piece.
LEMMA ParsedStates ==
  ASSUME NEW channel \in Seq(AnyPiece), NEW data \in Seq(AnyPiece)
  PROVE  \E f : ParsedUpTo(channel, data, f)
<1> DEFINE n == Len(data)
           v0 == [channel |-> channel, messages |-> <<>>]
           step(v, i) == parse_next(v, data[i])
           G == [x \in Parsed \X (1..n) |-> step(x[1], x[2])]
           body(f) == [i \in 0..n |-> IF i = 0 THEN v0 ELSE step(f[i - 1], i)]
<1>1. n \in Nat /\ \A i \in 1..n : data[i] \in AnyPiece
  OBVIOUS
<1>2. v0 \in Parsed
  BY EmptySeq DEF Parsed
<1>3. ASSUME NEW v \in Parsed, NEW i \in 1..n PROVE step(v, i) \in Parsed
  BY <1>1, ParseNextType
<1>d. parse_mavlink_data(channel, data) = (CHOOSE w : w = body(w))[n]
  BY Zenon DEF parse_mavlink_data
<1> HIDE DEF n, v0, step
<1>4. LoopOver(n, Parsed, v0, G)
  BY <1>1, <1>2, <1>3 DEF LoopOver
<1>5. PICK h : States(n, Parsed, v0, G, h)
  <2> HIDE DEF G
  <2> QED BY <1>4, StatesExist
<1>6. h \in [0..n -> Parsed] /\ h[0] = v0 /\ \A i \in 1..n : h[i] = G[<<h[i - 1], i>>]
  BY <1>5 DEF States
<1>7. \A i \in 1..n : i - 1 \in 0..n
  BY <1>1
<1>8. \A i \in 1..n : h[i] = step(h[i - 1], i)
  BY <1>6, <1>7
<1>9. \E w : w = body(w)
  <2>1. ASSUME NEW i \in 0..n PROVE h[i] = IF i = 0 THEN v0 ELSE step(h[i - 1], i)
    <3>1. i # 0 => i \in 1..n
      BY <1>1
    <3> QED BY <1>6, <1>8, <3>1
  <2>2. h = body(h)
    <3> HIDE DEF G
    <3> QED BY <1>6, <2>1
  <2> HIDE DEF body
  <2> QED BY <2>2
<1> DEFINE u == CHOOSE w : w = body(w)
           T == {i \in 0..n : u[i] \in Parsed}
<1>10. u = body(u)
  <2> HIDE DEF body
  <2> QED BY <1>9, Zenon
<1> HIDE DEF u
<1>11. \A i \in 0..n : u[i] = IF i = 0 THEN v0 ELSE step(u[i - 1], i)
  BY <1>10, Zenon
<1>12. 0 \in 0..n /\ \A i \in 1..n : i \in 0..n /\ i # 0
  BY <1>1
<1>13. u[0] = v0 /\ \A i \in 1..n : u[i] = step(u[i - 1], i)
  BY <1>11, <1>12, Zenon
<1>14. 0 \in T /\ \A i \in 1..n : i - 1 \in T => i \in T
  BY <1>2, <1>3, <1>12, <1>13
<1>15. 0..n \subseteq T
  <2> HIDE DEF T
  <2> QED BY <1>1, <1>14, InductionUpTo
<1>16. u \in [0..n -> Parsed]
  BY <1>10, <1>15
<1> QED BY <1>d, <1>13, <1>16, Zenon DEF ParsedUpTo, u, n, v0, step

\* Nothing is parsed in nothing.
LEMMA ParseEmpty ==
  ASSUME NEW channel \in Seq(AnyPiece)
  PROVE  parse_mavlink_data(channel, <<>>) = [channel |-> channel, messages |-> <<>>]
<1>1. <<>> \in Seq(AnyPiece) /\ Len(<<>>) = 0
  OBVIOUS
<1>2. PICK f : ParsedUpTo(channel, <<>>, f)
  BY <1>1, ParsedStates
<1> QED BY <1>1, <1>2 DEF ParsedUpTo

\* A piece behind the others is parsed after them.
LEMMA ParseAppend ==
  ASSUME NEW channel \in Seq(AnyPiece), NEW data \in Seq(AnyPiece), NEW piece \in AnyPiece
  PROVE  /\ parse_mavlink_data(channel, data) \in Parsed
         /\ parse_mavlink_data(channel, Append(data, piece))
              = parse_next(parse_mavlink_data(channel, data), piece)
<1> DEFINE n == Len(data)
           more == Append(data, piece)
<1>1. n \in Nat /\ more \in Seq(AnyPiece) /\ Len(more) = n + 1 /\ more[n + 1] = piece
  OBVIOUS
<1>2. \A i \in 1..n : more[i] = data[i]
  OBVIOUS
<1>3. PICK f : ParsedUpTo(channel, data, f)
  BY ParsedStates
<1>4. PICK g : ParsedUpTo(channel, more, g)
  <2> HIDE DEF more
  <2> QED BY <1>1, ParsedStates
<1> DEFINE T == {i \in 0..n : g[i] = f[i]}
           v0 == [channel |-> channel, messages |-> <<>>]
<1>5. /\ f \in [0..n -> Parsed] /\ f[0] = v0 /\ parse_mavlink_data(channel, data) = f[n]
      /\ \A i \in 1..n : f[i] = parse_next(f[i - 1], data[i])
  BY <1>3 DEF ParsedUpTo
<1>6. /\ g[0] = v0 /\ parse_mavlink_data(channel, more) = g[n + 1]
      /\ \A i \in 1..n + 1 : g[i] = parse_next(g[i - 1], more[i])
  BY <1>1, <1>4 DEF ParsedUpTo
<1> HIDE DEF n, more, v0
<1>7. 0 \in T /\ \A i \in 1..n : i - 1 \in T => i \in T
  <2>1. 0 \in 0..n /\ \A i \in 1..n : i \in 1..n + 1 /\ i \in 0..n
    BY <1>1
  <2> QED BY <1>2, <1>5, <1>6, <2>1
<1>8. g[n] = f[n]
  <2> HIDE DEF T
  <2>1. 0..n \subseteq T
    BY <1>1, <1>7, InductionUpTo
  <2>2. n \in T
    BY <1>1, <2>1
  <2> QED BY <2>2 DEF T
<1>9. g[n + 1] = parse_next(g[n], piece) /\ f[n] \in Parsed
  <2>1. n + 1 \in 1..n + 1 /\ (n + 1) - 1 = n /\ n \in 0..n
    BY <1>1
  <2>2. g[n + 1] = parse_next(g[(n + 1) - 1], more[n + 1])
    BY <1>6, <2>1, Zenon
  <2> QED BY <1>1, <1>5, <2>1, <2>2
<1> QED BY <1>5, <1>6, <1>8, <1>9, Zenon DEF more

\* Whatever the channel holds, the parser's result has its type.
LEMMA ParseType ==
  ASSUME NEW channel \in Seq(AnyPiece), NEW data \in Seq(AnyPiece)
  PROVE  /\ parse_mavlink_data(channel, data) \in Parsed
         /\ parse_mavlink_data(channel, data).channel \in Seq(AnyPiece)
         /\ parse_mavlink_data(channel, data).messages \in Seq(Frames)
<1>1. PICK f : ParsedUpTo(channel, data, f)
  BY ParsedStates
<1>2. parse_mavlink_data(channel, data) \in Parsed
  BY <1>1 DEF ParsedUpTo
<1> QED BY <1>2 DEF Parsed

\* What is parsed of two parts, one after the other.
Then(before, after) ==
  [channel |-> after.channel, messages |-> before.messages \o after.messages]

\* A part without data adds nothing.
LEMMA ThenNothing ==
  ASSUME NEW before \in Parsed
  PROVE  Then(before, [channel |-> before.channel, messages |-> <<>>]) = before
<1>1. before.messages \in Seq(Frames)
  BY DEF Parsed
<1>2. before.messages \o <<>> = before.messages
  BY <1>1
<1>3. before = [channel |-> before.channel, messages |-> before.messages]
  BY DEF Parsed
<1> QED BY <1>2, <1>3, Zenon DEF Then

\* A further piece is parsed as part of the rest.
LEMMA ThenNext ==
  ASSUME NEW before \in Parsed, NEW after \in Parsed, NEW piece \in AnyPiece
  PROVE  parse_next(Then(before, after), piece) = Then(before, parse_next(after, piece))
<1> DEFINE next == mavlink_parse_char(after.channel, piece)
           a == before.messages
           b == after.messages
           c == next.messages
<1>1. after.channel \in Seq(AnyPiece) /\ a \in Seq(Frames) /\ b \in Seq(Frames)
  BY DEF Parsed
<1>2. c \in Seq(Frames)
  BY <1>1, ParseCharType DEF Parsed
<1>3. Then(before, after).channel = after.channel /\ Then(before, after).messages = a \o b
  BY DEF Then
<1>4. (a \o b) \o c = a \o (b \o c)
  <2> HIDE DEF a, b, c
  <2>1. a \in Seq(Frames) /\ b \in Seq(Frames) /\ c \in Seq(Frames)
    BY <1>1, <1>2
  <2> QED BY <2>1, ConcatAssociative
<1>5. parse_next(Then(before, after), piece)
        = [channel |-> next.channel, messages |-> (a \o b) \o c]
  BY <1>3, Zenon DEF parse_next
<1>6. Then(before, parse_next(after, piece))
        = [channel |-> next.channel, messages |-> a \o (b \o c)]
  BY DEF parse_next, Then
<1> QED BY <1>4, <1>5, <1>6, Zenon

\* Data can be cut anywhere: the channel carries what the rest needs.
LEMMA ParseConcat ==
  ASSUME NEW channel \in Seq(AnyPiece), NEW data \in Seq(AnyPiece), NEW rest \in Seq(AnyPiece)
  PROVE  LET before == parse_mavlink_data(channel, data)
             after  == parse_mavlink_data(before.channel, rest)
         IN  /\ after \in Parsed
             /\ parse_mavlink_data(channel, data \o rest) = Then(before, after)
<1> DEFINE before == parse_mavlink_data(channel, data)
           after(s) == parse_mavlink_data(before.channel, s)
           both(s) == parse_mavlink_data(channel, data \o s)
           T == {s \in Seq(AnyPiece) : after(s) \in Parsed /\ both(s) = Then(before, after(s))}
<1>p. \A c \in Seq(AnyPiece), s \in Seq(AnyPiece) : parse_mavlink_data(c, s) \in Parsed
  BY ParseType
<1>0. before \in Parsed /\ before.channel \in Seq(AnyPiece) /\ before.messages \in Seq(Frames)
  BY ParseType
<1>1. <<>> \in T
  <2>1. <<>> \in Seq(AnyPiece) /\ data \o <<>> = data
    OBVIOUS
  <2>2. both(<<>>) = before
    BY <2>1
  <2> HIDE DEF before, both
  <2>3. after(<<>>) = [channel |-> before.channel, messages |-> <<>>]
    BY <1>0, ParseEmpty
  <2>6. after(<<>>) \in Parsed
    BY <1>0, <1>p, <2>1
  <2>7. Then(before, after(<<>>)) = before
    BY <1>0, <2>3, ThenNothing
  <2> QED BY <2>1, <2>2, <2>6, <2>7
<1>2. ASSUME NEW s \in Seq(AnyPiece), NEW x \in AnyPiece, s \in T PROVE Append(s, x) \in T
  <2>1. /\ Append(s, x) \in Seq(AnyPiece) /\ data \o s \in Seq(AnyPiece)
        /\ data \o Append(s, x) = Append(data \o s, x)
    OBVIOUS
  <2>2. both(Append(s, x)) = parse_next(both(s), x)
    <3>1. parse_mavlink_data(channel, Append(data \o s, x)) = parse_next(both(s), x)
      BY <2>1, ParseAppend, Zenon
    <3> QED BY <2>1, <3>1, Zenon
  <2>3. /\ after(s) \in Parsed /\ after(Append(s, x)) \in Parsed
        /\ after(Append(s, x)) = parse_next(after(s), x)
    <3> HIDE DEF before
    <3> QED BY <1>0, <1>p, <2>1, ParseAppend
  <2>4. both(s) = Then(before, after(s))
    BY <1>2
  <2>5. parse_next(Then(before, after(s)), x) = Then(before, parse_next(after(s), x))
    <3> HIDE DEF before, after
    <3> QED BY <1>0, <2>3, ThenNext
  <2> HIDE DEF before, after, both
  <2> QED BY <2>1, <2>2, <2>3, <2>4, <2>5
<1>3. Seq(AnyPiece) \subseteq T
  <2> HIDE DEF T
  <2> QED BY <1>1, <1>2, AppendInduction
<1>4. rest \in T
  BY <1>3
<1> QED BY <1>4

-----------------------------------------------------------------------------
(* The directions do not disturb each other                                 *)

\* What the channel of a direction holds, and all that was reported of it, is
\* what its stream leaves.
StreamParsed(d) ==
  parse_mavlink_data(<<>>, Stream(d))
    = [channel |-> channels[channel_of(d)], messages |-> Messages(d)]

StreamsParsed ==
  /\ channels \in [0..1 -> Seq(AnyPiece)]
  /\ received \in [Directions -> Seq(Seq(AnyPiece))]
  /\ reported \in [Directions -> Seq(Seq(Frames))]
  /\ \A d \in Directions : StreamParsed(d)

\* Nothing is received in the beginning.
LEMMA StreamsInit == Init => StreamsParsed
<1> SUFFICES ASSUME Init PROVE StreamsParsed
  OBVIOUS
<1>1. FlattenSeq(<<>>) = <<>>
  BY DEF FlattenSeq
<1>2. ASSUME NEW d \in Directions PROVE StreamParsed(d)
  <2>1. Stream(d) = <<>> /\ Messages(d) = <<>> /\ channels[channel_of(d)] = <<>>
    BY <1>1, <1>2 DEF Init, Stream, Messages, channel_of
  <2>2. <<>> \in Seq(AnyPiece)
    OBVIOUS
  <2> QED BY <2>1, <2>2, ParseEmpty DEF StreamParsed
<1>3. /\ channels \in [0..1 -> Seq(AnyPiece)]
      /\ received \in [Directions -> Seq(Seq(AnyPiece))]
      /\ reported \in [Directions -> Seq(Seq(Frames))]
  BY DEF Init
<1> QED BY <1>2, <1>3 DEF StreamsParsed

\* What a datagram adds to its direction.
LEMMA ReceiveEffect ==
  ASSUME StreamsParsed, NEW direction \in Directions, NEW data \in Datagrams,
         Receive(direction, data)
  PROVE  LET parsed == parse_mavlink_data(channels[channel_of(direction)], data) IN
         /\ data \in Seq(AnyPiece) /\ parsed.channel \in Seq(AnyPiece)
         /\ parsed.messages \in Seq(Frames)
         /\ channels'[channel_of(direction)] = parsed.channel
         /\ received'[direction] = Append(received[direction], data)
         /\ reported'[direction] = Append(reported[direction], parsed.messages)
         /\ channels' \in [0..1 -> Seq(AnyPiece)]
         /\ received' \in [Directions -> Seq(Seq(AnyPiece))]
         /\ reported' \in [Directions -> Seq(Seq(Frames))]
<1> DEFINE channel == channel_of(direction)
           parsed == parse_mavlink_data(channels[channel], data)
<1>1. /\ channels' = [channels EXCEPT ![channel] = parsed.channel]
      /\ received' = [received EXCEPT ![direction] = Append(@, data)]
      /\ reported' = [reported EXCEPT ![direction] = Append(@, parsed.messages)]
  BY Zenon DEF Receive
<1>2. /\ channels \in [0..1 -> Seq(AnyPiece)]
      /\ received \in [Directions -> Seq(Seq(AnyPiece))]
      /\ reported \in [Directions -> Seq(Seq(Frames))]
  BY DEF StreamsParsed
<1>3. channel \in 0..1
  BY DEF channel_of
<1>4. data \in Seq(AnyPiece)
  BY DatagramsAssumption
<1>5. parsed.channel \in Seq(AnyPiece) /\ parsed.messages \in Seq(Frames)
  <2>1. channels[channel] \in Seq(AnyPiece)
    BY <1>2, <1>3
  <2> HIDE DEF channel
  <2> QED BY <1>4, <2>1, ParseType
<1> HIDE DEF parsed, channel
<1>6. received[direction] \in Seq(Seq(AnyPiece)) /\ reported[direction] \in Seq(Seq(Frames))
  BY <1>2
<1>7. /\ Append(received[direction], data) \in Seq(Seq(AnyPiece))
      /\ Append(reported[direction], parsed.messages) \in Seq(Seq(Frames))
  BY <1>4, <1>5, <1>6, AppendProperties
<1>8. channels'[channel] = parsed.channel /\ channels' \in [0..1 -> Seq(AnyPiece)]
  BY <1>1, <1>2, <1>3, <1>5
<1>9. /\ received'[direction] = Append(received[direction], data)
      /\ reported'[direction] = Append(reported[direction], parsed.messages)
      /\ received' \in [Directions -> Seq(Seq(AnyPiece))]
      /\ reported' \in [Directions -> Seq(Seq(Frames))]
  BY <1>1, <1>2, <1>7
<1> QED BY <1>4, <1>5, <1>8, <1>9 DEF parsed, channel

\* And to the other direction: nothing.
LEMMA ReceiveOther ==
  ASSUME StreamsParsed, NEW direction \in Directions, NEW data \in Datagrams,
         Receive(direction, data), NEW d \in Directions, d # direction
  PROVE  /\ channels'[channel_of(d)] = channels[channel_of(d)]
         /\ received'[d] = received[d] /\ reported'[d] = reported[d]
<1> DEFINE channel == channel_of(direction)
           parsed == parse_mavlink_data(channels[channel], data)
<1>1. /\ channels' = [channels EXCEPT ![channel] = parsed.channel]
      /\ received' = [received EXCEPT ![direction] = Append(@, data)]
      /\ reported' = [reported EXCEPT ![direction] = Append(@, parsed.messages)]
  BY Zenon DEF Receive
<1>2. channel_of(d) # channel /\ channel_of(d) \in 0..1
  BY DEF channel_of, Directions
<1> HIDE DEF parsed, channel
<1> QED BY <1>1, <1>2 DEF StreamsParsed

\* A datagram extends its stream and what is reported of it, and nothing else.
LEMMA StreamsStep == StreamsParsed /\ [Next]_vars => StreamsParsed'
<1> SUFFICES ASSUME StreamsParsed, [Next]_vars PROVE StreamsParsed'
  OBVIOUS
<1>1. CASE UNCHANGED vars
  BY <1>1 DEF vars, StreamsParsed, StreamParsed, Stream, Messages
<1>2. ASSUME NEW direction \in Directions, NEW data \in Datagrams, Receive(direction, data)
      PROVE  StreamsParsed'
  <2> DEFINE c == channel_of(direction)
             parsed == parse_mavlink_data(channels[c], data)
  <2>1. /\ data \in Seq(AnyPiece) /\ parsed.channel \in Seq(AnyPiece)
        /\ parsed.messages \in Seq(Frames)
        /\ channels'[c] = parsed.channel
        /\ received'[direction] = Append(received[direction], data)
        /\ reported'[direction] = Append(reported[direction], parsed.messages)
    BY <1>2, ReceiveEffect
  <2>2. /\ channels' \in [0..1 -> Seq(AnyPiece)]
        /\ received' \in [Directions -> Seq(Seq(AnyPiece))]
        /\ reported' \in [Directions -> Seq(Seq(Frames))]
    BY <1>2, ReceiveEffect
  <2> HIDE DEF parsed, c
  <2>3. received[direction] \in Seq(Seq(AnyPiece)) /\ reported[direction] \in Seq(Seq(Frames))
    BY DEF StreamsParsed
  <2>4. StreamParsed(direction)'
    <3>1. Stream(direction) \in Seq(AnyPiece) /\ Stream(direction)' = Stream(direction) \o data
      BY <2>1, <2>3, FlattenAppend DEF Stream
    <3>2. Messages(direction)' = Messages(direction) \o parsed.messages
      BY <2>1, <2>3, FlattenAppend DEF Messages
    <3> DEFINE before == parse_mavlink_data(<<>>, Stream(direction))
    <3>3. before.channel = channels[c] /\ before.messages = Messages(direction)
      BY DEF StreamsParsed, StreamParsed, c
    <3>4. parse_mavlink_data(<<>>, Stream(direction) \o data)
            = Then(before, parse_mavlink_data(before.channel, data))
      <4>1. <<>> \in Seq(AnyPiece)
        OBVIOUS
      <4> QED BY <2>1, <3>1, <4>1, ParseConcat
    <3> HIDE DEF before
    <3>5. Then(before, parsed)
            = [channel |-> parsed.channel, messages |-> Messages(direction) \o parsed.messages]
      BY <3>3 DEF Then
    <3>6. parse_mavlink_data(before.channel, data) = parsed
      BY <3>3 DEF parsed
    <3> QED BY <2>1, <3>1, <3>2, <3>4, <3>5, <3>6 DEF StreamParsed, c
  <2>5. ASSUME NEW d \in Directions, d # direction PROVE StreamParsed(d)'
    <3>1. /\ channels'[channel_of(d)] = channels[channel_of(d)]
          /\ received'[d] = received[d] /\ reported'[d] = reported[d]
      BY <1>2, <2>5, ReceiveOther
    <3>2. StreamParsed(d)
      BY DEF StreamsParsed
    <3> QED BY <3>1, <3>2 DEF StreamParsed, Stream, Messages
  <2> QED BY <2>2, <2>4, <2>5 DEF StreamsParsed
<1> QED BY <1>1, <1>2 DEF Next

\* What is reported of a direction is always what its stream leaves.
LEMMA StreamsHold == Spec => []StreamsParsed
BY StreamsInit, StreamsStep, PTL DEF Spec

\* What is reported of one direction is what its own datagrams hold, one after
\* the other, for any datagrams of the other direction between them
\* (mavlink_parser.cpp:9).
THEOREM OwnDatagramsOnly == Spec => []DirectionsIndependent
<1>1. StreamsParsed => DirectionsIndependent
  BY DEF StreamsParsed, StreamParsed, DirectionsIndependent
<1> QED BY <1>1, StreamsHold, PTL

-----------------------------------------------------------------------------
(* Every message was received                                               *)

\* The part of a stream that came last.
Ending(stream, k) == SubSeq(stream, Len(stream) - k + 1, Len(stream))

\* The messages are the frames at these places, none of which reaches into the
\* last k pieces.
FoundAt(places, stream, k, messages) ==
  /\ places \subseteq IntactFrames(stream)
  /\ \A i \in places : i + Pieces - 1 <= Len(stream) - k
  /\ Len(messages) = Cardinality(places)
  /\ \A i \in places : messages[Cardinality({j \in places : j <= i})] = stream[i].frame

\* What the channel keeps is the end of the stream, and the messages were
\* found before it.
Located(stream, parsed) ==
  /\ Len(parsed.channel) < Pieces /\ Len(parsed.channel) <= Len(stream)
  /\ parsed.channel = Ending(stream, Len(parsed.channel))
  /\ \E places : FoundAt(places, stream, Len(parsed.channel), parsed.messages)

\* What mavlink_parse_char does, case by case.
ParseCharCases(channel, piece, next) ==
  \/ next.channel = <<>> /\ next.messages = <<>>
  \/ /\ Len(channel) + 1 < Pieces
     /\ next.channel = Append(channel, piece) /\ next.messages = <<>>
  \/ /\ Len(channel) + 1 >= Pieces /\ next.channel = <<>>
     /\ Append(channel, piece) = Whole(Append(channel, piece)[1].frame)
     /\ next.messages = <<Append(channel, piece)[1].frame>>

\* It skips, keeps or completes, or drops a frame that is not intact.
LEMMA ParseChar ==
  ASSUME NEW channel \in Seq(AnyPiece), NEW piece \in AnyPiece
  PROVE  ParseCharCases(channel, piece, mavlink_parse_char(channel, piece))
<1> DEFINE more == Append(channel, piece)
           next == mavlink_parse_char(channel, piece)
<1>1. Len(more) = Len(channel) + 1 /\ Len(channel) \in Nat
  OBVIOUS
<1>2. CASE channel = <<>> /\ piece.n # 1
  <2>1. Len(<<>>) = 0 /\ 0 < Pieces
    BY PiecesAssumption
  <2>2. next = [channel |-> <<>>, messages |-> <<>>]
    BY <1>2, <2>1 DEF mavlink_parse_char
  <2> QED BY <2>2 DEF ParseCharCases
<1>3. CASE ~(channel = <<>> /\ piece.n # 1)
  <2>1. next = IF Len(more) < Pieces THEN [channel |-> more, messages |-> <<>>]
               ELSE [channel  |-> <<>>,
                     messages |-> IF more = Whole(more[1].frame) THEN <<more[1].frame>> ELSE <<>>]
    BY <1>3 DEF mavlink_parse_char
  <2> SUFFICES ParseCharCases(channel, piece, next)
    OBVIOUS
  <2> HIDE DEF next
  <2>2. CASE Len(more) < Pieces
    BY <1>1, <2>1, <2>2 DEF ParseCharCases
  <2>3. CASE ~(Len(more) < Pieces) /\ more = Whole(more[1].frame)
    BY <1>1, <2>1, <2>3, PiecesAssumption DEF ParseCharCases
  <2>4. CASE ~(Len(more) < Pieces) /\ more # Whole(more[1].frame)
    BY <1>1, <2>1, <2>4 DEF ParseCharCases
  <2> QED BY <2>2, <2>3, <2>4
<1> QED BY <1>2, <1>3

\* A frame in a stream is still there when more arrives.
LEMMA IntactStays ==
  ASSUME NEW stream \in Seq(AnyPiece), NEW piece \in AnyPiece,
         NEW i \in IntactFrames(stream)
  PROVE  i \in IntactFrames(Append(stream, piece)) /\ Append(stream, piece)[i] = stream[i]
<1> DEFINE more == Append(stream, piece)
<1>1. /\ more \in Seq(AnyPiece) /\ Len(more) = Len(stream) + 1 /\ Len(stream) \in Nat
      /\ \A j \in 1..Len(stream) : more[j] = stream[j]
  OBVIOUS
<1>2. i \in 1..(Len(stream) - Pieces + 1) /\ SubSeq(stream, i, i + Pieces - 1) = Whole(stream[i].frame)
  BY DEF IntactFrames
<1>3. /\ i \in 1..Len(stream) /\ i \in 1..(Len(more) - Pieces + 1)
      /\ i + Pieces - 1 \in 1..Len(stream)
  BY <1>1, <1>2, PiecesAssumption
<1>4. SubSeq(more, i, i + Pieces - 1) = SubSeq(stream, i, i + Pieces - 1)
  <2> HIDE DEF more
  <2>1. \A j \in i..i + Pieces - 1 : more[j] = stream[j]
    BY <1>1, <1>3
  <2> QED BY <1>1, <1>3, <2>1, PiecesAssumption
<1> QED BY <1>1, <1>2, <1>3, <1>4 DEF IntactFrames

\* The pieces of a stream's end are those of the stream.
LEMMA EndingPieces ==
  ASSUME NEW stream \in Seq(AnyPiece), NEW k \in 0..Len(stream)
  PROVE  /\ Ending(stream, k) \in Seq(AnyPiece) /\ Len(Ending(stream, k)) = k
         /\ \A j \in 1..k : Ending(stream, k)[j] = stream[Len(stream) - k + j]
BY DEF Ending

\* The end of a stream and what arrives are the end of the longer stream.
LEMMA EndingAppend ==
  ASSUME NEW stream \in Seq(AnyPiece), NEW k \in 0..Len(stream), NEW piece \in AnyPiece
  PROVE  Append(Ending(stream, k), piece) = Ending(Append(stream, piece), k + 1)
<1> DEFINE more == Append(stream, piece)
           left == Append(Ending(stream, k), piece)
           right == Ending(more, k + 1)
<1>1. /\ more \in Seq(AnyPiece) /\ Len(more) = Len(stream) + 1 /\ more[Len(more)] = piece
      /\ \A j \in 1..Len(stream) : more[j] = stream[j]
  OBVIOUS
<1>2. /\ left \in Seq(AnyPiece) /\ Len(left) = k + 1 /\ left[k + 1] = piece
      /\ \A j \in 1..k : left[j] = Ending(stream, k)[j]
  BY EndingPieces
<1>3. /\ right \in Seq(AnyPiece) /\ Len(right) = k + 1
      /\ \A j \in 1..k + 1 : right[j] = more[Len(more) - (k + 1) + j]
  <2>1. k + 1 \in 0..Len(more)
    BY <1>1
  <2> HIDE DEF more
  <2> QED BY <1>1, <2>1, EndingPieces
<1>4. ASSUME NEW j \in 1..k + 1 PROVE left[j] = right[j]
  <2> HIDE DEF left, right, more
  <2>1. CASE j = k + 1
    <3>1. Len(more) - (k + 1) + j = Len(more)
      BY <1>1, <2>1
    <3> QED BY <1>1, <1>2, <1>3, <2>1, <3>1
  <2>2. CASE j # k + 1
    <3>1. j \in 1..k
      BY <2>2
    <3>2. Len(more) - (k + 1) + j = Len(stream) - k + j /\ Len(stream) - k + j \in 1..Len(stream)
      BY <1>1, <3>1
    <3>3. left[j] = stream[Len(stream) - k + j]
      BY <1>2, <3>1, EndingPieces
    <3> QED BY <1>1, <1>3, <3>2, <3>3
  <2> QED BY <2>1, <2>2
<1> HIDE DEF left, right
<1>5. left = right
  BY <1>2, <1>3, <1>4, SeqEqual
<1> QED BY <1>5 DEF left, right

\* Nothing new is reported: the messages are where they were.
LEMMA FoundStays ==
  ASSUME NEW stream \in Seq(AnyPiece), NEW piece \in AnyPiece, NEW places,
         NEW k \in Nat, NEW m \in Nat, m <= k + 1, NEW messages,
         FoundAt(places, stream, k, messages)
  PROVE  FoundAt(places, Append(stream, piece), m, messages)
<1> DEFINE more == Append(stream, piece)
<1>1. Len(more) = Len(stream) + 1 /\ Len(stream) \in Nat
  OBVIOUS
<1>2. /\ places \subseteq IntactFrames(stream)
      /\ \A i \in places : i + Pieces - 1 <= Len(stream) - k
      /\ Len(messages) = Cardinality(places)
      /\ \A i \in places : messages[Cardinality({j \in places : j <= i})] = stream[i].frame
  BY DEF FoundAt
<1>3. ASSUME NEW i \in places
      PROVE  /\ i \in IntactFrames(more) /\ more[i] = stream[i]
             /\ i + Pieces - 1 <= Len(more) - m
  <2>1. i \in IntactFrames(stream) /\ i \in Nat
    BY <1>2 DEF IntactFrames
  <2>2. i \in IntactFrames(more) /\ more[i] = stream[i]
    BY <2>1, IntactStays
  <2> HIDE DEF more
  <2>3. i + Pieces - 1 <= Len(more) - m
    BY <1>1, <1>2, <2>1, PiecesAssumption
  <2> QED BY <2>2, <2>3
<1> HIDE DEF more
<1>4. \A i \in places : messages[Cardinality({j \in places : j <= i})] = more[i].frame
  BY <1>2, <1>3
<1> QED BY <1>2, <1>3, <1>4 DEF FoundAt, more

\* The number of places up to one of them is a position among the messages.
LEMMA RankOfPlace ==
  ASSUME NEW n \in Nat, NEW places \in SUBSET (1..n), NEW i \in places
  PROVE  /\ IsFiniteSet(places) /\ Cardinality(places) \in Nat
         /\ Cardinality({j \in places : j <= i}) \in 1..Cardinality(places)
<1> DEFINE upto == {j \in places : j <= i}
<1>1. IsFiniteSet(1..n)
  BY FS_Interval
<1>2. IsFiniteSet(places)
  BY <1>1, FS_Subset
<1>3. Cardinality(places) \in Nat
  BY <1>2, FS_CardinalityType
<1>4. upto \subseteq places /\ i \in upto
  OBVIOUS
<1> HIDE DEF upto
<1>5. IsFiniteSet(upto) /\ Cardinality(upto) <= Cardinality(places)
  BY <1>2, <1>4, FS_Subset
<1>6. Cardinality(upto) \in Nat /\ Cardinality(upto) # 0
  BY <1>4, <1>5, FS_CardinalityType, FS_EmptySet
<1> QED BY <1>2, <1>3, <1>5, <1>6 DEF upto

\* What the longer sequence holds.
BehindThem(s, x, more) ==
  /\ Len(more) = Len(s) + 1 /\ more[Len(s) + 1] = x
  /\ \A k \in 1..Len(s) : more[k] = s[k]

\* Append puts an element behind the others.
LEMMA Behind ==
  ASSUME NEW S, NEW s \in Seq(S), NEW x \in S
  PROVE  BehindThem(s, x, Append(s, x))
BY DEF BehindThem

\* A message is reported: its place is the last, behind all the others.
LEMMA FoundNext ==
  ASSUME NEW stream \in Seq(AnyPiece), NEW piece \in AnyPiece, NEW places,
         Pieces - 1 <= Len(stream), NEW messages \in Seq(Frames),
         FoundAt(places, stream, Pieces - 1, messages),
         NEW frame \in Frames,
         Ending(Append(stream, piece), Pieces) = Whole(frame)
  PROVE  FoundAt(places \cup {Len(stream) - Pieces + 2}, Append(stream, piece), 0,
                 Append(messages, frame))
<1> DEFINE more == Append(stream, piece)
           n == Len(stream)
           p == n - Pieces + 2
           now == places \cup {p}
           told == Append(messages, frame)
<1>1. more \in Seq(AnyPiece) /\ Len(more) = n + 1 /\ n \in Nat
  OBVIOUS
<1> HIDE DEF more, n
<1>2. p \in 1..(n + 1) - Pieces + 1 /\ p + Pieces - 1 = n + 1 /\ p \in 1..n + 1
  BY <1>1, PiecesAssumption DEF n
<1>3. /\ places \subseteq IntactFrames(stream)
      /\ \A i \in places : i + Pieces - 1 <= n - (Pieces - 1)
      /\ Len(messages) = Cardinality(places)
      /\ \A i \in places : messages[Cardinality({j \in places : j <= i})] = stream[i].frame
  BY DEF FoundAt, n
<1>4. Ending(more, Pieces) = SubSeq(more, p, p + Pieces - 1)
  <2>1. Len(more) - Pieces + 1 = p
    BY <1>1, PiecesAssumption
  <2> QED BY <1>1, <1>2, <2>1 DEF Ending
<1>5. more[p].frame = frame
  <2>1. Pieces \in 0..Len(more) /\ 1 \in 1..Pieces /\ Len(more) - Pieces + 1 = p
    BY <1>1, PiecesAssumption DEF n
  <2>2. Ending(more, Pieces)[1] = more[p]
    BY <1>1, <2>1, EndingPieces
  <2>3. Whole(frame)[1].frame = frame
    BY <2>1 DEF Whole, Piece
  <2> QED BY <2>2, <2>3 DEF more
<1>6. p \in IntactFrames(more)
  BY <1>1, <1>2, <1>4, <1>5 DEF IntactFrames, more
<1>7. ASSUME NEW i \in places
      PROVE  i \in IntactFrames(more) /\ more[i] = stream[i] /\ i < p /\ i \in 1..n
  <2>1. i \in IntactFrames(stream) /\ i \in Nat \ {0}
    BY <1>3 DEF IntactFrames
  <2>2. i \in IntactFrames(more) /\ more[i] = stream[i]
    BY <2>1, IntactStays DEF more
  <2>3. i < p /\ i \in 1..n
    BY <1>1, <1>3, <2>1, PiecesAssumption
  <2> QED BY <2>2, <2>3
<1>8. places \in SUBSET (1..n) /\ p \notin places
  BY <1>2, <1>7
<1>9. /\ IsFiniteSet(places) /\ Cardinality(places) \in Nat
      /\ Cardinality(now) = Cardinality(places) + 1
  <2>1. IsFiniteSet(1..n)
    BY <1>1, FS_Interval
  <2>2. IsFiniteSet(places)
    BY <1>8, <2>1, FS_Subset
  <2> HIDE DEF p
  <2> QED BY <1>8, <2>2, FS_CardinalityType, FS_AddElement
<1>10. BehindThem(messages, frame, told)
  BY Behind, Zenon
<1>11. ASSUME NEW i \in places
       PROVE  told[Cardinality({j \in now : j <= i})] = more[i].frame
  <2>1. {j \in now : j <= i} = {j \in places : j <= i}
    BY <1>1, <1>2, <1>7, <1>8
  <2>2. Cardinality({j \in places : j <= i}) \in 1..Len(messages)
    BY <1>1, <1>3, <1>8, RankOfPlace
  <2> HIDE DEF now, told
  <2> QED BY <1>3, <1>7, <1>10, <2>1, <2>2 DEF BehindThem
<1>12. told[Cardinality({j \in now : j <= p})] = more[p].frame
  <2>1. {j \in now : j <= p} = now
    BY <1>1, <1>2, <1>7
  <2> HIDE DEF now, told, p
  <2> QED BY <1>3, <1>5, <1>9, <1>10, <2>1 DEF BehindThem
<1>13. \A i \in now : i + Pieces - 1 <= Len(more) - 0
  <2>1. ASSUME NEW i \in places PROVE i + Pieces - 1 <= Len(more)
    BY <1>1, <1>3, <1>7, PiecesAssumption
  <2>2. p + Pieces - 1 <= Len(more)
    BY <1>1, <1>2
  <2> HIDE DEF p
  <2> QED BY <1>1, <2>1, <2>2
<1>14. now \subseteq IntactFrames(more) /\ Len(told) = Cardinality(now)
  <2> HIDE DEF p, told
  <2>1. now \subseteq IntactFrames(more)
    BY <1>6, <1>7
  <2> HIDE DEF now
  <2> QED BY <1>3, <1>9, <1>10, <2>1 DEF BehindThem
<1>15. \A i \in now : told[Cardinality({j \in now : j <= i})] = more[i].frame
  <2> SUFFICES ASSUME NEW i \in now
               PROVE  told[Cardinality({j \in now : j <= i})] = more[i].frame
    OBVIOUS
  <2>1. i \in places \/ i = p
    OBVIOUS
  <2> HIDE DEF now, told, p
  <2> QED BY <1>11, <1>12, <2>1
<1>16. FoundAt(now, more, 0, told)
  <2> HIDE DEF now, told, p
  <2> QED BY <1>13, <1>14, <1>15 DEF FoundAt
<1> QED BY <1>16 DEF more, n

\* After each piece, the channel keeps the end of the stream and the messages
\* were found before it.
LEMMA LocatedStep ==
  ASSUME NEW stream \in Seq(AnyPiece), NEW piece \in AnyPiece, NEW parsed \in Parsed,
         Located(stream, parsed)
  PROVE  Located(Append(stream, piece), parse_next(parsed, piece))
<1> DEFINE next == mavlink_parse_char(parsed.channel, piece)
           more == Append(stream, piece)
           k == Len(parsed.channel)
           after == parse_next(parsed, piece)
<1>1. parsed.channel \in Seq(AnyPiece) /\ parsed.messages \in Seq(Frames) /\ k \in Nat
  BY DEF Parsed
<1>2. k < Pieces /\ k <= Len(stream) /\ parsed.channel = Ending(stream, k)
  BY DEF Located
<1>3. PICK places : FoundAt(places, stream, k, parsed.messages)
  BY DEF Located
<1>4. ParseCharCases(parsed.channel, piece, next)
  BY <1>1, ParseChar
<1>5. after.channel = next.channel /\ after.messages = parsed.messages \o next.messages
  BY DEF parse_next
<1>6. more \in Seq(AnyPiece) /\ Len(more) = Len(stream) + 1 /\ Len(stream) \in Nat
  OBVIOUS
<1>7. Append(parsed.channel, piece) = Ending(more, k + 1)
  BY <1>1, <1>2, EndingAppend
<1>8. Ending(more, 0) = <<>>
  <2> HIDE DEF more
  <2> QED BY <1>6 DEF Ending
<1>9. parsed.messages \o <<>> = parsed.messages
  BY <1>1
<1> SUFFICES Located(more, after)
  OBVIOUS
<1> HIDE DEF next, after, k, more
<1>10. CASE next.channel = <<>> /\ next.messages = <<>>
  <2>1. FoundAt(places, more, 0, parsed.messages)
    BY <1>1, <1>3, FoundStays DEF more
  <2> QED BY <1>5, <1>6, <1>8, <1>9, <1>10, <2>1, PiecesAssumption DEF Located
<1>11. CASE /\ k + 1 < Pieces
            /\ next.channel = Append(parsed.channel, piece) /\ next.messages = <<>>
  <2>1. FoundAt(places, more, k + 1, parsed.messages)
    BY <1>1, <1>3, FoundStays DEF more
  <2>2. Len(Append(parsed.channel, piece)) = k + 1
    BY <1>1 DEF k
  <2> QED BY <1>1, <1>2, <1>5, <1>6, <1>7, <1>9, <1>11, <2>1, <2>2 DEF Located
<1>12. CASE /\ k + 1 >= Pieces /\ next.channel = <<>>
            /\ Append(parsed.channel, piece) = Whole(Append(parsed.channel, piece)[1].frame)
            /\ next.messages = <<Append(parsed.channel, piece)[1].frame>>
  <2> DEFINE frame == Append(parsed.channel, piece)[1].frame
  <2>1. k = Pieces - 1
    BY <1>1, <1>2, <1>12, PiecesAssumption
  <2>2. frame \in Frames
    <3>1. Append(parsed.channel, piece) \in Seq(AnyPiece) /\ Len(Append(parsed.channel, piece)) = k + 1
      BY <1>1 DEF k
    <3>2. Append(parsed.channel, piece)[1] \in AnyPiece
      BY <1>1, <3>1
    <3> QED BY <3>2 DEF AnyPiece
  <2>3. Ending(more, Pieces) = Whole(frame)
    BY <1>7, <1>12, <2>1, PiecesAssumption
  <2> HIDE DEF frame
  <2>4. FoundAt(places \cup {Len(stream) - Pieces + 2}, more, 0, Append(parsed.messages, frame))
    BY <1>1, <1>2, <1>3, <2>1, <2>2, <2>3, FoundNext DEF more
  <2>5. after.messages = Append(parsed.messages, frame)
    BY <1>1, <1>5, <1>12, <2>2 DEF frame
  <2>6. after.channel = <<>>
    BY <1>5, <1>12
  <2> QED BY <1>6, <1>8, <2>4, <2>5, <2>6, PiecesAssumption DEF Located
<1> QED BY <1>4, <1>10, <1>11, <1>12 DEF ParseCharCases, k

\* In any stream the messages are found at places of their own.
LEMMA ParsedIsLocated ==
  ASSUME NEW stream \in Seq(AnyPiece)
  PROVE  Located(stream, parse_mavlink_data(<<>>, stream))
<1> DEFINE T == {s \in Seq(AnyPiece) : Located(s, parse_mavlink_data(<<>>, s))}
<1>0. <<>> \in Seq(AnyPiece) /\ Len(<<>>) = 0
  OBVIOUS
<1>1. <<>> \in T
  <2>1. parse_mavlink_data(<<>>, <<>>) = [channel |-> <<>>, messages |-> <<>>]
    BY <1>0, ParseEmpty
  <2>2. Ending(<<>>, 0) = <<>>
    BY DEF Ending
  <2>3. FoundAt({}, <<>>, 0, <<>>)
    BY <1>0, FS_EmptySet DEF FoundAt
  <2>4. Located(<<>>, [channel |-> <<>>, messages |-> <<>>])
    BY <1>0, <2>2, <2>3, PiecesAssumption DEF Located
  <2> QED BY <1>0, <2>1, <2>4
<1>2. ASSUME NEW s \in Seq(AnyPiece), NEW x \in AnyPiece, s \in T PROVE Append(s, x) \in T
  <2>1. /\ parse_mavlink_data(<<>>, s) \in Parsed
        /\ parse_mavlink_data(<<>>, Append(s, x)) = parse_next(parse_mavlink_data(<<>>, s), x)
    BY <1>0, ParseAppend
  <2>2. Located(Append(s, x), parse_next(parse_mavlink_data(<<>>, s), x))
    BY <1>2, <2>1, LocatedStep
  <2>3. Append(s, x) \in Seq(AnyPiece)
    OBVIOUS
  <2> QED BY <2>1, <2>2, <2>3
<1>3. Seq(AnyPiece) \subseteq T
  <2> HIDE DEF T
  <2> QED BY <1>1, <1>2, AppendInduction
<1> QED BY <1>3

\* Every message of a direction was received in one piece, and the messages are
\* reported in the order they came, none of them twice, wherever the datagrams
\* cut the frames (mavlink_parser.cpp:13-25).
THEOREM MessagesWereReceived == Spec => []ReportedWereReceived
<1>1. StreamsParsed => ReportedWereReceived
  <2> SUFFICES ASSUME StreamsParsed, NEW d \in Directions
               PROVE  \E places \in SUBSET IntactFrames(Stream(d)) :
                        /\ Len(Messages(d)) = Cardinality(places)
                        /\ \A i \in places :
                             Messages(d)[Cardinality({j \in places : j <= i})]
                               = Stream(d)[i].frame
    BY DEF ReportedWereReceived
  <2> DEFINE parsed == parse_mavlink_data(<<>>, Stream(d))
  <2>1. received[d] \in Seq(Seq(AnyPiece)) /\ <<>> \in Seq(AnyPiece)
    BY DEF StreamsParsed
  <2>2. Stream(d) \in Seq(AnyPiece)
    BY <2>1, FlattenAppend DEF Stream
  <2>3. Located(Stream(d), parsed)
    BY <2>2, ParsedIsLocated
  <2>4. parsed.messages = Messages(d)
    BY DEF StreamsParsed, StreamParsed
  <2> HIDE DEF parsed
  <2>5. PICK places : FoundAt(places, Stream(d), Len(parsed.channel), Messages(d))
    BY <2>3, <2>4 DEF Located
  <2>6. /\ places \in SUBSET IntactFrames(Stream(d))
        /\ Len(Messages(d)) = Cardinality(places)
        /\ \A i \in places :
             Messages(d)[Cardinality({j \in places : j <= i})] = Stream(d)[i].frame
    BY <2>5 DEF FoundAt
  <2> QED BY <2>6
<1> QED BY <1>1, StreamsHold, PTL

-----------------------------------------------------------------------------
(* Datagrams of whole frames                                                *)

\* The pieces of frames, one after the other.
PiecesOf(frames) == FlattenSeq([i \in 1..Len(frames) |-> Whole(frames[i])])

\* The pieces of a frame.
LEMMA WholeType ==
  ASSUME NEW frame \in Frames
  PROVE  /\ Whole(frame) \in Seq(AnyPiece) /\ Len(Whole(frame)) = Pieces
         /\ \A k \in 1..Pieces : Whole(frame)[k] = Piece(frame, k)
BY PiecesAssumption DEF Whole, AnyPiece, Piece

\* The beginning of a frame stays in the channel.
LEMMA BeginningKept ==
  ASSUME NEW frame \in Frames, NEW k \in 1..(Pieces - 1)
  PROVE  LET begun(j) == SubSeq(Whole(frame), 1, j) IN
         mavlink_parse_char(begun(k - 1), Piece(frame, k))
           = [channel |-> begun(k), messages |-> <<>>]
<1> DEFINE begun(j) == SubSeq(Whole(frame), 1, j)
<1>1. k \in 1..Pieces /\ k - 1 \in 0..Pieces /\ Whole(frame)[k] = Piece(frame, k)
  BY PiecesAssumption, WholeType
<1>2. begun(k) = Append(begun(k - 1), Piece(frame, k)) /\ Len(begun(k)) = k
  BY <1>1, WholeType
<1>3. begun(k - 1) = <<>> => Piece(frame, k).n = 1
  <2>1. Len(begun(k - 1)) = k - 1
    BY <1>1, WholeType
  <2>2. Len(<<>>) = 0 /\ Piece(frame, k).n = k
    BY DEF Piece
  <2> HIDE DEF begun
  <2> QED BY <2>1, <2>2
<1> HIDE DEF begun
<1>4. k < Pieces
  BY <1>1, PiecesAssumption
<1>5. mavlink_parse_char(begun(k - 1), Piece(frame, k))
        = [channel |-> begun(k), messages |-> <<>>]
  BY <1>2, <1>3, <1>4, Zenon DEF mavlink_parse_char
<1> QED BY <1>5 DEF begun

\* With its last piece the frame is reported.
LEMMA EndReported ==
  ASSUME NEW frame \in Frames
  PROVE  mavlink_parse_char(SubSeq(Whole(frame), 1, Pieces - 1), Piece(frame, Pieces))
           = [channel |-> <<>>, messages |-> <<frame>>]
<1> DEFINE begun == SubSeq(Whole(frame), 1, Pieces - 1)
           piece == Piece(frame, Pieces)
<1>1. Pieces \in 1..Pieces /\ Pieces - 1 \in 0..Pieces /\ Whole(frame)[Pieces] = piece
  BY PiecesAssumption, WholeType
<1>2. Append(begun, piece) = Whole(frame) /\ Len(begun) = Pieces - 1
  BY <1>1, WholeType
<1>3. ~(begun = <<>> /\ piece.n # 1)
  <2>1. Len(<<>>) = 0
    OBVIOUS
  <2> QED BY <1>1, <1>2, <2>1 DEF Piece
<1>4. Whole(frame)[1].frame = frame /\ ~(Len(Whole(frame)) < Pieces)
  <2>1. 1 \in 1..Pieces /\ Piece(frame, 1).frame = frame
    BY PiecesAssumption DEF Piece
  <2>2. Whole(frame)[1] = Piece(frame, 1) /\ Len(Whole(frame)) = Pieces
    BY <2>1, WholeType, Zenon
  <2> QED BY <1>1, <2>1, <2>2
<1> HIDE DEF begun, piece
<1>5. mavlink_parse_char(begun, piece) = [channel |-> <<>>, messages |-> <<frame>>]
  BY <1>2, <1>3, <1>4, Zenon DEF mavlink_parse_char
<1> QED BY <1>5 DEF begun, piece

\* A frame is parsed from an empty channel and leaves it empty.
LEMMA WholeParsed ==
  ASSUME NEW frame \in Frames
  PROVE  parse_mavlink_data(<<>>, Whole(frame)) = [channel |-> <<>>, messages |-> <<frame>>]
<1> DEFINE begun(j) == SubSeq(Whole(frame), 1, j)
           kept(j) == [channel |-> begun(j), messages |-> <<>>]
<1>1. PICK f : ParsedUpTo(<<>>, Whole(frame), f)
  <2>1. <<>> \in Seq(AnyPiece)
    OBVIOUS
  <2> QED BY <2>1, WholeType, ParsedStates
<1>2. /\ f[0] = [channel |-> <<>>, messages |-> <<>>]
      /\ \A i \in 1..Pieces : f[i] = parse_next(f[i - 1], Piece(frame, i))
      /\ parse_mavlink_data(<<>>, Whole(frame)) = f[Pieces]
  BY <1>1, WholeType DEF ParsedUpTo
<1> DEFINE T == {i \in 0..Pieces - 1 : f[i] = kept(i)}
<1>3. 0 \in T
  <2>1. 0 \in 0..Pieces - 1 /\ begun(0) = <<>>
    BY PiecesAssumption
  <2> QED BY <1>2, <2>1
<1>e. <<>> \o <<>> = <<>> /\ <<>> \o <<frame>> = <<frame>>
  OBVIOUS
<1>4. ASSUME NEW i \in 1..Pieces - 1, i - 1 \in T PROVE i \in T
  <2>1. i \in 1..Pieces /\ i \in 0..Pieces - 1
    BY PiecesAssumption
  <2>2. f[i] = parse_next(kept(i - 1), Piece(frame, i))
    BY <1>2, <1>4, <2>1
  <2>3. mavlink_parse_char(begun(i - 1), Piece(frame, i)) = kept(i)
    BY BeginningKept
  <2> HIDE DEF begun
  <2>4. parse_next(kept(i - 1), Piece(frame, i)) = kept(i)
    BY <1>e, <2>3 DEF parse_next
  <2> QED BY <2>1, <2>2, <2>4
<1>5. f[Pieces - 1] = kept(Pieces - 1)
  <2>1. Pieces - 1 \in Nat /\ Pieces - 1 \in 0..Pieces - 1
    BY PiecesAssumption
  <2> HIDE DEF T
  <2>2. 0..Pieces - 1 \subseteq T
    BY <1>3, <1>4, <2>1, InductionUpTo
  <2> QED BY <2>1, <2>2 DEF T
<1>6. mavlink_parse_char(begun(Pieces - 1), Piece(frame, Pieces))
        = [channel |-> <<>>, messages |-> <<frame>>]
  BY EndReported
<1> HIDE DEF begun
<1>7. parse_next(kept(Pieces - 1), Piece(frame, Pieces))
        = [channel |-> <<>>, messages |-> <<frame>>]
  BY <1>e, <1>6 DEF parse_next
<1>8. Pieces \in 1..Pieces
  BY PiecesAssumption
<1> QED BY <1>2, <1>5, <1>7, <1>8

\* A further frame goes behind the pieces of the others.
LEMMA PiecesAppend ==
  ASSUME NEW frames \in Seq(Frames), NEW frame \in Frames
  PROVE  /\ PiecesOf(frames) \in Seq(AnyPiece)
         /\ PiecesOf(Append(frames, frame)) = PiecesOf(frames) \o Whole(frame)
<1> DEFINE n == Len(frames)
           more == Append(frames, frame)
           wholes == [i \in 1..n |-> Whole(frames[i])]
<1>1. n \in Nat /\ BehindThem(frames, frame, more)
  <2>1. BehindThem(frames, frame, more)
    BY Behind, Zenon
  <2> QED BY <2>1
<1>2. \A i \in 1..n : frames[i] \in Frames
  OBVIOUS
<1> HIDE DEF n, more
<1>3. wholes \in Seq(Seq(AnyPiece)) /\ Len(wholes) = n
  BY <1>1, <1>2, WholeType
<1>4. [i \in 1..Len(more) |-> Whole(more[i])] = Append(wholes, Whole(frame))
  <2> DEFINE longer == Append(wholes, Whole(frame))
  <2>1. /\ longer \in Seq(Seq(AnyPiece)) /\ Len(longer) = n + 1
        /\ longer[n + 1] = Whole(frame) /\ \A i \in 1..n : longer[i] = wholes[i]
    <3> HIDE DEF wholes
    <3> QED BY <1>1, <1>3, WholeType, AppendProperties
  <2>2. Len(more) = n + 1 /\ more[n + 1] = frame /\ \A i \in 1..n : more[i] = frames[i]
    BY <1>1 DEF BehindThem, n
  <2>3. ASSUME NEW i \in 1..n + 1 PROVE longer[i] = Whole(more[i])
    <3>1. CASE i = n + 1
      <4> HIDE DEF longer
      <4> QED BY <2>1, <2>2, <3>1
    <3>2. CASE i \in 1..n
      <4> HIDE DEF longer
      <4> QED BY <2>1, <2>2, <3>2
    <3> QED BY <1>1, <3>1, <3>2
  <2>4. longer = [i \in 1..n + 1 |-> longer[i]]
    <3> HIDE DEF longer
    <3> QED BY <2>1
  <2> HIDE DEF longer
  <2>5. longer = [i \in 1..n + 1 |-> Whole(more[i])]
    BY <2>3, <2>4
  <2> QED BY <2>2, <2>5 DEF longer
<1>5. PiecesOf(frames) = FlattenSeq(wholes)
  BY DEF PiecesOf, n
<1>6. PiecesOf(more) = FlattenSeq(Append(wholes, Whole(frame)))
  BY <1>4 DEF PiecesOf
<1>7. /\ FlattenSeq(wholes) \in Seq(AnyPiece)
      /\ FlattenSeq(Append(wholes, Whole(frame))) = FlattenSeq(wholes) \o Whole(frame)
  <2> HIDE DEF wholes
  <2> QED BY <1>3, WholeType, FlattenAppend
<1> QED BY <1>5, <1>6, <1>7 DEF more

\* Whole frames are reported, each of them, and nothing is kept.
LEMMA FramesParsed ==
  ASSUME NEW frames \in Seq(Frames)
  PROVE  parse_mavlink_data(<<>>, PiecesOf(frames)) = [channel |-> <<>>, messages |-> frames]
<1> DEFINE T == {fs \in Seq(Frames) :
                   parse_mavlink_data(<<>>, PiecesOf(fs)) = [channel |-> <<>>, messages |-> fs]}
<1>0. <<>> \in Seq(AnyPiece) /\ <<>> \in Seq(Frames)
  OBVIOUS
<1>1. <<>> \in T
  <2>1. PiecesOf(<<>>) = <<>>
    BY DEF PiecesOf, FlattenSeq
  <2> QED BY <1>0, <2>1, ParseEmpty
<1>2. ASSUME NEW fs \in Seq(Frames), NEW frame \in Frames, fs \in T
      PROVE  Append(fs, frame) \in T
  <2>1. PiecesOf(fs) \in Seq(AnyPiece)
        /\ PiecesOf(Append(fs, frame)) = PiecesOf(fs) \o Whole(frame)
    BY PiecesAppend
  <2> DEFINE before == parse_mavlink_data(<<>>, PiecesOf(fs))
             after  == parse_mavlink_data(before.channel, Whole(frame))
  <2>2. parse_mavlink_data(<<>>, PiecesOf(fs) \o Whole(frame)) = Then(before, after)
    BY <1>0, <2>1, WholeType, ParseConcat
  <2>3. before = [channel |-> <<>>, messages |-> fs]
    BY <1>2
  <2> HIDE DEF before
  <2>4. after = [channel |-> <<>>, messages |-> <<frame>>]
    BY <2>3, WholeParsed
  <2> HIDE DEF after
  <2>5. fs \o <<frame>> = Append(fs, frame) /\ Append(fs, frame) \in Seq(Frames)
    OBVIOUS
  <2>6. Then(before, after) = [channel |-> <<>>, messages |-> Append(fs, frame)]
    BY <2>3, <2>4, <2>5 DEF Then
  <2> QED BY <2>1, <2>2, <2>5, <2>6
<1>3. Seq(Frames) \subseteq T
  <2> HIDE DEF T
  <2> QED BY <1>1, <1>2, AppendInduction
<1> QED BY <1>3

\* Every place of a last piece is in the data.
LEMMA FramesOfType ==
  ASSUME NEW data \in Seq(AnyPiece)
  PROVE  FramesOf(data) \in Seq(Frames) /\ Len(FramesOf(data)) \in Nat
<1> DEFINE n == Len(data)
           q == n \div Pieces
<1>1. n \in Nat /\ Pieces \in Nat /\ Pieces > 0
  BY PiecesAssumption
<1>2. q \in Nat /\ q * Pieces <= n
  <2> HIDE DEF n
  <2> QED BY <1>1
<1>3. ASSUME NEW i \in 1..q PROVE i * Pieces \in 1..n
  <2> HIDE DEF n, q
  <2> QED BY <1>1, <1>2
<1>4. ASSUME NEW i \in 1..q PROVE data[i * Pieces].frame \in Frames
  <2>1. data[i * Pieces] \in AnyPiece
    <3> HIDE DEF q
    <3> QED BY <1>3
  <2> HIDE DEF q
  <2> QED BY <2>1 DEF AnyPiece
<1>5. FramesOf(data) = [i \in 1..q |-> data[i * Pieces].frame]
  BY DEF FramesOf
<1> HIDE DEF q
<1> QED BY <1>2, <1>4, <1>5

\* The datagrams of a direction that are cut from their stream at the ends of
\* frames only.
OnlyWholeFrames(d) == \A k \in DOMAIN received[d] : WholeFrames(received[d][k])

\* With such datagrams the channel is empty between them, and each was reported
\* frame by frame.
WholeReported(d) ==
  /\ channels[channel_of(d)] = <<>>
  /\ \A k \in DOMAIN received[d] : reported[d][k] = FramesOf(received[d][k])

WholeFramesInv ==
  \A d \in Directions :
    /\ Len(received[d]) = Len(reported[d])
    /\ OnlyWholeFrames(d) => WholeReported(d)

\* Nothing was received that could be cut.
LEMMA WholeFramesInit == Init => WholeFramesInv
<1> SUFFICES ASSUME Init, NEW d \in Directions
             PROVE  Len(received[d]) = Len(reported[d]) /\ WholeReported(d)
  BY DEF WholeFramesInv
<1>1. received[d] = <<>> /\ reported[d] = <<>> /\ channels[channel_of(d)] = <<>>
  BY DEF Init, channel_of
<1>2. DOMAIN <<>> = {}
  OBVIOUS
<1> QED BY <1>1, <1>2 DEF WholeReported

\* A datagram of whole frames that meets an empty channel leaves it empty.
LEMMA WholeFramesStep ==
  StreamsParsed /\ WholeFramesInv /\ [Next]_vars => WholeFramesInv'
<1> SUFFICES ASSUME StreamsParsed, WholeFramesInv, [Next]_vars PROVE WholeFramesInv'
  OBVIOUS
<1>1. CASE UNCHANGED vars
  BY <1>1 DEF vars, WholeFramesInv, OnlyWholeFrames, WholeReported
<1>2. ASSUME NEW direction \in Directions, NEW data \in Datagrams, Receive(direction, data)
      PROVE  WholeFramesInv'
  <2> DEFINE c == channel_of(direction)
             parsed == parse_mavlink_data(channels[c], data)
             R == received[direction]
             P == reported[direction]
  <2>1. /\ data \in Seq(AnyPiece) /\ parsed.messages \in Seq(Frames)
        /\ channels'[c] = parsed.channel
        /\ received'[direction] = Append(R, data)
        /\ reported'[direction] = Append(P, parsed.messages)
    BY <1>2, ReceiveEffect
  <2>2. R \in Seq(Seq(AnyPiece)) /\ P \in Seq(Seq(Frames)) /\ Len(R) = Len(P)
    BY DEF StreamsParsed, WholeFramesInv
  <2>3. OnlyWholeFrames(direction) => WholeReported(direction)
    BY DEF WholeFramesInv
  <2>4. ASSUME WholeFrames(data), channels[c] = <<>>
        PROVE  parsed = [channel |-> <<>>, messages |-> FramesOf(data)]
    <3>1. FramesOf(data) \in Seq(Frames) /\ DOMAIN FramesOf(data) = 1..Len(FramesOf(data))
      BY <2>1, FramesOfType
    <3>2. data = PiecesOf(FramesOf(data))
      BY <2>4, <3>1 DEF WholeFrames, PiecesOf
    <3>3. parse_mavlink_data(<<>>, PiecesOf(FramesOf(data)))
            = [channel |-> <<>>, messages |-> FramesOf(data)]
      BY <3>1, FramesParsed
    <3> QED BY <2>4, <3>2, <3>3
  <2> HIDE DEF parsed, c
  <2>5. Len(received'[direction]) = Len(reported'[direction])
    BY <2>1, <2>2
  <2>6. BehindThem(R, data, received'[direction])
    BY <2>1, <2>2, Behind
  <2>7. BehindThem(P, parsed.messages, reported'[direction])
    BY <2>1, <2>2, Behind
  <2>8. /\ DOMAIN R = 1..Len(R) /\ DOMAIN received'[direction] = 1..Len(R) + 1
        /\ Len(R) \in Nat
    <3>1. received'[direction] \in Seq(Seq(AnyPiece))
      BY <2>1, <2>2, AppendProperties
    <3>2. Len(received'[direction]) = Len(R) + 1
      BY <2>6 DEF BehindThem
    <3> HIDE DEF R
    <3> QED BY <2>2, <3>1, <3>2
  <2>9. ASSUME OnlyWholeFrames(direction)' PROVE WholeReported(direction)'
    <3>1. OnlyWholeFrames(direction) /\ WholeFrames(data)
      <4>1. \A k \in 1..Len(R) + 1 : WholeFrames(received'[direction][k])
        BY <2>8, <2>9 DEF OnlyWholeFrames
      <4>2. \A k \in 1..Len(R) : k \in 1..Len(R) + 1
        BY <2>8
      <4>3. Len(R) + 1 \in 1..Len(R) + 1
        BY <2>8
      <4> QED BY <2>6, <2>8, <4>1, <4>2, <4>3 DEF OnlyWholeFrames, BehindThem
    <3>2. /\ channels[c] = <<>>
          /\ \A k \in DOMAIN R : P[k] = FramesOf(R[k])
      BY <2>3, <3>1 DEF WholeReported, c
    <3>3. parsed.channel = <<>> /\ parsed.messages = FramesOf(data)
      BY <2>4, <3>1, <3>2
    <3>4. ASSUME NEW k \in 1..Len(R) + 1
          PROVE  reported'[direction][k] = FramesOf(received'[direction][k])
      <4>1. CASE k = Len(R) + 1
        BY <2>2, <2>6, <2>7, <3>3, <4>1 DEF BehindThem
      <4>2. CASE k \in 1..Len(R)
        BY <2>2, <2>6, <2>7, <2>8, <3>2, <4>2 DEF BehindThem
      <4> QED BY <2>8, <4>1, <4>2
    <3> QED BY <2>1, <2>8, <3>3, <3>4 DEF WholeReported, c
  <2>10. ASSUME NEW d \in Directions, d # direction
         PROVE  /\ Len(received'[d]) = Len(reported'[d])
                /\ OnlyWholeFrames(d)' => WholeReported(d)'
    <3>1. /\ channels'[channel_of(d)] = channels[channel_of(d)]
          /\ received'[d] = received[d] /\ reported'[d] = reported[d]
      BY <1>2, <2>10, ReceiveOther
    <3> QED BY <3>1 DEF WholeFramesInv, OnlyWholeFrames, WholeReported
  <2> QED BY <2>5, <2>9, <2>10 DEF WholeFramesInv
<1> QED BY <1>1, <1>2 DEF Next

\* Where only datagrams of whole frames arrive in a direction, each is reported
\* frame by frame, whatever arrives in the other direction (README.md:104).
THEOREM WholeDatagramsReported == Spec => []WholeFramesReported
<1>1. WholeFramesInv => WholeFramesReported
  BY DEF WholeFramesInv, OnlyWholeFrames, WholeReported, WholeFramesReported
<1> QED BY <1>1, WholeFramesInit, WholeFramesStep, StreamsHold, PTL DEF Spec
=============================================================================
