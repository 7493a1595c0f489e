------------------------- MODULE MissionLedgerProofs -------------------------
(***************************************************************************)
(* Theorems about MissionLedger for every value of its constants.          *)
(***************************************************************************)
EXTENDS MissionLedger, TLAPS

\* NoReturn is not inductive: it needs that what waits for the vehicle is not
\* superseded, since a commit appends it.
LedgerInv ==
  /\ ledger \in Seq(Contents)
  /\ pending \in Contents \cup {None}
  /\ pending # None => ~Superseded(pending)
  /\ NoReturn

\* The empty ledger returns to nothing.
LEMMA LedgerInvInit == LedgerInit => LedgerInv
BY DEF LedgerInit, LedgerInv, NoReturn

\* Appending content that is not superseded does not return to anything.
LEMMA AppendNoReturn ==
  ASSUME ledger \in Seq(Contents), NEW content \in Contents, ~Superseded(content),
         NoReturn, ledger' = Append(ledger, content)
  PROVE  NoReturn'
<1> DEFINE n == Len(ledger)
<1>1. /\ n \in Nat /\ DOMAIN ledger = 1..n /\ DOMAIN ledger' = 1..(n + 1)
      /\ ledger'[n + 1] = content
      /\ \A i \in 1..n : ledger'[i] = ledger[i]
  OBVIOUS
<1> HIDE DEF n
<1>2. ASSUME NEW i \in 1..(n + 1), NEW j \in 1..(n + 1), NEW k \in 1..(n + 1),
             i < j, j < k, ledger'[i] = ledger'[k]
      PROVE  ledger'[j] = ledger'[i]
  <2>1. i \in 1..n /\ j \in 1..n
    BY <1>1, <1>2
  <2>2. CASE k \in 1..n
    BY <1>1, <1>2, <2>1, <2>2 DEF NoReturn
  <2>3. CASE k = n + 1
    <3>1. ledger[i] = content
      BY <1>1, <1>2, <2>1, <2>3
    <3>2. ledger[n] = content
      BY <1>1, <2>1, <3>1 DEF Superseded, n
    <3>3. ledger[j] = ledger[i]
      BY <1>1, <1>2, <2>1, <3>1, <3>2 DEF NoReturn
    <3> QED BY <1>1, <2>1, <3>3
  <2> QED BY <1>1, <2>2, <2>3
<1> QED BY <1>1, <1>2 DEF NoReturn

\* Every step of the ledger keeps the invariant.
LEMMA LedgerInvStep == LedgerInv /\ [LedgerNext]_ledger_vars => LedgerInv'
<1> SUFFICES ASSUME LedgerInv, [LedgerNext]_ledger_vars PROVE LedgerInv'
  OBVIOUS
<1>1. CASE Offer
  BY <1>1 DEF LedgerInv, Offer, Superseded, NoReturn
<1>2. CASE Withdraw
  BY <1>2 DEF LedgerInv, Withdraw, NoReturn
<1>3. CASE Commit
  <2>1. pending \in Contents /\ ~Superseded(pending)
    BY <1>3 DEF Commit, LedgerInv
  <2>2. NoReturn'
    BY <1>3, <2>1, AppendNoReturn DEF Commit, LedgerInv
  <2> QED BY <1>3, <2>1, <2>2 DEF Commit, LedgerInv
<1>4. CASE UNCHANGED ledger_vars
  BY <1>4 DEF ledger_vars, LedgerInv, Superseded, NoReturn
<1> QED BY <1>1, <1>2, <1>3, <1>4 DEF LedgerNext

\* The ledger never returns to content that was replaced.
THEOREM LedgerNeverReturns == LedgerSpec => []NoReturn
<1>1. LedgerInv => NoReturn
  BY DEF LedgerInv
<1> QED BY <1>1, LedgerInvInit, LedgerInvStep, PTL DEF LedgerSpec

==============================================================================
