--------------------------- MODULE MissionLedger ---------------------------
(***************************************************************************)
(* What the gateway promises about committed mission content, without      *)
(* uploads, frames or revisions: a ledger of the contents that became      *)
(* current, in order, and at most one content that waits for the vehicle's *)
(* answer.  Content that other content has replaced is never taken up      *)
(* again, so the ledger never returns to it.                               *)
(***************************************************************************)
EXTENDS Naturals, Sequences

CONSTANTS
  Contents,   \* what a mission can say
  None        \* nothing is pending

VARIABLES ledger, pending

ledger_vars == <<ledger, pending>>

\* Content that is in the ledger and is not what is current.
Superseded(content) ==
  /\ ledger # <<>> => ledger[Len(ledger)] # content
  /\ \E i \in DOMAIN ledger : ledger[i] = content

LedgerInit == ledger = <<>> /\ pending = None

\* A content becomes pending, in place of another that still was.
Offer ==
  /\ pending' \in Contents
  /\ ~Superseded(pending')
  /\ UNCHANGED ledger

\* The pending content is given up.
Withdraw == pending' = None /\ UNCHANGED ledger

\* The pending content, and no other, becomes current.
Commit ==
  /\ pending # None
  /\ ledger' = Append(ledger, pending)
  /\ pending' = None

LedgerNext == Offer \/ Withdraw \/ Commit

LedgerSpec == LedgerInit /\ [][LedgerNext]_ledger_vars

\* Between two places where the ledger holds the same content it holds
\* nothing else: a mission that was replaced does not come back.
NoReturn ==
  \A i, j, k \in DOMAIN ledger :
    i < j /\ j < k /\ ledger[i] = ledger[k] => ledger[j] = ledger[i]

=============================================================================
