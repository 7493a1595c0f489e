------------------------ MODULE MissionReconstructor ------------------------
(***************************************************************************)
(* The buffer in which the gateway rebuilds a mission upload from the      *)
(* MISSION_COUNT and MISSION_ITEM_INT messages of a ground control station *)
(* (mission_reconstructor.h, mission_reconstructor.cpp).                   *)
(*                                                                         *)
(* A transaction is a record with the fields of MissionUploadTransaction.  *)
(* The vectors items and received are sequences: the element C++ indexes   *)
(* with seq is at seq + 1.  An item frame is a record with fields seq,     *)
(* mission_type and payload; the payload stands for every field of         *)
(* mavlink_mission_item_int_t that describes the item itself.              *)
(***************************************************************************)
EXTENDS Naturals, Sequences

CONSTANTS
  Items,      \* payloads a ground control station may upload
  BlankItem   \* the value-initialised element vector::resize puts in items

\* The mission types a frame may carry; every type that is not MISSION
\* (fence, rally) takes the same branches, so one stands for them all.
MissionTypes == {"MISSION", "FENCE"}

\* struct MissionUploadTransaction
MissionUploadTransaction ==
  [active: BOOLEAN,
   mission_type: MissionTypes,
   expected_count: Nat,
   items: Seq(Items \cup {BlankItem}),
   received: Seq(BOOLEAN)]

\* MissionUploadTransaction mission_upload{}
NoUpload ==
  [active |-> FALSE, mission_type |-> "MISSION", expected_count |-> 0,
   items |-> <<>>, received |-> <<>>]

\* Mutant: the items are cleared but not resized.
start_mission_upload_unsized(mission_type, count) ==
  [active |-> TRUE, mission_type |-> mission_type, expected_count |-> count,
   items |-> <<>>, received |-> [i \in 1..count |-> FALSE]]

start_mission_upload(mission_type, count) ==
  [active |-> TRUE, mission_type |-> mission_type, expected_count |-> count,
   items |-> [i \in 1..count |-> BlankItem],
   received |-> [i \in 1..count |-> FALSE]]

\* An item outside the running transaction is dropped; one inside it
\* overwrites what the buffer held for its seq, however often it comes.
ItemBelongs(transaction, item) ==
  /\ transaction.active
  /\ item.mission_type = transaction.mission_type
  /\ item.seq < transaction.expected_count

store_mission_item(transaction, item) ==
  IF ItemBelongs(transaction, item)
  THEN [transaction EXCEPT !.items[item.seq + 1] = item.payload,
                           !.received[item.seq + 1] = TRUE]
  ELSE transaction

\* A transaction for zero items is complete at once: received is empty.
mission_upload_complete(transaction) ==
  /\ transaction.active
  /\ \A i \in DOMAIN transaction.received : transaction.received[i]

\* The seqs the gateway still misses, whether or not the transaction is active.
MissingSeqs(transaction) ==
  {i - 1 : i \in {k \in DOMAIN transaction.received : ~transaction.received[k]}}

=============================================================================
