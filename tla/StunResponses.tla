---------------------------- MODULE StunResponses ----------------------------
(***************************************************************************)
(* StunObservation with the packets in which its responses arrive: the     *)
(* STUN branch of udp_task reads each of them with StunPacket's Parse.     *)
(***************************************************************************)
EXTENDS StunObservation, StunPacket

CONSTANTS
  TxnId,      \* the transaction id in the packets of a probe
  Responses   \* attributes of responses that STUN servers send

(* Ids are drawn at random from 96 bits, and taken for different.          *)
ASSUME TxnIdAssumption ==
  /\ TxnId \in [Txn -> [1 .. 12 -> Byte]]
  /\ \A t, u \in Txn : TxnId[t] = TxnId[u] => t = u

ASSUME ResponsesAssumption ==
  \A attributes \in Responses : attributes \in Seq(Attribute) /\ Len(Body(attributes)) \in Word

(* The responses to txn are read as such and as no others, whatever they   *)
(* hold.                                                                   *)
IsRead(txn) ==
  \A attributes \in Responses :
    IsReadFor(attributes, TxnId[txn], {TxnId[u] : u \in Txn \ {txn}})

(* A set that TLC computes once.                                           *)
Readable == {IF IsRead(txn) THEN txn ELSE None : txn \in Txn}

(* udp_task reads every response on its way as the answer to its own probe *)
(* and to no other, with the first address the server reported or, cut     *)
(* short, with none; parse_stun_binding_success walks over attributes of   *)
(* other types and lengths on the way.                                     *)
ResponsesAreRead == net \subseteq Readable
=============================================================================
