-------------------------- MODULE MCStunObservation --------------------------
(* StunObservation with two STUN servers, tried in this order, and the      *)
(* packets its responses arrive in: up to two attributes of each kind, and  *)
(* of each length modulo four.                                             *)
EXTENDS StunResponses

Seqs == INSTANCE SequencesExt

TwoServers == <<"default", "spare">>

(* The bytes of each transaction id, which the last tells apart.           *)
Id == LET order == Seqs!SetToSeq(Txn)
      IN [txn \in Txn |-> [i \in 1 .. 12 |-> IF i < 12 THEN i
                                           ELSE CHOOSE n \in DOMAIN order : order[n] = txn]]

Public == Address(<<203, 0, 113, 7>>, 40010)
Other == Address(<<198, 51, 100, 9>>, 443)

WithAddress ==
  {[type |-> t, value |-> AddressValue(t, a), address |-> a] :
     t \in {Mapped, XorMapped}, a \in {Public, Other}}

(* IPv6, and the attribute SOFTWARE with any length.                       *)
WithoutAddress ==
  {[type |-> t, value |-> [AddressValue(t, Public) EXCEPT ![2] = 2], address |-> NoAddress] :
     t \in {Mapped, XorMapped}}
  \union {[type |-> 32802, value |-> [i \in 1 .. n |-> 1], address |-> NoAddress] : n \in 0 .. 3}

UpToTwo == UNION {[1 .. n -> WithAddress \union WithoutAddress] : n \in 0 .. 2}
=============================================================================
