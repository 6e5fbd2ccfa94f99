----------------------------- MODULE StunPacket -----------------------------
(***************************************************************************)
(* parse_stun_binding_success: the address in a STUN binding response, the *)
(* same in every binary.  A packet is a sequence of bytes; an offset counts *)
(* from 0.                                                                 *)
(***************************************************************************)
EXTENDS Integers, Sequences

Byte == 0 .. 255
Word == 0 .. 65535

Cookie == <<33, 18, 164, 66>>

XorMapped == 32
Mapped == 1

U16(bytes, offset) == 256 * bytes[offset + 1] + bytes[offset + 2]
Bytes16(n) == <<n \div 256, n % 256>>

(* The bytes from offset first as far as, but without, offset end.         *)
Slice(bytes, first, end) == SubSeq(bytes, first + 1, end)

Address(host, port) == [host |-> host, port |-> port]
NoAddress == Address(<<>>, 0)

(* a ^ b, of bytes.                                                        *)
Xor(a, b) ==
  LET bit(k) == IF (a \div k) % 2 = (b \div k) % 2 THEN 0 ELSE k
  IN bit(1) + bit(2) + bit(4) + bit(8) + bit(16) + bit(32) + bit(64) + bit(128)

(* What covers port and host in parse_xor_mapped_address, byte by byte:    *)
(* COOKIE >> 16, and COOKIE.                                               *)
Cover == <<33, 18, 33, 18, 164, 66>>

(* Port and host as a value of this type has them, and back.               *)
Covered(type, bytes) ==
  IF type = Mapped THEN bytes ELSE [i \in 1 .. 6 |-> Xor(bytes[i], Cover[i])]

(* parse_mapped_address and parse_xor_mapped_address; 1 is IPv4.           *)
ValueOf(type, value) ==
  IF type \notin {Mapped, XorMapped} \/ Len(value) < 8 \/ value[2] # 1 THEN NoAddress
  ELSE LET bytes == Covered(type, Slice(value, 2, 8))
       IN Address(Slice(bytes, 2, 6), U16(bytes, 0))

(* Mutant of Padding: attributes follow each other without padding.        *)
NoPadding(length) == 0

(* Attributes begin at multiples of four.                                  *)
Padding(length) == (4 - (length % 4)) % 4

IsSuccess(packet, txn) ==
  /\ Len(packet) >= 20
  /\ U16(packet, 0) = 257
  /\ Slice(packet, 4, 8) = Cookie
  /\ Slice(packet, 8, 20) = txn

MaxOffset(packet) ==
  IF Len(packet) < 20 + U16(packet, 2) THEN Len(packet) ELSE 20 + U16(packet, 2)

(* What the loop finds from each offset: the first attribute that holds an *)
(* address, and no attribute after one that does not fit into the packet.  *)
Walk(packet) ==
  LET from[offset \in Nat] ==
        IF offset + 4 > MaxOffset(packet) THEN NoAddress
        ELSE LET length == U16(packet, offset + 2)
                 end == offset + 4 + length
                 parsed == ValueOf(U16(packet, offset), Slice(packet, offset + 4, end))
             IN IF end > Len(packet) THEN NoAddress
                ELSE IF parsed # NoAddress THEN parsed ELSE from[end + Padding(length)]
  IN from

Parse(packet, txn) == IF IsSuccess(packet, txn) THEN Walk(packet)[20] ELSE NoAddress

-----------------------------------------------------------------------------
(* What a STUN server sends: attributes with an address, in either form,   *)
(* or without one.                                                         *)

IPv4 == [host : [1 .. 4 -> Byte], port : Word]

AddressValue(type, address) == <<0, 1>> \o Covered(type, Bytes16(address.port) \o address.host)

(* An attribute, and the address it is about.                              *)
Attribute ==
  {a \in [type : Word, value : Seq(Byte), address : IPv4 \union {NoAddress}] :
     /\ Len(a.value) \in Word
     /\ IF a.address = NoAddress
        THEN a.type \notin {Mapped, XorMapped} \/ Len(a.value) < 8 \/ a.value[2] # 1
        ELSE a.type \in {Mapped, XorMapped} /\ a.value = AddressValue(a.type, a.address)}

(* RFC 5389: length without, value with the padding.                       *)
Encoded(a) ==
  Bytes16(a.type) \o Bytes16(Len(a.value)) \o a.value \o [i \in 1 .. (-Len(a.value)) % 4 |-> 0]

(* The attributes from the n-th on, for each n.                             *)
Bodies(attributes) ==
  LET from[n \in 1 .. Len(attributes) + 1] ==
        IF n > Len(attributes) THEN <<>> ELSE Encoded(attributes[n]) \o from[n + 1]
  IN from

Body(attributes) == Bodies(attributes)[1]

Response(attributes, txn) ==
  LET body == Body(attributes)
  IN <<1, 1>> \o Bytes16(Len(body)) \o Cookie \o txn \o body

FirstAddress(attributes) ==
  LET those == {i \in 1 .. Len(attributes) : attributes[i].address # NoAddress}
  IN IF those = {} THEN NoAddress
     ELSE attributes[CHOOSE i \in those : \A j \in those : i <= j].address

(* The response to txn gives the first address it holds, behind whatever   *)
(* attributes of any length; cut short, the same or none; and for another  *)
(* transaction none.                                                       *)
IsReadFor(attributes, txn, others) ==
  LET packet == Response(attributes, txn)
      address == FirstAddress(attributes)
  IN /\ Parse(packet, txn) = address
     /\ \A other \in others : Parse(packet, other) = NoAddress
     /\ \A n \in 0 .. Len(packet) : Parse(SubSeq(packet, 1, n), txn) \in {address, NoAddress}
=============================================================================
