------------------------------ MODULE PunchPlan ------------------------------
(***************************************************************************)
(* The addresses an end of a rendezvous offers and the addresses it then   *)
(* sends probes to: pure rules of lib.rs and of the binaries, which all    *)
(* have the same.  The order of the targets is left out: start_punch sends *)
(* to each of them in every round.                                         *)
(*                                                                         *)
(* An address is a host with its port and is only compared.  An end is     *)
(* what the rules look at: whether STUN servers are configured, the        *)
(* address a STUN server reported, the address of the interface that       *)
(* local_ipv4_hint finds, and --public-host.                               *)
(***************************************************************************)
EXTENDS Integers

CONSTANTS
  Addr,      \* addresses
  Subnet,    \* the first three parts of each
  Loopback,  \* 127.0.0.1
  Nothing    \* no address

ASSUME AddrAssumption == Nothing \notin Addr /\ Loopback \in Addr

Maybe(S) == S \union {Nothing}

End == [stunServers : BOOLEAN, stun : Maybe(Addr), interface : Maybe(Addr),
        publicHost : Maybe(Addr)]

OrElse(a, b) == IF a # Nothing THEN a ELSE b

(* a as a set of at most one address.                                      *)
Those(a) == {a} \ {Nothing}

(* local_traversal_addresses: the public host only stands in for an        *)
(* address by STUN.                                                        *)
Reflexive(e) == OrElse(IF e.stunServers THEN e.stun ELSE Nothing, e.publicHost)

LocalAddresses(e) == Those(e.interface)

(* resolve_traversal_endpoint: one address for the hello and its reply.    *)
(* Here the interface goes before the public host, unless no STUN server   *)
(* is configured and there is no observation at all.                       *)
Endpoint(e) ==
  OrElse(IF e.stunServers THEN OrElse(e.stun, e.interface) ELSE Nothing,
         OrElse(e.publicHost, OrElse(e.interface, Loopback)))

(* What an offer or an answer says of its sender.                          *)
Described(e) == [reflexive |-> Reflexive(e), local |-> LocalAddresses(e)]

Addresses(d) == d.local \union Those(d.reflexive)

SameSubnet(p) == Subnet[p[1]] = Subnet[p[2]]

(* Mutant of PlanPunchTargets: two addresses by STUN are thought to do.     *)
PlanReflexiveOrLocal(own, other) ==
  LET reflexive == Those(own.reflexive) \X Those(other.reflexive) IN
  IF reflexive # {} THEN reflexive ELSE own.local \X other.local

(* The pairs an end tries: Lan, Reflexive, the two Mixed ones, Local.      *)
PlanPunchTargets(own, other) ==
  {p \in own.local \X other.local : SameSubnet(p)}
  \union (Those(own.reflexive) \X Those(other.reflexive))
  \union (own.local \X Those(other.reflexive))
  \union (Those(own.reflexive) \X other.local)
  \union (own.local \X other.local)

(* The first local address, of which there is at most one.                 *)
SelectRemote(other) ==
  IF other.reflexive # Nothing THEN {other.reflexive} ELSE other.local

(* The addresses probes go to, each once; one of the other end's if the    *)
(* end has none of its own to pair them with.                              *)
PlannedRemotes(own, other) ==
  LET remotes == {p[2] : p \in PlanPunchTargets(own, other)} IN
  IF remotes = {} THEN SelectRemote(other) ELSE remotes
=============================================================================
