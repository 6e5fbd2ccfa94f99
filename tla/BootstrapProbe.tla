---------------------------- MODULE BootstrapProbe ----------------------------
(***************************************************************************)
(* The two clients of the older flow, hello, server-info, PROBE: the Rust  *)
(* fips-bootstrap-client and the core of the mobile app, against a server  *)
(* of the Node package with the session handler of fips-daemon.mjs, or an  *)
(* older peer that still writes its acks as JSON.                          *)
(*                                                                         *)
(* Each program makes one call.  The relay may hold answers to earlier     *)
(* calls of the same key; UDP packets are lost, repeated and overtake each *)
(* other.  Time is abstract: a timeout may fire whenever its wait goes on. *)
(***************************************************************************)
EXTENDS Integers, FiniteSets

CONSTANTS
  Old,        \* nonces of earlier calls
  This,       \* session id and nonce of the call
  MaxProbes,  \* bounds how often a probe is sent
  Nothing     \* no message

ASSUME NonceAssumption == This \notin Old /\ Nothing \notin Old \union {This}
ASSUME MaxProbesAssumption == MaxProbes \in Nat

VARIABLES
  program,   \* "bootstrap" and "connect", --mode of the Rust client; "mobile" and "echo" of the app
  acks,      \* "binary" or "json", how the server writes its acks
  at,        \* where the call is
  relay,     \* replies the relay delivers: those it holds and those that come
  asked,     \* the hello has reached the server
  info,      \* server_info
  probes,    \* PROBEs sent
  net,       \* packets on their way
  heard,     \* the server has heard a PROBE of the call
  handoff,   \* the handoff file
  ok         \* echo_roundtrip_ok

serverVars == <<acks, asked, heard>>
probeVars == <<program, at, relay, info, probes, net, handoff, ok, serverVars>>

Reply(n, punch) == [session |-> n, nonce |-> n, punch |-> punch]
Replies == {Reply(n, punch) : n \in Old \union {This}, punch \in BOOLEAN}
Packet == [to : {"server", "client"}, t : {"PROBE", "PROBE_ACK", "ack", "ping", "fips_status"}]

Stages == {"start", "hello", "waiting", "probing", "probed", "writing", "pinging", "echo", "done", "failed"}
Ended == at \in {"done", "failed"}

ProbeTypeOK ==
  /\ program \in {"bootstrap", "connect", "mobile", "echo"}
  /\ acks \in {"binary", "json"}
  /\ at \in Stages
  /\ relay \subseteq Replies
  /\ asked \in BOOLEAN /\ heard \in BOOLEAN /\ ok \in BOOLEAN
  /\ info \in Replies \union {Nothing}
  /\ probes \in 0 .. MaxProbes
  /\ net \subseteq Packet
  /\ handoff \in Old \union {This, Nothing}

(* The Rust client may be started again with the same key; the app draws a *)
(* new one for every call, and nobody has written to it before.            *)
ProbeInit ==
  /\ program \in {"bootstrap", "connect", "mobile", "echo"}
  /\ acks \in {"binary", "json"}
  /\ at = "start"
  /\ relay \in IF program \in {"bootstrap", "connect"}
               THEN SUBSET {Reply(n, TRUE) : n \in Old} ELSE {{}}
  /\ asked = FALSE
  /\ info = Nothing
  /\ probes = 0
  /\ net = {}
  /\ heard = FALSE
  /\ handoff = Nothing
  /\ ok = FALSE

-----------------------------------------------------------------------------
(* Hello and server-info.                                                  *)

(* wants.fips_connect: always set by the Rust client, whose want_fips is   *)
(* true, and by the app as its caller asks.                                *)
WantsConnect == program # "mobile"

(* connect_async, REQ, EVENT; every ? on the way ends the call.            *)
SendHello ==
  /\ at = "start"
  /\ at' = "hello"
  /\ UNCHANGED <<program, relay, info, probes, net, handoff, ok, serverVars>>

ServerReadsHello ==
  /\ at # "start" /\ ~asked
  /\ asked' = TRUE
  /\ relay' = relay \union {Reply(This, WantsConnect)}
  /\ UNCHANGED <<program, at, info, probes, net, handoff, ok, acks, heard>>

(* Mutant of ValidateFor: any server-info will do.                          *)
ValidateType(r) == TRUE

ValidateFor(r) == r.session = This /\ r.nonce = This

AcceptedByApp(r) == r.session = This /\ r.nonce = This

AfterReply ==
  CASE program = "bootstrap" -> "writing"
    [] program = "connect" -> "waiting"
    [] program = "mobile" -> "done"
    [] program = "echo" -> "waiting"

(* Replies that do not match are passed over.                              *)
ReceiveReply(r) ==
  /\ at = "hello"
  /\ r \in relay
  /\ IF program \in {"bootstrap", "connect"} THEN ValidateFor(r) ELSE AcceptedByApp(r)
  /\ info' = r
  /\ at' = AfterReply
  /\ UNCHANGED <<program, relay, probes, net, handoff, ok, serverVars>>

Fail ==
  /\ at' = "failed"
  /\ UNCHANGED <<program, relay, info, probes, net, handoff, ok, serverVars>>

(* The timeout, a relay that closes, and OK with status false.             *)
HelloFails == at \in {"start", "hello"} /\ Fail

-----------------------------------------------------------------------------
(* The probes of the Rust client's connect mode.                           *)

Send(t) == net' = net \union {[to |-> "server", t |-> t]}
FromServer(t) == [to |-> "client", t |-> t]

(* Without a punch block there is nothing to wait for.                     *)
WaitForStart ==
  /\ at = "waiting"
  /\ at' = IF info.punch THEN "probing" ELSE "failed"
  /\ UNCHANGED <<program, relay, info, probes, net, handoff, ok, serverVars>>

SendProbe ==
  /\ at = "probing"
  /\ probes < MaxProbes
  /\ probes' = probes + 1
  /\ at' = "probed"
  /\ Send("PROBE")
  /\ UNCHANGED <<program, relay, info, handoff, ok, serverVars>>

(* The interval passes without a packet.                                   *)
NothingHeard ==
  /\ at = "probed"
  /\ at' = "probing"
  /\ UNCHANGED <<program, relay, info, probes, net, handoff, ok, serverVars>>

(* A received packet is gone, repeated or not.                             *)
Consume(p) == p \in net /\ (net' = net \ {p} \/ net' = net)

(* Only an ack written as JSON is one; whatever else is heard is dropped,  *)
(* and the next probe is sent.                                             *)
ReceiveInClient(p) ==
  /\ at = "probed" /\ program = "connect"
  /\ Consume(p) /\ p.to = "client"
  /\ at' = IF p.t = "PROBE_ACK" THEN "writing" ELSE "probing"
  /\ UNCHANGED <<program, relay, info, probes, handoff, ok, serverVars>>

(* Mutant of WindowEnds: the file is written without an ack.                *)
WindowEndsAnyway ==
  /\ at = "probing" /\ program = "connect"
  /\ probes > 0
  /\ at' = "writing"
  /\ UNCHANGED <<program, relay, info, probes, net, handoff, ok, serverVars>>

WindowEnds ==
  /\ at = "probing" /\ program = "connect"
  /\ probes > 0
  /\ Fail

(* --out-handoff; a file that cannot be written ends the call.             *)
WriteHandoff ==
  /\ at = "writing"
  /\ \/ at' = "done" /\ handoff' = info.nonce
     \/ at' = "failed" /\ UNCHANGED handoff
  /\ UNCHANGED <<program, relay, info, probes, net, ok, serverVars>>

-----------------------------------------------------------------------------
(* The echo test of the app, on a socket of its own.                       *)

ReceiveInApp(p) ==
  /\ at = "probed" /\ program = "echo"
  /\ Consume(p) /\ p.to = "client"
  /\ at' = IF p.t = "PROBE_ACK" THEN "pinging" ELSE "probing"
  /\ UNCHANGED <<program, relay, info, probes, handoff, ok, serverVars>>

(* The window ends, with an ack or without one.                            *)
GoOnWithoutAck ==
  /\ at = "probing" /\ program = "echo"
  /\ probes > 0
  /\ at' = "pinging"
  /\ UNCHANGED <<program, relay, info, probes, net, handoff, ok, serverVars>>

SendPing ==
  /\ at = "pinging"
  /\ at' = "echo"
  /\ Send("ping")
  /\ UNCHANGED <<program, relay, info, probes, handoff, ok, serverVars>>

(* Mutant of IsEcho: any packet of the server is one.                       *)
IsAnyPacket(p) == p.to = "client"

IsEcho(p) == p.t = "fips_status"

(* Both fips_pong and fips_status end the wait; a packet that is neither   *)
(* changes only what is told when the wait ends.  The server sends no pong *)
(* (ReceivePing).                                                          *)
ReceiveEcho(p) ==
  /\ at = "echo"
  /\ Consume(p) /\ p.to = "client"
  /\ IF IsEcho(p) THEN ok' = TRUE /\ at' = "done" ELSE UNCHANGED <<ok, at>>
  /\ UNCHANGED <<program, relay, info, probes, handoff, serverVars>>

EchoTimesOut ==
  /\ at = "echo"
  /\ at' = "done"
  /\ UNCHANGED <<program, relay, info, probes, net, handoff, ok, serverVars>>

(* send_to fails, for an endpoint that is no address.                      *)
SendFails ==
  /\ at \in {"probing", "pinging"}
  /\ Fail

-----------------------------------------------------------------------------
(* The server.  It needs no hello for a PROBE that names its nonce.        *)

(* An ack in the server's form; the first probe opens a session, which     *)
(* says so with a fips_status.  An older peer knows no such sessions.      *)
HasSession == heard /\ acks = "binary"

ReceiveProbe(p) ==
  /\ p.to = "server" /\ p.t = "PROBE"
  /\ p \in net
  /\ \E left \in {net, net \ {p}} :
       net' = left \union (IF acks = "json" THEN {FromServer("PROBE_ACK")}
                           ELSE {FromServer("ack")} \union
                                (IF HasSession THEN {} ELSE {FromServer("fips_status")}))
  /\ heard' = TRUE
  /\ UNCHANGED <<program, at, relay, info, probes, handoff, ok, acks, asked>>

(* FipsStackSession passes over a frame that does not name its session:    *)
(* the ping of the app has a nonce, and no sessionId.                      *)
ReceivePing(p) ==
  /\ p.to = "server" /\ p.t = "ping"
  /\ Consume(p)
  /\ UNCHANGED <<program, at, relay, info, probes, handoff, ok, serverVars>>

Lose(p) ==
  /\ p \in net
  /\ net' = net \ {p}
  /\ UNCHANGED <<program, at, relay, info, probes, handoff, ok, serverVars>>

-----------------------------------------------------------------------------
Step ==
  \/ SendHello \/ HelloFails
  \/ \E r \in relay : ReceiveReply(r)
  \/ WaitForStart \/ SendProbe \/ NothingHeard \/ WindowEnds \/ WriteHandoff
  \/ GoOnWithoutAck \/ SendPing \/ EchoTimesOut \/ SendFails

ProbeNext ==
  \/ Step
  \/ \E p \in net : \/ ReceiveInClient(p) \/ ReceiveInApp(p) \/ ReceiveEcho(p)
                    \/ ReceiveProbe(p) \/ ReceivePing(p) \/ Lose(p)
  \/ ServerReadsHello

ProbeSpec == ProbeInit /\ [][ProbeNext]_probeVars

-----------------------------------------------------------------------------
(* Properties.                                                             *)

(* The handoff file is about this call: the server has read its hello,     *)
(* also when the relay still has answers to earlier ones, and in connect   *)
(* mode it has heard a probe.                                              *)
HandoffIsOfThisCall ==
  handoff # Nothing =>
    handoff = This /\ asked /\ (program = "connect" => heard)

(* What the app calls a successful round trip is at least a session that   *)
(* the probes of this call opened, on a server that was asked for it.      *)
OkMeansSession == ok => asked /\ HasSession
=============================================================================
