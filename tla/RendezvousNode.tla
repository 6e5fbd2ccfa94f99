--------------------------- MODULE RendezvousNode ---------------------------
(***************************************************************************)
(* The Node package fips-nostr-rendezvous: clients that discover a server  *)
(* by its advert or dial it by name, exchange an offer or a hello for an   *)
(* answer or a server-info, punch, and send session frames; and close(),   *)
(* which any node may call at any time.                                    *)
(*                                                                         *)
(* JavaScript runs a callback to its end, so an action is what happens     *)
(* between two awaits.  An attempt is one call of connect; its offer and   *)
(* its hello carry the same fresh nonce, which names the punch and the     *)
(* session on both ends, so that the attempt itself stands for the nonce.  *)
(*                                                                         *)
(* `dms' and `udp' hold everything ever sent and nothing is taken out:     *)
(* what was sent may arrive late, never, again, or in another order.  That *)
(* includes the repetitions every retryMs, and those of the punch.         *)
(*                                                                         *)
(* Older clients (bootstrap-client, fips-combo-client, api.rs) punch with  *)
(* probes in JSON that name their nonce themselves, and the server takes   *)
(* them as they come: it asks neither for a registered punch nor for       *)
(* trust.  They are the environment here, and send one at any time.        *)
(*                                                                         *)
(* Not here: which advert is found; punchSessions, which is read only for  *)
(* the nonce of an attempt registered the moment before, when it can hold  *)
(* nothing; and what the older clients do besides their probes.            *)
(***************************************************************************)
EXTENDS Integers

CONSTANTS
  Client,   \* nodes that connect
  Server,   \* the node they connect to
  Attempt,  \* calls of connect; bounds the run
  Caller,   \* the client that makes an attempt
  JsonNonce, \* nonces that probes in JSON name
  JsonPath, \* the paths between the socket that names one and the server
  Trusted,  \* trustedNpubs of the server; everyone when that is empty
  Path,     \* pairs of addresses between which datagrams pass
  Closing,  \* nodes that may be closed; bounds the run
  None      \* no path

ASSUME ServerAssumption == Server \notin Client
ASSUME CallerAssumption == Caller \in [Attempt -> Client]
(* Every client draws its nonces at random.                                *)
ASSUME JsonAssumption ==
  /\ JsonNonce \intersect Attempt = {}
  /\ JsonPath \in [JsonNonce -> SUBSET Path]
ASSUME TrustedAssumption == Trusted \subseteq Client
ASSUME NoneAssumption == None \notin Path

Node == Client \union {Server}
PathOrNone == Path \union {None}
Nonce == Attempt \union JsonNonce
Peer(n, a) == IF n = Server THEN Caller[a] ELSE Server
Trusts(c) == Trusted = {} \/ c \in Trusted

VARIABLES
  phase,          \* where connect is, for each attempt
  pending,        \* pendingTraversalResponses of all clients
  handling,       \* requests whose handler on the server awaits the STUN refresh
  hashes,         \* punchHashToNonce of each node
  timers,         \* punchTimers: the nonces each node sends probes for
  sessions,       \* the remote of each FipsStackSession
  closed,         \* nodes that were closed
  dms,            \* private messages sent
  udp,            \* datagrams sent
  returned,       \* the remote connect returned; for the properties
  agreed,         \* nonces the server has started a punch for; for the properties
  heard           \* ends of sessions that were given a frame; for the properties

tables == <<pending, hashes, timers, sessions>>
history == <<returned, agreed, heard>>
vars == <<phase, tables, handling, closed, dms, udp, history>>

Phase == {"idle", "listing", "refreshing", "lookup", "waiting", "punching", "ok", "failed"}

(* An offer and a hello go out together, and either makes the server do    *)
(* the same: start a punch and reply, with an answer or a server-info,     *)
(* which the client takes alike.                                           *)
Dm == {"request", "response"} \X Attempt
Packet(k, to, a, p) == [kind |-> k, to |-> to, nonce |-> a, path |-> p]

(* What the older clients send to the endpoint of a server-info.           *)
JsonProbe ==
  UNION {{Packet("json", Server, x, p) : p \in JsonPath[x]} : x \in JsonNonce}

TypeOK ==
  /\ phase \in [Attempt -> Phase]
  /\ pending \subseteq Attempt
  /\ handling \subseteq Attempt
  /\ hashes \in [Node -> SUBSET Attempt]
  /\ timers \in [Node -> SUBSET Attempt]
  /\ sessions \in [Node -> [Nonce -> PathOrNone]]
  /\ closed \subseteq Node
  /\ dms \subseteq Dm
  /\ udp \subseteq [kind : {"probe", "ack", "frame"}, to : Node, nonce : Attempt, path : Path]
  /\ returned \in [Attempt -> PathOrNone]
  /\ agreed \subseteq Attempt
  /\ heard \subseteq Node \X Attempt

Init ==
  /\ phase = [a \in Attempt |-> "idle"]
  /\ pending = {}
  /\ handling = {}
  /\ hashes = [n \in Node |-> {}]
  /\ timers = [n \in Node |-> {}]
  /\ sessions = [n \in Node |-> [x \in Nonce |-> None]]
  /\ closed = {}
  /\ dms = {}
  /\ udp = {}
  /\ returned = [a \in Attempt |-> None]
  /\ agreed = {}
  /\ heard = {}

GoTo(a, p) == phase' = [phase EXCEPT ![a] = p]

-----------------------------------------------------------------------------
(* connect and its callers.                                                *)

Connect(a) ==
  /\ phase[a] = "idle"
  /\ GoTo(a, "refreshing")
  /\ UNCHANGED <<tables, handling, closed, dms, udp, history>>

ConnectToDiscoveredPeer(a) ==
  /\ phase[a] = "idle"
  /\ GoTo(a, "listing")
  /\ UNCHANGED <<tables, handling, closed, dms, udp, history>>

(* listAdvertisedPeers found an advert, and connectFromAdvert dials it.     *)
(* close() empties the cache of adverts.                                   *)
Discovered(a) ==
  /\ phase[a] = "listing"
  /\ Caller[a] \notin closed
  /\ GoTo(a, "refreshing")
  /\ UNCHANGED <<tables, handling, closed, dms, udp, history>>

(* Nothing came within waitMs, or the advert is no longer valid.           *)
DiscoveryFails(a) ==
  /\ phase[a] = "listing"
  /\ GoTo(a, "failed")
  /\ UNCHANGED <<tables, handling, closed, dms, udp, history>>

(* The refresh or _buildTraversalOffer asks a closed socket for its        *)
(* address, which throws.                                                  *)
Refreshed(a) ==
  /\ phase[a] = "refreshing"
  /\ GoTo(a, IF Caller[a] \in closed THEN "failed" ELSE "lookup")
  /\ UNCHANGED <<tables, handling, closed, dms, udp, history>>

(* The relays of the recipient are known: be ready for a response, publish *)
(* offer and hello.  The nonce is not registered for punch packets yet.    *)
SendOffer(a) ==
  /\ phase[a] = "lookup"
  /\ GoTo(a, "waiting")
  /\ pending' = pending \union {a}
  /\ dms' = dms \union {<<"request", a>>}
  /\ UNCHANGED <<hashes, timers, sessions, handling, closed, udp,
                 history>>

(* Mutant of ResponseTimeout: close() also clears the timer of connect.    *)
ResponseTimeoutUnlessClosed(a) ==
  /\ phase[a] = "waiting"
  /\ Caller[a] \notin closed
  /\ pending' = pending \ {a}
  /\ GoTo(a, "failed")
  /\ UNCHANGED <<hashes, timers, sessions, handling, closed, dms, udp,
                 history>>

ResponseTimeout(a) ==
  /\ phase[a] = "waiting"
  /\ pending' = pending \ {a}
  /\ GoTo(a, "failed")
  /\ UNCHANGED <<hashes, timers, sessions, handling, closed, dms, udp,
                 history>>

(* _startPunch: from now on punch packets of the nonce are listened to.    *)
(* The hash stays when the timers end.                                     *)
StartPunch(n, a) ==
  /\ hashes' = [hashes EXCEPT ![n] = @ \union {a}]
  /\ timers' = [timers EXCEPT ![n] = @ \union {a}]

(* The first response, of either kind, takes the entry out of the table;   *)
(* connect goes on before any other callback.                              *)
ReceiveResponse(a) ==
  /\ <<"response", a>> \in dms
  /\ Caller[a] \notin closed
  /\ a \in pending
  /\ pending' = pending \ {a}
  /\ StartPunch(Caller[a], a)
  /\ GoTo(a, "punching")
  /\ UNCHANGED <<sessions, handling, closed, dms, udp, history>>

PunchTimeout(a) ==
  /\ phase[a] = "punching"
  /\ GoTo(a, "failed")
  /\ UNCHANGED <<tables, handling, closed, dms, udp, history>>

-----------------------------------------------------------------------------
(* The server's handler of offers and hellos.  The relay pool does not     *)
(* wait for it, so that several may await the refresh at once.             *)

(* Mutant of HearDm: the sender of a request is not looked at.             *)
HearDmOfAnyone(a) ==
  /\ <<"request", a>> \in dms
  /\ Server \notin closed
  /\ handling' = handling \union {a}
  /\ UNCHANGED <<phase, tables, closed, dms, udp, history>>

HearDm(a) ==
  /\ <<"request", a>> \in dms
  /\ Server \notin closed
  /\ Trusts(Caller[a])
  /\ handling' = handling \union {a}
  /\ UNCHANGED <<phase, tables, closed, dms, udp, history>>

(* Mutant of HandleClosed: the handler does not ask the socket, and    *)
(* punches although the node was closed.                                   *)
HandleAlthoughClosed(a) ==
  /\ a \in handling
  /\ Server \in closed
  /\ handling' = handling \ {a}
  /\ StartPunch(Server, a)
  /\ UNCHANGED <<phase, pending, sessions, closed, dms, udp, history>>

(* The socket was closed during the refresh: asking for its address throws *)
(* and the handler swallows it.                                            *)
HandleClosed(a) ==
  /\ a \in handling
  /\ Server \in closed
  /\ handling' = handling \ {a}
  /\ UNCHANGED <<phase, tables, closed, dms, udp, history>>

Handle(a) ==
  /\ a \in handling
  /\ Server \notin closed
  /\ handling' = handling \ {a}
  /\ dms' = dms \union {<<"response", a>>}
  /\ StartPunch(Server, a)
  /\ agreed' = agreed \union {a}
  /\ UNCHANGED <<phase, pending, sessions, closed, udp, returned,
                 heard>>

-----------------------------------------------------------------------------
(* Datagrams.                                                              *)

SendProbe(n, a, p) ==
  /\ a \in timers[n]
  /\ udp' = udp \union {Packet("probe", Peer(n, a), a, p)}
  /\ UNCHANGED <<phase, tables, handling, closed, dms, history>>

StopPunch(n, a) ==
  /\ a \in timers[n]
  /\ timers' = [timers EXCEPT ![n] = @ \ {a}]
  /\ UNCHANGED <<phase, pending, hashes, sessions, handling, closed,
                 dms, udp, history>>

(* Mutant of KeepSession: the session follows the punch packets.           *)
MoveSession(n, a, p) ==
  sessions' = [sessions EXCEPT ![n][a] = p]

KeepSession(n, a, p) ==
  sessions' = [sessions EXCEPT ![n][a] = IF @ = None THEN p ELSE @]

(* Mutant of Known: the hash of a packet is not looked up.                 *)
AnyNonce(m) == TRUE

(* `pkt.n || punchHashToNonce.get(pkt.h)'.                                 *)
Known(m) == m.kind = "json" \/ m.nonce \in hashes[m.to]

(* The message handler: answer a probe, keep the first remote as that of   *)
(* the session, and let a connect that waits for the punch return it.      *)
(* The answer to a probe in JSON goes to none of these nodes.              *)
ReceivePunch(m) ==
  LET n == m.to  a == m.nonce IN
  /\ m \in udp \union JsonProbe
  /\ m.kind \in {"probe", "ack", "json"}
  /\ n \notin closed
  /\ Known(m)
  /\ udp' = IF m.kind = "probe" THEN udp \union {Packet("ack", Peer(n, a), a, m.path)} ELSE udp
  /\ KeepSession(n, a, m.path)
  /\ IF a \in Attempt /\ n = Caller[a] /\ phase[a] = "punching"
     THEN GoTo(a, "ok") /\ returned' = [returned EXCEPT ![a] = m.path]
     ELSE UNCHANGED <<phase, returned>>
  /\ UNCHANGED <<pending, hashes, timers, handling, closed, dms, agreed, heard>>

(* FipsStackSession.send.                                                  *)
SendFrame(n, a) ==
  /\ n \notin closed
  /\ sessions[n][a] # None
  /\ udp' = udp \union {Packet("frame", Peer(n, a), a, sessions[n][a])}
  /\ UNCHANGED <<phase, tables, handling, closed, dms, history>>

(* FipsStackSession takes frames from its remote only.                     *)
ReceiveFrame(m) ==
  /\ m \in udp
  /\ m.kind = "frame"
  /\ m.path = sessions[m.to][m.nonce]
  /\ heard' = heard \union {<<m.to, m.nonce>>}
  /\ UNCHANGED <<phase, tables, handling, closed, dms, udp, returned, agreed>>

-----------------------------------------------------------------------------
(* close().  A connect under way is not told.                              *)

Close(n) ==
  /\ n \in Closing \ closed
  /\ closed' = closed \union {n}
  /\ pending' = {a \in pending : Caller[a] # n}
  /\ hashes' = [hashes EXCEPT ![n] = {}]
  /\ timers' = [timers EXCEPT ![n] = {}]
  /\ sessions' = [sessions EXCEPT ![n] = [x \in Nonce |-> None]]
  /\ UNCHANGED <<phase, handling, dms, udp, history>>

Discovers(a) == Discovered(a) \/ DiscoveryFails(a)
Handles(a) == Handle(a) \/ HandleClosed(a)

Next ==
  \/ \E a \in Attempt :
        \/ Connect(a) \/ ConnectToDiscoveredPeer(a) \/ Discovers(a)
        \/ Refreshed(a) \/ SendOffer(a) \/ ResponseTimeout(a) \/ ReceiveResponse(a)
        \/ PunchTimeout(a) \/ HearDm(a) \/ Handles(a)
  \/ \E a \in Attempt : \E n \in {Caller[a], Server} :
        \/ \E p \in Path : SendProbe(n, a, p)
        \/ StopPunch(n, a) \/ SendFrame(n, a)
  \/ \E m \in udp \union JsonProbe : ReceivePunch(m)
  \/ \E m \in udp : ReceiveFrame(m)
  \/ \E n \in Node : Close(n)

Spec == Init /\ [][Next]_vars

(* Awaits with a limit of their own end, and timers fire.                  *)
FairSpec ==
  /\ Spec
  /\ \A a \in Attempt :
        /\ WF_vars(Discovers(a)) /\ WF_vars(Refreshed(a)) /\ WF_vars(SendOffer(a))
        /\ WF_vars(ResponseTimeout(a)) /\ WF_vars(PunchTimeout(a))

-----------------------------------------------------------------------------
(* Properties.                                                             *)

(* A session is of an attempt the server has agreed to, for a client it     *)
(* trusts, and at its two ends: a punch packet is believed because its     *)
(* nonce was registered, which on both ends follows the exchange of        *)
(* private messages.  The exception is a session of the server for a nonce *)
(* that a probe in JSON named: the server trusts whoever sends it.         *)
SessionIsAgreedOrNamed ==
  \A n \in Node, x \in Nonce : sessions[n][x] # None =>
    \/ x \in agreed /\ Trusts(Caller[x]) /\ n \in {Caller[x], Server}
    \/ x \in JsonNonce /\ n = Server

(* Once a frame got through, in either direction, both ends keep the same  *)
(* path: frames go to the remote of the session, which stays the first one *)
(* however the punch packets move about.                                   *)
HeardMeansOnePath ==
  \A a \in Attempt :
    /\ \E n \in {Caller[a], Server} : <<n, a>> \in heard
    /\ closed \intersect {Caller[a], Server} = {}
    => sessions[Caller[a]][a] = sessions[Server][a]

(* What connect returns as the remote is the remote of the session it      *)
(* returns, although it learns of it through the event `punch' and other   *)
(* punch packets may follow.                                               *)
ReturnedIsSession ==
  \A a \in Attempt :
    phase[a] = "ok" /\ Caller[a] \notin closed => returned[a] = sessions[Caller[a]][a]

(* A closed node stays closed: whatever awaited something when close() was *)
(* called starts no punch and opens no session afterwards.                 *)
ClosedHoldsNothing ==
  \A n \in closed : \A x \in Nonce :
    x \notin timers[n] /\ x \notin hashes[n] /\ sessions[n][x] = None

(* A call of connect settles, also when its node is closed meanwhile.      *)
ConnectSettles ==
  \A a \in Attempt : (phase[a] # "idle") ~> (phase[a] \in {"ok", "failed"})
=============================================================================
