----------------------------- MODULE Rendezvous -----------------------------
(***************************************************************************)
(* Connection establishment between the client daemons (fips-web-daemon.rs *)
(* and its siblings) and one server (fips-shell-server.rs): traversal      *)
(* offer and answer over Nostr DMs, the legacy hello as a fallback, UDP    *)
(* hole punching, and the session frames that follow.                      *)
(*                                                                         *)
(* An attempt is one run of api_connect.  It tries up to two sessions, one *)
(* named by the nonce of its offer and one by the nonce of its hello; both *)
(* nonces are fresh, so a session is a pair of an attempt and a kind.      *)
(*                                                                         *)
(* `dms' and `udp' hold everything ever sent and nothing is taken out: any *)
(* message may be delivered late, never, again, or in another order.  DMs  *)
(* repeat because the client sends its offer every 3 s and its hello every *)
(* 5 s until it is answered, and the server answers each copy; punch       *)
(* packets repeat for the whole punch window.  Clocks are not modelled: a  *)
(* timeout may strike whenever the code waits with one.                    *)
(*                                                                         *)
(* The server may end and be started again.  It keeps nothing on disk, but *)
(* its npub and UDP port are arguments of the program, so that clients go  *)
(* on talking to the new process as if it were the old one.                *)
(***************************************************************************)
EXTENDS Integers, FiniteSets

CONSTANTS
  Client,     \* npubs of the clients
  Attempt,    \* runs of api_connect; bounds the run
  Owner,      \* the client that makes an attempt
  Trusted,    \* trusted_npubs of the server; all of Client when that is empty
  Path,       \* ways a datagram can go between client and server: LAN, NAT
  HelloPath,  \* the one path the legacy hello punches
  MaxStarts,  \* bounds how often the server process is started
  None        \* no session, no path

ASSUME OwnerAssumption == Owner \in [Attempt -> Client]
ASSUME TrustedAssumption == Trusted \subseteq Client
ASSUME PathAssumption == HelloPath \in Path /\ None \notin Path
Sid == Attempt \X {"offer", "hello"}
ASSUME NoneAssumption == None \notin Sid \X Path
ASSUME StartsAssumption == MaxStarts \in Nat

VARIABLES
  phase,           \* where api_connect is, for each attempt
  pendingAnswer,   \* AppState.pending_answer, by attempt
  pendingInfo,     \* AppState.pending_server_info
  pendingPunch,    \* AppState.pending_punch of all clients
  punchHashes,     \* AppState.punch_hashes of all clients
  active,          \* AppState.active_session of each client
  shown,           \* sessions whose results the client passed on to its UI
  notify,          \* where the server's notify task is
  pendingHandoffs, \* ServerState.pending_handoffs: sessions with a known peer
  sessionHashes,   \* ServerState.session_hashes
  session,         \* ServerState.sessions: the path of the remote it keeps
  up,              \* the server process runs
  starts,          \* how often it was started
  agreed,          \* sessions any process of the server punched for; for the properties
  dms,             \* private messages sent
  udp              \* datagrams sent

clientVars == <<phase, pendingAnswer, pendingInfo, pendingPunch, punchHashes, active, shown>>
processVars == <<up, starts, agreed>>
serverVars == <<notify, pendingHandoffs, sessionHashes, session, processVars>>
vars == <<clientVars, serverVars, dms, udp>>

OfferSid(a) == <<a, "offer">>
HelloSid(a) == <<a, "hello">>
AttemptOf(s) == s[1]
ClientOf(s) == Owner[s[1]]

(* plan_punch_targets pairs all addresses of both sides; the hello and its *)
(* answer carry one endpoint each.                                         *)
Targets(s) == IF s[2] = "offer" THEN Path ELSE {HelloPath}

Punching == {"offerPunch", "helloPunch"}
Phase == {"idle", "offering", "helloing", "active", "failed"} \union Punching
PunchPhase(s) == IF s[2] = "offer" THEN "offerPunch" ELSE "helloPunch"

Dm == [type : {"offer", "hello", "info", "accept", "reject"}, attempt : Attempt]
DmOf(t, a) == [type |-> t, attempt |-> a]

Datagram == [to : {"client", "server"}, kind : {"probe", "ack", "command", "result"},
             sid : Sid, path : Path]
Packet(to, kind, s, p) == [to |-> to, kind |-> kind, sid |-> s, path |-> p]

(* The notify task works on one DM at a time, in stages between awaits.    *)
Idle == [at |-> "idle"]
Working == [at : {"answered", "recorded"}, sid : Sid, punch : BOOLEAN]

TypeOK ==
  /\ phase \in [Attempt -> Phase]
  /\ pendingAnswer \subseteq Attempt
  /\ pendingInfo \subseteq Attempt
  /\ pendingPunch \subseteq Sid
  /\ punchHashes \subseteq Sid
  /\ active \in [Client -> (Sid \X Path) \union {None}]
  /\ shown \subseteq Sid
  /\ notify \in Working \union {Idle}
  /\ pendingHandoffs \subseteq Sid
  /\ sessionHashes \subseteq Sid
  /\ session \in [Sid -> Path \union {None}]
  /\ up \in BOOLEAN
  /\ starts \in Nat \ {0}
  /\ agreed \subseteq Sid
  /\ dms \subseteq Dm
  /\ udp \subseteq Datagram

Init ==
  /\ phase = [a \in Attempt |-> "idle"]
  /\ pendingAnswer = {}
  /\ pendingInfo = {}
  /\ pendingPunch = {}
  /\ punchHashes = {}
  /\ active = [c \in Client |-> None]
  /\ shown = {}
  /\ notify = Idle
  /\ pendingHandoffs = {}
  /\ sessionHashes = {}
  /\ session = [s \in Sid |-> None]
  /\ up = TRUE
  /\ starts = 1
  /\ agreed = {}
  /\ dms = {}
  /\ udp = {}

-----------------------------------------------------------------------------
(* The client: api_connect, send_offer, send_hello.                        *)

GoTo(a, p) == phase' = [phase EXCEPT ![a] = p]

(* send_offer puts its sender in pending_answer and publishes the offer.   *)
Begin(a) ==
  /\ phase[a] = "idle"
  /\ GoTo(a, "offering")
  /\ pendingAnswer' = pendingAnswer \union {a}
  /\ dms' = dms \union {DmOf("offer", a)}
  /\ UNCHANGED <<pendingInfo, pendingPunch, punchHashes, active, shown, serverVars, udp>>

(* api_connect falls back on every error of send_offer.                    *)
FallBackToHello(a) ==
  /\ GoTo(a, "helloing")
  /\ pendingInfo' = pendingInfo \union {a}
  /\ dms' = dms \union {DmOf("hello", a)}
  /\ UNCHANGED <<pendingPunch, punchHashes, active, shown, serverVars, udp>>

OfferTimeout(a) ==
  /\ phase[a] = "offering"
  /\ pendingAnswer' = pendingAnswer \ {a}
  /\ FallBackToHello(a)

(* send_event_to failed: the entry in pending_answer is left behind.       *)
OfferSendFails(a) ==
  /\ phase[a] = "offering"
  /\ FallBackToHello(a)
  /\ UNCHANGED pendingAnswer

HelloTimeout(a) ==
  /\ phase[a] = "helloing"
  /\ GoTo(a, "failed")
  /\ pendingInfo' = pendingInfo \ {a}
  /\ UNCHANGED <<pendingAnswer, pendingPunch, punchHashes, active, shown, serverVars, dms, udp>>

HelloSendFails(a) ==
  /\ phase[a] = "helloing"
  /\ GoTo(a, "failed")
  /\ UNCHANGED <<pendingAnswer, pendingInfo, pendingPunch, punchHashes, active, shown,
                 serverVars, dms, udp>>

(* start_punch_plan_and_wait and start_punch_and_wait.                     *)
StartPunchAndWait(s) ==
  /\ GoTo(AttemptOf(s), PunchPhase(s))
  /\ pendingPunch' = pendingPunch \union {s}
  /\ punchHashes' = punchHashes \union {s}
  /\ UNCHANGED <<active, shown, serverVars, udp>>

TakeAnswer(a, type) ==
  /\ DmOf(type, a) \in dms
  /\ a \in pendingAnswer
  /\ pendingAnswer' = pendingAnswer \ {a}

AnswerAccepted(a) ==
  /\ TakeAnswer(a, "accept")
  /\ phase[a] = "offering"
  /\ StartPunchAndWait(OfferSid(a))
  /\ UNCHANGED <<pendingInfo, dms>>

(* planned_remote_endpoints_from_offer_answer named a host that is no IP   *)
(* address (FIPS_UDP_PUBLIC_HOST may be a DNS name): an error, no punch.    *)
AnswerNotPunchable(a) ==
  /\ TakeAnswer(a, "accept")
  /\ phase[a] = "offering"
  /\ GoTo(a, "failed")
  /\ UNCHANGED <<pendingInfo, pendingPunch, punchHashes, active, shown, serverVars, dms, udp>>

AnswerRejected(a) ==
  /\ TakeAnswer(a, "reject")
  /\ phase[a] = "offering"
  /\ GoTo(a, "failed")
  /\ UNCHANGED <<pendingInfo, pendingPunch, punchHashes, active, shown, serverVars, dms, udp>>

(* validate_traversal_answer_for_offer: by the client's clock the answer   *)
(* is expired, or it is dated before the offer.                            *)
AnswerInvalid(a, type) ==
  /\ TakeAnswer(a, type)
  /\ phase[a] = "offering"
  /\ FallBackToHello(a)

(* The sender is found but nobody waits for it any more.                   *)
AnswerTooLate(a, type) ==
  /\ TakeAnswer(a, type)
  /\ phase[a] # "offering"
  /\ UNCHANGED <<phase, pendingInfo, pendingPunch, punchHashes, active, shown,
                 serverVars, dms, udp>>

TakeServerInfo(a) ==
  /\ DmOf("info", a) \in dms
  /\ a \in pendingInfo
  /\ pendingInfo' = pendingInfo \ {a}

ServerInfo(a) ==
  /\ TakeServerInfo(a)
  /\ phase[a] = "helloing"
  /\ StartPunchAndWait(HelloSid(a))
  /\ UNCHANGED <<pendingAnswer, dms>>

ServerInfoNotPunchable(a) ==
  /\ TakeServerInfo(a)
  /\ phase[a] = "helloing"
  /\ GoTo(a, "failed")
  /\ UNCHANGED <<pendingAnswer, pendingPunch, punchHashes, active, shown,
                 serverVars, dms, udp>>

ServerInfoTooLate(a) ==
  /\ TakeServerInfo(a)
  /\ phase[a] # "helloing"
  /\ UNCHANGED <<phase, pendingAnswer, pendingPunch, punchHashes, active, shown,
                 serverVars, dms, udp>>

(* No packet came: api_connect reports an error, both tables keep the      *)
(* session.                                                                *)
PunchTimeout(a) ==
  /\ phase[a] \in Punching
  /\ GoTo(a, "failed")
  /\ UNCHANGED <<pendingAnswer, pendingInfo, pendingPunch, punchHashes, active, shown,
                 serverVars, dms, udp>>

-----------------------------------------------------------------------------
(* The client's UDP socket.                                                *)

ClientProbe(s, p) ==
  /\ s \in punchHashes
  /\ p \in Targets(s)
  /\ udp' = udp \union {Packet("server", "probe", s, p)}
  /\ UNCHANGED <<clientVars, serverVars, dms>>

(* Mutant of ClientReceivesPunch: the session becomes active whether or    *)
(* not api_connect still waits for it.                                     *)
ClientReceivesPunchLate(m) ==
  /\ m \in udp
  /\ m.to = "client"
  /\ m.kind \in {"probe", "ack"}
  /\ m.sid \in punchHashes
  /\ active' = [active EXCEPT ![ClientOf(m.sid)] = <<m.sid, m.path>>]
  /\ UNCHANGED <<phase, pendingAnswer, pendingInfo, pendingPunch, punchHashes, shown,
                 serverVars, dms, udp>>

(* A probe is acknowledged; a probe or an ack ends the wait for the punch, *)
(* and api_connect makes the session the active one.                       *)
ClientReceivesPunch(m) ==
  LET s == m.sid
      waited == s \in pendingPunch /\ phase[AttemptOf(s)] = PunchPhase(s) IN
  /\ m \in udp
  /\ m.to = "client"
  /\ m.kind \in {"probe", "ack"}
  /\ s \in punchHashes
  /\ pendingPunch' = pendingPunch \ {s}
  /\ udp' = IF m.kind = "probe" THEN udp \union {Packet("server", "ack", s, m.path)} ELSE udp
  /\ phase' = IF waited THEN [phase EXCEPT ![AttemptOf(s)] = "active"] ELSE phase
  /\ active' = IF waited THEN [active EXCEPT ![ClientOf(s)] = <<s, m.path>>] ELSE active
  /\ UNCHANGED <<pendingAnswer, pendingInfo, punchHashes, shown, serverVars, dms>>

SendCommand(c) ==
  /\ active[c] # None
  /\ udp' = udp \union {Packet("server", "command", active[c][1], active[c][2])}
  /\ UNCHANGED <<clientVars, serverVars, dms>>

(* A frame of another session or from another address is dropped.          *)
ClientReceivesResult(c, m) ==
  /\ m \in udp
  /\ m.to = "client"
  /\ m.kind = "result"
  /\ active[c] = <<m.sid, m.path>>
  /\ shown' = shown \union {m.sid}
  /\ UNCHANGED <<phase, pendingAnswer, pendingInfo, pendingPunch, punchHashes, active,
                 serverVars, dms, udp>>

-----------------------------------------------------------------------------
(* The server's notify task.                                               *)

(* Mutant of TakesDm: no check against trusted_npubs.                      *)
TakesDmOfAnyone(a, type) ==
  /\ up
  /\ notify = Idle
  /\ DmOf(type, a) \in dms

TakesDm(a, type) ==
  /\ up
  /\ notify = Idle
  /\ DmOf(type, a) \in dms
  /\ Owner[a] \in Trusted

(* An offer is answered first; accepted when the server has any address.   *)
ReceiveOffer(a, accepted) ==
  /\ TakesDm(a, "offer")
  /\ dms' = dms \union {DmOf(IF accepted THEN "accept" ELSE "reject", a)}
  /\ notify' = [at |-> "answered", sid |-> OfferSid(a), punch |-> accepted]
  /\ UNCHANGED <<clientVars, pendingHandoffs, sessionHashes, session, processVars, udp>>

ReceiveHello(a) ==
  /\ TakesDm(a, "hello")
  /\ dms' = dms \union {DmOf("info", a)}
  /\ notify' = [at |-> "answered", sid |-> HelloSid(a), punch |-> TRUE]
  /\ UNCHANGED <<clientVars, pendingHandoffs, sessionHashes, session, processVars, udp>>

(* main returns, and what the process held is gone.                        *)
ServerEnds ==
  /\ up' = FALSE
  /\ notify' = Idle
  /\ pendingHandoffs' = {}
  /\ sessionHashes' = {}
  /\ session' = [s \in Sid |-> None]
  /\ UNCHANGED <<clientVars, starts, agreed, dms, udp>>

(* Publishing the reply failed: the notify task returns the error and main *)
(* returns with it.                                                        *)
ReplyFails(a, type) ==
  /\ type \in {"offer", "hello"}
  /\ TakesDm(a, type)
  /\ ServerEnds

RecordPeer ==
  /\ up
  /\ notify.at = "answered"
  /\ pendingHandoffs' = pendingHandoffs \union {notify.sid}
  /\ notify' = IF notify.punch THEN [notify EXCEPT !.at = "recorded"] ELSE Idle
  /\ UNCHANGED <<clientVars, sessionHashes, session, processVars, dms, udp>>

(* start_punch_plan and start_punch, up to the spawn of the punch task.    *)
StartPunch ==
  /\ up
  /\ notify.at = "recorded"
  /\ sessionHashes' = sessionHashes \union {notify.sid}
  /\ agreed' = agreed \union {notify.sid}
  /\ notify' = Idle
  /\ UNCHANGED <<clientVars, pendingHandoffs, session, up, starts, dms, udp>>

(* The client's address is no IP address: again the error of the task is   *)
(* the end of main.                                                        *)
StartPunchFails ==
  /\ up
  /\ notify.at = "recorded"
  /\ ServerEnds

(* ctrl_c, or the process dies, whatever the notify task is doing.         *)
Stop ==
  /\ up
  /\ ServerEnds

(* A new process with the same --nsec and --udp-port knows nobody.  Its    *)
(* subscription asks for no stored DM (limit 0), but clients repeat theirs. *)
StartAgain ==
  /\ ~up
  /\ starts < MaxStarts
  /\ up' = TRUE
  /\ starts' = starts + 1
  /\ UNCHANGED <<clientVars, notify, pendingHandoffs, sessionHashes, session, agreed,
                 dms, udp>>

-----------------------------------------------------------------------------
(* The server's UDP socket.                                                *)

ServerProbe(s, p) ==
  /\ up
  /\ s \in sessionHashes
  /\ p \in Targets(s)
  /\ udp' = udp \union {Packet("client", "probe", s, p)}
  /\ UNCHANGED <<clientVars, serverVars, dms>>

(* Mutant of EnsureSession: the remote follows the latest datagram.         *)
EnsureSessionRoams(s, p) == session' = [session EXCEPT ![s] = p]

(* ensure_session: the first remote seen is the one that is kept.          *)
EnsureSession(s, p) ==
  session' = IF session[s] = None THEN [session EXCEPT ![s] = p] ELSE session

(* Mutant of ServerReceivesPunch: the hash of a packet is not looked up.    *)
ServerReceivesAnyPunch(m) ==
  /\ up
  /\ m \in udp
  /\ m.to = "server"
  /\ m.kind \in {"probe", "ack"}
  /\ EnsureSession(m.sid, m.path)
  /\ UNCHANGED <<clientVars, notify, pendingHandoffs, sessionHashes, processVars, dms, udp>>

ServerReceivesPunch(m) ==
  /\ up
  /\ m \in udp
  /\ m.to = "server"
  /\ m.kind \in {"probe", "ack"}
  /\ m.sid \in sessionHashes
  /\ udp' = IF m.kind = "probe"
            THEN udp \union {Packet("client", "ack", m.sid, m.path)}
            ELSE udp
  /\ EnsureSession(m.sid, m.path)
  /\ UNCHANGED <<clientVars, notify, pendingHandoffs, sessionHashes, processVars, dms>>

(* A session frame needs no punch before it, so that a server started      *)
(* again takes the session up with the first one; the result of its        *)
(* command is sent to the remote the session keeps (ShellExec has the      *)
(* command).                                                               *)
ServerReceivesCommand(m) ==
  /\ up
  /\ m \in udp
  /\ m.to = "server"
  /\ m.kind = "command"
  /\ EnsureSession(m.sid, m.path)
  /\ udp' = udp \union {Packet("client", "result", m.sid, session'[m.sid])}
  /\ UNCHANGED <<clientVars, notify, pendingHandoffs, sessionHashes, processVars, dms>>

-----------------------------------------------------------------------------
ClientStep(a) ==
  \/ Begin(a)
  \/ OfferTimeout(a) \/ OfferSendFails(a) \/ HelloTimeout(a) \/ HelloSendFails(a)
  \/ AnswerAccepted(a) \/ AnswerNotPunchable(a) \/ AnswerRejected(a)
  \/ \E type \in {"accept", "reject"} : AnswerInvalid(a, type) \/ AnswerTooLate(a, type)
  \/ ServerInfo(a) \/ ServerInfoNotPunchable(a) \/ ServerInfoTooLate(a)
  \/ PunchTimeout(a)

ServerStep(a) ==
  \/ \E accepted \in BOOLEAN : ReceiveOffer(a, accepted)
  \/ ReceiveHello(a)
  \/ \E type \in {"offer", "hello"} : ReplyFails(a, type)

Next ==
  \/ \E a \in Attempt : ClientStep(a) \/ ServerStep(a)
  \/ RecordPeer
  \/ StartPunch
  \/ StartPunchFails
  \/ Stop \/ StartAgain
  \/ \E s \in Sid, p \in Path : ClientProbe(s, p) \/ ServerProbe(s, p)
  \/ \E m \in udp : \/ ClientReceivesPunch(m)
                    \/ ServerReceivesPunch(m)
                    \/ ServerReceivesCommand(m)
                    \/ \E c \in Client : ClientReceivesResult(c, m)
  \/ \E c \in Client : SendCommand(c)

Spec == Init /\ [][Next]_vars

-----------------------------------------------------------------------------
(* Properties.                                                             *)

NeverEnded == up /\ starts = 1

(* A client calls a session established only when the server has committed *)
(* to it; a server that never ended knows its punch hash, and the peer the *)
(* session belongs to.                                                     *)
ActiveIsCommitted ==
  \A c \in Client : active[c] # None =>
    LET s == active[c][1] IN
      /\ ClientOf(s) = c
      /\ s \in agreed
      /\ NeverEnded => s \in sessionHashes \intersect pendingHandoffs

(* The other way round: the server opens a session only for a client that  *)
(* was trusted and that punched for that very session, in answer to a      *)
(* message of this process or of an earlier one.                           *)
SessionIsPunched ==
  \A s \in Sid : session[s] # None =>
    /\ s \in punchHashes \intersect agreed
    /\ NeverEnded => s \in sessionHashes
    /\ ClientOf(s) \in Trusted

(* handoff looks the peer of a session up after its hash was recognised:   *)
(* the peer is recorded before the hash is.                                *)
HashHasPeer == sessionHashes \subseteq pendingHandoffs

(* An attempt that api_connect reported as failed is never the session a   *)
(* client talks on, however late a packet of it arrives.                   *)
ActiveIsNotAbandoned ==
  \A c \in Client : active[c] # None => phase[AttemptOf(active[c][1])] = "active"

(* The two programs agree about who talks to whom: what a client uses the  *)
(* server has committed to, what the server serves a trusted client punched *)
(* for, and no attempt that was reported as failed is in use.              *)
EndsAgree == ActiveIsCommitted /\ SessionIsPunched /\ ActiveIsNotAbandoned

(* A result the UI sees belongs to a session whose two ends use one path;   *)
(* a server that ended may have lost it since.                             *)
ShownOnOnePath ==
  [][\A c \in Client, m \in udp : ClientReceivesResult(c, m) /\ NeverEnded =>
       session[m.sid] = active[c][2]]_vars

(* A session that a server started again takes up without having punched   *)
(* for it is one its client reported as connected, and its remote is the   *)
(* path that client uses, however late probes of the punch come in on      *)
(* other paths: a client that stays sees its results again.                *)
ResumedOnPath ==
  \A s \in Sid : session[s] # None /\ s \notin sessionHashes =>
    /\ phase[AttemptOf(s)] = "active"
    /\ \A c \in Client : active[c] # None /\ active[c][1] = s => active[c][2] = session[s]

-----------------------------------------------------------------------------
(* The rendezvous implements Bootstrap.                                    *)

StageOf(p) == IF p \in {"idle", "active", "failed"} THEN p ELSE "trying"

Abstract == INSTANCE Bootstrap WITH
  stage <- [a \in Attempt |-> StageOf(phase[a])],
  agreed <- agreed,
  using <- [c \in Client |-> IF active[c] = None THEN None ELSE active[c][1]]

(* Every step of the two programs is a step of Bootstrap or changes nothing *)
(* Bootstrap can see.                                                      *)
ImplementsBootstrap == Abstract!Spec

-----------------------------------------------------------------------------
(* The inductive invariant behind the safety properties: what a message in *)
(* flight, or a DM the server is working on, proves about its sender.      *)

DmsAreOfBegunAttempts == \A m \in dms : phase[m.attempt] # "idle"

NotifyIsSound ==
  notify # Idle =>
    /\ phase[AttemptOf(notify.sid)] # "idle"
    /\ ClientOf(notify.sid) \in Trusted
    /\ notify.at = "recorded" => notify.sid \in pendingHandoffs

DatagramsAreSound == \A m \in udp :
  /\ m.to = "server" => m.sid \in punchHashes
  /\ m.kind = "command" \/ (m.to = "client" /\ m.kind \in {"probe", "ack"})
       => m.sid \in agreed
  /\ m.kind = "result" /\ NeverEnded => session[m.sid] = m.path

(* The path of a session in use does not change.                           *)
CommandsAreOnPath == \A m \in udp : m.kind = "command" =>
  /\ phase[AttemptOf(m.sid)] = "active"
  /\ \A c \in Client : active[c] # None /\ active[c][1] = m.sid => active[c][2] = m.path

ActiveIsPunched ==
  \A c \in Client : active[c] # None => active[c][1] \in punchHashes

AgreedAreTrusted == \A s \in agreed : ClientOf(s) \in Trusted

(* A process has agreed to what it punches for; the first one is alone.    *)
HashesAreAgreed ==
  /\ sessionHashes \subseteq agreed
  /\ NeverEnded => agreed \subseteq sessionHashes

IInv ==
  /\ TypeOK
  /\ DmsAreOfBegunAttempts
  /\ NotifyIsSound
  /\ DatagramsAreSound
  /\ CommandsAreOnPath
  /\ ActiveIsPunched
  /\ AgreedAreTrusted
  /\ HashesAreAgreed
  /\ HashHasPeer
  /\ ActiveIsCommitted
  /\ SessionIsPunched
  /\ ActiveIsNotAbandoned
  /\ ResumedOnPath

=============================================================================
