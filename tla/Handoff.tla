------------------------------- MODULE Handoff -------------------------------
(***************************************************************************)
(* From a punched path to a FIPS node: fips-console-server.rs, which hands  *)
(* its one UDP socket to the first session that punches through, and its    *)
(* clients, the command-line fips-console-client.rs and the daemons run     *)
(* with --handoff-fips.                                                    *)
(*                                                                         *)
(* Signalling is cut down to what the handoff needs: a client asks (offer   *)
(* or hello), the notify task answers; Rendezvous has the rest.  A client   *)
(* makes one attempt, so a session is named by its client.  `dms' and       *)
(* `udp' only grow: messages repeat, are lost, late and out of order.       *)
(***************************************************************************)
EXTENDS Integers, FiniteSets

CONSTANTS
  Client,  \* clients, each with one attempt to connect
  Daemon,  \* those that run as a daemon; the others are command-line clients
  None     \* no client

ASSUME DaemonAssumption == Daemon \subseteq Client
ASSUME NoneAssumption == None \notin Client

VARIABLES
  phase,           \* where the connect call of each client is
  receiving,       \* the client's udp_task runs
  notify,          \* where the server's notify task is
  pendingHandoffs, \* ServerState.pending_handoffs
  sessionHashes,   \* ServerState.session_hashes
  loop,            \* where the server's udp_task is
  adopted,         \* the session the server's FIPS node adopted
  up,              \* the server process runs
  dms,             \* private messages sent
  udp              \* punch packets sent

clientVars == <<phase, receiving>>
tables == <<pendingHandoffs, sessionHashes>>
vars == <<clientVars, notify, tables, loop, adopted, up, dms, udp>>

Phase == {"idle", "asking", "unanswered", "punching", "stopping", "adopted",
          "failed", "exited"}
Dm == [type : {"ask", "answer"}, client : Client]
Punch == [to : {"client", "server"}, kind : {"probe", "ack"}, client : Client]

DmOf(t, c) == [type |-> t, client |-> c]
Packet(to, kind, c) == [to |-> to, kind |-> kind, client |-> c]
Idle == [at |-> "idle"]

TypeOK ==
  /\ phase \in [Client -> Phase]
  /\ receiving \in [Client -> BOOLEAN]
  /\ notify \in {Idle} \union [at : {"answered", "recorded"}, client : Client]
  /\ pendingHandoffs \subseteq Client
  /\ sessionHashes \subseteq Client
  /\ loop \in {"receiving", "adopting", "serving", "ended"}
  /\ adopted \in Client \union {None}
  /\ up \in BOOLEAN
  /\ dms \subseteq Dm
  /\ udp \subseteq Punch

Init ==
  /\ phase = [c \in Client |-> "idle"]
  /\ receiving = [c \in Client |-> TRUE]
  /\ notify = Idle
  /\ pendingHandoffs = {}
  /\ sessionHashes = {}
  /\ loop = "receiving"
  /\ adopted = None
  /\ up = TRUE
  /\ dms = {}
  /\ udp = {}

-----------------------------------------------------------------------------
(* The clients.                                                            *)

(* A command-line client that fails is gone; a daemon stays.               *)
Alive(c) ==
  /\ phase[c] # "exited"
  /\ c \in Daemon \/ phase[c] \notin {"unanswered", "failed"}

(* The attempt got as far as start_punch_plan_and_wait.                    *)
Punched(c) == phase[c] \notin {"idle", "asking", "unanswered"}

Move(c, from, to) ==
  /\ phase[c] = from
  /\ phase' = [phase EXCEPT ![c] = to]

Ask(c) ==
  /\ Move(c, "idle", "asking")
  /\ dms' = dms \union {DmOf("ask", c)}
  /\ UNCHANGED <<receiving, notify, tables, loop, adopted, up, udp>>

Answered(c) ==
  /\ DmOf("answer", c) \in dms
  /\ Move(c, "asking", "punching")
  /\ UNCHANGED <<receiving, notify, tables, loop, adopted, up, dms, udp>>

(* Mutant of Fail: start_punch_and_wait has no timeout.                     *)
FailBeforePunch(c) ==
  /\ \/ Move(c, "asking", "unanswered")
     \/ ~receiving[c] /\ Move(c, "stopping", "failed")
  /\ UNCHANGED <<receiving, notify, tables, loop, adopted, up, dms, udp>>

(* No answer, no packet in time, or the FIPS node does not start.          *)
Fail(c) ==
  /\ \/ Move(c, "asking", "unanswered")
     \/ Move(c, "punching", "failed")
     \/ ~receiving[c] /\ Move(c, "stopping", "failed")
  /\ UNCHANGED <<receiving, notify, tables, loop, adopted, up, dms, udp>>

(* The punch task runs to the end of its window, whatever became of the    *)
(* attempt, on the socket the FIPS node has by then.                       *)
ClientProbe(c) ==
  /\ Alive(c)
  /\ Punched(c)
  /\ udp' = udp \union {Packet("server", "probe", c)}
  /\ UNCHANGED <<clientVars, notify, tables, loop, adopted, up, dms>>

(* The first packet establishes the path, and udp_shutdown is sent.        *)
ClientReceivesPunch(m) ==
  LET c == m.client IN
  /\ m \in udp
  /\ m.to = "client"
  /\ Alive(c)
  /\ Punched(c)
  /\ receiving[c]
  /\ udp' = IF m.kind = "probe" THEN udp \union {Packet("server", "ack", c)} ELSE udp
  /\ phase' = IF phase[c] = "punching" THEN [phase EXCEPT ![c] = "stopping"] ELSE phase
  /\ UNCHANGED <<receiving, notify, tables, loop, adopted, up, dms>>

StopReceiving(c) ==
  /\ phase[c] = "stopping"
  /\ receiving[c]
  /\ receiving' = [receiving EXCEPT ![c] = FALSE]
  /\ UNCHANGED <<phase, notify, tables, loop, adopted, up, dms, udp>>

(* After 50 ms, which udp_task is assumed to end within, the socket goes   *)
(* to the FIPS node.                                                       *)
Adopt(c) ==
  /\ ~receiving[c]
  /\ Move(c, "stopping", "adopted")
  /\ UNCHANGED <<receiving, notify, tables, loop, adopted, up, dms, udp>>

(* A daemon's main waits for the first of its tasks, udp_task among them.  *)
DaemonReturns(c) ==
  /\ c \in Daemon
  /\ phase[c] # "exited"
  /\ ~receiving[c]
  /\ phase' = [phase EXCEPT ![c] = "exited"]
  /\ UNCHANGED <<receiving, notify, tables, loop, adopted, up, dms, udp>>

(* The console of a command-line client ends with its input.               *)
ClientReturns(c) ==
  /\ c \notin Daemon
  /\ Move(c, "adopted", "exited")
  /\ UNCHANGED <<receiving, notify, tables, loop, adopted, up, dms, udp>>

-----------------------------------------------------------------------------
(* The server.                                                             *)

(* The notify task goes on answering after the socket is gone.             *)
ReceiveAsk(c) ==
  /\ up
  /\ notify = Idle
  /\ DmOf("ask", c) \in dms
  /\ dms' = dms \union {DmOf("answer", c)}
  /\ notify' = [at |-> "answered", client |-> c]
  /\ UNCHANGED <<clientVars, tables, loop, adopted, up, udp>>

(* Publishing the answer failed, or the client's address does not parse.   *)
NotifyFails ==
  /\ up
  /\ \/ \E c \in Client : notify = Idle /\ DmOf("ask", c) \in dms
     \/ notify.at = "recorded"
  /\ up' = FALSE
  /\ UNCHANGED <<clientVars, notify, tables, loop, adopted, dms, udp>>

(* Mutant of RecordPeer: pending_handoffs.insert is missing.               *)
RecordPeerForgotten ==
  /\ up
  /\ notify.at = "answered"
  /\ notify' = [notify EXCEPT !.at = "recorded"]
  /\ UNCHANGED <<clientVars, tables, loop, adopted, up, dms, udp>>

RecordPeer ==
  /\ up
  /\ notify.at = "answered"
  /\ pendingHandoffs' = pendingHandoffs \union {notify.client}
  /\ notify' = [notify EXCEPT !.at = "recorded"]
  /\ UNCHANGED <<clientVars, sessionHashes, loop, adopted, up, dms, udp>>

StartPunch ==
  /\ up
  /\ notify.at = "recorded"
  /\ sessionHashes' = sessionHashes \union {notify.client}
  /\ notify' = Idle
  /\ UNCHANGED <<clientVars, pendingHandoffs, loop, adopted, up, dms, udp>>

ServerProbe(c) ==
  /\ up
  /\ c \in sessionHashes
  /\ udp' = udp \union {Packet("client", "probe", c)}
  /\ UNCHANGED <<clientVars, notify, tables, loop, adopted, up, dms>>

(* Mutant of ServerReceivesPunch: the socket goes to whichever session is   *)
(* pending, not to the one of the packet.                                  *)
ServerReceivesPunchForAny(m) ==
  /\ up
  /\ loop = "receiving"
  /\ m \in udp
  /\ m.to = "server"
  /\ m.client \in sessionHashes
  /\ \E c \in pendingHandoffs :
       /\ pendingHandoffs' = pendingHandoffs \ {c}
       /\ adopted' = c
  /\ loop' = "adopting"
  /\ UNCHANGED <<clientVars, notify, sessionHashes, up, dms, udp>>

(* The first punch packet of a session with a recorded peer takes the      *)
(* socket; udp_task reads no packet after it.                              *)
ServerReceivesPunch(m) ==
  LET c == m.client IN
  /\ up
  /\ loop = "receiving"
  /\ m \in udp
  /\ m.to = "server"
  /\ c \in sessionHashes
  /\ udp' = IF m.kind = "probe" THEN udp \union {Packet("client", "ack", c)} ELSE udp
  /\ IF c \in pendingHandoffs
     THEN /\ pendingHandoffs' = pendingHandoffs \ {c}
          /\ loop' = "adopting"
          /\ adopted' = c
     ELSE UNCHANGED <<pendingHandoffs, loop, adopted>>
  /\ UNCHANGED <<clientVars, notify, sessionHashes, up, dms>>

ServerAdopts ==
  /\ up
  /\ loop = "adopting"
  /\ loop' = "serving"
  /\ UNCHANGED <<clientVars, notify, tables, adopted, up, dms, udp>>

(* The node does not start, or the console reached the end of its input:   *)
(* udp_task ends.                                                          *)
ServerLoopEnds ==
  /\ up
  /\ loop \in {"adopting", "serving"}
  /\ loop' = "ended"
  /\ UNCHANGED <<clientVars, notify, tables, adopted, up, dms, udp>>

ServerReturns ==
  /\ up
  /\ loop = "ended"
  /\ up' = FALSE
  /\ UNCHANGED <<clientVars, notify, tables, loop, adopted, dms, udp>>

-----------------------------------------------------------------------------
ConnectStep(c) == Fail(c) \/ StopReceiving(c) \/ Adopt(c)

Next ==
  \/ \E c \in Client :
       \/ Ask(c) \/ Answered(c) \/ ConnectStep(c) \/ ClientProbe(c)
       \/ DaemonReturns(c) \/ ClientReturns(c)
       \/ ReceiveAsk(c) \/ ServerProbe(c)
  \/ \E m \in udp : ClientReceivesPunch(m) \/ ServerReceivesPunch(m)
  \/ NotifyFails \/ RecordPeer \/ StartPunch
  \/ ServerAdopts \/ ServerLoopEnds \/ ServerReturns

Spec == Init /\ [][Next]_vars

(* The timers of a connect call fire, and its task runs.                   *)
FairSpec == Spec /\ \A c \in Client : WF_vars(ConnectStep(c))

-----------------------------------------------------------------------------
(* Properties.                                                             *)

(* A client that found its path is known to the server: the server will    *)
(* hand its socket to that session when it gets the chance, or has done    *)
(* so.  The record is made while the answer is already on its way, the     *)
(* client's packets may arrive at any point of it, and one record is       *)
(* removed by the first packet only (pending_handoffs, session_hashes).    *)
ConnectedIsExpected ==
  \A c \in Client :
    phase[c] \in {"stopping", "adopted"} =>
      c \in sessionHashes /\ (c \in pendingHandoffs \/ adopted = c)

(* The server's only socket goes to a client that took the answer and sent *)
(* packets for it; when a client is beaten to the socket, it is by such a  *)
(* rival.                                                                  *)
SocketGoesToPuncher == adopted # None => Punched(adopted)

(* Every connect call returns, even when the path is found but the daemon  *)
(* or the node does not survive the handoff.                               *)
ConnectReturns ==
  \A c \in Client :
    phase[c] = "asking" ~>
      phase[c] \in {"unanswered", "adopted", "failed", "exited"}

(* fips-web-daemon.rs answers commands that come after the handoff with    *)
(* "shell command channel unavailable after FIPS handoff", so the daemon   *)
(* is meant to outlive it.  But stopping udp_task, the handoff's first     *)
(* step, ends the select of main, and the process.                         *)
DaemonOutlivesHandoff == \A c \in Daemon : phase[c] # "exited"
=============================================================================
