--------------------------- MODULE ConsoleDaemon ---------------------------
(***************************************************************************)
(* The HTTP side of fips-console-daemon.rs: concurrent calls of            *)
(* /api/connect, the handoff of the only socket among them, /api/send over *)
(* the FIPS node, and the streams of /api/events that show a page the      *)
(* active session and the messages of its peer.                            *)
(*                                                                         *)
(* Of the signalling only the outcome is kept: a call finds its path, or   *)
(* fails; Rendezvous and Handoff have the rest.  A session is named by its *)
(* call.  main may return at any time, by Ctrl-C or the end of udp_task;   *)
(* nothing outlives it, so that the step is left out.                      *)
(***************************************************************************)
EXTENDS Integers, Sequences, FiniteSets

CONSTANTS
  Call,       \* calls of /api/connect
  Message,    \* calls of /api/send
  Page,       \* pages that listen to /api/events
  EventSlots, \* 256, the capacity of the broadcast channel
  MaxEvents,  \* bounds the events
  NoSession

ASSUME NoSessionAssumption == NoSession \notin Call
ASSUME EventSlotsAssumption == EventSlots \in Nat \ {0}

VARIABLES
  handoffFips, \* --handoff-fips
  phase,       \* where each call of /api/connect is
  receiving,   \* udp_task runs
  socket,      \* handoff_socket is there to take
  runtime,     \* console_runtime, by its session
  running,     \* sessions whose FIPS node runs
  active,      \* active_session
  send,        \* each call of /api/send, with the runtime it uses
  emitted,     \* events sent to the broadcast channel
  page         \* what each page has subscribed to and shows

udpVars == <<receiving, socket>>
daemonVars == <<handoffFips, phase, udpVars, runtime, running, active, send, emitted, page>>

Phase == {"connecting", "found", "stopping", "starting", "spawned",
          "emitting", "returned", "failed"}

StatusOf(s) == [event |-> "status", session |-> s]
MessageOf(l) == [event |-> "message", text |-> l]
Closed == [at |-> "closed"]

(* Event and PageState, for a set of lines that messages may consist of.   *)
Event(L) == [event : {"status"}, session : Call] \union [event : {"message"}, text : L]
PageState(L) ==
  {Closed} \union [at : {"opening"}, next : Nat \ {0}]
  \union [at : {"open"}, since : Nat \ {0}, next : Nat \ {0},
          status : Call \union {NoSession}, shown : Seq(L)]

DaemonTypeOK(L) ==
  /\ {handoffFips, receiving, socket} \subseteq BOOLEAN
  /\ phase \in [Call -> Phase]
  /\ {runtime, active} \subseteq Call \union {NoSession}
  /\ running \subseteq Call
  /\ send \in [Message -> [at : {"idle", "holding", "queued", "ok", "failed"},
                         via : Call \union {NoSession}]]
  /\ emitted \in Seq(Event(L))
  /\ page \in [Page -> PageState(L)]

DaemonInit ==
  /\ handoffFips \in BOOLEAN
  /\ phase = [c \in Call |-> "connecting"]
  /\ receiving = TRUE
  /\ socket = TRUE
  /\ runtime = NoSession
  /\ running = {}
  /\ active = NoSession
  /\ send = [m \in Message |-> [at |-> "idle", via |-> NoSession]]
  /\ emitted = <<>>
  /\ page = [p \in Page |-> Closed]

Emit(e) == emitted' = Append(emitted, e)

-----------------------------------------------------------------------------
(* /api/connect.                                                           *)

Move(c, from, to) ==
  /\ phase[c] = from
  /\ phase' = [phase EXCEPT ![c] = to]

(* udp_task reads the first packet of the session and tells the call.      *)
FindPath(c) ==
  /\ receiving
  /\ Move(c, "connecting", "found")
  /\ UNCHANGED <<udpVars, runtime, running, active, emitted>>

(* No advert, answer or path; an address that does not parse, no node.     *)
ConnectFails(c) ==
  /\ \/ Move(c, "connecting", "failed")
     \/ Move(c, "starting", "failed")
  /\ UNCHANGED <<udpVars, runtime, running, active, emitted>>

(* With --handoff-fips, udp_shutdown is sent, and 50 ms are waited.        *)
StopUdp(c) ==
  /\ handoffFips
  /\ Move(c, "found", "stopping")
  /\ UNCHANGED <<udpVars, runtime, running, active, emitted>>

(* udp_task sees udp_shutdown, which stays set.                            *)
UdpEnds ==
  /\ receiving
  /\ ~socket \/ \E c \in Call : phase[c] = "stopping"
  /\ receiving' = FALSE
  /\ UNCHANGED <<socket, phase, runtime, running, active, emitted>>

(* Mutant of TakeSocket: the socket is cloned, not taken.                   *)
TakeSocketCopy(c) ==
  /\ Move(c, "stopping", "starting")
  /\ UNCHANGED <<udpVars, runtime, running, active, emitted>>

(* take_handoff_socket: "already consumed" for every call but the first.   *)
TakeSocket(c) ==
  /\ Move(c, "stopping", IF socket THEN "starting" ELSE "failed")
  /\ socket' = FALSE
  /\ UNCHANGED <<receiving, runtime, running, active, emitted>>

(* The node starts; set_console_runtime, and the thread that reads its     *)
(* datagrams.                                                              *)
StartNode(c) ==
  /\ Move(c, "starting", "spawned")
  /\ running' = running \union {c}
  /\ runtime' = c
  /\ UNCHANGED <<udpVars, active, emitted>>

(* set_active_session writes the session ...                               *)
SetActive(c) ==
  /\ Move(c, IF handoffFips THEN "spawned" ELSE "found", "emitting")
  /\ active' = c
  /\ UNCHANGED <<udpVars, runtime, running, emitted>>

(* ... and only then tells the pages; the call returns.                    *)
EmitStatus(c) ==
  /\ Move(c, "emitting", "returned")
  /\ Emit(StatusOf(c))
  /\ UNCHANGED <<udpVars, runtime, running, active>>

Connect(c) ==
  /\ \/ FindPath(c) \/ ConnectFails(c) \/ StopUdp(c) \/ TakeSocket(c)
     \/ StartNode(c) \/ SetActive(c) \/ EmitStatus(c)
  /\ UNCHANGED <<send, page>>

-----------------------------------------------------------------------------
(* /api/send, which clones the runtime and uses it after the unlock.       *)

MoveSend(m, at) == send' = [send EXCEPT ![m].at = at]

GetRuntime(m) ==
  /\ send[m].at = "idle"
  /\ send' = [send EXCEPT ![m] = [at |-> IF runtime = NoSession THEN "failed" ELSE "holding",
                                  via |-> runtime]]
  /\ UNCHANGED running

QueueMessage(m) ==
  /\ send[m].at = "holding"
  /\ MoveSend(m, IF send[m].via \in running THEN "queued" ELSE "failed")
  /\ UNCHANGED running

(* The node sends the datagram, or refuses to.                             *)
NodeTakesMessage(m) ==
  /\ send[m].at = "queued"
  /\ send[m].via \in running
  /\ \E at \in {"ok", "failed"} : MoveSend(m, at)
  /\ UNCHANGED running

(* The commands in its channel are dropped, and their responses.           *)
DaemonNodeEnds(c) ==
  /\ c \in running
  /\ running' = running \ {c}
  /\ send' = [m \in Message |->
                IF send[m].at = "queued" /\ send[m].via = c
                THEN [send[m] EXCEPT !.at = "failed"] ELSE send[m]]

Send ==
  /\ \/ \E m \in Message : GetRuntime(m) \/ QueueMessage(m) \/ NodeTakesMessage(m)
     \/ \E c \in Call : DaemonNodeEnds(c)
  /\ UNCHANGED <<phase, udpVars, runtime, active, emitted, page>>

-----------------------------------------------------------------------------
(* /api/events.                                                            *)

(* A datagram of the peer's console, accepted by the reading thread.       *)
AcceptDatagram(l) ==
  /\ runtime # NoSession
  /\ Len(emitted) < MaxEvents
  /\ Emit(MessageOf(l))
  /\ UNCHANGED <<handoffFips, phase, udpVars, runtime, running, active, send, page>>

Opened(next, status) ==
  [at |-> "open", since |-> next, next |-> next, status |-> status, shown |-> <<>>]

(* Mutant of OpenStream: the state is read first, and the channel           *)
(* subscribed to after it.                                                 *)
ReadAndSubscribe(p) ==
  \/ /\ page[p].at = "closed"
     /\ page' = [page EXCEPT ![p] = [at |-> "opening", status |-> active]]
  \/ /\ page[p].at = "opening"
     /\ page' = [page EXCEPT ![p] = Opened(Len(emitted) + 1, page[p].status)]

(* A stream subscribes to the channel, then reads the state, which is the  *)
(* first it yields.                                                        *)
OpenStream(p) ==
  \/ /\ page[p].at = "closed"
     /\ page' = [page EXCEPT ![p] = [at |-> "opening", next |-> Len(emitted) + 1]]
  \/ /\ page[p].at = "opening"
     /\ page' = [page EXCEPT ![p] = Opened(page[p].next, active)]

Unread(p) == Len(emitted) + 1 - page[p].next

(* What the page makes of event n.                                         *)
Shows(p, n) ==
  LET e == emitted[n]
      q == [page[p] EXCEPT !.next = n + 1]
  IN page' = [page EXCEPT ![p] =
       IF e.event = "status" THEN [q EXCEPT !.status = e.session]
       ELSE [q EXCEPT !.shown = Append(@, e.text)]]

ReceiveEvent(p) ==
  /\ page[p].at = "open"
  /\ Unread(p) \in 1 .. EventSlots
  /\ Shows(p, page[p].next)

(* The stream lags behind the channel, or the page is left.                *)
StreamEnds(p) ==
  /\ page[p].at = "open"
  /\ page' = [page EXCEPT ![p] = Closed]

Events ==
  /\ \E p \in Page : OpenStream(p) \/ ReceiveEvent(p) \/ StreamEnds(p)
  /\ UNCHANGED <<phase, udpVars, runtime, running, active, send, emitted>>

-----------------------------------------------------------------------------
DaemonNext ==
  /\ \/ \E c \in Call : Connect(c)
     \/ UdpEnds /\ UNCHANGED <<send, page>>
     \/ Send
     \/ Events
  /\ UNCHANGED handoffFips
=============================================================================
