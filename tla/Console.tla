------------------------------- MODULE Console -------------------------------
(***************************************************************************)
(* A console daemon with its pages, and the terminal of the console server *)
(* it connects to.  Their FIPS nodes carry the lines of the terminal to    *)
(* the daemon: lost, repeated and out of order.                            *)
(***************************************************************************)
EXTENDS Terminal, ConsoleDaemon

consoleVars == <<terminalVars, daemonVars>>

ConsoleInit == TerminalInit /\ DaemonInit

Deliver ==
  /\ \E i \in DOMAIN asked : AcceptDatagram(asked[i])
  /\ UNCHANGED terminalVars

ConsoleNext ==
  \/ TerminalNext /\ UNCHANGED daemonVars
  \/ DaemonNext /\ UNCHANGED terminalVars
  \/ Deliver

ConsoleSpec == ConsoleInit /\ [][ConsoleNext]_consoleVars /\ TerminalFairness

-----------------------------------------------------------------------------
(* Properties.                                                             *)

ConsoleTypeOK ==
  /\ TerminalTypeOK
  /\ DaemonTypeOK(Line)

Connected(c) == phase[c] \in {"emitting", "returned"}

(* With --handoff-fips, messages go to the peer that the daemon calls      *)
(* active, though the runtime is read before the message is queued, calls  *)
(* of /api/connect run at once and each sets runtime and session in steps  *)
(* of its own: a call that finds its path after another took the socket    *)
(* fails before it changes either.                                         *)
MessagesGoToActive ==
  handoffFips =>
    /\ \A m \in Message : send[m].at \in {"queued", "ok"} => active \in {NoSession, send[m].via}
    /\ \A c \in Call : Connected(c) => active = c /\ runtime = c

Texts(es) ==
  LET ms == Without(es, {StatusOf(c) : c \in Call})
  IN [i \in DOMAIN ms |-> ms[i].text]

(* A page that has read its stream to the end shows the active session,    *)
(* unless a call is about to tell it, and all messages since it opened,    *)
(* without a gap: api_events subscribes before it reads the state, and a   *)
(* stream that lags ends.  Two calls that return without a handoff may     *)
(* have told the pages in the other order than they set the session.       *)
PageShowsActive ==
  \A p \in Page :
    page[p].at = "open" =>
      /\ page[p].shown = Texts(SubSeq(emitted, page[p].since, page[p].next - 1))
      /\ \/ Unread(p) > 0
         \/ page[p].status = active
         \/ \E c \in Call : phase[c] = "emitting"
         \/ ~handoffFips /\ \E c, d \in Call : c # d /\ phase[c] = "returned" /\ phase[d] = "returned"
=============================================================================
