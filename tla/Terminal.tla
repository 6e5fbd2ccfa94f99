------------------------------ MODULE Terminal ------------------------------
(***************************************************************************)
(* run_console_runtime of fips-console-server.rs and, word for word, of    *)
(* fips-console-client.rs: the terminal of a process whose socket a FIPS   *)
(* node has taken.  A thread reads lines into a channel; the loop sends    *)
(* them to the node one by one and waits for its response to each; when    *)
(* the loop ends, so does the process.                                     *)
(***************************************************************************)
EXTENDS Integers, Sequences, SequencesExt

CONSTANTS
  Blank,     \* a line of white space
  LineSlots, \* 32, the capacity of the channel of lines
  MaxLines   \* bounds the lines that are read

ASSUME LineSlotsAssumption == LineSlots \in Nat \ {0}

VARIABLES
  typed,   \* lines the thread read from the input, numbered or Blank
  reading, \* the thread runs
  lines,   \* the channel between thread and loop
  loop,    \* where the loop is
  line,    \* the line the loop is sending
  asked,   \* lines the node was asked to send
  node     \* the node's receive loop runs

terminalVars == <<typed, reading, lines, loop, line, asked, node>>

(* What is typed: numbered lines, and lines of white space.                *)
Line == Nat \union {Blank}

(* s without the elements that are in T.                                   *)
Without(s, T) ==
  LET kept[n \in 0 .. Len(s)] ==
        IF n = 0 THEN <<>>
        ELSE IF s[n] \in T THEN kept[n - 1] ELSE Append(kept[n - 1], s[n])
  IN kept[Len(s)]

Text(s) == Without(s, {Blank})

TerminalTypeOK ==
  /\ {typed, lines, asked} \subseteq Seq(Line)
  /\ Len(lines) <= LineSlots
  /\ {reading, node} \subseteq BOOLEAN
  /\ loop \in {"receiving", "awaiting", "done", "failed"}
  /\ line \in Line

TerminalInit ==
  /\ typed = <<>>
  /\ reading = TRUE
  /\ lines = <<>>
  /\ loop = "receiving"
  /\ line = Blank
  /\ asked = <<>>
  /\ node = TRUE

LoopEnded == loop \in {"done", "failed"}

-----------------------------------------------------------------------------
(* The thread.                                                             *)

(* Mutant of ReadLine: try_send, which drops the line when the channel is   *)
(* full.                                                                   *)
ReadLineOrDrop(l) ==
  /\ reading
  /\ Len(typed) < MaxLines
  /\ ~LoopEnded
  /\ typed' = Append(typed, l)
  /\ lines' = IF Len(lines) < LineSlots THEN Append(lines, l) ELSE lines
  /\ UNCHANGED <<reading, loop, line, asked, node>>

(* blocking_send waits for a slot, with the line in hand.                  *)
ReadLine(l) ==
  /\ reading
  /\ Len(typed) < MaxLines
  /\ ~LoopEnded
  /\ Len(lines) < LineSlots
  /\ typed' = Append(typed, l)
  /\ lines' = Append(lines, l)
  /\ UNCHANGED <<reading, loop, line, asked, node>>

(* The end of the input, a read-error, or nobody receives the next line.   *)
ReaderEnds ==
  /\ reading
  /\ reading' = FALSE
  /\ UNCHANGED <<typed, lines, loop, line, asked, node>>

-----------------------------------------------------------------------------
(* The loop.                                                               *)

(* Lines of white space are skipped; for any other a command is queued,   *)
(* unless the node is gone.  The channel of commands has 64 slots, of      *)
(* which the loop needs one.                                               *)
TakeLine ==
  /\ loop = "receiving"
  /\ lines # <<>>
  /\ line' = Head(lines)
  /\ lines' = Tail(lines)
  /\ loop' = CASE Head(lines) = Blank -> "receiving"
               [] Head(lines) # Blank /\ node -> "awaiting"
               [] OTHER -> "failed"
  /\ UNCHANGED <<typed, reading, asked, node>>

(* Mutant of ResponseDropped: the loop keeps a sender of the response, so   *)
(* that it never sees it dropped.                                          *)
ResponseHeld == FALSE /\ UNCHANGED terminalVars

(* The node ended with the command in its channel: the response is dropped. *)
ResponseDropped ==
  /\ loop = "awaiting"
  /\ ~node
  /\ loop' = "failed"
  /\ UNCHANGED <<typed, reading, lines, line, asked, node>>

(* line_rx.recv() returns None once the thread is gone and all is taken.   *)
NoMoreLines ==
  /\ loop = "receiving"
  /\ lines = <<>>
  /\ ~reading
  /\ loop' = "done"
  /\ UNCHANGED <<typed, reading, lines, line, asked, node>>

-----------------------------------------------------------------------------
(* The node, which sends the datagram or refuses to, or ends.              *)

NodeTakesLine ==
  /\ loop = "awaiting"
  /\ node
  /\ asked' = Append(asked, line)
  /\ loop' \in {"receiving", "failed"}
  /\ UNCHANGED <<typed, reading, lines, line, node>>

NodeEnds ==
  /\ node
  /\ node' = FALSE
  /\ UNCHANGED <<typed, reading, lines, loop, line, asked>>

-----------------------------------------------------------------------------
Loop == TakeLine \/ ResponseDropped \/ NoMoreLines

TerminalNext ==
  \/ \E l \in {Len(typed) + 1, Blank} : ReadLine(l)
  \/ ReaderEnds \/ Loop \/ NodeTakesLine \/ NodeEnds

(* The loop runs, and a node that goes on running takes its commands.      *)
TerminalFairness == WF_terminalVars(Loop) /\ WF_terminalVars(NodeTakesLine)

-----------------------------------------------------------------------------
(* Properties.                                                             *)

(* The node is asked to send every line with text, once and in order,     *)
(* whatever waits in the channel or for a response; and a console that     *)
(* ends without an error has sent all it read, what was still in the       *)
(* channel when the input ended included.                                  *)
LinesInOrder ==
  /\ IsPrefix(asked, Text(typed))
  /\ loop = "done" => asked = Text(typed)

(* The console, and the process with it, ends after its input does, also   *)
(* when the node ended with a line in its channel.                         *)
ConsoleEnds == ~reading ~> LoopEnded
=============================================================================
