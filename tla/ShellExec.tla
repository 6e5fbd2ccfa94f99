------------------------------ MODULE ShellExec ------------------------------
(***************************************************************************)
(* The remote shell of fips-shell-server.rs: one session, many datagrams,  *)
(* one tokio task per command.                                             *)
(*                                                                         *)
(* The UDP loop decodes session frames.  A "shell" frame is handed to a    *)
(* task of its own (handle_shell_command), a "shell_interrupt" frame is    *)
(* handled inline (handle_shell_interrupt).  Both lock the SessionState:   *)
(* its cwd and its slot `running', which holds the cancel sender of the    *)
(* command that runs.  The command itself runs in a further task, that     *)
(* waits for the child or for the cancel receiver, reads the pipes to the  *)
(* end, empties the slot and sends the result.                             *)
(*                                                                         *)
(* A lock is never held across an await, so each critical section is one   *)
(* action; every await between two of them is a point of interleaving.     *)
(***************************************************************************)
EXTENDS Integers, FiniteSets

CONSTANTS
  Session,   \* session ids of the frames
  FrameId,   \* one per frame a client sends; bounds the frames of a run
  Task,      \* one per command frame the UDP loop takes; bounds the tasks
  Dir,       \* directories a session may be in
  Long,      \* the frames whose answer may not fit a datagram: the command
             \* and id it repeats, or the output, is too long
  HomeDir,   \* the directory the server was started in
  None       \* no task, no frame

ASSUME HomeAssumption == HomeDir \in Dir
ASSUME NoneAssumption == None \notin Task

VARIABLES
  used,      \* ids of the frames sent so far
  net,       \* frames on their way to the server
  cwd,       \* SessionState.cwd
  running,   \* SessionState.running: the task whose cancel sender it holds
  pc,        \* where the task of each command is
  frame,     \* the frame a task was spawned for
  cancel,    \* what the task's cancel receiver would yield
  startDir,  \* the directory the task captured when it took the slot
  interrupted, \* the task's local of that name: its select took the cancel branch
  results,   \* shell_result frames sent to the client
  unsent,    \* shell_result frames send_to refused; their error is dropped
  taken      \* history: how many interrupts found a command to cancel

clientVars == <<used, net>>
taskVars == <<pc, frame, cancel, startDir, interrupted>>
answerVars == <<results, unsent>>
vars == <<clientVars, cwd, running, taskVars, answerVars, taken>>

Op == {"run", "cd", "empty", "interrupt"}
Frame == [id : FrameId, session : Session, op : Op, dir : Dir]
Code == {"ok", "nodir", "busy", "spawnfailed", "interrupted", "ctrlc"}
Result == [id : FrameId, session : Session, code : Code, cwd : Dir]

(* A task moves from "free" through the stages of handle_shell_command.    *)
Stage == {"free", "queued", "starting", "failing", "waiting", "killing",
          "draining", "replying", "done"}

HasChild == {"waiting", "killing"}
Uncleaned == {"starting", "failing", "waiting", "killing", "draining"}

SessionOf(t) == frame[t].session

Answer(t, code, d) ==
  [id |-> frame[t].id, session |-> SessionOf(t), code |-> code, cwd |-> d]

(* An answer is one datagram, whatever the length of the output and of the  *)
(* command it repeats: send_to refuses one that is too long, and whoever    *)
(* called handle_shell_command drops the error.                            *)
Reply(t, code, d) ==
  \/ /\ results' = results \union {Answer(t, code, d)}
     /\ UNCHANGED unsent
  \/ /\ frame[t].id \in Long
     /\ unsent' = unsent \union {Answer(t, code, d)}
     /\ UNCHANGED results

Goto(t, stage) == pc' = [pc EXCEPT ![t] = stage]

TypeOK ==
  /\ used \subseteq FrameId
  /\ net \subseteq Frame
  /\ cwd \in [Session -> Dir]
  /\ running \in [Session -> Task \union {None}]
  /\ pc \in [Task -> Stage]
  /\ frame \in [Task -> Frame \union {None}]
  /\ \A t \in Task : pc[t] # "free" => frame[t] \in Frame
  /\ cancel \in [Task -> {"armed", "sent", "dropped"}]
  /\ startDir \in [Task -> Dir]
  /\ interrupted \in [Task -> BOOLEAN]
  /\ results \subseteq Result
  /\ unsent \subseteq Result
  /\ taken \in [Session -> Nat]

Init ==
  /\ used = {}
  /\ net = {}
  /\ cwd = [s \in Session |-> HomeDir]
  /\ running = [s \in Session |-> None]
  /\ pc = [t \in Task |-> "free"]
  /\ frame = [t \in Task |-> None]
  /\ cancel = [t \in Task |-> "armed"]
  /\ startDir = [t \in Task |-> HomeDir]
  /\ interrupted = [t \in Task |-> FALSE]
  /\ results = {}
  /\ unsent = {}
  /\ taken = [s \in Session |-> 0]

-----------------------------------------------------------------------------
(* The client and the network between it and the server.                   *)

(* api_cmd and api_ctrlc of the web daemon: one datagram, never repeated.  *)
SendFrame(f) ==
  /\ f.id \notin used
  /\ used' = used \union {f.id}
  /\ net' = net \union {f}
  /\ UNCHANGED <<cwd, running, taskVars, answerVars, taken>>

(* UDP may lose a datagram; Receive* may leave a copy behind.              *)
LoseFrame(f) ==
  /\ f \in net
  /\ net' = net \ {f}
  /\ UNCHANGED <<used, cwd, running, taskVars, answerVars, taken>>

Consume(f) ==
  /\ f \in net
  /\ net' \in {net, net \ {f}}

-----------------------------------------------------------------------------
(* The UDP loop.                                                           *)

(* A "shell" frame: spawn handle_shell_command.                            *)
ReceiveCommand(t, f) ==
  /\ f.op # "interrupt"
  /\ pc[t] = "free"
  /\ Consume(f)
  /\ Goto(t, "queued")
  /\ frame' = [frame EXCEPT ![t] = f]
  /\ UNCHANGED <<used, cwd, running, cancel, startDir, interrupted, answerVars, taken>>

(* A "shell_interrupt" frame: handle_shell_interrupt, awaited by the loop.  *)
(* It takes the sender out of the slot, fires it and answers at once.      *)
ReceiveInterrupt(f) ==
  LET s == f.session
      t == running[s] IN
  /\ f.op = "interrupt"
  /\ Consume(f)
  /\ running' = [running EXCEPT ![s] = None]
  /\ IF t = None
     THEN UNCHANGED <<cancel, taken>>
     ELSE /\ cancel' = [cancel EXCEPT ![t] = "sent"]
          /\ taken' = [taken EXCEPT ![s] = @ + 1]
  /\ results' = results \union
       {[id |-> f.id, session |-> s, code |-> "ctrlc", cwd |-> cwd[s]]}
  /\ UNCHANGED <<used, cwd, pc, frame, startDir, interrupted, unsent>>

-----------------------------------------------------------------------------
(* handle_shell_command, under the session lock.                           *)

RunEmpty(t) ==
  /\ pc[t] = "queued"
  /\ frame[t].op = "empty"
  /\ Reply(t, "ok", cwd[SessionOf(t)])
  /\ Goto(t, "done")
  /\ UNCHANGED <<clientVars, cwd, running, frame, cancel, startDir, interrupted, taken>>

(* `cd' is answered whether or not a command runs.                         *)
RunCd(t) ==
  /\ pc[t] = "queued"
  /\ frame[t].op = "cd"
  /\ Goto(t, "done")
  /\ \/ /\ cwd' = [cwd EXCEPT ![SessionOf(t)] = frame[t].dir]
        /\ Reply(t, "ok", frame[t].dir)
     \/ /\ Reply(t, "nodir", cwd[SessionOf(t)])
        /\ UNCHANGED cwd
  /\ UNCHANGED <<clientVars, running, frame, cancel, startDir, interrupted, taken>>

(* Mutant of RejectBusy: the command is turned away without a word.         *)
RejectBusySilently(t) ==
  /\ pc[t] = "queued"
  /\ frame[t].op = "run"
  /\ running[SessionOf(t)] # None
  /\ Goto(t, "done")
  /\ UNCHANGED <<clientVars, cwd, running, frame, cancel, startDir, interrupted, answerVars, taken>>

RejectBusy(t) ==
  /\ pc[t] = "queued"
  /\ frame[t].op = "run"
  /\ running[SessionOf(t)] # None
  /\ Reply(t, "busy", cwd[SessionOf(t)])
  /\ Goto(t, "done")
  /\ UNCHANGED <<clientVars, cwd, running, frame, cancel, startDir, interrupted, taken>>

(* Mutant of TakeSlot: `running.is_some()' is not looked at, and the sender *)
(* in the slot is overwritten.                                             *)
TakeSlotUnchecked(t) ==
  LET s == SessionOf(t) IN
  /\ pc[t] = "queued"
  /\ frame[t].op = "run"
  /\ running' = [running EXCEPT ![s] = t]
  /\ cancel' = [u \in Task |-> IF u = running[s] THEN "dropped" ELSE cancel[u]]
  /\ startDir' = [startDir EXCEPT ![t] = cwd[s]]
  /\ Goto(t, "starting")
  /\ UNCHANGED <<clientVars, cwd, frame, interrupted, answerVars, taken>>

(* The slot is free: store the cancel sender and hand the rest to a task.  *)
TakeSlot(t) ==
  /\ pc[t] = "queued"
  /\ frame[t].op = "run"
  /\ running[SessionOf(t)] = None
  /\ running' = [running EXCEPT ![SessionOf(t)] = t]
  /\ startDir' = [startDir EXCEPT ![t] = cwd[SessionOf(t)]]
  /\ Goto(t, "starting")
  /\ UNCHANGED <<clientVars, cwd, frame, cancel, interrupted, answerVars, taken>>

-----------------------------------------------------------------------------
(* The task of a command that took the slot.                               *)

SpawnChild(t) ==
  /\ pc[t] = "starting"
  /\ Goto(t, "waiting")
  /\ UNCHANGED <<clientVars, cwd, running, frame, cancel, startDir, interrupted, answerVars, taken>>

(* Command::spawn returned an error: the reply goes first ...               *)
SpawnFails(t) ==
  /\ pc[t] = "starting"
  /\ Reply(t, "spawnfailed", startDir[t])
  /\ Goto(t, "failing")
  /\ UNCHANGED <<clientVars, cwd, running, frame, cancel, startDir, interrupted, taken>>

(* `running = None' drops the sender in the slot, whoever put it there.     *)
EmptySlot(s) ==
  /\ running' = [running EXCEPT ![s] = None]
  /\ cancel' = [t \in Task |-> IF t = running[s] THEN "dropped" ELSE cancel[t]]

(* ... and the slot is emptied after it.                                    *)
CleanupFailed(t) ==
  /\ pc[t] = "failing"
  /\ EmptySlot(SessionOf(t))
  /\ Goto(t, "done")
  /\ UNCHANGED <<clientVars, cwd, frame, startDir, interrupted, answerVars, taken>>

ChildExits(t) ==
  /\ pc[t] = "waiting"
  /\ Goto(t, "draining")
  /\ UNCHANGED <<clientVars, cwd, running, frame, cancel, startDir, interrupted, answerVars, taken>>

(* Mutant of CancelChild: `Ok(()) = &mut cancel_rx' ignores a sender that   *)
(* was dropped.                                                            *)
CancelChildIfSent(t) ==
  /\ pc[t] = "waiting"
  /\ cancel[t] = "sent"
  /\ Goto(t, "killing")
  /\ interrupted' = [interrupted EXCEPT ![t] = TRUE]
  /\ UNCHANGED <<clientVars, cwd, running, frame, cancel, startDir, answerVars, taken>>

(* The select takes the cancel branch: the receiver yields when the sender *)
(* fired and when it was dropped.                                          *)
CancelChild(t) ==
  /\ pc[t] = "waiting"
  /\ cancel[t] # "armed"
  /\ Goto(t, "killing")
  /\ interrupted' = [interrupted EXCEPT ![t] = TRUE]
  /\ UNCHANGED <<clientVars, cwd, running, frame, cancel, startDir, answerVars, taken>>

(* child.kill() and child.wait() returned.                                  *)
ChildKilled(t) ==
  /\ pc[t] = "killing"
  /\ Goto(t, "draining")
  /\ UNCHANGED <<clientVars, cwd, running, frame, cancel, startDir, interrupted, answerVars, taken>>

(* Mutant of Cleanup: the slot is not emptied.                              *)
CleanupKeepsSlot(t) ==
  /\ pc[t] = "draining"
  /\ Goto(t, "replying")
  /\ UNCHANGED <<clientVars, cwd, running, frame, cancel, startDir, interrupted, answerVars, taken>>

(* Both pipes are at their end: the slot of the session is emptied.         *)
Cleanup(t) ==
  /\ pc[t] = "draining"
  /\ EmptySlot(SessionOf(t))
  /\ Goto(t, "replying")
  /\ UNCHANGED <<clientVars, cwd, frame, startDir, interrupted, answerVars, taken>>

SendResult(t) ==
  /\ pc[t] = "replying"
  /\ Reply(t, IF interrupted[t] THEN "interrupted" ELSE "ok", startDir[t])
  /\ Goto(t, "done")
  /\ UNCHANGED <<clientVars, cwd, running, frame, cancel, startDir, interrupted, taken>>
-----------------------------------------------------------------------------
RunCommand(t) == RunEmpty(t) \/ RunCd(t) \/ RejectBusy(t) \/ TakeSlot(t)

(* The steps of a task that need nothing from outside the server.          *)
TaskStep(t) ==
  \/ RunCommand(t)
  \/ SpawnChild(t)
  \/ SpawnFails(t)
  \/ CleanupFailed(t)
  \/ CancelChild(t)
  \/ ChildKilled(t)
  \/ SendResult(t)

Next ==
  \/ \E f \in Frame : SendFrame(f) \/ LoseFrame(f) \/ ReceiveInterrupt(f)
  \/ \E t \in Task, f \in Frame : ReceiveCommand(t, f)
  \/ \E t \in Task : TaskStep(t) \/ ChildExits(t) \/ Cleanup(t)

Spec == Init /\ [][Next]_vars

(* tokio runs every task that is ready.  Nothing is assumed of the client, *)
(* of the network, of a child that ends by itself or of its pipes.         *)
FairSpec == Spec /\ \A t \in Task : WF_vars(TaskStep(t))

(* Commands end by themselves and close their pipes.                       *)
CommandsEnd == \A t \in Task : WF_vars(ChildExits(t)) /\ WF_vars(Cleanup(t))

-----------------------------------------------------------------------------
(* Properties.                                                             *)

UncleanedOf(s) == {t \in Task : pc[t] \in Uncleaned /\ SessionOf(t) = s}

(* The slot of a session never outlives the command it belongs to: whoever *)
(* fills it is a task that has yet to run its `running = None'.  Otherwise *)
(* the session would answer "another command is still running" forever.    *)
SlotHolderWillCleanUp ==
  \A s \in Session : running[s] # None => running[s] \in UncleanedOf(s)

(* Ctrl-C frees the slot before the child is dead, and the cleanup of the  *)
(* old task drops the sender of a newer one; however long that goes on,    *)
(* each interrupt that cancelled a command adds at most one command to     *)
(* those that are under way at once.                                       *)
OverlapBoundedByInterrupts ==
  \A s \in Session : Cardinality(UncleanedOf(s)) <= taken[s] + 1

(* A session nobody interrupted never loses a command to a kill.           *)
NoKillWithoutInterrupt ==
  \A t \in Task : interrupted[t] => taken[SessionOf(t)] > 0

(* A cancelled command does not keep its child: the kill is not lost when   *)
(* Ctrl-C arrives before the child is spawned.                             *)
CancelStopsChild ==
  \A t \in Task :
    (pc[t] \in {"starting", "waiting"} /\ cancel[t] # "armed")
      ~> pc[t] \notin {"starting"} \union HasChild

(* If commands end, every one the server took is answered, rejected,       *)
(* failed, killed or not, and has then left the slot to others; the only    *)
(* answer that is not sent is one that fits no datagram.                    *)
EveryCommandAnswered ==
  CommandsEnd =>
    \A t \in Task : pc[t] = "queued" ~>
      /\ pc[t] = "done"
      /\ running[SessionOf(t)] # t
      /\ \E r \in IF frame[t].id \in Long THEN results \union unsent ELSE results :
           r.id = frame[t].id

=============================================================================
