--------------------------- MODULE ShellExecProofs ---------------------------
(* What ShellExec does for every set of sessions, frames and tasks.          *)
EXTENDS ShellExec, TLAPS, FiniteSetTheorems

(* A task that took a frame and has not touched the slot since has its      *)
(* sender where it was created, and was not interrupted.                    *)
FreshInv ==
  \A t \in Task : pc[t] \in {"free", "queued"}
                    => cancel[t] = "armed" /\ ~interrupted[t]

(* The sender in a slot is that of a command under way, and has not fired.  *)
SlotInv ==
  \A s \in Session : running[s] # None
                       => running[s] \in UncleanedOf(s) /\ cancel[running[s]] = "armed"

(* A command under way whose sender neither fired nor was dropped is in the *)
(* slot of its session.                                                    *)
HolderInv ==
  \A t \in Task : pc[t] \in Uncleaned /\ cancel[t] = "armed"
                    => running[SessionOf(t)] = t

(* The commands of a session that are under way outside its slot: each      *)
(* interrupt that finds a command adds one, a clean-up only puts one in the *)
(* place of another.                                                        *)
Cancelled(s) == {t \in UncleanedOf(s) : cancel[t] # "armed"}

CountInv ==
  \A s \in Session : /\ IsFiniteSet(Cancelled(s))
                     /\ Cardinality(Cancelled(s)) <= taken[s]

KillInv ==
  \A t \in Task : pc[t] \in Uncleaned /\ cancel[t] # "armed"
                    => taken[SessionOf(t)] > 0

IInv ==
  /\ TypeOK
  /\ FreshInv
  /\ SlotInv
  /\ HolderInv
  /\ CountInv
  /\ KillInv
  /\ NoKillWithoutInterrupt

-----------------------------------------------------------------------------
(* Every variable keeps its type.                                           *)

LEMMA TypeInit == Init => TypeOK
BY HomeAssumption DEF Init, TypeOK, Stage

(* The answer to a frame is a result, sent or not.                           *)
LEMMA ReplyType ==
  ASSUME TypeOK, NEW t \in Task, pc[t] # "free",
         NEW code \in Code, NEW d \in Dir, Reply(t, code, d)
  PROVE  results' \subseteq Result /\ unsent' \subseteq Result
<1>1. frame[t] \in Frame
  BY DEF TypeOK
<1>2. frame[t].id \in FrameId /\ frame[t].session \in Session
  BY <1>1 DEF Frame
<1>3. Answer(t, code, d) \in Result
  BY <1>2 DEF Answer, SessionOf, Result
<1> QED BY <1>3 DEF Reply, TypeOK

LEMMA TypeNext == TypeOK /\ [Next]_vars => TypeOK'
<1> SUFFICES ASSUME TypeOK, [Next]_vars PROVE TypeOK'
  OBVIOUS
<1> USE DEF Goto, clientVars, taskVars, answerVars
<1>1. ASSUME NEW f \in Frame, SendFrame(f) PROVE TypeOK'
  BY <1>1 DEF SendFrame, TypeOK, Frame
<1>2. ASSUME NEW f \in Frame, LoseFrame(f) PROVE TypeOK'
  BY <1>2 DEF LoseFrame, TypeOK
<1>3. ASSUME NEW f \in Frame, ReceiveInterrupt(f) PROVE TypeOK'
  <2>1. f.session \in Session /\ f.id \in FrameId
    BY DEF Frame
  <2>2. [id |-> f.id, session |-> f.session, code |-> "ctrlc", cwd |-> cwd[f.session]] \in Result
    BY <2>1 DEF Result, Code, TypeOK
  <2>3. results' \subseteq Result
    BY <1>3, <2>2 DEF ReceiveInterrupt, TypeOK
  <2>4. running' \in [Session -> Task \union {None}] /\ net' \subseteq Frame
    BY <1>3 DEF ReceiveInterrupt, Consume, TypeOK
  <2>5. cancel' \in [Task -> {"armed", "sent", "dropped"}] /\ taken' \in [Session -> Nat]
    BY <1>3 DEF ReceiveInterrupt, TypeOK
  <2> QED BY <1>3, <2>3, <2>4, <2>5 DEF ReceiveInterrupt, TypeOK
<1>4. ASSUME NEW t \in Task, NEW f \in Frame, ReceiveCommand(t, f) PROVE TypeOK'
  BY <1>4 DEF ReceiveCommand, Consume, TypeOK, Stage
<1>5. ASSUME NEW t \in Task, pc[t] # "free" PROVE frame[t] \in Frame /\ SessionOf(t) \in Session
                                                 /\ frame[t].dir \in Dir
  BY <1>5 DEF TypeOK, SessionOf, Frame
<1>6. ASSUME NEW t \in Task, RunEmpty(t) PROVE TypeOK'
  <2>1. results' \subseteq Result /\ unsent' \subseteq Result
    BY <1>5, <1>6, ReplyType DEF RunEmpty, Code, TypeOK
  <2> QED BY <1>5, <1>6, <2>1 DEF RunEmpty, TypeOK, Stage
<1>7. ASSUME NEW t \in Task, RunCd(t) PROVE TypeOK'
  <2>1. results' \subseteq Result /\ unsent' \subseteq Result
    BY <1>5, <1>7, ReplyType DEF RunCd, Code, TypeOK
  <2> QED BY <1>5, <1>7, <2>1 DEF RunCd, TypeOK, Stage
<1>8. ASSUME NEW t \in Task, RejectBusy(t) PROVE TypeOK'
  <2>1. results' \subseteq Result /\ unsent' \subseteq Result
    BY <1>5, <1>8, ReplyType DEF RejectBusy, Code, TypeOK
  <2> QED BY <1>5, <1>8, <2>1 DEF RejectBusy, TypeOK, Stage
<1>9. ASSUME NEW t \in Task, TakeSlot(t) PROVE TypeOK'
  BY <1>5, <1>9 DEF TakeSlot, TypeOK, Stage
<1>10. ASSUME NEW t \in Task, SpawnChild(t) PROVE TypeOK'
  BY <1>5, <1>10 DEF SpawnChild, TypeOK, Stage
<1>11. ASSUME NEW t \in Task, SpawnFails(t) PROVE TypeOK'
  <2>1. results' \subseteq Result /\ unsent' \subseteq Result
    BY <1>5, <1>11, ReplyType DEF SpawnFails, Code, TypeOK
  <2> QED BY <1>5, <1>11, <2>1 DEF SpawnFails, TypeOK, Stage
<1>12. ASSUME NEW t \in Task, CleanupFailed(t) PROVE TypeOK'
  BY <1>5, <1>12 DEF CleanupFailed, EmptySlot, TypeOK, Stage
<1>13. ASSUME NEW t \in Task, CancelChild(t) PROVE TypeOK'
  BY <1>5, <1>13 DEF CancelChild, TypeOK, Stage
<1>14. ASSUME NEW t \in Task, ChildKilled(t) PROVE TypeOK'
  BY <1>5, <1>14 DEF ChildKilled, TypeOK, Stage
<1>15. ASSUME NEW t \in Task, SendResult(t) PROVE TypeOK'
  <2>1. results' \subseteq Result /\ unsent' \subseteq Result
    BY <1>5, <1>15, ReplyType DEF SendResult, Code, TypeOK
  <2> QED BY <1>5, <1>15, <2>1 DEF SendResult, TypeOK, Stage
<1>16. ASSUME NEW t \in Task, ChildExits(t) PROVE TypeOK'
  BY <1>5, <1>16 DEF ChildExits, TypeOK, Stage
<1>17. ASSUME NEW t \in Task, Cleanup(t) PROVE TypeOK'
  BY <1>5, <1>17 DEF Cleanup, EmptySlot, TypeOK, Stage
<1>18. CASE UNCHANGED vars
  BY <1>18 DEF vars, TypeOK
<1> QED
  BY <1>1, <1>2, <1>3, <1>4, <1>6, <1>7, <1>8, <1>9, <1>10, <1>11, <1>12,
     <1>13, <1>14, <1>15, <1>16, <1>17, <1>18 DEF Next, TaskStep, RunCommand

(* What the cells of SessionState and the locals of the tasks may hold.      *)
THEOREM TypeCorrect == Spec => []TypeOK
BY TypeInit, TypeNext, PTL DEF Spec

-----------------------------------------------------------------------------
(* The slot, the senders and the count.                                      *)

LEMMA InitIInv == Init => IInv
<1> SUFFICES ASSUME Init PROVE IInv
  OBVIOUS
<1>1. TypeOK
  BY TypeInit
<1>2. \A s \in Session : Cancelled(s) = {}
  BY DEF Init, Cancelled, UncleanedOf, Uncleaned
<1>3. CountInv
  BY <1>2, FS_EmptySet DEF Init, CountInv
<1>4. \A t \in Task : pc[t] = "free" /\ cancel[t] = "armed" /\ ~interrupted[t]
  BY DEF Init
<1>5. SlotInv
  BY DEF Init, SlotInv
<1>6. FreshInv /\ HolderInv /\ KillInv /\ NoKillWithoutInterrupt
  BY <1>4 DEF FreshInv, HolderInv, KillInv, NoKillWithoutInterrupt, Uncleaned
<1> QED BY <1>1, <1>3, <1>5, <1>6 DEF IInv

(* A step that moves tasks without touching slots, senders and frames, and  *)
(* interrupts none but a command that was cancelled.                        *)
LEMMA StaysInPlace ==
  ASSUME IInv, TypeOK', UNCHANGED <<running, cancel, frame, taken>>,
         \A t \in Task : pc'[t] \in Uncleaned <=> pc[t] \in Uncleaned,
         \A t \in Task : pc'[t] \in {"free", "queued"}
                           => pc[t] \in {"free", "queued"} /\ interrupted'[t] = interrupted[t],
         \A t \in Task : interrupted'[t]
                           => interrupted[t] \/ (pc[t] \in Uncleaned /\ cancel[t] # "armed")
  PROVE  IInv'
<1>1. \A s \in Session : UncleanedOf(s)' = UncleanedOf(s)
  BY DEF UncleanedOf, SessionOf
<1>2. \A s \in Session : Cancelled(s)' = Cancelled(s)
  BY <1>1 DEF Cancelled
<1>3. FreshInv'
  BY DEF IInv, FreshInv
<1>4. SlotInv'
  BY <1>1 DEF IInv, SlotInv
<1>5. HolderInv' /\ KillInv'
  BY DEF IInv, HolderInv, KillInv, SessionOf
<1>6. CountInv'
  BY <1>2 DEF IInv, CountInv
<1>7. NoKillWithoutInterrupt'
  BY DEF IInv, KillInv, NoKillWithoutInterrupt, SessionOf
<1> QED BY <1>3, <1>4, <1>5, <1>6, <1>7 DEF IInv

(* A free task takes a frame: it was in no session before.                   *)
LEMMA ReceiveCommandKeeps ==
  ASSUME IInv, TypeOK', NEW u \in Task, NEW f \in Frame, ReceiveCommand(u, f)
  PROVE  IInv'
<1>1. pc[u] = "free" /\ pc' = [pc EXCEPT ![u] = "queued"]
      /\ frame' = [frame EXCEPT ![u] = f]
      /\ UNCHANGED <<running, cancel, interrupted, taken>>
  BY DEF ReceiveCommand, Goto
<1>2. \A s \in Session : UncleanedOf(s)' = UncleanedOf(s)
  BY <1>1 DEF UncleanedOf, Uncleaned, SessionOf, IInv, TypeOK
<1>3. \A s \in Session : Cancelled(s)' = Cancelled(s)
  BY <1>1, <1>2 DEF Cancelled
<1>4. FreshInv'
  BY <1>1 DEF IInv, FreshInv, TypeOK
<1>5. SlotInv'
  BY <1>1, <1>2 DEF IInv, SlotInv
<1>6. HolderInv' /\ KillInv'
  BY <1>1 DEF IInv, HolderInv, KillInv, SessionOf, TypeOK, Uncleaned
<1>7. CountInv'
  BY <1>1, <1>3 DEF IInv, CountInv
<1>8. NoKillWithoutInterrupt'
  BY <1>1 DEF IInv, FreshInv, NoKillWithoutInterrupt, SessionOf, TypeOK
<1> QED BY <1>4, <1>5, <1>6, <1>7, <1>8 DEF IInv

(* A command takes the free slot.                                           *)
LEMMA TakeSlotKeeps ==
  ASSUME IInv, TypeOK', NEW u \in Task, TakeSlot(u)
  PROVE  IInv'
<1> DEFINE r == SessionOf(u)
<1>1. /\ pc[u] = "queued" /\ pc' = [pc EXCEPT ![u] = "starting"]
      /\ running[r] = None /\ running' = [running EXCEPT ![r] = u]
      /\ UNCHANGED <<frame, cancel, interrupted, taken>>
  BY DEF TakeSlot, Goto
<1>2. r \in Session /\ cancel[u] = "armed"
  BY <1>1 DEF IInv, TypeOK, FreshInv, SessionOf, Frame
<1>3. \A s \in Session : UncleanedOf(s)' = UncleanedOf(s) \union (IF s = r THEN {u} ELSE {})
  BY <1>1 DEF UncleanedOf, Uncleaned, SessionOf, IInv, TypeOK
<1>4. \A s \in Session : Cancelled(s)' = Cancelled(s)
  BY <1>1, <1>2, <1>3 DEF Cancelled
<1>5. FreshInv'
  BY <1>1 DEF IInv, FreshInv, TypeOK
<1>6. SlotInv'
  BY <1>1, <1>2, <1>3 DEF IInv, SlotInv, TypeOK
<1>7. HolderInv'
  <2> SUFFICES ASSUME NEW t \in Task, pc'[t] \in Uncleaned, cancel[t] = "armed"
               PROVE  running'[SessionOf(t)] = t
    BY <1>1 DEF HolderInv, SessionOf
  <2>1. CASE t = u
    BY <2>1, <1>1, <1>2 DEF IInv, TypeOK
  <2>2. CASE t # u
    <3>1. running[SessionOf(t)] = t /\ SessionOf(t) \in Session
      BY <2>2, <1>1 DEF IInv, HolderInv, TypeOK, Frame, SessionOf, Uncleaned
    <3>2. SessionOf(t) # r
      BY <3>1, <1>1, NoneAssumption
    <3> QED BY <3>1, <3>2, <1>1
  <2> QED BY <2>1, <2>2
<1>8. KillInv'
  BY <1>1, <1>2 DEF IInv, KillInv, SessionOf, TypeOK
<1>9. CountInv'
  BY <1>1, <1>4 DEF IInv, CountInv
<1>10. NoKillWithoutInterrupt'
  BY <1>1 DEF IInv, NoKillWithoutInterrupt, SessionOf
<1> QED BY <1>5, <1>6, <1>7, <1>8, <1>9, <1>10 DEF IInv

(* Ctrl-C takes the sender out of the slot and fires it.                     *)
LEMMA InterruptKeeps ==
  ASSUME IInv, TypeOK', NEW f \in Frame, ReceiveInterrupt(f)
  PROVE  IInv'
<1> DEFINE s0 == f.session
           u == running[s0]
<1>1. s0 \in Session
  BY DEF Frame
<1>2. /\ running' = [running EXCEPT ![s0] = None]
      /\ UNCHANGED <<pc, frame, interrupted>>
  BY DEF ReceiveInterrupt
<1>3. \A s \in Session : UncleanedOf(s)' = UncleanedOf(s)
  BY <1>2 DEF UncleanedOf, SessionOf
<1>4. CASE u = None
  <2>1. UNCHANGED <<running, cancel, taken>>
    BY <1>1, <1>2, <1>4 DEF ReceiveInterrupt, IInv, TypeOK
  <2> QED BY <2>1, <1>2, StaysInPlace
<1>5. CASE u # None
  <2>1. /\ cancel' = [cancel EXCEPT ![u] = "sent"]
        /\ taken' = [taken EXCEPT ![s0] = @ + 1]
    BY <1>5 DEF ReceiveInterrupt
  <2>2. u \in UncleanedOf(s0) /\ cancel[u] = "armed"
    BY <1>1, <1>5 DEF IInv, SlotInv
  <2>3. u \in Task /\ pc[u] \in Uncleaned /\ SessionOf(u) = s0
    BY <2>2 DEF UncleanedOf
  <2>4. FreshInv'
    BY <1>2, <2>1, <2>3 DEF IInv, FreshInv, TypeOK, Uncleaned
  <2>5. SlotInv'
    <3> SUFFICES ASSUME NEW s \in Session, running'[s] # None
                 PROVE  running'[s] \in UncleanedOf(s) /\ cancel'[running'[s]] = "armed"
      BY <1>3 DEF SlotInv
    <3>1. s # s0 /\ running'[s] = running[s]
      BY <1>1, <1>2 DEF IInv, TypeOK
    <3>2. running[s] \in UncleanedOf(s) /\ cancel[running[s]] = "armed"
      BY <3>1 DEF IInv, SlotInv
    <3>3. running[s] # u
      BY <2>3, <3>1, <3>2 DEF UncleanedOf
    <3> QED BY <2>1, <3>1, <3>2, <3>3 DEF IInv, TypeOK, UncleanedOf
  <2>6. HolderInv'
    <3> SUFFICES ASSUME NEW t \in Task, pc[t] \in Uncleaned, cancel'[t] = "armed"
                 PROVE  running'[SessionOf(t)] = t
      BY <1>2 DEF HolderInv, SessionOf
    <3>1. t # u /\ cancel[t] = "armed"
      BY <2>1, <2>3 DEF IInv, TypeOK
    <3>2. running[SessionOf(t)] = t
      BY <3>1 DEF IInv, HolderInv
    <3>3. SessionOf(t) # s0
      BY <3>1, <3>2
    <3> QED BY <1>2, <3>2, <3>3
  <2>7. \A t \in Task : taken'[SessionOf(t)] >= taken[SessionOf(t)] \/ pc[t] = "free"
    BY <1>1, <2>1 DEF IInv, TypeOK, SessionOf, Frame
  <2>8. taken'[s0] > 0
    BY <1>1, <2>1 DEF IInv, TypeOK
  <2>9. KillInv'
    <3> SUFFICES ASSUME NEW t \in Task, pc[t] \in Uncleaned, cancel'[t] # "armed"
                 PROVE  taken'[SessionOf(t)] > 0
      BY <1>2 DEF KillInv, SessionOf
    <3>1. CASE t = u
      BY <2>3, <2>8, <3>1
    <3>2. CASE t # u
      <4>1. taken[SessionOf(t)] > 0 /\ SessionOf(t) \in Session
        BY <2>1, <3>2 DEF IInv, KillInv, TypeOK, SessionOf, Frame, Uncleaned
      <4> QED BY <1>1, <2>1, <4>1 DEF IInv, TypeOK
    <3> QED BY <3>1, <3>2
  <2>10. CountInv'
    <3> SUFFICES ASSUME NEW s \in Session
                 PROVE  IsFiniteSet(Cancelled(s)') /\ Cardinality(Cancelled(s)') <= taken'[s]
      BY DEF CountInv
    <3>1. IsFiniteSet(Cancelled(s)) /\ Cardinality(Cancelled(s)) <= taken[s]
      BY DEF IInv, CountInv
    <3>2. CASE s = s0
      <4>1. Cancelled(s)' = Cancelled(s) \union {u} /\ u \notin Cancelled(s)
        BY <1>3, <2>1, <2>2, <2>3, <3>2 DEF Cancelled, IInv, TypeOK, UncleanedOf
      <4>2. IsFiniteSet(Cancelled(s)') /\ Cardinality(Cancelled(s)') = Cardinality(Cancelled(s)) + 1
        BY <3>1, <4>1, FS_AddElement
      <4>3. taken'[s] = taken[s] + 1
        BY <1>1, <2>1, <3>2 DEF IInv, TypeOK
      <4>4. Cardinality(Cancelled(s)) \in Nat /\ taken[s] \in Nat
        BY <3>1, FS_CardinalityType DEF IInv, TypeOK
      <4> QED BY <3>1, <4>2, <4>3, <4>4
    <3>3. CASE s # s0
      <4>1. Cancelled(s)' = Cancelled(s)
        BY <1>3, <2>1, <2>3, <3>3 DEF Cancelled, UncleanedOf, IInv, TypeOK
      <4>2. taken'[s] = taken[s]
        BY <2>1, <3>3 DEF IInv, TypeOK
      <4> QED BY <3>1, <4>1, <4>2
    <3> QED BY <3>2, <3>3
  <2>11. NoKillWithoutInterrupt'
    <3> SUFFICES ASSUME NEW t \in Task, interrupted[t] PROVE taken'[SessionOf(t)] > 0
      BY <1>2 DEF NoKillWithoutInterrupt, SessionOf
    <3>1. taken[SessionOf(t)] > 0 /\ SessionOf(t) \in Session
      BY DEF IInv, NoKillWithoutInterrupt, FreshInv, TypeOK, SessionOf, Frame
    <3> QED BY <1>1, <2>1, <3>1 DEF IInv, TypeOK
  <2> QED BY <2>4, <2>5, <2>6, <2>9, <2>10, <2>11 DEF IInv
<1> QED BY <1>4, <1>5

(* A command is over and drops the sender in the slot: its own, or that of  *)
(* the command which then takes its place among the cancelled ones.         *)
LEMMA EmptySlotKeeps ==
  ASSUME IInv, TypeOK', NEW u \in Task, pc[u] \in Uncleaned, EmptySlot(SessionOf(u)),
         NEW x \in {"replying", "done"}, Goto(u, x),
         UNCHANGED <<frame, interrupted, taken>>
  PROVE  IInv'
<1> DEFINE s0 == SessionOf(u)
           r == running[s0]
<1>1. s0 \in Session
  BY DEF IInv, TypeOK, SessionOf, Frame, Uncleaned
<1>2. /\ running' = [running EXCEPT ![s0] = None]
      /\ cancel' = [t \in Task |-> IF t = r THEN "dropped" ELSE cancel[t]]
      /\ pc' = [pc EXCEPT ![u] = x]
  BY DEF EmptySlot, Goto
<1>3. r # None => r \in UncleanedOf(s0) /\ cancel[r] = "armed"
  BY <1>1 DEF IInv, SlotInv
<1>4. cancel[u] = "armed" => r = u
  BY DEF IInv, HolderInv
<1>5. \A s \in Session : UncleanedOf(s)' = UncleanedOf(s) \ {u}
  BY <1>2 DEF UncleanedOf, Uncleaned, SessionOf, IInv, TypeOK
<1>6. r # u => taken[s0] > 0
  BY <1>4 DEF IInv, KillInv
<1>7. FreshInv'
  BY <1>2, <1>3, NoneAssumption DEF IInv, FreshInv, TypeOK, UncleanedOf, Uncleaned
<1>8. SlotInv'
  <2> SUFFICES ASSUME NEW s \in Session, running'[s] # None
               PROVE  running'[s] \in UncleanedOf(s)' /\ cancel'[running'[s]] = "armed"
    BY DEF SlotInv
  <2>1. s # s0 /\ running'[s] = running[s]
    BY <1>1, <1>2 DEF IInv, TypeOK
  <2>2. running[s] \in UncleanedOf(s) /\ cancel[running[s]] = "armed"
    BY <2>1 DEF IInv, SlotInv
  <2>3. running[s] # u /\ (r # None => running[s] # r)
    BY <1>3, <2>1, <2>2 DEF UncleanedOf
  <2>4. running[s] # r
    BY <2>1, <2>3
  <2> QED BY <1>2, <1>5, <2>1, <2>2, <2>3, <2>4 DEF UncleanedOf
<1>9. HolderInv'
  <2> SUFFICES ASSUME NEW t \in Task, pc'[t] \in Uncleaned, cancel'[t] = "armed"
               PROVE  running'[SessionOf(t)] = t
    BY DEF HolderInv, SessionOf
  <2>1. t # u /\ t # r /\ pc[t] \in Uncleaned /\ cancel[t] = "armed"
    BY <1>2 DEF IInv, TypeOK, Uncleaned
  <2>2. running[SessionOf(t)] = t
    BY <2>1 DEF IInv, HolderInv
  <2>3. SessionOf(t) # s0
    BY <2>1, <2>2
  <2> QED BY <1>2, <2>2, <2>3
<1>10. KillInv'
  <2> SUFFICES ASSUME NEW t \in Task, pc'[t] \in Uncleaned, cancel'[t] # "armed"
               PROVE  taken[SessionOf(t)] > 0
    BY DEF KillInv, SessionOf
  <2>1. t # u /\ pc[t] \in Uncleaned
    BY <1>2 DEF IInv, TypeOK, Uncleaned
  <2>2. CASE t = r
    BY <1>3, <1>6, <2>1, <2>2, NoneAssumption DEF UncleanedOf
  <2>3. CASE t # r
    BY <1>2, <2>1, <2>3 DEF IInv, KillInv
  <2> QED BY <2>2, <2>3
<1>11. CountInv'
  <2> SUFFICES ASSUME NEW s \in Session
               PROVE  IsFiniteSet(Cancelled(s)') /\ Cardinality(Cancelled(s)') <= taken[s]
    BY DEF CountInv
  <2>1. IsFiniteSet(Cancelled(s)) /\ Cardinality(Cancelled(s)) <= taken[s]
        /\ Cardinality(Cancelled(s)) \in Nat /\ taken[s] \in Nat
    BY FS_CardinalityType DEF IInv, CountInv, TypeOK
  <2>2. CASE s # s0 \/ r = u \/ r = None
    <3>1. Cancelled(s)' \in SUBSET Cancelled(s)
      BY <1>2, <1>3, <1>5, <2>2, NoneAssumption DEF Cancelled, UncleanedOf
    <3>2. IsFiniteSet(Cancelled(s)') /\ Cardinality(Cancelled(s)') <= Cardinality(Cancelled(s))
      BY <2>1, <3>1, FS_Subset
    <3>3. Cardinality(Cancelled(s)') \in Nat
      BY <3>2, FS_CardinalityType
    <3> QED BY <2>1, <3>2, <3>3
  <2>3. CASE s = s0 /\ r # u /\ r # None
    <3> DEFINE rest == Cancelled(s) \ {u}
    <3>1. u \in Cancelled(s)
      BY <1>1, <1>4, <2>3 DEF Cancelled, UncleanedOf
    <3>2. IsFiniteSet(rest) /\ Cardinality(rest) = Cardinality(Cancelled(s)) - 1
      BY <2>1, <3>1, FS_RemoveElement
    <3>3. Cancelled(s)' = rest \union {r}
      BY <1>2, <1>3, <1>5, <2>3 DEF Cancelled, UncleanedOf
    <3>4. r \notin rest
      BY <1>3, <2>3 DEF Cancelled
    <3>5. IsFiniteSet(Cancelled(s)') /\ Cardinality(Cancelled(s)') = Cardinality(rest) + 1
      BY <3>2, <3>3, <3>4, FS_AddElement
    <3> QED BY <2>1, <3>2, <3>5
  <2> QED BY <2>2, <2>3
<1>12. NoKillWithoutInterrupt'
  BY DEF IInv, NoKillWithoutInterrupt, SessionOf
<1> QED BY <1>7, <1>8, <1>9, <1>10, <1>11, <1>12 DEF IInv

LEMMA NextIInv == IInv /\ [Next]_vars => IInv'
<1> SUFFICES ASSUME IInv, [Next]_vars PROVE IInv'
  OBVIOUS
<1>0. TypeOK'
  BY TypeNext DEF IInv
<1> USE <1>0 DEF Goto, clientVars, taskVars, answerVars
<1>1. ASSUME NEW f \in Frame, SendFrame(f) \/ LoseFrame(f) PROVE IInv'
  BY <1>1, StaysInPlace DEF SendFrame, LoseFrame
<1>2. ASSUME NEW f \in Frame, ReceiveInterrupt(f) PROVE IInv'
  BY <1>2, InterruptKeeps
<1>3. ASSUME NEW t \in Task, NEW f \in Frame, ReceiveCommand(t, f) PROVE IInv'
  BY <1>3, ReceiveCommandKeeps
<1>4. ASSUME NEW t \in Task, TakeSlot(t) PROVE IInv'
  BY <1>4, TakeSlotKeeps
<1>5. ASSUME NEW t \in Task, RunEmpty(t) \/ RunCd(t) \/ RejectBusy(t) PROVE IInv'
  <2>1. pc[t] = "queued" /\ pc' = [pc EXCEPT ![t] = "done"]
        /\ UNCHANGED <<running, cancel, frame, taken, interrupted>>
    BY <1>5 DEF RunEmpty, RunCd, RejectBusy
  <2> QED BY <2>1, StaysInPlace DEF IInv, TypeOK, Uncleaned
<1>6. ASSUME NEW t \in Task, SpawnChild(t) \/ SpawnFails(t) \/ ChildExits(t) \/ ChildKilled(t)
      PROVE  IInv'
  <2>1. PICK y \in Uncleaned : pc[t] \in Uncleaned /\ pc' = [pc EXCEPT ![t] = y]
        /\ UNCHANGED <<running, cancel, frame, taken, interrupted>>
    BY <1>6 DEF SpawnChild, SpawnFails, ChildExits, ChildKilled, Uncleaned
  <2>2. \A v \in Task : pc'[v] \in {"free", "queued"} => pc[v] \in {"free", "queued"}
    BY <2>1 DEF IInv, TypeOK, Uncleaned
  <2>3. \A v \in Task : pc'[v] \in Uncleaned <=> pc[v] \in Uncleaned
    BY <2>1 DEF IInv, TypeOK
  <2> QED BY <2>1, <2>2, <2>3, StaysInPlace
<1>7. ASSUME NEW t \in Task, CancelChild(t) PROVE IInv'
  <2>1. pc[t] = "waiting" /\ pc' = [pc EXCEPT ![t] = "killing"] /\ cancel[t] # "armed"
        /\ interrupted' = [interrupted EXCEPT ![t] = TRUE]
        /\ UNCHANGED <<running, cancel, frame, taken>>
    BY <1>7 DEF CancelChild
  <2>2. \A v \in Task : pc'[v] \in Uncleaned <=> pc[v] \in Uncleaned
    BY <2>1 DEF IInv, TypeOK, Uncleaned
  <2>3. \A v \in Task : pc'[v] \in {"free", "queued"}
                         => pc[v] \in {"free", "queued"} /\ interrupted'[v] = interrupted[v]
    BY <2>1 DEF IInv, TypeOK
  <2>4. \A v \in Task : interrupted'[v]
                         => interrupted[v] \/ (pc[v] \in Uncleaned /\ cancel[v] # "armed")
    BY <2>1 DEF IInv, TypeOK, Uncleaned
  <2> QED BY <2>1, <2>2, <2>3, <2>4, StaysInPlace
<1>8. ASSUME NEW t \in Task, SendResult(t) PROVE IInv'
  <2>1. pc[t] = "replying" /\ pc' = [pc EXCEPT ![t] = "done"]
        /\ UNCHANGED <<running, cancel, frame, taken, interrupted>>
    BY <1>8 DEF SendResult
  <2> QED BY <2>1, StaysInPlace DEF IInv, TypeOK, Uncleaned
<1>9. ASSUME NEW t \in Task, CleanupFailed(t) \/ Cleanup(t) PROVE IInv'
  <2>1. pc[t] \in Uncleaned /\ EmptySlot(SessionOf(t)) /\ UNCHANGED <<frame, interrupted, taken>>
    BY <1>9 DEF CleanupFailed, Cleanup, Uncleaned
  <2>2. PICK x \in {"replying", "done"} : Goto(t, x)
    BY <1>9 DEF CleanupFailed, Cleanup
  <2> QED BY <2>1, <2>2, EmptySlotKeeps
<1>10. CASE UNCHANGED vars
  BY <1>10, StaysInPlace DEF vars
<1> QED
  BY <1>1, <1>2, <1>3, <1>4, <1>5, <1>6, <1>7, <1>8, <1>9, <1>10
  DEF Next, TaskStep, RunCommand

THEOREM Invariance == Spec => []IInv
BY InitIInv, NextIInv, PTL DEF Spec

(* Whoever fills the slot of a session is a task that has yet to run its    *)
(* `running = None', whatever is lost, repeated or reordered.               *)
THEOREM SlotSafe == Spec => []SlotHolderWillCleanUp
<1>1. IInv => SlotHolderWillCleanUp
  BY DEF IInv, SlotInv, SlotHolderWillCleanUp
<1> QED BY Invariance, <1>1, PTL

(* Only interrupted sessions lose commands to a kill.                       *)
THEOREM KillsInterrupted == Spec => []NoKillWithoutInterrupt
<1>1. IInv => NoKillWithoutInterrupt
  BY DEF IInv
<1> QED BY Invariance, <1>1, PTL

(* One command in the slot, and one more for each interrupt at most: the    *)
(* commands of a session that are under way at once.                        *)
THEOREM OverlapBounded == Spec => []OverlapBoundedByInterrupts
<1>1. IInv => OverlapBoundedByInterrupts
  <2> SUFFICES ASSUME IInv, NEW s \in Session
               PROVE  Cardinality(UncleanedOf(s)) <= taken[s] + 1
    BY DEF OverlapBoundedByInterrupts
  <2>1. IsFiniteSet(Cancelled(s)) /\ Cardinality(Cancelled(s)) <= taken[s]
        /\ Cardinality(Cancelled(s)) \in Nat /\ taken[s] \in Nat
    BY FS_CardinalityType DEF IInv, CountInv, TypeOK
  <2>2. UncleanedOf(s) \in SUBSET (Cancelled(s) \union {running[s]})
    BY DEF IInv, HolderInv, Cancelled, UncleanedOf
  <2>3. IsFiniteSet(Cancelled(s) \union {running[s]})
        /\ Cardinality(Cancelled(s) \union {running[s]}) <= Cardinality(Cancelled(s)) + 1
    BY <2>1, FS_AddElement
  <2>4. Cardinality(UncleanedOf(s)) <= Cardinality(Cancelled(s) \union {running[s]})
        /\ IsFiniteSet(UncleanedOf(s))
    BY <2>2, <2>3, FS_Subset
  <2>5. Cardinality(UncleanedOf(s)) \in Nat
        /\ Cardinality(Cancelled(s) \union {running[s]}) \in Nat
    BY <2>3, <2>4, FS_CardinalityType
  <2> QED BY <2>1, <2>3, <2>4, <2>5
<1> QED BY Invariance, <1>1, PTL
=============================================================================
