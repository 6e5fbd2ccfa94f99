------------------------------ MODULE Bootstrap ------------------------------
(***************************************************************************)
(* What the rendezvous promises, without messages, retries or fallbacks.   *)
(*                                                                         *)
(* An attempt to connect ends in at most one session.  The responder       *)
(* agrees to sessions of attempts that were begun; an initiator uses only  *)
(* a session the responder has agreed to, only while the attempt it        *)
(* belongs to is still being made, and an attempt given up stays given up. *)
(***************************************************************************)
CONSTANTS Client, Attempt, Owner, None

Sid == Attempt \X {"offer", "hello"}

VARIABLES
  stage,   \* of each attempt
  agreed,  \* sessions the responder has agreed to
  using    \* the session each client uses

vars == <<stage, agreed, using>>

Init ==
  /\ stage = [a \in Attempt |-> "idle"]
  /\ agreed = {}
  /\ using = [c \in Client |-> None]

Begin(a) ==
  /\ stage[a] = "idle"
  /\ stage' = [stage EXCEPT ![a] = "trying"]
  /\ UNCHANGED <<agreed, using>>

Agree(s) ==
  /\ stage[s[1]] # "idle"
  /\ agreed' = agreed \union {s}
  /\ UNCHANGED <<stage, using>>

Activate(s) ==
  /\ stage[s[1]] = "trying"
  /\ s \in agreed
  /\ stage' = [stage EXCEPT ![s[1]] = "active"]
  /\ using' = [using EXCEPT ![Owner[s[1]]] = s]
  /\ UNCHANGED agreed

GiveUp(a) ==
  /\ stage[a] = "trying"
  /\ stage' = [stage EXCEPT ![a] = "failed"]
  /\ UNCHANGED <<agreed, using>>

Next ==
  \/ \E a \in Attempt : Begin(a) \/ GiveUp(a)
  \/ \E s \in Sid : Agree(s) \/ Activate(s)

Spec == Init /\ [][Next]_vars
=============================================================================
