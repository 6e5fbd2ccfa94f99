------------------------------ MODULE Handshake ------------------------------
(***************************************************************************)
(* HandshakeMachine of src/handshake.ts: one peer's view of a bootstrap     *)
(* handshake, driven by signed signalling messages, which relays may        *)
(* repeat, reorder and delay, and by the caller's clock.                    *)
(***************************************************************************)
EXTENDS Integers, Sequences

CONSTANTS
  Self,          \* opts.identity
  Message,       \* messages that may be passed to apply, any number of times
  AckTimeout,    \* opts.ackTimeoutMs
  ProbeTimeout,  \* opts.probeTimeoutMs
  Skew,          \* opts.maxMonotonicSkewMs
  Horizon,       \* bound: no message comes after this time
  None           \* an undefined field

MessageType == {"bootstrap_announce", "bootstrap_ack", "connect_probe",
                "connect_confirm", "rekey", "retry_hint", "abort"}

ASSUME MessageAssumption ==
  \A m \in Message :
    /\ DOMAIN m = {"type", "sender", "sid", "nonce", "ts", "expiry"}
    /\ m.type \in MessageType
    /\ m.ts \in Nat
    /\ m.expiry \in Nat
ASSUME OptionsAssumption ==
  AckTimeout \in Nat /\ ProbeTimeout \in Nat /\ Skew \in Nat /\ Horizon \in Nat
Sender == {m.sender : m \in Message}
Key(m) == <<m.sid, m.sender, m.nonce>>
SessionKeys(m) == <<m.sid, m.nonce>>

(* A session binding: the confirm it was made of, and its keys.            *)
SessionBinding == [confirm : Message, keys : {SessionKeys(m) : m \in Message}]

ASSUME NoneAssumption == None \notin Nat \union SessionBinding

State == {"idle", "announced", "awaiting_ack", "acknowledged", "probing",
          "direct_established", "fallback_pending", "fallback_established",
          "failed", "closed"}

Reason == {"expired", "loopback-sender", "replay-nonce", "non-monotonic-timestamp",
           "invalid-transition", "terminal-state"}

(* The cases of apply that accept: state, message type, next state.        *)
Transition == {
  <<"idle", "bootstrap_announce", "awaiting_ack">>,
  <<"awaiting_ack", "bootstrap_ack", "acknowledged">>,
  <<"awaiting_ack", "retry_hint", "announced">>,
  <<"announced", "bootstrap_announce", "awaiting_ack">>,
  <<"acknowledged", "connect_probe", "probing">>,
  <<"acknowledged", "abort", "failed">>,
  <<"probing", "connect_probe", "probing">>,
  <<"probing", "connect_confirm", "direct_established">>,
  <<"direct_established", "rekey", "direct_established">>,
  <<"direct_established", "abort", "closed">>,
  <<"fallback_pending", "retry_hint", "announced">>,
  <<"fallback_pending", "bootstrap_ack", "fallback_established">>,
  <<"fallback_established", "abort", "closed">>}

VARIABLES
  state,
  seenNonces,
  lastTs,          \* lastTsBySender
  announcedAt,
  probeStartedAt,
  binding,         \* sessionBinding
  accepted,        \* the accepted messages of the log
  rejected,        \* what the last call returned when it rejected, or None
  now              \* the caller's clock, which never goes back

timers == <<announcedAt, probeStartedAt>>
vars == <<state, seenNonces, lastTs, timers, binding, accepted, rejected, now>>

Clock == 0 .. Horizon + AckTimeout + ProbeTimeout + 1

TypeOK ==
  /\ state \in State
  /\ seenNonces \subseteq {Key(m) : m \in Message}
  /\ lastTs \in [Sender -> Nat \union {None}]
  /\ announcedAt \in Clock \union {None}
  /\ probeStartedAt \in Clock \union {None}
  /\ binding \in SessionBinding \union {None}
  /\ accepted \in Seq(Message)
  /\ rejected \in {None} \union [message : Message, reason : Reason]
  /\ now \in Clock

Init ==
  /\ state = "idle"
  /\ seenNonces = {}
  /\ lastTs = [s \in Sender |-> None]
  /\ announcedAt = None
  /\ probeStartedAt = None
  /\ binding = None
  /\ accepted = <<>>
  /\ rejected = None
  /\ now = 0

-----------------------------------------------------------------------------
(* apply: validateCommon, then the switch.                                 *)

Reject(m, reason) ==
  /\ rejected' = [message |-> m, reason |-> reason]
  /\ UNCHANGED <<state, timers, binding, accepted, now>>

InTime(m) == m.expiry >= now /\ m.sender # Self
IsStale(m) == lastTs[m.sender] # None /\ m.ts + Skew < lastTs[m.sender]

(* Expired, or an echo of the machine's own message.                       *)
RejectEarly(m) ==
  /\ ~InTime(m)
  /\ Reject(m, IF m.expiry < now THEN "expired" ELSE "loopback-sender")
  /\ UNCHANGED <<seenNonces, lastTs>>

RejectReplay(m) ==
  /\ InTime(m)
  /\ Key(m) \in seenNonces
  /\ Reject(m, "replay-nonce")
  /\ UNCHANGED <<seenNonces, lastTs>>

(* Mutant of RejectStale: the timestamp is recorded first.                 *)
RejectStaleButRecord(m) ==
  /\ InTime(m)
  /\ Key(m) \notin seenNonces
  /\ IsStale(m)
  /\ seenNonces' = seenNonces \union {Key(m)}
  /\ lastTs' = [lastTs EXCEPT ![m.sender] = m.ts]
  /\ Reject(m, "non-monotonic-timestamp")

(* The nonce is recorded before the timestamp is looked at.                *)
RejectStale(m) ==
  /\ InTime(m)
  /\ Key(m) \notin seenNonces
  /\ IsStale(m)
  /\ seenNonces' = seenNonces \union {Key(m)}
  /\ Reject(m, "non-monotonic-timestamp")
  /\ UNCHANGED lastTs

(* Mutant of Validated: the nonce is not recorded.                         *)
ValidatedUnrecorded(m) ==
  /\ InTime(m)
  /\ Key(m) \notin seenNonces
  /\ ~IsStale(m)
  /\ lastTs' = [lastTs EXCEPT ![m.sender] = m.ts]
  /\ UNCHANGED seenNonces

Validated(m) ==
  /\ InTime(m)
  /\ Key(m) \notin seenNonces
  /\ ~IsStale(m)
  /\ seenNonces' = seenNonces \union {Key(m)}
  /\ lastTs' = [lastTs EXCEPT ![m.sender] = m.ts]

(* No case, or a terminal state: the message is spent all the same.        *)
RejectInvalid(m) ==
  /\ Validated(m)
  /\ ~ \E t \in Transition : t[1] = state /\ t[2] = m.type
  /\ Reject(m, IF state \in {"failed", "closed"} THEN "terminal-state"
               ELSE "invalid-transition")

StartsTimer(m, at) == IF m.type = "bootstrap_announce" THEN now ELSE at
StartsProbing(at) == IF state = "acknowledged" /\ state' = "probing" THEN now ELSE at

(* Mutant of Bound: a rekey binds anew.                                    *)
BoundByLast(m) ==
  IF m.type \in {"connect_confirm", "rekey"}
  THEN [confirm |-> m, keys |-> SessionKeys(m)] ELSE binding

Bound(m) ==
  CASE m.type = "connect_confirm" -> [confirm |-> m, keys |-> SessionKeys(m)]
    [] m.type = "rekey" -> [binding EXCEPT !.keys = SessionKeys(m)]
    [] OTHER -> binding

Accept(m) ==
  /\ Validated(m)
  /\ \E t \in Transition : t[1] = state /\ t[2] = m.type /\ state' = t[3]
  /\ announcedAt' = StartsTimer(m, announcedAt)
  /\ probeStartedAt' = StartsProbing(probeStartedAt)
  /\ binding' = Bound(m)
  /\ accepted' = Append(accepted, m)
  /\ rejected' = None
  /\ UNCHANGED now

Apply(m) ==
  /\ now <= Horizon
  /\ RejectEarly(m) \/ RejectReplay(m) \/ RejectStale(m) \/ RejectInvalid(m) \/ Accept(m)

-----------------------------------------------------------------------------
TimedOut ==
  \/ state = "awaiting_ack" /\ now - announcedAt > AckTimeout
  \/ state = "probing" /\ now - probeStartedAt > ProbeTimeout

(* Mutant of OnTimeout: only the acknowledgement is timed.                 *)
OnAckTimeout ==
  /\ state = "awaiting_ack"
  /\ now - announcedAt > AckTimeout
  /\ state' = "fallback_pending"
  /\ UNCHANGED <<seenNonces, lastTs, timers, binding, accepted, rejected, now>>

OnTimeout ==
  /\ TimedOut
  /\ state' = "fallback_pending"
  /\ UNCHANGED <<seenNonces, lastTs, timers, binding, accepted, rejected, now>>

Tick ==
  /\ now + 1 \in Clock
  /\ now' = now + 1
  /\ UNCHANGED <<state, seenNonces, lastTs, timers, binding, accepted, rejected>>

Next == (\E m \in Message : Apply(m)) \/ OnTimeout \/ Tick

Spec == Init /\ [][Next]_vars

(* Time goes on and the caller calls onTimeout.                            *)
FairSpec == Spec /\ WF_vars(Tick) /\ WF_vars(OnTimeout)

-----------------------------------------------------------------------------
(* Properties.                                                             *)

(* No message is acted upon twice, nor two that share a nonce, whatever is *)
(* repeated and whatever state the machine was in when it saw the first    *)
(* (seenNonces of validateCommon).                                         *)
NoReplay ==
  \A i, j \in DOMAIN accepted :
    i # j => Key(accepted[i]) # Key(accepted[j])

(* Without skew, what a sender's messages do happens in the order they     *)
(* were sent, although rejected messages come in between and count         *)
(* (lastTsBySender of validateCommon).                                     *)
AcceptedInOrder ==
  \A i, j \in DOMAIN accepted :
    i < j /\ accepted[i].sender = accepted[j].sender
      => accepted[i].ts <= accepted[j].ts

(* Once made, a session binding stays with the peer, parameters and        *)
(* endpoints of the confirm it was made of; a rekey only changes the keys, *)
(* and no path leads back to a second confirm (sessionBinding).            *)
BindingPinned ==
  [][binding # None => binding' # None /\ binding'.confirm = binding.confirm]_vars

(* A handshake that waits for an acknowledgement or probes does not do so  *)
(* for ever; repeated probes do not extend the wait (onTimeout).           *)
TimedStatesEnd ==
  \A s \in {"awaiting_ack", "probing"} : state = s ~> state # s
=============================================================================
