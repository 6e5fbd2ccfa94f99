--------------------------- MODULE HandshakeProofs ---------------------------
(***************************************************************************)
(* Theorems about Handshake, for every set of messages and every timeout   *)
(* (Spec, Init, Next and vars are its), and about the older flow of hello, *)
(* server-info and PROBE in BootstrapProbe, for any earlier calls and any  *)
(* number of probes.                                                       *)
(***************************************************************************)
EXTENDS Handshake, BootstrapProbe, TLAPS

(* The binding exists in the states after the confirm only, from which no   *)
(* transition leads back to one that takes a confirm.                       *)
BindingInv ==
  /\ state = "direct_established" => binding # None
  /\ binding # None => state \in {"direct_established", "closed"}

(* Every accepted message is on the record.                                 *)
SeenInv ==
  \A i \in DOMAIN accepted : Key(accepted[i]) \in seenNonces

(* The last timestamp of a sender is its newest.                            *)
NewestInv ==
  \A i \in DOMAIN accepted :
    /\ lastTs[accepted[i].sender] # None
    /\ accepted[i].ts <= lastTs[accepted[i].sender]

-----------------------------------------------------------------------------
(* Facts about one call of apply.                                           *)

(* A valid message is new to the record, which only grows.                  *)
LEMMA ValidatedFresh ==
  ASSUME NEW m \in Message, Validated(m)
  PROVE  /\ Key(m) \notin seenNonces
         /\ seenNonces' = seenNonces \union {Key(m)}
BY DEF Validated

(* Only an accepted message changes the state, the timers or the log.       *)
LEMMA ApplyCases ==
  ASSUME NEW m \in Message, Apply(m)
  PROVE  \/ Accept(m)
         \/ /\ UNCHANGED <<state, timers, binding, accepted, now>>
            /\ rejected' \in [message : Message, reason : Reason]
            /\ seenNonces' \in {seenNonces, seenNonces \union {Key(m)}}
            /\ \/ lastTs' = lastTs
               \/ ~IsStale(m) /\ lastTs' = [lastTs EXCEPT ![m.sender] = m.ts]
<1>1. CASE RejectEarly(m)
  <2>1. PICK r \in Reason : Reject(m, r)
    BY <1>1 DEF RejectEarly, Reason
  <2> QED BY <1>1, <2>1 DEF RejectEarly, Reject
<1>2. CASE RejectReplay(m)
  <2>1. Reject(m, "replay-nonce") /\ "replay-nonce" \in Reason
    BY <1>2 DEF RejectReplay, Reason
  <2> QED BY <1>2, <2>1 DEF RejectReplay, Reject
<1>3. CASE RejectStale(m)
  <2>1. Reject(m, "non-monotonic-timestamp") /\ "non-monotonic-timestamp" \in Reason
    BY <1>3 DEF RejectStale, Reason
  <2> QED BY <1>3, <2>1 DEF RejectStale, Reject
<1>4. CASE RejectInvalid(m)
  <2>1. PICK r \in Reason : Reject(m, r)
    BY <1>4 DEF RejectInvalid, Reason
  <2> QED BY <1>4, <2>1 DEF RejectInvalid, Reject, Validated
<1> QED BY <1>1, <1>2, <1>3, <1>4 DEF Apply

-----------------------------------------------------------------------------
(* Every variable keeps its type.                                           *)

LEMMA TypeInit == Init => TypeOK
BY OptionsAssumption DEF Init, TypeOK, State, Clock

LEMMA AcceptKeepsType ==
  ASSUME TypeOK, NEW m \in Message, Accept(m), BindingInv
  PROVE  TypeOK'
<1>1. m.ts \in Nat /\ m.sender \in Sender
  BY MessageAssumption DEF Sender
<1>2. state' \in State
  BY DEF Accept, Transition, State
<1>3. seenNonces' \subseteq {Key(k) : k \in Message} /\ lastTs' \in [Sender -> Nat \union {None}]
  BY <1>1 DEF Accept, Validated, TypeOK
<1>4. announcedAt' \in Clock \union {None} /\ probeStartedAt' \in Clock \union {None}
  BY DEF Accept, StartsTimer, StartsProbing, TypeOK
<1>5. binding' \in SessionBinding \union {None}
  <2>1. CASE m.type = "connect_confirm"
    BY <2>1 DEF Accept, Bound, SessionBinding
  <2>2. CASE m.type = "rekey"
    <3>1. state = "direct_established"
      BY <2>2 DEF Accept, Transition
    <3>2. binding \in SessionBinding
      BY <3>1 DEF BindingInv, TypeOK
    <3>3. binding' = [binding EXCEPT !.keys = SessionKeys(m)]
      BY <2>2 DEF Accept, Bound
    <3> QED BY <3>2, <3>3 DEF SessionBinding
  <2>3. CASE m.type \notin {"connect_confirm", "rekey"}
    BY <2>3 DEF Accept, Bound, TypeOK
  <2> QED BY <2>1, <2>2, <2>3
<1>6. accepted' \in Seq(Message)
  BY DEF Accept, TypeOK
<1> QED BY <1>2, <1>3, <1>4, <1>5, <1>6 DEF TypeOK, Accept

LEMMA TypeNext ==
  ASSUME TypeOK, BindingInv, [Next]_vars
  PROVE  TypeOK'
<1>1. ASSUME NEW m \in Message, Apply(m) PROVE TypeOK'
  <2>1. m.ts \in Nat /\ m.sender \in Sender
    BY MessageAssumption DEF Sender
  <2>2. CASE Accept(m)
    BY <2>2, AcceptKeepsType
  <2>3. CASE ~Accept(m)
    BY <1>1, <2>1, <2>3, ApplyCases DEF TypeOK, timers
  <2> QED BY <2>2, <2>3
<1>2. CASE OnTimeout
  BY <1>2 DEF OnTimeout, TypeOK, State, timers
<1>3. CASE Tick
  BY <1>3 DEF Tick, TypeOK, timers
<1>4. CASE UNCHANGED vars
  BY <1>4 DEF vars, timers, TypeOK
<1> QED BY <1>1, <1>2, <1>3, <1>4 DEF Next

(* What an accepted message does to the binding.                            *)
LEMMA AcceptBinding ==
  ASSUME TypeOK, BindingInv, NEW m \in Message, Accept(m)
  PROVE  /\ BindingInv'
         /\ binding # None => binding' # None /\ binding'.confirm = binding.confirm
<1>1. PICK t \in Transition : t[1] = state /\ t[2] = m.type /\ state' = t[3]
  BY DEF Accept
<1>2. CASE m.type = "connect_confirm"
  <2>1. state = "probing" /\ state' = "direct_established"
    BY <1>1, <1>2 DEF Transition
  <2>2. binding = None
    BY <2>1 DEF BindingInv
  <2>3. binding' \in SessionBinding
    BY <1>2 DEF Accept, Bound, SessionBinding
  <2> QED BY <2>1, <2>2, <2>3, NoneAssumption DEF BindingInv
<1>3. CASE m.type = "rekey"
  <2>1. state = "direct_established" /\ state' = "direct_established"
    BY <1>1, <1>3 DEF Transition
  <2>2. binding \in SessionBinding
    BY <2>1 DEF BindingInv, TypeOK
  <2>3. binding' = [binding EXCEPT !.keys = SessionKeys(m)]
    BY <1>3 DEF Accept, Bound
  <2>4. binding' \in SessionBinding /\ binding'.confirm = binding.confirm
    BY <2>2, <2>3 DEF SessionBinding
  <2> QED BY <2>1, <2>4, NoneAssumption DEF BindingInv
<1>4. CASE m.type \notin {"connect_confirm", "rekey"}
  <2>1. binding' = binding
    BY <1>4 DEF Accept, Bound
  <2>2. state \in {"direct_established", "closed"} => state = "direct_established" /\ state' = "closed"
    BY <1>1, <1>4 DEF Transition
  <2>3. state \notin {"direct_established", "closed"} => state' # "direct_established"
    BY <1>1, <1>4 DEF Transition
  <2> QED BY <2>1, <2>2, <2>3 DEF BindingInv
<1> QED BY <1>2, <1>3, <1>4

LEMMA BindingNext ==
  ASSUME TypeOK, BindingInv, [Next]_vars
  PROVE  /\ BindingInv'
         /\ binding # None => binding' # None /\ binding'.confirm = binding.confirm
<1>1. ASSUME NEW m \in Message, Apply(m)
      PROVE  /\ BindingInv'
             /\ binding # None => binding' # None /\ binding'.confirm = binding.confirm
  <2>1. CASE Accept(m)
    BY <2>1, AcceptBinding
  <2>2. CASE ~Accept(m)
    BY <1>1, <2>2, ApplyCases DEF BindingInv
  <2> QED BY <2>1, <2>2
<1>2. CASE OnTimeout
  BY <1>2 DEF OnTimeout, TimedOut, BindingInv
<1>3. CASE Tick
  BY <1>3 DEF Tick, BindingInv
<1>4. CASE UNCHANGED vars
  BY <1>4 DEF vars, BindingInv
<1> QED BY <1>1, <1>2, <1>3, <1>4 DEF Next

(* Every variable keeps its type, and a binding exists only where it may.   *)
LEMMA TypeAndBinding == Spec => [](TypeOK /\ BindingInv)
<1>1. Init => TypeOK /\ BindingInv
  BY TypeInit DEF Init, BindingInv
<1>2. TypeOK /\ BindingInv /\ [Next]_vars => (TypeOK /\ BindingInv)'
  BY TypeNext, BindingNext
<1> QED BY <1>1, <1>2, PTL DEF Spec

(* Every variable of the handshake machine keeps its type.                  *)
THEOREM TypeCorrect == Spec => []TypeOK
BY TypeAndBinding, PTL

(* A session binding stays with the confirm it was made of (handshake.ts,   *)
(* connect_confirm and rekey).                                              *)
THEOREM Pinned == Spec => BindingPinned
<1>1. TypeOK /\ BindingInv /\ [Next]_vars
        => [binding # None => binding' # None /\ binding'.confirm = binding.confirm]_vars
  BY BindingNext
<1> QED BY <1>1, TypeAndBinding, PTL DEF Spec, BindingPinned

-----------------------------------------------------------------------------
(* No message has its effect twice.                                         *)

LEMMA AppendDomain ==
  ASSUME NEW S, NEW s \in Seq(S), NEW x \in S, NEW i \in DOMAIN Append(s, x)
  PROVE  \/ i \in DOMAIN s /\ Append(s, x)[i] = s[i]
         \/ i \notin DOMAIN s /\ i = Len(s) + 1 /\ Append(s, x)[i] = x
OBVIOUS

LEMMA SeenNext ==
  ASSUME TypeOK, SeenInv, NoReplay, [Next]_vars
  PROVE  SeenInv' /\ NoReplay'
<1>1. ASSUME NEW m \in Message, Apply(m) PROVE SeenInv' /\ NoReplay'
  <2>1. CASE Accept(m)
    <3>1. accepted \in Seq(Message) /\ accepted' = Append(accepted, m)
      BY <2>1 DEF Accept, TypeOK
    <3>2. Key(m) \notin seenNonces /\ seenNonces' = seenNonces \union {Key(m)}
      BY <2>1, ValidatedFresh DEF Accept
    <3>3. SeenInv'
      BY <3>1, <3>2, AppendDomain DEF SeenInv
    <3>4. ASSUME NEW i \in DOMAIN accepted', NEW j \in DOMAIN accepted', i # j
          PROVE  Key(accepted'[i]) # Key(accepted'[j])
      <4>1. \A k \in DOMAIN accepted : Key(accepted[k]) # Key(m)
        BY <3>2 DEF SeenInv
      <4> QED BY <3>1, <3>4, <4>1, AppendDomain DEF NoReplay
    <3> QED BY <3>3, <3>4 DEF NoReplay
  <2>2. CASE ~Accept(m)
    BY <1>1, <2>2, ApplyCases DEF SeenInv, NoReplay
  <2> QED BY <2>1, <2>2
<1>2. CASE OnTimeout
  BY <1>2 DEF OnTimeout, SeenInv, NoReplay
<1>3. CASE Tick
  BY <1>3 DEF Tick, SeenInv, NoReplay
<1>4. CASE UNCHANGED vars
  BY <1>4 DEF vars, SeenInv, NoReplay
<1> QED BY <1>1, <1>2, <1>3, <1>4 DEF Next

(* No two accepted messages share a session, a sender and a nonce           *)
(* (validateCommon and seenNonces).                                         *)
THEOREM ReplaySafe == Spec => []NoReplay
<1>1. Init => SeenInv /\ NoReplay
  BY DEF Init, SeenInv, NoReplay
<1>2. TypeOK /\ SeenInv /\ NoReplay /\ [Next]_vars => (SeenInv /\ NoReplay)'
  BY SeenNext
<1> QED BY <1>1, <1>2, TypeCorrect, PTL DEF Spec

-----------------------------------------------------------------------------
(* Without skew, messages have their effect in the order they were sent.    *)

LEMMA NewestNext ==
  ASSUME Skew = 0, TypeOK, NewestInv, AcceptedInOrder, [Next]_vars
  PROVE  NewestInv' /\ AcceptedInOrder'
<1>1. ASSUME NEW m \in Message, Apply(m) PROVE NewestInv' /\ AcceptedInOrder'
  <2>1. m.ts \in Nat /\ m.sender \in Sender
    BY MessageAssumption DEF Sender
  <2>2. \A k \in DOMAIN accepted :
          accepted[k].ts \in Nat /\ lastTs[accepted[k].sender] \in Nat
    BY MessageAssumption DEF TypeOK, NewestInv, Sender
  <2>3. CASE Accept(m)
    <3>1. accepted \in Seq(Message) /\ accepted' = Append(accepted, m)
      BY <2>3 DEF Accept, TypeOK
    <3>2. ~IsStale(m) /\ lastTs' = [lastTs EXCEPT ![m.sender] = m.ts]
      BY <2>3 DEF Accept, Validated
    <3>3. \A k \in DOMAIN accepted :
            accepted[k].sender = m.sender => accepted[k].ts <= m.ts
      BY <2>1, <2>2, <3>2 DEF NewestInv, IsStale
    <3>4. NewestInv'
      <4>1. lastTs'[m.sender] = m.ts /\ m.ts # None /\ m.ts <= m.ts
        BY <2>1, <3>2, NoneAssumption DEF TypeOK
      <4>2. ASSUME NEW k \in DOMAIN accepted
            PROVE  /\ lastTs'[accepted[k].sender] # None
                   /\ accepted[k].ts <= lastTs'[accepted[k].sender]
        BY <2>1, <3>2, <3>3, <4>1 DEF NewestInv, TypeOK
      <4> QED BY <3>1, <4>1, <4>2, AppendDomain DEF NewestInv
    <3>5. ASSUME NEW i \in DOMAIN accepted', NEW j \in DOMAIN accepted', i < j,
                 accepted'[i].sender = accepted'[j].sender
          PROVE  accepted'[i].ts <= accepted'[j].ts
      <4>1. i \in DOMAIN accepted /\ accepted'[i] = accepted[i]
        BY <3>1, <3>5
      <4>2. CASE j \in DOMAIN accepted
        <5>1. accepted'[j] = accepted[j]
          BY <3>1, <4>2
        <5> QED BY <3>5, <4>1, <4>2, <5>1 DEF AcceptedInOrder
      <4>3. CASE j \notin DOMAIN accepted
        <5>1. accepted'[j] = m
          BY <3>1, <4>3
        <5> QED BY <3>3, <3>5, <4>1, <5>1
      <4> QED BY <4>2, <4>3
    <3> QED BY <3>4, <3>5 DEF AcceptedInOrder
  <2>4. CASE ~Accept(m)
    <3>1. accepted' = accepted
      BY <1>1, <2>4, ApplyCases
    <3>2. CASE lastTs' = lastTs
      BY <3>1, <3>2 DEF NewestInv, AcceptedInOrder
    <3>3. CASE ~IsStale(m) /\ lastTs' = [lastTs EXCEPT ![m.sender] = m.ts]
      <4>1. ASSUME NEW k \in DOMAIN accepted
            PROVE  /\ lastTs'[accepted[k].sender] # None
                   /\ accepted[k].ts <= lastTs'[accepted[k].sender]
        <5>1. CASE accepted[k].sender = m.sender
          <6>1. lastTs'[m.sender] = m.ts /\ m.ts # None
            BY <2>1, <3>3, NoneAssumption DEF TypeOK
          <6>2. accepted[k].ts <= m.ts
            BY <2>1, <2>2, <3>3, <5>1 DEF NewestInv, IsStale
          <6> QED BY <5>1, <6>1, <6>2
        <5>2. CASE accepted[k].sender # m.sender
          BY <3>3, <5>2 DEF NewestInv, TypeOK
        <5> QED BY <5>1, <5>2
      <4> QED BY <3>1, <4>1 DEF NewestInv, AcceptedInOrder
    <3> QED BY <1>1, <2>4, <3>2, <3>3, ApplyCases
  <2> QED BY <2>3, <2>4
<1>2. CASE OnTimeout
  BY <1>2 DEF OnTimeout, NewestInv, AcceptedInOrder
<1>3. CASE Tick
  BY <1>3 DEF Tick, NewestInv, AcceptedInOrder
<1>4. CASE UNCHANGED vars
  BY <1>4 DEF vars, NewestInv, AcceptedInOrder
<1> QED BY <1>1, <1>2, <1>3, <1>4 DEF Next

(* With maxMonotonicSkewMs 0, a sender's messages have their effect in the  *)
(* order of their timestamps (validateCommon and lastTsBySender).           *)
THEOREM InOrder ==
  ASSUME Skew = 0
  PROVE  Spec => []AcceptedInOrder
<1>1. Init => NewestInv /\ AcceptedInOrder
  BY DEF Init, NewestInv, AcceptedInOrder
<1>2. TypeOK /\ NewestInv /\ AcceptedInOrder /\ [Next]_vars
        => (NewestInv /\ AcceptedInOrder)'
  BY NewestNext
<1> QED BY <1>1, <1>2, TypeCorrect, PTL DEF Spec

-----------------------------------------------------------------------------
(* The invariant of a call of the bootstrap client or the app.             *)

(* An answer to this call is in the relay only if the server was asked.     *)
RelayInv == \A r \in relay : r.nonce = This => asked

(* A call that has gone on after the hello has taken an answer to it.       *)
InfoInv ==
  at \in {"waiting", "probing", "probed", "writing", "pinging", "echo"} =>
    info.nonce = This /\ asked

(* An ack as JSON and a fips_status come from a server that heard a probe,  *)
(* and without such an ack connect mode writes nothing.                     *)
HeardInv ==
  /\ FromServer("PROBE_ACK") \in net => heard
  /\ FromServer("fips_status") \in net => HasSession
  /\ at = "writing" /\ program = "connect" => heard

ProbeInv ==
  ProbeTypeOK /\ RelayInv /\ InfoInv /\ HeardInv /\ HandoffIsOfThisCall /\ OkMeansSession

-----------------------------------------------------------------------------
(* It holds at first, and every step preserves it.                        *)

LEMMA ReplyType ==
  ASSUME NEW n \in Old \union {This}, NEW b \in BOOLEAN
  PROVE  Reply(n, b) \in Replies
BY DEF Replies

LEMMA ProbeInitInv == ProbeInit => ProbeInv
<1> SUFFICES ASSUME ProbeInit PROVE ProbeInv
  OBVIOUS
<1>1. ASSUME NEW r \in relay PROVE \E n \in Old : r = Reply(n, TRUE)
  BY DEF ProbeInit
<1>2. RelayInv
  BY <1>1, NonceAssumption DEF RelayInv, Reply
<1>3. ProbeTypeOK
  <2>1. relay \subseteq Replies
    <3>1. TRUE \in BOOLEAN
      OBVIOUS
    <3> QED BY <1>1, <3>1, ReplyType, Zenon
  <2>2. at \in Stages /\ probes \in 0 .. MaxProbes
    BY MaxProbesAssumption DEF ProbeInit, Stages
  <2>3. asked \in BOOLEAN /\ heard \in BOOLEAN /\ ok \in BOOLEAN
    BY Zenon DEF ProbeInit
  <2>4. /\ program \in {"bootstrap", "connect", "mobile", "echo"} /\ acks \in {"binary", "json"}
        /\ info \in Replies \union {Nothing} /\ net \subseteq Packet
        /\ handoff \in Old \union {This, Nothing}
    BY DEF ProbeInit
  <2> QED BY <2>1, <2>2, <2>3, <2>4, Zenon DEF ProbeTypeOK
<1> QED BY <1>2, <1>3 DEF ProbeInit, ProbeInv, InfoInv, HeardInv, HandoffIsOfThisCall, OkMeansSession

(* Types, of the steps of the call and of the packets.                      *)
LEMMA StepTypes ==
  ASSUME ProbeTypeOK, InfoInv, Step
  PROVE  ProbeTypeOK'
<1> USE DEF ProbeTypeOK, serverVars
<1>1. CASE SendHello \/ HelloFails \/ WindowEnds \/ EchoTimesOut \/ SendFails \/ WaitForStart
           \/ NothingHeard \/ GoOnWithoutAck
  BY <1>1 DEF SendHello, HelloFails, WindowEnds, EchoTimesOut, SendFails, WaitForStart,
              NothingHeard, GoOnWithoutAck, Fail, Stages
<1>2. ASSUME NEW r \in relay, ReceiveReply(r) PROVE ProbeTypeOK'
  BY <1>2 DEF ReceiveReply, AfterReply, Stages
<1>3. ASSUME NEW t \in {"PROBE", "ping"}, Send(t) PROVE net' \subseteq Packet
  BY <1>3 DEF Send, Packet
<1>4. CASE SendProbe
  <2>1. probes' \in 0 .. MaxProbes
    BY <1>4, MaxProbesAssumption DEF SendProbe
  <2>2. at' \in Stages /\ net' \subseteq Packet
    BY <1>3, <1>4 DEF SendProbe, Stages
  <2> QED BY <1>4, <2>1, <2>2 DEF SendProbe
<1>5. CASE WriteHandoff
  <2>1. handoff' \in {handoff, This} /\ at' \in Stages
    BY <1>5 DEF WriteHandoff, InfoInv, Stages
  <2> QED BY <1>5, <2>1 DEF WriteHandoff
<1>6. CASE SendPing
  <2>1. at' \in Stages /\ net' \subseteq Packet
    BY <1>3, <1>6 DEF SendPing, Stages
  <2> QED BY <1>6, <2>1 DEF SendPing
<1> QED BY <1>1, <1>2, <1>4, <1>5, <1>6 DEF Step

LEMMA PacketTypes ==
  ASSUME ProbeTypeOK, NEW p \in net,
         ReceiveInClient(p) \/ ReceiveInApp(p) \/ ReceiveEcho(p)
         \/ ReceiveProbe(p) \/ ReceivePing(p) \/ Lose(p)
  PROVE  ProbeTypeOK'
<1> USE DEF ProbeTypeOK, serverVars
<1>1. CASE ReceiveProbe(p)
  <2>1. \A t \in {"PROBE_ACK", "ack", "fips_status"} : FromServer(t) \in Packet
    BY DEF FromServer, Packet
  <2>2. net' \subseteq Packet
    BY <1>1, <2>1 DEF ReceiveProbe
  <2> QED BY <1>1, <2>2 DEF ReceiveProbe
<1>2. CASE ~ReceiveProbe(p)
  <2>1. net' \subseteq net
    BY <1>2 DEF ReceiveInClient, ReceiveInApp, ReceiveEcho, ReceivePing, Lose, Consume
  <2>2. at' \in Stages /\ ok' \in BOOLEAN
    <3>1. CASE ReceiveInClient(p) \/ ReceiveInApp(p)
      BY <3>1 DEF ReceiveInClient, ReceiveInApp, Stages
    <3>2. CASE ReceiveEcho(p)
      <4>1. at' \in {at, "done"}
        BY <3>2 DEF ReceiveEcho
      <4>2. ok' = ok \/ ok' = TRUE
        BY <3>2 DEF ReceiveEcho
      <4>3. at' \in Stages
        BY <4>1 DEF Stages
      <4> QED BY <4>2, <4>3, Zenon
    <3>3. CASE ReceivePing(p) \/ Lose(p)
      BY <3>3 DEF ReceivePing, Lose
    <3> QED BY <1>2, <3>1, <3>2, <3>3
  <2>3. UNCHANGED <<program, acks, asked, heard, relay, info, probes, handoff>>
    BY <1>2 DEF ReceiveInClient, ReceiveInApp, ReceiveEcho, ReceivePing, Lose
  <2> QED BY <2>1, <2>2, <2>3
<1> QED BY <1>1, <1>2

LEMMA HelloTypes == ProbeTypeOK /\ ServerReadsHello => ProbeTypeOK'
<1> SUFFICES ASSUME ProbeTypeOK, ServerReadsHello PROVE ProbeTypeOK'
  OBVIOUS
<1>1. Reply(This, WantsConnect) \in Replies
  <2>1. WantsConnect \in BOOLEAN
    BY DEF WantsConnect
  <2> QED BY <2>1, ReplyType
<1> QED BY <1>1 DEF ProbeTypeOK, ServerReadsHello

(* The steps of the call send no acks, and take an answer to it before     *)
(* anything else.                                                          *)
LEMMA StepInv ==
  ASSUME ProbeInv, Step
  PROVE  ProbeInv'
<1>1. ProbeTypeOK'
  BY StepTypes DEF ProbeInv
<1>2. UNCHANGED <<program, acks, asked, heard, relay, ok>>
  BY DEF Step, SendHello, HelloFails, ReceiveReply, WaitForStart, SendProbe, NothingHeard,
         WindowEnds, WriteHandoff, GoOnWithoutAck, SendPing, EchoTimesOut, SendFails, Fail, serverVars
<1>3. RelayInv' /\ OkMeansSession'
  BY <1>2 DEF ProbeInv, RelayInv, OkMeansSession, HasSession
<1>4. \A t \in {"PROBE_ACK", "fips_status"} : FromServer(t) \in net' => FromServer(t) \in net
  BY DEF Step, SendHello, HelloFails, ReceiveReply, WaitForStart, SendProbe, NothingHeard,
         WindowEnds, WriteHandoff, GoOnWithoutAck, SendPing, EchoTimesOut, SendFails, Fail,
         FromServer, Send
<1>5. InfoInv' /\ (at' = "writing" /\ program = "connect" => heard) /\ HandoffIsOfThisCall'
  <2> USE DEF ProbeInv, InfoInv, HeardInv, HandoffIsOfThisCall
  <2>1. ASSUME NEW r \in relay, ReceiveReply(r) PROVE <1>5!:
    BY <1>2, <2>1 DEF ReceiveReply, ValidateFor, AcceptedByApp, AfterReply, RelayInv, ProbeTypeOK
  <2>2. CASE WriteHandoff
    BY <1>2, <2>2 DEF WriteHandoff
  <2>3. CASE WaitForStart \/ SendProbe \/ NothingHeard \/ WindowEnds
             \/ GoOnWithoutAck \/ SendPing \/ EchoTimesOut \/ SendFails \/ SendHello \/ HelloFails
    BY <1>2, <2>3 DEF WaitForStart, SendProbe, NothingHeard, WindowEnds, GoOnWithoutAck, SendPing,
                      EchoTimesOut, SendFails, SendHello, HelloFails, Fail
  <2> QED BY <2>1, <2>2, <2>3 DEF Step
<1>6. HeardInv'
  BY <1>2, <1>4, <1>5 DEF ProbeInv, HeardInv, HasSession
<1> QED BY <1>1, <1>3, <1>5, <1>6 DEF ProbeInv

(* A packet of the server's moves the call on, or comes to be.             *)
LEMMA PacketInv ==
  ASSUME ProbeInv, NEW p \in net,
         ReceiveInClient(p) \/ ReceiveInApp(p) \/ ReceiveEcho(p)
         \/ ReceiveProbe(p) \/ ReceivePing(p) \/ Lose(p)
  PROVE  ProbeInv'
<1>1. ProbeTypeOK'
  BY PacketTypes DEF ProbeInv
<1>2. UNCHANGED <<program, acks, asked, relay, info, handoff>>
  BY DEF ReceiveInClient, ReceiveInApp, ReceiveEcho, ReceiveProbe, ReceivePing, Lose, serverVars
<1>3. p \in Packet
  BY DEF ProbeInv, ProbeTypeOK
<1>4. RelayInv'
  BY <1>2 DEF ProbeInv, RelayInv
<1>5. heard => heard'
  BY DEF ReceiveInClient, ReceiveInApp, ReceiveEcho, ReceiveProbe, ReceivePing, Lose, serverVars
<1>6. HandoffIsOfThisCall'
  BY <1>2, <1>5 DEF ProbeInv, HandoffIsOfThisCall
<1>7. CASE ReceiveProbe(p)
  <2>1. heard' /\ UNCHANGED <<at, ok>>
    BY <1>7 DEF ReceiveProbe
  <2>2. FromServer("fips_status") \in net' => acks = "binary"
    BY <1>7 DEF ProbeInv, ProbeTypeOK, HeardInv, HasSession, ReceiveProbe, FromServer
  <2> QED BY <1>1, <1>2, <1>4, <1>6, <2>1, <2>2
          DEF ProbeInv, InfoInv, HeardInv, OkMeansSession, HasSession
<1>8. CASE ~ReceiveProbe(p)
  <2>1. net' \subseteq net /\ UNCHANGED heard
    BY <1>8 DEF ReceiveInClient, ReceiveInApp, ReceiveEcho, ReceivePing, Lose, Consume, serverVars
  <2>2. p.to = "client" => p = FromServer(p.t)
    BY <1>3 DEF Packet, FromServer
  <2>3. at' = "writing" => at = "writing" \/ (p = FromServer("PROBE_ACK") /\ at = "probed")
    BY <1>8, <2>2 DEF ReceiveInClient, ReceiveInApp, ReceiveEcho, ReceivePing, Lose
  <2>4. ok' => ok \/ (p = FromServer("fips_status") /\ at = "echo")
    BY <1>8, <2>2 DEF ReceiveInClient, ReceiveInApp, ReceiveEcho, ReceivePing, Lose, IsEcho
  <2>5. at' = at \/ at \in {"probed", "echo"}
    BY <1>8 DEF ReceiveInClient, ReceiveInApp, ReceiveEcho, ReceivePing, Lose
  <2>6. InfoInv'
    BY <1>2, <2>5 DEF ProbeInv, InfoInv
  <2>7. HeardInv' /\ OkMeansSession'
    BY <1>2, <2>1, <2>3, <2>4 DEF ProbeInv, InfoInv, HeardInv, OkMeansSession, HasSession
  <2> QED BY <1>1, <1>4, <1>6, <2>6, <2>7 DEF ProbeInv
<1> QED BY <1>7, <1>8

-----------------------------------------------------------------------------
(* The theorems about such a call.                                         *)

(* The file and the success of a call are about this call, on a server     *)
(* that heard it: in every state, for any earlier answers and any network. *)
THEOREM ProbeInductive == ProbeSpec => []ProbeInv
<1>1. ProbeInv /\ [ProbeNext]_probeVars => ProbeInv'
  <2> SUFFICES ASSUME ProbeInv, [ProbeNext]_probeVars PROVE ProbeInv'
    OBVIOUS
  <2>1. CASE ServerReadsHello
    <3>1. ProbeTypeOK'
      BY <2>1, HelloTypes DEF ProbeInv
    <3> QED BY <2>1, <3>1 DEF ServerReadsHello, ProbeInv, RelayInv, InfoInv, HeardInv,
                              HandoffIsOfThisCall, OkMeansSession, HasSession
  <2>2. CASE UNCHANGED probeVars
    BY <2>2 DEF probeVars, serverVars, ProbeInv, ProbeTypeOK, RelayInv, InfoInv, HeardInv,
                HandoffIsOfThisCall, OkMeansSession, HasSession
  <2> QED BY <2>1, <2>2, StepInv, PacketInv DEF ProbeNext
<1> QED BY <1>1, ProbeInitInv, PTL DEF ProbeSpec

(* Every variable of a call keeps its type.                                *)
THEOREM ProbeTypeCorrect == ProbeSpec => []ProbeTypeOK
<1>1. ProbeInv => ProbeTypeOK
  BY DEF ProbeInv
<1> QED BY <1>1, ProbeInductive, PTL

(* The handoff file is about this call, whatever answers to earlier ones   *)
(* the relay holds; in connect mode the server has heard a probe.          *)
THEOREM HandoffSafe == ProbeSpec => []HandoffIsOfThisCall
<1>1. ProbeInv => HandoffIsOfThisCall
  BY DEF ProbeInv
<1> QED BY <1>1, ProbeInductive, PTL

(* What the app calls a round trip is a session its probes opened.         *)
THEOREM OkSafe == ProbeSpec => []OkMeansSession
<1>1. ProbeInv => OkMeansSession
  BY DEF ProbeInv
<1> QED BY <1>1, ProbeInductive, PTL
=============================================================================
