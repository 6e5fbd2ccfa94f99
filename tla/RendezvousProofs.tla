-------------------------- MODULE RendezvousProofs --------------------------
(* Proofs about Rendezvous, for every set of clients, attempts and paths.   *)
EXTENDS Rendezvous, TLAPS

(* Sessions are pairs, and their parts are what the constants say.          *)
LEMMA SidParts ==
  ASSUME NEW s \in Sid
  PROVE  /\ AttemptOf(s) \in Attempt
         /\ ClientOf(s) \in Client
         /\ PunchPhase(s) \in Punching
BY OwnerAssumption DEF Sid, AttemptOf, ClientOf, PunchPhase, Punching

LEMMA AttemptSids ==
  ASSUME NEW a \in Attempt
  PROVE  /\ OfferSid(a) \in Sid /\ AttemptOf(OfferSid(a)) = a
         /\ HelloSid(a) \in Sid /\ AttemptOf(HelloSid(a)) = a
BY DEF Sid, OfferSid, HelloSid, AttemptOf

(* Every variable keeps its type.                                           *)
LEMMA TypeInit == Init => TypeOK
BY DEF Init, TypeOK, Phase

LEMMA TypeStep == TypeOK /\ [Next]_vars => TypeOK'
<1> SUFFICES ASSUME TypeOK, [Next]_vars PROVE TypeOK'
  OBVIOUS
<1> USE DEF TypeOK
<1>1. CASE UNCHANGED vars
  BY <1>1 DEF vars, clientVars, serverVars, processVars
<1>2. ASSUME NEW a \in Attempt, ClientStep(a) PROVE TypeOK'
  <2>1. DmOf("offer", a) \in Dm /\ DmOf("hello", a) \in Dm
    BY DEF DmOf, Dm
  <2>2. \A p \in Phase : GoTo(a, p) => phase' \in [Attempt -> Phase]
    BY DEF GoTo
  <2>3. {"offering", "helloing", "failed", "active", "offerPunch", "helloPunch"} \subseteq Phase
    BY DEF Phase, Punching
  <2>4. CASE Begin(a)
    BY <2>1, <2>2, <2>3, <2>4 DEF Begin, serverVars, processVars
  <2>5. ASSUME FallBackToHello(a), pendingAnswer' \subseteq Attempt PROVE TypeOK'
    BY <2>1, <2>2, <2>3, <2>5 DEF FallBackToHello, serverVars, processVars
  <2>6. CASE OfferTimeout(a) \/ OfferSendFails(a)
    BY <2>5, <2>6 DEF OfferTimeout, OfferSendFails
  <2>7. CASE HelloTimeout(a) \/ HelloSendFails(a) \/ PunchTimeout(a)
    BY <2>2, <2>3, <2>7 DEF HelloTimeout, HelloSendFails, PunchTimeout, serverVars, processVars
  <2>8. CASE AnswerAccepted(a)
    <3>1. OfferSid(a) \in Sid /\ PunchPhase(OfferSid(a)) \in Phase /\ AttemptOf(OfferSid(a)) = a
      BY AttemptSids, SidParts DEF Phase
    <3>2. QED
      BY <2>2, <2>8, <3>1 DEF AnswerAccepted, TakeAnswer, StartPunchAndWait, serverVars, processVars
  <2>9. CASE AnswerRejected(a) \/ AnswerNotPunchable(a)
    BY <2>2, <2>3, <2>9 DEF AnswerRejected, AnswerNotPunchable, TakeAnswer, serverVars, processVars
  <2>10. ASSUME NEW type, AnswerInvalid(a, type) \/ AnswerTooLate(a, type) PROVE TypeOK'
    BY <2>5, <2>10 DEF AnswerInvalid, AnswerTooLate, TakeAnswer, serverVars, processVars
  <2>11. CASE ServerInfo(a)
    <3>1. HelloSid(a) \in Sid /\ PunchPhase(HelloSid(a)) \in Phase /\ AttemptOf(HelloSid(a)) = a
      BY AttemptSids, SidParts DEF Phase
    <3>2. QED
      BY <2>2, <2>11, <3>1 DEF ServerInfo, TakeServerInfo, StartPunchAndWait, serverVars, processVars
  <2>12. CASE ServerInfoTooLate(a) \/ ServerInfoNotPunchable(a)
    BY <2>2, <2>3, <2>12 DEF ServerInfoTooLate, ServerInfoNotPunchable, TakeServerInfo, serverVars, processVars
  <2>13. QED
    BY <1>2, <2>4, <2>6, <2>7, <2>8, <2>9, <2>10, <2>11, <2>12 DEF ClientStep
<1>3. ASSUME NEW a \in Attempt, ServerStep(a) PROVE TypeOK'
  <2>1. \A t \in {"accept", "reject", "info"} : DmOf(t, a) \in Dm
    BY DEF DmOf, Dm
  <2>2. ASSUME NEW accepted \in BOOLEAN, ReceiveOffer(a, accepted) PROVE TypeOK'
    BY <2>1, <2>2, AttemptSids DEF ReceiveOffer, Working, clientVars, processVars
  <2>3. CASE ReceiveHello(a)
    BY <2>1, <2>3, AttemptSids DEF ReceiveHello, Working, clientVars, processVars
  <2>4. ASSUME NEW type, ReplyFails(a, type) PROVE TypeOK'
    BY <2>4 DEF ReplyFails, ServerEnds, clientVars
  <2>5. QED
    BY <1>3, <2>2, <2>3, <2>4 DEF ServerStep
<1>4. CASE RecordPeer
  <2>1. notify \in Working
    BY <1>4 DEF RecordPeer, Idle, Working
  <2>2. [notify EXCEPT !.at = "recorded"] \in Working
    BY <2>1 DEF Working
  <2>3. QED
    BY <1>4, <2>1, <2>2 DEF RecordPeer, Working, clientVars, processVars
<1>5. CASE StartPunch \/ StartPunchFails
  <2>1. notify \in Working
    BY <1>5 DEF StartPunch, StartPunchFails, Idle, Working
  <2>2. QED
    BY <1>5, <2>1 DEF StartPunch, StartPunchFails, ServerEnds, Working, clientVars
<1>6. ASSUME NEW s \in Sid, NEW p \in Path, ClientProbe(s, p) \/ ServerProbe(s, p)
      PROVE TypeOK'
  BY <1>6 DEF ClientProbe, ServerProbe, Packet, Datagram, clientVars, serverVars, processVars
<1>7. ASSUME NEW m \in udp, ClientReceivesPunch(m) PROVE TypeOK'
  <2>1. m.sid \in Sid /\ m.path \in Path
    BY DEF Datagram
  <2>2. AttemptOf(m.sid) \in Attempt /\ ClientOf(m.sid) \in Client
    BY <2>1, SidParts
  <2>3. Packet("server", "ack", m.sid, m.path) \in Datagram
    BY <2>1 DEF Packet, Datagram
  <2>4. phase' \in [Attempt -> Phase]
    BY <1>7, <2>2 DEF ClientReceivesPunch, Phase
  <2>5. active' \in [Client -> (Sid \X Path) \union {None}]
    BY <1>7, <2>1, <2>2 DEF ClientReceivesPunch
  <2>6. QED
    BY <1>7, <2>3, <2>4, <2>5 DEF ClientReceivesPunch, serverVars, processVars
<1>8. ASSUME NEW m \in udp, ServerReceivesPunch(m) PROVE TypeOK'
  BY <1>8 DEF ServerReceivesPunch, EnsureSession, Packet, Datagram, clientVars, processVars
<1>9. ASSUME NEW m \in udp, ServerReceivesCommand(m) PROVE TypeOK'
  <2>1. m.sid \in Sid /\ m.path \in Path
    BY DEF Datagram
  <2>2. session' \in [Sid -> Path \union {None}] /\ session'[m.sid] \in Path
    BY <1>9, <2>1, PathAssumption DEF ServerReceivesCommand, EnsureSession
  <2>3. Packet("client", "result", m.sid, session'[m.sid]) \in Datagram
    BY <2>1, <2>2 DEF Packet, Datagram
  <2>4. QED
    BY <1>9, <2>2, <2>3 DEF ServerReceivesCommand, clientVars, processVars
<1>10. ASSUME NEW c \in Client, NEW m \in udp, ClientReceivesResult(c, m) PROVE TypeOK'
  BY <1>10 DEF ClientReceivesResult, Datagram, serverVars, processVars
<1>11. ASSUME NEW c \in Client, SendCommand(c) PROVE TypeOK'
  <2>1. active[c][1] \in Sid /\ active[c][2] \in Path
    BY <1>11 DEF SendCommand
  <2>2. QED
    BY <1>11, <2>1 DEF SendCommand, Packet, Datagram, clientVars, serverVars, processVars
<1>12. CASE Stop
  BY <1>12 DEF Stop, ServerEnds, clientVars
<1>13. CASE StartAgain
  <2>1. starts + 1 \in Nat \ {0}
    OBVIOUS
  <2>2. QED
    BY <1>13, <2>1 DEF StartAgain, clientVars
<1>14. QED
  BY <1>1, <1>2, <1>3, <1>4, <1>5, <1>6, <1>7, <1>8, <1>9, <1>10, <1>11, <1>12, <1>13 DEF Next

(* Type correctness of the whole protocol.                                  *)
THEOREM TypeCorrect == Spec => []TypeOK
<1>1. QED
  BY TypeInit, TypeStep, PTL DEF Spec

-----------------------------------------------------------------------------
(* What only grows: the messages sent, the sessions each side knows, unless *)
(* the server ends; an attempt that was begun is never idle again, and a    *)
(* server that ended once has.                                              *)
Grows ==
  /\ dms \subseteq dms'
  /\ udp \subseteq udp'
  /\ punchHashes \subseteq punchHashes'
  /\ agreed \subseteq agreed'
  /\ \/ ServerEnds
     \/ sessionHashes \subseteq sessionHashes' /\ pendingHandoffs \subseteq pendingHandoffs'
  /\ NeverEnded' => NeverEnded
  /\ \A a \in Attempt : phase[a] # "idle" => phase'[a] # "idle"

LEMMA Monotone == TypeOK /\ [Next]_vars => Grows
<1> SUFFICES ASSUME TypeOK, [Next]_vars PROVE Grows
  OBVIOUS
<1> USE DEF Grows, NeverEnded
<1>1. CASE UNCHANGED vars
  BY <1>1 DEF vars, clientVars, serverVars, processVars
<1>2. ASSUME NEW a \in Attempt, ClientStep(a) PROVE Grows
  <2>1. \A p : p # "idle" /\ GoTo(a, p) => \A b \in Attempt : phase[b] # "idle" => phase'[b] # "idle"
    BY DEF GoTo, TypeOK
  <2>2. CASE Begin(a) \/ OfferTimeout(a) \/ OfferSendFails(a) \/ HelloTimeout(a)
              \/ HelloSendFails(a) \/ AnswerRejected(a) \/ AnswerNotPunchable(a)
              \/ PunchTimeout(a)
    BY <2>1, <2>2 DEF Begin, OfferTimeout, OfferSendFails, FallBackToHello, HelloTimeout,
       HelloSendFails, AnswerRejected, AnswerNotPunchable, PunchTimeout, serverVars, processVars
  <2>3. CASE AnswerAccepted(a)
    BY <2>1, <2>3, AttemptSids, SidParts
    DEF AnswerAccepted, StartPunchAndWait, Punching, serverVars, processVars
  <2>4. ASSUME NEW type, AnswerInvalid(a, type) \/ AnswerTooLate(a, type) PROVE Grows
    BY <2>1, <2>4 DEF AnswerInvalid, AnswerTooLate, FallBackToHello, serverVars, processVars
  <2>5. CASE ServerInfo(a)
    BY <2>1, <2>5, AttemptSids, SidParts
    DEF ServerInfo, StartPunchAndWait, Punching, serverVars, processVars
  <2>6. CASE ServerInfoTooLate(a) \/ ServerInfoNotPunchable(a)
    BY <2>1, <2>6 DEF ServerInfoTooLate, ServerInfoNotPunchable, serverVars, processVars
  <2>7. QED
    BY <1>2, <2>2, <2>3, <2>4, <2>5, <2>6 DEF ClientStep
<1>3. ASSUME NEW a \in Attempt, ServerStep(a) PROVE Grows
  <2>1. CASE \E t \in {"offer", "hello"} : ReplyFails(a, t)
    BY <2>1 DEF ReplyFails, ServerEnds, clientVars
  <2>2. CASE ReceiveHello(a) \/ \E b \in BOOLEAN : ReceiveOffer(a, b)
    BY <2>2 DEF ReceiveOffer, ReceiveHello, clientVars, processVars
  <2>3. QED
    BY <1>3, <2>1, <2>2 DEF ServerStep
<1>4. CASE RecordPeer \/ StartPunch
  BY <1>4 DEF RecordPeer, StartPunch, clientVars, processVars
<1>5. ASSUME NEW s \in Sid, NEW p \in Path, ClientProbe(s, p) \/ ServerProbe(s, p) PROVE Grows
  BY <1>5 DEF ClientProbe, ServerProbe, clientVars, serverVars, processVars
<1>6. ASSUME NEW m \in udp, ClientReceivesPunch(m) PROVE Grows
  BY <1>6 DEF ClientReceivesPunch, TypeOK, serverVars, processVars
<1>7. ASSUME NEW m \in udp, ServerReceivesPunch(m) \/ ServerReceivesCommand(m) PROVE Grows
  BY <1>7 DEF ServerReceivesPunch, ServerReceivesCommand, clientVars, processVars
<1>8. ASSUME NEW c \in Client, SendCommand(c) PROVE Grows
  BY <1>8 DEF SendCommand, clientVars, serverVars, processVars
<1>9. ASSUME NEW c \in Client, NEW m \in udp, ClientReceivesResult(c, m) PROVE Grows
  BY <1>9 DEF ClientReceivesResult, serverVars, processVars
<1>10. CASE StartPunchFails \/ Stop
  BY <1>10 DEF StartPunchFails, Stop, ServerEnds, clientVars
<1>11. CASE StartAgain
  BY <1>11 DEF StartAgain, TypeOK, clientVars
<1>12. QED
  BY <1>1, <1>2, <1>3, <1>4, <1>5, <1>6, <1>7, <1>8, <1>9, <1>10, <1>11 DEF Next

(* The process that runs from the start has lost nothing.                   *)
LEMMA FirstKeeps ==
  ASSUME TypeOK, [Next]_vars, NeverEnded'
  PROVE  /\ NeverEnded
         /\ ~ServerEnds
         /\ sessionHashes \subseteq sessionHashes'
         /\ pendingHandoffs \subseteq pendingHandoffs'
BY Monotone DEF Grows, NeverEnded, ServerEnds

-----------------------------------------------------------------------------
(* The inductive invariant, one lemma per conjunct.                         *)

LEMMA InvInit == Init => IInv
<1> SUFFICES ASSUME Init PROVE IInv
  OBVIOUS
<1>1. TypeOK
  BY TypeInit
<1>2. QED
  BY <1>1 DEF Init, IInv, DmsAreOfBegunAttempts, NotifyIsSound, DatagramsAreSound,
     CommandsAreOnPath, ActiveIsPunched, AgreedAreTrusted, HashesAreAgreed, HashHasPeer,
     ActiveIsCommitted, SessionIsPunched, ActiveIsNotAbandoned, ResumedOnPath

(* A DM only goes out once its attempt has begun.                           *)
LEMMA DmsStep == IInv /\ [Next]_vars => DmsAreOfBegunAttempts'
<1> SUFFICES ASSUME IInv, [Next]_vars PROVE DmsAreOfBegunAttempts'
  OBVIOUS
<1> USE DEF DmsAreOfBegunAttempts
<1>1. TypeOK /\ DmsAreOfBegunAttempts /\ NotifyIsSound
  BY DEF IInv
<1>2. \A a \in Attempt : phase[a] # "idle" => phase'[a] # "idle"
  BY <1>1, Monotone DEF Grows
<1>3. \A m \in dms : m.attempt \in Attempt
  BY <1>1 DEF TypeOK, Dm
<1>4. CASE dms' = dms
  BY <1>1, <1>2, <1>3, <1>4
<1>5. ASSUME NEW a \in Attempt, NEW t, dms' = dms \union {DmOf(t, a)}, phase'[a] # "idle"
      PROVE  DmsAreOfBegunAttempts'
  BY <1>1, <1>2, <1>3, <1>5 DEF DmOf
<1>6. ASSUME NEW a \in Attempt, ClientStep(a) PROVE DmsAreOfBegunAttempts'
  <2>1. \A p : p # "idle" /\ GoTo(a, p) => phase'[a] # "idle"
    BY <1>1 DEF GoTo, TypeOK
  <2>2. CASE Begin(a)
    BY <1>5, <2>1, <2>2 DEF Begin
  <2>3. ASSUME FallBackToHello(a) PROVE DmsAreOfBegunAttempts'
    BY <1>5, <2>1, <2>3 DEF FallBackToHello
  <2>4. QED
    BY <1>4, <1>6, <2>2, <2>3 DEF ClientStep, OfferTimeout, OfferSendFails, HelloTimeout,
       HelloSendFails, AnswerAccepted, AnswerRejected, AnswerNotPunchable, AnswerInvalid, AnswerTooLate,
       ServerInfo, ServerInfoTooLate, ServerInfoNotPunchable, PunchTimeout
<1>7. ASSUME NEW a \in Attempt, ServerStep(a) PROVE DmsAreOfBegunAttempts'
  <2>1. \A t : TakesDm(a, t) => phase[a] # "idle"
    BY <1>1 DEF TakesDm, DmOf
  <2>2. QED
    BY <1>2, <1>4, <1>5, <1>7, <2>1 DEF ServerStep, ReceiveOffer, ReceiveHello, ReplyFails,
       ServerEnds
<1>8. CASE UNCHANGED vars
  BY <1>4, <1>8 DEF vars
<1>9. QED
  BY <1>4, <1>6, <1>7, <1>8 DEF Next, RecordPeer, StartPunch, StartPunchFails, Stop, ServerEnds,
     StartAgain, ClientProbe, ServerProbe, ClientReceivesPunch, ServerReceivesPunch,
     ServerReceivesCommand, ClientReceivesResult, SendCommand

(* The DM the notify task works on comes from a trusted client that began,  *)
(* and its peer is recorded before the punch starts.                        *)
LEMMA NotifyStep == IInv /\ [Next]_vars => NotifyIsSound'
<1> SUFFICES ASSUME IInv, [Next]_vars PROVE NotifyIsSound'
  OBVIOUS
<1>1. TypeOK /\ DmsAreOfBegunAttempts /\ NotifyIsSound
  BY DEF IInv
<1>2. /\ \A a \in Attempt : phase[a] # "idle" => phase'[a] # "idle"
      /\ ServerEnds \/ pendingHandoffs \subseteq pendingHandoffs'
  BY <1>1, Monotone DEF Grows
<1>3. notify # Idle => notify \in Working /\ AttemptOf(notify.sid) \in Attempt
  BY <1>1, SidParts DEF TypeOK, Working
<1>4. CASE notify' = notify
  BY <1>1, <1>2, <1>3, <1>4 DEF NotifyIsSound, ServerEnds
<1>5. CASE notify' = Idle
  BY <1>5 DEF NotifyIsSound
<1>6. ASSUME NEW a \in Attempt, ServerStep(a) PROVE NotifyIsSound'
  <2>1. \A t : TakesDm(a, t) => phase[a] # "idle" /\ Owner[a] \in Trusted
    BY <1>1 DEF TakesDm, DmOf, DmsAreOfBegunAttempts
  <2>2. ASSUME NEW s \in Sid, NEW b, notify' = [at |-> "answered", sid |-> s, punch |-> b],
               AttemptOf(s) = a, ClientOf(s) = Owner[a], \E t : TakesDm(a, t)
        PROVE  NotifyIsSound'
    BY <1>2, <2>1, <2>2 DEF NotifyIsSound
  <2>3. ASSUME NEW b \in BOOLEAN, ReceiveOffer(a, b) PROVE NotifyIsSound'
    BY <2>2, <2>3, AttemptSids DEF ReceiveOffer, ClientOf, OfferSid
  <2>4. CASE ReceiveHello(a)
    BY <2>2, <2>4, AttemptSids DEF ReceiveHello, ClientOf, HelloSid
  <2>5. QED
    BY <1>5, <1>6, <2>3, <2>4 DEF ServerStep, ReplyFails, ServerEnds
<1>7. CASE RecordPeer
  <2>1. notify \in Working
    BY <1>1, <1>7 DEF RecordPeer, TypeOK, Idle
  <2>2. CASE notify.punch
    <3>1. /\ notify'.sid = notify.sid
          /\ notify.sid \in pendingHandoffs'
          /\ phase' = phase
      BY <1>7, <2>1, <2>2 DEF RecordPeer, Working, clientVars
    <3>2. QED
      BY <1>1, <1>7, <2>1, <3>1 DEF RecordPeer, NotifyIsSound, Idle
  <2>3. QED
    BY <1>5, <1>7, <2>2 DEF RecordPeer
<1>8. CASE StartPunch \/ StartPunchFails \/ Stop \/ StartAgain
  BY <1>4, <1>5, <1>8 DEF StartPunch, StartPunchFails, Stop, ServerEnds, StartAgain
<1>9. ASSUME NEW a \in Attempt, ClientStep(a) PROVE notify' = notify
  BY <1>9 DEF ClientStep, Begin, OfferTimeout, OfferSendFails, FallBackToHello, HelloTimeout,
     HelloSendFails, AnswerAccepted, AnswerRejected, AnswerNotPunchable, AnswerInvalid, AnswerTooLate, ServerInfo,
     ServerInfoTooLate, ServerInfoNotPunchable, PunchTimeout, StartPunchAndWait, serverVars, processVars
<1>10. CASE UNCHANGED vars
  BY <1>4, <1>10 DEF vars, serverVars, processVars
<1>11. QED
  BY <1>4, <1>6, <1>7, <1>8, <1>9, <1>10 DEF Next, ClientProbe, ServerProbe,
     ClientReceivesPunch, ServerReceivesPunch, ServerReceivesCommand, ClientReceivesResult,
     SendCommand, serverVars, processVars

(* The remote a session keeps is not replaced while the server runs.        *)
LEMMA SessionKept ==
  ASSUME TypeOK, [Next]_vars, ~ServerEnds, NEW s \in Sid, session[s] # None
  PROVE  session'[s] = session[s]
<1>1. \A r, p : EnsureSession(r, p) => session'[s] = session[s]
  BY DEF EnsureSession, TypeOK
<1>2. ASSUME NEW a \in Attempt, ClientStep(a) \/ ServerStep(a) PROVE session' = session
  BY <1>2 DEF ClientStep, Begin, OfferTimeout, OfferSendFails, FallBackToHello, HelloTimeout,
     HelloSendFails, AnswerAccepted, AnswerRejected, AnswerNotPunchable, AnswerInvalid, AnswerTooLate, ServerInfo,
     ServerInfoTooLate, ServerInfoNotPunchable, PunchTimeout, StartPunchAndWait, serverVars, processVars, ServerStep, ReceiveOffer,
     ReceiveHello, ReplyFails
<1>3. CASE UNCHANGED vars
  BY <1>3 DEF vars, serverVars, processVars
<1>4. QED
  BY <1>1, <1>2, <1>3 DEF Next, RecordPeer, StartPunch, StartPunchFails, Stop, StartAgain,
     ClientProbe, ServerProbe, ClientReceivesPunch, ServerReceivesPunch, ServerReceivesCommand,
     ClientReceivesResult, SendCommand, serverVars

(* A datagram to the server proves that the client punched for its session, *)
(* one to the client that a process of the server committed to it.          *)
LEMMA DatagramsStep == IInv /\ [Next]_vars => DatagramsAreSound'
<1> SUFFICES ASSUME IInv, [Next]_vars PROVE DatagramsAreSound'
  OBVIOUS
<1>1. /\ TypeOK /\ DatagramsAreSound /\ ActiveIsPunched /\ ActiveIsCommitted
      /\ sessionHashes \subseteq agreed
  BY DEF IInv, HashesAreAgreed
<1>2. punchHashes \subseteq punchHashes' /\ agreed \subseteq agreed'
  BY <1>1, Monotone DEF Grows
<1>3. \A m \in udp : m.sid \in Sid /\ m.path \in Path
  BY <1>1 DEF TypeOK, Datagram
<1>4. \A m \in udp : m.kind = "result" /\ NeverEnded' => session'[m.sid] = m.path
  <2> SUFFICES ASSUME NEW m \in udp, m.kind = "result", NeverEnded'
               PROVE  session'[m.sid] = m.path
    OBVIOUS
  <2>1. NeverEnded /\ ~ServerEnds
    BY <1>1, FirstKeeps
  <2>2. session[m.sid] = m.path /\ session[m.sid] # None
    BY <1>1, <1>3, <2>1, PathAssumption DEF DatagramsAreSound
  <2>3. QED
    BY <1>1, <1>3, <2>1, <2>2, SessionKept
<1>5. CASE udp' = udp
  BY <1>1, <1>2, <1>4, <1>5 DEF DatagramsAreSound
<1>6. ASSUME NEW m, udp' = udp \union {m},
             m.to = "server" => m.sid \in punchHashes,
             m.kind = "command" \/ (m.to = "client" /\ m.kind \in {"probe", "ack"})
               => m.sid \in agreed,
             m.kind = "result" => session'[m.sid] = m.path
      PROVE  DatagramsAreSound'
  BY <1>1, <1>2, <1>4, <1>6 DEF DatagramsAreSound
<1>7. ASSUME NEW s \in Sid, NEW p \in Path, ClientProbe(s, p) \/ ServerProbe(s, p)
      PROVE  DatagramsAreSound'
  <2>1. CASE ClientProbe(s, p)
    <3> DEFINE m == Packet("server", "probe", s, p)
    <3>1. m.to = "server" /\ m.kind = "probe" /\ m.sid = s
      BY DEF Packet
    <3>2. udp' = udp \union {m} /\ s \in punchHashes
      BY <2>1 DEF ClientProbe
    <3> HIDE DEF m
    <3>3. QED
      BY <1>6, <3>1, <3>2
  <2>2. CASE ServerProbe(s, p)
    <3> DEFINE m == Packet("client", "probe", s, p)
    <3>1. m.to = "client" /\ m.kind = "probe" /\ m.sid = s
      BY DEF Packet
    <3>2. udp' = udp \union {m} /\ s \in agreed
      BY <1>1, <2>2 DEF ServerProbe
    <3> HIDE DEF m
    <3>3. QED
      BY <1>6, <3>1, <3>2
  <2>3. QED
    BY <1>7, <2>1, <2>2
<1>8. ASSUME NEW n \in udp, ClientReceivesPunch(n) PROVE DatagramsAreSound'
  <2> DEFINE m == Packet("server", "ack", n.sid, n.path)
  <2>1. m.to = "server" /\ m.kind = "ack" /\ m.sid = n.sid
    BY DEF Packet
  <2>2. (udp' = udp \/ udp' = udp \union {m}) /\ n.sid \in punchHashes
    BY <1>8 DEF ClientReceivesPunch
  <2> HIDE DEF m
  <2>3. QED
    BY <1>5, <1>6, <2>1, <2>2
<1>9. ASSUME NEW n \in udp, ServerReceivesPunch(n) PROVE DatagramsAreSound'
  <2> DEFINE m == Packet("client", "ack", n.sid, n.path)
  <2>1. m.to = "client" /\ m.kind = "ack" /\ m.sid = n.sid
    BY DEF Packet
  <2>2. (udp' = udp \/ udp' = udp \union {m}) /\ n.sid \in agreed
    BY <1>1, <1>9 DEF ServerReceivesPunch
  <2> HIDE DEF m
  <2>3. QED
    BY <1>5, <1>6, <2>1, <2>2
<1>10. ASSUME NEW n \in udp, ServerReceivesCommand(n) PROVE DatagramsAreSound'
  <2> DEFINE m == Packet("client", "result", n.sid, session'[n.sid])
  <2>1. m.to = "client" /\ m.kind = "result" /\ m.sid = n.sid /\ m.path = session'[n.sid]
    BY DEF Packet
  <2>2. udp' = udp \union {m}
    BY <1>10 DEF ServerReceivesCommand
  <2> HIDE DEF m
  <2>3. QED
    BY <1>6, <2>1, <2>2
<1>11. ASSUME NEW c \in Client, SendCommand(c) PROVE DatagramsAreSound'
  <2> DEFINE m == Packet("server", "command", active[c][1], active[c][2])
  <2>1. m.to = "server" /\ m.kind = "command" /\ m.sid = active[c][1]
    BY DEF Packet
  <2>2. /\ udp' = udp \union {m}
        /\ active[c][1] \in punchHashes /\ active[c][1] \in agreed
    BY <1>1, <1>11 DEF SendCommand, ActiveIsPunched, ActiveIsCommitted
  <2> HIDE DEF m
  <2>3. QED
    BY <1>6, <2>1, <2>2
<1>12. ASSUME NEW a \in Attempt, ClientStep(a) \/ ServerStep(a) PROVE udp' = udp
  BY <1>12 DEF ClientStep, Begin, OfferTimeout, OfferSendFails, FallBackToHello, HelloTimeout,
     HelloSendFails, AnswerAccepted, AnswerRejected, AnswerNotPunchable, AnswerInvalid, AnswerTooLate, ServerInfo,
     ServerInfoTooLate, ServerInfoNotPunchable, PunchTimeout, StartPunchAndWait, ServerStep, ReceiveOffer,
     ReceiveHello, ReplyFails, ServerEnds
<1>13. CASE UNCHANGED vars
  BY <1>5, <1>13 DEF vars
<1>14. QED
  BY <1>5, <1>7, <1>8, <1>9, <1>10, <1>11, <1>12, <1>13 DEF Next, RecordPeer, StartPunch,
     StartPunchFails, Stop, ServerEnds, StartAgain, ClientReceivesResult

(* Which actions touch the sessions the two sides hold.                     *)
LEMMA ActiveChanges ==
  ASSUME TypeOK, [Next]_vars
  PROVE  \/ active' = active
         \/ \E m \in udp : ClientReceivesPunch(m)
<1>1. ASSUME NEW a \in Attempt, ClientStep(a) \/ ServerStep(a) PROVE active' = active
  BY <1>1 DEF ClientStep, Begin, OfferTimeout, OfferSendFails, FallBackToHello, HelloTimeout,
     HelloSendFails, AnswerAccepted, AnswerRejected, AnswerNotPunchable, AnswerInvalid, AnswerTooLate, ServerInfo,
     ServerInfoTooLate, ServerInfoNotPunchable, PunchTimeout, StartPunchAndWait, ServerStep, ReceiveOffer,
     ReceiveHello, ReplyFails, ServerEnds, clientVars
<1>2. CASE UNCHANGED vars
  BY <1>2 DEF vars, clientVars
<1>3. QED
  BY <1>1, <1>2 DEF Next, RecordPeer, StartPunch, StartPunchFails, Stop, ServerEnds, StartAgain,
     ClientProbe, ServerProbe, ServerReceivesPunch, ServerReceivesCommand, ClientReceivesResult,
     SendCommand, clientVars

LEMMA HashChanges ==
  ASSUME [Next]_vars
  PROVE  \/ UNCHANGED <<sessionHashes, agreed>>
         \/ StartPunch
         \/ ServerEnds
<1>1. ASSUME NEW a \in Attempt, ClientStep(a) PROVE UNCHANGED <<sessionHashes, agreed>>
  BY <1>1 DEF ClientStep, Begin, OfferTimeout, OfferSendFails, FallBackToHello, HelloTimeout,
     HelloSendFails, AnswerAccepted, AnswerRejected, AnswerNotPunchable, AnswerInvalid, AnswerTooLate,
     ServerInfo, ServerInfoTooLate, ServerInfoNotPunchable, PunchTimeout, StartPunchAndWait,
     serverVars, processVars
<1>2. ASSUME NEW a \in Attempt, ServerStep(a)
      PROVE  UNCHANGED <<sessionHashes, agreed>> \/ ServerEnds
  BY <1>2 DEF ServerStep, ReceiveOffer, ReceiveHello, ReplyFails, processVars
<1>3. CASE UNCHANGED vars
  BY <1>3 DEF vars, serverVars, processVars
<1>4. QED
  BY <1>1, <1>2, <1>3 DEF Next, RecordPeer, StartPunchFails, Stop, StartAgain, ClientProbe,
     ServerProbe, ClientReceivesPunch, ServerReceivesPunch, ServerReceivesCommand,
     ClientReceivesResult, SendCommand, serverVars, processVars

(* Connected is for good, as far as api_connect is concerned.               *)
LEMMA ActiveStays ==
  ASSUME TypeOK, [Next]_vars, NEW b \in Attempt, phase[b] = "active"
  PROVE  phase'[b] = "active"
<1>1. ASSUME NEW a \in Attempt, a # b \/ phase[a] # "active", NEW p, GoTo(a, p)
      PROVE  phase'[b] = "active"
  BY <1>1 DEF GoTo, TypeOK
<1>2. ASSUME NEW a \in Attempt, ClientStep(a) PROVE phase'[b] = "active"
  <2>1. AttemptOf(OfferSid(a)) = a /\ AttemptOf(HelloSid(a)) = a
    BY AttemptSids
  <2>2. QED
    BY <1>1, <1>2, <2>1 DEF ClientStep, Begin, OfferTimeout, OfferSendFails, FallBackToHello,
       HelloTimeout, HelloSendFails, AnswerAccepted, AnswerRejected, AnswerNotPunchable, AnswerInvalid,
       AnswerTooLate, ServerInfo, ServerInfoTooLate, ServerInfoNotPunchable, PunchTimeout, StartPunchAndWait, Punching
<1>3. ASSUME NEW m \in udp, ClientReceivesPunch(m) PROVE phase'[b] = "active"
  BY <1>3 DEF ClientReceivesPunch, TypeOK
<1>4. ASSUME NEW a \in Attempt, ServerStep(a) PROVE phase'[b] = "active"
  BY <1>4 DEF ServerStep, ReceiveOffer, ReceiveHello, ReplyFails, ServerEnds, clientVars
<1>5. CASE UNCHANGED vars
  BY <1>5 DEF vars, clientVars
<1>6. QED
  BY <1>2, <1>3, <1>4, <1>5 DEF Next, RecordPeer, StartPunch, StartPunchFails, Stop, ServerEnds,
     StartAgain, ClientProbe, ServerProbe, ServerReceivesPunch, ServerReceivesCommand,
     ClientReceivesResult, SendCommand, clientVars

(* The session a client starts to use was punched and is committed to.      *)
LEMMA ActiveStep ==
  IInv /\ [Next]_vars => ActiveIsPunched' /\ ActiveIsCommitted' /\ ActiveIsNotAbandoned'
<1> SUFFICES ASSUME IInv, [Next]_vars
             PROVE  ActiveIsPunched' /\ ActiveIsCommitted' /\ ActiveIsNotAbandoned'
  OBVIOUS
<1> USE DEF ActiveIsPunched, ActiveIsCommitted, ActiveIsNotAbandoned
<1>1. /\ TypeOK /\ DatagramsAreSound /\ HashHasPeer /\ HashesAreAgreed
      /\ ActiveIsPunched /\ ActiveIsCommitted /\ ActiveIsNotAbandoned
  BY DEF IInv
<1>2. /\ punchHashes \subseteq punchHashes'
      /\ agreed \subseteq agreed'
  BY <1>1, Monotone DEF Grows
<1>2a. NeverEnded' => /\ NeverEnded
                      /\ sessionHashes \subseteq sessionHashes'
                      /\ pendingHandoffs \subseteq pendingHandoffs'
  BY <1>1, FirstKeeps
<1>3. \A c \in Client : active[c] # None => AttemptOf(active[c][1]) \in Attempt
  BY <1>1, SidParts DEF TypeOK
<1>4. CASE active' = active
  BY <1>1, <1>2, <1>2a, <1>3, <1>4, ActiveStays
<1>5. ASSUME NEW m \in udp, ClientReceivesPunch(m)
      PROVE  ActiveIsPunched' /\ ActiveIsCommitted' /\ ActiveIsNotAbandoned'
  <2>1. m.sid \in Sid /\ m.path \in Path
    BY <1>1 DEF TypeOK, Datagram
  <2>2. AttemptOf(m.sid) \in Attempt /\ ClientOf(m.sid) \in Client
    BY <2>1, SidParts
  <2>3. /\ m.sid \in punchHashes /\ m.sid \in agreed
        /\ NeverEnded => m.sid \in sessionHashes /\ m.sid \in pendingHandoffs
    BY <1>1, <1>5 DEF ClientReceivesPunch, DatagramsAreSound, HashHasPeer, HashesAreAgreed
  <2>4. CASE active' # active
    <3>1. /\ active' = [active EXCEPT ![ClientOf(m.sid)] = <<m.sid, m.path>>]
          /\ phase' = [phase EXCEPT ![AttemptOf(m.sid)] = "active"]
      BY <1>5, <2>4 DEF ClientReceivesPunch
    <3>2. phase'[AttemptOf(m.sid)] = "active"
      BY <1>1, <2>2, <3>1 DEF TypeOK
    <3>3. ASSUME NEW c \in Client, active'[c] # None
          PROVE  /\ active'[c][1] \in punchHashes'
                 /\ active'[c][1] \in agreed'
                 /\ NeverEnded' => active'[c][1] \in sessionHashes' \intersect pendingHandoffs'
                 /\ ClientOf(active'[c][1]) = c
                 /\ phase'[AttemptOf(active'[c][1])] = "active"
      <4>1. CASE c = ClientOf(m.sid)
        <5>1. active'[c] = <<m.sid, m.path>>
          BY <1>1, <3>1, <4>1 DEF TypeOK
        <5>2. QED
          BY <1>2, <1>2a, <2>3, <3>2, <4>1, <5>1
      <4>2. CASE c # ClientOf(m.sid)
        <5>1. active'[c] = active[c]
          BY <1>1, <3>1, <4>2 DEF TypeOK
        <5>2. QED
          BY <1>1, <1>2, <1>2a, <1>3, <3>3, <5>1, ActiveStays
      <4>3. QED
        BY <4>1, <4>2
    <3>4. QED
      BY <3>3
  <2>5. QED
    BY <1>4, <2>4
<1>6. QED
  BY <1>1, <1>4, <1>5, ActiveChanges

(* The server commits to a session once its peer is recorded.               *)
LEMMA HashStep == IInv /\ [Next]_vars => HashHasPeer' /\ AgreedAreTrusted' /\ HashesAreAgreed'
<1> SUFFICES ASSUME IInv, [Next]_vars PROVE HashHasPeer' /\ AgreedAreTrusted' /\ HashesAreAgreed'
  OBVIOUS
<1> USE DEF HashHasPeer, AgreedAreTrusted, HashesAreAgreed
<1>1. TypeOK /\ NotifyIsSound /\ HashHasPeer /\ AgreedAreTrusted /\ HashesAreAgreed
  BY DEF IInv
<1>2. ServerEnds \/ pendingHandoffs \subseteq pendingHandoffs'
  BY <1>1, Monotone DEF Grows
<1>3. NeverEnded' => NeverEnded
  BY <1>1, FirstKeeps
<1>4. CASE ServerEnds
  BY <1>1, <1>4 DEF ServerEnds, NeverEnded
<1>5. CASE UNCHANGED <<sessionHashes, agreed>>
  BY <1>1, <1>2, <1>3, <1>4, <1>5
<1>6. CASE StartPunch
  <2>1. notify # Idle /\ notify.at = "recorded"
    BY <1>6 DEF StartPunch, Idle
  <2>2. notify.sid \in pendingHandoffs /\ ClientOf(notify.sid) \in Trusted
    BY <1>1, <2>1 DEF NotifyIsSound
  <2>3. QED
    BY <1>1, <1>3, <1>6, <2>2 DEF StartPunch
<1>7. QED
  BY <1>4, <1>5, <1>6, HashChanges

(* A client that uses a session sends on its path, and does not move.       *)
LEMMA CommandsStep == IInv /\ [Next]_vars => CommandsAreOnPath'
<1> SUFFICES ASSUME IInv, [Next]_vars PROVE CommandsAreOnPath'
  OBVIOUS
<1>1. TypeOK /\ CommandsAreOnPath /\ ActiveIsCommitted /\ ActiveIsNotAbandoned
  BY DEF IInv
<1>2. \A m \in udp : AttemptOf(m.sid) \in Attempt
  BY <1>1, SidParts DEF TypeOK, Datagram
<1>3. ASSUME NEW m \in udp, m.kind = "command" PROVE phase'[AttemptOf(m.sid)] = "active"
  BY <1>1, <1>2, <1>3, ActiveStays DEF CommandsAreOnPath
<1>4. ASSUME \A m \in udp' : m.kind = "command" => m \in udp, active' = active
      PROVE  CommandsAreOnPath'
  BY <1>1, <1>3, <1>4 DEF CommandsAreOnPath
<1>5. ASSUME NEW c \in Client, SendCommand(c) PROVE CommandsAreOnPath'
  <2> DEFINE m == Packet("server", "command", active[c][1], active[c][2])
  <2>1. m.sid = active[c][1] /\ m.path = active[c][2]
    BY DEF Packet
  <2>2. udp' = udp \union {m} /\ UNCHANGED <<active, phase>> /\ active[c] # None
    BY <1>5 DEF SendCommand, clientVars
  <2>3. \A d \in Client : active[d] # None /\ active[d][1] = m.sid => d = c
    BY <1>1, <2>1, <2>2 DEF ActiveIsCommitted
  <2>4. phase[AttemptOf(m.sid)] = "active"
    BY <1>1, <2>1, <2>2 DEF ActiveIsNotAbandoned
  <2> HIDE DEF m
  <2>5. QED
    BY <1>1, <2>1, <2>2, <2>3, <2>4 DEF CommandsAreOnPath
<1>6. ASSUME NEW n \in udp, ClientReceivesPunch(n) PROVE CommandsAreOnPath'
  <2>1. n.sid \in Sid /\ n.path \in Path /\ ClientOf(n.sid) \in Client
    BY <1>1, SidParts DEF TypeOK, Datagram
  <2>2. \A m \in udp' : m.kind = "command" => m \in udp
    BY <1>6 DEF ClientReceivesPunch, Packet
  <2>3. CASE active' # active
    <3>1. /\ phase[AttemptOf(n.sid)] # "active"
          /\ active' = [active EXCEPT ![ClientOf(n.sid)] = <<n.sid, n.path>>]
      BY <1>6, <2>1, <2>3, SidParts DEF ClientReceivesPunch, Punching
    <3>2. \A m \in udp : m.kind = "command" => m.sid # n.sid
      BY <1>1, <3>1 DEF CommandsAreOnPath
    <3>3. ASSUME NEW m \in udp, m.kind = "command",
                 NEW c \in Client, active'[c] # None, active'[c][1] = m.sid
          PROVE  active'[c] = active[c]
      BY <1>1, <2>1, <3>1, <3>2, <3>3 DEF TypeOK
    <3>4. QED
      BY <1>1, <1>3, <2>2, <3>3 DEF CommandsAreOnPath
  <2>4. QED
    BY <1>4, <2>2, <2>3
<1>7. ASSUME NEW a \in Attempt, ClientStep(a) \/ ServerStep(a) PROVE udp' = udp
  BY <1>7 DEF ClientStep, Begin, OfferTimeout, OfferSendFails, FallBackToHello, HelloTimeout,
     HelloSendFails, AnswerAccepted, AnswerRejected, AnswerNotPunchable, AnswerInvalid, AnswerTooLate,
     ServerInfo, ServerInfoTooLate, ServerInfoNotPunchable, PunchTimeout, StartPunchAndWait,
     ServerStep, ReceiveOffer, ReceiveHello, ReplyFails, ServerEnds
<1>8. ASSUME NEW m \in udp,
             \/ ServerReceivesPunch(m) \/ ServerReceivesCommand(m)
             \/ \E c \in Client : ClientReceivesResult(c, m)
      PROVE  \A k \in udp' : k.kind = "command" => k \in udp
  BY <1>8 DEF ServerReceivesPunch, ServerReceivesCommand, ClientReceivesResult, Packet
<1>9. ASSUME NEW s \in Sid, NEW p \in Path, ClientProbe(s, p) \/ ServerProbe(s, p)
      PROVE  \A k \in udp' : k.kind = "command" => k \in udp
  BY <1>9 DEF ClientProbe, ServerProbe, Packet
<1>10. CASE UNCHANGED vars
  BY <1>4, <1>10 DEF vars, clientVars
<1>11. QED
  BY <1>1, <1>4, <1>5, <1>6, <1>7, <1>8, <1>9, <1>10, ActiveChanges DEF Next, RecordPeer,
     StartPunch, StartPunchFails, Stop, ServerEnds, StartAgain

(* What leaves the sessions of the server alone.                            *)
LEMMA SessionChanges ==
  ASSUME [Next]_vars
  PROVE  \/ session' = session
         \/ ServerEnds
         \/ \E m \in udp : ServerReceivesPunch(m) \/ ServerReceivesCommand(m)
<1>1. ASSUME NEW a \in Attempt, ClientStep(a) \/ ServerStep(a)
      PROVE  session' = session \/ ServerEnds
  BY <1>1 DEF ClientStep, Begin, OfferTimeout, OfferSendFails, FallBackToHello, HelloTimeout,
     HelloSendFails, AnswerAccepted, AnswerRejected, AnswerNotPunchable, AnswerInvalid, AnswerTooLate,
     ServerInfo, ServerInfoTooLate, ServerInfoNotPunchable, PunchTimeout, StartPunchAndWait,
     serverVars, ServerStep, ReceiveOffer, ReceiveHello, ReplyFails
<1>2. CASE UNCHANGED vars
  BY <1>2 DEF vars, serverVars
<1>3. QED
  BY <1>1, <1>2 DEF Next, RecordPeer, StartPunch, StartPunchFails, Stop, StartAgain, ClientProbe,
     ServerProbe, ClientReceivesPunch, ClientReceivesResult, SendCommand, serverVars

(* The server opens a session for a datagram, and a datagram proves that    *)
(* its client punched.                                                      *)
LEMMA SessionStep == IInv /\ [Next]_vars => SessionIsPunched'
<1> SUFFICES ASSUME IInv, [Next]_vars PROVE SessionIsPunched'
  OBVIOUS
<1>1. /\ TypeOK /\ DatagramsAreSound /\ AgreedAreTrusted /\ HashesAreAgreed
      /\ SessionIsPunched
  BY DEF IInv
<1>2. /\ punchHashes \subseteq punchHashes' /\ agreed \subseteq agreed'
      /\ NeverEnded' => NeverEnded /\ sessionHashes \subseteq sessionHashes'
  BY <1>1, Monotone, FirstKeeps DEF Grows
<1>3. CASE session' = session
  BY <1>1, <1>2, <1>3 DEF SessionIsPunched
<1>4. CASE ServerEnds
  BY <1>4 DEF ServerEnds, SessionIsPunched
<1>5. ASSUME NEW m \in udp, ServerReceivesPunch(m) \/ ServerReceivesCommand(m)
      PROVE  SessionIsPunched'
  <2>1. /\ m.sid \in punchHashes \intersect agreed
        /\ NeverEnded => m.sid \in sessionHashes
        /\ ClientOf(m.sid) \in Trusted
    BY <1>1, <1>5 DEF ServerReceivesPunch, ServerReceivesCommand, DatagramsAreSound,
       AgreedAreTrusted, HashesAreAgreed
  <2>2. EnsureSession(m.sid, m.path)
    BY <1>5 DEF ServerReceivesPunch, ServerReceivesCommand
  <2>3. \A s \in Sid : session'[s] = session[s] \/ s = m.sid
    BY <1>1, <2>2 DEF EnsureSession, TypeOK
  <2>4. QED
    BY <1>1, <1>2, <2>1, <2>3 DEF SessionIsPunched
<1>6. QED
  BY <1>3, <1>4, <1>5, SessionChanges

(* A session not punched for by this process was opened by a command, and   *)
(* commands are on the path of their client.                                *)
LEMMA ResumedStep == IInv /\ [Next]_vars => ResumedOnPath'
<1> SUFFICES ASSUME IInv, [Next]_vars,
                    NEW s \in Sid, session'[s] # None, s \notin sessionHashes'
             PROVE  /\ phase'[AttemptOf(s)] = "active"
                    /\ \A c \in Client : active'[c] # None /\ active'[c][1] = s
                         => active'[c][2] = session'[s]
  BY DEF ResumedOnPath
<1>1. TypeOK /\ CommandsAreOnPath /\ ResumedOnPath
  BY DEF IInv
<1>2. ~ServerEnds
  BY DEF ServerEnds
<1>3. s \notin sessionHashes
  BY <1>1, <1>2, Monotone DEF Grows
<1>4. AttemptOf(s) \in Attempt
  BY SidParts
<1>5. CASE session'[s] = session[s] /\ active' = active
  BY <1>1, <1>3, <1>4, <1>5, ActiveStays DEF ResumedOnPath
<1>6. CASE \E m \in udp : ClientReceivesPunch(m)
  <2>1. PICK m \in udp : ClientReceivesPunch(m)
    BY <1>6
  <2>2. m.sid \in Sid /\ m.path \in Path /\ ClientOf(m.sid) \in Client
    BY <1>1, SidParts DEF TypeOK, Datagram
  <2>3. session' = session
    BY <2>1 DEF ClientReceivesPunch, serverVars
  <2>4. phase[AttemptOf(s)] = "active"
    BY <1>1, <1>3, <2>3 DEF ResumedOnPath
  <2>5. \/ active' = active
        \/ m.sid # s /\ active' = [active EXCEPT ![ClientOf(m.sid)] = <<m.sid, m.path>>]
    BY <2>1, <2>2, <2>4, SidParts DEF ClientReceivesPunch, Punching
  <2>6. \A c \in Client : active'[c][1] = s => active'[c] = active[c]
    BY <1>1, <2>2, <2>5 DEF TypeOK
  <2>7. QED
    BY <1>1, <1>3, <1>4, <2>3, <2>4, <2>6, ActiveStays DEF ResumedOnPath
<1>7. CASE \E m \in udp : ServerReceivesPunch(m) \/ ServerReceivesCommand(m)
  <2>1. PICK m \in udp : ServerReceivesPunch(m) \/ ServerReceivesCommand(m)
    BY <1>7
  <2>2. EnsureSession(m.sid, m.path) /\ UNCHANGED <<active, phase>>
    BY <2>1 DEF ServerReceivesPunch, ServerReceivesCommand, clientVars
  <2>3. \/ session'[s] = session[s]
        \/ s = m.sid /\ session'[s] = m.path
    BY <1>1, <2>2 DEF EnsureSession, TypeOK
  <2>4. CASE s = m.sid /\ session'[s] = m.path
    <3>1. m.kind = "command"
      BY <1>3, <2>1, <2>4 DEF ServerReceivesPunch, ServerReceivesCommand
    <3>2. QED
      BY <1>1, <2>2, <2>4, <3>1 DEF CommandsAreOnPath
  <2>5. QED
    BY <1>5, <2>2, <2>3, <2>4
<1>8. QED
  BY <1>1, <1>2, <1>5, <1>6, <1>7, ActiveChanges, SessionChanges

LEMMA InvStep == IInv /\ [Next]_vars => IInv'
<1> SUFFICES ASSUME IInv, [Next]_vars PROVE IInv'
  OBVIOUS
<1>1. TypeOK'
  BY TypeStep DEF IInv
<1>2. QED
  BY <1>1, DmsStep, NotifyStep, DatagramsStep, CommandsStep, ActiveStep, HashStep, SessionStep,
     ResumedStep DEF IInv

THEOREM Invariance == Spec => []IInv
BY InvInit, InvStep, PTL DEF Spec

(* The two sides agree: what a client uses, the server has committed to,    *)
(* with the client as the peer it recorded; what the server serves, a       *)
(* trusted client punched for; and no failed attempt is in use.             *)
THEOREM Agreement ==
  Spec => []EndsAgree /\ []HashHasPeer
<1>1. IInv => EndsAgree /\ HashHasPeer
  BY DEF IInv, EndsAgree
<1>2. QED
  BY <1>1, Invariance, PTL

(* A session taken up by a server that was started again is one its client  *)
(* uses, on the path it uses.                                               *)
THEOREM Resumed == Spec => []ResumedOnPath
<1>1. IInv => ResumedOnPath
  BY DEF IInv
<1>2. QED
  BY <1>1, Invariance, PTL

(* A result is shown only when both ends of its session use one path.       *)
THEOREM ResultsOnOnePath == Spec => ShownOnOnePath
<1>1. IInv => [\A c \in Client, m \in udp : ClientReceivesResult(c, m) /\ NeverEnded =>
                 session[m.sid] = active[c][2]]_vars
  BY DEF IInv, DatagramsAreSound, ClientReceivesResult
<1>2. QED
  BY <1>1, Invariance, PTL DEF ShownOnOnePath

-----------------------------------------------------------------------------
(* Refinement: every step of the two programs is a step of Bootstrap.       *)

stageBar == [a \in Attempt |-> StageOf(phase[a])]
usingBar == [c \in Client |-> IF active[c] = None THEN None ELSE active[c][1]]

LEMMA AbstractInit == Init => Abstract!Init
BY DEF Init, Abstract!Init, StageOf

(* A client step moves one attempt from stage to stage, and nothing else.   *)
LEMMA ClientStepRefines ==
  ASSUME TypeOK, NEW a \in Attempt, ClientStep(a)
  PROVE  UNCHANGED <<stageBar, usingBar>> \/ Abstract!Begin(a) \/ Abstract!GiveUp(a)
<1>1. CASE Begin(a)
  <2>1. UNCHANGED <<active, agreed>> /\ phase' = [phase EXCEPT ![a] = "offering"]
    BY <1>1 DEF Begin, GoTo, serverVars, processVars
  <2>2. QED
    BY <1>1, <2>1 DEF Begin, Abstract!Begin, StageOf, TypeOK
<1>2. CASE \/ HelloTimeout(a) \/ HelloSendFails(a) \/ AnswerRejected(a)
           \/ AnswerNotPunchable(a) \/ ServerInfoNotPunchable(a) \/ PunchTimeout(a)
  <2>1. UNCHANGED <<active, agreed>> /\ phase' = [phase EXCEPT ![a] = "failed"]
    BY <1>2 DEF HelloTimeout, HelloSendFails, AnswerRejected, AnswerNotPunchable,
       ServerInfoNotPunchable, PunchTimeout, GoTo, serverVars, processVars
  <2>2. phase[a] \in {"offering", "helloing"} \union Punching
    BY <1>2 DEF HelloTimeout, HelloSendFails, AnswerRejected, AnswerNotPunchable,
       ServerInfoNotPunchable, PunchTimeout
  <2>3. QED
    BY <2>1, <2>2 DEF Abstract!GiveUp, StageOf, Punching, TypeOK
<1>3. ASSUME NEW p \in {"helloing"} \union Punching, GoTo(a, p), phase[a] \in {"offering", "helloing"},
             UNCHANGED active
      PROVE  UNCHANGED <<stageBar, usingBar>>
  BY <1>3 DEF GoTo, stageBar, usingBar, StageOf, Punching, TypeOK
<1>4. ASSUME FallBackToHello(a), phase[a] = "offering" PROVE UNCHANGED <<stageBar, usingBar>>
  BY <1>3, <1>4 DEF FallBackToHello
<1>5. CASE AnswerAccepted(a) \/ ServerInfo(a)
  <2>1. /\ AttemptOf(OfferSid(a)) = a /\ PunchPhase(OfferSid(a)) \in Punching
        /\ AttemptOf(HelloSid(a)) = a /\ PunchPhase(HelloSid(a)) \in Punching
    BY AttemptSids, SidParts
  <2>2. QED
    BY <1>3, <1>5, <2>1 DEF AnswerAccepted, ServerInfo, StartPunchAndWait
<1>6. ASSUME NEW type, AnswerTooLate(a, type) \/ ServerInfoTooLate(a)
      PROVE  UNCHANGED <<stageBar, usingBar>>
  BY <1>6 DEF AnswerTooLate, ServerInfoTooLate, stageBar, usingBar
<1>7. QED
  BY <1>1, <1>2, <1>4, <1>5, <1>6 DEF ClientStep, OfferTimeout, OfferSendFails, AnswerInvalid

(* Late packets aside, a punch packet ends an attempt in an agreed session. *)
LEMMA ReceivesPunchRefines ==
  ASSUME IInv, NEW m \in udp, ClientReceivesPunch(m)
  PROVE  UNCHANGED <<stageBar, usingBar>> \/ Abstract!Activate(m.sid)
<1>1. TypeOK /\ DatagramsAreSound
  BY DEF IInv
<1>2. m.sid \in Sid /\ m.path \in Path /\ AttemptOf(m.sid) \in Attempt /\ ClientOf(m.sid) \in Client
  BY <1>1, SidParts DEF TypeOK, Datagram
<1>3. CASE phase' = phase /\ active' = active
  BY <1>3 DEF stageBar, usingBar
<1>4. CASE ~(phase' = phase /\ active' = active)
  <2>1. /\ phase[AttemptOf(m.sid)] = PunchPhase(m.sid)
        /\ phase' = [phase EXCEPT ![AttemptOf(m.sid)] = "active"]
        /\ active' = [active EXCEPT ![ClientOf(m.sid)] = <<m.sid, m.path>>]
        /\ UNCHANGED agreed
    BY <1>4 DEF ClientReceivesPunch, serverVars, processVars
  <2>2. m.sid \in agreed
    BY <1>1 DEF DatagramsAreSound, ClientReceivesPunch
  <2>3. <<m.sid, m.path>> # None
    BY <1>2, NoneAssumption
  <2>4. stageBar[AttemptOf(m.sid)] = "trying"
    BY <1>2, <2>1, SidParts DEF stageBar, StageOf, Punching
  <2>5. stageBar' = [stageBar EXCEPT ![AttemptOf(m.sid)] = "active"]
    BY <1>1, <1>2, <2>1 DEF stageBar, StageOf, TypeOK
  <2>6. usingBar' = [usingBar EXCEPT ![ClientOf(m.sid)] = m.sid]
    BY <1>1, <1>2, <2>1, <2>3 DEF usingBar, TypeOK
  <2>7. QED
    BY <2>1, <2>2, <2>4, <2>5, <2>6
    DEF Abstract!Activate, stageBar, usingBar, AttemptOf, ClientOf
<1>5. QED
  BY <1>3, <1>4

LEMMA StepRefines == IInv /\ [Next]_vars => [Abstract!Next]_(Abstract!vars)
<1> SUFFICES ASSUME IInv, [Next]_vars PROVE [Abstract!Next]_(Abstract!vars)
  OBVIOUS
<1>1. TypeOK /\ NotifyIsSound
  BY DEF IInv
<1>2. CASE UNCHANGED <<stageBar, usingBar, agreed>>
  BY <1>2 DEF Abstract!vars, stageBar, usingBar
<1>3. CASE UNCHANGED <<phase, active>>
  <2>1. UNCHANGED <<stageBar, usingBar>>
    BY <1>3 DEF stageBar, usingBar
  <2>2. CASE StartPunch
    <3>1. notify.sid \in Sid /\ phase[AttemptOf(notify.sid)] # "idle"
      BY <1>1, <2>2 DEF StartPunch, Idle, NotifyIsSound, TypeOK, Working
    <3>2. phase[AttemptOf(notify.sid)] \in Phase /\ AttemptOf(notify.sid) \in Attempt
      BY <1>1, <3>1, SidParts DEF TypeOK
    <3>3. Abstract!Agree(notify.sid)
      BY <2>1, <2>2, <3>1, <3>2
      DEF StartPunch, Abstract!Agree, stageBar, usingBar, StageOf, AttemptOf
    <3>4. QED
      BY <3>1, <3>3 DEF Abstract!Next, Abstract!Sid, Sid
  <2>3. QED
    BY <1>2, <2>1, <2>2, HashChanges DEF ServerEnds
<1>4. ASSUME NEW a \in Attempt, ClientStep(a) PROVE [Abstract!Next]_(Abstract!vars)
  <2>1. UNCHANGED agreed
    BY <1>4 DEF ClientStep, Begin, OfferTimeout, OfferSendFails, FallBackToHello, HelloTimeout,
       HelloSendFails, AnswerAccepted, AnswerRejected, AnswerNotPunchable, AnswerInvalid,
       AnswerTooLate, ServerInfo, ServerInfoTooLate, ServerInfoNotPunchable, PunchTimeout,
       StartPunchAndWait, serverVars, processVars
  <2>2. QED
    BY <1>1, <1>2, <1>4, <2>1, ClientStepRefines DEF Abstract!Next
<1>5. ASSUME NEW m \in udp, ClientReceivesPunch(m) PROVE [Abstract!Next]_(Abstract!vars)
  <2>1. UNCHANGED agreed /\ m.sid \in Sid
    BY <1>1, <1>5 DEF ClientReceivesPunch, serverVars, processVars, TypeOK, Datagram
  <2>2. QED
    BY <1>2, <1>5, <2>1, ReceivesPunchRefines DEF Abstract!Next, Abstract!Sid, Sid
<1>6. ASSUME NEW a \in Attempt, ServerStep(a) PROVE UNCHANGED <<phase, active>>
  BY <1>6 DEF ServerStep, ReceiveOffer, ReceiveHello, ReplyFails, ServerEnds, clientVars
<1>7. CASE UNCHANGED vars
  BY <1>3, <1>7 DEF vars, clientVars
<1>8. QED
  BY <1>3, <1>4, <1>5, <1>6, <1>7 DEF Next, RecordPeer, StartPunch, StartPunchFails,
     Stop, ServerEnds, StartAgain, ClientProbe, ServerProbe, ServerReceivesPunch, ServerReceivesCommand,
     ClientReceivesResult, SendCommand, clientVars

(* The rendezvous implements Bootstrap: no interleaving of retries,         *)
(* fallbacks, late answers and late packets makes a client use a session    *)
(* the server did not agree to, or one of an attempt given up.              *)
THEOREM Refinement == Spec => ImplementsBootstrap
<1>1. QED
  BY AbstractInit, StepRefines, Invariance, PTL DEF Spec, ImplementsBootstrap, Abstract!Spec
=============================================================================
