------------------------ MODULE RendezvousNodeProofs ------------------------
(* What RendezvousNode does for any nodes, attempts and paths.              *)
EXTENDS RendezvousNode, TLAPS

Ends(a) == {Caller[a], Server}

(* A punch is registered, and probes are sent, only for what was agreed,    *)
(* and at its two ends.                                                     *)
HashInv ==
  \A n \in Node, a \in Attempt :
    /\ a \in timers[n] => a \in hashes[n]
    /\ a \in hashes[n] => a \in agreed /\ n \in Ends(a)

AgreedInv ==
  /\ \A a \in agreed \union handling : Trusts(Caller[a])
  /\ \A a \in Attempt : <<"response", a>> \in dms => a \in agreed

(* A session is of a registered nonce, or a probe in JSON named it.         *)
SessionInv ==
  \A n \in Node, x \in Nonce : sessions[n][x] # None =>
    \/ x \in Attempt /\ x \in hashes[n]
    \/ x \in JsonNonce /\ n = Server

(* A frame in flight travels on the path its sender keeps.                  *)
FrameInv ==
  \A m \in udp :
    /\ m.to \in Ends(m.nonce)
    /\ m.kind = "frame" /\ Peer(m.to, m.nonce) \notin closed
         => sessions[Peer(m.to, m.nonce)][m.nonce] = m.path

HeardInv ==
  \A a \in Attempt :
    /\ \E n \in Ends(a) : <<n, a>> \in heard
    /\ closed \intersect Ends(a) = {}
    => sessions[Caller[a]][a] = sessions[Server][a] /\ sessions[Server][a] # None

(* A connect that still waits for its response has registered nothing, and  *)
(* one that waits for the punch has no session.                             *)
Early == {"idle", "listing", "refreshing", "lookup", "waiting"}

PhaseInv ==
  \A a \in Attempt :
    /\ a \in pending => phase[a] = "waiting"
    /\ phase[a] \in Early => a \notin hashes[Caller[a]]
    /\ phase[a] = "punching" => sessions[Caller[a]][a] = None

ReturnedInv ==
  \A a \in Attempt : phase[a] = "ok" /\ Caller[a] \notin closed =>
    returned[a] = sessions[Caller[a]][a] /\ returned[a] # None

IInv ==
  /\ TypeOK
  /\ HashInv
  /\ AgreedInv
  /\ SessionInv
  /\ FrameInv
  /\ HeardInv
  /\ PhaseInv
  /\ ReturnedInv
  /\ ClosedHoldsNothing

-----------------------------------------------------------------------------
(* The two ends of an attempt are two nodes, each the peer of the other.    *)
LEMMA EndsFacts ==
  ASSUME NEW a \in Attempt
  PROVE  /\ a \in Nonce /\ a \notin JsonNonce
         /\ Caller[a] \in Client /\ Caller[a] \in Node /\ Caller[a] # Server /\ Server \in Node
         /\ \A n \in Ends(a) : n \in Node /\ Peer(n, a) \in Ends(a) /\ Peer(Peer(n, a), a) = n
BY CallerAssumption, ServerAssumption, JsonAssumption DEF Ends, Peer, Node, Nonce

(* The steps of connect that touch nothing but its own phase.               *)
Moves(a) ==
  \/ Connect(a) \/ ConnectToDiscoveredPeer(a) \/ Discovers(a) \/ Refreshed(a) \/ PunchTimeout(a)

Others == <<tables, handling, closed, dms, udp, history>>

LEMMA MovesOnly ==
  ASSUME TypeOK, NEW a \in Attempt, Moves(a)
  PROVE  /\ UNCHANGED Others
         /\ phase[a] # "waiting"
         /\ \E p \in Phase \ {"waiting", "punching", "ok"} :
              /\ phase' = [phase EXCEPT ![a] = p]
              /\ p # "failed" => phase[a] \in Early \ {"waiting"}
BY DEF Moves, Connect, ConnectToDiscoveredPeer, Discovers, Discovered, DiscoveryFails, Refreshed,
       PunchTimeout, GoTo, Others, Phase, Early, TypeOK

(* All the ways a step may go.                                              *)
LEMMA StepCases ==
  ASSUME Next, TypeOK
  PROVE  \/ \E a \in Attempt :
              \/ Moves(a) \/ SendOffer(a) \/ ResponseTimeout(a) \/ ReceiveResponse(a)
              \/ HearDm(a) \/ HandleClosed(a) \/ Handle(a)
              \/ \E n \in Ends(a) :
                    \/ \E p \in Path : SendProbe(n, a, p)
                    \/ StopPunch(n, a) \/ SendFrame(n, a)
         \/ \E m \in udp \union JsonProbe : ReceivePunch(m)
         \/ \E m \in udp : ReceiveFrame(m)
         \/ \E n \in Node : Close(n)
BY DEF Next, Moves, Handles, Ends

-----------------------------------------------------------------------------
(* A packet that reaches the handler: one of the nodes', whose nonce is     *)
(* registered, or a probe in JSON to the server.                            *)
LEMMA Heard ==
  ASSUME TypeOK, NEW m \in udp \union JsonProbe, ReceivePunch(m)
  PROVE  /\ m.to \in Node /\ m.nonce \in Nonce /\ m.path \in Path /\ m.path # None
         /\ \/ m \in udp /\ m.nonce \in Attempt /\ m.nonce \in hashes[m.to]
            \/ /\ m.kind = "json" /\ m.to = Server
               /\ m.nonce \in JsonNonce /\ m.nonce \notin Attempt
<1>1. CASE m \in udp
  <2>1. m.to \in Node /\ m.nonce \in Attempt /\ m.path \in Path /\ m.kind # "json"
    BY <1>1 DEF TypeOK
  <2>2. m.nonce \in hashes[m.to]
    BY <2>1 DEF ReceivePunch, Known
  <2>3. QED
    BY <1>1, <2>1, <2>2, NoneAssumption DEF Nonce
<1>2. CASE m \in JsonProbe
  <2>1. PICK x \in JsonNonce : \E p \in JsonPath[x] : m = Packet("json", Server, x, p)
    BY <1>2 DEF JsonProbe
  <2>2. JsonPath[x] \subseteq Path /\ x \notin Attempt
    BY JsonAssumption
  <2>3. m.kind = "json" /\ m.to = Server /\ m.nonce = x /\ m.path \in Path
    BY <2>1, <2>2 DEF Packet
  <2>4. QED
    BY <2>2, <2>3, NoneAssumption DEF Nonce, Node
<1>3. QED
  BY <1>1, <1>2

LEMMA TypeStep == TypeOK /\ [Next]_vars => TypeOK'
<1> SUFFICES ASSUME TypeOK, [Next]_vars PROVE TypeOK'
  OBVIOUS
<1> USE DEF TypeOK
<1>1. CASE UNCHANGED vars
  BY <1>1 DEF vars, tables, history
<1>2. ASSUME NEW a \in Attempt, Moves(a) PROVE TypeOK'
  BY <1>2, MovesOnly DEF Others, tables, history
<1>3. ASSUME NEW a \in Attempt, SendOffer(a) \/ ResponseTimeout(a) PROVE TypeOK'
  BY <1>3 DEF SendOffer, ResponseTimeout, GoTo, Phase, Dm, history
<1>4. ASSUME NEW a \in Attempt, ReceiveResponse(a) PROVE TypeOK'
  BY <1>4, EndsFacts DEF ReceiveResponse, StartPunch, GoTo, Phase, history
<1>5. ASSUME NEW a \in Attempt, HearDm(a) \/ HandleClosed(a) PROVE TypeOK'
  BY <1>5 DEF HearDm, HandleClosed, tables, history
<1>6. ASSUME NEW a \in Attempt, Handle(a) PROVE TypeOK'
  BY <1>6, EndsFacts DEF Handle, StartPunch, Dm
<1>7. ASSUME NEW a \in Attempt, NEW n \in Ends(a),
             (\E p \in Path : SendProbe(n, a, p)) \/ StopPunch(n, a) \/ SendFrame(n, a)
      PROVE TypeOK'
  <2>1. n \in Node /\ Peer(n, a) \in Node
    BY EndsFacts
  <2>2. CASE \E p \in Path : SendProbe(n, a, p)
    BY <2>1, <2>2 DEF SendProbe, Packet, tables, history
  <2>3. CASE StopPunch(n, a)
    BY <2>1, <2>3 DEF StopPunch, history
  <2>4. CASE SendFrame(n, a)
    <3>1. sessions[n][a] \in Path
      BY <2>1, <2>4, EndsFacts DEF SendFrame, PathOrNone
    <3>2. QED
      BY <2>1, <2>4, <3>1 DEF SendFrame, Packet, tables, history
  <2>5. QED
    BY <1>7, <2>2, <2>3, <2>4
<1>8. ASSUME NEW m \in udp \union JsonProbe, ReceivePunch(m) PROVE TypeOK'
  <2> DEFINE n == m.to  x == m.nonce
  <2>1. n \in Node /\ x \in Nonce /\ m.path \in Path
    BY <1>8, Heard
  <2>2. m.kind = "probe" => x \in Attempt /\ Peer(n, x) \in Node
    <3>1. m.kind = "probe" => x \in Attempt
      BY <1>8, Heard
    <3>2. QED
      BY <3>1, EndsFacts DEF Peer
  <2>3. udp' \subseteq [kind : {"probe", "ack", "frame"}, to : Node, nonce : Attempt, path : Path]
    BY <1>8, <2>1, <2>2 DEF ReceivePunch, Packet
  <2>4. sessions' \in [Node -> [Nonce -> PathOrNone]]
    BY <1>8, <2>1 DEF ReceivePunch, KeepSession, PathOrNone
  <2>5. phase' \in [Attempt -> Phase] /\ returned' \in [Attempt -> PathOrNone]
    BY <1>8, <2>1 DEF ReceivePunch, GoTo, Phase, PathOrNone
  <2>6. QED
    BY <1>8, <2>3, <2>4, <2>5 DEF ReceivePunch
<1>9. ASSUME NEW m \in udp, ReceiveFrame(m) PROVE TypeOK'
  BY <1>9 DEF ReceiveFrame, tables
<1>10. ASSUME NEW n \in Node, Close(n) PROVE TypeOK'
  BY <1>10 DEF Close, PathOrNone, history
<1> HIDE DEF TypeOK
<1>11. QED
  BY <1>1, <1>2, <1>3, <1>4, <1>5, <1>6, <1>7, <1>8, <1>9, <1>10, StepCases

LEMMA InitInv == Init => IInv
<1> SUFFICES ASSUME Init PROVE IInv
  OBVIOUS
<1> USE DEF Init
<1>1. TypeOK
  BY DEF TypeOK, Phase, PathOrNone
<1>2. /\ \A n \in Node : hashes[n] = {} /\ timers[n] = {}
      /\ \A n \in Node, x \in Nonce : sessions[n][x] = None
  OBVIOUS
<1>3. HashInv /\ SessionInv /\ ClosedHoldsNothing
  BY <1>2 DEF HashInv, SessionInv, ClosedHoldsNothing
<1>4. AgreedInv /\ FrameInv /\ HeardInv
  BY DEF AgreedInv, FrameInv, HeardInv
<1>5. PhaseInv /\ ReturnedInv
  BY <1>2, EndsFacts DEF PhaseInv, ReturnedInv, Early
<1>6. QED
  BY <1>1, <1>3, <1>4, <1>5 DEF IInv

-----------------------------------------------------------------------------
(* One lemma for each part of the invariant: the actions not named leave    *)
(* alone what it speaks of.                                                 *)

LEMMA HashStep == IInv /\ Next => HashInv'
<1> SUFFICES ASSUME IInv, Next PROVE HashInv'
  OBVIOUS
<1> USE DEF HashInv, TypeOK
<1>0. TypeOK /\ HashInv /\ AgreedInv /\ PhaseInv
  BY DEF IInv
<1>1. ASSUME UNCHANGED <<hashes, timers, agreed>> PROVE HashInv'
  BY <1>0, <1>1
<1>2. ASSUME NEW a \in Attempt, ReceiveResponse(a) PROVE HashInv'
  <2>1. a \in agreed /\ agreed' = agreed
    BY <1>0, <1>2 DEF ReceiveResponse, AgreedInv, history
  <2>2. QED
    BY <1>0, <1>2, <2>1, EndsFacts DEF ReceiveResponse, StartPunch, Ends
<1>3. ASSUME NEW a \in Attempt, Handle(a) PROVE HashInv'
  BY <1>0, <1>3, EndsFacts DEF Handle, StartPunch, Ends
<1>4. ASSUME NEW a \in Attempt, NEW n \in Ends(a), StopPunch(n, a) PROVE HashInv'
  BY <1>0, <1>4, EndsFacts DEF StopPunch, history
<1>5. ASSUME NEW n \in Node, Close(n) PROVE HashInv'
  BY <1>0, <1>5 DEF Close, history
<1>6. ASSUME NEW a \in Attempt,
             \/ Moves(a) \/ SendOffer(a) \/ ResponseTimeout(a) \/ HearDm(a) \/ HandleClosed(a)
             \/ \E n \in Ends(a) : (\E p \in Path : SendProbe(n, a, p)) \/ SendFrame(n, a)
      PROVE UNCHANGED <<hashes, timers, agreed>>
  BY <1>0, <1>6, MovesOnly DEF SendOffer, ResponseTimeout, HearDm, HandleClosed, SendProbe, SendFrame,
     Others, tables, history
<1>7. ASSUME NEW m \in udp \union JsonProbe, ReceivePunch(m) \/ ReceiveFrame(m)
      PROVE UNCHANGED <<hashes, timers, agreed>>
  BY <1>7 DEF ReceivePunch, ReceiveFrame, tables
<1> HIDE DEF HashInv, TypeOK
<1>8. QED
  BY <1>0, <1>1, <1>2, <1>3, <1>4, <1>5, <1>6, <1>7, StepCases

LEMMA AgreedStep == IInv /\ Next => AgreedInv'
<1> SUFFICES ASSUME IInv, Next PROVE AgreedInv'
  OBVIOUS
<1> USE DEF AgreedInv, TypeOK
<1>0. TypeOK /\ AgreedInv
  BY DEF IInv
<1>1. ASSUME UNCHANGED <<agreed, handling, dms>> PROVE AgreedInv'
  BY <1>0, <1>1
<1>2. ASSUME NEW a \in Attempt, SendOffer(a) PROVE AgreedInv'
  BY <1>0, <1>2 DEF SendOffer, history
<1>3. ASSUME NEW a \in Attempt, HearDm(a) \/ HandleClosed(a) PROVE AgreedInv'
  BY <1>0, <1>3 DEF HearDm, HandleClosed, history
<1>4. ASSUME NEW a \in Attempt, Handle(a) PROVE AgreedInv'
  BY <1>0, <1>4 DEF Handle
<1>5. ASSUME NEW a \in Attempt,
             \/ Moves(a) \/ ResponseTimeout(a) \/ ReceiveResponse(a)
             \/ \E n \in Ends(a) :
                  \/ \E p \in Path : SendProbe(n, a, p)
                  \/ StopPunch(n, a) \/ SendFrame(n, a)
      PROVE UNCHANGED <<agreed, handling, dms>>
  BY <1>0, <1>5, MovesOnly DEF ResponseTimeout, ReceiveResponse, SendProbe, StopPunch, SendFrame,
     Others, history
<1>6. ASSUME NEW m \in udp \union JsonProbe, ReceivePunch(m) \/ ReceiveFrame(m)
      PROVE UNCHANGED <<agreed, handling, dms>>
  BY <1>6 DEF ReceivePunch, ReceiveFrame
<1>7. ASSUME NEW n \in Node, Close(n) PROVE UNCHANGED <<agreed, handling, dms>>
  BY <1>7 DEF Close, history
<1> HIDE DEF AgreedInv, TypeOK
<1>8. QED
  BY <1>0, <1>1, <1>2, <1>3, <1>4, <1>5, <1>6, <1>7, StepCases

(* A punch packet opens the session it is for, if that is not open yet.     *)
LEMMA Kept ==
  ASSUME TypeOK, NEW m \in udp \union JsonProbe, ReceivePunch(m)
  PROVE  \A n \in Node, x \in Nonce :
           sessions'[n][x] = IF n = m.to /\ x = m.nonce /\ sessions[n][x] = None
                             THEN m.path ELSE sessions[n][x]
BY Heard DEF ReceivePunch, KeepSession, TypeOK

LEMMA SessionStep == IInv /\ Next => SessionInv'
<1> SUFFICES ASSUME IInv, Next PROVE SessionInv'
  OBVIOUS
<1> USE DEF SessionInv, TypeOK
<1>0. TypeOK /\ SessionInv
  BY DEF IInv
<1>1. ASSUME UNCHANGED <<hashes, sessions>> PROVE SessionInv'
  BY <1>0, <1>1
<1>2. ASSUME NEW a \in Attempt, ReceiveResponse(a) \/ Handle(a) PROVE SessionInv'
  <2>1. sessions' = sessions
    BY <1>2 DEF ReceiveResponse, Handle
  <2>2. ASSUME NEW c \in Node, StartPunch(c, a) PROVE \A n \in Node : hashes[n] \subseteq hashes'[n]
    BY <1>0, <2>2 DEF StartPunch
  <2>3. \A n \in Node : hashes[n] \subseteq hashes'[n]
    BY <1>2, <2>2, EndsFacts DEF ReceiveResponse, Handle
  <2>4. QED
    BY <1>0, <2>1, <2>3
<1>3. ASSUME NEW m \in udp \union JsonProbe, ReceivePunch(m) PROVE SessionInv'
  <2>1. hashes' = hashes
    BY <1>3 DEF ReceivePunch
  <2>2. \A n \in Node, x \in Nonce : sessions'[n][x] # None =>
          sessions[n][x] # None \/ (n = m.to /\ x = m.nonce)
    BY <1>0, <1>3, Kept
  <2>3. \/ m.nonce \in Attempt /\ m.nonce \in hashes[m.to]
        \/ m.nonce \in JsonNonce /\ m.to = Server
    BY <1>0, <1>3, Heard
  <2>4. QED
    BY <1>0, <2>1, <2>2, <2>3
<1>4. ASSUME NEW n \in Node, Close(n) PROVE SessionInv'
  BY <1>0, <1>4 DEF Close
<1>5. ASSUME NEW a \in Attempt,
             \/ Moves(a) \/ SendOffer(a) \/ ResponseTimeout(a) \/ HearDm(a) \/ HandleClosed(a)
             \/ \E n \in Ends(a) :
                  \/ \E p \in Path : SendProbe(n, a, p)
                  \/ StopPunch(n, a) \/ SendFrame(n, a)
      PROVE UNCHANGED <<hashes, sessions>>
  BY <1>0, <1>5, MovesOnly DEF SendOffer, ResponseTimeout, HearDm, HandleClosed, SendProbe, StopPunch,
     SendFrame, Others, tables
<1>6. ASSUME NEW m \in udp, ReceiveFrame(m) PROVE UNCHANGED <<hashes, sessions>>
  BY <1>6 DEF ReceiveFrame, tables
<1> HIDE DEF SessionInv, TypeOK
<1>7. QED
  BY <1>0, <1>1, <1>2, <1>3, <1>4, <1>5, <1>6, StepCases

(* What close() does to sessions: those of the node are gone.               *)
LEMMA ClosedSessions ==
  ASSUME TypeOK, NEW n \in Node, Close(n)
  PROVE  /\ closed' = closed \union {n}
         /\ \A k \in Node, x \in Nonce :
              sessions'[k][x] = IF k = n THEN None ELSE sessions[k][x]
BY DEF Close, TypeOK

LEMMA FrameStep == IInv /\ Next => FrameInv'
<1> SUFFICES ASSUME IInv, Next PROVE FrameInv'
  OBVIOUS
<1> USE DEF FrameInv
<1>0. TypeOK /\ FrameInv
  BY DEF IInv
<1>a. \A m \in udp : /\ m.to \in Node /\ m.nonce \in Attempt /\ m.nonce \in Nonce
                     /\ m.path \in Path /\ m.path # None
  BY <1>0, NoneAssumption DEF TypeOK, Nonce
<1>1. ASSUME UNCHANGED <<udp, closed, sessions>> PROVE FrameInv'
  BY <1>0, <1>1
<1>2. ASSUME NEW a \in Attempt, NEW n \in Ends(a), NEW p \in Path, SendProbe(n, a, p)
      PROVE FrameInv'
  BY <1>0, <1>2, EndsFacts DEF SendProbe, Packet, tables
<1>3. ASSUME NEW a \in Attempt, NEW n \in Ends(a), SendFrame(n, a) PROVE FrameInv'
  BY <1>0, <1>3, EndsFacts DEF SendFrame, Packet, tables
<1>4. ASSUME NEW m \in udp \union JsonProbe, ReceivePunch(m) PROVE FrameInv'
  <2> DEFINE answer == Packet("ack", Peer(m.to, m.nonce), m.nonce, m.path)
  <2>1. /\ udp' = IF m.kind = "probe" THEN udp \union {answer} ELSE udp
        /\ closed' = closed
    BY <1>4 DEF ReceivePunch
  <2>2. m.kind = "probe" => answer.kind = "ack" /\ answer.to \in Ends(answer.nonce)
    <3>1. m.kind = "probe" => m \in udp /\ m.nonce \in Attempt
      BY <1>0, <1>4, Heard
    <3>2. QED
      BY <1>0, <3>1, EndsFacts DEF Packet
  <2>3. ASSUME NEW f \in udp, f.kind = "frame", Peer(f.to, f.nonce) \notin closed
        PROVE  sessions'[Peer(f.to, f.nonce)][f.nonce] = f.path
    <3>1. sessions[Peer(f.to, f.nonce)][f.nonce] = f.path /\ Peer(f.to, f.nonce) \in Node
      BY <1>0, <1>a, <2>3, EndsFacts
    <3>2. QED
      BY <1>0, <1>4, <1>a, <3>1, Kept
  <2>4. QED
    BY <1>0, <2>1, <2>2, <2>3
<1>5. ASSUME NEW n \in Node, Close(n) PROVE FrameInv'
  <2>1. udp' = udp
    BY <1>5 DEF Close
  <2>2. \A m \in udp : Peer(m.to, m.nonce) \in Node
    BY <1>0, <1>a, EndsFacts
  <2>3. QED
    BY <1>0, <1>5, <1>a, <2>1, <2>2, ClosedSessions
<1>6. ASSUME NEW a \in Attempt,
             \/ Moves(a) \/ SendOffer(a) \/ ResponseTimeout(a) \/ ReceiveResponse(a)
             \/ HearDm(a) \/ HandleClosed(a) \/ Handle(a)
             \/ \E n \in Ends(a) : StopPunch(n, a)
      PROVE UNCHANGED <<udp, closed, sessions>>
  BY <1>0, <1>6, MovesOnly DEF SendOffer, ResponseTimeout, ReceiveResponse, HearDm, HandleClosed,
     Handle, StopPunch, Others, tables
<1>7. ASSUME NEW m \in udp, ReceiveFrame(m) PROVE UNCHANGED <<udp, closed, sessions>>
  BY <1>7 DEF ReceiveFrame, tables
<1> HIDE DEF FrameInv
<1>8. QED
  BY <1>0, <1>1, <1>2, <1>3, <1>4, <1>5, <1>6, <1>7, StepCases

LEMMA HeardStep == IInv /\ Next => HeardInv'
<1> SUFFICES ASSUME IInv, Next PROVE HeardInv'
  OBVIOUS
<1> USE DEF HeardInv
<1>0. TypeOK /\ FrameInv /\ HeardInv
  BY DEF IInv
<1>1. ASSUME UNCHANGED <<heard, closed, sessions>> PROVE HeardInv'
  BY <1>0, <1>1
<1>2. ASSUME NEW m \in udp, ReceiveFrame(m) PROVE HeardInv'
  <2> DEFINE n == m.to  a == m.nonce
  <2>1. a \in Attempt /\ m.path # None /\ UNCHANGED <<closed, sessions>>
    BY <1>0, <1>2, NoneAssumption DEF TypeOK, ReceiveFrame, tables
  <2>2. n \in Ends(a) /\ Ends(a) = {n, Peer(n, a)}
    BY <1>0, <2>1, EndsFacts DEF FrameInv, Ends, Peer
  <2>3. closed \intersect Ends(a) = {} =>
          sessions[n][a] = m.path /\ sessions[Peer(n, a)][a] = m.path
    BY <1>0, <1>2, <2>2 DEF FrameInv, ReceiveFrame
  <2>4. closed \intersect Ends(a) = {} =>
          sessions[Caller[a]][a] = m.path /\ sessions[Server][a] = m.path
    BY <2>2, <2>3 DEF Ends
  <2>5. heard' = heard \union {<<n, a>>}
    BY <1>2 DEF ReceiveFrame
  <2>6. QED
    BY <1>0, <2>1, <2>4, <2>5
<1>3. ASSUME NEW m \in udp \union JsonProbe, ReceivePunch(m) PROVE HeardInv'
  <2>1. UNCHANGED <<heard, closed>>
    BY <1>3 DEF ReceivePunch
  <2>2. \A a \in Attempt, k \in Node : sessions[k][a] # None => sessions'[k][a] = sessions[k][a]
    BY <1>0, <1>3, Kept DEF Nonce
  <2>3. QED
    BY <1>0, <2>1, <2>2, EndsFacts
<1>4. ASSUME NEW n \in Node, Close(n) PROVE HeardInv'
  <2>1. heard' = heard
    BY <1>4 DEF Close, history
  <2>2. ASSUME NEW a \in Attempt, closed' \intersect Ends(a) = {}
        PROVE  /\ closed \intersect Ends(a) = {}
               /\ sessions'[Caller[a]][a] = sessions[Caller[a]][a]
               /\ sessions'[Server][a] = sessions[Server][a]
    BY <1>0, <1>4, <2>2, ClosedSessions, EndsFacts DEF Ends
  <2>3. QED
    BY <1>0, <2>1, <2>2
<1>5. ASSUME NEW a \in Attempt,
             \/ Moves(a) \/ SendOffer(a) \/ ResponseTimeout(a) \/ ReceiveResponse(a)
             \/ HearDm(a) \/ HandleClosed(a) \/ Handle(a)
             \/ \E n \in Ends(a) :
                  \/ \E p \in Path : SendProbe(n, a, p)
                  \/ StopPunch(n, a) \/ SendFrame(n, a)
      PROVE UNCHANGED <<heard, closed, sessions>>
  BY <1>0, <1>5, MovesOnly DEF SendOffer, ResponseTimeout, ReceiveResponse, HearDm, HandleClosed,
     Handle, SendProbe, StopPunch, SendFrame, Others, tables, history
<1> HIDE DEF HeardInv
<1>6. QED
  BY <1>0, <1>1, <1>2, <1>3, <1>4, <1>5, StepCases

LEMMA PhaseStep == IInv /\ Next => PhaseInv'
<1> SUFFICES ASSUME IInv, Next PROVE PhaseInv'
  OBVIOUS
<1> USE DEF PhaseInv
<1>0. TypeOK /\ PhaseInv /\ SessionInv
  BY DEF IInv
<1>1. ASSUME UNCHANGED <<phase, pending, hashes, sessions>> PROVE PhaseInv'
  BY <1>0, <1>1
<1>2. ASSUME NEW a \in Attempt, Moves(a) PROVE PhaseInv'
  BY <1>0, <1>2, MovesOnly DEF TypeOK, Early, Others, tables
<1>3. ASSUME NEW a \in Attempt, SendOffer(a) \/ ResponseTimeout(a) PROVE PhaseInv'
  BY <1>0, <1>3 DEF SendOffer, ResponseTimeout, GoTo, TypeOK, Early
<1>4. ASSUME NEW a \in Attempt, ReceiveResponse(a) PROVE PhaseInv'
  <2>1. sessions' = sessions /\ sessions[Caller[a]][a] = None
    BY <1>0, <1>4, EndsFacts DEF ReceiveResponse, SessionInv, Early
  <2>2. \A b \in Attempt : b # a => (b \in hashes'[Caller[b]] <=> b \in hashes[Caller[b]])
    BY <1>0, <1>4, EndsFacts DEF ReceiveResponse, StartPunch, TypeOK
  <2>3. /\ phase' = [phase EXCEPT ![a] = "punching"]
        /\ pending' = pending \ {a}
    BY <1>4 DEF ReceiveResponse, GoTo
  <2>4. QED
    BY <1>0, <2>1, <2>2, <2>3 DEF TypeOK, Early
<1>5. ASSUME NEW a \in Attempt, Handle(a) PROVE PhaseInv'
  <2>1. \A b \in Attempt : hashes'[Caller[b]] = hashes[Caller[b]]
    BY <1>0, <1>5, EndsFacts DEF Handle, StartPunch, TypeOK
  <2>2. QED
    BY <1>0, <1>5, <2>1 DEF Handle
<1>6. ASSUME NEW m \in udp \union JsonProbe, ReceivePunch(m) PROVE PhaseInv'
  <2>1. UNCHANGED <<pending, hashes>>
    BY <1>6 DEF ReceivePunch
  <2>2. ASSUME NEW b \in Attempt
        PROVE  \/ phase'[b] = phase[b] /\ ~(phase[b] = "punching" /\ m.to = Caller[b] /\ m.nonce = b)
               \/ phase[b] = "punching" /\ phase'[b] = "ok"
    BY <1>0, <1>6 DEF ReceivePunch, GoTo, TypeOK
  <2>3. QED
    BY <1>0, <1>6, <2>1, <2>2, Kept, EndsFacts DEF Early
<1>7. ASSUME NEW n \in Node, Close(n) PROVE PhaseInv'
  <2>1. /\ phase' = phase /\ pending' \subseteq pending
        /\ \A k \in Node : hashes'[k] \subseteq hashes[k]
    BY <1>0, <1>7 DEF Close, TypeOK
  <2>2. QED
    BY <1>0, <1>7, <2>1, ClosedSessions, EndsFacts
<1>8. ASSUME NEW a \in Attempt,
             \/ HearDm(a) \/ HandleClosed(a)
             \/ \E n \in Ends(a) :
                  \/ \E p \in Path : SendProbe(n, a, p)
                  \/ StopPunch(n, a) \/ SendFrame(n, a)
      PROVE UNCHANGED <<phase, pending, hashes, sessions>>
  BY <1>8 DEF HearDm, HandleClosed, SendProbe, StopPunch, SendFrame, tables
<1>9. ASSUME NEW m \in udp, ReceiveFrame(m) PROVE UNCHANGED <<phase, pending, hashes, sessions>>
  BY <1>9 DEF ReceiveFrame, tables
<1> HIDE DEF PhaseInv
<1>10. QED
  BY <1>0, <1>1, <1>2, <1>3, <1>4, <1>5, <1>6, <1>7, <1>8, <1>9, StepCases

LEMMA ReturnedStep == IInv /\ Next => ReturnedInv'
<1> SUFFICES ASSUME IInv, Next PROVE ReturnedInv'
  OBVIOUS
<1> USE DEF ReturnedInv
<1>0. TypeOK /\ PhaseInv /\ ReturnedInv
  BY DEF IInv
<1>1. ASSUME UNCHANGED <<closed, returned, sessions>>,
             \A a \in Attempt : phase'[a] = "ok" => phase[a] = "ok"
      PROVE  ReturnedInv'
  BY <1>0, <1>1
<1>2. ASSUME NEW m \in udp \union JsonProbe, ReceivePunch(m) PROVE ReturnedInv'
  <2>1. closed' = closed
    BY <1>2 DEF ReceivePunch
  <2>2. ASSUME NEW a \in Attempt
        PROVE  \/ phase'[a] = phase[a] /\ returned'[a] = returned[a]
               \/ /\ m.to = Caller[a] /\ m.nonce = a /\ phase[a] = "punching"
                  /\ returned'[a] = m.path
    BY <1>0, <1>2 DEF ReceivePunch, GoTo, TypeOK
  <2>3. ASSUME NEW a \in Attempt
        PROVE  sessions'[Caller[a]][a] =
                 IF Caller[a] = m.to /\ a = m.nonce /\ sessions[Caller[a]][a] = None
                 THEN m.path ELSE sessions[Caller[a]][a]
    BY <1>0, <1>2, Kept, EndsFacts
  <2>4. m.path # None
    BY <1>0, <1>2, Heard
  <2>5. QED
    BY <1>0, <2>1, <2>2, <2>3, <2>4 DEF PhaseInv
<1>3. ASSUME NEW n \in Node, Close(n) PROVE ReturnedInv'
  BY <1>0, <1>3, ClosedSessions, EndsFacts DEF Close, history
<1>4. ASSUME NEW a \in Attempt, Moves(a) PROVE ReturnedInv'
  BY <1>0, <1>1, <1>4, MovesOnly DEF TypeOK, Others, tables, history
<1>5. ASSUME NEW a \in Attempt, SendOffer(a) \/ ResponseTimeout(a) \/ ReceiveResponse(a)
      PROVE ReturnedInv'
  BY <1>0, <1>1, <1>5 DEF SendOffer, ResponseTimeout, ReceiveResponse, GoTo, TypeOK, history
<1>6. ASSUME NEW a \in Attempt,
             \/ HearDm(a) \/ HandleClosed(a) \/ Handle(a)
             \/ \E n \in Ends(a) :
                  \/ \E p \in Path : SendProbe(n, a, p)
                  \/ StopPunch(n, a) \/ SendFrame(n, a)
      PROVE ReturnedInv'
  BY <1>1, <1>6 DEF HearDm, HandleClosed, Handle, SendProbe, StopPunch, SendFrame, tables, history
<1>7. ASSUME NEW m \in udp, ReceiveFrame(m) PROVE ReturnedInv'
  BY <1>1, <1>7 DEF ReceiveFrame, tables
<1> HIDE DEF ReturnedInv
<1>8. QED
  BY <1>0, <1>2, <1>3, <1>4, <1>5, <1>6, <1>7, StepCases

LEMMA ClosedStep == IInv /\ Next => ClosedHoldsNothing'
<1> SUFFICES ASSUME IInv, Next PROVE ClosedHoldsNothing'
  OBVIOUS
<1> USE DEF ClosedHoldsNothing
<1>0. TypeOK /\ ClosedHoldsNothing
  BY DEF IInv
<1>1. ASSUME UNCHANGED <<closed, timers, hashes, sessions>> PROVE ClosedHoldsNothing'
  BY <1>0, <1>1
<1>2. ASSUME NEW a \in Attempt, NEW c \in Node, StartPunch(c, a), c \notin closed,
             UNCHANGED <<closed, sessions>>
      PROVE  ClosedHoldsNothing'
  BY <1>0, <1>2 DEF StartPunch, TypeOK
<1>3. ASSUME NEW a \in Attempt, ReceiveResponse(a) \/ Handle(a) PROVE ClosedHoldsNothing'
  BY <1>2, <1>3, EndsFacts DEF ReceiveResponse, Handle
<1>4. ASSUME NEW a \in Attempt, NEW n \in Ends(a), StopPunch(n, a) PROVE ClosedHoldsNothing'
  BY <1>0, <1>4, EndsFacts DEF StopPunch, TypeOK
<1>5. ASSUME NEW m \in udp \union JsonProbe, ReceivePunch(m) PROVE ClosedHoldsNothing'
  <2>1. UNCHANGED <<closed, timers, hashes>> /\ m.to \notin closed
    BY <1>5 DEF ReceivePunch
  <2>2. \A k \in closed : k \in Node
    BY <1>0 DEF TypeOK
  <2>3. QED
    BY <1>0, <1>5, <2>1, <2>2, Kept
<1>6. ASSUME NEW n \in Node, Close(n) PROVE ClosedHoldsNothing'
  BY <1>0, <1>6, ClosedSessions DEF Close, TypeOK
<1>7. ASSUME NEW a \in Attempt,
             \/ Moves(a) \/ SendOffer(a) \/ ResponseTimeout(a) \/ HearDm(a) \/ HandleClosed(a)
             \/ \E n \in Ends(a) : (\E p \in Path : SendProbe(n, a, p)) \/ SendFrame(n, a)
      PROVE UNCHANGED <<closed, timers, hashes, sessions>>
  BY <1>0, <1>7, MovesOnly DEF SendOffer, ResponseTimeout, HearDm, HandleClosed, SendProbe, SendFrame,
     Others, tables
<1>8. ASSUME NEW m \in udp, ReceiveFrame(m) PROVE UNCHANGED <<closed, timers, hashes, sessions>>
  BY <1>8 DEF ReceiveFrame, tables
<1> HIDE DEF ClosedHoldsNothing
<1>9. QED
  BY <1>0, <1>1, <1>3, <1>4, <1>5, <1>6, <1>7, <1>8, StepCases

-----------------------------------------------------------------------------
(* IInv is an inductive invariant of the package.                           *)
THEOREM Invariance == Spec => []IInv
<1>1. IInv /\ [Next]_vars => IInv'
  <2> SUFFICES ASSUME IInv, [Next]_vars PROVE IInv'
    OBVIOUS
  <2>1. CASE Next
    BY <2>1, TypeStep, HashStep, AgreedStep, SessionStep, FrameStep, HeardStep, PhaseStep,
       ReturnedStep, ClosedStep DEF IInv
  <2>2. CASE UNCHANGED vars
    <3> USE <2>2 DEF vars, tables, history, IInv
    <3>1. TypeOK' /\ HashInv' /\ AgreedInv'
      BY DEF TypeOK, HashInv, AgreedInv
    <3>2. SessionInv' /\ FrameInv' /\ HeardInv'
      BY DEF SessionInv, FrameInv, HeardInv
    <3>3. PhaseInv' /\ ReturnedInv' /\ ClosedHoldsNothing'
      BY DEF PhaseInv, ReturnedInv, ClosedHoldsNothing
    <3>4. QED
      BY <3>1, <3>2, <3>3
  <2>3. QED
    BY <2>1, <2>2
<1>2. QED
  BY InitInv, <1>1, PTL DEF Spec

(* Every variable keeps its type.                                           *)
THEOREM TypeCorrect == Spec => []TypeOK
<1>1. IInv => TypeOK
  BY DEF IInv
<1>2. QED
  BY <1>1, Invariance, PTL

(* A session is of an attempt the server agreed to, for a client it trusts, *)
(* or the server has it because a probe in JSON named its nonce.            *)
THEOREM SessionsAgreedOrNamed == Spec => []SessionIsAgreedOrNamed
<1>1. IInv => SessionIsAgreedOrNamed
  BY EndsFacts DEF IInv, SessionIsAgreedOrNamed, SessionInv, HashInv, AgreedInv, Ends
<1>2. QED
  BY <1>1, Invariance, PTL

(* A frame that got through proves that both ends keep one path.            *)
THEOREM OnePath == Spec => []HeardMeansOnePath
<1>1. IInv => HeardMeansOnePath
  BY DEF IInv, HeardMeansOnePath, HeardInv, Ends
<1>2. QED
  BY <1>1, Invariance, PTL

(* connect returns the remote of the session it returns.                    *)
THEOREM Returned == Spec => []ReturnedIsSession
<1>1. IInv => ReturnedIsSession
  BY DEF IInv, ReturnedIsSession, ReturnedInv
<1>2. QED
  BY <1>1, Invariance, PTL

(* Nothing is left on a closed node, and nothing comes back.                *)
THEOREM StaysClosed == Spec => []ClosedHoldsNothing
<1>1. IInv => ClosedHoldsNothing
  BY DEF IInv
<1>2. QED
  BY <1>1, Invariance, PTL
=============================================================================
