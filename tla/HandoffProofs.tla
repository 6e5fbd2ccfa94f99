---------------------------- MODULE HandoffProofs ----------------------------
(***************************************************************************)
(* Theorems about the connect calls of a client: the punch and what comes  *)
(* of it.                                                                  *)
(*                                                                         *)
(* About Handoff, for any clients and daemons: the invariant follows what  *)
(* makes a connection an expected one along its way, from the record of    *)
(* the peer, over the notify task and the hash, to the packets of the      *)
(* server and the phase of the client.                                     *)
(*                                                                         *)
(* About PunchTiming, for any waits, delays, latencies, clocks, addresses  *)
(* and paths: the invariant dates every message, answer and punch by the   *)
(* moment at which the server read what it goes back to.                   *)
(*                                                                         *)
(* Spec, Init, Next and vars are Handoff's; PunchTiming has its own names. *)
(***************************************************************************)
EXTENDS Handoff, PunchTiming, TLAPS


(* The server will hand its socket to the session of c, or has done so.     *)
Known(c) == c \in pendingHandoffs \/ adopted = c

SocketInv == loop = "receiving" => adopted = None

NotifyInv == notify # Idle /\ notify.at = "recorded" => Known(notify.client)

HashInv == \A c \in sessionHashes : Known(c)

PacketInv == \A m \in udp :
  /\ m.to = "client" => m.client \in sessionHashes
  /\ m.to = "server" => Punched(m.client)

PathInv == \A c \in Client : phase[c] \in {"stopping", "adopted"} => c \in sessionHashes

IInv ==
  /\ TypeOK
  /\ SocketInv
  /\ NotifyInv
  /\ HashInv
  /\ PacketInv
  /\ PathInv
  /\ SocketGoesToPuncher

LEMMA IInvInit == Init => IInv
BY NoneAssumption DEF Init, IInv, TypeOK, SocketInv, NotifyInv, HashInv, PacketInv, PathInv,
                      SocketGoesToPuncher, Idle, Phase

-----------------------------------------------------------------------------
(* What the steps do, as far as the invariant depends on it.               *)

(* Once a client has punched, that stays so.                               *)
PunchedStays == \A c \in Client : Punched(c) => Punched(c)'

(* Nobody comes by a path but by a packet of the server.                   *)
NoNewPath == \A c \in Client :
  phase'[c] \in {"stopping", "adopted"} => phase[c] \in {"stopping", "adopted"}

(* Steps of a client that send no packet and find no path.                 *)
MovesOn(c) ==
  Ask(c) \/ Answered(c) \/ Fail(c) \/ StopReceiving(c) \/ Adopt(c)
  \/ DaemonReturns(c) \/ ClientReturns(c)

LEMMA MovesOnEffect ==
  ASSUME TypeOK, NEW c \in Client, MovesOn(c)
  PROVE  /\ TypeOK'
         /\ PunchedStays
         /\ NoNewPath
         /\ UNCHANGED <<notify, tables, loop, adopted, udp>>
<1> USE DEF TypeOK, Punched, PunchedStays, NoNewPath, Phase, tables
<1>1. CASE Ask(c)
  BY <1>1 DEF Ask, Move, DmOf, Dm
<1>2. CASE Answered(c)
  BY <1>2 DEF Answered, Move
<1>3. CASE Fail(c)
  <2>1. CASE Move(c, "asking", "unanswered")
    BY <1>3, <2>1 DEF Fail, Move
  <2>2. CASE Move(c, "punching", "failed")
    BY <1>3, <2>2 DEF Fail, Move
  <2>3. CASE Move(c, "stopping", "failed")
    BY <1>3, <2>3 DEF Fail, Move
  <2> QED BY <1>3, <2>1, <2>2, <2>3 DEF Fail
<1>4. CASE StopReceiving(c)
  BY <1>4 DEF StopReceiving
<1>5. CASE Adopt(c)
  BY <1>5 DEF Adopt, Move
<1>6. CASE DaemonReturns(c)
  BY <1>6 DEF DaemonReturns
<1>7. CASE ClientReturns(c)
  BY <1>7 DEF ClientReturns, Move
<1> QED BY <1>1, <1>2, <1>3, <1>4, <1>5, <1>6, <1>7 DEF MovesOn

(* If nobody else's state changes the invariant stays.                     *)
LEMMA QuietStep ==
  ASSUME IInv, TypeOK', PunchedStays, NoNewPath, UNCHANGED <<notify, tables, loop, adopted, udp>>
  PROVE  IInv'
<1> USE DEF IInv, tables
<1>1. SocketInv' /\ NotifyInv' /\ HashInv'
  BY DEF SocketInv, NotifyInv, HashInv, Known
<1>2. PacketInv'
  BY DEF PacketInv, PunchedStays, TypeOK, Punch
<1>3. PathInv'
  BY DEF PathInv, NoNewPath
<1>4. SocketGoesToPuncher'
  BY DEF SocketGoesToPuncher, PunchedStays, TypeOK
<1> QED BY <1>1, <1>2, <1>3, <1>4

LEMMA ClientProbeStep ==
  ASSUME IInv, NEW c \in Client, ClientProbe(c)
  PROVE  IInv'
<1> USE DEF IInv, ClientProbe, clientVars, tables
<1>1. TypeOK'
  BY DEF TypeOK, Packet, Punch
<1>2. SocketInv' /\ NotifyInv' /\ HashInv' /\ PathInv' /\ SocketGoesToPuncher'
  BY DEF SocketInv, NotifyInv, HashInv, PathInv, SocketGoesToPuncher, Known, Punched
<1>3. PacketInv'
  BY DEF PacketInv, Packet, Punched
<1> QED BY <1>1, <1>2, <1>3

(* The packet is of a session of the server's, and so is the path.          *)
LEMMA ClientReceivesPunchStep ==
  ASSUME IInv, NEW m \in udp, ClientReceivesPunch(m)
  PROVE  IInv'
<1> USE DEF IInv, ClientReceivesPunch, clientVars, tables
<1>1. m.client \in Client /\ m.client \in sessionHashes
  BY DEF TypeOK, Punch, PacketInv
<1>2. TypeOK'
  BY <1>1 DEF TypeOK, Phase, Packet, Punch
<1>3. PunchedStays
  BY <1>1 DEF PunchedStays, Punched, TypeOK
<1>4. SocketInv' /\ NotifyInv' /\ HashInv'
  BY DEF SocketInv, NotifyInv, HashInv, Known
<1>5. PacketInv'
  <2>1. Punched(m.client)'
    BY <1>1, <1>3 DEF PunchedStays
  <2> QED BY <2>1, <1>3 DEF PacketInv, PunchedStays, Packet, TypeOK, Punch
<1>6. PathInv'
  BY <1>1 DEF PathInv, TypeOK
<1>7. SocketGoesToPuncher'
  BY <1>3 DEF SocketGoesToPuncher, PunchedStays, TypeOK
<1> QED BY <1>2, <1>4, <1>5, <1>6, <1>7

-----------------------------------------------------------------------------
(* The notify task records the peer, then the hash.                        *)

LEMMA NotifyStep ==
  ASSUME IInv, (\E c \in Client : ReceiveAsk(c)) \/ RecordPeer \/ StartPunch
  PROVE  IInv'
<1> USE DEF IInv, clientVars, tables
<1>1. ASSUME NEW c \in Client, ReceiveAsk(c) PROVE IInv'
  <2> USE <1>1 DEF ReceiveAsk
  <2>1. TypeOK'
    BY DEF TypeOK, DmOf, Dm
  <2>2. NotifyInv'
    BY DEF NotifyInv
  <2>3. SocketInv' /\ HashInv' /\ PathInv' /\ SocketGoesToPuncher' /\ PacketInv'
    BY DEF SocketInv, HashInv, PathInv, SocketGoesToPuncher, PacketInv, Known, Punched
  <2> QED BY <2>1, <2>2, <2>3
<1>2. CASE RecordPeer
  <2> USE <1>2 DEF RecordPeer
  <2>1. notify \in [at : {"answered", "recorded"}, client : Client]
    BY DEF TypeOK, Idle
  <2>2. TypeOK'
    BY <2>1 DEF TypeOK
  <2>3. NotifyInv'
    BY <2>1 DEF NotifyInv, Known
  <2>4. SocketInv' /\ HashInv' /\ PathInv' /\ SocketGoesToPuncher' /\ PacketInv'
    BY DEF SocketInv, HashInv, PathInv, SocketGoesToPuncher, PacketInv, Known, Punched
  <2> QED BY <2>2, <2>3, <2>4
<1>3. CASE StartPunch
  <2> USE <1>3 DEF StartPunch
  <2>1. notify \in [at : {"answered", "recorded"}, client : Client] /\ notify # Idle
    BY DEF TypeOK, Idle
  <2>2. TypeOK'
    BY <2>1 DEF TypeOK
  <2>3. HashInv'
    BY <2>1 DEF NotifyInv, HashInv, Known
  <2>4. NotifyInv' /\ SocketInv' /\ PathInv' /\ SocketGoesToPuncher' /\ PacketInv'
    BY DEF NotifyInv, SocketInv, PathInv, SocketGoesToPuncher, PacketInv, Known, Punched
  <2> QED BY <2>2, <2>3, <2>4
<1> QED BY <1>1, <1>2, <1>3

-----------------------------------------------------------------------------
(* The UDP loop of the server.                                             *)

LEMMA ServerProbeStep ==
  ASSUME IInv, NEW c \in Client, ServerProbe(c)
  PROVE  IInv'
<1> USE DEF IInv, ServerProbe, clientVars, tables
<1>1. TypeOK'
  BY DEF TypeOK, Packet, Punch
<1>2. SocketInv' /\ NotifyInv' /\ HashInv' /\ PathInv' /\ SocketGoesToPuncher'
  BY DEF SocketInv, NotifyInv, HashInv, PathInv, SocketGoesToPuncher, Known, Punched
<1>3. PacketInv'
  BY DEF PacketInv, Packet, Punched
<1> QED BY <1>1, <1>2, <1>3

(* The record that is removed becomes the session that has the socket; no   *)
(* other session had it.                                                   *)
LEMMA ServerReceivesPunchStep ==
  ASSUME IInv, NEW m \in udp, ServerReceivesPunch(m)
  PROVE  IInv'
<1> USE DEF IInv, ServerReceivesPunch, clientVars
<1>1. m.client \in Client /\ m.client \in sessionHashes /\ Punched(m.client)
  BY DEF TypeOK, Punch, PacketInv
<1>2. adopted = None
  BY DEF SocketInv
<1>3. TypeOK'
  BY <1>1 DEF TypeOK, Packet, Punch
<1>4. \A c \in Client : Known(c) => Known(c)'
  BY <1>1, <1>2, NoneAssumption DEF Known
<1>5. SocketInv'
  BY <1>2 DEF SocketInv
<1>6. NotifyInv'
  BY <1>4 DEF NotifyInv, TypeOK, Idle
<1>7. HashInv'
  BY <1>4 DEF HashInv, TypeOK
<1>8. PacketInv'
  BY <1>1 DEF PacketInv, Packet, Punched
<1>9. PathInv' /\ SocketGoesToPuncher'
  BY <1>1 DEF PathInv, SocketGoesToPuncher, Punched
<1> QED BY <1>3, <1>5, <1>6, <1>7, <1>8, <1>9

LEMMA EndsStep ==
  ASSUME IInv, NotifyFails \/ ServerAdopts \/ ServerLoopEnds \/ ServerReturns
  PROVE  IInv'
<1> USE DEF IInv, NotifyFails, ServerAdopts, ServerLoopEnds, ServerReturns, clientVars, tables
<1>1. TypeOK'
  BY DEF TypeOK
<1>2. SocketInv'
  BY DEF SocketInv
<1>3. NotifyInv' /\ HashInv' /\ PathInv' /\ SocketGoesToPuncher' /\ PacketInv'
  BY DEF NotifyInv, HashInv, PathInv, SocketGoesToPuncher, PacketInv, Known, Punched
<1> QED BY <1>1, <1>2, <1>3

-----------------------------------------------------------------------------
LEMMA IInvStep == IInv /\ [Next]_vars => IInv'
<1> SUFFICES ASSUME IInv, [Next]_vars PROVE IInv'
  OBVIOUS
<1>1. ASSUME NEW c \in Client, MovesOn(c) PROVE IInv'
  BY <1>1, MovesOnEffect, QuietStep DEF IInv
<1>2. ASSUME NEW c \in Client, ClientProbe(c) PROVE IInv'
  BY <1>2, ClientProbeStep
<1>3. ASSUME NEW c \in Client, ServerProbe(c) PROVE IInv'
  BY <1>3, ServerProbeStep
<1>4. ASSUME NEW c \in Client, ReceiveAsk(c) PROVE IInv'
  BY <1>4, NotifyStep
<1>5. ASSUME NEW m \in udp, ClientReceivesPunch(m) PROVE IInv'
  BY <1>5, ClientReceivesPunchStep
<1>6. ASSUME NEW m \in udp, ServerReceivesPunch(m) PROVE IInv'
  BY <1>6, ServerReceivesPunchStep
<1>7. CASE RecordPeer \/ StartPunch
  BY <1>7, NotifyStep
<1>8. CASE NotifyFails \/ ServerAdopts \/ ServerLoopEnds \/ ServerReturns
  BY <1>8, EndsStep
<1>9. CASE UNCHANGED vars
  <2>1. TypeOK'
    BY <1>9 DEF IInv, TypeOK, vars, clientVars, tables
  <2>2. PunchedStays /\ NoNewPath /\ UNCHANGED <<notify, tables, loop, adopted, udp>>
    BY <1>9 DEF PunchedStays, NoNewPath, Punched, vars, clientVars
  <2> QED BY <2>1, <2>2, QuietStep
<1> QED
  BY <1>1, <1>2, <1>3, <1>4, <1>5, <1>6, <1>7, <1>8, <1>9 DEF Next, ConnectStep, MovesOn

(* The strengthened invariant holds in every behaviour, for any clients.    *)
THEOREM Invariance == Spec => []IInv
BY IInvInit, IInvStep, PTL DEF Spec

(* Every variable keeps its type.                                          *)
THEOREM TypeCorrect == Spec => []TypeOK
<1>1. IInv => TypeOK
  BY DEF IInv
<1> QED BY <1>1, Invariance, PTL

(* A client that found its path is one the server will hand its socket to,  *)
(* or has.                                                                 *)
THEOREM Expected == Spec => []ConnectedIsExpected
<1>1. IInv => ConnectedIsExpected
  BY DEF IInv, PathInv, HashInv, Known, ConnectedIsExpected
<1> QED BY <1>1, Invariance, PTL

(* The socket goes to a client that punched.                               *)
THEOREM SocketPunched == Spec => []SocketGoesToPuncher
<1>1. IInv => SocketGoesToPuncher
  BY DEF IInv
<1> QED BY <1>1, Invariance, PTL

-----------------------------------------------------------------------------
(* The times of a connect call: PunchTiming.                               *)

LEMMA Times ==
  /\ {OfferRetry, HelloRetry, Duration} \subseteq Nat \ {0}
  /\ {OfferWait, HelloWait, Validity, StartDelay, Grace, MaxSend, MaxAnswer, MaxLatency} \subseteq Nat
  /\ \A k \in Kind : Wait(k) \in Nat /\ Retry(k) \in Nat
BY TimesAssumption DEF Wait, Retry

(* Only addresses are offered, and probes go to them.                      *)
LEMMA EndpointIsAddr ==
  ASSUME NEW e \in End
  PROVE  Endpoint(e) \in Addr
BY AddrAssumption DEF End, Endpoint, OrElse, Maybe

LEMMA DescribedAddrs ==
  ASSUME NEW e \in End
  PROVE  Described(e).local \subseteq Addr /\ Those(Described(e).reflexive) \subseteq Addr
BY AddrAssumption DEF End, Described, Reflexive, LocalAddresses, OrElse, Those, Maybe

LEMMA PlannedAddrs ==
  ASSUME NEW d, NEW e,
         e.local \subseteq Addr, Those(e.reflexive) \subseteq Addr
  PROVE  PlannedRemotes(d, e) \subseteq Addr
<1>1. ASSUME NEW p \in PlanPunchTargets(d, e) PROVE p[2] \in Addr
  BY DEF PlanPunchTargets
<1>2. SelectRemote(e) \subseteq Addr
  BY DEF SelectRemote, Those
<1> QED BY <1>1, <1>2 DEF PlannedRemotes

LEMMA RemotesAreAddrs ==
  ASSUME TimingTypeOK
  PROVE  /\ \A k \in Kind : ServerRemotes(k) \subseteq Addr
         /\ Endpoint(server) \in Addr
         /\ PlannedRemotes(Described(client), Described(server)) \subseteq Addr
<1>1. client \in End /\ server \in End
  BY EndsAssumption DEF TimingTypeOK
<1>2. Endpoint(client) \in Addr /\ Endpoint(server) \in Addr
  BY <1>1, EndpointIsAddr
<1>3. /\ PlannedRemotes(Described(client), Described(server)) \subseteq Addr
      /\ PlannedRemotes(Described(server), Described(client)) \subseteq Addr
  BY <1>1, DescribedAddrs, PlannedAddrs
<1> QED BY <1>2, <1>3 DEF ServerRemotes, Offer

(* What is told on a path is what is tried.                                *)
ClientRemotes(k) ==
  IF k = "hello" THEN {Endpoint(server)}
  ELSE PlannedRemotes(Described(client), Described(server))

LEMMA PairPlanned ==
  ASSUME NEW d, NEW e, NEW a \in Addresses(d), NEW b \in Addresses(e)
  PROVE  b \in PlannedRemotes(d, e)
<1>1. <<a, b>> \in PlanPunchTargets(d, e)
  BY DEF Addresses, PlanPunchTargets
<1>2. b \in {p[2] : p \in PlanPunchTargets(d, e)}
  BY <1>1
<1> QED BY <1>2 DEF PlannedRemotes

LEMMA ToldIsTried ==
  ASSUME NEW k \in Kind, NEW p \in Path, Told(k, p)
  PROVE  p[1] \in ServerRemotes(k) /\ p[2] \in ClientRemotes(k)
<1>1. CASE k = "hello"
  BY <1>1 DEF Told, ServerRemotes, ClientRemotes
<1>2. CASE k # "hello"
  <2>1. p[1] \in Addresses(Described(client)) /\ p[2] \in Addresses(Described(server))
    BY <1>2 DEF Told
  <2>2. Accepted
    BY <2>1 DEF Accepted
  <2> QED BY <1>2, <2>1, <2>2, PairPlanned DEF ServerRemotes, ClientRemotes, Offer
<1> QED BY <1>1, <1>2

-----------------------------------------------------------------------------
(* Every variable keeps its type.                                          *)

(* Where the call is before it punches.                                    *)
Early == {"publish", "publishing", "waiting"}

LEMMA TimingInitTypes == TimingInit => TimingTypeOK
BY DEF TimingInit, TimingTypeOK, Kind

(* The client, before it punches, and when it gives up on that.            *)
LEMMA CallTypes ==
  ASSUME TimingTypeOK,
         Publish \/ Published \/ PublishFails \/ RetryOrGiveUp \/ RefuseAnswer \/ Rejected
         \/ PunchTimesOut
  PROVE  TimingTypeOK'
<1>1. now \in Nat /\ MaxSend \in Nat /\ Retry(kind) \in Nat
  BY Times DEF TimingTypeOK
<1>2. CASE Publish
  <2>1. [to |-> "server", kind |-> kind, sentAt |-> now] \in Request
    BY <1>1 DEF TimingTypeOK, Request
  <2> QED BY <1>1, <1>2, <2>1 DEF Publish, TimingTypeOK, chosen, serverVars, Response
<1>3. CASE Published
  BY <1>1, <1>3 DEF Published, TimingTypeOK, chosen, serverVars, Response
<1>4. ASSUME GiveUp, UNCHANGED <<now, chosen, mail, serverVars, opened>> PROVE TimingTypeOK'
  BY <1>1, <1>4 DEF GiveUp, TimingTypeOK, chosen, serverVars, Response, Kind
<1>5. CASE RetryOrGiveUp
  <2>1. CASE GiveUp
    BY <1>4, <1>5, <2>1 DEF RetryOrGiveUp
  <2>2. CASE at' = "publish" /\ UNCHANGED <<kind, start, wake, reply, punch>>
    BY <1>5, <2>2 DEF RetryOrGiveUp, TimingTypeOK, chosen, serverVars, Response
  <2> QED BY <1>5, <2>1, <2>2 DEF RetryOrGiveUp
<1>6. CASE PublishFails \/ RefuseAnswer
  BY <1>4, <1>6 DEF PublishFails, RefuseAnswer
<1>7. CASE Rejected \/ PunchTimesOut
  BY <1>7 DEF Rejected, PunchTimesOut, TimingTypeOK, chosen, serverVars, Response
<1> QED BY <1>2, <1>3, <1>5, <1>6, <1>7

LEMMA ReplyTypes ==
  ASSUME TimingTypeOK, NEW m \in mail, ReceiveReply(m)
  PROVE  TimingTypeOK'
<1>1. m \in Response
  BY DEF ReceiveReply, TimingTypeOK, Request
<1>2. reply' \in Response \union {Nothing} /\ mail' \subseteq mail
  BY <1>1 DEF ReceiveReply, TimingTypeOK
<1> QED BY <1>2 DEF ReceiveReply, TimingTypeOK, chosen, serverVars, Response

(* The punch that an answer starts.                                        *)
LEMMA StartParts ==
  ASSUME TimingTypeOK, StartPunchPlan \/ StartPunchOfHello
  PROVE  /\ at = "waiting" /\ reply \in Response /\ StartPunchAndWait(ClientRemotes(kind))
         /\ ClientRemotes(kind) \subseteq Addr
<1>1. at = "waiting" /\ reply \in Response
  BY DEF StartPunchPlan, StartPunchOfHello, TimingTypeOK
<1>2. reply.addresses = Described(server) /\ reply.endpoint = Endpoint(server)
  BY <1>1 DEF Response
<1>3. CASE StartPunchPlan
  BY <1>1, <1>2, <1>3, RemotesAreAddrs DEF StartPunchPlan, ClientRemotes, Offer
<1>4. CASE StartPunchOfHello
  BY <1>1, <1>2, <1>4, RemotesAreAddrs DEF StartPunchOfHello, ClientRemotes
<1> QED BY <1>3, <1>4

LEMMA StartTypes ==
  ASSUME TimingTypeOK, StartPunchPlan \/ StartPunchOfHello
  PROVE  TimingTypeOK'
<1>1. reply \in Response /\ StartPunchAndWait(ClientRemotes(kind)) /\ ClientRemotes(kind) \subseteq Addr
  BY StartParts
<1>2. now \in Nat /\ Duration \in Nat /\ Grace \in Nat /\ reply.startAt \in Int
  BY <1>1, Times DEF TimingTypeOK, Response
<1>3. ClientStart(reply) \in Nat /\ ClientStart(reply) >= now
  BY <1>2 DEF ClientStart, AtLeast
<1>4. punch' \in Window
  BY <1>1, <1>2, <1>3 DEF StartPunchAndWait, Window
<1>5. wake' \in Nat
  BY <1>1, <1>2 DEF StartPunchAndWait
<1> QED BY <1>1, <1>4, <1>5 DEF StartPunchAndWait, TimingTypeOK, chosen, serverVars, Response

(* The server's task.                                                      *)
LEMMA ServerTypes ==
  ASSUME TimingTypeOK,
         \/ \E m \in mail : ReadOffer(m) \/ ReadHello(m)
         \/ SendAnswer \/ StartServerPunch \/ ServerEnds
  PROVE  TimingTypeOK'
<1>1. now \in Nat /\ skew \in Int /\ MaxAnswer \in Nat /\ StartDelay \in Nat /\ Duration \in Nat
  BY Times, TimesAssumption DEF TimingTypeOK
<1>2. ServerClock \in Int
  BY <1>1 DEF ServerClock
<1>3. ASSUME NEW k \in Kind
      PROVE  [kind |-> k, read |-> ServerClock, by |-> now + MaxAnswer, sent |-> FALSE] \in Answering
  BY <1>1, <1>2 DEF Answering
<1>4. ASSUME NEW m \in mail, ReadOffer(m) \/ ReadHello(m) PROVE TimingTypeOK'
  <2>1. busy' \in Answering \union {Nothing} /\ mail' \subseteq mail
    BY <1>3, <1>4 DEF ReadOffer, ReadHello, TimingTypeOK, Kind
  <2> QED BY <1>4, <2>1 DEF ReadOffer, ReadHello, TimingTypeOK, chosen, callVars, Response
<1>5. CASE SendAnswer
  <2>1. busy \in Answering
    BY <1>5 DEF SendAnswer, TimingTypeOK
  <2>2. Accepted \in BOOLEAN
    BY DEF Accepted
  <2>3. Answer \in Response
    BY <1>1, <2>1, <2>2 DEF Answer, Response, Answering
  <2>4. [busy EXCEPT !.sent = TRUE] \in Answering
    BY <2>1 DEF Answering
  <2> QED BY <1>5, <2>3, <2>4 DEF SendAnswer, TimingTypeOK, chosen, callVars, Response
<1>6. CASE StartServerPunch
  <2>1. busy \in Answering
    BY <1>6 DEF StartServerPunch, TimingTypeOK
  <2>2. ServerStart \in Nat
    BY <1>1, <2>1 DEF ServerStart, ServerClock, AtLeast, Answering
  <2>3. ServerRemotes(busy.kind) \subseteq Addr
    BY <2>1, RemotesAreAddrs DEF Answering
  <2>4. [kind |-> busy.kind, from |-> ServerStart, until |-> ServerStart + Duration,
         remotes |-> ServerRemotes(busy.kind)] \in ServerWindow
    BY <1>1, <2>1, <2>2, <2>3 DEF ServerWindow, Answering
  <2>5. punches' \subseteq ServerWindow
    BY <1>6, <2>4 DEF StartServerPunch, TimingTypeOK
  <2> QED BY <1>6, <2>5 DEF StartServerPunch, TimingTypeOK, chosen, callVars, Response
<1>7. CASE ServerEnds
  BY <1>7 DEF ServerEnds, TimingTypeOK, chosen, callVars, Response
<1> QED BY <1>4, <1>5, <1>6, <1>7

(* Probes and time.                                                        *)
LEMMA ProbeAndTickTypes ==
  ASSUME TimingTypeOK,
         \/ \E p \in Path : ProbeOfClient(p) \/ \E k \in Kind : ProbeOfServer(k, p)
         \/ Tick
  PROVE  TimingTypeOK'
<1>1. ASSUME NEW p \in Path, ProbeOfClient(p) PROVE TimingTypeOK'
  BY <1>1 DEF ProbeOfClient, TimingTypeOK, chosen, serverVars, Response
<1>2. ASSUME NEW p \in Path, NEW k \in Kind, ProbeOfServer(k, p) PROVE TimingTypeOK'
  BY <1>2 DEF ProbeOfServer, TimingTypeOK, chosen, serverVars, Response
<1>3. CASE Tick
  <2>1. now' \in Nat /\ mail' \subseteq mail
    BY <1>3 DEF Tick, TimingTypeOK
  <2> QED BY <1>3, <2>1 DEF Tick, TimingTypeOK, chosen, callVars, serverVars, Response
<1> QED BY <1>1, <1>2, <1>3

(* All steps together.                                                     *)
LEMMA TimingTypes == TimingTypeOK /\ [TimingNext]_timingVars => TimingTypeOK'
<1> SUFFICES ASSUME TimingTypeOK, [TimingNext]_timingVars PROVE TimingTypeOK'
  OBVIOUS
<1>1. CASE UNCHANGED timingVars
  BY <1>1 DEF timingVars, chosen, callVars, serverVars, TimingTypeOK, Response
<1>2. CASE TimingNext
  BY <1>2, CallTypes, ReplyTypes, StartTypes, ServerTypes, ProbeAndTickTypes
     DEF TimingNext, StartServerPunchFails, Stop
<1> QED BY <1>1, <1>2

-----------------------------------------------------------------------------
(* How long a call takes.                                                  *)

(* How long it may have taken when it turns to messages of kind k.         *)
Before(k) == IF k = "hello" THEN Longest("offer") ELSE 0

TimeInv ==
  /\ start <= Before(kind)
  /\ at = "publish" => now <= start + Wait(kind)
  /\ at = "publishing" => now <= wake /\ wake <= start + Wait(kind) + MaxSend
  /\ at = "waiting" => now <= wake /\ wake <= start + Longest(kind)
  /\ at = "punching" => now <= wake /\ wake <= Before(kind) + Longest(kind) + Duration + Grace
  /\ Done => now <= Before(kind) + Longest(kind) + Duration + Grace

(* A copy goes out within MaxSend.                                         *)
SendInv == at = "publishing" => wake <= now + MaxSend

LEMMA Lengths ==
  ASSUME TimingTypeOK
  PROVE  /\ now \in Nat /\ start \in Nat /\ wake \in Nat
         /\ \A k \in Kind : Before(k) \in Nat /\ Longest(k) \in Nat /\ Wait(k) \in Nat /\ Retry(k) \in Nat
         /\ \A k \in Kind : Longest(k) = Wait(k) + Retry(k) + MaxSend
         /\ Before("offer") = 0 /\ Before("hello") = Longest("offer")
BY Times DEF TimingTypeOK, Before, Longest, Kind

LEMMA TimeStep ==
  TimingTypeOK /\ TimeInv /\ SendInv /\ [TimingNext]_timingVars => TimeInv' /\ SendInv'
<1> SUFFICES ASSUME TimingTypeOK, TimeInv, SendInv, [TimingNext]_timingVars
             PROVE  TimeInv' /\ SendInv'
  OBVIOUS
<1>0. /\ now \in Nat /\ start \in Nat /\ wake \in Nat /\ kind \in Kind
      /\ at \in {"publish", "publishing", "waiting", "punching", "connected", "failed"}
      /\ MaxSend \in Nat /\ Duration \in Nat \ {0} /\ Grace \in Nat
  BY Times DEF TimingTypeOK
<1> DEFINE Parts(n, a, k, s, w) ==
      /\ s <= Before(k)
      /\ a = "publish" => n <= s + Wait(k)
      /\ a = "publishing" => n <= w /\ w <= s + Wait(k) + MaxSend /\ w <= n + MaxSend
      /\ a = "waiting" => n <= w /\ w <= s + Longest(k)
      /\ a = "punching" => n <= w /\ w <= Before(k) + Longest(k) + Duration + Grace
      /\ a \in {"connected", "failed"} => n <= Before(k) + Longest(k) + Duration + Grace
<1>1. Parts(now, at, kind, start, wake)
  BY DEF TimeInv, SendInv, Done
<1>2. Parts(now', at', kind', start', wake')
  <2>1. CASE Publish
    BY <1>0, <1>1, <2>1, Lengths DEF Publish
  <2>2. CASE Published
    BY <1>0, <1>1, <2>2, Lengths DEF Published
  <2>3. ASSUME at \in {"publishing", "waiting"}, GiveUp, UNCHANGED now
        PROVE  Parts(now', at', kind', start', wake')
    BY <1>0, <1>1, <2>3, Lengths DEF GiveUp, Kind
  <2>4. CASE PublishFails \/ RefuseAnswer
    BY <2>3, <2>4 DEF PublishFails, RefuseAnswer
  <2>5. CASE RetryOrGiveUp
    <3>1. CASE GiveUp
      BY <2>3, <2>5, <3>1 DEF RetryOrGiveUp
    <3>2. CASE now - start < Wait(kind) /\ at' = "publish" /\ UNCHANGED <<now, kind, start, wake>>
      BY <1>0, <1>1, <3>2, Lengths
    <3>3. now - start >= Wait(kind) \/ now - start < Wait(kind)
      BY <1>0, Lengths
    <3> QED BY <2>5, <3>1, <3>2, <3>3 DEF RetryOrGiveUp
  <2>6. CASE Rejected
    BY <1>0, <1>1, <2>6, Lengths DEF Rejected
  <2>7. CASE StartPunchPlan \/ StartPunchOfHello
    <3>1. at = "waiting" /\ at' = "punching" /\ wake' = now + Duration + Grace
          /\ UNCHANGED <<now, kind, start>>
      BY <2>7, StartParts DEF StartPunchAndWait
    <3> QED BY <1>0, <1>1, <3>1, Lengths
  <2>8. CASE PunchTimesOut
    BY <1>0, <1>1, <2>8, Lengths DEF PunchTimesOut
  <2>9. ASSUME UNCHANGED <<now, kind, start, wake>>, at' = at \/ (at = "punching" /\ at' = "connected")
        PROVE  Parts(now', at', kind', start', wake')
    BY <1>0, <1>1, <2>9, Lengths
  <2>10. CASE Tick
    BY <1>0, <1>1, <2>10, Lengths DEF Tick, Done, callVars
  <2> HIDE DEF Parts
  <2>11. ASSUME NEW m \in mail, ReceiveReply(m) \/ ReadOffer(m) \/ ReadHello(m)
         PROVE  Parts(now', at', kind', start', wake')
    BY <2>9, <2>11 DEF ReceiveReply, ReadOffer, ReadHello, callVars
  <2>12. CASE SendAnswer \/ StartServerPunch \/ ServerEnds
    BY <2>9, <2>12 DEF SendAnswer, StartServerPunch, ServerEnds, callVars
  <2>13. ASSUME NEW p \in Path, ProbeOfClient(p) PROVE Parts(now', at', kind', start', wake')
    BY <2>9, <2>13 DEF ProbeOfClient
  <2>14. ASSUME NEW p \in Path, NEW k \in Kind, ProbeOfServer(k, p)
         PROVE  Parts(now', at', kind', start', wake')
    BY <2>9, <2>14 DEF ProbeOfServer
  <2>15. CASE UNCHANGED timingVars
    BY <2>9, <2>15 DEF timingVars, callVars
  <2> QED BY <2>1, <2>2, <2>4, <2>5, <2>6, <2>7, <2>8, <2>11, <2>12, <2>10, <2>13, <2>14, <2>15
          DEF TimingNext, StartServerPunchFails, Stop
<1> QED BY <1>2 DEF TimeInv, SendInv, Done, Before, Longest

LEMMA TimeInvReturns == TimingTypeOK /\ TimeInv => ReturnsInTime
<1> SUFFICES ASSUME TimingTypeOK, TimeInv PROVE ReturnsInTime
  OBVIOUS
<1>1. at \in {"publish", "publishing", "waiting", "punching", "connected", "failed"} /\ kind \in Kind
  BY DEF TimingTypeOK
<1>2. now <= Before(kind) + Longest(kind) +
             (IF at \in {"publish", "publishing", "waiting"} THEN 0 ELSE Duration + Grace)
  BY <1>1, Lengths, Times DEF TimeInv, Done
<1>3. Before(kind) + Longest(kind) = Longest("offer") + (IF kind = "hello" THEN Longest("hello") ELSE 0)
  BY <1>1, Lengths DEF Kind
<1> QED BY <1>2, <1>3 DEF ReturnsInTime

-----------------------------------------------------------------------------
(* What the steps of each party leave alone.                               *)

CallStep ==
  \/ Publish \/ Published \/ PublishFails \/ RetryOrGiveUp \/ RefuseAnswer \/ Rejected
  \/ PunchTimesOut \/ StartPunchPlan \/ StartPunchOfHello
  \/ \E m \in mail : ReceiveReply(m)

ServerStep ==
  \/ \E m \in mail : ReadOffer(m) \/ ReadHello(m)
  \/ SendAnswer \/ StartServerPunch \/ ServerEnds

ProbeStep == \E p \in Path : ProbeOfClient(p) \/ \E k \in Kind : ProbeOfServer(k, p)

LEMMA Steps ==
  [TimingNext]_timingVars =>
    CallStep \/ ServerStep \/ ProbeStep \/ (~Done /\ Tick) \/ UNCHANGED timingVars
BY DEF TimingNext, CallStep, ServerStep, ProbeStep, StartServerPunchFails, Stop

LEMMA CallStepKeeps ==
  CallStep => UNCHANGED <<now, skew, client, server, passing, running, busy, punches, opened>>
BY DEF CallStep, Publish, Published, PublishFails, RetryOrGiveUp, RefuseAnswer, Rejected,
       PunchTimesOut, StartPunchPlan, StartPunchOfHello, StartPunchAndWait, ReceiveReply,
       chosen, serverVars

LEMMA ServerStepKeeps ==
  ServerStep => UNCHANGED <<now, skew, client, server, passing, at, kind, start, wake, reply, punch, opened>>
BY DEF ServerStep, ReadOffer, ReadHello, SendAnswer, StartServerPunch, ServerEnds, chosen, callVars

LEMMA ProbeStepKeeps ==
  ProbeStep =>
    /\ UNCHANGED <<now, skew, client, server, passing, kind, start, wake, reply, punch, mail,
                   running, busy, punches>>
    /\ at' = at \/ (at = "punching" /\ at' = "connected")
    /\ opened \subseteq opened'
BY DEF ProbeStep, ProbeOfClient, ProbeOfServer, chosen, serverVars

LEMMA TickKeeps ==
  Tick => UNCHANGED <<skew, client, server, passing, at, kind, start, wake, reply, punch,
                      running, busy, punches, opened>>
BY DEF Tick, chosen, callVars, serverVars

LEMMA StutterKeeps ==
  UNCHANGED timingVars =>
    UNCHANGED <<now, skew, client, server, passing, at, kind, start, wake, reply, punch, mail,
                running, busy, punches, opened>>
BY DEF timingVars, chosen, callVars, serverVars

-----------------------------------------------------------------------------
(* The server's task.                                                      *)

(* How long ago it read its message, by the client's clock.                *)
BusyInv ==
  busy # Nothing =>
    /\ busy.by = busy.read - skew + MaxAnswer
    /\ busy.read <= ServerClock
    /\ now <= busy.by

(* The server has answered and will punch, or has punched, for messages of *)
(* kind k of which it read one at t, or it has ended.                      *)
WillPunch(k, t) ==
  \/ ~running
  \/ busy # Nothing /\ busy.sent /\ busy.kind = k /\ busy.read = t + skew
  \/ ServerRemotes(k) = {}
  \/ \E w \in punches :
       w.kind = k /\ t + StartDelay <= w.from /\ w.from <= t + AtLeast(StartDelay, MaxAnswer)

LEMMA BusyTypes ==
  ASSUME TimingTypeOK
  PROVE  /\ now \in Nat /\ skew \in Int
         /\ MaxAnswer \in Nat /\ StartDelay \in Nat /\ MaxSend \in Nat /\ MaxLatency \in Nat
         /\ Duration \in Nat \ {0} /\ Grace \in Nat
         /\ busy # Nothing => busy \in Answering /\ busy.read \in Int /\ busy.by \in Nat
BY Times, TimesAssumption DEF TimingTypeOK, Answering

LEMMA BusyStep == TimingTypeOK /\ BusyInv /\ [TimingNext]_timingVars => BusyInv'
<1> SUFFICES ASSUME TimingTypeOK, BusyInv, [TimingNext]_timingVars PROVE BusyInv'
  OBVIOUS
<1>1. CASE UNCHANGED <<now, skew, busy>>
  BY <1>1 DEF BusyInv, ServerClock
<1>2. ASSUME NEW m \in mail, ReadOffer(m) \/ ReadHello(m) PROVE BusyInv'
  <2>1. UNCHANGED <<now, skew>>
    BY <1>2 DEF ReadOffer, ReadHello, chosen
  <2>2. busy' # Nothing => busy'.read = now + skew /\ busy'.by = now + MaxAnswer
    BY <1>2 DEF ReadOffer, ReadHello, ServerClock
  <2> QED BY <2>1, <2>2, BusyTypes DEF BusyInv, ServerClock
<1>3. CASE SendAnswer
  <2>1. busy \in Answering /\ busy' = [busy EXCEPT !.sent = TRUE] /\ UNCHANGED <<now, skew>>
    BY <1>3, BusyTypes DEF SendAnswer, chosen
  <2>2. busy'.by = busy.by /\ busy'.read = busy.read
    BY <2>1 DEF Answering
  <2> QED BY <1>3, <2>1, <2>2 DEF SendAnswer, BusyInv, ServerClock
<1>4. CASE StartServerPunch \/ ServerEnds
  BY <1>4 DEF StartServerPunch, ServerEnds, BusyInv
<1>5. CASE Tick
  BY <1>5, BusyTypes DEF Tick, chosen, serverVars, BusyInv, ServerClock
<1> QED BY <1>1, <1>2, <1>3, <1>4, <1>5, Steps, CallStepKeeps, ProbeStepKeeps, StutterKeeps DEF ServerStep

LEMMA WillPunchStays ==
  ASSUME TimingTypeOK, BusyInv, [TimingNext]_timingVars, NEW k \in Kind, NEW t \in Int, WillPunch(k, t)
  PROVE  WillPunch(k, t)'
<1>1. UNCHANGED <<skew, client, server>>
  BY Steps, CallStepKeeps, ServerStepKeeps, ProbeStepKeeps, TickKeeps, StutterKeeps
<1>2. ServerRemotes(k)' = ServerRemotes(k)
  BY <1>1 DEF ServerRemotes, Offer, Accepted
<1>3. CASE UNCHANGED <<running, busy, punches>>
  BY <1>1, <1>2, <1>3 DEF WillPunch
<1>4. ASSUME NEW m \in mail, ReadOffer(m) \/ ReadHello(m) PROVE WillPunch(k, t)'
  <2>1. busy = Nothing /\ UNCHANGED <<running, punches>>
    BY <1>4 DEF ReadOffer, ReadHello
  <2> QED BY <1>1, <1>2, <2>1 DEF WillPunch
<1>5. CASE SendAnswer
  <2>1. ~busy.sent /\ UNCHANGED <<running, punches>>
    BY <1>5 DEF SendAnswer
  <2> QED BY <1>1, <1>2, <2>1 DEF WillPunch
<1>6. CASE StartServerPunch
  <2>1. CASE busy.kind = k /\ busy.read = t + skew /\ ServerRemotes(k) # {}
    <3>1. PICK w : w = [kind |-> k, from |-> ServerStart, until |-> ServerStart + Duration,
                        remotes |-> ServerRemotes(k)]
      OBVIOUS
    <3>2. w \in punches' /\ w.kind = k /\ w.from = ServerStart
      BY <1>6, <2>1, <3>1 DEF StartServerPunch
    <3>3. now <= t + MaxAnswer /\ ServerStart = AtLeast(t + skew + StartDelay, now + skew) - skew
      BY <1>6, <2>1, BusyTypes DEF StartServerPunch, BusyInv, ServerStart, ServerClock
    <3>4. t + StartDelay <= ServerStart /\ ServerStart <= t + AtLeast(StartDelay, MaxAnswer)
      BY <3>3, BusyTypes DEF AtLeast
    <3> QED BY <3>2, <3>4 DEF WillPunch
  <2>2. punches \subseteq punches' /\ running' = running
    BY <1>6 DEF StartServerPunch
  <2> QED BY <1>1, <1>2, <2>1, <2>2 DEF WillPunch
<1>7. CASE ServerEnds
  BY <1>7 DEF ServerEnds, WillPunch
<1> QED BY <1>3, <1>4, <1>5, <1>6, <1>7, Steps, CallStepKeeps, ProbeStepKeeps, TickKeeps, StutterKeeps
        DEF ServerStep

-----------------------------------------------------------------------------
(* Messages under way.                                                     *)

(* When the server read what a answers, by the client's clock.             *)
ReadAt(a) == a.issuedAt - skew

UnderWay(m) ==
  /\ m.sentAt <= now /\ now <= m.sentAt + MaxLatency
  /\ m.to = "client" =>
       /\ ReadAt(m) <= m.sentAt /\ m.sentAt <= ReadAt(m) + MaxAnswer
       /\ m.startAt = m.issuedAt + StartDelay
       /\ WillPunch(m.kind, ReadAt(m))

MailInv == \A m \in mail : UnderWay(m)

LEMMA UnderWayStays ==
  ASSUME TimingTypeOK, BusyInv, [TimingNext]_timingVars, NEW m \in mail, UnderWay(m),
         UNCHANGED now \/ (now' = now + 1 /\ m.sentAt + MaxLatency > now)
  PROVE  UnderWay(m)'
<1>1. m \in Request \/ m \in Response
  BY DEF TimingTypeOK
<1>2. m.sentAt \in Nat
  BY <1>1 DEF Request, Response
<1>3. m.sentAt <= now' /\ now' <= m.sentAt + MaxLatency
  BY <1>2, BusyTypes DEF UnderWay
<1>4. skew' = skew
  BY Steps, CallStepKeeps, ServerStepKeeps, ProbeStepKeeps, TickKeeps, StutterKeeps
<1>5. CASE m.to = "client"
  <2>1. m \in Response
    BY <1>1, <1>5 DEF Request
  <2>2. m.kind \in Kind /\ m.issuedAt \in Int
    BY <2>1 DEF Response
  <2>3. PICK t \in Int : t = ReadAt(m)
    BY <2>2, BusyTypes DEF ReadAt
  <2>4. WillPunch(m.kind, t)
    BY <1>5, <2>3 DEF UnderWay
  <2>5. WillPunch(m.kind, t)'
    BY <2>2, <2>4, WillPunchStays
  <2>6. ReadAt(m)' = t
    BY <1>4, <2>3 DEF ReadAt
  <2>7. WillPunch(m.kind, ReadAt(m))'
    BY <2>5, <2>6 DEF WillPunch
  <2> QED BY <1>3, <1>5, <2>3, <2>6, <2>7 DEF UnderWay
<1>6. CASE m.to # "client"
  BY <1>3, <1>6 DEF UnderWay
<1> QED BY <1>5, <1>6

LEMMA MailStep ==
  TimingTypeOK /\ BusyInv /\ MailInv /\ [TimingNext]_timingVars => MailInv'
<1> SUFFICES ASSUME TimingTypeOK, BusyInv, MailInv, [TimingNext]_timingVars PROVE MailInv'
  OBVIOUS
<1>0. now \in Nat /\ MaxLatency \in Nat /\ skew \in Int /\ MaxAnswer \in Nat
  BY BusyTypes
<1>1. ASSUME UNCHANGED now, mail' \subseteq mail PROVE MailInv'
  BY <1>1, UnderWayStays DEF MailInv
<1>2. CASE Publish
  <2>1. PICK m : m = [to |-> "server", kind |-> kind, sentAt |-> now]
    OBVIOUS
  <2>2. mail' = mail \union {m} /\ UNCHANGED now
    BY <1>2, <2>1 DEF Publish
  <2>3. UnderWay(m)'
    BY <1>0, <2>1, <2>2 DEF UnderWay
  <2> QED BY <2>2, <2>3, UnderWayStays DEF MailInv
<1>3. CASE SendAnswer
  <2>1. busy \in Answering /\ busy.read \in Int
    BY <1>3, BusyTypes DEF SendAnswer
  <2>2. PICK m : m = Answer
    OBVIOUS
  <2>3. mail' = mail \union {m} /\ busy' = [busy EXCEPT !.sent = TRUE] /\ UNCHANGED <<now, skew>>
    BY <1>3, <2>2 DEF SendAnswer, chosen
  <2>4. m.to = "client" /\ m.kind = busy.kind /\ m.sentAt = now /\ m.issuedAt = busy.read
        /\ m.startAt = m.issuedAt + StartDelay
    BY <2>2 DEF Answer
  <2>5. busy'.sent /\ busy'.kind = busy.kind /\ busy'.read = busy.read /\ busy' # Nothing
    <3>1. busy' \in Answering /\ busy'.sent /\ busy'.kind = busy.kind /\ busy'.read = busy.read
      BY <2>1, <2>3 DEF Answering
    <3> QED BY <3>1, NothingAssumption
  <2>6. busy.read - skew <= now /\ now <= busy.read - skew + MaxAnswer
    BY <1>0, <1>3, <2>1 DEF SendAnswer, BusyInv, ServerClock
  <2>7. ReadAt(m)' = busy.read - skew
    BY <2>3, <2>4 DEF ReadAt
  <2>8. WillPunch(m.kind, ReadAt(m))'
    <3>1. busy'.read = ReadAt(m)' + skew'
      BY <1>0, <2>1, <2>3, <2>5, <2>7
    <3> QED BY <2>4, <2>5, <3>1 DEF WillPunch
  <2>9. UnderWay(m)'
    BY <1>0, <2>3, <2>4, <2>6, <2>7, <2>8 DEF UnderWay
  <2> QED BY <2>3, <2>9, UnderWayStays DEF MailInv
<1>4. CASE Tick
  <2>1. \A m \in mail' : m \in mail /\ now' = now + 1 /\ m.sentAt + MaxLatency > now
    BY <1>4 DEF Tick
  <2> QED BY <2>1, UnderWayStays DEF MailInv
<1>5. CASE CallStep /\ ~Publish
  <2>1. mail' \subseteq mail /\ UNCHANGED now
    BY <1>5, CallStepKeeps DEF CallStep, Published, PublishFails, RetryOrGiveUp, RefuseAnswer,
       Rejected, PunchTimesOut, StartPunchPlan, StartPunchOfHello, StartPunchAndWait, ReceiveReply
  <2> QED BY <1>1, <2>1
<1>6. CASE ServerStep /\ ~SendAnswer
  <2>1. mail' \subseteq mail /\ UNCHANGED now
    BY <1>6, ServerStepKeeps DEF ServerStep, ReadOffer, ReadHello, StartServerPunch, ServerEnds, callVars
  <2> QED BY <1>1, <2>1
<1> QED BY <1>1, <1>2, <1>3, <1>4, <1>5, <1>6, Steps, ProbeStepKeeps, StutterKeeps

-----------------------------------------------------------------------------
(* The answer in the client's oneshot channel.                             *)

(* How old the server's reading may be when the client looks at the answer. *)
Late == MaxSend + MaxAnswer + MaxLatency

(* a is of this wait, and the server will punch for it.                    *)
Current(a) ==
  /\ a.kind = kind
  /\ a.startAt = a.issuedAt + StartDelay
  /\ ReadAt(a) <= now
  /\ WillPunch(kind, ReadAt(a))

(* It was not long ago, and the client is about to see it.                 *)
InTime(a) ==
  /\ at = "publish" => now <= ReadAt(a) + MaxAnswer + MaxLatency
  /\ at = "publishing" => wake <= ReadAt(a) + Late
  /\ at = "waiting" => now <= ReadAt(a) + Late

ReplyInv == reply # Nothing => Current(reply) /\ InTime(reply)

LEMMA ReplyTypesOf ==
  ASSUME TimingTypeOK, reply # Nothing
  PROVE  reply \in Response /\ reply.issuedAt \in Int /\ ReadAt(reply) \in Int
BY BusyTypes DEF TimingTypeOK, Response, ReadAt

LEMMA CurrentStays ==
  ASSUME TimingTypeOK, BusyInv, [TimingNext]_timingVars, reply # Nothing, Current(reply),
         UNCHANGED <<reply, kind>>, now' >= now
  PROVE  Current(reply)' /\ ReadAt(reply)' = ReadAt(reply)
<1>1. skew' = skew
  BY Steps, CallStepKeeps, ServerStepKeeps, ProbeStepKeeps, TickKeeps, StutterKeeps
<1>2. PICK t \in Int : t = ReadAt(reply)
  BY ReplyTypesOf
<1>3. ReadAt(reply)' = t
  BY <1>1, <1>2 DEF ReadAt
<1>4. kind \in Kind /\ WillPunch(kind, t)
  BY <1>2 DEF TimingTypeOK, Current
<1>5. PICK k \in Kind : k = kind
  BY <1>4
<1>6. WillPunch(k, t)'
  BY <1>4, <1>5, WillPunchStays
<1>7. WillPunch(kind, ReadAt(reply))'
  BY <1>3, <1>5, <1>6 DEF WillPunch
<1>8. ReadAt(reply)' <= now'
  <2>1. now' \in Nat
    BY TimingTypes DEF TimingTypeOK
  <2> QED BY <1>2, <1>3, <2>1, BusyTypes DEF Current
<1> QED BY <1>2, <1>3, <1>7, <1>8 DEF Current

LEMMA ReplyStep ==
  TimingTypeOK /\ TimeInv /\ SendInv /\ BusyInv /\ MailInv /\ ReplyInv /\ [TimingNext]_timingVars
  => ReplyInv'
<1> SUFFICES ASSUME TimingTypeOK, TimeInv, SendInv, BusyInv, MailInv, ReplyInv,
                    [TimingNext]_timingVars, reply' # Nothing
             PROVE  Current(reply)' /\ InTime(reply)'
  BY DEF ReplyInv
<1>0. now \in Nat /\ wake \in Nat /\ skew \in Int
      /\ MaxAnswer \in Nat /\ MaxLatency \in Nat /\ MaxSend \in Nat
  BY BusyTypes DEF TimingTypeOK
<1>1. ASSUME UNCHANGED <<now, kind, reply>>
      PROVE  Current(reply)' /\ ReadAt(reply)' = ReadAt(reply) /\ ReadAt(reply) \in Int
             /\ InTime(reply)
  BY <1>0, <1>1, CurrentStays, ReplyTypesOf DEF ReplyInv
<1>2. ASSUME UNCHANGED <<now, kind, reply, wake>>,
             at' = at \/ at' \notin {"publish", "publishing", "waiting"}
      PROVE  Current(reply)' /\ InTime(reply)'
  BY <1>1, <1>2 DEF InTime
<1>3. CASE Publish
  <2>1. at = "publish" /\ at' = "publishing" /\ wake' = now + MaxSend /\ UNCHANGED <<now, kind, reply>>
    BY <1>3 DEF Publish
  <2> QED BY <1>0, <1>1, <2>1 DEF InTime, Late
<1>4. CASE Published
  <2>1. at = "publishing" /\ at' = "waiting" /\ UNCHANGED <<now, kind, reply>>
    BY <1>4 DEF Published
  <2>2. now <= wake
    BY <2>1 DEF TimeInv
  <2> QED BY <1>0, <1>1, <2>1, <2>2 DEF InTime, Late
<1>5. ~GiveUp
  BY DEF GiveUp
<1>6. CASE RetryOrGiveUp
  BY <1>5, <1>6 DEF RetryOrGiveUp
<1>7. CASE PublishFails \/ RefuseAnswer
  BY <1>5, <1>7 DEF PublishFails, RefuseAnswer
<1>8. CASE Rejected \/ PunchTimesOut
  BY <1>2, <1>8 DEF Rejected, PunchTimesOut
<1>9. CASE StartPunchPlan \/ StartPunchOfHello
  BY <1>9 DEF StartPunchPlan, StartPunchOfHello, StartPunchAndWait
<1>10. ASSUME NEW m \in mail, ReceiveReply(m) PROVE Current(reply)' /\ InTime(reply)'
  <2>1. UNCHANGED <<now, skew, client, server, running, busy, punches, kind, at, wake>> /\ m.to = "client"
    BY <1>10 DEF ReceiveReply, chosen, serverVars
  <2>2. CASE reply' = reply
    BY <1>2, <2>1, <2>2
  <2>3. CASE reply' # reply
    <3>1. reply' = m /\ m.kind = kind /\ reply = Nothing
      BY <1>10, <2>3 DEF ReceiveReply
    <3>2. UnderWay(m)
      BY DEF MailInv
    <3>3. m \in Response /\ m.issuedAt \in Int /\ m.sentAt \in Nat
      BY <2>1 DEF TimingTypeOK, Request, Response
    <3>4. /\ ReadAt(m) \in Int /\ ReadAt(m) <= now /\ now <= ReadAt(m) + MaxAnswer + MaxLatency
          /\ m.startAt = m.issuedAt + StartDelay /\ WillPunch(m.kind, ReadAt(m))
      BY <1>0, <2>1, <3>2, <3>3 DEF UnderWay, ReadAt
    <3>5. Current(m) /\ InTime(m)
      BY <1>0, <3>1, <3>4 DEF Current, InTime, SendInv, Late
    <3>6. ReadAt(reply)' = ReadAt(m)
      BY <2>1, <3>1 DEF ReadAt
    <3>7. WillPunch(kind, ReadAt(reply))'
      BY <2>1, <3>5, <3>6 DEF Current, WillPunch, ServerRemotes, Offer, Accepted
    <3>8. Current(reply)'
      BY <2>1, <3>1, <3>5, <3>6, <3>7 DEF Current
    <3> QED BY <2>1, <3>5, <3>6, <3>8 DEF InTime
  <2> QED BY <2>2, <2>3
<1>11. CASE Tick
  <2>1. now' = now + 1 /\ UNCHANGED <<reply, kind, at, wake>> /\ at \notin {"publish", "waiting"}
    BY <1>11 DEF Tick, callVars
  <2>2. Current(reply) /\ InTime(reply)
    BY <2>1 DEF ReplyInv
  <2>3. Current(reply)' /\ ReadAt(reply)' = ReadAt(reply)
    BY <1>0, <2>1, <2>2, CurrentStays
  <2> QED BY <2>1, <2>2, <2>3 DEF InTime
<1>12. CASE ServerStep \/ ProbeStep \/ UNCHANGED timingVars
  BY <1>2, <1>12, ServerStepKeeps, ProbeStepKeeps, StutterKeeps
<1> QED BY <1>3, <1>4, <1>6, <1>7, <1>8, <1>9, <1>10, <1>11, <1>12, Steps DEF CallStep

-----------------------------------------------------------------------------
(* The client's punch.                                                     *)

(* The client began at c, with the answer to a message read at t.          *)
PunchedSince(t, c) ==
  /\ t <= c /\ c <= t + Late /\ c <= now
  /\ punch = [from |-> AtLeast(t + skew + StartDelay, c),
              until |-> AtLeast(t + skew + StartDelay, c) + Duration,
              remotes |-> ClientRemotes(kind)]
  /\ wake = c + Duration + Grace
  /\ WillPunch(kind, t)

PunchInv ==
  IF at \in Early THEN punch = Nothing
  ELSE /\ at = "punching" => punch # Nothing
       /\ punch # Nothing => \E t \in Int, c \in Nat : PunchedSince(t, c)

LEMMA PunchedSinceStays ==
  ASSUME TimingTypeOK, BusyInv, [TimingNext]_timingVars, NEW t \in Int, NEW c \in Nat,
         PunchedSince(t, c), UNCHANGED <<punch, wake, kind>>, now' >= now
  PROVE  PunchedSince(t, c)'
<1>1. UNCHANGED <<skew, client, server>>
  BY Steps, CallStepKeeps, ServerStepKeeps, ProbeStepKeeps, TickKeeps, StutterKeeps
<1>2. ClientRemotes(kind)' = ClientRemotes(kind)
  BY <1>1 DEF ClientRemotes
<1>3. PICK k \in Kind : k = kind
  BY DEF TimingTypeOK
<1>4. WillPunch(k, t)'
  BY <1>3, WillPunchStays DEF PunchedSince
<1>5. WillPunch(kind, t)'
  BY <1>3, <1>4 DEF WillPunch
<1>6. c <= now'
  <2>1. now' \in Nat
    BY TimingTypes DEF TimingTypeOK
  <2> QED BY <2>1, BusyTypes DEF PunchedSince
<1> QED BY <1>1, <1>2, <1>5, <1>6 DEF PunchedSince

LEMMA PunchStep ==
  TimingTypeOK /\ BusyInv /\ ReplyInv /\ PunchInv /\ [TimingNext]_timingVars => PunchInv'
<1> SUFFICES ASSUME TimingTypeOK, BusyInv, ReplyInv, PunchInv, [TimingNext]_timingVars
             PROVE  PunchInv'
  OBVIOUS
<1>0. /\ now \in Nat /\ skew \in Int /\ StartDelay \in Nat /\ Duration \in Nat /\ Grace \in Nat
      /\ MaxSend \in Nat /\ MaxAnswer \in Nat /\ MaxLatency \in Nat
      /\ now' \in Nat
  BY BusyTypes, TimingTypes DEF TimingTypeOK
<1>1. ASSUME at \in Early, UNCHANGED punch, at' # "punching" PROVE PunchInv'
  BY <1>1 DEF PunchInv
<1>2. ASSUME at \notin Early, at' \notin Early, at' = "punching" => at = "punching",
             UNCHANGED <<punch, wake, kind>>, now' >= now
      PROVE  PunchInv'
  BY <1>2, PunchedSinceStays DEF PunchInv
<1>3. CASE Publish \/ Published \/ PublishFails \/ RetryOrGiveUp \/ RefuseAnswer \/ Rejected
  BY <1>1, <1>3 DEF Publish, Published, PublishFails, RetryOrGiveUp, RefuseAnswer, Rejected, GiveUp, Early
<1>4. CASE StartPunchPlan \/ StartPunchOfHello
  <2>1. /\ at = "waiting" /\ reply \in Response /\ reply # Nothing
        /\ StartPunchAndWait(ClientRemotes(kind))
    BY <1>4, StartParts DEF StartPunchPlan, StartPunchOfHello
  <2>2. UNCHANGED <<now, kind, skew, client, server, running, busy, punches>>
    BY <2>1 DEF StartPunchAndWait, chosen, serverVars
  <2>3. PICK t \in Int : t = ReadAt(reply)
    BY <2>1, ReplyTypesOf
  <2>4. /\ t <= now /\ now <= t + Late /\ WillPunch(kind, t)
        /\ reply.startAt = t + skew + StartDelay
    <3>1. reply.issuedAt \in Int
      BY <2>1, ReplyTypesOf
    <3>2. Current(reply) /\ InTime(reply)
      BY <2>1 DEF ReplyInv
    <3> QED BY <1>0, <2>1, <2>3, <3>1, <3>2 DEF Current, InTime, ReadAt
  <2>5. WillPunch(kind, t)'
    BY <2>2, <2>4 DEF WillPunch, ServerRemotes, Offer, Accepted
  <2>6. ClientRemotes(kind)' = ClientRemotes(kind)
    BY <2>2 DEF ClientRemotes
  <2>7. punch' = [from |-> AtLeast(t + skew + StartDelay, now),
                  until |-> AtLeast(t + skew + StartDelay, now) + Duration,
                  remotes |-> ClientRemotes(kind)]
        /\ wake' = now + Duration + Grace /\ at' = "punching"
    BY <2>1, <2>4 DEF StartPunchAndWait, ClientStart
  <2>8. PICK c \in Nat : c = now
    BY <1>0
  <2>9. PunchedSince(t, c)'
    BY <1>0, <2>2, <2>4, <2>5, <2>6, <2>7, <2>8 DEF PunchedSince
  <2>10. punch' # Nothing
    <3>1. punch' \in Window \union {Nothing} /\ punch'.from = AtLeast(t + skew + StartDelay, now)
      BY <2>7, TimingTypes DEF TimingTypeOK
    <3>2. punch' \in Window
      <4>1. AtLeast(t + skew + StartDelay, now) \in Nat
        BY <1>0 DEF AtLeast
      <4>2. ClientRemotes(kind) \subseteq Addr
        BY <1>4, StartParts
      <4> QED BY <1>0, <2>7, <4>1, <4>2 DEF Window
    <3> QED BY <3>2, NothingAssumption
  <2> QED BY <2>7, <2>9, <2>10 DEF PunchInv, Early
<1>5. ASSUME NEW m \in mail, ReceiveReply(m) PROVE PunchInv'
  <2>1. UNCHANGED <<now, at, punch, wake, kind>>
    BY <1>5 DEF ReceiveReply
  <2> QED BY <1>0, <1>1, <1>2, <2>1 DEF Early
<1>6. CASE PunchTimesOut
  BY <1>0, <1>2, <1>6 DEF PunchTimesOut, Early
<1>7. CASE Tick
  <2>1. now' = now + 1 /\ UNCHANGED <<at, punch, wake, kind>>
    BY <1>7, TickKeeps DEF Tick
  <2> QED BY <1>0, <1>1, <1>2, <2>1 DEF Early
<1>8. CASE ServerStep \/ ProbeStep \/ UNCHANGED timingVars
  <2>1. /\ UNCHANGED <<now, punch, wake, kind>>
        /\ at' = at \/ (at = "punching" /\ at' = "connected")
    BY <1>8, ServerStepKeeps, ProbeStepKeeps, StutterKeeps
  <2> QED BY <1>0, <1>1, <1>2, <2>1 DEF Early
<1> QED BY <1>3, <1>4, <1>5, <1>6, <1>7, <1>8, Steps DEF CallStep

(* What the two ends' windows have to do with each other.                  *)
LEMMA PunchInvTogether == TimingTypeOK /\ PunchInv => WindowsTogether
<1> SUFFICES ASSUME TimingTypeOK, PunchInv, punch # Nothing, busy = Nothing, running,
                    ServerRemotes(kind) # {}
             PROVE  \E w \in punches : w.kind = kind /\ Magnitude(punch.from - w.from) <= Apart
  BY DEF WindowsTogether
<1>1. PICK t \in Int, c \in Nat : PunchedSince(t, c)
  BY DEF PunchInv
<1>2. PICK w \in punches :
        w.kind = kind /\ t + StartDelay <= w.from /\ w.from <= t + AtLeast(StartDelay, MaxAnswer)
  BY <1>1 DEF PunchedSince, WillPunch
<1>3. w.from \in Nat /\ skew \in Int /\ StartDelay \in Nat /\ MaxAnswer \in Nat
      /\ MaxSend \in Nat /\ MaxLatency \in Nat
  BY BusyTypes DEF TimingTypeOK, ServerWindow
<1>4. punch.from = AtLeast(t + skew + StartDelay, c) /\ t <= c /\ c <= t + Late
  BY <1>1 DEF PunchedSince
<1>5. Magnitude(punch.from - w.from) <= Apart
  BY <1>2, <1>3, <1>4 DEF Magnitude, Apart, AtLeast, Late
<1> QED BY <1>2, <1>5

-----------------------------------------------------------------------------
(* The server's punches.                                                   *)

(* Every window of the server is of the length and for the addresses that  *)
(* the messages stand for.                                                 *)
ServerPunchInv ==
  \A w \in punches : w.until = w.from + Duration /\ w.remotes = ServerRemotes(w.kind)

(* A window does not begin in the past.                                    *)
LEMMA NewPunch ==
  ASSUME TimingTypeOK, BusyInv, [TimingNext]_timingVars, NEW w \in punches', w \notin punches
  PROVE  /\ StartServerPunch
         /\ w.until = w.from + Duration /\ w.remotes = ServerRemotes(w.kind)
         /\ w.from >= now
<1>1. StartServerPunch
  <2>1. punches' # punches
    OBVIOUS
  <2>2. ASSUME NEW m \in mail, ReadOffer(m) \/ ReadHello(m) PROVE UNCHANGED punches
    BY <2>2 DEF ReadOffer, ReadHello
  <2>3. (SendAnswer => UNCHANGED punches) /\ (ServerEnds => punches' = {})
    BY DEF SendAnswer, ServerEnds
  <2> QED BY <2>1, <2>2, <2>3, Steps, CallStepKeeps, ProbeStepKeeps, TickKeeps, StutterKeeps DEF ServerStep
<1>2. w = [kind |-> busy.kind, from |-> ServerStart, until |-> ServerStart + Duration,
           remotes |-> ServerRemotes(busy.kind)]
  BY <1>1 DEF StartServerPunch
<1>3. ServerStart >= now
  <2>1. busy # Nothing /\ busy.read \in Int
    BY <1>1, BusyTypes DEF StartServerPunch
  <2> QED BY <2>1, BusyTypes DEF ServerStart, ServerClock, AtLeast
<1> QED BY <1>1, <1>2, <1>3

LEMMA ServerPunchStep ==
  TimingTypeOK /\ BusyInv /\ ServerPunchInv /\ [TimingNext]_timingVars => ServerPunchInv'
<1> SUFFICES ASSUME TimingTypeOK, BusyInv, ServerPunchInv, [TimingNext]_timingVars,
                    NEW w \in punches'
             PROVE  w.until = w.from + Duration /\ w.remotes = ServerRemotes(w.kind)'
  BY DEF ServerPunchInv
<1>1. UNCHANGED <<client, server>>
  BY Steps, CallStepKeeps, ServerStepKeeps, ProbeStepKeeps, TickKeeps, StutterKeeps
<1>2. ServerRemotes(w.kind)' = ServerRemotes(w.kind)
  BY <1>1 DEF ServerRemotes, Offer, Accepted
<1>3. w.until = w.from + Duration /\ w.remotes = ServerRemotes(w.kind)
  BY NewPunch DEF ServerPunchInv
<1> QED BY <1>2, <1>3

-----------------------------------------------------------------------------
(* Which paths are open.                                                   *)

(* A window that has begun has let its end send on all its paths.          *)
OpenedInv ==
  \A p \in Path :
    /\ \A w \in punches :
         w.from < now /\ p[1] \in w.remotes => <<"server", w.kind, p>> \in opened
    /\ punch # Nothing /\ punch.from < now /\ p[2] \in punch.remotes =>
         <<"client", kind, p>> \in opened

(* What the client's punch is like.                                        *)
LEMMA WindowParts ==
  ASSUME TimingTypeOK, PunchInv, punch # Nothing
  PROVE  /\ punch.from \in Nat /\ punch.until = punch.from + Duration
         /\ punch.remotes = ClientRemotes(kind) /\ at \notin Early
<1>1. at \notin Early
  BY DEF PunchInv
<1>2. PICK t \in Int, c \in Nat : PunchedSince(t, c)
  BY <1>1 DEF PunchInv
<1>3. punch.from \in Nat
  BY DEF TimingTypeOK, Window
<1> QED BY <1>1, <1>2, <1>3 DEF PunchedSince

(* Nor does the client's, and it stays as it is.                           *)
LEMMA NewClientPunch ==
  ASSUME TimingTypeOK, PunchInv, [TimingNext]_timingVars, punch' # Nothing
  PROVE  \/ UNCHANGED <<punch, kind>> /\ punch # Nothing
         \/ punch'.from >= now /\ now' = now
<1>1. CASE StartPunchPlan \/ StartPunchOfHello
  <2>1. reply \in Response /\ StartPunchAndWait(ClientRemotes(kind))
    BY <1>1, StartParts
  <2>2. punch'.from = AtLeast(reply.startAt, now) /\ reply.startAt \in Int
    BY <2>1 DEF StartPunchAndWait, ClientStart, Response
  <2> QED BY <2>1, <2>2, BusyTypes DEF StartPunchAndWait, AtLeast
<1>2. CASE Publish \/ Published \/ PublishFails \/ RetryOrGiveUp \/ RefuseAnswer \/ Rejected
  BY <1>2 DEF PunchInv, Early, Publish, Published, PublishFails, RetryOrGiveUp, RefuseAnswer, Rejected, GiveUp
<1>3. CASE PunchTimesOut \/ \E m \in mail : ReceiveReply(m)
  BY <1>3 DEF PunchTimesOut, ReceiveReply
<1>4. CASE ServerStep \/ ProbeStep \/ Tick \/ UNCHANGED timingVars
  BY <1>4, ServerStepKeeps, ProbeStepKeeps, TickKeeps, StutterKeeps
<1> QED BY <1>1, <1>2, <1>3, <1>4, Steps DEF CallStep

LEMMA NowOrNext ==
  ASSUME TimingTypeOK, [TimingNext]_timingVars
  PROVE  UNCHANGED now \/ (Tick /\ now' = now + 1)
BY Steps, CallStepKeeps, ServerStepKeeps, ProbeStepKeeps, StutterKeeps DEF Tick

LEMMA OpenedGrows ==
  ASSUME [TimingNext]_timingVars
  PROVE  opened \subseteq opened'
BY Steps, CallStepKeeps, ServerStepKeeps, ProbeStepKeeps, TickKeeps, StutterKeeps

(* At a tick, the ends have sent wherever their windows have begun.        *)
LEMMA OpenedAtTick ==
  ASSUME TimingTypeOK, PunchInv, ServerPunchInv, OpenedInv, Tick, NEW p \in Path
  PROVE  /\ \A w \in punches :
              w.from <= now /\ p[1] \in w.remotes => <<"server", w.kind, p>> \in opened
         /\ punch # Nothing /\ punch.from <= now /\ p[2] \in punch.remotes =>
              <<"client", kind, p>> \in opened
<1>0. now \in Nat /\ Duration \in Nat \ {0} /\ ProbesSent
  BY BusyTypes DEF Tick
<1>1. ASSUME NEW w \in punches, w.from <= now, p[1] \in w.remotes
      PROVE  <<"server", w.kind, p>> \in opened
  <2>1. w.kind \in Kind /\ w.from \in Nat /\ w.until = w.from + Duration
    BY DEF TimingTypeOK, ServerWindow, ServerPunchInv
  <2>2. CASE w.from < now
    BY <1>1, <2>2 DEF OpenedInv
  <2>3. CASE w.from = now
    <3>1. ServerProbes(w.kind, p)
      BY <1>0, <1>1, <2>1, <2>3 DEF ServerProbes, InWindow
    <3> QED BY <1>0, <2>1, <3>1 DEF ProbesSent
  <2> QED BY <1>0, <1>1, <2>1, <2>2, <2>3
<1>2. ASSUME punch # Nothing, punch.from <= now, p[2] \in punch.remotes
      PROVE  <<"client", kind, p>> \in opened
  <2>1. punch.from \in Nat /\ punch.until = punch.from + Duration
    BY <1>2, WindowParts
  <2>2. CASE punch.from < now
    BY <1>2, <2>2 DEF OpenedInv
  <2>3. CASE punch.from = now
    <3>1. ClientProbes(p)
      BY <1>0, <1>2, <2>1, <2>3 DEF ClientProbes, InWindow
    <3> QED BY <1>0, <3>1 DEF ProbesSent
  <2> QED BY <1>0, <1>2, <2>1, <2>2, <2>3
<1> QED BY <1>1, <1>2

LEMMA OpenedStep ==
  TimingTypeOK /\ BusyInv /\ PunchInv /\ ServerPunchInv /\ OpenedInv /\ [TimingNext]_timingVars
  => OpenedInv'
<1> SUFFICES ASSUME TimingTypeOK, BusyInv, PunchInv, ServerPunchInv, OpenedInv,
                    [TimingNext]_timingVars, NEW p \in Path
             PROVE  /\ \A w \in punches' :
                         w.from < now' /\ p[1] \in w.remotes => <<"server", w.kind, p>> \in opened'
                    /\ punch' # Nothing /\ punch'.from < now' /\ p[2] \in punch'.remotes =>
                         <<"client", kind', p>> \in opened'
  BY DEF OpenedInv
<1>0. now \in Nat /\ opened \subseteq opened' /\ TimingTypeOK'
  BY BusyTypes, OpenedGrows, TimingTypes
<1>1. ASSUME NEW w \in punches', w.from < now', p[1] \in w.remotes
      PROVE  <<"server", w.kind, p>> \in opened'
  <2>0. w.from \in Nat
    BY <1>0 DEF TimingTypeOK, ServerWindow
  <2>1. CASE UNCHANGED now
    <3>1. w \in punches
      BY <1>0, <1>1, <2>0, <2>1, NewPunch
    <3> QED BY <1>0, <1>1, <2>1, <3>1 DEF OpenedInv
  <2>2. CASE Tick /\ now' = now + 1
    <3>1. w \in punches /\ w.from <= now
      BY <1>0, <1>1, <2>0, <2>2, TickKeeps
    <3> QED BY <1>0, <1>1, <2>2, <3>1, OpenedAtTick
  <2> QED BY <2>1, <2>2, NowOrNext
<1>2. ASSUME punch' # Nothing, punch'.from < now', p[2] \in punch'.remotes
      PROVE  <<"client", kind', p>> \in opened'
  <2>0. punch'.from \in Nat
    BY <1>0, <1>2 DEF TimingTypeOK, Window
  <2>1. UNCHANGED <<punch, kind>> /\ punch # Nothing
    BY <1>0, <1>2, <2>0, NewClientPunch
  <2>2. CASE UNCHANGED now
    BY <1>0, <1>2, <2>1, <2>2 DEF OpenedInv
  <2>3. CASE Tick /\ now' = now + 1
    BY <1>0, <1>2, <2>0, <2>1, <2>3, OpenedAtTick
  <2> QED BY <2>2, <2>3, NowOrNext
<1> QED BY <1>1, <1>2

-----------------------------------------------------------------------------
(* Nothing is lost.                                                        *)

(* While the client waits, no path is open that both have sent on.         *)
UnheardInv ==
  at = "punching" =>
    \A p \in passing : \A w \in punches :
      ~ /\ w.kind = kind /\ p[1] \in w.remotes /\ w.from < now
        /\ p[2] \in punch.remotes /\ punch.from < now

LEMMA UnheardStep ==
  TimingTypeOK /\ BusyInv /\ PunchInv /\ ServerPunchInv /\ OpenedInv /\ UnheardInv
  /\ [TimingNext]_timingVars => UnheardInv'
<1> SUFFICES ASSUME TimingTypeOK, BusyInv, PunchInv, ServerPunchInv, OpenedInv, UnheardInv,
                    [TimingNext]_timingVars, at' = "punching", NEW p \in passing', NEW w \in punches',
                    w.kind = kind', p[1] \in w.remotes, w.from < now',
                    p[2] \in punch'.remotes, punch'.from < now'
             PROVE  FALSE
  BY DEF UnheardInv
<1>0. /\ now \in Nat /\ TimingTypeOK' /\ p \in passing /\ p \in Path
      /\ w.from \in Nat
  <2>1. TimingTypeOK'
    BY TimingTypes
  <2>2. passing' = passing
    BY Steps, CallStepKeeps, ServerStepKeeps, ProbeStepKeeps, TickKeeps, StutterKeeps
  <2> QED BY <2>1, <2>2, BusyTypes DEF TimingTypeOK, ServerWindow
<1>1. CASE at = "punching"
  <2>1. punch # Nothing /\ at \notin Early
    BY <1>1 DEF PunchInv, Early
  <2>2. ~(StartPunchPlan \/ StartPunchOfHello)
    BY <1>1 DEF StartPunchPlan, StartPunchOfHello
  <2>3. UNCHANGED <<punch, kind>>
    <3>1. ~(Publish \/ Published \/ PublishFails \/ RetryOrGiveUp \/ RefuseAnswer \/ Rejected)
      BY <1>1 DEF Publish, Published, PublishFails, RetryOrGiveUp, RefuseAnswer, Rejected
    <3>2. PunchTimesOut \/ (\E m \in mail : ReceiveReply(m)) => UNCHANGED <<punch, kind>>
      BY DEF PunchTimesOut, ReceiveReply
    <3> QED BY <2>2, <3>1, <3>2, Steps, ServerStepKeeps, ProbeStepKeeps, TickKeeps, StutterKeeps DEF CallStep
  <2>4. punch.from \in Nat
    BY <2>1, WindowParts
  <2>5. CASE UNCHANGED now
    <3>1. w \in punches
      BY <1>0, <2>5, NewPunch
    <3> QED BY <1>0, <1>1, <2>3, <2>5, <3>1 DEF UnheardInv
  <2>6. CASE Tick /\ now' = now + 1
    <3>1. w \in punches /\ w.from <= now /\ punch.from <= now /\ w.kind = kind
          /\ p[2] \in punch.remotes /\ p[1] \in w.remotes
      BY <1>0, <2>3, <2>4, <2>6, TickKeeps
    <3>2. <<"server", kind, p>> \in opened /\ <<"client", kind, p>> \in opened
      BY <1>0, <2>1, <2>6, <3>1, OpenedAtTick
    <3>3. Passes(p, "server") /\ Passes(p, "client")
      BY <1>0, <3>2 DEF Passes
    <3>4. w.until = w.from + Duration /\ punch.until = punch.from + Duration
          /\ Duration \in Nat \ {0} /\ ProbesSent /\ kind \in Kind
      BY <2>1, <2>6, <3>1, WindowParts, BusyTypes DEF ServerPunchInv, Tick, TimingTypeOK
    <3>5. punch.from # now
      <4>1. SUFFICES ASSUME punch.from = now PROVE FALSE
        OBVIOUS
      <4>2. ClientProbes(p)
        BY <1>0, <2>1, <3>1, <3>4, <4>1 DEF ClientProbes, InWindow
      <4> QED BY <1>0, <1>1, <3>1, <3>3, <3>4, <4>2 DEF ProbesSent
    <3>6. w.from # now
      <4>1. SUFFICES ASSUME w.from = now PROVE FALSE
        OBVIOUS
      <4>2. ServerProbes(kind, p)
        BY <1>0, <3>1, <3>4, <4>1 DEF ServerProbes, InWindow
      <4> QED BY <1>0, <1>1, <3>3, <3>4, <4>2 DEF ProbesSent
    <3>7. w.from < now /\ punch.from < now
      BY <1>0, <2>4, <3>1, <3>5, <3>6
    <3> QED BY <1>0, <1>1, <3>1, <3>7 DEF UnheardInv
  <2> QED BY <2>5, <2>6, NowOrNext
<1>2. CASE at # "punching"
  <2>1. StartPunchPlan \/ StartPunchOfHello
    <3>1. CASE CallStep
      BY <1>2, <3>1 DEF CallStep, Publish, Published, PublishFails, RetryOrGiveUp, RefuseAnswer,
         Rejected, PunchTimesOut, GiveUp, ReceiveReply
    <3> QED BY <1>2, <3>1, Steps, ServerStepKeeps, ProbeStepKeeps, TickKeeps, StutterKeeps
  <2>2. reply \in Response /\ StartPunchAndWait(ClientRemotes(kind))
    BY <2>1, StartParts
  <2>3. punch'.from = AtLeast(reply.startAt, now) /\ reply.startAt \in Int /\ now' = now
    BY <2>2 DEF StartPunchAndWait, ClientStart, Response
  <2> QED BY <1>0, <2>3 DEF AtLeast
<1> QED BY <1>1, <1>2

LEMMA LostStep ==
  TimingTypeOK /\ BusyInv /\ PunchInv /\ ServerPunchInv /\ UnheardInv /\ LostToClocksOrEnd
  /\ [TimingNext]_timingVars => LostToClocksOrEnd'
<1> SUFFICES ASSUME TimingTypeOK, BusyInv, PunchInv, ServerPunchInv, UnheardInv, LostToClocksOrEnd,
                    [TimingNext]_timingVars, at' = "failed", punch' # Nothing,
                    NEW p \in passing', Told(kind, p)'
             PROVE  BeginsTooLate' \/ ~running'
  BY DEF LostToClocksOrEnd
<1>0. /\ UNCHANGED <<skew, client, server, passing>> /\ BeginsTooLate' = BeginsTooLate
      /\ ~running => ~running'
      /\ p \in passing /\ p \in Path
  <2>1. UNCHANGED <<skew, client, server, passing>>
    BY Steps, CallStepKeeps, ServerStepKeeps, ProbeStepKeeps, TickKeeps, StutterKeeps
  <2>2. ~running => ~running'
    BY Steps, CallStepKeeps, ProbeStepKeeps, TickKeeps, StutterKeeps
       DEF ServerStep, ReadOffer, ReadHello, SendAnswer, StartServerPunch, ServerEnds
  <2> QED BY <2>1, <2>2 DEF BeginsTooLate, TimingTypeOK
<1>1. CASE at = "failed"
  <2>1. UNCHANGED <<punch, kind>>
    BY <1>1 DEF TimingNext, Done, timingVars, callVars
  <2>2. Told(kind, p)
    BY <1>0, <2>1 DEF Told
  <2> QED BY <1>0, <1>1, <2>1, <2>2 DEF LostToClocksOrEnd
<1>2. CASE at # "failed"
  <2>1. PunchTimesOut
    <3>1. CASE CallStep /\ ~PunchTimesOut
      <4>1. at \in Early /\ punch' = punch
        BY <1>2, <3>1 DEF CallStep, Publish, Published, PublishFails, RetryOrGiveUp, RefuseAnswer,
           Rejected, GiveUp, ReceiveReply, StartPunchPlan, StartPunchOfHello, StartPunchAndWait, Early
      <4> QED BY <4>1 DEF PunchInv
    <3> QED BY <1>2, <3>1, Steps, ServerStepKeeps, ProbeStepKeeps, TickKeeps, StutterKeeps DEF CallStep
  <2>2. at = "punching" /\ now = wake /\ UNCHANGED <<punch, kind, now>>
    BY <2>1 DEF PunchTimesOut
  <2>3. PICK t \in Int, c \in Nat : PunchedSince(t, c)
    BY <2>2 DEF PunchInv, Early
  <2>4. /\ t <= c /\ now = c + Duration + Grace /\ WillPunch(kind, t)
        /\ punch.from = AtLeast(t + skew + StartDelay, c) /\ punch.remotes = ClientRemotes(kind)
    BY <2>2, <2>3 DEF PunchedSince
  <2>5. p[1] \in ServerRemotes(kind) /\ p[2] \in ClientRemotes(kind)
    <3>1. Told(kind, p) /\ kind \in Kind
      BY <1>0, <2>2 DEF Told, TimingTypeOK
    <3> QED BY <1>0, <3>1, ToldIsTried
  <2>6. SUFFICES ASSUME ~BeginsTooLate, running PROVE FALSE
    BY <1>0
  <2>7. skew + StartDelay < Duration + Grace /\ AtLeast(StartDelay, MaxAnswer) < Duration + Grace
    BY <2>6, BusyTypes DEF BeginsTooLate, AtLeast
  <2>8. punch.from < now
    BY <2>4, <2>7, BusyTypes DEF AtLeast
  <2>9. ~(busy # Nothing /\ busy.sent /\ busy.kind = kind /\ busy.read = t + skew)
    BY <2>4, <2>7, BusyTypes DEF BusyInv, AtLeast
  <2>10. PICK w \in punches : w.kind = kind /\ w.from <= t + AtLeast(StartDelay, MaxAnswer)
    BY <2>4, <2>5, <2>6, <2>9 DEF WillPunch
  <2>11. w.from < now
    <3>1. w.from \in Nat
      BY DEF TimingTypeOK, ServerWindow
    <3> QED BY <2>4, <2>7, <2>10, <3>1, BusyTypes DEF AtLeast
  <2>12. w.remotes = ServerRemotes(kind)
    BY <2>10 DEF ServerPunchInv
  <2> QED BY <1>0, <2>2, <2>4, <2>5, <2>8, <2>10, <2>11, <2>12 DEF UnheardInv
<1> QED BY <1>1, <1>2

-----------------------------------------------------------------------------
(* The whole.                                                              *)

TimingInv ==
  /\ TimingTypeOK /\ TimeInv /\ SendInv /\ BusyInv /\ MailInv /\ ReplyInv /\ PunchInv
  /\ ServerPunchInv /\ OpenedInv /\ UnheardInv /\ LostToClocksOrEnd

LEMMA TimingInvInit == TimingInit => TimingInv
<1> SUFFICES ASSUME TimingInit PROVE TimingInv
  OBVIOUS
<1>1. TimingTypeOK
  BY TimingInitTypes
<1>2. TimeInv /\ SendInv
  BY <1>1, Lengths DEF TimingInit, TimeInv, SendInv, Done, Kind
<1>3. BusyInv /\ MailInv /\ ReplyInv /\ PunchInv /\ ServerPunchInv /\ OpenedInv
  BY DEF TimingInit, BusyInv, MailInv, ReplyInv, PunchInv, ServerPunchInv, OpenedInv, Early
<1>4. UnheardInv /\ LostToClocksOrEnd
  BY DEF TimingInit, UnheardInv, LostToClocksOrEnd
<1> QED BY <1>1, <1>2, <1>3, <1>4 DEF TimingInv

LEMMA TimingInvStep == TimingInv /\ [TimingNext]_timingVars => TimingInv'
BY TimingTypes, TimeStep, BusyStep, MailStep, ReplyStep, PunchStep, ServerPunchStep, OpenedStep,
   UnheardStep, LostStep DEF TimingInv

(* The inductive invariant of the times of a call.                         *)
THEOREM TimingInductive == TimingSpec => []TimingInv
BY TimingInvInit, TimingInvStep, PTL DEF TimingSpec

(* Every variable of the model of the times of a call keeps its type: the  *)
(* clocks, messages and punches of send_offer, send_hello and the server's *)
(* notify task.                                                            *)
THEOREM TimingTypeCorrect == TimingSpec => []TimingTypeOK
BY TimingInductive, PTL DEF TimingInv

(* However its messages are lost or late and whatever the two clocks show, *)
(* a connect call is over within the waits of an offer and of a hello, one *)
(* retry and one publish more for each, and a punch.                       *)
THEOREM Timely == TimingSpec => []ReturnsInTime
<1>1. TimingInv => ReturnsInTime
  BY TimeInvReturns DEF TimingInv
<1> QED BY <1>1, TimingInductive, PTL

(* Once the client punches and the server is not busy any more, their      *)
(* windows begin as close to each other as the clocks agree and the answer *)
(* was quick, for any delay, duration and validity, unless the server has  *)
(* ended: over a name in place of an address, say, after it has answered.  *)
THEOREM Together == TimingSpec => []WindowsTogether
<1>1. TimingInv => WindowsTogether
  BY PunchInvTogether DEF TimingInv
<1> QED BY <1>1, TimingInductive, PTL

(* A call that has begun to punch and fails had no path between the        *)
(* addresses that were told, or one end began when the other had given up, *)
(* or the server's process has ended: where packets pass, guarded or not,  *)
(* a punch that both make is heard.                                        *)
THEOREM NotLost == TimingSpec => []LostToClocksOrEnd
<1>1. TimingInv => LostToClocksOrEnd
  BY DEF TimingInv
<1> QED BY <1>1, TimingInductive, PTL
=============================================================================
