----------------------------- MODULE PunchTiming -----------------------------
(***************************************************************************)
(* The times of one connect call: the waits and retries of send_offer,     *)
(* send_hello and start_punch_and_wait in fips-console-client.rs, and the  *)
(* answers and punches of the notify task of fips-console-server.rs.       *)
(*                                                                         *)
(* now is real time and the client's clock; the server's is ahead of it by *)
(* skew.  Timers fire when they are due, messages come through at any time *)
(* within MaxLatency or never, and each end needs some time to publish.    *)
(* Probes are repeated so often that on a path that lets packets through   *)
(* one is heard within a unit of time.  An end that was told a host name   *)
(* cannot punch; the server's process ends over it.  It may end at any     *)
(* time, and is not started again.  Who is who, and which packet is whose, *)
(* is the subject of Rendezvous; here there is one of each.                *)
(***************************************************************************)
EXTENDS PunchPlan, FiniteSets

CONSTANTS
  Skews,       \* by how much the server's clock may be ahead
  Clients,     \* what the client may know of its addresses
  Servers,     \* and the server
  Path,        \* pairs of an address of the client and one of the server
  Guarded,     \* paths on which an end only hears who it has sent to
  Named,       \* addresses whose host is a name, which parse() does not take
  OfferWait, OfferRetry,  \* wait_ms, retry_ms of send_offer
  HelloWait, HelloRetry,  \* and of send_hello
  Validity,    \* ttl_ms of offers and answers
  StartDelay,  \* punch_start_delay_ms
  Duration,    \* punch_duration_ms
  Grace,       \* how much longer the client waits
  MaxSend,     \* bounds how long the client needs to prepare and publish a message
  MaxAnswer,   \* bounds how long the server needs for an answer
  MaxLatency   \* bounds how long a message is under way

ASSUME TimesAssumption ==
  /\ {OfferRetry, HelloRetry, Duration} \subseteq Nat \ {0}
  /\ {OfferWait, HelloWait, Validity, StartDelay, Grace, MaxSend, MaxAnswer, MaxLatency} \subseteq Nat
  /\ Skews \subseteq Int
ASSUME EndsAssumption == Clients \subseteq End /\ Servers \subseteq End /\ Path \subseteq Addr \X Addr
ASSUME NamedAssumption == Named \subseteq Addr
ASSUME GuardedAssumption == Guarded \subseteq Path

VARIABLES
  now,
  skew, client, server,  \* chosen at the beginning
  passing,  \* the paths on which packets pass at all
  at,       \* where the connect call is
  kind,     \* what it waits an answer for: "offer" or "hello"
  start,    \* when it began to wait
  wake,     \* when its timer fires
  reply,    \* what its oneshot channel holds
  punch,    \* its punch, once it has begun
  mail,     \* messages on their way
  running,  \* the server's process has not ended
  busy,     \* what its notify task is answering
  punches,  \* the server's punches
  opened    \* an end has sent on a path

chosen == <<skew, client, server, passing>>
callVars == <<at, kind, start, wake, reply, punch>>
serverVars == <<running, busy, punches>>
timingVars == <<now, chosen, callVars, mail, serverVars, opened>>

Kind == {"offer", "hello"}
Wait(k) == IF k = "offer" THEN OfferWait ELSE HelloWait
Retry(k) == IF k = "offer" THEN OfferRetry ELSE HelloRetry

ServerClock == now + skew

Done == at \in {"connected", "failed"}

(* Messages, what the notify task is busy with, and punches.               *)
Request == [to : {"server"}, kind : Kind, sentAt : Nat]
Response ==
  [to : {"client"}, kind : Kind, sentAt : Nat, issuedAt : Int, startAt : Int, accepted : BOOLEAN,
   addresses : {Described(server)}, endpoint : {Endpoint(server)}]
Answering == [kind : Kind, read : Int, by : Nat, sent : BOOLEAN]
Window == [from : Nat, until : Nat, remotes : SUBSET Addr]
ServerWindow == [kind : Kind, from : Nat, until : Nat, remotes : SUBSET Addr]

ASSUME NothingAssumption == Nothing \notin Answering \union Window

TimingTypeOK ==
  /\ {now, start, wake} \subseteq Nat
  /\ skew \in Skews /\ client \in Clients /\ server \in Servers
  /\ passing \subseteq Path
  /\ at \in {"publish", "publishing", "waiting", "punching", "connected", "failed"}
  /\ kind \in Kind
  /\ reply \in Response \union {Nothing}
  /\ punch \in Window \union {Nothing}
  /\ mail \subseteq Request \union Response
  /\ running \in BOOLEAN
  /\ busy \in Answering \union {Nothing}
  /\ punches \subseteq ServerWindow
  /\ opened \subseteq {"client", "server"} \X Kind \X Path

TimingInit ==
  /\ now = 0
  /\ skew \in Skews /\ client \in Clients /\ server \in Servers
  /\ passing \in SUBSET Path
  /\ at = "publish"
  /\ kind = "offer"
  /\ start = 0
  /\ wake = 0
  /\ reply = Nothing
  /\ punch = Nothing
  /\ mail = {}
  /\ running = TRUE
  /\ busy = Nothing
  /\ punches = {}
  /\ opened = {}

-----------------------------------------------------------------------------
(* send_offer and send_hello.                                              *)

(* create_traversal_offer: the dates are the same in every copy.           *)
Offer == [issuedAt |-> 0, expiresAt |-> Validity, addresses |-> Described(client)]

Publish ==
  /\ at = "publish"
  /\ mail' = mail \union {[to |-> "server", kind |-> kind, sentAt |-> now]}
  /\ at' = "publishing"
  /\ wake' = now + MaxSend
  /\ UNCHANGED <<now, chosen, kind, start, reply, punch, serverVars, opened>>

Published ==
  /\ at = "publishing"
  /\ at' = "waiting"
  /\ wake' = now + Retry(kind)
  /\ UNCHANGED <<now, chosen, kind, start, reply, punch, mail, serverVars, opened>>

(* The offer's error starts the hello, the hello's ends the call.          *)
GiveUp ==
  /\ reply' = Nothing
  /\ IF kind = "offer"
     THEN at' = "publish" /\ kind' = "hello" /\ start' = now
     ELSE at' = "failed" /\ UNCHANGED <<kind, start>>
  /\ UNCHANGED <<wake, punch>>

PublishFails ==
  /\ at = "publishing"
  /\ GiveUp
  /\ UNCHANGED <<now, chosen, mail, serverVars, opened>>

(* Mutant of RetryOrGiveUp: the wait begins anew with every copy.           *)
RetryFromNow ==
  /\ at = "waiting"
  /\ now = wake
  /\ reply = Nothing
  /\ IF now - start >= Wait(kind)
     THEN GiveUp
     ELSE /\ at' = "publish"
          /\ start' = now
          /\ UNCHANGED <<kind, wake, reply, punch>>
  /\ UNCHANGED <<now, chosen, mail, serverVars, opened>>

(* The timer of a copy fires; the wait is only looked at then.             *)
RetryOrGiveUp ==
  /\ at = "waiting"
  /\ now = wake
  /\ reply = Nothing
  /\ IF now - start >= Wait(kind)
     THEN GiveUp
     ELSE at' = "publish" /\ UNCHANGED <<kind, start, wake, reply, punch>>
  /\ UNCHANGED <<now, chosen, mail, serverVars, opened>>

(* The client's notify task: only the first answer finds the sender.       *)
ReceiveReply(m) ==
  /\ m \in mail /\ m.to = "client"
  /\ mail' = mail \ {m}
  /\ reply' = IF m.kind = kind /\ reply = Nothing /\ at \in {"publish", "publishing", "waiting"}
              THEN m ELSE reply
  /\ UNCHANGED <<now, chosen, at, kind, start, wake, punch, serverVars, opened>>

(* validate_traversal_answer_for_offer, as far as the dates go.            *)
IsValid(a) ==
  /\ Offer.expiresAt > now
  /\ a.issuedAt + Validity > now
  /\ a.issuedAt >= Offer.issuedAt

RefuseAnswer ==
  /\ at = "waiting" /\ reply # Nothing /\ kind = "offer"
  /\ ~IsValid(reply)
  /\ GiveUp
  /\ UNCHANGED <<now, chosen, mail, serverVars, opened>>

-----------------------------------------------------------------------------
(* start_punch_and_wait, start_punch_plan_and_wait.                        *)

AtLeast(a, b) == IF a >= b THEN a ELSE b

(* saturating_sub: a start that has passed is now.                         *)
ClientStart(a) == AtLeast(a.startAt, now)

(* Probes only go to IP addresses; one name among the targets is an error. *)
Punchable(remotes) == remotes # {} /\ remotes \cap Named = {}

(* A rejected answer ends the call, and so does one that leaves no targets *)
(* or a name among them.                                                   *)
Rejected ==
  /\ at = "waiting" /\ reply # Nothing
  /\ \/ /\ kind = "offer" /\ IsValid(reply)
        /\ ~reply.accepted \/ ~Punchable(PlannedRemotes(Offer.addresses, reply.addresses))
     \/ kind = "hello" /\ ~Punchable({reply.endpoint})
  /\ at' = "failed"
  /\ UNCHANGED <<now, chosen, kind, start, wake, reply, punch, mail, serverVars, opened>>

StartPunchAndWait(remotes) ==
  /\ punch' = [from |-> ClientStart(reply), until |-> ClientStart(reply) + Duration,
               remotes |-> remotes]
  /\ at' = "punching"
  /\ wake' = now + Duration + Grace
  /\ reply' = Nothing
  /\ UNCHANGED <<now, chosen, kind, start, mail, serverVars, opened>>

StartPunchPlan ==
  /\ at = "waiting" /\ reply # Nothing /\ kind = "offer"
  /\ IsValid(reply)
  /\ reply.accepted
  /\ Punchable(PlannedRemotes(Offer.addresses, reply.addresses))
  /\ StartPunchAndWait(PlannedRemotes(Offer.addresses, reply.addresses))

StartPunchOfHello ==
  /\ at = "waiting" /\ reply # Nothing /\ kind = "hello"
  /\ Punchable({reply.endpoint})
  /\ StartPunchAndWait({reply.endpoint})

PunchTimesOut ==
  /\ at = "punching"
  /\ now = wake
  /\ at' = "failed"
  /\ UNCHANGED <<now, chosen, kind, start, wake, reply, punch, mail, serverVars, opened>>

-----------------------------------------------------------------------------
(* The notify task of the server: one message after the other.             *)

ReadOffer(m) ==
  /\ running /\ busy = Nothing
  /\ m \in mail /\ m.to = "server" /\ m.kind = "offer"
  /\ mail' = mail \ {m}
  /\ IF Offer.expiresAt > ServerClock
     THEN busy' = [kind |-> "offer", read |-> ServerClock, by |-> now + MaxAnswer, sent |-> FALSE]
     ELSE UNCHANGED busy
  /\ UNCHANGED <<now, chosen, callVars, running, punches, opened>>

ReadHello(m) ==
  /\ running /\ busy = Nothing
  /\ m \in mail /\ m.to = "server" /\ m.kind = "hello"
  /\ mail' = mail \ {m}
  /\ busy' = [kind |-> "hello", read |-> ServerClock, by |-> now + MaxAnswer, sent |-> FALSE]
  /\ UNCHANGED <<now, chosen, callVars, running, punches, opened>>

Accepted == Addresses(Described(server)) # {}

(* create_traversal_answer, LegacyServerInfoMessage.  The date is the one  *)
(* at which the message was read, however long the answer took.            *)
Answer ==
  [to |-> "client", kind |-> busy.kind, sentAt |-> now, issuedAt |-> busy.read,
   startAt |-> busy.read + StartDelay, accepted |-> Accepted,
   addresses |-> Described(server), endpoint |-> Endpoint(server)]

SendAnswer ==
  /\ busy # Nothing /\ ~busy.sent
  /\ mail' = mail \union {Answer}
  /\ busy' = [busy EXCEPT !.sent = TRUE]
  /\ UNCHANGED <<now, chosen, callVars, running, punches, opened>>

ServerRemotes(k) ==
  IF k = "hello" THEN {Endpoint(client)}
  ELSE IF Accepted THEN PlannedRemotes(Described(server), Offer.addresses) ELSE {}

(* Mutant of ServerStart: the start is not moved into the future when it   *)
(* is read, so each end begins when it has the message.                    *)
ServerStartAtOnce == now

(* saturating_sub, by the server's clock.                                  *)
ServerStart == AtLeast(busy.read + StartDelay, ServerClock) - skew

(* start_punch_plan and start_punch: nothing to do without targets.        *)
StartServerPunch ==
  /\ busy # Nothing /\ busy.sent
  /\ ServerRemotes(busy.kind) \cap Named = {}
  /\ LET remotes == ServerRemotes(busy.kind) IN
       punches' = IF remotes = {} THEN punches
                  ELSE punches \union {[kind |-> busy.kind, from |-> ServerStart,
                                        until |-> ServerStart + Duration, remotes |-> remotes]}
  /\ busy' = Nothing
  /\ UNCHANGED <<now, chosen, callVars, mail, running, opened>>

(* The process ends, and with it the punches that it has spawned.          *)
ServerEnds ==
  /\ running' = FALSE
  /\ busy' = Nothing
  /\ punches' = {}
  /\ UNCHANGED <<now, chosen, callVars, mail, opened>>

(* The client told a name.  The answer is out, but the error ends the      *)
(* notify task, and main with it.                                          *)
StartServerPunchFails ==
  /\ busy # Nothing /\ busy.sent
  /\ ServerRemotes(busy.kind) \cap Named # {}
  /\ ServerEnds

(* ctrl_c, the end of udp_task, or another error of the notify task: of an *)
(* answer, say, that no relay confirms, though one may have it.            *)
Stop == running /\ ServerEnds

-----------------------------------------------------------------------------
(* Probes.                                                                 *)

InWindow(w) == w.from <= now /\ now < w.until

Passes(p, receiver) ==
  p \in passing /\ (p \in Guarded => <<receiver, kind, p>> \in opened)

ClientProbes(p) == punch # Nothing /\ InWindow(punch) /\ p[2] \in punch.remotes
ServerProbes(k, p) == \E w \in punches : w.kind = k /\ InWindow(w) /\ p[1] \in w.remotes

(* The server answers a probe of a session it knows with an ack, on the    *)
(* same path; a probe or an ack ends the client's wait.                    *)
ProbeOfClient(p) ==
  /\ ClientProbes(p)
  /\ LET heard == Passes(p, "server") /\ \E w \in punches : w.kind = kind IN
     /\ (at = "punching" /\ heard) \/ <<"client", kind, p>> \notin opened
     /\ at' = IF at = "punching" /\ heard THEN "connected" ELSE at
  /\ opened' = opened \union {<<"client", kind, p>>}
  /\ UNCHANGED <<now, chosen, kind, start, wake, reply, punch, mail, serverVars>>

ProbeOfServer(k, p) ==
  /\ ServerProbes(k, p)
  /\ LET heard == k = kind /\ Passes(p, "client") IN
     /\ (at = "punching" /\ heard) \/ <<"server", k, p>> \notin opened
     /\ at' = IF at = "punching" /\ heard THEN "connected" ELSE at
  /\ opened' = opened \union {<<"server", k, p>>}
  /\ UNCHANGED <<now, chosen, kind, start, wake, reply, punch, mail, serverVars>>

-----------------------------------------------------------------------------
(* A unit of time: no timer is due, all probes of this unit were sent, and *)
(* what has been under way for too long is lost.                           *)
ProbesSent ==
  \A p \in Path :
    /\ ClientProbes(p) =>
         /\ <<"client", kind, p>> \in opened
         /\ at = "punching" => ~(Passes(p, "server") /\ \E w \in punches : w.kind = kind)
    /\ \A k \in Kind : ServerProbes(k, p) =>
         /\ <<"server", k, p>> \in opened
         /\ at = "punching" /\ k = kind => ~Passes(p, "client")

Tick ==
  /\ ~Done
  /\ at # "publish"
  /\ wake > now
  /\ at = "waiting" => reply = Nothing
  /\ busy # Nothing => busy.by > now
  /\ ProbesSent
  /\ now' = now + 1
  /\ mail' = {m \in mail : m.sentAt + MaxLatency > now}
  /\ UNCHANGED <<chosen, callVars, serverVars, opened>>

TimingNext ==
  /\ ~Done  \* the run ends with the call
  /\ \/ Publish \/ Published \/ PublishFails \/ RetryOrGiveUp
     \/ \E m \in mail : ReceiveReply(m) \/ ReadOffer(m) \/ ReadHello(m)
     \/ RefuseAnswer \/ Rejected \/ StartPunchPlan \/ StartPunchOfHello \/ PunchTimesOut
     \/ SendAnswer \/ StartServerPunch \/ StartServerPunchFails \/ Stop
     \/ \E p \in Path : ProbeOfClient(p) \/ (\E k \in Kind : ProbeOfServer(k, p))
     \/ Tick

TimingSpec == TimingInit /\ [][TimingNext]_timingVars

-----------------------------------------------------------------------------
(* Properties.                                                             *)

Magnitude(n) == IF n < 0 THEN -n ELSE n

Longest(k) == Wait(k) + Retry(k) + MaxSend

(* The call is over in a time that nothing on the network can stretch: a   *)
(* wait is overrun by at most one copy, and the waits are not nested.      *)
ReturnsInTime ==
  LET Waited == Longest("offer") + (IF kind = "hello" THEN Longest("hello") ELSE 0) IN
  now <= Waited + (IF at \in {"publish", "publishing", "waiting"} THEN 0 ELSE Duration + Grace)

(* How far apart the windows may be: by the difference of the clocks, by   *)
(* what is left of the way of the answer after the delay, or by what is    *)
(* left of the time that the server still takes when the client begins.    *)
Apart ==
  AtLeast(Magnitude(skew),
          AtLeast(MaxSend + MaxAnswer + MaxLatency - StartDelay,
                  MaxAnswer - AtLeast(StartDelay + skew, 0)))

(* The two ends punch at the same time, as exactly as their clocks agree   *)
(* and the answer was quick: the client's window begins with one of the    *)
(* server's for the same messages, the server is still about to start, or  *)
(* it has ended: it may have told the client when to begin, and then fail  *)
(* to do so itself.                                                        *)
WindowsTogether ==
  punch # Nothing /\ busy = Nothing /\ running =>
    \/ ServerRemotes(kind) = {}
    \/ \E w \in punches : w.kind = kind /\ Magnitude(punch.from - w.from) <= Apart

Told(k, p) ==
  IF k = "hello" THEN p = <<Endpoint(client), Endpoint(server)>>
  ELSE /\ p[1] \in Addresses(Described(client))
       /\ p[2] \in Addresses(Described(server))

(* The client, or the server, may begin only when the client has given up. *)
BeginsTooLate ==
  \/ skew + StartDelay >= Duration + Grace
  \/ AtLeast(StartDelay, MaxAnswer) >= Duration + Grace

(* Once the client has begun, the call fails only if there is no path      *)
(* between the addresses the ends told each other, if the server's clock   *)
(* is so far ahead, or the start so far off, that the client gives up      *)
(* before both have begun, or if the server's process has ended.           *)
LostToClocksOrEnd ==
  at = "failed" /\ punch # Nothing =>
    (\A p \in passing : ~Told(kind, p)) \/ BeginsTooLate \/ ~running
=============================================================================
