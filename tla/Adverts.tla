------------------------------- MODULE Adverts -------------------------------
(***************************************************************************)
(* How a daemon finds a server: the adverts a server publishes on a timer, *)
(* the cache a daemon keeps of them, and the relays it sends its offer to. *)
(* The publisher is fips-shell-server.rs, the daemon fips-web-daemon.rs.   *)
(*                                                                         *)
(* Daemons do not touch each other, so there is one; it is no server       *)
(* itself.  The clock of a server may be off by a fixed amount.  Relays    *)
(* keep the last advert of a server and hand a subscriber every advert     *)
(* they ever had, late, again, and in any order.                           *)
(***************************************************************************)
EXTENDS Integers, FiniteSets

CONSTANTS
  Server,        \* npubs of the servers
  Relay,         \* advert_relays
  DmRelay,       \* relays for private messages
  DmRelays,      \* the lists of them a server may be started with
  DaemonRelays,  \* dm_relays of the daemon
  DaemonLists,   \* lists of inbox relays the daemon published, at this start and before
  Skew,          \* by how much the clock of a server is ahead
  Interval,      \* advertise_interval_ms
  Ttl,           \* advertise_ttl_ms
  MaxNow,        \* bounds the run
  MaxStarts,     \* bounds how often servers are started
  None           \* no advert, no server

ASSUME RelayAssumption ==
  /\ DaemonRelays \subseteq DmRelay
  /\ DmRelays \union DaemonLists \subseteq SUBSET DmRelay
ASSUME SkewAssumption == Skew \in [Server -> Int]
ASSUME IntervalAssumption == Interval \in Nat \ {0} /\ Ttl \in Nat
ASSUME NoneAssumption == None \notin Server \union DaemonLists

VARIABLES
  now,      \* the daemon's clock
  running,  \* servers whose process runs
  dm,       \* dm_relays of each server, of its last start
  since,    \* when, by its own clock, a server was last started
  due,      \* when the advertising task of a server wakes up next
  missed,   \* renewals that failed one after the other
  starts,   \* servers started so far
  stored,   \* the advert each relay holds of each server
  wire,     \* adverts that reached a relay
  inboxes,  \* lists of inbox relays that reached a relay
  cache,    \* AppState.advert_cache
  heard,    \* adverts that came to the daemon before they expired
  at,       \* where the connect call is
  batch,    \* what its refresh fetched, or None
  target,   \* target_npub
  advert,   \* discovered_advert as api_connect has it
  relays,   \* dm_relays the offer goes to
  reply     \* relays the answer to the offer goes to

serverVars == <<running, dm, since, due, missed, starts, stored, wire, inboxes>>
connectVars == <<at, batch, target, advert, relays, reply>>
vars == <<now, serverVars, cache, heard, connectVars>>

Advert == [server : Server, publishedAt : Int, expiresAt : Int, relays : SUBSET DmRelay]

ASSUME NoAdvertAssumption == None \notin Advert

TypeOK ==
  /\ now \in Nat
  /\ running \subseteq Server
  /\ dm \in [Server -> SUBSET DmRelay]
  /\ since \in [Server -> Int]
  /\ due \in [Server -> Nat]
  /\ missed \in [Server -> Nat]
  /\ starts \in Nat
  /\ stored \in [Relay -> [Server -> Advert \union {None}]]
  /\ wire \subseteq Advert
  /\ inboxes \subseteq [server : Server, at : Int, relays : SUBSET DmRelay]
  /\ cache \in [Server -> Advert \union {None}]
  /\ heard \subseteq Advert
  /\ at \in {"idle", "listing", "finding", "relays", "offering", "checking", "checked", "answered"}
  /\ batch = None \/ batch \subseteq Advert
  /\ target \in Server \union {None}
  /\ advert \in Advert \union {None}
  /\ relays \subseteq DmRelay
  /\ reply \subseteq DmRelay

Init ==
  /\ now = 0
  /\ running = {}
  /\ dm = [s \in Server |-> {}]
  /\ since = [s \in Server |-> 0]
  /\ due = [s \in Server |-> 0]
  /\ missed = [s \in Server |-> 0]
  /\ starts = 0
  /\ stored = [r \in Relay |-> [s \in Server |-> None]]
  /\ wire = {}
  /\ inboxes = {}
  /\ cache = [s \in Server |-> None]
  /\ heard = {}
  /\ at = "idle"
  /\ batch = None
  /\ target = None
  /\ advert = None
  /\ relays = {}
  /\ reply = {}

-----------------------------------------------------------------------------
(* The servers.                                                            *)

Clock(s) == now + Skew[s]

AdvertOf(s, R) ==
  [server |-> s, publishedAt |-> Clock(s), expiresAt |-> Clock(s) + Ttl, relays |-> R]

(* Mutant of PublishAdvert: the advert says it expires at the next renewal.  *)
PublishAdvertBriefly(s, R, reached) ==
  LET a == [AdvertOf(s, R) EXCEPT !.expiresAt = Clock(s) + Interval] IN
  /\ stored' = [r \in Relay |-> IF r \in reached THEN [stored[r] EXCEPT ![s] = a] ELSE stored[r]]
  /\ wire' = IF reached = {} THEN wire ELSE wire \union {a}

PublishAdvert(s, R, reached) ==
  LET a == AdvertOf(s, R) IN
  /\ stored' = [r \in Relay |-> IF r \in reached THEN [stored[r] EXCEPT ![s] = a] ELSE stored[r]]
  /\ wire' = IF reached = {} THEN wire ELSE wire \union {a}

PublishInboxRelays(s, R) ==
  inboxes' = inboxes \union {[server |-> s, at |-> Clock(s), relays |-> R]}

(* main publishes the inbox relays and the first advert, and only goes on  *)
(* when both are out.  The timer's first tick comes at once.  Restarting a *)
(* process takes longer than the clock's resolution.                       *)
Start(s, R, reached) ==
  /\ s \notin running
  /\ starts < MaxStarts
  /\ \A i \in inboxes : i.server = s => i.at < Clock(s)
  /\ \A a \in wire : a.server = s => a.publishedAt < Clock(s)
  /\ starts' = starts + 1
  /\ PublishInboxRelays(s, R)
  /\ PublishAdvert(s, R, reached)
  /\ IF reached = {}
     THEN UNCHANGED <<running, dm, since, due, missed>>
     ELSE /\ running' = running \union {s}
          /\ dm' = [dm EXCEPT ![s] = R]
          /\ since' = [since EXCEPT ![s] = Clock(s)]
          /\ due' = [due EXCEPT ![s] = now]
          /\ missed' = [missed EXCEPT ![s] = 0]
  /\ UNCHANGED <<now, cache, heard, connectVars>>

(* The advertising task: an advert no relay took is not tried again before *)
(* the next tick.                                                          *)
Renew(s, reached) ==
  /\ s \in running
  /\ due[s] = now
  /\ PublishAdvert(s, dm[s], reached)
  /\ due' = [due EXCEPT ![s] = now + Interval]
  /\ missed' = [missed EXCEPT ![s] = IF reached = {} THEN @ + 1 ELSE 0]
  /\ UNCHANGED <<now, running, dm, since, starts, inboxes, cache, heard, connectVars>>

Stop(s) ==
  /\ s \in running
  /\ running' = running \ {s}
  /\ UNCHANGED <<now, dm, since, due, missed, starts, stored, wire, inboxes,
                 cache, heard, connectVars>>

(* Timers fire in time.                                                    *)
Tick ==
  /\ now < MaxNow
  /\ \A s \in running : due[s] > now
  /\ now' = now + 1
  /\ UNCHANGED <<serverVars, cache, heard, connectVars>>

-----------------------------------------------------------------------------
(* The cache of the daemon.                                                *)

Unexpired(a) == a.expiresAt > now

(* Mutant of Supersedes: whatever comes last is kept.                       *)
SupersedesAlways(a, known) == TRUE

Supersedes(a, known) == known = None \/ a.publishedAt >= known.publishedAt

(* Under the write lock, one after the other; the newest one is what stays *)
(* whatever their order, for adverts of a server differ in when they were  *)
(* published.                                                              *)
Learn(as) ==
  LET fresh == {a \in as : Unexpired(a)}
      Newest(s) == CHOOSE a \in fresh :
        a.server = s /\ \A b \in fresh : b.server = s => b.publishedAt <= a.publishedAt IN
  /\ cache' = [s \in Server |->
       IF \E a \in fresh : a.server = s /\ Supersedes(Newest(s), cache[s])
       THEN Newest(s) ELSE cache[s]]
  /\ heard' = heard \union fresh

(* A subscription delivers an advert.                                      *)
ReceiveAdvert(a) ==
  /\ a \in wire
  /\ Learn({a})
  /\ UNCHANGED <<now, serverVars, connectVars>>

(* refresh_advert_cache in its two halves: some relays answer in time, and *)
(* what they hold goes into the cache.  No answer is an error, which every *)
(* caller ignores.                                                         *)
Fetch(answering) ==
  batch' = {stored[r][s] : r \in answering, s \in Server} \ {None}

MergeBatch ==
  /\ batch # None
  /\ Learn(batch)
  /\ batch' = None
  /\ UNCHANGED <<now, serverVars, at, target, advert, relays, reply>>

Find(s) == IF cache[s] # None /\ Unexpired(cache[s]) THEN cache[s] ELSE None

Listed == {cache[s] : s \in {t \in Server : Find(t) # None}}

-----------------------------------------------------------------------------
(* api_connect, up to the offer.                                           *)

(* Without a target: list_advertised_peers(1) refreshes, then reads.       *)
Discover(answering) ==
  /\ at = "idle"
  /\ at' = "listing"
  /\ Fetch(answering)
  /\ UNCHANGED <<now, serverVars, cache, heard, target, advert, relays, reply>>

Finish ==
  /\ at' = "idle"
  /\ target' = None
  /\ advert' = None
  /\ relays' = {}
  /\ reply' = {}
  /\ UNCHANGED <<now, serverVars, cache, heard, batch>>

(* Mutant of ChooseFirst: the list is not sorted.                           *)
ChooseAny ==
  /\ at = "listing"
  /\ batch = None
  /\ \E a \in Listed :
       /\ target' = a.server
       /\ advert' = a
  /\ at' = "relays"
  /\ UNCHANGED <<now, serverVars, cache, heard, batch, relays, reply>>

ChooseFirst ==
  /\ at = "listing"
  /\ batch = None
  /\ \E a \in Listed :
       /\ \A b \in Listed : b.publishedAt <= a.publishedAt
       /\ target' = a.server
       /\ advert' = a
  /\ at' = "relays"
  /\ UNCHANGED <<now, serverVars, cache, heard, batch, relays, reply>>

NobodyListed ==
  /\ at = "listing"
  /\ batch = None
  /\ Listed = {}
  /\ Finish

(* With a target: find_advertised_peer, and no advert is no error.         *)
ConnectTo(s, answering) ==
  /\ at = "idle"
  /\ at' = "finding"
  /\ target' = s
  /\ Fetch(answering)
  /\ UNCHANGED <<now, serverVars, cache, heard, advert, relays, reply>>

FindTarget ==
  /\ at = "finding"
  /\ batch = None
  /\ advert' = Find(target)
  /\ at' = "relays"
  /\ UNCHANGED <<now, serverVars, cache, heard, batch, target, relays, reply>>

(* find_recipient_inbox_relays: the newest list among those that came, and *)
(* the daemon's own relays when none did.                                  *)
InboxRelays(found) ==
  IF found = {} THEN DaemonRelays
  ELSE (CHOOSE i \in found : \A j \in found : j.at <= i.at).relays

(* Mutant of PreferredDmRelays: the relays of the advert are left out.      *)
InboxOrOwnRelays(found, a) == InboxRelays(found) \union DaemonRelays

PreferredDmRelays(found, a) ==
  InboxRelays(found) \union (IF a = None THEN {} ELSE a.relays) \union DaemonRelays

ChooseRelays(found) ==
  /\ at = "relays"
  /\ found \subseteq {i \in inboxes : i.server = target}
  /\ relays' = PreferredDmRelays(found, advert)
  /\ at' = "offering"
  /\ UNCHANGED <<now, serverVars, cache, heard, batch, target, advert, reply>>

(* send_offer looks the target up once more.                               *)
CheckAgain(answering) ==
  /\ at = "offering"
  /\ at' = "checking"
  /\ Fetch(answering)
  /\ UNCHANGED <<now, serverVars, cache, heard, target, advert, relays, reply>>

Checked ==
  /\ at = "checking"
  /\ batch = None
  /\ at' = "checked"
  /\ UNCHANGED <<now, serverVars, cache, heard, batch, target, advert, relays, reply>>

(* Mutant of ReplyRelays: the list is believed to be right.                *)
ReplyRelaysOfList(list, s) == IF list = None THEN dm[s] ELSE list

ReplyRelays(list, s) == (IF list = None THEN dm[s] ELSE list) \union dm[s]

(* The server hears of the offer, and answers on the relays of the         *)
(* daemon's list, if it finds one, and on its own.                         *)
Answer(list) ==
  /\ at = "checked"
  /\ target \in running
  /\ dm[target] \intersect relays # {}
  /\ reply' = ReplyRelays(list, target)
  /\ at' = "answered"
  /\ UNCHANGED <<now, serverVars, cache, heard, batch, target, advert, relays>>

(* With an answer or without one; Rendezvous has the rest of the call.     *)
GoOn == at \in {"checked", "answered"} /\ Finish

-----------------------------------------------------------------------------
Next ==
  \/ \E s \in Server, reached \in SUBSET Relay :
       \/ \E R \in DmRelays : Start(s, R, reached)
       \/ Renew(s, reached)
       \/ ConnectTo(s, reached)
  \/ \E s \in Server : Stop(s)
  \/ Tick
  \/ \E a \in wire : ReceiveAdvert(a)
  \/ \E answering \in SUBSET Relay : Discover(answering) \/ CheckAgain(answering)
  \/ MergeBatch
  \/ ChooseFirst \/ NobodyListed \/ FindTarget
  \/ \E found \in SUBSET inboxes : ChooseRelays(found)
  \/ Checked
  \/ \E list \in DaemonLists \union {None} : Answer(list)
  \/ GoOn

Spec == Init /\ [][Next]_vars

-----------------------------------------------------------------------------
(* Properties.                                                             *)

(* Whatever the order in which adverts come from the relays, and from the  *)
(* subscription while a refresh is under way, the cache has the newest of  *)
(* each server that the daemon heard of in time.                           *)
CacheIsNewestHeard ==
  \A s \in Server :
    LET ofServer == {a \in heard : a.server = s} IN
      /\ cache[s] = None => ofServer = {}
      /\ cache[s] # None =>
           cache[s] \in ofServer /\ \A a \in ofServer : a.publishedAt <= cache[s].publishedAt

(* A running server is found by whoever asks all relays, unless so many    *)
(* renewals in a row failed that its last advert has run out: with a ttl   *)
(* of two intervals a single one is too many.                              *)
StaysAdvertised ==
  \A s \in running :
    \/ \E r \in Relay : stored[r][s] # None /\ Unexpired(stored[r][s])
    \/ (missed[s] + 1) * Interval >= Ttl + Skew[s]

(* Offer and answer meet their receivers.  The offer to a server whose     *)
(* current process the daemon heard of goes to all relays that process     *)
(* listens on, whatever the daemon's own relays are and however old the    *)
(* inbox lists are that it found; and when the two share a relay, the      *)
(* answer comes back even if the server found a list of an earlier daemon. *)
OfferReachesTarget ==
  at \in {"offering", "checking", "checked"} /\ advert # None =>
    advert.publishedAt < since[target] \/ dm[target] \subseteq relays

AnswerReachesDaemon ==
  at' = "answered" /\ dm[target] \intersect DaemonRelays # {} =>
    reply' \intersect DaemonRelays # {}

RelaysMeet == [][OfferReachesTarget' /\ (at # at' => AnswerReachesDaemon)]_vars

(* A connect call without a target takes the server last heard of: no      *)
(* other advert it knows is newer, unless it has expired.                 *)
FirstIsNewest ==
  [][ChooseFirst => \A a \in heard :
       \/ ~Unexpired(a)
       \/ a.publishedAt <= advert'.publishedAt]_vars
=============================================================================
