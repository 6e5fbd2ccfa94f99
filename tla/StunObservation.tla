--------------------------- MODULE StunObservation ---------------------------
(***************************************************************************)
(* How fips-shell-server.rs learns its address: one cached observation,     *)
(* refreshed by whichever task finds it old (refresh_traversal_observation, *)
(* probe_stun_server and the STUN branch of the UDP loop).                  *)
(*                                                                         *)
(* main refreshes once by force; then the task that advertises and the one  *)
(* that answers private messages refresh whenever they need an address.     *)
(* The cache is two cells with a lock each, the observation and the time    *)
(* it was made at, and no lock is held over a probe: each access to a cell  *)
(* is a step, and so is each end of a wait.                                 *)
(*                                                                         *)
(* Time: the age of the observation only matters as "younger than           *)
(* stun_refresh_ms or not", so the mark observed_at is absent, fresh or     *)
(* stale, and may become stale at any moment.  An address is named by the   *)
(* probe whose response reports it.                                        *)
(***************************************************************************)
EXTENDS Integers, Sequences

CONSTANTS
  StunServers,  \* the sequence stun_servers
  Loop,         \* the tasks that refresh over and over
  Rounds,       \* how often each of them does; bounds the calls
  None          \* no value

ASSUME ServersAssumption == Len(StunServers) \in Nat \ {0}
ASSUME RoundsAssumption == Rounds \in Nat

VARIABLES
  at,           \* where each call of refresh_traversal_observation is
  probing,      \* the position in stun_servers a call has come to
  rx,           \* what the oneshot channel of its probe holds
  found,        \* the observation a call is about to store or to return
  pendingStun,  \* the keys of pending_stun
  observation,  \* stun_observation
  observedAt,   \* stun_observed_at
  net,          \* binding responses that may arrive, each at any time or never
  written,      \* history: how many observations were stored
  marked,       \* history: the version whose writer set observed_at last
  begun         \* history: what a call found when it looked at the cache

cache == <<observation, observedAt>>
history == <<written, marked, begun>>
vars == <<at, probing, rx, found, pendingStun, cache, net, history>>

(* main's call, by force, and the calls of the loops, one after the other.  *)
First == <<"main", 1>>
Call == {First} \union (Loop \X (1..Rounds))

Last == Len(StunServers)
Txn == Call \X (1..Last)
ProbeOf(c) == <<c, probing[c]>>

Observation == [server : 1..Last, reflexive : Txn \union {None},
                by : Call, version : Nat]

ASSUME NoneAssumption ==
  None \notin {"fresh", "stale"} /\ None \notin Txn /\ None \notin Observation

Stage == {"idle", "cached", "probing", "waiting", "storing", "marking", "done"}
Active == {c \in Call : at[c] \notin {"idle", "done"}}

TypeOK ==
  /\ at \in [Call -> Stage]
  /\ probing \in [Call -> 1..Last]
  /\ rx \in [Call -> Txn \union {None}]
  /\ found \in [Call -> Observation \union {None}]
  /\ pendingStun \subseteq Txn
  /\ observation \in Observation \union {None}
  /\ observedAt \in {None, "fresh", "stale"}
  /\ net \subseteq Txn
  /\ written \in Nat
  /\ marked \in 0..written
  /\ begun \in [Call -> [mark : {None, "fresh", "stale"}, during : SUBSET Call,
                         marked : 0..written, written : 0..written]]

Init ==
  /\ at = [c \in Call |-> "idle"]
  /\ probing = [c \in Call |-> 1]
  /\ rx = [c \in Call |-> None]
  /\ found = [c \in Call |-> None]
  /\ pendingStun = {}
  /\ observation = None
  /\ observedAt = None
  /\ net = {}
  /\ written = 0
  /\ marked = 0
  /\ begun = [c \in Call |->
              [mark |-> None, during |-> {}, marked |-> 0, written |-> 0]]

Goto(c, stage) == at' = [at EXCEPT ![c] = stage]

-----------------------------------------------------------------------------
(* Outside the server.                                                      *)

(* stun_refresh_ms have passed since the mark was set.                      *)
Expire ==
  /\ observedAt = "fresh"
  /\ observedAt' = "stale"
  /\ UNCHANGED <<at, probing, rx, found, pendingStun, observation, net, history>>

-----------------------------------------------------------------------------
(* The UDP loop.                                                            *)

(* Mutant of ReceiveStun: whoever waits takes the response.                 *)
ReceiveStunUnmatched(txn) ==
  /\ txn \in net
  /\ pendingStun' = pendingStun \ {txn}
  /\ rx' = [c \in Call |-> IF at[c] = "waiting" /\ rx[c] = None THEN txn ELSE rx[c]]
  /\ UNCHANGED <<at, probing, found, cache, net, history>>

(* The response is given to the sender under its transaction id, if there   *)
(* is one; nobody may be waiting at the other end any more.                 *)
ReceiveStun(txn) ==
  /\ txn \in net
  /\ txn \in pendingStun
  /\ pendingStun' = pendingStun \ {txn}
  /\ rx' = [c \in Call |->
              IF ProbeOf(c) = txn /\ at[c] = "waiting" THEN txn ELSE rx[c]]
  /\ UNCHANGED <<at, probing, found, cache, net, history>>

-----------------------------------------------------------------------------
(* refresh_traversal_observation.                                           *)

(* A loop makes one call after the other, and starts after main's.          *)
MayBegin(c) ==
  /\ at[c] = "idle"
  /\ c # First => /\ at[First] = "done"
                  /\ c[2] > 1 => at[<<c[1], c[2] - 1>>] = "done"

(* The mark is looked at, and let go before the observation is.             *)
Begin(c) ==
  /\ MayBegin(c)
  /\ Goto(c, IF c # First /\ observedAt = "fresh" THEN "cached" ELSE "probing")
  /\ begun' = [begun EXCEPT
       ![c] = [mark |-> observedAt, during |-> Active,
               marked |-> marked, written |-> written]]
  /\ UNCHANGED <<probing, rx, found, pendingStun, cache, net, written, marked>>

ReadCache(c) ==
  /\ at[c] = "cached"
  /\ found' = [found EXCEPT ![c] = observation]
  /\ Goto(c, "done")
  /\ UNCHANGED <<probing, rx, pendingStun, cache, net, history>>

(* probe_stun_server: register the transaction and send the request, which  *)
(* calls for one response: it may repeat, be late and out of order, and one *)
(* that is never sent or never read is lost.                                *)
SendProbe(c) ==
  /\ at[c] = "probing"
  /\ pendingStun' = pendingStun \union {ProbeOf(c)}
  /\ net' = net \union {ProbeOf(c)}
  /\ rx' = [rx EXCEPT ![c] = None]
  /\ Goto(c, "waiting")
  /\ UNCHANGED <<probing, found, cache, history>>

(* What a call holds of a probe of the i-th server.                         *)
Outcome(c, i, a) ==
  found' = [found EXCEPT
    ![c] = [server |-> i, reflexive |-> a, by |-> c, version |-> written]]

ProbeAnswered(c) ==
  /\ at[c] = "waiting"
  /\ rx[c] # None
  /\ Outcome(c, probing[c], rx[c])
  /\ Goto(c, "storing")
  /\ UNCHANGED <<probing, rx, pendingStun, cache, net, history>>

(* A probe that failed leaves its entry in pending_stun.  The next server   *)
(* is tried; after the last one the failure is what was observed.           *)
ProbeFailed(c) ==
  \/ /\ probing[c] < Last
     /\ probing' = [probing EXCEPT ![c] = @ + 1]
     /\ Goto(c, "probing")
     /\ UNCHANGED found
  \/ /\ probing[c] = Last
     /\ Outcome(c, 1, None)
     /\ Goto(c, "storing")
     /\ UNCHANGED probing

(* Mutant of ProbeTimesOut: it waits until the entry is gone.               *)
ProbeTimesOutIfRemoved(c) ==
  /\ at[c] = "waiting"
  /\ rx[c] = None
  /\ ProbeOf(c) \notin pendingStun
  /\ ProbeFailed(c)
  /\ UNCHANGED <<rx, pendingStun, cache, net, history>>

(* stun_timeout_ms are over and the channel is empty.                       *)
ProbeTimesOut(c) ==
  /\ at[c] = "waiting"
  /\ rx[c] = None
  /\ ProbeFailed(c)
  /\ UNCHANGED <<rx, pendingStun, cache, net, history>>

(* send_to fails: the entry was made, the request was not sent.  A URL that *)
(* does not parse fails the same way before the entry is made, which no     *)
(* response will match in either case.                                      *)
SendFails(c) ==
  /\ at[c] = "probing"
  /\ pendingStun' = pendingStun \union {ProbeOf(c)}
  /\ ProbeFailed(c)
  /\ UNCHANGED <<rx, cache, net, history>>

(* Mutant of Store: a failure is not stored, but its time will be.          *)
StoreSuccess(c) ==
  /\ at[c] = "storing"
  /\ written' = written + 1
  /\ found' = [found EXCEPT ![c].version = written + 1]
  /\ observation' = IF found[c].reflexive = None THEN observation ELSE found'[c]
  /\ Goto(c, "marking")
  /\ UNCHANGED <<probing, rx, pendingStun, observedAt, net, marked, begun>>

Store(c) ==
  /\ at[c] = "storing"
  /\ written' = written + 1
  /\ found' = [found EXCEPT ![c].version = written + 1]
  /\ observation' = found'[c]
  /\ Goto(c, "marking")
  /\ UNCHANGED <<probing, rx, pendingStun, observedAt, net, marked, begun>>

Mark(c) ==
  /\ at[c] = "marking"
  /\ observedAt' = "fresh"
  /\ marked' = found[c].version
  /\ Goto(c, "done")
  /\ UNCHANGED <<probing, rx, found, pendingStun, observation, net, written, begun>>

-----------------------------------------------------------------------------
Refresh(c) ==
  \/ ReadCache(c)
  \/ SendProbe(c)
  \/ SendFails(c)
  \/ ProbeAnswered(c)
  \/ ProbeTimesOut(c)
  \/ Store(c)
  \/ Mark(c)

Next ==
  \/ Expire
  \/ \E txn \in Txn : ReceiveStun(txn)
  \/ \E c \in Call : Begin(c) \/ Refresh(c)

Spec == Init /\ [][Next]_vars

(* tokio runs the tasks and the timer of a probe fires.  Nothing is assumed *)
(* of the STUN servers and of the network.                                  *)
FairSpec == Spec /\ \A c \in Call : WF_vars(Refresh(c))

-----------------------------------------------------------------------------
(* Properties.                                                             *)

(* An address a call stored or returned was reported for the very probe it  *)
(* names: the response to a probe that was given up is not taken for the    *)
(* response to a later one, of this task or of another.                     *)
AnswerIsOwn ==
  \A c \in Call :
    LET o == found[c] IN
    o # None => o.reflexive \in {None, <<o.by, o.server>>}

(* A call that is content with the cache gets an observation, and none older *)
(* than the one whose age it looked at, though both cells may be written    *)
(* between its two looks, and between the two writes of another call.       *)
CachedIsCurrent ==
  \A c \in Call :
    (at[c] = "done" /\ c # First /\ begun[c].mark = "fresh")
      => found[c] # None /\ found[c].version >= begun[c].marked

(* A refresh that failed takes the place of a known address only if, when   *)
(* the refresh began, an observation had aged for stun_refresh_ms, or if    *)
(* the address is of a call that overlaps with the refresh: one that was    *)
(* under way then, or stored what it found later.                           *)
FailureReplacesOverlapping ==
  [][ (/\ observation # None /\ observation.reflexive # None
       /\ observation' # observation /\ observation'.reflexive = None)
      => LET b == begun[observation'.by] IN
           \/ b.mark = "stale"
           \/ observation.by \in b.during
           \/ observation.version > b.written ]_vars

(* Whatever the STUN servers do, a refresh comes to an end.                 *)
RefreshReturns ==
  \A c \in Call : at[c] \notin {"idle", "done"} ~> at[c] = "done"
=============================================================================
