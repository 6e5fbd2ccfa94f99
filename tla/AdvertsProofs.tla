---------------------------- MODULE AdvertsProofs ----------------------------
(***************************************************************************)
(* Theorems about Adverts, for any servers, relays, clocks and intervals.   *)
(* Every advert in a relay, under way, in the cache or chosen is one a      *)
(* server has published; what is known of those carries over.              *)
(***************************************************************************)
EXTENDS Adverts, FiniteSetTheorems, TLAPS

-----------------------------------------------------------------------------
(* Sets of integers.                                                       *)

LEMMA LeastNatural ==
  ASSUME NEW S, S \subseteq Nat, S # {}
  PROVE  \E x \in S : \A y \in S : x <= y
<1> DEFINE R == StrictSubsetOrdering(Nat)
           T == {0 .. x : x \in S}
<1>1. T \subseteq FiniteSubsetsOf(Nat)
  <2>1. \A x \in S : IsFiniteSet(0 .. x)
    BY FS_Interval
  <2> QED BY <2>1 DEF FiniteSubsetsOf
<1>2. IsWellFoundedOn(R, FiniteSubsetsOf(Nat))
  BY FS_StrictSubsetOrderingWellFounded
<1>3. T # {}
  OBVIOUS
<1>4. PICK t \in T : \A u \in T : ~ (<<u, t>> \in R)
  <2> HIDE DEF R, T
  <2> QED BY <1>1, <1>2, <1>3, WFMin, Zenon
<1>5. PICK x \in S : t = 0 .. x
  OBVIOUS
<1>6. ASSUME NEW y \in S, y < x PROVE FALSE
  <2>1. 0 .. y \subseteq 0 .. x /\ 0 .. y # 0 .. x
    BY <1>6
  <2>2. <<0 .. y, 0 .. x>> \in R
    BY <2>1 DEF StrictSubsetOrdering
  <2> QED BY <1>4, <1>5, <2>2
<1>7. \A y \in S : x <= y
  <2> HIDE DEF R, T
  <2> QED BY <1>6
<1> QED BY <1>7

(* Integers that do not go beyond a bound have a greatest one among them.   *)
LEMMA GreatestInteger ==
  ASSUME NEW S, S \subseteq Int, S # {}, NEW bound \in Int, \A n \in S : n <= bound
  PROVE  \E x \in S : \A y \in S : y <= x
<1> DEFINE T == {bound - n : n \in S}
<1>1. \A n \in S : bound - n \in Nat
  OBVIOUS
<1>2. T \subseteq Nat /\ T # {}
  BY <1>1
<1>3. PICK t \in T : \A u \in T : t <= u
  <2> HIDE DEF T
  <2> QED BY <1>2, LeastNatural
<1>4. PICK x \in S : t = bound - x
  OBVIOUS
<1>5. \A y \in S : bound - x <= bound - y
  BY <1>3, <1>4
<1>6. \A y \in S : y <= x
  <2> HIDE DEF T
  <2> QED BY <1>5
<1> QED BY <1>6

-----------------------------------------------------------------------------
(* The invariant.                                                          *)

(* An advert is not of the future, and names the relays of the process it  *)
(* is of.                                                                  *)
WireInv == \A a \in wire :
  /\ a.publishedAt <= Clock(a.server)
  /\ a.expiresAt = a.publishedAt + Ttl
  /\ a.publishedAt >= since[a.server] => a.relays = dm[a.server]

InboxInv == \A i \in inboxes : i.at <= Clock(i.server)

(* Where adverts come from.                                                *)
StoredInv == \A r \in Relay, s \in Server :
  stored[r][s] # None => stored[r][s] \in wire /\ stored[r][s].server = s

BatchInv == batch # None => batch \subseteq wire

HeardInv == heard \subseteq wire

AdvertInv ==
  /\ at = "finding" => target \in Server
  /\ at \in {"idle", "listing", "finding"} => advert = None
  /\ advert # None => advert \in wire /\ target \in Server /\ advert.server = target

(* The last advert that a relay took is followed by a renewal that failed  *)
(* after every interval since.                                             *)
RenewedInv == \A s \in running :
  /\ now <= due[s]
  /\ \E r \in Relay :
       /\ stored[r][s] # None
       /\ due[s] + Skew[s] <= stored[r][s].publishedAt + (missed[s] + 1) * Interval

IInv ==
  /\ TypeOK
  /\ WireInv
  /\ InboxInv
  /\ StoredInv
  /\ BatchInv
  /\ HeardInv
  /\ AdvertInv
  /\ RenewedInv
  /\ CacheIsNewestHeard
  /\ OfferReachesTarget

LEMMA IInvInit == Init => IInv
BY NoneAssumption DEF Init, IInv, TypeOK, WireInv, InboxInv, StoredInv, BatchInv, HeardInv,
                      AdvertInv, RenewedInv, CacheIsNewestHeard, OfferReachesTarget

-----------------------------------------------------------------------------
(* The cache.                                                              *)

(* Among adverts of one server there is a newest.                          *)
LEMMA HasNewest ==
  ASSUME TypeOK, WireInv, NEW S, S \subseteq wire, NEW s \in Server,
         \E a \in S : a.server = s
  PROVE  \E a \in S : a.server = s /\ \A b \in S : b.server = s => b.publishedAt <= a.publishedAt
<1> DEFINE Times == {a.publishedAt : a \in {b \in S : b.server = s}}
<1>1. Clock(s) \in Int
  BY SkewAssumption DEF TypeOK, Clock
<1>2. \A a \in S : a.publishedAt \in Int /\ (a.server = s => a.publishedAt <= Clock(s))
  BY DEF TypeOK, WireInv, Advert
<1>3. Times \subseteq Int /\ Times # {} /\ \A n \in Times : n <= Clock(s)
  BY <1>2
<1>4. PICK n \in Times : \A m \in Times : m <= n
  <2> HIDE DEF Times
  <2> QED BY <1>1, <1>3, GreatestInteger
<1> QED BY <1>4

LEMMA LearnKeepsNewest ==
  ASSUME TypeOK, WireInv, HeardInv, CacheIsNewestHeard, NEW as, as \subseteq wire, Learn(as)
  PROVE  /\ cache' \in [Server -> Advert \union {None}]
         /\ heard' \subseteq wire
         /\ CacheIsNewestHeard'
<1> DEFINE fresh == {a \in as : Unexpired(a)}
           Newest(s) == CHOOSE a \in fresh :
             a.server = s /\ \A b \in fresh : b.server = s => b.publishedAt <= a.publishedAt
<1>1. /\ cache' = [s \in Server |->
            IF \E a \in fresh : a.server = s /\ Supersedes(Newest(s), cache[s])
            THEN Newest(s) ELSE cache[s]]
      /\ heard' = heard \union fresh
  BY DEF Learn
<1>2. heard' \subseteq wire
  BY <1>1 DEF HeardInv
<1>3. ASSUME NEW s \in Server
      PROVE  /\ cache'[s] \in Advert \union {None}
             /\ cache'[s] = None => \A a \in heard' : a.server # s
             /\ cache'[s] # None =>
                  /\ cache'[s] \in heard' /\ cache'[s].server = s
                  /\ \A a \in heard' : a.server = s => a.publishedAt <= cache'[s].publishedAt
  <2>1. /\ cache[s] \in Advert \union {None}
        /\ cache[s] = None => \A a \in heard : a.server # s
        /\ cache[s] # None =>
             /\ cache[s] \in heard /\ cache[s].server = s
             /\ \A a \in heard : a.server = s => a.publishedAt <= cache[s].publishedAt
    BY DEF TypeOK, CacheIsNewestHeard
  <2>2. \A a \in heard \union fresh : a \in Advert /\ a.publishedAt \in Int
    BY DEF TypeOK, Advert
  <2>3. CASE ~ \E a \in fresh : a.server = s
    <3>1. cache'[s] = cache[s]
      BY <1>1, <2>3
    <3> QED BY <1>1, <2>1, <2>3, <3>1
  <2>4. CASE \E a \in fresh : a.server = s
    <3>1. /\ Newest(s) \in fresh /\ Newest(s).server = s
          /\ \A b \in fresh : b.server = s => b.publishedAt <= Newest(s).publishedAt
      <4>1. \E a \in fresh :
              a.server = s /\ \A b \in fresh : b.server = s => b.publishedAt <= a.publishedAt
        BY <2>4, HasNewest
      <4> QED BY <4>1
    <3> DEFINE new == Newest(s)
    <3> HIDE DEF Newest, fresh
    <3>2. CASE Supersedes(new, cache[s])
      <4>1. cache'[s] = new
        BY <1>1, <2>4, <3>2
      <4>2. \A a \in heard : a.server = s => a.publishedAt <= new.publishedAt
        BY <2>1, <2>2, <3>1, <3>2 DEF Supersedes
      <4>3. new # None
        BY <2>2, <3>1, NoAdvertAssumption
      <4> QED BY <1>1, <2>2, <3>1, <4>1, <4>2, <4>3
    <3>3. CASE ~Supersedes(new, cache[s])
      <4>1. cache'[s] = cache[s] /\ cache[s] # None /\ new.publishedAt < cache[s].publishedAt
        BY <1>1, <2>1, <2>2, <3>1, <3>3 DEF Supersedes
      <4>2. \A a \in fresh : a.server = s => a.publishedAt <= cache[s].publishedAt
        BY <2>1, <2>2, <3>1, <4>1
      <4> QED BY <1>1, <2>1, <4>1, <4>2
    <3> QED BY <3>2, <3>3
  <2> QED BY <2>3, <2>4
<1>4. cache' \in [Server -> Advert \union {None}]
  BY <1>1, <1>3
<1>5. CacheIsNewestHeard'
  BY <1>3 DEF CacheIsNewestHeard
<1> QED BY <1>2, <1>4, <1>5

-----------------------------------------------------------------------------
(* The servers.                                                            *)

(* A new advert of s, of the same relays as before or of a later start.     *)
LEMMA PublishEffect ==
  ASSUME IInv, NEW s \in Server, NEW R \in SUBSET DmRelay, NEW reached \in SUBSET Relay,
         PublishAdvert(s, R, reached)
  PROVE  /\ AdvertOf(s, R) \in Advert /\ AdvertOf(s, R) # None
         /\ stored' \in [Relay -> [Server -> Advert \union {None}]]
         /\ wire' \subseteq Advert /\ wire \subseteq wire'
         /\ wire' \subseteq wire \union {AdvertOf(s, R)}
         /\ \A r \in Relay, t \in Server :
              stored'[r][t] = IF r \in reached /\ t = s THEN AdvertOf(s, R) ELSE stored[r][t]
         /\ reached = {} => wire' = wire /\ stored' = stored
         /\ reached # {} => AdvertOf(s, R) \in wire'
<1> DEFINE a == AdvertOf(s, R)
<1>1. a \in Advert /\ a # None
  BY SkewAssumption, IntervalAssumption, NoAdvertAssumption DEF IInv, TypeOK, AdvertOf, Advert, Clock
<1> HIDE DEF a
<1>2. /\ stored' = [r \in Relay |-> IF r \in reached THEN [stored[r] EXCEPT ![s] = a] ELSE stored[r]]
      /\ wire' = IF reached = {} THEN wire ELSE wire \union {a}
  BY DEF PublishAdvert, a
<1>3. stored \in [Relay -> [Server -> Advert \union {None}]] /\ wire \subseteq Advert
  BY DEF IInv, TypeOK
<1>4. stored' \in [Relay -> [Server -> Advert \union {None}]]
  BY <1>1, <1>2, <1>3
<1>5. wire' \subseteq Advert /\ wire \subseteq wire' /\ wire' \subseteq wire \union {a}
  BY <1>1, <1>2, <1>3
<1>6. \A r \in Relay, t \in Server :
        stored'[r][t] = IF r \in reached /\ t = s THEN a ELSE stored[r][t]
  BY <1>2, <1>3
<1>7. reached = {} => wire' = wire /\ stored' = stored
  BY <1>2, <1>3
<1>8. reached # {} => a \in wire'
  BY <1>2
<1> QED BY <1>1, <1>4, <1>5, <1>6, <1>7, <1>8 DEF a

LEMMA RenewStep ==
  ASSUME IInv, NEW s \in Server, NEW reached \in SUBSET Relay, Renew(s, reached)
  PROVE  IInv'
<1> DEFINE a == AdvertOf(s, dm[s])
<1>1. dm[s] \in SUBSET DmRelay /\ Clock(s) \in Int /\ now \in Nat /\ now + Interval \in Nat
  <2>1. now \in Nat /\ dm \in [Server -> SUBSET DmRelay]
    BY DEF IInv, TypeOK
  <2>2. Skew[s] \in Int /\ Interval \in Nat
    BY SkewAssumption, IntervalAssumption
  <2> QED BY <2>1, <2>2 DEF Clock
<1> USE DEF Renew, connectVars
<1>2. /\ a \in Advert /\ a # None
      /\ stored' \in [Relay -> [Server -> Advert \union {None}]]
      /\ wire' \subseteq Advert /\ wire \subseteq wire'
      /\ wire' \subseteq wire \union {a}
      /\ \A r \in Relay, t \in Server :
           stored'[r][t] = IF r \in reached /\ t = s THEN a ELSE stored[r][t]
      /\ reached = {} => wire' = wire /\ stored' = stored
      /\ reached # {} => a \in wire'
  BY <1>1, PublishEffect
<1>3. /\ a.server = s /\ a.publishedAt = Clock(s) /\ a.expiresAt = Clock(s) + Ttl
      /\ a.relays = dm[s]
  BY DEF AdvertOf
<1> HIDE DEF a
<1>4. TypeOK'
  BY <1>1, <1>2 DEF IInv, TypeOK
<1>5. WireInv' /\ InboxInv'
  BY <1>1, <1>2, <1>3 DEF IInv, WireInv, InboxInv, Clock
<1>6. StoredInv'
  BY <1>2, <1>3 DEF IInv, StoredInv
<1>7. BatchInv' /\ HeardInv' /\ AdvertInv'
  BY <1>2 DEF IInv, BatchInv, HeardInv, AdvertInv
<1>8. RenewedInv'
  <2> SUFFICES ASSUME NEW t \in running
               PROVE  /\ now <= due'[t]
                      /\ \E r \in Relay :
                           /\ stored'[r][t] # None
                           /\ due'[t] + Skew[t]
                                <= stored'[r][t].publishedAt + (missed'[t] + 1) * Interval
    BY DEF RenewedInv
  <2>1. /\ now <= due[t]
        /\ \E r \in Relay :
             /\ stored[r][t] # None
             /\ due[t] + Skew[t] <= stored[r][t].publishedAt + (missed[t] + 1) * Interval
    BY DEF IInv, RenewedInv
  <2>2. t \in Server /\ due[t] \in Nat /\ missed[t] \in Nat /\ Skew[t] \in Int /\ Interval \in Nat
    BY SkewAssumption, IntervalAssumption DEF IInv, TypeOK
  <2>3. CASE t # s
    <3>1. due'[t] = due[t] /\ missed'[t] = missed[t]
      BY <2>2, <2>3 DEF IInv, TypeOK
    <3> QED BY <1>2, <2>1, <2>2, <2>3, <3>1
  <2>4. CASE t = s /\ reached # {}
    <3>1. due'[t] = now + Interval /\ missed'[t] = 0
      BY <2>2, <2>4 DEF IInv, TypeOK
    <3>2. PICK r \in reached : stored'[r][t] = a
      BY <1>2, <2>2, <2>4
    <3>3. now + Interval + Skew[t] <= a.publishedAt + (0 + 1) * Interval
      BY <1>1, <1>3, <2>2, <2>4 DEF Clock
    <3> QED BY <1>1, <1>2, <2>2, <3>1, <3>2, <3>3
  <2>5. CASE t = s /\ reached = {}
    <3>1. due'[t] = now + Interval /\ missed'[t] = missed[t] + 1 /\ due[t] = now
      BY <2>2, <2>5 DEF IInv, TypeOK
    <3>2. PICK r \in Relay :
            /\ stored[r][t] # None
            /\ now + Skew[t] <= stored[r][t].publishedAt + (missed[t] + 1) * Interval
      BY <2>1, <3>1
    <3>3. stored[r][t].publishedAt \in Int
      BY <2>2, <3>2 DEF IInv, TypeOK, Advert
    <3>4. (missed[t] + 1 + 1) * Interval = (missed[t] + 1) * Interval + Interval
      BY <2>2
    <3>5. (missed[t] + 1) * Interval \in Int
      BY <2>2
    <3>6. now + Interval + Skew[t] <= stored[r][t].publishedAt + (missed[t] + 1 + 1) * Interval
      BY <1>1, <2>2, <3>2, <3>3, <3>4, <3>5
    <3> QED BY <1>1, <1>2, <2>2, <2>5, <3>1, <3>2, <3>6
  <2> QED BY <2>3, <2>4, <2>5
<1>9. CacheIsNewestHeard' /\ OfferReachesTarget'
  BY DEF IInv, CacheIsNewestHeard, OfferReachesTarget
<1> QED BY <1>4, <1>5, <1>6, <1>7, <1>8, <1>9 DEF IInv

(* A start counts as a renewal, and its relays are those of no older advert. *)
LEMMA StartStep ==
  ASSUME IInv, NEW s \in Server, NEW R \in DmRelays, NEW reached \in SUBSET Relay,
         Start(s, R, reached)
  PROVE  IInv'
<1> DEFINE a == AdvertOf(s, R)
<1>1. /\ R \in SUBSET DmRelay /\ Clock(s) \in Int /\ now \in Nat
      /\ Skew \in [Server -> Int] /\ Interval \in Nat
  <2>1. now \in Nat
    BY DEF IInv, TypeOK
  <2>2. Skew[s] \in Int /\ Interval \in Nat /\ R \in SUBSET DmRelay
    BY SkewAssumption, IntervalAssumption, RelayAssumption
  <2> QED BY <2>1, <2>2, SkewAssumption DEF Clock
<1> USE DEF Start, connectVars
<1>2. /\ a \in Advert /\ a # None
      /\ stored' \in [Relay -> [Server -> Advert \union {None}]]
      /\ wire' \subseteq Advert /\ wire \subseteq wire'
      /\ wire' \subseteq wire \union {a}
      /\ \A r \in Relay, t \in Server :
           stored'[r][t] = IF r \in reached /\ t = s THEN a ELSE stored[r][t]
      /\ reached = {} => wire' = wire /\ stored' = stored
      /\ reached # {} => a \in wire'
  BY <1>1, PublishEffect
<1>3. /\ a.server = s /\ a.publishedAt = Clock(s) /\ a.expiresAt = Clock(s) + Ttl
      /\ a.relays = R
  BY DEF AdvertOf
<1> HIDE DEF a
<1>4. TypeOK'
  <2>1. starts' \in Nat /\ inboxes' \subseteq [server : Server, at : Int, relays : SUBSET DmRelay]
    BY <1>1 DEF IInv, TypeOK, PublishInboxRelays
  <2>2. /\ running' \subseteq Server
        /\ dm' \in [Server -> SUBSET DmRelay]
        /\ since' \in [Server -> Int]
        /\ due' \in [Server -> Nat]
        /\ missed' \in [Server -> Nat]
    BY <1>1 DEF IInv, TypeOK
  <2> QED BY <1>2, <2>1, <2>2 DEF IInv, TypeOK
<1>5. /\ \A t \in Server : t # s => since'[t] = since[t] /\ dm'[t] = dm[t]
      /\ reached = {} => since' = since /\ dm' = dm
      /\ reached # {} => since'[s] = Clock(s) /\ dm'[s] = R
  BY DEF IInv, TypeOK
<1>6. WireInv'
  <2> SUFFICES ASSUME NEW b \in wire'
               PROVE  /\ b.publishedAt <= Clock(b.server)'
                      /\ b.expiresAt = b.publishedAt + Ttl
                      /\ b.publishedAt >= since'[b.server] => b.relays = dm'[b.server]
    BY DEF WireInv
  <2>1. Clock(b.server)' = Clock(b.server) /\ b.server \in Server /\ b.publishedAt \in Int
    BY <1>2 DEF Clock, Advert
  <2>2. CASE b \in wire
    <3>1. /\ b.publishedAt <= Clock(b.server)
          /\ b.expiresAt = b.publishedAt + Ttl
          /\ b.publishedAt >= since[b.server] => b.relays = dm[b.server]
          /\ b.server = s => b.publishedAt < Clock(s)
      BY <2>2 DEF IInv, WireInv
    <3> QED BY <1>1, <1>5, <2>1, <3>1
  <2>3. CASE b = a /\ b \notin wire
    <3>1. reached # {}
      BY <1>2, <2>3
    <3> QED BY <1>1, <1>3, <1>5, <2>1, <2>3, <3>1
  <2> QED BY <1>2, <2>2, <2>3
<1>7. InboxInv'
  BY <1>1 DEF IInv, InboxInv, PublishInboxRelays, Clock
<1>8. StoredInv'
  BY <1>2, <1>3 DEF IInv, StoredInv
<1>9. BatchInv' /\ HeardInv' /\ AdvertInv'
  BY <1>2 DEF IInv, BatchInv, HeardInv, AdvertInv
<1>10. RenewedInv'
  <2> SUFFICES ASSUME NEW t \in running'
               PROVE  /\ now <= due'[t]
                      /\ \E r \in Relay :
                           /\ stored'[r][t] # None
                           /\ due'[t] + Skew[t]
                                <= stored'[r][t].publishedAt + (missed'[t] + 1) * Interval
    BY DEF RenewedInv
  <2>1. CASE t = s
    <3>1. reached # {}
      BY <2>1
    <3>2. due'[t] = now /\ missed'[t] = 0
      BY <2>1, <3>1 DEF IInv, TypeOK
    <3>3. PICK r \in reached : stored'[r][t] = a
      BY <1>2, <2>1, <3>1
    <3>4. now + Skew[t] <= a.publishedAt + (0 + 1) * Interval
      BY <1>1, <1>3, <2>1 DEF Clock
    <3> QED BY <1>1, <1>2, <3>2, <3>3, <3>4
  <2>2. CASE t # s
    <3>1. t \in running /\ due'[t] = due[t] /\ missed'[t] = missed[t]
      BY <2>2 DEF IInv, TypeOK
    <3>2. /\ now <= due[t]
          /\ \E r \in Relay :
               /\ stored[r][t] # None
               /\ due[t] + Skew[t] <= stored[r][t].publishedAt + (missed[t] + 1) * Interval
      BY <3>1 DEF IInv, RenewedInv
    <3>3. t \in Server
      BY <3>1 DEF IInv, TypeOK
    <3> QED BY <1>2, <2>2, <3>1, <3>2, <3>3
  <2> QED BY <2>1, <2>2
<1>11. CacheIsNewestHeard'
  BY DEF IInv, CacheIsNewestHeard
<1>12. OfferReachesTarget'
  <2> SUFFICES ASSUME at \in {"offering", "checking", "checked"}, advert # None
               PROVE  advert.publishedAt < since'[target] \/ dm'[target] \subseteq relays
    BY DEF OfferReachesTarget
  <2>1. advert \in wire /\ target \in Server /\ advert.server = target
    BY DEF IInv, AdvertInv
  <2>2. advert.publishedAt < since[target] \/ dm[target] \subseteq relays
    BY DEF IInv, OfferReachesTarget
  <2> QED BY <1>5, <2>1, <2>2
<1> QED BY <1>4, <1>6, <1>7, <1>8, <1>9, <1>10, <1>11, <1>12 DEF IInv

LEMMA StopStep ==
  ASSUME IInv, NEW s \in Server, Stop(s)
  PROVE  IInv'
<1> USE DEF Stop, connectVars
<1>1. TypeOK'
  BY DEF IInv, TypeOK
<1>2. WireInv' /\ InboxInv' /\ StoredInv' /\ BatchInv' /\ HeardInv' /\ AdvertInv'
  BY DEF IInv, WireInv, InboxInv, StoredInv, BatchInv, HeardInv, AdvertInv, Clock
<1>3. RenewedInv'
  BY DEF IInv, RenewedInv
<1>4. CacheIsNewestHeard' /\ OfferReachesTarget'
  BY DEF IInv, CacheIsNewestHeard, OfferReachesTarget
<1> QED BY <1>1, <1>2, <1>3, <1>4 DEF IInv

LEMMA TickStep ==
  ASSUME IInv, Tick
  PROVE  IInv'
<1>1. now \in Nat /\ now' = now + 1 /\ UNCHANGED <<serverVars, cache, heard, connectVars>>
  BY DEF IInv, TypeOK, Tick
<1> USE DEF serverVars, connectVars
<1>2. TypeOK'
  BY <1>1 DEF IInv, TypeOK
<1>3. \A s \in Server : Clock(s) \in Int /\ Clock(s)' = Clock(s) + 1
  BY <1>1, SkewAssumption DEF Clock
<1>4. WireInv'
  <2>1. \A a \in wire : a.server \in Server /\ a.publishedAt \in Int
    BY DEF IInv, TypeOK, Advert
  <2> QED BY <1>1, <1>3, <2>1 DEF IInv, WireInv
<1>5. InboxInv'
  <2>1. \A i \in inboxes : i.server \in Server /\ i.at \in Int
    BY DEF IInv, TypeOK
  <2> QED BY <1>1, <1>3, <2>1 DEF IInv, InboxInv
<1>6. StoredInv' /\ BatchInv' /\ HeardInv' /\ AdvertInv'
  BY <1>1 DEF IInv, StoredInv, BatchInv, HeardInv, AdvertInv
<1>7. RenewedInv'
  <2>1. \A s \in running : s \in Server /\ due[s] \in Nat /\ due[s] > now
    BY DEF IInv, TypeOK, Tick
  <2> QED BY <1>1, <2>1 DEF IInv, RenewedInv
<1>8. CacheIsNewestHeard' /\ OfferReachesTarget'
  BY <1>1 DEF IInv, CacheIsNewestHeard, OfferReachesTarget
<1> QED BY <1>2, <1>4, <1>5, <1>6, <1>7, <1>8 DEF IInv

-----------------------------------------------------------------------------
(* The daemon.                                                             *)

LEMMA ReceiveAdvertStep ==
  ASSUME IInv, NEW a \in wire, ReceiveAdvert(a)
  PROVE  IInv'
<1>1. Learn({a}) /\ UNCHANGED <<now, serverVars, connectVars>>
  BY DEF ReceiveAdvert
<1>2. /\ cache' \in [Server -> Advert \union {None}]
      /\ heard' \subseteq wire
      /\ CacheIsNewestHeard'
  BY <1>1, LearnKeepsNewest DEF IInv
<1> USE <1>1 DEF serverVars, connectVars
<1>3. TypeOK'
  BY <1>2 DEF IInv, TypeOK
<1>4. WireInv' /\ InboxInv' /\ StoredInv' /\ BatchInv' /\ AdvertInv' /\ RenewedInv'
  BY DEF IInv, WireInv, InboxInv, StoredInv, BatchInv, AdvertInv, RenewedInv, Clock
<1>5. HeardInv' /\ OfferReachesTarget'
  BY <1>2 DEF IInv, HeardInv, OfferReachesTarget
<1> QED BY <1>2, <1>3, <1>4, <1>5 DEF IInv

LEMMA MergeBatchStep ==
  ASSUME IInv, MergeBatch
  PROVE  IInv'
<1>1. /\ batch # None /\ Learn(batch) /\ batch' = None
      /\ UNCHANGED <<now, serverVars, at, target, advert, relays, reply>>
  BY DEF MergeBatch
<1>2. batch \subseteq wire
  BY <1>1 DEF IInv, BatchInv
<1>3. /\ cache' \in [Server -> Advert \union {None}]
      /\ heard' \subseteq wire
      /\ CacheIsNewestHeard'
  BY <1>1, <1>2, LearnKeepsNewest DEF IInv
<1> USE <1>1 DEF serverVars
<1>4. TypeOK'
  BY <1>3 DEF IInv, TypeOK
<1>5. WireInv' /\ InboxInv' /\ StoredInv' /\ BatchInv' /\ AdvertInv' /\ RenewedInv'
  BY DEF IInv, WireInv, InboxInv, StoredInv, BatchInv, AdvertInv, RenewedInv, Clock
<1>6. HeardInv' /\ OfferReachesTarget'
  BY <1>3 DEF IInv, HeardInv, OfferReachesTarget
<1> QED BY <1>3, <1>4, <1>5, <1>6 DEF IInv

(* A step of the connect call leaves the servers and the cache alone.       *)
ConnectVarsInv ==
  /\ at \in {"idle", "listing", "finding", "relays", "offering", "checking", "checked", "answered"}
  /\ batch = None \/ batch \subseteq Advert
  /\ target \in Server \union {None}
  /\ advert \in Advert \union {None}
  /\ relays \subseteq DmRelay
  /\ reply \subseteq DmRelay
  /\ BatchInv /\ AdvertInv /\ OfferReachesTarget

LEMMA ConnectFrame ==
  ASSUME IInv, UNCHANGED <<now, serverVars, cache, heard>>, ConnectVarsInv'
  PROVE  IInv'
<1> USE DEF serverVars
<1>1. TypeOK'
  BY DEF IInv, TypeOK, ConnectVarsInv
<1>2. WireInv' /\ InboxInv' /\ StoredInv' /\ RenewedInv' /\ HeardInv' /\ CacheIsNewestHeard'
  BY DEF IInv, WireInv, InboxInv, StoredInv, RenewedInv, HeardInv, CacheIsNewestHeard, Clock
<1> QED BY <1>1, <1>2 DEF IInv, ConnectVarsInv

LEMMA ConnectVarsOfIInv == IInv => ConnectVarsInv
BY DEF IInv, TypeOK, ConnectVarsInv

LEMMA FetchEffect ==
  ASSUME IInv, NEW answering \in SUBSET Relay, Fetch(answering)
  PROVE  batch' \subseteq Advert /\ batch' \subseteq wire
<1>1. \A r \in Relay, s \in Server : stored[r][s] # None => stored[r][s] \in wire
  BY DEF IInv, StoredInv
<1>2. batch' \subseteq wire
  BY <1>1 DEF Fetch
<1> QED BY <1>2 DEF IInv, TypeOK

(* Refreshes.                                                              *)
LEMMA FetchStep ==
  ASSUME IInv, NEW answering \in SUBSET Relay,
         \/ Discover(answering) \/ CheckAgain(answering)
         \/ \E s \in Server : ConnectTo(s, answering)
  PROVE  IInv'
<1>1. ConnectVarsInv
  BY ConnectVarsOfIInv
<1>2. CASE Discover(answering)
  <2>1. batch' \subseteq Advert /\ batch' \subseteq wire
    BY <1>2, FetchEffect DEF Discover
  <2>2. ConnectVarsInv'
    BY <1>1, <1>2, <2>1
       DEF ConnectVarsInv, Discover, BatchInv, AdvertInv, OfferReachesTarget, serverVars
  <2> QED BY <1>2, <2>2, ConnectFrame DEF Discover
<1>3. CASE CheckAgain(answering)
  <2>1. batch' \subseteq Advert /\ batch' \subseteq wire
    BY <1>3, FetchEffect DEF CheckAgain
  <2>2. ConnectVarsInv'
    BY <1>1, <1>3, <2>1
       DEF ConnectVarsInv, CheckAgain, BatchInv, AdvertInv, OfferReachesTarget, serverVars
  <2> QED BY <1>3, <2>2, ConnectFrame DEF CheckAgain
<1>4. ASSUME NEW s \in Server, ConnectTo(s, answering) PROVE IInv'
  <2>1. batch' \subseteq Advert /\ batch' \subseteq wire
    BY <1>4, FetchEffect DEF ConnectTo
  <2>2. ConnectVarsInv'
    BY <1>1, <1>4, <2>1
       DEF ConnectVarsInv, ConnectTo, BatchInv, AdvertInv, OfferReachesTarget, serverVars
  <2> QED BY <1>4, <2>2, ConnectFrame DEF ConnectTo
<1> QED BY <1>2, <1>3, <1>4

LEMMA FinishStep ==
  ASSUME IInv, Finish
  PROVE  IInv'
<1>1. ConnectVarsInv
  BY ConnectVarsOfIInv
<1>2. ConnectVarsInv'
  BY <1>1 DEF ConnectVarsInv, Finish, BatchInv, AdvertInv, OfferReachesTarget, serverVars
<1> QED BY <1>2, ConnectFrame DEF Finish

(* What is in the cache was published by the server it is cached for.       *)
LEMMA CachedPublished ==
  ASSUME IInv, NEW s \in Server, cache[s] # None
  PROVE  cache[s] \in Advert /\ cache[s] \in wire /\ cache[s].server = s
BY DEF IInv, TypeOK, HeardInv, CacheIsNewestHeard

LEMMA ChooseFirstStep ==
  ASSUME IInv, ChooseFirst
  PROVE  IInv'
<1>1. ConnectVarsInv
  BY ConnectVarsOfIInv
<1>2. PICK a \in Listed : target' = a.server /\ advert' = a
  BY DEF ChooseFirst
<1>3. PICK s \in Server : Find(s) # None /\ a = cache[s]
  BY <1>2 DEF Listed
<1>4. a \in Advert /\ a \in wire /\ a.server = s /\ a # None
  BY <1>3, CachedPublished DEF Find
<1>5. ConnectVarsInv'
  BY <1>1, <1>2, <1>4
     DEF ConnectVarsInv, ChooseFirst, BatchInv, AdvertInv, OfferReachesTarget, serverVars
<1> QED BY <1>5, ConnectFrame DEF ChooseFirst

LEMMA FindTargetStep ==
  ASSUME IInv, FindTarget
  PROVE  IInv'
<1>1. ConnectVarsInv /\ target \in Server
  BY ConnectVarsOfIInv DEF ConnectVarsInv, AdvertInv, FindTarget
<1>2. advert' = None \/ (advert' = cache[target] /\ cache[target] # None)
  BY DEF FindTarget, Find
<1>3. advert' # None => advert' \in Advert /\ advert' \in wire /\ advert'.server = target
  BY <1>1, <1>2, CachedPublished
<1>4. ConnectVarsInv'
  BY <1>1, <1>3
     DEF ConnectVarsInv, FindTarget, BatchInv, AdvertInv, OfferReachesTarget, serverVars
<1> QED BY <1>4, ConnectFrame DEF FindTarget

(* The lists that may be found are of relays for private messages, and so   *)
(* is the newest of them.                                                  *)
LEMMA InboxRelaysType ==
  ASSUME IInv, target \in Server, NEW found, found \subseteq {i \in inboxes : i.server = target}
  PROVE  InboxRelays(found) \subseteq DmRelay
<1>1. CASE found = {}
  BY <1>1, RelayAssumption DEF InboxRelays
<1>2. CASE found # {}
  <2> DEFINE Times == {i.at : i \in found}
  <2>1. Clock(target) \in Int
    BY SkewAssumption DEF IInv, TypeOK, Clock
  <2>2. \A i \in found : i.at \in Int /\ i.relays \subseteq DmRelay /\ i.at <= Clock(target)
    BY DEF IInv, TypeOK, InboxInv
  <2>3. Times \subseteq Int /\ Times # {} /\ \A n \in Times : n <= Clock(target)
    BY <1>2, <2>2
  <2>4. PICK n \in Times : \A m \in Times : m <= n
    <3> HIDE DEF Times
    <3> QED BY <2>1, <2>3, GreatestInteger
  <2>5. \E i \in found : \A j \in found : j.at <= i.at
    BY <2>4
  <2>6. (CHOOSE i \in found : \A j \in found : j.at <= i.at) \in found
    BY <2>5
  <2> QED BY <1>2, <2>2, <2>6 DEF InboxRelays
<1> QED BY <1>1, <1>2

LEMMA ChooseRelaysStep ==
  ASSUME IInv, NEW found \in SUBSET inboxes, ChooseRelays(found)
  PROVE  IInv'
<1>1. ConnectVarsInv
  BY ConnectVarsOfIInv
<1>2. /\ found \subseteq {i \in inboxes : i.server = target}
      /\ relays' = InboxRelays(found) \union (IF advert = None THEN {} ELSE advert.relays)
                     \union DaemonRelays
      /\ at = "relays" /\ at' = "offering"
      /\ UNCHANGED <<now, serverVars, cache, heard, batch, target, advert, reply>>
  BY DEF ChooseRelays, PreferredDmRelays
<1>3. InboxRelays(found) \subseteq DmRelay
  <2>1. CASE target \in Server
    BY <1>2, <2>1, InboxRelaysType
  <2>2. CASE target \notin Server
    <3>1. found = {}
      BY <1>2, <2>2 DEF IInv, TypeOK
    <3> QED BY <3>1, RelayAssumption DEF InboxRelays
  <2> QED BY <2>1, <2>2
<1>4. relays' \subseteq DmRelay
  <2>1. advert # None => advert.relays \subseteq DmRelay
    BY <1>1 DEF ConnectVarsInv, Advert
  <2> QED BY <1>2, <1>3, <2>1, RelayAssumption
<1>5. OfferReachesTarget'
  <2> SUFFICES ASSUME advert # None
               PROVE  advert.publishedAt < since[target] \/ dm[target] \subseteq relays'
    BY <1>2 DEF OfferReachesTarget, serverVars
  <2>1. advert \in wire /\ target \in Server /\ advert.server = target
    BY DEF IInv, AdvertInv
  <2>2. advert.publishedAt \in Int /\ since[target] \in Int
    BY <2>1 DEF IInv, TypeOK, Advert
  <2>3. advert.publishedAt >= since[target] => advert.relays = dm[target]
    BY <2>1 DEF IInv, WireInv
  <2> QED BY <1>2, <2>2, <2>3
<1>6. ConnectVarsInv'
  BY <1>1, <1>2, <1>4, <1>5 DEF ConnectVarsInv, BatchInv, AdvertInv, serverVars
<1> QED BY <1>2, <1>6, ConnectFrame

LEMMA CheckedStep ==
  ASSUME IInv, Checked
  PROVE  IInv'
<1>1. ConnectVarsInv
  BY ConnectVarsOfIInv
<1>2. ConnectVarsInv'
  BY <1>1 DEF ConnectVarsInv, Checked, BatchInv, AdvertInv, OfferReachesTarget, serverVars
<1> QED BY <1>2, ConnectFrame DEF Checked

LEMMA AnswerStep ==
  ASSUME IInv, NEW list \in DaemonLists \union {None}, Answer(list)
  PROVE  IInv'
<1>1. ConnectVarsInv
  BY ConnectVarsOfIInv
<1>2. reply' \subseteq DmRelay
  <2>1. dm[target] \subseteq DmRelay
    BY DEF IInv, TypeOK, Answer
  <2>2. list # None => list \subseteq DmRelay
    BY RelayAssumption
  <2> QED BY <2>1, <2>2 DEF Answer, ReplyRelays
<1>3. ConnectVarsInv'
  BY <1>1, <1>2 DEF ConnectVarsInv, Answer, BatchInv, AdvertInv, OfferReachesTarget, serverVars
<1> QED BY <1>3, ConnectFrame DEF Answer

LEMMA StutterStep ==
  ASSUME IInv, UNCHANGED vars
  PROVE  IInv'
<1>1. ConnectVarsInv'
  <2>1. ConnectVarsInv
    BY ConnectVarsOfIInv
  <2> QED BY <2>1 DEF ConnectVarsInv, BatchInv, AdvertInv, OfferReachesTarget, vars, serverVars,
                      connectVars
<1> QED BY <1>1, ConnectFrame DEF vars

LEMMA IInvStep == IInv /\ [Next]_vars => IInv'
<1> SUFFICES ASSUME IInv, [Next]_vars PROVE IInv'
  OBVIOUS
<1>1. ASSUME NEW s \in Server, NEW reached \in SUBSET Relay,
             (\E R \in DmRelays : Start(s, R, reached)) \/ Renew(s, reached) \/ ConnectTo(s, reached)
      PROVE  IInv'
  BY <1>1, StartStep, RenewStep, FetchStep
<1>2. ASSUME NEW s \in Server, Stop(s) PROVE IInv'
  BY <1>2, StopStep
<1>3. CASE Tick
  BY <1>3, TickStep
<1>4. ASSUME NEW a \in wire, ReceiveAdvert(a) PROVE IInv'
  BY <1>4, ReceiveAdvertStep
<1>5. ASSUME NEW answering \in SUBSET Relay, Discover(answering) \/ CheckAgain(answering)
      PROVE  IInv'
  BY <1>5, FetchStep
<1>6. CASE MergeBatch
  BY <1>6, MergeBatchStep
<1>7. CASE ChooseFirst \/ FindTarget \/ Checked
  BY <1>7, ChooseFirstStep, FindTargetStep, CheckedStep
<1>8. CASE NobodyListed \/ GoOn
  BY <1>8, FinishStep DEF NobodyListed, GoOn
<1>9. ASSUME NEW found \in SUBSET inboxes, ChooseRelays(found) PROVE IInv'
  BY <1>9, ChooseRelaysStep
<1>10. ASSUME NEW list \in DaemonLists \union {None}, Answer(list) PROVE IInv'
  BY <1>10, AnswerStep
<1>11. CASE UNCHANGED vars
  BY <1>11, StutterStep
<1> QED BY <1>1, <1>2, <1>3, <1>4, <1>5, <1>6, <1>7, <1>8, <1>9, <1>10, <1>11 DEF Next

-----------------------------------------------------------------------------
(* The theorems.                                                           *)

(* Adverts that are known, under way or chosen were published by their      *)
(* server, with the relays of the process they are of.                      *)
THEOREM Invariance == Spec => []IInv
BY IInvInit, IInvStep, PTL DEF Spec

(* Every variable keeps its type.                                          *)
THEOREM TypeCorrect == Spec => []TypeOK
<1>1. IInv => TypeOK
  BY DEF IInv
<1> QED BY <1>1, Invariance, PTL

(* The cache has the newest advert of each server the daemon heard of in    *)
(* time, in whatever order they came.                                      *)
THEOREM NewestCached == Spec => []CacheIsNewestHeard
<1>1. IInv => CacheIsNewestHeard
  BY DEF IInv
<1> QED BY <1>1, Invariance, PTL

(* A running server is advertised at some relay, unless so many renewals    *)
(* failed in a row that its last advert has run out.                        *)
THEOREM Advertised == Spec => []StaysAdvertised
<1>1. ASSUME IInv PROVE StaysAdvertised
  <2> SUFFICES ASSUME NEW s \in running
               PROVE  \/ \E r \in Relay : stored[r][s] # None /\ Unexpired(stored[r][s])
                      \/ (missed[s] + 1) * Interval >= Ttl + Skew[s]
    BY DEF StaysAdvertised
  <2>1. s \in Server
    BY <1>1 DEF IInv, TypeOK
  <2>2. PICK r \in Relay :
          /\ stored[r][s] # None
          /\ due[s] + Skew[s] <= stored[r][s].publishedAt + (missed[s] + 1) * Interval
    BY <1>1 DEF IInv, RenewedInv
  <2>3. stored[r][s].expiresAt = stored[r][s].publishedAt + Ttl /\ stored[r][s].publishedAt \in Int
    BY <1>1, <2>1, <2>2 DEF IInv, StoredInv, WireInv, TypeOK, Advert
  <2>4. now <= due[s] /\ due[s] \in Nat /\ now \in Nat
    BY <1>1, <2>1 DEF IInv, RenewedInv, TypeOK
  <2>5. Skew[s] \in Int /\ Ttl \in Nat
    BY <2>1, SkewAssumption, IntervalAssumption
  <2>6. (missed[s] + 1) * Interval \in Int
    BY <1>1, <2>1, IntervalAssumption DEF IInv, TypeOK
  <2>7. CASE (missed[s] + 1) * Interval < Ttl + Skew[s]
    BY <2>2, <2>3, <2>4, <2>5, <2>6, <2>7 DEF Unexpired
  <2> QED BY <2>5, <2>6, <2>7
<1> QED BY <1>1, Invariance, PTL

(* An offer goes to every relay its receiver listens on, and its answer     *)
(* comes back on one the daemon listens on if the two share one.            *)
THEOREM Meet == Spec => RelaysMeet
<1>1. IInv' => OfferReachesTarget'
  BY DEF IInv
<1>2. IInv /\ [Next]_vars => [at # at' => AnswerReachesDaemon]_vars
  <2> SUFFICES ASSUME IInv, Next, at # at', at' = "answered", dm[target] \intersect DaemonRelays # {}
               PROVE  reply' \intersect DaemonRelays # {}
    BY DEF AnswerReachesDaemon
  <2>1. \E list \in DaemonLists \union {None} : Answer(list)
    BY DEF Next, Start, Renew, ConnectTo, Stop, Tick, ReceiveAdvert, Discover, CheckAgain,
           MergeBatch, ChooseFirst, NobodyListed, FindTarget, ChooseRelays, Checked, GoOn, Finish,
           connectVars
  <2> QED BY <2>1 DEF Answer, ReplyRelays
<1>3. IInv /\ IInv' /\ [Next]_vars
        => [OfferReachesTarget' /\ (at # at' => AnswerReachesDaemon)]_vars
  BY <1>1, <1>2
<1> QED BY <1>3, Invariance, PTL DEF Spec, RelaysMeet

(* A connect call without a target takes the server last heard of.          *)
THEOREM FirstNewest == Spec => FirstIsNewest
<1>1. IInv /\ [Next]_vars
        => [ChooseFirst => \A a \in heard :
              \/ ~Unexpired(a)
              \/ a.publishedAt <= advert'.publishedAt]_vars
  <2> SUFFICES ASSUME IInv, ChooseFirst, NEW a \in heard, Unexpired(a)
               PROVE  a.publishedAt <= advert'.publishedAt
    OBVIOUS
  <2> DEFINE s == a.server
  <2>1. s \in Server /\ a \in Advert /\ a.publishedAt \in Int /\ now \in Nat
    BY DEF IInv, TypeOK, Advert
  <2>2. cache[s] # None /\ cache[s] \in heard /\ a.publishedAt <= cache[s].publishedAt
    BY <2>1 DEF IInv, CacheIsNewestHeard
  <2>3. /\ a.expiresAt = a.publishedAt + Ttl
        /\ cache[s].expiresAt = cache[s].publishedAt + Ttl
        /\ cache[s].publishedAt \in Int /\ Ttl \in Int
    BY <2>2, IntervalAssumption DEF IInv, HeardInv, WireInv, TypeOK, Advert
  <2>4. Unexpired(cache[s])
    BY <2>1, <2>2, <2>3 DEF Unexpired
  <2>5. cache[s] \in Listed
    BY <2>1, <2>2, <2>4 DEF Listed, Find
  <2>6. PICK b \in Listed : advert' = b /\ \A c \in Listed : c.publishedAt <= b.publishedAt
    BY DEF ChooseFirst
  <2>7. cache[s].publishedAt <= b.publishedAt /\ b.publishedAt \in Int
    BY <2>5, <2>6 DEF Listed, Find, IInv, TypeOK, Advert
  <2> QED BY <2>1, <2>2, <2>3, <2>6, <2>7
<1> QED BY <1>1, Invariance, PTL DEF Spec, FirstIsNewest
=============================================================================
