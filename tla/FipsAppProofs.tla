---------------------------- MODULE FipsAppProofs ----------------------------
(***************************************************************************)
(* Theorems about two applications of the FIPS node: VideoFrames, for any  *)
(* pictures, lengths and frame ids (Spec, Init, Next and vars are its), and *)
(* Console, for any number of calls, messages and pages, any lines and     *)
(* channels of any capacity.                                               *)
(***************************************************************************)
EXTENDS VideoFrames, Console, TLAPS, FiniteSetTheorems, SequenceTheorems

-----------------------------------------------------------------------------
(* The invariant of the video frames.                                      *)

(* A call has an id once it has begun.                                      *)
IdInv == \A p \in Picture : call[p] = "idle" <=> frameId[p] = None

(* Every datagram is one of a picture that has its id.                      *)
NetInv ==
  \A d \in net : \E p \in Picture : \E i \in Places(Total[p]) :
    frameId[p] \in FrameId /\ d = DatagramOf(p, i)

(* c is the chunk at place i of a picture with this id and length.          *)
Belongs(c, id, n, i) ==
  \E p \in Picture : c = <<p, i>> /\ frameId[p] = id /\ Total[p] = n

Sent(id, n) == \E p \in Picture : frameId[p] = id /\ Total[p] = n

GoodEntry(id, a) ==
  /\ Sent(id, a.total)
  /\ \A i \in Places(a.total) : a.chunks[i] # None => Belongs(a.chunks[i], id, a.total, i)

PendingInv == \A id \in DOMAIN pending : GoodEntry(id, pending[id])

(* What was shown has an id, a length and the chunks of both.               *)
GoodFrame(f, id, n) ==
  /\ f = [id |-> id, jpeg |-> f.jpeg]
  /\ f.jpeg \in [1..n -> Chunk]
  /\ \A i \in 1..n : Belongs(f.jpeg[i], id, n, i - 1)

ShownInv ==
  \A f \in shown : \E id \in FrameId, n \in Nat \ {0} : GoodFrame(f, id, n)

(* What has arrived of a picture that has its id to itself is in its entry, *)
(* until it is shown.                                                      *)
Held(p, i) ==
  /\ frameId[p] \in DOMAIN pending
  /\ pending[frameId[p]].total = Total[p]
  /\ pending[frameId[p]].chunks[i] = <<p, i>>

HeldInv ==
  \A p \in Picture : (Own(p) /\ Whole(p) \notin shown) =>
    \A i \in Places(Total[p]) : DatagramOf(p, i) \in delivered => Held(p, i)

IInv ==
  /\ TypeOK
  /\ IdInv
  /\ NetInv
  /\ PendingInv
  /\ CountsChunks
  /\ ShownInv
  /\ HeldInv

-----------------------------------------------------------------------------
(* One datagram at the receiver.                                            *)

LEMMA PlacesFinite ==
  ASSUME NEW n \in Nat
  PROVE  IsFiniteSet(Places(n)) /\ Cardinality(Places(n)) = n
<1>1. /\ IsFiniteSet(0..(n - 1))
      /\ Cardinality(0..(n - 1)) = IF 0 > n - 1 THEN 0 ELSE (n - 1) - 0 + 1
  BY FS_Interval
<1> QED BY <1>1 DEF Places

LEMMA EmptyCount ==
  ASSUME NEW n \in Nat
  PROVE  Empty(n) \in Assembly(n) /\ Empty(n).received = Cardinality(Filled(Empty(n)))
<1>1. Filled(Empty(n)) = {}
  BY DEF Filled, Empty
<1> QED BY <1>1, FS_EmptySet DEF Empty, Assembly

(* The entry the datagram goes to.                                          *)
LEMMA AssemblyFacts ==
  ASSUME IInv, NEW d \in net
  PROVE  /\ d.total \in Nat /\ d.index \in Places(d.total) /\ d.id \in FrameId
         /\ Belongs(d.bytes, d.id, d.total, d.index) /\ d.bytes \in Chunk
         /\ AssemblyFor(d) \in Assembly(d.total)
         /\ AssemblyFor(d).received < d.total
         /\ AssemblyFor(d).received = Cardinality(Filled(AssemblyFor(d)))
         /\ GoodEntry(d.id, AssemblyFor(d))
<1>0. PICK p \in Picture : \E i \in Places(Total[p]) :
        frameId[p] \in FrameId /\ d = DatagramOf(p, i)
  BY DEF IInv, NetInv
<1>1. PICK i \in Places(Total[p]) : frameId[p] \in FrameId /\ d = DatagramOf(p, i)
  BY <1>0
<1>2. /\ d.id = frameId[p] /\ d.total = Total[p] /\ d.index = i /\ d.bytes = <<p, i>>
      /\ Total[p] \in Nat
  BY <1>1, TotalAssumption DEF DatagramOf
<1>3. /\ d.total \in Nat /\ d.index \in Places(d.total) /\ d.id \in FrameId
      /\ Belongs(d.bytes, d.id, d.total, d.index) /\ d.bytes \in Chunk
      /\ d.total > 0 /\ Sent(d.id, d.total)
  BY <1>1, <1>2 DEF Places, Belongs, Chunk, Sent
<1>4. CASE d.id \in DOMAIN pending /\ pending[d.id].total = d.total
  <2>1. AssemblyFor(d) = pending[d.id]
    BY <1>4 DEF AssemblyFor
  <2> QED BY <1>3, <1>4, <2>1 DEF IInv, TypeOK, PendingInv, CountsChunks
<1>5. CASE ~(d.id \in DOMAIN pending /\ pending[d.id].total = d.total)
  <2>1. AssemblyFor(d) = Empty(d.total)
    BY <1>5 DEF AssemblyFor
  <2>2. GoodEntry(d.id, Empty(d.total)) /\ Empty(d.total).received = 0
    BY <1>3 DEF GoodEntry, Empty
  <2> QED BY <1>3, <2>1, <2>2, EmptyCount
<1> QED BY <1>4, <1>5

(* The entry with the chunk.                                                *)
LEMMA KeepFacts ==
  ASSUME IInv, NEW d \in net
  PROVE  /\ Keep(d) \in Assembly(d.total)
         /\ Keep(d).total = d.total
         /\ Keep(d).received = Cardinality(Filled(Keep(d)))
         /\ GoodEntry(d.id, Keep(d))
         /\ Keep(d).chunks[d.index] # None
         /\ \A i \in Places(d.total) : AssemblyFor(d).chunks[i] # None
                                         => Keep(d).chunks[i] = AssemblyFor(d).chunks[i]
<1> DEFINE b == AssemblyFor(d)
<1>1. /\ d.total \in Nat /\ d.index \in Places(d.total)
      /\ Belongs(d.bytes, d.id, d.total, d.index) /\ d.bytes \in Chunk
      /\ b \in Assembly(d.total) /\ b.received < d.total
      /\ b.received = Cardinality(Filled(b)) /\ GoodEntry(d.id, b)
  BY AssemblyFacts
<1>2. b.total = d.total /\ b.chunks \in [Places(d.total) -> Chunk \union {None}] /\ b.received \in Nat
  BY <1>1 DEF Assembly
<1>3. Keep(d) = Put(b, d)
  BY <1>1, <1>2 DEF Keep, Places
<1>4. CASE b.chunks[d.index] # None
  <2>1. Keep(d) = b
    BY <1>3, <1>4 DEF Put
  <2> QED BY <1>1, <1>2, <1>4, <2>1
<1>5. CASE b.chunks[d.index] = None
  <2> DEFINE c == [b.chunks EXCEPT ![d.index] = d.bytes]
  <2>1. Keep(d) = [total |-> d.total, chunks |-> c, received |-> b.received + 1]
    BY <1>1, <1>2, <1>3, <1>5 DEF Put, Assembly
  <2>2. c \in [Places(d.total) -> Chunk \union {None}] /\ d.bytes # None
    BY <1>1, <1>2, NoneAssumption DEF Chunk
  <2>3. Keep(d) \in Assembly(d.total)
    BY <1>1, <1>2, <2>1, <2>2 DEF Assembly
  <2>4. Filled(Keep(d)) = Filled(b) \union {d.index} /\ d.index \notin Filled(b)
    BY <1>1, <1>2, <1>5, <2>1, <2>2 DEF Filled
  <2>5. IsFiniteSet(Filled(b))
    <3>1. IsFiniteSet(Places(d.total))
      BY <1>1, PlacesFinite
    <3>2. Filled(b) \in SUBSET Places(d.total)
      BY <1>2 DEF Filled
    <3> QED BY <3>1, <3>2, FS_Subset
  <2>6. Cardinality(Filled(Keep(d))) = b.received + 1
    BY <1>1, <2>4, <2>5, FS_AddElement
  <2>7. GoodEntry(d.id, Keep(d))
    BY <1>1, <1>2, <2>1 DEF GoodEntry
  <2>8. /\ Keep(d).total = d.total /\ Keep(d).received = b.received + 1
        /\ Keep(d).chunks[d.index] # None
        /\ \A i \in Places(d.total) : b.chunks[i] # None => Keep(d).chunks[i] = b.chunks[i]
    BY <1>1, <1>2, <1>5, <2>1, <2>2
  <2> QED BY <2>3, <2>6, <2>7, <2>8
<1> QED BY <1>4, <1>5

(* What completes has every place filled.                                   *)
LEMMA CompleteIsFull ==
  ASSUME IInv, NEW d \in net, Completes(d)
  PROVE  GoodFrame([id |-> d.id, jpeg |-> Joined(Keep(d))], d.id, d.total)
<1> DEFINE a == Keep(d)
<1>1. /\ a \in Assembly(d.total) /\ a.total = d.total /\ a.received = Cardinality(Filled(a))
      /\ GoodEntry(d.id, a) /\ d.total \in Nat
  BY KeepFacts, AssemblyFacts
<1>2. Filled(a) = Places(d.total)
  <2>1. IsFiniteSet(Places(d.total)) /\ Cardinality(Places(d.total)) = d.total
    BY <1>1, PlacesFinite
  <2>2. Filled(a) \in SUBSET Places(d.total) /\ Cardinality(Filled(a)) = d.total
    BY <1>1 DEF Filled, Completes
  <2> QED BY <2>1, <2>2, FS_Subset
<1>3. \A i \in 1..d.total : /\ a.chunks[i - 1] \in Chunk
                            /\ Belongs(a.chunks[i - 1], d.id, d.total, i - 1)
  <2> SUFFICES ASSUME NEW i \in 1..d.total
               PROVE  a.chunks[i - 1] \in Chunk /\ Belongs(a.chunks[i - 1], d.id, d.total, i - 1)
    OBVIOUS
  <2>1. i - 1 \in Places(d.total)
    BY <1>1 DEF Places
  <2>2. a.chunks[i - 1] # None /\ a.chunks[i - 1] \in Chunk \union {None}
    BY <1>1, <1>2, <2>1 DEF Filled, Assembly
  <2> QED BY <1>1, <2>1, <2>2 DEF GoodEntry
<1> QED BY <1>1, <1>3 DEF GoodFrame, Joined

-----------------------------------------------------------------------------
(* A picture that has its id to itself.                                     *)

(* Every chunk under its id is its own.                                     *)
LEMMA OwnChunk ==
  ASSUME NEW p \in Picture, Own(p), NEW c, NEW n, NEW i, Belongs(c, frameId[p], n, i)
  PROVE  c = <<p, i>> /\ n = Total[p]
BY DEF Belongs, Own

(* Every frame under its id is the whole picture.                           *)
LEMMA OwnFrame ==
  ASSUME NEW p \in Picture, Own(p), NEW f, NEW n \in Nat \ {0}, GoodFrame(f, frameId[p], n)
  PROVE  f = Whole(p)
<1>1. \A i \in 1..n : f.jpeg[i] = <<p, i - 1>> /\ n = Total[p]
  BY OwnChunk DEF GoodFrame
<1>2. 1 \in 1..n
  OBVIOUS
<1>3. n = Total[p]
  BY <1>1, <1>2
<1>4. f.jpeg = [i \in 1..Total[p] |-> <<p, i - 1>>]
  BY <1>1, <1>3 DEF GoodFrame
<1> QED BY <1>4 DEF GoodFrame, Whole

-----------------------------------------------------------------------------
(* The invariant.                                                          *)

LEMMA InitInv == Init => IInv
<1> SUFFICES ASSUME Init PROVE IInv
  OBVIOUS
<1>1. TypeOK
  BY DEF Init, TypeOK
<1>2. IdInv /\ NetInv /\ PendingInv /\ CountsChunks /\ ShownInv /\ HeldInv
  BY DEF Init, IdInv, NetInv, PendingInv, CountsChunks, ShownInv, HeldInv
<1> QED BY <1>1, <1>2 DEF IInv

(* A call that draws an id has sent nothing and shares nothing.             *)
LEMMA DrawIdInv ==
  ASSUME IInv, NEW p \in Picture, NEW id \in FrameId, DrawId(p, id)
  PROVE  IInv'
<1> USE DEF receiverVars
<1>1. /\ call[p] = "idle" /\ frameId[p] = None /\ id # None
      /\ frameId \in [Picture -> FrameId \union {None}]
      /\ call \in [Picture -> {"idle", "sending", "sent", "failed"}]
      /\ call' = [call EXCEPT ![p] = "sending"]
      /\ frameId' = [frameId EXCEPT ![p] = id]
      /\ UNCHANGED <<next, net, pending, latest, delivered, shown>>
  BY NoneAssumption DEF IInv, IdInv, TypeOK, DrawId
<1>2. \A q \in Picture : frameId[q] \in FrameId => frameId'[q] = frameId[q]
  BY <1>1, NoneAssumption
<1>3. \A d \in net : \E q \in Picture : \E i \in Places(Total[q]) :
        frameId[q] \in FrameId /\ d = DatagramOf(q, i) /\ d = DatagramOf(q, i)'
  BY <1>2 DEF IInv, NetInv, DatagramOf
<1>4. NetInv'
  BY <1>1, <1>2, <1>3 DEF NetInv
<1>5. TypeOK'
  <2>1. \A d \in net : \E q \in Picture : d \in DatagramsOf(q)'
    BY <1>3 DEF DatagramsOf
  <2>2. (net \subseteq UNION {DatagramsOf(q) : q \in Picture})'
    BY <1>1, <2>1
  <2>3. \A n : Assembly(n)' = Assembly(n)
    BY DEF Assembly
  <2> QED BY <1>1, <2>2, <2>3 DEF IInv, TypeOK
<1>6. IdInv'
  BY <1>1 DEF IInv, IdInv
<1>7. PendingInv'
  <2>1. DOMAIN pending \subseteq FrameId
    BY DEF IInv, TypeOK
  <2> QED BY <1>1, <1>2, <2>1 DEF IInv, PendingInv, GoodEntry, Belongs, Sent
<1>8. ShownInv' /\ CountsChunks'
  <2>1. ASSUME NEW f, NEW j \in FrameId, NEW n, GoodFrame(f, j, n)
        PROVE  GoodFrame(f, j, n)'
    BY <1>2, <2>1 DEF GoodFrame, Belongs
  <2>3. ShownInv'
    BY <1>1, <2>1 DEF IInv, ShownInv
  <2>4. CountsChunks'
    BY <1>1 DEF IInv, CountsChunks, Filled
  <2> QED BY <2>3, <2>4
<1>9. HeldInv'
  <2> SUFFICES ASSUME NEW q \in Picture, Own(q)', (Whole(q) \notin shown)',
                      NEW i \in Places(Total[q]), (DatagramOf(q, i) \in delivered)'
               PROVE  Held(q, i)'
    BY DEF HeldInv
  <2>1. PICK r \in Picture : \E j \in Places(Total[r]) :
          frameId[r] \in FrameId /\ DatagramOf(q, i)' = DatagramOf(r, j)
    BY <1>1, <1>3 DEF IInv, TypeOK
  <2>2. frameId[q] \in FrameId
    BY <2>1 DEF DatagramOf
  <2>3. frameId'[q] = frameId[q] /\ q # p
    BY <1>1, <1>2, <2>2, NoneAssumption
  <2>4. Own(q)
    BY <1>1, <2>2, <2>3, NoneAssumption DEF Own
  <2>5. Whole(q) \notin shown /\ DatagramOf(q, i) \in delivered
    BY <1>1, <2>3 DEF Whole, DatagramOf
  <2>6. Held(q, i)
    BY <2>4, <2>5 DEF IInv, HeldInv
  <2> QED BY <1>1, <2>3, <2>6 DEF Held
<1> QED BY <1>4, <1>5, <1>6, <1>7, <1>8, <1>9 DEF IInv

(* The rest of the sender touches the receiver only through net.            *)
LEMMA SenderInv ==
  ASSUME IInv, NEW p \in Picture, SendChunk(p) \/ SendFails(p) \/ SendReturns(p)
  PROVE  IInv'
<1> USE DEF receiverVars
<1>1. /\ UNCHANGED <<frameId, pending, latest, delivered, shown>>
      /\ call[p] = "sending"
      /\ net' \in {net, net \union {DatagramOf(p, next[p])}}
      /\ net' # net => next[p] < Total[p]
      /\ call' \in [Picture -> {"idle", "sending", "sent", "failed"}]
      /\ \A q \in Picture : call'[q] = "idle" <=> call[q] = "idle"
      /\ next' \in [Picture -> Nat]
  BY DEF IInv, TypeOK, SendChunk, SendFails, SendReturns
<1>2. frameId[p] \in FrameId /\ next[p] \in Nat /\ Total[p] \in Nat
  BY <1>1, TotalAssumption DEF IInv, IdInv, TypeOK
<1>3. net \subseteq net' /\ \A d \in net' : d \in net \/ d = DatagramOf(p, next[p])
  BY <1>1
<1>4. net' # net => next[p] \in Places(Total[p])
  BY <1>1, <1>2 DEF Places
<1>5. \A q, i : DatagramOf(q, i)' = DatagramOf(q, i)
  BY <1>1 DEF DatagramOf
<1>6. NetInv'
  BY <1>1, <1>2, <1>3, <1>4, <1>5 DEF IInv, NetInv
<1>7. TypeOK'
  <2>1. \A d \in net' : \E q \in Picture : d \in DatagramsOf(q)'
    BY <1>5, <1>6 DEF NetInv, DatagramsOf
  <2>2. \A n : Assembly(n)' = Assembly(n)
    BY DEF Assembly
  <2> QED BY <1>1, <1>3, <2>1, <2>2 DEF IInv, TypeOK
<1>8. IdInv'
  BY <1>1 DEF IInv, IdInv
<1>9. PendingInv' /\ ShownInv' /\ CountsChunks'
  <2>2. PendingInv'
    BY <1>1 DEF IInv, PendingInv, GoodEntry, Sent, Belongs
  <2>3. ASSUME NEW f, NEW j, NEW n, GoodFrame(f, j, n)
        PROVE  GoodFrame(f, j, n)'
    BY <1>1, <2>3 DEF GoodFrame, Belongs
  <2>4. ShownInv'
    BY <1>1, <2>3 DEF IInv, ShownInv
  <2>5. CountsChunks'
    BY <1>1 DEF IInv, CountsChunks, Filled
  <2> QED BY <2>2, <2>4, <2>5
<1>10. HeldInv'
  BY <1>1 DEF IInv, HeldInv, Own, Whole, DatagramOf, Held
<1> QED BY <1>6, <1>7, <1>8, <1>9, <1>10 DEF IInv

(* A datagram that leaves the frame incomplete.                             *)
LEMMA IncompleteInv ==
  ASSUME IInv, NEW d \in net, Incomplete(d), delivered' = delivered \union {d},
         UNCHANGED <<call, next, frameId, net>>
  PROVE  IInv'
<1>1. /\ ~Completes(d) /\ pending' = With(d.id, Keep(d)) /\ UNCHANGED <<latest, shown>>
  BY DEF Incomplete
<1>2. /\ d.total \in Nat /\ d.index \in Places(d.total) /\ d.id \in FrameId
      /\ Belongs(d.bytes, d.id, d.total, d.index)
  BY AssemblyFacts
<1>3. /\ Keep(d) \in Assembly(d.total) /\ Keep(d).total = d.total
      /\ Keep(d).received = Cardinality(Filled(Keep(d)))
      /\ GoodEntry(d.id, Keep(d)) /\ Keep(d).chunks[d.index] # None
      /\ \A i \in Places(d.total) : AssemblyFor(d).chunks[i] # None
                                      => Keep(d).chunks[i] = AssemblyFor(d).chunks[i]
  BY KeepFacts
<1>4. Keep(d).received < d.total
  BY <1>1, <1>2, <1>3 DEF Completes, Places, Assembly
<1>5. /\ DOMAIN pending' = DOMAIN pending \union {d.id}
      /\ pending'[d.id] = Keep(d)
      /\ \A id \in DOMAIN pending \ {d.id} : pending'[id] = pending[id]
  BY <1>1 DEF With
<1>6. TypeOK'
  <2>1. \A id \in DOMAIN pending' :
          pending'[id].total \in Nat /\ pending'[id] \in Assembly(pending'[id].total)
    BY <1>2, <1>3, <1>5 DEF IInv, TypeOK
  <2>2. (\A n : Assembly(n)' = Assembly(n)) /\ (\A q : DatagramsOf(q)' = DatagramsOf(q))
    BY DEF Assembly, DatagramsOf, DatagramOf
  <2> QED BY <1>1, <1>2, <1>5, <2>1, <2>2 DEF IInv, TypeOK
<1>7. IdInv' /\ NetInv'
  BY DEF IInv, IdInv, NetInv, DatagramOf
<1>8. PendingInv'
  <2>1. \A id \in DOMAIN pending' : GoodEntry(id, pending'[id])
    BY <1>3, <1>5 DEF IInv, PendingInv
  <2> QED BY <2>1 DEF PendingInv, GoodEntry, Sent, Belongs
<1>9. CountsChunks'
  <2>1. \A id \in DOMAIN pending' : /\ pending'[id].received < pending'[id].total
                                    /\ pending'[id].received = Cardinality(Filled(pending'[id]))
    BY <1>3, <1>4, <1>5 DEF IInv, CountsChunks
  <2> QED BY <2>1 DEF CountsChunks, Filled
<1>10. ShownInv'
  BY <1>1 DEF IInv, ShownInv, GoodFrame, Belongs
<1>11. HeldInv'
  <2> SUFFICES ASSUME NEW p \in Picture, Own(p), Whole(p) \notin shown, NEW i \in Places(Total[p]),
                      DatagramOf(p, i) \in delivered \union {d}
               PROVE  Held(p, i)'
    BY <1>1 DEF HeldInv, Own, Whole, DatagramOf
  <2>1. DatagramOf(p, i) \in delivered => Held(p, i)
    BY DEF IInv, HeldInv
  <2>2. CASE d.id # frameId[p]
    <3>1. DatagramOf(p, i) # d
      BY <2>2 DEF DatagramOf
    <3> QED BY <1>5, <2>1, <2>2, <3>1 DEF Held
  <2>3. CASE d.id = frameId[p]
    <3>1. d.total = Total[p]
      BY <1>2, <2>3, OwnChunk
    <3>2. Keep(d).chunks[i] # None
      <4>1. CASE DatagramOf(p, i) = d
        <5>1. d.index = i
          BY <4>1 DEF DatagramOf
        <5> QED BY <1>3, <5>1
      <4>2. CASE DatagramOf(p, i) # d
        <5>1. Held(p, i)
          BY <2>1, <4>2
        <5>2. AssemblyFor(d) = pending[d.id]
          BY <2>3, <3>1, <5>1 DEF Held, AssemblyFor
        <5>3. AssemblyFor(d).chunks[i] = <<p, i>>
          BY <2>3, <5>1, <5>2 DEF Held
        <5>4. Total[p] \in Nat /\ <<p, i>> # None
          BY TotalAssumption, NoneAssumption DEF Places
        <5> QED BY <1>3, <3>1, <5>3, <5>4
      <4> QED BY <4>1, <4>2
    <3>3. Belongs(Keep(d).chunks[i], frameId[p], d.total, i)
      BY <1>3, <2>3, <3>1, <3>2 DEF GoodEntry
    <3>4. Keep(d).chunks[i] = <<p, i>>
      BY <3>3, OwnChunk
    <3> QED BY <1>3, <1>5, <2>3, <3>1, <3>4 DEF Held
  <2> QED BY <2>2, <2>3
<1> QED BY <1>6, <1>7, <1>8, <1>9, <1>10, <1>11 DEF IInv

(* A datagram that completes the frame.                                     *)
LEMMA CompleteInv ==
  ASSUME IInv, NEW d \in net, Complete(d), delivered' = delivered \union {d},
         UNCHANGED <<call, next, frameId, net>>
  PROVE  IInv'
<1> DEFINE f == [id |-> d.id, jpeg |-> Joined(Keep(d))]
<1>1. /\ Completes(d) /\ latest' = f /\ shown' = shown \union {f}
      /\ pending' = [id \in DOMAIN pending \ {d.id} |-> pending[id]]
  BY DEF Complete
<1>2. d.total \in Nat /\ d.total # 0 /\ d.index \in Places(d.total) /\ d.id \in FrameId
  BY AssemblyFacts DEF Places
<1>3. GoodFrame(f, d.id, d.total)
  BY <1>1, CompleteIsFull
<1>4. /\ DOMAIN pending' = DOMAIN pending \ {d.id}
      /\ \A id \in DOMAIN pending' : id \in DOMAIN pending /\ pending'[id] = pending[id]
  BY <1>1
<1>5. TypeOK'
  <2>1. f.id \in FrameId /\ f.jpeg \in Seq(Chunk)
    BY <1>2, <1>3 DEF GoodFrame
  <2>2. (\A n : Assembly(n)' = Assembly(n)) /\ (\A q : DatagramsOf(q)' = DatagramsOf(q))
    BY DEF Assembly, DatagramsOf, DatagramOf
  <2>3. \A id \in DOMAIN pending' :
          pending'[id].total \in Nat /\ pending'[id] \in Assembly(pending'[id].total)
    BY <1>4 DEF IInv, TypeOK
  <2>4. (latest' # None => latest' \in shown') /\ \A g \in shown' : g.id \in FrameId /\ g.jpeg \in Seq(Chunk)
    BY <1>1, <2>1 DEF IInv, TypeOK
  <2> HIDE DEF f
  <2> QED BY <1>4, <2>2, <2>3, <2>4 DEF IInv, TypeOK
<1>6. IdInv' /\ NetInv'
  BY DEF IInv, IdInv, NetInv, DatagramOf
<1>7. PendingInv' /\ CountsChunks'
  <2>1. \A id \in DOMAIN pending' : GoodEntry(id, pending'[id])
    BY <1>4 DEF IInv, PendingInv
  <2>2. PendingInv'
    BY <2>1 DEF PendingInv, GoodEntry, Sent, Belongs
  <2>3. CountsChunks'
    BY <1>4 DEF IInv, CountsChunks, Filled
  <2> QED BY <2>2, <2>3
<1>8. ShownInv'
  <2>1. \A g \in shown' : \E id \in FrameId, n \in Nat \ {0} : GoodFrame(g, id, n)
    BY <1>1, <1>2, <1>3 DEF IInv, ShownInv
  <2> QED BY <2>1 DEF ShownInv, GoodFrame, Belongs
<1>9. HeldInv'
  <2> SUFFICES ASSUME NEW p \in Picture, Own(p), Whole(p) \notin shown', NEW i \in Places(Total[p]),
                      DatagramOf(p, i) \in delivered \union {d}
               PROVE  Held(p, i)'
    BY DEF HeldInv, Own, Whole, DatagramOf
  <2>1. d.id # frameId[p]
    <3>1. d.id = frameId[p] => f = Whole(p)
      BY <1>2, <1>3, OwnFrame
    <3> QED BY <1>1, <3>1
  <2>2. DatagramOf(p, i) # d
    BY <2>1 DEF DatagramOf
  <2>3. Held(p, i)
    BY <1>1, <2>2 DEF IInv, HeldInv
  <2> QED BY <1>4, <2>1, <2>3 DEF Held
<1> QED BY <1>5, <1>6, <1>7, <1>8, <1>9 DEF IInv

LEMMA NextInv == IInv /\ [Next]_vars => IInv'
<1> SUFFICES ASSUME IInv, [Next]_vars PROVE IInv'
  OBVIOUS
<1>1. CASE UNCHANGED vars
  <2>1. UNCHANGED <<call, next, frameId, net, pending, latest, delivered, shown>>
    BY <1>1 DEF vars
  <2>2. TypeOK' /\ IdInv' /\ NetInv'
    BY <2>1 DEF IInv, TypeOK, IdInv, NetInv, DatagramsOf, DatagramOf, Assembly
  <2>3. PendingInv' /\ CountsChunks'
    BY <2>1 DEF IInv, PendingInv, GoodEntry, Sent, Belongs, CountsChunks, Filled
  <2>4. ShownInv'
    BY <2>1 DEF IInv, ShownInv, GoodFrame, Belongs
  <2>5. HeldInv'
    BY <2>1 DEF IInv, HeldInv, Held, Own, Whole, DatagramOf
  <2> QED BY <2>2, <2>3, <2>4, <2>5 DEF IInv
<1>2. ASSUME NEW p \in Picture, NEW id \in FrameId, DrawId(p, id) PROVE IInv'
  BY <1>2, DrawIdInv
<1>3. ASSUME NEW p \in Picture, SendChunk(p) \/ SendFails(p) \/ SendReturns(p) PROVE IInv'
  BY <1>3, SenderInv
<1>4. ASSUME NEW d \in net, Accept(d) PROVE IInv'
  BY <1>4, IncompleteInv, CompleteInv DEF Accept
<1> QED BY <1>1, <1>2, <1>3, <1>4 DEF Next

-----------------------------------------------------------------------------
(* Theorems.                                                               *)

THEOREM Invariance == Spec => []IInv
<1> QED BY InitInv, NextInv, PTL DEF Spec

(* The types of VideoFrames hold always.                                    *)
THEOREM TypeCorrect == Spec => []TypeOK
<1>1. IInv => TypeOK
  BY DEF IInv
<1> QED BY <1>1, Invariance, PTL

(* accept_video_datagram shows nothing that lacks a chunk, mixes pictures of *)
(* different lengths or misplaces a chunk.                                  *)
THEOREM WholeShown == Spec => []ShownIsWhole
<1>1. IInv => ShownIsWhole
  <2> SUFFICES ASSUME IInv, NEW f \in shown, NEW i \in 1..Len(f.jpeg)
               PROVE  /\ f.jpeg[i] # None
                      /\ f.jpeg[i][2] = i - 1 /\ frameId[f.jpeg[i][1]] = f.id
                      /\ Total[f.jpeg[i][1]] = Len(f.jpeg)
    BY DEF ShownIsWhole
  <2>1. PICK id \in FrameId : \E n \in Nat \ {0} : GoodFrame(f, id, n)
    BY DEF IInv, ShownInv
  <2>2. PICK n \in Nat \ {0} : GoodFrame(f, id, n)
    BY <2>1
  <2>3. Len(f.jpeg) = n /\ f.id = id /\ f.jpeg[i] \in Chunk
    BY <2>2 DEF GoodFrame
  <2>4. PICK p \in Picture : f.jpeg[i] = <<p, i - 1>> /\ frameId[p] = id /\ Total[p] = n
    BY <2>2, <2>3 DEF GoodFrame, Belongs
  <2> QED BY <2>3, <2>4, NoneAssumption DEF Chunk
<1> QED BY <1>1, Invariance, PTL

(* The count of an entry is that of its chunks, and it lacks one.           *)
THEOREM Counted == Spec => []CountsChunks
<1>1. IInv => CountsChunks
  BY DEF IInv
<1> QED BY <1>1, Invariance, PTL

(* What arrived of a picture with an id of its own is shown, and nothing     *)
(* else is shown for it.                                                   *)
THEOREM ArrivalShown == Spec => []ArrivedIsShown
<1>1. IInv => ArrivedIsShown
  <2> SUFFICES ASSUME IInv, NEW p \in Picture, Own(p), Total[p] > 0
               PROVE  /\ DatagramsOf(p) \subseteq delivered => Whole(p) \in shown
                      /\ \A f \in shown : f.id = frameId[p] => f = Whole(p)
    BY DEF ArrivedIsShown
  <2>1. ASSUME DatagramsOf(p) \subseteq delivered, Whole(p) \notin shown PROVE FALSE
    <3> DEFINE a == pending[frameId[p]]
    <3>1. \A i \in Places(Total[p]) : Held(p, i)
      BY <2>1 DEF IInv, HeldInv, DatagramsOf
    <3>2. Total[p] \in Nat /\ 0 \in Places(Total[p])
      BY TotalAssumption DEF Places
    <3>3. frameId[p] \in DOMAIN pending /\ a.total = Total[p]
      BY <3>1, <3>2 DEF Held
    <3>4. Filled(a) = Places(Total[p])
      <4>1. \A i \in Places(Total[p]) : a.chunks[i] = <<p, i>> /\ <<p, i>> # None
        BY <3>1, <3>2, NoneAssumption DEF Held, Places
      <4> QED BY <3>3, <4>1 DEF Filled
    <3>5. Cardinality(Places(Total[p])) = Total[p]
      BY <3>2, PlacesFinite
    <3>6. a.received < a.total /\ a.received = Cardinality(Filled(a))
      BY <3>3 DEF IInv, CountsChunks
    <3> QED BY <3>2, <3>3, <3>4, <3>5, <3>6
  <2>2. ASSUME NEW f \in shown, f.id = frameId[p] PROVE f = Whole(p)
    <3>1. PICK id \in FrameId : \E n \in Nat \ {0} : GoodFrame(f, id, n)
      BY DEF IInv, ShownInv
    <3>2. PICK n \in Nat \ {0} : GoodFrame(f, id, n)
      BY <3>1
    <3>3. f.id = id
      BY <3>2 DEF GoodFrame
    <3> QED BY <2>2, <3>2, <3>3, OwnFrame
  <2> QED BY <2>1, <2>2
<1> QED BY <1>1, Invariance, PTL

-----------------------------------------------------------------------------
(* Induction.                                                              *)

(* Every set of natural numbers that is not empty has a least element: the *)
(* proper inclusion of finite sets is well-founded.                        *)
LEMMA LeastNatural ==
  ASSUME NEW S, S \subseteq Nat, S # {}
  PROVE  \E x \in S : \A y \in S : x <= y
<1> DEFINE R == StrictSubsetOrdering(Nat)
           T == {0 .. x : x \in S}
<1>1. T \subseteq FiniteSubsetsOf(Nat)
  <2>1. \A x \in S : IsFiniteSet(0 .. x)
    BY FS_Interval
  <2> QED BY <2>1 DEF FiniteSubsetsOf
<1>2. IsWellFoundedOn(R, FiniteSubsetsOf(Nat))
  BY FS_StrictSubsetOrderingWellFounded
<1>3. T # {}
  OBVIOUS
<1>4. PICK t \in T : \A u \in T : ~ (<<u, t>> \in R)
  <2> HIDE DEF R, T
  <2> QED BY <1>1, <1>2, <1>3, WFMin, Zenon
<1>5. PICK x \in S : t = 0 .. x
  OBVIOUS
<1>6. ASSUME NEW y \in S, y < x PROVE FALSE
  <2>1. 0 .. y \subseteq 0 .. x /\ 0 .. y # 0 .. x
    BY <1>6
  <2>2. <<0 .. y, 0 .. x>> \in R
    BY <2>1 DEF StrictSubsetOrdering
  <2> QED BY <1>4, <1>5, <2>2
<1>7. \A y \in S : x <= y
  <2> HIDE DEF R, T
  <2> QED BY <1>6
<1> QED BY <1>7

(* Induction over the natural numbers, for the elements of a set.          *)
LEMMA Induction ==
  ASSUME NEW S, 0 \in S, \A n \in Nat : n \in S => n + 1 \in S
  PROVE  Nat \subseteq S
<1> DEFINE T == Nat \ S
<1> SUFFICES ASSUME T # {} PROVE FALSE
  OBVIOUS
<1>1. PICK x \in T : \A y \in T : x <= y
  <2> HIDE DEF T
  <2>1. T \subseteq Nat
    BY DEF T
  <2> QED BY <2>1, LeastNatural
<1>2. x # 0 /\ x - 1 \in Nat /\ x - 1 \notin T
  BY <1>1
<1> QED BY <1>2

-----------------------------------------------------------------------------
(* Without.                                                                *)

Keeps(kept, s, T, n) ==
  /\ kept[0] = <<>>
  /\ \A i \in 1 .. n :
       kept[i] = IF s[i] \in T THEN kept[i - 1] ELSE Append(kept[i - 1], s[i])

Agree(s, t, n) == \A i \in 1 .. n : s[i] = t[i]

(* What is kept of the beginnings of a sequence is well defined ...        *)
LEMMA KeepsExists ==
  ASSUME NEW S, NEW s \in Seq(S), NEW T
  PROVE  \A n \in 0 .. Len(s) : \E f \in [0 .. n -> Seq(S)] : Keeps(f, s, T, n)
<1> DEFINE P == {n \in Nat : n <= Len(s) => \E f \in [0 .. n -> Seq(S)] : Keeps(f, s, T, n)}
<1>1. 0 \in P
  <2> DEFINE f == [i \in 0 .. 0 |-> <<>>]
  <2>1. f \in [0 .. 0 -> Seq(S)] /\ Keeps(f, s, T, 0)
    BY DEF Keeps
  <2> QED BY <2>1
<1>2. ASSUME NEW n \in Nat, n \in P PROVE n + 1 \in P
  <2> SUFFICES ASSUME n + 1 <= Len(s)
               PROVE  \E f \in [0 .. (n + 1) -> Seq(S)] : Keeps(f, s, T, n + 1)
    OBVIOUS
  <2>1. PICK g \in [0 .. n -> Seq(S)] : Keeps(g, s, T, n)
    BY <1>2
  <2>2. s[n + 1] \in S
    OBVIOUS
  <2> DEFINE e == IF s[n + 1] \in T THEN g[n] ELSE Append(g[n], s[n + 1])
             f == [i \in 0 .. (n + 1) |-> IF i = n + 1 THEN e ELSE g[i]]
  <2>3. e \in Seq(S)
    BY <2>1, <2>2
  <2>4. f \in [0 .. (n + 1) -> Seq(S)]
    BY <2>1, <2>3
  <2>5. f[n + 1] = e /\ \A i \in 0 .. n : f[i] = g[i]
    OBVIOUS
  <2>6. f[0] = <<>>
    BY <2>1, <2>5 DEF Keeps
  <2>7. ASSUME NEW i \in 1 .. (n + 1)
        PROVE  f[i] = IF s[i] \in T THEN f[i - 1] ELSE Append(f[i - 1], s[i])
    <3>1. CASE i = n + 1
      BY <3>1, <2>5
    <3>2. CASE i # n + 1
      <4>1. i \in 1 .. n /\ i \in 0 .. n /\ i - 1 \in 0 .. n
        BY <3>2
      <4> QED BY <4>1, <2>1, <2>5 DEF Keeps
    <3> QED BY <3>1, <3>2
  <2> HIDE DEF f
  <2> QED BY <2>4, <2>6, <2>7 DEF Keeps
<1>3. Nat \subseteq P
  <2> HIDE DEF P
  <2> QED BY <1>1, <1>2, Induction
<1> QED BY <1>3

(* ... and is the same for two sequences as far as they agree.             *)
LEMMA KeepsUnique ==
  ASSUME NEW s, NEW t, NEW T, NEW n \in Nat, NEW f, NEW g,
         Keeps(f, s, T, n), Keeps(g, t, T, n), Agree(s, t, n)
  PROVE  f[n] = g[n]
<1> DEFINE P == {i \in Nat : i <= n => f[i] = g[i]}
<1>1. 0 \in P
  BY DEF Keeps
<1>2. ASSUME NEW i \in Nat, i \in P PROVE i + 1 \in P
  BY <1>2 DEF Keeps, Agree
<1>3. Nat \subseteq P
  <2> HIDE DEF P
  <2> QED BY <1>1, <1>2, Induction
<1> QED BY <1>3

(* Without is such a function at its last argument.                        *)
LEMMA WithoutKeeps ==
  ASSUME NEW S, NEW s \in Seq(S), NEW T
  PROVE  \E f \in [0 .. Len(s) -> Seq(S)] :
           Keeps(f, s, T, Len(s)) /\ Without(s, T) = f[Len(s)]
<1> DEFINE Def(g) == [n \in 0 .. Len(s) |->
                        IF n = 0 THEN <<>>
                        ELSE IF s[n] \in T THEN g[n - 1] ELSE Append(g[n - 1], s[n])]
           kept == CHOOSE g : g = Def(g)
<1> HIDE DEF Def, kept
<1>0. Len(s) \in Nat /\ Len(s) \in 0 .. Len(s)
  OBVIOUS
<1>1. PICK f \in [0 .. Len(s) -> Seq(S)] : Keeps(f, s, T, Len(s))
  BY <1>0, KeepsExists
<1>2. f = Def(f)
  <2>1. \A i \in 0 .. Len(s) : f[i] = Def(f)[i]
    <3> SUFFICES ASSUME NEW i \in 0 .. Len(s) PROVE f[i] = Def(f)[i]
      OBVIOUS
    <3>1. CASE i = 0
      BY <1>0, <1>1, <3>1 DEF Keeps, Def
    <3>2. CASE i # 0
      <4>1. i \in 1 .. Len(s)
        BY <1>0, <3>2
      <4> QED BY <1>1, <3>2, <4>1 DEF Keeps, Def
    <3> QED BY <3>1, <3>2
  <2>2. DOMAIN Def(f) = 0 .. Len(s) /\ Def(f) = [i \in 0 .. Len(s) |-> Def(f)[i]]
    BY DEF Def
  <2> QED BY <2>1, <2>2
<1>3. kept = Def(kept)
  BY <1>2 DEF kept
<1>4. Keeps(kept, s, T, Len(s))
  <2>1. \A i \in 0 .. Len(s) : kept[i] = Def(kept)[i]
    BY <1>3
  <2> QED BY <1>0, <2>1 DEF Keeps, Def
<1>5. kept[Len(s)] = f[Len(s)]
  BY <1>0, <1>1, <1>4, KeepsUnique DEF Agree
<1>6. Without(s, T) = kept[Len(s)]
  BY DEF Without, kept, Def
<1> QED BY <1>0, <1>1, <1>5, <1>6

LEMMA WithoutIsSeq ==
  ASSUME NEW S, NEW s \in Seq(S), NEW T
  PROVE  Without(s, T) \in Seq(S)
<1>1. PICK f \in [0 .. Len(s) -> Seq(S)] : Without(s, T) = f[Len(s)]
  BY WithoutKeeps
<1>2. Len(s) \in 0 .. Len(s)
  OBVIOUS
<1> QED BY <1>1, <1>2

LEMMA WithoutEmpty == ASSUME NEW T PROVE Without(<<>>, T) = <<>>
<1>1. <<>> \in Seq({}) /\ Len(<<>>) = 0
  OBVIOUS
<1>2. PICK f \in [0 .. 0 -> Seq({})] : Keeps(f, <<>>, T, 0) /\ Without(<<>>, T) = f[0]
  <2> DEFINE s == <<>>
  <2>1. s \in Seq({}) /\ Len(s) = 0
    BY <1>1
  <2> HIDE DEF s
  <2>2. \E f \in [0 .. Len(s) -> Seq({})] : Keeps(f, s, T, Len(s)) /\ Without(s, T) = f[Len(s)]
    BY <2>1, WithoutKeeps
  <2> QED BY <2>1, <2>2 DEF s
<1> QED BY <1>2 DEF Keeps

LEMMA WithoutLast ==
  ASSUME NEW S, NEW s \in Seq(S), NEW t \in Seq(S), NEW n \in Nat, NEW T,
         Len(s) = n, Len(t) = n + 1, Agree(s, t, n)
  PROVE  /\ Without(s, T) \in Seq(S)
         /\ Without(t, T) =
              IF t[n + 1] \in T THEN Without(s, T) ELSE Append(Without(s, T), t[n + 1])
<1>1. PICK f \in [0 .. Len(s) -> Seq(S)] : Keeps(f, s, T, Len(s)) /\ Without(s, T) = f[Len(s)]
  BY WithoutKeeps
<1>2. PICK g \in [0 .. Len(t) -> Seq(S)] : Keeps(g, t, T, Len(t)) /\ Without(t, T) = g[Len(t)]
  BY WithoutKeeps
<1>3. Keeps(f, s, T, n)
  BY <1>1
<1>4. Keeps(g, t, T, n)
  <2>1. \A i \in 1 .. n : i \in 1 .. Len(t)
    OBVIOUS
  <2> QED BY <1>2, <2>1 DEF Keeps
<1>5. f[n] = g[n]
  BY <1>3, <1>4, KeepsUnique
<1>6. g[n + 1] = IF t[n + 1] \in T THEN g[n] ELSE Append(g[n], t[n + 1])
  <2>1. n + 1 \in 1 .. (n + 1) /\ (n + 1) - 1 = n
    OBVIOUS
  <2> QED BY <1>2, <2>1 DEF Keeps
<1> QED BY <1>1, <1>2, <1>5, <1>6

(* What is kept of one element more.                                       *)
LEMMA WithoutAppend ==
  ASSUME NEW S, NEW s \in Seq(S), NEW e \in S, NEW T
  PROVE  Without(Append(s, e), T) =
           IF e \in T THEN Without(s, T) ELSE Append(Without(s, T), e)
<1>1. PICK t \in Seq(S), n \in Nat : t = Append(s, e) /\ n = Len(s)
  <2>1. Append(s, e) \in Seq(S) /\ Len(s) \in Nat
    OBVIOUS
  <2> QED BY <2>1, Zenon
<1>2. Len(t) = n + 1 /\ t[n + 1] = e
  BY <1>1
<1>3. Agree(s, t, n)
  BY <1>1 DEF Agree
<1>4. Len(s) = n
  BY <1>1
<1>5. /\ Without(s, T) \in Seq(S)
      /\ Without(t, T) = IF t[n + 1] \in T THEN Without(s, T) ELSE Append(Without(s, T), t[n + 1])
  BY <1>2, <1>3, <1>4, WithoutLast
<1> QED BY <1>1, <1>2, <1>5

-----------------------------------------------------------------------------
(* Beginnings and other parts of sequences.                                *)

(* A part of s that is longer by one element.                              *)
LEMMA PartAppend ==
  ASSUME NEW S, NEW s \in Seq(S), NEW m \in Nat \ {0}, NEW n \in Nat, m <= n + 1, n < Len(s)
  PROVE  /\ SubSeq(s, m, n) \in Seq(S)
         /\ s[n + 1] \in S
         /\ SubSeq(s, m, n + 1) = Append(SubSeq(s, m, n), s[n + 1])
<1>1. \A i \in m .. n + 1 : s[i] \in S
  OBVIOUS
<1>2. /\ SubSeq(s, m, n) \in Seq(S) /\ Len(SubSeq(s, m, n)) = n - m + 1
      /\ \A i \in 1 .. n - m + 1 : SubSeq(s, m, n)[i] = s[m + i - 1]
  BY <1>1, SubSeqProperties
<1>3. /\ SubSeq(s, m, n + 1) \in Seq(S) /\ Len(SubSeq(s, m, n + 1)) = n - m + 2
      /\ \A i \in 1 .. n - m + 2 : SubSeq(s, m, n + 1)[i] = s[m + i - 1]
  BY <1>1, SubSeqProperties
<1>4. PICK t \in Seq(S) : t = SubSeq(s, m, n)
  BY <1>2
<1>5. PICK u \in Seq(S) : u = SubSeq(s, m, n + 1)
  BY <1>3
<1>6. u = Append(t, s[n + 1])
  <2>1. s[n + 1] \in S /\ n - m + 1 \in Nat
    OBVIOUS
  <2>2. Append(t, s[n + 1]) \in Seq(S) /\ Len(Append(t, s[n + 1])) = Len(u)
    BY <1>2, <1>3, <1>4, <1>5, <2>1
  <2>3. \A i \in 1 .. Len(u) : u[i] = Append(t, s[n + 1])[i]
    BY <1>2, <1>3, <1>4, <1>5, <2>1
  <2> QED BY <2>2, <2>3, SeqEqual
<1>7. SubSeq(s, m, n + 1) = Append(SubSeq(s, m, n), s[n + 1])
  BY <1>4, <1>5, <1>6, Zenon
<1>8. n + 1 \in m .. n + 1
  OBVIOUS
<1> QED BY <1>1, <1>2, <1>7, <1>8, Zenon

(* A part that ends before what is appended.                               *)
LEMMA PartOfAppend ==
  ASSUME NEW S, NEW s \in Seq(S), NEW e \in S, NEW m \in Nat \ {0}, NEW n \in Nat, n <= Len(s)
  PROVE  SubSeq(Append(s, e), m, n) = SubSeq(s, m, n)
<1>1. \A i \in m .. n : s[i] \in S /\ Append(s, e)[i] = s[i]
  OBVIOUS
<1>2. /\ SubSeq(s, m, n) \in Seq(S) /\ Len(SubSeq(s, m, n)) = IF m <= n THEN n - m + 1 ELSE 0
      /\ \A i \in 1 .. n - m + 1 : SubSeq(s, m, n)[i] = s[m + i - 1]
  BY <1>1, SubSeqProperties
<1>3. PICK t \in Seq(S) : t = Append(s, e)
  <2>1. Append(s, e) \in Seq(S)
    OBVIOUS
  <2> QED BY <2>1, Zenon
<1>4. /\ SubSeq(t, m, n) \in Seq(S) /\ Len(SubSeq(t, m, n)) = IF m <= n THEN n - m + 1 ELSE 0
      /\ \A i \in 1 .. n - m + 1 : SubSeq(t, m, n)[i] = t[m + i - 1]
  <2>1. \A i \in m .. n : t[i] \in S
    BY <1>1, <1>3
  <2> QED BY <2>1, SubSeqProperties
<1>5. \A i \in 1 .. n - m + 1 : t[m + i - 1] = s[m + i - 1]
  BY <1>1, <1>3
<1>6. SubSeq(t, m, n) = SubSeq(s, m, n)
  <2>1. PICK u \in Seq(S), v \in Seq(S) : u = SubSeq(t, m, n) /\ v = SubSeq(s, m, n)
    BY <1>2, <1>4
  <2>2. Len(u) = Len(v) /\ (Len(u) = 0 \/ Len(u) = n - m + 1)
    BY <1>2, <1>4, <2>1
  <2>3. \A i \in 1 .. Len(u) : u[i] = v[i]
    BY <1>2, <1>4, <1>5, <2>1, <2>2
  <2> QED BY <2>1, <2>2, <2>3, SeqEqual
<1> QED BY <1>3, <1>6

LEMMA FirstIsSeq ==
  ASSUME NEW S, NEW s \in Seq(S), NEW n \in Nat, n <= Len(s)
  PROVE  SubSeq(s, 1, n) \in Seq(S)
BY SubSeqProperties

(* A prefix, by its elements.                                              *)
LEMMA PrefixElements ==
  ASSUME NEW S, NEW s \in Seq(S), NEW t \in Seq(S)
  PROVE  IsPrefix(s, t) <=> Len(s) <= Len(t) /\ \A i \in 1 .. Len(s) : s[i] = t[i]
<1> SUFFICES ASSUME Len(s) <= Len(t)
             PROVE  SubSeq(s, 1, Len(s)) = SubSeq(t, 1, Len(s)) <=> \A i \in 1 .. Len(s) : s[i] = t[i]
  BY DEF IsPrefix
<1>1. SubSeq(s, 1, Len(s)) = s
  BY SubSeqFull
<1>2. /\ SubSeq(t, 1, Len(s)) \in Seq(S) /\ Len(SubSeq(t, 1, Len(s))) = Len(s)
      /\ \A i \in 1 .. Len(s) : SubSeq(t, 1, Len(s))[i] = t[i]
  <2>1. \A i \in 1 .. Len(s) : t[i] \in S
    OBVIOUS
  <2> QED BY <2>1, SubSeqProperties
<1> QED BY <1>1, <1>2, SeqEqual

(* What is kept of a beginning is the beginning of what is kept.           *)
LEMMA WithoutPrefix ==
  ASSUME NEW S, NEW s \in Seq(S), NEW T, NEW n \in Nat, n <= Len(s)
  PROVE  IsPrefix(Without(SubSeq(s, 1, n), T), Without(s, T))
<1> DEFINE W(i) == Without(SubSeq(s, 1, i), T)
           P == {j \in Nat : n + j <= Len(s) => W(n + j) \in Seq(S) /\ IsPrefix(W(n), W(n + j))}
<1>1. \A i \in Nat : i < Len(s) =>
        W(i) \in Seq(S) /\ s[i + 1] \in S
        /\ W(i + 1) = IF s[i + 1] \in T THEN W(i) ELSE Append(W(i), s[i + 1])
  <2> SUFFICES ASSUME NEW i \in Nat, i < Len(s)
               PROVE  W(i) \in Seq(S) /\ s[i + 1] \in S
                      /\ W(i + 1) = IF s[i + 1] \in T THEN W(i) ELSE Append(W(i), s[i + 1])
    OBVIOUS
  <2>1. /\ SubSeq(s, 1, i) \in Seq(S) /\ s[i + 1] \in S
        /\ SubSeq(s, 1, i + 1) = Append(SubSeq(s, 1, i), s[i + 1])
    BY PartAppend
  <2>2. PICK u \in Seq(S), e \in S : u = SubSeq(s, 1, i) /\ e = s[i + 1]
    BY <2>1
  <2>3. Without(Append(u, e), T) = IF e \in T THEN Without(u, T) ELSE Append(Without(u, T), e)
    BY WithoutAppend
  <2>4. Without(u, T) \in Seq(S)
    BY WithoutIsSeq
  <2> QED BY <2>1, <2>2, <2>3, <2>4
<1>2. \A i \in Nat : i <= Len(s) => W(i) \in Seq(S)
  <2> SUFFICES ASSUME NEW i \in Nat, i <= Len(s) PROVE W(i) \in Seq(S)
    OBVIOUS
  <2>1. SubSeq(s, 1, i) \in Seq(S)
    BY FirstIsSeq
  <2> QED BY <2>1, WithoutIsSeq
<1> HIDE DEF W
<1>3. 0 \in P
  BY <1>2, PrefixElements
<1>4. ASSUME NEW j \in Nat, j \in P PROVE j + 1 \in P
  <2> SUFFICES ASSUME n + j + 1 <= Len(s)
               PROVE  W(n + (j + 1)) \in Seq(S) /\ IsPrefix(W(n), W(n + (j + 1)))
    OBVIOUS
  <2>1. PICK a \in Seq(S), b \in Seq(S), c \in Seq(S), e \in S :
          a = W(n) /\ b = W(n + j) /\ c = W(n + (j + 1)) /\ (c = b \/ c = Append(b, e))
    <3>1. n + j \in Nat /\ n + j < Len(s) /\ (n + j) + 1 = n + (j + 1) /\ n <= Len(s) /\ n + j <= Len(s)
          /\ n + (j + 1) \in Nat /\ n + (j + 1) <= Len(s)
      OBVIOUS
    <3> QED BY <1>1, <1>2, <3>1
  <2>2. Len(a) <= Len(b) /\ \A i \in 1 .. Len(a) : a[i] = b[i]
    BY <1>4, <2>1, PrefixElements
  <2>3. Len(a) <= Len(c) /\ \A i \in 1 .. Len(a) : a[i] = c[i]
    <3>1. CASE c = b
      BY <2>2, <3>1
    <3>2. CASE c = Append(b, e)
      BY <2>2, <3>2
    <3> QED BY <2>1, <3>1, <3>2
  <2> QED BY <2>1, <2>3, PrefixElements
<1>5. Nat \subseteq P
  <2> HIDE DEF P
  <2> QED BY <1>3, <1>4, Induction
<1>6. IsPrefix(W(n), W(Len(s)))
  <2>1. Len(s) - n \in Nat /\ n + (Len(s) - n) = Len(s)
    OBVIOUS
  <2> QED BY <1>5, <2>1
<1> QED BY <1>6, SubSeqFull DEF W

-----------------------------------------------------------------------------
(* The invariant of the terminal.                                          *)

(* How many lines the loop has taken from the channel.                     *)
Taken == Len(typed) - Len(lines)

(* The channel holds the last lines that were read.                        *)
ChannelInv ==
  /\ Len(lines) <= Len(typed)
  /\ \A i \in 1 .. Len(lines) : lines[i] = typed[Taken + i]

(* The lines with text among those taken have been sent, but the one the   *)
(* loop waits for.                                                         *)
AskedInv ==
  loop # "failed" =>
    Text(SubSeq(typed, 1, Taken)) = IF loop = "awaiting" THEN Append(asked, line) ELSE asked

FailedInv == loop = "failed" => IsPrefix(asked, Text(typed))

DoneInv == loop = "done" => lines = <<>>

TerminalInv == TerminalTypeOK /\ ChannelInv /\ AskedInv /\ FailedInv /\ DoneInv

-----------------------------------------------------------------------------
(* The invariant of the daemon.                                            *)

HasNode == {"spawned", "emitting", "returned"}
HasSocket == {"starting"} \union HasNode

(* With --handoff-fips, at most one call gets as far as the socket, and    *)
(* nobody's node is in use but its own.                                    *)
SocketInv ==
  handoffFips =>
    /\ \A c \in Call : phase[c] \in HasSocket => ~socket
    /\ \A c, d \in Call : phase[c] \in HasSocket /\ phase[d] \in HasSocket => c = d

RuntimeInv ==
  handoffFips =>
    /\ runtime # NoSession => phase[runtime] \in HasNode
    /\ \A c \in Call : phase[c] \in HasNode => runtime = c

ActiveInv ==
  /\ active # NoSession => Connected(active)
  /\ \A c \in Call : Connected(c) => active # NoSession

(* A message that goes to a node goes to one that was started.             *)
SendInv ==
  /\ \A m \in Message : send[m].at \in {"holding", "queued", "ok"} => send[m].via # NoSession
  /\ handoffFips =>
       \A m \in Message : send[m].via # NoSession => phase[send[m].via] \in HasNode

DaemonInv == DaemonTypeOK(Line) /\ SocketInv /\ RuntimeInv /\ ActiveInv /\ SendInv

-----------------------------------------------------------------------------
(* The invariant of the pages.                                             *)

(* What a page may show that has read everything, without its peer being   *)
(* wrong about it for long.                                                *)
Current(session) ==
  \/ session = active
  \/ \E c \in Call : phase[c] = "emitting"
  \/ ~handoffFips /\ \E c, d \in Call : c # d /\ phase[c] = "returned" /\ phase[d] = "returned"

IsStatus(n) == emitted[n].event = "status"
NoStatusFrom(n) == \A i \in n .. Len(emitted) : ~IsStatus(i)

(* The last status that was told is current ...                            *)
LastStatusInv ==
  \A n \in 1 .. Len(emitted) :
    IsStatus(n) /\ NoStatusFrom(n + 1) => Current(emitted[n].session)

(* ... and so is the one a page shows, if there is no other it has not     *)
(* read.                                                                   *)
PageStatusInv ==
  \A p \in Page :
    page[p].at = "open" /\ NoStatusFrom(page[p].next) => Current(page[p].status)

PagePlaceInv ==
  \A p \in Page :
    /\ page[p].at \in {"opening", "open"} => page[p].next \in 1 .. Len(emitted) + 1
    /\ page[p].at = "open" =>
         /\ page[p].since \in 1 .. page[p].next
         /\ page[p].shown = Texts(SubSeq(emitted, page[p].since, page[p].next - 1))

PageInv == LastStatusInv /\ PageStatusInv /\ PagePlaceInv

ConsoleInv == TerminalInv /\ DaemonInv /\ PageInv

-----------------------------------------------------------------------------
(* The terminal.                                                           *)

LEMMA TerminalInitInv == TerminalInit => TerminalInv
<1> SUFFICES ASSUME TerminalInit PROVE TerminalInv
  OBVIOUS
<1> USE DEF TerminalInit
<1>1. TerminalTypeOK
  BY LineSlotsAssumption DEF TerminalTypeOK, Line
<1>2. ChannelInv
  BY DEF ChannelInv
<1>3. AskedInv
  <2>1. Taken = 0 /\ SubSeq(typed, 1, 0) = <<>>
    BY SubSeqEmpty DEF Taken
  <2> QED BY <2>1, WithoutEmpty DEF AskedInv, Text
<1>4. FailedInv /\ DoneInv
  BY DEF FailedInv, DoneInv
<1> QED BY <1>1, <1>2, <1>3, <1>4 DEF TerminalInv

(* What the loop has taken stays taken when a line is read.                *)
LEMMA ReadLineInv ==
  ASSUME TerminalInv, NEW l \in Line, ReadLine(l)
  PROVE  TerminalInv'
<1> USE DEF TerminalInv, TerminalTypeOK, ReadLine
<1>1. TerminalTypeOK'
  BY LineSlotsAssumption DEF Line
<1>2. ChannelInv'
  BY DEF ChannelInv, Taken
<1>3. AskedInv'
  <2>1. Taken' = Taken /\ Taken \in Nat /\ Taken <= Len(typed)
    BY DEF Taken, ChannelInv
  <2>2. SubSeq(typed', 1, Taken) = SubSeq(typed, 1, Taken)
    BY <2>1, PartOfAppend
  <2> QED BY <2>1, <2>2 DEF AskedInv, Text
<1>4. FailedInv' /\ DoneInv'
  BY DEF FailedInv, DoneInv, LoopEnded
<1> QED BY <1>1, <1>2, <1>3, <1>4

LEMMA AskedIsPrefix ==
  ASSUME TerminalInv, loop # "failed"
  PROVE  IsPrefix(Text(SubSeq(typed, 1, Taken)), Text(typed))
<1>1. typed \in Seq(Line) /\ Taken \in Nat /\ Taken <= Len(typed)
  BY DEF TerminalInv, TerminalTypeOK, ChannelInv, Taken
<1> QED BY <1>1, WithoutPrefix DEF Text

(* A line with text is now waited for; a line of white space adds nothing  *)
(* to what is to be sent.                                                  *)
LEMMA TakeLineInv ==
  ASSUME TerminalInv, TakeLine
  PROVE  TerminalInv'
<1> USE DEF TerminalInv, TerminalTypeOK, TakeLine
<1>1. TerminalTypeOK'
  BY LineSlotsAssumption DEF Line
<1>2. /\ Len(lines') = Len(lines) - 1 /\ Len(lines) >= 1
      /\ \A i \in 1 .. Len(lines') : lines'[i] = lines[i + 1]
  BY HeadTailProperties
<1>3. Taken \in Nat /\ Taken < Len(typed) /\ Taken' = Taken + 1
  BY <1>2 DEF Taken, ChannelInv
<1>4. line' = typed[Taken + 1]
  BY <1>2 DEF ChannelInv
<1>5. ChannelInv'
  <2>1. Len(lines') <= Len(typed')
    BY <1>2 DEF ChannelInv
  <2>2. ASSUME NEW i \in 1 .. Len(lines') PROVE lines'[i] = typed'[Taken' + i]
    <3>1. i + 1 \in 1 .. Len(lines) /\ Taken' + i = Taken + (i + 1)
      <4>1. Len(lines) \in Nat
        OBVIOUS
      <4> HIDE DEF TakeLine
      <4> QED BY <1>2, <1>3, <4>1
    <3>2. lines[i + 1] = typed[Taken + (i + 1)]
      BY <3>1 DEF ChannelInv
    <3> QED BY <1>2, <3>1, <3>2
  <2> QED BY <2>1, <2>2 DEF ChannelInv
<1>6. AskedInv'
  <2> SUFFICES ASSUME loop' # "failed"
               PROVE  Text(SubSeq(typed', 1, Taken'))
                        = IF loop' = "awaiting" THEN Append(asked', line') ELSE asked'
    BY DEF AskedInv
  <2>1. PICK u \in Seq(Line), l \in Line :
          u = SubSeq(typed, 1, Taken) /\ l = line' /\ SubSeq(typed, 1, Taken + 1) = Append(u, l)
    <3>1. /\ SubSeq(typed, 1, Taken) \in Seq(Line) /\ typed[Taken + 1] \in Line
          /\ SubSeq(typed, 1, Taken + 1) = Append(SubSeq(typed, 1, Taken), typed[Taken + 1])
      BY <1>3, PartAppend
    <3> QED BY <1>4, <3>1
  <2>2. SubSeq(typed', 1, Taken') = Append(u, line') /\ line' \in Line
    BY <1>3, <2>1
  <2>3. Text(Append(u, line')) = IF line' = Blank THEN Text(u) ELSE Append(Text(u), line')
    <3>1. Without(Append(u, l), {Blank}) =
            IF l \in {Blank} THEN Without(u, {Blank}) ELSE Append(Without(u, {Blank}), l)
      BY WithoutAppend
    <3> QED BY <2>1, <3>1 DEF Text
  <2>4. Text(u) = asked
    BY <2>1 DEF AskedInv
  <2> QED BY <2>2, <2>3, <2>4
<1>7. FailedInv'
  BY AskedIsPrefix DEF FailedInv, AskedInv
<1>8. DoneInv'
  BY DEF DoneInv
<1> QED BY <1>1, <1>5, <1>6, <1>7, <1>8

(* One line less than a beginning is a beginning.                          *)
LEMMA ShorterPrefix ==
  ASSUME NEW s \in Seq(Line), NEW e \in Line, NEW t \in Seq(Line), IsPrefix(Append(s, e), t)
  PROVE  IsPrefix(s, t)
<1>1. PICK u \in Seq(Line) : u = Append(s, e)
  <2>1. Append(s, e) \in Seq(Line)
    OBVIOUS
  <2> QED BY <2>1
<1>2. Len(u) <= Len(t) /\ \A i \in 1 .. Len(u) : u[i] = t[i]
  <2>1. IsPrefix(u, t)
    BY <1>1
  <2> QED BY <2>1, PrefixElements
<1>3. Len(s) <= Len(t) /\ \A i \in 1 .. Len(s) : s[i] = t[i]
  BY <1>1, <1>2
<1> QED BY <1>3, PrefixElements

LEMMA TextIsSeq == ASSUME NEW s \in Seq(Line) PROVE Text(s) \in Seq(Line)
BY WithoutIsSeq DEF Text

LEMMA ResponseDroppedInv ==
  ASSUME TerminalInv, ResponseDropped
  PROVE  TerminalInv'
<1> USE DEF TerminalInv, TerminalTypeOK, ResponseDropped
<1>1. TerminalTypeOK'
  OBVIOUS
<1>2. ChannelInv'
  BY DEF ChannelInv, Taken
<1>3. IsPrefix(Append(asked, line), Text(typed))
  BY AskedIsPrefix DEF AskedInv
<1>4. FailedInv'
  BY <1>3, ShorterPrefix, TextIsSeq DEF FailedInv
<1> QED BY <1>1, <1>2, <1>4 DEF AskedInv, DoneInv

LEMMA NodeTakesLineInv ==
  ASSUME TerminalInv, NodeTakesLine
  PROVE  TerminalInv'
<1> USE DEF TerminalInv, TerminalTypeOK, NodeTakesLine
<1>1. TerminalTypeOK'
  OBVIOUS
<1>2. ChannelInv'
  BY DEF ChannelInv, Taken
<1>3. AskedInv'
  BY DEF AskedInv, Taken
<1>4. FailedInv'
  BY AskedIsPrefix DEF FailedInv, AskedInv
<1> QED BY <1>1, <1>2, <1>3, <1>4 DEF DoneInv

LEMMA TerminalStepInv == TerminalInv /\ [TerminalNext]_terminalVars => TerminalInv'
<1> SUFFICES ASSUME TerminalInv, [TerminalNext]_terminalVars PROVE TerminalInv'
  OBVIOUS
<1> USE DEF TerminalInv, TerminalTypeOK
<1>1. ASSUME NEW l \in {Len(typed) + 1, Blank}, ReadLine(l) PROVE TerminalInv'
  <2>1. l \in Line
    BY DEF Line
  <2> QED BY <1>1, <2>1, ReadLineInv
<1>2. CASE ReaderEnds
  BY <1>2 DEF ReaderEnds, ChannelInv, Taken, AskedInv, FailedInv, DoneInv
<1>3. CASE TakeLine
  BY <1>3, TakeLineInv
<1>4. CASE ResponseDropped
  BY <1>4, ResponseDroppedInv
<1>5. CASE NoMoreLines
  BY <1>5 DEF NoMoreLines, ChannelInv, Taken, AskedInv, FailedInv, DoneInv
<1>6. CASE NodeTakesLine
  BY <1>6, NodeTakesLineInv
<1>7. CASE NodeEnds
  BY <1>7 DEF NodeEnds, ChannelInv, Taken, AskedInv, FailedInv, DoneInv
<1>8. CASE UNCHANGED terminalVars
  BY <1>8 DEF terminalVars, ChannelInv, Taken, AskedInv, FailedInv, DoneInv
<1> QED BY <1>1, <1>2, <1>3, <1>4, <1>5, <1>6, <1>7, <1>8 DEF TerminalNext, Loop

(* What was asked for is kept of a beginning of what was typed.             *)
LEMMA TerminalInvOrders == TerminalInv => LinesInOrder
<1> SUFFICES ASSUME TerminalInv PROVE LinesInOrder
  OBVIOUS
<1> USE DEF TerminalInv, TerminalTypeOK
<1>1. CASE loop = "failed"
  BY <1>1 DEF FailedInv, LinesInOrder
<1>2. CASE loop # "failed"
  <2>1. IsPrefix(asked, Text(typed))
    <3>1. CASE loop = "awaiting"
      <4>1. IsPrefix(Append(asked, line), Text(typed))
        BY <1>2, <3>1, AskedIsPrefix DEF AskedInv
      <4> QED BY <4>1, ShorterPrefix, TextIsSeq
    <3>2. CASE loop # "awaiting"
      BY <1>2, <3>2, AskedIsPrefix DEF AskedInv
    <3> QED BY <3>1, <3>2
  <2>2. ASSUME loop = "done" PROVE asked = Text(typed)
    <3>1. Taken = Len(typed)
      BY <2>2 DEF DoneInv, Taken
    <3>2. SubSeq(typed, 1, Taken) = typed
      BY <3>1, SubSeqFull
    <3> QED BY <2>2, <3>2 DEF AskedInv
  <2> QED BY <2>1, <2>2 DEF LinesInOrder
<1> QED BY <1>1, <1>2

-----------------------------------------------------------------------------
(* The daemon.                                                             *)

DaemonStep == DaemonNext \/ \E l \in Line : AcceptDatagram(l)

LEMMA DaemonInitInv == DaemonInit => DaemonInv /\ PageInv
<1> SUFFICES ASSUME DaemonInit PROVE DaemonInv /\ PageInv
  OBVIOUS
<1> USE DEF DaemonInit, Closed
<1>1. DaemonTypeOK(Line)
  <2>1. emitted \in Seq(Event(Line))
    OBVIOUS
  <2>2. page \in [Page -> PageState(Line)]
    BY DEF PageState
  <2>3. send \in [Message -> [at : {"idle", "holding", "queued", "ok", "failed"},
                              via : Call \union {NoSession}]]
    OBVIOUS
  <2> QED BY <2>1, <2>2, <2>3 DEF DaemonTypeOK, Phase
<1>2. SocketInv /\ RuntimeInv /\ ActiveInv /\ SendInv
  BY DEF SocketInv, RuntimeInv, ActiveInv, SendInv, HasNode, HasSocket, Connected
<1>3. PageInv
  BY DEF PageInv, LastStatusInv, PageStatusInv, PagePlaceInv
<1> QED BY <1>1, <1>2, <1>3 DEF DaemonInv

(* What each part of the daemon does to the state of the others.           *)
LEMMA StepParts ==
  ASSUME ConsoleTypeOK, [ConsoleNext]_consoleVars
  PROVE  [TerminalNext]_terminalVars /\ [DaemonStep]_daemonVars
<1>1. ASSUME NEW i \in DOMAIN asked PROVE asked[i] \in Line
  BY DEF ConsoleTypeOK, TerminalTypeOK
<1> QED BY <1>1 DEF ConsoleNext, consoleVars, DaemonStep, Deliver

(* Types, part by part.                                                    *)
LEMMA ConnectTypes ==
  ASSUME DaemonTypeOK(Line), NEW c \in Call, Connect(c), UNCHANGED handoffFips
  PROVE  DaemonTypeOK(Line)'
<1>1. ASSUME NEW s \in Call PROVE StatusOf(s) \in Event(Line)
  BY DEF StatusOf, Event
<1>2. emitted' \in Seq(Event(Line))
  <2> USE DEF DaemonTypeOK
  <2>1. CASE EmitStatus(c)
    BY <1>1, <2>1 DEF EmitStatus, Emit
  <2>2. CASE UNCHANGED emitted
    BY <2>2
  <2> QED BY <2>1, <2>2 DEF Connect, FindPath, ConnectFails, StopUdp, TakeSocket, StartNode, SetActive
<1>3. phase' \in [Call -> Phase]
  BY DEF DaemonTypeOK, Connect, FindPath, ConnectFails, StopUdp, TakeSocket, StartNode, SetActive,
         EmitStatus, Move, Phase
<1>4. /\ {runtime', active'} \subseteq Call \union {NoSession} /\ running' \subseteq Call
      /\ {receiving', socket'} \subseteq BOOLEAN
      /\ UNCHANGED <<send, page, handoffFips>>
  BY DEF DaemonTypeOK, Connect, FindPath, ConnectFails, StopUdp, TakeSocket, StartNode, SetActive,
         EmitStatus, udpVars
<1> QED BY <1>2, <1>3, <1>4 DEF DaemonTypeOK

LEMMA SendTypes ==
  ASSUME DaemonTypeOK(Line), Send, UNCHANGED handoffFips
  PROVE  DaemonTypeOK(Line)'
<1> DEFINE At == {"idle", "holding", "queued", "ok", "failed"}
           SendState == [at : At, via : Call \union {NoSession}]
<1>0. send \in [Message -> SendState] /\ runtime \in Call \union {NoSession}
  BY DEF DaemonTypeOK
<1>1. send' \in [Message -> SendState]
  <2>1. ASSUME NEW m \in Message, NEW at \in At, MoveSend(m, at) PROVE send' \in [Message -> SendState]
    BY <1>0, <2>1 DEF MoveSend
  <2>2. ASSUME NEW m \in Message, GetRuntime(m) PROVE send' \in [Message -> SendState]
    BY <1>0, <2>2 DEF GetRuntime
  <2>3. ASSUME NEW m \in Message, QueueMessage(m) \/ NodeTakesMessage(m)
        PROVE  send' \in [Message -> SendState]
    BY <2>1, <2>3 DEF QueueMessage, NodeTakesMessage
  <2>4. ASSUME NEW c \in Call, DaemonNodeEnds(c) PROVE send' \in [Message -> SendState]
    BY <1>0, <2>4 DEF DaemonNodeEnds
  <2> QED BY <2>2, <2>3, <2>4 DEF Send
<1>2. running' \subseteq Call
  BY DEF DaemonTypeOK, Send, GetRuntime, QueueMessage, NodeTakesMessage, DaemonNodeEnds
<1> QED BY <1>1, <1>2 DEF DaemonTypeOK, Send, udpVars

LEMMA EventsTypes ==
  ASSUME DaemonTypeOK(Line), Events, UNCHANGED handoffFips
  PROVE  DaemonTypeOK(Line)'
<1>0. page \in [Page -> PageState(Line)] /\ emitted \in Seq(Event(Line)) /\ active \in Call \union {NoSession}
  BY DEF DaemonTypeOK
<1>1. page' \in [Page -> PageState(Line)]
  <2>1. ASSUME NEW p \in Page, NEW q \in PageState(Line), page' = [page EXCEPT ![p] = q]
        PROVE  page' \in [Page -> PageState(Line)]
    BY <1>0, <2>1
  <2>2. ASSUME NEW p \in Page, OpenStream(p) PROVE page' \in [Page -> PageState(Line)]
    <3>1. CASE page' = [page EXCEPT ![p] = [at |-> "opening", next |-> Len(emitted) + 1]]
      <4>1. [at |-> "opening", next |-> Len(emitted) + 1] \in PageState(Line)
        BY <1>0 DEF PageState
      <4> QED BY <2>1, <3>1, <4>1
    <3>2. CASE page[p].at = "opening" /\ page' = [page EXCEPT ![p] = Opened(page[p].next, active)]
      <4>1. page[p].next \in Nat \ {0}
        BY <1>0, <3>2 DEF PageState, Closed
      <4>2. Opened(page[p].next, active) \in PageState(Line)
        <5>1. <<>> \in Seq(Line)
          OBVIOUS
        <5> QED BY <1>0, <4>1, <5>1 DEF PageState, Opened
      <4> QED BY <2>1, <3>2, <4>2
    <3> QED BY <2>2, <3>1, <3>2 DEF OpenStream
  <2>3. ASSUME NEW p \in Page, ReceiveEvent(p) PROVE page' \in [Page -> PageState(Line)]
    <3>1. page[p] \in [at : {"open"}, since : Nat \ {0}, next : Nat \ {0},
                       status : Call \union {NoSession}, shown : Seq(Line)]
      BY <1>0, <2>3 DEF ReceiveEvent, PageState, Closed
    <3>2. PICK e \in Event(Line) : e = emitted[page[p].next]
      <4>1. page[p].next \in 1 .. Len(emitted)
        BY <1>0, <2>3, <3>1 DEF ReceiveEvent, Unread
      <4> QED BY <1>0, <4>1
    <3>3. PICK q : q = [page[p] EXCEPT !.next = page[p].next + 1]
      OBVIOUS
    <3>4. q \in [at : {"open"}, since : Nat \ {0}, next : Nat \ {0},
                 status : Call \union {NoSession}, shown : Seq(Line)]
      BY <3>1, <3>3
    <3>5. page' = [page EXCEPT ![p] = IF e.event = "status" THEN [q EXCEPT !.status = e.session]
                                      ELSE [q EXCEPT !.shown = Append(@, e.text)]]
      BY <2>3, <3>2, <3>3 DEF ReceiveEvent, Shows
    <3>6. CASE e.event = "status"
      <4>1. e.session \in Call
        BY <3>6 DEF Event
      <4>2. [q EXCEPT !.status = e.session] \in PageState(Line)
        BY <3>4, <4>1 DEF PageState
      <4> QED BY <2>1, <3>5, <3>6, <4>2
    <3>7. CASE e.event # "status"
      <4>1. e.text \in Line
        BY <3>7 DEF Event
      <4>2. [q EXCEPT !.shown = Append(@, e.text)] \in PageState(Line)
        <5>1. Append(q.shown, e.text) \in Seq(Line)
          BY <3>4, <4>1
        <5> QED BY <3>4, <5>1 DEF PageState
      <4> QED BY <2>1, <3>5, <3>7, <4>2
    <3> QED BY <3>6, <3>7
  <2>4. ASSUME NEW p \in Page, StreamEnds(p) PROVE page' \in [Page -> PageState(Line)]
    BY <1>0, <2>4 DEF StreamEnds, PageState
  <2> QED BY <2>2, <2>3, <2>4 DEF Events
<1> QED BY <1>0, <1>1 DEF DaemonTypeOK, Events, udpVars

LEMMA DaemonTypes ==
  ASSUME DaemonTypeOK(Line), [DaemonStep]_daemonVars
  PROVE  DaemonTypeOK(Line)'
<1>1. ASSUME NEW c \in Call, Connect(c), UNCHANGED handoffFips PROVE DaemonTypeOK(Line)'
  BY <1>1, ConnectTypes
<1>2. ASSUME UdpEnds, UNCHANGED <<send, page, handoffFips>> PROVE DaemonTypeOK(Line)'
  BY <1>2 DEF DaemonTypeOK, UdpEnds
<1>3. ASSUME NEW l \in Line, AcceptDatagram(l) PROVE DaemonTypeOK(Line)'
  <2>1. MessageOf(l) \in Event(Line)
    BY DEF MessageOf, Event
  <2> QED BY <1>3, <2>1 DEF DaemonTypeOK, AcceptDatagram, Emit, udpVars
<1>4. CASE UNCHANGED daemonVars
  BY <1>4 DEF DaemonTypeOK, daemonVars, udpVars
<1> QED BY <1>1, <1>2, <1>3, <1>4, SendTypes, EventsTypes DEF DaemonStep, DaemonNext

(* A call of /api/connect.                                                 *)
LEMMA ConnectInv ==
  ASSUME DaemonInv, NEW c \in Call, Connect(c), UNCHANGED handoffFips
  PROVE  DaemonInv'
<1>1. DaemonTypeOK(Line)'
  BY ConnectTypes DEF DaemonInv
<1>2. phase \in [Call -> Phase] /\ send' = send
  BY DEF DaemonInv, DaemonTypeOK, Connect
<1> USE <1>2, NoSessionAssumption DEF DaemonInv, Move
<1> HIDE DEF Connect
<1>3. CASE FindPath(c) \/ ConnectFails(c) \/ StopUdp(c)
  <2>1. UNCHANGED <<socket, runtime, active, handoffFips>>
    BY <1>3 DEF FindPath, ConnectFails, StopUdp, udpVars
  <2>2. /\ \A d \in Call : phase'[d] \in HasSocket => phase[d] = phase'[d]
        /\ \A d \in Call : phase[d] \in HasNode => phase'[d] = phase[d]
    BY <1>3 DEF FindPath, ConnectFails, StopUdp, HasSocket, HasNode
  <2>3. \A d \in Call : phase'[d] \in HasNode <=> phase[d] \in HasNode
    BY <2>2 DEF HasSocket
  <2>4. \A d \in Call : Connected(d)' <=> Connected(d)
    BY <2>2 DEF Connected, HasNode, HasSocket
  <2>5. SocketInv'
    BY <2>1, <2>2 DEF SocketInv
  <2> QED BY <1>1, <2>1, <2>3, <2>4, <2>5 DEF RuntimeInv, ActiveInv, SendInv, DaemonTypeOK
<1>4. CASE TakeSocket(c)
  <2>1. UNCHANGED <<runtime, active, handoffFips>> /\ ~socket'
    BY <1>4 DEF TakeSocket, udpVars
  <2>2. \A d \in Call : phase'[d] \in HasNode <=> phase[d] \in HasNode
    BY <1>4 DEF TakeSocket, HasNode
  <2>3. \A d \in Call : Connected(d)' <=> Connected(d)
    BY <1>4 DEF TakeSocket, Connected
  <2>4. SocketInv'
    BY <1>4, <2>1 DEF TakeSocket, SocketInv, HasSocket, HasNode
  <2> QED BY <1>1, <2>1, <2>2, <2>3, <2>4 DEF RuntimeInv, ActiveInv, SendInv, DaemonTypeOK
<1>5. CASE StartNode(c)
  <2>1. UNCHANGED <<socket, active, handoffFips>> /\ runtime' = c
    BY <1>5 DEF StartNode, udpVars
  <2>2. /\ phase[c] = "starting" /\ phase'[c] = "spawned"
        /\ \A d \in Call : d # c => phase'[d] = phase[d]
    BY <1>5 DEF StartNode
  <2>3. \A d \in Call : Connected(d)' <=> Connected(d)
    BY <2>2 DEF Connected
  <2>4. SocketInv'
    BY <2>1, <2>2 DEF SocketInv, HasSocket, HasNode
  <2>5. handoffFips => \A d \in Call : phase'[d] \in HasNode => d = c
    BY <2>2 DEF SocketInv, HasSocket, HasNode
  <2>6. RuntimeInv'
    BY <2>1, <2>2, <2>5 DEF RuntimeInv, HasNode
  <2>7. SendInv'
    BY <2>1, <2>2 DEF SendInv, HasNode, DaemonTypeOK
  <2> QED BY <1>1, <2>1, <2>3, <2>4, <2>6, <2>7 DEF ActiveInv, DaemonTypeOK
<1>6. CASE SetActive(c)
  <2>1. UNCHANGED <<socket, runtime, handoffFips>> /\ active' = c
    BY <1>6 DEF SetActive, udpVars
  <2>2. /\ handoffFips => phase[c] = "spawned"
        /\ phase'[c] = "emitting" /\ \A d \in Call : d # c => phase'[d] = phase[d]
    BY <1>6 DEF SetActive
  <2>3. SocketInv' /\ RuntimeInv'
    BY <2>1, <2>2 DEF SocketInv, RuntimeInv, HasSocket, HasNode, DaemonTypeOK
  <2>4. ActiveInv'
    BY <2>1, <2>2 DEF ActiveInv, Connected
  <2>5. SendInv'
    BY <2>1, <2>2 DEF SendInv, HasNode, DaemonTypeOK
  <2> QED BY <1>1, <2>3, <2>4, <2>5
<1>7. CASE EmitStatus(c)
  <2>1. UNCHANGED <<socket, runtime, active, handoffFips>>
    BY <1>7 DEF EmitStatus, udpVars
  <2>2. /\ phase[c] = "emitting" /\ phase'[c] = "returned"
        /\ \A d \in Call : d # c => phase'[d] = phase[d]
    BY <1>7 DEF EmitStatus
  <2>3. \A d \in Call : Connected(d)' <=> Connected(d)
    BY <2>2 DEF Connected
  <2>4. SocketInv' /\ RuntimeInv'
    BY <2>1, <2>2 DEF SocketInv, RuntimeInv, HasSocket, HasNode, DaemonTypeOK
  <2>5. SendInv'
    BY <2>1, <2>2 DEF SendInv, HasNode, DaemonTypeOK
  <2> QED BY <1>1, <2>1, <2>3, <2>4, <2>5 DEF ActiveInv, DaemonTypeOK
<1> QED BY <1>3, <1>4, <1>5, <1>6, <1>7 DEF Connect

(* A message is queued for the runtime that was read.                      *)
LEMMA SendStepInv ==
  ASSUME DaemonInv, Send, UNCHANGED handoffFips
  PROVE  DaemonInv'
<1>1. DaemonTypeOK(Line)'
  BY SendTypes DEF DaemonInv
<1>2. UNCHANGED <<phase, socket, runtime, active>>
  BY DEF Send, udpVars
<1>3. SocketInv' /\ RuntimeInv' /\ ActiveInv'
  BY <1>2 DEF DaemonInv, SocketInv, RuntimeInv, ActiveInv, Connected
<1>4. \A m \in Message :
        \/ send'[m].via = runtime /\ (send'[m].at \in {"holding", "queued", "ok"} => runtime # NoSession)
        \/ /\ send'[m].via = send[m].via
           /\ send'[m].at \in {"holding", "queued", "ok"} => send[m].at \in {"holding", "queued", "ok"}
  <2> USE DEF DaemonInv, DaemonTypeOK
  <2>1. ASSUME NEW m \in Message, GetRuntime(m) PROVE <1>4!:
    BY <2>1 DEF GetRuntime
  <2>2. ASSUME NEW m \in Message, QueueMessage(m) PROVE <1>4!:
    BY <2>2 DEF QueueMessage, MoveSend
  <2>3. ASSUME NEW m \in Message, NodeTakesMessage(m) PROVE <1>4!:
    BY <2>3 DEF NodeTakesMessage, MoveSend
  <2>4. ASSUME NEW c \in Call, DaemonNodeEnds(c) PROVE <1>4!:
    BY <2>4 DEF DaemonNodeEnds
  <2> QED BY <2>1, <2>2, <2>3, <2>4 DEF Send
<1>5. SendInv'
  BY <1>2, <1>4 DEF DaemonInv, SendInv, RuntimeInv
<1> QED BY <1>1, <1>3, <1>5 DEF DaemonInv

LEMMA DaemonStepInv == DaemonInv /\ [DaemonStep]_daemonVars => DaemonInv'
<1> SUFFICES ASSUME DaemonInv, [DaemonStep]_daemonVars PROVE DaemonInv'
  OBVIOUS
<1>1. ASSUME NEW c \in Call, Connect(c), UNCHANGED handoffFips PROVE DaemonInv'
  BY <1>1, ConnectInv
<1>2. CASE Send /\ UNCHANGED handoffFips
  BY <1>2, SendStepInv
<1>3. CASE UNCHANGED <<handoffFips, phase, socket, runtime, active, send>>
  <2>1. DaemonTypeOK(Line)'
    BY DaemonTypes DEF DaemonInv
  <2> QED BY <1>3, <2>1
          DEF DaemonInv, SocketInv, RuntimeInv, ActiveInv, SendInv, Connected
<1>4. CASE UdpEnds /\ UNCHANGED <<send, page, handoffFips>>
  BY <1>3, <1>4 DEF UdpEnds
<1>5. CASE Events /\ UNCHANGED handoffFips
  BY <1>3, <1>5 DEF Events, udpVars
<1>6. ASSUME NEW l \in Line, AcceptDatagram(l) PROVE DaemonInv'
  BY <1>3, <1>6 DEF AcceptDatagram, udpVars
<1>7. CASE UNCHANGED daemonVars
  BY <1>3, <1>7 DEF daemonVars, udpVars
<1> QED BY <1>1, <1>2, <1>4, <1>5, <1>6, <1>7 DEF DaemonStep, DaemonNext

(* Only one call gets as far as the socket, so that its node is the only one. *)
LEMMA DaemonInvSends == DaemonInv => MessagesGoToActive
<1> SUFFICES ASSUME DaemonInv, handoffFips PROVE MessagesGoToActive
  BY DEF MessagesGoToActive
<1>1. \A c \in Call : Connected(c) => phase[c] \in HasNode /\ phase[c] \in HasSocket
  BY DEF Connected, HasNode, HasSocket
<1>2. \A c \in Call : Connected(c) => active = c /\ runtime = c
  BY <1>1 DEF DaemonInv, DaemonTypeOK, SocketInv, RuntimeInv, ActiveInv
<1>3. ASSUME NEW m \in Message, send[m].at \in {"queued", "ok"}, active # NoSession
      PROVE  active = send[m].via
  <2>1. send[m].via \in Call /\ phase[send[m].via] \in HasSocket
    BY <1>3 DEF DaemonInv, DaemonTypeOK, SendInv, HasSocket
  <2>2. active \in Call /\ phase[active] \in HasSocket
    BY <1>1, <1>3 DEF DaemonInv, DaemonTypeOK, ActiveInv
  <2> QED BY <2>1, <2>2 DEF DaemonInv, SocketInv
<1> QED BY <1>2, <1>3 DEF MessagesGoToActive

-----------------------------------------------------------------------------
(* The pages.                                                              *)

(* What the pages are shown of the events.                                 *)
LEMMA TextsEmpty == Texts(<<>>) = <<>>
BY WithoutEmpty DEF Texts

LEMMA TextsStatus ==
  ASSUME NEW es \in Seq(Event(Line)), NEW c \in Call
  PROVE  Texts(Append(es, StatusOf(c))) = Texts(es)
<1>1. StatusOf(c) \in Event(Line)
  BY DEF StatusOf, Event
<1>2. Without(Append(es, StatusOf(c)), {StatusOf(d) : d \in Call}) = Without(es, {StatusOf(d) : d \in Call})
  BY <1>1, WithoutAppend
<1> QED BY <1>2 DEF Texts

LEMMA TextsMessage ==
  ASSUME NEW es \in Seq(Event(Line)), NEW l \in Line
  PROVE  Texts(Append(es, MessageOf(l))) = Append(Texts(es), l)
<1> DEFINE T == {StatusOf(d) : d \in Call}
           Of(ms) == [i \in DOMAIN ms |-> ms[i].text]
<1>1. PICK e \in Event(Line) : e = MessageOf(l)
  BY DEF MessageOf, Event
<1>2. e \notin T /\ e.text = l
  BY <1>1 DEF MessageOf, StatusOf
<1>3. PICK ms \in Seq(Event(Line)) : ms = Without(es, T)
  BY WithoutIsSeq
<1>4. Without(Append(es, e), T) = Append(ms, e)
  <2> HIDE DEF T
  <2> QED BY <1>2, <1>3, WithoutAppend
<1>5. PICK ns \in Seq(Event(Line)) : ns = Append(ms, e)
  <2>1. Append(ms, e) \in Seq(Event(Line))
    OBVIOUS
  <2> QED BY <2>1, Zenon
<1>6. Len(ns) = Len(ms) + 1 /\ ns[Len(ms) + 1] = e /\ \A i \in 1 .. Len(ms) : ns[i] = ms[i]
  BY <1>5
<1> DEFINE V == {ms[i].text : i \in DOMAIN ms} \union {l}
<1>7. PICK u \in Seq(V) : u = Of(ms)
  <2>1. Of(ms) \in Seq(V)
    <3> DEFINE W == V
    <3>1. \A i \in 1 .. Len(ms) : ms[i].text \in W
      OBVIOUS
    <3>2. Len(ms) \in Nat /\ DOMAIN ms = 1 .. Len(ms)
      OBVIOUS
    <3> HIDE DEF W
    <3>3. Of(ms) \in Seq(W)
      BY <3>1, <3>2
    <3> QED BY <3>3 DEF W
  <2> QED BY <2>1, Zenon
<1>8. PICK v \in Seq(V) : v = Of(ns)
  <2>1. \A i \in 1 .. Len(ns) : ns[i].text \in V
    BY <1>2, <1>6
  <2>2. Of(ns) \in Seq(V)
    <3> HIDE DEF V
    <3>1. Len(ns) \in Nat /\ DOMAIN ns = 1 .. Len(ns)
      OBVIOUS
    <3> QED BY <2>1, <3>1
  <2> QED BY <2>2, Zenon
<1>9. v = Append(u, l)
  <2>1. l \in V /\ Len(u) = Len(ms) /\ Len(v) = Len(ms) + 1
    BY <1>6, <1>7, <1>8
  <2>2. \A i \in 1 .. Len(ms) : u[i] = v[i]
    BY <1>6, <1>7, <1>8
  <2>3. v[Len(ms) + 1] = l
    BY <1>2, <1>6, <1>8
  <2> HIDE DEF V
  <2>4. PICK w \in Seq(V) : w = Append(u, l)
    <3>1. Append(u, l) \in Seq(V)
      BY <2>1
    <3> QED BY <3>1, Zenon
  <2>5. Len(w) = Len(u) + 1 /\ w[Len(u) + 1] = l /\ \A i \in 1 .. Len(u) : w[i] = u[i]
    BY <2>1, <2>4
  <2>6. Len(v) = Len(w)
    BY <2>1, <2>5
  <2>7. ASSUME NEW i \in 1 .. Len(v) PROVE v[i] = w[i]
    <3>1. Len(ms) \in Nat
      OBVIOUS
    <3>2. CASE i = Len(ms) + 1
      BY <2>1, <2>3, <2>5, <3>2
    <3>3. CASE i # Len(ms) + 1
      <4>1. i \in 1 .. Len(ms)
        BY <2>1, <3>1, <3>3
      <4> QED BY <2>1, <2>2, <2>5, <4>1
    <3> QED BY <3>2, <3>3
  <2> QED BY <2>4, <2>6, <2>7, SeqEqual
<1>10. Texts(es) = u /\ Texts(Append(es, e)) = v
  BY <1>3, <1>4, <1>5, <1>7, <1>8 DEF Texts
<1> QED BY <1>1, <1>9, <1>10

(* What has been told stays current, until a call returns.                 *)
LEMMA CurrentKept ==
  ASSUME UNCHANGED <<active, handoffFips>>,
         \A c \in Call : Connected(c) => phase'[c] = phase[c],
         NEW s, Current(s)
  PROVE  Current(s)'
BY DEF Current, Connected

(* Steps that tell the pages nothing.                                      *)
LEMMA PageKept ==
  ASSUME DaemonInv, PageInv, UNCHANGED <<emitted, page>>,
         \A s : Current(s) => Current(s)'
  PROVE  PageInv'
<1>1. PagePlaceInv'
  BY DEF PageInv, PagePlaceInv
<1>2. LastStatusInv'
  <2> SUFFICES ASSUME NEW n \in 1 .. Len(emitted), IsStatus(n), NoStatusFrom(n + 1)
               PROVE  Current(emitted[n].session)'
    BY DEF LastStatusInv, IsStatus, NoStatusFrom
  <2>1. PICK s : s = emitted[n].session
    OBVIOUS
  <2>2. Current(s)
    BY <2>1 DEF PageInv, LastStatusInv
  <2>3. Current(s)'
    BY <2>2
  <2> QED BY <2>1, <2>3 DEF Current
<1>3. PageStatusInv'
  <2> SUFFICES ASSUME NEW p \in Page, page[p].at = "open", NoStatusFrom(page[p].next)
               PROVE  Current(page[p].status)'
    BY DEF PageStatusInv, IsStatus, NoStatusFrom
  <2>1. PICK s : s = page[p].status
    OBVIOUS
  <2>2. Current(s)
    BY <2>1 DEF PageInv, PageStatusInv
  <2>3. Current(s)'
    BY <2>2
  <2> QED BY <2>1, <2>3 DEF Current
<1> QED BY <1>1, <1>2, <1>3 DEF PageInv

(* An event does not disturb what a page has read.                         *)
LEMMA EmitPlace ==
  ASSUME DaemonInv, PageInv, NEW e \in Event(Line), Emit(e), UNCHANGED page
  PROVE  PagePlaceInv'
<1>0. emitted \in Seq(Event(Line)) /\ page \in [Page -> PageState(Line)]
  BY DEF DaemonInv, DaemonTypeOK
<1>1. emitted' = Append(emitted, e) /\ Len(emitted') = Len(emitted) + 1 /\ Len(emitted) \in Nat
  BY <1>0 DEF Emit
<1> SUFFICES ASSUME NEW p \in Page
             PROVE  /\ page[p].at \in {"opening", "open"} => page[p].next \in 1 .. Len(emitted') + 1
                    /\ page[p].at = "open" =>
                         /\ page[p].since \in 1 .. page[p].next
                         /\ page[p].shown = Texts(SubSeq(emitted', page[p].since, page[p].next - 1))
  BY DEF PagePlaceInv, Texts
<1>2. page[p].at \in {"opening", "open"} => page[p].next \in 1 .. Len(emitted') + 1
  BY <1>1 DEF PageInv, PagePlaceInv
<1>3. CASE page[p].at = "open"
  <2>1. /\ page[p].next \in 1 .. Len(emitted) + 1 /\ page[p].since \in 1 .. page[p].next
        /\ page[p].shown = Texts(SubSeq(emitted, page[p].since, page[p].next - 1))
    BY <1>3 DEF PageInv, PagePlaceInv
  <2>2. PICK m \in Nat \ {0}, n \in Nat : m = page[p].since /\ n = page[p].next - 1 /\ n <= Len(emitted)
    BY <1>1, <2>1
  <2>3. SubSeq(emitted', m, n) = SubSeq(emitted, m, n)
    <3>1. SubSeq(Append(emitted, e), m, n) = SubSeq(emitted, m, n)
      <4>1. emitted \in Seq(Event(Line)) /\ m \in Nat \ {0} /\ n \in Nat /\ n <= Len(emitted)
        BY <1>0, <2>2
      <4> QED BY <4>1, PartOfAppend, Zenon
    <3> QED BY <1>1, <3>1
  <2> QED BY <1>2, <2>1, <2>2, <2>3
<1> QED BY <1>2, <1>3

(* A datagram, which is no status.                                         *)
LEMMA DatagramPageInv ==
  ASSUME DaemonInv, PageInv, NEW l \in Line, AcceptDatagram(l)
  PROVE  PageInv'
<1>0. emitted \in Seq(Event(Line)) /\ Len(emitted) \in Nat
  BY DEF DaemonInv, DaemonTypeOK
<1>1. PICK e \in Event(Line) : e = MessageOf(l)
  BY DEF MessageOf, Event
<1>2. e.event = "message" /\ Emit(e) /\ UNCHANGED <<handoffFips, phase, active, page>>
  BY <1>1 DEF AcceptDatagram, MessageOf, udpVars
<1>3. /\ Len(emitted') = Len(emitted) + 1 /\ emitted'[Len(emitted) + 1] = e
      /\ \A i \in 1 .. Len(emitted) : emitted'[i] = emitted[i]
  BY <1>0, <1>2 DEF Emit
<1>4. PagePlaceInv'
  BY <1>2, EmitPlace
<1>5. \A s : Current(s) => Current(s)'
  BY <1>2, CurrentKept
<1>6. ASSUME NEW n \in Nat \ {0}, NoStatusFrom(n)' PROVE NoStatusFrom(n)
  BY <1>0, <1>3, <1>6 DEF NoStatusFrom, IsStatus
<1>7. LastStatusInv'
  <2> SUFFICES ASSUME NEW n \in 1 .. Len(emitted'), IsStatus(n)', NoStatusFrom(n + 1)'
               PROVE  Current(emitted[n].session)'
    BY DEF LastStatusInv
  <2>1. n \in 1 .. Len(emitted)
    BY <1>0, <1>2, <1>3 DEF IsStatus
  <2>2. IsStatus(n) /\ NoStatusFrom(n + 1)
    BY <1>3, <1>6, <2>1 DEF IsStatus
  <2>3. PICK s : s = emitted[n].session
    OBVIOUS
  <2>4. Current(s)
    BY <2>1, <2>2, <2>3 DEF PageInv, LastStatusInv
  <2>5. Current(s)'
    BY <1>5, <2>4
  <2> QED BY <1>3, <2>1, <2>3, <2>5 DEF Current
<1>8. PageStatusInv'
  <2> SUFFICES ASSUME NEW p \in Page, page[p].at = "open", NoStatusFrom(page[p].next)'
               PROVE  Current(page[p].status)'
    BY <1>2 DEF PageStatusInv
  <2>1. page[p].next \in Nat \ {0}
    BY DEF PageInv, PagePlaceInv
  <2>2. NoStatusFrom(page[p].next)
    BY <1>0, <1>2, <1>3, <2>1 DEF NoStatusFrom, IsStatus
  <2>3. PICK s : s = page[p].status
    OBVIOUS
  <2>4. Current(s)
    BY <2>2, <2>3 DEF PageInv, PageStatusInv
  <2>5. Current(s)'
    BY <1>5, <2>4
  <2> QED BY <1>2, <2>3, <2>5 DEF Current
<1> QED BY <1>4, <1>7, <1>8 DEF PageInv

(* A call that tells its session is the active one, unless another call    *)
(* has come between.                                                       *)
LEMMA EmitStatusPageInv ==
  ASSUME DaemonInv, DaemonInv', PageInv, NEW c \in Call, EmitStatus(c), UNCHANGED <<page, handoffFips>>
  PROVE  PageInv'
<1>0. emitted \in Seq(Event(Line)) /\ Len(emitted) \in Nat
  BY DEF DaemonInv, DaemonTypeOK
<1>1. PICK e \in Event(Line) : e = StatusOf(c)
  BY DEF StatusOf, Event
<1>2. e.event = "status" /\ e.session = c /\ Emit(e) /\ UNCHANGED active
  BY <1>1 DEF EmitStatus, StatusOf
<1>3. /\ Len(emitted') = Len(emitted) + 1 /\ emitted'[Len(emitted) + 1] = e
  BY <1>0, <1>2 DEF Emit
<1>4. PagePlaceInv'
  BY <1>2, EmitPlace
<1>5. phase'[c] = "returned"
  BY DEF EmitStatus, Move, DaemonInv, DaemonTypeOK
<1>6. Current(c)'
  <2>1. active' \in Call /\ Connected(active)' /\ Connected(c)'
    BY <1>5 DEF DaemonInv, DaemonTypeOK, ActiveInv, Connected
  <2>2. CASE handoffFips
    <3>1. handoffFips' /\ phase'[c] \in HasSocket /\ phase'[active'] \in HasSocket
      BY <2>1, <2>2 DEF Connected, HasSocket, HasNode
    <3>2. active' = c
      BY <2>1, <3>1 DEF DaemonInv, SocketInv
    <3> QED BY <3>2 DEF Current
  <2>3. CASE ~handoffFips
    BY <1>5, <2>1, <2>3 DEF Current, Connected
  <2> QED BY <2>2, <2>3
<1>7. ASSUME NEW n \in 1 .. Len(emitted) + 1 PROVE ~NoStatusFrom(n)'
  BY <1>0, <1>2, <1>3 DEF NoStatusFrom, IsStatus
<1>8. LastStatusInv'
  <2> SUFFICES ASSUME NEW n \in 1 .. Len(emitted'), NoStatusFrom(n + 1)'
               PROVE  Current(emitted[n].session)'
    BY DEF LastStatusInv
  <2>1. n = Len(emitted) + 1
    BY <1>0, <1>3, <1>7
  <2> QED BY <1>2, <1>3, <1>6, <2>1 DEF Current
<1>9. PageStatusInv'
  <2> SUFFICES ASSUME NEW p \in Page, page[p].at = "open" PROVE ~NoStatusFrom(page[p].next)'
    BY DEF PageStatusInv
  <2>1. page[p].next \in 1 .. Len(emitted) + 1
    BY DEF PageInv, PagePlaceInv
  <2> QED BY <1>0, <1>2, <1>3, <2>1 DEF NoStatusFrom, IsStatus
<1> QED BY <1>4, <1>8, <1>9 DEF PageInv

LEMMA ConnectPageInv ==
  ASSUME DaemonInv, DaemonInv', PageInv, NEW c \in Call, Connect(c), UNCHANGED handoffFips
  PROVE  PageInv'
<1>0. phase \in [Call -> Phase] /\ UNCHANGED page
  BY DEF DaemonInv, DaemonTypeOK, Connect
<1>1. CASE FindPath(c) \/ ConnectFails(c) \/ StopUdp(c) \/ TakeSocket(c) \/ StartNode(c)
  <2>1. UNCHANGED <<emitted, active>>
    BY <1>1 DEF FindPath, ConnectFails, StopUdp, TakeSocket, StartNode
  <2>2. \A d \in Call : Connected(d) => phase'[d] = phase[d]
    BY <1>0, <1>1 DEF FindPath, ConnectFails, StopUdp, TakeSocket, StartNode, Move, Connected
  <2>3. \A s : Current(s) => Current(s)'
    BY <2>1, <2>2, CurrentKept
  <2> QED BY <1>0, <2>1, <2>3, PageKept
<1>2. CASE SetActive(c)
  <2>1. phase'[c] = "emitting" /\ UNCHANGED emitted
    BY <1>0, <1>2 DEF SetActive, Move
  <2>2. \A s : Current(s)'
    BY <2>1 DEF Current
  <2> QED BY <1>0, <2>1, <2>2, PageKept
<1>3. CASE EmitStatus(c)
  BY <1>0, <1>3, EmitStatusPageInv
<1> QED BY <1>1, <1>2, <1>3 DEF Connect

(* The step of a page.                                                     *)
PageHolds(q) ==
  /\ q.at \in {"opening", "open"} => q.next \in 1 .. Len(emitted) + 1
  /\ q.at = "open" =>
       /\ q.since \in 1 .. q.next
       /\ q.shown = Texts(SubSeq(emitted, q.since, q.next - 1))
       /\ NoStatusFrom(q.next) => Current(q.status)

LEMMA PageHoldsInv == PagePlaceInv /\ PageStatusInv <=> \A p \in Page : PageHolds(page[p])
BY DEF PagePlaceInv, PageStatusInv, PageHolds

(* A page that reads one event more.                                       *)
LEMMA ReceivePageHolds ==
  ASSUME DaemonInv, PageInv, NEW p \in Page, ReceiveEvent(p)
  PROVE  \E q : PageHolds(q) /\ page' = [page EXCEPT ![p] = q]
<1>0. emitted \in Seq(Event(Line)) /\ Len(emitted) \in Nat
  BY DEF DaemonInv, DaemonTypeOK
<1>1. page[p].at = "open"
  BY DEF ReceiveEvent
<1>2. page[p] \in [at : {"open"}, since : Nat \ {0}, next : Nat \ {0},
                   status : Call \union {NoSession}, shown : Seq(Line)]
  BY <1>1 DEF DaemonInv, DaemonTypeOK, PageState, Closed
<1>3. PICK n \in Nat, m \in Nat \ {0} :
        n = page[p].next /\ m = page[p].since /\ m <= n /\ n >= 1 /\ n <= Len(emitted)
  BY <1>0, <1>1, <1>2 DEF ReceiveEvent, Unread, PageInv, PagePlaceInv
<1>4. PICK es \in Seq(Event(Line)), e \in Event(Line) :
        es = SubSeq(emitted, m, n - 1) /\ e = emitted[n] /\ SubSeq(emitted, m, n) = Append(es, e)
  <2>1. n - 1 \in Nat /\ m <= (n - 1) + 1 /\ n - 1 < Len(emitted) /\ (n - 1) + 1 = n
    BY <1>0, <1>3
  <2>2. /\ SubSeq(emitted, m, n - 1) \in Seq(Event(Line)) /\ emitted[(n - 1) + 1] \in Event(Line)
        /\ SubSeq(emitted, m, (n - 1) + 1) = Append(SubSeq(emitted, m, n - 1), emitted[(n - 1) + 1])
    BY <1>0, <2>1, PartAppend
  <2> QED BY <2>1, <2>2
<1>5. page[p].shown = Texts(es)
  BY <1>1, <1>3, <1>4 DEF PageInv, PagePlaceInv
<1>6. PICK q : q = [page[p] EXCEPT !.next = n + 1]
  OBVIOUS
<1>7. page' = [page EXCEPT ![p] = IF e.event = "status" THEN [q EXCEPT !.status = e.session]
                                  ELSE [q EXCEPT !.shown = Append(@, e.text)]]
  BY <1>3, <1>4, <1>6 DEF ReceiveEvent, Shows
<1>8. CASE e.event = "status"
  <2>1. PICK r : r = [q EXCEPT !.status = e.session]
    OBVIOUS
  <2>2. /\ r.at = "open" /\ r.since = m /\ r.next = n + 1 /\ r.status = e.session
        /\ r.shown = Texts(es)
    BY <1>2, <1>3, <1>5, <1>6, <2>1
  <2>3. PICK c \in Call : e = StatusOf(c)
    BY <1>8 DEF Event, StatusOf
  <2>4. Texts(Append(es, e)) = Texts(es)
    BY <2>3, TextsStatus
  <2>5. r.shown = Texts(SubSeq(emitted, r.since, r.next - 1))
    <3>1. r.next - 1 = n
      BY <2>2
    <3> QED BY <1>4, <2>2, <2>4, <3>1
  <2>6. NoStatusFrom(n + 1) => Current(e.session)
    <3>1. n \in 1 .. Len(emitted)
      BY <1>0, <1>3
    <3> QED BY <1>4, <1>8, <3>1 DEF PageInv, LastStatusInv, IsStatus
  <2>7. PageHolds(r)
    BY <1>0, <1>3, <2>2, <2>5, <2>6 DEF PageHolds
  <2> QED BY <1>7, <1>8, <2>1, <2>7
<1>9. CASE e.event # "status"
  <2>1. PICK l \in Line : e = MessageOf(l) /\ e.text = l
    BY <1>9 DEF Event, MessageOf
  <2>2. PICK r : r = [q EXCEPT !.shown = Append(@, e.text)]
    OBVIOUS
  <2>3. /\ r.at = "open" /\ r.since = m /\ r.next = n + 1 /\ r.status = page[p].status
        /\ r.shown = Append(page[p].shown, e.text)
    BY <1>2, <1>3, <1>6, <2>2
  <2>4. Texts(Append(es, MessageOf(l))) = Append(Texts(es), l)
    BY TextsMessage
  <2>5. r.shown = Texts(SubSeq(emitted, r.since, r.next - 1))
    <3>1. r.next - 1 = n
      BY <2>3
    <3> QED BY <1>4, <1>5, <2>1, <2>3, <2>4, <3>1
  <2>6. NoStatusFrom(n + 1) => NoStatusFrom(n)
    BY <1>0, <1>3, <1>4, <1>9 DEF NoStatusFrom, IsStatus
  <2>7. NoStatusFrom(n + 1) => Current(page[p].status)
    BY <1>1, <1>3, <2>6 DEF PageInv, PageStatusInv
  <2>8. PageHolds(r)
    BY <1>0, <1>3, <2>3, <2>5, <2>7 DEF PageHolds
  <2> QED BY <1>7, <1>9, <2>2, <2>8
<1> QED BY <1>8, <1>9

(* A stream that opens has the state that was read after it subscribed.     *)
LEMMA EventsPageInv ==
  ASSUME DaemonInv, PageInv, Events, UNCHANGED handoffFips
  PROVE  PageInv'
<1>0. emitted \in Seq(Event(Line)) /\ Len(emitted) \in Nat /\ page \in [Page -> PageState(Line)]
  BY DEF DaemonInv, DaemonTypeOK
<1>1. UNCHANGED <<emitted, phase, active>>
  BY DEF Events
<1>2. LastStatusInv'
  BY <1>1 DEF PageInv, LastStatusInv, IsStatus, NoStatusFrom, Current
<1>3. PICK p \in Page : OpenStream(p) \/ ReceiveEvent(p) \/ StreamEnds(p)
  BY DEF Events
<1>4. PICK q : PageHolds(q) /\ page' = [page EXCEPT ![p] = q]
  <2>1. CASE page' = [page EXCEPT ![p] = [at |-> "opening", next |-> Len(emitted) + 1]]
    <3>1. PageHolds([at |-> "opening", next |-> Len(emitted) + 1])
      BY <1>0 DEF PageHolds
    <3> QED BY <2>1, <3>1
  <2>2. CASE page[p].at = "opening" /\ page' = [page EXCEPT ![p] = Opened(page[p].next, active)]
    <3>1. PICK n \in Nat \ {0} : n = page[p].next /\ n <= Len(emitted) + 1
      BY <1>0, <2>2 DEF PageInv, PagePlaceInv
    <3>2. SubSeq(emitted, n, n - 1) = <<>>
      <4>1. \A i \in n .. n - 1 : emitted[i] \in Event(Line)
        BY <3>1
      <4>2. SubSeq(emitted, n, n - 1) \in Seq(Event(Line)) /\ Len(SubSeq(emitted, n, n - 1)) = 0
        BY <4>1, <3>1, SubSeqProperties
      <4> QED BY <4>2
    <3>3. PageHolds(Opened(n, active))
      <4>1. PICK q : q = Opened(n, active)
        OBVIOUS
      <4>2. /\ q.at = "open" /\ q.since = n /\ q.next = n /\ q.status = active
            /\ q.shown = <<>>
        BY <4>1 DEF Opened
      <4>3. SubSeq(emitted, q.since, q.next - 1) = <<>>
        BY <3>2, <4>2
      <4>4. q.shown = Texts(SubSeq(emitted, q.since, q.next - 1))
        BY <4>2, <4>3, TextsEmpty
      <4> QED BY <1>0, <3>1, <4>1, <4>2, <4>4 DEF PageHolds, Current
    <3> QED BY <2>2, <3>1, <3>3
  <2>3. CASE ReceiveEvent(p)
    BY <2>3, ReceivePageHolds
  <2>4. CASE StreamEnds(p)
    <3>1. PageHolds(Closed)
      BY DEF PageHolds, Closed
    <3> QED BY <2>4, <3>1 DEF StreamEnds
  <2> QED BY <1>3, <2>1, <2>2, <2>3, <2>4 DEF OpenStream
<1>5. \A r \in Page : PageHolds(page'[r])
  BY <1>0, <1>4, PageHoldsInv DEF PageInv
<1>6. \A r \in Page : PageHolds(page[r])'
  BY <1>1, <1>5 DEF PageHolds, NoStatusFrom, IsStatus, Current
<1>7. (PagePlaceInv /\ PageStatusInv)'
  BY <1>6, PageHoldsInv DEF PagePlaceInv, PageStatusInv, PageHolds
<1> QED BY <1>2, <1>7 DEF PageInv

LEMMA PageStepInv == DaemonInv /\ PageInv /\ [DaemonStep]_daemonVars => PageInv'
<1> SUFFICES ASSUME DaemonInv, PageInv, [DaemonStep]_daemonVars PROVE PageInv'
  OBVIOUS
<1>0. DaemonInv'
  BY DaemonStepInv
<1>1. ASSUME NEW c \in Call, Connect(c), UNCHANGED handoffFips PROVE PageInv'
  BY <1>0, <1>1, ConnectPageInv
<1>2. CASE UNCHANGED <<handoffFips, phase, active, emitted, page>>
  <2>1. \A s : Current(s) => Current(s)'
    BY <1>2, CurrentKept
  <2> QED BY <1>2, <2>1, PageKept
<1>3. CASE UdpEnds /\ UNCHANGED <<send, page, handoffFips>>
  BY <1>2, <1>3 DEF UdpEnds
<1>4. CASE Send /\ UNCHANGED handoffFips
  BY <1>2, <1>4 DEF Send
<1>5. CASE Events /\ UNCHANGED handoffFips
  BY <1>5, EventsPageInv
<1>6. ASSUME NEW l \in Line, AcceptDatagram(l) PROVE PageInv'
  BY <1>6, DatagramPageInv
<1>7. CASE UNCHANGED daemonVars
  BY <1>2, <1>7 DEF daemonVars
<1> QED BY <1>1, <1>3, <1>4, <1>5, <1>6, <1>7 DEF DaemonStep, DaemonNext

(* A page with nothing to read has the last status, or none was told.       *)
LEMMA PageInvShows == DaemonInv /\ PageInv => PageShowsActive
<1> SUFFICES ASSUME DaemonInv, PageInv, NEW p \in Page, page[p].at = "open"
             PROVE  /\ page[p].shown = Texts(SubSeq(emitted, page[p].since, page[p].next - 1))
                    /\ \/ Unread(p) > 0
                       \/ Current(page[p].status)
  BY DEF PageShowsActive, Current
<1>1. page[p].shown = Texts(SubSeq(emitted, page[p].since, page[p].next - 1))
  BY DEF PageInv, PagePlaceInv
<1>2. ASSUME ~(Unread(p) > 0) PROVE Current(page[p].status)
  <2>1. page[p].next \in 1 .. Len(emitted) + 1 /\ Len(emitted) \in Nat
    BY DEF PageInv, PagePlaceInv, DaemonInv, DaemonTypeOK
  <2>2. NoStatusFrom(page[p].next)
    BY <1>2, <2>1 DEF Unread, NoStatusFrom
  <2> QED BY <2>2 DEF PageInv, PageStatusInv
<1> QED BY <1>1, <1>2

-----------------------------------------------------------------------------
(* The theorems.                                                           *)

(* The invariants of the terminal, of the daemon and of the pages hold in  *)
(* every state: no step of one part disturbs another's.                    *)
THEOREM ConsoleInductive == ConsoleSpec => []ConsoleInv
<1>1. ConsoleInit => ConsoleInv
  BY TerminalInitInv, DaemonInitInv DEF ConsoleInit, ConsoleInv
<1>2. ConsoleInv /\ [ConsoleNext]_consoleVars => ConsoleInv'
  <2> SUFFICES ASSUME ConsoleInv, [ConsoleNext]_consoleVars PROVE ConsoleInv'
    OBVIOUS
  <2>1. ConsoleTypeOK
    BY DEF ConsoleInv, TerminalInv, DaemonInv, ConsoleTypeOK
  <2>2. [TerminalNext]_terminalVars /\ [DaemonStep]_daemonVars
    BY <2>1, StepParts
  <2> QED BY <2>2, TerminalStepInv, DaemonStepInv, PageStepInv DEF ConsoleInv
<1> QED BY <1>1, <1>2, PTL DEF ConsoleSpec

(* Every variable of terminal and daemon keeps its type.                   *)
THEOREM ConsoleTypeCorrect == ConsoleSpec => []ConsoleTypeOK
<1>1. ConsoleInv => ConsoleTypeOK
  BY DEF ConsoleInv, TerminalInv, DaemonInv, ConsoleTypeOK
<1> QED BY <1>1, ConsoleInductive, PTL

(* The node is asked to send the lines with text, all and in order, as     *)
(* far as they were read, for any lines and a channel of any capacity.     *)
THEOREM Ordered == ConsoleSpec => []LinesInOrder
<1>1. ConsoleInv => LinesInOrder
  BY TerminalInvOrders DEF ConsoleInv
<1> QED BY <1>1, ConsoleInductive, PTL

(* With --handoff-fips, a message goes to the peer that is called active,  *)
(* however many calls of /api/connect run at once.                         *)
THEOREM SentToActive == ConsoleSpec => []MessagesGoToActive
<1>1. ConsoleInv => MessagesGoToActive
  BY DaemonInvSends DEF ConsoleInv
<1> QED BY <1>1, ConsoleInductive, PTL

(* A page that has read its stream to the end shows the active session     *)
(* and all messages since it opened, however calls, datagrams and pages    *)
(* interleave, and whatever the channel holds.                             *)
THEOREM Shown == ConsoleSpec => []PageShowsActive
<1>1. ConsoleInv => PageShowsActive
  BY PageInvShows DEF ConsoleInv
<1> QED BY <1>1, ConsoleInductive, PTL
=============================================================================
