----------------------------- MODULE VideoFrames -----------------------------
(***************************************************************************)
(* Pictures over FIPS datagrams: fips-video-daemon.rs cuts each picture it  *)
(* is given into chunks (send_video_frame) and puts the chunks of its peer  *)
(* together again (accept_video_datagram).                                 *)
(*                                                                         *)
(* Each POST to /api/frame is a call of its own: it draws a frame id at     *)
(* random and sends its chunks one after the other, waiting for the FIPS    *)
(* node to take each, so calls interleave chunk by chunk.  Ids may collide. *)
(* One thread of the receiver accepts the datagrams one by one; the FIPS    *)
(* network loses, repeats and reorders them.                               *)
(***************************************************************************)
EXTENDS Integers, Sequences, FiniteSets

CONSTANTS
  Picture,   \* one per call of send_video_frame; bounds the calls
  Total,     \* the number of chunks of each
  FrameId,   \* what rand::random::<u32>() may return
  None       \* no value

ASSUME TotalAssumption == Total \in [Picture -> Nat]
ASSUME NoneAssumption == None \notin FrameId /\ None \notin Picture \X Nat

VARIABLES
  call,      \* where each call of send_video_frame is
  next,      \* the index of the chunk it sends next
  frameId,   \* the id it drew
  net,       \* datagrams sent
  pending,   \* pending_frames of the receiver, one peer's
  latest,    \* latest_frame
  delivered, \* history: datagrams accepted
  shown      \* history: all that latest_frame ever was

vars == <<call, next, frameId, net, pending, latest, delivered, shown>>

(* A datagram of a picture: the bytes of a chunk are named by the picture   *)
(* and the place in it, header and bytes are of one picture.                *)
Chunk == Picture \X Nat
Datagram == [id : FrameId, total : Nat, index : Nat, bytes : Chunk]

Places(n) == 0..(n - 1)
DatagramOf(p, i) ==
  [id |-> frameId[p], total |-> Total[p], index |-> i, bytes |-> <<p, i>>]
DatagramsOf(p) == {DatagramOf(p, i) : i \in Places(Total[p])}

Assembly(n) ==
  [total : {n}, chunks : [Places(n) -> Chunk \union {None}], received : 0..n]

TypeOK ==
  /\ call \in [Picture -> {"idle", "sending", "sent", "failed"}]
  /\ next \in [Picture -> Nat]
  /\ frameId \in [Picture -> FrameId \union {None}]
  /\ net \subseteq UNION {DatagramsOf(p) : p \in Picture}
  /\ delivered \subseteq net
  /\ DOMAIN pending \subseteq FrameId
  /\ \A id \in DOMAIN pending : pending[id].total \in Nat /\ pending[id] \in Assembly(pending[id].total)
  /\ latest # None => latest \in shown
  /\ \A f \in shown : f.id \in FrameId /\ f.jpeg \in Seq(Chunk)

Init ==
  /\ call = [p \in Picture |-> "idle"]
  /\ next = [p \in Picture |-> 0]
  /\ frameId = [p \in Picture |-> None]
  /\ net = {}
  /\ pending = [id \in {} |-> None]
  /\ latest = None
  /\ delivered = {}
  /\ shown = {}

receiverVars == <<pending, latest, delivered, shown>>

-----------------------------------------------------------------------------
(* send_video_frame.                                                        *)

DrawId(p, id) ==
  /\ call[p] = "idle"
  /\ call' = [call EXCEPT ![p] = "sending"]
  /\ frameId' = [frameId EXCEPT ![p] = id]
  /\ UNCHANGED <<next, net, receiverVars>>

(* The FIPS node took the datagram of the next chunk.                       *)
SendChunk(p) ==
  /\ call[p] = "sending"
  /\ next[p] < Total[p]
  /\ net' = net \union {DatagramOf(p, next[p])}
  /\ next' = [next EXCEPT ![p] = @ + 1]
  /\ UNCHANGED <<call, frameId, receiverVars>>

(* It did not, or did not say so: the call ends with an error, and the rest *)
(* is not sent.                                                            *)
SendFails(p) ==
  /\ call[p] = "sending"
  /\ next[p] < Total[p]
  /\ net' \in {net, net \union {DatagramOf(p, next[p])}}
  /\ call' = [call EXCEPT ![p] = "failed"]
  /\ UNCHANGED <<next, frameId, receiverVars>>

SendReturns(p) ==
  /\ call[p] = "sending"
  /\ next[p] = Total[p]
  /\ call' = [call EXCEPT ![p] = "sent"]
  /\ UNCHANGED <<next, frameId, net, receiverVars>>

-----------------------------------------------------------------------------
(* accept_video_datagram.                                                   *)

Empty(n) == [total |-> n, chunks |-> [i \in Places(n) |-> None], received |-> 0]

(* Mutant of AssemblyFor: any assembly under the id will do.                *)
AssemblyForId(d) == IF d.id \in DOMAIN pending THEN pending[d.id] ELSE Empty(d.total)

(* The entry of the frame, a new one if there is none or if it is one of    *)
(* another length.                                                         *)
AssemblyFor(d) ==
  IF d.id \in DOMAIN pending /\ pending[d.id].total = d.total
  THEN pending[d.id]
  ELSE Empty(d.total)

(* A chunk that is there stays and does not count again.                    *)
Put(a, d) ==
  IF a.chunks[d.index] = None
  THEN [a EXCEPT !.chunks[d.index] = d.bytes, !.received = @ + 1]
  ELSE a

(* The chunks in their order.  A place without one would add no bytes.      *)
Joined(a) == [i \in 1..a.total |-> a.chunks[i - 1]]

(* Mutant of Keep: the last place does not fit.                             *)
KeepButLast(d) ==
  LET a == AssemblyFor(d) IN IF d.index + 1 < a.total THEN Put(a, d) ELSE a

Keep(d) ==
  LET a == AssemblyFor(d) IN IF d.index < a.total THEN Put(a, d) ELSE a

(* A chunk beyond the end leaves the entry and completes nothing.           *)
Completes(d) == d.index < Keep(d).total /\ Keep(d).received = Keep(d).total

With(key, a) ==
  [id \in DOMAIN pending \union {key} |-> IF id = key THEN a ELSE pending[id]]

Incomplete(d) ==
  /\ ~Completes(d)
  /\ pending' = With(d.id, Keep(d))
  /\ UNCHANGED <<latest, shown>>

Complete(d) ==
  /\ Completes(d)
  /\ pending' = [id \in DOMAIN pending \ {d.id} |-> pending[id]]
  /\ latest' = [id |-> d.id, jpeg |-> Joined(Keep(d))]
  /\ shown' = shown \union {latest'}

Accept(d) ==
  /\ d \in net
  /\ delivered' = delivered \union {d}
  /\ Incomplete(d) \/ Complete(d)
  /\ UNCHANGED <<call, next, frameId, net>>

-----------------------------------------------------------------------------
Next ==
  \/ \E p \in Picture :
       \/ \E id \in FrameId : DrawId(p, id)
       \/ SendChunk(p)
       \/ SendFails(p)
       \/ SendReturns(p)
  \/ \E d \in net : Accept(d)

Spec == Init /\ [][Next]_vars

-----------------------------------------------------------------------------
(* Properties.                                                             *)

(* What is shown is whole: every place of it holds the chunk of that place  *)
(* of a picture sent under its id and with its number of chunks, whatever   *)
(* was lost, repeated, reordered or left over from another frame.           *)
ShownIsWhole ==
  \A f \in shown : \A i \in 1..Len(f.jpeg) :
    /\ f.jpeg[i] # None
    /\ LET p == f.jpeg[i][1] IN
       f.jpeg[i][2] = i - 1 /\ frameId[p] = f.id /\ Total[p] = Len(f.jpeg)

(* A picture whose id nobody else drew is shown as it was taken, once all   *)
(* of it has arrived, and no other picture under its id ever is.            *)
Own(p) == frameId[p] # None /\ \A q \in Picture \ {p} : frameId[q] # frameId[p]
Whole(p) == [id |-> frameId[p], jpeg |-> [i \in 1..Total[p] |-> <<p, i - 1>>]]

ArrivedIsShown ==
  \A p \in Picture : (Own(p) /\ Total[p] > 0) =>
    /\ DatagramsOf(p) \subseteq delivered => Whole(p) \in shown
    /\ \A f \in shown : f.id = frameId[p] => f = Whole(p)

(* What waits for more chunks lacks one, and its count is that of its       *)
(* chunks: an entry can always be completed by those it lacks.              *)
Filled(a) == {i \in Places(a.total) : a.chunks[i] # None}

CountsChunks ==
  \A id \in DOMAIN pending :
    /\ pending[id].received < pending[id].total
    /\ pending[id].received = Cardinality(Filled(pending[id]))
=============================================================================
