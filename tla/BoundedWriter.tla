--------------------------- MODULE BoundedWriter ---------------------------
(***************************************************************************)
(* createBoundedWriter of core/messages/backpressure.ts: the bounded queue *)
(* between a socket whose reader may stall and the responses and pushes    *)
(* written to it.  A push is shed when the queue is full; a response is    *)
(* queued further, up to a hard cap past which the socket is given up.     *)
(*                                                                         *)
(* The stream below is the environment: any write may report pressure, and *)
(* a drain event follows some time after it did.                           *)
(***************************************************************************)
EXTENDS Naturals, Sequences, FiniteSets, SequencesExt

CONSTANTS
  Frames,     \* the frames written, each at most once
  Droppable,  \* the pushes among them
  SizeOf,     \* SizeOf[f]: byteLength
  MaxQueued,  \* options.maxQueuedBytes
  HardMax     \* options.hardMaxQueuedBytes

VARIABLES
  queue,    \* queue from head on
  queued,   \* the byte counter
  blocked,  \* write() returned false and no drain came since
  dead,     \* a response did not fit: onOverflow was called
  sent,     \* what the stream was given, in order
  offered,  \* history: the frames write() was called with
  cleared   \* history: the frames clear() discarded

vars == <<queue, queued, blocked, dead, sent, offered, cleared>>

TypeOK ==
  /\ queue \in Seq(Frames)
  /\ queued \in Nat
  /\ blocked \in BOOLEAN
  /\ dead \in BOOLEAN
  /\ sent \in Seq(Frames)
  /\ offered \in Seq(Frames)
  /\ cleared \subseteq Frames

Init ==
  /\ queue = <<>> /\ queued = 0
  /\ blocked = FALSE /\ dead = FALSE
  /\ sent = <<>> /\ offered = <<>> /\ cleared = {}

(* The bytes of q, each told by the place of its frame and by its own.     *)
BytesOf(q) == UNION {{i} \X (1 .. SizeOf[q[i]]) : i \in DOMAIN q}

SizeSum(q) == Cardinality(BytesOf(q))

(* Plausible bugs, as mutants of the definitions below: a frame jumps the  *)
(* queue, and a drain event only clears the flag.                          *)
JumpsQueue(f) == <<f>> \o queue

DrainUnflushed(n) ==
  /\ blocked
  /\ n = 0
  /\ blocked' = FALSE
  /\ UNCHANGED <<queue, queued, dead, sent, offered, cleared>>

(* What write() does with a frame it cannot hand to the stream at once.    *)
Sheds(f) == f \in Droppable /\ queued + SizeOf[f] > MaxQueued
Overflows(f) == f \notin Droppable /\ queued > 0
                  /\ queued + SizeOf[f] > HardMax

Queued(f) == Append(queue, f)

Offer(f) ==
  /\ f \notin ToSet(offered)
  /\ offered' = Append(offered, f)
  /\ UNCHANGED cleared

(* Nothing stands before the frame: it goes straight to the stream.        *)
WriteThrough(f) ==
  /\ Offer(f)
  /\ ~dead /\ ~blocked /\ queue = <<>>
  /\ sent' = Append(sent, f)
  /\ blocked' \in BOOLEAN
  /\ UNCHANGED <<queue, queued, dead>>

Enqueue(f) ==
  /\ Offer(f)
  /\ ~dead /\ (blocked \/ queue # <<>>)
  /\ ~Sheds(f) /\ ~Overflows(f)
  /\ queue' = Queued(f)
  /\ queued' = queued + SizeOf[f]
  /\ UNCHANGED <<blocked, dead, sent>>

Shed(f) ==
  /\ Offer(f)
  /\ ~dead /\ (blocked \/ queue # <<>>)
  /\ Sheds(f)
  /\ UNCHANGED <<queue, queued, blocked, dead, sent>>

Overflow(f) ==
  /\ Offer(f)
  /\ ~dead /\ (blocked \/ queue # <<>>)
  /\ Overflows(f)
  /\ dead' = TRUE
  /\ queue' = <<>>
  /\ queued' = 0
  /\ UNCHANGED <<blocked, sent>>

(* flush() on a drain event: n queued frames are written, until one        *)
(* reports pressure again or the queue is empty.                           *)
Drain(n) ==
  /\ blocked
  /\ n <= Len(queue)
  /\ n < Len(queue) => n > 0
  /\ blocked' \in IF n = Len(queue) /\ n > 0 THEN BOOLEAN ELSE {n > 0}
  /\ sent' = sent \o SubSeq(queue, 1, n)
  /\ queue' = SubSeq(queue, n + 1, Len(queue))
  /\ queued' = queued - SizeSum(SubSeq(queue, 1, n))
  /\ UNCHANGED <<dead, offered, cleared>>

(* clear(): the socket was evicted or closed.  Writes may still follow.    *)
Clear ==
  /\ cleared' = cleared \cup ToSet(queue)
  /\ queue' = <<>>
  /\ queued' = 0
  /\ UNCHANGED <<blocked, dead, sent, offered>>

-----------------------------------------------------------------------------
(* Properties.                                                             *)

(* A queued frame always has a drain event to wait for: the queue cannot   *)
(* be left standing with nothing to flush it.                              *)
DrainWillFlush == queue # <<>> => blocked

(* Well typed, with a drain event due for whatever is queued.              *)
Inv == TypeOK /\ DrainWillFlush

(* The counter that guards the memory bound is the bytes really queued,    *)
(* and the queue passes the hard cap only by a single oversized frame.     *)
MemoryBounded ==
  /\ queued = SizeSum(queue)
  /\ queued > HardMax => Len(queue) = 1

(* Frames leave in the order they were written, shed and discarded ones    *)
(* left out.                                                               *)
InOrder ==
  LET kept == sent \o queue IN
    /\ ToSet(kept) \subseteq ToSet(offered)
    /\ \A i, j \in DOMAIN kept, k, l \in DOMAIN offered :
         i < j /\ kept[i] = offered[k] /\ kept[j] = offered[l] => k < l

(* Only a push is ever shed: while the socket is alive every response that *)
(* was written is with the stream, in the queue, or was discarded with it. *)
ResponsesKept ==
  ~dead => (ToSet(offered) \ Droppable) \subseteq
             (ToSet(sent) \cup ToSet(queue) \cup cleared)
=============================================================================
