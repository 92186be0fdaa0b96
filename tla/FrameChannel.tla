---------------------------- MODULE FrameChannel ----------------------------
(***************************************************************************)
(* createFrameChannel of core/messages/frame-channel.ts, with the decoder  *)
(* of framing.ts, the health tracker of channel-health.ts and the inbound  *)
(* gate of backpressure.ts: one framed stream from a peer, its requests    *)
(* routed concurrently and their responses written back.                   *)
(*                                                                         *)
(* A channel is the protocol socket's (a framing violation closes it, and  *)
(* reading pauses while too much work is pending) or the host pipe's       *)
(* (violations are tolerated up to a run of MaxFailures, and host          *)
(* responses are consumed ahead of routing).                               *)
(*                                                                         *)
(* Bytes are abstracted to what one chunk completes: a batch of whole      *)
(* frames, each with what the codec makes of it, then possibly a framing   *)
(* violation.  A partial frame shows only as a chunk that completes none.  *)
(***************************************************************************)
EXTENDS Naturals, Sequences, FiniteSets, SequencesExt

CONSTANTS
  Kinds,        \* the kinds of channel considered
  Requests,     \* the requests the peer sends, each once
  HostBound,    \* those whose routing waits for a response on the host pipe
  MaxPending,   \* inbound.maxPending
  MaxFailures   \* ChannelHealth.maxConsecutiveFailures

VARIABLES
  kind,      \* which channel this is; never changes
  stopped,   \* no more parsing
  failures,  \* consecutiveFailures of the health tracker
  phase,     \* phase[r]: new, routing, asking the host, settled
  answers,   \* answers[r]: the responses written for r, in order
  pending,   \* the inbound gate's counter
  paused     \* the inbound gate paused the stream

vars == <<kind, stopped, failures, phase, answers, pending, paused>>

Phases == {"new", "routing", "asking", "settled"}

AnswerKinds == {"response", "failed", "invalid"}

TypeOK ==
  /\ kind \in Kinds
  /\ stopped \in BOOLEAN
  /\ failures \in 0 .. MaxFailures
  /\ phase \in [Requests -> Phases]
  /\ answers \in [Requests -> Seq(AnswerKinds)]
  /\ pending \in 0 .. Cardinality(Requests)
  /\ paused \in BOOLEAN

Init ==
  /\ kind \in Kinds
  /\ stopped = FALSE /\ failures = 0
  /\ phase = [r \in Requests |-> "new"]
  /\ answers = [r \in Requests |-> <<>>]
  /\ pending = 0 /\ paused = FALSE

-----------------------------------------------------------------------------
(* Plausible bugs, as mutants of the definitions below: the gate never     *)
(* resumes, and a rejected request is routed as well.                      *)
NeverResumes == pending' = pending - 1 /\ paused' = paused

RoutesAnyway(r, routed, resumed, rejected) ==
  IF r \in routed \cup resumed \cup rejected THEN "routing" ELSE phase[r]

-----------------------------------------------------------------------------
(* The inbound gate: options.inbound is given for the socket only, since a *)
(* host call waits for its response on the very stream it would pause.     *)

Gated == kind = "socket"

Low == MaxPending \div 2

(* track() for n works.                                                    *)
TrackWork(n) ==
  IF Gated
    THEN /\ pending' = pending + n
         /\ paused' = (paused \/ pending + n >= MaxPending)
    ELSE UNCHANGED <<pending, paused>>

(* done(): the stream resumes at the low-water mark.                       *)
WorkDone ==
  IF Gated
    THEN /\ pending' = pending - 1
         /\ paused' = (paused /\ pending - 1 > Low)
    ELSE UNCHANGED <<pending, paused>>

-----------------------------------------------------------------------------
(* push()                                                                  *)

(* The peer sends each request once, and a host response only to a call    *)
(* that waits for one.  A stray host response needs no case of its own: on *)
(* a socket it is routed to nobody, as a request whose route writes        *)
(* nothing is, and on the pipe it is taken and dropped.                    *)
Possible(batch) ==
  /\ \A i \in DOMAIN batch :
       IF batch[i].kind \in {"request", "badRequest"}
         THEN phase[batch[i].id] = "new"
         ELSE kind = "host" /\ phase[batch[i].id] = "asking"
  /\ \A i, j \in DOMAIN batch : i # j => batch[i].id # batch[j].id

Named(batch, kinds) ==
  {batch[i].id : i \in {j \in DOMAIN batch : batch[j].kind \in kinds}}

(* The policy for a framing violation, or success noted for the chunk.  A  *)
(* socket is closed; a pipe is given up after MaxFailures in a row.        *)
JudgeStream(violation) ==
  CASE violation /\ kind = "socket" ->
         stopped' = TRUE /\ UNCHANGED failures
    [] violation /\ kind = "host" ->
         /\ failures' = failures + 1
         /\ stopped' = (failures + 1 >= MaxFailures)
    [] OTHER ->
         failures' = 0 /\ UNCHANGED stopped

AsksHost(r) == kind = "host" /\ r \in HostBound

(* Where r stands after the frames that name it were handled.              *)
Handled(r, routed, resumed, rejected) ==
  CASE r \in rejected -> "settled"
    [] r \in routed   -> IF AsksHost(r) THEN "asking" ELSE "routing"
    [] r \in resumed  -> "routing"
    [] OTHER          -> phase[r]

(* The whole frames are handled even when a violation follows them: good   *)
(* requests start routing, consumed host responses let their call go on,   *)
(* and a request with bad content is answered at once.                     *)
Push(batch, violation) ==
  LET routed   == Named(batch, {"request"})
      resumed  == Named(batch, {"response", "badResponse"})
      rejected == Named(batch, {"badRequest"})
  IN
  /\ ~stopped /\ ~paused
  /\ Possible(batch)
  /\ phase' = [r \in Requests |-> Handled(r, routed, resumed, rejected)]
  /\ answers' = [r \in Requests |->
                   IF r \in rejected THEN Append(answers[r], "invalid")
                                     ELSE answers[r]]
  /\ TrackWork(Cardinality(routed))
  /\ JudgeStream(violation)
  /\ UNCHANGED kind

(* A chunk that is not binary: it closes a socket, and is dropped on a     *)
(* pipe with the partial frame kept.                                       *)
PushNonBinary ==
  /\ ~stopped /\ ~paused
  /\ kind = "socket"
  /\ stopped' = TRUE
  /\ UNCHANGED <<kind, failures, phase, answers, pending, paused>>

(* The stream is gone.                                                     *)
Close ==
  /\ ~stopped
  /\ stopped' = TRUE
  /\ UNCHANGED <<kind, failures, phase, answers, pending, paused>>

-----------------------------------------------------------------------------
(* route()                                                                 *)

(* The router answers, or throws and a fixed failure is answered, or       *)
(* answers nothing for a dispatch.  Each write may fail, which is logged.  *)
RouteEnds(r, written) ==
  /\ phase[r] = "routing"
  /\ written \in {<<>>, <<"response">>, <<"failed">>}
  /\ phase' = [phase EXCEPT ![r] = "settled"]
  /\ answers' = [answers EXCEPT ![r] = @ \o written]
  /\ WorkDone
  /\ UNCHANGED <<kind, stopped, failures>>

(* The bridge stops waiting for the host at the call's deadline.           *)
HostDeadline(r) ==
  /\ phase[r] = "asking"
  /\ phase' = [phase EXCEPT ![r] = "routing"]
  /\ UNCHANGED <<kind, stopped, failures, answers, pending, paused>>

-----------------------------------------------------------------------------
(* Properties.                                                             *)

Unsettled == {r \in Requests : phase[r] \in {"routing", "asking"}}

(* The gate counts the work really pending, pauses at its high-water mark  *)
(* and stays paused down to its low-water mark, also while a stopped       *)
(* channel still finishes what it had taken.                               *)
GateFollowsWork ==
  Gated =>
    /\ pending = Cardinality(Unsettled)
    /\ pending >= MaxPending => paused
    /\ paused => pending > Low

(* Well typed, with the gate in step.                                      *)
Inv == TypeOK /\ GateFollowsWork

(* A paused stream is read again.                                          *)
ReadsAgain == paused ~> ~paused

(* A call that waits for the host can always be answered: the pipe its     *)
(* response comes on is not paused by the calls that wait for it.          *)
ResponsesReadable ==
  (\E r \in Requests : phase[r] = "asking") => ~paused

(* No request is answered twice, nor before it was received.               *)
AnsweredOnce ==
  \A r \in Requests :
    Len(answers[r]) <= IF phase[r] = "settled" THEN 1 ELSE 0

(* Every request taken off the stream settles, whatever follows it there.  *)
EveryRequestSettles ==
  \A r \in Requests : (phase[r] # "new") ~> (phase[r] = "settled")
=============================================================================
