--------------------------- MODULE ChannelFrames ---------------------------
(***************************************************************************)
(* What a frame channel receives: the frames its peer encodes, or spoils,  *)
(* as the codec decodes them and answerRejected() of frame-channel.ts      *)
(* tells them apart.                                                       *)
(***************************************************************************)
EXTENDS WireCodec

CONSTANTS
  Requests,  \* the requests the peer sends, each once
  HeaderOf,  \* HeaderOf[r]: the header its sender makes for r
  Defects,   \* what may be wrong with a frame when it comes
  Limit,     \* protocol.maxFrameBytes
  MaxBatch   \* bound: most frames one chunk completes

(* A frame about r, with one defect.                                       *)
Sent(r, type, defect) ==
  LET header ==
        [HeaderOf[r] EXCEPT
           !.type      = type,
           !.huge      = defect = "huge",
           !.json      = defect # "not JSON",
           !.utf8      = defect # "not UTF-8",
           !.pluginId  = IF defect = "no plugin" THEN NoId ELSE @,
           !.requestId = IF defect = "long id"
                           THEN [@ EXCEPT !.units = MaxIdBytes + 1,
                                          !.bytes = MaxIdBytes + 1]
                           ELSE @]
  IN [Encode(header, 0) EXCEPT !.version = IF defect = "version" THEN 2 ELSE 1]

(* handle() or answerRejected(): a message is routed or consumed; of a     *)
(* rejected one, the recovered ids tell who waits, if anybody.             *)
Disposition(verdict) ==
  LET type == verdict.header.type IN
  CASE verdict.kind = "violation" -> "violation"
    [] verdict.kind = "message" ->
         IF type \in HostResponses THEN "response" ELSE "request"
    [] verdict.kind = "rejected" ->
         IF verdict.header.requestId.bytes = 0 THEN "skipped"
         ELSE IF type \in HostResponses THEN "badResponse"
         ELSE IF type = "INVOKE_REQUEST" THEN "badRequest" ELSE "skipped"

Received(r, type, defect) == Decode(Sent(r, type, defect), Limit)

(* What a frame can be: a request, a host response for one, and each of    *)
(* them with a content error that leaves its routing fields readable.      *)
Items ==
  {item \in {[kind |-> Disposition(Received(r, type, defect)), id |-> r] :
               r \in Requests, defect \in Defects,
               type \in {"INVOKE_REQUEST", "HOST_INVOKE_RESPONSE"}} :
     item.kind \notin {"violation", "skipped"}}

(* Whether a framing violation follows them: some defect is one.           *)
Violations ==
  {Received(r, "INVOKE_REQUEST", defect).kind = "violation" :
     r \in Requests, defect \in Defects}

(* The whole frames of one chunk.                                          *)
Batches == UNION {[1 .. n -> Items] : n \in 0 .. MaxBatch}
=============================================================================
