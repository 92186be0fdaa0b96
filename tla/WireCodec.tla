----------------------------- MODULE WireCodec -----------------------------
(***************************************************************************)
(* The envelope: MessageProtocol of core/messages/wire-codec.ts, the ids   *)
(* of frame-content.ts, and encodeResponse() of encode-response.ts.        *)
(*                                                                         *)
(* A header is its JSON text, known by its length and by what the codec    *)
(* looks at in it.  A frame keeps the bytes of its prefix, since they are  *)
(* what delimits it.                                                       *)
(***************************************************************************)
EXTENDS Integers

CONSTANTS
  MaxHeaderBytes,  \* MAX_HEADER_BYTES
  MaxFrameBytes,   \* MAX_FRAME_BYTES
  MaxIdBytes,      \* MAX_ID_LENGTH
  ErrorText        \* bytes of an error response's text, its ids left out

PrefixBytes == 7

(* JSON writes one byte of an id as at most six.                           *)
EscapedBytes == 6

(* The lengths fit their 16 and 24 bits, and the text of an error response *)
(* with three ids of legal length is a legal header.                       *)
ASSUME CodecAssumption ==
  /\ MaxHeaderBytes \in Nat /\ MaxHeaderBytes < 65536
  /\ MaxFrameBytes \in Nat /\ MaxFrameBytes <= 16777216
  /\ MaxHeaderBytes + PrefixBytes <= MaxFrameBytes
  /\ MaxIdBytes \in Nat /\ ErrorText \in Nat
  /\ ErrorText + 3 * EscapedBytes * MaxIdBytes <= MaxHeaderBytes

-----------------------------------------------------------------------------
(* The limit of one protocol object.                                       *)

MinFrameBytes == MaxHeaderBytes + PrefixBytes

(* clampFrameBytes(value)                                                  *)
ClampFrameBytes(isFinite, value) ==
  LET wanted == IF isFinite THEN value ELSE MaxFrameBytes IN
    IF wanted < MinFrameBytes THEN MinFrameBytes
    ELSE IF wanted > MaxFrameBytes THEN MaxFrameBytes ELSE wanted

Limits == MinFrameBytes .. MaxFrameBytes

-----------------------------------------------------------------------------
(* Ids.  A UTF-16 unit is one to three bytes of UTF-8, or two units four.  *)

Ids == {id \in [string : BOOLEAN, units : Nat, bytes : Nat] :
          id.units <= id.bytes /\ id.bytes <= 3 * id.units}

NoId    == [string |-> FALSE, units |-> 0, bytes |-> 0]
EmptyId == [string |-> TRUE, units |-> 0, bytes |-> 0]

(* isShortId(value): most ids are told by their units alone.               *)
IsShortId(id) ==
  /\ id.string
  /\ \/ 3 * id.units <= MaxIdBytes
     \/ id.units <= MaxIdBytes /\ id.bytes <= MaxIdBytes

(* shortString(value)                                                      *)
ShortString(id) == IF IsShortId(id) THEN id ELSE NoId

-----------------------------------------------------------------------------
(* Headers.                                                                *)

HostResponses == {"HOST_CAPABILITIES_RESPONSE", "HOST_INVOKE_RESPONSE"}
ArgsTypes     == {"DISPATCH", "INVOKE_REQUEST", "HOST_INVOKE_REQUEST"}
ResultTypes   == {"INVOKE_RESPONSE", "HOST_INVOKE_RESPONSE"}
HeaderTypes   == HostResponses \cup ArgsTypes \cup ResultTypes
                   \cup {"HOST_CAPABILITIES_QUERY"}

(* text is the length; utf8 and json say whether it can be read, or        *)
(* written, as UTF-8 and as a JSON object; record that args is an object,  *)
(* huge that args or result is nested deeper, or wider, than a receiver    *)
(* takes.                                                                  *)
Headers == [type : HeaderTypes \cup {"unknown"},
            requestId : Ids, pluginId : Ids, event : Ids,
            record : BOOLEAN, huge : BOOLEAN,
            utf8 : BOOLEAN, json : BOOLEAN, text : Nat]

(* The ids a header of this type must have.                                *)
Required(h) ==
  IF h.type \in {"HOST_CAPABILITIES_QUERY", "HOST_CAPABILITIES_RESPONSE"}
    THEN {h.requestId}
    ELSE {h.pluginId, h.event} \cup
           (IF h.type \in {"HOST_INVOKE_REQUEST", "HOST_INVOKE_RESPONSE"}
              THEN {h.requestId} ELSE {})

(* What sanitizeValue() walks through: args that are no object are dropped.*)
Walked(h) == h.type \in ResultTypes \/ (h.type \in ArgsTypes /\ h.record)

(* validateHeader(header)                                                  *)
Valid(h) ==
  /\ \A id \in {h.requestId, h.pluginId, h.event} : id.string => IsShortId(id)
  /\ h.type \in HeaderTypes
  /\ \A id \in Required(h) : id.string
  /\ Walked(h) => ~h.huge

(* recoverHeader(header); nothing of one that is no object.                *)
Recovered(h) ==
  IF h.utf8 /\ h.json
    THEN [type |-> h.type, requestId |-> ShortString(h.requestId),
          pluginId |-> ShortString(h.pluginId), event |-> ShortString(h.event)]
    ELSE [type |-> "unknown", requestId |-> NoId, pluginId |-> NoId,
          event |-> NoId]

-----------------------------------------------------------------------------
(* encode(): it throws, or the frame is this.                              *)

Encodes(h, payload, limit) ==
  /\ h.json
  /\ h.text <= MaxHeaderBytes
  /\ PrefixBytes + h.text + payload <= limit

Byte(n, place) == (n \div place) % 256

Encode(h, payload) ==
  [version |-> 1, type |-> "ENVELOPE",
   headerHi |-> Byte(h.text, 256), headerLo |-> Byte(h.text, 1),
   payloadHi |-> Byte(payload, 65536), payloadMid |-> Byte(payload, 256),
   payloadLo |-> Byte(payload, 1),
   header |-> h, size |-> PrefixBytes + h.text + payload]

-----------------------------------------------------------------------------
(* decode(): a framing violation, a header whose content is rejected with  *)
(* what could be recovered of it, or a message.                            *)

HeaderLen(f)  == f.headerHi * 256 + f.headerLo
PayloadLen(f) == f.payloadHi * 65536 + f.payloadMid * 256 + f.payloadLo
FrameLen(f)   == PrefixBytes + HeaderLen(f) + PayloadLen(f)

Violates(f, limit) ==
  \/ f.size < PrefixBytes \/ f.size > limit
  \/ f.version # 1 \/ f.type # "ENVELOPE"
  \/ HeaderLen(f) > MaxHeaderBytes
  \/ FrameLen(f) > limit
  \/ f.size < FrameLen(f)

Verdict(kind, h) == [kind |-> kind, header |-> h]

Readable(h) == h.utf8 /\ h.json /\ Valid(h)

Decode(f, limit) ==
  IF ~Violates(f, limit) /\ Readable(f.header)
    THEN Verdict("message", f.header)
    ELSE Verdict(IF Violates(f, limit) THEN "violation" ELSE "rejected",
                 Recovered(f.header))

-----------------------------------------------------------------------------
(* encodeResponse(): a response that cannot be encoded is replaced by an   *)
(* error for the same request.                                             *)

ErrorBytes(requestId, pluginId, event) ==
  ErrorText + EscapedBytes * (requestId.bytes + pluginId.bytes + event.bytes)

(* shortId(value)                                                          *)
ShortId(id) == IF IsShortId(id) THEN id ELSE EmptyId

ErrorFor(requestId, pluginId, event) ==
  [type |-> "INVOKE_RESPONSE",
   requestId |-> requestId, pluginId |-> pluginId, event |-> event,
   record |-> FALSE, huge |-> FALSE, utf8 |-> TRUE, json |-> TRUE,
   text |-> ErrorBytes(requestId, pluginId, event)]

Fallback(h) ==
  ErrorFor(IF ShortId(h.requestId).bytes = 0 THEN NoId ELSE h.requestId,
           ShortId(h.pluginId), ShortId(h.event))

EncodeResponse(h, limit) ==
  IF Encodes(h, 0, limit) THEN Encode(h, 0) ELSE Encode(Fallback(h), 0)
=============================================================================
