------------------------- MODULE ServerSocketProofs -------------------------
(***************************************************************************)
(* The protocol socket, proved.  First the codec, for every header,        *)
(* payload and limit: a frame it encodes is delimited by its prefix and    *)
(* read back by every peer whose limit it respects, and a request is       *)
(* always answered by a frame its sender can match to it.  Then the        *)
(* channel with its writer, for every set of requests and pushes.          *)
(***************************************************************************)
EXTENDS ServerSocket, FiniteSetTheorems, SequenceTheorems, TLAPS

(* Bytes put together again.                                               *)
LEMMA TwoBytes ==
  ASSUME NEW n \in Nat, n < 65536
  PROVE  Byte(n, 256) * 256 + Byte(n, 1) = n
BY SMTT(30) DEF Byte

LEMMA ThreeBytes ==
  ASSUME NEW n \in Nat, n < 16777216
  PROVE  Byte(n, 65536) * 65536 + Byte(n, 256) * 256 + Byte(n, 1) = n
BY SMTT(60) DEF Byte

LEMMA LimitsFit ==
  ASSUME NEW limit \in Limits
  PROVE  limit \in Nat /\ MinFrameBytes <= limit /\ limit <= 16777216
BY CodecAssumption DEF Limits, MinFrameBytes, PrefixBytes

-----------------------------------------------------------------------------

(* The option that sets a protocol's limit (ProtocolOptions.maxFrameBytes) *)
(* cannot disable the limit, nor make a header of legal size unreadable.   *)
THEOREM LimitClamped ==
  ASSUME NEW isFinite \in BOOLEAN, NEW value \in Int
  PROVE  ClampFrameBytes(isFinite, value) \in Limits
BY CodecAssumption DEF ClampFrameBytes, Limits, MinFrameBytes, PrefixBytes

(* The early exits of isShortId(), which count UTF-16 units, decide as the *)
(* count of UTF-8 bytes would.                                             *)
THEOREM ShortIdCounts ==
  ASSUME NEW id \in Ids
  PROVE  IsShortId(id) <=> id.string /\ id.bytes <= MaxIdBytes
BY CodecAssumption DEF Ids, IsShortId

(* The prefix of a frame that was encoded gives its two lengths back: none *)
(* is cut by its 16 or 24 bits.                                            *)
THEOREM PrefixRoundTrip ==
  ASSUME NEW h \in Headers, NEW payload \in Nat, NEW limit \in Limits,
         Encodes(h, payload, limit)
  PROVE  /\ HeaderLen(Encode(h, payload)) = h.text
         /\ PayloadLen(Encode(h, payload)) = payload
<1> DEFINE f == Encode(h, payload)
<1>1. h.text \in Nat /\ h.text < 65536 /\ payload < 16777216
  BY LimitsFit, CodecAssumption DEF Headers, Encodes, PrefixBytes
<1>2. HeaderLen(f) = Byte(h.text, 256) * 256 + Byte(h.text, 1)
  BY DEF HeaderLen, Encode
<1>3. PayloadLen(f) = Byte(payload, 65536) * 65536 + Byte(payload, 256) * 256
                        + Byte(payload, 1)
  BY DEF PayloadLen, Encode
<1> QED
  BY <1>1, <1>2, <1>3, TwoBytes, ThreeBytes

(* What one end encodes, an end whose limit is not lower reads: a frame    *)
(* with readable content never breaks the stream nor is it skipped.        *)
THEOREM EncodedIsRead ==
  ASSUME NEW h \in Headers, NEW payload \in Nat,
         NEW limit \in Limits, NEW peer \in Limits, limit <= peer,
         Encodes(h, payload, limit), Readable(h)
  PROVE  Decode(Encode(h, payload), peer) = Verdict("message", h)
<1> DEFINE f == Encode(h, payload)
<1>1. HeaderLen(f) = h.text /\ PayloadLen(f) = payload
  BY PrefixRoundTrip
<1>2. f.size = PrefixBytes + h.text + payload /\ FrameLen(f) = f.size
  BY <1>1 DEF Encode, FrameLen
<1>3. f.version = 1 /\ f.type = "ENVELOPE" /\ f.header = h
  BY DEF Encode
<1>4. /\ h.text \in Nat /\ h.text <= MaxHeaderBytes
      /\ PrefixBytes + h.text + payload <= limit
  BY DEF Headers, Encodes
<1>5. ~Violates(f, peer)
  <2> HIDE DEF f
  <2> QED
    BY <1>1, <1>2, <1>3, <1>4, LimitsFit, CodecAssumption
       DEF Violates, PrefixBytes
<1>6. Readable(f.header)
  BY <1>3
<1> QED
  BY <1>3, <1>5, <1>6 DEF Decode

-----------------------------------------------------------------------------
(* Answers.                                                                *)

LEMMA ShortIdIsShort ==
  ASSUME NEW id \in Ids
  PROVE  /\ ShortId(id) \in Ids
         /\ IsShortId(ShortId(id)) /\ ShortId(id).bytes <= MaxIdBytes
BY ShortIdCounts, CodecAssumption DEF ShortId, EmptyId, Ids, IsShortId

(* "This function never throws": whatever the ids, the error response fits *)
(* the header and every limit a protocol can have, and can be read.        *)
THEOREM FallbackAlwaysFits ==
  ASSUME NEW h \in Headers, NEW limit \in Limits
  PROVE  /\ Fallback(h) \in Headers
         /\ Encodes(Fallback(h), 0, limit)
         /\ Readable(Fallback(h))
<1> DEFINE r == IF ShortId(h.requestId).bytes = 0 THEN NoId ELSE h.requestId
           p == ShortId(h.pluginId)
           e == ShortId(h.event)
<1>1. h.requestId \in Ids /\ h.pluginId \in Ids /\ h.event \in Ids
  BY DEF Headers
<1>2. /\ p \in Ids /\ IsShortId(p) /\ p.bytes <= MaxIdBytes
      /\ e \in Ids /\ IsShortId(e) /\ e.bytes <= MaxIdBytes
  BY <1>1, ShortIdIsShort
<1>3. /\ r \in Ids /\ r.bytes <= MaxIdBytes
      /\ r.string => IsShortId(r)
  <2>1. CASE ShortId(h.requestId).bytes = 0
    BY <2>1, CodecAssumption DEF NoId, Ids
  <2>2. CASE ShortId(h.requestId).bytes # 0
    <3>1. IsShortId(h.requestId)
      BY <2>2 DEF ShortId, EmptyId
    <3> QED
      BY <1>1, <2>2, <3>1, ShortIdCounts
  <2> QED
    BY <2>1, <2>2
<1>4. r.bytes \in Nat /\ p.bytes \in Nat /\ e.bytes \in Nat
  BY <1>2, <1>3 DEF Ids
<1>5. /\ ErrorBytes(r, p, e) \in Nat
      /\ ErrorBytes(r, p, e) <= MaxHeaderBytes
  <2> HIDE DEF r, p, e
  <2> QED
    BY <1>2, <1>3, <1>4, CodecAssumption DEF ErrorBytes, EscapedBytes
<1>6. Fallback(h) = ErrorFor(r, p, e)
  BY DEF Fallback
<1>7. ErrorFor(r, p, e) \in Headers
  <2> HIDE DEF r, p, e
  <2> QED
    BY <1>2, <1>3, <1>5 DEF ErrorFor, Headers, HeaderTypes, ResultTypes
<1>8. Encodes(ErrorFor(r, p, e), 0, limit)
  <2> HIDE DEF r, p, e
  <2> QED
    BY <1>5, LimitsFit, CodecAssumption
       DEF Encodes, ErrorFor, MinFrameBytes, PrefixBytes
<1>9. Readable(ErrorFor(r, p, e))
  <2> HIDE DEF r, p, e
  <2>1. p.string /\ e.string
    BY <1>2 DEF IsShortId
  <2> QED
    BY <1>2, <1>3, <2>1
       DEF Readable, Valid, ErrorFor, Required, Walked, HeaderTypes, ResultTypes
<1> QED
  BY <1>6, <1>7, <1>8, <1>9

LEMMA ShortStringIsShort ==
  ASSUME NEW id \in Ids
  PROVE  /\ ShortString(id) \in Ids
         /\ ShortString(id).string => IsShortId(ShortString(id))
BY DEF ShortString, NoId, Ids

(* What the receiver of a frame knows of its request, read or recovered,   *)
(* are ids of legal length.                                                *)
LEMMA DecodedIdsShort ==
  ASSUME NEW f, f.header \in Headers, NEW limit,
         NEW id, id \in {Decode(f, limit).header.requestId,
                         Decode(f, limit).header.pluginId,
                         Decode(f, limit).header.event}
  PROVE  id \in Ids /\ (id.string => IsShortId(id))
<1>1. Decode(f, limit).header \in {f.header, Recovered(f.header)}
  BY DEF Decode, Verdict
<1>2. CASE Decode(f, limit).header = Recovered(f.header)
  <2>1. id \in {NoId, ShortString(f.header.requestId),
                ShortString(f.header.pluginId), ShortString(f.header.event)}
    BY <1>2 DEF Recovered, Headers
  <2>2. /\ f.header.requestId \in Ids /\ f.header.pluginId \in Ids
        /\ f.header.event \in Ids
    BY DEF Headers
  <2>3. NoId \in Ids /\ ~NoId.string
    BY DEF NoId, Ids
  <2> QED
    BY <2>1, <2>2, <2>3, ShortStringIsShort
<1>3. CASE Decode(f, limit) = Verdict("message", f.header) /\ Readable(f.header)
  BY <1>3 DEF Verdict, Readable, Valid, Headers
<1> QED
  BY <1>2, <1>3 DEF Decode, Verdict

(* A request that was read, or whose ids were recovered, is answered by a  *)
(* frame which its sender reads and matches to it, whatever the response   *)
(* was: too large, or no JSON at all.  Only one whose result is nested too *)
(* deep for the sender is not replaced by the error it would need.         *)
THEOREM AnswerIsMatched ==
  ASSUME NEW f, f.header \in Headers,
         NEW limit \in Limits, NEW peer \in Limits, limit <= peer,
         NEW a \in Headers,
         a.type = "INVOKE_RESPONSE", a.utf8, ~a.huge,
         a.requestId = Decode(f, limit).header.requestId,
         a.requestId.string, a.requestId.bytes > 0,
         a.pluginId \in {Decode(f, limit).header.pluginId, EmptyId},
         a.event \in {Decode(f, limit).header.event, EmptyId},
         a.pluginId.string, a.event.string
  PROVE  LET answer == Decode(EncodeResponse(a, limit), peer) IN
           /\ answer.kind = "message"
           /\ answer.header.type = "INVOKE_RESPONSE"
           /\ answer.header.requestId = Decode(f, limit).header.requestId
<1>1. IsShortId(a.requestId) /\ IsShortId(a.pluginId) /\ IsShortId(a.event)
  <2>1. IsShortId(EmptyId)
    BY CodecAssumption DEF IsShortId, EmptyId
  <2> QED
    BY <2>1, DecodedIdsShort
<1>2. CASE Encodes(a, 0, limit)
  <2>1. Readable(a)
    BY <1>1, <1>2 DEF Readable, Valid, Encodes, Required, Walked, HeaderTypes,
                      ResultTypes
  <2>2. Decode(Encode(a, 0), peer) = Verdict("message", a)
    BY <1>2, <2>1, EncodedIsRead
  <2> QED
    BY <1>2, <2>2 DEF EncodeResponse, Verdict
<1>3. CASE ~Encodes(a, 0, limit)
  <2>1. Decode(Encode(Fallback(a), 0), peer) = Verdict("message", Fallback(a))
    BY FallbackAlwaysFits, EncodedIsRead
  <2>2. Fallback(a).type = "INVOKE_RESPONSE" /\ Fallback(a).requestId = a.requestId
    BY <1>1 DEF Fallback, ErrorFor, ShortId
  <2> QED
    BY <1>3, <2>1, <2>2 DEF EncodeResponse, Verdict
<1> QED
  BY <1>2, <1>3

-----------------------------------------------------------------------------
(* The bytes of a queue.                                                   *)

(* The components count as this module does.                               *)
LEMMA SameCount ==
  \A S : Writer!Cardinality(S) = Cardinality(S)
         /\ Channel!Cardinality(S) = Cardinality(S)
BY DEF Writer!Cardinality, Channel!Cardinality, Cardinality

WrittenFrames == Requests \cup Pushes

LEMMA SizesOf ==
  ASSUME NEW q \in Seq(WrittenFrames), NEW i \in 1 .. Len(q)
  PROVE  q[i] \in WrittenFrames /\ SizeOf[q[i]] \in Nat \ {0}
BY WriterAssumption DEF WrittenFrames

LEMMA BytesFinite ==
  ASSUME NEW q \in Seq(WrittenFrames)
  PROVE  IsFiniteSet(Writer!BytesOf(q)) /\ Writer!SizeSum(q) \in Nat
<1>. DEFINE F == [i \in 1 .. Len(q) |-> {i} \X (1 .. SizeOf[q[i]])]
            T == {{i} \X (1 .. SizeOf[q[i]]) : i \in 1 .. Len(q)}
<1>1. F \in Surjection(1 .. Len(q), T)
  BY DEF Surjection
<1>2. IsFiniteSet(1 .. Len(q))
  BY FS_Interval
<1>3. IsFiniteSet(T)
  BY <1>1, <1>2, FS_Surjection
<1>4. \A S \in T : IsFiniteSet(S)
  <2>. SUFFICES ASSUME NEW i \in 1 .. Len(q)
                PROVE  IsFiniteSet({i} \X (1 .. SizeOf[q[i]]))
    OBVIOUS
  <2>1. IsFiniteSet({i})
    BY FS_Singleton
  <2>2. IsFiniteSet(1 .. SizeOf[q[i]])
    BY SizesOf, FS_Interval
  <2>. QED  BY <2>1, <2>2, FS_Product
<1>5. IsFiniteSet(UNION T)
  <2>. HIDE DEF T
  <2>. QED  BY <1>3, <1>4, FS_UNION
<1>6. Writer!BytesOf(q) = UNION T
  BY DEF Writer!BytesOf
<1>. QED  BY <1>5, <1>6, FS_CardinalityType, SameCount DEF Writer!SizeSum

LEMMA NoBytes == Writer!SizeSum(<<>>) = 0
BY FS_EmptySet, SameCount DEF Writer!SizeSum, Writer!BytesOf

LEMMA SomeBytes ==
  ASSUME NEW q \in Seq(WrittenFrames), q # <<>>
  PROVE  Writer!SizeSum(q) > 0
<1>1. 1 \in 1 .. Len(q)
  OBVIOUS
<1>2. SizeOf[q[1]] \in Nat \ {0}
  BY <1>1, SizesOf
<1>3. <<1, 1>> \in Writer!BytesOf(q)
  BY <1>1, <1>2 DEF Writer!BytesOf
<1>. QED  BY <1>3, BytesFinite, FS_EmptySet, SameCount DEF Writer!SizeSum

LEMMA BytesAppended ==
  ASSUME NEW q \in Seq(WrittenFrames), NEW f \in WrittenFrames
  PROVE  Writer!SizeSum(Append(q, f)) = Writer!SizeSum(q) + SizeOf[f]
<1>. DEFINE n == Len(q) + 1
            B == {n} \X (1 .. SizeOf[f])
<1>1. SizeOf[f] \in Nat /\ n \in Nat
  BY WriterAssumption DEF WrittenFrames
<1>2. IsFiniteSet(B) /\ Cardinality(B) = SizeOf[f]
  <2>1. IsFiniteSet({n}) /\ Cardinality({n}) = 1
    BY FS_Singleton
  <2>2. IsFiniteSet(1 .. SizeOf[f]) /\ Cardinality(1 .. SizeOf[f]) = SizeOf[f]
    <3>. DEFINE k == SizeOf[f]
    <3>1. k \in Nat /\ 1 \in Int /\ k \in Int
      BY <1>1
    <3>. HIDE DEF k
    <3>2. /\ IsFiniteSet(1 .. k)
          /\ Cardinality(1 .. k) = IF 1 > k THEN 0 ELSE k - 1 + 1
      BY ONLY <3>1, FS_Interval
    <3>3. IsFiniteSet(1 .. k) /\ Cardinality(1 .. k) = k
      BY <3>1, <3>2
    <3>. QED  BY <3>3 DEF k
  <2>3. IsFiniteSet(B) /\ Cardinality(B) = 1 * SizeOf[f]
    BY <2>1, <2>2, FS_Product
  <2>. QED  BY <1>1, <2>3
<1>3. Writer!BytesOf(Append(q, f)) = Writer!BytesOf(q) \cup B
  <2>. DEFINE a == Append(q, f)
  <2>1. /\ DOMAIN a = (1 .. Len(q)) \cup {n}
        /\ \A i \in 1 .. Len(q) : a[i] = q[i]
        /\ a[n] = f
        /\ DOMAIN q = 1 .. Len(q)
    OBVIOUS
  <2>. HIDE DEF a, n
  <2>2. Writer!BytesOf(a) = Writer!BytesOf(q) \cup B
    BY <2>1 DEF Writer!BytesOf
  <2>. QED  BY <2>2 DEF a
<1>4. Writer!BytesOf(q) \cap B = {}
  BY DEF Writer!BytesOf
<1>. HIDE DEF B
<1>5. Cardinality(Writer!BytesOf(q) \cup B)
        = Cardinality(Writer!BytesOf(q)) + Cardinality(B) - 0
  BY <1>2, <1>4, BytesFinite, FS_Union, FS_EmptySet
<1>. QED  BY <1>1, <1>2, <1>3, <1>5, BytesFinite, SameCount DEF Writer!SizeSum

LEMMA BytesSplit ==
  ASSUME NEW q \in Seq(WrittenFrames), NEW n \in 0 .. Len(q)
  PROVE  Writer!SizeSum(SubSeq(q, 1, n)) + Writer!SizeSum(SubSeq(q, n + 1, Len(q)))
           = Writer!SizeSum(q)
<1>. DEFINE p == SubSeq(q, 1, n)
            r == SubSeq(q, n + 1, Len(q))
            R == UNION {{i} \X (1 .. SizeOf[q[i]]) : i \in (n + 1) .. Len(q)}
<1>1. /\ p \in Seq(WrittenFrames) /\ r \in Seq(WrittenFrames)
      /\ DOMAIN p = 1 .. n /\ \A i \in 1 .. n : p[i] = q[i]
      /\ DOMAIN r = 1 .. (Len(q) - n)
      /\ \A i \in 1 .. (Len(q) - n) : r[i] = q[i + n]
      /\ DOMAIN q = 1 .. Len(q)
  OBVIOUS
<1>. HIDE DEF p, r
<1>2. Writer!BytesOf(q) = Writer!BytesOf(p) \cup R
  <2>1. Writer!BytesOf(p) = UNION {{i} \X (1 .. SizeOf[q[i]]) : i \in 1 .. n}
    BY <1>1 DEF Writer!BytesOf
  <2>. QED  BY <1>1, <2>1 DEF Writer!BytesOf
<1>3. Writer!BytesOf(p) \cap R = {}
  BY <1>1 DEF Writer!BytesOf
<1>4. IsFiniteSet(R) /\ Cardinality(R) = Writer!SizeSum(r)
  <2>. DEFINE G == [x \in Writer!BytesOf(r) |-> <<x[1] + n, x[2]>>]
  <2>1. \A x \in Writer!BytesOf(r) :
           /\ x = <<x[1], x[2]>> /\ x[1] \in 1 .. (Len(q) - n)
           /\ x[2] \in 1 .. SizeOf[q[x[1] + n]]
    BY <1>1 DEF Writer!BytesOf
  <2>2. \A i \in 1 .. (Len(q) - n) : \A b \in 1 .. SizeOf[q[i + n]] :
           <<i, b>> \in Writer!BytesOf(r)
    BY <1>1 DEF Writer!BytesOf
  <2>3. G \in [Writer!BytesOf(r) -> R]
    <3>. SUFFICES ASSUME NEW x \in Writer!BytesOf(r)
                  PROVE  <<x[1] + n, x[2]>> \in R
      OBVIOUS
    <3>1. x[1] + n \in (n + 1) .. Len(q) /\ x[2] \in 1 .. SizeOf[q[x[1] + n]]
      BY <2>1
    <3>. QED  BY <3>1
  <2>4. G \in Injection(Writer!BytesOf(r), R)
    <3>. SUFFICES ASSUME NEW x \in Writer!BytesOf(r), NEW y \in Writer!BytesOf(r),
                         G[x] = G[y]
                  PROVE  x = y
      BY <2>3 DEF Injection, IsInjective
    <3>1. x[1] + n = y[1] + n /\ x[2] = y[2]
      OBVIOUS
    <3>2. x[1] = y[1]
      BY <2>1, <3>1
    <3>. QED  BY <2>1, <3>1, <3>2
  <2>5. G \in Surjection(Writer!BytesOf(r), R)
    <3>. SUFFICES ASSUME NEW y \in R
                  PROVE  \E x \in Writer!BytesOf(r) : G[x] = y
      BY <2>3 DEF Surjection
    <3>1. PICK i \in (n + 1) .. Len(q) : y \in {i} \X (1 .. SizeOf[q[i]])
      OBVIOUS
    <3>2. y = <<i, y[2]>> /\ y[2] \in 1 .. SizeOf[q[i]]
      BY <3>1
    <3>3. i - n \in 1 .. (Len(q) - n) /\ (i - n) + n = i
      BY <3>1
    <3>4. <<i - n, y[2]>> \in Writer!BytesOf(r)
      BY <2>2, <3>2, <3>3
    <3>5. G[<<i - n, y[2]>>] = y
      BY <3>2, <3>3, <3>4
    <3>. QED  BY <3>4, <3>5
  <2>. HIDE DEF G, R
  <2>6. ExistsBijection(Writer!BytesOf(r), R)
    BY <2>4, <2>5 DEF ExistsBijection, Bijection
  <2>. QED  BY <1>1, <2>6, BytesFinite, FS_Bijection, SameCount DEF Writer!SizeSum
<1>. HIDE DEF R
<1>5. IsFiniteSet(Writer!BytesOf(p))
  BY <1>1, BytesFinite
<1>6. Cardinality(Writer!BytesOf(q))
        = Cardinality(Writer!BytesOf(p)) + Cardinality(R) - 0
  BY <1>2, <1>3, <1>4, <1>5, FS_Union, FS_EmptySet
<1>7. Writer!SizeSum(p) \in Nat /\ Writer!SizeSum(r) \in Nat
  BY <1>1, BytesFinite
<1>8. Writer!SizeSum(p) + Writer!SizeSum(r) = Writer!SizeSum(q)
  BY <1>4, <1>6, <1>7, SameCount DEF Writer!SizeSum
<1>. QED  BY <1>8 DEF p, r

-----------------------------------------------------------------------------
(* The order of the frames.                                                *)

Ordered(kept, from) ==
  /\ ToSet(kept) \subseteq ToSet(from)
  /\ \A i, j \in DOMAIN kept, k, l \in DOMAIN from :
       i < j /\ kept[i] = from[k] /\ kept[j] = from[l] => k < l

LEMMA OrderExtended ==
  ASSUME NEW kept \in Seq(WrittenFrames), NEW from \in Seq(WrittenFrames),
         Ordered(kept, from),
         NEW f \in WrittenFrames, f \notin ToSet(from)
  PROVE  /\ Ordered(Append(kept, f), Append(from, f))
         /\ Ordered(kept, Append(from, f))
<1>. DEFINE a == Append(kept, f)
            o == Append(from, f)
            m == Len(kept) + 1
            n == Len(from) + 1
<1>1. /\ DOMAIN a = 1 .. m /\ a[m] = f /\ \A i \in 1 .. Len(kept) : a[i] = kept[i]
      /\ DOMAIN o = 1 .. n /\ o[n] = f /\ \A i \in 1 .. Len(from) : o[i] = from[i]
      /\ DOMAIN kept = 1 .. Len(kept) /\ DOMAIN from = 1 .. Len(from)
      /\ Len(kept) \in Nat /\ Len(from) \in Nat
  OBVIOUS
<1>. HIDE DEF a, o
<1>2. /\ \A i \in 1 .. Len(from) : from[i] # f
      /\ \A i \in 1 .. Len(kept) : kept[i] # f
      /\ \A i \in 1 .. Len(kept) : \E k \in 1 .. Len(from) : kept[i] = from[k]
  <2>1. \A i \in 1 .. Len(from) : from[i] # f
    BY <1>1 DEF ToSet
  <2>2. \A i \in 1 .. Len(kept) : kept[i] \in ToSet(from)
    BY <1>1 DEF Ordered, ToSet
  <2>3. \A x \in ToSet(from) : \E k \in 1 .. Len(from) : x = from[k]
    BY <1>1 DEF ToSet
  <2>. QED  BY <2>1, <2>2, <2>3
<1>3. /\ ToSet(kept) \subseteq ToSet(o)
      /\ ToSet(a) \subseteq ToSet(o)
  <2>1. \A k \in 1 .. Len(from) : k \in 1 .. n /\ o[k] = from[k]
    BY <1>1
  <2>2. \A i \in 1 .. Len(kept) : \E k \in 1 .. n : kept[i] = o[k]
    BY <1>2, <2>1
  <2>3. \A i \in 1 .. m : \E k \in 1 .. n : a[i] = o[k]
    <3>1. \A i \in 1 .. m : i \in 1 .. Len(kept) \/ i = m
      BY <1>1
    <3>2. n \in 1 .. n
      BY <1>1
    <3>. QED  BY <1>1, <2>2, <3>1, <3>2
  <2>4. ToSet(kept) \subseteq {o[k] : k \in 1 .. n}
    BY <1>1, <2>2 DEF ToSet
  <2>5. ToSet(a) \subseteq {o[k] : k \in 1 .. n}
    BY <1>1, <2>3 DEF ToSet
  <2>. QED  BY <1>1, <2>4, <2>5 DEF ToSet
<1>4. ASSUME NEW i \in 1 .. m, NEW j \in 1 .. m, NEW k \in 1 .. n, NEW l \in 1 .. n,
             i < j, a[i] = o[k], a[j] = o[l]
      PROVE  k < l
  <2>1. i \in 1 .. Len(kept) /\ a[i] = kept[i] /\ a[i] # f
    BY <1>1, <1>2, <1>4
  <2>2. k \in 1 .. Len(from) /\ o[k] = from[k]
    <3>1. k # n
      BY <1>1, <1>4, <2>1
    <3>. QED  BY <1>1, <3>1
  <2>3. CASE j = m
    <3>1. l = n
      <4>1. l \in 1 .. Len(from) => o[l] # f
        BY <1>1, <1>2
      <4>. QED  BY <1>1, <1>4, <2>3, <4>1
    <3>. QED  BY <1>1, <2>2, <3>1
  <2>4. CASE j # m
    <3>1. j \in 1 .. Len(kept) /\ a[j] = kept[j] /\ a[j] # f
      BY <1>1, <1>2, <2>4
    <3>2. l \in 1 .. Len(from) /\ o[l] = from[l]
      <4>1. l # n
        BY <1>1, <1>4, <3>1
      <4>. QED  BY <1>1, <4>1
    <3>. QED  BY <1>1, <1>4, <2>1, <2>2, <3>1, <3>2 DEF Ordered
  <2>. QED  BY <2>3, <2>4
<1>5. ASSUME NEW i \in 1 .. Len(kept), NEW j \in 1 .. Len(kept),
             NEW k \in 1 .. n, NEW l \in 1 .. n,
             i < j, kept[i] = o[k], kept[j] = o[l]
      PROVE  k < l
  <2>1. i \in 1 .. m /\ j \in 1 .. m /\ a[i] = kept[i] /\ a[j] = kept[j]
    BY <1>1
  <2>. QED  BY <1>4, <1>5, <2>1
<1>6. Ordered(a, o)
  BY <1>1, <1>3, <1>4 DEF Ordered
<1>7. Ordered(kept, o)
  BY <1>1, <1>3, <1>5 DEF Ordered
<1>. QED  BY <1>6, <1>7 DEF a, o

LEMMA OrderOfPrefix ==
  ASSUME NEW front \in Seq(WrittenFrames), NEW back \in Seq(WrittenFrames),
         NEW from \in Seq(WrittenFrames), Ordered(front \o back, from)
  PROVE  Ordered(front \o <<>>, from)
<1>. DEFINE a == front \o back
<1>1. /\ front \o <<>> = front
      /\ DOMAIN front = 1 .. Len(front) /\ DOMAIN a = 1 .. (Len(front) + Len(back))
      /\ \A i \in 1 .. Len(front) : a[i] = front[i]
      /\ Len(front) \in Nat /\ Len(back) \in Nat
  OBVIOUS
<1>. HIDE DEF a
<1>2. \A i \in DOMAIN front : i \in DOMAIN a /\ a[i] = front[i]
  BY <1>1
<1>3. Ordered(a, from)
  BY DEF a
<1>4. Ordered(front, from)
  BY <1>2, <1>3 DEF Ordered, ToSet
<1>. QED  BY <1>1, <1>4

(* What is kept in order is there once.                                    *)
LEMMA OrderedOnce ==
  ASSUME NEW kept \in Seq(WrittenFrames), NEW from \in Seq(WrittenFrames),
         Ordered(kept, from)
  PROVE  IsInjective(kept)
<1>. SUFFICES ASSUME NEW i \in DOMAIN kept, NEW j \in DOMAIN kept,
                     kept[i] = kept[j], i # j
              PROVE  FALSE
  BY DEF IsInjective
<1>1. PICK k \in DOMAIN from : kept[i] = from[k]
  BY DEF Ordered, ToSet
<1>2. i \in Nat /\ j \in Nat /\ k \in Nat
  OBVIOUS
<1>3. i < j \/ j < i
  BY <1>2
<1>4. k < k
  BY <1>1, <1>3 DEF Ordered
<1>. QED  BY <1>2, <1>4

-----------------------------------------------------------------------------
(* The writer: each of its steps keeps the queue bounded and in order and  *)
(* loses no response.                                                      *)

WriterInv ==
  /\ Writer!Inv /\ Writer!MemoryBounded
  /\ Writer!InOrder /\ Writer!ResponsesKept

(* What the writer's properties say, in the terms of this module; now and  *)
(* after a step.                                                           *)
WriterTyped ==
  /\ queue \in Seq(WrittenFrames) /\ queued \in Nat
  /\ blocked \in BOOLEAN /\ dead \in BOOLEAN
  /\ sent \in Seq(WrittenFrames) /\ offered \in Seq(WrittenFrames)
  /\ cleared \subseteq WrittenFrames

ResponsesAccounted ==
  ~dead => ToSet(offered) \ Pushes
             \subseteq ToSet(sent) \cup ToSet(queue) \cup cleared

LEMMA WriterTypes ==
  (Writer!TypeOK <=> WriterTyped) /\ (Writer!TypeOK <=> WriterTyped)'
BY DEF Writer!TypeOK, WriterTyped, WrittenFrames

LEMMA WriterOrder ==
  /\ Writer!InOrder <=> Ordered(sent \o queue, offered)
  /\ Writer!InOrder' <=> Ordered(sent' \o queue', offered')
BY DEF Writer!InOrder, Ordered, Writer!ToSet, ToSet

LEMMA WriterKeeps ==
  /\ Writer!ResponsesKept <=> ResponsesAccounted
  /\ Writer!ResponsesKept' <=> ResponsesAccounted'
BY DEF Writer!ResponsesKept, ResponsesAccounted, Writer!ToSet, ToSet

LEMMA ElementsAppended ==
  ASSUME NEW s \in Seq(WrittenFrames), NEW f \in WrittenFrames
  PROVE  /\ Append(s, f) \in Seq(WrittenFrames)
         /\ ToSet(Append(s, f)) = ToSet(s) \cup {f}
<1>. DEFINE a == Append(s, f)
<1>1. /\ a \in Seq(WrittenFrames)
      /\ DOMAIN a = (1 .. Len(s)) \cup {Len(s) + 1} /\ DOMAIN s = 1 .. Len(s)
      /\ a[Len(s) + 1] = f /\ \A i \in 1 .. Len(s) : a[i] = s[i]
  OBVIOUS
<1>. HIDE DEF a
<1>2. ToSet(a) = ToSet(s) \cup {f}
  BY <1>1 DEF ToSet
<1>. QED  BY <1>1, <1>2 DEF a

LEMMA ElementsSplit ==
  ASSUME NEW s \in Seq(WrittenFrames), NEW n \in 0 .. Len(s)
  PROVE  /\ SubSeq(s, 1, n) \in Seq(WrittenFrames)
         /\ SubSeq(s, n + 1, Len(s)) \in Seq(WrittenFrames)
         /\ SubSeq(s, 1, n) \o SubSeq(s, n + 1, Len(s)) = s
         /\ Len(SubSeq(s, n + 1, Len(s))) = Len(s) - n
<1>1. /\ SubSeq(s, 1, n) \in Seq(WrittenFrames)
      /\ SubSeq(s, n + 1, Len(s)) \in Seq(WrittenFrames)
      /\ Len(SubSeq(s, n + 1, Len(s))) = Len(s) - n
  OBVIOUS
<1>2. SubSeq(s, 1, n) \o SubSeq(s, n + 1, Len(s)) = SubSeq(s, 1, Len(s))
  <2>1. /\ 1 \in 1 .. Len(s) + 1 /\ n \in 1 - 1 .. Len(s)
        /\ Len(s) \in n .. Len(s)
    OBVIOUS
  <2>. QED  BY ONLY <2>1, s \in Seq(WrittenFrames), ConcatAdjacentSubSeq
<1>3. SubSeq(s, 1, Len(s)) = s
  BY SubSeqFull
<1>. QED  BY <1>1, <1>2, <1>3

LEMMA ElementsJoined ==
  ASSUME NEW s \in Seq(WrittenFrames), NEW t \in Seq(WrittenFrames)
  PROVE  /\ s \o t \in Seq(WrittenFrames)
         /\ ToSet(s \o t) = ToSet(s) \cup ToSet(t)
<1>. DEFINE a == s \o t
<1>1. /\ a \in Seq(WrittenFrames)
      /\ DOMAIN a = 1 .. (Len(s) + Len(t)) /\ DOMAIN s = 1 .. Len(s)
      /\ DOMAIN t = 1 .. Len(t) /\ Len(s) \in Nat /\ Len(t) \in Nat
      /\ \A i \in 1 .. Len(s) : a[i] = s[i]
      /\ \A i \in 1 .. Len(t) : a[Len(s) + i] = t[i]
  OBVIOUS
<1>. HIDE DEF a
<1>2. ToSet(a) \subseteq ToSet(s) \cup ToSet(t)
  <2>1. ASSUME NEW i \in 1 .. (Len(s) + Len(t))
        PROVE  a[i] \in ToSet(s) \cup ToSet(t)
    <3>1. CASE i \in 1 .. Len(s)
      BY <1>1, <3>1 DEF ToSet
    <3>2. CASE i \notin 1 .. Len(s)
      <4>1. i - Len(s) \in 1 .. Len(t) /\ i = Len(s) + (i - Len(s))
        BY <1>1, <3>2
      <4>. QED  BY <1>1, <4>1 DEF ToSet
    <3>. QED  BY <3>1, <3>2
  <2>. QED  BY <1>1, <2>1 DEF ToSet
<1>3. ToSet(s) \cup ToSet(t) \subseteq ToSet(a)
  <2>1. \A i \in 1 .. Len(s) : i \in 1 .. (Len(s) + Len(t))
    BY <1>1
  <2>2. \A i \in 1 .. Len(t) : Len(s) + i \in 1 .. (Len(s) + Len(t))
    BY <1>1
  <2>. QED  BY <1>1, <2>1, <2>2 DEF ToSet
<1>. QED  BY <1>1, <1>2, <1>3 DEF a

LEMMA WriterInit == Writer!Init => WriterInv
<1>. SUFFICES ASSUME Writer!Init PROVE WriterInv
  OBVIOUS
<1>1. /\ queue = <<>> /\ queued = 0 /\ blocked = FALSE /\ dead = FALSE
      /\ sent = <<>> /\ offered = <<>> /\ cleared = {}
  BY DEF Writer!Init
<1>2. Writer!TypeOK
  <2>1. <<>> \in Seq(WrittenFrames)
    OBVIOUS
  <2>. QED  BY <1>1, <2>1, WriterTypes DEF WriterTyped
<1>3. Writer!MemoryBounded
  BY <1>1, NoBytes, WriterAssumption DEF Writer!MemoryBounded
<1>4. Writer!InOrder
  <2>1. sent \o queue = <<>>
    BY <1>1
  <2>. QED  BY <1>1, <2>1, WriterOrder DEF Ordered, ToSet
<1>5. Writer!ResponsesKept
  BY <1>1, WriterKeeps DEF ResponsesAccounted, ToSet
<1>. QED  BY <1>1, <1>2, <1>3, <1>4, <1>5
          DEF WriterInv, Writer!Inv, Writer!DrainWillFlush

LEMMA WriterWrites ==
  ASSUME WriterInv, NEW f \in WrittenFrames,
         \/ Writer!WriteThrough(f) \/ Writer!Enqueue(f)
         \/ Writer!Shed(f) \/ Writer!Overflow(f)
  PROVE  WriterInv'
<1>1. /\ Writer!TypeOK /\ Writer!DrainWillFlush /\ Writer!MemoryBounded
      /\ Writer!InOrder /\ Writer!ResponsesKept
  BY DEF WriterInv, Writer!Inv
<1>2. /\ queue \in Seq(WrittenFrames) /\ queued \in Nat
      /\ blocked \in BOOLEAN /\ dead \in BOOLEAN
      /\ sent \in Seq(WrittenFrames) /\ offered \in Seq(WrittenFrames)
      /\ cleared \subseteq WrittenFrames
  BY <1>1, WriterTypes DEF WriterTyped
<1>3. /\ f \notin ToSet(offered) /\ offered' = Append(offered, f)
      /\ cleared' = cleared
  BY DEF Writer!WriteThrough, Writer!Enqueue, Writer!Shed, Writer!Overflow,
         Writer!Offer, Writer!ToSet, ToSet
<1>4. /\ offered' \in Seq(WrittenFrames)
      /\ ToSet(offered') = ToSet(offered) \cup {f}
  BY <1>2, <1>3, ElementsAppended
<1>5. SizeOf[f] \in Nat \ {0} /\ MaxQueued \in Nat /\ HardMax \in Nat
      /\ MaxQueued <= HardMax
  BY WriterAssumption DEF WrittenFrames
<1>6. queued = Writer!SizeSum(queue) /\ (queued > HardMax => Len(queue) = 1)
  BY <1>1 DEF Writer!MemoryBounded
<1>7. sent \o queue \in Seq(WrittenFrames)
  BY <1>2
<1>8. /\ Ordered(Append(sent \o queue, f), offered')
      /\ Ordered(sent \o queue, offered')
  BY <1>1, <1>2, <1>3, <1>7, WriterOrder, OrderExtended
<1>9. ~dead /\ (ToSet(offered) \ Pushes
                  \subseteq ToSet(sent) \cup ToSet(queue) \cup cleared)
  <2>1. ~dead
    BY DEF Writer!WriteThrough, Writer!Enqueue, Writer!Shed, Writer!Overflow
  <2>. QED  BY <1>1, <2>1, WriterKeeps DEF ResponsesAccounted
<1>10. CASE Writer!WriteThrough(f)
  <2>1. /\ queue = <<>> /\ sent' = Append(sent, f) /\ blocked' \in BOOLEAN
        /\ queue' = queue /\ queued' = queued /\ dead' = dead
    BY <1>10 DEF Writer!WriteThrough
  <2>2. sent' \in Seq(WrittenFrames) /\ ToSet(sent') = ToSet(sent) \cup {f}
    BY <1>2, <2>1, ElementsAppended
  <2>3. Writer!TypeOK'
    BY <1>2, <1>3, <1>4, <2>1, <2>2, WriterTypes DEF WriterTyped
  <2>4. Writer!MemoryBounded' /\ Writer!DrainWillFlush'
    BY <1>1, <2>1 DEF Writer!MemoryBounded, Writer!DrainWillFlush
  <2>5. Writer!InOrder'
    <3>1. sent' \o queue' = Append(sent \o queue, f)
      BY <1>2, <2>1
    <3>. QED  BY <1>8, <3>1, WriterOrder
  <2>6. Writer!ResponsesKept'
    BY <1>3, <1>4, <1>9, <2>1, <2>2, WriterKeeps DEF ResponsesAccounted
  <2>. QED  BY <2>3, <2>4, <2>5, <2>6 DEF WriterInv, Writer!Inv
<1>11. CASE Writer!Enqueue(f)
  <2>1. /\ blocked \/ queue # <<>>
        /\ queue' = Append(queue, f) /\ queued' = queued + SizeOf[f]
        /\ sent' = sent /\ blocked' = blocked /\ dead' = dead
        /\ \/ f \in Pushes /\ queued + SizeOf[f] <= MaxQueued
           \/ queued = 0
           \/ queued + SizeOf[f] <= HardMax
    BY <1>2, <1>5, <1>11
       DEF Writer!Enqueue, Writer!Queued, Writer!Sheds, Writer!Overflows
  <2>2. queue' \in Seq(WrittenFrames) /\ ToSet(queue') = ToSet(queue) \cup {f}
    BY <1>2, <2>1, ElementsAppended
  <2>3. Writer!TypeOK'
    BY <1>2, <1>3, <1>4, <1>5, <2>1, <2>2, WriterTypes DEF WriterTyped
  <2>4. Writer!MemoryBounded'
    <3>1. queued' = Writer!SizeSum(queue')
      BY <1>2, <1>6, <2>1, BytesAppended
    <3>2. queued = 0 => queue = <<>>
      <4>1. queue # <<>> => Writer!SizeSum(queue) > 0
        BY <1>2, SomeBytes
      <4>. QED  BY <1>2, <1>6, <4>1
    <3>3. queued' > HardMax => Len(queue') = 1
      <4>1. queued' > HardMax => queue = <<>>
        BY <1>2, <1>5, <2>1, <3>2
      <4>. QED  BY <1>2, <2>1, <4>1
    <3>. QED  BY <3>1, <3>3 DEF Writer!MemoryBounded, Writer!SizeSum, Writer!BytesOf
  <2>5. Writer!InOrder'
    <3>1. sent' \o queue' = Append(sent \o queue, f)
      BY <1>2, <2>1
    <3>. QED  BY <1>8, <3>1, WriterOrder
  <2>6. Writer!ResponsesKept'
    BY <1>3, <1>4, <1>9, <2>1, <2>2, WriterKeeps DEF ResponsesAccounted
  <2>7. Writer!DrainWillFlush'
    BY <1>1, <2>1 DEF Writer!DrainWillFlush
  <2>. QED  BY <2>3, <2>4, <2>5, <2>6, <2>7 DEF WriterInv, Writer!Inv
<1>12. CASE Writer!Shed(f)
  <2>1. /\ f \in Pushes
        /\ queue' = queue /\ queued' = queued
        /\ sent' = sent /\ blocked' = blocked /\ dead' = dead
    BY <1>12 DEF Writer!Shed, Writer!Sheds
  <2>2. Writer!TypeOK'
    BY <1>2, <1>3, <1>4, <2>1, WriterTypes DEF WriterTyped
  <2>3. Writer!MemoryBounded' /\ Writer!DrainWillFlush'
    BY <1>1, <2>1 DEF Writer!MemoryBounded, Writer!DrainWillFlush
  <2>4. Writer!InOrder'
    BY <1>8, <2>1, WriterOrder
  <2>5. Writer!ResponsesKept'
    BY <1>3, <1>4, <1>9, <2>1, WriterKeeps DEF ResponsesAccounted
  <2>. QED  BY <2>2, <2>3, <2>4, <2>5 DEF WriterInv, Writer!Inv
<1>13. CASE Writer!Overflow(f)
  <2>1. /\ dead' = TRUE /\ queue' = <<>> /\ queued' = 0
        /\ blocked' = blocked /\ sent' = sent
    BY <1>13 DEF Writer!Overflow
  <2>2. Writer!TypeOK'
    BY <1>2, <1>3, <1>4, <2>1, WriterTypes DEF WriterTyped
  <2>3. Writer!MemoryBounded' /\ Writer!DrainWillFlush'
    BY <1>5, <2>1, NoBytes DEF Writer!MemoryBounded, Writer!DrainWillFlush
  <2>4. Writer!InOrder'
    BY <1>2, <1>4, <1>8, <2>1, OrderOfPrefix, WriterOrder
  <2>5. Writer!ResponsesKept'
    BY <2>1, WriterKeeps DEF ResponsesAccounted
  <2>. QED  BY <2>2, <2>3, <2>4, <2>5 DEF WriterInv, Writer!Inv
<1>. QED  BY <1>10, <1>11, <1>12, <1>13

LEMMA WriterDrains ==
  ASSUME WriterInv, NEW n \in Nat, Writer!Drain(n)
  PROVE  WriterInv'
<1>1. /\ Writer!TypeOK /\ Writer!DrainWillFlush /\ Writer!MemoryBounded
      /\ Writer!InOrder /\ Writer!ResponsesKept
  BY DEF WriterInv, Writer!Inv
<1>2. /\ queue \in Seq(WrittenFrames) /\ queued \in Nat
      /\ blocked \in BOOLEAN /\ dead \in BOOLEAN
      /\ sent \in Seq(WrittenFrames) /\ offered \in Seq(WrittenFrames)
      /\ cleared \subseteq WrittenFrames
  BY <1>1, WriterTypes DEF WriterTyped
<1>. DEFINE p == SubSeq(queue, 1, n)
            r == SubSeq(queue, n + 1, Len(queue))
<1>3. n \in 0 .. Len(queue) /\ (n < Len(queue) => n > 0)
  BY <1>2 DEF Writer!Drain
<1>4. /\ blocked' \in IF n = Len(queue) /\ n > 0 THEN BOOLEAN ELSE {n > 0}
      /\ sent' = sent \o p /\ queue' = r
      /\ queued' = queued - Writer!SizeSum(p)
      /\ dead' = dead /\ offered' = offered /\ cleared' = cleared
  BY DEF Writer!Drain
<1>5. /\ p \in Seq(WrittenFrames) /\ r \in Seq(WrittenFrames)
      /\ p \o r = queue /\ Len(r) = Len(queue) - n
  BY <1>2, <1>3, ElementsSplit
<1>6. Writer!SizeSum(p) + Writer!SizeSum(r) = Writer!SizeSum(queue)
  BY <1>2, <1>3, BytesSplit
<1>. HIDE DEF p, r
<1>7. Writer!SizeSum(p) \in Nat /\ Writer!SizeSum(r) \in Nat
  BY <1>5, BytesFinite
<1>8. queued = Writer!SizeSum(queue) /\ (queued > HardMax => Len(queue) = 1)
  BY <1>1 DEF Writer!MemoryBounded
<1>9. queued' = Writer!SizeSum(r) /\ queued' <= queued
  BY <1>4, <1>6, <1>7, <1>8
<1>10. blocked' \in BOOLEAN /\ (r # <<>> => blocked')
  <2>1. r # <<>> => n < Len(queue)
    BY <1>2, <1>3, <1>5
  <2>2. r # <<>> => n # Len(queue) /\ n > 0
    BY <1>2, <1>3, <2>1
  <2>3. blocked' \in BOOLEAN /\ (n # Len(queue) /\ n > 0 => blocked' = TRUE)
    <3>1. CASE n = Len(queue) /\ n > 0
      BY <1>4, <3>1
    <3>2. CASE ~(n = Len(queue) /\ n > 0)
      <4>1. blocked' = (n > 0)
        BY <1>4, <3>2
      <4>2. blocked' \in BOOLEAN /\ (n > 0 => blocked' = TRUE)
        <5>. DEFINE some == n > 0
        <5>1. blocked' = some /\ some \in BOOLEAN
          BY <4>1
        <5>. HIDE DEF some
        <5>2. blocked' \in BOOLEAN /\ (some => blocked' = TRUE)
          BY ONLY <5>1, Zenon
        <5>. QED  BY <5>2 DEF some
      <4>. QED  BY <4>2
    <3>. QED  BY <3>1, <3>2
  <2>. QED  BY <2>2, <2>3
<1>11. sent' \in Seq(WrittenFrames) /\ sent' \o queue' = sent \o queue
  <2>1. sent \o p \in Seq(WrittenFrames)
    BY <1>2, <1>5
  <2>2. (sent \o p) \o r = sent \o (p \o r)
    <3>1. /\ sent \in Seq(WrittenFrames) /\ p \in Seq(WrittenFrames)
          /\ r \in Seq(WrittenFrames)
      BY <1>2, <1>5
    <3>. QED  BY ONLY <3>1, ConcatAssociative
  <2>. QED  BY <1>4, <1>5, <2>1, <2>2
<1>12. ToSet(sent') \cup ToSet(queue') = ToSet(sent) \cup ToSet(queue)
  <2>1. ToSet(sent \o p) = ToSet(sent) \cup ToSet(p)
    BY <1>2, <1>5, ElementsJoined
  <2>2. ToSet(p \o r) = ToSet(p) \cup ToSet(r)
    BY <1>5, ElementsJoined
  <2>. QED  BY <1>4, <1>5, <2>1, <2>2
<1>13. Writer!TypeOK'
  BY <1>2, <1>4, <1>5, <1>7, <1>9, <1>10, <1>11, WriterTypes DEF WriterTyped
<1>14. Writer!DrainWillFlush'
  BY <1>4, <1>10 DEF Writer!DrainWillFlush
<1>15. Writer!MemoryBounded'
  <2>1. queued' > HardMax => Len(r) = 1
    <3>1. CASE queued > HardMax
      <4>1. Len(queue) = 1
        BY <1>8, <3>1
      <4>2. n = 1 /\ Len(r) = 0
        BY <1>3, <1>5, <4>1
      <4>3. r = <<>>
        BY <1>5, <4>2
      <4>. QED  BY <1>9, <4>3, NoBytes, WriterAssumption
    <3>2. CASE ~(queued > HardMax)
      BY <1>2, <1>7, <1>9, <3>2, WriterAssumption
    <3>. QED  BY <3>1, <3>2
  <2>2. queued' = Writer!SizeSum(queue')
    BY <1>4, <1>9
  <2>. QED  BY <1>4, <2>1, <2>2 DEF Writer!MemoryBounded, Writer!SizeSum, Writer!BytesOf
<1>16. Writer!InOrder'
  BY <1>1, <1>4, <1>11, WriterOrder
<1>17. Writer!ResponsesKept'
  BY <1>1, <1>4, <1>12, WriterKeeps DEF ResponsesAccounted
<1>. QED  BY <1>13, <1>14, <1>15, <1>16, <1>17 DEF WriterInv, Writer!Inv

LEMMA WriterClears ==
  ASSUME WriterInv, Writer!Clear
  PROVE  WriterInv'
<1>1. /\ Writer!TypeOK /\ Writer!InOrder /\ Writer!ResponsesKept
  BY DEF WriterInv, Writer!Inv
<1>2. /\ queue \in Seq(WrittenFrames) /\ queued \in Nat
      /\ blocked \in BOOLEAN /\ dead \in BOOLEAN
      /\ sent \in Seq(WrittenFrames) /\ offered \in Seq(WrittenFrames)
      /\ cleared \subseteq WrittenFrames
  BY <1>1, WriterTypes DEF WriterTyped
<1>3. /\ cleared' = cleared \cup ToSet(queue) /\ queue' = <<>> /\ queued' = 0
      /\ blocked' = blocked /\ dead' = dead /\ sent' = sent /\ offered' = offered
  BY DEF Writer!Clear, Writer!ToSet, ToSet
<1>4. ToSet(queue) \subseteq WrittenFrames
  BY <1>2 DEF ToSet
<1>5. Writer!TypeOK'
  BY <1>2, <1>3, <1>4, WriterTypes DEF WriterTyped
<1>6. Writer!MemoryBounded' /\ Writer!DrainWillFlush'
  BY <1>3, NoBytes, WriterAssumption DEF Writer!MemoryBounded, Writer!DrainWillFlush
<1>7. Writer!InOrder'
  BY <1>1, <1>2, <1>3, OrderOfPrefix, WriterOrder
<1>8. Writer!ResponsesKept'
  BY <1>1, <1>3, WriterKeeps DEF ResponsesAccounted
<1>. QED  BY <1>5, <1>6, <1>7, <1>8 DEF WriterInv, Writer!Inv

-----------------------------------------------------------------------------
(* The channel: each of its steps keeps the gate in step with the work and *)
(* answers no request twice.                                               *)

ChannelInv ==
  /\ Channel!Inv /\ Channel!AnsweredOnce
  /\ ~stopped => failures < MaxFailures
  /\ kind = "host" => ~paused
  /\ \A r \in Requests : phase[r] = "asking" => kind = "host"

ChannelTyped ==
  /\ kind \in {"socket", "host"} /\ kind \in Kinds
  /\ stopped \in BOOLEAN
  /\ failures \in Nat /\ failures <= MaxFailures
  /\ phase \in [Requests -> {"new", "routing", "asking", "settled"}]
  /\ answers \in [Requests -> Seq({"response", "failed", "invalid"})]
  /\ pending \in Nat /\ pending <= Cardinality(Requests)
  /\ paused \in BOOLEAN

LEMMA ChannelTypes ==
  (Channel!TypeOK <=> ChannelTyped) /\ (Channel!TypeOK <=> ChannelTyped)'
<1>1. Cardinality(Requests) \in Nat /\ Channel!Cardinality(Requests) = Cardinality(Requests)
  BY ChannelAssumption, FS_CardinalityType, SameCount
<1>2. \A x : x \in 0 .. Cardinality(Requests) <=> x \in Nat /\ x <= Cardinality(Requests)
  BY <1>1
<1>3. \A x : x \in 0 .. MaxFailures <=> x \in Nat /\ x <= MaxFailures
  BY ChannelAssumption
<1>. QED
  BY <1>1, <1>2, <1>3, ChannelAssumption
     DEF Channel!TypeOK, ChannelTyped, Channel!Phases, Channel!AnswerKinds

LEMMA GateThresholds ==
  /\ MaxPending \in Nat \ {0} /\ Channel!Low \in Nat /\ Channel!Low < MaxPending
BY ChannelAssumption DEF Channel!Low

Waiting == {r \in Requests : phase[r] \in {"routing", "asking"}}

GateInStep ==
  kind = "socket" =>
    /\ pending = Cardinality(Waiting)
    /\ pending >= MaxPending => paused
    /\ paused => pending > Channel!Low

LEMMA GateMeans ==
  /\ Channel!GateFollowsWork <=> GateInStep
  /\ Channel!GateFollowsWork' <=> GateInStep'
BY SameCount DEF Channel!GateFollowsWork, GateInStep, Channel!Gated,
                 Channel!Unsettled, Waiting

LEMMA WaitingFinite ==
  /\ IsFiniteSet(Waiting) /\ Cardinality(Waiting) \in Nat
  /\ IsFiniteSet(Waiting') /\ Cardinality(Waiting') \in Nat
  /\ Cardinality(Waiting) <= Cardinality(Requests)
  /\ Cardinality(Waiting') <= Cardinality(Requests)
<1>1. IsFiniteSet(Requests)
  BY ChannelAssumption
<1>2. Waiting \in SUBSET Requests /\ Waiting' \in SUBSET Requests
  BY DEF Waiting
<1>. QED  BY <1>1, <1>2, FS_Subset, FS_CardinalityType

LEMMA ItemsTyped ==
  ASSUME NEW batch \in Batches
  PROVE  \A i \in DOMAIN batch :
           /\ batch[i].id \in Requests
           /\ batch[i].kind \in {"request", "badRequest", "response", "badResponse"}
<1>1. \A item \in Items :
        /\ item.id \in Requests
        /\ item.kind \in {"request", "badRequest", "response", "badResponse"}
  <2>. SUFFICES ASSUME NEW item \in Items
                PROVE  /\ item.id \in Requests
                       /\ item.kind \in {"request", "badRequest", "response",
                                         "badResponse"}
    OBVIOUS
  <2>1. PICK r \in Requests, defect \in Defects,
             type \in {"INVOKE_REQUEST", "HOST_INVOKE_RESPONSE"} :
               item = [kind |-> Disposition(Received(r, type, defect)), id |-> r]
    BY DEF Items
  <2>2. item.kind \notin {"violation", "skipped"}
    BY DEF Items
  <2>3. Received(r, type, defect).kind \in {"violation", "message", "rejected"}
    BY DEF Received, Decode, Verdict
  <2>. QED  BY <2>1, <2>2, <2>3 DEF Disposition
<1>2. PICK n \in 0 .. MaxBatch : batch \in [1 .. n -> Items]
  BY DEF Batches
<1>. QED  BY <1>1, <1>2

LEMMA ChannelInit == Channel!Init => ChannelInv
<1>. SUFFICES ASSUME Channel!Init PROVE ChannelInv
  OBVIOUS
<1>1. /\ kind \in Kinds /\ stopped = FALSE /\ failures = 0
      /\ phase = [r \in Requests |-> "new"]
      /\ answers = [r \in Requests |-> <<>>]
      /\ pending = 0 /\ paused = FALSE
  BY DEF Channel!Init
<1>2. Channel!TypeOK
  <2>1. <<>> \in Seq({"response", "failed", "invalid"})
    OBVIOUS
  <2>2. Cardinality(Requests) \in Nat
    BY ChannelAssumption, FS_CardinalityType
  <2>3. /\ phase \in [Requests -> {"new", "routing", "asking", "settled"}]
        /\ answers \in [Requests -> Seq({"response", "failed", "invalid"})]
    BY <1>1, <2>1
  <2>4. ChannelTyped
    <3>1. kind \in {"socket", "host"} /\ kind \in Kinds
      BY <1>1, ChannelAssumption
    <3>2. failures \in Nat /\ failures <= MaxFailures
      BY <1>1, ChannelAssumption
    <3>3. pending \in Nat /\ pending <= Cardinality(Requests)
      BY <1>1, <2>2
    <3>4. stopped \in BOOLEAN /\ paused \in BOOLEAN
      BY <1>1
    <3>. QED  BY <2>3, <3>1, <3>2, <3>3, <3>4 DEF ChannelTyped
  <2>. QED  BY <2>4, ChannelTypes
<1>3. Channel!GateFollowsWork
  <2>1. Waiting = {}
    BY <1>1 DEF Waiting
  <2>. QED  BY <1>1, <2>1, FS_EmptySet, GateMeans, GateThresholds DEF GateInStep
<1>4. Channel!AnsweredOnce
  BY <1>1 DEF Channel!AnsweredOnce
<1>. QED  BY <1>1, <1>2, <1>3, <1>4, ChannelAssumption DEF ChannelInv, Channel!Inv

LEMMA ChannelPushes ==
  ASSUME ChannelInv, NEW batch \in Batches, NEW violation \in BOOLEAN,
         Channel!Push(batch, violation)
  PROVE  /\ ChannelInv'
         /\ \A r \in Requests : answers[r] # <<>> => answers'[r] # <<>>
<1>. DEFINE routed   == Channel!Named(batch, {"request"})
            resumed  == Channel!Named(batch, {"response", "badResponse"})
            rejected == Channel!Named(batch, {"badRequest"})
<1>1. /\ ~stopped /\ ~paused
      /\ Channel!Possible(batch)
      /\ phase' = [r \in Requests |-> Channel!Handled(r, routed, resumed, rejected)]
      /\ answers' = [r \in Requests |->
                       IF r \in rejected THEN Append(answers[r], "invalid")
                                         ELSE answers[r]]
      /\ Channel!TrackWork(Channel!Cardinality(routed))
      /\ Channel!JudgeStream(violation)
      /\ kind' = kind
  BY DEF Channel!Push
<1>2. ChannelTyped /\ GateInStep /\ Channel!AnsweredOnce
  BY ChannelTypes, GateMeans DEF ChannelInv, Channel!Inv
<1>3. /\ routed \subseteq Requests /\ resumed \subseteq Requests
      /\ rejected \subseteq Requests
  BY ItemsTyped DEF Channel!Named
<1>4. /\ \A r \in routed \cup rejected : phase[r] = "new"
      /\ \A r \in resumed : kind = "host" /\ phase[r] = "asking"
      /\ routed \cap rejected = {}
  BY <1>1 DEF Channel!Possible, Channel!Named
<1>. HIDE DEF routed, resumed, rejected
<1>5. ASSUME NEW r \in Requests
      PROVE  /\ phase'[r] = IF r \in rejected THEN "settled"
                            ELSE IF r \in routed
                              THEN IF Channel!AsksHost(r) THEN "asking" ELSE "routing"
                            ELSE IF r \in resumed THEN "routing" ELSE phase[r]
             /\ phase'[r] \in {"new", "routing", "asking", "settled"}
  <2>1. phase'[r] = Channel!Handled(r, routed, resumed, rejected)
    BY <1>1
  <2>2. phase[r] \in {"new", "routing", "asking", "settled"}
    BY <1>2 DEF ChannelTyped
  <2>3. phase'[r] = IF r \in rejected THEN "settled"
                    ELSE IF r \in routed
                      THEN IF Channel!AsksHost(r) THEN "asking" ELSE "routing"
                    ELSE IF r \in resumed THEN "routing" ELSE phase[r]
    <3>1. /\ r \in rejected => r \notin routed /\ r \notin resumed
          /\ r \in routed => r \notin resumed
      BY <1>4
    <3>. QED  BY <2>1, <3>1 DEF Channel!Handled
  <2>. QED  BY <2>2, <2>3
<1>6. ASSUME NEW r \in Requests
      PROVE  /\ answers'[r] \in Seq({"response", "failed", "invalid"})
             /\ Len(answers'[r]) <= IF phase'[r] = "settled" THEN 1 ELSE 0
             /\ answers[r] # <<>> => answers'[r] # <<>>
  <2>1. /\ answers[r] \in Seq({"response", "failed", "invalid"})
        /\ Len(answers[r]) \in Nat
        /\ Len(answers[r]) <= IF phase[r] = "settled" THEN 1 ELSE 0
    BY <1>2 DEF ChannelTyped, Channel!AnsweredOnce
  <2>2. CASE r \in rejected
    <3>1. phase[r] = "new" /\ phase'[r] = "settled"
      BY <1>4, <1>5, <2>2
    <3>2. answers'[r] = Append(answers[r], "invalid")
      BY <1>1, <2>2
    <3>3. /\ Append(answers[r], "invalid") \in Seq({"response", "failed", "invalid"})
          /\ Len(Append(answers[r], "invalid")) = Len(answers[r]) + 1
          /\ Append(answers[r], "invalid") # <<>>
      BY <2>1
    <3>. QED  BY <2>1, <3>1, <3>2, <3>3
  <2>3. CASE r \notin rejected
    <3>1. answers'[r] = answers[r]
      BY <1>1, <2>3
    <3>2. phase[r] = "settled" => phase'[r] = "settled"
      BY <1>4, <1>5, <2>3
    <3>. QED  BY <2>1, <3>1, <3>2
  <2>. QED  BY <2>2, <2>3
<1>7. /\ stopped' \in BOOLEAN /\ failures' \in Nat /\ failures' <= MaxFailures
      /\ ~stopped' => failures' < MaxFailures
  <2>1. failures \in Nat /\ failures < MaxFailures /\ stopped \in BOOLEAN
        /\ MaxFailures \in Nat \ {0}
    BY <1>1, <1>2, ChannelAssumption DEF ChannelTyped, ChannelInv
  <2>2. CASE violation /\ kind = "socket"
    BY <1>1, <2>1, <2>2 DEF Channel!JudgeStream
  <2>3. CASE violation /\ kind = "host"
    <3>. DEFINE givenUp == failures + 1 >= MaxFailures
    <3>1. failures' = failures + 1 /\ stopped' = givenUp /\ givenUp \in BOOLEAN
      BY <1>1, <2>3 DEF Channel!JudgeStream
    <3>2. ~givenUp => failures + 1 < MaxFailures
      BY <2>1
    <3>. HIDE DEF givenUp
    <3>3. stopped' \in BOOLEAN /\ (~stopped' => ~givenUp)
      BY ONLY <3>1, Zenon
    <3>. QED  BY <2>1, <3>1, <3>2, <3>3
  <2>4. CASE ~violation
    BY <1>1, <2>1, <2>4 DEF Channel!JudgeStream
  <2>. QED  BY <1>2, <2>2, <2>3, <2>4 DEF ChannelTyped
<1>8. /\ pending' \in Nat /\ pending' <= Cardinality(Requests)
      /\ paused' \in BOOLEAN
      /\ kind' = "host" => ~paused'
      /\ GateInStep'
  <2>1. CASE kind = "host"
    <3>1. pending' = pending /\ paused' = paused
      BY <1>1, <2>1 DEF Channel!TrackWork, Channel!Gated
    <3>. QED  BY <1>1, <1>2, <2>1, <3>1 DEF ChannelTyped, GateInStep
  <2>2. CASE kind = "socket"
    <3>. DEFINE n == Cardinality(routed)
                full == pending + n >= MaxPending
    <3>1. /\ pending' = pending + n
          /\ paused' = (paused \/ full)
      BY <1>1, <2>2, SameCount DEF Channel!TrackWork, Channel!Gated
    <3>2. Waiting' = Waiting \cup routed
      <4>1. resumed = {}
        BY <1>4, <2>2
      <4>2. ASSUME NEW r \in Requests
            PROVE  phase'[r] \in {"routing", "asking"}
                     <=> phase[r] \in {"routing", "asking"} \/ r \in routed
        <5>1. ~Channel!AsksHost(r)
          BY <2>2 DEF Channel!AsksHost
        <5>. QED  BY <1>4, <1>5, <4>1, <5>1
      <4>. QED  BY <1>3, <4>2 DEF Waiting
    <3>3. Waiting \cap routed = {}
      BY <1>4 DEF Waiting
    <3>4. IsFiniteSet(routed) /\ n \in Nat
      BY <1>3, ChannelAssumption, FS_Subset, FS_CardinalityType
    <3>5. Cardinality(Waiting \cup routed) = Cardinality(Waiting) + n - 0
      BY <3>3, <3>4, WaitingFinite, FS_Union, FS_EmptySet
    <3>6. pending = Cardinality(Waiting)
      BY <1>2, <2>2 DEF GateInStep
    <3>7. pending' = Cardinality(Waiting')
      BY <3>1, <3>2, <3>4, <3>5, <3>6, WaitingFinite
    <3>8. full \in BOOLEAN
      OBVIOUS
    <3>9. full <=> pending' >= MaxPending
      BY <3>1
    <3>. HIDE DEF full, n
    <3>10. paused' = full /\ paused' \in BOOLEAN
      BY ONLY <1>1, <3>1, <3>8, Zenon
    <3>11. pending' >= MaxPending => pending' > Channel!Low
      BY <3>7, WaitingFinite, GateThresholds
    <3>12. GateInStep'
      <4>1. (paused' <=> pending' >= MaxPending)
        BY ONLY <3>9, <3>10, Zenon
      <4>. QED  BY <3>7, <3>11, <4>1 DEF GateInStep
    <3>. QED  BY <1>1, <2>2, <3>7, <3>10, <3>12, WaitingFinite
  <2>. QED  BY <1>2, <2>1, <2>2 DEF ChannelTyped
<1>9. ASSUME NEW r \in Requests, phase'[r] = "asking"
      PROVE  kind' = "host"
  BY <1>1, <1>5, <1>9 DEF ChannelInv, Channel!AsksHost
<1>10. ChannelTyped'
  <2>1. phase' \in [Requests -> {"new", "routing", "asking", "settled"}]
    BY <1>1, <1>5
  <2>2. answers' \in [Requests -> Seq({"response", "failed", "invalid"})]
    BY <1>1, <1>6
  <2>. QED  BY <1>1, <1>2, <1>7, <1>8, <2>1, <2>2 DEF ChannelTyped
<1>11. Channel!AnsweredOnce'
  BY <1>6 DEF Channel!AnsweredOnce
<1>12. ChannelInv'
  BY <1>7, <1>8, <1>9, <1>10, <1>11, ChannelTypes, GateMeans
     DEF ChannelInv, Channel!Inv
<1>. QED  BY <1>6, <1>12

LEMMA ChannelStops ==
  ASSUME ChannelInv, Channel!PushNonBinary \/ Channel!Close
  PROVE  ChannelInv' /\ answers' = answers
<1>1. /\ stopped' = TRUE
      /\ UNCHANGED <<kind, failures, phase, answers, pending, paused>>
  BY DEF Channel!PushNonBinary, Channel!Close
<1>2. ChannelTyped /\ GateInStep /\ Channel!AnsweredOnce
  BY ChannelTypes, GateMeans DEF ChannelInv, Channel!Inv
<1>3. ChannelTyped' /\ Waiting' = Waiting
  BY <1>1, <1>2 DEF ChannelTyped, Waiting
<1>4. GateInStep' /\ Channel!AnsweredOnce'
  BY <1>1, <1>2, <1>3 DEF GateInStep, Channel!AnsweredOnce
<1>. QED  BY <1>1, <1>3, <1>4, ChannelTypes, GateMeans DEF ChannelInv, Channel!Inv

LEMMA ChannelRoutes ==
  ASSUME ChannelInv, NEW r \in Requests,
         NEW written \in {<<>>, <<"response">>, <<"failed">>},
         Channel!RouteEnds(r, written)
  PROVE  /\ ChannelInv'
         /\ \A s \in Requests : answers[s] # <<>> => answers'[s] # <<>>
<1>1. /\ phase[r] = "routing"
      /\ phase' = [phase EXCEPT ![r] = "settled"]
      /\ answers' = [answers EXCEPT ![r] = @ \o written]
      /\ Channel!WorkDone
      /\ UNCHANGED <<kind, stopped, failures>>
  BY DEF Channel!RouteEnds
<1>2. ChannelTyped /\ GateInStep /\ Channel!AnsweredOnce
  BY ChannelTypes, GateMeans DEF ChannelInv, Channel!Inv
<1>3. ASSUME NEW s \in Requests
      PROVE  /\ phase'[s] = IF s = r THEN "settled" ELSE phase[s]
             /\ answers'[s] \in Seq({"response", "failed", "invalid"})
             /\ Len(answers'[s]) <= IF phase'[s] = "settled" THEN 1 ELSE 0
             /\ answers[s] # <<>> => answers'[s] # <<>>
  <2>1. /\ answers[s] \in Seq({"response", "failed", "invalid"})
        /\ Len(answers[s]) \in Nat
        /\ Len(answers[s]) <= IF phase[s] = "settled" THEN 1 ELSE 0
    BY <1>2 DEF ChannelTyped, Channel!AnsweredOnce
  <2>2. phase'[s] = IF s = r THEN "settled" ELSE phase[s]
    BY <1>1, <1>2 DEF ChannelTyped
  <2>3. CASE s = r
    <3>1. answers[r] = <<>>
      BY <1>1, <2>1, <2>3
    <3>2. answers'[r] = <<>> \o written
      BY <1>1, <1>2, <3>1 DEF ChannelTyped
    <3>3. /\ written \in Seq({"response", "failed", "invalid"})
          /\ Len(written) <= 1
      <4>1. CASE written = <<>>
        BY <4>1
      <4>2. CASE written = <<"response">>
        BY <4>2
      <4>3. CASE written = <<"failed">>
        BY <4>3
      <4>. QED  BY <4>1, <4>2, <4>3
    <3>4. answers'[r] = written
      BY <3>2, <3>3
    <3>. QED  BY <2>2, <2>3, <3>1, <3>3, <3>4
  <2>4. CASE s # r
    <3>1. answers'[s] = answers[s] /\ phase'[s] = phase[s]
      BY <1>1, <1>2, <2>4 DEF ChannelTyped
    <3>. QED  BY <2>1, <2>2, <2>4, <3>1
  <2>. QED  BY <2>3, <2>4
<1>4. /\ pending' \in Nat /\ pending' <= Cardinality(Requests)
      /\ paused' \in BOOLEAN
      /\ kind' = "host" => ~paused'
      /\ GateInStep'
  <2>1. CASE kind = "host"
    <3>1. pending' = pending /\ paused' = paused
      BY <1>1, <2>1 DEF Channel!WorkDone, Channel!Gated
    <3>. QED  BY <1>1, <1>2, <2>1, <3>1 DEF ChannelTyped, GateInStep, ChannelInv
  <2>2. CASE kind = "socket"
    <3>. DEFINE busy == pending - 1 > Channel!Low
    <3>1. pending' = pending - 1 /\ paused' = (paused /\ busy)
      BY <1>1, <2>2 DEF Channel!WorkDone, Channel!Gated
    <3>2. Waiting' = Waiting \ {r} /\ r \in Waiting
      BY <1>1, <1>3 DEF Waiting
    <3>3. Cardinality(Waiting') = Cardinality(Waiting) - 1
      BY <3>2, WaitingFinite, FS_RemoveElement
    <3>4. /\ pending = Cardinality(Waiting)
          /\ pending >= MaxPending => paused
      BY <1>2, <2>2 DEF GateInStep
    <3>5. pending' = Cardinality(Waiting')
      BY <3>1, <3>3, <3>4
    <3>6. busy \in BOOLEAN /\ (busy <=> pending' > Channel!Low)
      BY <3>1
    <3>7. pending' >= MaxPending => pending >= MaxPending /\ pending' > Channel!Low
      BY <3>1, <3>5, <1>2, WaitingFinite, GateThresholds DEF ChannelTyped
    <3>8. paused \in BOOLEAN
      BY <1>2 DEF ChannelTyped
    <3>. HIDE DEF busy
    <3>9. paused' \in BOOLEAN /\ (paused' <=> paused /\ busy)
      BY ONLY <3>1, <3>6, <3>8, Zenon
    <3>10. GateInStep'
      BY <3>4, <3>5, <3>6, <3>7, <3>9 DEF GateInStep
    <3>. QED  BY <1>1, <2>2, <3>5, <3>9, <3>10, WaitingFinite
  <2>. QED  BY <1>2, <2>1, <2>2 DEF ChannelTyped
<1>5. ChannelTyped'
  <2>1. phase' \in [Requests -> {"new", "routing", "asking", "settled"}]
    BY <1>1, <1>2 DEF ChannelTyped
  <2>2. answers' \in [Requests -> Seq({"response", "failed", "invalid"})]
    <3>1. DOMAIN answers' = Requests /\ answers' = [s \in Requests |-> answers'[s]]
      BY <1>1, <1>2 DEF ChannelTyped
    <3>. QED  BY <1>3, <3>1
  <2>. QED  BY <1>1, <1>2, <1>4, <2>1, <2>2 DEF ChannelTyped
<1>6. Channel!AnsweredOnce'
  BY <1>3 DEF Channel!AnsweredOnce
<1>7. /\ ~stopped' => failures' < MaxFailures
      /\ \A s \in Requests : phase'[s] = "asking" => kind' = "host"
  BY <1>1, <1>3 DEF ChannelInv
<1>8. ChannelInv'
  BY <1>4, <1>5, <1>6, <1>7, ChannelTypes, GateMeans DEF ChannelInv, Channel!Inv
<1>. QED  BY <1>3, <1>8

LEMMA ChannelWaitEnds ==
  ASSUME ChannelInv, NEW r \in Requests, Channel!HostDeadline(r)
  PROVE  ChannelInv' /\ answers' = answers
<1>1. /\ phase[r] = "asking"
      /\ phase' = [phase EXCEPT ![r] = "routing"]
      /\ UNCHANGED <<kind, stopped, failures, answers, pending, paused>>
  BY DEF Channel!HostDeadline
<1>2. ChannelTyped /\ GateInStep /\ Channel!AnsweredOnce
  BY ChannelTypes, GateMeans DEF ChannelInv, Channel!Inv
<1>3. \A s \in Requests : phase'[s] = IF s = r THEN "routing" ELSE phase[s]
  BY <1>1, <1>2 DEF ChannelTyped
<1>4. ChannelTyped' /\ Waiting' = Waiting
  BY <1>1, <1>2, <1>3 DEF ChannelTyped, Waiting
<1>5. GateInStep'
  BY <1>1, <1>2, <1>4 DEF GateInStep
<1>6. Channel!AnsweredOnce'
  BY <1>1, <1>2, <1>3 DEF Channel!AnsweredOnce
<1>7. /\ ~stopped' => failures' < MaxFailures
      /\ kind' = "host" => ~paused'
      /\ \A s \in Requests : phase'[s] = "asking" => kind' = "host"
  BY <1>1, <1>3 DEF ChannelInv
<1>. QED  BY <1>1, <1>4, <1>5, <1>6, <1>7, ChannelTypes, GateMeans
          DEF ChannelInv, Channel!Inv

-----------------------------------------------------------------------------
(* The answers, read by who waits for them.                                *)

(* What the channel answers, it answers under the id its sender gave.      *)
LEMMA AnsweredUnderItsId ==
  ASSUME NEW r \in Requests, NEW outcome, NEW defect,
         AnsweredSo(Received(r, "INVOKE_REQUEST", defect), outcome)
  PROVE  LET f == Sent(r, "INVOKE_REQUEST", defect)
             verdict == Decode(f, Limit)
         IN /\ f.header \in Headers
            /\ verdict.header.requestId = HeaderOf[r].requestId
            /\ {verdict.header.requestId, verdict.header.pluginId,
                verdict.header.event} \subseteq Ids
            /\ outcome # "invalid" =>
                 verdict.header.pluginId.string /\ verdict.header.event.string
<1>. DEFINE long == [HeaderOf[r].requestId EXCEPT !.units = MaxIdBytes + 1,
                                                  !.bytes = MaxIdBytes + 1]
            h == [HeaderOf[r] EXCEPT
                    !.type      = "INVOKE_REQUEST",
                    !.huge      = defect = "huge",
                    !.json      = defect # "not JSON",
                    !.utf8      = defect # "not UTF-8",
                    !.pluginId  = IF defect = "no plugin" THEN NoId ELSE @,
                    !.requestId = IF defect = "long id" THEN long ELSE @]
            f == Sent(r, "INVOKE_REQUEST", defect)
            verdict == Decode(f, Limit)
<1>1. /\ HeaderOf[r] \in Headers
      /\ HeaderOf[r].requestId \in Ids
      /\ HeaderOf[r].requestId.string /\ HeaderOf[r].requestId.bytes > 0
  BY ChannelAssumption DEF Headers
<1>2. long \in Ids /\ long.string /\ ~IsShortId(long)
  <2>1. MaxIdBytes \in Nat
    BY CodecAssumption
  <2>2. long.string /\ long.units = MaxIdBytes + 1 /\ long.bytes = MaxIdBytes + 1
    BY <1>1 DEF Ids
  <2>3. long \in [string : BOOLEAN, units : Nat, bytes : Nat]
    <3>. DEFINE id == HeaderOf[r].requestId
    <3>1. id \in [string : BOOLEAN, units : Nat, bytes : Nat] /\ MaxIdBytes + 1 \in Nat
      BY <1>1, <2>1 DEF Ids
    <3>. HIDE DEF id
    <3>2. [id EXCEPT !.units = MaxIdBytes + 1, !.bytes = MaxIdBytes + 1]
            \in [string : BOOLEAN, units : Nat, bytes : Nat]
      BY <3>1
    <3>. QED  BY <3>2 DEF id
  <2>. HIDE DEF long
  <2>. QED  BY <2>1, <2>2, <2>3 DEF Ids, IsShortId
<1>3. /\ h.type = "INVOKE_REQUEST"
      /\ h.requestId = IF defect = "long id" THEN long ELSE HeaderOf[r].requestId
      /\ h.pluginId \in Ids /\ h.event \in Ids /\ h.requestId \in Ids
      /\ h \in Headers
  <2>1. NoId \in Ids
    BY DEF NoId, Ids
  <2>. HIDE DEF long
  <2>. QED  BY <1>1, <1>2, <2>1 DEF Headers, HeaderTypes, ArgsTypes
<1>4. f.header = h
  BY DEF Sent, Encode
<1>. HIDE DEF h, long, f
<1>5. Disposition(verdict) = IF outcome = "invalid" THEN "badRequest" ELSE "request"
  BY DEF AnsweredSo, Received, f
<1>6. CASE verdict = Verdict("message", h) /\ Readable(h)
  <2>0. verdict.kind = "message" /\ verdict.header = h
    BY <1>6 DEF Verdict
  <2>. HIDE DEF verdict
  <2>1. Disposition(verdict) = "request"
    BY <1>3, <2>0 DEF Disposition, HostResponses
  <2>2. /\ h.requestId.string => IsShortId(h.requestId)
        /\ h.pluginId.string /\ h.event.string
    BY <1>3, <1>6 DEF Readable, Valid, Required
  <2>3. h.requestId = HeaderOf[r].requestId
    BY <1>2, <1>3, <2>2
  <2>. QED  BY <1>3, <1>4, <2>0, <2>2, <2>3 DEF verdict, f
<1>7. CASE verdict = Verdict("rejected", Recovered(h))
  <2>1. verdict.kind = "rejected" /\ verdict.header = Recovered(h)
    BY <1>7 DEF Verdict
  <2>2. verdict.header.requestId.bytes # 0 /\ outcome = "invalid"
    BY <1>5, <2>1 DEF Disposition
  <2>3. /\ verdict.header.requestId = ShortString(h.requestId)
        /\ verdict.header.pluginId = ShortString(h.pluginId)
        /\ verdict.header.event = ShortString(h.event)
    BY <2>1, <2>2 DEF Recovered, NoId
  <2>4. IsShortId(h.requestId) /\ verdict.header.requestId = h.requestId
    BY <2>2, <2>3 DEF ShortString, NoId
  <2>5. verdict.header.requestId = HeaderOf[r].requestId
    BY <1>2, <1>3, <2>4
  <2>6. verdict.header.pluginId \in Ids /\ verdict.header.event \in Ids
    BY <1>3, <2>3, ShortStringIsShort
  <2>. QED  BY <1>1, <1>3, <1>4, <2>2, <2>5, <2>6 DEF f
<1>8. CASE verdict = Verdict("violation", Recovered(h))
  BY <1>5, <1>8 DEF Disposition, Verdict
<1>. QED  BY <1>4, <1>6, <1>7, <1>8 DEF Decode

LEMMA AnswersAreRead ==
  ASSUME NEW r \in Requests, NEW outcome \in {"response", "failed", "invalid"},
         NEW defect, AnsweredSo(Received(r, "INVOKE_REQUEST", defect), outcome)
  PROVE  LET received == Received(r, "INVOKE_REQUEST", defect)
             read     == AnswerRead(r, outcome, received.header)
         IN \/ /\ read.kind = "message"
               /\ read.header.requestId = HeaderOf[r].requestId
            \/ outcome = "response" /\ ResultOf[r].huge
<1>. DEFINE f == Sent(r, "INVOKE_REQUEST", defect)
            request == Decode(f, Limit).header
            a == AnswerHeader(r, outcome, request)
<1>. SUFFICES ASSUME ~(outcome = "response" /\ ResultOf[r].huge)
              PROVE  /\ AnswerRead(r, outcome, request).kind = "message"
                     /\ AnswerRead(r, outcome, request).header.requestId
                          = HeaderOf[r].requestId
  BY DEF Received
<1>1. /\ f.header \in Headers
      /\ request.requestId = HeaderOf[r].requestId
      /\ request.requestId \in Ids /\ request.pluginId \in Ids
      /\ request.event \in Ids
      /\ outcome # "invalid" => request.pluginId.string /\ request.event.string
  BY AnsweredUnderItsId
<1>2. request.requestId.string /\ request.requestId.bytes > 0
  BY <1>1, ChannelAssumption
<1>. HIDE DEF request
<1>. DEFINE error == ErrorFor(request.requestId, OrEmpty(request.pluginId),
                              OrEmpty(request.event))
<1>3. /\ OrEmpty(request.pluginId) \in Ids /\ OrEmpty(request.event) \in Ids
      /\ OrEmpty(request.pluginId) \in {request.pluginId, EmptyId}
      /\ OrEmpty(request.event) \in {request.event, EmptyId}
      /\ OrEmpty(request.pluginId).string /\ OrEmpty(request.event).string
  BY <1>1 DEF OrEmpty, EmptyId, Ids
<1>4. /\ error \in Headers /\ error.text \in Nat
      /\ error.type = "INVOKE_RESPONSE" /\ error.utf8 /\ ~error.huge
      /\ error.requestId = request.requestId
      /\ error.pluginId = OrEmpty(request.pluginId)
      /\ error.event = OrEmpty(request.event)
  <2>. DEFINE p == OrEmpty(request.pluginId)
              e == OrEmpty(request.event)
  <2>1. p \in Ids /\ e \in Ids
    BY <1>3
  <2>. HIDE DEF p, e
  <2>2. ErrorBytes(request.requestId, p, e) \in Nat
    <3>1. request.requestId.bytes \in Nat /\ p.bytes \in Nat /\ e.bytes \in Nat
      BY <1>1, <2>1 DEF Ids
    <3>. QED  BY <3>1, CodecAssumption DEF ErrorBytes, EscapedBytes
  <2>3. /\ ErrorFor(request.requestId, p, e) \in Headers
        /\ ErrorFor(request.requestId, p, e).text \in Nat
    BY <1>1, <2>1, <2>2 DEF ErrorFor, Headers, HeaderTypes, ResultTypes
  <2>4. error = ErrorFor(request.requestId, p, e)
    BY DEF p, e
  <2>. HIDE DEF error
  <2>. QED  BY <2>3, <2>4 DEF ErrorFor, p, e
<1>. HIDE DEF error
<1>5. /\ a \in Headers
      /\ a.type = "INVOKE_RESPONSE" /\ a.utf8 /\ ~a.huge
      /\ a.requestId = request.requestId
      /\ a.pluginId \in {request.pluginId, EmptyId}
      /\ a.event \in {request.event, EmptyId}
      /\ a.pluginId.string /\ a.event.string
  <2>1. CASE outcome = "invalid"
    <3>1. a = error
      BY <2>1 DEF AnswerHeader, error
    <3>. HIDE DEF a
    <3>. QED  BY <1>3, <1>4, <3>1
  <2>2. CASE outcome = "failed"
    <3>. DEFINE names == request.pluginId.bytes + request.event.bytes
                text == error.text + EscapedBytes * names
    <3>1. a = [error EXCEPT !.text = text]
      BY <2>2 DEF AnswerHeader, error
    <3>2. text \in Nat
      <4>1. request.pluginId.bytes \in Nat /\ request.event.bytes \in Nat
        BY <1>1 DEF Ids
      <4>. QED  BY <1>4, <4>1 DEF EscapedBytes
    <3>. HIDE DEF a, text
    <3>. QED  BY <1>3, <1>4, <3>1, <3>2 DEF Headers
  <2>3. CASE outcome = "response"
    <3>1. a = [ResultOf[r] EXCEPT !.type      = "INVOKE_RESPONSE",
                                  !.requestId = request.requestId,
                                  !.pluginId  = request.pluginId,
                                  !.event     = request.event]
      BY <2>3 DEF AnswerHeader
    <3>2. ResultOf[r] \in Headers /\ ResultOf[r].utf8 /\ ~ResultOf[r].huge
      BY <2>3, ChannelAssumption
    <3>3. request.pluginId.string /\ request.event.string
      BY <1>1, <2>3
    <3>. HIDE DEF a
    <3>. QED  BY <1>1, <3>1, <3>2, <3>3 DEF Headers, HeaderTypes, ResultTypes
  <2>. QED  BY <2>1, <2>2, <2>3
<1>. HIDE DEF a, f
<1>6. Limit \in Limits /\ PeerLimit \in Limits /\ Limit <= PeerLimit
  BY ChannelAssumption
<1>7. /\ Decode(EncodeResponse(a, Limit), PeerLimit).kind = "message"
      /\ Decode(EncodeResponse(a, Limit), PeerLimit).header.requestId
           = request.requestId
  BY <1>1, <1>2, <1>5, <1>6, AnswerIsMatched DEF request
<1>8. AnswerRead(r, outcome, request) = Decode(EncodeResponse(a, Limit), PeerLimit)
  BY DEF AnswerRead, a
<1>. QED  BY <1>1, <1>7, <1>8

-----------------------------------------------------------------------------
(* The channel and its writer together.                                    *)

WrittenWereAnswered ==
  \A r \in ToSet(offered) \cap Requests : answers[r] # <<>>

SocketInv == ChannelInv /\ WriterInv /\ WrittenWereAnswered

LEMMA ChannelAlone ==
  ASSUME ChannelInv, UNCHANGED channelVars
  PROVE  ChannelInv' /\ answers' = answers
<1>1. UNCHANGED <<kind, stopped, failures, phase, answers, pending, paused>>
  BY DEF channelVars
<1>2. ChannelTyped' /\ Waiting' = Waiting
  BY <1>1, ChannelTypes DEF ChannelTyped, Waiting, ChannelInv, Channel!Inv
<1>3. GateInStep' /\ Channel!AnsweredOnce'
  BY <1>1, <1>2, GateMeans
     DEF GateInStep, Channel!AnsweredOnce, ChannelInv, Channel!Inv
<1>. QED  BY <1>1, <1>2, <1>3, ChannelTypes, GateMeans DEF ChannelInv, Channel!Inv

LEMMA WriterAlone ==
  ASSUME WriterInv, UNCHANGED writerVars
  PROVE  WriterInv' /\ offered' = offered
<1>1. UNCHANGED <<queue, queued, blocked, dead, sent, offered, cleared>>
  BY DEF writerVars
<1>2. Writer!TypeOK' /\ Writer!DrainWillFlush' /\ Writer!MemoryBounded'
  BY <1>1 DEF WriterInv, Writer!Inv, Writer!TypeOK, Writer!DrainWillFlush,
              Writer!MemoryBounded
<1>3. Writer!InOrder'
  BY <1>1, WriterOrder DEF WriterInv
<1>4. Writer!ResponsesKept'
  BY <1>1, WriterKeeps DEF WriterInv, ResponsesAccounted
<1>. QED  BY <1>1, <1>2, <1>3, <1>4 DEF WriterInv, Writer!Inv

LEMMA SocketInit == Init => SocketInv
<1>. SUFFICES ASSUME Init PROVE SocketInv
  OBVIOUS
<1>1. ChannelInv /\ WriterInv
  BY ChannelInit, WriterInit DEF Init
<1>2. offered = <<>>
  BY DEF Init, Writer!Init
<1>. QED  BY <1>1, <1>2 DEF SocketInv, WrittenWereAnswered, ToSet

LEMMA SocketWrites ==
  ASSUME SocketInv, NEW f \in WrittenFrames, Write(f),
         f \in Requests => answers[f] # <<>>
  PROVE  SocketInv'
<1>1. ChannelInv' /\ answers' = answers
  BY ChannelAlone DEF SocketInv, Write
<1>2. \/ Writer!WriteThrough(f) \/ Writer!Enqueue(f)
      \/ Writer!Shed(f) \/ Writer!Overflow(f)
  BY DEF Write
<1>3. WriterInv'
  BY <1>2, WriterWrites DEF SocketInv
<1>4. offered' = Append(offered, f)
  BY <1>2 DEF Writer!WriteThrough, Writer!Enqueue, Writer!Shed, Writer!Overflow,
              Writer!Offer
<1>5. offered \in Seq(WrittenFrames)
  BY WriterTypes DEF SocketInv, WriterInv, Writer!Inv, WriterTyped
<1>6. ToSet(offered') = ToSet(offered) \cup {f}
  BY <1>4, <1>5, ElementsAppended
<1>7. WrittenWereAnswered'
  BY <1>1, <1>6 DEF SocketInv, WrittenWereAnswered
<1>. QED  BY <1>1, <1>3, <1>7 DEF SocketInv

LEMMA ChannelMoves ==
  ASSUME SocketInv, ChannelInv', WriterInv', offered' = offered,
         \A r \in Requests : answers[r] # <<>> => answers'[r] # <<>>
  PROVE  SocketInv'
BY DEF SocketInv, WrittenWereAnswered, ToSet

LEMMA SocketStep == SocketInv /\ [Next]_vars => SocketInv'
<1>. SUFFICES ASSUME SocketInv, [Next]_vars PROVE SocketInv'
  OBVIOUS
<1>. USE DEF SocketInv
<1>1. CASE Reads
  <2>1. ASSUME NEW batch \in Batches, NEW violation \in Violations,
               Step(Channel!Push(batch, violation))
        PROVE  SocketInv'
    <3>1. violation \in BOOLEAN
      <4>1. PICK r \in Requests, defect \in Defects :
              violation = (Received(r, "INVOKE_REQUEST", defect).kind = "violation")
        BY DEF Violations
      <4>. DEFINE b == Received(r, "INVOKE_REQUEST", defect).kind = "violation"
      <4>2. violation = b /\ b \in BOOLEAN
        BY <4>1
      <4>. HIDE DEF b
      <4>. QED  BY ONLY <4>2, Zenon
    <3>2. Channel!Push(batch, violation) /\ UNCHANGED writerVars
      BY <2>1 DEF Step
    <3>3. /\ ChannelInv'
          /\ \A r \in Requests : answers[r] # <<>> => answers'[r] # <<>>
      BY <3>1, <3>2, ChannelPushes
    <3>4. WriterInv' /\ offered' = offered
      BY <3>2, WriterAlone
    <3>. QED  BY <3>3, <3>4, ChannelMoves
  <2>2. CASE Step(Channel!PushNonBinary)
    BY <2>2, ChannelStops, WriterAlone, ChannelMoves DEF Step
  <2>. QED  BY <1>1, <2>1, <2>2 DEF Reads
<1>2. CASE Closes
  <2>1. ChannelInv' /\ answers' = answers
    BY <1>2, ChannelStops DEF Closes
  <2>2. WriterInv' /\ offered' = offered
    <3>1. CASE Writer!Clear
      BY <3>1, WriterClears DEF Writer!Clear
    <3>2. CASE UNCHANGED writerVars
      BY <3>2, WriterAlone
    <3>. QED  BY <1>2, <3>1, <3>2 DEF Closes
  <2>. QED  BY <2>1, <2>2, ChannelMoves
<1>3. CASE Drops
  <2>1. ChannelInv' /\ answers' = answers
    BY <1>3, ChannelAlone DEF Drops
  <2>2. WriterInv' /\ offered' = offered
    BY <1>3, WriterClears DEF Drops, Writer!Clear
  <2>. QED  BY <2>1, <2>2, ChannelMoves
<1>4. CASE WriteResponse
  <2>1. PICK r \in Unwritten : Write(r)
    BY <1>4 DEF WriteResponse
  <2>2. r \in Requests /\ answers[r] # <<>>
    BY <2>1 DEF Unwritten
  <2>. QED  BY <2>1, <2>2, SocketWrites DEF WrittenFrames
<1>5. ASSUME NEW f \in Pushes, WritePush(f)
      PROVE  SocketInv'
  <2>1. f \in WrittenFrames /\ f \notin Requests
    BY WriterAssumption DEF WrittenFrames
  <2>. QED  BY <1>5, <2>1, SocketWrites DEF WritePush
<1>6. ASSUME NEW n \in 0 .. Cardinality(Requests \cup Pushes), Drains(n)
      PROVE  SocketInv'
  <2>1. ChannelInv' /\ answers' = answers
    BY <1>6, ChannelAlone DEF Drains
  <2>2. WriterInv' /\ offered' = offered
    BY <1>6, WriterDrains DEF Drains, Writer!Drain
  <2>. QED  BY <2>1, <2>2, ChannelMoves
<1>7. ASSUME NEW r \in Requests, Routes(r)
      PROVE  SocketInv'
  <2>1. PICK written \in {<<>>, <<"response">>, <<"failed">>} :
          Channel!RouteEnds(r, written)
    BY <1>7 DEF Routes, Step
  <2>2. UNCHANGED writerVars
    BY <1>7 DEF Routes, Step
  <2>3. /\ ChannelInv'
        /\ \A s \in Requests : answers[s] # <<>> => answers'[s] # <<>>
    BY <2>1, ChannelRoutes
  <2>. QED  BY <2>2, <2>3, WriterAlone, ChannelMoves
<1>8. ASSUME NEW r \in Requests, Deadline(r)
      PROVE  SocketInv'
  <2>1. Channel!HostDeadline(r) /\ UNCHANGED writerVars
    BY <1>8 DEF Deadline, Step
  <2>2. ChannelInv' /\ answers' = answers
    BY <2>1, ChannelWaitEnds
  <2>. QED  BY <2>1, <2>2, WriterAlone, ChannelMoves
<1>9. CASE UNCHANGED vars
  BY <1>9, ChannelAlone, WriterAlone, ChannelMoves DEF vars
<1>. QED
  BY <1>1, <1>2, <1>3, <1>4, <1>5, <1>6, <1>7, <1>8, <1>9 DEF Next

LEMMA SocketAlways == Spec => []SocketInv
BY SocketInit, SocketStep, PTL DEF Spec

(* The counters of the channel and of its writer are true, for every set   *)
(* of requests and pushes: the gate counts the work pending and pauses     *)
(* between its marks, the queue holds the bytes it counts, within its cap  *)
(* but for one oversized frame, and a drain event is due for it.           *)
THEOREM CountersTrue == Spec => []Inv
<1>1. SocketInv => Inv
  <2>. SUFFICES ASSUME SocketInv PROVE Inv
    OBVIOUS
  <2>1. Channel!ResponsesReadable
    BY DEF SocketInv, ChannelInv, Channel!ResponsesReadable
  <2>. QED  BY <2>1 DEF SocketInv, Inv, ChannelInv, WriterInv, WrittenWereAnswered
<1>. QED  BY <1>1, SocketAlways, PTL

(* No request is answered twice, nor before it was received, and no        *)
(* response is twice on its way to the peer.                               *)
THEOREM AnsweredAtMostOnce == Spec => []AnsweredOnce
<1>1. SocketInv => AnsweredOnce
  <2>. SUFFICES ASSUME SocketInv PROVE AnsweredOnce
    OBVIOUS
  <2>1. Ordered(sent \o queue, offered) /\ WriterTyped
    BY WriterOrder, WriterTypes DEF SocketInv, WriterInv, Writer!Inv
  <2>2. sent \o queue \in Seq(WrittenFrames) /\ offered \in Seq(WrittenFrames)
    BY <2>1 DEF WriterTyped
  <2>3. IsInjective(sent \o queue)
    BY <2>1, <2>2, OrderedOnce
  <2>. QED  BY <2>3 DEF SocketInv, ChannelInv, AnsweredOnce
<1>. QED  BY <1>1, SocketAlways, PTL

(* Every response of a socket that was not given up is with the stream, in *)
(* the queue or was discarded with the socket, in the order written; and   *)
(* its reader can read it and match it to its request, for every header,   *)
(* defect, limit and size.                                                 *)
THEOREM ResponsesArrive == Spec => []NoResponseLost
<1>1. SocketInv => NoResponseLost
  <2>. SUFFICES ASSUME SocketInv PROVE NoResponseLost
    OBVIOUS
  <2>1. Writer!InOrder /\ Writer!ResponsesKept /\ ResponsesAccounted
    BY WriterKeeps DEF SocketInv, WriterInv
  <2>2. kind = "socket" /\ ~dead =>
          {r \in Requests : answers[r] # <<>>} \ Unwritten
            \subseteq ToSet(sent) \cup ToSet(queue) \cup cleared
    <3>. SUFFICES ASSUME kind = "socket", ~dead, NEW r \in Requests,
                         answers[r] # <<>>, r \notin Unwritten
                  PROVE  r \in ToSet(sent) \cup ToSet(queue) \cup cleared
      OBVIOUS
    <3>1. r \in ToSet(offered) /\ r \notin Pushes
      BY WriterAssumption DEF Unwritten
    <3>. QED  BY <2>1, <3>1 DEF ResponsesAccounted
  <2>3. ASSUME NEW r \in Requests, NEW i \in DOMAIN answers[r], NEW defect \in Defects
        PROVE  LET received == Received(r, "INVOKE_REQUEST", defect)
                   read     == AnswerRead(r, answers[r][i], received.header)
               IN AnsweredSo(received, answers[r][i]) =>
                    \/ /\ read.kind = "message"
                       /\ read.header.requestId = HeaderOf[r].requestId
                    \/ answers[r][i] = "response" /\ ResultOf[r].huge
    <3>1. answers[r] \in Seq({"response", "failed", "invalid"})
      BY ChannelTypes DEF SocketInv, ChannelInv, Channel!Inv, ChannelTyped
    <3>2. answers[r][i] \in {"response", "failed", "invalid"}
      BY <3>1
    <3>. DEFINE outcome == answers[r][i]
    <3>3. outcome \in {"response", "failed", "invalid"}
      BY <3>2
    <3>. HIDE DEF outcome
    <3>4. LET received == Received(r, "INVOKE_REQUEST", defect)
              read     == AnswerRead(r, outcome, received.header)
          IN AnsweredSo(received, outcome) =>
               \/ /\ read.kind = "message"
                  /\ read.header.requestId = HeaderOf[r].requestId
               \/ outcome = "response" /\ ResultOf[r].huge
      BY <3>3, AnswersAreRead
    <3>. QED  BY <3>4 DEF outcome
  <2>. QED  BY <2>1, <2>2, <2>3 DEF NoResponseLost
<1>. QED  BY <1>1, SocketAlways, PTL
=============================================================================
