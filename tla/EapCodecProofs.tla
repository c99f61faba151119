--------------------------- MODULE EapCodecProofs ---------------------------
(***************************************************************************)
(* Proofs about EapCodec for packets of any number of attributes, values   *)
(* of any length an attribute can have, and whatever a decoder reads when  *)
(* it loses its place.                                                     *)
(***************************************************************************)
EXTENDS EapCodec, TLAPS

\* Where the attributes start, and where the i-th one ends.
Base == IF mode = "packet" THEN 8 ELSE 0

End(i) == IF i = 0 THEN Base ELSE wire[i].at + TotalLength(wire[i].attr)

\* The attributes lie one behind the other, and the padding behind them.
WireInv ==
    /\ \A i \in DOMAIN wire :
         /\ wire[i].at = End(i - 1)
         /\ wire[i].put = Copied(wire[i].attr)
         /\ mode = "plain" => wire[i].attr.type \in InnerType
    /\ \A i, j \in DOMAIN wire : i < j => End(i) <= wire[j].at
    /\ \A i \in DOMAIN wire : End(i) <= End(Len(wire))
    /\ End(Len(wire)) = size - padding
    /\ Aligned => (size % 4 = 0)

PaddingInv ==
    /\ mode = "packet" \/ pc = "encode" => padding = 0
    /\ WholeBlocks

\* The first n attributes, decoded.
DecodedFirst(n) ==
    /\ n \in 0 .. Len(wire)
    /\ Len(decoded) = n
    /\ \A i \in 1 .. n : decoded[i] = WrittenTo(wire[i])

\* Before and in the loop the result is what the decoder has passed, and in the end
\* it is everything.
DecodeInv ==
    /\ pc \in {"encode", "sent"} => decoded = << >> /\ offset = 0 /\ whole
    /\ pc = "sent" => mode = "packet"
    /\ pc = "decode" =>
         \/ \E n \in 0 .. Len(wire) : DecodedFirst(n) /\ offset = End(n)
         \/ DecodedFirst(Len(wire)) /\ offset = size
    /\ pc \in {"find", "ok"} => DecodedFirst(Len(wire))
    /\ pc \in {"error", "panic"} => ~ whole

NoMacBefore(n) == \A i \in 1 .. n : wire[i].attr.type # "ATMac"

\* FindATMACOffset has passed no AT_MAC, and there is one.
FindInv ==
    /\ pc = "find" =>
         /\ mode = "packet"
         /\ \E i \in DOMAIN decoded : decoded[i].type = "ATMac"
         /\ \E n \in 0 .. Len(wire) : NoMacBefore(n) /\ offset = End(n)
    /\ pc = "ok" => MacIsWhereItWasRead

\* The inductive invariant.
IInv == TypeOK /\ WireInv /\ PaddingInv /\ (Aligned /\ Fits => DecodeInv /\ FindInv)

-----------------------------------------------------------------------------
(* Layout *)

\* What there is to encode.
LEMMA AttrForm ==
    ASSUME NEW a \in Attr
    PROVE  \/ a.type \in Word16 /\ a.len = 16
           \/ a.type = "ATAuts" /\ a.len = 14
           \/ a.type = "ATCounter" /\ a.len = 2
           \/ a.type = "ATCounterTooSmall" /\ a.len = 0
           \/ a.type \in {"ATRes", "ATNextReauthID", "other"} /\ a.len \in 0 .. 63
           \/ a.type = "ATEncrData" /\ \E n \in 0 .. 63 : a.len = 16 * n
<1>1. CASE a \in [type : {"ATRes", "ATNextReauthID", "other"}, len : Length]
  BY <1>1, ConstantsOK
<1>2. CASE a \in [type : {"ATEncrData"}, len : {16 * n : n \in Length}]
  <2>1. a.type = "ATEncrData" /\ a.len \in {16 * n : n \in Length}
    BY <1>2
  <2> QED
    BY <2>1, ConstantsOK
<1>3. CASE \/ a \in [type : Word16, len : {16}] \/ a \in [type : {"ATAuts"}, len : {14}]
           \/ a \in [type : {"ATCounter"}, len : {2}]
           \/ a \in [type : {"ATCounterTooSmall"}, len : {0}]
  BY <1>3
<1> QED
  BY <1>1, <1>2, <1>3 DEF Attr

\* Its type and length.
LEMMA AttrTyped ==
    ASSUME NEW a \in Attr
    PROVE  a.type \in Type /\ a.type # "ATPadding" /\ a.len \in 0 .. 1008
BY AttrForm DEF Word16, Type

\* An encoded attribute has at least its two bytes of header, and its header is one.
LEMMA LengthsTyped ==
    ASSUME NEW a \in Attr
    PROVE  /\ TotalLength(a) \in Nat
           /\ TotalLength(a) >= 2
           /\ HeaderOf(a) \in Header
           /\ Copied(a) \in Int
<1>1. a.type \in Type /\ a.len \in Nat
  BY AttrTyped
<1>2. Payload(a) \in Nat
  <2>1. RoundUp4(4 + a.len) - 2 \in Nat /\ RoundUp4(a.len) \in Nat
    BY <1>1 DEF RoundUp4
  <2> QED
    BY <1>1, <2>1 DEF Payload, Word16, Type
<1>3. TotalLength(a) \in Nat /\ TotalLength(a) >= 2
  BY <1>2 DEF TotalLength
<1>4. LengthWords(a) \in 0 .. 255
  BY <1>3 DEF LengthWords
<1>5. Prefix(a) \in Nat
  BY <1>1 DEF Prefix
<1>6. HeaderOf(a) \in Header
  BY <1>1, <1>4, <1>5 DEF HeaderOf, Header
<1>7. Copied(a) \in Int
  BY <1>1, <1>3 DEF Copied, ValueAt
<1> QED
  BY <1>3, <1>6, <1>7

\* An attribute of an aligned type is as long as its length byte says, and its value is
\* where the decoder looks for it.
LEMMA AlignedLayout ==
    ASSUME NEW a \in Attr, a.type \notin {"ATAuts", "other"}
    PROVE  /\ 4 * LengthWords(a) = TotalLength(a)
           /\ TotalLength(a) % 4 = 0
           /\ LengthWords(a) # 0
           /\ a.type # "ATPadding"
           /\ Copied(a) = a.len
           /\ ReadLen(HeaderOf(a)) = a.len
           /\ ValueAt(a.type) + a.len <= TotalLength(a)
<1>2. CASE a.type \in {"ATRes", "ATNextReauthID"}
  <2>1. a.len \in 0 .. 63
    BY <1>2, AttrForm DEF Word16
  <2> DEFINE k == (4 + a.len + 3) \div 4
  <2>2. k \in 1 .. 17 /\ 4 * k >= 4 + a.len
    BY <2>1
  <2>3. TotalLength(a) = 4 * k
    BY <1>2, <2>2 DEF TotalLength, Payload, RoundUp4, Word16
  <2> HIDE DEF k
  <2>4. LengthWords(a) = k
    BY <2>2, <2>3 DEF LengthWords
  <2>5. Prefix(a) = IF a.type = "ATRes" THEN 8 * a.len ELSE a.len
    BY <1>2, <2>1 DEF Prefix
  <2>6. ReadLen(HeaderOf(a)) = a.len
    BY <1>2, <2>1, <2>5 DEF ReadLen, HeaderOf, Word16
  <2> QED
    BY <1>2, <2>1, <2>2, <2>3, <2>4, <2>6 DEF Copied, ValueAt
<1>3. CASE a.type = "ATEncrData"
  <2>1. PICK n \in 0 .. 63 : a.len = 16 * n
    BY <1>3, AttrForm DEF Word16
  <2>2. TotalLength(a) = 4 * (4 * n + 1)
    BY <1>3, <2>1 DEF TotalLength, Payload, Word16
  <2>3. LengthWords(a) = 4 * n + 1
    BY <2>1, <2>2 DEF LengthWords
  <2>4. ReadLen(HeaderOf(a)) = a.len
    BY <1>3, <2>1, <2>3 DEF ReadLen, HeaderOf, Word16
  <2> QED
    BY <1>3, <2>1, <2>2, <2>3, <2>4 DEF Copied, ValueAt
<1>4. CASE a.type \in Word16
  <2>1. a.len = 16 /\ TotalLength(a) = 20
    BY <1>4, AttrForm DEF Word16, TotalLength, Payload
  <2>2. LengthWords(a) = 5
    BY <2>1 DEF LengthWords
  <2> QED
    BY <1>4, <2>1, <2>2 DEF Copied, ValueAt, ReadLen, HeaderOf, Word16
<1>5. CASE a.type \in {"ATCounter", "ATCounterTooSmall"}
  <2>1. a.len = (IF a.type = "ATCounter" THEN 2 ELSE 0) /\ TotalLength(a) = 4
    BY <1>5, AttrForm DEF Word16, TotalLength, Payload
  <2>2. LengthWords(a) = 1
    BY <2>1 DEF LengthWords
  <2> QED
    BY <1>5, <2>1, <2>2 DEF Copied, ValueAt, ReadLen, HeaderOf, Word16
<1> QED
  BY <1>2, <1>3, <1>4, <1>5, AttrForm

-----------------------------------------------------------------------------
(* What the decoder meets *)

\* The attributes of a packet are attributes.
LEMMA WireTyped ==
    ASSUME TypeOK, NEW i \in DOMAIN wire
    PROVE  /\ wire[i].attr \in Attr /\ wire[i].at \in Nat
           /\ Len(wire) \in Nat /\ i \in 1 .. Len(wire)
<1> DEFINE Entry == [attr : Attr, at : Nat, put : Int]
<1>1. wire \in Seq(Entry)
  BY DEF TypeOK
<1> HIDE DEF Entry
<1>2. wire[i] \in Entry /\ Len(wire) \in Nat /\ i \in 1 .. Len(wire)
  BY <1>1
<1>3. wire[i].attr \in Attr /\ wire[i].at \in Nat
  BY <1>2 DEF Entry
<1> QED
  BY <1>2, <1>3

\* The end of an attribute is a position behind its start.
LEMMA EndTyped ==
    ASSUME TypeOK, NEW n \in 0 .. Len(wire)
    PROVE  /\ End(n) \in Nat
           /\ n # 0 => n \in DOMAIN wire /\ wire[n].at + 2 <= End(n)
<1>1. CASE n = 0
  BY <1>1 DEF End, Base
<1>2. CASE n # 0
  <2>1. n \in DOMAIN wire
    BY <1>2 DEF TypeOK
  <2>2. TotalLength(wire[n].attr) \in Nat /\ TotalLength(wire[n].attr) >= 2
    BY <2>1, WireTyped, LengthsTyped
  <2> QED
    BY <1>2, <2>1, <2>2, WireTyped DEF End
<1> QED
  BY <1>1, <1>2

\* Where an attribute starts the decoder finds its header and no other.
LEMMA HeaderHere ==
    ASSUME TypeOK, WireInv, NEW i \in DOMAIN wire
    PROVE  HeadersAt(wire[i].at) = {HeaderOf(wire[i].attr)}
<1>1. ASSUME NEW j \in DOMAIN wire, wire[j].at = wire[i].at
      PROVE  j = i
  <2>1. i \in 1 .. Len(wire) /\ j \in 1 .. Len(wire) /\ wire[i].at \in Nat
    BY WireTyped
  <2>2. End(i) \in Nat /\ wire[i].at + 2 <= End(i) /\ End(j) \in Nat /\ wire[j].at + 2 <= End(j)
    BY <2>1, EndTyped
  <2>3. (i < j => End(i) <= wire[j].at) /\ (j < i => End(j) <= wire[i].at)
    BY DEF WireInv
  <2> QED
    BY <1>1, <2>1, <2>2, <2>3
<1>2. {j \in DOMAIN wire : wire[j].at = wire[i].at} = {i}
  BY <1>1
<1> QED
  BY <1>2 DEF HeadersAt

\* Behind the last attribute it finds the padding.
LEMMA PaddingHere ==
    ASSUME TypeOK, WireInv, padding # 0
    PROVE  HeadersAt(size - padding) =
               {[type |-> "ATPadding", words |-> padding \div 4, prefix |-> 0]}
<1>1. ASSUME NEW j \in DOMAIN wire
      PROVE  wire[j].at # size - padding
  <2>1. j \in 1 .. Len(wire) /\ wire[j].at \in Nat
    BY WireTyped
  <2>2. End(j) \in Nat /\ wire[j].at + 2 <= End(j) /\ End(j) <= size - padding
    BY <2>1, EndTyped DEF WireInv
  <2> QED
    BY <2>1, <2>2 DEF TypeOK
<1>2. {j \in DOMAIN wire : wire[j].at = size - padding} = {}
  BY <1>1
<1> QED
  BY <1>2 DEF HeadersAt

\* Whatever it reads is a header.
LEMMA HeadersTyped ==
    ASSUME TypeOK, NEW o
    PROVE  HeadersAt(o) \subseteq Header
<1>1. \A i \in DOMAIN wire : HeaderOf(wire[i].attr) \in Header
  BY WireTyped, LengthsTyped
<1>2. [type |-> "ATPadding", words |-> padding \div 4, prefix |-> 0] \in Header
  <2>1. padding \div 4 \in 0 .. 255
    BY DEF TypeOK
  <2> QED
    BY <2>1 DEF Header, Type
<1> QED
  BY <1>1, <1>2, ConstantsOK DEF HeadersAt

\* And whatever it makes of one is a value.
LEMMA ReadTyped ==
    ASSUME NEW h \in Header, NEW o \in Nat
    PROVE  Read(h, o) \in [type : Type, from : Nat, len : Int] /\ 4 * h.words \in Nat
<1>1. h.type \in Type /\ h.words \in 0 .. 255 /\ h.prefix \in Nat
  BY DEF Header
<1>2. ReadLen(h) \in Int
  BY <1>1 DEF ReadLen, Type, Word16
<1> QED
  BY <1>1, <1>2 DEF Read, ValueAt

\* The attribute that follows the first n: the decoder finds its header, it lies within
\* the packet, and what is read is what was written.
LEMMA NextAttribute ==
    ASSUME TypeOK, WireInv, PaddingInv, Aligned, NEW n \in 0 .. Len(wire) - 1,
           NEW h \in HeadersAt(End(n))
    PROVE  LET w == wire[n + 1] IN
           /\ n + 1 \in DOMAIN wire
           /\ h = HeaderOf(w.attr)
           /\ End(n) = w.at
           /\ End(n) + 4 * h.words = End(n + 1)
           /\ End(n + 1) <= size
           /\ h.words # 0 /\ h.type = w.attr.type /\ h.type # "ATPadding"
           /\ ReadLen(h) >= 0
           /\ End(n) + ValueAt(h.type) + ReadLen(h) <= size
           /\ Read(h, End(n)) = WrittenTo(w)
           /\ w.put = w.attr.len
<1> DEFINE w == wire[n + 1]
<1>1. n + 1 \in DOMAIN wire /\ n + 1 \in 1 .. Len(wire) /\ w.attr \in Attr /\ w.at \in Nat
  <2>1. Len(wire) \in Nat /\ DOMAIN wire = 1 .. Len(wire)
    BY DEF TypeOK
  <2>2. n + 1 \in DOMAIN wire /\ n + 1 \in 1 .. Len(wire)
    BY <2>1
  <2> QED
    BY <2>2, WireTyped
<1>2. End(n) = w.at /\ w.put = Copied(w.attr)
  BY <1>1 DEF WireInv
<1>3. h = HeaderOf(w.attr)
  BY <1>1, <1>2, HeaderHere
<1>4. w.attr.type \notin {"ATAuts", "other"}
  BY <1>1 DEF Aligned
<1>5. /\ 4 * LengthWords(w.attr) = TotalLength(w.attr)
      /\ LengthWords(w.attr) # 0
      /\ w.attr.type # "ATPadding"
      /\ Copied(w.attr) = w.attr.len
      /\ ReadLen(h) = w.attr.len
      /\ ValueAt(w.attr.type) + w.attr.len <= TotalLength(w.attr)
  BY <1>1, <1>3, <1>4, AlignedLayout
<1>6. h.type = w.attr.type /\ h.words = LengthWords(w.attr)
  BY <1>3 DEF HeaderOf
<1>7. End(n + 1) = w.at + TotalLength(w.attr)
  BY <1>1 DEF End
<1>8. End(n + 1) <= size - padding /\ End(n + 1) \in Nat
  BY <1>1, EndTyped DEF WireInv
<1>9. w.attr.len \in 0 .. 1008 /\ TotalLength(w.attr) \in Nat /\ ValueAt(w.attr.type) \in {2, 4}
  <2>1. w.attr.len \in 0 .. 1008
    <3>1. \A a \in Attr : a.len \in 0 .. 1008
      BY AttrTyped
    <3> QED
      BY <1>1, <3>1
  <2>2. TotalLength(w.attr) \in Nat
    BY <1>1, LengthsTyped
  <2>3. ValueAt(w.attr.type) \in {2, 4}
    BY DEF ValueAt
  <2> QED
    BY <2>1, <2>2, <2>3
<1>10. Read(h, End(n)) = WrittenTo(w)
  BY <1>2, <1>5, <1>6 DEF Read, WrittenTo
<1>11. size - padding <= size /\ size \in Nat /\ padding \in Nat
  BY DEF TypeOK
<1>12. End(n) + 4 * h.words = End(n + 1)
  BY <1>2, <1>5, <1>6, <1>7
<1>13. End(n + 1) <= size
  BY <1>8, <1>11
<1>14. ReadLen(h) >= 0
  <2> DEFINE l == w.attr.len
  <2>1. ReadLen(h) = l /\ l \in 0 .. 1008
    BY <1>5, <1>9
  <2> HIDE DEF l
  <2> QED
    BY <2>1
<1>15. End(n) + ValueAt(h.type) + ReadLen(h) <= size
  <2> DEFINE v == ValueAt(w.attr.type)
             t == TotalLength(w.attr)
             l == w.attr.len
             e == End(n + 1)
  <2>1. w.at \in Nat /\ v \in {2, 4} /\ t \in Nat /\ l \in 0 .. 1008 /\ e \in Nat /\ size \in Nat
    BY <1>1, <1>8, <1>9, <1>11
  <2>2. v + l <= t /\ e = w.at + t /\ e <= size
    BY <1>5, <1>7, <1>13
  <2>3. ValueAt(h.type) = v /\ ReadLen(h) = l /\ End(n) = w.at
    BY <1>2, <1>5, <1>6
  <2> HIDE DEF v, t, l, e
  <2> QED
    BY <2>1, <2>2, <2>3
<1> QED
  BY <1>1, <1>2, <1>3, <1>5, <1>6, <1>10, <1>12, <1>13, <1>14, <1>15, Zenon

-----------------------------------------------------------------------------
(* Steps *)

\* What the decoders leave alone.
LEMMA LayoutStays ==
    ASSUME WireInv, UNCHANGED written
    PROVE  /\ WireInv' /\ Aligned' = Aligned /\ Fits' = Fits
           /\ \A n : End(n)' = End(n)
           /\ \A w : WrittenTo(w)' = WrittenTo(w)
<1> USE DEF written
<1>1. \A n : End(n)' = End(n)
  BY DEF End, Base
<1>2. Aligned' = Aligned
  BY DEF Aligned
<1>3. \A w : WrittenTo(w)' = WrittenTo(w)
  BY DEF WrittenTo
<1>4. WireInv'
  BY <1>1, <1>2 DEF WireInv
<1>5. Fits' = Fits
  BY DEF Fits
<1> QED
  BY <1>1, <1>2, <1>3, <1>4, <1>5

\* Encode: one more attribute, behind the others.
LEMMA EncodeKeeps ==
    ASSUME IInv, Encode
    PROVE  IInv'
<1> DEFINE Entry == [attr : Attr, at : Nat, put : Int]
<1>0. PICK k \in Nat : k = Len(wire) /\ DOMAIN wire = 1 .. k
  BY DEF IInv, TypeOK
<1>1. PICK a \in Attr :
        /\ mode = "plain" => a.type \in InnerType
        /\ wire' = Append(wire, [attr |-> a, at |-> size, put |-> Copied(a)])
        /\ size' = size + TotalLength(a)
  BY DEF Encode
<1> DEFINE new == [attr |-> a, at |-> size, put |-> Copied(a)]
<1>2. /\ TotalLength(a) \in Nat /\ TotalLength(a) >= 2 /\ Copied(a) \in Int
  BY LengthsTyped
<1>3. /\ pc = "encode" /\ pc' = pc /\ UNCHANGED <<mode, padding, whole, offset, decoded, macOffset>>
      /\ padding = 0 /\ size \in Nat /\ k \in Nat /\ k = Len(wire) /\ DOMAIN wire = 1 .. k
  BY <1>0 DEF Encode, IInv, TypeOK, PaddingInv
<1>4. wire \in Seq(Entry)
  BY DEF IInv, TypeOK
<1>5. new \in Entry
  BY <1>2, <1>3
<1> HIDE DEF Entry
<1>6. /\ wire' \in Seq(Entry) /\ Len(wire') = k + 1 /\ DOMAIN wire' = 1 .. k + 1
      /\ \A i \in 1 .. k : wire'[i] = wire[i]
      /\ wire'[k + 1] = new
  BY <1>0, <1>1, <1>4, <1>5
<1>7. TypeOK'
  BY <1>1, <1>2, <1>3, <1>6 DEF IInv, TypeOK, Entry
<1>8. /\ \A i \in 0 .. k : End(i)' = End(i)
      /\ End(k + 1)' = size + TotalLength(a)
      /\ End(k) = size
  <2>1. ASSUME NEW i \in 0 .. k
        PROVE  End(i)' = End(i)
    <3>1. CASE i = 0
      BY <1>3, <3>1 DEF End, Base
    <3>2. CASE i # 0
      BY <1>3, <1>6, <3>2 DEF End
    <3> QED
      BY <3>1, <3>2
  <2>2. End(k + 1)' = size + TotalLength(a)
    <3>1. wire'[k + 1].at = size /\ wire'[k + 1].attr = a /\ k + 1 # 0
      BY <1>3, <1>6
    <3> QED
      BY <3>1 DEF End
  <2> QED
    BY <1>3, <2>1, <2>2 DEF IInv, WireInv
<1>9. Aligned' => Aligned /\ a.type \notin {"ATAuts", "other"}
  BY <1>3, <1>6 DEF Aligned
<1>10. WireInv'
  <2>1. ASSUME NEW i \in 1 .. k + 1
        PROVE  /\ wire'[i].at = End(i - 1)'
               /\ wire'[i].put = Copied(wire'[i].attr)
               /\ mode = "plain" => wire'[i].attr.type \in InnerType
    <3>1. CASE i \in 1 .. k
      BY <1>3, <1>6, <1>8, <3>1 DEF IInv, WireInv
    <3>2. CASE i = k + 1
      BY <1>1, <1>3, <1>6, <1>8, <3>2
    <3> QED
      BY <1>3, <3>1, <3>2
  <2>2. ASSUME NEW i \in 1 .. k + 1, NEW j \in 1 .. k + 1, i < j
        PROVE  End(i)' <= wire'[j].at
    <3>1. i \in 1 .. k
      BY <1>3, <2>2
    <3>2. CASE j \in 1 .. k
      BY <1>3, <1>6, <1>8, <2>2, <3>1, <3>2 DEF IInv, WireInv
    <3>3. CASE j = k + 1
      <4>1. End(i)' = End(i) /\ End(i) <= End(k)
        BY <1>3, <1>8, <3>1 DEF IInv, WireInv
      <4> QED
        BY <1>6, <1>8, <3>3, <4>1
    <3> QED
      BY <1>3, <3>2, <3>3
  <2>3. ASSUME NEW i \in 1 .. k + 1
        PROVE  End(i)' <= End(k + 1)'
    <3>1. CASE i \in 1 .. k
      <4>1. End(i)' = End(i) /\ End(i) <= End(k) /\ End(i) \in Nat
        BY <1>3, <1>8, <3>1, EndTyped DEF IInv, WireInv
      <4> DEFINE t == TotalLength(a)
                 e == End(i)
      <4>2. t \in Nat /\ size \in Nat /\ e \in Nat /\ e <= size
        BY <1>2, <1>3, <1>8, <4>1
      <4>3. End(i)' = e /\ End(k + 1)' = size + t
        BY <1>8, <4>1
      <4> HIDE DEF t, e
      <4> QED
        BY <4>2, <4>3
    <3>2. CASE i = k + 1
      BY <1>2, <1>3, <1>8, <3>2
    <3> QED
      BY <1>3, <3>1, <3>2
  <2>4. End(k + 1)' = size' - padding'
    BY <1>1, <1>2, <1>3, <1>8
  <2>5. Aligned' => (size' % 4 = 0)
    <3>1. ASSUME Aligned'
          PROVE  size' % 4 = 0
      <4>1. size % 4 = 0 /\ TotalLength(a) % 4 = 0
        BY <1>9, <3>1, AlignedLayout DEF IInv, WireInv
      <4> DEFINE t == TotalLength(a)
      <4>2. t \in Nat /\ size \in Nat /\ size' = size + t /\ t % 4 = 0
        BY <1>1, <1>2, <1>3, <4>1
      <4> HIDE DEF t
      <4> QED
        BY <4>1, <4>2
    <3> QED
      BY <3>1
  <2> QED
    BY <1>3, <1>6, <2>1, <2>2, <2>3, <2>4, <2>5 DEF WireInv
<1>11. PaddingInv'
  BY <1>3 DEF IInv, PaddingInv, WholeBlocks
<1>12. Fits' => Fits
  <2> DEFINE t == TotalLength(a)
  <2>1. t \in Nat /\ size \in Nat /\ size' = size + t /\ mode' = mode
    BY <1>1, <1>2, <1>3
  <2>2. LengthMod \in Nat
    BY ConstantsOK
  <2> HIDE DEF t
  <2> QED
    BY <2>1, <2>2 DEF Fits
<1>13. Aligned' /\ Fits' => DecodeInv' /\ FindInv'
  BY <1>3, <1>9, <1>12 DEF IInv, DecodeInv, FindInv
<1> QED
  BY <1>7, <1>10, <1>11, <1>13 DEF IInv

\* A list of inner attributes is aligned.
LEMMA PlainAligned == ASSUME IInv, mode = "plain" PROVE Aligned
BY DEF IInv, WireInv, Aligned, InnerType

\* EncryptAttributes fills the last block.
LEMMA EncryptKeeps ==
    ASSUME IInv, Encrypt
    PROVE  IInv'
<1> DEFINE p == [type |-> "ATPadding", len |-> PaddingLen]
<1>1. /\ pc = "encode" /\ mode = "plain" /\ pc' = "decode" /\ padding = 0 /\ size \in Nat
      /\ padding' = (IF size % 16 = 0 THEN 0 ELSE TotalLength(p))
      /\ size' = size + padding'
      /\ UNCHANGED <<mode, wire, whole, offset, decoded, macOffset>>
  BY DEF Encrypt, IInv, TypeOK, PaddingInv
<1>2. Aligned /\ size % 4 = 0
  BY <1>1, PlainAligned DEF IInv, WireInv
<1>3. TotalLength(p) = 16 - (size % 16)
  <2>1. Payload(p) = PaddingLen
    BY DEF Payload, Word16
  <2> QED
    BY <1>1, <2>1 DEF TotalLength, PaddingLen
<1>4. padding' \in {0, 4, 8, 12} /\ size' \in Nat /\ size' % 4 = 0 /\ size' % 16 = 0
  <2>1. CASE size % 16 = 0
    BY <1>1, <1>2, <2>1
  <2>2. CASE size % 16 # 0
    <3>1. padding' = 16 - (size % 16)
      BY <1>1, <1>3, <2>2
    <3> QED
      BY <1>1, <1>2, <2>2, <3>1
  <2> QED
    BY <2>1, <2>2
<1>5. TypeOK'
  BY <1>1, <1>4 DEF IInv, TypeOK
<1>6. \A n : End(n)' = End(n)
  BY <1>1 DEF End, Base
<1>7. WireInv'
  <2>1. End(Len(wire)) = size
    BY <1>1 DEF IInv, WireInv
  <2>2. End(Len(wire)) = size' - padding'
    BY <1>1, <1>4, <2>1
  <2> QED
    BY <1>1, <1>4, <1>6, <2>2 DEF IInv, WireInv
<1>8. PaddingInv'
  BY <1>1, <1>4 DEF PaddingInv, WholeBlocks
<1>9. decoded' = << >> /\ offset' = 0
  BY <1>1, <1>2 DEF IInv, DecodeInv, Fits
<1>10. DecodeInv'
  <2>1. 0 \in 0 .. Len(wire) /\ Len(wire) \in Nat
    BY DEF IInv, TypeOK
  <2>2. End(0)' = 0
    BY <1>1 DEF End, Base
  <2>3. DecodedFirst(0)'
    BY <1>1, <1>9, <2>1 DEF DecodedFirst
  <2> QED
    BY <1>1, <1>9, <2>1, <2>2, <2>3 DEF DecodeInv
<1>11. FindInv'
  BY <1>1 DEF FindInv
<1> QED
  BY <1>5, <1>7, <1>8, <1>10, <1>11 DEF IInv

\* What a step that leaves the bytes alone must type.
LEMMA TypeKeeps ==
    ASSUME TypeOK, UNCHANGED written,
           pc' \in {"encode", "sent", "decode", "find"} \cup Final, whole' \in BOOLEAN,
           offset' \in Nat, decoded' \in Seq([type: Type, from: Nat, len: Int]),
           macOffset' \in Int
    PROVE  TypeOK'
<1> USE DEF TypeOK, written
<1>1. mode' \in {"packet", "plain"} /\ padding' \in {0, 4, 8, 12} /\ size' \in Nat
  OBVIOUS
<1>2. wire' \in Seq([attr: Attr, at: Nat, put: Int])
  OBVIOUS
<1> QED
  BY <1>1, <1>2

\* The decoders' steps: only what they compute has to be shown.
LEMMA StepKeeps ==
    ASSUME IInv, UNCHANGED written, TypeOK', pc # "encode" \/ mode = "packet",
           pc' # "encode",
           Aligned /\ Fits => DecodeInv' /\ FindInv'
    PROVE  IInv'
<1>1. WireInv' /\ Aligned' = Aligned /\ Fits' = Fits
  BY LayoutStays DEF IInv
<1>2. PaddingInv'
  BY DEF IInv, PaddingInv, WholeBlocks, written
<1> QED
  BY <1>1, <1>2 DEF IInv

LEMMA NothingCut ==
    ASSUME NEW n \in Nat, NEW m \in Nat \ {0}, n < m
    PROVE  n % m = n
  BY SMTT(30)

\* While the length has room in its field, both decoders see all that was written.
LEMMA LimitIs ==
    ASSUME IInv, Fits
    PROVE  Limit = size
<1>1. size \in Nat /\ LengthMod \in Nat \ {0}
  BY ConstantsOK DEF IInv, TypeOK
<1>2. CASE mode = "packet"
  BY <1>1, <1>2, NothingCut DEF Limit, PacketLength, Fits
<1>3. CASE mode # "packet"
  BY <1>3 DEF Limit
<1> QED
  BY <1>2, <1>3

\* A packet has at least its header.
LEMMA AtLeastHeader ==
    ASSUME IInv, mode = "packet"
    PROVE  size >= 8
<1>1. Len(wire) \in Nat /\ size \in Nat /\ padding = 0 /\ End(0) = 8
  BY DEF IInv, TypeOK, PaddingInv, End, Base
<1>2. CASE Len(wire) = 0
  BY <1>1, <1>2 DEF IInv, WireInv
<1>3. CASE Len(wire) # 0
  <2>1. 1 \in DOMAIN wire /\ 1 \in 0 .. Len(wire) /\ 1 - 1 = 0
    BY <1>1, <1>3 DEF IInv, TypeOK
  <2>2. wire[1].at = 8 /\ End(1) <= size
    BY <1>1, <2>1 DEF IInv, WireInv
  <2>3. wire[1].at + 2 <= End(1) /\ End(1) \in Nat
    BY <2>1, EndTyped DEF IInv
  <2> QED
    BY <1>1, <2>2, <2>3
<1> QED
  BY <1>2, <1>3

\* The packet is sent, and arrives as it is or without its end.
LEMMA SendKeeps ==
    ASSUME IInv, Send \/ Receive \/ ReceiveShort \/ ReceiveTruncated
    PROVE  IInv'
<1>1. UNCHANGED <<written, decoded, macOffset>>
  BY DEF Send, Receive, ReceiveShort, ReceiveTruncated
<1>2. UNCHANGED <<wire, mode>>
  BY <1>1 DEF written
<1>3. /\ pc' \in {"sent", "decode", "error"} /\ whole' \in BOOLEAN /\ offset' \in Nat
      /\ decoded' \in Seq([type: Type, from: Nat, len: Int]) /\ macOffset' \in Int
  <2>1. decoded' \in Seq([type: Type, from: Nat, len: Int]) /\ macOffset' \in Int
    BY <1>1 DEF IInv, TypeOK
  <2>2. whole \in BOOLEAN /\ offset \in Nat
    BY DEF IInv, TypeOK
  <2>3. pc' \in {"sent", "decode", "error"} /\ offset' \in Nat
    BY <2>2 DEF Send, Receive, ReceiveShort, ReceiveTruncated
  <2>4. whole' \in BOOLEAN
    BY <2>2, Zenon DEF Send, Receive, ReceiveShort, ReceiveTruncated
  <2> QED
    BY <2>1, <2>3, <2>4
<1>4. TypeOK'
  BY <1>1, <1>3, TypeKeeps DEF IInv, Final
<1>5. FindInv'
  BY <1>3 DEF FindInv
<1>6. pc # "encode" \/ mode = "packet"
  BY DEF Send, Receive, ReceiveShort, ReceiveTruncated
<1>7. ASSUME Aligned, Fits
      PROVE  DecodeInv'
  <2>1. CASE Send
    BY <1>1, <1>2, <1>7, <2>1 DEF Send, IInv, DecodeInv
  <2>2. CASE ReceiveTruncated
    BY <2>2 DEF ReceiveTruncated, DecodeInv
  <2>3. CASE Receive
    <3>1. decoded' = << >> /\ mode = "packet" /\ offset' = 8 /\ pc' = "decode"
      BY <1>1, <1>7, <2>3 DEF Receive, IInv, DecodeInv
    <3>2. 0 \in 0 .. Len(wire) /\ Len(wire) \in Nat
      BY DEF IInv, TypeOK
    <3>3. End(0)' = 8
      BY <1>2, <3>1 DEF End, Base
    <3>4. DecodedFirst(0)'
      BY <1>2, <3>1, <3>2 DEF DecodedFirst
    <3> QED
      BY <1>2, <3>1, <3>2, <3>3, <3>4 DEF DecodeInv
  <2>4. CASE ReceiveShort
    <3>1. pc = "sent" /\ PacketLength < 8
      BY <2>4 DEF ReceiveShort
    <3>2. mode = "packet"
      BY <1>7, <3>1 DEF IInv, DecodeInv
    <3>3. PacketLength = size
      BY <1>7, <3>2, LimitIs DEF Limit
    <3>4. FALSE
      BY <3>1, <3>2, <3>3, AtLeastHeader DEF IInv, TypeOK
    <3> QED
      BY <3>4
  <2> QED
    BY <2>1, <2>2, <2>3, <2>4
<1> QED
  BY <1>1, <1>3, <1>4, <1>5, <1>6, <1>7, StepKeeps

\* While there is something left, the decoder is at an attribute or at the padding.
LEMMA WhereDecode ==
    ASSUME IInv, Aligned, Fits, pc = "decode"
    PROVE  \/ \E n \in 0 .. Len(wire) - 1 : DecodedFirst(n) /\ offset = End(n) /\ offset < size
           \/ /\ DecodedFirst(Len(wire)) /\ offset = size - padding
              /\ padding # 0 /\ mode = "plain"
              /\ offset < size
           \/ DecodedFirst(Len(wire)) /\ offset >= size
<1>1. Len(wire) \in Nat /\ size \in Nat /\ padding \in {0, 4, 8, 12} /\ offset \in Nat
  BY DEF IInv, TypeOK
<1>2. CASE DecodedFirst(Len(wire)) /\ offset = size
  BY <1>1, <1>2
<1>3. ASSUME NEW n \in 0 .. Len(wire), DecodedFirst(n), offset = End(n)
      PROVE  \/ n \in 0 .. Len(wire) - 1 /\ offset < size
             \/ n = Len(wire) /\ offset = size - padding
  <2>1. CASE n = Len(wire)
    BY <1>3, <2>1 DEF IInv, WireInv
  <2>2. CASE n # Len(wire)
    <3>1. n + 1 \in DOMAIN wire /\ n + 1 \in 0 .. Len(wire) /\ n + 1 # 0 /\ n \in 0 .. Len(wire) - 1
      BY <1>1, <2>2 DEF IInv, TypeOK
    <3>2. wire[n + 1].at = End(n)
      BY <3>1 DEF IInv, WireInv
    <3>3. End(n + 1) \in Nat /\ wire[n + 1].at + 2 <= End(n + 1)
      BY <3>1, EndTyped DEF IInv
    <3>4. End(n + 1) <= size - padding
      BY <3>1 DEF IInv, WireInv
    <3> QED
      BY <1>1, <1>3, <3>1, <3>2, <3>3, <3>4
  <2> QED
    BY <2>1, <2>2
<1>4. mode = "packet" => padding = 0
  BY DEF IInv, PaddingInv
<1>5. mode \in {"packet", "plain"}
  BY DEF IInv, TypeOK
<1> QED
  BY <1>1, <1>2, <1>3, <1>4, <1>5 DEF IInv, DecodeInv

\* DecodeEapPacket and DecryptAttributes take the next attribute.
LEMMA DecodeAttributeKeeps ==
    ASSUME IInv, DecodeAttribute
    PROVE  IInv'
<1> DEFINE Value == [type: Type, from: Nat, len: Int]
<1>1. PICK h \in HeadersAt(offset) :
        /\ Takes(h) /\ Readable(h)
        /\ decoded' = IF h.words = 0 THEN decoded ELSE Append(decoded, Read(h, offset))
        /\ offset' = offset + 4 * h.words
  BY DEF DecodeAttribute
<1>2. pc = "decode" /\ pc' = "decode" /\ offset < Limit /\ UNCHANGED <<written, whole, macOffset>>
  BY DEF DecodeAttribute
<1>3. TypeOK'
  <2>1. offset \in Nat /\ whole \in BOOLEAN /\ macOffset \in Int /\ decoded \in Seq(Value)
    BY DEF IInv, TypeOK
  <2>2. Read(h, offset) \in Value /\ 4 * h.words \in Nat
    BY <2>1, HeadersTyped, ReadTyped DEF IInv
  <2> HIDE DEF Value
  <2>3. offset' \in Nat /\ decoded' \in Seq(Value)
    BY <1>1, <2>1, <2>2
  <2> USE DEF Value
  <2> QED
    BY <1>2, <2>1, <2>3, TypeKeeps DEF IInv
<1>4. ASSUME Aligned, Fits
      PROVE  DecodeInv'
  <2>1. PICK n \in 0 .. Len(wire) - 1 : DecodedFirst(n) /\ offset = End(n)
    <3>1. CASE padding # 0 /\ mode = "plain" /\ offset = size - padding
      <4>1. h.type = "ATPadding"
        BY <3>1, PaddingHere DEF IInv
      <4> QED
        BY <1>1, <3>1, <4>1 DEF Takes
    <3>2. ~ (offset >= size)
      BY <1>2, <1>4, LimitIs DEF IInv, TypeOK
    <3> QED
      BY <1>2, <1>4, <3>1, <3>2, WhereDecode
  <2>2. /\ n + 1 \in DOMAIN wire
        /\ End(n) + 4 * h.words = End(n + 1)
        /\ h.words # 0
        /\ Read(h, End(n)) = WrittenTo(wire[n + 1])
    BY <1>1, <1>4, <2>1, NextAttribute DEF IInv
  <2>3. PICK k \in Nat : k = n + 1 /\ k \in 0 .. Len(wire) /\ k \in DOMAIN wire
    BY <2>1, <2>2 DEF IInv, TypeOK
  <2>4. decoded' = Append(decoded, WrittenTo(wire[k])) /\ offset' = End(k)
    BY <1>1, <2>1, <2>2, <2>3
  <2>5. /\ \A i : End(i)' = End(i)
        /\ \A w : WrittenTo(w)' = WrittenTo(w)
        /\ wire' = wire
    BY <1>2, LayoutStays DEF IInv, written
  <2>6. DecodedFirst(k)'
    <3>1. Len(decoded) = n /\ decoded \in Seq(Value) /\ (\A i \in 1 .. n : decoded[i] = WrittenTo(wire[i]))
      BY <2>1 DEF DecodedFirst, IInv, TypeOK
    <3> HIDE DEF Value
    <3>2. Len(decoded') = k /\ decoded'[k] = WrittenTo(wire[k])
      BY <2>1, <2>3, <2>4, <3>1
    <3>3. ASSUME NEW i \in 1 .. k
          PROVE  decoded'[i] = WrittenTo(wire[i])
      <4>1. CASE i = k
        BY <3>2, <4>1
      <4>2. CASE i # k
        BY <2>1, <2>3, <2>4, <3>1, <4>2
      <4> QED
        BY <4>1, <4>2
    <3> QED
      BY <2>3, <2>5, <3>2, <3>3 DEF DecodedFirst
  <2>7. offset' = End(k)'
    BY <2>4, <2>5
  <2> QED
    BY <1>2, <2>3, <2>5, <2>6, <2>7 DEF DecodeInv
<1>5. FindInv'
  BY <1>2 DEF FindInv
<1> QED
  BY <1>2, <1>3, <1>4, <1>5, StepKeeps

\* DecryptAttributes passes the padding.
LEMMA SkipPaddingKeeps ==
    ASSUME IInv, SkipPadding
    PROVE  IInv'
<1>1. PICK h \in HeadersAt(offset) :
        h.words # 0 /\ h.type = "ATPadding" /\ offset' = offset + 4 * h.words
  BY DEF SkipPadding
<1>2. /\ pc = "decode" /\ pc' = "decode" /\ offset < size
      /\ UNCHANGED <<written, whole, decoded, macOffset>>
  BY DEF SkipPadding, Limit
<1>3. offset \in Nat /\ size \in Nat /\ padding \in {0, 4, 8, 12}
  BY DEF IInv, TypeOK
<1>4. TypeOK'
  <2>1. 4 * h.words \in Nat
    BY HeadersTyped, ReadTyped, <1>3 DEF IInv
  <2>2. offset' \in Nat
    BY <1>1, <1>3, <2>1
  <2> QED
    BY <1>2, <2>2, TypeKeeps DEF IInv, TypeOK
<1>5. ASSUME Aligned, Fits
      PROVE  DecodeInv'
  <2>1. ASSUME NEW n \in 0 .. Len(wire) - 1, offset = End(n)
        PROVE  FALSE
    BY <1>1, <1>5, <2>1, NextAttribute DEF IInv
  <2>2. DecodedFirst(Len(wire)) /\ offset = size - padding /\ padding # 0
    BY <1>2, <1>3, <1>5, <2>1, WhereDecode
  <2>3. offset' = size
    <3>1. h.words = padding \div 4
      BY <2>2, PaddingHere DEF IInv
    <3> QED
      BY <1>1, <1>3, <2>2, <3>1
  <2>4. \A w : WrittenTo(w)' = WrittenTo(w)
    BY <1>2, LayoutStays DEF IInv
  <2>5. DecodedFirst(Len(wire))' /\ offset' = size'
    BY <1>2, <2>2, <2>3, <2>4 DEF DecodedFirst, written
  <2> QED
    BY <1>2, <2>5 DEF DecodeInv
<1>6. FindInv'
  BY <1>2 DEF FindInv
<1> QED
  BY <1>2, <1>4, <1>5, <1>6, StepKeeps

\* An error or a panic: not of a packet that has its layout.
LEMMA DecodeStopsKeeps ==
    ASSUME IInv, DecodeFails \/ DecodePanics
    PROVE  IInv'
<1>1. /\ pc = "decode" /\ pc' \in {"error", "panic"} /\ offset < Limit
      /\ UNCHANGED <<written, whole, offset, decoded, macOffset>>
  BY DEF DecodeFails, DecodePanics
<1>2. PICK h \in HeadersAt(offset) :
        (Overruns(h) /\ mode = "packet") \/ (Takes(h) /\ OutOfRange(h))
  BY DEF DecodeFails, DecodePanics
<1>3. TypeOK'
  BY <1>1, TypeKeeps DEF IInv, TypeOK, Final
<1>4. ~ (Aligned /\ Fits)
  <2>1. SUFFICES ASSUME Aligned, Fits PROVE FALSE
    OBVIOUS
  <2>2. offset \in Nat /\ size \in Nat /\ Limit = size
    BY <2>1, LimitIs DEF IInv, TypeOK
  <2>3. ASSUME NEW n \in 0 .. Len(wire) - 1, offset = End(n)
        PROVE  FALSE
    <3>1. /\ offset + 4 * h.words <= size /\ h.words # 0
          /\ ReadLen(h) >= 0 /\ offset + ValueAt(h.type) + ReadLen(h) <= size
      BY <1>2, <2>1, <2>3, NextAttribute DEF IInv
    <3>2. 4 * h.words \in Nat /\ ReadLen(h) \in Int
      BY <2>2, HeadersTyped, ReadTyped DEF IInv, Read
    <3>3. ~ Overruns(h)
      BY <2>2, <3>1, <3>2 DEF Overruns
    <3>4. ~ OutOfRange(h)
      BY <2>2, <3>1, <3>2 DEF OutOfRange, ValueAt
    <3> QED
      BY <1>2, <3>3, <3>4
  <2>4. offset = size - padding /\ padding # 0 /\ mode = "plain"
    BY <1>1, <2>1, <2>2, <2>3, WhereDecode
  <2>5. h.type = "ATPadding"
    BY <2>4, PaddingHere DEF IInv
  <2> QED
    BY <1>2, <2>4, <2>5 DEF Takes
<1> QED
  BY <1>1, <1>3, <1>4, StepKeeps

\* DecodeEapPacket returns, and FindATMACOffset starts where it did.
LEMMA DecodeReturnsKeeps ==
    ASSUME IInv, DecodeReturns
    PROVE  IInv'
<1>1. /\ pc = "decode" /\ mode = "packet" /\ offset >= Limit
      /\ pc' = IF \E i \in DOMAIN decoded : decoded[i].type = "ATMac" THEN "find" ELSE "ok"
      /\ offset' = 8
      /\ UNCHANGED <<written, whole, decoded, macOffset>>
  BY DEF DecodeReturns
<1>2. TypeOK'
  BY <1>1, TypeKeeps DEF IInv, TypeOK, Final
<1>3. ASSUME Aligned, Fits
      PROVE  DecodeInv' /\ FindInv'
  <2>1. /\ \A i : End(i)' = End(i)
        /\ \A w : WrittenTo(w)' = WrittenTo(w)
        /\ wire' = wire /\ mode' = mode
    BY <1>1, LayoutStays DEF IInv, written
  <2>2. DecodedFirst(Len(wire))
    <3>1. size \in Nat /\ offset \in Nat /\ Limit = size
      BY <1>3, LimitIs DEF IInv, TypeOK
    <3>2. ~ (offset < size)
      BY <1>1, <3>1
    <3> QED
      BY <1>1, <1>3, <3>2, WhereDecode
  <2>3. DecodedFirst(Len(wire))'
    BY <1>1, <2>1, <2>2 DEF DecodedFirst
  <2>4. DecodeInv'
    BY <1>1, <2>3 DEF DecodeInv
  <2>5. pc' = "find" => /\ mode' = "packet"
                        /\ \E i \in DOMAIN decoded' : decoded'[i].type = "ATMac"
                        /\ \E n \in 0 .. Len(wire') : NoMacBefore(n)' /\ offset' = End(n)'
    <3>1. 0 \in 0 .. Len(wire) /\ Len(wire) \in Nat
      BY DEF IInv, TypeOK
    <3>2. NoMacBefore(0)' /\ End(0)' = 8
      BY <1>1, <2>1 DEF NoMacBefore, End, Base
    <3> QED
      BY <1>1, <2>1, <3>1, <3>2
  <2>6. pc' = "ok" => MacIsWhereItWasRead'
    BY <1>1 DEF MacIsWhereItWasRead
  <2> QED
    BY <2>4, <2>5, <2>6 DEF FindInv
<1> QED
  BY <1>1, <1>2, <1>3, StepKeeps

\* When all attributes are decoded the result has each of them at its place.
LEMMA DecodedAll ==
    ASSUME IInv, DecodedFirst(Len(wire))
    PROVE  /\ DOMAIN decoded = 1 .. Len(wire) /\ DOMAIN wire = 1 .. Len(wire)
           /\ Len(wire) \in Nat
           /\ \A j \in 1 .. Len(wire) :
                /\ decoded[j] = WrittenTo(wire[j])
                /\ decoded[j].type = wire[j].attr.type
                /\ decoded[j].from = wire[j].at + ValueAt(wire[j].attr.type)
<1> DEFINE Value == [type: Type, from: Nat, len: Int]
           Entry == [attr : Attr, at : Nat, put : Int]
<1>1. wire \in Seq(Entry) /\ decoded \in Seq(Value)
  BY DEF IInv, TypeOK
<1>2. Len(decoded) = Len(wire) /\ \A j \in 1 .. Len(wire) : decoded[j] = WrittenTo(wire[j])
  BY DEF DecodedFirst
<1> HIDE DEF Value, Entry
<1>3. DOMAIN decoded = 1 .. Len(wire) /\ DOMAIN wire = 1 .. Len(wire) /\ Len(wire) \in Nat
  BY <1>1, <1>2
<1>4. \A w : /\ WrittenTo(w).type = w.attr.type
             /\ WrittenTo(w).from = w.at + ValueAt(w.attr.type)
  BY DEF WrittenTo
<1> QED
  BY <1>2, <1>3, <1>4

\* DecryptAttributes returns, and there is no AT_MAC in what it decrypts.
LEMMA DecryptReturnsKeeps ==
    ASSUME IInv, DecryptReturns
    PROVE  IInv'
<1>1. /\ pc = "decode" /\ mode = "plain" /\ pc' = "ok"
      /\ UNCHANGED <<written, whole, offset, decoded, macOffset>>
  BY DEF DecryptReturns
<1>2. TypeOK'
  BY <1>1, TypeKeeps DEF IInv, TypeOK, Final
<1>3. ASSUME Aligned, Fits
      PROVE  DecodeInv' /\ FindInv'
  <2>1. \A w : WrittenTo(w)' = WrittenTo(w)
    BY <1>1, LayoutStays DEF IInv
  <2>2. offset \in Nat /\ size \in Nat /\ padding \in {0, 4, 8, 12} /\ Len(wire) \in Nat
    BY DEF IInv, TypeOK
  <2>3. ASSUME NEW n \in 0 .. Len(wire) - 1, offset = End(n), offset < size
        PROVE  FALSE
    <3>1. n + 1 \in DOMAIN wire /\ wire[n + 1].at = offset
      <4>1. n + 1 \in DOMAIN wire
        BY <2>2 DEF IInv, TypeOK
      <4>2. n + 1 - 1 = n
        BY <2>2
      <4> QED
        BY <2>3, <4>1, <4>2 DEF IInv, WireInv
    <3>2. HeaderOf(wire[n + 1].attr) \in HeadersAt(offset)
      BY <3>1, HeaderHere DEF IInv
    <3>3. PICK h \in HeadersAt(offset) : h.words = 0 \/ Overruns(h)
      BY <1>1, <2>3, <3>2 DEF DecryptReturns, Limit
    <3>4. offset + 4 * h.words <= size /\ h.words # 0
      BY <1>3, <2>3, NextAttribute DEF IInv
    <3>5. ~ Overruns(h)
      <4>1. 4 * h.words \in Nat
        BY <2>2, HeadersTyped, ReadTyped DEF IInv
      <4> QED
        BY <2>2, <3>4, <4>1 DEF Overruns
    <3> QED
      BY <3>3, <3>4, <3>5
  <2>4. DecodedFirst(Len(wire))
    BY <1>1, <1>3, <2>3, WhereDecode
  <2>5. DecodedFirst(Len(wire))'
    BY <1>1, <2>1, <2>4 DEF DecodedFirst, written
  <2>6. DecodeInv'
    BY <1>1, <2>5 DEF DecodeInv
  <2>7. ASSUME NEW i \in DOMAIN decoded
        PROVE  decoded[i].type # "ATMac"
    <3>1. i \in DOMAIN wire /\ decoded[i] = WrittenTo(wire[i])
      BY <2>4, DecodedAll
    <3>2. wire[i].attr.type \in InnerType
      BY <1>1, <3>1 DEF IInv, WireInv
    <3> QED
      BY <3>1, <3>2 DEF WrittenTo, InnerType
  <2>8. FindInv'
    BY <1>1, <2>7 DEF FindInv, MacIsWhereItWasRead
  <2> QED
    BY <2>6, <2>8
<1> QED
  BY <1>1, <1>2, <1>3, StepKeeps

\* FindATMACOffset has an attribute before it, and the decoder has read it.
LEMMA WhereFind ==
    ASSUME IInv, Aligned, Fits, pc = "find"
    PROVE  /\ mode = "packet" /\ DecodedFirst(Len(wire))
           /\ \E n \in 0 .. Len(wire) - 1 :
                 NoMacBefore(n) /\ offset = End(n) /\ offset + 4 <= size
<1>1. DecodedFirst(Len(wire)) /\ mode = "packet" /\ Len(wire) \in Nat
  BY DEF IInv, DecodeInv, FindInv, TypeOK
<1>2. PICK i \in DOMAIN decoded : decoded[i].type = "ATMac"
  BY DEF IInv, FindInv
<1>3. PICK n \in 0 .. Len(wire) : NoMacBefore(n) /\ offset = End(n)
  BY DEF IInv, FindInv
<1>4. i \in 1 .. Len(wire) /\ wire[i].attr.type = "ATMac"
  BY <1>1, <1>2, DecodedAll
<1>5. n \in 0 .. Len(wire) - 1
  BY <1>1, <1>3, <1>4 DEF NoMacBefore
<1>6. offset + 4 <= size
  <2>1. n + 1 \in DOMAIN wire /\ n + 1 \in 0 .. Len(wire) /\ n + 1 - 1 = n
    BY <1>1, <1>5 DEF IInv, TypeOK
  <2>2. wire[n + 1].at = End(n)
    BY <2>1 DEF IInv, WireInv
  <2>3. HeaderOf(wire[n + 1].attr) \in HeadersAt(End(n))
    BY <2>1, <2>2, HeaderHere DEF IInv
  <2>4. PICK h \in HeadersAt(End(n)) : TRUE
    BY <2>3
  <2>5. End(n) + 4 * h.words = End(n + 1) /\ End(n + 1) <= size /\ h.words # 0
    BY <1>5, NextAttribute DEF IInv
  <2>6. h.words \in 0 .. 255
    BY HeadersTyped DEF IInv, Header
  <2>7. offset \in Nat /\ size \in Nat /\ End(n + 1) \in Nat
    BY <2>1, EndTyped DEF IInv, TypeOK
  <2>8. offset + 4 * h.words <= size
    BY <1>3, <2>5
  <2>9. PICK w \in 1 .. 255 : w = h.words
    BY <2>5, <2>6
  <2>10. offset + 4 * w <= size
    BY <2>8, <2>9
  <2> QED
    BY <2>7, <2>10
<1> QED
  BY <1>1, <1>3, <1>5, <1>6

\* FindATMACOffset passes an attribute.
LEMMA FindNextKeeps ==
    ASSUME IInv, FindNext
    PROVE  IInv'
<1>1. PICK h \in HeadersAt(offset) : h.type # "ATMac" /\ offset' = offset + 4 * h.words
  BY DEF FindNext
<1>2. pc = "find" /\ pc' = "find" /\ UNCHANGED <<written, whole, decoded, macOffset>>
  BY DEF FindNext
<1>3. TypeOK'
  <2>1. offset \in Nat /\ 4 * h.words \in Nat
    BY HeadersTyped, ReadTyped DEF IInv, TypeOK
  <2>2. offset' \in Nat
    BY <1>1, <2>1
  <2> QED
    BY <1>2, <2>2, TypeKeeps DEF IInv, TypeOK
<1>4. ASSUME Aligned, Fits
      PROVE  DecodeInv' /\ FindInv'
  <2>1. /\ \A i : End(i)' = End(i)
        /\ \A w : WrittenTo(w)' = WrittenTo(w)
        /\ wire' = wire /\ mode' = mode
    BY <1>2, LayoutStays DEF IInv, written
  <2>2. DecodedFirst(Len(wire)) /\ mode = "packet"
    BY <1>2, <1>4, WhereFind
  <2>3. PICK n \in 0 .. Len(wire) - 1 : NoMacBefore(n) /\ offset = End(n)
    BY <1>2, <1>4, WhereFind
  <2>4. DecodeInv'
    BY <1>2, <2>1, <2>2 DEF DecodeInv, DecodedFirst
  <2>5. PICK k \in Nat : k = n + 1 /\ k \in 0 .. Len(wire)
    BY <2>3 DEF IInv, TypeOK
  <2>6. offset' = End(k) /\ wire[k].attr.type # "ATMac"
    <3>1. End(n) + 4 * h.words = End(n + 1) /\ h.type = wire[n + 1].attr.type
      BY <1>4, <2>3, NextAttribute DEF IInv
    <3> QED
      BY <1>1, <2>3, <2>5, <3>1
  <2>7. NoMacBefore(k)'
    BY <2>1, <2>3, <2>5, <2>6 DEF NoMacBefore
  <2>8. \E i \in DOMAIN decoded' : decoded'[i].type = "ATMac"
    BY <1>2, <1>4 DEF IInv, FindInv
  <2>9. offset' = End(k)'
    BY <2>1, <2>6
  <2>10. FindInv'
    BY <1>2, <2>1, <2>2, <2>5, <2>7, <2>8, <2>9 DEF FindInv
  <2> QED
    BY <2>4, <2>10
<1> QED
  BY <1>2, <1>3, <1>4, StepKeeps

\* FindATMACOffset has found the first AT_MAC of the packet, or nothing.
LEMMA FindEndsKeeps ==
    ASSUME IInv, FindReturns \/ FindNothing
    PROVE  IInv'
<1>1. pc = "find" /\ pc' = "ok" /\ UNCHANGED <<written, whole, offset, decoded>>
  BY DEF FindReturns, FindNothing
<1>2. offset \in Nat /\ size \in Nat /\ macOffset \in Int
  BY DEF IInv, TypeOK
<1>3. TypeOK'
  <2>1. macOffset' \in Int
    BY <1>2 DEF FindReturns, FindNothing
  <2> QED
    BY <1>1, <2>1, TypeKeeps DEF IInv, TypeOK, Final
<1>4. ASSUME Aligned, Fits
      PROVE  DecodeInv' /\ FindInv'
  <2>1. /\ \A w : WrittenTo(w)' = WrittenTo(w)
        /\ wire' = wire /\ mode' = mode
    BY <1>1, LayoutStays DEF IInv, written
  <2>2. DecodedFirst(Len(wire)) /\ mode = "packet"
    BY <1>1, <1>4, WhereFind
  <2>3. PICK n \in 0 .. Len(wire) - 1 :
          NoMacBefore(n) /\ offset = End(n) /\ offset + 4 <= size
    BY <1>1, <1>4, WhereFind
  <2>4. DecodeInv'
    BY <1>1, <2>1, <2>2 DEF DecodeInv, DecodedFirst
  <2>5. FindReturns
    BY <1>2, <2>3 DEF FindNothing
  <2>6. PICK h \in HeadersAt(offset) : h.type = "ATMac"
    BY <2>5 DEF FindReturns
  <2>7. PICK k \in Nat : k = n + 1 /\ k \in DOMAIN wire /\ k \in 1 .. Len(wire)
    BY <2>3 DEF IInv, TypeOK
  <2>8. wire[k].attr.type = "ATMac" /\ wire[k].at = offset
    <3>1. End(n) = wire[n + 1].at /\ h.type = wire[n + 1].attr.type
      BY <1>4, <2>3, <2>6, NextAttribute DEF IInv
    <3> QED
      BY <2>3, <2>6, <2>7, <3>1
  <2>9. ASSUME NEW i \in DOMAIN decoded, decoded[i].type = "ATMac",
               \A j \in 1 .. i - 1 : decoded[j].type # "ATMac"
        PROVE  macOffset' + 4 = decoded[i].from
    <3>1. i \in 1 .. Len(wire) /\ Len(wire) \in Nat
      BY <2>2, DecodedAll
    <3>2. \A j \in 1 .. Len(wire) : decoded[j].type = wire[j].attr.type
      BY <2>2, DecodedAll
    <3>3. ~ (k < i)
      BY <2>7, <2>8, <2>9, <3>1, <3>2
    <3>4. ~ (i <= n)
      BY <2>3, <2>7, <2>9, <3>1, <3>2 DEF NoMacBefore
    <3>5. i = k
      BY <2>3, <2>7, <3>1, <3>3, <3>4
    <3>6. decoded[i].from = wire[k].at + 4
      BY <2>2, <2>8, <3>1, <3>5, DecodedAll DEF ValueAt
    <3> QED
      BY <2>5, <2>8, <3>6 DEF FindReturns
  <2>10. FindInv'
    BY <1>1, <2>9 DEF FindInv, MacIsWhereItWasRead
  <2> QED
    BY <2>4, <2>10
<1> QED
  BY <1>1, <1>3, <1>4, StepKeeps

-----------------------------------------------------------------------------
(* Theorems *)

\* Init and every step.
THEOREM Invariance == Spec => []IInv
<1>1. Init => IInv
  <2> SUFFICES ASSUME Init PROVE IInv
    OBVIOUS
  <2>1. /\ pc = "encode" /\ mode \in {"packet", "plain"} /\ wire = << >> /\ padding = 0
        /\ size = (IF mode = "packet" THEN 8 ELSE 0)
        /\ whole = TRUE /\ offset = 0 /\ decoded = << >> /\ macOffset = -1
    BY DEF Init
  <2>2. TypeOK
    BY <2>1 DEF TypeOK
  <2>3. DOMAIN wire = {} /\ Len(wire) = 0
    BY <2>1
  <2>4. WireInv
    BY <2>1, <2>3 DEF WireInv, End, Base
  <2>5. PaddingInv
    BY <2>1 DEF PaddingInv, WholeBlocks
  <2>6. DecodeInv /\ FindInv
    BY <2>1 DEF DecodeInv, FindInv
  <2> QED
    BY <2>2, <2>4, <2>5, <2>6 DEF IInv
<1>2. IInv /\ [Next]_vars => IInv'
  <2> SUFFICES ASSUME IInv, [Next]_vars PROVE IInv'
    OBVIOUS
  <2>1. CASE UNCHANGED vars
    <3>1. UNCHANGED <<pc, mode, wire, padding, size, whole, offset, decoded, macOffset>>
      BY <2>1 DEF vars, written
    <3>2. TypeOK'
      BY <3>1 DEF IInv, TypeOK
    <3>3. WireInv' /\ Aligned' = Aligned /\ Fits' = Fits
          /\ (\A n : End(n)' = End(n)) /\ (\A w : WrittenTo(w)' = WrittenTo(w))
      BY <3>1, LayoutStays DEF IInv, written
    <3>4. PaddingInv'
      BY <3>1 DEF IInv, PaddingInv, WholeBlocks
    <3>5. \A n : DecodedFirst(n)' = DecodedFirst(n) /\ NoMacBefore(n)' = NoMacBefore(n)
      BY <3>1, <3>3 DEF DecodedFirst, NoMacBefore
    <3>6. DecodeInv => DecodeInv'
      BY <3>1, <3>3, <3>5 DEF DecodeInv
    <3>7. FindInv => FindInv'
      <4>1. MacIsWhereItWasRead' = MacIsWhereItWasRead
        BY <3>1, <3>3 DEF MacIsWhereItWasRead
      <4> QED
        BY <3>1, <3>3, <3>5, <4>1 DEF FindInv
    <3> QED
      BY <3>2, <3>3, <3>4, <3>6, <3>7 DEF IInv
  <2>2. CASE Next
    BY <2>2, EncodeKeeps, EncryptKeeps, SendKeeps, DecodeAttributeKeeps, SkipPaddingKeeps,
       DecodeStopsKeeps, DecodeReturnsKeeps, DecryptReturnsKeeps, FindNextKeeps,
       FindEndsKeeps DEF Next
  <2> QED
    BY <2>1, <2>2
<1> QED
  BY <1>1, <1>2, PTL DEF Spec

\* The types of the codec's state, for every length an attribute's value can have.
THEOREM TypeCorrect == Spec => []TypeOK
<1>1. IInv => TypeOK
  BY DEF IInv
<1> QED
  BY <1>1, Invariance, PTL

\* Decoding returns exactly what was encoded, for packets of any number of attributes.
THEOREM RoundTrips == Spec => []RoundTrip
<1>1. IInv => RoundTrip
  <2> SUFFICES ASSUME IInv, Aligned, Fits, pc \in {"find", "ok"}
               PROVE  /\ Len(decoded) = Len(wire)
                      /\ \A i \in DOMAIN wire :
                           wire[i].put = wire[i].attr.len /\ decoded[i] = WrittenTo(wire[i])
    BY DEF RoundTrip
  <2>1. DecodedFirst(Len(wire))
    BY DEF IInv, DecodeInv
  <2>2. ASSUME NEW i \in DOMAIN wire
        PROVE  wire[i].put = wire[i].attr.len /\ decoded[i] = WrittenTo(wire[i])
    <3>1. wire[i].put = Copied(wire[i].attr)
      BY DEF IInv, WireInv
    <3>2. wire[i].attr \in Attr /\ i \in 1 .. Len(wire)
      BY WireTyped DEF IInv
    <3>3. Copied(wire[i].attr) = wire[i].attr.len
      BY <3>2, AlignedLayout DEF Aligned
    <3> QED
      BY <2>1, <3>1, <3>2, <3>3 DEF DecodedFirst
  <2> QED
    BY <2>1, <2>2 DEF DecodedFirst
<1> QED
  BY <1>1, Invariance, PTL

\* A packet that arrives whole is decoded without an error and without a panic,
\* whatever the bytes of its values are.
THEOREM DecodesAll == Spec => []Decodes
<1>1. IInv => Decodes
  BY DEF IInv, DecodeInv, Decodes
<1> QED
  BY <1>1, Invariance, PTL

\* CryptBlocks is given whole blocks.
THEOREM Blocks == Spec => []WholeBlocks
<1>1. IInv => WholeBlocks
  BY DEF IInv, PaddingInv
<1> QED
  BY <1>1, Invariance, PTL

\* FindATMACOffset and the decoder mean the same AT_MAC.
THEOREM MacFound == Spec => []MacIsWhereItWasRead
<1>1. IInv => MacIsWhereItWasRead
  BY DEF IInv, FindInv, MacIsWhereItWasRead
<1> QED
  BY <1>1, Invariance, PTL

\* In every round of every loop there is an attribute or the padding to pass, and what is
\* left gets shorter: with the scheduling that FairSpec assumes, no loop runs for ever.
THEOREM RoundsAdvance == Spec => []EveryRoundAdvances
<1>1. IInv => EveryRoundAdvances
  <2> SUFFICES ASSUME IInv, Aligned, Fits, pc \in {"decode", "find"}, offset < size,
                      NEW h \in HeadersAt(offset)
               PROVE  h.words > 0 /\ offset + 4 * h.words <= size
    BY DEF EveryRoundAdvances
  <2>1. /\ TypeOK /\ WireInv /\ PaddingInv
        /\ Len(wire) \in Nat /\ size \in Nat /\ offset \in Nat
    BY DEF IInv, TypeOK
  <2>2. h.words \in 0 .. 255
    BY <2>1, HeadersTyped DEF Header
  <2>3. CASE \E n \in 0 .. Len(wire) - 1 : offset = End(n)
    <3>1. PICK n \in 0 .. Len(wire) - 1 : offset = End(n)
      BY <2>3
    <3>2. h.words # 0 /\ End(n) + 4 * h.words = End(n + 1) /\ End(n + 1) <= size
      BY <2>1, <3>1, NextAttribute
    <3>3. h.words > 0
      <4>1. \A k \in 0 .. 255 : k # 0 => k > 0
        OBVIOUS
      <4>2. QED
        BY <2>2, <3>2, <4>1
    <3>4. QED
      BY <3>1, <3>2, <3>3
  <2>4. CASE offset = size - padding /\ padding # 0
    <3>1. h.words = padding \div 4
      BY <2>1, <2>4, PaddingHere
    <3>2. padding \in {4, 8, 12}
      BY <2>1, <2>4 DEF TypeOK
    <3>3. QED
      BY <2>1, <2>4, <3>1, <3>2
  <2>5. QED
    BY <2>1, <2>3, <2>4, WhereDecode, WhereFind
<1>2. QED
  BY <1>1, Invariance, PTL
=============================================================================
