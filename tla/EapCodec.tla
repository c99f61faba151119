------------------------------ MODULE EapCodec ------------------------------
(***************************************************************************)
(* The EAP-AKA codec: EncodeEapPacket and DecodeEapPacket (eapaka/codec.go),*)
(* EncryptAttributes and DecryptAttributes (eapaka/encryption.go) and      *)
(* FindATMACOffset (eapaka/orchestrator.go).                               *)
(*                                                                         *)
(* Attributes are written one after the other, and three loops walk over   *)
(* what was written by the length word of each attribute.  Only the layout *)
(* is modelled: which bytes a value occupies stands for the value, so a    *)
(* decoder returns the right value if it reads the bytes the encoder wrote *)
(* it to.  A behaviour is one list of attributes, encoded and decoded.     *)
(***************************************************************************)
EXTENDS Integers, Sequences

CONSTANTS
    Length,     \* lengths of values whose type does not fix theirs
    LengthMod,  \* values of the packet's length field: 65536, it has 16 bits
    MaxAttr,    \* bound on the attributes of a packet
    Stray       \* what bytes of a value may look like when read as a header

Word16 == {"ATRand", "ATAutn", "ATMac", "ATIV", "ATNonceS"}

Type == Word16 \cup
    {"ATRes", "ATAuts", "ATPadding", "ATNextReauthID", "ATCounter", "ATCounterTooSmall",
     "ATEncrData", "other"}

\* What encryption.go is given: reauth.go, and the device's answer to it.
InnerType == {"ATCounter", "ATCounterTooSmall", "ATNonceS", "ATNextReauthID"}

\* The type and length of an attribute, and its 16-bit prefix if it has one.
Header == [type: Type, words: 0 .. 255, prefix: Nat]

\* An AT_RES has 4 to 16 bytes, an identity 32; 16 times Length bounds a ciphertext.
ASSUME ConstantsOK ==
    /\ Length \subseteq 0 .. 63
    /\ LengthMod \in Nat \ {0}
    /\ MaxAttr \in Nat
    /\ Stray \subseteq Header

\* A value as its owner gives it to EncodeAttribute: its type and len(Value).
Attr ==
    [type: Word16, len: {16}] \cup [type: {"ATAuts"}, len: {14}]
    \cup [type: {"ATCounter"}, len: {2}] \cup [type: {"ATCounterTooSmall"}, len: {0}]
    \cup [type: {"ATRes", "ATNextReauthID", "other"}, len: Length]
    \cup [type: {"ATEncrData"}, len: {16 * n : n \in Length}]

VARIABLES
    pc,         \* the loop that runs, or how it ended
    mode,       \* "packet", or "plain" for the attributes inside AT_ENCR_DATA
    wire,       \* the attributes encoded, with the offset each one starts at and the
                \* bytes of its value that are there
    padding,    \* bytes of AT_PADDING after them
    size,       \* bytes written so far
    whole,      \* whether all of them arrive
    offset,     \* the decoder's position
    decoded,    \* its result: the bytes it takes for each attribute's value
    macOffset   \* the result of FindATMACOffset

written == <<mode, wire, padding, size>>
vars    == <<pc, written, whole, offset, decoded, macOffset>>

Final == {"ok", "error", "panic"}

TypeOK ==
    /\ pc \in {"encode", "sent", "decode", "find"} \cup Final
    /\ mode \in {"packet", "plain"}
    /\ wire \in Seq([attr: Attr, at: Nat, put: Int])
    /\ padding \in {0, 4, 8, 12}
    /\ size \in Nat
    /\ whole \in BOOLEAN
    /\ offset \in Nat
    /\ decoded \in Seq([type: Type, from: Nat, len: Int])
    /\ macOffset \in Int

-----------------------------------------------------------------------------
(* Encoding *)

RoundUp4(n) == 4 * ((n + 3) \div 4)

\* Mutant: the 16-bit prefix of AT_RES and AT_NEXT_REAUTH_ID is not counted.
MutPayloadNoPrefix(a) ==
    CASE a.type \in Word16                       -> 18
      [] a.type \in {"ATRes", "ATNextReauthID"}  -> RoundUp4(2 + a.len) - 2
      [] a.type = "ATAuts"                       -> 16
      [] a.type \in {"ATCounter", "ATCounterTooSmall"} -> 2
      [] a.type = "ATPadding"                    -> a.len
      [] a.type = "ATEncrData"                   -> 2 + a.len
      [] a.type = "other"                        -> RoundUp4(a.len)

\* len(valuePayload).
Payload(a) ==
    CASE a.type \in Word16                       -> 18
      [] a.type \in {"ATRes", "ATNextReauthID"}  -> RoundUp4(4 + a.len) - 2
      [] a.type = "ATAuts"                       -> 16
      [] a.type \in {"ATCounter", "ATCounterTooSmall"} -> 2
      [] a.type = "ATPadding"                    -> a.len
      [] a.type = "ATEncrData"                   -> 2 + a.len
      [] a.type = "other"                        -> RoundUp4(a.len)

\* The bytes of an encoded attribute.
TotalLength(a) == 2 + Payload(a)

\* Mutant: the length is counted in units of eight bytes.
MutLengthWordsOfEight(a) == (TotalLength(a) \div 8) % 256

\* Its length byte, in words of four bytes.
LengthWords(a) == (TotalLength(a) \div 4) % 256

\* The 16-bit number in front of a value: bits of AT_RES, bytes of an identity.
Prefix(a) ==
    CASE a.type = "ATRes"          -> (8 * a.len) % 65536
      [] a.type = "ATNextReauthID" -> a.len % 65536
      [] OTHER                     -> 0

HeaderOf(a) ==
    [type |-> a.type, words |-> LengthWords(a), prefix |-> Prefix(a)]

\* Where a value starts within its attribute.
ValueAt(type) ==
    IF type \in {"ATCounter", "ATCounterTooSmall", "ATPadding", "other"} THEN 2 ELSE 4

\* copy(valuePayload[...], Value): what does not fit is dropped.
Copied(a) ==
    LET room == TotalLength(a) - ValueAt(a.type) IN
    IF a.len <= room THEN a.len ELSE room

\* EncodeAttribute is appended to attrBytes, or to plaintext.
Encode ==
    /\ pc = "encode"
    /\ Len(wire) < MaxAttr
    /\ \E a \in Attr :
         /\ mode = "plain" => a.type \in InnerType
         /\ wire' = Append(wire, [attr |-> a, at |-> size, put |-> Copied(a)])
         /\ size' = size + TotalLength(a)
    /\ UNCHANGED <<pc, mode, padding, whole, offset, decoded, macOffset>>

\* Mutant: the header of AT_PADDING is not subtracted.
MutPaddingLenHeader == 16 - (size % 16)

\* The zeros in AT_PADDING that fill the plaintext up to a block of 16 bytes.
PaddingLen == 16 - (size % 16) - 2

\* The end of EncryptAttributes.  AES and CBC keep every byte in its place.
Encrypt ==
    LET p == [type |-> "ATPadding", len |-> PaddingLen] IN
    /\ pc = "encode" /\ mode = "plain"
    /\ padding' = IF size % 16 = 0 THEN 0 ELSE TotalLength(p)
    /\ size' = size + padding'
    /\ pc' = "decode"
    /\ UNCHANGED <<mode, wire, whole, offset, decoded, macOffset>>

\* The length in the packet's header: the bytes of the packet, or what is left of their
\* number.
PacketLength == size % LengthMod

\* The end of EncodeEapPacket.
Send ==
    /\ pc = "encode" /\ mode = "packet"
    /\ pc' = "sent"
    /\ UNCHANGED <<written, whole, offset, decoded, macOffset>>

-----------------------------------------------------------------------------
(* Decoding *)

\* Where the loops that decode end: DecodeEapPacket goes by the header of the packet,
\* DecryptAttributes by the length of the plaintext.
Limit == IF mode = "packet" THEN PacketLength ELSE size

\* What the decoder finds at offset o: the header of an attribute if one starts
\* there, and otherwise the bytes of some value.
HeadersAt(o) ==
    LET starts == {i \in DOMAIN wire : wire[i].at = o} IN
    IF starts # {} THEN {HeaderOf(wire[i].attr) : i \in starts}
    ELSE IF padding # 0 /\ o = size - padding
    THEN {[type |-> "ATPadding", words |-> padding \div 4, prefix |-> 0]}
    ELSE Stray

\* Mutant: the reserved bytes of AT_ENCR_DATA are read as ciphertext.
MutReadLenReserved(h) ==
    CASE h.type \in Word16                 -> 16
      [] h.type = "ATAuts"                 -> 14
      [] h.type = "ATCounter"              -> 2
      [] h.type = "ATCounterTooSmall"      -> 0
      [] h.type = "ATRes"                  -> h.prefix \div 8
      [] h.type = "ATNextReauthID"         -> h.prefix
      [] h.type \in {"ATEncrData", "ATPadding", "other"} -> 4 * h.words - 2

\* The length of the value that decodeAttribute makes of a header.  The cases of
\* DecryptAttributes for its own types are the same.
ReadLen(h) ==
    CASE h.type \in Word16                 -> 16
      [] h.type = "ATAuts"                 -> 14
      [] h.type = "ATCounter"              -> 2
      [] h.type = "ATCounterTooSmall"      -> 0
      [] h.type = "ATRes"                  -> h.prefix \div 8
      [] h.type = "ATNextReauthID"         -> h.prefix
      [] h.type = "ATEncrData"             -> 4 * h.words - 4
      [] h.type \in {"ATPadding", "other"} -> 4 * h.words - 2

\* The bytes it takes for the value of the attribute at offset o.
Read(h, o) == [type |-> h.type, from |-> o + ValueAt(h.type), len |-> ReadLen(h)]

\* The attribute is longer than what is left.  A header needs two bytes itself.
Overruns(h) == offset + (IF h.words = 0 THEN 2 ELSE 4 * h.words) > size

\* make with a negative length, or a slice beyond the buffer.
OutOfRange(h) ==
    ReadLen(h) < 0 \/ offset + ValueAt(h.type) + ReadLen(h) > size

\* Base64 decoding may leave the buffer two bytes more than it uses, and a slice may
\* reach into them.
Spare == IF mode = "packet" THEN 2 ELSE 0

Readable(h) ==
    ReadLen(h) >= 0 /\ offset + ValueAt(h.type) + ReadLen(h) <= size + Spare

\* The loop makes a value of it, as it does not at the end of DecryptAttributes or of
\* AT_PADDING in there.
Takes(h) == ~ Overruns(h) /\ (mode = "plain" => h.words # 0 /\ h.type # "ATPadding")

\* The packet arrives; the loop starts after its eight bytes of header.
Receive ==
    /\ pc = "sent" /\ PacketLength >= 8
    /\ pc' = "decode" /\ offset' = 8
    /\ UNCHANGED <<written, whole, decoded, macOffset>>

\* Its length says that it has no such header.
ReceiveShort ==
    /\ pc = "sent" /\ PacketLength < 8
    /\ pc' = "error"
    /\ UNCHANGED <<written, whole, offset, decoded, macOffset>>

\* It arrives without its end: fewer bytes than its header says.
ReceiveTruncated ==
    /\ pc = "sent" /\ PacketLength > 0
    /\ whole' = FALSE /\ pc' = "error"
    /\ UNCHANGED <<written, offset, decoded, macOffset>>

\* One round of either loop.  In DecodeEapPacket a length of 0 does not advance it:
\* the next round finds the same header and appends the same attribute, which is
\* recorded once.
DecodeAttribute ==
    /\ pc = "decode" /\ offset < Limit
    /\ \E h \in HeadersAt(offset) :
         /\ Takes(h) /\ Readable(h)
         /\ decoded' = IF h.words = 0 THEN decoded ELSE Append(decoded, Read(h, offset))
         /\ offset' = offset + 4 * h.words
    /\ UNCHANGED <<pc, written, whole, macOffset>>

\* DecryptAttributes skips AT_PADDING.
SkipPadding ==
    /\ pc = "decode" /\ offset < Limit /\ mode = "plain"
    /\ \E h \in HeadersAt(offset) :
         /\ ~ Overruns(h) /\ h.words # 0 /\ h.type = "ATPadding"
         /\ offset' = offset + 4 * h.words
    /\ UNCHANGED <<pc, written, whole, decoded, macOffset>>

\* DecodeEapPacket returns an error: truncated attribute value.
DecodeFails ==
    /\ pc = "decode" /\ offset < Limit /\ mode = "packet"
    /\ \E h \in HeadersAt(offset) : Overruns(h)
    /\ pc' = "error"
    /\ UNCHANGED <<written, whole, offset, decoded, macOffset>>

\* It panics: RecoverMiddleware answers.
DecodePanics ==
    /\ pc = "decode" /\ offset < Limit
    /\ \E h \in HeadersAt(offset) : Takes(h) /\ OutOfRange(h)
    /\ pc' = "panic"
    /\ UNCHANGED <<written, whole, offset, decoded, macOffset>>

\* DecodeEapPacket returns.  The handlers look for AT_MAC in the bytes if they found
\* one in the result.
DecodeReturns ==
    /\ pc = "decode" /\ mode = "packet" /\ offset >= Limit
    /\ pc' = IF \E i \in DOMAIN decoded : decoded[i].type = "ATMac" THEN "find" ELSE "ok"
    /\ offset' = 8
    /\ UNCHANGED <<written, whole, decoded, macOffset>>

\* DecryptAttributes returns: at the end, or at a header it cannot follow.
DecryptReturns ==
    /\ pc = "decode" /\ mode = "plain"
    /\ offset < Limit => \A h \in HeadersAt(offset) : h.words = 0 \/ Overruns(h)
    /\ pc' = "ok"
    /\ UNCHANGED <<written, whole, offset, decoded, macOffset>>

-----------------------------------------------------------------------------
(* FindATMACOffset *)

\* Mutant: the length is taken for bytes.
MutFindNextBytes ==
    /\ pc = "find" /\ offset + 2 <= size
    /\ \E h \in HeadersAt(offset) :
         /\ h.type # "ATMac"
         /\ offset' = offset + h.words
    /\ UNCHANGED <<pc, written, whole, decoded, macOffset>>

\* On to the next attribute.
FindNext ==
    /\ pc = "find" /\ offset + 2 <= size
    /\ \E h \in HeadersAt(offset) :
         /\ h.type # "ATMac"
         /\ offset' = offset + 4 * h.words
    /\ UNCHANGED <<pc, written, whole, decoded, macOffset>>

FindReturns ==
    /\ pc = "find" /\ offset + 2 <= size
    /\ \E h \in HeadersAt(offset) : h.type = "ATMac"
    /\ macOffset' = offset
    /\ pc' = "ok"
    /\ UNCHANGED <<written, whole, offset, decoded>>

\* -1, which the handlers take for a wrong MAC.
FindNothing ==
    /\ pc = "find" /\ offset + 2 > size
    /\ pc' = "ok"
    /\ UNCHANGED <<written, whole, offset, decoded, macOffset>>

-----------------------------------------------------------------------------
Init ==
    /\ pc = "encode"
    /\ mode \in {"packet", "plain"}
    /\ wire = << >>
    /\ padding = 0
    /\ size = IF mode = "packet" THEN 8 ELSE 0
    /\ whole = TRUE
    /\ offset = 0
    /\ decoded = << >>
    /\ macOffset = -1

Next ==
    \/ Encode \/ Encrypt \/ Send
    \/ Receive \/ ReceiveShort \/ ReceiveTruncated
    \/ DecodeAttribute \/ SkipPadding \/ DecodeFails \/ DecodePanics
    \/ DecodeReturns \/ DecryptReturns
    \/ FindNext \/ FindReturns \/ FindNothing

Spec == Init /\ [][Next]_vars

FairSpec == Spec /\ WF_vars(Next)

-----------------------------------------------------------------------------
(* Properties *)

\* The encoder keeps the two types whose length is not a multiple of four bytes out.
Aligned == \A i \in DOMAIN wire : wire[i].attr.type \notin {"ATAuts", "other"}

\* The number of bytes of a packet has room in its header.
Fits == mode = "packet" => size < LengthMod

\* The bytes the encoder wrote a value to.
WrittenTo(w) ==
    [type |-> w.attr.type, from |-> w.at + ValueAt(w.attr.type), len |-> w.put]

\* Decoding returns exactly the attributes that were encoded, each with the bytes of
\* its own value, in their order, through encryption and without the padding
\* (test_strategy.md "Encode -> Decode -> Compare", for all types but two and for packets
\* whose length has room in its field).
RoundTrip ==
    Aligned /\ Fits /\ pc \in {"find", "ok"} =>
        /\ Len(decoded) = Len(wire)
        /\ \A i \in DOMAIN wire :
             wire[i].put = wire[i].attr.len /\ decoded[i] = WrittenTo(wire[i])

\* What fits and arrives whole is decoded: no error and no panic.
Decodes == Aligned /\ Fits /\ whole => pc \notin {"error", "panic"}

\* The plaintext fills whole blocks, or CryptBlocks panics (encryption.go:37).
WholeBlocks == mode = "plain" /\ pc # "encode" => size % 16 = 0

\* The 16 bytes that VerifyMAC zeroes before it computes the MAC are the bytes that
\* the decoder took for the value of the first AT_MAC, which is what it compares
\* with: the two loops agree (orchestrator.go FindATMACOffset, findAttribute).
MacIsWhereItWasRead ==
    Aligned /\ Fits /\ pc = "ok" =>
        \A i \in DOMAIN decoded :
            decoded[i].type = "ATMac" /\ (\A k \in 1 .. i - 1 : decoded[k].type # "ATMac")
                => macOffset + 4 = decoded[i].from

\* The variant of the three loops: every round finds a length that is not zero and that
\* stays within what has arrived, although DecodeEapPacket does not ask for the first and
\* FindATMACOffset for neither (codec.go line 226, encryption.go 60, orchestrator.go 265).
EveryRoundAdvances ==
    Aligned /\ Fits /\ pc \in {"decode", "find"} /\ offset < size =>
        \A h \in HeadersAt(offset) : h.words > 0 /\ offset + 4 * h.words <= size

\* Both decoders and FindATMACOffset end, although they advance by a length that
\* is data (codec.go:226 "for offset < length").
Terminates == <>(pc \in Final \/ ~ Aligned)

\* "Decode reverses encode exactly" (rfc4187_test.go), for every type of attribute the
\* codec has a case for.  Refuted: AT_AUTS has 18 bytes and its length says 16.
EveryPacketDecodes ==
    whole /\ Fits /\ (\A i \in DOMAIN wire : wire[i].attr.type # "other")
        => pc \notin {"error", "panic"}
=============================================================================
