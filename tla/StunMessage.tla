----------------------------- MODULE StunMessage ----------------------------
(***************************************************************************)
(* meowcaller/stun/stun.go: the TLV messages exchanged with the relay,     *)
(* byte by byte.  A message is encoded here or by the relay, in the same   *)
(* format; what arrives is the message, a part of it, or the message with  *)
(* one byte damaged, and the parsers read it.                              *)
(*                                                                         *)
(* Lengths, types and padding are exact.  The value of the k-th attribute  *)
(* is bytes 16k + 1, 16k + 2, ..., and a hash shows the message length     *)
(* that was hashed.  A behaviour follows one message, or one address.      *)
(***************************************************************************)
EXTENDS Integers, Sequences, SequencesExt

CONSTANTS MsgTypes,    \* message types encoded besides requests
          AttrTypes,   \* their attribute types
          ValueLens,   \* lengths of attribute values
          MaxAttrs,    \* bound: attributes of a message
          DamagedTo,   \* what a damaged byte may become
          Octets       \* octets of a dotted address

\* A type is of 14 bits, IsStunPacket refuses others.
StunTypes == 0..16383
Words == 0..65535
Bytes == 0..255

StunAssumption ==
  /\ MsgTypes \subseteq StunTypes /\ AttrTypes \subseteq Words
  /\ ValueLens \subseteq 0..15 /\ MaxAttrs \in 0..14
  /\ DamagedTo \subseteq Bytes /\ Octets \subseteq Bytes

VARIABLES sent,      \* history: type and attributes of the message, the whole of it
          packet,    \* the bytes that arrived
          address,   \* parts of the dotted address last encoded
          endpoint   \* what EncodeXorRelayEndpoint said of it

vars == <<sent, packet, address, endpoint>>

AttrMessageIntegrity == 8
AttrErrorCode == 9
AttrWasmRelayEndpoint == 22
AttrRelayToken == 16384
AttrStreamDescriptors == 16420
AttrSenderSubscriptionsV2 == 16421
AttrFingerprint == 32808

MsgAllocateRequest == 3
MsgBindingSuccess == 257
MsgAllocateSuccess == 259
MsgBindingError == 273
MsgAllocateError == 275
MsgWhatsappPing == 2049
MsgWhatsappPong == 2050

None == -1
Panic == 1000000   \* in the place of a byte past the end of a slice

Word(n) == <<(n \div 256) % 256, n % 256>>
Zeros(n) == [j \in 1..n |-> 0]

Pad4(n) == (4 - (n % 4)) % 4

StunAttr(type, value) == Word(type) \o Word(Len(value)) \o value \o Zeros(Pad4(Len(value)))

Magic == <<33, 18, 164, 66>>
TransactionID == [j \in 1..12 |-> 100 + j]
StunHeader(type, len) == Word(type) \o Word(len) \o Magic \o TransactionID

\* Mutant of Sealed: the length that is hashed leaves out the attribute's head.
SealedShort(body, type, n) == body \o StunAttr(type, Word(Len(body) + n) \o Zeros(n - 2))

\* body with the attribute that hashes it, and the length of the message that
\* ends with that attribute, into n bytes.
Sealed(body, type, n) == body \o StunAttr(type, Word(Len(body) + 4 + n) \o Zeros(n - 2))

EncodeStunRequest(type, attrs, integrity, fingerprint) ==
  LET signed == IF integrity THEN Sealed(attrs, AttrMessageIntegrity, 20) ELSE attrs
      body == IF fingerprint THEN Sealed(signed, AttrFingerprint, 4) ELSE signed
  IN StunHeader(type, Len(body)) \o body

-----------------------------------------------------------------------------
(* The parsers.  Offsets are the code's, from 0.                           *)

At(d, off) == IF off < Len(d) THEN d[off + 1] ELSE Panic
WordAt(d, off) == At(d, off) * 256 + At(d, off + 1)

IsStunPacket(d) == Len(d) >= 2 /\ At(d, 0) < 64
StunMessageType(d) == IF Len(d) < 2 THEN None ELSE (At(d, 0) % 64) * 256 + At(d, 1)
StunTransactionID(d) == IF Len(d) < 20 THEN None ELSE SubSeq(d, 9, 20)

IsAllocateOrBindingSuccess(d) ==
  IsStunPacket(d) /\ Len(d) >= 20 /\ StunMessageType(d) \in {MsgAllocateSuccess, MsgBindingSuccess}
IsAllocateError(d) == IsStunPacket(d) /\ StunMessageType(d) = MsgAllocateError
IsWhatsappPong(d, txn) ==
  /\ IsStunPacket(d) /\ StunMessageType(d) = MsgWhatsappPong
  /\ txn = <<>> \/ (Len(d) >= 20 /\ StunTransactionID(d) = txn)

\* Mutant of HasHead: a head that is there in part will do.
HasHeadPartly(off, end) == off < end

\* Both walks go on while a type and a length stand before end.
HasHead(off, end) == off + 4 <= end

\* In the place of an attribute whose bytes are not all there: the program panics.
Crash == [type |-> Panic, value |-> <<>>]

\* The attribute at off, with len bytes of value.
AttrAt(d, off, len) ==
  IF off + 4 + len <= Len(d) THEN [type |-> WordAt(d, off), value |-> SubSeq(d, off + 5, off + 4 + len)]
  ELSE Crash

\* Every attribute up to the first whose value has not wholly arrived; the
\* length in the header plays no part.
ParseStunAttributes(d) ==
  LET walk[off \in Nat] ==
        LET len == WordAt(d, off + 2)
        IN CASE ~HasHead(off, Len(d)) -> <<>>
             [] HasHead(off, Len(d)) /\ len >= Panic -> <<Crash>>
             [] HasHead(off, Len(d)) /\ len < Panic /\ off + 4 + len > Len(d) -> <<>>
             [] OTHER -> <<AttrAt(d, off, len)>> \o walk[off + 4 + len + Pad4(len)]
  IN IF IsStunPacket(d) /\ Len(d) >= 20 THEN walk[20] ELSE <<>>

\* An error code stands at off and its first four value bytes are there.
CodeAt(d, off) == WordAt(d, off) = AttrErrorCode /\ WordAt(d, off + 2) >= 4 /\ off + 8 <= Len(d)

\* The code of an error response, within the body its header announces; Panic
\* when a byte is read that is not there.
ParseStunErrorCode(d) ==
  LET announced == 20 + WordAt(d, 2)
      end == IF announced < Len(d) THEN announced ELSE Len(d)
      walk[off \in Nat] ==
        LET len == WordAt(d, off + 2)
        IN CASE ~HasHead(off, end) -> None
             [] HasHead(off, end) /\ len >= Panic -> Panic
             [] HasHead(off, end) /\ len < Panic /\ CodeAt(d, off) -> At(d, off + 6) * 100 + At(d, off + 7)
             [] OTHER -> walk[off + 4 + len + Pad4(len)]
  IN IF Len(d) < 20 \/ StunMessageType(d) \notin {MsgAllocateError, MsgBindingError} THEN None
     ELSE IF announced >= Panic THEN Panic
     ELSE walk[20]

\* Parts that are no octet are passed over, and then there must be four.
EncodeXorRelayEndpoint(parts) ==
  LET octets == SelectSeq(parts, LAMBDA p : p \in 0..255)
  IN [ok |-> Len(octets) = 4, octets |-> IF Len(octets) = 4 THEN octets ELSE <<0, 0, 0, 0>>]

-----------------------------------------------------------------------------
Value(k, n) == [j \in 1..n |-> 16 * k + j]
Numbered(types, lens) == [k \in 1..Len(types) |-> [type |-> types[k], value |-> Value(k, lens[k])]]
Encoded(attrs) == FlattenSeq([k \in 1..Len(attrs) |-> StunAttr(attrs[k].type, attrs[k].value)])

Message(type, attrs, integrity, fingerprint) ==
  [type |-> type, attrs |-> attrs, integrity |-> integrity, fingerprint |-> fingerprint,
   bytes |-> EncodeStunRequest(type, Encoded(attrs), integrity, fingerprint)]

\* Whatever the relay may answer, plain or with both hashes.
Replies ==
  UNION {{Message(type, Numbered(types, lens), hashed, hashed) :
            type \in MsgTypes, types \in [1..n -> AttrTypes], lens \in [1..n -> ValueLens],
            hashed \in BOOLEAN} : n \in 0..MaxAttrs}

BuildWhatsappPing ==
  [type |-> MsgWhatsappPing, attrs |-> <<>>, integrity |-> FALSE, fingerprint |-> FALSE,
   bytes |-> StunHeader(MsgWhatsappPing, 0)]

\* The descriptors are shorter than the code's and of the same length modulo 4.
BuildWasmStunAllocateRequest(token, integrity) ==
  Message(MsgAllocateRequest,
          Numbered(<<AttrRelayToken, AttrStreamDescriptors, AttrWasmRelayEndpoint>>, <<token, 12, 8>>),
          integrity, FALSE)
BuildAndroidStunAllocateRequest(token, subs, integrity, fingerprint) ==
  Message(MsgAllocateRequest,
          Numbered(<<AttrRelayToken, AttrSenderSubscriptionsV2, AttrStreamDescriptors>>, <<token, subs, 11>>),
          integrity, fingerprint)

Init == /\ sent = BuildWhatsappPing
        /\ packet = BuildWhatsappPing.bytes
        /\ address = <<>>
        /\ endpoint = EncodeXorRelayEndpoint(<<>>)

\* Nothing has been sent but the ping, nor encoded.
Fresh == sent = BuildWhatsappPing /\ packet = sent.bytes /\ address = <<>>

Send(message) == /\ sent' = message
                 /\ packet' = message.bytes
                 /\ UNCHANGED <<address, endpoint>>

SendReply == Fresh /\ \E message \in Replies : Send(message)

SendAllocate ==
  /\ Fresh
  /\ \E token, subs \in ValueLens, integrity, fingerprint \in BOOLEAN :
       \/ Send(BuildWasmStunAllocateRequest(token, integrity))
       \/ Send(BuildAndroidStunAllocateRequest(token, subs, integrity, fingerprint))

\* Only the first bytes arrive.
Cut == /\ packet = sent.bytes /\ address = <<>>
       /\ \E n \in 0..(Len(sent.bytes) - 1) : packet' = SubSeq(packet, 1, n)
       /\ UNCHANGED <<sent, address, endpoint>>

\* Another byte arrives in the place of one.
Damage == /\ packet = sent.bytes /\ address = <<>>
          /\ \E n \in 1..Len(packet), b \in DamagedTo : b # packet[n] /\ packet' = [packet EXCEPT ![n] = b]
          /\ UNCHANGED <<sent, address, endpoint>>

\* An address is encoded for an Allocate request; None is a part that is no octet.
Encode == /\ Fresh
          /\ \E n \in 1..5 : \E parts \in [1..n -> Octets \cup {None}] :
                address' = parts /\ endpoint' = EncodeXorRelayEndpoint(parts)
          /\ UNCHANGED <<sent, packet>>

Next == SendReply \/ SendAllocate \/ Cut \/ Damage \/ Encode

Spec == Init /\ [][Next]_vars

-----------------------------------------------------------------------------
Untouched == packet = SubSeq(sent.bytes, 1, Len(packet))

\* The attributes of the whole message: those given, then the hashes.
Whole == ParseStunAttributes(sent.bytes)
Given == Len(sent.attrs)
Seals == (IF sent.integrity THEN <<AttrMessageIntegrity>> ELSE <<>>)
         \o (IF sent.fingerprint THEN <<AttrFingerprint>> ELSE <<>>)

\* Where the k-th of them starts, behind those before it, and where its value
\* ends.
Start(k) == 20 + Len(Encoded(SubSeq(Whole, 1, k - 1)))
End(k) == Start(k) + 4 + Len(Whole[k].value)

AttributesReadBack ==
  LET read == ParseStunAttributes(packet)
  IN /\ SubSeq(Whole, 1, Given) = sent.attrs
     /\ [k \in 1..(Len(Whole) - Given) |-> Whole[Given + k].type] = Seals
     /\ read = SubSeq(Whole, 1, Len(read))
     /\ \A k \in 1..Len(Whole) : k <= Len(read) <=> End(k) <= Len(packet)

CodeReadBack ==
  LET codes == {k \in 1..Given : sent.attrs[k].type = AttrErrorCode /\ Len(sent.attrs[k].value) >= 4}
      first == CHOOSE k \in codes : \A l \in codes : k <= l
  IN ParseStunErrorCode(packet) =
       IF /\ sent.type \in {MsgAllocateError, MsgBindingError}
          /\ codes # {} /\ Start(first) + 8 <= Len(packet)
       THEN sent.attrs[first].value[3] * 100 + sent.attrs[first].value[4]
       ELSE None

AnswerReadBack ==
  Len(packet) >= 20 =>
    /\ IsAllocateOrBindingSuccess(packet) <=> sent.type \in {MsgAllocateSuccess, MsgBindingSuccess}
    /\ IsAllocateError(packet) <=> sent.type = MsgAllocateError
    /\ IsWhatsappPong(packet, TransactionID) <=> sent.type = MsgWhatsappPong

HashesCoverThemselves == \A k \in (Given + 1)..Len(Whole) : WordAt(Whole[k].value, 0) = End(k) - 20

\* A message cut anywhere is read as far as it goes: the attributes that come
\* out are the first of those that went in, with their values, as many as have
\* wholly arrived; an error response gives the code of its first error
\* attribute as soon as its four bytes are there, and no other message gives
\* any; the three answers are told apart; and each hash of the whole message
\* is over the length up to its own end ("attrs + MI attr (4 + 20)",
\* "attrs + FINGERPRINT attr (4 + 4)", stun.go:98, 107).
StunReadBack == Untouched => AttributesReadBack /\ CodeReadBack /\ AnswerReadBack /\ HashesCoverThemselves

\* However a message is cut or a byte of it damaged, neither walk over its
\* attributes reads a byte that is not there: not the head of an attribute of
\* which one to three bytes are left, not a value or a code that is announced
\* and has not arrived, though the padding of the last attribute may carry the
\* offset past the end (stun.go:282-293, 314-324).
WalkStaysInside ==
  /\ ParseStunErrorCode(packet) < Panic
  /\ \A k \in 1..Len(ParseStunAttributes(packet)) : ParseStunAttributes(packet)[k].type < Panic

\* "EncodeXorRelayEndpoint XOR-encodes an IPv4:port into 6 bytes; ok=false if
\* ipv4 is not exactly four dotted octets" (stun.go:143).
FourDottedOctets == endpoint.ok => Len(address) = 4
=============================================================================
