-------------------------------- MODULE Frame --------------------------------
(***************************************************************************)
(* The binary packet format (packet.rs) and the compression of payloads    *)
(* (compression.rs), as operators on sequences of bytes.                   *)
(***************************************************************************)
EXTENDS Naturals, Sequences

CONSTANT MIN_COMPRESS_SIZE   \* 1024 in the code

ASSUME MinCompressAssumption == MIN_COMPRESS_SIZE \in Nat \ {0}

Byte == 0 .. 255

U16_MAX == 65535
U16     == 0 .. U16_MAX

PACKET_HEADER_SIZE == 16
FLAG_COMPRESSED    == 1

(* PacketType as u8.                                                       *)
Code ==
  [Regular |-> 0, Ping |-> 1, Pong |-> 2, GwAuth |-> 3, GwConnected |-> 4,
   GwDeny |-> 5, Open |-> 6, Opened |-> 7, OpenFail |-> 8, Close |-> 9,
   Closed |-> 10, ProtocolVersion |-> 11, GwAuthChallenge |-> 12,
   GwAuthResponse |-> 13, SessionRestore |-> 30]

(* PacketType::from: what is not a type is Regular.                        *)
FromCode(n) ==
  IF \E t \in DOMAIN Code : Code[t] = n
    THEN CHOOSE t \in DOMAIN Code : Code[t] = n
    ELSE "Regular"

(* to_le_bytes of an unsigned integer of k bytes, which `as` has cut to    *)
(* its width; from_le_bytes.                                               *)
LE(n, k) ==
  LET rest[i \in 1 .. k] == IF i = 1 THEN n ELSE rest[i - 1] \div 256
  IN  [i \in 1 .. k |-> rest[i] % 256]

FromLE(b) ==
  LET val[i \in 0 .. Len(b)] ==
        IF i = 0 THEN 0 ELSE val[i - 1] * 256 + b[Len(b) + 1 - i]
  IN  val[Len(b)]

(* PacketGW::to_bytes and from_bytes; from_bytes is given a whole header.  *)
ToBytes(p) ==
  <<Code[p.type]>> \o LE(p.id, 8) \o LE(p.link, 2) \o LE(p.size, 2)
    \o <<p.flags, 0, 0>>

FromBytes(b) ==
  [type  |-> FromCode(b[1]),
   id    |-> FromLE(SubSeq(b, 2, 9)),
   link  |-> FromLE(SubSeq(b, 10, 11)),
   size  |-> FromLE(SubSeq(b, 12, 13)),
   flags |-> b[14]]

Header(t, id, link, size, flags) ==
  [type |-> t, id |-> id, link |-> link, size |-> size, flags |-> flags]

IsCompressed(p) == p.flags % 2 = FLAG_COMPRESSED

-----------------------------------------------------------------------------
(* A stand-in for zstd: a run of one byte, not too long for its length to  *)
(* be a byte, gets shorter, any other data gets longer, and decoding is    *)
(* the inverse of encoding.                                                *)
EncodeAll(d) ==
  IF Len(d) < 256 /\ \A i \in 1 .. Len(d) : d[i] = d[1]
    THEN <<Len(d), d[1]>>
    ELSE <<0>> \o d

DecodeAll(z) ==
  IF z[1] = 0 THEN Tail(z) ELSE [i \in 1 .. z[1] |-> z[2]]

(* compress_data: the result is used only when it is shorter.              *)
CompressData(d) ==
  IF Len(d) >= MIN_COMPRESS_SIZE /\ Len(EncodeAll(d)) < Len(d)
    THEN [data |-> EncodeAll(d), is_compressed |-> TRUE]
    ELSE [data |-> d, is_compressed |-> FALSE]

DecompressData(d, is_compressed) == IF is_compressed THEN DecodeAll(d) ELSE d

=============================================================================
