---------------------------- MODULE ChannelProofs ----------------------------
(***************************************************************************)
(* Proofs about Channel, for any tasks, scripts, keys and sizes of nonce   *)
(* and response: the bytes of a packet, the types, the buffers and the     *)
(* numbers of packets.                                                     *)
(***************************************************************************)
EXTENDS Channel, Integers, SequenceTheorems, TLAPS

-----------------------------------------------------------------------------
(* Integers as bytes.  What the recursive functions of LE and FromLE give  *)
(* is worked out for the widths of the header: 2, 4 and 8 bytes.           *)

(* n without its i lowest bytes.                                           *)
Cut1(n) == n \div 256
Cut2(n) == Cut1(n) \div 256
Cut3(n) == Cut2(n) \div 256
Cut4(n) == Cut3(n) \div 256
Cut5(n) == Cut4(n) \div 256
Cut6(n) == Cut5(n) \div 256
Cut7(n) == Cut6(n) \div 256

LEMMA CutNat ==
  ASSUME NEW n \in Nat
  PROVE  /\ Cut1(n) \in Nat /\ Cut2(n) \in Nat /\ Cut3(n) \in Nat /\ Cut4(n) \in Nat
         /\ Cut5(n) \in Nat /\ Cut6(n) \in Nat /\ Cut7(n) \in Nat
<1>1. \A m \in Nat : m \div 256 \in Nat
  OBVIOUS
<1> QED BY <1>1 DEF Cut1, Cut2, Cut3, Cut4, Cut5, Cut6, Cut7

LEMMA DivMod ==
  ASSUME NEW m \in Nat
  PROVE  /\ m \div 256 \in Nat /\ m % 256 \in Byte
         /\ m = (m \div 256) * 256 + (m % 256)
BY DEF Byte

LEMMA ByteRange ==
  \A x \in Nat : x < 256 => x \in Byte
BY DEF Byte

LEMMA BytesNat ==
  ASSUME NEW b \in Seq(Byte), NEW i \in 1 .. Len(b)
  PROVE  b[i] \in Byte /\ b[i] \in Nat /\ b[i] < 256
<1>1. b[i] \in Byte
  BY ElementOfSeq
<1>2. \A x \in Byte : x \in Nat /\ x < 256
  BY DEF Byte
<1> QED BY <1>1, <1>2

LEMMA LE2 ==
  ASSUME NEW n \in Nat
  PROVE  LE(n, 2) = <<n % 256, Cut1(n) % 256>>
<1> DEFINE E(g) == g = [i \in 1 .. 2 |-> IF i = 1 THEN n ELSE g[i - 1] \div 256]
           R == [i \in 1 .. 2 |-> IF i = 1 THEN n ELSE n \div 256]
<1>1. E(R)
  OBVIOUS
<1>2. \A g : E(g) => g[1] = n /\ g[2] = Cut1(n)
  BY DEF Cut1
<1>3. E(CHOOSE g : E(g))
  BY <1>1
<1>4. LE(n, 2) = [i \in 1 .. 2 |-> (CHOOSE g : E(g))[i] % 256]
  BY DEF LE
<1> HIDE DEF E
<1> QED BY <1>2, <1>3, <1>4

LEMMA LE4 ==
  ASSUME NEW n \in Nat
  PROVE  LE(n, 4) = <<n % 256, Cut1(n) % 256, Cut2(n) % 256, Cut3(n) % 256>>
<1> DEFINE E(g) == g = [i \in 1 .. 4 |-> IF i = 1 THEN n ELSE g[i - 1] \div 256]
           R == <<n, Cut1(n), Cut2(n), Cut3(n)>>
<1>1. E(R)
  BY DEF Cut1, Cut2, Cut3
<1>2. \A g : E(g) => g[1] = n /\ g[2] = Cut1(n) /\ g[3] = Cut2(n) /\ g[4] = Cut3(n)
  BY DEF Cut1, Cut2, Cut3
<1>3. E(CHOOSE g : E(g))
  BY <1>1
<1>4. LE(n, 4) = [i \in 1 .. 4 |-> (CHOOSE g : E(g))[i] % 256]
  BY DEF LE
<1> HIDE DEF E
<1> QED BY <1>2, <1>3, <1>4

LEMMA LE8 ==
  ASSUME NEW n \in Nat
  PROVE  LE(n, 8) = <<n % 256, Cut1(n) % 256, Cut2(n) % 256, Cut3(n) % 256,
                      Cut4(n) % 256, Cut5(n) % 256, Cut6(n) % 256, Cut7(n) % 256>>
<1> DEFINE E(g) == g = [i \in 1 .. 8 |-> IF i = 1 THEN n ELSE g[i - 1] \div 256]
           R == <<n, Cut1(n), Cut2(n), Cut3(n), Cut4(n), Cut5(n), Cut6(n), Cut7(n)>>
<1>1. E(R)
  BY DEF Cut1, Cut2, Cut3, Cut4, Cut5, Cut6, Cut7
<1>2. ASSUME NEW g, E(g)
      PROVE  /\ g[1] = n /\ g[2] = Cut1(n) /\ g[3] = Cut2(n) /\ g[4] = Cut3(n)
             /\ g[5] = Cut4(n) /\ g[6] = Cut5(n) /\ g[7] = Cut6(n) /\ g[8] = Cut7(n)
  <2>1. g[1] = n /\ \A i \in 2 .. 8 : g[i] = g[i - 1] \div 256
    BY <1>2
  <2>2. g[2] = Cut1(n)
    BY <2>1 DEF Cut1
  <2>3. g[3] = Cut2(n)
    BY <2>1, <2>2 DEF Cut2
  <2>4. g[4] = Cut3(n)
    BY <2>1, <2>3 DEF Cut3
  <2>5. g[5] = Cut4(n)
    BY <2>1, <2>4 DEF Cut4
  <2>6. g[6] = Cut5(n)
    BY <2>1, <2>5 DEF Cut5
  <2>7. g[7] = Cut6(n)
    BY <2>1, <2>6 DEF Cut6
  <2>8. g[8] = Cut7(n)
    BY <2>1, <2>7 DEF Cut7
  <2> QED BY <2>1, <2>2, <2>3, <2>4, <2>5, <2>6, <2>7, <2>8
<1>3. E(CHOOSE g : E(g))
  <2> HIDE DEF R, E
  <2> QED BY <1>1
<1>4. LE(n, 8) = [i \in 1 .. 8 |-> (CHOOSE g : E(g))[i] % 256]
  BY DEF LE
<1> HIDE DEF E
<1> QED BY <1>2, <1>3, <1>4

(* A function that obeys the recursion of FromLE gives its value.          *)
Horner(v, b) ==
  /\ v \in [0 .. Len(b) -> Nat] /\ v[0] = 0
  /\ \A i \in 1 .. Len(b) : v[i] = v[i - 1] * 256 + b[Len(b) + 1 - i]

LEMMA FromLE2 ==
  ASSUME NEW b \in Seq(Byte), Len(b) = 2, NEW v, Horner(v, b)
  PROVE  FromLE(b) = v[2]
<1> DEFINE E(g) == g = [i \in 0 .. Len(b) |->
                          IF i = 0 THEN 0 ELSE g[i - 1] * 256 + b[Len(b) + 1 - i]]
<1>1. E(v)
  BY DEF Horner
<1>2. ASSUME NEW g, E(g)
      PROVE  g[2] = v[2]
  <2>0. g[0] = 0 /\ \A i \in 1 .. 2 : g[i] = g[i - 1] * 256 + b[3 - i]
    BY <1>2
  <2>1. v[0] = 0 /\ \A i \in 1 .. 2 : v[i] = v[i - 1] * 256 + b[3 - i]
    BY DEF Horner
  <2> HIDE DEF E
  <2>2. g[1] = v[1]
    BY <2>0, <2>1
  <2>3. g[2] = v[2]
    BY <2>0, <2>1, <2>2
  <2> QED BY <2>3
<1>3. E(CHOOSE g : E(g))
  BY <1>1
<1>4. FromLE(b) = (CHOOSE g : E(g))[2]
  BY DEF FromLE
<1> HIDE DEF E
<1> QED BY <1>2, <1>3, <1>4

LEMMA FromLE4 ==
  ASSUME NEW b \in Seq(Byte), Len(b) = 4, NEW v, Horner(v, b)
  PROVE  FromLE(b) = v[4]
<1> DEFINE E(g) == g = [i \in 0 .. Len(b) |->
                          IF i = 0 THEN 0 ELSE g[i - 1] * 256 + b[Len(b) + 1 - i]]
<1>1. E(v)
  BY DEF Horner
<1>2. ASSUME NEW g, E(g)
      PROVE  g[4] = v[4]
  <2>0. g[0] = 0 /\ \A i \in 1 .. 4 : g[i] = g[i - 1] * 256 + b[5 - i]
    BY <1>2
  <2>1. v[0] = 0 /\ \A i \in 1 .. 4 : v[i] = v[i - 1] * 256 + b[5 - i]
    BY DEF Horner
  <2> HIDE DEF E
  <2>2. g[1] = v[1]
    BY <2>0, <2>1
  <2>3. g[2] = v[2]
    BY <2>0, <2>1, <2>2
  <2>4. g[3] = v[3]
    BY <2>0, <2>1, <2>3
  <2>5. g[4] = v[4]
    BY <2>0, <2>1, <2>4
  <2> QED BY <2>5
<1>3. E(CHOOSE g : E(g))
  BY <1>1
<1>4. FromLE(b) = (CHOOSE g : E(g))[4]
  BY DEF FromLE
<1> HIDE DEF E
<1> QED BY <1>2, <1>3, <1>4

LEMMA FromLE8 ==
  ASSUME NEW b \in Seq(Byte), Len(b) = 8, NEW v, Horner(v, b)
  PROVE  FromLE(b) = v[8]
<1> DEFINE E(g) == g = [i \in 0 .. Len(b) |->
                          IF i = 0 THEN 0 ELSE g[i - 1] * 256 + b[Len(b) + 1 - i]]
<1>1. E(v)
  BY DEF Horner
<1>2. ASSUME NEW g, E(g)
      PROVE  g[8] = v[8]
  <2>0. g[0] = 0 /\ \A i \in 1 .. 8 : g[i] = g[i - 1] * 256 + b[9 - i]
    BY <1>2
  <2>1. v[0] = 0 /\ \A i \in 1 .. 8 : v[i] = v[i - 1] * 256 + b[9 - i]
    BY DEF Horner
  <2> HIDE DEF E
  <2>2. g[1] = v[1]
    BY <2>0, <2>1
  <2>3. g[2] = v[2]
    BY <2>0, <2>1, <2>2
  <2>4. g[3] = v[3]
    BY <2>0, <2>1, <2>3
  <2>5. g[4] = v[4]
    BY <2>0, <2>1, <2>4
  <2>6. g[5] = v[5]
    BY <2>0, <2>1, <2>5
  <2>7. g[6] = v[6]
    BY <2>0, <2>1, <2>6
  <2>8. g[7] = v[7]
    BY <2>0, <2>1, <2>7
  <2>9. g[8] = v[8]
    BY <2>0, <2>1, <2>8
  <2> QED BY <2>9
<1>3. E(CHOOSE g : E(g))
  BY <1>1
<1>4. FromLE(b) = (CHOOSE g : E(g))[8]
  BY DEF FromLE
<1> HIDE DEF E
<1> QED BY <1>2, <1>3, <1>4

LEMMA HornerExists2 ==
  ASSUME NEW b \in Seq(Byte), Len(b) = 2
  PROVE  \E v : Horner(v, b)
<1>1. \A i \in 1 .. 2 : b[i] \in Nat
  BY BytesNat
<1>2. \A x, y \in Nat : x * 256 + y \in Nat
  OBVIOUS
<1>3. PICK v1 \in Nat: v1 = 0 * 256 + b[2]
  BY <1>1, <1>2
<1>4. PICK v2 \in Nat : v2 = v1 * 256 + b[1]
  BY <1>1, <1>2
<1> DEFINE v == [i \in 0 .. 2 |-> CASE i = 1 -> v1 [] i = 2 -> v2 [] OTHER -> 0]
<1>5. v \in [0 .. 2 -> Nat] /\ v[0] = 0
  OBVIOUS
<1>6. v[1] = v1 /\ v[2] = v2
  OBVIOUS
<1> HIDE DEF v
<1>7. \A i \in 1 .. 2 : v[i] = v[i - 1] * 256 + b[3 - i]
  BY <1>3, <1>4, <1>5, <1>6
<1> QED BY <1>5, <1>7 DEF Horner

LEMMA HornerExists8 ==
  ASSUME NEW b \in Seq(Byte), Len(b) = 8
  PROVE  \E v : Horner(v, b)
<1>1. \A i \in 1 .. 8 : b[i] \in Nat
  BY BytesNat
<1>2. \A x, y \in Nat : x * 256 + y \in Nat
  OBVIOUS
<1>3. PICK v1 \in Nat: v1 = 0 * 256 + b[8]
  BY <1>1, <1>2, SMTT(30)
<1>4. PICK v2 \in Nat : v2 = v1 * 256 + b[7]
  BY <1>1, <1>2, SMTT(30)
<1>5. PICK v3 \in Nat : v3 = v2 * 256 + b[6]
  BY <1>1, <1>2, SMTT(30)
<1>6. PICK v4 \in Nat : v4 = v3 * 256 + b[5]
  BY <1>1, <1>2, SMTT(30)
<1>7. PICK v5 \in Nat : v5 = v4 * 256 + b[4]
  BY <1>1, <1>2, SMTT(30)
<1>8. PICK v6 \in Nat : v6 = v5 * 256 + b[3]
  BY <1>1, <1>2, SMTT(30)
<1>9. PICK v7 \in Nat : v7 = v6 * 256 + b[2]
  BY <1>1, <1>2, SMTT(30)
<1>10. PICK v8 \in Nat : v8 = v7 * 256 + b[1]
  BY <1>1, <1>2, SMTT(30)
<1> DEFINE v == [i \in 0 .. 8 |->
                    CASE i = 1 -> v1 [] i = 2 -> v2 [] i = 3 -> v3 [] i = 4 -> v4
                      [] i = 5 -> v5 [] i = 6 -> v6 [] i = 7 -> v7 [] i = 8 -> v8
                      [] OTHER -> 0]
<1>11. v \in [0 .. 8 -> Nat] /\ v[0] = 0
  OBVIOUS
<1>12. /\ v[1] = v1 /\ v[2] = v2 /\ v[3] = v3 /\ v[4] = v4
       /\ v[5] = v5 /\ v[6] = v6 /\ v[7] = v7 /\ v[8] = v8
  OBVIOUS
<1> HIDE DEF v
<1>13. \A i \in 1 .. 8 : v[i] = v[i - 1] * 256 + b[9 - i]
  <2>1. SUFFICES ASSUME NEW i \in 1 .. 8 PROVE v[i] = v[i - 1] * 256 + b[9 - i]
    OBVIOUS
  <2>2. CASE i = 1
    <3>1. i - 1 = 0 /\ 9 - i = 8
      BY <2>2
    <3> QED BY <1>3, <1>11, <1>12, <2>2, <3>1
  <2>3. CASE i = 2
    <3>1. i - 1 = 1 /\ 9 - i = 7
      BY <2>3
    <3> QED BY <1>4, <1>12, <2>3, <3>1
  <2>4. CASE i = 3
    <3>1. i - 1 = 2 /\ 9 - i = 6
      BY <2>4
    <3> QED BY <1>5, <1>12, <2>4, <3>1
  <2>5. CASE i = 4
    <3>1. i - 1 = 3 /\ 9 - i = 5
      BY <2>5
    <3> QED BY <1>6, <1>12, <2>5, <3>1
  <2>6. CASE i = 5
    <3>1. i - 1 = 4 /\ 9 - i = 4
      BY <2>6
    <3> QED BY <1>7, <1>12, <2>6, <3>1
  <2>7. CASE i = 6
    <3>1. i - 1 = 5 /\ 9 - i = 3
      BY <2>7
    <3> QED BY <1>8, <1>12, <2>7, <3>1
  <2>8. CASE i = 7
    <3>1. i - 1 = 6 /\ 9 - i = 2
      BY <2>8
    <3> QED BY <1>9, <1>12, <2>8, <3>1
  <2>9. CASE i = 8
    <3>1. i - 1 = 7 /\ 9 - i = 1
      BY <2>9
    <3> QED BY <1>10, <1>12, <2>9, <3>1
  <2> QED BY <2>2, <2>3, <2>4, <2>5, <2>6, <2>7, <2>8, <2>9
<1>14. Horner(v, b)
  BY <1>11, <1>13 DEF Horner
<1> QED BY <1>14
-----------------------------------------------------------------------------
(* The header of a packet. *)

HeaderGW == [type : DOMAIN Code, id : Nat, link : Nat, size : Nat, flags : Byte]

(* What fits in the fields of the header.                                  *)
Fits64(n) == Cut7(n) < 256
Fits32(n) == Cut3(n) < 256
Fits16(n) == Cut1(n) < 256
Fits(p) == Fits16(p.link) /\ Fits16(p.size)

(* The types are told apart by their codes.                                *)
LEMMA CodeTyping ==
  /\ \A t \in DOMAIN Code : Code[t] \in Byte
  /\ \A n : FromCode(n) \in DOMAIN Code
  /\ \A t \in DOMAIN Code : FromCode(Code[t]) = t
<1>1. \A t \in DOMAIN Code : Code[t] \in Byte
  BY DEF Code, Byte
<1>2. \A t, u \in DOMAIN Code : Code[t] = Code[u] => t = u
  BY DEF Code
<1>3. "Regular" \in DOMAIN Code
  BY DEF Code
<1> QED BY <1>1, <1>2, <1>3 DEF FromCode

LEMMA Tuple1 ==
  ASSUME NEW a \in Byte
  PROVE  <<a>> \in Seq(Byte) /\ Len(<<a>>) = 1
OBVIOUS

LEMMA Tuple3 ==
  ASSUME NEW a \in Byte, NEW b \in Byte, NEW c \in Byte
  PROVE  <<a, b, c>> \in Seq(Byte) /\ Len(<<a, b, c>>) = 3
OBVIOUS

LEMMA LETyping ==
  ASSUME NEW n \in Nat
  PROVE  /\ LE(n, 2) \in Seq(Byte) /\ Len(LE(n, 2)) = 2
         /\ LE(n, 4) \in Seq(Byte) /\ Len(LE(n, 4)) = 4
         /\ LE(n, 8) \in Seq(Byte) /\ Len(LE(n, 8)) = 8
<1>1. \A m \in Nat : m % 256 \in Byte
  BY DivMod
<1>2. /\ n % 256 \in Byte /\ Cut1(n) % 256 \in Byte /\ Cut2(n) % 256 \in Byte
      /\ Cut3(n) % 256 \in Byte /\ Cut4(n) % 256 \in Byte /\ Cut5(n) % 256 \in Byte
      /\ Cut6(n) % 256 \in Byte /\ Cut7(n) % 256 \in Byte
  BY <1>1, CutNat
<1>3. LE(n, 2) \in Seq(Byte) /\ Len(LE(n, 2)) = 2
  <2> DEFINE b == <<n % 256, Cut1(n) % 256>>
  <2>1. LE(n, 2) = b
    BY LE2, Zenon
  <2>2. b \in Seq(Byte) /\ Len(b) = 2
    BY <1>2
  <2> QED BY <2>1, <2>2, Zenon
<1>4. LE(n, 4) \in Seq(Byte) /\ Len(LE(n, 4)) = 4
  <2> DEFINE b == <<n % 256, Cut1(n) % 256, Cut2(n) % 256, Cut3(n) % 256>>
  <2>1. LE(n, 4) = b
    BY LE4, Zenon
  <2>2. b \in Seq(Byte) /\ Len(b) = 4
    BY <1>2
  <2> QED BY <2>1, <2>2, Zenon
<1>5. LE(n, 8) \in Seq(Byte) /\ Len(LE(n, 8)) = 8
  <2> DEFINE b == <<n % 256, Cut1(n) % 256, Cut2(n) % 256, Cut3(n) % 256,
                     Cut4(n) % 256, Cut5(n) % 256, Cut6(n) % 256, Cut7(n) % 256>>
  <2>1. LE(n, 8) = b
    BY LE8, ZenonT(60)
  <2>2. b \in Seq(Byte) /\ Len(b) = 8
    BY <1>2
  <2> QED BY <2>1, <2>2, Zenon
<1> QED BY <1>3, <1>4, <1>5

(* c is s followed by t.                                                   *)
Joined(c, s, t) ==
  /\ c \in Seq(Byte) /\ Len(c) = Len(s) + Len(t)
  /\ \A i \in 1 .. Len(s) : c[i] = s[i]
  /\ \A i \in 1 .. Len(t) : c[Len(s) + i] = t[i]

LEMMA Join ==
  ASSUME NEW s \in Seq(Byte), NEW t \in Seq(Byte)
  PROVE  Joined(s \o t, s, t)
<1>1. Len(s) \in Nat /\ Len(t) \in Nat
  BY LenProperties
<1> QED BY <1>1, ConcatProperties DEF Joined

(* to_bytes, field by field.                                               *)
LEMMA HeaderBytes ==
  ASSUME NEW p \in HeaderGW
  PROVE  /\ ToBytes(p) \in Seq(Byte) /\ Len(ToBytes(p)) = 16
         /\ ToBytes(p)[1] = Code[p.type]
         /\ \A i \in 1 .. 8 : ToBytes(p)[1 + i] = LE(p.id, 8)[i]
         /\ \A i \in 1 .. 2 : ToBytes(p)[9 + i] = LE(p.link, 2)[i]
         /\ \A i \in 1 .. 2 : ToBytes(p)[11 + i] = LE(p.size, 2)[i]
         /\ ToBytes(p)[14] = p.flags
<1>1. /\ p.id \in Nat /\ p.link \in Nat /\ p.size \in Nat /\ p.flags \in Byte
      /\ Code[p.type] \in Byte /\ 0 \in Byte
  BY CodeTyping DEF HeaderGW, Byte
<1> DEFINE a == <<Code[p.type]>>
           b == LE(p.id, 8)
           c == LE(p.link, 2)
           d == LE(p.size, 2)
           e == <<p.flags, 0, 0>>
           ab == a \o b
           ac == ab \o c
           ad == ac \o d
           ae == ad \o e
<1>2. a \in Seq(Byte) /\ Len(a) = 1
  BY <1>1, Tuple1, Zenon
<1>3. b \in Seq(Byte) /\ Len(b) = 8
  BY <1>1, LETyping, Zenon
<1>4. c \in Seq(Byte) /\ Len(c) = 2
  BY <1>1, LETyping, Zenon
<1>5. d \in Seq(Byte) /\ Len(d) = 2
  BY <1>1, LETyping, Zenon
<1>6. e \in Seq(Byte) /\ Len(e) = 3
  BY <1>1, Tuple3, Zenon
<1>7. a[1] = Code[p.type] /\ e[1] = p.flags
  OBVIOUS
<1>8. ToBytes(p) = ae
  BY DEF ToBytes
<1> HIDE DEF a, b, c, d, e
<1>9. ab \in Seq(Byte) /\ Joined(ab, a, b)
  BY <1>2, <1>3, Join, Zenon DEF Joined
<1> HIDE DEF ab
<1>10. ac \in Seq(Byte) /\ Joined(ac, ab, c)
  BY <1>4, <1>9, Join, Zenon DEF Joined
<1> HIDE DEF ac
<1>11. ad \in Seq(Byte) /\ Joined(ad, ac, d)
  BY <1>5, <1>10, Join, Zenon DEF Joined
<1> HIDE DEF ad
<1>12. ae \in Seq(Byte) /\ Joined(ae, ad, e)
  BY <1>6, <1>11, Join, Zenon DEF Joined
<1> HIDE DEF ae
<1>13. /\ Len(ab) = 9 /\ ab[1] = a[1] /\ \A i \in 1 .. 8 : ab[1 + i] = b[i]
  BY <1>2, <1>3, <1>9 DEF Joined
<1>14. /\ Len(ac) = 11 /\ \A i \in 1 .. 9 : ac[i] = ab[i]
       /\ \A i \in 1 .. 2 : ac[9 + i] = c[i]
  BY <1>4, <1>10, <1>13 DEF Joined
<1>15. /\ Len(ad) = 13 /\ \A i \in 1 .. 11 : ad[i] = ac[i]
       /\ \A i \in 1 .. 2 : ad[11 + i] = d[i]
  BY <1>5, <1>11, <1>14 DEF Joined
<1>16. /\ Len(ae) = 16 /\ \A i \in 1 .. 13 : ae[i] = ad[i]
       /\ \A i \in 1 .. 3 : ae[13 + i] = e[i]
  BY <1>6, <1>12, <1>15 DEF Joined
<1>17. ae[1] = Code[p.type] /\ ae[14] = p.flags
  BY <1>7, <1>13, <1>14, <1>15, <1>16
<1>18. \A i \in 1 .. 8 : ae[1 + i] = b[i]
  BY <1>13, <1>14, <1>15, <1>16
<1>19. \A i \in 1 .. 2 : ae[9 + i] = c[i] /\ ae[11 + i] = d[i]
  BY <1>14, <1>15, <1>16
<1> QED BY <1>8, <1>12, <1>16, <1>17, <1>18, <1>19 DEF b, c, d

(* from_le_bytes undoes to_le_bytes on what fits.                          *)
LEMMA RoundTrip2 ==
  ASSUME NEW n \in Nat, Fits16(n)
  PROVE  FromLE(LE(n, 2)) = n
<1> DEFINE v == [i \in 0 .. 2 |-> CASE i = 1 -> Cut1(n) [] i = 2 -> n [] OTHER -> 0]
           b == LE(n, 2)
<1>1. b \in Seq(Byte) /\ Len(b) = 2
  BY LETyping, Zenon
<1>2. b[1] = n % 256 /\ b[2] = Cut1(n) % 256
  BY LE2
<1> HIDE DEF b
<1>3. Cut1(n) \in Nat /\ Cut1(n) < 256 /\ n = Cut1(n) * 256 + (n % 256)
  BY CutNat, DivMod DEF Fits16, Cut1
<1>4. Cut1(n) = 0 * 256 + (Cut1(n) % 256)
  BY <1>3
<1>5. v \in [0 .. 2 -> Nat] /\ v[0] = 0 /\ v[1] = Cut1(n) /\ v[2] = n
  BY <1>3
<1> HIDE DEF v
<1>6. \A i \in 1 .. 2 : v[i] = v[i - 1] * 256 + b[3 - i]
  BY <1>2, <1>3, <1>4, <1>5
<1>7. Horner(v, b)
  BY <1>1, <1>5, <1>6 DEF Horner
<1> QED BY <1>1, <1>5, <1>7, FromLE2 DEF b

LEMMA RoundTrip4 ==
  ASSUME NEW n \in Nat, Fits32(n)
  PROVE  FromLE(LE(n, 4)) = n
<1> DEFINE v == [i \in 0 .. 4 |-> CASE i = 1 -> Cut3(n) [] i = 2 -> Cut2(n)
                                    [] i = 3 -> Cut1(n) [] i = 4 -> n [] OTHER -> 0]
           b == LE(n, 4)
<1>1. b \in Seq(Byte) /\ Len(b) = 4
  BY LETyping, Zenon
<1>2. /\ b[1] = n % 256 /\ b[2] = Cut1(n) % 256
      /\ b[3] = Cut2(n) % 256 /\ b[4] = Cut3(n) % 256
  BY <1>1, LE4
<1> HIDE DEF b
<1>3. /\ Cut1(n) \in Nat /\ Cut2(n) \in Nat /\ Cut3(n) \in Nat /\ Cut3(n) < 256
  BY CutNat DEF Fits32
<1>4. /\ n = Cut1(n) * 256 + (n % 256)
      /\ Cut1(n) = Cut2(n) * 256 + (Cut1(n) % 256)
      /\ Cut2(n) = Cut3(n) * 256 + (Cut2(n) % 256)
  BY <1>3, DivMod DEF Cut1, Cut2, Cut3
<1>5. Cut3(n) = 0 * 256 + (Cut3(n) % 256)
  BY <1>3
<1>6. v \in [0 .. 4 -> Nat] /\ v[0] = 0
  BY <1>3
<1>7. v[1] = Cut3(n) /\ v[2] = Cut2(n) /\ v[3] = Cut1(n) /\ v[4] = n
  OBVIOUS
<1> HIDE DEF v
<1>8. \A i \in 1 .. 4 : v[i] = v[i - 1] * 256 + b[5 - i]
  BY <1>2, <1>4, <1>5, <1>6, <1>7
<1>9. Horner(v, b)
  BY <1>1, <1>6, <1>8 DEF Horner
<1> QED BY <1>1, <1>7, <1>9, FromLE4 DEF b

LEMMA RoundTrip8 ==
  ASSUME NEW n \in Nat, Fits64(n)
  PROVE  FromLE(LE(n, 8)) = n
<1> DEFINE v == [i \in 0 .. 8 |->
                   CASE i = 1 -> Cut7(n) [] i = 2 -> Cut6(n) [] i = 3 -> Cut5(n)
                     [] i = 4 -> Cut4(n) [] i = 5 -> Cut3(n) [] i = 6 -> Cut2(n)
                     [] i = 7 -> Cut1(n) [] i = 8 -> n [] OTHER -> 0]
           b == LE(n, 8)
<1>1. b \in Seq(Byte) /\ Len(b) = 8
  BY LETyping, Zenon
<1>2. /\ b[1] = n % 256 /\ b[2] = Cut1(n) % 256
      /\ b[3] = Cut2(n) % 256 /\ b[4] = Cut3(n) % 256
      /\ b[5] = Cut4(n) % 256 /\ b[6] = Cut5(n) % 256
      /\ b[7] = Cut6(n) % 256 /\ b[8] = Cut7(n) % 256
  BY LE8
<1> HIDE DEF b
<1>3. /\ Cut1(n) \in Nat /\ Cut2(n) \in Nat /\ Cut3(n) \in Nat /\ Cut4(n) \in Nat
      /\ Cut5(n) \in Nat /\ Cut6(n) \in Nat /\ Cut7(n) \in Nat /\ Cut7(n) < 256
  BY CutNat DEF Fits64
<1>4. /\ n = Cut1(n) * 256 + (n % 256)
      /\ Cut1(n) = Cut2(n) * 256 + (Cut1(n) % 256)
      /\ Cut2(n) = Cut3(n) * 256 + (Cut2(n) % 256)
      /\ Cut3(n) = Cut4(n) * 256 + (Cut3(n) % 256)
      /\ Cut4(n) = Cut5(n) * 256 + (Cut4(n) % 256)
      /\ Cut5(n) = Cut6(n) * 256 + (Cut5(n) % 256)
      /\ Cut6(n) = Cut7(n) * 256 + (Cut6(n) % 256)
  <2>1. n = Cut1(n) * 256 + (n % 256)
    BY DivMod DEF Cut1
  <2>2. Cut1(n) = Cut2(n) * 256 + (Cut1(n) % 256)
    BY <1>3, DivMod DEF Cut2
  <2>3. Cut2(n) = Cut3(n) * 256 + (Cut2(n) % 256)
    BY <1>3, DivMod DEF Cut3
  <2>4. Cut3(n) = Cut4(n) * 256 + (Cut3(n) % 256)
    BY <1>3, DivMod DEF Cut4
  <2>5. Cut4(n) = Cut5(n) * 256 + (Cut4(n) % 256)
    BY <1>3, DivMod DEF Cut5
  <2>6. Cut5(n) = Cut6(n) * 256 + (Cut5(n) % 256)
    BY <1>3, DivMod DEF Cut6
  <2>7. Cut6(n) = Cut7(n) * 256 + (Cut6(n) % 256)
    BY <1>3, DivMod DEF Cut7
  <2> QED BY <2>1, <2>2, <2>3, <2>4, <2>5, <2>6, <2>7
<1>5. Cut7(n) = 0 * 256 + (Cut7(n) % 256)
  BY <1>3
<1>6. v \in [0 .. 8 -> Nat] /\ v[0] = 0
  BY <1>3
<1>7. /\ v[1] = Cut7(n) /\ v[2] = Cut6(n) /\ v[3] = Cut5(n) /\ v[4] = Cut4(n)
      /\ v[5] = Cut3(n) /\ v[6] = Cut2(n) /\ v[7] = Cut1(n) /\ v[8] = n
  OBVIOUS
<1> HIDE DEF v
<1>8. ASSUME NEW i \in 1 .. 8
      PROVE  v[i] = v[i - 1] * 256 + b[9 - i]
  <2>1. CASE i = 1
    <3>1. i - 1 = 0 /\ 9 - i = 8
      BY <2>1
    <3> QED BY <1>2, <1>5, <1>6, <1>7, <2>1, <3>1
  <2>2. CASE i = 2 \/ i = 3
    <3>1. i - 1 = (IF i = 2 THEN 1 ELSE 2) /\ 9 - i = (IF i = 2 THEN 7 ELSE 6)
      BY <2>2
    <3> QED BY <1>2, <1>4, <1>7, <2>2, <3>1
  <2>3. CASE i = 4 \/ i = 5
    <3>1. i - 1 = (IF i = 4 THEN 3 ELSE 4) /\ 9 - i = (IF i = 4 THEN 5 ELSE 4)
      BY <2>3
    <3> QED BY <1>2, <1>4, <1>7, <2>3, <3>1
  <2>4. CASE i = 6 \/ i = 7
    <3>1. i - 1 = (IF i = 6 THEN 5 ELSE 6) /\ 9 - i = (IF i = 6 THEN 3 ELSE 2)
      BY <2>4
    <3> QED BY <1>2, <1>4, <1>7, <2>4, <3>1
  <2>5. CASE i = 8
    <3>1. i - 1 = 7 /\ 9 - i = 1
      BY <2>5
    <3> QED BY <1>2, <1>4, <1>7, <2>5, <3>1
  <2> QED BY <2>1, <2>2, <2>3, <2>4, <2>5
<1>9. Horner(v, b)
  BY <1>1, <1>6, <1>8 DEF Horner
<1> QED BY <1>1, <1>7, <1>9, FromLE8 DEF b

LEMMA FromLETyping ==
  ASSUME NEW b \in Seq(Byte), Len(b) = 2 \/ Len(b) = 8
  PROVE  FromLE(b) \in Nat
<1>1. ASSUME NEW v, Horner(v, b) PROVE v[Len(b)] \in Nat
  BY <1>1 DEF Horner
<1>2. CASE Len(b) = 2
  <2>1. PICK v : Horner(v, b)
    BY <1>2, HornerExists2
  <2> QED BY <1>1, <1>2, <2>1, FromLE2
<1>3. CASE Len(b) = 8
  <2>1. PICK v : Horner(v, b)
    BY <1>3, HornerExists8
  <2> QED BY <1>1, <1>3, <2>1, FromLE8
<1> QED BY <1>2, <1>3

(* c is the part of s from i to j.                                         *)
Part(c, s, i, j) ==
  /\ c \in Seq(Byte) /\ Len(c) = j - i + 1
  /\ \A k \in 1 .. j - i + 1 : c[k] = s[i + k - 1]

LEMMA Slice ==
  ASSUME NEW s \in Seq(Byte), NEW i \in Nat, NEW j \in Nat,
         1 <= i, i <= j + 1, j <= Len(s)
  PROVE  Part(SubSeq(s, i, j), s, i, j)
<1> DEFINE c == SubSeq(s, i, j)
<1>1. c \in Seq(Byte)
  OBVIOUS
<1>2. Len(c) = j - i + 1
  OBVIOUS
<1>3. \A k \in 1 .. j - i + 1 : c[k] = s[i + k - 1]
  OBVIOUS
<1> HIDE DEF c
<1>4. Part(c, s, i, j)
  BY <1>1, <1>2, <1>3, Zenon DEF Part
<1> QED BY <1>4 DEF c

LEMMA SameBytes ==
  ASSUME NEW s \in Seq(Byte), NEW t \in Seq(Byte), Len(s) = Len(t),
         \A i \in 1 .. Len(s) : s[i] = t[i]
  PROVE  s = t
BY SeqEqual, Zenon

(* The parts of a header that from_bytes takes.                            *)
LEMMA HeaderParts ==
  ASSUME NEW b \in Seq(Byte), Len(b) = 16
  PROVE  /\ Part(SubSeq(b, 2, 9), b, 2, 9)
         /\ Part(SubSeq(b, 10, 11), b, 10, 11)
         /\ Part(SubSeq(b, 12, 13), b, 12, 13)
         /\ b[1] \in Byte /\ b[14] \in Byte
<1>1. 1 <= 2 /\ 2 <= 9 + 1 /\ 9 <= Len(b) /\ 2 \in Nat /\ 9 \in Nat
  OBVIOUS
<1>2. 1 <= 10 /\ 10 <= 11 + 1 /\ 11 <= Len(b) /\ 10 \in Nat /\ 11 \in Nat
  OBVIOUS
<1>3. 1 <= 12 /\ 12 <= 13 + 1 /\ 13 <= Len(b) /\ 12 \in Nat /\ 13 \in Nat
  OBVIOUS
<1>4. 1 \in 1 .. Len(b) /\ 14 \in 1 .. Len(b)
  OBVIOUS
<1> QED BY <1>1, <1>2, <1>3, <1>4, Slice, BytesNat, Zenon

(* from_bytes gives a header, whatever the bytes.                          *)
LEMMA FromBytesTyping ==
  ASSUME NEW b \in Seq(Byte), Len(b) = 16
  PROVE  FromBytes(b) \in HeaderGW
<1> DEFINE x == SubSeq(b, 2, 9)
           y == SubSeq(b, 10, 11)
           z == SubSeq(b, 12, 13)
<1>1. Part(x, b, 2, 9) /\ Part(y, b, 10, 11) /\ Part(z, b, 12, 13) /\ b[14] \in Byte
  BY HeaderParts, Zenon
<1>2. FromBytes(b) = [type |-> FromCode(b[1]), id |-> FromLE(x), link |-> FromLE(y),
                      size |-> FromLE(z), flags |-> b[14]]
  BY DEF FromBytes
<1> HIDE DEF x, y, z
<1>3. /\ x \in Seq(Byte) /\ Len(x) = 8 /\ y \in Seq(Byte) /\ Len(y) = 2
      /\ z \in Seq(Byte) /\ Len(z) = 2
  BY <1>1 DEF Part
<1>4. FromLE(x) \in Nat /\ FromLE(y) \in Nat /\ FromLE(z) \in Nat
  BY <1>3, FromLETyping, Zenon
<1>5. FromCode(b[1]) \in DOMAIN Code
  BY CodeTyping, Zenon
<1> QED BY <1>1, <1>2, <1>4, <1>5 DEF HeaderGW

(* from_bytes undoes to_bytes, up to a number that is not a u64.           *)
Wired(p) == Header(p.type, FromLE(LE(p.id, 8)), p.link, p.size, p.flags)

LEMMA HeaderRoundTrip ==
  ASSUME NEW p \in HeaderGW, Fits(p), NEW b \in Seq(Byte), Len(b) = 16,
         \A j \in 1 .. 16 : b[j] = ToBytes(p)[j]
  PROVE  FromBytes(b) = Wired(p)
<1>1. /\ p.id \in Nat /\ p.link \in Nat /\ p.size \in Nat /\ p.type \in DOMAIN Code
      /\ p = [type |-> p.type, id |-> p.id, link |-> p.link, size |-> p.size,
              flags |-> p.flags]
  BY DEF HeaderGW
<1> DEFINE h == ToBytes(p)
<1> HIDE DEF h
<1>0. \A j \in 1 .. 16 : b[j] = h[j]
  BY DEF h
<1>2. SubSeq(b, 2, 9) = LE(p.id, 8)
  <2> DEFINE s == SubSeq(b, 2, 9)
             t == LE(p.id, 8)
  <2>1. Part(s, b, 2, 9)
    BY HeaderParts, Zenon
  <2>2. t \in Seq(Byte) /\ Len(t) = 8
    BY <1>1, LETyping, Zenon
  <2>3. \A i \in 1 .. 8 : h[1 + i] = t[i]
    BY HeaderBytes, Zenon DEF h
  <2> HIDE DEF s, t
  <2>4. s \in Seq(Byte) /\ Len(s) = 8 /\ \A i \in 1 .. 8 : s[i] = t[i]
    BY <1>0, <2>1, <2>3 DEF Part
  <2>5. Len(s) = Len(t) /\ \A i \in 1 .. Len(s) : s[i] = t[i]
    BY <2>2, <2>4
  <2>6. s = t
    BY <2>2, <2>4, <2>5, SameBytes, Zenon
  <2> QED BY <2>6 DEF s, t
<1>3. SubSeq(b, 10, 11) = LE(p.link, 2)
  <2> DEFINE s == SubSeq(b, 10, 11)
             t == LE(p.link, 2)
  <2>1. Part(s, b, 10, 11)
    BY HeaderParts, Zenon
  <2>2. t \in Seq(Byte) /\ Len(t) = 2
    BY <1>1, LETyping, Zenon
  <2>3. \A i \in 1 .. 2 : h[9 + i] = t[i]
    BY HeaderBytes, Zenon DEF h
  <2> HIDE DEF s, t
  <2>4. s \in Seq(Byte) /\ Len(s) = 2 /\ \A i \in 1 .. 2 : s[i] = t[i]
    BY <1>0, <2>1, <2>3 DEF Part
  <2>5. Len(s) = Len(t) /\ \A i \in 1 .. Len(s) : s[i] = t[i]
    BY <2>2, <2>4
  <2>6. s = t
    BY <2>2, <2>4, <2>5, SameBytes, Zenon
  <2> QED BY <2>6 DEF s, t
<1>4. SubSeq(b, 12, 13) = LE(p.size, 2)
  <2> DEFINE s == SubSeq(b, 12, 13)
             t == LE(p.size, 2)
  <2>1. Part(s, b, 12, 13)
    BY HeaderParts, Zenon
  <2>2. t \in Seq(Byte) /\ Len(t) = 2
    BY <1>1, LETyping, Zenon
  <2>3. \A i \in 1 .. 2 : h[11 + i] = t[i]
    BY HeaderBytes, Zenon DEF h
  <2> HIDE DEF s, t
  <2>4. s \in Seq(Byte) /\ Len(s) = 2 /\ \A i \in 1 .. 2 : s[i] = t[i]
    BY <1>0, <2>1, <2>3 DEF Part
  <2>5. Len(s) = Len(t) /\ \A i \in 1 .. Len(s) : s[i] = t[i]
    BY <2>2, <2>4
  <2>6. s = t
    BY <2>2, <2>4, <2>5, SameBytes, Zenon
  <2> QED BY <2>6 DEF s, t
<1>5. FromCode(b[1]) = p.type /\ b[14] = p.flags
  <2>1. h[1] = Code[p.type] /\ h[14] = p.flags
    BY HeaderBytes, Zenon DEF h
  <2>2. b[1] = h[1] /\ b[14] = h[14]
    BY <1>0
  <2> QED BY <1>1, <2>1, <2>2, CodeTyping, Zenon
<1>6. FromLE(LE(p.link, 2)) = p.link /\ FromLE(LE(p.size, 2)) = p.size
  BY <1>1, RoundTrip2, Zenon DEF Fits
<1> QED BY <1>2, <1>3, <1>4, <1>5, <1>6, Zenon DEF FromBytes, Wired, Header

LEMMA WiredFields ==
  ASSUME NEW p \in HeaderGW
  PROVE  /\ Wired(p).type = p.type /\ Wired(p).link = p.link /\ Wired(p).size = p.size
         /\ Wired(p).flags = p.flags /\ Wired(p).id = FromLE(LE(p.id, 8))
BY DEF Wired, Header

-----------------------------------------------------------------------------
(* Compression, and the frame of a packet. *)

(* Compressed data is not longer, is empty only when there was none, and   *)
(* is restored.                                                            *)
Restores(c, d) ==
  /\ c.data \in Seq(Byte) /\ Len(c.data) <= Len(d)
  /\ c.data = <<>> => d = <<>>
  /\ c.is_compressed \in BOOLEAN
  /\ DecompressData(c.data, c.is_compressed) = d

LEMMA Compression ==
  ASSUME NEW d \in Seq(Byte)
  PROVE  Restores(CompressData(d), d)
<1>1. Len(d) \in Nat
  BY LenProperties
<1> DEFINE z == EncodeAll(d)
<1>2. CASE Len(d) >= MIN_COMPRESS_SIZE /\ Len(z) < Len(d)
  <2>1. CompressData(d) = [data |-> z, is_compressed |-> TRUE]
    BY <1>2 DEF CompressData
  <2>2. Len(d) # 0
    BY <1>1, <1>2, MinCompressAssumption
  <2>3. Len(d) < 256 /\ \A i \in 1 .. Len(d) : d[i] = d[1]
    <3>1. SUFFICES ASSUME ~(Len(d) < 256 /\ \A i \in 1 .. Len(d) : d[i] = d[1])
                   PROVE  FALSE
      OBVIOUS
    <3>2. z = <<0>> \o d
      BY <3>1 DEF EncodeAll
    <3>3. <<0>> \in Seq(Byte) /\ Len(<<0>>) = 1
      BY Tuple1 DEF Byte
    <3>4. Joined(z, <<0>>, d)
      BY <3>2, <3>3, Join, Zenon
    <3>5. Len(z) = Len(<<0>>) + Len(d)
      BY <3>4, Zenon DEF Joined
    <3> HIDE DEF z
    <3> QED BY <1>1, <1>2, <3>3, <3>5
  <2>4. z = <<Len(d), d[1]>>
    BY <2>3 DEF EncodeAll
  <2>5. Len(d) \in Byte /\ d[1] \in Byte
    <3>1. 1 \in 1 .. Len(d)
      BY <1>1, <2>2
    <3>2. d[1] \in Byte
      BY <3>1, BytesNat, Zenon
    <3>3. Len(d) \in Byte
      BY <1>1, <2>3, ByteRange
    <3> QED BY <3>2, <3>3
  <2>6. z \in Seq(Byte) /\ z # <<>> /\ z[1] = Len(d) /\ z[2] = d[1]
    BY <2>4, <2>5
  <2>7. DecompressData(z, TRUE) = d
    <3> DEFINE r == [i \in 1 .. Len(d) |-> d[1]]
    <3> HIDE DEF z
    <3>1. DecompressData(z, TRUE) = r
      BY <1>1, <2>2, <2>6 DEF DecompressData, DecodeAll
    <3>2. r \in Seq(Byte) /\ Len(r) = Len(d)
      BY <1>1, <2>5
    <3>3. \A i \in 1 .. Len(r) : r[i] = d[i]
      BY <2>3, <3>2
    <3> HIDE DEF r
    <3>4. r = d
      BY <3>2, <3>3, SameBytes, Zenon
    <3> QED BY <3>1, <3>4
  <2> HIDE DEF z
  <2>8. Len(z) <= Len(d)
    BY <1>1, <1>2, <2>6
  <2> DEFINE c == CompressData(d)
  <2>9. c.data = z /\ c.is_compressed = TRUE
    BY <2>1
  <2> HIDE DEF c
  <2>10. Restores(c, d)
    BY <2>6, <2>7, <2>8, <2>9, Zenon DEF Restores
  <2> QED BY <2>10 DEF c
<1>3. CASE ~(Len(d) >= MIN_COMPRESS_SIZE /\ Len(z) < Len(d))
  <2>1. CompressData(d) = [data |-> d, is_compressed |-> FALSE]
    BY <1>3 DEF CompressData
  <2>2. Len(d) <= Len(d) /\ DecompressData(d, FALSE) = d
    BY <1>1 DEF DecompressData
  <2> DEFINE c == CompressData(d)
  <2>3. c.data = d /\ c.is_compressed = FALSE
    BY <2>1
  <2> HIDE DEF c
  <2>4. Restores(c, d)
    BY <2>2, <2>3, Zenon DEF Restores
  <2> QED BY <2>4 DEF c
<1> QED BY <1>2, <1>3

LEMMA PayloadTyping ==
  ASSUME NEW p \in Payload
  PROVE  /\ p.type \in DOMAIN Code /\ p.type \notin HsTypes /\ p.link \in U16
         /\ p.data \in Seq(Byte) /\ Len(p.data) <= BUFFER_SIZE
<1>1. p \in [type : DOMAIN Code \ HsTypes, link : U16, data : Seq(Byte)]
  BY Zenon DEF Payload
<1>2. Len(p.data) <= BUFFER_SIZE
  BY Zenon DEF Payload
<1>3. p.type \in DOMAIN Code \ HsTypes /\ p.link \in U16 /\ p.data \in Seq(Byte)
  BY <1>1
<1> QED BY <1>2, <1>3, Zenon

LEMMA Limits ==
  /\ \A n \in U16 : n \in Nat /\ Fits16(n)
  /\ \A n \in Nat : n <= BUFFER_SIZE => n \in U16
<1>1. U16_MAX \in Nat /\ BUFFER_SIZE <= U16_MAX /\ BUFFER_SIZE \in Nat
  BY SMT DEF U16_MAX, BUFFER_SIZE
<1>2. ASSUME NEW n \in Nat, n <= U16_MAX PROVE n \div 256 < 256
  BY <1>2, SMT DEF U16_MAX
<1>3. ASSUME NEW n \in U16 PROVE n \in Nat /\ Fits16(n)
  <2>1. n \in Nat /\ n <= U16_MAX
    BY <1>1 DEF U16
  <2> QED BY <1>2, <2>1, Zenon DEF Fits16, Cut1
<1>4. ASSUME NEW n \in Nat, n <= BUFFER_SIZE PROVE n \in U16
  BY <1>1, <1>4 DEF U16
<1> QED BY <1>3, <1>4, Zenon

(* A packet to be sent and its frame: the fields of the header fit, and    *)
(* the reader gets the data back.                                          *)
FrameOf(f, p, id) ==
  /\ f.head \in HeaderGW /\ f.data \in Seq(Byte)
  /\ f.head.type = p.type /\ f.head.id = id /\ f.head.link = p.link
  /\ f.head.size = Len(f.data) /\ Len(f.data) \in U16
  /\ Fits16(f.head.link) /\ Fits16(f.head.size)
  /\ f.data = <<>> => p.data = <<>>
  /\ DecompressData(f.data, IsCompressed(f.head)) = p.data

LEMMA Framing ==
  ASSUME NEW p \in Payload, NEW id \in Nat
  PROVE  FrameOf(Framed(p, id), p, id)
<1>1. /\ p.type \in DOMAIN Code /\ p.link \in U16 /\ p.data \in Seq(Byte)
      /\ Len(p.data) <= BUFFER_SIZE
  BY PayloadTyping, Zenon
<1> DEFINE c == CompressData(p.data)
           e == c.data
           fl == IF c.is_compressed THEN FLAG_COMPRESSED ELSE 0
           h == Header(p.type, id, p.link, Len(e), fl)
<1>2. Framed(p, id) = [head |-> h, data |-> e]
  BY DEF Framed
<1>3. Restores(c, p.data)
  BY <1>1, Compression, Zenon
<1> HIDE DEF c
<1>4. /\ e \in Seq(Byte) /\ Len(e) <= Len(p.data) /\ (e = <<>> => p.data = <<>>)
      /\ c.is_compressed \in BOOLEAN /\ DecompressData(e, c.is_compressed) = p.data
  BY <1>3, Zenon DEF Restores
<1>5. fl \in Byte /\ (fl % 2 = 1 <=> c.is_compressed)
  BY <1>4 DEF Byte, FLAG_COMPRESSED
<1> HIDE DEF e, fl
<1>6. Len(e) \in Nat /\ Len(p.data) \in Nat
  BY <1>1, <1>4, LenProperties
<1>7. Len(e) \in U16 /\ Fits16(p.link) /\ Fits16(Len(e)) /\ p.link \in Nat
  <2>1. Len(e) <= BUFFER_SIZE
    BY <1>1, <1>4, <1>6 DEF BUFFER_SIZE
  <2> QED BY <1>1, <1>6, <2>1, Limits, Zenon
<1>8. /\ h \in HeaderGW /\ h.type = p.type /\ h.id = id /\ h.link = p.link
      /\ h.size = Len(e) /\ h.flags = fl
  BY <1>1, <1>5, <1>6, <1>7 DEF Header, HeaderGW
<1> HIDE DEF h
<1>9. DecompressData(e, IsCompressed(h)) = p.data
  <2>1. IsCompressed(h) = c.is_compressed
    BY <1>4, <1>5, <1>8 DEF IsCompressed, FLAG_COMPRESSED
  <2> QED BY <1>4, <2>1
<1> DEFINE f == Framed(p, id)
<1>10. f.head = h /\ f.data = e
  BY <1>2
<1> HIDE DEF f
<1>11. FrameOf(f, p, id)
  BY <1>4, <1>7, <1>8, <1>9, <1>10, Zenon DEF FrameOf
<1> QED BY <1>11 DEF f

-----------------------------------------------------------------------------
(* What the steps do to the streams. *)

Bytes == [Side -> Seq(Byte)]

LEMMA Sides ==
  /\ "srv" \in Side /\ "cli" \in Side
  /\ \A s \in Side : /\ Other(s) \in Side /\ Other(s) # s /\ Other(Other(s)) = s
                     /\ \A u \in Side : u = s \/ u = Other(s)
  /\ Other("srv") = "cli" /\ Other("cli") = "srv"
BY DEF Side, Other

LEMMA PushEffect ==
  ASSUME stream \in Bytes, NEW s \in Side, NEW b \in Seq(Byte), Push(s, b)
  PROVE  /\ stream' \in Bytes /\ stream'[s] = stream[s]
         /\ conn = "up" => Joined(stream'[Other(s)], stream[Other(s)], b)
         /\ conn # "up" => stream' = stream
<1> DEFINE o == Other(s)
<1>1. o \in Side /\ o # s
  BY Sides
<1> HIDE DEF o
<1>2. stream[o] \in Seq(Byte)
  BY <1>1 DEF Bytes
<1> DEFINE c == stream[o] \o b
<1>3. Joined(c, stream[o], b)
  BY <1>2, Join, Zenon
<1>4. c \in Seq(Byte)
  BY <1>3, Zenon DEF Joined
<1>5. stream' = IF conn = "up" THEN [stream EXCEPT ![o] = c] ELSE stream
  BY DEF Push, o
<1> HIDE DEF c
<1>6. CASE conn = "up"
  <2>1. stream' \in Bytes /\ stream'[s] = stream[s] /\ stream'[o] = c
    BY <1>1, <1>4, <1>5, <1>6 DEF Bytes
  <2> QED BY <1>3, <1>6, <2>1 DEF o
<1>7. CASE conn # "up"
  BY <1>5, <1>7
<1> QED BY <1>6, <1>7

(* r is s without its first n bytes.                                       *)
Rest(r, s, n) ==
  /\ r \in Seq(Byte) /\ Len(r) = Len(s) - n
  /\ \A i \in 1 .. Len(r) : r[i] = s[n + i]

LEMMA PullEffect ==
  ASSUME stream \in Bytes, NEW s \in Side, NEW n \in Nat, Ready(s, n)
  PROVE  /\ Part(Taken(s, n), stream[s], 1, n)
         /\ Pull(s, n) => /\ stream' \in Bytes
                          /\ stream'[Other(s)] = stream[Other(s)]
                          /\ Rest(stream'[s], stream[s], n)
<1> DEFINE b == stream[s]
<1>1. b \in Seq(Byte)
  BY DEF Bytes
<1>2. Len(b) >= n
  BY DEF Ready
<1>3. Pull(s, n) => stream' = [stream EXCEPT ![s] = SubSeq(b, n + 1, Len(b))]
  BY DEF Pull
<1>4. Taken(s, n) = SubSeq(b, 1, n)
  BY DEF Taken
<1> HIDE DEF b
<1>5. Len(b) \in Nat /\ n + 1 \in Nat /\ 1 \in Nat
  BY <1>1, LenProperties
<1>6. 1 <= n + 1 /\ n + 1 <= Len(b) + 1 /\ 1 <= 1 /\ n <= Len(b) /\ Len(b) <= Len(b)
  BY <1>2, <1>5
<1> DEFINE r == SubSeq(b, n + 1, Len(b))
<1>7. Part(r, b, n + 1, Len(b)) /\ Part(SubSeq(b, 1, n), b, 1, n)
  BY <1>1, <1>5, <1>6, Slice, Zenon
<1> HIDE DEF r
<1>8. Rest(r, b, n)
  <2>1. r \in Seq(Byte) /\ Len(r) = Len(b) - (n + 1) + 1
    BY <1>7, Zenon DEF Part
  <2>2. \A k \in 1 .. Len(b) - (n + 1) + 1 : r[k] = b[(n + 1) + k - 1]
    BY <1>7, Zenon DEF Part
  <2>3. Len(r) = Len(b) - n
    BY <1>5, <2>1
  <2>4. \A k \in 1 .. Len(r) : r[k] = b[n + k]
    BY <1>5, <2>2, <2>3
  <2> QED BY <2>1, <2>3, <2>4, Zenon DEF Rest
<1>9. ASSUME Pull(s, n)
      PROVE  stream' \in Bytes /\ stream'[Other(s)] = stream[Other(s)] /\ stream'[s] = r
  <2>1. stream' = [stream EXCEPT ![s] = r]
    BY <1>3, <1>9 DEF r
  <2>2. r \in Seq(Byte)
    BY <1>8, Zenon DEF Rest
  <2> QED BY <2>1, <2>2, Sides DEF Bytes
<1> QED BY <1>4, <1>7, <1>8, <1>9 DEF b

(* c is s, or s cut short.                                                 *)
Shorter(c, s) ==
  /\ c \in Seq(Byte) /\ Len(c) <= Len(s)
  /\ \A i \in 1 .. Len(c) : c[i] = s[i]

LEMMA CutEffect ==
  ASSUME stream \in Bytes, Cut
  PROVE  stream' \in Bytes /\ \A s \in Side : Shorter(stream'[s], stream[s])
<1>1. PICK cut \in SUBSET Side :
        stream' = [s \in Side |-> IF s \in cut
                                    THEN SubSeq(stream[s], 1, Len(stream[s]) - 1)
                                    ELSE stream[s]]
  BY Zenon DEF Cut
<1>2. ASSUME NEW s \in Side PROVE Shorter(stream'[s], stream[s])
  <2> DEFINE b == stream[s]
             c == SubSeq(b, 1, Len(b) - 1)
  <2>1. b \in Seq(Byte)
    BY DEF Bytes
  <2>2. stream'[s] = IF s \in cut THEN c ELSE b
    BY <1>1
  <2> HIDE DEF b
  <2>3. Len(b) \in Nat
    BY <2>1, LenProperties
  <2>4. Shorter(b, b)
    BY <2>1, <2>3 DEF Shorter
  <2>5. Shorter(c, b)
    <3>1. CASE Len(b) = 0
      <4>1. c = <<>>
        BY <2>1, <3>1
      <4>2. Len(c) = 0 /\ c \in Seq(Byte)
        BY <4>1
      <4> HIDE DEF c
      <4> QED BY <2>3, <3>1, <4>2 DEF Shorter
    <3>2. CASE Len(b) # 0
      <4>1. 1 \in Nat /\ Len(b) - 1 \in Nat /\ 1 <= 1 /\ 1 <= (Len(b) - 1) + 1
            /\ Len(b) - 1 <= Len(b)
        BY <2>3, <3>2
      <4>2. Part(c, b, 1, Len(b) - 1)
        BY <2>1, <4>1, Slice, Zenon
      <4> HIDE DEF c
      <4> QED BY <2>3, <3>2, <4>2 DEF Part, Shorter
    <3> QED BY <3>1, <3>2
  <2> HIDE DEF c
  <2> QED BY <2>2, <2>4, <2>5 DEF b
<1>3. stream' \in Bytes
  <2>1. stream' = [s \in Side |-> stream'[s]]
    BY <1>1
  <2>2. \A s \in Side : stream'[s] \in Seq(Byte)
    BY <1>2 DEF Shorter
  <2> QED BY <2>1, <2>2 DEF Bytes
<1> QED BY <1>2, <1>3

(* The data of the handshake.                                              *)
LEMMA NonceTyping ==
  /\ Nonce \in Seq(Byte) /\ Len(Nonce) = NONCE_SIZE
  /\ NONCE_SIZE \in Nat /\ NONCE_SIZE # 0 /\ NONCE_SIZE \in U16
  /\ RESPONSE_SIZE \in Nat /\ RESPONSE_SIZE # 0 /\ RESPONSE_SIZE \in U16
<1>1. /\ NONCE_SIZE \in U16 /\ NONCE_SIZE # 0 /\ RESPONSE_SIZE \in U16
      /\ RESPONSE_SIZE # 0
  BY SizesAssumption, Zenon
<1>2. NONCE_SIZE \in Nat /\ RESPONSE_SIZE \in Nat
  BY <1>1, Limits, Zenon
<1>3. \A i \in 1 .. NONCE_SIZE : (100 + i) % 256 \in Byte
  BY <1>2, DivMod
<1>4. Nonce \in [1 .. NONCE_SIZE -> Byte]
  BY <1>3, Zenon DEF Nonce
<1>5. Nonce \in Seq(Byte) /\ Len(Nonce) = NONCE_SIZE
  BY <1>2, <1>4
<1> QED BY <1>1, <1>2, <1>5, Zenon

LEMMA ResponseTyping ==
  ASSUME NEW k \in Byte, NEW d \in Seq(Byte), Len(d) # 0
  PROVE  /\ ComputeResponse(k, d) \in Seq(Byte)
         /\ Len(ComputeResponse(k, d)) = RESPONSE_SIZE
         /\ \A i \in 1 .. RESPONSE_SIZE : ComputeResponse(k, d)[i] = (k + d[1]) % 256
<1>1. Len(d) \in Nat
  BY LenProperties
<1>2. 1 \in 1 .. Len(d)
  BY <1>1
<1>3. d[1] \in Nat /\ k \in Nat
  <2>1. d[1] \in Nat
    BY <1>2, BytesNat, Zenon
  <2>2. \A x \in Byte : x \in Nat
    BY DEF Byte
  <2> QED BY <2>1, <2>2
<1> DEFINE x == (k + d[1]) % 256
           r == ComputeResponse(k, d)
<1>4. x \in Byte
  BY <1>3, DivMod
<1>5. r = [i \in 1 .. RESPONSE_SIZE |-> x]
  BY DEF ComputeResponse
<1> HIDE DEF x, r
<1>6. r \in Seq(Byte) /\ Len(r) = RESPONSE_SIZE /\ \A i \in 1 .. RESPONSE_SIZE : r[i] = x
  BY <1>4, <1>5, NonceTyping
<1> QED BY <1>6 DEF r, x

(* No two keys give the same response.                                     *)
LEMMA ResponseTells ==
  ASSUME NEW k \in Byte, NEW l \in Byte, NEW d \in Seq(Byte), Len(d) # 0,
         ComputeResponse(k, d) = ComputeResponse(l, d)
  PROVE  k = l
<1>1. /\ ComputeResponse(k, d)[1] = (k + d[1]) % 256
      /\ ComputeResponse(l, d)[1] = (l + d[1]) % 256
  <2>1. 1 \in 1 .. RESPONSE_SIZE
    BY NonceTyping
  <2>2. \A j \in Byte : \A i \in 1 .. RESPONSE_SIZE :
          ComputeResponse(j, d)[i] = (j + d[1]) % 256
    BY ResponseTyping, ZenonT(60)
  <2> QED BY <2>1, <2>2, Zenon
<1>2. d[1] \in Nat
  <2>1. Len(d) \in Nat
    BY LenProperties
  <2>2. 1 \in 1 .. Len(d)
    BY <2>1
  <2> QED BY <2>2, BytesNat, Zenon
<1>3. k \in Nat /\ l \in Nat /\ k < 256 /\ l < 256
  BY DEF Byte
<1>4. ASSUME NEW m \in Nat, (k + m) % 256 = (l + m) % 256 PROVE k = l
  <2>1. /\ k + m = ((k + m) \div 256) * 256 + ((k + m) % 256)
        /\ l + m = ((l + m) \div 256) * 256 + ((l + m) % 256)
    BY <1>3, DivMod
  <2>2. PICK x \in Nat : x = (k + m) \div 256
    BY <1>3, DivMod
  <2>3. PICK y \in Nat : y = (l + m) \div 256
    BY <1>3, DivMod
  <2>4. k - l = (x - y) * 256
    BY <1>3, <1>4, <2>1, <2>2, <2>3
  <2> QED BY <1>3, <2>4
<1> QED BY <1>1, <1>2, <1>4

LEMMA VersionTyping ==
  ASSUME NEW s \in Side, major \in [Side -> Nat]
  PROVE  /\ VersionData(s) \in Seq(Byte) /\ Len(VersionData(s)) = 12
         /\ \A i \in 1 .. 4 : VersionData(s)[i] = LE(major[s], 4)[i]
<1> DEFINE a == LE(major[s], 4)
           b == LE(2, 4)
           c == LE(0, 4)
           ab == a \o b
           ac == ab \o c
<1>1. major[s] \in Nat /\ 2 \in Nat /\ 0 \in Nat
  OBVIOUS
<1>2. /\ a \in Seq(Byte) /\ Len(a) = 4 /\ b \in Seq(Byte) /\ Len(b) = 4
      /\ c \in Seq(Byte) /\ Len(c) = 4
  BY <1>1, LETyping, Zenon
<1>3. VersionData(s) = ac
  BY DEF VersionData
<1> HIDE DEF a, b, c
<1>4. ab \in Seq(Byte) /\ Joined(ab, a, b)
  BY <1>2, Join, Zenon DEF Joined
<1> HIDE DEF ab
<1>5. ac \in Seq(Byte) /\ Joined(ac, ab, c)
  BY <1>2, <1>4, Join, Zenon DEF Joined
<1> HIDE DEF ac
<1>6. Len(ab) = 8 /\ \A i \in 1 .. 4 : ab[i] = a[i]
  BY <1>2, <1>4 DEF Joined
<1>7. Len(ac) = 12 /\ \A i \in 1 .. 8 : ac[i] = ab[i]
  BY <1>2, <1>5, <1>6 DEF Joined
<1>8. \A i \in 1 .. 4 : ac[i] = a[i]
  BY <1>6, <1>7
<1> QED BY <1>3, <1>5, <1>7, <1>8 DEF a

-----------------------------------------------------------------------------
(* Types. *)

HsPc    == HsReading \cup HsWriting \cup HsDone
HsBody  == {"nonce", "respondBody", "acceptBody", "denyBody"}
SndPc   == {"idle", "header", "data", "count", "failed"}
HsRec   == [pc : HsPc, pkt : HeaderGW, data : Seq(Byte)]
SndRec  == [pc : SndPc, id : Nat, todo : Seq(Payload)]
RdrRec  == [pc : {"header", "data", "ended"}, pkt : HeaderGW]
SentRec == [id : Nat, pkt : Payload]

Typed ==
  /\ conn \in {"up", "silent", "closed"}
  /\ stream \in Bytes
  /\ lock \in [Side -> Tasks \cup {Free, "handshake"}]
  /\ key \in [Side -> Byte]
  /\ major \in [Side -> Nat] /\ \A s \in Side : Fits32(major[s])
  /\ packet_id_counter \in [Side -> Nat]
  /\ hs \in [Side -> HsRec]
  /\ snd \in [Tasks -> SndRec]
  /\ rdr \in [Side -> RdrRec]
  /\ sent \in [Side -> Seq(SentRec)]

(* A task that is sending has a packet; it holds the mutex of its writer   *)
(* exactly between header and data, and so does the handshake; and the     *)
(* client has the nonce when it responds.                                  *)
Placed ==
  /\ \A t \in Tasks : snd[t].pc \in {"header", "data", "count"} => snd[t].todo # <<>>
  /\ \A t \in Tasks : snd[t].pc = "data" <=> lock[SideOf[t]] = t
  /\ \A s \in Side : hs[s].pc \in HsBody <=> lock[s] = "handshake"
  /\ hs["cli"].pc \in {"respond", "respondBody"} => Len(hs["cli"].data) = NONCE_SIZE

TypeInv == Typed /\ Placed

LEMMA LockNames ==
  /\ Free \notin Tasks /\ "handshake" \notin Tasks /\ Free # "handshake"
  /\ \A t \in Tasks : SideOf[t] \in Side
BY TasksAssumption DEF Free

LEMMA HsHeaderTyping ==
  ASSUME TypeInv, NEW s \in Side, NEW from, NEW to, NEW typ \in DOMAIN Code,
         NEW id \in Nat, NEW size \in Nat, HsHeader(s, from, to, typ, id, size),
         from \notin HsBody, to \in HsBody, to = "respondBody" => from = "respond",
         packet_id_counter' \in [Side -> Nat]
  PROVE  TypeInv'
<1> USE DEF TypeInv
<1> DEFINE h == Header(typ, id, 0, size, 0)
<1>1. h \in HeaderGW
  BY DEF Header, HeaderGW, Byte
<1>2. ToBytes(h) \in Seq(Byte)
  BY <1>1, HeaderBytes, Zenon
<1>3. Push(s, ToBytes(h))
  BY DEF HsHeader
<1>4. stream' \in Bytes
  BY <1>2, <1>3, PushEffect, Zenon DEF Typed
<1>5. /\ hs[s].pc = from /\ lock[s] = Free
      /\ lock' = [lock EXCEPT ![s] = "handshake"]
      /\ hs' = [hs EXCEPT ![s].pc = to]
      /\ conn' = conn /\ key' = key /\ major' = major /\ snd' = snd /\ rdr' = rdr
      /\ sent' = sent
  BY DEF HsHeader, config
<1>6. hs' \in [Side -> HsRec]
  <2>1. to \in HsPc
    BY DEF HsBody, HsPc, HsWriting
  <2> QED BY <1>5, <2>1 DEF Typed, HsRec
<1>7. Typed'
  BY <1>4, <1>5, <1>6 DEF Typed
<1>8. /\ hs'[s].pc = to /\ hs'[s].data = hs[s].data /\ lock'[s] = "handshake"
      /\ \A u \in Side : u # s => hs'[u] = hs[u] /\ lock'[u] = lock[u]
  BY <1>5 DEF Typed, HsRec
<1>9. \A t \in Tasks : snd[t].pc = "data" <=> lock'[SideOf[t]] = t
  BY <1>5, <1>8, LockNames DEF Placed
<1>10. \A u \in Side : hs'[u].pc \in HsBody <=> lock'[u] = "handshake"
  BY <1>8 DEF Placed
<1>11. hs'["cli"].pc \in {"respond", "respondBody"} => Len(hs'["cli"].data) = NONCE_SIZE
  BY <1>5, <1>8, Sides DEF Placed, HsBody
<1> QED BY <1>5, <1>7, <1>9, <1>10, <1>11 DEF Placed

LEMMA HsDataTyping ==
  ASSUME TypeInv, NEW s \in Side, NEW from \in HsBody, NEW to \in HsPc,
         NEW b \in Seq(Byte), HsData(s, from, to, b),
         to \notin HsBody, to # "respond", conn' \in {"up", "silent", "closed"}
  PROVE  TypeInv'
<1> USE DEF TypeInv
<1>1. stream' \in Bytes
  BY PushEffect, Zenon DEF Typed, HsData
<1>2. /\ hs[s].pc = from
      /\ lock' = [lock EXCEPT ![s] = Free]
      /\ hs' = [hs EXCEPT ![s].pc = to]
      /\ key' = key /\ major' = major /\ snd' = snd /\ rdr' = rdr /\ sent' = sent
      /\ packet_id_counter' = packet_id_counter
  BY DEF HsData, config
<1>3. hs' \in [Side -> HsRec]
  BY <1>2 DEF Typed, HsRec
<1>4. Typed'
  BY <1>1, <1>2, <1>3 DEF Typed
<1>5. lock[s] = "handshake"
  BY <1>2 DEF Placed
<1>6. Placed'
  BY <1>2, <1>5, LockNames, Sides, SMTT(30) DEF Typed, Placed, HsBody, HsRec
<1> QED BY <1>4, <1>6

LEMMA HsReadTyping ==
  ASSUME TypeInv, NEW s \in Side, NEW from \in HsReading, NEW n \in Nat,
         NEW pkt \in HeaderGW, NEW data \in Seq(Byte), NEW to \in HsPc,
         HsRead(s, from, n, pkt, data, to),
         to \notin HsBody, to = "respond" => Len(data) = NONCE_SIZE
  PROVE  TypeInv'
<1> USE DEF TypeInv
<1>1. stream' \in Bytes
  BY PullEffect, Zenon DEF Typed, HsRead
<1>2. /\ hs[s].pc = from
      /\ hs' = [hs EXCEPT ![s] = [pc |-> to, pkt |-> pkt, data |-> data]]
      /\ key' = key /\ major' = major /\ snd' = snd /\ rdr' = rdr /\ sent' = sent
      /\ packet_id_counter' = packet_id_counter /\ lock' = lock
      /\ conn' = IF to = "refused" /\ conn = "up" THEN "closed" ELSE conn
  BY DEF HsRead, config
<1>3. hs' \in [Side -> HsRec]
  BY <1>2 DEF Typed, HsRec
<1>4. conn' \in {"up", "silent", "closed"}
  BY <1>2 DEF Typed
<1>5. Typed'
  BY <1>1, <1>2, <1>3, <1>4 DEF Typed
<1>6. from \notin HsBody
  BY DEF HsReading, HsBody
<1>7. /\ hs'[s].pc = to /\ hs'[s].data = data
      /\ \A u \in Side : u # s => hs'[u] = hs[u]
  BY <1>2 DEF Typed
<1>8. \A u \in Side : hs'[u].pc \in HsBody <=> lock[u] = "handshake"
  BY <1>2, <1>6, <1>7 DEF Placed
<1>9. hs'["cli"].pc \in {"respond", "respondBody"} => Len(hs'["cli"].data) = NONCE_SIZE
  BY <1>2, <1>7, Sides DEF Placed, HsBody
<1> QED BY <1>2, <1>5, <1>8, <1>9 DEF Placed

LEMMA HeaderRead ==
  ASSUME Typed, NEW s \in Side, Ready(s, PACKET_HEADER_SIZE)
  PROVE  /\ HeaderOf(s) \in HeaderGW /\ PACKET_HEADER_SIZE = 16
         /\ Part(Taken(s, PACKET_HEADER_SIZE), stream[s], 1, 16)
         /\ Taken(s, PACKET_HEADER_SIZE) \in Seq(Byte)
         /\ Len(Taken(s, PACKET_HEADER_SIZE)) = 16
<1>1. PACKET_HEADER_SIZE = 16 /\ PACKET_HEADER_SIZE \in Nat
  BY DEF PACKET_HEADER_SIZE
<1> DEFINE b == Taken(s, PACKET_HEADER_SIZE)
<1>2. Part(b, stream[s], 1, PACKET_HEADER_SIZE)
  BY <1>1, PullEffect, Zenon DEF Typed
<1> HIDE DEF b
<1>3. b \in Seq(Byte) /\ Len(b) = PACKET_HEADER_SIZE - 1 + 1
  BY <1>2, Zenon DEF Part
<1>4. Len(b) = 16
  BY <1>1, <1>3
<1>5. FromBytes(b) \in HeaderGW
  BY <1>3, <1>4, FromBytesTyping, Zenon
<1> QED BY <1>1, <1>2, <1>3, <1>4, <1>5 DEF HeaderOf, b

LEMMA CodeNames ==
  /\ HsTypes \subseteq DOMAIN Code
  /\ {"Regular", "Pong"} \subseteq DOMAIN Code \ HsTypes
  /\ NoHeader \in HeaderGW
<1>1. HsTypes \subseteq DOMAIN Code /\ {"Regular", "Pong"} \subseteq DOMAIN Code \ HsTypes
  BY DEF Code, HsTypes
<1>2. NoHeader = [type |-> "Regular", id |-> 0, link |-> 0, size |-> 0, flags |-> 0]
  BY DEF NoHeader, Header
<1>3. 0 \in Byte /\ 0 \in Nat
  BY DEF Byte
<1> QED BY <1>1, <1>2, <1>3 DEF HeaderGW

LEMMA CounterTyping ==
  ASSUME Typed, NEW s \in Side
  PROVE  /\ NextPacketId(s) \in Nat
         /\ Numbered(s) => packet_id_counter' \in [Side -> Nat]
<1>1. packet_id_counter \in [Side -> Nat]
  BY DEF Typed
<1>2. NextPacketId(s) \in Nat
  BY <1>1 DEF NextPacketId
<1>3. ASSUME NEW n \in Nat PROVE [packet_id_counter EXCEPT ![s] = n] \in [Side -> Nat]
  BY <1>1
<1> QED BY <1>2, <1>3 DEF Numbered

(* The handshake of the server keeps the types.                            *)
LEMMA ServerHsTyping ==
  ASSUME TypeInv, SendChallenge \/ ReadResponse \/ SendVerdict
  PROVE  TypeInv'
<1>0. Typed
  BY DEF TypeInv
<1> USE Sides, NonceTyping DEF HsPc, HsReading, HsWriting, HsDone, HsBody
<1>1. CASE SendChallenge
  <2>1. CASE /\ HsHeader("srv", "challenge", "nonce", "GwAuthChallenge",
                         NextPacketId("srv"), NONCE_SIZE)
             /\ Numbered("srv")
    <3>1. "GwAuthChallenge" \in DOMAIN Code
      BY CodeNames DEF HsTypes
    <3>2. NextPacketId("srv") \in Nat /\ packet_id_counter' \in [Side -> Nat]
      BY <1>0, <2>1, CounterTyping
    <3>3. "challenge" \notin HsBody /\ "nonce" \in HsBody /\ "nonce" # "respondBody"
      OBVIOUS
    <3> HIDE DEF HsBody
    <3> QED BY <2>1, <3>1, <3>2, <3>3, HsHeaderTyping
  <2>2. CASE HsData("srv", "nonce", "await", Nonce) /\ UNCHANGED conn
    BY <1>0, <2>2, HsDataTyping DEF Typed
  <2> QED BY <1>1, <2>1, <2>2 DEF SendChallenge
<1>2. CASE ReadResponse
  <2>1. CASE HsRead("srv", "await", PACKET_HEADER_SIZE, HeaderOf("srv"), <<>>,
                    IF HeaderOf("srv").type = "GwAuthResponse" THEN "awaitBody"
                                                               ELSE "refused")
    <3>1. Ready("srv", PACKET_HEADER_SIZE)
      BY <2>1 DEF HsRead
    <3>2. HeaderOf("srv") \in HeaderGW /\ PACKET_HEADER_SIZE \in Nat /\ <<>> \in Seq(Byte)
      BY <1>0, <3>1, HeaderRead
    <3> DEFINE h  == HeaderOf("srv")
               to == IF h.type = "GwAuthResponse" THEN "awaitBody" ELSE "refused"
    <3>3. HsRead("srv", "await", PACKET_HEADER_SIZE, h, <<>>, to)
      BY <2>1
    <3>4. to \in HsPc /\ to \notin HsBody /\ to # "respond" /\ "await" \in HsReading
      OBVIOUS
    <3> HIDE DEF to, HsPc, HsBody, HsReading
    <3> QED BY <3>2, <3>3, <3>4, HsReadTyping
  <2>2. CASE LET n == hs["srv"].pkt.size
             IN  HsRead("srv", "awaitBody", n, hs["srv"].pkt, Taken("srv", n),
                        IF VerifyResponse(key["srv"], Nonce, Taken("srv", n))
                          THEN "accept" ELSE "deny")
    <3> DEFINE n == hs["srv"].pkt.size
    <3>1. n \in Nat /\ hs["srv"].pkt \in HeaderGW
      BY <1>0 DEF Typed, HsRec, HeaderGW
    <3>2. Ready("srv", n)
      BY <2>2 DEF HsRead
    <3>3. Part(Taken("srv", n), stream["srv"], 1, n)
      BY <1>0, <3>1, <3>2, PullEffect DEF Typed
    <3>4. Taken("srv", n) \in Seq(Byte)
      BY <3>3 DEF Part
    <3> HIDE DEF n
    <3> QED BY <2>2, <3>1, <3>4, HsReadTyping DEF n
  <2> QED BY <1>2, <2>1, <2>2 DEF ReadResponse
<1>3. CASE SendVerdict
  <2>0. /\ hs["srv"].pkt.id \in Nat /\ "GwConnected" \in DOMAIN Code /\ "GwDeny" \in DOMAIN Code
        /\ packet_id_counter \in [Side -> Nat]
    BY <1>0, CodeNames DEF Typed, HsRec, HeaderGW, HsTypes
  <2>1. VersionData("srv") \in Seq(Byte) /\ Len(VersionData("srv")) \in Nat
    BY <1>0, VersionTyping DEF Typed
  <2>2. CASE /\ HsHeader("srv", "accept", "acceptBody", "GwConnected",
                         hs["srv"].pkt.id, Len(VersionData("srv")))
             /\ UNCHANGED packet_id_counter
    BY <2>0, <2>1, <2>2, HsHeaderTyping
  <2>3. CASE HsData("srv", "acceptBody", "open", VersionData("srv")) /\ UNCHANGED conn
    BY <1>0, <2>1, <2>3, HsDataTyping DEF Typed
  <2>4. CASE /\ HsHeader("srv", "deny", "denyBody", "GwDeny", hs["srv"].pkt.id, 1)
             /\ UNCHANGED packet_id_counter
    BY <2>0, <2>4, HsHeaderTyping
  <2>5. CASE /\ HsData("srv", "denyBody", "refused", <<0>>)
             /\ conn' = IF conn = "up" THEN "closed" ELSE conn
    <3>1. <<0>> \in Seq(Byte)
      BY Tuple1 DEF Byte
    <3> QED BY <1>0, <2>5, <3>1, HsDataTyping DEF Typed
  <2> QED BY <1>3, <2>2, <2>3, <2>4, <2>5 DEF SendVerdict
<1> QED BY <1>1, <1>2, <1>3

(* The handshake of the client keeps the types.                            *)
LEMMA ClientHsTyping ==
  ASSUME TypeInv, ReadChallenge \/ SendResponse \/ ReadVerdict
  PROVE  TypeInv'
<1>0. Typed
  BY DEF TypeInv
<1> USE Sides, NonceTyping DEF HsPc, HsReading, HsWriting, HsDone, HsBody
<1>01. ASSUME NEW n \in Nat, Ready("cli", n)
       PROVE  Taken("cli", n) \in Seq(Byte) /\ Len(Taken("cli", n)) = n
  <2>1. Part(Taken("cli", n), stream["cli"], 1, n)
    BY <1>0, <1>01, PullEffect DEF Typed
  <2> HIDE DEF HsPc, HsReading, HsWriting, HsDone, HsBody
  <2> QED BY <2>1 DEF Part
<1>02. hs["cli"].pkt \in HeaderGW /\ hs["cli"].pkt.size \in Nat
  BY <1>0 DEF Typed, HsRec, HeaderGW
<1>03. <<>> \in Seq(Byte) /\ PACKET_HEADER_SIZE \in Nat /\ 12 \in Nat
  BY DEF PACKET_HEADER_SIZE
<1>04. Ready("cli", PACKET_HEADER_SIZE) => HeaderOf("cli") \in HeaderGW
  BY <1>0, HeaderRead
<1>1. CASE ReadChallenge
  <2> DEFINE p  == HeaderOf("cli")
             to == IF p.type = "GwAuthChallenge" /\ p.size = NONCE_SIZE
                     THEN "waitBody" ELSE "refused"
  <2>1. CASE HsRead("cli", "wait", PACKET_HEADER_SIZE, p, <<>>, to)
    <3>1. p \in HeaderGW
      BY <1>04, <2>1 DEF HsRead
    <3>2. to \in HsPc /\ to \notin HsBody /\ to # "respond" /\ "wait" \in HsReading
      OBVIOUS
    <3> HIDE DEF p, to, HsPc, HsBody, HsReading
    <3> QED BY <1>03, <2>1, <3>1, <3>2, HsReadTyping
  <2>2. CASE HsRead("cli", "waitBody", NONCE_SIZE, hs["cli"].pkt,
                    Taken("cli", NONCE_SIZE), "respond")
    <3> DEFINE d == Taken("cli", NONCE_SIZE)
    <3>1. d \in Seq(Byte) /\ Len(d) = NONCE_SIZE
      BY <1>01, <2>2 DEF HsRead
    <3>2. "respond" \in HsPc /\ "respond" \notin HsBody /\ "waitBody" \in HsReading
      OBVIOUS
    <3>3. HsRead("cli", "waitBody", NONCE_SIZE, hs["cli"].pkt, d, "respond")
      BY <2>2
    <3> HIDE DEF d, HsPc, HsBody, HsReading
    <3> QED BY <1>02, <3>1, <3>2, <3>3, HsReadTyping
  <2> QED BY <1>1, <2>1, <2>2 DEF ReadChallenge
<1>2. CASE SendResponse
  <2>1. CASE /\ HsHeader("cli", "respond", "respondBody", "GwAuthResponse",
                         NextPacketId("cli"), RESPONSE_SIZE)
             /\ Numbered("cli")
    <3>1. "GwAuthResponse" \in DOMAIN Code
      BY CodeNames DEF HsTypes
    <3>2. NextPacketId("cli") \in Nat /\ packet_id_counter' \in [Side -> Nat]
      BY <1>0, <2>1, CounterTyping
    <3>3. "respond" \notin HsBody /\ "respondBody" \in HsBody
      OBVIOUS
    <3> HIDE DEF HsBody
    <3> QED BY <2>1, <3>1, <3>2, <3>3, HsHeaderTyping
  <2>2. CASE /\ HsData("cli", "respondBody", "result",
                       ComputeResponse(key["cli"], hs["cli"].data))
             /\ UNCHANGED conn
    <3> DEFINE d == hs["cli"].data
    <3>1. d \in Seq(Byte) /\ key["cli"] \in Byte
      BY <1>0 DEF Typed, HsRec
    <3>2. Len(d) # 0
      BY <2>2 DEF HsData, TypeInv, Placed
    <3> HIDE DEF d
    <3>3. ComputeResponse(key["cli"], d) \in Seq(Byte)
      BY <3>1, <3>2, ResponseTyping, Zenon
    <3> QED BY <1>0, <2>2, <3>3, HsDataTyping DEF Typed, d
  <2> QED BY <1>2, <2>1, <2>2 DEF SendResponse
<1>3. CASE ReadVerdict
  <2> DEFINE p  == HeaderOf("cli")
             to == CASE p.type = "GwConnected" /\ p.size >= 12 -> "version"
                     [] p.type = "GwConnected" /\ p.size < 12  -> "open"
                     [] p.type = "GwDeny" /\ p.size > 0        -> "reason"
                     [] OTHER -> "refused"
             fit == IF VersionFits("cli", Taken("cli", 12)) THEN "open" ELSE "refused"
  <2>1. CASE HsRead("cli", "result", PACKET_HEADER_SIZE, p, <<>>, to)
    <3>1. p \in HeaderGW
      BY <1>04, <2>1 DEF HsRead
    <3>2. p.size \in Nat
      BY <3>1 DEF HeaderGW
    <3>3. to \in {"version", "open", "reason", "refused"}
      <4> HIDE DEF p
      <4> QED BY <3>2
    <3>4. to \in HsPc /\ to \notin HsBody /\ to # "respond" /\ "result" \in HsReading
      <4> HIDE DEF to
      <4> QED BY <3>3
    <3> HIDE DEF p, to, HsPc, HsBody, HsReading
    <3> QED BY <1>03, <2>1, <3>1, <3>4, HsReadTyping
  <2>2. CASE HsRead("cli", "version", 12, NoHeader, <<>>, fit)
    <3>1. fit \in HsPc /\ fit \notin HsBody /\ fit # "respond" /\ "version" \in HsReading
      OBVIOUS
    <3> HIDE DEF fit, HsPc, HsBody, HsReading
    <3> QED BY <1>03, <2>2, <3>1, HsReadTyping, CodeNames
  <2>3. CASE HsRead("cli", "reason", hs["cli"].pkt.size, NoHeader, <<>>, "refused")
    <3>1. /\ "refused" \in HsPc /\ "refused" \notin HsBody /\ "refused" # "respond"
          /\ "reason" \in HsReading
      OBVIOUS
    <3> HIDE DEF HsPc, HsBody, HsReading
    <3> QED BY <1>02, <1>03, <2>3, <3>1, HsReadTyping, CodeNames
  <2> QED BY <1>3, <2>1, <2>2, <2>3 DEF ReadVerdict
<1> QED BY <1>1, <1>2, <1>3

LEMMA HsEndTyping ==
  ASSUME TypeInv, ResponseTimeout \/ \E s \in Side : HsFail(s)
  PROVE  TypeInv'
<1> USE DEF TypeInv
<1>1. CASE ResponseTimeout
  <2>1. /\ hs["srv"].pc \in {"await", "awaitBody"}
        /\ hs' = [hs EXCEPT !["srv"].pc = "refused"]
        /\ conn' \in {"up", "silent", "closed"}
        /\ UNCHANGED <<stream, lock, key, major, packet_id_counter, snd, rdr, sent>>
    BY <1>1 DEF ResponseTimeout, Typed, config
  <2>2. /\ hs' \in [Side -> HsRec] /\ hs'["srv"].pc = "refused" /\ hs'["cli"] = hs["cli"]
    <3>1. hs \in [Side -> HsRec] /\ "srv" \in Side /\ "cli" \in Side
      BY Sides DEF Typed
    <3>2. "refused" \in HsPc
      BY DEF HsPc, HsDone
    <3> QED BY <2>1, <3>1, <3>2 DEF HsRec
  <2>3. Typed'
    BY <2>1, <2>2 DEF Typed
  <2>4. \A s \in Side : hs'[s].pc \in HsBody <=> lock[s] = "handshake"
    BY <2>1, <2>2, Sides DEF Placed, HsBody, Other
  <2> QED BY <2>1, <2>2, <2>3, <2>4 DEF Placed
<1>2. ASSUME NEW s \in Side, HsFail(s) PROVE TypeInv'
  <2>1. /\ hs' = [hs EXCEPT ![s].pc = "refused"]
        /\ lock' = [lock EXCEPT ![s] = IF @ = "handshake" THEN Free ELSE @]
        /\ UNCHANGED <<conn, stream, key, major, packet_id_counter, snd, rdr, sent>>
    BY <1>2 DEF HsFail, config
  <2>2. /\ hs' \in [Side -> HsRec] /\ hs'[s].pc = "refused"
        /\ \A u \in Side : u # s => hs'[u] = hs[u] /\ lock'[u] = lock[u]
        /\ lock'[s] = IF lock[s] = "handshake" THEN Free ELSE lock[s]
        /\ lock' \in [Side -> Tasks \cup {Free, "handshake"}]
    BY <2>1 DEF Typed, HsRec, HsPc, HsDone
  <2>3. Typed'
    BY <2>1, <2>2 DEF Typed
  <2>4. \A u \in Side : hs'[u].pc \in HsBody <=> lock'[u] = "handshake"
    BY <2>2, LockNames DEF Placed, HsBody
  <2>5. \A t \in Tasks : snd[t].pc = "data" <=> lock'[SideOf[t]] = t
    BY <2>2, LockNames DEF Placed
  <2>6. hs'["cli"].pc \in {"respond", "respondBody"} => Len(hs'["cli"].data) = NONCE_SIZE
    BY <2>2, Sides DEF Placed
  <2> QED BY <2>1, <2>3, <2>4, <2>5, <2>6 DEF Placed
<1> QED BY <1>1, <1>2

LEMMA CurrentTyping ==
  ASSUME Typed, NEW t \in Tasks, snd[t].todo # <<>>
  PROVE  /\ Head(snd[t].todo) \in Payload /\ Tail(snd[t].todo) \in Seq(Payload)
         /\ snd[t].id \in Nat
         /\ FrameOf(Current(t), Head(snd[t].todo), snd[t].id)
<1> DEFINE q == snd[t].todo
<1>1. q \in Seq(Payload) /\ snd[t].id \in Nat
  BY DEF Typed, SndRec
<1> HIDE DEF q
<1>2. q # <<>>
  BY DEF q
<1>3. Head(q) \in Payload /\ Tail(q) \in Seq(Payload)
  BY <1>1, <1>2
<1>4. FrameOf(Framed(Head(q), snd[t].id), Head(q), snd[t].id)
  BY <1>1, <1>3, Framing, Zenon
<1> QED BY <1>1, <1>3, <1>4, Zenon DEF q, Current

(* A sending task keeps the types.                                         *)
LEMMA SendTyping ==
  ASSUME TypeInv, NEW t \in Tasks, SendStep(t)
  PROVE  TypeInv'
<1> USE DEF TypeInv
<1> DEFINE s == SideOf[t]
<1>0. /\ s \in Side /\ snd \in [Tasks -> SndRec] /\ snd[t].pc \in SndPc
      /\ snd[t].todo \in Seq(Payload) /\ snd[t].id \in Nat
      /\ lock \in [Side -> Tasks \cup {Free, "handshake"}]
  BY LockNames DEF Typed, SndRec
<1> HIDE DEF s
<1>1. CASE TakeNumber(t)
  <2>1. /\ snd[t].pc = "idle" /\ snd[t].todo # <<>> /\ Numbered(s)
        /\ snd' = [snd EXCEPT ![t].pc = "header", ![t].id = NextPacketId(s)]
        /\ UNCHANGED <<conn, stream, lock, key, major, hs, rdr, sent>>
    BY <1>1 DEF TakeNumber, config, s
  <2>2. packet_id_counter' \in [Side -> Nat] /\ NextPacketId(s) \in Nat
    BY <1>0, <2>1, CounterTyping
  <2>3. /\ snd' \in [Tasks -> SndRec] /\ snd'[t].pc = "header"
        /\ snd'[t].todo = snd[t].todo /\ \A u \in Tasks : u # t => snd'[u] = snd[u]
    BY <1>0, <2>1, <2>2 DEF SndRec, SndPc
  <2>4. Typed'
    BY <2>1, <2>2, <2>3 DEF Typed
  <2> QED BY <2>1, <2>3, <2>4 DEF Placed
<1>2. CASE WriteHeader(t)
  <2>1. /\ snd[t].pc = "header" /\ lock[s] = Free /\ Push(s, ToBytes(Current(t).head))
        /\ IF Current(t).data = <<>>
             THEN snd' = [snd EXCEPT ![t].pc = "count"] /\ lock' = lock
             ELSE snd' = [snd EXCEPT ![t].pc = "data"] /\ lock' = [lock EXCEPT ![s] = t]
        /\ sent' = [sent EXCEPT ![s] =
                      Append(@, [id |-> snd[t].id, pkt |-> Head(snd[t].todo)])]
        /\ UNCHANGED <<conn, key, major, packet_id_counter, hs, rdr>>
    BY <1>2 DEF WriteHeader, config, s
  <2>2. snd[t].todo # <<>>
    BY <2>1 DEF Placed
  <2>3. Head(snd[t].todo) \in Payload /\ FrameOf(Current(t), Head(snd[t].todo), snd[t].id)
    BY <2>2, CurrentTyping
  <2>4. Current(t).head \in HeaderGW
    BY <2>3, Zenon DEF FrameOf
  <2>5. stream' \in Bytes
    <3>1. ToBytes(Current(t).head) \in Seq(Byte)
      BY <2>4, HeaderBytes, Zenon
    <3> QED BY <1>0, <2>1, <3>1, PushEffect, Zenon DEF Typed
  <2>6. sent' \in [Side -> Seq(SentRec)]
    <3>1. [id |-> snd[t].id, pkt |-> Head(snd[t].todo)] \in SentRec
      BY <1>0, <2>3 DEF SentRec
    <3>2. sent \in [Side -> Seq(SentRec)]
      BY DEF Typed
    <3>3. \A x \in SentRec : Append(sent[s], x) \in Seq(SentRec)
      BY <1>0, <3>2
    <3> HIDE DEF SentRec
    <3> QED BY <1>0, <2>1, <3>1, <3>2, <3>3
  <2>7. CASE snd' = [snd EXCEPT ![t].pc = "count"] /\ lock' = lock
    <3>1. /\ snd' \in [Tasks -> SndRec] /\ snd'[t].pc = "count"
          /\ snd'[t].todo = snd[t].todo /\ \A u \in Tasks : u # t => snd'[u] = snd[u]
      BY <1>0, <2>7 DEF SndRec, SndPc
    <3>2. Typed'
      BY <2>1, <2>5, <2>6, <2>7, <3>1 DEF Typed
    <3> QED BY <2>1, <2>2, <2>7, <3>1, <3>2 DEF Placed
  <2>8. CASE snd' = [snd EXCEPT ![t].pc = "data"] /\ lock' = [lock EXCEPT ![s] = t]
    <3>1. /\ snd' \in [Tasks -> SndRec] /\ snd'[t].pc = "data"
          /\ snd'[t].todo = snd[t].todo /\ \A u \in Tasks : u # t => snd'[u] = snd[u]
      BY <1>0, <2>8 DEF SndRec, SndPc
    <3>2. /\ lock' \in [Side -> Tasks \cup {Free, "handshake"}]
          /\ lock'[s] = t /\ \A u \in Side : u # s => lock'[u] = lock[u]
      BY <1>0, <2>8
    <3>3. Typed'
      BY <2>1, <2>5, <2>6, <3>1, <3>2 DEF Typed
    <3>4. \A u \in Tasks : snd'[u].pc = "data" <=> lock'[SideOf[u]] = u
      BY <2>1, <3>1, <3>2, LockNames DEF Placed, s
    <3>5. \A u \in Side : hs'[u].pc \in HsBody <=> lock'[u] = "handshake"
      BY <2>1, <3>2, LockNames DEF Placed
    <3> QED BY <2>1, <2>2, <3>1, <3>3, <3>4, <3>5 DEF Placed
  <2> QED BY <2>1, <2>7, <2>8
<1>3. CASE WriteData(t)
  <2>1. /\ snd[t].pc = "data" /\ Push(s, Current(t).data)
        /\ snd' = [snd EXCEPT ![t].pc = "count"] /\ lock' = [lock EXCEPT ![s] = Free]
        /\ UNCHANGED <<conn, key, major, packet_id_counter, hs, rdr, sent>>
    BY <1>3 DEF WriteData, config, s
  <2>2. snd[t].todo # <<>> /\ lock[s] = t
    BY <2>1 DEF Placed, s
  <2>3. Current(t).data \in Seq(Byte)
    BY <2>2, CurrentTyping DEF FrameOf
  <2>4. stream' \in Bytes
    BY <1>0, <2>1, <2>3, PushEffect, Zenon DEF Typed
  <2>5. /\ snd' \in [Tasks -> SndRec] /\ snd'[t].pc = "count"
        /\ snd'[t].todo = snd[t].todo /\ \A u \in Tasks : u # t => snd'[u] = snd[u]
        /\ lock' \in [Side -> Tasks \cup {Free, "handshake"}]
        /\ lock'[s] = Free /\ \A u \in Side : u # s => lock'[u] = lock[u]
    BY <1>0, <2>1 DEF SndRec, SndPc
  <2>6. Typed'
    BY <2>1, <2>4, <2>5 DEF Typed
  <2>7. \A u \in Tasks : snd'[u].pc = "data" <=> lock'[SideOf[u]] = u
    BY <2>2, <2>5, LockNames DEF Placed, s
  <2>8. \A u \in Side : hs'[u].pc \in HsBody <=> lock'[u] = "handshake"
    BY <2>1, <2>2, <2>5, LockNames DEF Placed
  <2> QED BY <2>1, <2>2, <2>5, <2>6, <2>7, <2>8 DEF Placed
<1>4. CASE WriteFail(t)
  <2>1. /\ snd[t].pc \in {"header", "data"}
        /\ lock' = [lock EXCEPT ![s] = IF @ = t THEN Free ELSE @]
        /\ snd' = [snd EXCEPT ![t].pc   = IF t = Loop[SideOf[t]] THEN "idle" ELSE "failed",
                              ![t].todo = Tail(@)]
        /\ UNCHANGED <<conn, stream, key, major, packet_id_counter, hs, rdr, sent>>
    BY <1>4 DEF WriteFail, GiveUp, config, s
  <2>2. Tail(snd[t].todo) \in Seq(Payload)
    BY <2>1, CurrentTyping DEF Placed
  <2>3. /\ snd' \in [Tasks -> SndRec] /\ snd'[t].pc \in {"idle", "failed"}
        /\ \A u \in Tasks : u # t => snd'[u] = snd[u]
    BY <1>0, <2>1, <2>2 DEF SndRec, SndPc
  <2>4. /\ lock' \in [Side -> Tasks \cup {Free, "handshake"}]
        /\ lock'[s] = (IF lock[s] = t THEN Free ELSE lock[s])
        /\ \A u \in Side : u # s => lock'[u] = lock[u]
    BY <1>0, <2>1
  <2>5. Typed'
    BY <2>1, <2>3, <2>4 DEF Typed
  <2>6. \A u \in Tasks : snd'[u].pc = "data" <=> lock'[SideOf[u]] = u
    BY <2>3, <2>4, LockNames DEF Placed, s
  <2>7. \A u \in Side : hs'[u].pc \in HsBody <=> lock'[u] = "handshake"
    BY <2>1, <2>4, LockNames DEF Placed
  <2> QED BY <2>1, <2>3, <2>5, <2>6, <2>7 DEF Placed
<1>5. CASE CountSent(t)
  <2>1. /\ snd[t].pc = "count"
        /\ snd' = [snd EXCEPT ![t].pc = "idle", ![t].todo = Tail(@)]
        /\ UNCHANGED <<conn, stream, lock, key, major, packet_id_counter, hs, rdr, sent>>
    BY <1>5 DEF CountSent, config
  <2>2. Tail(snd[t].todo) \in Seq(Payload)
    BY <2>1, CurrentTyping DEF Placed
  <2>3. /\ snd' \in [Tasks -> SndRec] /\ snd'[t].pc = "idle"
        /\ \A u \in Tasks : u # t => snd'[u] = snd[u]
    BY <1>0, <2>1, <2>2 DEF SndRec, SndPc
  <2>4. Typed'
    BY <2>1, <2>3 DEF Typed
  <2> QED BY <2>1, <2>3, <2>4 DEF Placed
<1> QED BY <1>1, <1>2, <1>3, <1>4, <1>5 DEF SendStep

LEMMA PongPayload == [type |-> "Pong", link |-> 0, data |-> <<>>] \in Payload
<1> DEFINE p == [type |-> "Pong", link |-> 0, data |-> <<>>]
<1>1. 0 \in U16
  BY Limits, 0 <= BUFFER_SIZE DEF BUFFER_SIZE
<1>2. "Pong" \in DOMAIN Code \ HsTypes /\ <<>> \in Seq(Byte)
  BY CodeNames
<1>3. p \in [type : DOMAIN Code \ HsTypes, link : U16, data : Seq(Byte)]
  BY <1>1, <1>2
<1>4. Len(p.data) <= BUFFER_SIZE
  <2>1. Len(p.data) = 0
    OBVIOUS
  <2> QED BY <2>1, SMT DEF BUFFER_SIZE
<1> QED BY <1>3, <1>4, Zenon DEF Payload

(* What the exchange loop does with a packet concerns only what it has to  *)
(* send itself.                                                            *)
LEMMA ReturnEffect ==
  ASSUME TypeInv, NEW s \in Side, NEW p, NEW d, Return(s, p, d)
  PROVE  /\ snd' \in [Tasks -> SndRec]
         /\ \A t \in Tasks : /\ snd'[t].pc = snd[t].pc /\ snd'[t].id = snd[t].id
                             /\ snd[t].todo # <<>> =>
                                  /\ snd'[t].todo # <<>>
                                  /\ Head(snd'[t].todo) = Head(snd[t].todo)
<1>0. snd \in [Tasks -> SndRec]
  BY DEF TypeInv, Typed
<1>1. CASE snd' = snd
  BY <1>0, <1>1
<1>2. CASE p.type = "Ping"
  <2> DEFINE l == Loop[s]
             pong == [type |-> "Pong", link |-> 0, data |-> <<>>]
  <2>1. l \in Tasks
    BY LoopAssumption
  <2>2. snd' = [snd EXCEPT ![l].todo = Append(@, pong)]
    BY <1>2 DEF Return
  <2>3. pong \in Payload
    BY PongPayload
  <2> HIDE DEF l, pong
  <2> DEFINE q == snd[l].todo
             r == Append(q, pong)
  <2>4. q \in Seq(Payload)
    BY <1>0, <2>1 DEF SndRec
  <2>5. snd' = [snd EXCEPT ![l].todo = r]
    BY <2>2
  <2> HIDE DEF q
  <2>6. r \in Seq(Payload) /\ r # <<>> /\ (q # <<>> => Head(r) = Head(q))
    <3>1. /\ r \in Seq(Payload) /\ r # <<>>
          /\ Len(r) = Len(q) + 1 /\ \A i \in 1 .. Len(q) : r[i] = q[i]
      BY <2>3, <2>4, AppendProperties
    <3> HIDE DEF r
    <3>2. ASSUME q # <<>> PROVE Head(r) = Head(q)
      <4>1. Len(q) \in Nat /\ Len(q) # 0
        BY <2>4, <3>2
      <4>2. r[1] = q[1]
        BY <3>1, <4>1
      <4> QED BY <2>4, <3>1, <3>2, <4>2
    <3> QED BY <3>1, <3>2
  <2> HIDE DEF r
  <2>7. /\ snd' \in [Tasks -> SndRec] /\ snd'[l].pc = snd[l].pc /\ snd'[l].id = snd[l].id
        /\ snd'[l].todo = r /\ \A t \in Tasks : t # l => snd'[t] = snd[t]
    BY <1>0, <2>1, <2>5, <2>6 DEF SndRec
  <2> QED BY <2>6, <2>7 DEF q
<1> QED BY <1>1, <1>2 DEF Return

(* read_gw_packet keeps the types.                                         *)
LEMMA ReadTyping ==
  ASSUME TypeInv, NEW s \in Side, ReadStep(s)
  PROVE  TypeInv'
<1> USE DEF TypeInv
<1>0. rdr \in [Side -> RdrRec]
  BY DEF Typed
<1>1. ASSUME snd' \in [Tasks -> SndRec], rdr' \in [Side -> RdrRec], stream' \in Bytes,
             \A t \in Tasks : /\ snd'[t].pc = snd[t].pc
                              /\ snd[t].todo # <<>> => snd'[t].todo # <<>>,
             UNCHANGED <<conn, lock, key, major, packet_id_counter, hs, sent>>
      PROVE  TypeInv'
  <2>1. Typed'
    BY <1>1 DEF Typed
  <2>2. Placed'
    BY <1>1 DEF Placed
  <2> QED BY <2>1, <2>2
<1>2. CASE ReadHeader(s)
  <2> DEFINE p == HeaderOf(s)
  <2>1. /\ Ready(s, PACKET_HEADER_SIZE) /\ Pull(s, PACKET_HEADER_SIZE)
        /\ IF p.size = 0
             THEN Return(s, p, <<>>) /\ rdr' = rdr
             ELSE rdr' = [rdr EXCEPT ![s] = [pc |-> "data", pkt |-> p]] /\ snd' = snd
        /\ UNCHANGED <<conn, lock, key, major, packet_id_counter, hs, sent>>
    BY <1>2 DEF ReadHeader, config
  <2>2. p \in HeaderGW /\ PACKET_HEADER_SIZE \in Nat
    BY <2>1, HeaderRead
  <2>3. stream' \in Bytes
    BY <2>1, <2>2, PullEffect, Zenon DEF Typed
  <2> HIDE DEF p
  <2>4. CASE Return(s, p, <<>>) /\ rdr' = rdr
    BY <1>0, <1>1, <2>1, <2>3, <2>4, ReturnEffect
  <2>5. CASE rdr' = [rdr EXCEPT ![s] = [pc |-> "data", pkt |-> p]] /\ snd' = snd
    <3>1. rdr' \in [Side -> RdrRec]
      BY <1>0, <2>2, <2>5 DEF RdrRec
    <3>2. snd' \in [Tasks -> SndRec]
      BY <2>5 DEF Typed
    <3> QED BY <1>1, <2>1, <2>3, <2>5, <3>1, <3>2
  <2> QED BY <2>1, <2>4, <2>5
<1>3. CASE ReadData(s)
  <2> DEFINE p == rdr[s].pkt
             d == DecompressData(Taken(s, p.size), IsCompressed(p))
  <2>1. /\ Ready(s, p.size) /\ Pull(s, p.size) /\ Return(s, p, d)
        /\ rdr' = [rdr EXCEPT ![s] = [pc |-> "header", pkt |-> NoHeader]]
        /\ UNCHANGED <<conn, lock, key, major, packet_id_counter, hs, sent>>
    BY <1>3 DEF ReadData, config
  <2>2. p.size \in Nat
    BY <1>0 DEF RdrRec, HeaderGW
  <2> HIDE DEF p, d
  <2>3. stream' \in Bytes
    BY <2>1, <2>2, PullEffect, Zenon DEF Typed
  <2>4. rdr' \in [Side -> RdrRec]
    BY <1>0, <2>1, CodeNames DEF RdrRec
  <2> QED BY <1>1, <2>1, <2>3, <2>4, ReturnEffect
<1>4. CASE ReadFail(s)
  <2>1. /\ rdr' = [rdr EXCEPT ![s].pc = "ended"]
        /\ UNCHANGED <<conn, stream, lock, key, major, packet_id_counter, hs, snd, sent>>
    BY <1>4 DEF ReadFail, config
  <2>2. rdr' \in [Side -> RdrRec]
    BY <1>0, <2>1 DEF RdrRec
  <2>3. snd' \in [Tasks -> SndRec] /\ stream' \in Bytes
    BY <2>1 DEF Typed
  <2> QED BY <1>1, <2>1, <2>2, <2>3
<1> QED BY <1>2, <1>3, <1>4 DEF ReadStep

LEMMA FaultTyping ==
  ASSUME TypeInv, Fault
  PROVE  TypeInv'
<1>1. /\ conn' \in {"closed", "silent"}
      /\ UNCHANGED <<lock, key, major, packet_id_counter, hs, snd, rdr, sent>>
  BY DEF Fault, config
<1>2. stream' \in Bytes
  BY CutEffect DEF Fault, TypeInv, Typed
<1>3. Typed'
  BY <1>1, <1>2 DEF TypeInv, Typed
<1> QED BY <1>1, <1>3 DEF TypeInv, Placed

LEMMA TypeInit == Init => TypeInv
<1> SUFFICES ASSUME Init PROVE TypeInv
  OBVIOUS
<1> USE DEF Init
<1>1. <<>> \in Seq(Byte) /\ <<>> \in Seq(SentRec)
  OBVIOUS
<1>2. stream \in Bytes /\ sent \in [Side -> Seq(SentRec)]
  BY <1>1 DEF Bytes
<1>3. key \in [Side -> Byte] /\ major \in [Side -> Nat]
  BY ConfigAssumption
<1>4. \A s \in Side : Fits32(major[s])
  <2>1. ASSUME NEW s \in Side PROVE Fits32(major[s])
    <3>1. major[s] \in Nat /\ (major[s] \div 256) \div 256 \in U16
      BY <1>3, ConfigAssumption
    <3>2. Cut2(major[s]) \in U16
      BY <3>1 DEF Cut1, Cut2
    <3> QED BY <3>1, <3>2, Limits DEF Fits16, Fits32, Cut1, Cut3
  <2> QED BY <2>1
<1>5. hs \in [Side -> HsRec]
  BY <1>1, CodeNames DEF HsRec, HsPc, HsReading, HsWriting
<1>6. snd \in [Tasks -> SndRec] /\ \A t \in Tasks : snd[t].pc = "idle"
  <2>1. PICK script \in Scripts :
          snd = [t \in Tasks |-> [pc |-> "idle", id |-> 0, todo |-> script[t]]]
    BY Zenon
  <2>2. script \in [Tasks -> Seq(Payload)]
    BY ScriptsAssumption
  <2> QED BY <2>1, <2>2 DEF SndRec, SndPc
<1>7. rdr \in [Side -> RdrRec]
  BY CodeNames DEF RdrRec
<1>8. Typed
  BY <1>2, <1>3, <1>4, <1>5, <1>6, <1>7 DEF Typed
<1>9. \A s \in Side : hs[s].pc \notin HsBody \cup {"respond", "respondBody"} /\ lock[s] = Free
  BY DEF HsBody
<1> QED BY <1>6, <1>8, <1>9, LockNames, Sides DEF TypeInv, Placed

LEMMA TypeNext == TypeInv /\ [Next]_vars => TypeInv'
<1> SUFFICES ASSUME TypeInv, [Next]_vars PROVE TypeInv'
  OBVIOUS
<1>1. CASE UNCHANGED vars
  BY <1>1 DEF vars, config, TypeInv, Typed, Placed
<1>2. CASE Next
  BY <1>2, ServerHsTyping, ClientHsTyping, HsEndTyping, SendTyping, ReadTyping, FaultTyping
  DEF Next, HandshakeStep
<1> QED BY <1>1, <1>2

LEMMA TypeAlways == Spec => []TypeInv
BY TypeInit, TypeNext, PTL DEF Spec

(* Every variable keeps its type: only bytes travel, whatever is sent and  *)
(* however it is cut, the sizes fit the header, and a task has the         *)
(* writer's mutex only between its two pieces.                             *)
THEOREM ChannelTypeCorrect == Spec => []TypeOK
<1>1. TypeInv => TypeOK
  <2> SUFFICES ASSUME TypeInv PROVE TypeOK
    OBVIOUS
  <2>0. Typed /\ Placed
    BY DEF TypeInv
  <2>1. conn \in {"up", "silent", "closed"}
    BY <2>0 DEF Typed
  <2>2. ASSUME NEW s \in Side
        PROVE  /\ \A i \in 1 .. Len(stream[s]) : stream[s][i] \in Byte
               /\ lock[s] \in Tasks \cup {Free, "handshake"}
               /\ hs[s].pc \in HsReading \cup HsWriting \cup HsDone
               /\ rdr[s].pc \in {"header", "data", "ended"}
    <3>1. stream[s] \in Seq(Byte)
      BY <2>0 DEF Typed, Bytes
    <3>2. \A i \in 1 .. Len(stream[s]) : stream[s][i] \in Byte
      BY <3>1, BytesNat, Zenon
    <3> QED BY <2>0, <3>2 DEF Typed, HsRec, RdrRec, HsPc
  <2>3. ASSUME NEW t \in Tasks
        PROVE  /\ snd[t].pc \in SndPc
               /\ snd[t].pc = "header" => Current(t).head.size \in U16
               /\ lock[SideOf[t]] = t => snd[t].pc = "data"
    <3>1. ASSUME snd[t].pc = "header" PROVE Current(t).head.size \in U16
      <4>1. snd[t].todo # <<>>
        BY <2>0, <3>1 DEF Placed
      <4>2. FrameOf(Current(t), Head(snd[t].todo), snd[t].id)
        BY <2>0, <4>1, CurrentTyping, SMTT(30)
      <4> QED BY <4>2, Zenon DEF FrameOf
    <3> QED BY <2>0, <3>1 DEF Typed, Placed, SndRec
  <2> QED BY <2>1, <2>2, <2>3, Zenon DEF TypeOK, SndPc
<1> QED BY <1>1, TypeAlways, PTL

-----------------------------------------------------------------------------
(* The buffers of the pool. *)

(* A gateway has a buffer out of its pool only while read_gw_packet waits  *)
(* for data, and then exactly one.                                         *)
PoolInv ==
  /\ pool \in [Side -> Nat]
  /\ \A s \in Side : pool[s] = IF rdr[s].pc = "data" THEN PoolSize - 1 ELSE PoolSize

(* Neither the handshake nor the connection concerns the tasks that send   *)
(* and read; the handshake takes numbers from the same counter.            *)
LEMMA OutsideSteps ==
  ASSUME \/ \E s \in Side : HandshakeStep(s)
         \/ ResponseTimeout \/ Fault
  PROVE  /\ UNCHANGED <<snd, rdr, pool, sent, received>>
         /\ packet_id_counter' = packet_id_counter \/ \E u \in Side : Numbered(u)
BY Sides DEF HandshakeStep, SendChallenge, ReadResponse, SendVerdict, ReadChallenge,
   SendResponse, ReadVerdict, HsFail, HsHeader, HsData, HsRead, ResponseTimeout, Fault,
   config, count

LEMMA PoolNext ==
  ASSUME TypeInv, PoolInv, [Next]_vars
  PROVE  PoolInv'
<1> USE DEF PoolInv
<1>0. rdr \in [Side -> RdrRec] /\ PoolSize \in Nat /\ PoolSize > 0
  BY PoolAssumption DEF TypeInv, Typed
<1>1. CASE UNCHANGED <<rdr, pool>>
  BY <1>1
<1>2. ASSUME NEW s \in Side, ReadHeader(s) PROVE PoolInv'
  <2>1. CASE UNCHANGED <<rdr, pool>>
    BY <1>1, <2>1
  <2>2. CASE rdr' = [rdr EXCEPT ![s] = [pc |-> "data", pkt |-> HeaderOf(s)]] /\ Acquire(s)
    <3>1. rdr[s].pc = "header"
      BY <1>2 DEF ReadHeader
    <3>2. pool[s] = PoolSize
      BY <3>1
    <3>3. pool' = [pool EXCEPT ![s] = PoolSize - 1]
      BY <1>0, <2>2, <3>2 DEF Acquire
    <3> QED BY <1>0, <2>2, <3>3
  <2> QED BY <1>2, <2>1, <2>2 DEF ReadHeader
<1>3. ASSUME NEW s \in Side, rdr[s].pc = "data", Release(s), rdr'[s].pc # "data",
             \A u \in Side : u # s => rdr'[u] = rdr[u]
      PROVE  PoolInv'
  <2>1. pool[s] = PoolSize - 1
    BY <1>3
  <2>2. (IF pool[s] < PoolSize THEN pool[s] + 1 ELSE pool[s]) = PoolSize
    BY <1>0, <2>1
  <2>3. pool' = [pool EXCEPT ![s] = PoolSize]
    BY <1>3, <2>2, Zenon DEF Release
  <2> QED BY <1>0, <1>3, <2>3
<1>4. ASSUME NEW s \in Side, ReadData(s) PROVE PoolInv'
  <2>1. /\ rdr[s].pc = "data" /\ Release(s)
        /\ rdr' = [rdr EXCEPT ![s] = [pc |-> "header", pkt |-> NoHeader]]
    BY <1>4 DEF ReadData
  <2>2. rdr'[s].pc = "header" /\ \A u \in Side : u # s => rdr'[u] = rdr[u]
    BY <1>0, <2>1
  <2> QED BY <1>3, <2>1, <2>2
<1>5. ASSUME NEW s \in Side, ReadFail(s) PROVE PoolInv'
  <2>1. rdr' = [rdr EXCEPT ![s].pc = "ended"]
    BY <1>5 DEF ReadFail
  <2>2. rdr'[s].pc = "ended" /\ \A u \in Side : u # s => rdr'[u] = rdr[u]
    BY <1>0, <2>1 DEF RdrRec
  <2>3. CASE rdr[s].pc = "data"
    BY <1>3, <1>5, <2>2, <2>3 DEF ReadFail
  <2>4. CASE rdr[s].pc # "data"
    BY <1>0, <1>5, <2>2, <2>4 DEF ReadFail
  <2> QED BY <2>3, <2>4
<1>6. ASSUME NEW t \in Tasks, SendStep(t) PROVE UNCHANGED <<rdr, pool>>
  BY <1>6 DEF SendStep, TakeNumber, WriteHeader, WriteData, WriteFail, CountSent, count
<1>7. CASE UNCHANGED vars
  BY <1>1, <1>7 DEF vars, count
<1> QED BY <1>1, <1>2, <1>4, <1>5, <1>6, <1>7, OutsideSteps DEF Next, ReadStep

(* Every buffer is back in the pool when no read is under way, however the *)
(* read ended: the PooledBuffer of read_gw_packet returns with the packet  *)
(* and with the error, and no pool ever runs empty.                        *)
THEOREM BuffersReturnTheorem == Spec => []BuffersReturn
<1>1. Init => PoolInv
  BY PoolAssumption DEF Init, PoolInv
<1>2. TypeInv /\ PoolInv /\ [Next]_vars => PoolInv'
  BY PoolNext
<1>3. PoolInv => BuffersReturn
  BY DEF PoolInv, BuffersReturn
<1> QED BY <1>1, <1>2, <1>3, TypeAlways, PTL DEF Spec

-----------------------------------------------------------------------------
(* The numbers of the packets. *)

(* The number of a packet that waits for the writer is not used by another *)
(* packet, and none is beyond the counter.                                 *)
Numbers ==
  /\ \A t \in Tasks : snd[t].pc = "header" =>
       /\ snd[t].id <= packet_id_counter[SideOf[t]]
       /\ \A u \in Tasks : snd[u].pc = "header" /\ SideOf[u] = SideOf[t]
                             /\ snd[u].id = snd[t].id => u = t
       /\ \A i \in 1 .. Len(sent[SideOf[t]]) : sent[SideOf[t]][i].id # snd[t].id
  /\ \A s \in Side : \A i \in 1 .. Len(sent[s]) : sent[s][i].id <= packet_id_counter[s]

NumberInv == Numbers /\ IdsUnique

LEMMA SentNumbers ==
  ASSUME Typed, NEW s \in Side, NEW i \in 1 .. Len(sent[s])
  PROVE  sent[s][i] \in SentRec /\ sent[s][i].id \in Nat /\ sent[s][i].pkt \in Payload
<1>1. sent[s] \in Seq(SentRec)
  BY DEF Typed
<1>2. sent[s][i] \in SentRec
  BY <1>1, ElementOfSeq
<1> QED BY <1>2 DEF SentRec

(* A step after which nobody else waits, and nothing more was sent.        *)
LEMMA NumbersKept ==
  ASSUME TypeInv, NumberInv, sent' = sent,
         packet_id_counter' = packet_id_counter \/ \E s \in Side : Numbered(s),
         \A t \in Tasks : snd'[t].pc = "header" =>
                            snd[t].pc = "header" /\ snd'[t].id = snd[t].id
  PROVE  NumberInv'
<1>1. /\ packet_id_counter \in [Side -> Nat] /\ \A t \in Tasks : SideOf[t] \in Side
      /\ \A t \in Tasks : snd[t].id \in Nat
      /\ \A s \in Side : sent[s] \in Seq(SentRec)
  BY LockNames DEF TypeInv, Typed, SndRec
<1>2. \A s \in Side : /\ packet_id_counter[s] \in Nat /\ packet_id_counter'[s] \in Nat
                      /\ packet_id_counter[s] <= packet_id_counter'[s]
  BY <1>1 DEF Numbered, NextPacketId
<1>3. \A s \in Side : \A i \in 1 .. Len(sent[s]) : sent[s][i].id \in Nat
  BY SentNumbers DEF TypeInv
<1>4. \A s \in Side : \A i \in 1 .. Len(sent[s]) : sent[s][i].id <= packet_id_counter'[s]
  BY <1>2, <1>3 DEF NumberInv, Numbers
<1>5. ASSUME NEW t \in Tasks, snd'[t].pc = "header"
      PROVE  snd'[t].id <= packet_id_counter'[SideOf[t]]
  BY <1>1, <1>2, <1>5 DEF NumberInv, Numbers
<1>6. Numbers'
  BY <1>4, <1>5 DEF NumberInv, Numbers
<1> QED BY <1>6 DEF NumberInv, IdsUnique

LEMMA TakeNumberKeeps ==
  ASSUME TypeInv, NumberInv, NEW t \in Tasks, TakeNumber(t)
  PROVE  NumberInv'
<1> DEFINE s == SideOf[t]
           n == NextPacketId(s)
<1>1. /\ s \in Side /\ packet_id_counter \in [Side -> Nat] /\ snd \in [Tasks -> SndRec]
      /\ \A u \in Side : sent[u] \in Seq(SentRec)
  BY LockNames DEF TypeInv, Typed
<1>2. /\ sent' = sent /\ packet_id_counter' = [packet_id_counter EXCEPT ![s] = n]
      /\ snd' = [snd EXCEPT ![t].pc = "header", ![t].id = n]
  BY DEF TakeNumber, Numbered
<1>3. n = packet_id_counter[s] + 1
  BY DEF NextPacketId
<1> HIDE DEF s, n
<1>4. /\ snd'[t].pc = "header" /\ snd'[t].id = n
      /\ \A u \in Tasks : u # t => snd'[u] = snd[u]
  BY <1>1, <1>2 DEF SndRec
<1>5. /\ \A u \in Side : u # s => packet_id_counter'[u] = packet_id_counter[u]
      /\ packet_id_counter'[s] = n
      /\ \A u \in Side : packet_id_counter[u] \in Nat
  BY <1>1, <1>2
<1>6. \A u \in Side : \A i \in 1 .. Len(sent[u]) :
        sent[u][i].id \in Nat /\ sent[u][i].id <= packet_id_counter[u]
  BY SentNumbers DEF TypeInv, NumberInv, Numbers
<1>7. \A u \in Tasks : u # t /\ snd[u].pc = "header" =>
        snd[u].id \in Nat /\ snd[u].id <= packet_id_counter[SideOf[u]]
  BY <1>1 DEF SndRec, NumberInv, Numbers
<1>8. \A i \in 1 .. Len(sent[s]) : sent[s][i].id < n
  BY <1>1, <1>3, <1>5, <1>6
<1>9. \A u \in Tasks : u # t /\ snd[u].pc = "header" /\ SideOf[u] = s => snd[u].id < n
  BY <1>1, <1>3, <1>5, <1>7
<1>10. n \in Nat
  BY <1>1, <1>3
<1>11. \A u \in Side : \A i \in 1 .. Len(sent[u]) : sent[u][i].id <= packet_id_counter'[u]
  BY <1>5, <1>6, <1>8, <1>10
<1>12. \A u \in Tasks : u # t /\ snd[u].pc = "header" =>
         snd[u].id <= packet_id_counter'[SideOf[u]]
  BY <1>5, <1>7, <1>9, <1>10, LockNames
<1>13. \A i \in 1 .. Len(sent[s]) : sent[s][i].id # n
  BY <1>6, <1>8, <1>10, <1>1
<1>14. \A u \in Tasks : u # t /\ snd[u].pc = "header" /\ SideOf[u] = s => snd[u].id # n
  BY <1>7, <1>9, <1>10
<1>15. ASSUME NEW u \in Tasks, snd'[u].pc = "header"
       PROVE  /\ snd'[u].id <= packet_id_counter'[SideOf[u]]
              /\ \A v \in Tasks : snd'[v].pc = "header" /\ SideOf[v] = SideOf[u]
                                    /\ snd'[v].id = snd'[u].id => v = u
              /\ \A i \in 1 .. Len(sent[SideOf[u]]) : sent[SideOf[u]][i].id # snd'[u].id
  <2>1. CASE u = t
    <3>1. n <= n
      BY <1>10
    <3> QED BY <1>4, <1>5, <1>13, <1>14, <2>1, <3>1, Zenon DEF s
  <2>2. CASE u # t
    <3>1. snd[u].pc = "header" /\ snd'[u].id = snd[u].id
      BY <1>4, <1>15, <2>2
    <3> QED BY <1>4, <1>12, <1>14, <2>2, <3>1, Zenon DEF s, NumberInv, Numbers
  <2> QED BY <2>1, <2>2
<1>16. Numbers'
  BY <1>2, <1>11, <1>15, Zenon DEF Numbers
<1> QED BY <1>2, <1>16 DEF NumberInv, IdsUnique

LEMMA WriteHeaderKeeps ==
  ASSUME TypeInv, NumberInv, NEW t \in Tasks, WriteHeader(t)
  PROVE  NumberInv'
<1> DEFINE s == SideOf[t]
           x == [id |-> snd[t].id, pkt |-> Head(snd[t].todo)]
           q == sent[s]
           r == Append(q, x)
<1>1. /\ s \in Side /\ snd \in [Tasks -> SndRec] /\ sent \in [Side -> Seq(SentRec)]
      /\ q \in Seq(SentRec)
  BY LockNames DEF TypeInv, Typed
<1>2. /\ snd[t].pc = "header" /\ packet_id_counter' = packet_id_counter
      /\ sent' = [sent EXCEPT ![s] = r]
      /\ \/ snd' = [snd EXCEPT ![t].pc = "count"]
         \/ snd' = [snd EXCEPT ![t].pc = "data"]
  BY DEF WriteHeader
<1>3. x \in SentRec /\ x.id = snd[t].id
  <2>1. snd[t].todo # <<>> /\ snd[t].id \in Nat
    BY <1>1, <1>2 DEF TypeInv, Placed, SndRec
  <2> QED BY <2>1, CurrentTyping DEF TypeInv, SentRec
<1> HIDE DEF s, x, q
<1>4. /\ r \in Seq(SentRec) /\ Len(r) = Len(q) + 1 /\ r[Len(q) + 1] = x
      /\ \A i \in 1 .. Len(q) : r[i] = q[i]
  BY <1>1, <1>3, AppendProperties
<1> HIDE DEF r
<1>5. /\ snd'[t].pc # "header" /\ \A u \in Tasks : u # t => snd'[u] = snd[u]
      /\ sent'[s] = r /\ \A u \in Side : u # s => sent'[u] = sent[u]
  BY <1>1, <1>2 DEF SndRec
<1>6. \A i \in 1 .. Len(r) : i \in 1 .. Len(q) \/ i = Len(q) + 1
  BY <1>1, <1>4
<1>7. \A i \in 1 .. Len(q) : q[i].id # x.id /\ q[i].id <= packet_id_counter[s]
  BY <1>1, <1>2, <1>3 DEF NumberInv, Numbers, s, q
<1>8. x.id <= packet_id_counter[s]
  BY <1>2, <1>3 DEF NumberInv, Numbers, s
<1>9. \A i \in 1 .. Len(r) : r[i].id <= packet_id_counter[s]
  BY <1>4, <1>6, <1>7, <1>8
<1>10. \A i, j \in 1 .. Len(r) : r[i].id = r[j].id => i = j
  <2>1. \A i, j \in 1 .. Len(q) : q[i].id = q[j].id => i = j
    BY <1>1 DEF NumberInv, IdsUnique, q
  <2> QED BY <1>4, <1>6, <1>7, <2>1, Zenon
<1>11. ASSUME NEW u \in Tasks, snd'[u].pc = "header"
       PROVE  /\ snd'[u].id <= packet_id_counter[SideOf[u]]
              /\ \A v \in Tasks : snd'[v].pc = "header" /\ SideOf[v] = SideOf[u]
                                    /\ snd'[v].id = snd'[u].id => v = u
              /\ \A i \in 1 .. Len(sent'[SideOf[u]]) : sent'[SideOf[u]][i].id # snd'[u].id
  <2>1. u # t /\ snd[u].pc = "header" /\ snd'[u].id = snd[u].id
    BY <1>5, <1>11
  <2>2. /\ snd'[u].id <= packet_id_counter[SideOf[u]]
        /\ \A v \in Tasks : snd'[v].pc = "header" /\ SideOf[v] = SideOf[u]
                              /\ snd'[v].id = snd'[u].id => v = u
        /\ \A i \in 1 .. Len(sent[SideOf[u]]) : sent[SideOf[u]][i].id # snd'[u].id
    <3>1. \A v \in Tasks : snd'[v].pc = "header" => snd[v].pc = "header" /\ snd'[v] = snd[v]
      BY <1>5
    <3> QED BY <2>1, <3>1 DEF NumberInv, Numbers
  <2>3. CASE SideOf[u] # s
    BY <1>5, <2>2, <2>3, LockNames
  <2>4. CASE SideOf[u] = s
    <3>1. snd[u].id # x.id
      BY <1>2, <1>3, <2>1, <2>4, Zenon DEF NumberInv, Numbers, s
    <3>2. \A i \in 1 .. Len(r) : r[i].id # snd[u].id
      BY <1>4, <1>6, <2>1, <2>2, <2>4, <3>1, Zenon DEF q
    <3> QED BY <1>5, <2>1, <2>2, <2>4, <3>2
  <2> QED BY <2>3, <2>4
<1>12. \A u \in Side : \A i \in 1 .. Len(sent'[u]) : sent'[u][i].id <= packet_id_counter[u]
  <2>1. ASSUME NEW u \in Side, NEW i \in 1 .. Len(sent'[u])
        PROVE  sent'[u][i].id <= packet_id_counter[u]
    BY <1>5, <1>9 DEF NumberInv, Numbers
  <2> QED BY <2>1
<1>13. Numbers'
  BY <1>2, <1>11, <1>12, Zenon DEF Numbers
<1>14. IdsUnique'
  BY <1>5, <1>10 DEF NumberInv, IdsUnique
<1> QED BY <1>13, <1>14 DEF NumberInv

LEMMA NumberNext ==
  ASSUME TypeInv, NumberInv, [Next]_vars
  PROVE  NumberInv'
<1>0. snd \in [Tasks -> SndRec]
  BY DEF TypeInv, Typed
<1>1. CASE UNCHANGED vars
  BY <1>1, NumbersKept DEF vars
<1>2. CASE (\E s \in Side : HandshakeStep(s)) \/ ResponseTimeout \/ Fault
  BY <1>2, OutsideSteps, NumbersKept
<1>3. ASSUME NEW s \in Side, ReadStep(s) PROVE NumberInv'
  <2>1. sent' = sent /\ packet_id_counter' = packet_id_counter
    BY <1>3 DEF ReadStep, ReadHeader, ReadData, ReadFail
  <2>2. snd' = snd \/ \E p, d : Return(s, p, d)
    BY <1>3 DEF ReadStep, ReadHeader, ReadData, ReadFail
  <2>3. \A t \in Tasks : snd'[t].pc = snd[t].pc /\ snd'[t].id = snd[t].id
    BY <2>2, ReturnEffect
  <2> QED BY <2>1, <2>3, NumbersKept
<1>4. ASSUME NEW t \in Tasks, WriteData(t) \/ WriteFail(t) \/ CountSent(t)
      PROVE  NumberInv'
  <2>1. sent' = sent /\ packet_id_counter' = packet_id_counter
    BY <1>4 DEF WriteData, WriteFail, CountSent
  <2>2. snd'[t].pc # "header" /\ \A u \in Tasks : u # t => snd'[u] = snd[u]
    <3>1. CASE WriteData(t)
      BY <1>0, <3>1 DEF WriteData, SndRec
    <3>2. CASE WriteFail(t)
      BY <1>0, <3>2 DEF WriteFail, GiveUp, SndRec
    <3>3. CASE CountSent(t)
      BY <1>0, <3>3 DEF CountSent, SndRec
    <3> QED BY <1>4, <3>1, <3>2, <3>3
  <2> QED BY <2>1, <2>2, NumbersKept
<1> QED BY <1>1, <1>2, <1>3, <1>4, TakeNumberKeeps, WriteHeaderKeeps DEF Next, SendStep

LEMMA NumberAlways == Spec => []NumberInv
<1>1. Init => NumberInv
  BY DEF Init, NumberInv, Numbers, IdsUnique
<1>2. TypeInv /\ NumberInv /\ [Next]_vars => NumberInv'
  BY NumberNext
<1> QED BY <1>1, <1>2, TypeAlways, PTL DEF Spec

(* No two packets of a gateway have the same number, although the number   *)
(* is taken before the writer is locked, so that packets may be written in *)
(* another order than they were numbered in.                               *)
THEOREM IdsUniqueTheorem == Spec => []IdsUnique
<1>1. NumberInv => IdsUnique
  BY DEF NumberInv
<1> QED BY <1>1, NumberAlways, PTL
=============================================================================
