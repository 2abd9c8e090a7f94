----------------------------- MODULE StreamProofs -----------------------------
(***************************************************************************)
(* Proofs about the bytes between two gateways (Channel): that what is     *)
(* read is, packet by packet, what was written, that the two verdicts of a *)
(* handshake agree, and that the two ends count the same packets and bytes.*)
(*                                                                         *)
(* A stream is described by the places of the packets in it: place f[i] is *)
(* the number of bytes in front of packet i, negative when some bytes of   *)
(* it have been read already.                                              *)
(***************************************************************************)
EXTENDS ChannelProofs, WellFoundedInduction

-----------------------------------------------------------------------------
(* Streams and the packets in them. *)

(* Counting, for the proofs below to cite.                                 *)
LEMMA Count ==
  /\ \A l \in Nat : \A k \in 1 .. l : k \in Nat /\ k \in Int /\ 1 <= k /\ k <= l
  /\ \A x \in Int : \A l \in Nat : x <= l \/ x > l
  /\ \A r, n \in Nat : \A i \in r + 1 .. n + 1 : ~((n + 1) + 1 <= i)
  /\ \A r, n \in Nat : \A i \in r + 1 .. n : i # n =>
       i + 1 \in r + 1 .. n + 1 /\ n \in r + 1 .. n + 1 /\ i + 1 <= n
OBVIOUS

LEMMA CountLost ==
  \A x \in Int : \A l, k, g, h \in Nat : k <= l /\ h <= g /\ l + g <= x => k + h <= x
OBVIOUS

(* Place k of b, if it has one, holds x.                                   *)
At(b, k, x) == 1 <= k /\ k <= Len(b) => b[k] = x

LEMMA AtKept ==
  ASSUME NEW b \in Seq(Byte), NEW c \in Seq(Byte), NEW k \in Int, NEW x, At(b, k, x),
         \/ Shorter(c, b)
         \/ k <= Len(b) /\ \E d \in Seq(Byte) : Joined(c, b, d)
  PROVE  At(c, k, x)
<1>1. Len(b) \in Nat /\ Len(c) \in Nat
  BY LenProperties
<1>2. CASE Shorter(c, b)
  BY <1>1, <1>2 DEF Shorter, At
<1>3. CASE k <= Len(b) /\ \E d \in Seq(Byte) : Joined(c, b, d)
  BY <1>1, <1>3 DEF Joined, At
<1> QED BY <1>2, <1>3

LEMMA AtMoved ==
  ASSUME NEW b \in Seq(Byte), NEW c \in Seq(Byte), NEW k \in Int, NEW x, NEW m \in Nat,
         At(b, k, x), Rest(c, b, m)
  PROVE  At(c, k - m, x)
<1>1. Len(b) \in Nat /\ Len(c) \in Nat
  BY LenProperties
<1>2. ASSUME 1 <= k - m, k - m <= Len(c) PROVE c[k - m] = x
  <2>1. k - m \in 1 .. Len(c) /\ m + (k - m) = k /\ 1 <= k /\ k <= Len(b)
    BY <1>1, <1>2 DEF Rest
  <2> QED BY <2>1 DEF Rest, At
<1> QED BY <1>2 DEF At

LEMMA AtNew ==
  ASSUME NEW b \in Seq(Byte), NEW d \in Seq(Byte), NEW c \in Seq(Byte), Joined(c, b, d),
         NEW i \in 1 .. Len(d), NEW k \in Int, k = Len(b) + i
  PROVE  At(c, k, d[i])
BY DEF Joined, At

LEMMA AtBeyond ==
  ASSUME NEW b \in Seq(Byte), NEW k \in Int, NEW x, k > Len(b)
  PROVE  At(b, k, x)
<1>1. Len(b) \in Nat
  BY LenProperties
<1> QED BY <1>1 DEF At

(* The number of bytes of b, as a number only.                             *)
Size(b) == Len(b)

(* The places f of packets r + 1 to n, with bytes W, in the stream b.      *)
Laid(b, f, W, r, n) ==
  /\ \A i \in r + 1 .. n : f[i + 1] = f[i] + Size(W[i])
  /\ \A i, j \in r + 1 .. n + 1 : i <= j => f[i] <= f[j]
  /\ \A i \in r + 1 .. n : \A j \in 1 .. Size(W[i]) : At(b, f[i] + j, W[i][j])

(* The types are hidden from the steps that only count.                    *)
ByteSeq(b)    == b \in Seq(Byte)
WireSeq(W, n) == W \in [1 .. n -> Seq(Byte)]
Places(f, n)  == f \in [1 .. n + 1 -> Int]

(* The packets after the first r are in the stream b, behind base bytes of *)
(* something else; gap bytes that belong to them are still to be written.  *)
(* A connection c that is not up may have lost the end.                    *)
Holds(b, f, n, gap, c) ==
  /\ Size(b) + gap <= f[n + 1]
  /\ c = "up" => Size(b) + gap = f[n + 1]

Lies(b, W, r, n, base, gap, c) ==
  \E f : Places(f, n) /\ f[r + 1] = base /\ Laid(b, f, W, r, n) /\ Holds(b, f, n, gap, c)

(* The first n of s and t are the same; d is in w behind k others.         *)
Agree(s, t, n)   == \A i \in 1 .. n : s[i] = t[i]
Follows(w, k, d) == \A i \in 1 .. Size(d) : w[k + i] = d[i]

LEMMA Typings ==
  /\ \A b : ByteSeq(b) => b \in Seq(Byte) /\ Size(b) \in Nat
  /\ \A n \in Nat : \A W : WireSeq(W, n) =>
       \A i \in 1 .. n : W[i] \in Seq(Byte) /\ Size(W[i]) \in Nat
  /\ \A n \in Nat : \A f : Places(f, n) => \A i \in 1 .. n + 1 : f[i] \in Int
<1>1. \A b : ByteSeq(b) => b \in Seq(Byte) /\ Size(b) \in Nat
  BY LenProperties DEF ByteSeq, Size
<1>2. \A n \in Nat : \A W : WireSeq(W, n) =>
        \A i \in 1 .. n : W[i] \in Seq(Byte) /\ Size(W[i]) \in Nat
  BY LenProperties DEF WireSeq, Size
<1>3. \A n \in Nat : \A f : Places(f, n) => \A i \in 1 .. n + 1 : f[i] \in Int
  BY DEF Places
<1> QED BY <1>1, <1>2, <1>3

(* Bytes are read.                                                         *)
LEMMA LiesRead ==
  ASSUME NEW b, NEW c, ByteSeq(b), ByteSeq(c), NEW r \in Nat, NEW n \in Nat, r <= n,
         NEW W, WireSeq(W, n), NEW base \in Int, NEW gap \in Nat, NEW up,
         Lies(b, W, r, n, base, gap, up), NEW m \in Nat, Rest(c, b, m)
  PROVE  Lies(c, W, r, n, base - m, gap, up)
<1>1. PICK f : /\ Places(f, n) /\ f[r + 1] = base /\ Laid(b, f, W, r, n)
               /\ Holds(b, f, n, gap, up)
  BY Zenon DEF Lies
<1>2. \A i \in 1 .. n + 1 : f[i] \in Int
  BY <1>1, Typings
<1>3. PICK g : Places(g, n) /\ \A i \in 1 .. n + 1 : g[i] = f[i] - m
  <2> DEFINE g == [i \in 1 .. n + 1 |-> f[i] - m]
  <2>1. Places(g, n) /\ \A i \in 1 .. n + 1 : g[i] = f[i] - m
    BY <1>2 DEF Places
  <2> QED BY <2>1, Zenon
<1>4. /\ r + 1 \in 1 .. n + 1 /\ n + 1 \in 1 .. n + 1
      /\ \A i \in r + 1 .. n : i \in 1 .. n /\ i \in 1 .. n + 1 /\ i + 1 \in 1 .. n + 1
      /\ \A i \in r + 1 .. n + 1 : i \in 1 .. n + 1
  OBVIOUS
<1>5. g[r + 1] = base - m
  BY <1>1, <1>3, <1>4, Zenon
<1>6. Size(b) \in Nat /\ Size(c) = Size(b) - m
  BY Typings, Zenon DEF Rest, Size
<1>7. Holds(c, g, n, gap, up)
  <2>1. g[n + 1] = f[n + 1] - m /\ f[n + 1] \in Int
    BY <1>2, <1>3, <1>4
  <2>2. Size(b) + gap <= f[n + 1] /\ (up = "up" => Size(b) + gap = f[n + 1])
    BY <1>1, Zenon DEF Holds
  <2>3. (Size(b) - m) + gap <= f[n + 1] - m /\ (up = "up" => (Size(b) - m) + gap = f[n + 1] - m)
    BY <1>6, <2>1, <2>2
  <2>4. Size(c) + gap <= g[n + 1] /\ (up = "up" => Size(c) + gap = g[n + 1])
    BY <1>6, <2>1, <2>3, Zenon
  <2> QED BY <2>4, Zenon DEF Holds
<1>8. \A i \in r + 1 .. n : g[i + 1] = g[i] + Size(W[i])
  <2>1. ASSUME NEW i \in r + 1 .. n PROVE g[i + 1] = g[i] + Size(W[i])
    <3>1. f[i + 1] = f[i] + Size(W[i])
      BY <1>1, Zenon DEF Laid
    <3>2. Size(W[i]) \in Nat
      BY <1>4, Typings, Zenon
    <3>3. /\ g[i] = f[i] - m /\ g[i + 1] = f[i + 1] - m
          /\ f[i] \in Int /\ f[i + 1] \in Int
      BY <1>2, <1>3, <1>4, Zenon
    <3>4. (f[i] + Size(W[i])) - m = (f[i] - m) + Size(W[i])
      BY <3>2, <3>3
    <3> QED BY <3>1, <3>3, <3>4, Zenon
  <2> QED BY <2>1
<1>9. \A i, j \in r + 1 .. n + 1 : i <= j => g[i] <= g[j]
  <2>1. \A i, j \in r + 1 .. n + 1 : i <= j => f[i] <= f[j]
    BY <1>1, Zenon DEF Laid
  <2> QED BY <1>2, <1>3, <1>4, <2>1
<1>10. \A i \in r + 1 .. n : \A j \in 1 .. Size(W[i]) : At(c, g[i] + j, W[i][j])
  <2>1. ASSUME NEW i \in r + 1 .. n, NEW j \in 1 .. Size(W[i])
        PROVE  At(c, g[i] + j, W[i][j])
    <3>1. At(b, f[i] + j, W[i][j])
      BY <1>1, Zenon DEF Laid
    <3>2. f[i] \in Int /\ g[i] = f[i] - m /\ Size(W[i]) \in Nat
      BY <1>2, <1>3, <1>4, Typings, Zenon
    <3>3. f[i] + j \in Int /\ g[i] + j = (f[i] + j) - m
      BY <3>2
    <3>4. At(c, (f[i] + j) - m, W[i][j])
      BY <3>1, <3>3, AtMoved, Zenon DEF ByteSeq, Size
    <3> QED BY <3>3, <3>4, Zenon
  <2> QED BY <2>1
<1>11. Laid(c, g, W, r, n)
  BY <1>8, <1>9, <1>10, Zenon DEF Laid
<1> QED BY <1>3, <1>5, <1>7, <1>11, Zenon DEF Lies

(* The first packet has been read.                                         *)
LEMMA LiesNext ==
  ASSUME NEW b, NEW r \in Nat, NEW n \in Nat, r < n, NEW W, NEW base \in Int,
         NEW gap \in Nat, NEW up, Lies(b, W, r, n, base, gap, up)
  PROVE  Lies(b, W, r + 1, n, base + Size(W[r + 1]), gap, up)
<1>1. PICK f : /\ Places(f, n) /\ f[r + 1] = base /\ Laid(b, f, W, r, n)
               /\ Holds(b, f, n, gap, up)
  BY Zenon DEF Lies
<1>2. /\ r + 1 \in r + 1 .. n
      /\ \A i \in (r + 1) + 1 .. n : i \in r + 1 .. n
      /\ \A i \in (r + 1) + 1 .. n + 1 : i \in r + 1 .. n + 1
  OBVIOUS
<1>3. f[(r + 1) + 1] = base + Size(W[r + 1])
  BY <1>1, <1>2, Zenon DEF Laid
<1>4. Laid(b, f, W, r + 1, n)
  BY <1>1, <1>2, Zenon DEF Laid
<1> QED BY <1>1, <1>3, <1>4, Zenon DEF Lies

(* The end is lost, or will not be written.                                *)
LEMMA LiesLost ==
  ASSUME NEW b, NEW c, ByteSeq(b), ByteSeq(c), NEW r \in Nat, NEW n \in Nat, r <= n,
         NEW W, WireSeq(W, n), NEW base \in Int, NEW gap \in Nat, NEW up,
         Lies(b, W, r, n, base, gap, up), Shorter(c, b),
         NEW gap2 \in Nat, gap2 <= gap, NEW up2, up2 # "up"
  PROVE  Lies(c, W, r, n, base, gap2, up2)
<1>1. PICK f : /\ Places(f, n) /\ f[r + 1] = base /\ Laid(b, f, W, r, n)
               /\ Holds(b, f, n, gap, up)
  BY Zenon DEF Lies
<1>2. Holds(c, f, n, gap2, up2)
  <2>1. Size(b) \in Nat /\ Size(c) \in Nat /\ Size(c) <= Size(b)
    BY Typings, Zenon DEF Shorter, Size
  <2>2. n + 1 \in 1 .. n + 1
    OBVIOUS
  <2>3. f[n + 1] \in Int
    BY <1>1, <2>2, Typings, Zenon
  <2> QED BY <1>1, <2>1, <2>3, CountLost, Zenon DEF Holds
<1>3. ASSUME NEW i \in r + 1 .. n, NEW j \in 1 .. Size(W[i])
      PROVE  At(c, f[i] + j, W[i][j])
  <2>1. i \in 1 .. n /\ i \in 1 .. n + 1
    OBVIOUS
  <2>2. f[i] \in Int /\ Size(W[i]) \in Nat
    BY <1>1, <2>1, Typings, Zenon
  <2>3. f[i] + j \in Int
    BY <2>2
  <2> QED BY <1>1, <2>3, AtKept, Zenon DEF Laid, ByteSeq, Size
<1>4. Laid(c, f, W, r, n)
  BY <1>1, <1>3, Zenon DEF Laid
<1> QED BY <1>1, <1>2, <1>4, Zenon DEF Lies

(* A packet is added, of which the first bytes h are written.              *)
LEMMA LiesHeader ==
  ASSUME NEW b, NEW c, ByteSeq(b), ByteSeq(c), NEW r \in Nat, NEW n \in Nat, r <= n,
         NEW V, WireSeq(V, n), NEW W, WireSeq(W, n + 1), Agree(W, V, n),
         NEW base \in Int, NEW up, Lies(b, V, r, n, base, 0, up),
         NEW h, ByteSeq(h), NEW gap \in Nat, Size(W[n + 1]) = Size(h) + gap,
         Agree(W[n + 1], h, Size(h)),
         up = "up" => Joined(c, b, h), up # "up" => c = b
  PROVE  Lies(c, W, r, n + 1, base, gap, up)
<1>1. PICK f : /\ Places(f, n) /\ f[r + 1] = base /\ Laid(b, f, V, r, n)
               /\ Holds(b, f, n, 0, up)
  BY Zenon DEF Lies
<1>0. Size(h) \in Nat /\ Size(b) \in Nat /\ Size(c) \in Nat
  BY Typings, Zenon
<1>01. \A i \in 1 .. n + 1 : f[i] \in Int
  BY <1>1, Typings, Zenon
<1>02. PICK z \in Nat : z = Size(h) + gap
  BY <1>0
<1>2. PICK g : /\ Places(g, n + 1) /\ g[(n + 1) + 1] = f[n + 1] + z
               /\ \A i \in 1 .. n + 1 : g[i] = f[i]
  <2> DEFINE g == [i \in 1 .. (n + 1) + 1 |-> IF i = (n + 1) + 1 THEN f[n + 1] + z ELSE f[i]]
  <2>1. g \in [1 .. (n + 1) + 1 -> Int]
    BY <1>01
  <2>2. g[(n + 1) + 1] = f[n + 1] + z /\ \A i \in 1 .. n + 1 : g[i] = f[i]
    OBVIOUS
  <2> HIDE DEF g
  <2> QED BY <2>1, <2>2, Zenon DEF Places
<1>3. /\ r + 1 \in 1 .. n + 1 /\ n + 1 \in 1 .. n + 1 /\ n + 1 \in r + 1 .. n + 1
      /\ \A i \in r + 1 .. n : i \in 1 .. n /\ i \in 1 .. n + 1 /\ i + 1 \in 1 .. n + 1
                               /\ i + 1 \in r + 1 .. n + 1
      /\ \A i \in r + 1 .. n + 1 : i \in r + 1 .. n \/ i = n + 1
      /\ \A i \in r + 1 .. (n + 1) + 1 : i \in r + 1 .. n + 1 \/ i = (n + 1) + 1
      /\ \A i \in r + 1 .. n + 1 : i \in 1 .. n + 1
  OBVIOUS
<1>31. f[n + 1] \in Int /\ g[n + 1] = f[n + 1]
  BY <1>01, <1>2, <1>3, Zenon
<1>32. Size(b) <= f[n + 1] /\ (up = "up" => Size(b) = f[n + 1])
  BY <1>0, <1>1, <1>31 DEF Holds
<1>33. (up = "up" => Size(c) = Size(b) + Size(h)) /\ (up # "up" => Size(c) = Size(b))
  BY Zenon DEF Joined, Size
<1>4. g[r + 1] = base
  BY <1>1, <1>2, <1>3, Zenon
<1>5. Holds(c, g, n + 1, gap, up)
  <2>1. g[(n + 1) + 1] = f[n + 1] + z
    BY <1>2
  <2>2. CASE up = "up"
    <3>1. Size(c) + gap = g[(n + 1) + 1]
      BY <1>0, <1>02, <1>31, <1>32, <1>33, <2>1, <2>2
    <3> QED BY <1>0, <2>2, <3>1 DEF Holds
  <2>3. CASE up # "up"
    <3>1. Size(c) + gap <= g[(n + 1) + 1]
      BY <1>0, <1>02, <1>31, <1>32, <1>33, <2>1, <2>3
    <3> QED BY <2>3, <3>1, Zenon DEF Holds
  <2> QED BY <2>2, <2>3
<1>6. \A i \in r + 1 .. n + 1 : g[i + 1] = g[i] + Size(W[i])
  <2>1. ASSUME NEW i \in r + 1 .. n PROVE g[i + 1] = g[i] + Size(W[i])
    <3>1. W[i] = V[i] /\ f[i + 1] = f[i] + Size(V[i])
      BY <1>1, <1>3, Zenon DEF Laid, Agree
    <3>2. g[i] = f[i] /\ g[i + 1] = f[i + 1]
      BY <1>2, <1>3, Zenon
    <3> QED BY <3>1, <3>2, Zenon
  <2>2. g[(n + 1) + 1] = g[n + 1] + Size(W[n + 1])
    BY <1>02, <1>2, <1>31, Zenon
  <2> QED BY <1>3, <2>1, <2>2, Zenon
<1>7. \A i, j \in r + 1 .. (n + 1) + 1 : i <= j => g[i] <= g[j]
  <2>1. \A i, j \in r + 1 .. n + 1 : i <= j => f[i] <= f[j]
    BY <1>1, Zenon DEF Laid
  <2>2. \A i \in r + 1 .. n + 1 : i <= n + 1
    OBVIOUS
  <2>3. \A i \in r + 1 .. n + 1 : f[i] \in Int /\ f[i] <= f[n + 1] /\ g[i] = f[i]
    BY <1>01, <1>2, <1>3, <2>1, <2>2, Zenon
  <2>4. g[(n + 1) + 1] = f[n + 1] + z
    BY <1>2
  <2>5. \A i \in r + 1 .. n + 1 : g[i] <= g[(n + 1) + 1]
    BY <1>02, <1>31, <2>3, <2>4
  <2>6. g[(n + 1) + 1] <= g[(n + 1) + 1]
    BY <1>02, <1>31, <2>4
  <2>7. \A i \in r + 1 .. n + 1 : ~((n + 1) + 1 <= i)
    BY Count, Zenon
  <2> QED BY <1>3, <2>1, <2>3, <2>5, <2>6, <2>7, Zenon
<1>8. ASSUME NEW i \in r + 1 .. n, NEW j \in 1 .. Size(W[i])
      PROVE  At(c, g[i] + j, W[i][j])
  <2>1. W[i] = V[i] /\ g[i] = f[i] /\ Size(V[i]) \in Nat /\ f[i] \in Int
    BY <1>01, <1>2, <1>3, Typings, Zenon DEF Agree
  <2>2. j \in 1 .. Size(V[i])
    BY <2>1, Zenon
  <2>3. At(b, f[i] + j, V[i][j])
    BY <1>1, <2>2, Zenon DEF Laid
  <2>4. CASE up # "up"
    BY <2>1, <2>3, <2>4, Zenon
  <2>5. CASE up = "up"
    <3>1. f[i + 1] = f[i] + Size(V[i])
      BY <1>1, Zenon DEF Laid
    <3>2. f[i + 1] <= f[n + 1]
      <4>1. i + 1 <= n + 1
        OBVIOUS
      <4> QED BY <1>1, <1>3, <4>1, Zenon DEF Laid
    <3>3. f[i] + j \in Int /\ f[i] + j <= Size(b)
      <4>1. j \in Nat /\ j <= Size(V[i])
        BY <2>1, <2>2, Count, Zenon
      <4>2. f[i] + Size(V[i]) <= Size(b)
        BY <1>32, <2>5, <3>1, <3>2, Zenon
      <4> QED BY <1>0, <2>1, <4>1, <4>2
    <3>5. At(c, f[i] + j, V[i][j])
      BY <2>3, <2>5, <3>3, AtKept, Zenon DEF ByteSeq, Size
    <3> QED BY <2>1, <3>5, Zenon
  <2> QED BY <2>4, <2>5
<1>9. ASSUME NEW j \in 1 .. Size(W[n + 1])
      PROVE  At(c, g[n + 1] + j, W[n + 1][j])
  <2>0. j \in Nat /\ 1 <= j /\ g[n + 1] + j \in Int
    <3>1. Size(W[n + 1]) \in Nat
      BY <1>02, Zenon
    <3>2. j \in Nat /\ 1 <= j
      BY <3>1, Count, Zenon
    <3> QED BY <1>31, <3>2
  <2>1. CASE g[n + 1] + j > Size(c)
    BY <2>0, <2>1, AtBeyond, Zenon DEF ByteSeq, Size
  <2>2. CASE ~(g[n + 1] + j > Size(c))
    <3>1. up = "up"
      BY <1>0, <1>31, <1>32, <1>33, <2>0, <2>2
    <3>2. j \in 1 .. Size(h) /\ g[n + 1] + j = Size(b) + j
      BY <1>0, <1>31, <1>32, <1>33, <2>0, <2>2, <3>1
    <3>3. At(c, g[n + 1] + j, h[j])
      BY <2>0, <3>1, <3>2, AtNew, Zenon DEF ByteSeq, Size
    <3> QED BY <3>2, <3>3, Zenon DEF Agree
  <2> QED BY <2>1, <2>2
<1>10. \A i \in r + 1 .. n + 1 : \A j \in 1 .. Size(W[i]) : At(c, g[i] + j, W[i][j])
  BY <1>3, <1>8, <1>9, Zenon
<1>11. Laid(c, g, W, r, n + 1)
  BY <1>6, <1>7, <1>10, Zenon DEF Laid
<1> QED BY <1>2, <1>4, <1>5, <1>11, Zenon DEF Lies

(* The rest d of the last packet is written.                               *)
LEMMA LiesData ==
  ASSUME NEW b, NEW c, ByteSeq(b), ByteSeq(c), NEW r \in Nat, NEW n \in Nat, r < n,
         NEW W, WireSeq(W, n), NEW base \in Int, NEW up,
         NEW d, ByteSeq(d), Lies(b, W, r, n, base, Size(d), up),
         NEW k \in Nat, Size(W[n]) = k + Size(d),
         Follows(W[n], k, d),
         up = "up" => Joined(c, b, d), up # "up" => c = b
  PROVE  Lies(c, W, r, n, base, 0, up)
<1>1. PICK f : /\ Places(f, n) /\ f[r + 1] = base /\ Laid(b, f, W, r, n)
               /\ Holds(b, f, n, Size(d), up)
  BY Zenon DEF Lies
<1>2. Size(d) \in Nat /\ Size(b) \in Nat /\ Size(c) \in Nat
  BY Typings, Zenon
<1>3. n \in 1 .. n /\ n \in r + 1 .. n /\ n \in 1 .. n + 1 /\ n + 1 \in 1 .. n + 1
  OBVIOUS
<1>4. f[n] \in Int /\ f[n + 1] \in Int
  BY <1>1, <1>3, Typings, Zenon
<1>5. f[n + 1] = f[n] + (k + Size(d))
  BY <1>1, <1>3, Zenon DEF Laid
<1>6. (up = "up" => Size(c) = Size(b) + Size(d)) /\ (up # "up" => Size(c) = Size(b))
  BY Zenon DEF Joined, Size
<1>7. Size(b) + Size(d) <= f[n + 1] /\ (up = "up" => Size(b) + Size(d) = f[n + 1])
  BY <1>1, Zenon DEF Holds
<1>8. Holds(c, f, n, 0, up)
  BY <1>2, <1>4, <1>6, <1>7 DEF Holds
<1>9. CASE up # "up"
  BY <1>1, <1>8, <1>9, Zenon DEF Lies
<1>10. CASE up = "up"
  <2>1. f[n] + k = Size(b)
    BY <1>2, <1>4, <1>5, <1>7, <1>10
  <2>2. ASSUME NEW i \in r + 1 .. n, NEW j \in 1 .. Size(W[i])
        PROVE  At(c, f[i] + j, W[i][j])
    <3>1. At(b, f[i] + j, W[i][j])
      BY <1>1, Zenon DEF Laid
    <3>2. i \in 1 .. n /\ i \in 1 .. n + 1 /\ i \in Int
      OBVIOUS
    <3>3. Size(W[i]) \in Nat /\ f[i] \in Int
      BY <1>1, <3>2, Typings, Zenon
    <3>4. f[i] + j \in Int /\ j \in Nat /\ j <= Size(W[i])
      BY <3>3
    <3>5. CASE f[i] + j <= Size(b)
      BY <1>10, <3>1, <3>4, <3>5, AtKept, Zenon DEF ByteSeq, Size
    <3>6. CASE f[i] + j > Size(b)
      <4>1. ASSUME i # n PROVE FALSE
        <5>1. i + 1 \in r + 1 .. n + 1 /\ n \in r + 1 .. n + 1 /\ i + 1 <= n
          BY <4>1, Count, Zenon
        <5>2. f[i + 1] <= f[n] /\ f[i + 1] = f[i] + Size(W[i])
          BY <1>1, <5>1, Zenon DEF Laid
        <5>3. f[i] + Size(W[i]) <= f[n]
          BY <5>2, Zenon
        <5> QED BY <1>2, <1>4, <2>1, <3>3, <3>4, <3>6, <5>3
      <4>2. i = n
        BY <4>1
      <4>3. PICK m \in 1 .. Size(d) : j = k + m /\ f[i] + j = Size(b) + m
        <5>0. f[n] + j > Size(b) /\ j <= k + Size(d)
          BY <3>4, <3>6, <4>2, Zenon
        <5>1. /\ j - k \in 1 .. Size(d) /\ j = k + (j - k)
              /\ f[n] + j = Size(b) + (j - k)
          BY <1>2, <1>4, <2>1, <3>4, <5>0
        <5> QED BY <4>2, <5>1, Zenon
      <4>4. At(c, f[i] + j, d[m])
        BY <1>10, <3>4, <4>3, AtNew, Zenon DEF ByteSeq, Size
      <4> QED BY <4>2, <4>3, <4>4, Zenon DEF Follows, Size
    <3> QED BY <1>2, <3>4, <3>5, <3>6, Count, Zenon
  <2>3. Laid(c, f, W, r, n)
    BY <1>1, <2>2, Zenon DEF Laid
  <2> QED BY <1>1, <1>8, <2>3, Zenon DEF Lies
<1> QED BY <1>9, <1>10

(* How much there is: nothing past the last packet, and what is in front   *)
(* of the packets all there when there is a packet.                        *)
LEMMA LiesLength ==
  ASSUME NEW b, ByteSeq(b), NEW r \in Nat, NEW n \in Nat, r <= n,
         NEW W, WireSeq(W, n), NEW base \in Int, NEW gap \in Nat, NEW up,
         Lies(b, W, r, n, base, gap, up)
  PROVE  /\ r = n => Size(b) + gap <= base /\ (up = "up" => Size(b) + gap = base)
         /\ up = "up" => base <= Size(b) + gap
         /\ up = "up" /\ r < n /\ gap <= Size(W[n]) => base <= Size(b)
<1>1. PICK f : /\ Places(f, n) /\ f[r + 1] = base /\ Laid(b, f, W, r, n)
               /\ Holds(b, f, n, gap, up)
  BY Zenon DEF Lies
<1>2. /\ r + 1 \in r + 1 .. n + 1 /\ n + 1 \in r + 1 .. n + 1 /\ n + 1 \in 1 .. n + 1
      /\ r + 1 <= n + 1 /\ r + 1 \in 1 .. n + 1
  OBVIOUS
<1>3. Size(b) \in Nat /\ f[n + 1] \in Int
  BY <1>1, <1>2, Typings, Zenon
<1>4. base <= f[n + 1]
  BY <1>1, <1>2, Zenon DEF Laid
<1>5. Size(b) + gap <= f[n + 1] /\ (up = "up" => Size(b) + gap = f[n + 1])
  BY <1>1, Zenon DEF Holds
<1>6. r = n => Size(b) + gap <= base /\ (up = "up" => Size(b) + gap = base)
  BY <1>1, <1>5, Zenon
<1>7. ASSUME up = "up", r < n, gap <= Size(W[n]) PROVE base <= Size(b)
  <2>1. n \in r + 1 .. n /\ n \in r + 1 .. n + 1 /\ r + 1 <= n /\ n \in 1 .. n /\ n \in 1 .. n + 1
    BY <1>7
  <2>2. base <= f[n] /\ f[n + 1] = f[n] + Size(W[n])
    BY <1>1, <1>2, <2>1, Zenon DEF Laid
  <2>3. Size(W[n]) \in Nat /\ f[n] \in Int
    BY <1>1, <2>1, Typings, Zenon
  <2>4. Size(b) + gap = f[n] + Size(W[n])
    BY <1>5, <1>7, <2>2, Zenon
  <2> QED BY <1>3, <1>7, <2>2, <2>3, <2>4
<1>8. up = "up" => base <= Size(b) + gap
  BY <1>4, <1>5, Zenon
<1> QED BY <1>6, <1>7, <1>8, Zenon

(* What a reader finds behind base bytes is the next packet.               *)
LEMMA LiesFirst ==
  ASSUME NEW b, NEW r \in Nat, NEW n \in Nat, r < n,
         NEW W, NEW base \in Int, NEW gap \in Nat, NEW up,
         Lies(b, W, r, n, base, gap, up)
  PROVE  \A j \in 1 .. Size(W[r + 1]) : At(b, base + j, W[r + 1][j])
<1>1. PICK f : /\ Places(f, n) /\ f[r + 1] = base /\ Laid(b, f, W, r, n)
               /\ Holds(b, f, n, gap, up)
  BY Zenon DEF Lies
<1>2. r + 1 \in r + 1 .. n
  OBVIOUS
<1> QED BY <1>1, <1>2, Zenon DEF Laid
-----------------------------------------------------------------------------
(* Packets in a stream. *)

(* w is the packet with header h and data d.                               *)
Frames(w, h, d) ==
  /\ h \in HeaderGW /\ Fits(h) /\ ByteSeq(d) /\ h.size = Size(d)
  /\ Joined(w, ToBytes(h), d)

LEMMA FramesParts ==
  ASSUME NEW w, NEW h, NEW d, Frames(w, h, d)
  PROVE  /\ ByteSeq(w) /\ Size(w) = 16 + Size(d) /\ Size(d) \in Nat
         /\ ByteSeq(ToBytes(h)) /\ Size(ToBytes(h)) = 16
         /\ Agree(w, ToBytes(h), 16) /\ Follows(w, 16, d)
<1>1. h \in HeaderGW /\ ByteSeq(d) /\ Joined(w, ToBytes(h), d)
  BY Zenon DEF Frames
<1>2. ToBytes(h) \in Seq(Byte) /\ Len(ToBytes(h)) = 16
  BY <1>1, HeaderBytes, Zenon
<1>3. Size(ToBytes(h)) = 16 /\ ByteSeq(ToBytes(h))
  BY <1>2, Zenon DEF Size, ByteSeq
<1>4. ByteSeq(w) /\ Size(w) = 16 + Size(d) /\ Size(d) \in Nat
  BY <1>1, <1>2, Typings, Zenon DEF Joined, Size, ByteSeq
<1>5. Agree(w, ToBytes(h), 16) /\ Follows(w, 16, d)
  BY <1>1, <1>2, Zenon DEF Joined, Agree, Follows, Size
<1> QED BY <1>3, <1>4, <1>5

(* A reader that has the next header in front of it reads that header;     *)
(* one that has read it reads its data; and so it gets to the next packet. *)
LEMMA HeaderInFront ==
  ASSUME NEW b, ByteSeq(b), NEW r \in Nat, NEW n \in Nat, r < n, NEW W,
         NEW gap \in Nat, NEW up, Lies(b, W, r, n, 0, gap, up), Size(b) >= 16,
         NEW h, NEW d, Frames(W[r + 1], h, d), NEW t, Part(t, b, 1, 16)
  PROVE  FromBytes(t) = Wired(h)
<1> DEFINE w == W[r + 1]
<1>0. Frames(w, h, d)
  OBVIOUS
<1>1. \A j \in 1 .. Size(w) : At(b, 0 + j, w[j])
  BY LiesFirst
<1> HIDE DEF w
<1>2. Size(w) = 16 + Size(d) /\ Size(d) \in Nat /\ Agree(w, ToBytes(h), 16)
  BY <1>0, FramesParts, Zenon
<1>3. t \in Seq(Byte) /\ Len(t) = 16 - 1 + 1 /\ \A j \in 1 .. 16 - 1 + 1 : t[j] = b[1 + j - 1]
  BY Zenon DEF Part
<1>4. Size(b) \in Nat
  BY Typings, Zenon
<1>5. ASSUME NEW j \in 1 .. 16 PROVE t[j] = ToBytes(h)[j]
  <2>1. /\ j \in 1 .. Size(w) /\ 0 + j = j /\ 1 <= j /\ j <= Size(b)
        /\ j \in 1 .. 16 - 1 + 1 /\ 1 + j - 1 = j
    BY <1>2, <1>4
  <2>2. At(b, j, w[j])
    BY <1>1, <2>1, Zenon
  <2>3. b[j] = w[j]
    BY <2>1, <2>2, Zenon DEF At, Size
  <2>4. w[j] = ToBytes(h)[j]
    BY <1>2, Zenon DEF Agree
  <2>5. t[j] = b[j]
    BY <1>3, <2>1, Zenon
  <2> QED BY <2>3, <2>4, <2>5, Zenon
<1>6. Len(t) = 16
  BY <1>3
<1>7. h \in HeaderGW /\ Fits(h)
  BY <1>0, Zenon DEF Frames
<1> QED BY <1>3, <1>5, <1>6, <1>7, HeaderRoundTrip, Zenon

LEMMA DataInFront ==
  ASSUME NEW b, ByteSeq(b), NEW r \in Nat, NEW n \in Nat, r < n, NEW W,
         NEW gap \in Nat, NEW up, Lies(b, W, r, n, 0 - 16, gap, up),
         NEW h, NEW d, Frames(W[r + 1], h, d), Size(b) >= Size(d),
         NEW t, Part(t, b, 1, Size(d))
  PROVE  t = d
<1> DEFINE w == W[r + 1]
<1>0. Frames(w, h, d)
  OBVIOUS
<1>1. \A j \in 1 .. Size(w) : At(b, (0 - 16) + j, w[j])
  BY LiesFirst
<1> HIDE DEF w
<1>2. Size(w) = 16 + Size(d) /\ Size(d) \in Nat /\ Follows(w, 16, d)
  BY <1>0, FramesParts, Zenon
<1>3. /\ t \in Seq(Byte) /\ Len(t) = Size(d) - 1 + 1
      /\ \A j \in 1 .. Size(d) - 1 + 1 : t[j] = b[1 + j - 1]
  BY Zenon DEF Part
<1>4. Size(b) \in Nat
  BY Typings, Zenon
<1>5. ASSUME NEW j \in 1 .. Size(d) PROVE t[j] = d[j]
  <2>1. /\ 16 + j \in 1 .. Size(w) /\ (0 - 16) + (16 + j) = j /\ 1 <= j /\ j <= Size(b)
        /\ j \in 1 .. Size(d) - 1 + 1 /\ 1 + j - 1 = j
    BY <1>2, <1>4
  <2>2. At(b, j, w[16 + j])
    BY <1>1, <2>1, Zenon
  <2>3. b[j] = w[16 + j]
    BY <2>1, <2>2, Zenon DEF At, Size
  <2>4. w[16 + j] = d[j]
    BY <1>2, Zenon DEF Follows, Size
  <2>5. t[j] = b[j]
    BY <1>3, <2>1, Zenon
  <2> QED BY <2>3, <2>4, <2>5, Zenon
<1>6. Size(d) - 1 + 1 = Size(d)
  BY <1>2
<1>7. d \in Seq(Byte) /\ Len(t) = Len(d)
  BY <1>0, <1>3, <1>6, Zenon DEF Frames, ByteSeq, Size
<1>8. \A j \in 1 .. Len(t) : t[j] = d[j]
  BY <1>5, <1>7, Zenon DEF Size
<1> QED BY <1>3, <1>7, <1>8, SameBytes, Zenon

LEMMA HeaderTaken ==
  ASSUME NEW b, NEW c, ByteSeq(b), ByteSeq(c), NEW r \in Nat, NEW n \in Nat, r <= n,
         NEW W, WireSeq(W, n), NEW gap \in Nat, NEW up,
         Lies(b, W, r, n, 0, gap, up), Rest(c, b, 16)
  PROVE  Lies(c, W, r, n, 0 - 16, gap, up)
<1>1. 0 \in Int /\ 16 \in Nat
  OBVIOUS
<1> QED BY <1>1, LiesRead, Zenon

LEMMA DataTaken ==
  ASSUME NEW b, NEW c, ByteSeq(b), ByteSeq(c), NEW r \in Nat, NEW n \in Nat, r < n,
         NEW W, WireSeq(W, n), NEW gap \in Nat, NEW up,
         Lies(b, W, r, n, 0 - 16, gap, up),
         NEW h, NEW d, Frames(W[r + 1], h, d), Rest(c, b, Size(d))
  PROVE  Lies(c, W, r + 1, n, 0, gap, up)
<1>1. 0 - 16 \in Int /\ r <= n
  OBVIOUS
<1>2. Size(d) \in Nat /\ Size(W[r + 1]) = 16 + Size(d)
  BY FramesParts, Zenon
<1>3. Lies(c, W, r, n, (0 - 16) - Size(d), gap, up)
  BY <1>1, <1>2, LiesRead, Zenon
<1>4. (0 - 16) - Size(d) \in Int /\ ((0 - 16) - Size(d)) + (16 + Size(d)) = 0
  BY <1>2
<1>5. Lies(c, W, r + 1, n, ((0 - 16) - Size(d)) + Size(W[r + 1]), gap, up)
  BY <1>3, <1>4, LiesNext, Zenon
<1> QED BY <1>2, <1>4, <1>5, Zenon

(* A packet without data is read with its header.                          *)
LEMMA EmptyTaken ==
  ASSUME NEW b, NEW c, ByteSeq(b), ByteSeq(c), NEW r \in Nat, NEW n \in Nat, r < n,
         NEW W, WireSeq(W, n), NEW gap \in Nat, NEW up,
         Lies(b, W, r, n, 0, gap, up), Rest(c, b, 16),
         NEW h, NEW d, Frames(W[r + 1], h, d), Size(d) = 0
  PROVE  Lies(c, W, r + 1, n, 0, gap, up)
<1>1. r <= n
  OBVIOUS
<1>2. Size(W[r + 1]) = 16 + 0
  BY FramesParts, Zenon
<1>3. Lies(c, W, r, n, 0 - 16, gap, up)
  BY <1>1, HeaderTaken, Zenon
<1>4. 0 - 16 \in Int /\ (0 - 16) + (16 + 0) = 0
  OBVIOUS
<1>5. Lies(c, W, r + 1, n, (0 - 16) + Size(W[r + 1]), gap, up)
  BY <1>3, <1>4, LiesNext, Zenon
<1> QED BY <1>2, <1>4, <1>5, Zenon

(* Stream b, of which the reader has read r packets of W and, when base is *)
(* not 0, the header of the next; gap bytes of the last are to be written. *)
Runs(b, r, base, c, W, n, gap) ==
  /\ ByteSeq(b) /\ WireSeq(W, n) /\ Lies(b, W, r, n, base, gap, c)
  /\ r \in Nat /\ n \in Nat /\ gap \in Nat
  /\ r <= n /\ (base # 0 => r < n) /\ base \in {0, 0 - 16}

(* What write_all of x does to the stream b, while the connection is c.    *)
Written(d, b, x, c) ==
  /\ ByteSeq(d) /\ (c = "up" => Joined(d, b, x)) /\ (c # "up" => d = b)

LEMMA RunsTyping ==
  ASSUME NEW b, NEW r, NEW base, NEW c, NEW W, NEW n, NEW gap,
         Runs(b, r, base, c, W, n, gap)
  PROVE  /\ r \in Nat /\ n \in Nat /\ gap \in Nat /\ r <= n /\ base \in Int
         /\ base = 0 \/ (r < n /\ base = 0 - 16)
         /\ ByteSeq(b) /\ Size(b) \in Nat
         /\ WireSeq(W, n) /\ \A i \in 1 .. n : Size(W[i]) \in Nat
         /\ Lies(b, W, r, n, base, gap, c)
<1>1. 0 \in Int /\ 0 - 16 \in Int
  OBVIOUS
<1> QED BY <1>1, Typings, Zenon DEF Runs

LEMMA RunsBound ==
  ASSUME NEW b, NEW r, NEW base, NEW c, NEW W, NEW n, NEW gap,
         Runs(b, r, base, c, W, n, gap)
  PROVE  /\ r = n => Size(b) = 0 /\ gap = 0
         /\ r + 1 = n => Size(b) + gap <= base + Size(W[n])
<1>1. /\ r \in Nat /\ n \in Nat /\ gap \in Nat /\ r <= n /\ base \in Int
      /\ base = 0 \/ (r < n /\ base = 0 - 16)
      /\ ByteSeq(b) /\ Size(b) \in Nat
      /\ WireSeq(W, n)
      /\ Lies(b, W, r, n, base, gap, c)
  BY RunsTyping
<1>2. r = n => Size(b) + gap <= base
  BY <1>1, LiesLength, Zenon
<1>3. r = n => base = 0
  BY <1>1
<1>4. r = n => Size(b) = 0 /\ gap = 0
  BY <1>1, <1>2, <1>3
<1>5. ASSUME r + 1 = n PROVE Size(b) + gap <= base + Size(W[n])
  <2>1. r < n /\ n \in 1 .. n
    BY <1>1, <1>5
  <2>2. Lies(b, W, r + 1, n, base + Size(W[r + 1]), gap, c)
    BY <1>1, <2>1, LiesNext, Zenon
  <2>3. Lies(b, W, n, n, base + Size(W[n]), gap, c)
    BY <1>5, <2>2, Zenon
  <2>4. Size(W[n]) \in Nat
    BY <1>1, <2>1, Typings, Zenon
  <2>5. base + Size(W[n]) \in Int /\ n <= n
    BY <1>1, <2>4
  <2> QED BY <1>1, <2>3, <2>5, LiesLength, Zenon
<1> QED BY <1>4, <1>5

LEMMA RunsLost ==
  ASSUME NEW b, NEW r, NEW base, NEW c, NEW W, NEW n, NEW gap,
         Runs(b, r, base, c, W, n, gap), NEW b2, Shorter(b2, b),
         NEW c2, c2 # "up", NEW gap2 \in Nat, gap2 <= gap
  PROVE  Runs(b2, r, base, c2, W, n, gap2)
<1>1. /\ r \in Nat /\ n \in Nat /\ gap \in Nat /\ r <= n /\ base \in Int
      /\ ByteSeq(b) /\ WireSeq(W, n) /\ Lies(b, W, r, n, base, gap, c)
  BY RunsTyping, Zenon
<1>2. ByteSeq(b2)
  BY Zenon DEF Shorter, ByteSeq
<1>3. Lies(b2, W, r, n, base, gap2, c2)
  BY <1>1, <1>2, LiesLost, Zenon
<1> QED BY <1>1, <1>2, <1>3, Zenon DEF Runs

LEMMA RunsHeader ==
  ASSUME NEW b, NEW r, NEW base, NEW c, NEW V, NEW n,
         Runs(b, r, base, c, V, n, 0), NEW w, NEW h, NEW d, Frames(w, h, d),
         NEW b2, Written(b2, b, ToBytes(h), c)
  PROVE  \E W : /\ Runs(b2, r, base, c, W, n + 1, Size(d))
                /\ Agree(W, V, n) /\ W[n + 1] = w /\ Size(W[n + 1]) = 16 + Size(d)
<1>1. /\ r \in Nat /\ n \in Nat /\ r <= n /\ base \in Int
      /\ base = 0 \/ (r < n /\ base = 0 - 16)
      /\ ByteSeq(b) /\ WireSeq(V, n) /\ Lies(b, V, r, n, base, 0, c)
  BY RunsTyping
<1>2. /\ ByteSeq(w) /\ Size(w) = 16 + Size(d) /\ Size(d) \in Nat
      /\ ByteSeq(ToBytes(h)) /\ Size(ToBytes(h)) = 16
      /\ Agree(w, ToBytes(h), 16)
  BY FramesParts, Zenon
<1>3. PICK W : WireSeq(W, n + 1) /\ Agree(W, V, n) /\ W[n + 1] = w
  <2> DEFINE W == [i \in 1 .. n + 1 |-> IF i = n + 1 THEN w ELSE V[i]]
  <2>1. w \in Seq(Byte) /\ V \in [1 .. n -> Seq(Byte)]
    BY <1>1, <1>2, Zenon DEF ByteSeq, WireSeq
  <2>2. \A i \in 1 .. n + 1 : i # n + 1 => i \in 1 .. n
    BY <1>1
  <2>3. W \in [1 .. n + 1 -> Seq(Byte)]
    BY <2>1, <2>2, Zenon
  <2>4. n + 1 \in 1 .. n + 1 /\ \A i \in 1 .. n : i \in 1 .. n + 1 /\ i # n + 1
    BY <1>1
  <2>5. W[n + 1] = w /\ \A i \in 1 .. n : W[i] = V[i]
    BY <2>4, Zenon
  <2> HIDE DEF W
  <2> QED BY <2>3, <2>5, Zenon DEF WireSeq, Agree
<1>4. /\ ByteSeq(b2) /\ (c = "up" => Joined(b2, b, ToBytes(h))) /\ (c # "up" => b2 = b)
  BY Zenon DEF Written
<1>5. Lies(b2, W, r, n + 1, base, Size(d), c)
  <2>1. /\ Size(W[n + 1]) = Size(ToBytes(h)) + Size(d)
        /\ Agree(W[n + 1], ToBytes(h), Size(ToBytes(h)))
    BY <1>2, <1>3, Zenon
  <2> QED BY <1>1, <1>2, <1>3, <1>4, <2>1, LiesHeader, Zenon
<1>6. n + 1 \in Nat /\ r <= n + 1 /\ (base = 0 \/ (r < n + 1 /\ base = 0 - 16))
  BY <1>1
<1>7. Runs(b2, r, base, c, W, n + 1, Size(d))
  BY <1>1, <1>2, <1>3, <1>4, <1>5, <1>6, Zenon DEF Runs
<1>8. Size(W[n + 1]) = 16 + Size(d)
  BY <1>2, <1>3, Zenon
<1> QED BY <1>3, <1>7, <1>8, Zenon

LEMMA RunsData ==
  ASSUME NEW b, NEW r, NEW base, NEW c, NEW W, NEW n, NEW gap,
         Runs(b, r, base, c, W, n, gap), NEW h, NEW d, Frames(W[n], h, d),
         Size(W[n]) = 16 + gap, gap # 0, NEW b2, Written(b2, b, d, c)
  PROVE  Runs(b2, r, base, c, W, n, 0)
<1>1. /\ r \in Nat /\ n \in Nat /\ gap \in Nat /\ r <= n /\ base \in Int
      /\ ByteSeq(b) /\ WireSeq(W, n) /\ Lies(b, W, r, n, base, gap, c)
  BY RunsTyping, Zenon
<1>2. Size(W[n]) = 16 + Size(d) /\ Size(d) \in Nat /\ Follows(W[n], 16, d)
  BY FramesParts, Zenon
<1>3. Size(d) = gap
  BY <1>1, <1>2
<1>4. r < n
  <2>1. r = n => gap = 0
    BY RunsBound
  <2> QED BY <1>1, <2>1
<1>5. /\ ByteSeq(b2) /\ (c = "up" => Joined(b2, b, d)) /\ (c # "up" => b2 = b)
  BY Zenon DEF Written
<1>6. ByteSeq(d)
  BY Zenon DEF Frames
<1>7. 16 \in Nat
  OBVIOUS
<1>8. Lies(b2, W, r, n, base, 0, c)
  BY <1>1, <1>2, <1>3, <1>4, <1>5, <1>6, <1>7, LiesData, Zenon
<1>9. base \in {0, 0 - 16} /\ 0 \in Nat
  BY Zenon DEF Runs
<1> QED BY <1>1, <1>4, <1>5, <1>8, <1>9, Zenon DEF Runs
LEMMA RunsThere ==
  ASSUME NEW b, NEW r, NEW c, NEW W, NEW n, NEW gap,
         Runs(b, r, 0, c, W, n, gap), Size(b) >= 16
  PROVE  r < n
<1>1. r \in Nat /\ n \in Nat /\ r <= n /\ Size(b) \in Nat
  BY RunsTyping
<1>2. r = n => Size(b) = 0
  BY RunsBound
<1> QED BY <1>1, <1>2

LEMMA RunsHeaderRead ==
  ASSUME NEW b, NEW r, NEW c, NEW W, NEW n, NEW gap,
         Runs(b, r, 0, c, W, n, gap), Size(b) >= 16,
         NEW h, NEW d, Frames(W[r + 1], h, d),
         NEW t, Part(t, b, 1, 16), NEW b2, Rest(b2, b, 16)
  PROVE  /\ FromBytes(t) = Wired(h)
         /\ Runs(b2, r, 0 - 16, c, W, n, gap)
         /\ Size(d) = 0 => Runs(b2, r + 1, 0, c, W, n, gap)
<1>1. r < n
  BY RunsThere, Zenon
<1>2. /\ r \in Nat /\ n \in Nat /\ gap \in Nat /\ r <= n
      /\ ByteSeq(b) /\ WireSeq(W, n) /\ Lies(b, W, r, n, 0, gap, c)
  BY RunsTyping, Zenon
<1>3. ByteSeq(b2)
  BY Zenon DEF Rest, ByteSeq
<1>4. FromBytes(t) = Wired(h)
  BY <1>1, <1>2, HeaderInFront, Zenon
<1>5. Lies(b2, W, r, n, 0 - 16, gap, c)
  BY <1>2, <1>3, HeaderTaken, Zenon
<1>6. Runs(b2, r, 0 - 16, c, W, n, gap)
  BY <1>1, <1>2, <1>3, <1>5, Zenon DEF Runs
<1>7. ASSUME Size(d) = 0 PROVE Runs(b2, r + 1, 0, c, W, n, gap)
  <2>1. Lies(b2, W, r + 1, n, 0, gap, c)
    BY <1>1, <1>2, <1>3, <1>7, EmptyTaken, Zenon
  <2>2. r + 1 \in Nat /\ r + 1 <= n
    BY <1>1, <1>2
  <2> QED BY <1>2, <1>3, <2>1, <2>2, Zenon DEF Runs
<1> QED BY <1>4, <1>6, <1>7, Zenon

LEMMA RunsDataRead ==
  ASSUME NEW b, NEW r, NEW c, NEW W, NEW n, NEW gap,
         Runs(b, r, 0 - 16, c, W, n, gap),
         NEW h, NEW d, Frames(W[r + 1], h, d), Size(b) >= Size(d),
         NEW t, Part(t, b, 1, Size(d)), NEW b2, Rest(b2, b, Size(d))
  PROVE  t = d /\ Runs(b2, r + 1, 0, c, W, n, gap)
<1>1. /\ r \in Nat /\ n \in Nat /\ gap \in Nat /\ r <= n
      /\ ByteSeq(b) /\ WireSeq(W, n) /\ Lies(b, W, r, n, 0 - 16, gap, c)
  BY RunsTyping, Zenon
<1>2. r < n
  BY RunsTyping
<1>3. ByteSeq(b2)
  BY Zenon DEF Rest, ByteSeq
<1>4. t = d
  BY <1>1, <1>2, DataInFront, Zenon
<1>5. Lies(b2, W, r + 1, n, 0, gap, c)
  BY <1>1, <1>2, <1>3, DataTaken, Zenon
<1>6. r + 1 \in Nat /\ r + 1 <= n
  BY <1>1, <1>2
<1>7. Runs(b2, r + 1, 0, c, W, n, gap)
  BY <1>1, <1>3, <1>5, <1>6, Zenon DEF Runs
<1> QED BY <1>4, <1>7

-----------------------------------------------------------------------------
(* What is written in the exchange. *)

FrameHead(e) == Framed(e.pkt, e.id).head
FrameData(e) == Framed(e.pkt, e.id).data

(* Behind the first k packets of W, which are of the handshake, come those *)
(* of the packets q that were sent.                                        *)
Carries(k, q, W, n) ==
  /\ n = k + Size(q)
  /\ \A i \in 1 .. Size(q) : Frames(W[k + i], FrameHead(q[i]), FrameData(q[i]))

LEMMA CarriesSent ==
  ASSUME NEW k \in Nat, NEW q \in Seq(SentRec), NEW V, NEW n, Carries(k, q, V, n),
         NEW e \in SentRec, NEW W, Agree(W, V, n),
         Frames(W[n + 1], FrameHead(e), FrameData(e))
  PROVE  Carries(k, Append(q, e), W, n + 1)
<1> DEFINE a == Append(q, e)
<1>1. Size(q) \in Nat /\ n = k + Size(q)
  BY LenProperties DEF Size, Carries
<1>2. Size(a) = Size(q) + 1 /\ a[Size(q) + 1] = e /\ \A i \in 1 .. Size(q) : a[i] = q[i]
  BY AppendProperties DEF Size
<1> HIDE DEF a
<1>3. n + 1 = k + Size(a) /\ n + 1 = k + (Size(q) + 1)
  BY <1>1, <1>2
<1>4. ASSUME NEW i \in 1 .. Size(a)
      PROVE  Frames(W[k + i], FrameHead(a[i]), FrameData(a[i]))
  <2>1. CASE i = Size(q) + 1
    BY <1>2, <1>3, <2>1, Zenon
  <2>2. CASE i # Size(q) + 1
    <3>1. i \in 1 .. Size(q) /\ k + i \in 1 .. n
      BY <1>1, <1>2, <2>2
    <3>2. Frames(V[k + i], FrameHead(q[i]), FrameData(q[i]))
      BY <3>1, Zenon DEF Carries
    <3>3. W[k + i] = V[k + i] /\ a[i] = q[i]
      BY <1>2, <3>1, Zenon DEF Agree
    <3> QED BY <3>2, <3>3, Zenon
  <2> QED BY <2>1, <2>2
<1>5. Carries(k, a, W, n + 1)
  BY <1>3, <1>4, Zenon DEF Carries
<1> QED BY <1>5 DEF a

(* What follows a packet to be sent.                                       *)
LEMMA FramesOf ==
  ASSUME NEW e \in SentRec, NEW w, Joined(w, ToBytes(FrameHead(e)), FrameData(e))
  PROVE  Frames(w, FrameHead(e), FrameData(e))
<1>1. e.pkt \in Payload /\ e.id \in Nat
  BY DEF SentRec
<1>2. FrameOf(Framed(e.pkt, e.id), e.pkt, e.id)
  BY <1>1, Framing, Zenon
<1>3. /\ FrameHead(e) \in HeaderGW /\ Fits(FrameHead(e)) /\ ByteSeq(FrameData(e))
      /\ FrameHead(e).size = Size(FrameData(e))
  BY <1>2, Zenon DEF FrameOf, FrameHead, FrameData, Fits, ByteSeq, Size
<1> QED BY <1>3, Zenon DEF Frames

LEMMA FrameRestores ==
  ASSUME NEW e \in SentRec
  PROVE  /\ FrameHead(e) \in HeaderGW /\ FrameData(e) \in Seq(Byte)
         /\ FrameHead(e).type = e.pkt.type /\ FrameHead(e).link = e.pkt.link
         /\ FrameHead(e).id = e.id /\ FrameHead(e).size = Size(FrameData(e))
         /\ Size(FrameData(e)) = 0 => e.pkt.data = <<>>
         /\ DecompressData(FrameData(e), IsCompressed(FrameHead(e))) = e.pkt.data
         /\ e.pkt = [type |-> e.pkt.type, link |-> e.pkt.link, data |-> e.pkt.data]
         /\ e.pkt.type \in DOMAIN Code \ HsTypes
<1>1. e.pkt \in Payload /\ e.id \in Nat
  BY DEF SentRec
<1>2. FrameOf(Framed(e.pkt, e.id), e.pkt, e.id)
  BY <1>1, Framing, Zenon
<1>3. /\ FrameHead(e) \in HeaderGW /\ FrameData(e) \in Seq(Byte)
      /\ FrameHead(e).type = e.pkt.type /\ FrameHead(e).link = e.pkt.link
      /\ FrameHead(e).id = e.id /\ FrameHead(e).size = Size(FrameData(e))
      /\ FrameData(e) = <<>> => e.pkt.data = <<>>
      /\ DecompressData(FrameData(e), IsCompressed(FrameHead(e))) = e.pkt.data
  BY <1>2, Zenon DEF FrameOf, FrameHead, FrameData, Size
<1>4. \A d \in Seq(Byte) : Size(d) = 0 => d = <<>>
  BY EmptySeq DEF Size
<1>5. /\ e.pkt = [type |-> e.pkt.type, link |-> e.pkt.link, data |-> e.pkt.data]
      /\ e.pkt.type \in DOMAIN Code \ HsTypes
  <2>1. e.pkt \in [type : DOMAIN Code \ HsTypes, link : U16, data : Seq(Byte)]
    BY <1>1, Zenon DEF Payload
  <2> QED BY <2>1
<1> QED BY <1>3, <1>4, <1>5, Zenon
LEMMA FramesExist ==
  ASSUME NEW e \in SentRec
  PROVE  \E w : Frames(w, FrameHead(e), FrameData(e))
<1>1. FrameHead(e) \in HeaderGW /\ FrameData(e) \in Seq(Byte)
  BY FrameRestores, Zenon
<1>2. ToBytes(FrameHead(e)) \in Seq(Byte)
  BY <1>1, HeaderBytes, Zenon
<1>3. \E w : Joined(w, ToBytes(FrameHead(e)), FrameData(e))
  BY <1>1, <1>2, Join, Zenon
<1> QED BY <1>3, FramesOf, Zenon

LEMMA CarriesNext ==
  ASSUME NEW k \in Nat, NEW m \in Nat, NEW q, Size(q) \in Nat, NEW W, NEW n,
         Carries(k, q, W, n), k + m < n
  PROVE  /\ m + 1 \in 1 .. Size(q)
         /\ Frames(W[(k + m) + 1], FrameHead(q[m + 1]), FrameData(q[m + 1]))
<1>1. n = k + Size(q)
  BY Zenon DEF Carries
<1>2. m + 1 \in 1 .. Size(q) /\ k + (m + 1) = (k + m) + 1
  BY <1>1
<1>3. Frames(W[k + (m + 1)], FrameHead(q[m + 1]), FrameData(q[m + 1]))
  BY <1>2, Zenon DEF Carries
<1> QED BY <1>2, <1>3, Zenon

LEMMA CarriesLast ==
  ASSUME NEW k \in Nat, NEW q, Size(q) \in Nat, Size(q) # 0, NEW W, NEW n,
         Carries(k, q, W, n)
  PROVE  Frames(W[n], FrameHead(q[Size(q)]), FrameData(q[Size(q)]))
<1>1. n = k + Size(q) /\ Size(q) \in 1 .. Size(q)
  BY DEF Carries
<1> QED BY <1>1, Zenon DEF Carries

-----------------------------------------------------------------------------
(* The stream to the client. *)

(* w is a packet of type typ with data d.                                  *)
Packet(w, typ, d) == \E h : h.type = typ /\ Frames(w, h, d)

(* Who holds the writer has still to write the data of the last packet;    *)
(* otherwise all is written, unless the handshake was given up.            *)
Pending(lk, pc, W, n, gap) ==
  IF lk = Free THEN pc # "refused" => gap = 0
               ELSE n # 0 /\ gap # 0 /\ Size(W[n]) = 16 + gap

Greeted == {"nonce", "await", "awaitBody", "accept", "deny"}
SrvPc   == Greeted \cup {"challenge", "acceptBody", "denyBody", "open", "refused"}

(* The server at pc, which has sent the packets q, has written W: the      *)
(* challenge, the verdict with its version v, and the packets.             *)
SrvLog(pc, q, v, W, n, gap) ==
  /\ n # 0 => Packet(W[1], "GwAuthChallenge", Nonce)
  /\ n \notin {0, 1} =>
       \/ /\ Packet(W[2], "GwConnected", v)
          /\ pc = "open" \/ (pc \in {"acceptBody", "refused"} /\ n = 2 /\ gap # 0)
       \/ Packet(W[2], "GwDeny", << 0 >>) /\ n = 2 /\ pc \in {"denyBody", "refused"}
  /\ pc = "challenge" => n = 0
  /\ pc \in Greeted => n = 1
  /\ pc \in {"acceptBody", "denyBody"} => n = 2
  /\ pc = "refused" => n \in {0, 1, 2}
  /\ pc = "open" => Carries(2, q, W, n)

ToCli(b, r, base, c, pc, lk, q, v) ==
  \E W, n, gap : /\ Runs(b, r, base, c, W, n, gap)
                 /\ Pending(lk, pc, W, n, gap)
                 /\ SrvLog(pc, q, v, W, n, gap)

LEMMA ToCliSame ==
  ASSUME NEW b, NEW r, NEW base, NEW c, NEW pc \in Greeted, NEW pc2 \in Greeted, NEW lk,
         NEW q, NEW v, ToCli(b, r, base, c, pc, lk, q, v)
  PROVE  ToCli(b, r, base, c, pc2, lk, q, v)
<1>1. PICK W, n, gap : /\ Runs(b, r, base, c, W, n, gap)
                       /\ Pending(lk, pc, W, n, gap)
                       /\ SrvLog(pc, q, v, W, n, gap)
  BY Zenon DEF ToCli
<1>2. SrvLog(pc2, q, v, W, n, gap)
  BY <1>1 DEF SrvLog, Greeted
<1>3. Pending(lk, pc2, W, n, gap)
  BY <1>1 DEF Pending, Greeted
<1> QED BY <1>1, <1>2, <1>3, Zenon DEF ToCli

(* The connection is gone, or going.                                       *)
LEMMA ToCliLost ==
  ASSUME NEW b, NEW r, NEW base, NEW c, NEW pc \in SrvPc, NEW lk, NEW q, NEW v,
         ToCli(b, r, base, c, pc, lk, q, v),
         NEW b2, Shorter(b2, b), NEW c2, c2 # "up",
         NEW pc2, pc2 = pc \/ (pc2 = "refused" /\ pc # "open"),
         NEW lk2, lk2 = lk \/ (lk2 = Free /\ pc2 = "refused")
  PROVE  ToCli(b2, r, base, c2, pc2, lk2, q, v)
<1>1. PICK W, n, gap : /\ Runs(b, r, base, c, W, n, gap)
                       /\ Pending(lk, pc, W, n, gap)
                       /\ SrvLog(pc, q, v, W, n, gap)
  BY Zenon DEF ToCli
<1>2. gap \in Nat /\ gap <= gap
  BY <1>1, RunsTyping
<1>3. Runs(b2, r, base, c2, W, n, gap)
  BY <1>1, <1>2, RunsLost, Zenon
<1>4. Pending(lk2, pc2, W, n, gap)
  BY <1>1 DEF Pending
<1>5. SrvLog(pc2, q, v, W, n, gap)
  BY <1>1 DEF SrvLog, Greeted, SrvPc
<1> QED BY <1>3, <1>4, <1>5, Zenon DEF ToCli

LEMMA ShorterSame ==
  ASSUME NEW b, ByteSeq(b)
  PROVE  Shorter(b, b)
<1>1. b \in Seq(Byte) /\ Len(b) \in Nat
  BY Typings, Zenon DEF ByteSeq, Size
<1>2. Len(b) <= Len(b)
  BY <1>1
<1> QED BY <1>1, <1>2, Zenon DEF Shorter

LEMMA ToCliTaskFails ==
  ASSUME NEW b, ByteSeq(b), NEW r, NEW base, NEW c, c # "up", NEW lk, NEW q, NEW v,
         ToCli(b, r, base, c, "open", lk, q, v)
  PROVE  ToCli(b, r, base, c, "open", Free, q, v)
<1>1. PICK W, n, gap : /\ Runs(b, r, base, c, W, n, gap)
                       /\ Pending(lk, "open", W, n, gap)
                       /\ SrvLog("open", q, v, W, n, gap)
  BY Zenon DEF ToCli
<1>2. gap \in Nat /\ 0 \in Nat /\ 0 <= gap
  BY <1>1, RunsTyping
<1>3. Shorter(b, b)
  BY ShorterSame, Zenon
<1>4. Runs(b, r, base, c, W, n, 0)
  BY <1>1, <1>2, <1>3, RunsLost, Zenon
<1>5. Pending(Free, "open", W, n, 0)
  BY DEF Pending
<1>6. SrvLog("open", q, v, W, n, 0)
  BY <1>1 DEF SrvLog, Greeted
<1> QED BY <1>4, <1>5, <1>6, Zenon DEF ToCli

LEMMA ToCliHsHeader ==
  ASSUME NEW b, NEW r, NEW base, NEW c, NEW from, NEW q, NEW v,
         ToCli(b, r, base, c, from, Free, q, v),
         NEW w, NEW h, NEW d, Frames(w, h, d), Size(d) # 0,
         NEW b2, Written(b2, b, ToBytes(h), c), NEW to,
         \/ from = "challenge" /\ to = "nonce" /\ h.type = "GwAuthChallenge" /\ d = Nonce
         \/ from = "accept" /\ to = "acceptBody" /\ h.type = "GwConnected" /\ d = v
         \/ from = "deny" /\ to = "denyBody" /\ h.type = "GwDeny" /\ d = << 0 >>
  PROVE  ToCli(b2, r, base, c, to, "handshake", q, v)
<1>1. PICK V, n, gap : /\ Runs(b, r, base, c, V, n, gap)
                       /\ Pending(Free, from, V, n, gap)
                       /\ SrvLog(from, q, v, V, n, gap)
  BY Zenon DEF ToCli
<1>2. gap = 0
  BY <1>1 DEF Pending
<1>3. PICK W : /\ Runs(b2, r, base, c, W, n + 1, Size(d))
               /\ Agree(W, V, n) /\ W[n + 1] = w /\ Size(W[n + 1]) = 16 + Size(d)
  <2>1. Runs(b, r, base, c, V, n, 0)
    BY <1>1, <1>2
  <2>2. \E W : /\ Runs(b2, r, base, c, W, n + 1, Size(d))
                /\ Agree(W, V, n) /\ W[n + 1] = w /\ Size(W[n + 1]) = 16 + Size(d)
    BY <2>1, RunsHeader
  <2> QED BY <2>2
<1>4. Packet(W[n + 1], h.type, d)
  BY <1>3, Zenon DEF Packet
<1>5. n \in Nat
  BY <1>1, RunsTyping
<1>6. Pending("handshake", to, W, n + 1, Size(d))
  BY <1>3, <1>5 DEF Pending, Free
<1>7. SrvLog(to, q, v, W, n + 1, Size(d))
  <2>1. CASE from = "challenge"
    <3>1. n + 1 = 1 /\ to = "nonce" /\ h.type = "GwAuthChallenge" /\ d = Nonce
      BY <1>1, <2>1 DEF SrvLog
    <3>2. Packet(W[1], "GwAuthChallenge", Nonce)
      BY <1>4, <3>1, Zenon
    <3> QED BY <3>1, <3>2 DEF SrvLog, Greeted
  <2>2. CASE from # "challenge"
    <3>1. n = 1 /\ n + 1 = 2 /\ Packet(V[1], "GwAuthChallenge", Nonce)
      BY <1>1, <2>2 DEF SrvLog, Greeted
    <3>2. 1 \in 1 .. n
      BY <3>1
    <3>3. Packet(W[1], "GwAuthChallenge", Nonce)
      BY <1>3, <3>1, <3>2, Zenon DEF Agree
    <3>4. Packet(W[2], h.type, d)
      BY <1>4, <3>1, Zenon
    <3> QED BY <2>2, <3>1, <3>3, <3>4 DEF SrvLog, Greeted
  <2> QED BY <2>1, <2>2
<1> QED BY <1>3, <1>6, <1>7, Zenon DEF ToCli

LEMMA ToCliHsData ==
  ASSUME NEW b, NEW r, NEW base, NEW c, NEW from, NEW lk, lk # Free, NEW q, q = <<>>,
         NEW v, ToCli(b, r, base, c, from, lk, q, v),
         NEW d, NEW b2, Written(b2, b, d, c), NEW to,
         \/ from = "nonce" /\ to = "await" /\ d = Nonce
         \/ from = "acceptBody" /\ to = "open" /\ d = v
         \/ from = "denyBody" /\ to = "refused" /\ d = << 0 >>
  PROVE  ToCli(b2, r, base, c, to, Free, q, v)
<1>1. PICK W, n, gap : /\ Runs(b, r, base, c, W, n, gap)
                       /\ Pending(lk, from, W, n, gap)
                       /\ SrvLog(from, q, v, W, n, gap)
  BY Zenon DEF ToCli
<1>2. gap # 0 /\ Size(W[n]) = 16 + gap
  BY <1>1 DEF Pending
<1>3. /\ from = "nonce" => n = 1
      /\ from # "nonce" => n = 2
      /\ Packet(W[1], "GwAuthChallenge", Nonce)
      /\ from = "acceptBody" => Packet(W[2], "GwConnected", v)
      /\ from = "denyBody" => Packet(W[2], "GwDeny", << 0 >>)
  BY <1>1 DEF SrvLog, Greeted
<1>4. PICK typ : Packet(W[n], typ, d)
  BY <1>3
<1>5. PICK h : Frames(W[n], h, d)
  BY <1>4, Zenon DEF Packet
<1>6. Runs(b2, r, base, c, W, n, 0)
  BY <1>1, <1>2, <1>5, RunsData, Zenon
<1>7. Pending(Free, to, W, n, 0)
  BY DEF Pending
<1>8. from = "acceptBody" => Carries(2, q, W, n)
  <2>1. Size(q) = 0
    BY DEF Size
  <2> QED BY <1>3, <2>1 DEF Carries
<1>9. SrvLog(to, q, v, W, n, 0)
  BY <1>3, <1>8 DEF SrvLog, Greeted
<1> QED BY <1>6, <1>7, <1>9, Zenon DEF ToCli
(* A task writes a header, and then the data.                              *)
LEMMA ToCliHeader ==
  ASSUME NEW b, NEW r, NEW base, NEW c, NEW q \in Seq(SentRec), NEW v,
         ToCli(b, r, base, c, "open", Free, q, v), NEW e \in SentRec, NEW lk,
         lk = Free <=> Size(FrameData(e)) = 0,
         NEW b2, Written(b2, b, ToBytes(FrameHead(e)), c)
  PROVE  ToCli(b2, r, base, c, "open", lk, Append(q, e), v)
<1>1. PICK V, n, gap : /\ Runs(b, r, base, c, V, n, gap)
                       /\ Pending(Free, "open", V, n, gap)
                       /\ SrvLog("open", q, v, V, n, gap)
  BY Zenon DEF ToCli
<1>2. gap = 0
  BY <1>1 DEF Pending
<1>3. PICK w : Frames(w, FrameHead(e), FrameData(e))
  BY FramesExist, Zenon
<1>4. PICK W : /\ Runs(b2, r, base, c, W, n + 1, Size(FrameData(e)))
               /\ Agree(W, V, n) /\ W[n + 1] = w
               /\ Size(W[n + 1]) = 16 + Size(FrameData(e))
  <2>1. Runs(b, r, base, c, V, n, 0)
    BY <1>1, <1>2
  <2>2. \E W : /\ Runs(b2, r, base, c, W, n + 1, Size(FrameData(e)))
               /\ Agree(W, V, n) /\ W[n + 1] = w
               /\ Size(W[n + 1]) = 16 + Size(FrameData(e))
    BY <1>3, <2>1, RunsHeader
  <2> QED BY <2>2
<1>5. Carries(2, q, V, n) /\ 2 \in Nat /\ Size(q) \in Nat
  BY <1>1, LenProperties DEF SrvLog, Size
<1>6. n = 2 + Size(q)
  BY <1>5, Zenon DEF Carries
<1>7. n \in Nat /\ n \notin {0, 1} /\ 1 \in 1 .. n /\ 2 \in 1 .. n /\ n + 1 \notin {0, 1}
  BY <1>5, <1>6
<1>8. Carries(2, Append(q, e), W, n + 1)
  BY <1>3, <1>4, <1>5, CarriesSent, Zenon
<1>9. Packet(V[1], "GwAuthChallenge", Nonce) /\ Packet(V[2], "GwConnected", v)
  BY <1>1, <1>7 DEF SrvLog
<1>10. Packet(W[1], "GwAuthChallenge", Nonce) /\ Packet(W[2], "GwConnected", v)
  BY <1>4, <1>7, <1>9, Zenon DEF Agree
<1>11. SrvLog("open", Append(q, e), v, W, n + 1, Size(FrameData(e)))
  BY <1>7, <1>8, <1>10 DEF SrvLog, Greeted
<1>12. Pending(lk, "open", W, n + 1, Size(FrameData(e)))
  BY <1>4, <1>7 DEF Pending
<1> QED BY <1>4, <1>11, <1>12, Zenon DEF ToCli

LEMMA ToCliData ==
  ASSUME NEW b, NEW r, NEW base, NEW c, NEW q \in Seq(SentRec), Size(q) # 0, NEW v,
         NEW lk, lk # Free, ToCli(b, r, base, c, "open", lk, q, v),
         NEW b2, Written(b2, b, FrameData(q[Size(q)]), c)
  PROVE  ToCli(b2, r, base, c, "open", Free, q, v)
<1>1. PICK W, n, gap : /\ Runs(b, r, base, c, W, n, gap)
                       /\ Pending(lk, "open", W, n, gap)
                       /\ SrvLog("open", q, v, W, n, gap)
  BY Zenon DEF ToCli
<1>2. gap # 0 /\ Size(W[n]) = 16 + gap
  BY <1>1 DEF Pending
<1>3. Carries(2, q, W, n) /\ 2 \in Nat /\ Size(q) \in Nat
  BY <1>1, LenProperties DEF SrvLog, Size
<1>4. Frames(W[n], FrameHead(q[Size(q)]), FrameData(q[Size(q)]))
  BY <1>3, CarriesLast, Zenon
<1>5. Runs(b2, r, base, c, W, n, 0)
  BY <1>1, <1>2, <1>4, RunsData, Zenon
<1>6. Pending(Free, "open", W, n, 0)
  BY DEF Pending
<1>7. SrvLog("open", q, v, W, n, 0)
  BY <1>1 DEF SrvLog, Greeted
<1> QED BY <1>5, <1>6, <1>7, Zenon DEF ToCli

(* The client reads the challenge: its header, then the nonce.             *)
LEMMA ToCliChallenge ==
  ASSUME NEW b, NEW c, NEW pc, NEW lk, NEW q, NEW v, Size(b) >= 16,
         ToCli(b, 0, 0, c, pc, lk, q, v), NEW t, Part(t, b, 1, 16), NEW b2, Rest(b2, b, 16)
  PROVE  /\ FromBytes(t).type = "GwAuthChallenge" /\ FromBytes(t).size = NONCE_SIZE
         /\ ToCli(b2, 0, 0 - 16, c, pc, lk, q, v)
<1>1. PICK W, n, gap : /\ Runs(b, 0, 0, c, W, n, gap)
                       /\ Pending(lk, pc, W, n, gap)
                       /\ SrvLog(pc, q, v, W, n, gap)
  BY Zenon DEF ToCli
<1>2. 0 < n /\ n \in Nat
  BY <1>1, RunsThere, RunsTyping
<1>3. Packet(W[1], "GwAuthChallenge", Nonce)
  BY <1>1, <1>2 DEF SrvLog
<1>4. PICK h : h.type = "GwAuthChallenge" /\ Frames(W[1], h, Nonce)
  BY <1>3, Zenon DEF Packet
<1>5. 0 + 1 = 1
  OBVIOUS
<1>6. FromBytes(t) = Wired(h) /\ Runs(b2, 0, 0 - 16, c, W, n, gap)
  BY <1>1, <1>4, <1>5, RunsHeaderRead, Zenon
<1>7. h \in HeaderGW /\ h.size = Size(Nonce)
  BY <1>4, Zenon DEF Frames
<1>8. Size(Nonce) = NONCE_SIZE
  BY NonceTyping, Zenon DEF Size
<1>9. FromBytes(t).type = "GwAuthChallenge" /\ FromBytes(t).size = NONCE_SIZE
  BY <1>4, <1>6, <1>7, <1>8, WiredFields, Zenon
<1> QED BY <1>1, <1>6, <1>9, Zenon DEF ToCli

LEMMA ToCliNonce ==
  ASSUME NEW b, NEW c, NEW pc, NEW lk, NEW q, NEW v, Size(b) >= NONCE_SIZE,
         ToCli(b, 0, 0 - 16, c, pc, lk, q, v),
         NEW t, Part(t, b, 1, NONCE_SIZE), NEW b2, Rest(b2, b, NONCE_SIZE)
  PROVE  t = Nonce /\ ToCli(b2, 1, 0, c, pc, lk, q, v)
<1>1. PICK W, n, gap : /\ Runs(b, 0, 0 - 16, c, W, n, gap)
                       /\ Pending(lk, pc, W, n, gap)
                       /\ SrvLog(pc, q, v, W, n, gap)
  BY Zenon DEF ToCli
<1>2. 0 < n /\ n \in Nat
  BY <1>1, RunsTyping
<1>3. Packet(W[1], "GwAuthChallenge", Nonce)
  BY <1>1, <1>2 DEF SrvLog
<1>4. PICK h : Frames(W[1], h, Nonce)
  BY <1>3, Zenon DEF Packet
<1>5. 0 + 1 = 1
  OBVIOUS
<1>6. Size(Nonce) = NONCE_SIZE
  BY NonceTyping, Zenon DEF Size
<1>7. t = Nonce /\ Runs(b2, 1, 0, c, W, n, gap)
  <2>1. Size(b) >= Size(Nonce) /\ Part(t, b, 1, Size(Nonce)) /\ Rest(b2, b, Size(Nonce))
    BY <1>6
  <2>2. Frames(W[0 + 1], h, Nonce)
    BY <1>4, <1>5, Zenon
  <2>3. t = Nonce /\ Runs(b2, 0 + 1, 0, c, W, n, gap)
    BY <1>1, <2>1, <2>2, RunsDataRead, Zenon
  <2> QED BY <1>5, <2>3, Zenon
<1> QED BY <1>1, <1>7, Zenon DEF ToCli
(* The client reads the verdict: the header, then the version, which was   *)
(* written by a server that is open.                                       *)
LEMMA ToCliVerdict ==
  ASSUME NEW b, NEW c, NEW pc, NEW lk, NEW q, NEW v, Size(b) >= 16,
         ToCli(b, 1, 0, c, pc, lk, q, v), NEW t, Part(t, b, 1, 16), NEW b2, Rest(b2, b, 16)
  PROVE  \/ /\ FromBytes(t).type = "GwConnected" /\ FromBytes(t).size = Size(v)
            /\ ToCli(b2, 1, 0 - 16, c, pc, lk, q, v)
         \/ FromBytes(t).type = "GwDeny" /\ FromBytes(t).size = 1
<1>1. PICK W, n, gap : /\ Runs(b, 1, 0, c, W, n, gap)
                       /\ Pending(lk, pc, W, n, gap)
                       /\ SrvLog(pc, q, v, W, n, gap)
  BY Zenon DEF ToCli
<1>2. 1 < n /\ n \in Nat
  BY <1>1, RunsThere, RunsTyping
<1>3. Packet(W[2], "GwConnected", v) \/ Packet(W[2], "GwDeny", << 0 >>)
  BY <1>1, <1>2 DEF SrvLog
<1>4. PICK h, d : /\ Frames(W[2], h, d)
                  /\ \/ h.type = "GwConnected" /\ d = v
                     \/ h.type = "GwDeny" /\ d = << 0 >>
  <2>1. CASE Packet(W[2], "GwConnected", v)
    BY <2>1, Zenon DEF Packet
  <2>2. CASE Packet(W[2], "GwDeny", << 0 >>)
    BY <2>2, Zenon DEF Packet
  <2> QED BY <1>3, <2>1, <2>2, Zenon
<1>5. 1 + 1 = 2
  OBVIOUS
<1>6. Frames(W[1 + 1], h, d)
  BY <1>4, <1>5, Zenon
<1>7. FromBytes(t) = Wired(h) /\ Runs(b2, 1, 0 - 16, c, W, n, gap)
  BY <1>1, <1>6, RunsHeaderRead, Zenon
<1>8. h \in HeaderGW /\ h.size = Size(d)
  BY <1>4, Zenon DEF Frames
<1>9. FromBytes(t).type = h.type /\ FromBytes(t).size = Size(d)
  BY <1>7, <1>8, WiredFields, Zenon
<1>10. Size(<< 0 >>) = 1
  BY DEF Size
<1>11. ToCli(b2, 1, 0 - 16, c, pc, lk, q, v)
  BY <1>1, <1>7, Zenon DEF ToCli
<1> QED BY <1>4, <1>9, <1>10, <1>11, Zenon

LEMMA ToCliVersion ==
  ASSUME NEW b, NEW c, NEW pc, NEW lk, NEW q, NEW v, Size(v) = 12, Size(b) >= 12,
         ToCli(b, 1, 0 - 16, c, pc, lk, q, v),
         NEW t, Part(t, b, 1, 12), NEW b2, Rest(b2, b, 12)
  PROVE  pc = "open" /\ t = v /\ ToCli(b2, 2, 0, c, pc, lk, q, v)
<1>1. PICK W, n, gap : /\ Runs(b, 1, 0 - 16, c, W, n, gap)
                       /\ Pending(lk, pc, W, n, gap)
                       /\ SrvLog(pc, q, v, W, n, gap)
  BY Zenon DEF ToCli
<1>2. 1 < n /\ n \in Nat /\ gap \in Nat /\ Size(b) \in Nat
  BY <1>1, RunsTyping
<1>3. n = 2 => Size(b) + gap <= (0 - 16) + Size(W[2])
  <2>1. n = 2 => 1 + 1 = n
    OBVIOUS
  <2>2. 1 + 1 = n => Size(b) + gap <= (0 - 16) + Size(W[n])
    BY <1>1, RunsBound, Zenon
  <2> QED BY <2>1, <2>2, Zenon
<1>4. ~Packet(W[2], "GwDeny", << 0 >>) \/ n # 2
  <2>1. ASSUME Packet(W[2], "GwDeny", << 0 >>), n = 2 PROVE FALSE
    <3>1. PICK h : Frames(W[2], h, << 0 >>)
      BY <2>1, Zenon DEF Packet
    <3>2. Size(W[2]) = 16 + Size(<< 0 >>)
      BY <3>1, FramesParts, Zenon
    <3>3. Size(<< 0 >>) = 1
      BY DEF Size
    <3> QED BY <1>2, <1>3, <2>1, <3>2, <3>3
  <2> QED BY <2>1
<1>5. Packet(W[2], "GwConnected", v) /\ (pc = "open" \/ (n = 2 /\ gap # 0))
  BY <1>1, <1>2, <1>4 DEF SrvLog
<1>6. PICK h : Frames(W[2], h, v)
  BY <1>5, Zenon DEF Packet
<1>7. pc = "open"
  <2>1. Size(W[2]) = 16 + Size(v)
    BY <1>6, FramesParts, Zenon
  <2>2. n = 2 => gap = 0
    BY <1>2, <1>3, <2>1
  <2> QED BY <1>5, <2>2
<1>8. t = v /\ Runs(b2, 2, 0, c, W, n, gap)
  <2>1. Size(b) >= Size(v) /\ Part(t, b, 1, Size(v)) /\ Rest(b2, b, Size(v))
    OBVIOUS
  <2>2. 1 + 1 = 2
    OBVIOUS
  <2>3. Frames(W[1 + 1], h, v)
    BY <1>6, <2>2, Zenon
  <2>4. t = v /\ Runs(b2, 1 + 1, 0, c, W, n, gap)
    BY <1>1, <2>1, <2>3, RunsDataRead, Zenon
  <2> QED BY <2>2, <2>4, Zenon
<1> QED BY <1>1, <1>7, <1>8, Zenon DEF ToCli

(* The client reads a packet of the exchange.                              *)
LEMMA ToCliExchangeHeader ==
  ASSUME NEW b, NEW c, NEW lk, NEW q, Size(q) \in Nat, NEW v, Size(b) >= 16,
         NEW m \in Nat, ToCli(b, 2 + m, 0, c, "open", lk, q, v),
         NEW t, Part(t, b, 1, 16), NEW b2, Rest(b2, b, 16)
  PROVE  /\ m + 1 \in 1 .. Size(q)
         /\ FromBytes(t) = Wired(FrameHead(q[m + 1]))
         /\ ToCli(b2, 2 + m, 0 - 16, c, "open", lk, q, v)
         /\ Size(FrameData(q[m + 1])) = 0 =>
              ToCli(b2, (2 + m) + 1, 0, c, "open", lk, q, v)
<1>1. PICK W, n, gap : /\ Runs(b, 2 + m, 0, c, W, n, gap)
                       /\ Pending(lk, "open", W, n, gap)
                       /\ SrvLog("open", q, v, W, n, gap)
  BY Zenon DEF ToCli
<1>2. 2 + m < n /\ 2 \in Nat
  BY <1>1, RunsThere
<1>3. Carries(2, q, W, n)
  BY <1>1 DEF SrvLog
<1>4. /\ m + 1 \in 1 .. Size(q)
      /\ Frames(W[(2 + m) + 1], FrameHead(q[m + 1]), FrameData(q[m + 1]))
  BY <1>2, <1>3, CarriesNext, Zenon
<1>5. /\ FromBytes(t) = Wired(FrameHead(q[m + 1]))
      /\ Runs(b2, 2 + m, 0 - 16, c, W, n, gap)
      /\ Size(FrameData(q[m + 1])) = 0 => Runs(b2, (2 + m) + 1, 0, c, W, n, gap)
  BY <1>1, <1>4, RunsHeaderRead
<1> QED BY <1>1, <1>4, <1>5, Zenon DEF ToCli

(* The data of the packet behind the first m of q.                         *)
IsNext(d, q, m) == d = FrameData(q[m + 1])

LEMMA ToCliExchangeData ==
  ASSUME NEW b, NEW c, NEW lk, NEW q, Size(q) \in Nat, NEW v,
         NEW m \in Nat, ToCli(b, 2 + m, 0 - 16, c, "open", lk, q, v),
         NEW d, IsNext(d, q, m), Size(b) >= Size(d),
         NEW t, Part(t, b, 1, Size(d)), NEW b2, Rest(b2, b, Size(d))
  PROVE  t = d /\ ToCli(b2, (2 + m) + 1, 0, c, "open", lk, q, v)
<1>1. PICK W, n, gap : /\ Runs(b, 2 + m, 0 - 16, c, W, n, gap)
                       /\ Pending(lk, "open", W, n, gap)
                       /\ SrvLog("open", q, v, W, n, gap)
  BY Zenon DEF ToCli
<1>2. 2 + m < n /\ 2 \in Nat
  BY <1>1, RunsTyping
<1>3. Carries(2, q, W, n)
  BY <1>1 DEF SrvLog
<1>4. Frames(W[(2 + m) + 1], FrameHead(q[m + 1]), d)
  BY <1>2, <1>3, CarriesNext, Zenon DEF IsNext
<1>5. t = d /\ Runs(b2, (2 + m) + 1, 0, c, W, n, gap)
  <2> DEFINE r == 2 + m
             h == FrameHead(q[m + 1])
  <2>1. Runs(b, r, 0 - 16, c, W, n, gap) /\ Frames(W[r + 1], h, d)
    BY <1>1, <1>4
  <2> HIDE DEF r, h
  <2>2. t = d /\ Runs(b2, r + 1, 0, c, W, n, gap)
    BY <2>1, RunsDataRead, Zenon
  <2> QED BY <2>2 DEF r
<1> QED BY <1>1, <1>5, Zenon DEF ToCli

-----------------------------------------------------------------------------
(* From the client to the server. *)

Fresh == {"wait", "waitBody", "respond"}

(* The client at pc, which has sent the packets q, has written W: its      *)
(* response x, and the packets.                                            *)
CliLog(pc, q, x, W, n) ==
  /\ n # 0 => Packet(W[1], "GwAuthResponse", x)
  /\ pc \in Fresh => n = 0
  /\ pc \notin Fresh => Carries(1, q, W, n)
  /\ pc \in Fresh \cup {"respondBody"} => q = <<>>

ToSrv(b, r, base, c, pc, lk, q, x) ==
  \E W, n, gap : /\ Runs(b, r, base, c, W, n, gap)
                 /\ Pending(lk, pc, W, n, gap)
                 /\ CliLog(pc, q, x, W, n)

LEMMA ToSrvSame ==
  ASSUME NEW b, NEW r, NEW base, NEW c, NEW pc, NEW pc2, NEW lk,
         NEW q, NEW x, ToSrv(b, r, base, c, pc, lk, q, x),
         \/ pc \in Fresh /\ pc2 \in Fresh
         \/ {pc, pc2} \cap (Fresh \cup {"respondBody", "refused"}) = {}
  PROVE  ToSrv(b, r, base, c, pc2, lk, q, x)
<1>1. PICK W, n, gap : /\ Runs(b, r, base, c, W, n, gap)
                       /\ Pending(lk, pc, W, n, gap)
                       /\ CliLog(pc, q, x, W, n)
  BY Zenon DEF ToSrv
<1>2. CliLog(pc2, q, x, W, n)
  BY <1>1 DEF CliLog
<1>3. Pending(lk, pc2, W, n, gap)
  BY <1>1 DEF Pending, Fresh
<1> QED BY <1>1, <1>2, <1>3, Zenon DEF ToSrv

LEMMA ToSrvLost ==
  ASSUME NEW b, NEW r, NEW base, NEW c, NEW pc, NEW lk, NEW q, NEW x,
         ToSrv(b, r, base, c, pc, lk, q, x),
         NEW b2, Shorter(b2, b), NEW c2, c2 # "up",
         NEW pc2, pc2 = pc \/ (pc2 = "refused" /\ pc \notin Fresh),
         NEW lk2, lk2 = lk \/ (lk2 = Free /\ pc2 = "refused")
  PROVE  ToSrv(b2, r, base, c2, pc2, lk2, q, x)
<1>1. PICK W, n, gap : /\ Runs(b, r, base, c, W, n, gap)
                       /\ Pending(lk, pc, W, n, gap)
                       /\ CliLog(pc, q, x, W, n)
  BY Zenon DEF ToSrv
<1>2. gap \in Nat /\ gap <= gap
  BY <1>1, RunsTyping
<1>3. Runs(b2, r, base, c2, W, n, gap)
  BY <1>1, <1>2, RunsLost, Zenon
<1>4. Pending(lk2, pc2, W, n, gap)
  BY <1>1 DEF Pending
<1>5. CliLog(pc2, q, x, W, n)
  BY <1>1 DEF CliLog, Fresh
<1> QED BY <1>3, <1>4, <1>5, Zenon DEF ToSrv

(* On a connection that is gone, what is missing is no longer expected.    *)
LEMMA ToSrvTaskFails ==
  ASSUME NEW b, ByteSeq(b), NEW r, NEW base, NEW c, c # "up", NEW pc, NEW lk, NEW q,
         NEW x, ToSrv(b, r, base, c, pc, lk, q, x)
  PROVE  \E W, n : Runs(b, r, base, c, W, n, 0) /\ CliLog(pc, q, x, W, n)
<1>1. PICK W, n, gap : /\ Runs(b, r, base, c, W, n, gap)
                       /\ CliLog(pc, q, x, W, n)
  BY Zenon DEF ToSrv
<1>2. gap \in Nat /\ 0 \in Nat /\ 0 <= gap
  BY <1>1, RunsTyping
<1>3. Shorter(b, b)
  BY ShorterSame, Zenon
<1>4. Runs(b, r, base, c, W, n, 0)
  BY <1>1, <1>2, <1>3, RunsLost, Zenon
<1> QED BY <1>1, <1>4, Zenon

LEMMA ToSrvReleased ==
  ASSUME NEW b, ByteSeq(b), NEW r, NEW base, NEW c, c # "up", NEW pc, NEW lk, NEW q,
         NEW x, ToSrv(b, r, base, c, pc, lk, q, x)
  PROVE  ToSrv(b, r, base, c, pc, Free, q, x)
<1>1. PICK W, n : Runs(b, r, base, c, W, n, 0) /\ CliLog(pc, q, x, W, n)
  <2>1. \E W, n : Runs(b, r, base, c, W, n, 0) /\ CliLog(pc, q, x, W, n)
    BY ToSrvTaskFails
  <2> QED BY <2>1
<1>2. Pending(Free, pc, W, n, 0)
  BY DEF Pending
<1> QED BY <1>1, <1>2, Zenon DEF ToSrv

(* Nothing is written before the response.                                 *)
LEMMA ToSrvFresh ==
  ASSUME NEW b, NEW r, NEW base, NEW c, NEW pc \in Fresh, NEW lk, NEW q, NEW x,
         ToSrv(b, r, base, c, pc, lk, q, x)
  PROVE  Size(b) = 0 /\ r = 0 /\ base = 0 /\ lk = Free
<1>1. PICK W, n, gap : /\ Runs(b, r, base, c, W, n, gap)
                       /\ Pending(lk, pc, W, n, gap)
                       /\ CliLog(pc, q, x, W, n)
  BY Zenon DEF ToSrv
<1>2. n = 0
  BY <1>1 DEF CliLog
<1>3. r = 0 /\ base = 0
  BY <1>1, <1>2, RunsTyping
<1>4. Size(b) = 0
  BY <1>1, <1>2, <1>3, RunsBound
<1>5. lk = Free
  BY <1>1, <1>2 DEF Pending
<1> QED BY <1>3, <1>4, <1>5

LEMMA ToSrvHsHeader ==
  ASSUME NEW b, NEW r, NEW base, NEW c, NEW q, NEW x,
         ToSrv(b, r, base, c, "respond", Free, q, x),
         NEW w, NEW h, h.type = "GwAuthResponse", Frames(w, h, x), Size(x) # 0,
         NEW b2, Written(b2, b, ToBytes(h), c)
  PROVE  ToSrv(b2, r, base, c, "respondBody", "handshake", q, x)
<1>1. PICK V, n, gap : /\ Runs(b, r, base, c, V, n, gap)
                       /\ Pending(Free, "respond", V, n, gap)
                       /\ CliLog("respond", q, x, V, n)
  BY Zenon DEF ToSrv
<1>2. gap = 0
  BY <1>1 DEF Pending
<1>3. PICK W : /\ Runs(b2, r, base, c, W, n + 1, Size(x))
               /\ Agree(W, V, n) /\ W[n + 1] = w /\ Size(W[n + 1]) = 16 + Size(x)
  <2>1. Runs(b, r, base, c, V, n, 0)
    BY <1>1, <1>2
  <2>2. \E W : /\ Runs(b2, r, base, c, W, n + 1, Size(x))
                /\ Agree(W, V, n) /\ W[n + 1] = w /\ Size(W[n + 1]) = 16 + Size(x)
    BY <2>1, RunsHeader
  <2> QED BY <2>2
<1>4. Packet(W[n + 1], "GwAuthResponse", x)
  BY <1>3, Zenon DEF Packet
<1>5. n = 0 /\ q = <<>> /\ n + 1 = 1
  BY <1>1 DEF CliLog, Fresh
<1>6. Pending("handshake", "respondBody", W, n + 1, Size(x))
  BY <1>3, <1>5 DEF Pending, Free
<1>7. Size(q) = 0
  BY <1>5 DEF Size
<1>8. Carries(1, q, W, n + 1)
  BY <1>5, <1>7 DEF Carries
<1>9. CliLog("respondBody", q, x, W, n + 1)
  BY <1>4, <1>5, <1>8 DEF CliLog, Fresh
<1> QED BY <1>3, <1>6, <1>9, Zenon DEF ToSrv

LEMMA ToSrvHsData ==
  ASSUME NEW b, NEW r, NEW base, NEW c, NEW lk, lk # Free, NEW q, NEW x,
         ToSrv(b, r, base, c, "respondBody", lk, q, x),
         NEW b2, Written(b2, b, x, c)
  PROVE  ToSrv(b2, r, base, c, "result", Free, q, x)
<1>1. PICK W, n, gap : /\ Runs(b, r, base, c, W, n, gap)
                       /\ Pending(lk, "respondBody", W, n, gap)
                       /\ CliLog("respondBody", q, x, W, n)
  BY Zenon DEF ToSrv
<1>2. gap # 0 /\ Size(W[n]) = 16 + gap
  BY <1>1 DEF Pending
<1>3. q = <<>> /\ Carries(1, q, W, n)
  BY <1>1 DEF CliLog, Fresh
<1>4. Size(q) = 0
  BY <1>3 DEF Size
<1>5. n = 1
  BY <1>3, <1>4 DEF Carries
<1>6. Packet(W[n], "GwAuthResponse", x)
  BY <1>1, <1>5 DEF CliLog
<1>7. PICK h : Frames(W[n], h, x)
  BY <1>6, Zenon DEF Packet
<1>8. Runs(b2, r, base, c, W, n, 0)
  BY <1>1, <1>2, <1>7, RunsData, Zenon
<1>9. Pending(Free, "result", W, n, 0)
  BY DEF Pending
<1>10. CliLog("result", q, x, W, n)
  BY <1>1, <1>3 DEF CliLog, Fresh
<1> QED BY <1>8, <1>9, <1>10, Zenon DEF ToSrv

(* A task writes a header, and then the data.  After a handshake that was  *)
(* given up the header goes nowhere.                                       *)
LEMMA ToSrvHeader ==
  ASSUME NEW b, ByteSeq(b), NEW r, NEW base, NEW c, NEW pc,
         pc \notin Fresh \cup {"respondBody"}, pc = "refused" => c # "up",
         NEW q \in Seq(SentRec), NEW x,
         ToSrv(b, r, base, c, pc, Free, q, x), NEW e \in SentRec, NEW lk,
         lk = Free <=> Size(FrameData(e)) = 0,
         NEW b2, Written(b2, b, ToBytes(FrameHead(e)), c)
  PROVE  ToSrv(b2, r, base, c, pc, lk, Append(q, e), x)
<1>1. PICK V, n : Runs(b, r, base, c, V, n, 0) /\ CliLog(pc, q, x, V, n)
  <2>1. CASE pc # "refused"
    <3>1. PICK V, n, gap : /\ Runs(b, r, base, c, V, n, gap)
                           /\ Pending(Free, pc, V, n, gap)
                           /\ CliLog(pc, q, x, V, n)
      BY Zenon DEF ToSrv
    <3>2. gap = 0
      BY <2>1, <3>1 DEF Pending
    <3> QED BY <3>1, <3>2
  <2>2. CASE pc = "refused"
    <3>1. \E V, n : Runs(b, r, base, c, V, n, 0) /\ CliLog(pc, q, x, V, n)
      BY <2>2, ToSrvTaskFails
    <3> QED BY <3>1
  <2> QED BY <2>1, <2>2
<1>2. PICK w : Frames(w, FrameHead(e), FrameData(e))
  BY FramesExist, Zenon
<1>3. PICK W : /\ Runs(b2, r, base, c, W, n + 1, Size(FrameData(e)))
               /\ Agree(W, V, n) /\ W[n + 1] = w
               /\ Size(W[n + 1]) = 16 + Size(FrameData(e))
  <2>1. \E W : /\ Runs(b2, r, base, c, W, n + 1, Size(FrameData(e)))
               /\ Agree(W, V, n) /\ W[n + 1] = w
               /\ Size(W[n + 1]) = 16 + Size(FrameData(e))
    BY <1>1, <1>2, RunsHeader
  <2> QED BY <2>1
<1>4. Carries(1, q, V, n) /\ 1 \in Nat /\ Size(q) \in Nat
  BY <1>1, LenProperties DEF CliLog, Size
<1>5. n = 1 + Size(q)
  BY <1>4, Zenon DEF Carries
<1>6. n \in Nat /\ n # 0 /\ 1 \in 1 .. n /\ n + 1 # 0
  BY <1>4, <1>5
<1>7. Carries(1, Append(q, e), W, n + 1)
  BY <1>2, <1>3, <1>4, CarriesSent, Zenon
<1>8. Packet(V[1], "GwAuthResponse", x)
  BY <1>1, <1>6 DEF CliLog
<1>9. Packet(W[1], "GwAuthResponse", x)
  BY <1>3, <1>6, <1>8, Zenon DEF Agree
<1>10. CliLog(pc, Append(q, e), x, W, n + 1)
  BY <1>7, <1>9 DEF CliLog
<1>11. Pending(lk, pc, W, n + 1, Size(FrameData(e)))
  BY <1>3, <1>6 DEF Pending
<1> QED BY <1>3, <1>10, <1>11, Zenon DEF ToSrv

LEMMA ToSrvData ==
  ASSUME NEW b, NEW r, NEW base, NEW c, NEW pc, pc \notin Fresh,
         NEW q \in Seq(SentRec), Size(q) # 0, NEW x,
         NEW lk, lk # Free, ToSrv(b, r, base, c, pc, lk, q, x),
         NEW b2, Written(b2, b, FrameData(q[Size(q)]), c)
  PROVE  ToSrv(b2, r, base, c, pc, Free, q, x)
<1>1. PICK W, n, gap : /\ Runs(b, r, base, c, W, n, gap)
                       /\ Pending(lk, pc, W, n, gap)
                       /\ CliLog(pc, q, x, W, n)
  BY Zenon DEF ToSrv
<1>2. gap # 0 /\ Size(W[n]) = 16 + gap
  BY <1>1 DEF Pending
<1>3. Carries(1, q, W, n) /\ 1 \in Nat /\ Size(q) \in Nat
  BY <1>1, LenProperties DEF CliLog, Size
<1>4. Frames(W[n], FrameHead(q[Size(q)]), FrameData(q[Size(q)]))
  BY <1>3, CarriesLast, Zenon
<1>5. Runs(b2, r, base, c, W, n, 0)
  BY <1>1, <1>2, <1>4, RunsData, Zenon
<1>6. Pending(Free, pc, W, n, 0)
  BY DEF Pending
<1> QED BY <1>1, <1>5, <1>6, Zenon DEF ToSrv

(* The server reads the response: its header, then the answer.             *)
LEMMA ToSrvResponse ==
  ASSUME NEW b, NEW c, NEW pc, NEW lk, NEW q, NEW x, Size(b) >= 16,
         ToSrv(b, 0, 0, c, pc, lk, q, x), NEW t, Part(t, b, 1, 16), NEW b2, Rest(b2, b, 16)
  PROVE  /\ FromBytes(t).type = "GwAuthResponse" /\ FromBytes(t).size = Size(x)
         /\ ToSrv(b2, 0, 0 - 16, c, pc, lk, q, x)
<1>1. PICK W, n, gap : /\ Runs(b, 0, 0, c, W, n, gap)
                       /\ Pending(lk, pc, W, n, gap)
                       /\ CliLog(pc, q, x, W, n)
  BY Zenon DEF ToSrv
<1>2. 0 < n /\ n \in Nat
  BY <1>1, RunsThere, RunsTyping
<1>3. Packet(W[1], "GwAuthResponse", x)
  BY <1>1, <1>2 DEF CliLog
<1>4. PICK h : h.type = "GwAuthResponse" /\ Frames(W[1], h, x)
  BY <1>3, Zenon DEF Packet
<1>5. 0 + 1 = 1
  OBVIOUS
<1>6. FromBytes(t) = Wired(h) /\ Runs(b2, 0, 0 - 16, c, W, n, gap)
  BY <1>1, <1>4, <1>5, RunsHeaderRead, Zenon
<1>7. h \in HeaderGW /\ h.size = Size(x)
  BY <1>4, Zenon DEF Frames
<1>8. FromBytes(t).type = "GwAuthResponse" /\ FromBytes(t).size = Size(x)
  BY <1>4, <1>6, <1>7, WiredFields, Zenon
<1> QED BY <1>1, <1>6, <1>8, Zenon DEF ToSrv

LEMMA ToSrvAnswer ==
  ASSUME NEW b, NEW c, NEW pc, NEW lk, NEW q, NEW x, Size(b) >= Size(x),
         ToSrv(b, 0, 0 - 16, c, pc, lk, q, x),
         NEW t, Part(t, b, 1, Size(x)), NEW b2, Rest(b2, b, Size(x))
  PROVE  t = x /\ ToSrv(b2, 1, 0, c, pc, lk, q, x)
<1>1. PICK W, n, gap : /\ Runs(b, 0, 0 - 16, c, W, n, gap)
                       /\ Pending(lk, pc, W, n, gap)
                       /\ CliLog(pc, q, x, W, n)
  BY Zenon DEF ToSrv
<1>2. 0 < n /\ n \in Nat
  BY <1>1, RunsTyping
<1>3. Packet(W[1], "GwAuthResponse", x)
  BY <1>1, <1>2 DEF CliLog
<1>4. PICK h : Frames(W[1], h, x)
  BY <1>3, Zenon DEF Packet
<1>5. 0 + 1 = 1
  OBVIOUS
<1>6. Frames(W[0 + 1], h, x)
  BY <1>4, <1>5, Zenon
<1>7. t = x /\ Runs(b2, 0 + 1, 0, c, W, n, gap)
  BY <1>1, <1>6, RunsDataRead, Zenon
<1> QED BY <1>1, <1>5, <1>7, Zenon DEF ToSrv

(* The server reads a packet of the exchange.                              *)
LEMMA ToSrvExchangeHeader ==
  ASSUME NEW b, NEW c, NEW pc, NEW lk, NEW q, Size(q) \in Nat, NEW x, Size(b) >= 16,
         NEW m \in Nat, ToSrv(b, 1 + m, 0, c, pc, lk, q, x),
         NEW t, Part(t, b, 1, 16), NEW b2, Rest(b2, b, 16)
  PROVE  /\ m + 1 \in 1 .. Size(q)
         /\ FromBytes(t) = Wired(FrameHead(q[m + 1]))
         /\ ToSrv(b2, 1 + m, 0 - 16, c, pc, lk, q, x)
         /\ Size(FrameData(q[m + 1])) = 0 =>
              ToSrv(b2, (1 + m) + 1, 0, c, pc, lk, q, x)
<1>1. PICK W, n, gap : /\ Runs(b, 1 + m, 0, c, W, n, gap)
                       /\ Pending(lk, pc, W, n, gap)
                       /\ CliLog(pc, q, x, W, n)
  BY Zenon DEF ToSrv
<1>2. 1 + m < n /\ 1 \in Nat /\ n # 0
  BY <1>1, RunsThere, RunsTyping
<1>3. Carries(1, q, W, n)
  BY <1>1, <1>2 DEF CliLog
<1>4. /\ m + 1 \in 1 .. Size(q)
      /\ Frames(W[(1 + m) + 1], FrameHead(q[m + 1]), FrameData(q[m + 1]))
  BY <1>2, <1>3, CarriesNext, Zenon
<1>5. /\ FromBytes(t) = Wired(FrameHead(q[m + 1]))
      /\ Runs(b2, 1 + m, 0 - 16, c, W, n, gap)
      /\ Size(FrameData(q[m + 1])) = 0 => Runs(b2, (1 + m) + 1, 0, c, W, n, gap)
  BY <1>1, <1>4, RunsHeaderRead
<1> QED BY <1>1, <1>4, <1>5, Zenon DEF ToSrv

LEMMA ToSrvExchangeData ==
  ASSUME NEW b, NEW c, NEW pc, NEW lk, NEW q, Size(q) \in Nat, NEW x,
         NEW m \in Nat, ToSrv(b, 1 + m, 0 - 16, c, pc, lk, q, x),
         NEW d, IsNext(d, q, m), Size(b) >= Size(d),
         NEW t, Part(t, b, 1, Size(d)), NEW b2, Rest(b2, b, Size(d))
  PROVE  t = d /\ ToSrv(b2, (1 + m) + 1, 0, c, pc, lk, q, x)
<1>1. PICK W, n, gap : /\ Runs(b, 1 + m, 0 - 16, c, W, n, gap)
                       /\ Pending(lk, pc, W, n, gap)
                       /\ CliLog(pc, q, x, W, n)
  BY Zenon DEF ToSrv
<1>2. 1 + m < n /\ 1 \in Nat /\ n # 0
  BY <1>1, RunsTyping
<1>3. Carries(1, q, W, n)
  BY <1>1, <1>2 DEF CliLog
<1>4. Frames(W[(1 + m) + 1], FrameHead(q[m + 1]), d)
  BY <1>2, <1>3, CarriesNext, Zenon DEF IsNext
<1>5. t = d /\ Runs(b2, (1 + m) + 1, 0, c, W, n, gap)
  BY <1>1, <1>4, RunsDataRead
<1> QED BY <1>1, <1>5, Zenon DEF ToSrv

-----------------------------------------------------------------------------
(* The invariant of the streams. *)

CliPc == {"wait", "waitBody", "respond", "respondBody", "result", "version", "reason",
          "open", "refused"}

(* How many packets a reader at step p, which has returned m packets of    *)
(* the exchange, has read, and where the next one begins.                  *)
CliDone(p, m) ==
  IF p \in {"wait", "waitBody"} THEN 0
  ELSE IF p \in {"respond", "respondBody", "result", "version"} THEN 1 ELSE 2 + m
SrvDone(p, m) == IF p \in {"challenge", "nonce", "await", "awaitBody"} THEN 0 ELSE 1 + m
Base(p, rp) ==
  IF p \in {"waitBody", "version", "awaitBody"} \/ rp = "data" THEN 0 - 16 ELSE 0

(* A reader that has given up, or is about to, reads nothing more.         *)
CliReads(p, rp) == p \notin {"reason", "refused"} /\ rp # "ended"
SrvReads(p, rp) == p \notin {"deny", "denyBody", "refused"} /\ rp # "ended"

(* What the server waits for will not come: the client has given up before *)
(* it responded, or the command p has written before the response.         *)
Spoiled(p, b, c) ==
  /\ p \in {"challenge", "nonce", "await"}
  /\ Size(b) = 0 => c # "up"
  /\ Size(b) # 0 => FromCode(b[1]) # "GwAuthResponse"

CliSide(p, rp, m, b, c, pc, lk, q, v) ==
  CliReads(p, rp) => ToCli(b, CliDone(p, m), Base(p, rp), c, pc, lk, q, v)
SrvSide(p, rp, m, b, c, pc, lk, q, x) ==
  SrvReads(p, rp) =>
    Spoiled(p, b, c) \/ ToSrv(b, SrvDone(p, m), Base(p, rp), c, pc, lk, q, x)

CliStream ==
  CliSide(hs["cli"].pc, rdr["cli"].pc, Size(received["cli"]), stream["cli"], conn,
          hs["srv"].pc, lock["srv"], sent["srv"], VersionData("srv"))
SrvStream ==
  SrvSide(hs["srv"].pc, rdr["srv"].pc, Size(received["srv"]), stream["srv"], conn,
          hs["cli"].pc, lock["cli"], sent["cli"], ComputeResponse(key["cli"], Nonce))

(* The exchange begins after the handshake, and the handshake ends with    *)
(* the connection when it ends badly.                                      *)
Phases ==
  /\ hs["srv"].pc \in SrvPc /\ hs["cli"].pc \in CliPc
  /\ \A s \in Side : rdr[s].pc # "header" => hs[s].pc = "open"
  /\ \A s \in Side : hs[s].pc # "open" => received[s] = <<>>
  /\ \A s \in Side : hs[s].pc = "refused" => conn # "up"
  /\ hs["srv"].pc # "open" =>
       sent["srv"] = <<>> /\ \A t \in Tasks : SideOf[t] = "srv" => snd[t].pc = "idle"
  /\ hs["cli"].pc \in {"respond", "respondBody"} => hs["cli"].data = Nonce
  /\ hs["srv"].pc = "awaitBody" => hs["srv"].pkt.size = RESPONSE_SIZE

(* The packet task t is at.  A task that holds the writer has written the  *)
(* header of the last packet.                                              *)
Item(t) == [id |-> snd[t].id, pkt |-> Head(snd[t].todo)]
Holder ==
  \A t \in Tasks : lock[SideOf[t]] = t =>
    /\ Size(sent[SideOf[t]]) # 0
    /\ sent[SideOf[t]][Size(sent[SideOf[t]])] = Item(t)

(* A packet as its reader gets it.                                         *)
Arrived(e) == [id |-> FromLE(LE(e.id, 8)), pkt |-> e.pkt]

(* What s has returned, and has begun to read, of the packets q.           *)
Gets(got, rp, p, q) ==
  /\ got \in Seq(SentRec) /\ Size(got) <= Size(q)
  /\ \A i \in 1 .. Size(got) : got[i] = Arrived(q[i])
  /\ rp = "data" => /\ Size(got) < Size(q)
                    /\ p = Wired(FrameHead(q[Size(got) + 1]))
Got ==
  /\ received \in [Side -> Seq(SentRec)]
  /\ \A s \in Side : Gets(received[s], rdr[s].pc, rdr[s].pkt, sent[Other(s)])

StreamInv ==
  /\ Phases /\ Holder /\ Got /\ AuthAgreement
  /\ CliStream /\ SrvStream

-----------------------------------------------------------------------------
(* What the steps leave as it is. *)

LEMMA HolderKept ==
  ASSUME TypeInv, Holder, sent' = sent,
         \A t \in Tasks : snd[t].pc = "data" /\ lock'[SideOf[t]] = t =>
           snd'[t].id = snd[t].id /\ Head(snd'[t].todo) = Head(snd[t].todo),
         \A s \in Side : lock'[s] = lock[s] \/ lock'[s] \notin Tasks
  PROVE  Holder'
<1> SUFFICES ASSUME NEW t \in Tasks, lock'[SideOf[t]] = t
             PROVE  /\ Size(sent'[SideOf[t]]) # 0
                    /\ sent'[SideOf[t]][Size(sent'[SideOf[t]])] = Item(t)'
  BY Zenon DEF Holder
<1>1. lock[SideOf[t]] = t
  BY LockNames
<1>2. snd[t].pc = "data"
  BY <1>1 DEF TypeInv, Placed
<1>3. Item(t)' = Item(t)
  BY <1>2 DEF Item
<1> QED BY <1>1, <1>3, Zenon DEF Holder

LEMMA GotKept ==
  ASSUME Got, UNCHANGED <<received, sent, rdr>>
  PROVE  Got'
BY DEF Got

(* A step of the handshake of s.                                           *)
LEMMA HsKeeps ==
  ASSUME TypeInv, Phases, Holder, Got, AuthAgreement, NEW s \in Side,
         UNCHANGED <<key, major, snd, rdr, sent, received>>,
         hs'[Other(s)] = hs[Other(s)], hs[s].pc \notin HsDone,
         hs'[s].pc \in IF s = "srv" THEN SrvPc ELSE CliPc,
         \A u \in Side : lock'[u] = lock[u] \/ lock'[u] \notin Tasks,
         conn' = conn \/ conn' # "up",
         hs'[s].pc = "refused" => conn' # "up",
         s = "cli" /\ hs'[s].pc \in {"respond", "respondBody"} => hs'[s].data = Nonce,
         s = "srv" /\ hs'[s].pc = "awaitBody" => hs'[s].pkt.size = RESPONSE_SIZE,
         s = "cli" /\ hs'[s].pc = "open" =>
           hs["srv"].pc = "open" /\ major["cli"] = major["srv"],
         s = "srv" /\ hs'[s].pc \in {"accept", "acceptBody", "open"} =>
           hs[s].pc \in {"accept", "acceptBody", "open"} \/ key["cli"] = key["srv"]
  PROVE  Phases' /\ Holder' /\ Got' /\ AuthAgreement'
<1>1. hs[s].pc # "open" /\ hs[s].pc # "refused"
  BY DEF HsDone
<1>2. Phases'
  <2>1. CASE s = "srv"
    <3>1. hs'["cli"] = hs["cli"]
      BY <2>1, Sides
    <3> QED BY <1>1, <2>1, <3>1 DEF Phases, Side
  <2>2. CASE s = "cli"
    <3>1. hs'["srv"] = hs["srv"]
      BY <2>2, Sides
    <3> QED BY <1>1, <2>2, <3>1 DEF Phases, Side
  <2> QED BY <2>1, <2>2 DEF Side
<1>3. Holder'
  BY HolderKept
<1>4. Got'
  BY GotKept
<1>5. AuthAgreement'
  <2>1. CASE s = "srv"
    <3>1. hs'["cli"] = hs["cli"]
      BY <2>1, Sides
    <3> QED BY <1>1, <2>1, <3>1 DEF AuthAgreement
  <2>2. CASE s = "cli"
    <3>1. hs'["srv"] = hs["srv"]
      BY <2>2, Sides
    <3> QED BY <1>1, <2>2, <3>1 DEF AuthAgreement
  <2> QED BY <2>1, <2>2 DEF Side
<1> QED BY <1>2, <1>3, <1>4, <1>5

-----------------------------------------------------------------------------
(* Readers and writers of one stream. *)

LEMMA SpoiledLost ==
  ASSUME NEW p, NEW b, NEW c, Spoiled(p, b, c), NEW b2, Shorter(b2, b), NEW c2, c2 # "up"
  PROVE  Spoiled(p, b2, c2)
<1>1. ASSUME Size(b2) # 0 PROVE Size(b) # 0 /\ b2[1] = b[1]
  <2>1. b2 \in Seq(Byte) /\ Len(b2) <= Len(b) /\ \A i \in 1 .. Len(b2) : b2[i] = b[i]
    BY DEF Shorter
  <2>2. Len(b2) \in Nat /\ Len(b2) # 0
    BY <1>1, <2>1, LenProperties DEF Size
  <2>3. 1 \in 1 .. Len(b2)
    BY <2>2
  <2>4. Len(b) # 0
    BY <2>1, <2>2
  <2> QED BY <2>1, <2>3, <2>4, Zenon DEF Size
<1> QED BY <1>1 DEF Spoiled

LEMMA SpoiledWritten ==
  ASSUME NEW p, NEW b, ByteSeq(b), NEW c, Spoiled(p, b, c),
         NEW d, ByteSeq(d), NEW b2, Written(b2, b, d, c)
  PROVE  Spoiled(p, b2, c)
<1>1. CASE c # "up"
  BY <1>1 DEF Spoiled, Written
<1>2. CASE c = "up"
  <2>1. Size(b) # 0 /\ FromCode(b[1]) # "GwAuthResponse"
    BY <1>2 DEF Spoiled
  <2>2. /\ Len(b2) = Len(b) + Len(d)
        /\ \A i \in 1 .. Len(b) : b2[i] = b[i]
    BY <1>2 DEF Written, Joined
  <2>3. Len(b) \in Nat /\ Len(d) \in Nat /\ Len(b) # 0
    BY <2>1, Typings, Zenon DEF Size
  <2>4. 1 \in 1 .. Len(b) /\ Len(b2) # 0
    BY <2>2, <2>3
  <2>5. b2[1] = b[1] /\ Size(b2) # 0
    BY <2>2, <2>4, Zenon DEF Size
  <2> QED BY <1>2, <2>1, <2>5 DEF Spoiled
<1> QED BY <1>1, <1>2

(* A server that waits for the response does not find it.                  *)
LEMMA SpoiledRead ==
  ASSUME NEW p, NEW b, NEW c, Spoiled(p, b, c), Size(b) >= 16, NEW t, Part(t, b, 1, 16)
  PROVE  FromBytes(t).type # "GwAuthResponse"
<1>1. Size(b) # 0
  <2>1. Size(b) = 0 => ~(Size(b) >= 16)
    OBVIOUS
  <2> QED BY <2>1
<1>2. t[1] = b[1]
  BY DEF Part
<1>3. FromBytes(t).type = FromCode(t[1])
  BY DEF FromBytes
<1> QED BY <1>1, <1>2, <1>3 DEF Spoiled

LEMMA CliSideLost ==
  ASSUME NEW p, NEW rp, NEW m, NEW b, NEW c, NEW pc \in SrvPc, NEW lk, NEW q, NEW v,
         CliSide(p, rp, m, b, c, pc, lk, q, v), NEW b2, Shorter(b2, b), NEW c2, c2 # "up",
         NEW pc2, pc2 = pc \/ (pc2 = "refused" /\ pc # "open"),
         NEW lk2, lk2 = lk \/ (lk2 = Free /\ pc2 = "refused")
  PROVE  CliSide(p, rp, m, b2, c2, pc2, lk2, q, v)
BY ToCliLost DEF CliSide

LEMMA CliSideReader ==
  ASSUME NEW p, NEW rp, NEW m, NEW b, NEW c, NEW pc, NEW lk, NEW q, NEW v,
         CliSide(p, rp, m, b, c, pc, lk, q, v), NEW p2,
         \/ {p, p2} \subseteq {"respond", "respondBody", "result"}
         \/ p2 \in {"reason", "refused"}
  PROVE  CliSide(p2, rp, m, b, c, pc, lk, q, v)
<1>1. CASE p2 \in {"reason", "refused"}
  BY <1>1 DEF CliSide, CliReads
<1>2. CASE {p, p2} \subseteq {"respond", "respondBody", "result"}
  <2>1. CliDone(p2, m) = CliDone(p, m) /\ Base(p2, rp) = Base(p, rp)
    BY <1>2 DEF CliDone, Base
  <2>2. CliReads(p2, rp) => CliReads(p, rp)
    BY <1>2 DEF CliReads
  <2> QED BY <2>1, <2>2, Zenon DEF CliSide
<1> QED BY <1>1, <1>2

LEMMA SrvSideLost ==
  ASSUME NEW p, p \in SrvPc, NEW rp, NEW m \in Nat, NEW b, NEW c, NEW pc, NEW lk, NEW q,
         NEW x, SrvSide(p, rp, m, b, c, pc, lk, q, x),
         NEW b2, Shorter(b2, b), NEW c2, c2 # "up",
         NEW pc2, pc2 = pc \/ pc2 = "refused",
         NEW lk2, lk2 = lk \/ (lk2 = Free /\ pc2 = "refused")
  PROVE  SrvSide(p, rp, m, b2, c2, pc2, lk2, q, x)
<1> SUFFICES ASSUME SrvReads(p, rp)
             PROVE  \/ Spoiled(p, b2, c2)
                    \/ ToSrv(b2, SrvDone(p, m), Base(p, rp), c2, pc2, lk2, q, x)
  BY Zenon DEF SrvSide
<1>1. CASE Spoiled(p, b, c)
  BY <1>1, SpoiledLost
<1>2. CASE ToSrv(b, SrvDone(p, m), Base(p, rp), c, pc, lk, q, x)
  <2>1. CASE pc2 = pc \/ pc \notin Fresh
    BY <1>2, <2>1, ToSrvLost
  <2>2. CASE pc \in Fresh /\ pc2 # pc
    <3>1. Size(b) = 0 /\ SrvDone(p, m) = 0 /\ Base(p, rp) = 0
      BY <1>2, <2>2, ToSrvFresh
    <3>2. p \in {"challenge", "nonce", "await"}
      BY <3>1 DEF SrvDone, Base
    <3>3. Spoiled(p, b, c2)
      BY <3>1, <3>2 DEF Spoiled
    <3> QED BY <3>3, SpoiledLost
  <2> QED BY <2>1, <2>2
<1> QED BY <1>1, <1>2 DEF SrvSide

LEMMA SrvSideReader ==
  ASSUME NEW p, NEW rp, NEW m, NEW b, NEW c, NEW pc, NEW lk, NEW q, NEW x,
         SrvSide(p, rp, m, b, c, pc, lk, q, x), NEW p2,
         \/ {p, p2} \subseteq {"challenge", "nonce", "await"}
         \/ {p, p2} \subseteq {"accept", "acceptBody", "open"}
         \/ p2 \in {"deny", "denyBody", "refused"}
  PROVE  SrvSide(p2, rp, m, b, c, pc, lk, q, x)
<1>1. CASE p2 \in {"deny", "denyBody", "refused"}
  BY <1>1 DEF SrvSide, SrvReads
<1>2. CASE \/ {p, p2} \subseteq {"challenge", "nonce", "await"}
           \/ {p, p2} \subseteq {"accept", "acceptBody", "open"}
  <2>1. SrvDone(p2, m) = SrvDone(p, m) /\ Base(p2, rp) = Base(p, rp)
    BY <1>2 DEF SrvDone, Base
  <2>2. SrvReads(p2, rp) => SrvReads(p, rp)
    BY <1>2 DEF SrvReads
  <2>3. Spoiled(p, b, c) => Spoiled(p2, b, c)
    BY <1>2 DEF Spoiled
  <2> QED BY <2>1, <2>2, <2>3, Zenon DEF SrvSide
<1> QED BY <1>1, <1>2

LEMMA SrvSideWriter ==
  ASSUME NEW p, NEW rp, NEW m, NEW b, NEW c, NEW pc, NEW lk, NEW q, NEW x,
         SrvSide(p, rp, m, b, c, pc, lk, q, x), NEW pc2,
         \/ pc \in Fresh /\ pc2 \in Fresh
         \/ {pc, pc2} \cap (Fresh \cup {"respondBody", "refused"}) = {}
  PROVE  SrvSide(p, rp, m, b, c, pc2, lk, q, x)
BY ToSrvSame DEF SrvSide

-----------------------------------------------------------------------------
(* The steps of the handshake. *)

LEMMA Zero == 0 \in U16 /\ 0 \in Nat /\ 0 \in Byte /\ 1 \in U16
BY DEF U16, U16_MAX, Byte

LEMMA PacketExists ==
  ASSUME NEW typ \in DOMAIN Code, NEW id \in Nat, NEW d \in Seq(Byte), Len(d) \in U16
  PROVE  /\ \E w : Frames(w, Header(typ, id, 0, Len(d), 0), d)
         /\ Header(typ, id, 0, Len(d), 0) \in HeaderGW
         /\ Header(typ, id, 0, Len(d), 0).type = typ
<1> DEFINE h == Header(typ, id, 0, Len(d), 0)
<1>1. 0 \in U16 /\ 0 \in Nat /\ 0 \in Byte /\ Len(d) \in Nat
  <2>1. Len(d) \in Nat
    BY Limits, Zenon
  <2> QED BY <2>1, Zero, Zenon
<1>2. h \in HeaderGW /\ h.link = 0 /\ h.size = Len(d) /\ h.type = typ
  BY <1>1 DEF HeaderGW, Header
<1>3. Fits(h)
  BY <1>1, <1>2, Limits, Zenon DEF Fits
<1>4. Joined(ToBytes(h) \o d, ToBytes(h), d)
  BY <1>2, HeaderBytes, Join, Zenon
<1>5. Frames(ToBytes(h) \o d, h, d)
  BY <1>2, <1>3, <1>4, Zenon DEF Frames, ByteSeq, Size
<1> QED BY <1>2, <1>5, Zenon

LEMMA PushWritten ==
  ASSUME TypeInv, NEW s \in Side, NEW d \in Seq(Byte), Push(s, d)
  PROVE  /\ stream'[s] = stream[s]
         /\ Written(stream'[Other(s)], stream[Other(s)], d, conn)
<1>1. stream \in Bytes
  BY DEF TypeInv, Typed
<1>2. /\ stream' \in Bytes /\ stream'[s] = stream[s]
      /\ conn = "up" => Joined(stream'[Other(s)], stream[Other(s)], d)
      /\ conn # "up" => stream' = stream
  BY <1>1, PushEffect
<1>3. stream'[Other(s)] \in Seq(Byte)
  BY <1>2, Sides, Zenon DEF Bytes
<1> QED BY <1>2, <1>3 DEF Written, ByteSeq

LEMMA StreamTyping ==
  ASSUME TypeInv, NEW s \in Side
  PROVE  /\ ByteSeq(stream[s]) /\ Shorter(stream[s], stream[s])
         /\ hs[s] \in HsRec /\ hs[s].pc \in HsPc /\ hs[s].pkt \in HeaderGW
         /\ rdr[s].pkt \in HeaderGW
         /\ sent[s] \in Seq(SentRec) /\ Size(sent[s]) \in Nat
<1>1. stream[s] \in Seq(Byte) /\ sent[s] \in Seq(SentRec) /\ hs[s] \in HsRec
        /\ rdr[s] \in RdrRec
  BY DEF TypeInv, Typed, Bytes
<1>2. ByteSeq(stream[s])
  BY <1>1 DEF ByteSeq
<1>3. Shorter(stream[s], stream[s])
  BY <1>2, ShorterSame
<1>4. Size(sent[s]) \in Nat
  BY <1>1, LenProperties, Zenon DEF Size
<1> QED BY <1>1, <1>2, <1>3, <1>4 DEF HsRec, RdrRec

LEMMA HsHeaderEffect ==
  ASSUME TypeInv, NEW s \in Side, NEW from, NEW to, NEW typ \in DOMAIN Code,
         NEW id \in Nat, NEW size \in Nat, HsHeader(s, from, to, typ, id, size)
  PROVE  /\ UNCHANGED <<key, major, snd, rdr, sent, received>> /\ conn' = conn
         /\ hs'[Other(s)] = hs[Other(s)] /\ hs[s].pc = from /\ hs'[s].pc = to
         /\ hs'[s].data = hs[s].data /\ hs'[s].pkt = hs[s].pkt
         /\ lock[s] = Free /\ lock'[s] = "handshake" /\ lock'[Other(s)] = lock[Other(s)]
         /\ stream'[s] = stream[s]
         /\ Written(stream'[Other(s)], stream[Other(s)],
                    ToBytes(Header(typ, id, 0, size, 0)), conn)
<1>1. Header(typ, id, 0, size, 0) \in HeaderGW
  BY Zero DEF Header, HeaderGW
<1>2. ToBytes(Header(typ, id, 0, size, 0)) \in Seq(Byte)
  BY <1>1, HeaderBytes
<1>3. /\ stream'[s] = stream[s]
      /\ Written(stream'[Other(s)], stream[Other(s)],
                 ToBytes(Header(typ, id, 0, size, 0)), conn)
  BY <1>2, PushWritten DEF HsHeader
<1>4. hs \in [Side -> HsRec] /\ hs' = [hs EXCEPT ![s].pc = to]
  BY DEF HsHeader, TypeInv, Typed
<1>5. hs'[Other(s)] = hs[Other(s)] /\ hs'[s].pc = to /\ hs'[s].data = hs[s].data
        /\ hs'[s].pkt = hs[s].pkt
  BY <1>4, Sides DEF HsRec
<1>6. lock'[s] = "handshake" /\ lock'[Other(s)] = lock[Other(s)]
  BY Sides DEF HsHeader, TypeInv, Typed
<1> QED BY <1>3, <1>5, <1>6 DEF HsHeader, config, count

LEMMA HsDataEffect ==
  ASSUME TypeInv, NEW s \in Side, NEW from \in HsBody, NEW to, NEW d \in Seq(Byte),
         HsData(s, from, to, d)
  PROVE  /\ UNCHANGED <<key, major, snd, rdr, sent, received>>
         /\ hs'[Other(s)] = hs[Other(s)] /\ hs[s].pc = from /\ hs'[s].pc = to
         /\ lock[s] = "handshake" /\ lock[s] # Free
         /\ lock'[s] = Free /\ lock'[Other(s)] = lock[Other(s)]
         /\ stream'[s] = stream[s]
         /\ Written(stream'[Other(s)], stream[Other(s)], d, conn)
<1>1. /\ stream'[s] = stream[s]
      /\ Written(stream'[Other(s)], stream[Other(s)], d, conn)
  BY PushWritten DEF HsData
<1>2. hs \in [Side -> HsRec] /\ hs' = [hs EXCEPT ![s].pc = to]
  BY DEF HsData, TypeInv, Typed
<1>3. hs'[Other(s)] = hs[Other(s)] /\ hs'[s].pc = to
  BY <1>2, Sides DEF HsRec
<1>4. lock'[s] = Free /\ lock'[Other(s)] = lock[Other(s)]
  BY Sides DEF HsData, TypeInv, Typed
<1>5. lock[s] = "handshake"
  BY DEF HsData, TypeInv, Placed
<1> QED BY <1>1, <1>3, <1>4, <1>5, LockNames DEF HsData, config, count

LEMMA HsReadEffect ==
  ASSUME TypeInv, NEW s \in Side, NEW from, NEW n \in Nat, NEW pkt, NEW data, NEW to,
         HsRead(s, from, n, pkt, data, to)
  PROVE  /\ UNCHANGED <<key, major, snd, rdr, sent, received, lock>>
         /\ conn' = conn \/ conn' # "up"
         /\ to # "refused" => conn' = conn
         /\ to = "refused" => conn' # "up"
         /\ hs'[Other(s)] = hs[Other(s)] /\ hs[s].pc = from
         /\ hs'[s].pc = to /\ hs'[s].pkt = pkt /\ hs'[s].data = data
         /\ stream'[Other(s)] = stream[Other(s)] /\ Size(stream[s]) >= n
         /\ Part(Taken(s, n), stream[s], 1, n) /\ Rest(stream'[s], stream[s], n)
<1>1. stream \in Bytes /\ Ready(s, n) /\ Pull(s, n)
  BY DEF TypeInv, Typed, HsRead
<1>2. /\ stream'[Other(s)] = stream[Other(s)]
      /\ Part(Taken(s, n), stream[s], 1, n) /\ Rest(stream'[s], stream[s], n)
  BY <1>1, PullEffect
<1>3. hs \in [Side -> HsRec] /\ hs' = [hs EXCEPT ![s] = [pc |-> to, pkt |-> pkt, data |-> data]]
  BY DEF HsRead, TypeInv, Typed
<1>4. /\ hs'[Other(s)] = hs[Other(s)]
      /\ hs'[s].pc = to /\ hs'[s].pkt = pkt /\ hs'[s].data = data
  BY <1>3, Sides
<1>5. Size(stream[s]) >= n
  BY <1>1 DEF Ready, Size
<1> QED BY <1>2, <1>4, <1>5 DEF HsRead, config, count

(* The data the handshake writes.                                          *)
LEMMA HsPieces ==
  ASSUME TypeInv
  PROVE  /\ VersionData("srv") \in Seq(Byte) /\ Len(VersionData("srv")) = 12
         /\ Nonce \in Seq(Byte) /\ Len(Nonce) = NONCE_SIZE
         /\ << 0 >> \in Seq(Byte) /\ Len(<< 0 >>) = 1
         /\ ComputeResponse(key["cli"], Nonce) \in Seq(Byte)
         /\ Len(ComputeResponse(key["cli"], Nonce)) = RESPONSE_SIZE
         /\ Size(ComputeResponse(key["cli"], Nonce)) = RESPONSE_SIZE
         /\ \A n \in {12, NONCE_SIZE, 1, RESPONSE_SIZE} : n \in U16 /\ n # 0
<1>1. major \in [Side -> Nat] /\ key \in [Side -> Byte]
  BY DEF TypeInv, Typed
<1>2. VersionData("srv") \in Seq(Byte) /\ Len(VersionData("srv")) = 12
  BY <1>1, VersionTyping, Sides
<1>3. key["cli"] \in Byte
  BY <1>1, Sides
<1>4. Len(Nonce) # 0
  BY NonceTyping
<1>5. /\ ComputeResponse(key["cli"], Nonce) \in Seq(Byte)
      /\ Len(ComputeResponse(key["cli"], Nonce)) = RESPONSE_SIZE
  BY <1>3, <1>4, NonceTyping, ResponseTyping, Zenon
<1>6. << 0 >> \in Seq(Byte) /\ Len(<< 0 >>) = 1
  BY Zero, Tuple1, Zenon
<1>7. 12 \in U16 /\ 1 \in U16 /\ 12 # 0 /\ 1 # 0
  BY DEF U16, U16_MAX
<1>8. Size(ComputeResponse(key["cli"], Nonce)) = RESPONSE_SIZE
  BY <1>5, Zenon DEF Size
<1> QED BY <1>2, <1>5, <1>6, <1>7, <1>8, NonceTyping, Zenon

LEMMA SrvHeaderKeeps ==
  ASSUME TypeInv, StreamInv, NEW from, NEW to, NEW typ, NEW d, NEW id \in Nat,
         \/ from = "challenge" /\ to = "nonce" /\ typ = "GwAuthChallenge" /\ d = Nonce
         \/ from = "accept" /\ to = "acceptBody" /\ typ = "GwConnected"
              /\ d = VersionData("srv")
         \/ from = "deny" /\ to = "denyBody" /\ typ = "GwDeny" /\ d = << 0 >>,
         HsHeader("srv", from, to, typ, id, Len(d))
  PROVE  StreamInv'
<1> DEFINE h == Header(typ, id, 0, Len(d), 0)
           v == VersionData("srv")
           x == ComputeResponse(key["cli"], Nonce)
<1>1. typ \in DOMAIN Code
  BY CodeNames DEF HsTypes
<1>2. d \in Seq(Byte) /\ Len(d) \in U16 /\ Len(d) # 0
  <2>1. d \in Seq(Byte) /\ Len(d) \in {12, NONCE_SIZE, 1, RESPONSE_SIZE}
    BY HsPieces
  <2> QED BY <2>1, HsPieces, Zenon
<1>3. Len(d) \in Nat
  BY <1>2, Limits, Zenon
<1>4. (\E w : Frames(w, h, d)) /\ h.type = typ
  BY <1>1, <1>2, PacketExists
<1>5. PICK w : Frames(w, h, d)
  BY <1>4
<1>6. /\ UNCHANGED <<key, major, snd, rdr, sent, received>> /\ conn' = conn
      /\ hs'["cli"] = hs["cli"] /\ hs["srv"].pc = from /\ hs'["srv"].pc = to
      /\ lock["srv"] = Free /\ lock'["srv"] = "handshake" /\ lock'["cli"] = lock["cli"]
      /\ stream'["srv"] = stream["srv"]
      /\ Written(stream'["cli"], stream["cli"], ToBytes(h), conn)
  BY <1>1, <1>3, HsHeaderEffect, Sides
<1>7. Phases' /\ Holder' /\ Got' /\ AuthAgreement'
  <2>1. \A u \in Side : lock'[u] = lock[u] \/ lock'[u] \notin Tasks
    BY <1>6, LockNames DEF Side
  <2>2. hs'[Other("srv")] = hs[Other("srv")] /\ "srv" \in Side /\ from \notin HsDone
          /\ to \in SrvPc
    BY <1>6, Sides DEF HsDone, SrvPc, Greeted
  <2> QED BY <1>6, <2>1, <2>2, HsKeeps DEF StreamInv
<1>8. v' = v /\ x' = x
  BY <1>6 DEF VersionData
<1>9. CliStream'
  <2>1. Size(d) # 0
    BY <1>2 DEF Size
  <2>2. CliSide(hs["cli"].pc, rdr["cli"].pc, Size(received["cli"]), stream["cli"], conn,
                from, Free, sent["srv"], v)
    BY <1>6 DEF StreamInv, CliStream
  <2>3. CliSide(hs["cli"].pc, rdr["cli"].pc, Size(received["cli"]), stream'["cli"], conn,
                to, "handshake", sent["srv"], v)
    BY <1>4, <1>5, <1>6, <2>1, <2>2, ToCliHsHeader DEF CliSide
  <2> QED BY <1>6, <1>8, <2>3 DEF CliStream
<1>10. SrvStream'
  <2>1. SrvSide(from, rdr["srv"].pc, Size(received["srv"]), stream["srv"], conn,
                hs["cli"].pc, lock["cli"], sent["cli"], x)
    BY <1>6 DEF StreamInv, SrvStream
  <2>2. SrvSide(to, rdr["srv"].pc, Size(received["srv"]), stream["srv"], conn,
                hs["cli"].pc, lock["cli"], sent["cli"], x)
    BY <2>1, SrvSideReader
  <2> QED BY <1>6, <1>8, <2>2 DEF SrvStream
<1> QED BY <1>7, <1>9, <1>10 DEF StreamInv

LEMMA SrvDataKeeps ==
  ASSUME TypeInv, StreamInv, NEW from, NEW to, NEW d,
         \/ from = "nonce" /\ to = "await" /\ d = Nonce /\ conn' = conn
         \/ from = "acceptBody" /\ to = "open" /\ d = VersionData("srv") /\ conn' = conn
         \/ from = "denyBody" /\ to = "refused" /\ d = << 0 >>
              /\ conn' = IF conn = "up" THEN "closed" ELSE conn,
         HsData("srv", from, to, d)
  PROVE  StreamInv'
<1> DEFINE v == VersionData("srv")
           x == ComputeResponse(key["cli"], Nonce)
<1>1. from \in HsBody /\ d \in Seq(Byte)
  BY HsPieces DEF HsBody
<1>2. /\ UNCHANGED <<key, major, snd, rdr, sent, received>>
      /\ hs'["cli"] = hs["cli"] /\ hs["srv"].pc = from /\ hs'["srv"].pc = to
      /\ lock["srv"] # Free /\ lock'["srv"] = Free /\ lock'["cli"] = lock["cli"]
      /\ stream'["srv"] = stream["srv"]
      /\ Written(stream'["cli"], stream["cli"], d, conn)
  BY <1>1, HsDataEffect, Sides
<1>3. conn' = conn \/ conn' # "up"
  OBVIOUS
<1>4. to = "refused" => conn' # "up"
  OBVIOUS
<1>5. Phases' /\ Holder' /\ Got' /\ AuthAgreement'
  <2>1. \A u \in Side : lock'[u] = lock[u] \/ lock'[u] \notin Tasks
    BY <1>2, LockNames DEF Side
  <2>2. hs'[Other("srv")] = hs[Other("srv")] /\ "srv" \in Side /\ from \notin HsDone
          /\ to \in SrvPc
    BY <1>2, Sides DEF HsDone, SrvPc, Greeted
  <2> QED BY <1>2, <1>3, <1>4, <2>1, <2>2, HsKeeps DEF StreamInv
<1>6. v' = v /\ x' = x
  BY <1>2 DEF VersionData
<1>7. CliStream'
  <2>1. sent["srv"] = <<>>
    BY <1>2 DEF StreamInv, Phases
  <2>2. CliSide(hs["cli"].pc, rdr["cli"].pc, Size(received["cli"]), stream["cli"], conn,
                from, lock["srv"], sent["srv"], v)
    BY <1>2 DEF StreamInv, CliStream
  <2>3. CliSide(hs["cli"].pc, rdr["cli"].pc, Size(received["cli"]), stream'["cli"], conn,
                to, Free, sent["srv"], v)
    BY <1>2, <2>1, <2>2, ToCliHsData DEF CliSide
  <2>4. CASE conn' = conn
    BY <1>2, <1>6, <2>3, <2>4 DEF CliStream
  <2>5. CASE conn' # conn
    <3>1. Shorter(stream'["cli"], stream'["cli"])
      BY <1>2, ShorterSame DEF Written
    <3>2. CliSide(hs["cli"].pc, rdr["cli"].pc, Size(received["cli"]), stream'["cli"], conn',
                  to, Free, sent["srv"], v)
      BY <1>3, <2>3, <2>5, <3>1, CliSideLost DEF SrvPc
    <3> QED BY <1>2, <1>6, <3>2 DEF CliStream
  <2> QED BY <2>4, <2>5
<1>8. SrvStream'
  <2>1. SrvSide(from, rdr["srv"].pc, Size(received["srv"]), stream["srv"], conn,
                hs["cli"].pc, lock["cli"], sent["cli"], x)
    BY <1>2 DEF StreamInv, SrvStream
  <2>2. SrvSide(to, rdr["srv"].pc, Size(received["srv"]), stream["srv"], conn',
                hs["cli"].pc, lock["cli"], sent["cli"], x)
    <3>1. CASE to = "refused"
      BY <3>1 DEF SrvSide, SrvReads
    <3>2. CASE to # "refused"
      BY <2>1, <3>2, SrvSideReader
    <3> QED BY <3>1, <3>2
  <2> QED BY <1>2, <1>6, <2>2 DEF SrvStream
<1> QED BY <1>5, <1>7, <1>8 DEF StreamInv

(* Any other step of the server's handshake: it writes nothing.            *)
LEMMA SrvQuietly ==
  ASSUME TypeInv, StreamInv, UNCHANGED <<key, major, snd, rdr, sent, received>>,
         hs'["cli"] = hs["cli"], hs["srv"].pc \notin HsDone, hs'["srv"].pc \in SrvPc,
         stream'["cli"] = stream["cli"], lock'["cli"] = lock["cli"],
         \/ /\ hs["srv"].pc \in Greeted /\ hs'["srv"].pc \in Greeted
            /\ lock' = lock /\ conn' = conn
         \/ /\ hs'["srv"].pc = "refused" /\ conn' # "up"
            /\ lock'["srv"] \in {lock["srv"], Free},
         hs'["srv"].pc = "awaitBody" => hs'["srv"].pkt.size = RESPONSE_SIZE,
         hs'["srv"].pc = "accept" => key["cli"] = key["srv"],
         SrvStream'
  PROVE  StreamInv'
<1> DEFINE v == VersionData("srv")
<1>1. Phases' /\ Holder' /\ Got' /\ AuthAgreement'
  <2>1. \A u \in Side : lock'[u] = lock[u] \/ lock'[u] \notin Tasks
    BY LockNames DEF Side
  <2>2. hs'[Other("srv")] = hs[Other("srv")] /\ "srv" \in Side
    BY Sides
  <2>3. hs'["srv"].pc \notin {"acceptBody", "open"}
    BY DEF Greeted
  <2>4. hs'["srv"].pc = "refused" => conn' # "up"
    BY DEF Greeted
  <2> QED BY <2>1, <2>2, <2>3, <2>4, HsKeeps DEF StreamInv
<1>2. v' = v
  BY DEF VersionData
<1>3. CliSide(hs["cli"].pc, rdr["cli"].pc, Size(received["cli"]), stream["cli"], conn,
              hs["srv"].pc, lock["srv"], sent["srv"], v)
  BY DEF StreamInv, CliStream
<1>4. CliSide(hs["cli"].pc, rdr["cli"].pc, Size(received["cli"]), stream["cli"], conn',
              hs'["srv"].pc, lock'["srv"], sent["srv"], v)
  <2>1. CASE hs'["srv"].pc = "refused"
    <3>1. Shorter(stream["cli"], stream["cli"]) /\ hs["srv"].pc \in SrvPc
      BY StreamTyping, Sides DEF StreamInv, Phases
    <3> QED BY <1>3, <2>1, <3>1, CliSideLost DEF HsDone, Greeted
  <2>2. CASE hs'["srv"].pc # "refused"
    BY <1>3, <2>2, ToCliSame DEF CliSide
  <2> QED BY <2>1, <2>2
<1>5. CliStream'
  BY <1>2, <1>4 DEF CliStream
<1> QED BY <1>1, <1>5 DEF StreamInv

LEMMA SrvEnds ==
  ASSUME hs'["srv"].pc = "refused"
  PROVE  SrvStream'
BY DEF SrvStream, SrvSide, SrvReads

LEMMA ReadResponseKeeps ==
  ASSUME TypeInv, StreamInv, ReadResponse
  PROVE  StreamInv'
<1> DEFINE x == ComputeResponse(key["cli"], Nonce)
           b == stream["srv"]
<1>1. rdr["srv"].pc = "header" \/ hs["srv"].pc = "open"
  BY Sides DEF StreamInv, Phases
<1>2. hs["srv"].pc # "open" => Size(received["srv"]) = 0
  <2>1. Size(<<>>) = 0
    BY DEF Size
  <2> QED BY <2>1, Sides DEF StreamInv, Phases
<1>3. CASE HsRead("srv", "await", PACKET_HEADER_SIZE, HeaderOf("srv"), <<>>,
                  IF HeaderOf("srv").type = "GwAuthResponse" THEN "awaitBody" ELSE "refused")
  <2> DEFINE to == IF HeaderOf("srv").type = "GwAuthResponse" THEN "awaitBody" ELSE "refused"
             t  == Taken("srv", PACKET_HEADER_SIZE)
  <2>1. PACKET_HEADER_SIZE = 16 /\ PACKET_HEADER_SIZE \in Nat
    BY DEF PACKET_HEADER_SIZE
  <2>2. /\ UNCHANGED <<key, major, snd, rdr, sent, received, lock>>
        /\ to # "refused" => conn' = conn
        /\ to = "refused" => conn' # "up"
        /\ hs'["cli"] = hs["cli"] /\ hs["srv"].pc = "await"
        /\ hs'["srv"].pc = to /\ hs'["srv"].pkt = HeaderOf("srv")
        /\ stream'["cli"] = stream["cli"] /\ Size(b) >= 16
        /\ Part(t, b, 1, 16) /\ Rest(stream'["srv"], b, 16)
    BY <1>3, <2>1, HsReadEffect, Sides
  <2>3. HeaderOf("srv") = FromBytes(t)
    BY DEF HeaderOf
  <2>4. SrvDone("await", 0) = 0 /\ Base("await", "header") = 0
          /\ SrvDone("awaitBody", 0) = 0 /\ Base("awaitBody", "header") = 0 - 16
    BY DEF SrvDone, Base
  <2>5. rdr["srv"].pc = "header" /\ Size(received["srv"]) = 0
    BY <1>1, <1>2, <2>2
  <2>6. Spoiled("await", b, conn) \/ ToSrv(b, 0, 0, conn, hs["cli"].pc, lock["cli"], sent["cli"], x)
    <3>1. SrvSide("await", "header", 0, b, conn, hs["cli"].pc, lock["cli"], sent["cli"], x)
      BY <2>2, <2>5 DEF StreamInv, SrvStream
    <3> QED BY <2>4, <3>1 DEF SrvSide, SrvReads
  <2>7. to = "awaitBody" =>
          /\ HeaderOf("srv").size = RESPONSE_SIZE
          /\ ToSrv(stream'["srv"], 0, 0 - 16, conn, hs["cli"].pc, lock["cli"], sent["cli"], x)
    <3>1. to = "awaitBody" => ~Spoiled("await", b, conn)
      BY <2>2, <2>3, SpoiledRead
    <3>2. ToSrv(b, 0, 0, conn, hs["cli"].pc, lock["cli"], sent["cli"], x) =>
            /\ FromBytes(t).size = Size(x)
            /\ ToSrv(stream'["srv"], 0, 0 - 16, conn, hs["cli"].pc, lock["cli"], sent["cli"], x)
      BY <2>2, ToSrvResponse
    <3>3. Size(x) = RESPONSE_SIZE
      BY HsPieces
    <3> QED BY <2>3, <2>6, <3>1, <3>2, <3>3
  <2>8. SrvStream'
    <3>1. CASE to = "refused"
      BY <2>2, <3>1, SrvEnds
    <3>2. CASE to = "awaitBody"
      <4>1. x' = x
        BY <2>2
      <4>2. ToSrv(stream'["srv"], SrvDone("awaitBody", 0), Base("awaitBody", "header"), conn,
                  hs["cli"].pc, lock["cli"], sent["cli"], x)
        BY <2>4, <2>7, <3>2
      <4>3. SrvSide("awaitBody", "header", 0, stream'["srv"], conn, hs["cli"].pc,
                    lock["cli"], sent["cli"], x)
        BY <4>2, Zenon DEF SrvSide
      <4> QED BY <2>2, <2>5, <3>2, <4>1, <4>3 DEF SrvStream
    <3> QED BY <3>1, <3>2
  <2> QED BY <2>2, <2>7, <2>8, SrvQuietly DEF Greeted, SrvPc, HsDone
<1>4. CASE HsRead("srv", "awaitBody", hs["srv"].pkt.size, hs["srv"].pkt,
                  Taken("srv", hs["srv"].pkt.size),
                  IF VerifyResponse(key["srv"], Nonce, Taken("srv", hs["srv"].pkt.size))
                    THEN "accept" ELSE "deny")
  <2> DEFINE n  == hs["srv"].pkt.size
             t  == Taken("srv", n)
             to == IF VerifyResponse(key["srv"], Nonce, t) THEN "accept" ELSE "deny"
  <2>1. hs["srv"].pc = "awaitBody"
    BY <1>4 DEF HsRead
  <2>2. n = RESPONSE_SIZE /\ n = Size(x) /\ n \in Nat
    BY <2>1, HsPieces, NonceTyping DEF StreamInv, Phases
  <2>3. /\ UNCHANGED <<key, major, snd, rdr, sent, received, lock>>
        /\ to # "refused" => conn' = conn
        /\ hs'["cli"] = hs["cli"] /\ hs'["srv"].pc = to
        /\ stream'["cli"] = stream["cli"] /\ Size(b) >= n
        /\ Part(t, b, 1, n) /\ Rest(stream'["srv"], b, n)
    BY <1>4, <2>2, HsReadEffect, Sides
  <2>4. SrvDone("awaitBody", 0) = 0 /\ Base("awaitBody", "header") = 0 - 16
          /\ SrvDone("accept", 0) = 1 /\ Base("accept", "header") = 0
    BY DEF SrvDone, Base
  <2>5. rdr["srv"].pc = "header" /\ Size(received["srv"]) = 0
    BY <1>1, <1>2, <2>1
  <2>6. ToSrv(b, 0, 0 - 16, conn, hs["cli"].pc, lock["cli"], sent["cli"], x)
    <3>1. SrvSide("awaitBody", "header", 0, b, conn, hs["cli"].pc, lock["cli"], sent["cli"], x)
      BY <2>1, <2>5 DEF StreamInv, SrvStream
    <3> QED BY <2>4, <3>1 DEF SrvSide, SrvReads, Spoiled
  <2>7. t = x /\ ToSrv(stream'["srv"], 1, 0, conn, hs["cli"].pc, lock["cli"], sent["cli"], x)
    <3>1. Size(b) >= Size(x) /\ Part(t, b, 1, Size(x)) /\ Rest(stream'["srv"], b, Size(x))
      BY <2>2, <2>3
    <3> QED BY <2>6, <3>1, ToSrvAnswer
  <2>8. to = "accept" => key["cli"] = key["srv"]
    <3>1. to = "accept" => x = ComputeResponse(key["srv"], Nonce)
      BY <2>7 DEF VerifyResponse
    <3>2. key["cli"] \in Byte /\ key["srv"] \in Byte /\ Nonce \in Seq(Byte) /\ Len(Nonce) # 0
      BY NonceTyping, Sides DEF TypeInv, Typed
    <3>3. x = ComputeResponse(key["srv"], Nonce) => key["cli"] = key["srv"]
      BY <3>2, ResponseTells
    <3> QED BY <3>1, <3>3
  <2>9. SrvStream'
    <3>1. x' = x
      BY <2>3
    <3>2. CASE to = "deny"
      BY <2>3, <3>2 DEF SrvStream, SrvSide, SrvReads
    <3>3. CASE to = "accept"
      <4>1. ToSrv(stream'["srv"], SrvDone("accept", 0), Base("accept", "header"), conn,
                  hs["cli"].pc, lock["cli"], sent["cli"], x)
        BY <2>4, <2>7
      <4>2. SrvSide("accept", "header", 0, stream'["srv"], conn, hs["cli"].pc,
                    lock["cli"], sent["cli"], x)
        BY <4>1, Zenon DEF SrvSide
      <4> QED BY <2>3, <2>5, <3>1, <3>3, <4>2 DEF SrvStream
    <3> QED BY <3>2, <3>3
  <2> QED BY <2>1, <2>3, <2>8, <2>9, SrvQuietly DEF Greeted, SrvPc, HsDone
<1> QED BY <1>3, <1>4 DEF ReadResponse

LEMMA SrvGivesUp ==
  ASSUME TypeInv, StreamInv, ResponseTimeout \/ HsFail("srv")
  PROVE  StreamInv'
<1>1. hs \in [Side -> HsRec] /\ lock \in [Side -> Tasks \cup {Free, "handshake"}]
  BY DEF TypeInv, Typed
<1>2. hs' = [hs EXCEPT !["srv"].pc = "refused"] /\ hs["srv"].pc \notin HsDone
  BY DEF ResponseTimeout, HsFail, HsDone, HsReading, HsWriting
<1>3. hs'["cli"] = hs["cli"] /\ hs'["srv"].pc = "refused"
  BY <1>1, <1>2, Sides DEF HsRec
<1>4. /\ UNCHANGED <<key, major, snd, rdr, sent, received, stream>> /\ conn' # "up"
      /\ lock' = lock \/ lock' = [lock EXCEPT !["srv"] = IF @ = "handshake" THEN Free ELSE @]
  BY DEF ResponseTimeout, HsFail, config, count
<1>5. lock'["cli"] = lock["cli"] /\ lock'["srv"] \in {lock["srv"], Free}
  BY <1>1, <1>4, Sides
<1> QED BY <1>2, <1>3, <1>4, <1>5, SrvEnds, SrvQuietly DEF SrvPc, Greeted

(* A step of the client's handshake that writes nothing.                   *)
LEMMA CliQuietly ==
  ASSUME TypeInv, StreamInv, UNCHANGED <<key, major, snd, rdr, sent, received>>,
         hs'["srv"] = hs["srv"], hs["cli"].pc \notin HsDone, hs'["cli"].pc \in CliPc,
         stream'["srv"] = stream["srv"], lock'["srv"] = lock["srv"],
         \/ /\ lock' = lock /\ conn' = conn
            /\ \/ hs["cli"].pc \in Fresh /\ hs'["cli"].pc \in Fresh
               \/ {hs["cli"].pc, hs'["cli"].pc} \cap (Fresh \cup {"respondBody", "refused"}) = {}
         \/ /\ hs'["cli"].pc = "refused" /\ conn' # "up"
            /\ lock'["cli"] \in {lock["cli"], Free},
         hs'["cli"].pc = "respond" => hs'["cli"].data = Nonce,
         hs'["cli"].pc = "open" => hs["srv"].pc = "open" /\ major["cli"] = major["srv"],
         CliStream'
  PROVE  StreamInv'
<1> DEFINE x == ComputeResponse(key["cli"], Nonce)
<1>1. Phases' /\ Holder' /\ Got' /\ AuthAgreement'
  <2>1. \A u \in Side : lock'[u] = lock[u] \/ lock'[u] \notin Tasks
    BY LockNames DEF Side
  <2>2. hs'[Other("cli")] = hs[Other("cli")] /\ "cli" \in Side
    BY Sides
  <2>3. hs'["cli"].pc # "respondBody"
    BY DEF Fresh
  <2>4. hs'["cli"].pc = "refused" => conn' # "up"
    BY DEF Fresh
  <2> QED BY <2>1, <2>2, <2>3, <2>4, HsKeeps DEF StreamInv
<1>2. SrvSide(hs["srv"].pc, rdr["srv"].pc, Size(received["srv"]), stream["srv"], conn,
              hs["cli"].pc, lock["cli"], sent["cli"], x)
  BY DEF StreamInv, SrvStream
<1>3. SrvSide(hs["srv"].pc, rdr["srv"].pc, Size(received["srv"]), stream["srv"], conn',
              hs'["cli"].pc, lock'["cli"], sent["cli"], x)
  <2>1. CASE hs'["cli"].pc = "refused"
    <3>1. Shorter(stream["srv"], stream["srv"]) /\ hs["srv"].pc \in SrvPc
      BY StreamTyping, Sides DEF StreamInv, Phases
    <3>2. Size(received["srv"]) \in Nat
      BY LenProperties, Sides DEF StreamInv, Got, Gets, Size
    <3>3. conn' # "up" /\ lock'["cli"] \in {lock["cli"], Free}
      BY <2>1 DEF Fresh
    <3> QED BY <1>2, <2>1, <3>1, <3>2, <3>3, SrvSideLost
  <2>2. CASE hs'["cli"].pc # "refused"
    BY <1>2, <2>2, SrvSideWriter
  <2> QED BY <2>1, <2>2
<1>4. SrvStream'
  BY <1>3 DEF SrvStream
<1> QED BY <1>1, <1>4 DEF StreamInv

LEMMA CliEnds ==
  ASSUME hs'["cli"].pc \in {"reason", "refused"}
  PROVE  CliStream'
BY DEF CliStream, CliSide, CliReads

(* What the client, at step p of the handshake, has in front of it.        *)
LEMMA CliFacing ==
  ASSUME StreamInv, hs["cli"].pc \notin {"open", "reason", "refused"}
  PROVE  /\ rdr["cli"].pc = "header" /\ Size(received["cli"]) = 0
         /\ ToCli(stream["cli"], CliDone(hs["cli"].pc, 0), Base(hs["cli"].pc, "header"),
                  conn, hs["srv"].pc, lock["srv"], sent["srv"], VersionData("srv"))
<1>1. rdr["cli"].pc = "header" /\ received["cli"] = <<>>
  BY Sides DEF StreamInv, Phases
<1>2. Size(<<>>) = 0
  BY DEF Size
<1>3. CliSide(hs["cli"].pc, "header", 0, stream["cli"], conn,
              hs["srv"].pc, lock["srv"], sent["srv"], VersionData("srv"))
  BY <1>1, <1>2 DEF StreamInv, CliStream
<1>4. CliReads(hs["cli"].pc, "header")
  BY DEF CliReads
<1> QED BY <1>1, <1>2, <1>3, <1>4 DEF CliSide

LEMMA CliArrives ==
  ASSUME NEW p, hs'["cli"].pc = p, rdr'["cli"].pc = "header", Size(received'["cli"]) = 0,
         ToCli(stream'["cli"], CliDone(p, 0), Base(p, "header"), conn, hs["srv"].pc,
               lock["srv"], sent["srv"], VersionData("srv")),
         conn' = conn, hs'["srv"] = hs["srv"], UNCHANGED <<lock, sent, major>>
  PROVE  CliStream'
<1>1. VersionData("srv")' = VersionData("srv")
  BY DEF VersionData
<1>2. CliSide(p, "header", 0, stream'["cli"], conn, hs["srv"].pc, lock["srv"],
              sent["srv"], VersionData("srv"))
  BY Zenon DEF CliSide
<1> QED BY <1>1, <1>2 DEF CliStream

LEMMA CliSteps ==
  /\ CliDone("wait", 0) = 0 /\ Base("wait", "header") = 0
  /\ CliDone("waitBody", 0) = 0 /\ Base("waitBody", "header") = 0 - 16
  /\ CliDone("respond", 0) = 1 /\ Base("respond", "header") = 0
  /\ CliDone("result", 0) = 1 /\ Base("result", "header") = 0
  /\ CliDone("version", 0) = 1 /\ Base("version", "header") = 0 - 16
  /\ CliDone("open", 0) = 2 /\ Base("open", "header") = 0
BY DEF CliDone, Base

LEMMA ReadChallengeKeeps ==
  ASSUME TypeInv, StreamInv, ReadChallenge
  PROVE  StreamInv'
<1> DEFINE b == stream["cli"]
           v == VersionData("srv")
<1>1. CASE HsRead("cli", "wait", PACKET_HEADER_SIZE, HeaderOf("cli"), <<>>,
                  IF HeaderOf("cli").type = "GwAuthChallenge" /\ HeaderOf("cli").size = NONCE_SIZE
                    THEN "waitBody" ELSE "refused")
  <2> DEFINE t  == Taken("cli", PACKET_HEADER_SIZE)
             to == IF HeaderOf("cli").type = "GwAuthChallenge" /\ HeaderOf("cli").size = NONCE_SIZE
                     THEN "waitBody" ELSE "refused"
  <2>1. PACKET_HEADER_SIZE = 16 /\ PACKET_HEADER_SIZE \in Nat
    BY DEF PACKET_HEADER_SIZE
  <2>2. /\ UNCHANGED <<key, major, snd, rdr, sent, received, lock>>
        /\ to # "refused" => conn' = conn
        /\ hs'["srv"] = hs["srv"] /\ hs["cli"].pc = "wait" /\ hs'["cli"].pc = to
        /\ stream'["srv"] = stream["srv"] /\ Size(b) >= 16
        /\ Part(t, b, 1, 16) /\ Rest(stream'["cli"], b, 16)
    BY <1>1, <2>1, HsReadEffect, Sides
  <2>3. /\ rdr["cli"].pc = "header" /\ Size(received["cli"]) = 0
        /\ ToCli(b, 0, 0, conn, hs["srv"].pc, lock["srv"], sent["srv"], v)
    BY <2>2, CliFacing, CliSteps
  <2>4. /\ FromBytes(t).type = "GwAuthChallenge" /\ FromBytes(t).size = NONCE_SIZE
        /\ ToCli(stream'["cli"], 0, 0 - 16, conn, hs["srv"].pc, lock["srv"], sent["srv"], v)
    BY <2>2, <2>3, ToCliChallenge
  <2>5. to = "waitBody"
    BY <2>4 DEF HeaderOf
  <2>6. CliStream'
    BY <2>2, <2>3, <2>4, <2>5, CliSteps, CliArrives
  <2> QED BY <2>2, <2>5, <2>6, CliQuietly DEF Fresh, CliPc, HsDone
<1>2. CASE HsRead("cli", "waitBody", NONCE_SIZE, hs["cli"].pkt, Taken("cli", NONCE_SIZE),
                  "respond")
  <2> DEFINE t == Taken("cli", NONCE_SIZE)
  <2>1. /\ UNCHANGED <<key, major, snd, rdr, sent, received, lock>> /\ conn' = conn
        /\ hs'["srv"] = hs["srv"] /\ hs["cli"].pc = "waitBody" /\ hs'["cli"].pc = "respond"
        /\ hs'["cli"].data = t
        /\ stream'["srv"] = stream["srv"] /\ Size(b) >= NONCE_SIZE
        /\ Part(t, b, 1, NONCE_SIZE) /\ Rest(stream'["cli"], b, NONCE_SIZE)
    BY <1>2, HsReadEffect, NonceTyping, Sides
  <2>2. /\ rdr["cli"].pc = "header" /\ Size(received["cli"]) = 0
        /\ ToCli(b, 0, 0 - 16, conn, hs["srv"].pc, lock["srv"], sent["srv"], v)
    BY <2>1, CliFacing, CliSteps
  <2>3. t = Nonce /\ ToCli(stream'["cli"], 1, 0, conn, hs["srv"].pc, lock["srv"], sent["srv"], v)
    BY <2>1, <2>2, ToCliNonce
  <2>4. CliStream'
    BY <2>1, <2>2, <2>3, CliSteps, CliArrives
  <2> QED BY <2>1, <2>3, <2>4, CliQuietly DEF Fresh, CliPc, HsDone
<1> QED BY <1>1, <1>2 DEF ReadChallenge

(* The version on the wire is the server's.                                *)
LEMMA VersionArrives ==
  ASSUME TypeInv, VersionFits("cli", VersionData("srv"))
  PROVE  major["cli"] = major["srv"]
<1> DEFINE v == VersionData("srv")
           m == major["srv"]
<1>1. major \in [Side -> Nat] /\ m \in Nat /\ Fits32(m)
  BY Sides DEF TypeInv, Typed
<1>2. v \in Seq(Byte) /\ Len(v) = 12 /\ \A i \in 1 .. 4 : v[i] = LE(m, 4)[i]
  BY <1>1, VersionTyping, Sides
<1>3. LE(m, 4) \in Seq(Byte) /\ Len(LE(m, 4)) = 4
  BY <1>1, LETyping, Zenon
<1>4. Part(SubSeq(v, 1, 4), v, 1, 4)
  <2>1. 1 \in Nat /\ 4 \in Nat /\ 1 <= 1 /\ 1 <= 4 + 1 /\ 4 <= Len(v)
    BY <1>2
  <2> QED BY <1>2, <2>1, Slice, Zenon
<1>5. /\ SubSeq(v, 1, 4) \in Seq(Byte) /\ Len(SubSeq(v, 1, 4)) = 4
      /\ \A i \in 1 .. 4 : SubSeq(v, 1, 4)[i] = v[i]
  BY <1>4 DEF Part
<1>6. SubSeq(v, 1, 4) = LE(m, 4)
  BY <1>2, <1>3, <1>5, SameBytes
<1>7. FromLE(LE(m, 4)) = m
  BY <1>1, RoundTrip4, Zenon
<1> QED BY <1>6, <1>7 DEF VersionFits

LEMMA ReadVerdictKeeps ==
  ASSUME TypeInv, StreamInv, ReadVerdict
  PROVE  StreamInv'
<1> DEFINE b == stream["cli"]
           v == VersionData("srv")
           p == HeaderOf("cli")
           to == CASE p.type = "GwConnected" /\ p.size >= 12 -> "version"
                   [] p.type = "GwConnected" /\ p.size < 12  -> "open"
                   [] p.type = "GwDeny" /\ p.size > 0        -> "reason"
                   [] OTHER -> "refused"
<1>1. CASE HsRead("cli", "result", PACKET_HEADER_SIZE, p, <<>>, to)
  <2> DEFINE t  == Taken("cli", PACKET_HEADER_SIZE)
  <2>1. PACKET_HEADER_SIZE = 16 /\ PACKET_HEADER_SIZE \in Nat
    BY DEF PACKET_HEADER_SIZE
  <2> HIDE DEF to
  <2>2. /\ UNCHANGED <<key, major, snd, rdr, sent, received, lock>>
        /\ to # "refused" => conn' = conn
        /\ hs'["srv"] = hs["srv"] /\ hs["cli"].pc = "result" /\ hs'["cli"].pc = to
        /\ stream'["srv"] = stream["srv"] /\ Size(b) >= 16
        /\ Part(t, b, 1, 16) /\ Rest(stream'["cli"], b, 16)
    BY <1>1, <2>1, HsReadEffect, Sides
  <2>3. /\ rdr["cli"].pc = "header" /\ Size(received["cli"]) = 0
        /\ ToCli(b, 1, 0, conn, hs["srv"].pc, lock["srv"], sent["srv"], v)
    BY <2>2, CliFacing, CliSteps
  <2>4. \/ /\ p.type = "GwConnected" /\ p.size = Size(v)
           /\ ToCli(stream'["cli"], 1, 0 - 16, conn, hs["srv"].pc, lock["srv"], sent["srv"], v)
        \/ p.type = "GwDeny" /\ p.size = 1
    BY <2>2, <2>3, ToCliVerdict DEF HeaderOf
  <2>5. Size(v) = 12
    BY HsPieces DEF Size
  <2>6. \/ /\ to = "version"
           /\ ToCli(stream'["cli"], 1, 0 - 16, conn, hs["srv"].pc, lock["srv"], sent["srv"], v)
        \/ to = "reason"
    BY <2>4, <2>5 DEF to
  <2>7. CliStream'
    <3>1. CASE to = "reason"
      BY <2>2, <3>1, CliEnds
    <3>2. CASE to = "version"
      BY <2>2, <2>3, <2>6, <3>2, CliSteps, CliArrives
    <3> QED BY <2>6, <3>1, <3>2
  <2> QED BY <2>2, <2>6, <2>7, CliQuietly DEF Fresh, CliPc, HsDone
<1>2. CASE HsRead("cli", "version", 12, NoHeader, <<>>,
                  IF VersionFits("cli", Taken("cli", 12)) THEN "open" ELSE "refused")
  <2> DEFINE t == Taken("cli", 12)
             next == IF VersionFits("cli", t) THEN "open" ELSE "refused"
  <2>1. /\ UNCHANGED <<key, major, snd, rdr, sent, received, lock>>
        /\ next # "refused" => conn' = conn
        /\ next = "refused" => conn' # "up"
        /\ hs'["srv"] = hs["srv"] /\ hs["cli"].pc = "version" /\ hs'["cli"].pc = next
        /\ stream'["srv"] = stream["srv"] /\ Size(b) >= 12
        /\ Part(t, b, 1, 12) /\ Rest(stream'["cli"], b, 12)
    BY <1>2, HsReadEffect, Sides
  <2>2. /\ rdr["cli"].pc = "header" /\ Size(received["cli"]) = 0
        /\ ToCli(b, 1, 0 - 16, conn, hs["srv"].pc, lock["srv"], sent["srv"], v)
    BY <2>1, CliFacing, CliSteps
  <2>3. Size(v) = 12
    BY HsPieces DEF Size
  <2>4. /\ hs["srv"].pc = "open" /\ t = v
        /\ ToCli(stream'["cli"], 2, 0, conn, hs["srv"].pc, lock["srv"], sent["srv"], v)
    BY <2>1, <2>2, <2>3, ToCliVersion
  <2>5. next = "open" => major["cli"] = major["srv"]
    BY <2>4, VersionArrives
  <2>6. CliStream'
    <3>1. CASE next = "refused"
      BY <2>1, <3>1, CliEnds
    <3>2. CASE next = "open"
      BY <2>1, <2>2, <2>4, <3>2, CliSteps, CliArrives
    <3> QED BY <3>1, <3>2
  <2> QED BY <2>1, <2>4, <2>5, <2>6, CliQuietly DEF Fresh, CliPc, HsDone
<1>3. CASE HsRead("cli", "reason", hs["cli"].pkt.size, NoHeader, <<>>, "refused")
  <2>1. hs["cli"].pkt.size \in Nat
    BY StreamTyping, Sides DEF HeaderGW
  <2>2. /\ UNCHANGED <<key, major, snd, rdr, sent, received, lock>> /\ conn' # "up"
        /\ hs'["srv"] = hs["srv"] /\ hs["cli"].pc = "reason" /\ hs'["cli"].pc = "refused"
        /\ stream'["srv"] = stream["srv"]
    BY <1>3, <2>1, HsReadEffect, Sides
  <2> QED BY <2>2, CliEnds, CliQuietly DEF CliPc, HsDone
<1> QED BY <1>1, <1>2, <1>3 DEF ReadVerdict

LEMMA CliGivesUp ==
  ASSUME TypeInv, StreamInv, HsFail("cli")
  PROVE  StreamInv'
<1>1. hs \in [Side -> HsRec] /\ lock \in [Side -> Tasks \cup {Free, "handshake"}]
  BY DEF TypeInv, Typed
<1>2. hs' = [hs EXCEPT !["cli"].pc = "refused"] /\ hs["cli"].pc \notin HsDone
  BY DEF HsFail, HsDone, HsReading, HsWriting
<1>3. hs'["srv"] = hs["srv"] /\ hs'["cli"].pc = "refused"
  BY <1>1, <1>2, Sides DEF HsRec
<1>4. /\ UNCHANGED <<key, major, snd, rdr, sent, received, stream>> /\ conn' # "up"
      /\ lock' = [lock EXCEPT !["cli"] = IF @ = "handshake" THEN Free ELSE @]
  BY DEF HsFail, config, count
<1>5. lock'["srv"] = lock["srv"] /\ lock'["cli"] \in {lock["cli"], Free}
  BY <1>1, <1>4, Sides
<1> QED BY <1>2, <1>3, <1>4, <1>5, CliEnds, CliQuietly DEF CliPc

(* The response: the only thing the client's handshake writes.             *)
LEMMA SendResponseKeeps ==
  ASSUME TypeInv, StreamInv, SendResponse
  PROVE  StreamInv'
<1> DEFINE b == stream["srv"]
           v == VersionData("srv")
           x == ComputeResponse(key["cli"], Nonce)
<1>0. /\ x \in Seq(Byte) /\ Len(x) = RESPONSE_SIZE /\ Size(x) = RESPONSE_SIZE
      /\ RESPONSE_SIZE \in U16 /\ RESPONSE_SIZE # 0 /\ RESPONSE_SIZE \in Nat
  BY HsPieces, NonceTyping
<1>1. ByteSeq(b) /\ ByteSeq(x)
  BY <1>0, StreamTyping, Sides DEF ByteSeq
<1>2. CASE HsHeader("cli", "respond", "respondBody", "GwAuthResponse",
                    NextPacketId("cli"), RESPONSE_SIZE)
  <2> DEFINE h == Header("GwAuthResponse", NextPacketId("cli"), 0, RESPONSE_SIZE, 0)
  <2>1. "GwAuthResponse" \in DOMAIN Code /\ NextPacketId("cli") \in Nat
    BY CodeNames, CounterTyping, Sides DEF HsTypes, TypeInv
  <2>2. (\E w : Frames(w, h, x)) /\ h.type = "GwAuthResponse" /\ h \in HeaderGW
    BY <1>0, <2>1, PacketExists
  <2>3. PICK w : Frames(w, h, x)
    BY <2>2
  <2>4. /\ UNCHANGED <<key, major, snd, rdr, sent, received>> /\ conn' = conn
        /\ hs'["srv"] = hs["srv"] /\ hs["cli"].pc = "respond" /\ hs'["cli"].pc = "respondBody"
        /\ hs'["cli"].data = hs["cli"].data
        /\ lock["cli"] = Free /\ lock'["cli"] = "handshake" /\ lock'["srv"] = lock["srv"]
        /\ stream'["cli"] = stream["cli"]
        /\ Written(stream'["srv"], b, ToBytes(h), conn)
    BY <1>0, <1>2, <2>1, HsHeaderEffect, Sides
  <2>5. Phases' /\ Holder' /\ Got' /\ AuthAgreement'
    <3>1. \A u \in Side : lock'[u] = lock[u] \/ lock'[u] \notin Tasks
      BY <2>4, LockNames DEF Side
    <3>2. hs'[Other("cli")] = hs[Other("cli")] /\ "cli" \in Side
      BY <2>4, Sides
    <3>3. hs["cli"].data = Nonce
      BY <2>4 DEF StreamInv, Phases
    <3> QED BY <2>4, <3>1, <3>2, <3>3, HsKeeps DEF StreamInv, HsDone, CliPc
  <2>6. v' = v /\ x' = x
    BY <2>4 DEF VersionData
  <2>7. CliStream'
    <3>1. CliSide("respond", rdr["cli"].pc, Size(received["cli"]), stream["cli"], conn,
                  hs["srv"].pc, lock["srv"], sent["srv"], v)
      BY <2>4 DEF StreamInv, CliStream
    <3>2. CliSide("respondBody", rdr["cli"].pc, Size(received["cli"]), stream["cli"], conn,
                  hs["srv"].pc, lock["srv"], sent["srv"], v)
      BY <3>1, CliSideReader
    <3> QED BY <2>4, <2>6, <3>2 DEF CliStream
  <2>8. SrvStream'
    <3>1. SrvSide(hs["srv"].pc, rdr["srv"].pc, Size(received["srv"]), b, conn,
                  "respond", Free, sent["cli"], x)
      BY <2>4 DEF StreamInv, SrvStream
    <3>2. ByteSeq(ToBytes(h))
      BY <2>2, HeaderBytes DEF ByteSeq
    <3>3. SrvSide(hs["srv"].pc, rdr["srv"].pc, Size(received["srv"]), stream'["srv"], conn,
                  "respondBody", "handshake", sent["cli"], x)
      <4>1. Spoiled(hs["srv"].pc, b, conn) => Spoiled(hs["srv"].pc, stream'["srv"], conn)
        BY <1>1, <2>4, <3>2, SpoiledWritten
      <4> QED BY <1>0, <2>2, <2>3, <2>4, <3>1, <4>1, ToSrvHsHeader DEF SrvSide
    <3> QED BY <2>4, <2>6, <3>3 DEF SrvStream
  <2> QED BY <2>5, <2>7, <2>8 DEF StreamInv
<1>3. CASE /\ HsData("cli", "respondBody", "result", ComputeResponse(key["cli"], hs["cli"].data))
           /\ UNCHANGED conn
  <2>1. hs["cli"].pc = "respondBody" /\ "respondBody" \in HsBody
    BY <1>3 DEF HsData, HsBody
  <2>2. hs["cli"].data = Nonce
    BY <2>1 DEF StreamInv, Phases
  <2>3. HsData("cli", "respondBody", "result", x)
    BY <1>3, <2>2
  <2>4. /\ UNCHANGED <<key, major, snd, rdr, sent, received>> /\ conn' = conn
        /\ hs'["srv"] = hs["srv"] /\ hs'["cli"].pc = "result"
        /\ lock["cli"] # Free /\ lock'["cli"] = Free /\ lock'["srv"] = lock["srv"]
        /\ stream'["cli"] = stream["cli"] /\ Written(stream'["srv"], b, x, conn)
    BY <1>0, <1>3, <2>1, <2>3, HsDataEffect, Sides
  <2>5. Phases' /\ Holder' /\ Got' /\ AuthAgreement'
    <3>1. \A u \in Side : lock'[u] = lock[u] \/ lock'[u] \notin Tasks
      BY <2>4, LockNames DEF Side
    <3>2. hs'[Other("cli")] = hs[Other("cli")] /\ "cli" \in Side
      BY <2>4, Sides
    <3> QED BY <2>1, <2>4, <3>1, <3>2, HsKeeps DEF StreamInv, HsDone, CliPc
  <2>6. v' = v /\ x' = x
    BY <2>4 DEF VersionData
  <2>7. CliStream'
    <3>1. CliSide("respondBody", rdr["cli"].pc, Size(received["cli"]), stream["cli"], conn,
                  hs["srv"].pc, lock["srv"], sent["srv"], v)
      BY <2>1 DEF StreamInv, CliStream
    <3>2. CliSide("result", rdr["cli"].pc, Size(received["cli"]), stream["cli"], conn,
                  hs["srv"].pc, lock["srv"], sent["srv"], v)
      BY <3>1, CliSideReader
    <3> QED BY <2>4, <2>6, <3>2 DEF CliStream
  <2>8. SrvStream'
    <3>1. SrvSide(hs["srv"].pc, rdr["srv"].pc, Size(received["srv"]), b, conn,
                  "respondBody", lock["cli"], sent["cli"], x)
      BY <2>1 DEF StreamInv, SrvStream
    <3>2. SrvSide(hs["srv"].pc, rdr["srv"].pc, Size(received["srv"]), stream'["srv"], conn,
                  "result", Free, sent["cli"], x)
      <4>1. Spoiled(hs["srv"].pc, b, conn) => Spoiled(hs["srv"].pc, stream'["srv"], conn)
        BY <1>1, <2>4, SpoiledWritten
      <4> QED BY <2>4, <3>1, <4>1, ToSrvHsData DEF SrvSide
    <3> QED BY <2>4, <2>6, <3>2 DEF SrvStream
  <2> QED BY <2>5, <2>7, <2>8 DEF StreamInv
<1> QED BY <1>2, <1>3 DEF SendResponse

-----------------------------------------------------------------------------
(* The steps of the tasks that send. *)

LEMMA CliStill ==
  ASSUME StreamInv, hs' = hs, conn' = conn, major' = major,
         stream'["cli"] = stream["cli"], lock'["srv"] = lock["srv"],
         sent'["srv"] = sent["srv"], rdr'["cli"].pc = rdr["cli"].pc,
         received'["cli"] = received["cli"]
  PROVE  CliStream'
<1>1. VersionData("srv")' = VersionData("srv")
  BY DEF VersionData
<1> QED BY <1>1 DEF StreamInv, CliStream

LEMMA SrvStill ==
  ASSUME StreamInv, hs' = hs, conn' = conn, key' = key,
         stream'["srv"] = stream["srv"], lock'["cli"] = lock["cli"],
         sent'["cli"] = sent["cli"], rdr'["srv"].pc = rdr["srv"].pc,
         received'["srv"] = received["srv"]
  PROVE  SrvStream'
BY DEF StreamInv, SrvStream

LEMMA PhasesTask ==
  ASSUME Phases, NEW t \in Tasks, UNCHANGED <<conn, hs, rdr, received>>,
         SideOf[t] = "srv" => hs["srv"].pc = "open",
         \A u \in Tasks : u # t => snd'[u].pc = snd[u].pc,
         SideOf[t] # "srv" => sent'["srv"] = sent["srv"]
  PROVE  Phases'
<1>1. hs["srv"].pc # "open" =>
        sent'["srv"] = <<>> /\ \A u \in Tasks : SideOf[u] = "srv" => snd'[u].pc = "idle"
  BY DEF Phases
<1>2. /\ hs["srv"].pc \in SrvPc /\ hs["cli"].pc \in CliPc
      /\ \A s \in Side : rdr[s].pc # "header" => hs[s].pc = "open"
      /\ \A s \in Side : hs[s].pc # "open" => received[s] = <<>>
      /\ \A s \in Side : hs[s].pc = "refused" => conn # "up"
      /\ hs["cli"].pc \in {"respond", "respondBody"} => hs["cli"].data = Nonce
      /\ hs["srv"].pc = "awaitBody" => hs["srv"].pkt.size = RESPONSE_SIZE
  BY DEF Phases
<1> QED BY <1>1, <1>2 DEF Phases

(* Taking a number and counting concern no stream.                         *)
LEMMA TaskQuietly ==
  ASSUME TypeInv, StreamInv, NEW t \in Tasks, TakeNumber(t) \/ CountSent(t)
  PROVE  StreamInv'
<1>1. /\ UNCHANGED <<conn, stream, lock, key, major, hs, rdr, sent, received>>
      /\ snd[t].pc \in {"idle", "count"}
      /\ \/ snd' = [snd EXCEPT ![t].pc = "header", ![t].id = NextPacketId(SideOf[t])]
         \/ snd' = [snd EXCEPT ![t].pc = "idle", ![t].todo = Tail(@)]
  BY DEF TakeNumber, CountSent, config, count
<1>2. \A u \in Tasks : u # t => snd'[u] = snd[u]
  BY <1>1 DEF TypeInv, Typed
<1>3. SideOf[t] = "srv" => hs["srv"].pc = "open"
  <2>1. CASE TakeNumber(t)
    BY <2>1, EarlyAssumption DEF TakeNumber
  <2>2. CASE CountSent(t)
    BY <2>2 DEF CountSent, StreamInv, Phases
  <2> QED BY <2>1, <2>2
<1>4. Phases'
  BY <1>1, <1>2, <1>3, PhasesTask DEF StreamInv
<1>5. Holder'
  BY <1>1, <1>2, HolderKept DEF StreamInv
<1>6. Got' /\ AuthAgreement'
  BY <1>1, GotKept DEF StreamInv, AuthAgreement
<1>7. CliStream' /\ SrvStream'
  BY <1>1, CliStill, SrvStill
<1> QED BY <1>4, <1>5, <1>6, <1>7 DEF StreamInv

(* A write that fails: the connection is gone, and the writer is free.     *)
LEMMA WriteFailKeeps ==
  ASSUME TypeInv, StreamInv, NEW t \in Tasks, WriteFail(t)
  PROVE  StreamInv'
<1> DEFINE s == SideOf[t]
<1>1. /\ UNCHANGED <<conn, stream, key, major, hs, rdr, sent, received>>
      /\ conn # "up" /\ snd[t].pc # "idle" /\ s \in Side
      /\ lock' = [lock EXCEPT ![s] = IF @ = t THEN Free ELSE @]
  BY LockNames DEF WriteFail, config, count
<1>2. \A u \in Tasks : u # t => snd'[u] = snd[u]
  BY DEF WriteFail, GiveUp, TypeInv, Typed
<1>3. /\ lock'[s] = IF lock[s] = t THEN Free ELSE lock[s]
      /\ lock'[Other(s)] = lock[Other(s)] /\ lock'[s] # t
      /\ \A u \in Side : lock'[u] = lock[u] \/ lock'[u] \notin Tasks
  BY <1>1, Sides, LockNames DEF TypeInv, Typed
<1>4. s = "srv" => hs["srv"].pc = "open"
  BY <1>1 DEF StreamInv, Phases
<1>5. Phases'
  BY <1>1, <1>2, <1>4, PhasesTask DEF StreamInv
<1>6. Holder'
  BY <1>1, <1>2, <1>3, HolderKept DEF StreamInv
<1>7. Got' /\ AuthAgreement'
  BY <1>1, GotKept DEF StreamInv, AuthAgreement
<1>8. ByteSeq(stream["cli"]) /\ ByteSeq(stream["srv"])
  BY StreamTyping, Sides
<1>9. CliStream'
  <2>1. CASE lock'["srv"] = lock["srv"]
    BY <1>1, <2>1, CliStill
  <2>2. CASE lock'["srv"] # lock["srv"]
    <3>1. s = "srv" /\ lock'["srv"] = Free /\ hs["srv"].pc = "open"
      BY <1>1, <1>3, <1>4, <2>2 DEF Side, Other
    <3>2. VersionData("srv")' = VersionData("srv")
      BY <1>1 DEF VersionData
    <3>3. CliSide(hs["cli"].pc, rdr["cli"].pc, Size(received["cli"]), stream["cli"], conn,
                  "open", lock["srv"], sent["srv"], VersionData("srv"))
      BY <3>1 DEF StreamInv, CliStream
    <3>4. CliSide(hs["cli"].pc, rdr["cli"].pc, Size(received["cli"]), stream["cli"], conn,
                  "open", Free, sent["srv"], VersionData("srv"))
      BY <1>1, <1>8, <3>3, ToCliTaskFails DEF CliSide
    <3> QED BY <1>1, <3>1, <3>2, <3>4 DEF CliStream
  <2> QED BY <2>1, <2>2
<1>10. SrvStream'
  <2>1. CASE lock'["cli"] = lock["cli"]
    BY <1>1, <2>1, SrvStill
  <2>2. CASE lock'["cli"] # lock["cli"]
    <3>1. lock'["cli"] = Free
      BY <1>1, <1>3, <2>2 DEF Side, Other
    <3>2. SrvSide(hs["srv"].pc, rdr["srv"].pc, Size(received["srv"]), stream["srv"], conn,
                  hs["cli"].pc, Free, sent["cli"], ComputeResponse(key["cli"], Nonce))
      BY <1>1, <1>8, ToSrvReleased DEF StreamInv, SrvStream, SrvSide
    <3> QED BY <1>1, <3>1, <3>2 DEF SrvStream
  <2> QED BY <2>1, <2>2
<1> QED BY <1>5, <1>6, <1>7, <1>9, <1>10 DEF StreamInv

(* The packet a task is at, as it is framed.                               *)
LEMMA ItemFramed ==
  ASSUME TypeInv, NEW t \in Tasks, snd[t].pc \in {"header", "data"}
  PROVE  /\ Item(t) \in SentRec /\ FrameHead(Item(t)) = Current(t).head
         /\ FrameData(Item(t)) = Current(t).data
         /\ Current(t).head \in HeaderGW /\ Current(t).data \in Seq(Byte)
         /\ Current(t).head.type \notin HsTypes
<1>1. snd[t].todo # <<>>
  BY DEF TypeInv, Placed
<1>2. /\ Head(snd[t].todo) \in Payload /\ snd[t].id \in Nat
      /\ FrameOf(Current(t), Head(snd[t].todo), snd[t].id)
  BY <1>1, CurrentTyping DEF TypeInv
<1>3. Item(t) \in SentRec /\ Item(t).pkt = Head(snd[t].todo) /\ Item(t).id = snd[t].id
  BY <1>2 DEF Item, SentRec
<1>4. FrameHead(Item(t)) = Current(t).head /\ FrameData(Item(t)) = Current(t).data
  BY <1>3 DEF FrameHead, FrameData, Current
<1>5. Head(snd[t].todo).type \notin HsTypes
  BY <1>2, PayloadTyping, Zenon
<1> QED BY <1>2, <1>3, <1>4, <1>5, Zenon DEF FrameOf

LEMMA WriteDataKeeps ==
  ASSUME TypeInv, StreamInv, NEW t \in Tasks, WriteData(t)
  PROVE  StreamInv'
<1> DEFINE s == SideOf[t]
           d == Current(t).data
           q == sent[s]
           v == VersionData("srv")
           x == ComputeResponse(key["cli"], Nonce)
<1>1. /\ UNCHANGED <<conn, key, major, hs, rdr, sent, received>> /\ s \in Side
      /\ snd[t].pc = "data" /\ Push(s, d)
      /\ snd' = [snd EXCEPT ![t].pc = "count"] /\ lock' = [lock EXCEPT ![s] = Free]
  BY LockNames DEF WriteData, config, count
<1>2. /\ \A u \in Tasks : u # t => snd'[u] = snd[u]
      /\ lock'[s] = Free /\ lock'[Other(s)] = lock[Other(s)] /\ lock'[s] # t
      /\ \A u \in Side : lock'[u] = lock[u] \/ lock'[u] \notin Tasks
  BY <1>1, Sides, LockNames DEF TypeInv, Typed
<1>3. lock[s] = t /\ lock[s] # Free
  BY <1>1, LockNames DEF TypeInv, Placed
<1>4. s = "srv" => hs["srv"].pc = "open"
  BY <1>1 DEF StreamInv, Phases
<1>5. Phases'
  BY <1>1, <1>2, <1>4, PhasesTask DEF StreamInv
<1>6. Holder'
  BY <1>1, <1>2, HolderKept DEF StreamInv
<1>7. Got' /\ AuthAgreement'
  BY <1>1, GotKept DEF StreamInv, AuthAgreement
<1>8. d \in Seq(Byte) /\ FrameData(Item(t)) = d
  BY <1>1, ItemFramed
<1>9. Size(q) # 0 /\ q[Size(q)] = Item(t)
  BY <1>3 DEF StreamInv, Holder
<1>10. stream'[s] = stream[s] /\ Written(stream'[Other(s)], stream[Other(s)], FrameData(q[Size(q)]), conn)
  <2>1. stream'[s] = stream[s] /\ Written(stream'[Other(s)], stream[Other(s)], d, conn)
    BY <1>1, <1>8, PushWritten
  <2> QED BY <1>8, <1>9, <2>1
<1>11. q \in Seq(SentRec)
  BY <1>1, StreamTyping
<1>12. CASE s = "srv"
  <2>1. CliSide(hs["cli"].pc, rdr["cli"].pc, Size(received["cli"]), stream["cli"], conn,
                "open", lock["srv"], sent["srv"], v)
    BY <1>4, <1>12 DEF StreamInv, CliStream
  <2>2. Written(stream'["cli"], stream["cli"], FrameData(q[Size(q)]), conn)
    BY <1>10, <1>12, Sides
  <2>3. CliSide(hs["cli"].pc, rdr["cli"].pc, Size(received["cli"]), stream'["cli"], conn,
                "open", Free, sent["srv"], v)
    BY <1>3, <1>9, <1>11, <1>12, <2>1, <2>2, ToCliData DEF CliSide
  <2>4. v' = v
    BY <1>1 DEF VersionData
  <2>5. CliStream'
    BY <1>1, <1>2, <1>4, <1>12, <2>3, <2>4 DEF CliStream
  <2>6. SrvStream'
    BY <1>1, <1>2, <1>10, <1>12, Sides, SrvStill
  <2> QED BY <1>5, <1>6, <1>7, <2>5, <2>6 DEF StreamInv
<1>13. CASE s = "cli"
  <2> DEFINE b == stream["srv"]
             pc == hs["cli"].pc
  <2>1. SrvSide(hs["srv"].pc, rdr["srv"].pc, Size(received["srv"]), b, conn,
                pc, lock["cli"], sent["cli"], x)
    BY DEF StreamInv, SrvStream
  <2>2. Written(stream'["srv"], b, FrameData(q[Size(q)]), conn) /\ ByteSeq(b)
    BY <1>10, <1>13, Sides, StreamTyping
  <2>3. SrvSide(hs["srv"].pc, rdr["srv"].pc, Size(received["srv"]), stream'["srv"], conn,
                pc, Free, sent["cli"], x)
    <3> SUFFICES ASSUME SrvReads(hs["srv"].pc, rdr["srv"].pc)
                 PROVE  \/ Spoiled(hs["srv"].pc, stream'["srv"], conn)
                        \/ ToSrv(stream'["srv"], SrvDone(hs["srv"].pc, Size(received["srv"])),
                                 Base(hs["srv"].pc, rdr["srv"].pc), conn, pc, Free, sent["cli"], x)
      BY Zenon DEF SrvSide
    <3>1. CASE Spoiled(hs["srv"].pc, b, conn)
      <4>1. ByteSeq(FrameData(q[Size(q)]))
        BY <1>8, <1>9 DEF ByteSeq
      <4> QED BY <2>2, <3>1, <4>1, SpoiledWritten
    <3>2. CASE ToSrv(b, SrvDone(hs["srv"].pc, Size(received["srv"])),
                     Base(hs["srv"].pc, rdr["srv"].pc), conn, pc, lock["cli"], sent["cli"], x)
      <4>1. pc \notin Fresh
        BY <1>3, <1>13, <3>2, ToSrvFresh
      <4> QED BY <1>3, <1>9, <1>11, <1>13, <2>2, <3>2, <4>1, ToSrvData
    <3> QED BY <2>1, <3>1, <3>2 DEF SrvSide
  <2>4. SrvStream'
    BY <1>1, <1>2, <1>13, <2>3 DEF SrvStream
  <2>5. CliStream'
    BY <1>1, <1>2, <1>10, <1>13, Sides, CliStill
  <2> QED BY <1>5, <1>6, <1>7, <2>4, <2>5 DEF StreamInv
<1> QED BY <1>1, <1>12, <1>13 DEF Side

(* One more packet is sent.                                                *)
LEMMA GetsMore ==
  ASSUME NEW got, NEW rp, NEW p, NEW q \in Seq(SentRec), NEW e \in SentRec,
         Gets(got, rp, p, q)
  PROVE  Gets(got, rp, p, Append(q, e))
<1>1. Size(got) \in Nat /\ Size(q) \in Nat /\ Size(got) <= Size(q)
  BY LenProperties DEF Gets, Size
<1>2. /\ Size(Append(q, e)) = Size(q) + 1
      /\ \A i \in 1 .. Size(q) : Append(q, e)[i] = q[i]
  BY DEF Size
<1>3. Size(got) <= Size(q) + 1 /\ \A i \in 1 .. Size(got) : i \in 1 .. Size(q)
  BY <1>1
<1>4. \A i \in 1 .. Size(got) : got[i] = Arrived(Append(q, e)[i])
  BY <1>2, <1>3, Zenon DEF Gets
<1>5. Size(got) < Size(q) => Size(got) + 1 \in 1 .. Size(q) /\ Size(got) < Size(q) + 1
  BY <1>1
<1>6. rp = "data" => /\ Size(got) < Size(q) + 1
                     /\ p = Wired(FrameHead(Append(q, e)[Size(got) + 1]))
  BY <1>2, <1>5, Zenon DEF Gets
<1>7. Size(got) <= Size(Append(q, e))
  BY <1>2, <1>3
<1> QED BY <1>2, <1>4, <1>6, <1>7 DEF Gets

(* The command p writes before the response.                               *)
LEMMA SpoiledEarly ==
  ASSUME NEW p \in {"challenge", "nonce", "await"}, NEW b, Size(b) = 0, NEW c,
         NEW h \in HeaderGW, h.type \notin HsTypes, NEW b2, Written(b2, b, ToBytes(h), c)
  PROVE  Spoiled(p, b2, c)
<1>1. CASE c # "up"
  BY <1>1 DEF Spoiled, Written
<1>2. CASE c = "up"
  <2>1. Len(b) = 0 /\ Joined(b2, b, ToBytes(h))
    BY <1>2 DEF Written, Size
  <2>2. Len(ToBytes(h)) = 16 /\ ToBytes(h)[1] = Code[h.type]
    BY HeaderBytes, Zenon
  <2>3. Len(b2) = 16 /\ b2[1] = ToBytes(h)[1]
    BY <2>1, <2>2 DEF Joined
  <2>4. h.type \in DOMAIN Code
    BY DEF HeaderGW
  <2>5. FromCode(b2[1]) = h.type
    BY <2>2, <2>3, <2>4, CodeTyping, Zenon
  <2>6. Size(b2) # 0
    BY <2>3 DEF Size
  <2> QED BY <1>2, <2>5, <2>6 DEF Spoiled, HsTypes
<1> QED BY <1>1, <1>2

LEMMA WriteHeaderStream ==
  ASSUME TypeInv, StreamInv, NEW t \in Tasks, WriteHeader(t)
  PROVE  StreamInv'
<1> DEFINE s == SideOf[t]
           e == Item(t)
           h == FrameHead(e)
           q == sent[s]
           v == VersionData("srv")
           x == ComputeResponse(key["cli"], Nonce)
<1>1. /\ UNCHANGED <<conn, key, major, hs, rdr, received>> /\ s \in Side
      /\ snd[t].pc = "header" /\ Push(s, ToBytes(Current(t).head)) /\ lock[s] = Free
      /\ \/ /\ Current(t).data = <<>> /\ lock' = lock
            /\ snd' = [snd EXCEPT ![t].pc = "count"]
         \/ /\ Current(t).data # <<>> /\ lock' = [lock EXCEPT ![s] = t]
            /\ snd' = [snd EXCEPT ![t].pc = "data"]
      /\ sent' = [sent EXCEPT ![s] = Append(@, e)]
  BY LockNames DEF WriteHeader, config, count, Item
<1>2. /\ e \in SentRec /\ h = Current(t).head /\ FrameData(e) = Current(t).data
      /\ h \in HeaderGW /\ FrameData(e) \in Seq(Byte) /\ h.type \notin HsTypes
  BY <1>1, ItemFramed
<1>3. /\ \A u \in Tasks : u # t => snd'[u] = snd[u]
      /\ snd'[t].id = snd[t].id /\ snd'[t].todo = snd[t].todo
      /\ lock'[Other(s)] = lock[Other(s)]
      /\ lock'[s] \in {Free, t} /\ (lock'[s] = Free <=> Current(t).data = <<>>)
      /\ sent'[s] = Append(q, e) /\ sent'[Other(s)] = sent[Other(s)]
  <2> DEFINE d == Current(t).data
  <2> HIDE DEF s, d, e
  <2>1. /\ snd \in [Tasks -> SndRec] /\ sent \in [Side -> Seq(SentRec)]
        /\ lock \in [Side -> Tasks \cup {Free, "handshake"}]
    BY DEF TypeInv, Typed
  <2>2. \/ snd' = [snd EXCEPT ![t].pc = "count"]
        \/ snd' = [snd EXCEPT ![t].pc = "data"]
    BY <1>1 DEF s, e
  <2>3. /\ \A u \in Tasks : u # t => snd'[u] = snd[u]
        /\ snd'[t].id = snd[t].id /\ snd'[t].todo = snd[t].todo
    BY <2>1, <2>2 DEF SndRec
  <2>4. s \in Side /\ sent' = [sent EXCEPT ![s] = Append(@, e)] /\ lock[s] = Free
    BY <1>1 DEF s, e
  <2>5. sent'[s] = Append(sent[s], e) /\ sent'[Other(s)] = sent[Other(s)]
    BY <2>1, <2>4, Sides
  <2>6. (d = <<>> /\ lock' = lock) \/ (d # <<>> /\ lock' = [lock EXCEPT ![s] = t])
    BY <1>1 DEF s, d
  <2>7. /\ lock'[Other(s)] = lock[Other(s)]
        /\ lock'[s] \in {Free, t} /\ (lock'[s] = Free <=> d = <<>>)
    BY <2>1, <2>4, <2>6, Sides, LockNames
  <2> QED BY <2>3, <2>5, <2>7 DEF d
<1>4. lock'[s] = Free <=> Size(FrameData(e)) = 0
  <2>1. Size(FrameData(e)) = 0 <=> FrameData(e) = <<>>
    BY <1>2, EmptySeq DEF Size
  <2> QED BY <1>2, <1>3, <2>1
<1>5. s = "srv" => hs["srv"].pc = "open"
  BY <1>1 DEF StreamInv, Phases
<1>6. Phases'
  BY <1>1, <1>3, <1>5, PhasesTask, Sides DEF StreamInv
<1>7. q \in Seq(SentRec) /\ Size(q) \in Nat
  BY <1>1, StreamTyping
<1>8. Holder'
  <2> SUFFICES ASSUME NEW u \in Tasks, lock'[SideOf[u]] = u
               PROVE  /\ Size(sent'[SideOf[u]]) # 0
                      /\ sent'[SideOf[u]][Size(sent'[SideOf[u]])] = Item(u)'
    BY Zenon DEF Holder
  <2>1. CASE u = t
    <3>1. Item(t)' = Item(t)
      BY <1>3 DEF Item
    <3>2. Size(Append(q, e)) = Size(q) + 1 /\ Append(q, e)[Size(q) + 1] = e
      BY <1>2, <1>7 DEF Size
    <3>3. SideOf[u] = s /\ Size(q) + 1 # 0
      BY <1>7, <2>1
    <3> QED BY <1>3, <2>1, <3>1, <3>2, <3>3, Zenon
  <2>2. CASE u # t
    <3>1. SideOf[u] = Other(s)
      BY <1>1, <1>3, <2>2, Sides, LockNames
    <3>2. Item(u)' = Item(u)
      BY <1>3, <2>2 DEF Item
    <3>3. lock[SideOf[u]] = u
      BY <1>3, <3>1
    <3> QED BY <1>3, <3>1, <3>2, <3>3 DEF StreamInv, Holder
  <2> QED BY <2>1, <2>2
<1>9. AuthAgreement'
  BY <1>1 DEF StreamInv, AuthAgreement
<1>10. Got'
  <2> SUFFICES ASSUME NEW u \in Side
               PROVE  Gets(received[u], rdr[u].pc, rdr[u].pkt, sent'[Other(u)])
    BY <1>1 DEF StreamInv, Got
  <2>1. Gets(received[u], rdr[u].pc, rdr[u].pkt, sent[Other(u)])
    BY DEF StreamInv, Got
  <2>2. CASE Other(u) = s
    BY <1>2, <1>3, <1>7, <2>1, <2>2, GetsMore
  <2>3. CASE Other(u) # s
    BY <1>1, <1>3, <2>1, <2>3, Sides
  <2> QED BY <2>2, <2>3
<1>11. stream'[s] = stream[s] /\ Written(stream'[Other(s)], stream[Other(s)], ToBytes(h), conn)
  <2>1. ToBytes(h) \in Seq(Byte)
    BY <1>2, HeaderBytes
  <2> QED BY <1>1, <1>2, <2>1, PushWritten
<1>12. CASE s = "srv"
  <2>1. CliSide(hs["cli"].pc, rdr["cli"].pc, Size(received["cli"]), stream["cli"], conn,
                "open", Free, sent["srv"], v)
    BY <1>1, <1>5, <1>12 DEF StreamInv, CliStream
  <2>2. Written(stream'["cli"], stream["cli"], ToBytes(h), conn)
    BY <1>11, <1>12, Sides
  <2>3. CliSide(hs["cli"].pc, rdr["cli"].pc, Size(received["cli"]), stream'["cli"], conn,
                "open", lock'["srv"], Append(q, e), v)
    BY <1>2, <1>4, <1>7, <1>12, <2>1, <2>2, ToCliHeader DEF CliSide
  <2>4. v' = v
    BY <1>1 DEF VersionData
  <2>5. CliStream'
    BY <1>1, <1>3, <1>5, <1>12, <2>3, <2>4 DEF CliStream
  <2>6. SrvStream'
    BY <1>1, <1>3, <1>11, <1>12, Sides, SrvStill
  <2> QED BY <1>6, <1>8, <1>9, <1>10, <2>5, <2>6 DEF StreamInv
<1>13. CASE s = "cli"
  <2> DEFINE b == stream["srv"]
             pc == hs["cli"].pc
             p == hs["srv"].pc
             r == SrvDone(p, Size(received["srv"]))
             base == Base(p, rdr["srv"].pc)
  <2>1. SrvSide(p, rdr["srv"].pc, Size(received["srv"]), b, conn, pc, Free, q, x)
    BY <1>1, <1>13 DEF StreamInv, SrvStream
  <2>2. Written(stream'["srv"], b, ToBytes(h), conn) /\ ByteSeq(b)
    BY <1>11, <1>13, Sides, StreamTyping
  <2>3. SrvSide(p, rdr["srv"].pc, Size(received["srv"]), stream'["srv"], conn,
                pc, lock'["cli"], Append(q, e), x)
    <3> SUFFICES ASSUME SrvReads(p, rdr["srv"].pc)
                 PROVE  \/ Spoiled(p, stream'["srv"], conn)
                        \/ ToSrv(stream'["srv"], r, base, conn, pc, lock'["cli"], Append(q, e), x)
      BY Zenon DEF SrvSide
    <3>1. CASE Spoiled(p, b, conn)
      <4>1. ByteSeq(ToBytes(h))
        BY <1>2, HeaderBytes DEF ByteSeq
      <4> QED BY <2>2, <3>1, <4>1, SpoiledWritten
    <3>2. CASE ToSrv(b, r, base, conn, pc, Free, q, x)
      <4>1. CASE pc \in Fresh
        <5>1. Size(b) = 0 /\ r = 0 /\ base = 0
          BY <3>2, <4>1, ToSrvFresh
        <5>2. Size(received["srv"]) \in Nat
          BY LenProperties, Sides DEF StreamInv, Got, Gets, Size
        <5>3. p \in {"challenge", "nonce", "await"}
          BY <5>1, <5>2 DEF SrvDone, Base
        <5> QED BY <1>2, <2>2, <5>1, <5>3, SpoiledEarly
      <4>2. CASE pc \notin Fresh
        <5>1. pc # "respondBody"
          BY <1>1, <1>13, LockNames, Sides DEF TypeInv, Placed, HsBody
        <5>2. pc = "refused" => conn # "up"
          BY Sides DEF StreamInv, Phases
        <5>3. pc \notin Fresh \cup {"respondBody"}
          BY <4>2, <5>1
        <5>4. lock'["cli"] = Free <=> Size(FrameData(e)) = 0
          BY <1>4, <1>13
        <5> HIDE DEF b, pc, p, r, base, q, h, x, e
        <5> QED BY <1>2, <1>7, <2>2, <3>2, <5>2, <5>3, <5>4, ToSrvHeader DEF h
      <4> QED BY <4>1, <4>2
    <3> QED BY <2>1, <3>1, <3>2 DEF SrvSide
  <2>4. SrvStream'
    BY <1>1, <1>3, <1>13, <2>3 DEF SrvStream
  <2>5. CliStream'
    BY <1>1, <1>3, <1>11, <1>13, Sides, CliStill
  <2> QED BY <1>6, <1>8, <1>9, <1>10, <2>4, <2>5 DEF StreamInv
<1> QED BY <1>1, <1>12, <1>13 DEF Side

-----------------------------------------------------------------------------
(* The steps of the exchange loop that reads. *)

(* One more packet is returned.                                            *)
LEMMA GetsReturned ==
  ASSUME NEW got, NEW rp, NEW p, NEW q \in Seq(SentRec), Gets(got, rp, p, q),
         Size(got) + 1 \in 1 .. Size(q), NEW p2
  PROVE  /\ Gets(Append(got, Arrived(q[Size(got) + 1])), "header", p2, q)
         /\ Size(Append(got, Arrived(q[Size(got) + 1]))) = Size(got) + 1
         /\ Size(got) \in Nat
<1> DEFINE e == q[Size(got) + 1]
           a == Arrived(e)
           G == SentRec
<1>1. got \in Seq(G) /\ Size(got) \in Nat /\ Size(q) \in Nat
  BY LenProperties DEF Gets, Size
<1>2. e \in SentRec
  BY DEF Size
<1>3. e.id \in Nat /\ e.pkt \in Payload
  BY <1>2 DEF SentRec
<1>4. FromLE(LE(e.id, 8)) \in Nat
  BY <1>3, LETyping, FromLETyping, Zenon
<1>5. a \in G
  BY <1>3, <1>4 DEF Arrived, SentRec
<1> HIDE DEF a, G
<1>6. /\ Append(got, a) \in Seq(G) /\ Size(Append(got, a)) = Size(got) + 1
      /\ \A i \in 1 .. Size(got) : Append(got, a)[i] = got[i]
      /\ Append(got, a)[Size(got) + 1] = a
  BY <1>1, <1>5 DEF Size
<1>7. ASSUME NEW i \in 1 .. Size(got) + 1
      PROVE  Append(got, a)[i] = Arrived(q[i])
  <2>1. CASE i = Size(got) + 1
    BY <1>6, <2>1 DEF a
  <2>2. CASE i # Size(got) + 1
    <3>1. i \in 1 .. Size(got)
      BY <1>1, <2>2
    <3>2. got[i] = Arrived(q[i])
      BY <3>1, Zenon DEF Gets
    <3> QED BY <1>6, <3>1, <3>2, Zenon
  <2> QED BY <2>1, <2>2
<1>8. Size(got) + 1 <= Size(q)
  BY <1>1
<1>9. \A i \in 1 .. Size(Append(got, a)) : Append(got, a)[i] = Arrived(q[i])
  BY <1>6, <1>7, Zenon
<1>10. Size(Append(got, a)) <= Size(q)
  BY <1>6, <1>8
<1>11. Gets(Append(got, a), "header", p2, q)
  BY <1>6, <1>9, <1>10 DEF Gets, G
<1> QED BY <1>1, <1>6, <1>11 DEF a

(* What is common to the steps that read.                                  *)
LEMMA ReadKeeps ==
  ASSUME TypeInv, StreamInv, NEW s \in Side, hs[s].pc = "open",
         UNCHANGED <<conn, lock, key, major, hs, sent>>,
         stream'[Other(s)] = stream[Other(s)], received'[Other(s)] = received[Other(s)],
         rdr'[Other(s)] = rdr[Other(s)],
         \A t \in Tasks : /\ snd'[t].pc = snd[t].pc /\ snd'[t].id = snd[t].id
                          /\ snd[t].todo # <<>> => Head(snd'[t].todo) = Head(snd[t].todo),
         received' \in [Side -> Seq(SentRec)],
         Gets(received'[s], rdr'[s].pc, rdr'[s].pkt, sent[Other(s)]),
         s = "cli" => CliStream', s = "srv" => SrvStream'
  PROVE  StreamInv'
<1>1. Phases'
  <2>1. \A u \in Side : u = s \/ (rdr'[u] = rdr[u] /\ received'[u] = received[u])
    BY Sides
  <2>2. \A u \in Side : rdr'[u].pc # "header" => hs[u].pc = "open"
    BY <2>1 DEF StreamInv, Phases
  <2>3. \A u \in Side : hs[u].pc # "open" => received'[u] = <<>>
    BY <2>1 DEF StreamInv, Phases
  <2>4. hs["srv"].pc # "open" =>
          sent["srv"] = <<>> /\ \A t \in Tasks : SideOf[t] = "srv" => snd'[t].pc = "idle"
    BY DEF StreamInv, Phases
  <2> QED BY <2>2, <2>3, <2>4 DEF StreamInv, Phases
<1>2. Holder'
  BY HolderKept DEF StreamInv, TypeInv, Placed
<1>3. Got'
  <2> SUFFICES ASSUME NEW u \in Side
               PROVE  Gets(received'[u], rdr'[u].pc, rdr'[u].pkt, sent[Other(u)])
    BY DEF Got
  <2>1. CASE u = s
    BY <2>1
  <2>2. CASE u # s
    BY <2>2, Sides DEF StreamInv, Got
  <2> QED BY <2>1, <2>2
<1>4. AuthAgreement'
  BY DEF StreamInv, AuthAgreement
<1>5. CliStream' /\ SrvStream'
  <2>1. CASE s = "cli"
    BY <2>1, SrvStill, Sides
  <2>2. CASE s = "srv"
    BY <2>2, CliStill, Sides
  <2> QED BY <2>1, <2>2 DEF Side
<1> QED BY <1>1, <1>2, <1>3, <1>4, <1>5 DEF StreamInv

LEMMA ReadFailKeeps ==
  ASSUME TypeInv, StreamInv, NEW s \in Side, ReadFail(s)
  PROVE  StreamInv'
<1>1. /\ UNCHANGED <<conn, stream, lock, key, major, hs, sent, snd, received>>
      /\ hs[s].pc = "open" /\ rdr' = [rdr EXCEPT ![s].pc = "ended"]
  BY DEF ReadFail, config
<1>2. rdr'[Other(s)] = rdr[Other(s)] /\ rdr'[s].pc = "ended"
  BY <1>1, Sides DEF TypeInv, Typed, RdrRec
<1>3. /\ received \in [Side -> Seq(SentRec)]
      /\ Gets(received[s], "ended", rdr'[s].pkt, sent[Other(s)])
  BY DEF StreamInv, Got, Gets
<1>4. (s = "cli" => CliStream') /\ (s = "srv" => SrvStream')
  BY <1>2 DEF CliStream, SrvStream, CliSide, SrvSide, CliReads, SrvReads
<1> QED BY <1>1, <1>2, <1>3, <1>4, ReadKeeps

LEMMA ExchangeSteps ==
  /\ \A m : CliDone("open", m) = 2 + m /\ SrvDone("open", m) = 1 + m
  /\ Base("open", "header") = 0 /\ Base("open", "data") = 0 - 16
BY DEF CliDone, SrvDone, Base

(* What an open gateway s, which has returned m packets, faces in b.       *)
Faces(s, b, m, base) ==
  IF s = "cli"
    THEN ToCli(b, 2 + m, base, conn, "open", lock["srv"], sent["srv"], VersionData("srv"))
    ELSE ToSrv(b, 1 + m, base, conn, hs["cli"].pc, lock["cli"], sent["cli"],
               ComputeResponse(key["cli"], Nonce))

LEMMA ReaderFaces ==
  ASSUME StreamInv, NEW s \in Side, hs[s].pc = "open", rdr[s].pc # "ended"
  PROVE  Faces(s, stream[s], Size(received[s]), Base("open", rdr[s].pc))
<1>1. CASE s = "cli"
  <2>1. hs["srv"].pc = "open" /\ hs["cli"].pc = "open"
    BY <1>1 DEF StreamInv, AuthAgreement
  <2>2. CliSide("open", rdr["cli"].pc, Size(received["cli"]), stream["cli"], conn,
                "open", lock["srv"], sent["srv"], VersionData("srv"))
    BY <2>1 DEF StreamInv, CliStream
  <2>3. CliReads("open", rdr["cli"].pc)
    BY <1>1 DEF CliReads
  <2> QED BY <1>1, <2>2, <2>3, ExchangeSteps DEF CliSide, Faces
<1>2. CASE s = "srv"
  <2>1. SrvSide("open", rdr["srv"].pc, Size(received["srv"]), stream["srv"], conn,
                hs["cli"].pc, lock["cli"], sent["cli"], ComputeResponse(key["cli"], Nonce))
    BY <1>2 DEF StreamInv, SrvStream
  <2>2. SrvReads("open", rdr["srv"].pc) /\ ~Spoiled("open", stream["srv"], conn)
    BY <1>2 DEF SrvReads, Spoiled
  <2> QED BY <1>2, <2>1, <2>2, ExchangeSteps DEF SrvSide, Faces
<1> QED BY <1>1, <1>2 DEF Side

LEMMA FacesKept ==
  ASSUME StreamInv, NEW s \in Side, hs[s].pc = "open",
         UNCHANGED <<conn, hs, lock, sent, key, major>>,
         Faces(s, stream'[s], Size(received'[s]), Base("open", rdr'[s].pc))
  PROVE  (s = "cli" => CliStream') /\ (s = "srv" => SrvStream')
<1>1. CASE s = "cli"
  <2>1. hs["srv"].pc = "open" /\ hs["cli"].pc = "open"
    BY <1>1 DEF StreamInv, AuthAgreement
  <2>2. VersionData("srv")' = VersionData("srv")
    BY DEF VersionData
  <2>3. CliSide("open", rdr'["cli"].pc, Size(received'["cli"]), stream'["cli"], conn,
                "open", lock["srv"], sent["srv"], VersionData("srv"))
    BY <1>1, ExchangeSteps DEF CliSide, Faces
  <2> QED BY <1>1, <2>1, <2>2, <2>3 DEF CliStream
<1>2. CASE s = "srv"
  <2>1. SrvSide("open", rdr'["srv"].pc, Size(received'["srv"]), stream'["srv"], conn,
                hs["cli"].pc, lock["cli"], sent["cli"], ComputeResponse(key["cli"], Nonce))
    BY <1>2, ExchangeSteps DEF SrvSide, Faces
  <2> QED BY <1>2, <2>1 DEF SrvStream
<1> QED BY <1>1, <1>2 DEF Side

LEMMA FacesHeader ==
  ASSUME TypeInv, NEW s \in Side, NEW b, NEW m \in Nat, Faces(s, b, m, 0), Size(b) >= 16,
         NEW t, Part(t, b, 1, 16), NEW b2, Rest(b2, b, 16), NEW q, q = sent[Other(s)]
  PROVE  /\ m + 1 \in 1 .. Size(q)
         /\ FromBytes(t) = Wired(FrameHead(q[m + 1]))
         /\ Faces(s, b2, m, 0 - 16)
         /\ Size(FrameData(q[m + 1])) = 0 => Faces(s, b2, m + 1, 0)
<1>1. Size(q) \in Nat
  BY StreamTyping, Sides
<1>2. CASE s = "cli"
  <2> DEFINE v == VersionData("srv")
  <2>1. q = sent["srv"] /\ (2 + m) + 1 = 2 + (m + 1)
    BY <1>2, Sides
  <2>2. ToCli(b, 2 + m, 0, conn, "open", lock["srv"], q, v)
    BY <1>2, <2>1 DEF Faces
  <2>3. /\ m + 1 \in 1 .. Size(q)
        /\ FromBytes(t) = Wired(FrameHead(q[m + 1]))
        /\ ToCli(b2, 2 + m, 0 - 16, conn, "open", lock["srv"], q, v)
        /\ Size(FrameData(q[m + 1])) = 0 =>
             ToCli(b2, (2 + m) + 1, 0, conn, "open", lock["srv"], q, v)
    <3> HIDE DEF v
    <3> QED BY <1>1, <2>2, ToCliExchangeHeader
  <2> QED BY <1>2, <2>1, <2>3 DEF Faces
<1>3. CASE s = "srv"
  <2> DEFINE x == ComputeResponse(key["cli"], Nonce)
  <2>1. q = sent["cli"] /\ (1 + m) + 1 = 1 + (m + 1)
    BY <1>3, Sides
  <2>2. ToSrv(b, 1 + m, 0, conn, hs["cli"].pc, lock["cli"], q, x)
    BY <1>3, <2>1 DEF Faces
  <2>3. /\ m + 1 \in 1 .. Size(q)
        /\ FromBytes(t) = Wired(FrameHead(q[m + 1]))
        /\ ToSrv(b2, 1 + m, 0 - 16, conn, hs["cli"].pc, lock["cli"], q, x)
        /\ Size(FrameData(q[m + 1])) = 0 =>
             ToSrv(b2, (1 + m) + 1, 0, conn, hs["cli"].pc, lock["cli"], q, x)
    <3> HIDE DEF x
    <3> QED BY <1>1, <2>2, ToSrvExchangeHeader
  <2> QED BY <1>3, <2>1, <2>3 DEF Faces
<1> QED BY <1>2, <1>3 DEF Side

LEMMA FacesData ==
  ASSUME TypeInv, NEW s \in Side, NEW b, NEW m \in Nat, Faces(s, b, m, 0 - 16),
         NEW q, q = sent[Other(s)], NEW d, IsNext(d, q, m), Size(b) >= Size(d),
         NEW t, Part(t, b, 1, Size(d)), NEW b2, Rest(b2, b, Size(d))
  PROVE  t = d /\ Faces(s, b2, m + 1, 0)
<1>1. Size(q) \in Nat
  BY StreamTyping, Sides
<1>2. CASE s = "cli"
  <2> DEFINE v == VersionData("srv")
  <2>1. q = sent["srv"] /\ (2 + m) + 1 = 2 + (m + 1)
    BY <1>2, Sides
  <2>2. ToCli(b, 2 + m, 0 - 16, conn, "open", lock["srv"], q, v)
    BY <1>2, <2>1 DEF Faces
  <2>3. t = d /\ ToCli(b2, (2 + m) + 1, 0, conn, "open", lock["srv"], q, v)
    <3> HIDE DEF v
    <3> QED BY <1>1, <2>2, ToCliExchangeData
  <2> QED BY <1>2, <2>1, <2>3 DEF Faces
<1>3. CASE s = "srv"
  <2> DEFINE x == ComputeResponse(key["cli"], Nonce)
  <2>1. q = sent["cli"] /\ (1 + m) + 1 = 1 + (m + 1)
    BY <1>3, Sides
  <2>2. ToSrv(b, 1 + m, 0 - 16, conn, hs["cli"].pc, lock["cli"], q, x)
    BY <1>3, <2>1 DEF Faces
  <2>3. t = d /\ ToSrv(b2, (1 + m) + 1, 0, conn, hs["cli"].pc, lock["cli"], q, x)
    <3> HIDE DEF x
    <3> QED BY <1>1, <2>2, ToSrvExchangeData
  <2> QED BY <1>3, <2>1, <2>3 DEF Faces
<1> QED BY <1>2, <1>3 DEF Side

(* A packet is restored from the header that arrived and from its data.    *)
LEMMA PacketRestored ==
  ASSUME NEW e \in SentRec, NEW p, p = Wired(FrameHead(e))
  PROVE  /\ p.size = Size(FrameData(e)) /\ p.size \in Nat
         /\ [id |-> p.id, pkt |-> [type |-> p.type, link |-> p.link,
               data |-> DecompressData(FrameData(e), IsCompressed(p))]] = Arrived(e)
         /\ p.size = 0 => [id |-> p.id, pkt |-> [type |-> p.type, link |-> p.link,
                                                 data |-> <<>>]] = Arrived(e)
<1> DEFINE h == FrameHead(e)
<1>1. /\ h \in HeaderGW /\ h.type = e.pkt.type /\ h.link = e.pkt.link /\ h.id = e.id
      /\ h.size = Size(FrameData(e))
      /\ Size(FrameData(e)) = 0 => e.pkt.data = <<>>
      /\ DecompressData(FrameData(e), IsCompressed(h)) = e.pkt.data
      /\ e.pkt = [type |-> e.pkt.type, link |-> e.pkt.link, data |-> e.pkt.data]
  BY FrameRestores, Zenon
<1> HIDE DEF h
<1>2. p = Wired(h)
  BY DEF h
<1>3. /\ p.type = h.type /\ p.link = h.link /\ p.size = h.size
      /\ p.flags = h.flags /\ p.id = FromLE(LE(h.id, 8))
  BY <1>1, <1>2, WiredFields, Zenon
<1>4. IsCompressed(p) = IsCompressed(h)
  BY <1>3 DEF IsCompressed
<1>5. p.size \in Nat
  BY <1>1, <1>3 DEF HeaderGW
<1>6. DecompressData(FrameData(e), IsCompressed(p)) = e.pkt.data
  BY <1>1, <1>4
<1>7. p.id = FromLE(LE(e.id, 8)) /\ p.type = e.pkt.type /\ p.link = e.pkt.link
  BY <1>1, <1>3
<1>8. [id |-> p.id, pkt |-> [type |-> p.type, link |-> p.link, data |-> e.pkt.data]]
        = Arrived(e)
  BY <1>1, <1>7, Zenon DEF Arrived
<1>9. p.size = 0 => e.pkt.data = <<>>
  BY <1>1, <1>3
<1> QED BY <1>1, <1>3, <1>5, <1>6, <1>8, <1>9, Zenon

(* The header that is read is the one of the next packet.                  *)
LEMMA HeaderArrives ==
  ASSUME TypeInv, StreamInv, NEW s \in Side, ReadHeader(s),
         NEW q, q = sent[Other(s)], NEW m, m = Size(received[s])
  PROVE  /\ m \in Nat /\ m + 1 \in 1 .. Size(q)
         /\ HeaderOf(s) = Wired(FrameHead(q[m + 1]))
         /\ Faces(s, stream'[s], m, 0 - 16)
         /\ Size(FrameData(q[m + 1])) = 0 => Faces(s, stream'[s], m + 1, 0)
<1> DEFINE b == stream[s]
<1>1. /\ hs[s].pc = "open" /\ rdr[s].pc = "header"
      /\ Ready(s, PACKET_HEADER_SIZE) /\ Pull(s, PACKET_HEADER_SIZE)
  BY DEF ReadHeader
<1>2. PACKET_HEADER_SIZE = 16 /\ 16 \in Nat /\ stream \in Bytes
  BY DEF PACKET_HEADER_SIZE, TypeInv, Typed
<1>3. Size(b) >= 16 /\ Part(Taken(s, 16), b, 1, 16) /\ Rest(stream'[s], b, 16)
  BY <1>1, <1>2, PullEffect DEF Ready, Size
<1>4. HeaderOf(s) = FromBytes(Taken(s, 16))
  BY <1>2 DEF HeaderOf
<1>5. m \in Nat
  BY LenProperties DEF StreamInv, Got, Gets, Size
<1>6. Faces(s, b, m, 0)
  BY <1>1, ReaderFaces, ExchangeSteps
<1> HIDE DEF b
<1> QED BY <1>3, <1>4, <1>5, <1>6, FacesHeader

LEMMA ReadHeaderKeeps ==
  ASSUME TypeInv, StreamInv, NEW s \in Side, ReadHeader(s)
  PROVE  StreamInv'
<1> DEFINE p == HeaderOf(s)
           q == sent[Other(s)]
           got == received[s]
           m == Size(got)
           e == q[m + 1]
<1>1. /\ UNCHANGED <<conn, lock, key, major, hs, sent>>
      /\ hs[s].pc = "open" /\ rdr[s].pc = "header"
      /\ Ready(s, PACKET_HEADER_SIZE) /\ Pull(s, PACKET_HEADER_SIZE)
      /\ \/ p.size = 0 /\ Return(s, p, <<>>) /\ rdr' = rdr
         \/ /\ p.size # 0 /\ rdr' = [rdr EXCEPT ![s] = [pc |-> "data", pkt |-> p]]
            /\ UNCHANGED <<snd, received>>
  BY DEF ReadHeader, config
<1>2. /\ PACKET_HEADER_SIZE = 16 /\ 16 \in Nat /\ stream \in Bytes
      /\ rdr \in [Side -> RdrRec]
  BY DEF PACKET_HEADER_SIZE, TypeInv, Typed
<1>3. stream'[Other(s)] = stream[Other(s)]
  BY <1>1, <1>2, PullEffect DEF Ready
<1>4. Gets(got, "header", rdr[s].pkt, q)
  BY <1>1 DEF StreamInv, Got
<1>5. m \in Nat /\ q \in Seq(SentRec) /\ Size(q) \in Nat
  BY <1>4, StreamTyping, LenProperties, Sides DEF Gets, Size
<1>6. /\ m + 1 \in 1 .. Size(q) /\ p = Wired(FrameHead(e))
      /\ Faces(s, stream'[s], m, 0 - 16)
      /\ Size(FrameData(e)) = 0 => Faces(s, stream'[s], m + 1, 0)
  BY HeaderArrives
<1>7. e \in SentRec
  BY <1>5, <1>6 DEF Size
<1>8. CASE p.size = 0
  <2>1. rdr' = rdr /\ Return(s, p, <<>>) /\ Size(FrameData(e)) = 0
    BY <1>1, <1>6, <1>7, <1>8, PacketRestored
  <2>2. \A t \in Tasks : /\ snd'[t].pc = snd[t].pc /\ snd'[t].id = snd[t].id
                         /\ snd[t].todo # <<>> => Head(snd'[t].todo) = Head(snd[t].todo)
    BY <2>1, ReturnEffect
  <2>3. [id |-> p.id, pkt |-> [type |-> p.type, link |-> p.link, data |-> <<>>]] = Arrived(e)
    BY <1>6, <1>7, <1>8, PacketRestored
  <2>4. /\ Gets(Append(got, Arrived(e)), "header", rdr[s].pkt, q)
        /\ Size(Append(got, Arrived(e))) = m + 1
    BY <1>4, <1>5, <1>6, GetsReturned
  <2>5. /\ received'[s] = Append(got, Arrived(e)) /\ received' \in [Side -> Seq(SentRec)]
        /\ received'[Other(s)] = received[Other(s)]
    <3> HIDE DEF p, e
    <3>1. received' = [received EXCEPT ![s] = Append(@, Arrived(e))]
      BY <2>1, <2>3 DEF Return
    <3>2. received \in [Side -> Seq(SentRec)] /\ Append(got, Arrived(e)) \in Seq(SentRec)
      BY <2>4 DEF StreamInv, Got, Gets
    <3> QED BY <3>1, <3>2, Sides
  <2>6. Faces(s, stream'[s], Size(received'[s]), Base("open", rdr'[s].pc))
    BY <1>1, <1>6, <2>1, <2>4, <2>5, ExchangeSteps
  <2>7. (s = "cli" => CliStream') /\ (s = "srv" => SrvStream')
    BY <1>1, <2>6, FacesKept
  <2> QED BY <1>1, <1>3, <2>1, <2>2, <2>4, <2>5, <2>7, ReadKeeps
<1>9. CASE p.size # 0
  <2>1. /\ rdr'[s] = [pc |-> "data", pkt |-> p] /\ rdr'[Other(s)] = rdr[Other(s)]
        /\ UNCHANGED <<snd, received>>
    BY <1>1, <1>2, <1>9, Sides
  <2>2. Gets(got, "data", p, q) /\ received \in [Side -> Seq(SentRec)]
    BY <1>4, <1>5, <1>6 DEF Gets, StreamInv, Got
  <2>3. Faces(s, stream'[s], Size(received'[s]), Base("open", rdr'[s].pc))
    BY <1>6, <2>1, ExchangeSteps
  <2>4. (s = "cli" => CliStream') /\ (s = "srv" => SrvStream')
    BY <1>1, <2>3, FacesKept
  <2> QED BY <1>1, <1>3, <2>1, <2>2, <2>4, ReadKeeps
<1> QED BY <1>8, <1>9

LEMMA ReadDataKeeps ==
  ASSUME TypeInv, StreamInv, NEW s \in Side, ReadData(s)
  PROVE  StreamInv'
<1> DEFINE p == rdr[s].pkt
           q == sent[Other(s)]
           got == received[s]
           m == Size(got)
           e == q[m + 1]
           d == FrameData(e)
           b == stream[s]
           t == Taken(s, p.size)
<1>1. /\ UNCHANGED <<conn, lock, key, major, hs, sent>>
      /\ rdr[s].pc = "data" /\ Ready(s, p.size) /\ Pull(s, p.size)
      /\ Return(s, p, DecompressData(t, IsCompressed(p)))
      /\ rdr' = [rdr EXCEPT ![s] = [pc |-> "header", pkt |-> NoHeader]]
  BY DEF ReadData, config
<1>2. hs[s].pc = "open" /\ stream \in Bytes /\ rdr \in [Side -> RdrRec]
  BY <1>1 DEF StreamInv, Phases, TypeInv, Typed
<1>3. Gets(got, "data", p, q)
  BY <1>1 DEF StreamInv, Got
<1>4. m \in Nat /\ q \in Seq(SentRec) /\ Size(q) \in Nat
  BY <1>3, StreamTyping, LenProperties, Sides DEF Gets, Size
<1>5. m + 1 \in 1 .. Size(q) /\ p = Wired(FrameHead(e))
  BY <1>3, <1>4 DEF Gets
<1>6. e \in SentRec
  BY <1>4, <1>5 DEF Size
<1>7. /\ p.size = Size(d) /\ p.size \in Nat
      /\ [id |-> p.id, pkt |-> [type |-> p.type, link |-> p.link,
            data |-> DecompressData(d, IsCompressed(p))]] = Arrived(e)
  BY <1>5, <1>6, PacketRestored
<1>8. /\ stream'[Other(s)] = stream[Other(s)] /\ Size(b) >= p.size
      /\ Part(t, b, 1, p.size) /\ Rest(stream'[s], b, p.size)
  BY <1>1, <1>2, <1>7, PullEffect DEF Ready, Size
<1>9. Faces(s, b, m, 0 - 16)
  BY <1>1, <1>2, ReaderFaces, ExchangeSteps
<1>10. t = d /\ Faces(s, stream'[s], m + 1, 0)
  <2>1. /\ Size(b) >= Size(d) /\ Part(t, b, 1, Size(d)) /\ Rest(stream'[s], b, Size(d))
        /\ IsNext(d, q, m)
    BY <1>7, <1>8 DEF IsNext
  <2> HIDE DEF b, m, d, t, q
  <2> QED BY <1>4, <1>9, <2>1, FacesData DEF q
<1>11. /\ rdr'[s] = [pc |-> "header", pkt |-> NoHeader] /\ rdr'[Other(s)] = rdr[Other(s)]
  BY <1>1, <1>2, Sides
<1>12. \A u \in Tasks : /\ snd'[u].pc = snd[u].pc /\ snd'[u].id = snd[u].id
                        /\ snd[u].todo # <<>> => Head(snd'[u].todo) = Head(snd[u].todo)
  BY <1>1, ReturnEffect
<1>13. /\ Gets(Append(got, Arrived(e)), "header", NoHeader, q)
       /\ Size(Append(got, Arrived(e))) = m + 1
  BY <1>3, <1>4, <1>5, GetsReturned
<1>14. /\ received'[s] = Append(got, Arrived(e)) /\ received' \in [Side -> Seq(SentRec)]
       /\ received'[Other(s)] = received[Other(s)]
  <2> HIDE DEF p, e, d, t
  <2>1. received' = [received EXCEPT ![s] = Append(@, Arrived(e))]
    BY <1>1, <1>7, <1>10 DEF Return
  <2>2. received \in [Side -> Seq(SentRec)] /\ Append(got, Arrived(e)) \in Seq(SentRec)
    BY <1>13 DEF StreamInv, Got, Gets
  <2> QED BY <2>1, <2>2, Sides
<1>15. Faces(s, stream'[s], Size(received'[s]), Base("open", rdr'[s].pc))
  BY <1>10, <1>11, <1>13, <1>14, ExchangeSteps
<1>16. (s = "cli" => CliStream') /\ (s = "srv" => SrvStream')
  BY <1>1, <1>2, <1>15, FacesKept
<1> QED BY <1>1, <1>2, <1>8, <1>11, <1>12, <1>13, <1>14, <1>16, ReadKeeps

-----------------------------------------------------------------------------
(* The connection, and the whole. *)

LEMMA FaultKeeps ==
  ASSUME TypeInv, StreamInv, Fault
  PROVE  StreamInv'
<1>1. UNCHANGED <<lock, key, major, hs, snd, rdr, sent, received>> /\ Cut /\ conn' # "up"
  BY DEF Fault, config
<1>2. Shorter(stream'["cli"], stream["cli"]) /\ Shorter(stream'["srv"], stream["srv"])
  BY <1>1, CutEffect, Sides DEF TypeInv, Typed
<1>3. Phases'
  BY <1>1 DEF StreamInv, Phases
<1>4. Holder' /\ Got' /\ AuthAgreement'
  BY <1>1, HolderKept, GotKept DEF StreamInv, AuthAgreement
<1>5. CliStream'
  <2>1. VersionData("srv")' = VersionData("srv")
    BY <1>1 DEF VersionData
  <2>2. hs["srv"].pc \in SrvPc
    BY DEF StreamInv, Phases
  <2>3. CliSide(hs["cli"].pc, rdr["cli"].pc, Size(received["cli"]), stream'["cli"], conn',
                hs["srv"].pc, lock["srv"], sent["srv"], VersionData("srv"))
    BY <1>1, <1>2, <2>2, CliSideLost DEF StreamInv, CliStream
  <2> QED BY <1>1, <2>1, <2>3 DEF CliStream
<1>6. SrvStream'
  <2>1. hs["srv"].pc \in SrvPc /\ Size(received["srv"]) \in Nat
    BY LenProperties, Sides DEF StreamInv, Phases, Got, Gets, Size
  <2>2. SrvSide(hs["srv"].pc, rdr["srv"].pc, Size(received["srv"]), stream'["srv"], conn',
                hs["cli"].pc, lock["cli"], sent["cli"], ComputeResponse(key["cli"], Nonce))
    BY <1>1, <1>2, <2>1, SrvSideLost DEF StreamInv, SrvStream
  <2> QED BY <1>1, <2>2 DEF SrvStream
<1> QED BY <1>3, <1>4, <1>5, <1>6 DEF StreamInv

(* Nothing is written yet.                                                 *)
LEMMA NothingRuns ==
  /\ Runs(<<>>, 0, 0, "up", <<>>, 0, 0)
  /\ \A pc : Pending(Free, pc, <<>>, 0, 0)
<1> DEFINE f == [i \in 1 .. 1 |-> 0]
<1>1. Size(<<>>) = 0 /\ ByteSeq(<<>>)
  BY DEF Size, ByteSeq
<1>2. WireSeq(<<>>, 0)
  <2>1. 1 .. 0 = {} /\ <<>> \in [{} -> Seq(Byte)]
    OBVIOUS
  <2> QED BY <2>1 DEF WireSeq
<1>3. Places(f, 0) /\ f[0 + 1] = 0
  BY DEF Places
<1>4. Holds(<<>>, f, 0, 0, "up")
  BY <1>1, <1>3 DEF Holds
<1>5. Laid(<<>>, f, <<>>, 0, 0)
  <2>1. (\A i \in 0 + 1 .. 0 : FALSE) /\ \A i \in 0 + 1 .. 0 + 1 : i = 1 /\ f[i] = 0
    OBVIOUS
  <2>2. 0 <= 0
    OBVIOUS
  <2>3. \A i, j \in 0 + 1 .. 0 + 1 : f[i] <= f[j]
    BY <2>1, <2>2
  <2> QED BY <2>1, <2>3 DEF Laid
<1>6. Lies(<<>>, <<>>, 0, 0, 0, 0, "up")
  BY <1>3, <1>4, <1>5 DEF Lies
<1> QED BY <1>1, <1>2, <1>6 DEF Runs, Pending

LEMMA StreamInit == Init => StreamInv
<1> SUFFICES ASSUME Init PROVE StreamInv
  OBVIOUS
<1> DEFINE v == VersionData("srv")
           x == ComputeResponse(key["cli"], Nonce)
<1>1. /\ conn = "up" /\ stream["cli"] = <<>> /\ stream["srv"] = <<>>
      /\ \A s \in Side : lock[s] = Free /\ sent[s] = <<>> /\ received[s] = <<>>
                           /\ rdr[s].pc = "header"
      /\ hs["srv"].pc = "challenge" /\ hs["cli"].pc = "wait"
      /\ \A t \in Tasks : snd[t].pc = "idle"
      /\ received \in [Side -> Seq(SentRec)]
  BY Sides DEF Init
<1>2. Size(<<>>) = 0
  BY DEF Size
<1>3. Phases
  BY <1>1, Sides DEF Phases, SrvPc, CliPc
<1>4. Holder
  BY <1>1, LockNames DEF Holder
<1>5. Got
  <2> SUFFICES ASSUME NEW s \in Side
               PROVE  Gets(received[s], rdr[s].pc, rdr[s].pkt, sent[Other(s)])
    BY <1>1 DEF Got
  <2>1. received[s] = <<>> /\ sent[Other(s)] = <<>> /\ rdr[s].pc = "header"
    BY <1>1, Sides
  <2>2. /\ <<>> \in Seq(SentRec) /\ Size(<<>>) <= Size(<<>>)
        /\ \A i \in 1 .. Size(<<>>) : FALSE
    BY <1>2
  <2> QED BY <2>1, <2>2 DEF Gets
<1>6. AuthAgreement
  BY <1>1 DEF AuthAgreement
<1>7. CliStream
  <2>1. SrvLog("challenge", <<>>, v, <<>>, 0, 0)
    BY DEF SrvLog, Greeted
  <2>2. ToCli(<<>>, 0, 0, "up", "challenge", Free, <<>>, v)
    BY <2>1, NothingRuns, Zenon DEF ToCli
  <2>3. CliDone("wait", 0) = 0 /\ Base("wait", "header") = 0
    BY CliSteps
  <2> QED BY <1>1, <1>2, <2>2, <2>3, Sides DEF CliStream, CliSide
<1>8. SrvStream
  <2>1. CliLog("wait", <<>>, x, <<>>, 0)
    BY DEF CliLog, Fresh
  <2>2. ToSrv(<<>>, 0, 0, "up", "wait", Free, <<>>, x)
    BY <2>1, NothingRuns, Zenon DEF ToSrv
  <2>3. SrvDone("challenge", 0) = 0 /\ Base("challenge", "header") = 0
    BY DEF SrvDone, Base
  <2> QED BY <1>1, <1>2, <2>2, <2>3, Sides DEF SrvStream, SrvSide
<1> QED BY <1>3, <1>4, <1>5, <1>6, <1>7, <1>8 DEF StreamInv

LEMMA SrvHandshakeKeeps ==
  ASSUME TypeInv, StreamInv, SendChallenge \/ ReadResponse \/ SendVerdict
  PROVE  StreamInv'
<1>1. CASE SendChallenge
  <2>1. NextPacketId("srv") \in Nat /\ Len(Nonce) = NONCE_SIZE
    BY CounterTyping, NonceTyping, Sides DEF TypeInv
  <2> QED BY <1>1, <2>1, SrvHeaderKeeps, SrvDataKeeps DEF SendChallenge
<1>2. CASE ReadResponse
  BY <1>2, ReadResponseKeeps
<1>3. CASE SendVerdict
  <2>1. hs["srv"].pkt.id \in Nat
    BY StreamTyping, Sides DEF HeaderGW
  <2>2. Len(<< 0 >>) = 1
    OBVIOUS
  <2> QED BY <1>3, <2>1, <2>2, SrvHeaderKeeps, SrvDataKeeps DEF SendVerdict
<1> QED BY <1>1, <1>2, <1>3

LEMMA StreamNext ==
  ASSUME TypeInv, StreamInv, [Next]_vars
  PROVE  StreamInv'
<1>1. CASE \E s \in Side : HandshakeStep(s)
  <2>1. PICK s \in Side : HandshakeStep(s)
    BY <1>1
  <2> QED BY <2>1, SrvHandshakeKeeps, ReadChallengeKeeps, SendResponseKeeps,
             ReadVerdictKeeps, SrvGivesUp, CliGivesUp DEF HandshakeStep, Side
<1>2. CASE \E s \in Side : ReadStep(s)
  BY <1>2, ReadHeaderKeeps, ReadDataKeeps, ReadFailKeeps DEF ReadStep
<1>3. CASE \E t \in Tasks : SendStep(t)
  BY <1>3, TaskQuietly, WriteHeaderStream, WriteDataKeeps, WriteFailKeeps DEF SendStep
<1>4. CASE ResponseTimeout
  BY <1>4, SrvGivesUp
<1>5. CASE Fault
  BY <1>5, FaultKeeps
<1>6. CASE UNCHANGED vars
  <2>1. UNCHANGED <<conn, stream, lock, key, major, hs, snd, rdr, sent, received>>
    BY <1>6 DEF vars, config, count
  <2>2. Phases' /\ AuthAgreement'
    BY <2>1 DEF StreamInv, Phases, AuthAgreement
  <2>3. Holder' /\ Got'
    BY <2>1, HolderKept, GotKept DEF StreamInv
  <2> QED BY <2>1, <2>2, <2>3, CliStill, SrvStill DEF StreamInv
<1> QED BY <1>1, <1>2, <1>3, <1>4, <1>5, <1>6 DEF Next

LEMMA StreamAlways == Spec => []StreamInv
<1>1. TypeInv /\ StreamInv /\ [Next]_vars => StreamInv'
  BY StreamNext
<1> QED BY <1>1, StreamInit, TypeAlways, PTL DEF Spec

(* The two ends of a connection agree on how the handshake ended.  The     *)
(* client takes itself for connected only when the server has accepted it, *)
(* with the same key and a version that fits, and the server accepts only  *)
(* the holder of its key: whatever tasks write meanwhile, and wherever the *)
(* connection breaks.                                                      *)
THEOREM AuthAgreementTheorem == Spec => []AuthAgreement
<1>1. StreamInv => AuthAgreement
  BY DEF StreamInv
<1> QED BY <1>1, StreamAlways, PTL

-----------------------------------------------------------------------------
(* What is read is what was written. *)

(* A number no larger than one that fits in 64 bits fits as well.          *)
LEMMA FitsBelow ==
  ASSUME NEW m \in Nat, Fits64(m), NEW n \in Nat, n <= m
  PROVE  Fits64(n)
<1>1. \A x, y \in Nat : x <= y => /\ x \div 256 \in Nat /\ y \div 256 \in Nat
                                   /\ x \div 256 <= y \div 256
  OBVIOUS
<1>2. Cut1(n) \in Nat /\ Cut1(m) \in Nat /\ Cut1(n) <= Cut1(m)
  BY <1>1 DEF Cut1
<1>3. Cut2(n) \in Nat /\ Cut2(m) \in Nat /\ Cut2(n) <= Cut2(m)
  BY <1>1, <1>2, Zenon DEF Cut2
<1>4. Cut3(n) \in Nat /\ Cut3(m) \in Nat /\ Cut3(n) <= Cut3(m)
  BY <1>1, <1>3, Zenon DEF Cut3
<1>5. Cut4(n) \in Nat /\ Cut4(m) \in Nat /\ Cut4(n) <= Cut4(m)
  BY <1>1, <1>4, Zenon DEF Cut4
<1>6. Cut5(n) \in Nat /\ Cut5(m) \in Nat /\ Cut5(n) <= Cut5(m)
  BY <1>1, <1>5, Zenon DEF Cut5
<1>7. Cut6(n) \in Nat /\ Cut6(m) \in Nat /\ Cut6(n) <= Cut6(m)
  BY <1>1, <1>6, Zenon DEF Cut6
<1>8. Cut7(n) \in Nat /\ Cut7(m) \in Nat /\ Cut7(n) <= Cut7(m)
  BY <1>1, <1>7, Zenon DEF Cut7
<1> QED BY <1>8 DEF Fits64

LEMMA ArrivesIntact ==
  ASSUME NEW e \in SentRec, Fits64(e.id)
  PROVE  Arrived(e) = e
<1>1. e.id \in Nat /\ FromLE(LE(e.id, 8)) = e.id
  BY RoundTrip8 DEF SentRec
<1>2. e = [id |-> e.id, pkt |-> e.pkt]
  BY DEF SentRec
<1> QED BY <1>1, <1>2, Zenon DEF Arrived

LEMMA PrefixByElements ==
  ASSUME NEW S, NEW a \in Seq(S), NEW b \in Seq(S), Len(a) <= Len(b),
         \A i \in 1 .. Len(a) : a[i] = b[i]
  PROVE  IsPrefix(a, b)
<1>1. Len(a) \in Nat /\ Len(b) \in Nat
  BY LenProperties
<1>2. SubSeq(a, 1, Len(a)) = [i \in 1 .. Len(a) |-> a[i]]
  BY <1>1
<1>3. SubSeq(b, 1, Len(a)) = [i \in 1 .. Len(a) |-> b[i]]
  BY <1>1
<1> QED BY <1>2, <1>3 DEF IsPrefix

(* The numbers handed out so far fit in the 64 bits that a header has for  *)
(* them: the AtomicU64 has not wrapped around.                             *)
CountersFit == \A s \in Side : Fits64(packet_id_counter[s])

LEMMA IntactWhileFit ==
  ASSUME TypeInv, NumberInv, StreamInv, CountersFit
  PROVE  FramesIntact
<1> SUFFICES ASSUME NEW s \in Side
             PROVE  IsPrefix(received[s], sent[Other(s)])
  BY DEF FramesIntact
<1> DEFINE a == received[s]
           o == Other(s)
           q == sent[o]
<1>1. o \in Side
  BY DEF Other, Side
<1>2. a \in Seq(SentRec) /\ q \in Seq(SentRec) /\ packet_id_counter[o] \in Nat
  BY <1>1 DEF TypeInv, Typed, StreamInv, Got
<1>3. Len(a) <= Len(q) /\ \A i \in 1 .. Len(a) : a[i] = Arrived(q[i])
  BY DEF StreamInv, Got, Gets, Size
<1>4. ASSUME NEW i \in 1 .. Len(a) PROVE a[i] = q[i]
  <2>1. i \in 1 .. Len(q)
    BY <1>2, <1>3, LenProperties
  <2>2. q[i] \in SentRec /\ q[i].id \in Nat
    BY <1>1, <2>1, SentNumbers DEF TypeInv
  <2>3. q[i].id <= packet_id_counter[o]
    BY <1>1, <2>1 DEF NumberInv, Numbers
  <2>4. Fits64(q[i].id)
    BY <1>1, <1>2, <2>2, <2>3, FitsBelow DEF CountersFit
  <2> QED BY <1>3, <2>2, <2>4, ArrivesIntact
<1> QED BY <1>2, <1>3, <1>4, PrefixByElements

(* What a gateway reads is, packet by packet, what the other one wrote:    *)
(* two pieces per packet, from several tasks, compressed or not, and cut   *)
(* off anywhere.  It holds as long as the numbers fit in the header, which *)
(* they do for the first 2^64 - 1 packets: past them the counter of the    *)
(* code wraps around and the one of the model does not.                    *)
THEOREM FramesIntactTheorem == Spec /\ []CountersFit => []FramesIntact
<1>1. TypeInv /\ NumberInv /\ StreamInv /\ CountersFit => FramesIntact
  BY IntactWhileFit
<1> QED BY <1>1, TypeAlways, NumberAlways, StreamAlways, PTL

-----------------------------------------------------------------------------
(* Sums over the places of a sequence. *)

LEMMA LeastNumber ==
  ASSUME NEW T, T \subseteq Nat, T # {}
  PROVE  \E x \in T : \A y \in T : x <= y
<1> DEFINE R == OpToRel(<, Nat)
<1>1. IsWellFoundedOn(R, Nat)
  BY NatLessThanWellFounded, Zenon
<1>2. \A x, y \in Nat : <<x, y>> \in R <=> x < y
  BY DEF OpToRel
<1> HIDE DEF R
<1>3. PICK x \in T : \A y \in T : ~(<<y, x>> \in R)
  BY <1>1, WFMin, Zenon
<1>4. \A y \in T : x \in Nat /\ y \in Nat /\ ~(y < x)
  BY <1>2, <1>3
<1> QED BY <1>4

(* Running sums g of what c gives for the places 1 to n that are in X, and *)
(* x is the last of them.                                                  *)
Share(c, X, i) == IF i \in X THEN c[i] ELSE 0
Summed(g, n, c, X) ==
  /\ g \in [1 .. n + 1 -> Nat] /\ g[1] = 0
  /\ \A i \in 1 .. n : g[i + 1] = g[i] + Share(c, X, i)
Total(n, c, X, x) == \E g : Summed(g, n, c, X) /\ x = g[n + 1]

LEMMA TotalNone ==
  ASSUME NEW c, NEW X
  PROVE  Total(0, c, X, 0)
<1> DEFINE g == [i \in 1 .. 1 |-> 0]
<1>1. g \in [1 .. 0 + 1 -> Nat] /\ g[1] = 0 /\ g[0 + 1] = 0 /\ \A i \in 1 .. 0 : FALSE
  OBVIOUS
<1>2. Summed(g, 0, c, X)
  BY <1>1, Zenon DEF Summed
<1> QED BY <1>1, <1>2, Zenon DEF Total

LEMMA TotalNat ==
  ASSUME NEW n \in Nat, NEW c, NEW X, NEW x, Total(n, c, X, x)
  PROVE  x \in Nat
<1>1. n + 1 \in 1 .. n + 1
  OBVIOUS
<1> QED BY <1>1, Zenon DEF Total, Summed

(* The sum depends on what is summed only.                                 *)
LEMMA TotalSame ==
  ASSUME NEW n \in Nat, NEW c, NEW X, NEW x, Total(n, c, X, x), NEW d, NEW Y,
         \A i \in 1 .. n : Share(d, Y, i) = Share(c, X, i)
  PROVE  Total(n, d, Y, x)
BY Zenon DEF Total, Summed

(* There is one sum: the running sums agree at the first place, and two    *)
(* that differ would differ for the first time behind a place where they   *)
(* do not.                                                                 *)
LEMMA TotalUnique ==
  ASSUME NEW n \in Nat, NEW c, NEW X, NEW x, NEW y, Total(n, c, X, x), Total(n, c, X, y)
  PROVE  x = y
<1>1. PICK g : Summed(g, n, c, X) /\ x = g[n + 1]
  BY Zenon DEF Total
<1>2. PICK h : Summed(h, n, c, X) /\ y = h[n + 1]
  BY Zenon DEF Total
<1> DEFINE T == {i \in 1 .. n + 1 : g[i] # h[i]}
<1>3. SUFFICES ASSUME T # {} PROVE FALSE
  <2>1. n + 1 \in 1 .. n + 1
    OBVIOUS
  <2> QED BY <1>1, <1>2, <1>3, <2>1, Zenon
<1>4. T \subseteq Nat
  OBVIOUS
<1>5. PICK i \in T : \A j \in T : i <= j
  BY <1>3, <1>4, LeastNumber
<1>6. i \in 1 .. n + 1 /\ g[i] # h[i]
  BY <1>5
<1>7. i # 1
  BY <1>1, <1>2, <1>6, Zenon DEF Summed
<1>8. i - 1 \in 1 .. n /\ i - 1 \in 1 .. n + 1 /\ (i - 1) + 1 = i /\ ~(i <= i - 1)
  BY <1>6, <1>7
<1>9. i - 1 \notin T
  BY <1>5, <1>8, Zenon
<1>10. g[i - 1] = h[i - 1]
  BY <1>8, <1>9, Zenon
<1>11. g[i] = g[i - 1] + Share(c, X, i - 1) /\ h[i] = h[i - 1] + Share(c, X, i - 1)
  BY <1>1, <1>2, <1>8, Zenon DEF Summed
<1> QED BY <1>6, <1>10, <1>11, Zenon

(* One more place, which does not count.                                   *)
LEMMA TotalOpen ==
  ASSUME NEW n \in Nat, NEW c, NEW X, NEW x, Total(n, c, X, x), n + 1 \notin X
  PROVE  Total(n + 1, c, X, x)
<1>1. PICK g : Summed(g, n, c, X) /\ x = g[n + 1]
  BY Zenon DEF Total
<1> DEFINE h == [i \in 1 .. (n + 1) + 1 |-> IF i \in 1 .. n + 1 THEN g[i] ELSE g[n + 1]]
<1>2. /\ 1 \in 1 .. n + 1 /\ 1 \in 1 .. (n + 1) + 1 /\ n + 1 \in 1 .. n + 1
      /\ (n + 1) + 1 \in 1 .. (n + 1) + 1 /\ (n + 1) + 1 \notin 1 .. n + 1
      /\ \A i \in 1 .. n + 1 : i = n + 1 \/ (i \in 1 .. n /\ i + 1 \in 1 .. n + 1)
      /\ \A i \in 1 .. n + 1 : i \in 1 .. (n + 1) + 1
  OBVIOUS
<1>3. g \in [1 .. n + 1 -> Nat]
  BY <1>1, Zenon DEF Summed
<1>4. /\ \A i \in 1 .. n + 1 : h[i] = g[i]
      /\ h[(n + 1) + 1] = g[n + 1]
      /\ h \in [1 .. (n + 1) + 1 -> Nat]
  BY <1>2, <1>3, Zenon
<1> HIDE DEF h
<1>5. g[n + 1] = g[n + 1] + Share(c, X, n + 1)
  <2>1. Share(c, X, n + 1) = 0
    BY DEF Share
  <2>2. g[n + 1] \in Nat
    BY <1>2, <1>3, Zenon
  <2> QED BY <2>1, <2>2
<1>6. ASSUME NEW i \in 1 .. n + 1 PROVE h[i + 1] = h[i] + Share(c, X, i)
  <2>1. CASE i = n + 1
    BY <1>2, <1>4, <1>5, <2>1, Zenon
  <2>2. CASE i \in 1 .. n /\ i + 1 \in 1 .. n + 1
    BY <1>1, <1>4, <2>2, Zenon DEF Summed
  <2> QED BY <1>2, <2>1, <2>2, Zenon
<1>7. Summed(h, n + 1, c, X)
  BY <1>1, <1>2, <1>4, <1>6, Zenon DEF Summed
<1> QED BY <1>1, <1>4, <1>7, Zenon DEF Total

(* One more place counts.                                                  *)
LEMMA TotalAdd ==
  ASSUME NEW n \in Nat, NEW c, NEW X, NEW x, Total(n, c, X, x),
         \A i \in 1 .. n : c[i] \in Nat, NEW k \in 1 .. n, k \notin X,
         NEW Y, Y = X \cup {k}
  PROVE  Total(n, c, Y, x + c[k])
<1>1. PICK g : Summed(g, n, c, X) /\ x = g[n + 1]
  BY Zenon DEF Total
<1> DEFINE a == c[k]
           h == [i \in 1 .. n + 1 |-> IF i <= k THEN g[i] ELSE g[i] + a]
<1>2. \A i \in 1 .. n + 1 : g[i] \in Nat
  BY <1>1, Zenon DEF Summed
<1>3. a \in Nat
  OBVIOUS
<1> HIDE DEF a
<1>4. h \in [1 .. n + 1 -> Nat]
  BY <1>2, <1>3
<1>5. \A i \in 1 .. n + 1 : h[i] = IF i <= k THEN g[i] ELSE g[i] + a
  OBVIOUS
<1> HIDE DEF h
<1>6. h[1] = 0 /\ h[n + 1] = x + a
  <2>1. 1 \in 1 .. n + 1 /\ 1 <= k /\ n + 1 \in 1 .. n + 1 /\ ~(n + 1 <= k)
    OBVIOUS
  <2> QED BY <1>1, <1>5, <2>1, Zenon DEF Summed
<1>7. ASSUME NEW i \in 1 .. n PROVE h[i + 1] = h[i] + Share(c, Y, i)
  <2>1. i \in 1 .. n + 1 /\ i + 1 \in 1 .. n + 1
    OBVIOUS
  <2>2. g[i + 1] = g[i] + Share(c, X, i) /\ g[i] \in Nat /\ g[i + 1] \in Nat
    BY <1>1, <1>2, <2>1, Zenon DEF Summed
  <2>3. CASE i = k
    <3>1. Share(c, X, i) = 0 /\ Share(c, Y, i) = a
      BY <2>3 DEF Share, a
    <3>2. h[i] = g[i] /\ h[i + 1] = g[i + 1] + a
      BY <1>5, <2>1, <2>3
    <3> QED BY <2>2, <3>1, <3>2
  <2>4. CASE i # k
    <3>1. Share(c, Y, i) = Share(c, X, i)
      BY <2>4 DEF Share
    <3>2. CASE i < k
      <4>1. h[i] = g[i] /\ h[i + 1] = g[i + 1]
        BY <1>5, <2>1, <3>2
      <4> QED BY <2>2, <3>1, <4>1
    <3>3. CASE i > k
      <4>1. h[i] = g[i] + a /\ h[i + 1] = g[i + 1] + a
        BY <1>5, <2>1, <3>3
      <4>2. Share(c, X, i) \in Nat
        BY DEF Share
      <4> QED BY <1>3, <2>2, <3>1, <4>1, <4>2
    <3> QED BY <2>4, <3>2, <3>3
  <2> QED BY <2>3, <2>4
<1>8. Summed(h, n, c, Y)
  BY <1>4, <1>6, <1>7, Zenon DEF Summed
<1> QED BY <1>6, <1>8, Zenon DEF Total, a

-----------------------------------------------------------------------------
(* What the gateways count. *)

(* What a packet costs: one packet, or its bytes on the wire.              *)
Kinds      == {"packets", "bytes"}
Cost(k, e) == IF k = "packets" THEN 1 ELSE 16 + Size(FrameData(e))
Costs(k, q) == [i \in 1 .. Size(q) |-> Cost(k, q[i])]

(* The counters of a kind.  A reader that waits for data has counted the   *)
(* header.                                                                 *)
StatRec == [packets_in : Nat, packets_out : Nat, bytes_in : Nat, bytes_out : Nat]
In(k, st)   == IF k = "packets" THEN st.packets_in ELSE st.bytes_in
Out(k, st)  == IF k = "packets" THEN st.packets_out ELSE st.bytes_out
Half(k, pc) == IF pc # "data" THEN 0 ELSE IF k = "packets" THEN 1 ELSE 16

(* Of the packets q those at the places X are counted as sent; the first m *)
(* are counted as received.                                                *)
SentCount(k, q, X, st) == Total(Size(q), Costs(k, q), X, Out(k, st))
ReadCount(k, q, m, pc, st) ==
  \E x \in Nat : Total(Size(q), Costs(k, q), 1 .. m, x) /\ In(k, st) = x + Half(k, pc)

LEMMA CostsTyping ==
  ASSUME NEW k, NEW q \in Seq(SentRec)
  PROVE  /\ Size(q) \in Nat
         /\ \A i \in 1 .. Size(q) : /\ q[i] \in SentRec /\ Size(FrameData(q[i])) \in Nat
                                    /\ Costs(k, q)[i] = Cost(k, q[i])
                                    /\ Costs(k, q)[i] \in Nat
<1>1. Size(q) \in Nat
  BY LenProperties DEF Size
<1>2. ASSUME NEW i \in 1 .. Size(q)
      PROVE  /\ q[i] \in SentRec /\ Size(FrameData(q[i])) \in Nat
             /\ Costs(k, q)[i] = Cost(k, q[i]) /\ Costs(k, q)[i] \in Nat
  <2>1. q[i] \in SentRec
    BY ElementOfSeq DEF Size
  <2>2. FrameData(q[i]) \in Seq(Byte)
    BY <2>1, FrameRestores, Zenon
  <2>3. Size(FrameData(q[i])) \in Nat
    BY <2>2, LenProperties, Zenon DEF Size
  <2>4. Costs(k, q)[i] = Cost(k, q[i])
    BY Zenon DEF Costs
  <2>5. Cost(k, q[i]) \in Nat
    BY <2>3 DEF Cost
  <2> QED BY <2>1, <2>3, <2>4, <2>5, Zenon
<1> QED BY <1>1, <1>2

(* A packet more is sent, and not counted yet.                             *)
LEMMA TotalSent ==
  ASSUME NEW k, NEW q \in Seq(SentRec), NEW e \in SentRec, NEW a, a = Append(q, e),
         NEW X, NEW x, Total(Size(q), Costs(k, q), X, x),
         NEW Y, \A i \in 1 .. Size(q) : i \in Y <=> i \in X, Size(q) + 1 \notin Y
  PROVE  Total(Size(a), Costs(k, a), Y, x)
<1>1. /\ a \in Seq(SentRec) /\ Size(a) = Size(q) + 1
      /\ \A i \in 1 .. Size(q) : a[i] = q[i]
  BY AppendProperties DEF Size
<1>2. /\ Size(q) \in Nat /\ \A i \in 1 .. Size(q) : Costs(k, q)[i] = Cost(k, q[i])
      /\ \A i \in 1 .. Size(a) : Costs(k, a)[i] = Cost(k, a[i])
  BY <1>1, CostsTyping, ZenonT(60)
<1>3. \A i \in 1 .. Size(q) : i \in 1 .. Size(a)
  BY <1>1, <1>2
<1>4. \A i \in 1 .. Size(q) : Costs(k, a)[i] = Costs(k, q)[i]
  BY <1>1, <1>2, <1>3, Zenon
<1>5. \A i \in 1 .. Size(q) : Share(Costs(k, a), Y, i) = Share(Costs(k, q), X, i)
  BY <1>4, Zenon DEF Share
<1>6. Total(Size(q), Costs(k, a), Y, x)
  <2> DEFINE n == Size(q)
             c == Costs(k, q)
             d == Costs(k, a)
  <2> HIDE DEF n, c, d
  <2>1. n \in Nat /\ Total(n, c, X, x) /\ \A i \in 1 .. n : Share(d, Y, i) = Share(c, X, i)
    BY <1>2, <1>5 DEF n, c, d
  <2>2. Total(n, d, Y, x)
    BY <2>1, TotalSame
  <2> QED BY <2>2 DEF n, d
<1>7. Total(Size(q) + 1, Costs(k, a), Y, x)
  BY <1>2, <1>6, TotalOpen, Zenon
<1> QED BY <1>1, <1>7, Zenon

LEMMA ReadCountSent ==
  ASSUME NEW k, NEW q \in Seq(SentRec), NEW e \in SentRec, NEW m \in Nat, m <= Size(q),
         NEW pc, NEW st, ReadCount(k, q, m, pc, st)
  PROVE  ReadCount(k, Append(q, e), m, pc, st)
<1>1. Size(q) \in Nat
  BY CostsTyping
<1>2. Size(q) + 1 \notin 1 .. m
  BY <1>1
<1> QED BY <1>2, TotalSent, Zenon DEF ReadCount

(* A packet that was sent is counted.                                      *)
LEMMA SentCounted ==
  ASSUME NEW k \in Kinds, NEW q \in Seq(SentRec), NEW X, NEW i \in 1 .. Size(q), i \notin X,
         NEW Y, Y = X \cup {i}, NEW st, SentCount(k, q, X, st),
         NEW st2, Out(k, st2) = Out(k, st) + Cost(k, q[i])
  PROVE  SentCount(k, q, Y, st2)
<1>1. /\ Size(q) \in Nat /\ \A j \in 1 .. Size(q) : Costs(k, q)[j] \in Nat
      /\ Costs(k, q)[i] = Cost(k, q[i])
  BY CostsTyping
<1>2. Total(Size(q), Costs(k, q), X, Out(k, st))
  BY DEF SentCount
<1> DEFINE c == Costs(k, q)
           x == Out(k, st)
<1>3. Total(Size(q), c, Y, x + c[i])
  <2> HIDE DEF c, x
  <2> QED BY <1>1, <1>2, TotalAdd DEF c, x
<1> QED BY <1>1, <1>3 DEF SentCount

(* A header is read, with data to follow; a packet is read to its end.     *)
LEMMA ReadCountHeader ==
  ASSUME NEW k \in Kinds, NEW q, NEW m, NEW st, ReadCount(k, q, m, "header", st),
         NEW st2, In(k, st2) = In(k, st) + Half(k, "data")
  PROVE  ReadCount(k, q, m, "data", st2)
<1>1. PICK x \in Nat : /\ Total(Size(q), Costs(k, q), 1 .. m, x)
                       /\ In(k, st) = x + Half(k, "header")
  BY DEF ReadCount
<1>2. Half(k, "header") = 0
  BY DEF Half
<1>3. In(k, st) = x
  BY <1>1, <1>2
<1>4. In(k, st2) = x + Half(k, "data")
  BY <1>3
<1> QED BY <1>1, <1>4 DEF ReadCount

LEMMA ReadCountWhole ==
  ASSUME NEW k \in Kinds, NEW q \in Seq(SentRec), NEW m \in Nat, m + 1 \in 1 .. Size(q),
         NEW pc \in {"header", "data"}, NEW st, ReadCount(k, q, m, pc, st),
         NEW st2, In(k, st2) = In(k, st) + (Cost(k, q[m + 1]) - Half(k, pc))
  PROVE  ReadCount(k, q, m + 1, "header", st2)
<1>1. /\ Size(q) \in Nat /\ \A j \in 1 .. Size(q) : Costs(k, q)[j] \in Nat
      /\ Costs(k, q)[m + 1] = Cost(k, q[m + 1])
  BY CostsTyping
<1>2. PICK x \in Nat : /\ Total(Size(q), Costs(k, q), 1 .. m, x)
                       /\ In(k, st) = x + Half(k, pc)
  BY DEF ReadCount
<1> DEFINE c == Costs(k, q)
<1>3. m + 1 \notin 1 .. m /\ 1 .. m + 1 = (1 .. m) \cup {m + 1}
  OBVIOUS
<1>4. c[m + 1] \in Nat
  BY <1>1
<1>5. Total(Size(q), c, 1 .. m + 1, x + c[m + 1])
  <2> HIDE DEF c
  <2> QED BY <1>1, <1>2, <1>3, TotalAdd DEF c
<1>6. Half(k, pc) \in Nat /\ Half(k, "header") = 0
  BY DEF Half
<1>7. In(k, st2) = x + c[m + 1]
  <2> DEFINE a == c[m + 1]
             w == Half(k, pc)
  <2>1. In(k, st2) = (x + w) + (a - w) /\ a \in Nat /\ w \in Nat
    BY <1>1, <1>2, <1>4, <1>6
  <2> HIDE DEF a, w
  <2>2. In(k, st2) = x + a
    BY <2>1
  <2> QED BY <2>2 DEF a
<1>8. x + c[m + 1] \in Nat /\ In(k, st2) = (x + c[m + 1]) + Half(k, "header")
  BY <1>4, <1>6, <1>7
<1> QED BY <1>5, <1>8, Zenon DEF ReadCount

(* Task t has written the header of a packet, and not counted it.  The     *)
(* packet is one of those sent, and is no other task's.                    *)
Busy(t) == snd[t].pc \in {"data", "count"}
Counting ==
  \A t \in Tasks : Busy(t) =>
    /\ \E i \in 1 .. Size(sent[SideOf[t]]) : sent[SideOf[t]][i] = Item(t)
    /\ \A u \in Tasks : Busy(u) /\ SideOf[u] = SideOf[t] /\ snd[u].id = snd[t].id => u = t

(* The places of the packets of s that no task has still to count.         *)
Counted(s) ==
  {i \in 1 .. Size(sent[s]) :
     \A t \in Tasks : SideOf[t] = s /\ Busy(t) => snd[t].id # sent[s][i].id}

(* On a connection that is up, s has counted what its tasks have written   *)
(* and counted, and what its reader has returned or begun to read.         *)
Tallied(s, k) ==
  /\ SentCount(k, sent[s], Counted(s), stats[s])
  /\ ReadCount(k, sent[Other(s)], Size(received[s]), rdr[s].pc, stats[s])

StatsInv ==
  /\ stats \in [Side -> StatRec] /\ Counting
  /\ conn = "up" => \A s \in Side : \A k \in Kinds : Tallied(s, k)

LEMMA CountingKept ==
  ASSUME Counting, sent' = sent,
         \A t \in Tasks : Busy(t)' => Busy(t) /\ snd'[t].id = snd[t].id
                                        /\ Head(snd'[t].todo) = Head(snd[t].todo)
  PROVE  Counting'
<1> SUFFICES ASSUME NEW t \in Tasks, Busy(t)'
             PROVE  /\ \E i \in 1 .. Size(sent'[SideOf[t]]) : sent'[SideOf[t]][i] = Item(t)'
                    /\ \A u \in Tasks : Busy(u)' /\ SideOf[u] = SideOf[t]
                                          /\ snd'[u].id = snd'[t].id => u = t
  BY Zenon DEF Counting
<1>1. Item(t)' = Item(t)
  BY DEF Item
<1>2. \E i \in 1 .. Size(sent[SideOf[t]]) : sent[SideOf[t]][i] = Item(t)
  BY Zenon DEF Counting
<1>3. \A u \in Tasks : Busy(u)' /\ SideOf[u] = SideOf[t] /\ snd'[u].id = snd'[t].id => u = t
  BY Zenon DEF Counting
<1> QED BY <1>1, <1>2, <1>3, Zenon

LEMMA CountedKept ==
  ASSUME NEW s \in Side, sent'[s] = sent[s],
         \A t \in Tasks : SideOf[t] = s =>
           (Busy(t)' <=> Busy(t)) /\ (Busy(t) => snd'[t].id = snd[t].id)
  PROVE  Counted(s)' = Counted(s)
<1>1. \A i : (\A t \in Tasks : SideOf[t] = s /\ Busy(t)' => snd'[t].id # sent[s][i].id)
         <=> (\A t \in Tasks : SideOf[t] = s /\ Busy(t) => snd[t].id # sent[s][i].id)
  BY Zenon
<1>2. Counted(s)' = {i \in 1 .. Size(sent[s]) : \A t \in Tasks :
                       SideOf[t] = s /\ Busy(t)' => snd'[t].id # sent[s][i].id}
  BY DEF Counted
<1> DEFINE A(i) == \A t \in Tasks : SideOf[t] = s /\ Busy(t)' => snd'[t].id # sent[s][i].id
           B(i) == \A t \in Tasks : SideOf[t] = s /\ Busy(t) => snd[t].id # sent[s][i].id
<1>3. Counted(s)' = {i \in 1 .. Size(sent[s]) : A(i)}
  BY <1>2
<1>4. Counted(s) = {i \in 1 .. Size(sent[s]) : B(i)}
  BY DEF Counted
<1>5. \A i : A(i) <=> B(i)
  BY <1>1
<1> HIDE DEF A, B
<1>6. {i \in 1 .. Size(sent[s]) : A(i)} = {i \in 1 .. Size(sent[s]) : B(i)}
  BY <1>5, Zenon
<1> QED BY <1>3, <1>4, <1>6

(* A step that neither counts nor sends nor reads.                         *)
LEMMA StatsStill ==
  ASSUME StatsInv, UNCHANGED <<sent, stats, received, rdr>>, conn' = "up" => conn = "up",
         \A t \in Tasks : /\ Busy(t)' <=> Busy(t)
                          /\ Busy(t) => /\ snd'[t].id = snd[t].id
                                        /\ Head(snd'[t].todo) = Head(snd[t].todo)
  PROVE  StatsInv'
<1>1. Counting'
  BY CountingKept, Zenon DEF StatsInv
<1>2. \A s \in Side : Counted(s)' = Counted(s)
  BY CountedKept
<1>3. ASSUME conn' = "up", NEW s \in Side, NEW k \in Kinds PROVE Tallied(s, k)'
  <2>1. Tallied(s, k)
    BY <1>3, Zenon DEF StatsInv
  <2>2. SentCount(k, sent'[s], Counted(s)', stats'[s])
    BY <1>2, <2>1 DEF Tallied
  <2>3. ReadCount(k, sent'[Other(s)], Size(received'[s]), rdr'[s].pc, stats'[s])
    BY <2>1 DEF Tallied
  <2> QED BY <2>2, <2>3 DEF Tallied
<1>4. stats' \in [Side -> StatRec]
  BY DEF StatsInv
<1> QED BY <1>1, <1>3, <1>4, Zenon DEF StatsInv

(* A step of a connection that is gone.                                    *)
LEMMA StatsGone ==
  ASSUME StatsInv, UNCHANGED <<sent, stats>>, conn' # "up",
         \A t \in Tasks : Busy(t)' => Busy(t) /\ snd'[t].id = snd[t].id
                                        /\ Head(snd'[t].todo) = Head(snd[t].todo)
  PROVE  StatsInv'
<1>1. Counting'
  BY CountingKept, Zenon DEF StatsInv
<1>2. stats' \in [Side -> StatRec]
  BY DEF StatsInv
<1> QED BY <1>1, <1>2, Zenon DEF StatsInv

LEMMA StatsOutside ==
  ASSUME StatsInv, (\E s \in Side : HandshakeStep(s)) \/ ResponseTimeout \/ Fault
  PROVE  StatsInv'
<1>1. UNCHANGED <<snd, rdr, sent, received>>
  BY OutsideSteps, SMTT(30)
<1>2. stats' = stats /\ (conn' = "up" => conn = "up")
  BY Sides DEF HandshakeStep, SendChallenge, ReadResponse, SendVerdict, ReadChallenge,
     SendResponse, ReadVerdict, HsFail, HsHeader, HsData, HsRead, ResponseTimeout, Fault,
     config, count
<1>3. \A t \in Tasks : Busy(t)' <=> Busy(t)
  BY <1>1 DEF Busy
<1> QED BY <1>1, <1>2, <1>3, StatsStill

LEMMA StatsTask ==
  ASSUME TypeInv, StatsInv, NEW t \in Tasks, TakeNumber(t) \/ WriteData(t) \/ WriteFail(t)
  PROVE  StatsInv'
<1>1. snd \in [Tasks -> SndRec]
  BY DEF TypeInv, Typed
<1>2. CASE TakeNumber(t)
  <2>1. /\ UNCHANGED <<sent, stats, received, rdr, conn>> /\ snd[t].pc = "idle"
        /\ snd' = [snd EXCEPT ![t].pc = "header", ![t].id = NextPacketId(SideOf[t])]
    BY <1>2 DEF TakeNumber, count
  <2>2. snd'[t].pc = "header" /\ \A u \in Tasks : u # t => snd'[u] = snd[u]
    BY <1>1, <2>1 DEF SndRec
  <2>3. ~Busy(t) /\ ~Busy(t)' /\ \A u \in Tasks : u # t => (Busy(u)' <=> Busy(u))
    BY <2>1, <2>2 DEF Busy
  <2> QED BY <2>1, <2>2, <2>3, StatsStill
<1>3. CASE WriteData(t)
  <2>1. /\ UNCHANGED <<sent, stats, received, rdr, conn>> /\ snd[t].pc = "data"
        /\ snd' = [snd EXCEPT ![t].pc = "count"]
    BY <1>3 DEF WriteData, count
  <2>2. /\ snd'[t].pc = "count" /\ snd'[t].id = snd[t].id /\ snd'[t].todo = snd[t].todo
        /\ \A u \in Tasks : u # t => snd'[u] = snd[u]
    BY <1>1, <2>1 DEF SndRec
  <2>3. Busy(t) /\ Busy(t)' /\ \A u \in Tasks : u # t => (Busy(u)' <=> Busy(u))
    BY <2>1, <2>2 DEF Busy
  <2> QED BY <2>1, <2>2, <2>3, StatsStill
<1>4. CASE WriteFail(t)
  <2>1. UNCHANGED <<sent, stats, conn>> /\ conn # "up" /\ GiveUp(t)
    BY <1>4 DEF WriteFail, count
  <2>2. snd'[t].pc \in {"idle", "failed"} /\ \A u \in Tasks : u # t => snd'[u] = snd[u]
    BY <1>1, <2>1 DEF GiveUp, SndRec
  <2>3. ~Busy(t)' /\ \A u \in Tasks : u # t => (Busy(u)' <=> Busy(u))
    BY <2>2 DEF Busy
  <2> QED BY <2>1, <2>2, <2>3, StatsGone
<1> QED BY <1>2, <1>3, <1>4

LEMMA InCounted ==
  ASSUME NEW s \in Side
  PROVE  /\ \A i : i \in Counted(s) <=>
              /\ i \in 1 .. Size(sent[s])
              /\ \A t \in Tasks : SideOf[t] = s /\ Busy(t) => snd[t].id # sent[s][i].id
         /\ \A i : i \in Counted(s)' <=>
              /\ i \in 1 .. Size(sent'[s])
              /\ \A t \in Tasks : SideOf[t] = s /\ Busy(t)' => snd'[t].id # sent'[s][i].id
<1>1. \A i : i \in Counted(s) <=>
              /\ i \in 1 .. Size(sent[s])
              /\ \A t \in Tasks : SideOf[t] = s /\ Busy(t) => snd[t].id # sent[s][i].id
  BY Zenon DEF Counted
<1>2. \A i : i \in Counted(s)' <=>
              /\ i \in 1 .. Size(sent'[s])
              /\ \A t \in Tasks : SideOf[t] = s /\ Busy(t)' => snd'[t].id # sent'[s][i].id
  BY Zenon DEF Counted
<1> QED BY <1>1, <1>2, Zenon

(* A header is written: one more packet that is not counted.               *)
LEMMA StatsHeader ==
  ASSUME TypeInv, NumberInv, StreamInv, StatsInv, NEW t \in Tasks, WriteHeader(t)
  PROVE  StatsInv'
<1>1. PICK s \in Side, e \in SentRec, q \in Seq(SentRec) :
        s = SideOf[t] /\ e = Item(t) /\ q = sent[s]
  <2>1. snd[t].pc = "header"
    BY DEF WriteHeader
  <2>2. Item(t) \in SentRec
    BY <2>1, ItemFramed
  <2>3. SideOf[t] \in Side /\ sent[SideOf[t]] \in Seq(SentRec)
    BY LockNames, StreamTyping
  <2> QED BY <2>2, <2>3
<1>2. /\ UNCHANGED <<conn, stats, rdr, received>> /\ snd[t].pc = "header"
      /\ \/ snd' = [snd EXCEPT ![t].pc = "count"]
         \/ snd' = [snd EXCEPT ![t].pc = "data"]
      /\ sent' = [sent EXCEPT ![s] = Append(q, e)]
  BY <1>1 DEF WriteHeader, count, Item
<1>3. /\ \A u \in Tasks : u # t => snd'[u] = snd[u]
      /\ snd'[t].id = snd[t].id /\ snd'[t].todo = snd[t].todo /\ snd'[t].pc \in {"data", "count"}
  <2>1. snd \in [Tasks -> SndRec]
    BY DEF TypeInv, Typed
  <2> QED BY <1>2, <2>1 DEF SndRec
<1>4. sent'[s] = Append(q, e) /\ \A u \in Side : u # s => sent'[u] = sent[u]
  <2>1. sent \in [Side -> Seq(SentRec)]
    BY DEF TypeInv, Typed
  <2> QED BY <1>2, <2>1, Zenon
<1>5. /\ Size(Append(q, e)) = Size(q) + 1 /\ Append(q, e)[Size(q) + 1] = e
      /\ \A i \in 1 .. Size(q) : Append(q, e)[i] = q[i]
      /\ Size(q) \in Nat
  BY AppendProperties, LenProperties DEF Size
<1>6. ~Busy(t) /\ Busy(t)' /\ \A u \in Tasks : u # t => (Busy(u)' <=> Busy(u))
  BY <1>2, <1>3 DEF Busy
<1>7. \A i \in 1 .. Size(q) : q[i].id # snd[t].id
  BY <1>1, <1>2 DEF NumberInv, Numbers, Size
<1>8. e.id = snd[t].id
  BY <1>1 DEF Item
<1>9. \A u \in Tasks : u # t => Item(u)' = Item(u)
  BY <1>3 DEF Item
<1>10. Item(t)' = e
  BY <1>1, <1>3 DEF Item
<1>11. \A u \in Side : \A i \in 1 .. Size(sent[u]) :
         i \in 1 .. Size(sent'[u]) /\ sent'[u][i] = sent[u][i]
  <2>1. \A i \in 1 .. Size(q) : i \in 1 .. Size(q) + 1
    BY <1>5
  <2>2. \A i \in 1 .. Size(sent[s]) : i \in 1 .. Size(sent'[s]) /\ sent'[s][i] = sent[s][i]
    BY <1>1, <1>4, <1>5, <2>1, Zenon
  <2> QED BY <1>4, <2>2, Zenon
<1>12. Size(q) + 1 \in 1 .. Size(sent'[s]) /\ sent'[s][Size(q) + 1] = e
  BY <1>4, <1>5
<1>13. ASSUME NEW u \in Tasks, Busy(u), SideOf[u] = s PROVE snd[u].id # snd[t].id
  <2>1. PICK i \in 1 .. Size(q) : q[i] = Item(u)
    BY <1>1, <1>13, Zenon DEF StatsInv, Counting
  <2>2. q[i].id = snd[u].id
    BY <2>1 DEF Item
  <2> QED BY <1>7, <2>2
<1>14. Counting'
  <2> SUFFICES ASSUME NEW u \in Tasks, Busy(u)'
               PROVE  /\ \E i \in 1 .. Size(sent'[SideOf[u]]) : sent'[SideOf[u]][i] = Item(u)'
                      /\ \A v \in Tasks : Busy(v)' /\ SideOf[v] = SideOf[u]
                                            /\ snd'[v].id = snd'[u].id => v = u
    BY Zenon DEF Counting
  <2>1. CASE u = t
    <3>1. \E i \in 1 .. Size(sent'[SideOf[u]]) : sent'[SideOf[u]][i] = Item(u)'
      BY <1>1, <1>10, <1>12, <2>1, Zenon
    <3>2. \A v \in Tasks : Busy(v)' /\ SideOf[v] = SideOf[u]
                             /\ snd'[v].id = snd'[u].id => v = u
      BY <1>1, <1>3, <1>6, <1>13, <2>1, Zenon
    <3> QED BY <3>1, <3>2
  <2>2. CASE u # t
    <3>1. Busy(u) /\ Item(u)' = Item(u) /\ SideOf[u] \in Side /\ snd'[u].id = snd[u].id
      BY <1>3, <1>6, <1>9, <2>2, LockNames, Zenon
    <3>2. \E i \in 1 .. Size(sent[SideOf[u]]) : sent[SideOf[u]][i] = Item(u)
      BY <3>1, Zenon DEF StatsInv, Counting
    <3>3. \E i \in 1 .. Size(sent'[SideOf[u]]) : sent'[SideOf[u]][i] = Item(u)'
      BY <1>11, <3>1, <3>2, Zenon
    <3>4. ASSUME NEW v \in Tasks, Busy(v)', SideOf[v] = SideOf[u], snd'[v].id = snd'[u].id
          PROVE  v = u
      <4>1. v # t
        BY <1>1, <1>3, <1>13, <3>1, <3>4, Zenon
      <4>2. Busy(v) /\ snd'[v].id = snd[v].id
        BY <1>3, <1>6, <3>4, <4>1, Zenon
      <4> QED BY <3>1, <3>4, <4>2, Zenon DEF StatsInv, Counting
    <3> QED BY <3>3, <3>4, Zenon
  <2> QED BY <2>1, <2>2
<1>15. /\ \A i \in 1 .. Size(q) : i \in Counted(s)' <=> i \in Counted(s)
       /\ Size(q) + 1 \notin Counted(s)'
  <2>1. Size(q) + 1 \notin Counted(s)'
    <3>1. sent'[s][Size(q) + 1].id = snd'[t].id
      BY <1>3, <1>8, <1>12
    <3> QED BY <1>1, <1>6, <3>1, InCounted, Zenon
  <2>2. ASSUME NEW i \in 1 .. Size(q) PROVE i \in Counted(s)' <=> i \in Counted(s)
    <3>1. i \in 1 .. Size(sent[s]) /\ i \in 1 .. Size(sent'[s]) /\ sent'[s][i] = sent[s][i]
      BY <1>1, <1>11, Zenon
    <3>2. sent[s][i].id # snd[t].id
      BY <1>1, <1>7
    <3>3. (\A u \in Tasks : SideOf[u] = s /\ Busy(u)' => snd'[u].id # sent'[s][i].id)
            <=> \A u \in Tasks : SideOf[u] = s /\ Busy(u) => snd[u].id # sent[s][i].id
      BY <1>3, <1>6, <3>1, <3>2, Zenon
    <3> QED BY <3>1, <3>3, InCounted, Zenon
  <2> QED BY <2>1, <2>2
<1>16. \A u \in Side : u # s => Counted(u)' = Counted(u)
  BY <1>1, <1>3, <1>4, <1>6, CountedKept
<1>17. ASSUME conn' = "up", NEW u \in Side, NEW k \in Kinds PROVE Tallied(u, k)'
  <2>1. Tallied(u, k) /\ Other(u) \in Side /\ (u = s \/ u = Other(s))
    BY <1>2, <1>17, Sides, Zenon DEF StatsInv
  <2>2. SentCount(k, sent'[u], Counted(u)', stats'[u])
    <3>1. SentCount(k, sent[u], Counted(u), stats'[u])
      BY <1>2, <2>1 DEF Tallied
    <3>2. CASE u = s
      <4>1. Total(Size(q), Costs(k, q), Counted(s), Out(k, stats'[s]))
        BY <1>1, <3>1, <3>2, Zenon DEF SentCount
      <4>2. PICK a, X, Y, x : /\ a = Append(q, e) /\ X = Counted(s) /\ Y = Counted(s)'
                              /\ x = Out(k, stats'[s])
        OBVIOUS
      <4>3. Total(Size(a), Costs(k, a), Y, x)
        <5>1. /\ Total(Size(q), Costs(k, q), X, x) /\ Size(q) + 1 \notin Y
              /\ \A i \in 1 .. Size(q) : i \in Y <=> i \in X
          BY <1>15, <4>1, <4>2, Zenon
        <5>2. a = Append(q, e)
          BY <4>2
        <5> QED BY <5>1, <5>2, TotalSent
      <4> QED BY <1>4, <3>2, <4>2, <4>3, Zenon DEF SentCount
    <3>3. CASE u # s
      BY <1>4, <1>16, <3>1, <3>3, Zenon
    <3> QED BY <3>2, <3>3
  <2>3. ReadCount(k, sent'[Other(u)], Size(received'[u]), rdr'[u].pc, stats'[u])
    <3>1. ReadCount(k, sent[Other(u)], Size(received'[u]), rdr'[u].pc, stats'[u])
      BY <1>2, <2>1 DEF Tallied
    <3>2. CASE Other(u) # s
      BY <1>4, <2>1, <3>1, <3>2, Zenon
    <3>3. CASE Other(u) = s
      <4>1. Size(received[u]) \in Nat /\ Size(received[u]) <= Size(q)
        <5>1. Gets(received[u], rdr[u].pc, rdr[u].pkt, q)
          BY <1>1, <3>3 DEF StreamInv, Got
        <5> QED BY <5>1, LenProperties DEF Gets, Size
      <4>2. received' = received /\ ReadCount(k, q, Size(received[u]), rdr'[u].pc, stats'[u])
        BY <1>1, <1>2, <3>1, <3>3
      <4>3. PICK m, p, st : /\ m \in Nat /\ m = Size(received[u])
                            /\ p = rdr'[u].pc /\ st = stats'[u]
        BY <4>1
      <4>4. m <= Size(q) /\ ReadCount(k, q, m, p, st)
        BY <4>1, <4>2, <4>3, Zenon
      <4>5. ReadCount(k, Append(q, e), m, p, st)
        BY <4>3, <4>4, ReadCountSent
      <4> QED BY <1>4, <3>3, <4>2, <4>3, <4>5, Zenon
    <3> QED BY <3>2, <3>3
  <2> QED BY <2>2, <2>3 DEF Tallied
<1>18. stats' \in [Side -> StatRec]
  BY <1>2 DEF StatsInv
<1> QED BY <1>14, <1>17, <1>18, Zenon DEF StatsInv

(* What the statements that count do.                                      *)
CountsOut(s, d) ==
  stats' = [stats EXCEPT ![s].packets_out = @ + 1,
                         ![s].bytes_out   = @ + PACKET_HEADER_SIZE + d]

LEMMA StatsOutEffect ==
  ASSUME stats \in [Side -> StatRec], NEW s \in Side, NEW d \in Nat, NEW st, st = stats[s],
         CountsOut(s, d)
  PROVE  /\ stats' \in [Side -> StatRec] /\ \A u \in Side : u # s => stats'[u] = stats[u]
         /\ stats'[s].packets_in = st.packets_in /\ stats'[s].bytes_in = st.bytes_in
         /\ stats'[s].packets_out = st.packets_out + 1
         /\ stats'[s].bytes_out = st.bytes_out + (16 + d)
<1>1. st.packets_out \in Nat /\ st.bytes_out \in Nat /\ st \in StatRec
  BY DEF StatRec
<1>2. (st.bytes_out + PACKET_HEADER_SIZE) + d = st.bytes_out + (16 + d)
  BY <1>1 DEF PACKET_HEADER_SIZE
<1> DEFINE p == st.packets_out + 1
           b == st.bytes_out + (16 + d)
           x == [st EXCEPT !.packets_out = p, !.bytes_out = b]
<1>3. stats' = [stats EXCEPT ![s] = x]
  BY <1>2 DEF CountsOut
<1>4. p \in Nat /\ b \in Nat
  BY <1>1
<1> HIDE DEF p, b
<1>5. /\ x \in StatRec /\ x.packets_in = st.packets_in /\ x.bytes_in = st.bytes_in
      /\ x.packets_out = p /\ x.bytes_out = b
  BY <1>1, <1>4 DEF StatRec
<1> HIDE DEF x
<1>6. /\ stats' \in [Side -> StatRec] /\ stats'[s] = x
      /\ \A u \in Side : u # s => stats'[u] = stats[u]
  BY <1>3, <1>5
<1> QED BY <1>5, <1>6 DEF p, b

(* A packet is counted by the task that wrote it.                          *)
LEMMA StatsCount ==
  ASSUME TypeInv, NumberInv, StatsInv, NEW t \in Tasks, CountSent(t)
  PROVE  StatsInv'
<1>1. snd[t].pc = "count"
  BY DEF CountSent
<1>2. Busy(t)
  BY <1>1 DEF Busy
<1>3. PICK s \in Side, q \in Seq(SentRec), i \in 1 .. Size(sent[SideOf[t]]) :
        s = SideOf[t] /\ q = sent[s] /\ q[i] = Item(t)
  <2>1. \E i \in 1 .. Size(sent[SideOf[t]]) : sent[SideOf[t]][i] = Item(t)
    BY <1>2, Zenon DEF StatsInv, Counting
  <2>2. SideOf[t] \in Side /\ sent[SideOf[t]] \in Seq(SentRec)
    BY LockNames, StreamTyping
  <2> QED BY <2>1, <2>2
<1>4. i \in 1 .. Size(q)
  BY <1>3
<1>5. /\ UNCHANGED <<conn, rdr, received, sent>>
      /\ snd' = [snd EXCEPT ![t].pc = "idle", ![t].todo = Tail(@)]
  BY DEF CountSent
<1>6. snd'[t].pc = "idle" /\ \A u \in Tasks : u # t => snd'[u] = snd[u]
  <2>1. snd \in [Tasks -> SndRec]
    BY DEF TypeInv, Typed
  <2> QED BY <1>5, <2>1 DEF SndRec
<1>7. ~Busy(t)' /\ \A u \in Tasks : u # t => (Busy(u)' <=> Busy(u))
  BY <1>6 DEF Busy
<1>8. Counting'
  BY <1>5, <1>6, <1>7, CountingKept DEF StatsInv
<1>9. /\ stats' \in [Side -> StatRec] /\ \A u \in Side : u # s => stats'[u] = stats[u]
      /\ \A k : In(k, stats'[s]) = In(k, stats[s])
      /\ \A k : Out(k, stats'[s]) = Out(k, stats[s]) + Cost(k, q[i])
  <2>1. FrameData(q[i]) = Current(t).data
    BY <1>3 DEF FrameData, Item, Current
  <2>2. Size(FrameData(q[i])) \in Nat
    BY <1>4, CostsTyping
  <2>3. PICK d \in Nat, st \in StatRec : d = Size(FrameData(q[i])) /\ st = stats[s]
    BY <2>2 DEF StatsInv
  <2>4. CountsOut(s, d)
    BY <1>3, <2>1, <2>3 DEF CountSent, CountsOut, Size
  <2>5. /\ stats' \in [Side -> StatRec] /\ \A u \in Side : u # s => stats'[u] = stats[u]
        /\ stats'[s].packets_in = st.packets_in /\ stats'[s].bytes_in = st.bytes_in
        /\ stats'[s].packets_out = st.packets_out + 1
        /\ stats'[s].bytes_out = st.bytes_out + (16 + d)
    BY <2>3, <2>4, StatsOutEffect DEF StatsInv
  <2>6. \A k : Cost(k, q[i]) = IF k = "packets" THEN 1 ELSE 16 + d
    BY <2>3 DEF Cost
  <2>7. \A k : Out(k, stats'[s]) = Out(k, st) + Cost(k, q[i])
    BY <2>5, <2>6, Zenon DEF Out
  <2>8. \A k : In(k, stats'[s]) = In(k, st)
    BY <2>5, Zenon DEF In
  <2> QED BY <2>3, <2>5, <2>7, <2>8
<1>10. \A u \in Side : u # s => Counted(u)' = Counted(u)
  BY <1>3, <1>5, <1>6, <1>7, CountedKept
<1>11. q[i].id = snd[t].id
  BY <1>3 DEF Item
<1>12. i \notin Counted(s)
  BY <1>2, <1>3, <1>11, InCounted, Zenon
<1>13. ASSUME NEW j PROVE j \in Counted(s)' <=> j \in Counted(s) \/ j = i
  <2>1. ASSUME j \in Counted(s) PROVE j \in Counted(s)'
    <3>1. j \in 1 .. Size(sent'[s])
      BY <1>5, <2>1, InCounted
    <3>2. ASSUME NEW u \in Tasks, SideOf[u] = s, Busy(u)' PROVE snd'[u].id # sent'[s][j].id
      <4>1. u # t /\ Busy(u) /\ snd'[u].id = snd[u].id
        BY <1>6, <1>7, <3>2, Zenon
      <4>2. snd[u].id # sent[s][j].id
        BY <2>1, <3>2, <4>1, InCounted, Zenon
      <4> QED BY <1>5, <4>1, <4>2
    <3> QED BY <3>1, <3>2, InCounted, Zenon
  <2>2. i \in Counted(s)'
    <3>1. ASSUME NEW u \in Tasks, SideOf[u] = s, Busy(u)' PROVE snd'[u].id # q[i].id
      <4>1. u # t /\ Busy(u) /\ snd'[u].id = snd[u].id
        BY <1>6, <1>7, <3>1, Zenon
      <4>2. snd[u].id # snd[t].id
        BY <1>2, <1>3, <3>1, <4>1, Zenon DEF StatsInv, Counting
      <4> QED BY <1>11, <4>1, <4>2
    <3> QED BY <1>3, <1>4, <1>5, <3>1, InCounted, Zenon
  <2>3. ASSUME j \in Counted(s)', j \notin Counted(s) PROVE j = i
    <3>1. /\ j \in 1 .. Size(q)
          /\ \A u \in Tasks : SideOf[u] = s /\ Busy(u)' => snd'[u].id # q[j].id
      <4>1. sent'[s] = q
        BY <1>3, <1>5
      <4>2. /\ j \in 1 .. Size(sent'[s])
            /\ \A u \in Tasks : SideOf[u] = s /\ Busy(u)' => snd'[u].id # sent'[s][j].id
        BY <2>3, InCounted, Zenon
      <4> QED BY <4>1, <4>2
    <3>2. PICK u \in Tasks : SideOf[u] = s /\ Busy(u) /\ snd[u].id = q[j].id
      BY <1>3, <2>3, <3>1, InCounted, Zenon
    <3>3. u = t
      BY <1>6, <1>7, <3>1, <3>2, Zenon
    <3>4. q[j].id = q[i].id
      BY <1>11, <3>2, <3>3
    <3> QED BY <1>3, <1>4, <3>1, <3>4 DEF NumberInv, IdsUnique, Size
  <2> QED BY <2>1, <2>2, <2>3, Zenon
<1>14. Counted(s)' = Counted(s) \cup {i}
  BY <1>13, Zenon
<1>15. ASSUME conn' = "up", NEW u \in Side, NEW k \in Kinds PROVE Tallied(u, k)'
  <2>1. Tallied(u, k)
    BY <1>5, <1>15, Zenon DEF StatsInv
  <2>2. SentCount(k, sent'[u], Counted(u)', stats'[u])
    <3>1. SentCount(k, sent'[u], Counted(u), stats[u])
      BY <1>5, <2>1 DEF Tallied
    <3>2. CASE u = s
      <4>1. PICK X, Y, st, st2 : /\ X = Counted(s) /\ Y = Counted(s)'
                                 /\ st = stats[s] /\ st2 = stats'[s]
        OBVIOUS
      <4>2. /\ SentCount(k, q, X, st) /\ i \notin X /\ Y = X \cup {i}
            /\ Out(k, st2) = Out(k, st) + Cost(k, q[i])
        BY <1>3, <1>5, <1>9, <1>12, <1>14, <3>1, <3>2, <4>1, Zenon
      <4>3. SentCount(k, q, Y, st2)
        BY <1>4, <4>2, SentCounted
      <4> QED BY <1>3, <1>5, <3>2, <4>1, <4>3, Zenon
    <3>3. CASE u # s
      BY <1>9, <1>10, <3>1, <3>3, Zenon
    <3> QED BY <3>2, <3>3
  <2>3. ReadCount(k, sent'[Other(u)], Size(received'[u]), rdr'[u].pc, stats'[u])
    <3>1. ReadCount(k, sent'[Other(u)], Size(received'[u]), rdr'[u].pc, stats[u])
      BY <1>5, <2>1 DEF Tallied
    <3>2. In(k, stats'[u]) = In(k, stats[u])
      BY <1>9, Zenon
    <3> QED BY <3>1, <3>2, Zenon DEF ReadCount
  <2> QED BY <2>2, <2>3 DEF Tallied
<1> QED BY <1>8, <1>9, <1>15, Zenon DEF StatsInv

HeaderCounted(s) ==
  stats' = [stats EXCEPT ![s].packets_in = @ + 1, ![s].bytes_in = @ + PACKET_HEADER_SIZE]
DataCounted(s, d) == stats' = [stats EXCEPT ![s].bytes_in = @ + d]

LEMMA StatsInEffect ==
  ASSUME stats \in [Side -> StatRec], NEW s \in Side, NEW x \in Nat, NEW d \in Nat,
         NEW st, st = stats[s],
         \/ HeaderCounted(s) /\ x = 1 /\ d = 16
         \/ DataCounted(s, d) /\ x = 0
  PROVE  /\ stats' \in [Side -> StatRec] /\ \A u \in Side : u # s => stats'[u] = stats[u]
         /\ \A k : Out(k, stats'[s]) = Out(k, st)
         /\ \A k : In(k, stats'[s]) = In(k, st) + IF k = "packets" THEN x ELSE d
<1>1. st.packets_in \in Nat /\ st.bytes_in \in Nat /\ st \in StatRec
  BY DEF StatRec
<1> DEFINE p == st.packets_in + x
           b == st.bytes_in + d
           r == [st EXCEPT !.packets_in = p, !.bytes_in = b]
<1>2. stats' = [stats EXCEPT ![s] = r]
  <2>1. CASE HeaderCounted(s) /\ x = 1 /\ d = 16
    BY <2>1 DEF HeaderCounted, PACKET_HEADER_SIZE
  <2>2. CASE DataCounted(s, d) /\ x = 0
    <3>1. p = st.packets_in
      BY <1>1, <2>2
    <3>2. r = [st EXCEPT !.bytes_in = b]
      <4> HIDE DEF p, b
      <4> QED BY <1>1, <3>1 DEF StatRec
    <3>3. stats' = [stats EXCEPT ![s] = [st EXCEPT !.bytes_in = b]]
      BY <2>2 DEF DataCounted
    <3> QED BY <3>2, <3>3
  <2> QED BY <2>1, <2>2
<1>3. p \in Nat /\ b \in Nat
  BY <1>1
<1> HIDE DEF p, b
<1>4. /\ r \in StatRec /\ r.packets_out = st.packets_out /\ r.bytes_out = st.bytes_out
      /\ r.packets_in = p /\ r.bytes_in = b
  BY <1>1, <1>3 DEF StatRec
<1> HIDE DEF r
<1>5. /\ stats' \in [Side -> StatRec] /\ stats'[s] = r
      /\ \A u \in Side : u # s => stats'[u] = stats[u]
  BY <1>2, <1>4
<1>6. \A k : Out(k, stats'[s]) = Out(k, st)
  BY <1>4, <1>5 DEF Out
<1>7. \A k : In(k, stats'[s]) = In(k, st) + IF k = "packets" THEN x ELSE d
  BY <1>4, <1>5 DEF In, p, b
<1> QED BY <1>5, <1>6, <1>7

(* What is common to the steps that read.                                  *)
LEMMA StatsRead ==
  ASSUME TypeInv, StatsInv, NEW s \in Side, UNCHANGED <<conn, sent>>,
         rdr'[Other(s)] = rdr[Other(s)], received'[Other(s)] = received[Other(s)],
         \A t \in Tasks : /\ snd'[t].pc = snd[t].pc /\ snd'[t].id = snd[t].id
                          /\ snd[t].todo # <<>> => Head(snd'[t].todo) = Head(snd[t].todo),
         stats' \in [Side -> StatRec], \A u \in Side : u # s => stats'[u] = stats[u],
         \A k : Out(k, stats'[s]) = Out(k, stats[s]),
         conn = "up" => \A k \in Kinds :
           ReadCount(k, sent[Other(s)], Size(received'[s]), rdr'[s].pc, stats'[s])
  PROVE  StatsInv'
<1>1. \A t \in Tasks : /\ Busy(t)' <=> Busy(t)
                       /\ Busy(t) => Head(snd'[t].todo) = Head(snd[t].todo)
  BY DEF Busy, TypeInv, Placed
<1>2. Counting'
  BY <1>1, CountingKept DEF StatsInv
<1>3. \A u \in Side : Counted(u)' = Counted(u)
  BY <1>1, CountedKept
<1>4. ASSUME conn' = "up", NEW u \in Side, NEW k \in Kinds PROVE Tallied(u, k)'
  <2>1. Tallied(u, k) /\ (u = s \/ (u # s /\ u = Other(s)))
    BY <1>4, Sides, Zenon DEF StatsInv
  <2>2. SentCount(k, sent'[u], Counted(u)', stats'[u])
    <3>1. Out(k, stats'[u]) = Out(k, stats[u])
      BY <2>1, Zenon
    <3> QED BY <1>3, <2>1, <3>1, Zenon DEF Tallied, SentCount
  <2>3. ReadCount(k, sent'[Other(u)], Size(received'[u]), rdr'[u].pc, stats'[u])
    <3>1. CASE u = s
      BY <1>4, <3>1
    <3>2. CASE u # s
      BY <2>1, <3>2 DEF Tallied
    <3> QED BY <3>1, <3>2
  <2> QED BY <2>2, <2>3 DEF Tallied
<1> QED BY <1>2, <1>4, Zenon DEF StatsInv

(* The reader of s has read m packets of q, and is at pc.                  *)
LEMMA Reading ==
  ASSUME TypeInv, StreamInv, StatsInv, NEW s \in Side
  PROVE  /\ sent[Other(s)] \in Seq(SentRec) /\ Size(received[s]) \in Nat
         /\ received \in [Side -> Seq(SentRec)]
         /\ Gets(received[s], rdr[s].pc, rdr[s].pkt, sent[Other(s)])
         /\ conn = "up" => \A k \in Kinds :
              ReadCount(k, sent[Other(s)], Size(received[s]), rdr[s].pc, stats[s])
<1>1. sent[Other(s)] \in Seq(SentRec)
  BY StreamTyping, Sides
<1>2. /\ Gets(received[s], rdr[s].pc, rdr[s].pkt, sent[Other(s)])
      /\ received \in [Side -> Seq(SentRec)]
  BY DEF StreamInv, Got
<1>3. Size(received[s]) \in Nat
  BY <1>2, LenProperties DEF Gets, Size
<1> QED BY <1>1, <1>2, <1>3, Zenon DEF StatsInv, Tallied

LEMMA ReturnSize ==
  ASSUME received \in [Side -> Seq(SentRec)], NEW s \in Side, NEW p, NEW d, Return(s, p, d)
  PROVE  /\ Size(received'[s]) = Size(received[s]) + 1
         /\ received'[Other(s)] = received[Other(s)]
<1> DEFINE a == [id |-> p.id, pkt |-> [type |-> p.type, link |-> p.link, data |-> d]]
<1>1. received' = [received EXCEPT ![s] = Append(@, a)]
  BY DEF Return
<1>2. received[s] \in Seq(SentRec)
  OBVIOUS
<1> HIDE DEF a
<1>3. received'[s] = Append(received[s], a) /\ received'[Other(s)] = received[Other(s)]
  BY <1>1, Sides
<1>4. Len(Append(received[s], a)) = Len(received[s]) + 1
  BY <1>2
<1> QED BY <1>3, <1>4 DEF Size

LEMMA StatsReadHeader ==
  ASSUME TypeInv, StreamInv, StatsInv, NEW s \in Side, ReadHeader(s)
  PROVE  StatsInv'
<1>1. PICK q \in Seq(SentRec), m \in Nat, st \in StatRec :
        q = sent[Other(s)] /\ st = stats[s] /\ m = Size(received[s])
  BY Reading DEF StatsInv
<1>2. /\ UNCHANGED <<conn, sent>> /\ rdr[s].pc = "header" /\ HeaderCounted(s)
      /\ \/ HeaderOf(s).size = 0 /\ Return(s, HeaderOf(s), <<>>) /\ rdr' = rdr
         \/ /\ rdr' = [rdr EXCEPT ![s] = [pc |-> "data", pkt |-> HeaderOf(s)]]
            /\ UNCHANGED <<snd, received>>
  BY DEF ReadHeader, HeaderCounted
<1>3. /\ stats' \in [Side -> StatRec] /\ \A u \in Side : u # s => stats'[u] = stats[u]
      /\ \A k : Out(k, stats'[s]) = Out(k, st)
      /\ \A k : In(k, stats'[s]) = In(k, st) + IF k = "packets" THEN 1 ELSE 16
  <2>1. stats \in [Side -> StatRec] /\ 1 \in Nat /\ 16 \in Nat
    BY DEF StatsInv
  <2> QED BY <1>1, <1>2, <2>1, StatsInEffect
<1>4. m + 1 \in 1 .. Size(q) /\ HeaderOf(s) = Wired(FrameHead(q[m + 1]))
  BY <1>1, HeaderArrives
<1>5. \A k : In(k, stats'[s]) = In(k, st) + Half(k, "data")
  BY <1>3 DEF Half
<1>6. conn = "up" => \A k \in Kinds : ReadCount(k, q, m, "header", st)
  BY <1>1, <1>2, Reading
<1>7. CASE HeaderOf(s).size = 0 /\ Return(s, HeaderOf(s), <<>>) /\ rdr' = rdr
  <2>1. Size(received'[s]) = m + 1 /\ received'[Other(s)] = received[Other(s)]
    BY <1>1, <1>7, Reading, ReturnSize
  <2>2. \A t \in Tasks : /\ snd'[t].pc = snd[t].pc /\ snd'[t].id = snd[t].id
                         /\ snd[t].todo # <<>> => Head(snd'[t].todo) = Head(snd[t].todo)
    BY <1>7, ReturnEffect
  <2>3. Size(FrameData(q[m + 1])) = 0
    BY <1>4, <1>7, CostsTyping, PacketRestored
  <2>4. \A k : Cost(k, q[m + 1]) - Half(k, "header") = Half(k, "data")
    BY <2>3 DEF Cost, Half
  <2>5. conn = "up" => \A k \in Kinds : ReadCount(k, q, m + 1, "header", stats'[s])
    BY <1>4, <1>5, <1>6, <2>4, ReadCountWhole
  <2> QED BY <1>1, <1>2, <1>3, <1>7, <2>1, <2>2, <2>5, StatsRead
<1>8. CASE /\ rdr' = [rdr EXCEPT ![s] = [pc |-> "data", pkt |-> HeaderOf(s)]]
           /\ UNCHANGED <<snd, received>>
  <2>1. rdr'[s].pc = "data" /\ rdr'[Other(s)] = rdr[Other(s)]
    BY <1>8, Sides DEF TypeInv, Typed
  <2>2. conn = "up" => \A k \in Kinds : ReadCount(k, q, m, "data", stats'[s])
    BY <1>5, <1>6, ReadCountHeader
  <2> QED BY <1>1, <1>2, <1>3, <1>8, <2>1, <2>2, StatsRead
<1> QED BY <1>2, <1>7, <1>8

LEMMA StatsReadData ==
  ASSUME TypeInv, StreamInv, StatsInv, NEW s \in Side, ReadData(s)
  PROVE  StatsInv'
<1>1. PICK q \in Seq(SentRec), m \in Nat, st \in StatRec, p \in HeaderGW :
        q = sent[Other(s)] /\ st = stats[s] /\ m = Size(received[s]) /\ p = rdr[s].pkt
  BY Reading, StreamTyping DEF StatsInv
<1>2. /\ UNCHANGED <<conn, sent>> /\ rdr[s].pc = "data" /\ DataCounted(s, p.size)
      /\ \E d : Return(s, p, d)
      /\ rdr' = [rdr EXCEPT ![s] = [pc |-> "header", pkt |-> NoHeader]]
  BY <1>1 DEF ReadData, DataCounted
<1>3. m < Size(q) /\ p = Wired(FrameHead(q[m + 1]))
  BY <1>1, <1>2, Reading DEF Gets
<1>4. m + 1 \in 1 .. Size(q)
  <2>1. Size(q) \in Nat
    BY CostsTyping
  <2> QED BY <1>3, <2>1
<1>5. p.size = Size(FrameData(q[m + 1])) /\ p.size \in Nat
  BY <1>3, <1>4, CostsTyping, PacketRestored
<1>6. /\ stats' \in [Side -> StatRec] /\ \A u \in Side : u # s => stats'[u] = stats[u]
      /\ \A k : Out(k, stats'[s]) = Out(k, st)
      /\ \A k : In(k, stats'[s]) = In(k, st) + IF k = "packets" THEN 0 ELSE p.size
  <2>1. stats \in [Side -> StatRec] /\ 0 \in Nat
    BY DEF StatsInv
  <2>2. DataCounted(s, p.size) /\ p.size \in Nat /\ st = stats[s]
    BY <1>1, <1>2, <1>5
  <2> QED BY <2>1, <2>2, StatsInEffect
<1>7. \A k : Cost(k, q[m + 1]) - Half(k, "data") = IF k = "packets" THEN 0 ELSE p.size
  BY <1>5 DEF Cost, Half
<1>8. conn = "up" => \A k \in Kinds : ReadCount(k, q, m, "data", st)
  BY <1>1, <1>2, Reading
<1>9. conn = "up" => \A k \in Kinds : ReadCount(k, q, m + 1, "header", stats'[s])
  BY <1>4, <1>6, <1>7, <1>8, ReadCountWhole
<1>10. Size(received'[s]) = m + 1 /\ received'[Other(s)] = received[Other(s)]
  BY <1>1, <1>2, Reading, ReturnSize
<1>11. \A t \in Tasks : /\ snd'[t].pc = snd[t].pc /\ snd'[t].id = snd[t].id
                        /\ snd[t].todo # <<>> => Head(snd'[t].todo) = Head(snd[t].todo)
  BY <1>2, ReturnEffect
<1>12. rdr'[s].pc = "header" /\ rdr'[Other(s)] = rdr[Other(s)]
  BY <1>2, Sides DEF TypeInv, Typed
<1> QED BY <1>1, <1>2, <1>6, <1>9, <1>10, <1>11, <1>12, StatsRead

LEMMA StatsReadFail ==
  ASSUME StatsInv, NEW s \in Side, ReadFail(s)
  PROVE  StatsInv'
<1>1. UNCHANGED <<conn, snd, sent, stats>> /\ conn # "up"
  BY DEF ReadFail
<1>2. \A t \in Tasks : Busy(t)' <=> Busy(t)
  BY <1>1 DEF Busy
<1> QED BY <1>1, <1>2, StatsGone

LEMMA StatsNext ==
  ASSUME TypeInv, NumberInv, StreamInv, StatsInv, [Next]_vars
  PROVE  StatsInv'
<1>1. CASE UNCHANGED vars
  <2>1. UNCHANGED <<conn, snd, rdr, stats, sent, received>>
    BY <1>1 DEF vars, count
  <2>2. \A t \in Tasks : Busy(t)' <=> Busy(t)
    BY <2>1 DEF Busy
  <2> QED BY <2>1, <2>2, StatsStill
<1>2. CASE (\E s \in Side : HandshakeStep(s)) \/ ResponseTimeout \/ Fault
  BY <1>2, StatsOutside
<1>3. CASE \E s \in Side : ReadStep(s)
  BY <1>3, StatsReadHeader, StatsReadData, StatsReadFail DEF ReadStep
<1>4. CASE \E t \in Tasks : SendStep(t)
  BY <1>4, StatsTask, StatsHeader, StatsCount DEF SendStep
<1> QED BY <1>1, <1>2, <1>3, <1>4 DEF Next

LEMMA StatsInit == Init => StatsInv
<1> SUFFICES ASSUME Init PROVE StatsInv
  OBVIOUS
<1>1. /\ \A s \in Side : /\ sent[s] = <<>> /\ received[s] = <<>> /\ rdr[s].pc = "header"
                         /\ stats[s] = [packets_in |-> 0, packets_out |-> 0,
                                        bytes_in |-> 0, bytes_out |-> 0]
      /\ \A t \in Tasks : snd[t].pc = "idle"
      /\ stats \in [Side -> StatRec]
  BY DEF Init, StatRec
<1>2. Counting
  BY <1>1 DEF Counting, Busy
<1>3. \A s \in Side : \A k : In(k, stats[s]) = 0 /\ Out(k, stats[s]) = 0
  BY <1>1 DEF In, Out
<1>4. Size(<<>>) = 0 /\ 0 + 0 = 0 /\ 0 \in Nat
  BY DEF Size
<1>5. \A k : Half(k, "header") = 0
  BY DEF Half
<1>6. ASSUME NEW s \in Side, NEW k \in Kinds PROVE Tallied(s, k)
  <2>1. sent[s] = <<>> /\ sent[Other(s)] = <<>>
    BY <1>1, Sides
  <2>2. SentCount(k, sent[s], Counted(s), stats[s])
    BY <1>3, <1>4, <2>1, TotalNone, Zenon DEF SentCount
  <2>3. ReadCount(k, sent[Other(s)], Size(received[s]), rdr[s].pc, stats[s])
    BY <1>1, <1>3, <1>4, <1>5, <2>1, TotalNone, Zenon DEF ReadCount
  <2> QED BY <2>2, <2>3 DEF Tallied
<1> QED BY <1>1, <1>2, <1>6, Zenon DEF StatsInv

LEMMA StatsAlways == Spec => []StatsInv
<1>1. TypeInv /\ NumberInv /\ StreamInv /\ StatsInv /\ [Next]_vars => StatsInv'
  BY StatsNext
<1> QED BY <1>1, StatsInit, TypeAlways, NumberAlways, StreamAlways, PTL DEF Spec

(* The writer of a gateway is held by a task of that gateway.              *)
Owned == \A s \in Side : lock[s] \in Tasks => SideOf[lock[s]] = s

LEMMA OwnedNext ==
  ASSUME TypeInv, Owned, [Next]_vars
  PROVE  Owned'
<1>1. ASSUME \A s \in Side : \/ lock'[s] = lock[s] \/ lock'[s] \notin Tasks
                             \/ SideOf[lock'[s]] = s
      PROVE  Owned'
  BY <1>1 DEF Owned
<1>2. lock \in [Side -> Tasks \cup {Free, "handshake"}]
  BY DEF TypeInv, Typed
<1>3. ASSUME NEW s \in Side, NEW x, lock' = [lock EXCEPT ![s] = x],
             x \notin Tasks \/ SideOf[x] = s \/ x = lock[s]
      PROVE  Owned'
  BY <1>1, <1>2, <1>3
<1>4. CASE lock' = lock
  BY <1>1, <1>4
<1>5. ASSUME NEW s \in Side, HandshakeStep(s) PROVE Owned'
  <2>1. \/ lock' = lock
        \/ \E u \in Side : \/ lock' = [lock EXCEPT ![u] = "handshake"]
                           \/ lock' = [lock EXCEPT ![u] = Free]
                           \/ lock' = [lock EXCEPT ![u] = IF @ = "handshake" THEN Free ELSE @]
    BY <1>5, Sides DEF HandshakeStep, SendChallenge, ReadResponse, SendVerdict,
       ReadChallenge, SendResponse, ReadVerdict, HsFail, HsHeader, HsData, HsRead
  <2> QED BY <1>2, <1>3, <1>4, <2>1, LockNames
<1>6. ASSUME NEW s \in Side, ReadStep(s) PROVE lock' = lock
  BY <1>6 DEF ReadStep, ReadHeader, ReadData, ReadFail
<1>7. ASSUME NEW t \in Tasks, SendStep(t) PROVE Owned'
  <2>1. \/ lock' = lock
        \/ lock' = [lock EXCEPT ![SideOf[t]] = t]
        \/ lock' = [lock EXCEPT ![SideOf[t]] = Free]
        \/ lock' = [lock EXCEPT ![SideOf[t]] = IF @ = t THEN Free ELSE @]
    BY <1>7 DEF SendStep, TakeNumber, WriteHeader, WriteData, WriteFail, CountSent
  <2> QED BY <1>2, <1>3, <1>4, <2>1, LockNames
<1>8. CASE ResponseTimeout \/ Fault \/ UNCHANGED vars
  BY <1>4, <1>8 DEF ResponseTimeout, Fault, vars
<1> QED BY <1>4, <1>5, <1>6, <1>7, <1>8 DEF Next

LEMMA OwnedAlways == Spec => []Owned
<1>1. Init => Owned
  BY LockNames DEF Init, Owned
<1>2. TypeInv /\ Owned /\ [Next]_vars => Owned'
  BY OwnedNext
<1> QED BY <1>1, <1>2, TypeAlways, PTL DEF Spec

(* Nothing is under way: all that was sent has been returned, for another  *)
(* packet would begin with a header.                                       *)
LEMMA RunsOut ==
  ASSUME NEW b, Size(b) = 0, NEW k \in Nat, NEW m \in Nat, NEW q, Size(q) \in Nat,
         NEW W, NEW n, Runs(b, k + m, 0, "up", W, n, 0), Carries(k, q, W, n)
  PROVE  m = Size(q)
<1> DEFINE r == k + m
<1>1. /\ r \in Nat /\ n \in Nat /\ r <= n /\ ByteSeq(b) /\ WireSeq(W, n)
      /\ Lies(b, W, r, n, 0, 0, "up")
  BY RunsTyping
<1>2. n = k + Size(q)
  BY DEF Carries
<1>3. SUFFICES ASSUME r < n PROVE FALSE
  BY <1>1, <1>2, <1>3
<1>4. Frames(W[r + 1], FrameHead(q[m + 1]), FrameData(q[m + 1]))
  BY <1>3, CarriesNext
<1>5. PICK z \in Nat : z = Size(W[r + 1]) /\ z >= 16
  <2>1. Size(W[r + 1]) = 16 + Size(FrameData(q[m + 1])) /\ Size(FrameData(q[m + 1])) \in Nat
    BY <1>4, FramesParts, Zenon
  <2> QED BY <2>1
<1> HIDE DEF r
<1>6. 0 \in Int /\ 0 \in Nat /\ 0 + z \in Int /\ r + 1 \in Nat /\ r + 1 <= n
  BY <1>1, <1>3
<1>7. Lies(b, W, r + 1, n, 0 + z, 0, "up")
  BY <1>1, <1>3, <1>5, <1>6, LiesNext, Zenon
<1>8. 0 + z <= Size(b) + 0
  BY <1>1, <1>6, <1>7, LiesLength, ZenonT(60)
<1> QED BY <1>5, <1>8

LEMMA AllReturned ==
  ASSUME TypeInv, StreamInv, NEW s \in Side, conn = "up", stream[s] = <<>>,
         rdr[s].pc = "header", \A u \in Side : hs[u].pc = "open" /\ lock[u] = Free
  PROVE  Size(received[s]) = Size(sent[Other(s)])
<1>1. PICK b, m, q : /\ b = stream[s] /\ m = Size(received[s]) /\ q = sent[Other(s)]
                     /\ m \in Nat /\ Size(q) \in Nat /\ Size(b) = 0
  <2>1. Size(received[s]) \in Nat
    BY LenProperties DEF StreamInv, Got, Gets, Size
  <2>2. Size(sent[Other(s)]) \in Nat
    BY StreamTyping, Sides
  <2>3. Size(stream[s]) = 0
    BY DEF Size
  <2> QED BY <2>1, <2>2, <2>3, Zenon
<1>2. Faces(s, b, m, 0)
  BY <1>1, ReaderFaces, ExchangeSteps
<1>3. CASE s = "cli"
  <2>1. ToCli(b, 2 + m, 0, "up", "open", Free, q, VersionData("srv"))
    BY <1>1, <1>2, <1>3, Sides DEF Faces
  <2>2. PICK W, n, gap : /\ Runs(b, 2 + m, 0, "up", W, n, gap)
                         /\ Pending(Free, "open", W, n, gap)
                         /\ SrvLog("open", q, VersionData("srv"), W, n, gap)
    BY <2>1, Zenon DEF ToCli
  <2>3. gap = 0 /\ Carries(2, q, W, n)
    BY <2>2 DEF Pending, SrvLog
  <2>4. m = Size(q)
    BY <1>1, <2>2, <2>3, RunsOut
  <2> QED BY <1>1, <2>4
<1>4. CASE s = "srv"
  <2> DEFINE x == ComputeResponse(key["cli"], Nonce)
  <2>1. ToSrv(b, 1 + m, 0, "up", "open", Free, q, x)
    BY <1>1, <1>2, <1>4, Sides DEF Faces
  <2>2. PICK W, n, gap : /\ Runs(b, 1 + m, 0, "up", W, n, gap)
                         /\ Pending(Free, "open", W, n, gap)
                         /\ CliLog("open", q, x, W, n)
    BY <2>1, Zenon DEF ToSrv
  <2>3. gap = 0 /\ Carries(1, q, W, n)
    BY <2>2 DEF Pending, CliLog, Fresh
  <2>4. m = Size(q)
    BY <1>1, <2>2, <2>3, RunsOut
  <2> QED BY <1>1, <2>4
<1> QED BY <1>3, <1>4 DEF Side

LEMMA StatsAtRest ==
  ASSUME TypeInv, StreamInv, StatsInv, Owned
  PROVE  StatsAgree
<1> SUFFICES ASSUME conn = "up",
                    \A s \in Side : hs[s].pc = "open" /\ stream[s] = <<>> /\ rdr[s].pc = "header",
                    \A t \in Tasks : snd[t].pc = "idle",
                    NEW s \in Side
             PROVE  /\ stats[s].packets_in = stats[Other(s)].packets_out
                    /\ stats[s].bytes_in   = stats[Other(s)].bytes_out
  BY DEF StatsAgree
<1>1. \A u \in Side : lock[u] = Free
  <2> SUFFICES ASSUME NEW u \in Side PROVE lock[u] = Free
    OBVIOUS
  <2>1. lock[u] \in Tasks \cup {Free, "handshake"}
    BY DEF TypeInv, Typed
  <2>2. lock[u] # "handshake"
    BY DEF TypeInv, Placed, HsBody
  <2>3. lock[u] \notin Tasks
    BY DEF TypeInv, Placed, Owned
  <2> QED BY <2>1, <2>2, <2>3
<1>2. PICK q \in Seq(SentRec), o \in Side, n \in Nat : /\ o = Other(s) /\ q = sent[o]
                                                       /\ n = Size(q)
  BY Sides, StreamTyping
<1>3. Size(received[s]) = n
  BY <1>1, <1>2, AllReturned
<1>4. Counted(o) = 1 .. n
  <2>1. \A t \in Tasks : ~Busy(t)
    BY DEF Busy
  <2> QED BY <1>2, <2>1, InCounted, Zenon
<1>5. ASSUME NEW k \in Kinds PROVE In(k, stats[s]) = Out(k, stats[o])
  <2>1. Total(n, Costs(k, q), 1 .. n, Out(k, stats[o]))
    <3>1. Tallied(o, k)
      BY Zenon DEF StatsInv
    <3> QED BY <1>2, <1>4, <3>1 DEF Tallied, SentCount
  <2>2. PICK x \in Nat : Total(n, Costs(k, q), 1 .. n, x) /\ In(k, stats[s]) = x + Half(k, "header")
    <3>1. ReadCount(k, q, n, "header", stats[s])
      BY <1>2, <1>3, Reading
    <3> QED BY <1>2, <3>1, Zenon DEF ReadCount
  <2>3. Out(k, stats[o]) = x
    BY <2>1, <2>2, TotalUnique, Zenon
  <2>4. Half(k, "header") = 0
    BY DEF Half
  <2> QED BY <2>2, <2>3, <2>4
<1>6. "packets" \in Kinds /\ "bytes" \in Kinds
  BY DEF Kinds
<1>7. /\ In("packets", stats[s]) = Out("packets", stats[o])
      /\ In("bytes", stats[s]) = Out("bytes", stats[o])
  BY <1>5, <1>6
<1> QED BY <1>2, <1>7 DEF In, Out

(* At rest on a connection that is up, each gateway has counted as many    *)
(* packets and bytes in as the other has counted out, however the tasks    *)
(* of the two were interleaved: send_gw_packet counts after it has given   *)
(* the writer back, so the packets are counted in another order than they  *)
(* are written and read in.                                                *)
THEOREM StatsAgreeTheorem == Spec => []StatsAgree
<1>1. TypeInv /\ StreamInv /\ StatsInv /\ Owned => StatsAgree
  BY StatsAtRest
<1> QED BY <1>1, TypeAlways, StreamAlways, StatsAlways, OwnedAlways, PTL
=============================================================================
