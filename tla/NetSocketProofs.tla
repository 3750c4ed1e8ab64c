--------------------------- MODULE NetSocketProofs ---------------------------
(***************************************************************************)
(* For any messages and sizes, any portions the bytes arrive in and any    *)
(* number of messages: the server cuts the stream where the client put it  *)
(* together, and hangs up at its end only.                                 *)
(***************************************************************************)
EXTENDS NetSocket, SequenceTheorems, TLAPS

-----------------------------------------------------------------------------
(* Sequences.                                                              *)

LEMMA PartOf ==
  ASSUME NEW S, NEW s \in Seq(S), NEW i \in 1 .. Len(s) + 1,
         NEW j \in i - 1 .. Len(s)
  PROVE  /\ SubSeq(s, i, j) \in Seq(S)
         /\ Len(SubSeq(s, i, j)) = (j - i) + 1
         /\ \A k \in 1 .. (j - i) + 1 : SubSeq(s, i, j)[k] = s[(i + k) - 1]
<1>1. \A k \in i .. j : s[k] \in S OBVIOUS
<1> QED BY <1>1, SubSeqProperties

LEMMA RestOfConcat ==
  ASSUME NEW S, NEW s \in Seq(S), NEW t \in Seq(S), NEW n \in 0 .. Len(s)
  PROVE  SubSeq(s, n + 1, Len(s)) \o t = SubSeq(s \o t, n + 1, Len(s \o t))
<1>1. PICK u, v : u = SubSeq(s, n + 1, Len(s)) /\ v = s \o t OBVIOUS
<1>2. Len(s) \in Nat /\ Len(t) \in Nat /\ n \in Nat /\ n <= Len(s) OBVIOUS
<1>3. /\ u \in Seq(S) /\ Len(u) = Len(s) - n
      /\ \A k \in 1 .. Len(s) - n : u[k] = s[n + k]
  <2>1. /\ n + 1 \in 1 .. Len(s) + 1 /\ Len(s) \in (n + 1) - 1 .. Len(s)
        /\ (Len(s) - (n + 1)) + 1 = Len(s) - n
    BY <1>2
  <2>2. /\ u \in Seq(S) /\ Len(u) = (Len(s) - (n + 1)) + 1
        /\ \A k \in 1 .. (Len(s) - (n + 1)) + 1 : u[k] = s[((n + 1) + k) - 1]
    BY <1>1, <2>1, PartOf
  <2>3. ASSUME NEW k \in 1 .. Len(s) - n PROVE u[k] = s[n + k]
    <3>1. ((n + 1) + k) - 1 = n + k BY <1>2
    <3> QED BY <2>1, <2>2, <3>1
  <2> QED BY <2>1, <2>2, <2>3
<1>4. /\ v \in Seq(S) /\ Len(v) = Len(s) + Len(t)
      /\ \A k \in 1 .. Len(s) + Len(t) :
           v[k] = IF k <= Len(s) THEN s[k] ELSE t[k - Len(s)]
  BY <1>1, ConcatProperties
<1>5. PICK w : w = SubSeq(v, n + 1, Len(v)) OBVIOUS
<1>6. /\ w \in Seq(S) /\ Len(w) = (Len(s) + Len(t)) - n
      /\ \A k \in 1 .. (Len(s) + Len(t)) - n : w[k] = v[n + k]
  <2>1. /\ n + 1 \in 1 .. Len(v) + 1 /\ Len(v) \in (n + 1) - 1 .. Len(v)
        /\ (Len(v) - (n + 1)) + 1 = (Len(s) + Len(t)) - n
        /\ \A k \in Nat : ((n + 1) + k) - 1 = n + k
    BY <1>2, <1>4
  <2> QED BY <1>4, <1>5, <2>1, PartOf
<1>7. PICK x : x = u \o t OBVIOUS
<1>8. /\ x \in Seq(S) /\ Len(x) = Len(u) + Len(t)
      /\ \A k \in 1 .. Len(u) + Len(t) :
           x[k] = IF k <= Len(u) THEN u[k] ELSE t[k - Len(u)]
  BY <1>3, <1>7, ConcatProperties
<1>9. Len(x) = Len(w) BY <1>2, <1>3, <1>6, <1>8
<1>10. ASSUME NEW k \in 1 .. Len(x) PROVE x[k] = w[k]
  <2>1. /\ k \in 1 .. Len(u) + Len(t) /\ k \in 1 .. (Len(s) + Len(t)) - n
        /\ n + k \in 1 .. Len(s) + Len(t)
    BY <1>2, <1>3, <1>8
  <2>2. w[k] = IF n + k <= Len(s) THEN s[n + k] ELSE t[(n + k) - Len(s)]
    BY <1>4, <1>6, <2>1
  <2>3. CASE n + k <= Len(s)
    <3>1. k \in 1 .. Len(s) - n /\ k <= Len(u) BY <1>2, <1>3, <2>3
    <3> QED BY <1>3, <1>8, <2>1, <2>2, <2>3, <3>1
  <2>4. CASE ~(n + k <= Len(s))
    <3>1. ~(k <= Len(u)) /\ k - Len(u) = (n + k) - Len(s) BY <1>2, <1>3, <2>4
    <3> QED BY <1>8, <2>1, <2>2, <2>4, <3>1
  <2> QED BY <2>3, <2>4
<1>11. x = w BY <1>6, <1>8, <1>9, <1>10, SeqEqual
<1> QED BY <1>1, <1>5, <1>7, <1>11

LEMMA PortionMoved ==
  ASSUME NEW S, NEW s \in Seq(S), NEW t \in Seq(S), NEW n \in 1 .. Len(t)
  PROVE  (s \o SubSeq(t, 1, n)) \o SubSeq(t, n + 1, Len(t)) = s \o t
<1>1. Len(t) \in Nat /\ n \in Nat OBVIOUS
<1>2. SubSeq(t, 1, n) \in Seq(S) /\ SubSeq(t, n + 1, Len(t)) \in Seq(S)
  <2>1. 1 \in 1 .. Len(t) + 1 /\ n \in 1 - 1 .. Len(t) BY <1>1
  <2>2. n + 1 \in 1 .. Len(t) + 1 /\ Len(t) \in (n + 1) - 1 .. Len(t) BY <1>1
  <2> QED BY <2>1, <2>2, PartOf
<1>3. SubSeq(t, 1, n) \o SubSeq(t, n + 1, Len(t)) = SubSeq(t, 1, Len(t))
  <2>1. /\ 1 \in 1 .. Len(t) + 1 /\ n \in 1 - 1 .. Len(t)
        /\ Len(t) \in n .. Len(t)
    BY <1>1
  <2> QED BY <2>1, ConcatAdjacentSubSeq
<1>4. SubSeq(t, 1, Len(t)) = t BY SubSeqFull
<1>5. PICK u, v : u = SubSeq(t, 1, n) /\ v = SubSeq(t, n + 1, Len(t)) OBVIOUS
<1>6. (s \o u) \o v = s \o (u \o v)
  <2>1. u \in Seq(S) /\ v \in Seq(S) BY <1>2, <1>5
  <2> QED BY <2>1, ConcatAssociative, SMTT(30)
<1> QED BY <1>3, <1>4, <1>5, <1>6

-----------------------------------------------------------------------------
(* The stream: off[k] bytes were sent with the first k messages of s; b is *)
(* what is left of them behind the first g messages.                       *)

Offsets(off, s) ==
  /\ off \in [0 .. Len(s) -> Nat]
  /\ \A i, j \in 0 .. Len(s) : i <= j => off[i] <= off[j]
  /\ \A k \in 1 .. Len(s) : off[k] = off[k - 1] + Size[s[k]]

Layout(off, s, g, b) ==
  /\ Offsets(off, s)
  /\ Len(b) = off[Len(s)] - off[g]
  /\ \A k \in g + 1 .. Len(s) : \A i \in 1 .. Size[s[k]] :
       b[off[k - 1] - off[g] + i] = <<s[k], i>>

LEMMA SizeType ==
  ASSUME NEW m \in Msgs
  PROVE  Size[m] \in Nat /\ Header <= Size[m] /\ Size[m] <= Capacity /\ 1 <= Size[m]
BY NetSocketAssumption

LEMMA BytesType ==
  ASSUME NEW m \in Msgs
  PROVE  /\ Bytes(m) \in Seq(Byte) /\ Len(Bytes(m)) = Size[m]
         /\ \A i \in 1 .. Size[m] : Bytes(m)[i] = <<m, i>>
<1>1. Size[m] \in Nat /\ Size[m] <= Capacity /\ Capacity \in Nat
  BY SizeType, NetSocketAssumption
<1>2. ASSUME NEW i \in 1 .. Size[m] PROVE <<m, i>> \in Byte
  <2>1. i \in 1 .. Capacity BY <1>1
  <2> QED BY <2>1 DEF Byte
<1>3. Bytes(m) \in [1 .. Size[m] -> Byte] BY <1>2 DEF Bytes
<1> QED BY <1>1, <1>3 DEF Bytes

LEMMA LayoutSend ==
  ASSUME NEW off, NEW s \in Seq(Msgs), NEW g \in 0 .. Len(s),
         NEW b \in Seq(Byte), NEW m \in Msgs, Layout(off, s, g, b)
  PROVE  \E o : Layout(o, Append(s, m), g, b \o Bytes(m))
<1>1. PICK n : n = Len(s) OBVIOUS
<1>2. PICK t : t = Append(s, m) OBVIOUS
<1>3. /\ n \in Nat /\ t \in Seq(Msgs) /\ Len(t) = n + 1 /\ t[n + 1] = m
      /\ \A k \in 1 .. n : t[k] = s[k] /\ s[k] \in Msgs
  BY <1>1, <1>2
<1>4. Size[m] \in Nat BY SizeType
<1>5. PICK c : c = b \o Bytes(m) OBVIOUS
<1>6. /\ Len(c) = Len(b) + Size[m]
      /\ \A i \in 1 .. Len(b) : c[i] = b[i]
      /\ \A i \in 1 .. Size[m] : c[Len(b) + i] = <<m, i>>
  <2>1. Bytes(m) \in Seq(Byte) /\ Len(Bytes(m)) = Size[m]
        /\ \A i \in 1 .. Size[m] : Bytes(m)[i] = <<m, i>>
    BY BytesType
  <2>2. PICK d : d = Bytes(m) OBVIOUS
  <2>3. d \in Seq(Byte) /\ Len(d) = Size[m] BY <2>1, <2>2
  <2>4. /\ Len(c) = Len(b) + Len(d)
        /\ \A i \in 1 .. Len(b) + Len(d) :
             c[i] = IF i <= Len(b) THEN b[i] ELSE d[i - Len(b)]
    BY <1>5, <2>2, <2>3, ConcatProperties
  <2>5. Len(b) \in Nat OBVIOUS
  <2>6. ASSUME NEW i \in 1 .. Size[m] PROVE c[Len(b) + i] = <<m, i>>
    <3>1. /\ Len(b) + i \in 1 .. Len(b) + Len(d) /\ ~(Len(b) + i <= Len(b))
          /\ (Len(b) + i) - Len(b) = i
      BY <1>4, <2>3, <2>5
    <3>2. d[i] = <<m, i>> BY <2>1, <2>2
    <3> QED BY <2>4, <3>1, <3>2
  <2>7. \A i \in 1 .. Len(b) : i \in 1 .. Len(b) + Len(d) /\ i <= Len(b)
    BY <1>4, <2>3, <2>5
  <2> QED BY <2>3, <2>4, <2>6, <2>7
<1>7. PICK o : o = [i \in 0 .. n + 1 |-> IF i = n + 1 THEN off[n] + Size[m]
                                                      ELSE off[i]]
  OBVIOUS
<1>8. off \in [0 .. n -> Nat] BY <1>1 DEF Layout, Offsets
<1>9. /\ o[n + 1] = off[n] + Size[m]
      /\ \A i \in 0 .. n : o[i] = off[i] /\ off[i] \in Nat /\ off[i] <= off[n]
  <2>1. o[n + 1] = off[n] + Size[m] BY <1>3, <1>7
  <2>2. ASSUME NEW i \in 0 .. n
        PROVE  o[i] = off[i] /\ off[i] \in Nat /\ off[i] <= off[n]
    <3>1. i \in 0 .. n + 1 /\ i # n + 1 /\ n \in 0 .. n /\ i <= n BY <1>3
    <3>2. off[i] <= off[n] BY <1>1, <3>1 DEF Layout, Offsets
    <3> QED BY <1>7, <1>8, <3>1, <3>2
  <2> QED BY <2>1, <2>2
<1>10. Offsets(o, t)
  <2>1. o \in [0 .. n + 1 -> Nat] BY <1>3, <1>4, <1>7, <1>8
  <2>2. ASSUME NEW i \in 0 .. n + 1, NEW j \in 0 .. n + 1, i <= j
        PROVE  o[i] <= o[j]
    <3>1. CASE j = n + 1
      <4>1. PICK z : z = off[n] OBVIOUS
      <4>2. z \in Nat /\ o[j] = z + Size[m] BY <1>3, <1>8, <1>9, <3>1, <4>1
      <4>3. i = n + 1 \/ i \in 0 .. n BY <1>3
      <4>5. i \in 0 .. n => o[i] \in Nat /\ o[i] <= z
        <5>1. \A h \in 0 .. n : o[h] \in Nat /\ o[h] <= off[n] BY <1>9
        <5> QED BY <4>1, <5>1
      <4>4. i = n + 1 => o[i] = o[j] BY <3>1
      <4> QED BY <1>4, <4>2, <4>3, <4>4, <4>5
    <3>2. CASE j # n + 1
      <4>1. i \in 0 .. n /\ j \in 0 .. n BY <1>3, <2>2, <3>2
      <4>2. off[i] <= off[j] BY <1>1, <2>2, <4>1 DEF Layout, Offsets
      <4> QED BY <1>9, <4>1, <4>2
    <3> QED BY <3>1, <3>2
  <2>3. ASSUME NEW k \in 1 .. n + 1 PROVE o[k] = o[k - 1] + Size[t[k]]
    <3>1. CASE k = n + 1 BY <1>3, <1>9, <3>1
    <3>2. CASE k # n + 1
      <4>1. k \in 1 .. n /\ k \in 0 .. n /\ k - 1 \in 0 .. n BY <1>3, <3>2
      <4>2. off[k] = off[k - 1] + Size[s[k]] BY <1>1, <4>1 DEF Layout, Offsets
      <4> QED BY <1>3, <1>9, <4>1, <4>2
    <3> QED BY <3>1, <3>2
  <2> QED BY <1>3, <2>1, <2>2, <2>3 DEF Offsets
<1>11. Len(b) = off[n] - off[g] BY <1>1 DEF Layout
<1>12. g \in 0 .. n /\ o[g] = off[g] BY <1>1, <1>9
<1>13. Len(c) = o[n + 1] - o[g]
  <2>1. off[n] \in Nat /\ off[g] \in Nat BY <1>3, <1>8, <1>12
  <2>2. PICK y, z : y = off[n] /\ z = off[g] OBVIOUS
  <2>3. y \in Nat /\ z \in Nat BY <2>1, <2>2
  <2>4. Len(c) = (y - z) + Size[m] BY <1>6, <1>11, <2>2
  <2>5. o[n + 1] - o[g] = (y + Size[m]) - z BY <1>9, <1>12, <2>2
  <2> QED BY <1>4, <2>3, <2>4, <2>5
<1>14. ASSUME NEW k \in g + 1 .. n + 1, NEW i \in 1 .. Size[t[k]]
       PROVE  c[o[k - 1] - o[g] + i] = <<t[k], i>>
  <2>1. CASE k = n + 1
    <3>1. o[k - 1] - o[g] = Len(b) BY <1>3, <1>9, <1>11, <1>12, <2>1
    <3> QED BY <1>3, <1>6, <2>1, <3>1
  <2>2. CASE k # n + 1
    <3>1. /\ k \in 1 .. n /\ k - 1 \in 0 .. n /\ k \in 0 .. n /\ g <= k - 1
          /\ k \in g + 1 .. n
      BY <1>3, <1>12, <2>2
    <3>2. off[k] = off[k - 1] + Size[s[k]] /\ off[g] <= off[k - 1]
      BY <1>1, <1>12, <3>1 DEF Layout, Offsets
    <3>3. Size[s[k]] \in Nat /\ t[k] = s[k] BY <1>3, <3>1, SizeType
    <3>4. b[off[k - 1] - off[g] + i] = <<s[k], i>>
      BY <1>1, <3>1, <3>3 DEF Layout
    <3>5. /\ off[k] \in Nat /\ off[k - 1] \in Nat /\ off[g] \in Nat
          /\ off[n] \in Nat /\ off[k] <= off[n] /\ i \in 1 .. Size[s[k]]
      BY <1>3, <1>9, <1>12, <3>1, <3>3
    <3>6. off[k - 1] - off[g] + i \in 1 .. Len(b)
      <4>1. PICK w, x, y, z : /\ w = off[k] /\ x = off[k - 1] /\ y = off[n]
                              /\ z = off[g]
        OBVIOUS
      <4>2. w \in Nat /\ x \in Nat /\ y \in Nat /\ z \in Nat BY <3>5, <4>1
      <4>3. PICK q : q = Size[s[k]] OBVIOUS
      <4>4. q \in Nat /\ w = x + q /\ z <= x /\ w <= y /\ i \in 1 .. q
        BY <3>2, <3>3, <3>5, <4>1, <4>3
      <4>5. x - z + i \in 1 .. y - z BY <4>2, <4>4
      <4> QED BY <1>11, <4>1, <4>5
    <3> QED BY <1>6, <1>9, <1>12, <3>1, <3>3, <3>4, <3>6
  <2> QED BY <2>1, <2>2
<1>15. Layout(o, t, g, c) BY <1>3, <1>10, <1>13, <1>14 DEF Layout
<1> QED BY <1>2, <1>5, <1>15

LEMMA LayoutEmpty ==
  ASSUME NEW off, NEW s \in Seq(Msgs), NEW g \in 0 .. Len(s),
         Layout(off, s, g, << >>)
  PROVE  g = Len(s)
<1> SUFFICES ASSUME g < Len(s) PROVE FALSE OBVIOUS
<1>1. Len(s) \in Nat /\ g + 1 \in 1 .. Len(s) /\ g \in 0 .. Len(s)
      /\ g + 1 \in 0 .. Len(s) /\ Len(s) \in 0 .. Len(s)
  OBVIOUS
<1>2. off[g + 1] = off[(g + 1) - 1] + Size[s[g + 1]] BY <1>1 DEF Layout, Offsets
<1>3. 1 <= Size[s[g + 1]] /\ Size[s[g + 1]] \in Nat BY <1>1, SizeType
<1>4. off[g + 1] <= off[Len(s)] BY <1>1 DEF Layout, Offsets
<1>5. off[g] \in Nat /\ off[g + 1] \in Nat /\ off[Len(s)] \in Nat
  BY <1>1 DEF Layout, Offsets
<1>6. 0 = off[Len(s)] - off[g] BY DEF Layout
<1>7. (g + 1) - 1 = g OBVIOUS
<1> QED BY <1>2, <1>3, <1>4, <1>5, <1>6, <1>7

\* the next message of a stream that is not at its end, and the stream behind it
LEMMA LayoutTake ==
  ASSUME NEW off, NEW s \in Seq(Msgs), NEW g \in 0 .. Len(s),
         NEW b \in Seq(Byte), Layout(off, s, g, b), b # << >>
  PROVE  LET m == s[g + 1] IN
         /\ g < Len(s) /\ m \in Msgs
         /\ Size[m] <= Len(b) /\ b[1][1] = m
         /\ \A i \in 1 .. Size[m] : b[i] = <<m, i>>
         /\ Layout(off, s, g + 1, SubSeq(b, Size[m] + 1, Len(b)))
<1>1. PICK n : n = Len(s) OBVIOUS
<1>2. n \in Nat /\ g \in 0 .. n /\ off \in [0 .. n -> Nat]
  BY <1>1 DEF Layout, Offsets
<1>3. Len(b) = off[n] - off[g] /\ Len(b) \in Nat /\ Len(b) > 0
  BY <1>1 DEF Layout
<1>4. g < n BY <1>2, <1>3
<1>5. PICK m : m = s[g + 1] OBVIOUS
<1>6. m \in Msgs BY <1>1, <1>2, <1>4, <1>5
<1>7. Size[m] \in Nat /\ 1 <= Size[m] BY <1>6, SizeType
<1>8. /\ g + 1 \in 1 .. n /\ g + 1 \in 0 .. n /\ (g + 1) - 1 = g
      /\ g + 1 \in g + 1 .. n /\ n \in 0 .. n
  BY <1>2, <1>4
<1>9. off[g + 1] = off[g] + Size[m]
  <2>1. off[g + 1] = off[(g + 1) - 1] + Size[s[g + 1]]
    BY <1>1, <1>8 DEF Layout, Offsets
  <2> QED BY <1>5, <1>8, <2>1
<1>10. off[g + 1] <= off[n] BY <1>1, <1>8 DEF Layout, Offsets
<1>11. off[g] \in Nat /\ off[n] \in Nat /\ off[g + 1] \in Nat BY <1>2, <1>8
<1>12. Size[m] <= Len(b)
  <2>1. PICK y, z : y = off[n] /\ z = off[g] OBVIOUS
  <2>2. y \in Nat /\ z \in Nat BY <1>11, <2>1
  <2>3. z + Size[m] <= y /\ Len(b) = y - z BY <1>3, <1>9, <1>10, <2>1
  <2> QED BY <1>7, <2>2, <2>3
<1>13. ASSUME NEW i \in 1 .. Size[m] PROVE b[i] = <<m, i>>
  <2>1. b[off[(g + 1) - 1] - off[g] + i] = <<s[g + 1], i>>
    BY <1>1, <1>5, <1>8 DEF Layout
  <2>2. off[(g + 1) - 1] - off[g] + i = i BY <1>7, <1>8, <1>11
  <2> QED BY <1>5, <2>1, <2>2
<1>14. b[1][1] = m
  <2>1. b[1] = <<m, 1>> BY <1>7, <1>13
  <2> QED BY <2>1
<1>15. PICK c : c = SubSeq(b, Size[m] + 1, Len(b)) OBVIOUS
<1>16. /\ Len(c) = Len(b) - Size[m]
       /\ \A i \in 1 .. Len(b) - Size[m] : c[i] = b[Size[m] + i]
  BY <1>3, <1>7, <1>12, <1>15
<1>17. Layout(off, s, g + 1, c)
  <2>1. Len(c) = off[n] - off[g + 1] BY <1>3, <1>7, <1>9, <1>11, <1>16
  <2>2. ASSUME NEW k \in (g + 1) + 1 .. n, NEW i \in 1 .. Size[s[k]]
        PROVE  c[off[k - 1] - off[g + 1] + i] = <<s[k], i>>
    <3>1. /\ k \in 1 .. n /\ k \in 0 .. n /\ k - 1 \in 0 .. n /\ g + 1 <= k - 1
          /\ k \in g + 1 .. n
      BY <1>2, <1>8
    <3>2. /\ off[k] = off[k - 1] + Size[s[k]] /\ off[g + 1] <= off[k - 1]
          /\ off[k] <= off[n]
      BY <1>1, <1>8, <3>1 DEF Layout, Offsets
    <3>3. Size[s[k]] \in Nat BY <1>1, <3>1, SizeType
    <3>4. b[off[k - 1] - off[g] + i] = <<s[k], i>>
      BY <1>1, <3>1 DEF Layout
    <3>5. off[k] \in Nat /\ off[k - 1] \in Nat BY <1>2, <3>1
    <3>6. off[k - 1] - off[g + 1] + i \in 1 .. Len(b) - Size[m]
      <4>1. PICK q : q = Size[s[k]] OBVIOUS
      <4>2. PICK w, x, y, z : /\ w = off[k] /\ x = off[k - 1] /\ y = off[n]
                              /\ z = off[g + 1]
        OBVIOUS
      <4>3. w \in Nat /\ x \in Nat /\ y \in Nat /\ z \in Nat BY <1>11, <3>5, <4>2
      <4>4. q \in Nat /\ w = x + q /\ z <= x /\ w <= y /\ i \in 1 .. q
        BY <3>2, <3>3, <4>1, <4>2
      <4>5. x - z + i \in 1 .. y - z BY <4>3, <4>4
      <4>6. Len(b) - Size[m] = y - z BY <1>16, <2>1, <4>2
      <4> QED BY <4>2, <4>5, <4>6
    <3>7. Size[m] + (off[k - 1] - off[g + 1] + i) = off[k - 1] - off[g] + i
      <4>1. PICK x, z : x = off[k - 1] /\ z = off[g] OBVIOUS
      <4>2. x \in Nat /\ z \in Nat BY <1>11, <3>5, <4>1
      <4>3. i \in Nat BY <3>3
      <4>4. Size[m] + (x - (z + Size[m]) + i) = x - z + i BY <1>7, <4>2, <4>3
      <4> QED BY <1>9, <4>1, <4>4
    <3> QED BY <1>16, <3>4, <3>6, <3>7
  <2> QED BY <1>1, <2>1, <2>2 DEF Layout
<1> QED BY <1>1, <1>4, <1>5, <1>6, <1>12, <1>13, <1>14, <1>15, <1>17

-----------------------------------------------------------------------------
(* The server.                                                             *)

\* wire and mBuff are a stream behind the messages handed over; whole messages
\* stay in mBuff only while the loop of RunEpoll runs.
Cut ==
  /\ Len(got) <= Len(sent)
  /\ \E off : Layout(off, sent, Len(got), mBuff \o wire)
  /\ at = "wait" => ~Whole(mBuff)
  /\ HangsUpAtEndOnly

Inv == TypeOK /\ Cut

LEMMA StreamType ==
  ASSUME TypeOK
  PROVE  /\ mBuff \o wire \in Seq(Byte)
         /\ Len(mBuff \o wire) = Len(mBuff) + Len(wire)
         /\ \A i \in 1 .. Len(mBuff) : (mBuff \o wire)[i] = mBuff[i]
BY ConcatProperties DEF TypeOK

\* the first message of mBuff, if there is a byte of it
LEMMA FrontMessage ==
  ASSUME TypeOK, Cut, mBuff # << >>
  PROVE  LET m == sent[Len(got) + 1] IN
         /\ Len(got) < Len(sent) /\ m \in Msgs
         /\ mBuff[1][1] = m /\ mSize(mBuff) = Size[m]
         /\ Size[m] <= Len(mBuff) + Len(wire)
         /\ Size[m] <= Len(mBuff) =>
              /\ SubSeq(mBuff, 1, Size[m]) = Bytes(m)
              /\ \E off : Layout(off, sent, Len(got) + 1,
                                 SubSeq(mBuff, Size[m] + 1, Len(mBuff)) \o wire)
<1>1. PICK b : b = mBuff \o wire OBVIOUS
<1>2. PICK m : m = sent[Len(got) + 1] OBVIOUS
<1>3. PICK off : Layout(off, sent, Len(got), b) BY <1>1 DEF Cut
<1>4. /\ b \in Seq(Byte) /\ Len(b) = Len(mBuff) + Len(wire)
      /\ \A i \in 1 .. Len(mBuff) : b[i] = mBuff[i]
  BY <1>1, StreamType
<1>5. /\ mBuff \in Seq(Byte) /\ Len(mBuff) \in Nat /\ Len(mBuff) > 0
      /\ wire \in Seq(Byte) /\ Len(wire) \in Nat
  BY DEF TypeOK
<1>6. b # << >> BY <1>4, <1>5
<1>7. sent \in Seq(Msgs) /\ Len(got) \in 0 .. Len(sent) BY DEF TypeOK, Cut
<1>8. /\ Len(got) < Len(sent) /\ m \in Msgs
      /\ Size[m] <= Len(b) /\ b[1][1] = m
      /\ \A i \in 1 .. Size[m] : b[i] = <<m, i>>
      /\ Layout(off, sent, Len(got) + 1, SubSeq(b, Size[m] + 1, Len(b)))
  <2>1. PICK g, s : g = Len(got) /\ s = sent OBVIOUS
  <2>2. s \in Seq(Msgs) /\ g \in 0 .. Len(s) /\ m = s[g + 1] BY <1>2, <1>7, <2>1
  <2>3. Layout(off, s, g, b) BY <1>3, <2>1
  <2>4. /\ g < Len(s) /\ s[g + 1] \in Msgs
        /\ Size[s[g + 1]] <= Len(b) /\ b[1][1] = s[g + 1]
        /\ \A i \in 1 .. Size[s[g + 1]] : b[i] = <<s[g + 1], i>>
        /\ Layout(off, s, g + 1, SubSeq(b, Size[s[g + 1]] + 1, Len(b)))
    BY <1>4, <1>6, <2>2, <2>3, LayoutTake
  <2> QED BY <2>1, <2>2, <2>4
<1>9. mBuff[1][1] = m BY <1>4, <1>5, <1>8
<1>10. mSize(mBuff) = Size[m] BY <1>9 DEF mSize
<1>11. ASSUME Size[m] <= Len(mBuff)
       PROVE  /\ SubSeq(mBuff, 1, Size[m]) = Bytes(m)
              /\ Layout(off, sent, Len(got) + 1,
                        SubSeq(mBuff, Size[m] + 1, Len(mBuff)) \o wire)
  <2>1. Size[m] \in Nat BY <1>8, SizeType
  <2>2. SubSeq(mBuff, 1, Size[m]) = Bytes(m)
    <3>1. \A i \in 1 .. Size[m] : i \in 1 .. Len(mBuff) BY <1>5, <1>11, <2>1
    <3>2. \A i \in 1 .. Size[m] : mBuff[i] = <<m, i>> BY <1>4, <1>8, <3>1
    <3>3. 1 \in 1 .. Len(mBuff) + 1 /\ Size[m] \in 1 - 1 .. Len(mBuff)
      BY <1>5, <1>11, <2>1
    <3>4. /\ SubSeq(mBuff, 1, Size[m]) \in Seq(Byte)
          /\ Len(SubSeq(mBuff, 1, Size[m])) = (Size[m] - 1) + 1
          /\ \A k \in 1 .. (Size[m] - 1) + 1 :
               SubSeq(mBuff, 1, Size[m])[k] = mBuff[(1 + k) - 1]
      BY <1>5, <3>3, PartOf
    <3>5. (Size[m] - 1) + 1 = Size[m] /\ \A k \in Nat : (1 + k) - 1 = k
      BY <2>1
    <3>6. \A k \in 1 .. Size[m] : SubSeq(mBuff, 1, Size[m])[k] = <<m, k>>
      BY <3>2, <3>4, <3>5
    <3>7. /\ Bytes(m) \in Seq(Byte) /\ Len(Bytes(m)) = Size[m]
          /\ \A i \in 1 .. Size[m] : Bytes(m)[i] = <<m, i>>
      BY <1>8, BytesType
    <3>8. PICK u, v : u = SubSeq(mBuff, 1, Size[m]) /\ v = Bytes(m) OBVIOUS
    <3>9. /\ u \in Seq(Byte) /\ v \in Seq(Byte)
          /\ Len(u) = Size[m] /\ Len(v) = Size[m]
      BY <3>4, <3>5, <3>7, <3>8
    <3>10. \A k \in 1 .. Len(u) : u[k] = v[k] BY <3>6, <3>7, <3>8, <3>9
    <3>11. u = v BY <3>9, <3>10, SeqEqual
    <3> QED BY <3>8, <3>11
  <2>3. SubSeq(mBuff, Size[m] + 1, Len(mBuff)) \o wire
          = SubSeq(b, Size[m] + 1, Len(b))
    <3>1. Size[m] \in 0 .. Len(mBuff) BY <1>5, <1>11, <2>1
    <3> QED BY <1>1, <1>5, <3>1, RestOfConcat
  <2> QED BY <1>8, <2>2, <2>3
<1> QED BY <1>2, <1>4, <1>8, <1>9, <1>10, <1>11


LEMMA SendInv ==
  ASSUME Inv, NEW m \in Msgs, Send(m)
  PROVE  Inv' /\ sent' = Append(sent, m)
<1>1. /\ ~closed /\ sent' = Append(sent, m) /\ wire' = wire \o Bytes(m)
      /\ UNCHANGED <<closed, mBuff, at, got>>
  BY DEF Send
<1>2. Bytes(m) \in Seq(Byte) BY BytesType
<1>3. TypeOK' BY <1>1, <1>2, ConcatProperties, AppendProperties DEF Inv, TypeOK
<1>4. PICK off : Layout(off, sent, Len(got), mBuff \o wire) BY DEF Inv, Cut
<1>5. \E o : Layout(o, sent', Len(got), (mBuff \o wire) \o Bytes(m))
  <2>1. mBuff \o wire \in Seq(Byte) BY StreamType DEF Inv
  <2>2. sent \in Seq(Msgs) /\ Len(got) \in 0 .. Len(sent)
    BY DEF Inv, TypeOK, Cut
  <2> QED BY <1>1, <1>4, <2>1, <2>2, LayoutSend
<1>6. (mBuff \o wire) \o Bytes(m) = mBuff' \o wire'
  <2>1. mBuff \in Seq(Byte) /\ wire \in Seq(Byte) BY DEF Inv, TypeOK
  <2> QED BY <1>1, <1>2, <2>1, ConcatAssociative
<1>7. Len(got') <= Len(sent')
  <2>1. Len(sent') = Len(sent) + 1 BY <1>1 DEF Inv, TypeOK
  <2> QED BY <1>1, <2>1 DEF Inv, TypeOK, Cut
<1>8. at # "hung_up" BY <1>1 DEF Inv, Cut, HangsUpAtEndOnly
<1>9. Cut'
  BY <1>1, <1>5, <1>6, <1>7, <1>8 DEF Inv, Cut, HangsUpAtEndOnly, Whole, mSize
<1> QED BY <1>1, <1>3, <1>9 DEF Inv

LEMMA ReadInv == Inv /\ ReadData => Inv'
<1> SUFFICES ASSUME Inv, ReadData PROVE Inv' OBVIOUS
<1>1. PICK n \in 1 .. Len(wire) :
        /\ n <= Room(mBuff)
        /\ mBuff' = mBuff \o SubSeq(wire, 1, n)
        /\ wire' = SubSeq(wire, n + 1, Len(wire))
  BY DEF ReadData
<1>2. /\ mBuff \in Seq(Byte) /\ wire \in Seq(Byte)
      /\ Len(mBuff) \in Nat /\ Len(wire) \in Nat
  BY DEF Inv, TypeOK
<1>3. SubSeq(wire, 1, n) \in Seq(Byte) /\ Len(SubSeq(wire, 1, n)) = n
      /\ wire' \in Seq(Byte)
  <2>1. /\ 1 \in 1 .. Len(wire) + 1 /\ n \in 1 - 1 .. Len(wire)
        /\ (n - 1) + 1 = n
    BY <1>2
  <2>2. n + 1 \in 1 .. Len(wire) + 1 /\ Len(wire) \in (n + 1) - 1 .. Len(wire)
    BY <1>2
  <2> QED BY <1>1, <1>2, <2>1, <2>2, PartOf
<1>4. mBuff' \in Seq(Byte) /\ Len(mBuff') = Len(mBuff) + n
  BY <1>1, <1>2, <1>3, ConcatProperties
<1>5. Len(mBuff') <= Capacity
  BY <1>1, <1>2, <1>4, NetSocketAssumption DEF Room
<1>6. at' = "cut" /\ UNCHANGED <<closed, sent, got>> BY DEF ReadData
<1>7. TypeOK' BY <1>3, <1>4, <1>5, <1>6 DEF Inv, TypeOK
<1>8. mBuff' \o wire' = mBuff \o wire BY <1>1, <1>2, PortionMoved
<1> QED BY <1>6, <1>7, <1>8 DEF Inv, Cut, HangsUpAtEndOnly

\* between two reads mBuff has room, and without bytes on their way it is empty
LEMMA Waiting ==
  ASSUME Inv, at = "wait"
  PROVE  Room(mBuff) # 0 /\ (wire = << >> => Len(got) = Len(sent))
<1>1. /\ mBuff \in Seq(Byte) /\ wire \in Seq(Byte)
      /\ Len(mBuff) \in Nat /\ Len(wire) \in Nat
      /\ Header \in Nat /\ Capacity \in Nat /\ Header <= Capacity /\ Header > 0
  BY NetSocketAssumption DEF Inv, TypeOK
<1>2. mBuff # << >> => mSize(mBuff) \in Nat /\ Header <= mSize(mBuff)
                       /\ mSize(mBuff) <= Capacity
                       /\ mSize(mBuff) <= Len(mBuff) + Len(wire)
  <2>1. ASSUME mBuff # << >>
        PROVE  mSize(mBuff) \in Nat /\ Header <= mSize(mBuff)
               /\ mSize(mBuff) <= Capacity
               /\ mSize(mBuff) <= Len(mBuff) + Len(wire)
    <3>1. PICK m : m = sent[Len(got) + 1] OBVIOUS
    <3>2. m \in Msgs /\ mSize(mBuff) = Size[m] /\ Size[m] <= Len(mBuff) + Len(wire)
      BY <2>1, <3>1, FrontMessage DEF Inv
    <3> QED BY <3>2, SizeType
  <2> QED BY <2>1
<1>3. mBuff # << >> => Len(mBuff) < mSize(mBuff)
  BY <1>1, <1>2 DEF Inv, Cut, Whole
<1>4. Room(mBuff) # 0
  <2>1. mBuff = << >> => Len(mBuff) = 0 BY <1>1
  <2>2. Len(mBuff) < Capacity BY <1>1, <1>2, <1>3, <2>1
  <2> QED BY <1>1, <2>2 DEF Room
<1>5. ASSUME wire = << >> PROVE Len(got) = Len(sent)
  <2>1. mBuff = << >> BY <1>1, <1>2, <1>3, <1>5
  <2>2. PICK off : Layout(off, sent, Len(got), mBuff \o wire) BY DEF Inv, Cut
  <2>3. mBuff \o wire = << >> BY <1>5, <2>1
  <2>4. sent \in Seq(Msgs) /\ Len(got) \in 0 .. Len(sent)
    BY DEF Inv, TypeOK, Cut
  <2> QED BY <2>2, <2>3, <2>4, LayoutEmpty
<1> QED BY <1>4, <1>5

\* nothing that came is left when the server hangs up
LEMMA HangUpInv == Inv /\ HangUp => Inv'
<1> SUFFICES ASSUME Inv, HangUp PROVE Inv' OBVIOUS
<1>1. /\ at = "wait" /\ NothingRead /\ at' = "hung_up"
      /\ UNCHANGED <<wire, closed, mBuff, sent, got>>
  BY DEF HangUp
<1>2. closed /\ Len(got) = Len(sent) BY <1>1, Waiting DEF NothingRead
<1> QED BY <1>1, <1>2 DEF Inv, TypeOK, Cut, HangsUpAtEndOnly

\* the message handed over is the next one sent
LEMMA GetInv ==
  ASSUME Inv, GetOneMessage
  PROVE  /\ Inv' /\ sent' = sent
         /\ Len(got) < Len(sent) /\ got' = Append(got, sent[Len(got) + 1])
<1>1. /\ at = "cut" /\ at' = "cut" /\ Whole(mBuff) /\ mBuff' = Rest(mBuff)
      /\ UNCHANGED <<wire, closed, sent>>
  BY DEF GetOneMessage, TryNext
<1>2. /\ mBuff \in Seq(Byte) /\ Len(mBuff) \in Nat /\ wire \in Seq(Byte)
      /\ sent \in Seq(Msgs) /\ Len(sent) \in Nat
      /\ got \in Seq(Msgs \cup {Garbage}) /\ Len(got) \in Nat
      /\ Len(mBuff) <= Capacity /\ Capacity \in Nat
  BY NetSocketAssumption DEF Inv, TypeOK
<1>3. mBuff # << >> /\ mSize(mBuff) <= Len(mBuff)
  BY <1>1, <1>2, NetSocketAssumption DEF Whole
<1>4. PICK m : m = sent[Len(got) + 1] OBVIOUS
<1>5. /\ Len(got) < Len(sent) /\ m \in Msgs
      /\ mBuff[1][1] = m /\ mSize(mBuff) = Size[m]
      /\ Size[m] <= Len(mBuff)
      /\ SubSeq(mBuff, 1, Size[m]) = Bytes(m)
      /\ \E off : Layout(off, sent, Len(got) + 1,
                         SubSeq(mBuff, Size[m] + 1, Len(mBuff)) \o wire)
  BY <1>3, <1>4, FrontMessage DEF Inv
<1>6. got' = Append(got, m) BY <1>5 DEF GetOneMessage
<1>7. mBuff' = SubSeq(mBuff, Size[m] + 1, Len(mBuff)) BY <1>1, <1>5 DEF Rest
<1>8. mBuff' \in Seq(Byte) /\ Len(mBuff') <= Capacity
  <2>1. Size[m] \in Nat BY <1>5, SizeType
  <2>2. /\ Size[m] + 1 \in 1 .. Len(mBuff) + 1
        /\ Len(mBuff) \in (Size[m] + 1) - 1 .. Len(mBuff)
    BY <1>2, <1>5, <2>1
  <2>3. mBuff' \in Seq(Byte) /\ Len(mBuff') = (Len(mBuff) - (Size[m] + 1)) + 1
    BY <1>2, <1>7, <2>2, PartOf
  <2> QED BY <1>2, <2>1, <2>3
<1>9. got' \in Seq(Msgs \cup {Garbage}) /\ Len(got') = Len(got) + 1
  BY <1>2, <1>5, <1>6
<1>10. TypeOK' BY <1>1, <1>2, <1>8, <1>9 DEF Inv, TypeOK
<1>11. Cut'
  BY <1>1, <1>2, <1>5, <1>7, <1>9 DEF Cut, HangsUpAtEndOnly
<1> QED BY <1>1, <1>4, <1>5, <1>6, <1>10, <1>11 DEF Inv

LEMMA NetInit == Init => Inv
<1> SUFFICES ASSUME Init PROVE Inv OBVIOUS
<1>1. wire = << >> /\ mBuff = << >> /\ sent = << >> /\ got = << >> /\ at = "wait"
      /\ closed = FALSE
  BY DEF Init
<1>2. TypeOK
  <2>1. Len(mBuff) = 0 /\ 0 <= Capacity BY <1>1, NetSocketAssumption
  <2>2. /\ wire \in Seq(Byte) /\ mBuff \in Seq(Byte) /\ sent \in Seq(Msgs)
        /\ got \in Seq(Msgs \cup {Garbage})
    BY <1>1
  <2>3. Len(mBuff) <= Capacity BY <2>1
  <2> QED BY <1>1, <2>2, <2>3 DEF TypeOK
<1>3. Layout([i \in 0 .. 0 |-> 0], << >>, 0, << >>) BY DEF Layout, Offsets
<1>4. << >> \o << >> = << >> OBVIOUS
<1>5. \E off : Layout(off, sent, Len(got), mBuff \o wire) BY <1>1, <1>3, <1>4
<1>6. ~Whole(mBuff) BY <1>1, NetSocketAssumption DEF Whole
<1> QED BY <1>1, <1>2, <1>5, <1>6 DEF Inv, Cut, HangsUpAtEndOnly

LEMMA NetNext == Inv /\ [Next]_vars => Inv'
<1> SUFFICES ASSUME Inv, [Next]_vars PROVE Inv' OBVIOUS
<1>1. CASE NoMessage
  BY <1>1 DEF NoMessage, Inv, TypeOK, Cut, HangsUpAtEndOnly, Whole, mSize
<1>2. CASE Close
  BY <1>2 DEF Close, Inv, TypeOK, Cut, HangsUpAtEndOnly, Whole, mSize
<1>3. CASE UNCHANGED vars
  BY <1>3 DEF vars, Inv, TypeOK, Cut, HangsUpAtEndOnly, Whole, mSize
<1> QED BY <1>1, <1>2, <1>3, SendInv, ReadInv, HangUpInv, GetInv DEF Next, Server

\* The types of NetSocket: mBuff never holds more than its capacity, for any
\* portions (ReadData asks for the room left).
THEOREM TypeCorrect == Spec => []TypeOK
<1>1. Inv => TypeOK BY DEF Inv
<1> QED BY <1>1, NetInit, NetNext, PTL DEF Spec

\* The server hangs up only on a client that has closed and was served, for all
\* messages no longer than mBuff: the loop of RunEpoll leaves room in it.
THEOREM HangsUpAtEnd == Spec => []HangsUpAtEndOnly
<1>1. Inv => HangsUpAtEndOnly BY DEF Inv, Cut
<1> QED BY <1>1, NetInit, NetNext, PTL DEF Spec

\* what was handed over so far are the messages sent
Handed == \A i \in 1 .. Len(got) : got[i] = sent[i]

LEMMA HandedNext == Inv /\ Handed /\ [Next]_vars => Handed'
<1> SUFFICES ASSUME Inv, Handed, [Next]_vars PROVE Handed' OBVIOUS
<1>1. PICK g, n : g = Len(got) /\ n = Len(sent) OBVIOUS
<1>2. /\ g \in Nat /\ n \in Nat /\ g <= n /\ sent \in Seq(Msgs)
      /\ got \in Seq(Msgs \cup {Garbage})
  BY <1>1 DEF Inv, TypeOK, Cut
<1>3. ASSUME NEW m \in Msgs, Send(m) PROVE Handed'
  <2>1. got' = got /\ \A i \in 1 .. n : sent'[i] = sent[i]
    BY <1>1, <1>2, <1>3, AppendProperties DEF Send
  <2>2. \A i \in 1 .. g : i \in 1 .. n BY <1>2
  <2> QED BY <1>1, <2>1, <2>2 DEF Handed
<1>4. CASE GetOneMessage
  <2>1. sent' = sent /\ g < n /\ got' = Append(got, sent[g + 1])
    BY <1>1, <1>4, GetInv
  <2>2. g + 1 \in 1 .. Len(sent) /\ sent[g + 1] \in Msgs \cup {Garbage}
    BY <1>1, <1>2, <2>1
  <2>3. /\ Len(got') = g + 1 /\ got'[g + 1] = sent[g + 1]
        /\ \A i \in 1 .. g : got'[i] = got[i]
    BY <1>1, <1>2, <2>1, <2>2, AppendProperties
  <2>4. \A i \in 1 .. g + 1 : i = g + 1 \/ i \in 1 .. g BY <1>2
  <2> QED BY <1>1, <2>1, <2>3, <2>4 DEF Handed
<1>5. CASE ReadData \/ HangUp \/ NoMessage \/ Close \/ UNCHANGED vars
  BY <1>5 DEF ReadData, HangUp, NoMessage, Close, vars, Handed
<1> QED BY <1>3, <1>4, <1>5 DEF Next, Server

\* Whenever the loop waits and no byte is on its way, all that was sent has been
\* handed over, for any messages and any portions: the loop of RunEpoll leaves
\* no whole message in mBuff.
THEOREM NoMessageWaits == Spec => []NothingLeftBehind
<1>1. Init => Handed BY DEF Init, Handed
<1>2. ASSUME Inv, Handed PROVE NothingLeftBehind
  <2>1. SUFFICES ASSUME wire = << >>, at = "wait" PROVE got = sent
    BY DEF NothingLeftBehind
  <2>2. Len(got) = Len(sent) BY <1>2, <2>1, Waiting
  <2>3. got \in Seq(Msgs \cup {Garbage}) /\ sent \in Seq(Msgs \cup {Garbage})
    BY <1>2, SeqMonotonic DEF Inv, TypeOK
  <2> QED BY <1>2, <2>2, <2>3, SeqEqual DEF Handed
<1> QED BY <1>1, <1>2, NetInit, NetNext, HandedNext, PTL DEF Spec

-----------------------------------------------------------------------------
(* A channel of messages.                                                  *)

Queue == SubSeq(sent, Len(got) + 1, Len(sent))

LEMMA ChannelSend ==
  ASSUME Inv, NEW m \in Msgs, Send(m)
  PROVE  Channel!Send(m)
<1>1. PICK s, g : s = sent /\ g = Len(got) OBVIOUS
<1>2. s \in Seq(Msgs) /\ g \in 0 .. Len(s) /\ Len(s) \in Nat
  BY <1>1 DEF Inv, TypeOK, Cut
<1>3. sent' = s \o <<m>> /\ got' = got /\ Len(s \o <<m>>) = Len(s) + 1
  BY <1>1, <1>2 DEF Send
<1>4. SubSeq(s, g + 1, Len(s)) \o <<m>>
        = SubSeq(s \o <<m>>, g + 1, Len(s \o <<m>>))
  <2>1. <<m>> \in Seq(Msgs) OBVIOUS
  <2> QED BY <1>2, <2>1, RestOfConcat
<1>5. SubSeq(s, g + 1, Len(s)) \in Seq(Msgs)
  <2>1. g + 1 \in 1 .. Len(s) + 1 /\ Len(s) \in (g + 1) - 1 .. Len(s) BY <1>2
  <2> QED BY <1>2, <2>1, PartOf
<1>6. Append(SubSeq(s, g + 1, Len(s)), m) = SubSeq(s, g + 1, Len(s)) \o <<m>>
  <2>1. PICK q : q = SubSeq(s, g + 1, Len(s)) OBVIOUS
  <2>2. Append(q, m) = q \o <<m>> BY <1>5, <2>1, AppendIsConcat
  <2> QED BY <2>1, <2>2
<1> QED BY <1>1, <1>3, <1>4, <1>6 DEF Channel!Send

LEMMA ChannelDeliver ==
  ASSUME Inv, GetOneMessage
  PROVE  Channel!Deliver
<1>1. PICK s, g, q : s = sent /\ g = Len(got) /\ q = Queue OBVIOUS
<1>2. /\ s \in Seq(Msgs) /\ g \in Nat /\ Len(s) \in Nat /\ g < Len(s)
      /\ sent' = s /\ got' = Append(got, s[g + 1]) /\ Len(got') = g + 1
  BY <1>1, GetInv DEF Inv, TypeOK
<1>3. /\ q \in Seq(Msgs) /\ Len(q) = (Len(s) - (g + 1)) + 1
      /\ \A k \in 1 .. (Len(s) - (g + 1)) + 1 : q[k] = s[((g + 1) + k) - 1]
  <2>1. g + 1 \in 1 .. Len(s) + 1 /\ Len(s) \in (g + 1) - 1 .. Len(s) BY <1>2
  <2> QED BY <1>1, <1>2, <2>1, PartOf DEF Queue
<1>4. (Len(s) - (g + 1)) + 1 = Len(s) - g /\ Len(q) > 0 BY <1>2, <1>3
<1>5. Head(q) = s[g + 1]
  <2>1. ((g + 1) + 1) - 1 = g + 1 /\ 1 \in 1 .. (Len(s) - (g + 1)) + 1 BY <1>2
  <2> QED BY <1>3, <1>4, <2>1
<1>6. PICK r : r = SubSeq(s, (g + 1) + 1, Len(s)) OBVIOUS
<1>7. /\ r \in Seq(Msgs) /\ Len(r) = (Len(s) - ((g + 1) + 1)) + 1
      /\ \A k \in 1 .. (Len(s) - ((g + 1) + 1)) + 1 :
           r[k] = s[(((g + 1) + 1) + k) - 1]
  <2>1. /\ (g + 1) + 1 \in 1 .. Len(s) + 1
        /\ Len(s) \in ((g + 1) + 1) - 1 .. Len(s)
    BY <1>2
  <2> QED BY <1>2, <1>6, <2>1, PartOf
<1>8. /\ Tail(q) \in Seq(Msgs) /\ Len(Tail(q)) = Len(q) - 1
      /\ \A k \in 1 .. Len(q) - 1 : Tail(q)[k] = q[k + 1]
  BY <1>3, <1>4, HeadTailProperties
<1>9. r = Tail(q)
  <2>1. PICK u : u = Tail(q) OBVIOUS
  <2>2. Len(r) = Len(u) /\ Len(r) = Len(s) - (g + 1) BY <1>2, <1>3, <1>7, <1>8, <2>1
  <2>3. ASSUME NEW k \in 1 .. Len(r) PROVE r[k] = u[k]
    <3>1. /\ k \in 1 .. (Len(s) - ((g + 1) + 1)) + 1 /\ k \in 1 .. Len(q) - 1
          /\ k + 1 \in 1 .. (Len(s) - (g + 1)) + 1
          /\ (((g + 1) + 1) + k) - 1 = ((g + 1) + (k + 1)) - 1
      BY <1>2, <1>3, <2>2
    <3> QED BY <1>3, <1>7, <1>8, <2>1, <3>1
  <2>4. u \in Seq(Msgs) BY <1>8, <2>1
  <2>5. r = u BY <1>7, <2>2, <2>3, <2>4, SeqEqual
  <2> QED BY <2>1, <2>5
<1>10. Queue' = r BY <1>2, <1>6 DEF Queue
<1>11. q # << >> BY <1>4
<1> QED BY <1>1, <1>2, <1>5, <1>9, <1>10, <1>11 DEF Channel!Deliver, Queue

\* A connection is a MessageChannel, for any messages and any portions: what
\* GetOneMessage hands over are the messages sent, whole, once and in order.
THEOREM Implements == Spec => ImplementsChannel
<1>1. Init => Channel!Init
  <2>1. SubSeq(<< >>, 1, 0) = << >> OBVIOUS
  <2>2. Init => sent = << >> /\ got = << >> /\ Len(<< >>) + 1 = 1 /\ Len(<< >>) = 0
    BY DEF Init
  <2> QED BY <2>1, <2>2 DEF Channel!Init
<1>2. Inv /\ [Next]_vars => [Channel!Next]_<<Queue, got>>
  <2> SUFFICES ASSUME Inv, [Next]_vars PROVE [Channel!Next]_<<Queue, got>>
    OBVIOUS
  <2>1. ASSUME NEW m \in Msgs, Send(m) PROVE Channel!Next
    BY <2>1, ChannelSend DEF Channel!Next
  <2>2. CASE GetOneMessage BY <2>2, ChannelDeliver DEF Channel!Next
  <2>3. CASE UNCHANGED <<sent, got>> BY <2>3 DEF Queue
  <2>4. CASE ReadData \/ HangUp \/ NoMessage \/ Close \/ UNCHANGED vars
    BY <2>3, <2>4 DEF ReadData, HangUp, NoMessage, Close, vars
  <2> QED BY <2>1, <2>2, <2>4 DEF Next, Server
<1> QED BY <1>1, <1>2, NetInit, NetNext, PTL
        DEF Spec, ImplementsChannel, Channel!Spec, Queue

=============================================================================
