------------------------------ MODULE PeerProofs ------------------------------
(***************************************************************************)
(* What a connected phone and the user see of each other, proved for any   *)
(* players, phones, sinks, notifications, commands, covers, documents and  *)
(* devices.  Each part has an inductive invariant of its own, and a step   *)
(* of one leaves the variables of the others alone, so that the invariant  *)
(* of each is one of the whole.  What the mDNS packets say is not proved   *)
(* here.                                                                   *)
(***************************************************************************)
EXTENDS PluginProofs, PairingProofs

-----------------------------------------------------------------------------

(* TitleBar: the picture is of the cover that was named last.               *)

\* What is assumed of covers and their places.
LEMMA CoverAssumption ==
  /\ "" \notin Hash /\ Side \subseteq Nat \ {0} /\ MaxPolls \in Nat
  /\ Dim \in Nat \ {0} /\ Wide \in Nat \ {0} /\ High \in Nat \ {0}
  BY PeerAssumption

Sized == [w : Nat \ {0}, h : Nat \ {0}]

\* The pixel at a place is found in its row and column.
LEMMA PlaceOfPixel ==
  ASSUME NEW w \in Nat \ {0}, NEW y \in Nat, NEW x \in Nat, x < w
  PROVE  (y * w + x) \div w = y /\ (y * w + x) % w = x /\ y * w + x \in Nat
  <1>1. y * w \in Nat /\ y * w + x \in Nat /\ (y + 1) * w = y * w + w
    OBVIOUS
  <1> DEFINE a == y * w + x
  <1>2. y * w <= a /\ a < (y + 1) * w
    BY <1>1
  <1>3. a \in Nat
    BY <1>1
  <1> HIDE DEF a
  <1>4. PICK d \in Nat : d = a \div w
    BY <1>3, Divided
  <1>5. d = y
    BY <1>2, <1>3, <1>4, Quotient
  <1>6. a % w = a - d * w
    BY <1>3, <1>4
  <1> QED
    BY <1>1, <1>3, <1>4, <1>5, <1>6 DEF a

\* The row and the column of a pixel are in the picture.
LEMMA RowAndColumn ==
  ASSUME NEW w \in Nat \ {0}, NEW h \in Nat, NEW i \in Nat, i < w * h
  PROVE  /\ i \div w \in Nat /\ i % w \in Nat /\ i = (i \div w) * w + (i % w)
         /\ i % w < w /\ i \div w < h
  <1>1. PICK y \in Nat : y = i \div w
    BY Divided
  <1>2. y * w <= i /\ i < y * w + w /\ y * w \in Nat
    BY <1>1, Divided
  <1>3. i % w = i - y * w
    BY <1>1
  <1>4. y < h
    <2> SUFFICES ASSUME h <= y PROVE FALSE
      BY <1>1
    <2>1. h * w <= y * w
      BY TimesGrows
    <2>2. h * w = w * h /\ h * w \in Nat
      OBVIOUS
    <2> QED
      BY <1>2, <2>1, <2>2
  <1> QED
    BY <1>1, <1>2, <1>3, <1>4

\* A row or column that is scaled down comes from one that is not before it, and is
\* in the source.
LEMMA ScaledDown ==
  ASSUME NEW a \in Nat \ {0}, NEW b \in Nat \ {0}, b <= a, NEW y \in Nat, y < b
  PROVE  (y * a) \div b \in Nat /\ y <= (y * a) \div b /\ (y * a) \div b + 1 <= a
  <1>1. y * a \in Nat /\ y * b \in Nat
    OBVIOUS
  <1>2. PICK d \in Nat : d = (y * a) \div b
    BY <1>1, Divided
  <1>3. y * b <= y * a
    <2>1. b * y <= a * y
      BY TimesGrows
    <2>2. b * y = y * b /\ a * y = y * a
      OBVIOUS
    <2> QED
      BY <2>1, <2>2
  <1>4. y <= d
    BY <1>1, <1>2, <1>3, Quotient
  <1>5. d + 1 <= a
    <2>1. a - 1 \in Nat /\ (a - 1) + 1 = a
      OBVIOUS
    <2>2. (y + 1) * a <= b * a
      BY TimesGrows
    <2>3. (y + 1) * a = y * a + a /\ b * a = a * b /\ a * b \in Nat
      OBVIOUS
    <2>4. y * a < a * b
      BY <1>1, <2>2, <2>3
    <2>5. d <= a - 1
      BY <1>1, <1>2, <2>1, <2>4, Quotient
    <2> QED
      BY <2>1, <2>5
  <1> QED
    BY <1>2, <1>4, <1>5

\* The loop reads at a place that it has not written yet, and that is in the source.
LEMMA ReadsAhead ==
  ASSUME NEW s \in Sized, NEW t \in Sized, t.w <= s.w, t.h <= s.h, NEW i \in Nat, i < t.w * t.h
  PROVE  Cover!ReadPlace(s, t, i) \in Nat /\ i <= Cover!ReadPlace(s, t, i) /\ Cover!ReadPlace(s, t, i) < s.w * s.h
  <1>1. /\ s.w \in Nat \ {0} /\ s.h \in Nat \ {0} /\ t.w \in Nat \ {0} /\ t.h \in Nat \ {0}
    BY DEF Sized
  <1>2. PICK y \in Nat, x \in Nat : y = i \div t.w /\ x = i % t.w /\ i = y * t.w + x /\ x < t.w /\ y < t.h
    BY <1>1, RowAndColumn
  <1>3. PICK r \in Nat : r = (y * s.h) \div t.h /\ y <= r /\ r + 1 <= s.h
    BY <1>1, <1>2, ScaledDown
  <1>4. PICK c \in Nat : c = (x * s.w) \div t.w /\ x <= c /\ c + 1 <= s.w
    BY <1>1, <1>2, ScaledDown
  <1>5. Cover!ReadPlace(s, t, i) = r * s.w + c
    BY <1>2, <1>3, <1>4 DEF Cover!ReadPlace
  <1>6. y * t.w <= r * s.w
    <2>1. y * t.w <= r * t.w
      BY <1>1, <1>3, TimesGrows
    <2>2. t.w * r <= s.w * r
      BY <1>1, TimesGrows
    <2>3. t.w * r = r * t.w /\ s.w * r = r * s.w /\ y * t.w \in Nat /\ r * t.w \in Nat /\ r * s.w \in Nat
      BY <1>1
    <2> QED
      BY <2>1, <2>2, <2>3
  <1>7. (r + 1) * s.w <= s.h * s.w
    BY <1>1, <1>3, TimesGrows
  <1>8. (r + 1) * s.w = r * s.w + s.w /\ s.h * s.w = s.w * s.h /\ r * s.w \in Nat /\ y * t.w \in Nat /\ s.w * s.h \in Nat
    BY <1>1
  <1>9. r * s.w + c < s.w * s.h
    BY <1>1, <1>4, <1>7, <1>8
  <1>10. r * s.w + c \in Nat /\ i <= r * s.w + c
    BY <1>2, <1>4, <1>6, <1>8
  <1> QED
    BY <1>5, <1>9, <1>10

\* The buffer before each step of the loop: what is before the place to be written has
\* its pixel of the target, and the rest is the source.
Buffer(s, t, i) ==
  [k \in Cover!Buffer(s) |-> IF k < i THEN Cover!ReadPlace(s, t, k) ELSE k]

\* Each step of the loop writes one pixel, read where nothing was written yet.
LEMMA BufferStep ==
  ASSUME NEW s \in Sized, NEW t \in Sized, t.w <= s.w, t.h <= s.h, NEW i \in 1 .. t.w * t.h
  PROVE  Buffer(s, t, i) = [Buffer(s, t, i - 1) EXCEPT ![i - 1] = Buffer(s, t, i - 1)[Cover!ReadPlace(s, t, i - 1)]]
  <1>1. s.w * s.h \in Nat /\ t.w * t.h \in Nat
    BY DEF Sized
  <1>2. PICK j \in Nat : j = i - 1 /\ i = j + 1 /\ j < t.w * t.h
    BY <1>1
  <1>3. PICK p \in Nat : p = Cover!ReadPlace(s, t, j) /\ j <= p /\ p < s.w * s.h
    BY <1>2, ReadsAhead
  <1> DEFINE D == Cover!Buffer(s)
  <1>4. j \in D /\ p \in D /\ \A k \in D : k \in Nat
    BY <1>1, <1>2, <1>3 DEF Cover!Buffer
  <1> HIDE DEF D
  <1>5. \A n : Buffer(s, t, n) = [k \in D |-> IF k < n THEN Cover!ReadPlace(s, t, k) ELSE k]
    BY DEF Buffer, D
  <1>6. Buffer(s, t, j)[p] = p
    BY <1>3, <1>4, <1>5
  <1>7. \A k \in D : Buffer(s, t, i)[k] = IF k = j THEN p ELSE Buffer(s, t, j)[k]
    <2> SUFFICES ASSUME NEW k \in D PROVE Buffer(s, t, i)[k] = IF k = j THEN p ELSE Buffer(s, t, j)[k]
      OBVIOUS
    <2>1. k \in Nat
      BY <1>4
    <2>2. CASE k = j
      BY <1>2, <1>3, <1>5, <2>1, <2>2
    <2>3. CASE k # j
      <3>1. k < i <=> k < j
        BY <1>2, <2>1, <2>3
      <3> QED
        BY <1>5, <2>3, <3>1
    <2> QED
      BY <2>2, <2>3
  <1>8. [Buffer(s, t, j) EXCEPT ![j] = p] = Buffer(s, t, i)
    <2>1. [Buffer(s, t, j) EXCEPT ![j] = p] = [k \in D |-> IF k = j THEN p ELSE Buffer(s, t, j)[k]]
      BY <1>4, <1>5
    <2>2. Buffer(s, t, i) = [k \in D |-> Buffer(s, t, i)[k]]
      BY <1>5
    <2> QED
      BY <1>7, <2>1, <2>2
  <1> QED
    BY <1>2, <1>3, <1>6, <1>8

\* The loop's buffers are these: they fit its recursion, and no others do.
LEMMA CopiedIsBuffer ==
  ASSUME NEW s \in Sized, NEW t \in Sized, t.w <= s.w, t.h <= s.h, NEW m \in 0 .. t.w * t.h
  PROVE  Cover!Copied(s, t)[m] = Buffer(s, t, m)
  <1>1. s.w * s.h \in Nat /\ t.w * t.h \in Nat
    BY DEF Sized
  <1>2. PICK n \in Nat : n = t.w * t.h
    BY <1>1
  <1> DEFINE F(g) == [i \in 0 .. n |-> IF i = 0 THEN [k \in Cover!Buffer(s) |-> k]
                                   ELSE IF i - 1 \in Cover!Buffer(s)
                                   THEN [g[i - 1] EXCEPT ![i - 1] = g[i - 1][Cover!ReadPlace(s, t, i - 1)]]
                                   ELSE g[i - 1]]
             c == Cover!Copied(s, t)
             b == [i \in 0 .. n |-> Buffer(s, t, i)]
  <1>3. Buffer(s, t, 0) = [k \in Cover!Buffer(s) |-> k]
    <2>1. \A k \in Cover!Buffer(s) : ~(k < 0)
      BY <1>1 DEF Cover!Buffer
    <2> QED
      BY <1>2, <2>1 DEF Buffer
  <1>4. ASSUME NEW i \in 1 .. n
        PROVE  /\ i - 1 \in 0 .. n /\ i \in Nat /\ i # 0 /\ i - 1 \in Cover!Buffer(s)
               /\ Buffer(s, t, i) = [b[i - 1] EXCEPT ![i - 1] = b[i - 1][Cover!ReadPlace(s, t, i - 1)]]
    <2>1. i - 1 \in 0 .. n /\ i \in Nat /\ i # 0
      BY <1>2
    <2>2. b[i - 1] = Buffer(s, t, i - 1)
      BY <2>1
    <2>3. i - 1 \in Cover!Buffer(s)
      <3>1. PICK j \in Nat : j = i - 1 /\ j < t.w * t.h
        BY <1>1, <1>2
      <3>2. PICK p \in Nat : j <= p /\ p < s.w * s.h
        BY <3>1, ReadsAhead
      <3> QED
        BY <1>1, <3>1, <3>2 DEF Cover!Buffer
    <2> QED
      BY <1>2, <2>1, <2>2, <2>3, BufferStep
  <1>5. b = F(b)
    <2>1. \A i \in 0 .. n : i = 0 \/ i \in 1 .. n
      BY <1>2
    <2>2. \A i \in 0 .. n : b[i] = F(b)[i]
      <3> SUFFICES ASSUME NEW i \in 0 .. n PROVE b[i] = F(b)[i]
        OBVIOUS
      <3>1. CASE i = 0
        BY <1>3, <3>1
      <3>2. CASE i \in 1 .. n
        <4>1. i # 0
          BY <1>4, <3>2
        <4> QED
          BY <1>4, <3>2, <4>1
      <3> QED
        BY <2>1, <3>1, <3>2
    <2>3. b = [i \in 0 .. n |-> b[i]]
      OBVIOUS
    <2>4. F(b) = [i \in 0 .. n |-> F(b)[i]]
      OBVIOUS
    <2> HIDE DEF b, F
    <2> QED
      BY <2>2, <2>3, <2>4
  <1>6. c = F(c)
    <2>1. c = CHOOSE g : g = F(g)
      BY <1>2 DEF Cover!Copied
    <2> HIDE DEF c, b, F
    <2> QED
      BY <1>5, <2>1
  <1>7. \A i \in 0 .. n : c[i] = b[i]
    <2> SUFFICES ASSUME NEW q \in 0 .. n, c[q] # b[q] PROVE FALSE
      OBVIOUS
    <2> DEFINE T == {i \in 0 .. n : c[i] # b[i]}
    <2>1. T \subseteq Nat /\ T # {}
      BY <1>2
    <2>2. PICK i \in T : \A j \in T : i <= j
      <3> HIDE DEF T
      <3> QED
        BY <2>1, LeastNatural
    <2>3. i \in 0 .. n /\ c[i] # b[i]
      OBVIOUS
    <2>4. c[i] = F(c)[i]
      <3> HIDE DEF c, F
      <3> QED
        BY <1>6
    <2>5. CASE i = 0
      <3>1. F(c)[i] = [k \in Cover!Buffer(s) |-> k]
        BY <2>3, <2>5
      <3>2. b[i] = [k \in Cover!Buffer(s) |-> k]
        BY <1>3, <2>3, <2>5
      <3> QED
        BY <2>3, <2>4, <3>1, <3>2
    <2>6. CASE i # 0
      <3>1. i \in 1 .. n /\ i - 1 \in 0 .. n /\ ~(i <= i - 1)
        BY <1>2, <2>3, <2>6
      <3>2. c[i - 1] = b[i - 1]
        BY <2>2, <3>1
      <3>3. F(c)[i] = [c[i - 1] EXCEPT ![i - 1] = c[i - 1][Cover!ReadPlace(s, t, i - 1)]]
        BY <1>4, <2>3, <2>6, <3>1
      <3>4. b[i] = [b[i - 1] EXCEPT ![i - 1] = b[i - 1][Cover!ReadPlace(s, t, i - 1)]]
        BY <1>4, <2>3, <3>1
      <3> HIDE DEF b, c, F
      <3> QED
        BY <2>3, <2>4, <3>2, <3>3, <3>4
    <2> QED
      BY <2>5, <2>6
  <1> QED
    BY <1>2, <1>7

\* Each pixel of a cover that is scaled down is the one at its place.
LEMMA ScaledIsSampled ==
  ASSUME NEW s \in Sized, NEW t \in Sized, t.w <= s.w, t.h <= s.h,
         NEW x \in 0 .. t.w - 1, NEW y \in 0 .. t.h - 1
  PROVE  Cover!Scaled(s, t)[y * t.w + x] = ((y * s.h) \div t.h) * s.w + (x * s.w) \div t.w
  <1>1. /\ s.w \in Nat \ {0} /\ s.h \in Nat \ {0} /\ t.w \in Nat \ {0} /\ t.h \in Nat \ {0}
        /\ x \in Nat /\ y \in Nat /\ x < t.w /\ y < t.h
    BY DEF Sized
  <1>2. PICK k \in Nat : k = y * t.w + x /\ k \div t.w = y /\ k % t.w = x
    <2>1. y * t.w + x \in Nat /\ (y * t.w + x) \div t.w = y /\ (y * t.w + x) % t.w = x
      BY <1>1, PlaceOfPixel
    <2> QED
      BY <2>1
  <1>3. Cover!ReadPlace(s, t, k) = ((y * s.h) \div t.h) * s.w + (x * s.w) \div t.w
    BY <1>2 DEF Cover!ReadPlace
  <1>4. s.w * s.h \in Nat /\ t.w * t.h \in Nat /\ k < t.w * t.h
    <2>1. (y + 1) * t.w <= t.h * t.w
      BY <1>1, TimesGrows
    <2>2. (y + 1) * t.w = y * t.w + t.w /\ t.h * t.w = t.w * t.h /\ y * t.w \in Nat /\ t.w * t.h \in Nat /\ s.w * s.h \in Nat
      BY <1>1
    <2> QED
      BY <1>1, <1>2, <2>1, <2>2
  <1>5. k \in Cover!Buffer(s)
    <2>1. PICK p \in Nat : k <= p /\ p < s.w * s.h
      BY <1>4, ReadsAhead
    <2> QED
      BY <1>4, <2>1 DEF Cover!Buffer
  <1>6. CASE s # t
    <2>1. t.w * t.h \in 0 .. t.w * t.h
      BY <1>4
    <2>2. Cover!Scaled(s, t) = Buffer(s, t, t.w * t.h)
      BY <1>6, <2>1, CopiedIsBuffer DEF Cover!Scaled
    <2> QED
      BY <1>2, <1>3, <1>4, <1>5, <2>2 DEF Buffer
  <1>7. CASE s = t
    <2>1. 0 \in 0 .. t.w * t.h
      BY <1>4
    <2>2. Cover!Scaled(s, t) = Buffer(s, t, 0)
      BY <1>7, <2>1, CopiedIsBuffer DEF Cover!Scaled
    <2>3. Cover!Scaled(s, t)[k] = k
      BY <1>5, <2>2 DEF Buffer
    <2>4. \A z \in Nat, d \in Nat \ {0} : (z * d) \div d = z
      <3> SUFFICES ASSUME NEW z \in Nat, NEW d \in Nat \ {0} PROVE (z * d) \div d = z
        OBVIOUS
      <3>1. PICK q \in Nat : q = (z * d) \div d
        BY Divided
      <3>2. z * d \in Nat /\ z * d <= z * d /\ z * d < (z + 1) * d
        OBVIOUS
      <3>3. z <= q /\ q <= z
        BY <3>1, <3>2, Quotient
      <3> QED
        BY <3>1, <3>3
    <2>5. (y * t.h) \div t.h = y /\ (x * t.w) \div t.w = x
      BY <1>1, <2>4
    <2> QED
      BY <1>2, <1>7, <2>3, <2>5
  <1> QED
    BY <1>6, <1>7


\* A cover is scaled to a size that its layout has room for.
LEMMA TargetFits ==
  ASSUME NEW s \in Sized
  PROVE  /\ Cover!Target(s) \in Sized
         /\ IF top THEN Cover!Target(s).w <= Wide /\ Cover!Target(s).h <= High
                   ELSE Cover!Target(s).w = Dim /\ Cover!Target(s).h = Dim
  <1>1. PICK w \in Nat \ {0}, h \in Nat \ {0}, W \in Nat \ {0}, H \in Nat \ {0} : w = s.w /\ h = s.h /\ W = Wide /\ H = High
    BY CoverAssumption DEF Sized
  <1>2. Dim \in Nat \ {0}
    BY CoverAssumption
  <1>3. ASSUME NEW a \in Nat PROVE Cover!Least(a) \in Nat \ {0} /\ (\A b \in Nat \ {0} : a <= b => Cover!Least(a) <= b)
    BY DEF Cover!Least
  <1> DEFINE f == IF w > W THEN [w |-> W, h |-> Cover!Least((h * W) \div w)] ELSE s
  <1>4. h * W \in Nat /\ (h * W) \div w \in Nat
    BY Divided
  <1>5. f \in Sized /\ f.w <= W
    BY <1>1, <1>3, <1>4 DEF Sized
  <1>6. w * H \in Nat /\ (w * H) \div h \in Nat
    BY Divided
  <1>7. CASE f.h > H
    <2>1. (w * H) \div h <= W
      <3>1. PICK q \in Nat : q = (w * H) \div h /\ q * h <= w * H
        BY <1>6, Divided
      <3>2. CASE w > W
        <4>1. PICK r \in Nat : r = (h * W) \div w /\ r * w <= h * W
          BY <1>4, Divided
        <4>2. H + 1 <= r
          <5>1. f.h = Cover!Least(r)
            BY <3>2, <4>1
          <5> QED
            BY <1>7, <4>1, <5>1 DEF Cover!Least
        <4>3. (H + 1) * w <= r * w
          BY <4>2, TimesGrows
        <4>4. (H + 1) * w = w * H + w /\ W * h = h * W /\ w * H \in Nat /\ r * w \in Nat /\ W * h \in Nat
          OBVIOUS
        <4>5. w * H < (W + 1) * h
          <5>1. (W + 1) * h = W * h + h
            OBVIOUS
          <5> QED
            BY <4>1, <4>3, <4>4, <5>1
        <4> QED
          BY <1>6, <4>5, Quotient
      <3>3. CASE ~(w > W)
        <4>1. f = s
          BY <3>3
        <4>2. H <= h
          BY <1>1, <1>7, <4>1
        <4>3. H * w <= h * w
          BY <4>2, TimesGrows
        <4>4. H * w = w * H /\ h * w = w * h /\ w * h \in Nat /\ (w + 1) * h = w * h + h
          OBVIOUS
        <4>5. w * H < (w + 1) * h
          BY <1>6, <4>3, <4>4
        <4>6. q <= w
          BY <1>6, <3>1, <4>5, Quotient
        <4> QED
          BY <3>1, <3>3, <4>6
      <3> QED
        BY <3>2, <3>3
    <2>2. Cover!Least((w * H) \div h) \in Nat \ {0} /\ Cover!Least((w * H) \div h) <= W
      BY <1>3, <1>6, <2>1
    <2>3. Cover!TargetTop(s) = [w |-> Cover!Least((w * H) \div h), h |-> H]
      BY <1>1, <1>7 DEF Cover!TargetTop
    <2> QED
      BY <1>1, <1>2, <2>2, <2>3 DEF Cover!Target, Sized
  <1>8. CASE ~(f.h > H)
    <2>1. Cover!TargetTop(s) = f
      BY <1>1, <1>8 DEF Cover!TargetTop
    <2>2. f.h <= H
      BY <1>5, <1>8 DEF Sized
    <2> HIDE DEF f
    <2> QED
      BY <1>1, <1>2, <1>5, <2>1, <2>2 DEF Cover!Target, Sized
  <1> QED
    BY <1>7, <1>8

\* A side that is scaled down to fit does not get longer.
LEMMA Shrinks ==
  ASSUME NEW a \in Nat \ {0}, NEW b \in Nat \ {0}, NEW c \in Nat \ {0}, b <= c
  PROVE  Cover!Least((a * b) \div c) \in Nat \ {0} /\ Cover!Least((a * b) \div c) <= a
  <1>1. a * b \in Nat
    OBVIOUS
  <1>2. PICK q \in Nat : q = (a * b) \div c
    BY <1>1, Divided
  <1>3. b * a <= c * a
    BY TimesGrows
  <1>4. b * a = a * b /\ c * a = a * c /\ (a + 1) * c = a * c + c /\ a * c \in Nat
    OBVIOUS
  <1>5. a * b < (a + 1) * c
    BY <1>1, <1>3, <1>4
  <1>6. q <= a
    BY <1>1, <1>2, <1>5, Quotient
  <1> QED
    BY <1>2, <1>6 DEF Cover!Least

\* At the top no cover gets larger, so that the loop stays in the buffer.
LEMMA TopShrinks ==
  ASSUME NEW s \in Sized, top
  PROVE  ~Cover!Overruns(s, Cover!Target(s))
  <1>1. PICK w \in Nat \ {0}, h \in Nat \ {0}, W \in Nat \ {0}, H \in Nat \ {0} : w = s.w /\ h = s.h /\ W = Wide /\ H = High
    BY CoverAssumption DEF Sized
  <1> DEFINE f == IF w > W THEN [w |-> W, h |-> Cover!Least((h * W) \div w)] ELSE s
             l == Cover!Least((w * H) \div h)
  <1>2. f.h \in Nat /\ f.w \in Nat /\ f.w <= w /\ f.h <= h
    BY <1>1, Shrinks
  <1>3. Cover!Target(s) = IF f.h > H THEN [w |-> l, h |-> H] ELSE f
    BY <1>1 DEF Cover!Target, Cover!TargetTop
  <1>4. ASSUME f.h > H PROVE l \in Nat /\ l <= w /\ H <= h
    <2>1. H <= h
      BY <1>2, <1>4
    <2> QED
      BY <2>1, Shrinks
  <1> HIDE DEF f, l
  <1>5. PICK x \in Nat, y \in Nat : x = Cover!Target(s).w /\ y = Cover!Target(s).h /\ x <= w /\ y <= h
    BY <1>2, <1>3, <1>4
  <1>6. x * y <= w * y /\ y * w <= h * w
    BY <1>5, TimesGrows
  <1>7. w * y = y * w /\ h * w = w * h /\ x * y \in Nat /\ y * w \in Nat /\ w * h \in Nat
    BY <1>5
  <1> QED
    BY <1>1, <1>5, <1>6, <1>7 DEF Cover!Overruns

CoverInv == Cover!TypeOK /\ Cover!CoverIsShown

\* No cover is shown at first.
LEMMA CoverInit == Cover!Init => CoverInv
  <1> SUFFICES ASSUME Cover!Init PROVE CoverInv
    OBVIOUS
  <1>1. pixels.of = "" /\ pixels = Cover!NoPixels /\ hash = "" /\ memory = "whole" /\ changes = 0
    BY DEF Cover!Init, Cover!NoPixels
  <1>2. MaxPolls \in Nat
    BY CoverAssumption
  <1>3. Cover!TypeOK
    <2>1. cover \in [Hash -> {"missing", "bad", "good"}]
      BY DEF Cover!Init
    <2>2. top \in BOOLEAN
      BY DEF Cover!Init
    <2>3. size \in Cover!Size
      BY DEF Cover!Init
    <2>4. changes \in 0 .. MaxPolls
      <3>1. 0 \in 0 .. MaxPolls
        BY <1>2
      <3> QED
        BY <1>1, <3>1
    <2> QED
      BY <1>1, <2>1, <2>2, <2>3, <2>4 DEF Cover!TypeOK
  <1>4. Cover!CoverIsShown
    BY <1>1 DEF Cover!CoverIsShown
  <1> QED
    BY <1>3, <1>4 DEF CoverInv

\* What a cover that is loaded looks like.
LEMMA LoadShows ==
  ASSUME CoverInv, NEW h \in Hash \cup {""}, Cover!Load(h)
  PROVE  /\ pixels'.of \in Hash \cup {""}
         /\ pixels' # Cover!NoPixels =>
              /\ pixels'.of = h
              /\ IF top THEN pixels'.size.w <= Wide /\ pixels'.size.h <= High
                        ELSE pixels'.size.w = Dim /\ pixels'.size.h = Dim
              /\ (pixels'.from.w >= pixels'.size.w /\ pixels'.from.h >= pixels'.size.h => Cover!Sampled(pixels'))
         /\ memory' = memory \/ (memory' = "overrun" /\ ~top /\ size.w * size.h < Dim * Dim)
  <1>1. CASE h # "" /\ cover[h] = "good"
    <2>1. PICK s \in Sized : s = size
      BY CoverAssumption DEF CoverInv, Cover!TypeOK, Cover!Size, Sized
    <2>2. PICK t \in Sized : t = Cover!Target(s) /\ IF top THEN t.w <= Wide /\ t.h <= High ELSE t.w = Dim /\ t.h = Dim
      BY TargetFits
    <2>3. pixels' = [of |-> h, from |-> s, size |-> t, shows |-> Cover!Scaled(s, t)]
      BY <1>1, <2>1, <2>2 DEF Cover!Load
    <2>4. pixels'.of = h /\ pixels'.from = s /\ pixels'.size = t /\ pixels'.shows = Cover!Scaled(s, t)
      BY <2>3
    <2>5. s.w \in Nat /\ s.h \in Nat /\ t.w \in Nat /\ t.h \in Nat
      BY DEF Sized
    <2>6. ASSUME s.w >= t.w, s.h >= t.h PROVE Cover!Sampled(pixels')
      <3>1. t.w <= s.w /\ t.h <= s.h
        BY <2>5, <2>6
      <3>2. \A x \in 0 .. t.w - 1, y \in 0 .. t.h - 1 :
              Cover!Scaled(s, t)[y * t.w + x] = ((y * s.h) \div t.h) * s.w + (x * s.w) \div t.w
        BY <3>1, ScaledIsSampled
      <3> QED
        BY <2>4, <3>2 DEF Cover!Sampled
    <2>7. memory' = memory \/ (memory' = "overrun" /\ ~top /\ size.w * size.h < Dim * Dim)
      <3>1. memory' = IF Cover!Overruns(s, t) THEN "overrun" ELSE memory
        BY <1>1, <2>1, <2>2 DEF Cover!Load
      <3>2. ASSUME Cover!Overruns(s, t) PROVE ~top /\ s.w * s.h < Dim * Dim
        <4>1. ~top
          BY <2>2, <3>2, TopShrinks
        <4>2. t.w = Dim /\ t.h = Dim
          BY <2>2, <4>1
        <4>3. t.w * t.h > s.w * s.h
          BY <3>2 DEF Cover!Overruns
        <4>4. PICK a \in Nat, b \in Nat, d \in Nat : a = s.w /\ b = s.h /\ d = Dim /\ d * d > a * b
          BY <2>5, <4>2, <4>3
        <4>5. a * b < d * d
          BY <4>4
        <4> QED
          BY <4>1, <4>4, <4>5
      <3>3. memory' = memory \/ (memory' = "overrun" /\ Cover!Overruns(s, t))
        BY <3>1
      <3> QED
        BY <2>1, <3>2, <3>3, Zenon
    <2>8. pixels'.of \in Hash \cup {""}
      BY <2>4
    <2> QED
      BY <2>2, <2>4, <2>6, <2>7, <2>8, Zenon
  <1>2. CASE ~(h # "" /\ cover[h] = "good")
    <2>1. pixels' = Cover!NoPixels /\ memory' = memory
      BY <1>2 DEF Cover!Load
    <2>2. Cover!NoPixels.of = ""
      BY DEF Cover!NoPixels
    <2> QED
      BY <2>1, <2>2
  <1> QED
    BY <1>1, <1>2

\* A poll keeps the picture of the same cover, or loads another.
LEMMA CoverStep == CoverInv /\ [Cover!Next]_coverVars => CoverInv'
  <1> SUFFICES ASSUME CoverInv, [Cover!Next]_coverVars PROVE CoverInv'
    OBVIOUS
  <1>1. ASSUME NEW h \in Hash \cup {""}, Cover!Poll(h) PROVE CoverInv'
    <2>1. Cover!SetAlbumArt(h) /\ top' = top /\ size' = size /\ cover' = cover /\ hash' = h
      BY <1>1 DEF Cover!Poll, Cover!SetAlbumArt
    <2>2. changes' \in 0 .. MaxPolls
      <3>1. MaxPolls \in Nat
        BY CoverAssumption
      <3>2. changes \in 0 .. MaxPolls
        BY DEF CoverInv, Cover!TypeOK
      <3>3. CASE h = hash
        <4>1. changes' = changes + 0
          BY <1>1, <3>3 DEF Cover!Poll
        <4> QED
          BY <3>1, <3>2, <4>1, Counts, Zenon
      <3>4. CASE h # hash
        <4>1. changes' = changes + 1 /\ changes < MaxPolls
          BY <1>1, <3>4 DEF Cover!Poll
        <4> QED
          BY <3>1, <3>2, <4>1, Counts, Zenon
      <3> QED
        BY <3>3, <3>4
    <2>3. CASE h = hash /\ pixels # Cover!NoPixels
      <3>1. pixels' = pixels /\ memory' = memory
        BY <2>1, <2>3 DEF Cover!SetAlbumArt
      <3>2. Cover!TypeOK'
        BY <2>1, <2>2, <3>1 DEF CoverInv, Cover!TypeOK
      <3>3. Cover!CoverIsShown'
        BY <2>1, <2>3, <3>1 DEF CoverInv, Cover!CoverIsShown, Cover!Sampled, Cover!NoPixels
      <3> QED
        BY <3>2, <3>3 DEF CoverInv
    <2>4. CASE ~(h = hash /\ pixels # Cover!NoPixels)
      <3>1. Cover!Load(h)
        BY <2>1, <2>4 DEF Cover!SetAlbumArt
      <3>2. Cover!TypeOK'
        BY <2>1, <2>2, <3>1, LoadShows DEF CoverInv, Cover!TypeOK
      <3>3. Cover!CoverIsShown'
        BY <2>1, <3>1, LoadShows DEF CoverInv, Cover!CoverIsShown, Cover!Sampled, Cover!NoPixels
      <3> QED
        BY <3>2, <3>3 DEF CoverInv
    <2> QED
      BY <2>3, <2>4
  <1>2. ASSUME NEW h \in Hash, Cover!Download(h) \/ Cover!Remove(h) PROVE CoverInv'
    <2>1. /\ UNCHANGED <<top, size, hash, pixels, memory, changes>>
          /\ \E is \in {"missing", "bad", "good"} : cover' = [cover EXCEPT ![h] = is]
      BY <1>2 DEF Cover!Download, Cover!Remove
    <2>2. cover' \in [Hash -> {"missing", "bad", "good"}]
      BY <2>1 DEF CoverInv, Cover!TypeOK
    <2>3. Cover!TypeOK'
      BY <2>1, <2>2 DEF CoverInv, Cover!TypeOK
    <2>4. Cover!CoverIsShown'
      BY <2>1 DEF CoverInv, Cover!CoverIsShown, Cover!Sampled, Cover!NoPixels
    <2> QED
      BY <2>3, <2>4 DEF CoverInv
  <1>3. CASE UNCHANGED coverVars
    <2>1. UNCHANGED <<top, size, cover, hash, pixels, memory, changes>>
      BY <1>3 DEF coverVars
    <2>2. Cover!TypeOK'
      BY <2>1 DEF CoverInv, Cover!TypeOK
    <2>3. Cover!CoverIsShown'
      BY <2>1 DEF CoverInv, Cover!CoverIsShown, Cover!Sampled, Cover!NoPixels
    <2> QED
      BY <2>2, <2>3 DEF CoverInv
  <1>4. CASE Cover!Crash
    <2>1. UNCHANGED <<top, size, cover, hash, pixels, changes>> /\ memory = "overrun" /\ memory' = "crashed"
      BY <1>4 DEF Cover!Crash
    <2>2. Cover!TypeOK'
      BY <2>1 DEF CoverInv, Cover!TypeOK
    <2>3. Cover!CoverIsShown'
      BY <2>1 DEF CoverInv, Cover!CoverIsShown, Cover!Sampled, Cover!NoPixels
    <2> QED
      BY <2>2, <2>3 DEF CoverInv
  <1> QED
    BY <1>1, <1>2, <1>3, <1>4 DEF Cover!Next

\* The invariant is what the part promises.
LEMMA CoverHolds == CoverInv => Cover!TypeOK /\ Cover!CoverIsShown
  BY DEF CoverInv

-----------------------------------------------------------------------------

(* DeviceList: how far the list is for a device that is left alone.         *)

BeingRead == snap \cup half.id

\* The state of a poll: what it has not come to, or has done with, is empty.
Phases ==
  /\ Listing!TypeOK /\ IsFiniteSet(rows) /\ IsFiniteSet(screen) /\ half.id \subseteq Known
  /\ poll \in {"idle", "sessions", "active", "files"}
  /\ poll # "sessions" => half = Listing!NoHalf /\ snap = {}
  /\ poll # "files" => left = {}
  /\ orphan => stops
  /\ stops => touched = Known
  /\ DOMAIN kept \subseteq touched

\* A device is in one place of a poll, and has a session until its file is looked for.
OnePlace ==
  ~stops =>
    /\ Listing!ListedOnce
    /\ snap \cap half.id = {}
    /\ \A e \in rows : e.id \notin BeingRead \cup left
    /\ poll \in {"sessions", "active"} =>
         (\A d \in BeingRead : conn[d] # "none") /\ \A e \in rows : conn[e.id] # "none"

SessionRow(d) ==
  [id |-> d, from |-> "session", pair |-> IF bond[d] THEN "Paired" ELSE wish[d], connected |-> conn[d] = "up"]

FileRow(d) == [id |-> d, from |-> "file", pair |-> "Paired", connected |-> FALSE]

Listed(d) ==
  /\ (\E e \in rows : e.id = d) => conn[d] # "none" \/ d \in saved
  /\ conn[d] # "none" => \/ d \in snap
                         \/ half.id = {d} /\ half.paired = bond[d]
                         \/ SessionRow(d) \in rows
                         \/ ~Listing!Room
  /\ (conn[d] = "none" /\ d \in saved) => \/ poll \in {"sessions", "active"}
                                          \/ d \in left
                                          \/ FileRow(d) \in rows
                                          \/ ~Listing!Room

\* A device that was left alone is still to be read, or listed as it is, or there is
\* no room for it.
Followed == poll # "idle" => \A d \in Known \ touched : Listed(d)

ListInv == Phases /\ OnePlace /\ Followed /\ Listing!UntouchedIsShown

\* What is assumed of the devices.
LEMMA ListAssumption == IsFiniteSet(Known) /\ Places \in Nat /\ MaxEvents \in Nat
  BY PeerAssumption

\* What it means that there is room.
LEMMA RoomLeft == (Listing!Room <=> Cardinality(rows) < Places) /\ (Listing!Room' <=> Cardinality(rows') < Places)
  BY DEF Listing!Room, Listing!Cardinality, Cardinality

\* What it means that a device that was left alone is shown, now ...
LEMMA ShownWhole ==
  Listing!UntouchedIsShown <=>
    (poll = "idle" /\ Cardinality(screen) < Places => \A d \in Known \ touched : Listing!Displayed(d) = Listing!Truth(d))
  BY DEF Listing!UntouchedIsShown, Listing!Cardinality, Cardinality

\* ... and after a step.
LEMMA ShownWholeNext ==
  Listing!UntouchedIsShown' <=>
    (poll' = "idle" /\ Cardinality(screen') < Places => \A d \in Known \ touched' : Listing!Displayed(d)' = Listing!Truth(d)')
  BY DEF Listing!UntouchedIsShown, Listing!Cardinality, Cardinality

\* Nothing is listed before the first poll.
LEMMA ListInit == Listing!Init => ListInv
  <1> SUFFICES ASSUME Listing!Init PROVE ListInv
    OBVIOUS
  <1>1. /\ poll = "idle" /\ snap = {} /\ half = Listing!NoHalf /\ rows = {} /\ left = {} /\ screen = {}
        /\ touched = Known /\ stops = FALSE /\ orphan = FALSE /\ kept = [d \in {} |-> FALSE]
    BY DEF Listing!Init
  <1>2. DOMAIN kept = {} /\ half.id = {}
    BY <1>1 DEF Listing!NoHalf
  <1>3. 0 \in 0 .. MaxEvents
    BY ListAssumption
  <1>4. Listing!TypeOK
    <2>1. conn \in [Known -> {"none", "up", "down"}] /\ bond \in [Known -> BOOLEAN] /\ wish \in [Known -> {"None", "ByMe", "ByPeer"}]
      BY DEF Listing!Init
    <2>2. client \in BOOLEAN /\ saved \subseteq Known /\ events \in 0 .. MaxEvents
      BY <1>3 DEF Listing!Init
    <2> QED
      BY <1>1, <1>2, <2>1, <2>2 DEF Listing!TypeOK
  <1>5. IsFiniteSet(rows) /\ IsFiniteSet(screen)
    BY <1>1, FS_EmptySet
  <1>6. Phases
    BY <1>1, <1>2, <1>4, <1>5 DEF Phases
  <1>7. OnePlace
    BY <1>1, <1>2 DEF OnePlace, BeingRead, Listing!ListedOnce
  <1>8. Followed /\ Listing!UntouchedIsShown
    BY <1>1 DEF Followed, Listing!UntouchedIsShown
  <1> QED
    BY <1>6, <1>7, <1>8 DEF ListInv

\* What a device is listed as, if it is left alone, depends on it alone.
LEMMA TruthOf ==
  ASSUME NEW d, conn'[d] = conn[d], bond'[d] = bond[d], wish'[d] = wish[d], d \in saved' <=> d \in saved
  PROVE  /\ Listing!Truth(d)' = Listing!Truth(d)
         /\ SessionRow(d)' = SessionRow(d) /\ FileRow(d)' = FileRow(d)
  BY DEF Listing!Truth, SessionRow, FileRow

\* Something happens to one device: it is no longer left alone, and the others are.
LEMMA HappensKeeps ==
  ASSUME ListInv, NEW d \in Known, Listing!Happens(d),
         conn' \in [Known -> {"none", "up", "down"}], bond' \in [Known -> BOOLEAN],
         wish' \in [Known -> {"None", "ByMe", "ByPeer"}], saved' \subseteq Known,
         client' \in BOOLEAN, DOMAIN kept' \subseteq DOMAIN kept \cup {d},
         orphan' = orphan, stops' = stops,
         conn[d] # "none" => conn'[d] # "none",
         \A e \in Known \ {d} : conn'[e] = conn[e] /\ bond'[e] = bond[e] /\ wish'[e] = wish[e] /\ (e \in saved' <=> e \in saved)
  PROVE  ListInv'
  <1>1. /\ touched' = touched \cup {d} /\ poll' = poll /\ snap' = snap /\ half' = half /\ rows' = rows /\ left' = left /\ screen' = screen
        /\ events < MaxEvents /\ events' = events + 1
    BY DEF Listing!Happens
  <1>2. /\ Listing!TypeOK /\ rows \subseteq Listing!Entry /\ touched \subseteq Known
    BY DEF ListInv, Phases, Listing!TypeOK
  <1>3. events' \in 0 .. MaxEvents
    <2>1. MaxEvents \in Nat /\ events \in 0 .. MaxEvents
      BY <1>2, ListAssumption DEF Listing!TypeOK
    <2> QED
      BY <1>1, <2>1, Counts, Zenon
  <1>4. DOMAIN kept' \subseteq touched' /\ DOMAIN kept' \subseteq Known
    BY <1>1, <1>2 DEF ListInv, Phases, Listing!TypeOK
  <1>5. Listing!TypeOK'
    BY <1>1, <1>2, <1>3, <1>4 DEF Listing!TypeOK, Listing!Entry
  <1>6. Phases'
    BY <1>1, <1>2, <1>4, <1>5 DEF ListInv, Phases, Listing!NoHalf
  <1>7. \A e \in Known : conn[e] # "none" => conn'[e] # "none"
    OBVIOUS
  <1>8. OnePlace'
    <2>1. BeingRead' = BeingRead
      BY <1>1 DEF BeingRead
    <2>2. BeingRead \subseteq Known /\ \A e \in rows : e.id \in Known
      BY <1>2 DEF BeingRead, ListInv, Phases, Listing!TypeOK, Listing!Entry
    <2> QED
      BY <1>1, <1>7, <2>1, <2>2 DEF ListInv, OnePlace, Listing!ListedOnce
  <1>9. ASSUME NEW e \in Known \ touched' PROVE e \in Known \ {d} /\ e \in Known \ touched
    BY <1>1
  <1>10. Listing!Room' = Listing!Room
    BY <1>1 DEF Listing!Room
  <1>11. Followed'
    <2> SUFFICES ASSUME poll # "idle", NEW e \in Known \ touched' PROVE Listed(e)'
      BY <1>1 DEF Followed
    <2>1. Listed(e) /\ e \in Known \ {d}
      BY <1>9 DEF ListInv, Followed
    <2>2. SessionRow(e)' = SessionRow(e) /\ FileRow(e)' = FileRow(e)
      BY <2>1, TruthOf
    <2> QED
      BY <1>1, <1>10, <2>1, <2>2 DEF Listed
  <1>12. Listing!UntouchedIsShown'
    <2> SUFFICES ASSUME poll = "idle", Cardinality(screen) < Places, NEW e \in Known \ touched'
                 PROVE  Listing!Displayed(e)' = Listing!Truth(e)'
      BY <1>1, ShownWholeNext
    <2>1. e \in Known \ {d} /\ e \in Known \ touched
      BY <1>9
    <2>2. Listing!Truth(e)' = Listing!Truth(e)
      BY <2>1, TruthOf
    <2>3. Listing!Displayed(e) = Listing!Truth(e)
      BY <2>1, ShownWhole DEF ListInv
    <2>4. Listing!Displayed(e)' = Listing!Displayed(e)
      BY <1>1 DEF Listing!Displayed
    <2> QED
      BY <2>2, <2>3, <2>4
  <1> QED
    BY <1>6, <1>8, <1>11, <1>12 DEF ListInv

\* What happens to a device happens to no other.
LEMMA DeviceKeeps == ASSUME ListInv, NEW d \in Known, Listing!Device(d) PROVE ListInv'
  <1>1. /\ conn \in [Known -> {"none", "up", "down"}] /\ bond \in [Known -> BOOLEAN]
        /\ wish \in [Known -> {"None", "ByMe", "ByPeer"}] /\ saved \subseteq Known /\ client \in BOOLEAN
        /\ DOMAIN kept \subseteq DOMAIN kept \cup {d}
    BY DEF ListInv, Phases, Listing!TypeOK
  <1>2. CASE Listing!Connect(d)
    <2>1. /\ Listing!Happens(d) /\ UNCHANGED <<client, saved, orphan, stops>>
          /\ conn' = [conn EXCEPT ![d] = "up"] /\ bond' = [bond EXCEPT ![d] = d \in saved]
          /\ wish' = [wish EXCEPT ![d] = "None"]
      BY <1>2 DEF Listing!Connect
    <2>2. DOMAIN kept' \subseteq DOMAIN kept \cup {d}
      <3>1. kept' = kept \/ kept' = [e \in DOMAIN kept \cup {d} |-> IF e = d THEN bond[d] ELSE kept[e]]
        BY <1>2 DEF Listing!Connect
      <3> QED
        BY <3>1
    <2>3. /\ conn' \in [Known -> {"none", "up", "down"}] /\ bond' \in [Known -> BOOLEAN]
          /\ wish' \in [Known -> {"None", "ByMe", "ByPeer"}] /\ conn'[d] # "none"
      BY <1>1, <2>1
    <2>4. \A e \in Known \ {d} : conn'[e] = conn[e] /\ bond'[e] = bond[e] /\ wish'[e] = wish[e] /\ (e \in saved' <=> e \in saved)
      BY <1>1, <2>1
    <2> QED
      BY <1>1, <2>1, <2>2, <2>3, <2>4, HappensKeeps
  <1>3. CASE Listing!Drop(d)
    <2>1. /\ Listing!Happens(d) /\ UNCHANGED <<client, bond, wish, saved, kept, orphan, stops>>
          /\ conn' = [conn EXCEPT ![d] = "down"]
      BY <1>3 DEF Listing!Drop
    <2>2. conn' \in [Known -> {"none", "up", "down"}] /\ conn'[d] # "none" /\ \A e \in Known \ {d} : conn'[e] = conn[e]
      BY <1>1, <2>1
    <2> QED
      BY <1>1, <2>1, <2>2, HappensKeeps
  <1>4. CASE Listing!Wish(d)
    <2>1. /\ Listing!Happens(d) /\ UNCHANGED <<client, conn, bond, saved, kept, orphan, stops>>
          /\ \E w \in {"ByMe", "ByPeer"} : wish' = [wish EXCEPT ![d] = w]
      BY <1>4 DEF Listing!Wish
    <2>2. wish' \in [Known -> {"None", "ByMe", "ByPeer"}] /\ \A e \in Known \ {d} : wish'[e] = wish[e]
      BY <1>1, <2>1
    <2> QED
      BY <1>1, <2>1, <2>2, HappensKeeps
  <1>5. CASE Listing!Decide(d)
    <2>1. PICK yes \in BOOLEAN :
            /\ bond' = [bond EXCEPT ![d] = yes]
            /\ saved' = IF yes THEN saved \cup {d} ELSE saved
      BY <1>5 DEF Listing!Decide
    <2>2. /\ Listing!Happens(d) /\ UNCHANGED <<client, conn, kept, orphan, stops>>
          /\ wish' = [wish EXCEPT ![d] = "None"]
      BY <1>5 DEF Listing!Decide
    <2>3. /\ bond' \in [Known -> BOOLEAN] /\ wish' \in [Known -> {"None", "ByMe", "ByPeer"}] /\ saved' \subseteq Known
          /\ \A e \in Known \ {d} : bond'[e] = bond[e] /\ wish'[e] = wish[e] /\ (e \in saved' <=> e \in saved)
      BY <1>1, <2>1, <2>2
    <2> QED
      BY <1>1, <2>2, <2>3, HappensKeeps
  <1>6. CASE Listing!Unpair(d)
    <2>1. /\ Listing!Happens(d) /\ UNCHANGED <<client, conn, wish, kept, orphan, stops>>
          /\ bond' = [bond EXCEPT ![d] = FALSE] /\ saved' = saved \ {d}
      BY <1>6 DEF Listing!Unpair
    <2>2. /\ bond' \in [Known -> BOOLEAN] /\ saved' \subseteq Known
          /\ \A e \in Known \ {d} : bond'[e] = bond[e] /\ (e \in saved' <=> e \in saved)
      BY <1>1, <2>1
    <2> QED
      BY <1>1, <2>1, <2>2, HappensKeeps
  <1> QED
    BY <1>2, <1>3, <1>4, <1>5, <1>6 DEF Listing!Device

\* A client that is stopped, or made: nothing is left alone, or nothing is said of it.
LEMMA ClientKeeps == ASSUME ListInv, Listing!Stop \/ Listing!Make PROVE ListInv'
  <1>1. CASE Listing!Stop
    <2>1. /\ client' = FALSE /\ conn' = [d \in Known |-> "none"] /\ bond' = [d \in Known |-> FALSE]
          /\ wish' = [d \in Known |-> "None"] /\ orphan' = (poll # "idle") /\ stops' = (stops \/ poll # "idle")
          /\ touched' = Known /\ events < MaxEvents /\ events' = events + 1
          /\ UNCHANGED <<saved, poll, snap, half, rows, left, screen>>
      BY <1>1 DEF Listing!Stop
    <2>2. DOMAIN kept' \subseteq Known
      <3>1. DOMAIN kept \subseteq Known /\ snap \subseteq Known /\ half.id \subseteq Known
        BY DEF ListInv, Phases, Listing!TypeOK
      <3>2. \/ kept' = kept
            \/ kept' = [e \in DOMAIN kept \cup snap \cup half.id |-> IF e \in DOMAIN kept THEN kept[e] ELSE bond[e]]
        BY <1>1 DEF Listing!Stop
      <3> QED
        BY <3>1, <3>2
    <2>3. events' \in 0 .. MaxEvents
      <3>1. MaxEvents \in Nat /\ events \in 0 .. MaxEvents
        BY ListAssumption DEF ListInv, Phases, Listing!TypeOK
      <3> QED
        BY <2>1, <3>1, Counts, Zenon
    <2>4. Listing!TypeOK'
      <3>1. /\ conn' \in [Known -> {"none", "up", "down"}] /\ bond' \in [Known -> BOOLEAN]
            /\ wish' \in [Known -> {"None", "ByMe", "ByPeer"}] /\ client' \in BOOLEAN
            /\ orphan' \in BOOLEAN
        BY <2>1
      <3>2. stops' \in BOOLEAN
        BY <2>1 DEF ListInv, Phases, Listing!TypeOK
      <3> QED
        BY <2>1, <2>2, <2>3, <3>1, <3>2 DEF ListInv, Phases, Listing!TypeOK, Listing!Entry
    <2>5. Phases'
      BY <2>1, <2>2, <2>4 DEF ListInv, Phases, Listing!NoHalf
    <2>6. OnePlace'
      <3> SUFFICES ASSUME ~stops' PROVE OnePlace'
        BY DEF OnePlace
      <3>1. poll = "idle" /\ ~stops
        BY <2>1
      <3> QED
        BY <2>1, <3>1 DEF ListInv, OnePlace, BeingRead, Listing!ListedOnce
    <2>7. Followed' /\ Listing!UntouchedIsShown'
      BY <2>1, ShownWholeNext DEF Followed
    <2> QED
      BY <2>5, <2>6, <2>7 DEF ListInv
  <1>2. CASE Listing!Make
    <2>1. /\ client' = TRUE
          /\ UNCHANGED <<conn, bond, wish, saved, poll, snap, kept, half, rows, orphan, left, screen, touched, stops, events>>
      BY <1>2 DEF Listing!Make
    <2>2. Phases'
      BY <2>1 DEF ListInv, Phases, Listing!TypeOK, Listing!Entry, Listing!NoHalf
    <2>3. OnePlace'
      BY <2>1 DEF ListInv, OnePlace, BeingRead, Listing!ListedOnce
    <2>4. Listing!Room' = Listing!Room
      BY <2>1 DEF Listing!Room
    <2>5. Followed'
      BY <2>1, <2>4 DEF ListInv, Followed, Listed, SessionRow, FileRow
    <2>6. Listing!UntouchedIsShown'
      BY <2>1 DEF ListInv, Listing!UntouchedIsShown, Listing!Displayed, Listing!Truth
    <2> QED
      BY <2>2, <2>3, <2>5, <2>6 DEF ListInv
  <1> QED
    BY <1>1, <1>2

\* A list that is full stays full.
LEMMA FullStays ==
  ASSUME IsFiniteSet(rows), NEW x, rows' = rows \cup {x}
  PROVE  IsFiniteSet(rows') /\ (~Listing!Room => ~Listing!Room')
  <1>1. IsFiniteSet(rows') /\ Cardinality(rows') = IF x \in rows THEN Cardinality(rows) ELSE Cardinality(rows) + 1
    BY FS_AddElement
  <1>2. Cardinality(rows) \in Nat /\ Places \in Nat
    BY FS_CardinalityType, ListAssumption
  <1>3. Cardinality(rows) <= Cardinality(rows')
    BY <1>1, <1>2
  <1>4. Cardinality(rows') \in Nat
    BY <1>1, FS_CardinalityType
  <1> QED
    BY <1>1, <1>2, <1>3, <1>4, RoomLeft

\* A step of the poll tells nothing new of a device, and changes none.
LEMMA PollSame ==
  ASSUME UNCHANGED Listing!devices
  PROVE  /\ UNCHANGED <<client, conn, bond, wish, saved>>
         /\ \A d : Listing!Truth(d)' = Listing!Truth(d) /\ SessionRow(d)' = SessionRow(d) /\ FileRow(d)' = FileRow(d)
  BY DEF Listing!devices, Listing!Truth, SessionRow, FileRow

\* A poll begins: every session is to be read.
LEMMA BeginListKeeps == ASSUME ListInv, Listing!Begin PROVE ListInv'
  <1>1. /\ poll' = "sessions" /\ snap' = Listing!Sessions /\ rows' = {} /\ kept' = [d \in {} |-> FALSE]
        /\ orphan' = FALSE /\ touched' = {} /\ stops' = FALSE /\ poll = "idle"
        /\ UNCHANGED <<half, left, screen, events>> /\ UNCHANGED Listing!devices
    BY DEF Listing!Begin
  <1>2. UNCHANGED <<client, conn, bond, wish, saved>>
    BY <1>1, PollSame
  <1>3. half = Listing!NoHalf /\ half.id = {} /\ left = {}
    BY <1>1 DEF ListInv, Phases, Listing!NoHalf
  <1>4. DOMAIN kept' = {} /\ IsFiniteSet(rows')
    BY <1>1, FS_EmptySet
  <1>5. snap' \subseteq Known /\ \A d \in Known : d \in snap' <=> conn[d] # "none"
    BY <1>1 DEF Listing!Sessions
  <1>6. Listing!TypeOK'
    BY <1>1, <1>2, <1>4, <1>5 DEF ListInv, Phases, Listing!TypeOK, Listing!Entry
  <1>7. IsFiniteSet(screen')
    BY <1>1 DEF ListInv, Phases
  <1>11. Phases'
    BY <1>1, <1>3, <1>4, <1>6, <1>7 DEF Phases, Listing!NoHalf
  <1>8. OnePlace'
    BY <1>1, <1>2, <1>3, <1>5 DEF OnePlace, BeingRead, Listing!ListedOnce
  <1>9. Followed'
    BY <1>1, <1>2, <1>5 DEF Followed, Listed
  <1>10. Listing!UntouchedIsShown'
    BY <1>1, ShownWholeNext
  <1> QED
    BY <1>11, <1>8, <1>9, <1>10 DEF ListInv

\* Whether a session is paired is read.
LEMMA ReadPairedKeeps == ASSUME ListInv, NEW d \in Known, Listing!ReadPaired(d) PROVE ListInv'
  <1>1. /\ poll = "sessions" /\ half = Listing!NoHalf /\ d \in snap /\ snap' = snap \ {d}
        /\ half' = [id |-> {d}, paired |-> IF d \in DOMAIN kept THEN kept[d] ELSE bond[d]]
        /\ UNCHANGED <<poll, kept, rows, orphan, left, screen, touched, stops, events>> /\ UNCHANGED Listing!devices
    BY DEF Listing!ReadPaired
  <1>2. UNCHANGED <<client, conn, bond, wish, saved>>
    BY <1>1, PollSame
  <1>3. half.id = {} /\ half'.id = {d} /\ half'.paired = IF d \in DOMAIN kept THEN kept[d] ELSE bond[d]
    BY <1>1 DEF Listing!NoHalf
  <1>4. BeingRead' = BeingRead
    BY <1>1, <1>3 DEF BeingRead
  <1>5. Listing!TypeOK'
    BY <1>1, <1>2 DEF ListInv, Phases, Listing!TypeOK, Listing!Entry
  <1>6. Phases'
    BY <1>1, <1>3, <1>5 DEF ListInv, Phases
  <1>7. OnePlace'
    BY <1>1, <1>2, <1>3, <1>4 DEF ListInv, OnePlace, Listing!ListedOnce
  <1>8. Listing!Room' = Listing!Room
    BY <1>1 DEF Listing!Room
  <1>9. Followed'
    <2> SUFFICES ASSUME NEW e \in Known \ touched PROVE Listed(e)'
      BY <1>1 DEF Followed
    <2>1. Listed(e)
      BY <1>1 DEF ListInv, Followed
    <2>2. SessionRow(e)' = SessionRow(e) /\ FileRow(e)' = FileRow(e)
      BY <1>1, PollSame
    <2>3. half.id # {e}
      BY <1>3
    <2>4. CASE e = d
      <3>1. e \notin DOMAIN kept
        BY DEF ListInv, Phases
      <3>2. half'.id = {e} /\ half'.paired = bond[e]
        BY <1>3, <2>4, <3>1
      <3> QED
        BY <1>1, <1>2, <1>8, <2>1, <2>2, <3>2 DEF Listed
    <2>5. CASE e # d
      <3>1. e \in snap' <=> e \in snap
        BY <1>1, <2>5
      <3> QED
        BY <1>1, <1>2, <1>8, <2>1, <2>2, <2>3, <3>1 DEF Listed
    <2> QED
      BY <2>4, <2>5
  <1>10. Listing!UntouchedIsShown'
    BY <1>1, ShownWholeNext
  <1> QED
    BY <1>6, <1>7, <1>9, <1>10 DEF ListInv

\* A session is listed.
LEMMA ReadRestKeeps == ASSUME ListInv, NEW d \in Known, Listing!ReadRest(d) PROVE ListInv'
  <1> DEFINE x == [id |-> d, from |-> "session",
                   pair |-> IF half.paired THEN "Paired" ELSE IF d \in DOMAIN kept THEN "None" ELSE wish[d],
                   connected |-> d \notin DOMAIN kept /\ conn[d] = "up"]
  <1>1. /\ half.id = {d} /\ rows' = rows \cup {x} /\ half' = Listing!NoHalf
        /\ UNCHANGED <<poll, snap, kept, orphan, left, screen, touched, stops, events>> /\ UNCHANGED Listing!devices
    BY DEF Listing!ReadRest
  <1>2. UNCHANGED <<client, conn, bond, wish, saved>>
    BY <1>1, PollSame
  <1>3. half'.id = {} /\ poll = "sessions" /\ x.id = d
    BY <1>1 DEF ListInv, Phases, Listing!NoHalf
  <1>4. x \in Listing!Entry
    <2>1. wish[d] \in {"None", "ByMe", "ByPeer"}
      BY DEF ListInv, Phases, Listing!TypeOK
    <2>2. (IF half.paired THEN "Paired" ELSE IF d \in DOMAIN kept THEN "None" ELSE wish[d]) \in {"None", "ByMe", "ByPeer", "Paired"}
      BY <2>1
    <2>3. (d \notin DOMAIN kept /\ conn[d] = "up") \in BOOLEAN
      OBVIOUS
    <2> QED
      BY <2>2, <2>3 DEF Listing!Entry
  <1>5. ASSUME NEW e \in Known \ touched, e = d PROVE x = SessionRow(e) \/ half.paired # bond[e]
    <2>1. e \notin DOMAIN kept
      BY <1>5 DEF ListInv, Phases
    <2> QED
      BY <1>5, <2>1 DEF SessionRow
  <1> HIDE DEF x
  <1>6. IsFiniteSet(rows') /\ (~Listing!Room => ~Listing!Room')
    BY <1>1, FullStays DEF ListInv, Phases
  <1>7. Listing!TypeOK'
    BY <1>1, <1>2, <1>4 DEF ListInv, Phases, Listing!TypeOK, Listing!Entry
  <1>8. Phases'
    BY <1>1, <1>3, <1>6, <1>7 DEF ListInv, Phases, Listing!NoHalf
  <1>9. OnePlace'
    <2> SUFFICES ASSUME ~stops PROVE OnePlace'
      BY <1>1 DEF OnePlace
    <2>1. /\ \A e, f \in rows : e.id = f.id => e = f
          /\ snap \cap half.id = {} /\ \A e \in rows : e.id \notin snap \cup half.id \cup left
          /\ (\A e \in snap \cup half.id : conn[e] # "none") /\ \A e \in rows : conn[e.id] # "none"
      BY <1>3 DEF ListInv, OnePlace, BeingRead, Listing!ListedOnce
    <2>2. \A e \in rows : e.id # d
      BY <1>1, <2>1
    <2>3. \A e, f \in rows' : e.id = f.id => e = f
      BY <1>1, <1>3, <2>1, <2>2
    <2>4. left' = {}
      BY <1>1, <1>3 DEF ListInv, Phases
    <2>5. conn[d] # "none" /\ d \notin snap
      BY <1>1, <2>1
    <2>6. \A e \in rows' : e.id \notin snap /\ conn[e.id] # "none"
      BY <1>1, <1>3, <2>1, <2>5
    <2> QED
      BY <1>1, <1>2, <1>3, <2>1, <2>3, <2>4, <2>6 DEF OnePlace, BeingRead, Listing!ListedOnce
  <1>10. Followed'
    <2> SUFFICES ASSUME NEW e \in Known \ touched PROVE Listed(e)'
      BY <1>1 DEF Followed
    <2>1. Listed(e)
      BY <1>3 DEF ListInv, Followed
    <2>2. SessionRow(e)' = SessionRow(e) /\ FileRow(e)' = FileRow(e)
      BY <1>1, PollSame
    <2>3. e = d => conn[e] # "none"
      <3>1. ~stops
        BY DEF ListInv, Phases
      <3> QED
        BY <1>1, <1>3, <3>1 DEF ListInv, OnePlace, BeingRead
    <2>4. (\E f \in rows' : f.id = e) => conn[e] # "none" \/ e \in saved
      BY <1>1, <1>3, <2>1, <2>3 DEF Listed
    <2>5. conn[e] # "none" => e \in snap \/ SessionRow(e) \in rows' \/ ~Listing!Room'
      BY <1>1, <1>5, <1>6, <2>1 DEF Listed
    <2> QED
      BY <1>1, <1>2, <1>3, <2>2, <2>4, <2>5 DEF Listed
  <1>11. Listing!UntouchedIsShown'
    BY <1>1, <1>3, ShownWholeNext
  <1> QED
    BY <1>8, <1>9, <1>10, <1>11 DEF ListInv

\* All sessions are read, or there is no room for more.
LEMMA EndSessionsKeeps == ASSUME ListInv, Listing!EndSessions PROVE ListInv'
  <1>1. /\ poll = "sessions" /\ half = Listing!NoHalf /\ (snap = {} \/ ~Listing!Room) /\ poll' = "active" /\ snap' = {}
        /\ UNCHANGED <<kept, half, rows, orphan, left, screen, touched, stops, events>> /\ UNCHANGED Listing!devices
    BY DEF Listing!EndSessions
  <1>2. UNCHANGED <<client, conn, bond, wish, saved>>
    BY <1>1, PollSame
  <1>3. Listing!TypeOK'
    BY <1>1, <1>2 DEF ListInv, Phases, Listing!TypeOK, Listing!Entry
  <1>4. Phases'
    BY <1>1, <1>3 DEF ListInv, Phases, Listing!NoHalf
  <1>5. OnePlace'
    BY <1>1, <1>2 DEF ListInv, OnePlace, BeingRead, Listing!ListedOnce
  <1>6. Listing!Room' = Listing!Room
    BY <1>1 DEF Listing!Room
  <1>7. Followed'
    <2> SUFFICES ASSUME NEW e \in Known \ touched PROVE Listed(e)'
      BY <1>1 DEF Followed
    <2>1. Listed(e)
      BY <1>1 DEF ListInv, Followed
    <2>2. SessionRow(e)' = SessionRow(e) /\ FileRow(e)' = FileRow(e)
      BY <1>1, PollSame
    <2> QED
      BY <1>1, <1>2, <1>6, <2>1, <2>2 DEF Listed
  <1>8. Listing!UntouchedIsShown'
    BY <1>1, ShownWholeNext
  <1> QED
    BY <1>4, <1>5, <1>7, <1>8 DEF ListInv

\* The devices without a session are to be looked for in the files.
LEMMA ReadActiveKeeps == ASSUME ListInv, Listing!ReadActive PROVE ListInv'
  <1>1. /\ poll = "active" /\ poll' = "files" /\ left' = (IF orphan THEN saved ELSE saved \ Listing!Sessions)
        /\ UNCHANGED <<snap, kept, half, rows, orphan, screen, touched, stops, events>> /\ UNCHANGED Listing!devices
    BY DEF Listing!ReadActive
  <1>2. UNCHANGED <<client, conn, bond, wish, saved>>
    BY <1>1, PollSame
  <1>3. half = Listing!NoHalf /\ half.id = {} /\ snap = {}
    BY <1>1 DEF ListInv, Phases, Listing!NoHalf
  <1>4. saved \subseteq Known /\ rows \subseteq Listing!Entry
    BY DEF ListInv, Phases, Listing!TypeOK
  <1>5. left' \subseteq saved /\ (\A d \in saved : conn[d] = "none" => d \in left')
        /\ (~orphan => \A d \in left' : conn[d] = "none")
    BY <1>1, <1>4 DEF Listing!Sessions
  <1>6. Listing!TypeOK'
    BY <1>1, <1>2, <1>4, <1>5 DEF ListInv, Phases, Listing!TypeOK, Listing!Entry
  <1>7. Phases'
    BY <1>1, <1>6 DEF ListInv, Phases, Listing!NoHalf
  <1>8. OnePlace'
    <2> SUFFICES ASSUME ~stops PROVE OnePlace'
      BY <1>1 DEF OnePlace
    <2>1. ~orphan
      BY DEF ListInv, Phases
    <2>2. \A e \in rows : e.id \notin left'
      BY <1>1, <1>5, <2>1 DEF ListInv, OnePlace
    <2> QED
      BY <1>1, <1>3, <2>2 DEF ListInv, OnePlace, BeingRead, Listing!ListedOnce
  <1>9. Listing!Room' = Listing!Room
    BY <1>1 DEF Listing!Room
  <1>10. Followed'
    <2> SUFFICES ASSUME NEW e \in Known \ touched PROVE Listed(e)'
      BY <1>1 DEF Followed
    <2>1. Listed(e)
      BY <1>1 DEF ListInv, Followed
    <2>2. SessionRow(e)' = SessionRow(e) /\ FileRow(e)' = FileRow(e)
      BY <1>1, PollSame
    <2> QED
      BY <1>1, <1>2, <1>5, <1>9, <2>1, <2>2 DEF Listed
  <1>11. Listing!UntouchedIsShown'
    BY <1>1, ShownWholeNext
  <1> QED
    BY <1>7, <1>8, <1>10, <1>11 DEF ListInv

\* A file is listed, if it is still there and there is room.
LEMMA ReadFileKeeps == ASSUME ListInv, NEW d \in Known, Listing!ReadFile(d) PROVE ListInv'
  <1>1. /\ poll = "files" /\ d \in left /\ left' = left \ {d}
        /\ rows' = IF d \in saved /\ Listing!Room THEN rows \cup {FileRow(d)} ELSE rows
        /\ UNCHANGED <<poll, snap, kept, half, orphan, screen, touched, stops, events>> /\ UNCHANGED Listing!devices
    BY DEF Listing!ReadFile, FileRow
  <1>2. UNCHANGED <<client, conn, bond, wish, saved>>
    BY <1>1, PollSame
  <1>3. half = Listing!NoHalf /\ half.id = {} /\ snap = {}
    BY <1>1 DEF ListInv, Phases, Listing!NoHalf
  <1>4. FileRow(d) \in Listing!Entry /\ FileRow(d).id = d
    BY DEF FileRow, Listing!Entry
  <1>5. IsFiniteSet(rows') /\ (~Listing!Room => ~Listing!Room')
    <2>1. CASE rows' = rows \cup {FileRow(d)}
      BY <2>1, FullStays DEF ListInv, Phases
    <2>2. CASE rows' = rows
      BY <2>2 DEF ListInv, Phases, Listing!Room
    <2> QED
      BY <1>1, <2>1, <2>2
  <1>6. Listing!TypeOK'
    <2>1. rows' \subseteq Listing!Entry /\ left' \subseteq Known
      BY <1>1, <1>4 DEF ListInv, Phases, Listing!TypeOK
    <2> QED
      BY <1>1, <1>2, <2>1 DEF ListInv, Phases, Listing!TypeOK, Listing!Entry
  <1>7. Phases'
    BY <1>1, <1>5, <1>6 DEF ListInv, Phases, Listing!NoHalf
  <1>8. OnePlace'
    <2> SUFFICES ASSUME ~stops PROVE OnePlace'
      BY <1>1 DEF OnePlace
    <2>1. (\A e, f \in rows : e.id = f.id => e = f) /\ \A e \in rows : e.id \notin left
      BY DEF ListInv, OnePlace, Listing!ListedOnce
    <2>2. (\A e, f \in rows' : e.id = f.id => e = f) /\ \A e \in rows' : e.id \notin left'
      BY <1>1, <1>4, <2>1
    <2> QED
      BY <1>1, <1>3, <2>2 DEF OnePlace, BeingRead, Listing!ListedOnce
  <1>9. Followed'
    <2> SUFFICES ASSUME NEW e \in Known \ touched PROVE Listed(e)'
      BY <1>1 DEF Followed
    <2>1. Listed(e)
      BY <1>1 DEF ListInv, Followed
    <2>2. SessionRow(e)' = SessionRow(e) /\ FileRow(e)' = FileRow(e)
      BY <1>1, PollSame
    <2>3. (\E f \in rows' : f.id = e) => conn[e] # "none" \/ e \in saved
      BY <1>1, <1>4, <2>1 DEF Listed
    <2>4. rows \subseteq rows'
      BY <1>1
    <2>5. conn[e] # "none" => SessionRow(e) \in rows' \/ ~Listing!Room'
      BY <1>3, <1>5, <2>1, <2>4 DEF Listed
    <2>6. (conn[e] = "none" /\ e \in saved) => e \in left' \/ FileRow(e) \in rows' \/ ~Listing!Room'
      <3>1. CASE e = d
        BY <1>1, <1>5, <3>1
      <3>2. CASE e # d
        BY <1>1, <1>5, <2>1, <2>4, <3>2 DEF Listed
      <3> QED
        BY <3>1, <3>2
    <2> QED
      BY <1>1, <1>2, <2>2, <2>3, <2>5, <2>6 DEF Listed
  <1>10. Listing!UntouchedIsShown'
    BY <1>1, ShownWholeNext
  <1> QED
    BY <1>7, <1>8, <1>9, <1>10 DEF ListInv

\* Of each entry, what is compared.
Compared(e) == <<e.id, e.pair, e.connected>>

\* If what is listed, each device once, is on the screen, the screen has as many entries.
LEMMA SameIsAsLarge ==
  ASSUME ListInv, poll = "files", left = {}, ~stops, Cardinality(screen) < Places, ~Listing!Changed(screen, rows)
  PROVE  Listing!Room /\ \A d : Listing!Displayed(d) = {[id |-> e.id, pair |-> e.pair, connected |-> e.connected] : e \in {s \in rows : s.id = d}}
  <1>1. {Compared(e) : e \in screen} = {Compared(e) : e \in rows}
    BY DEF Listing!Changed, Compared
  <1>2. \A e, f \in rows : e.id = f.id => e = f
    BY DEF ListInv, OnePlace, Listing!ListedOnce
  <1>3. \A e, f : Compared(e) = Compared(f) => e.id = f.id /\ e.pair = f.pair /\ e.connected = f.connected
    BY DEF Compared
  <1>4. /\ \A e \in screen : \E f \in rows : e.id = f.id /\ e.pair = f.pair /\ e.connected = f.connected
        /\ \A f \in rows : \E e \in screen : e.id = f.id /\ e.pair = f.pair /\ e.connected = f.connected
    <2>1. \A e \in screen : Compared(e) \in {Compared(f) : f \in rows}
      BY <1>1
    <2>2. \A f \in rows : Compared(f) \in {Compared(e) : e \in screen}
      BY <1>1
    <2> QED
      BY <1>3, <2>1, <2>2
  <1>5. Listing!Room
    <2> DEFINE g == [e \in screen |-> CHOOSE f \in rows : f.id = e.id]
    <2>1. \A e \in screen : g[e] \in rows /\ g[e].id = e.id
      BY <1>4
    <2>2. \A f \in rows : \E e \in screen : g[e] = f
      <3> SUFFICES ASSUME NEW f \in rows PROVE \E e \in screen : g[e] = f
        OBVIOUS
      <3>1. PICK e \in screen : e.id = f.id
        BY <1>4
      <3>2. g[e] \in rows /\ g[e].id = f.id
        BY <2>1, <3>1
      <3> QED
        BY <1>2, <3>2
    <2>3. g \in [screen -> rows]
      BY <2>1
    <2> HIDE DEF g
    <2>4. g \in Surjection(screen, rows)
      BY <2>2, <2>3 DEF Surjection
    <2>5. IsFiniteSet(screen)
      BY DEF ListInv, Phases
    <2>6. Cardinality(rows) <= Cardinality(screen)
      BY <2>4, <2>5, FS_Surjection
    <2>7. Cardinality(rows) \in Nat /\ Cardinality(screen) \in Nat /\ Places \in Nat
      BY <2>5, FS_CardinalityType, ListAssumption DEF ListInv, Phases
    <2> QED
      BY <2>6, <2>7, RoomLeft
  <1>6. ASSUME NEW d
        PROVE  Listing!Displayed(d) = {[id |-> e.id, pair |-> e.pair, connected |-> e.connected] : e \in {s \in rows : s.id = d}}
    BY <1>4 DEF Listing!Displayed
  <1> QED
    BY <1>5, <1>6

\* What is listed is shown.
LEMMA ShowKeeps == ASSUME ListInv, Listing!Show PROVE ListInv'
  <1>1. /\ poll = "files" /\ left = {} /\ poll' = "idle"
        /\ screen' = (IF Listing!Changed(screen, rows) THEN rows ELSE screen)
        /\ UNCHANGED <<snap, kept, half, rows, orphan, left, touched, stops, events>> /\ UNCHANGED Listing!devices
    BY DEF Listing!Show
  <1>2. UNCHANGED <<client, conn, bond, wish, saved>>
    BY <1>1, PollSame
  <1>3. half.id = {} /\ snap = {}
    BY <1>1 DEF ListInv, Phases, Listing!NoHalf
  <1>4. screen' = rows \/ screen' = screen
    BY <1>1
  <1>5. Listing!TypeOK'
    BY <1>1, <1>2, <1>4 DEF ListInv, Phases, Listing!TypeOK, Listing!Entry
  <1>6. Phases'
    BY <1>1, <1>4, <1>5 DEF ListInv, Phases, Listing!NoHalf
  <1>7. OnePlace'
    BY <1>1, <1>2 DEF ListInv, OnePlace, BeingRead, Listing!ListedOnce
  <1>8. Followed'
    BY <1>1 DEF Followed
  <1>9. ASSUME Cardinality(screen') < Places, NEW d \in Known \ touched
        PROVE  /\ ~stops /\ Listing!Room
               /\ Listing!Displayed(d)' = {[id |-> e.id, pair |-> e.pair, connected |-> e.connected] : e \in {s \in rows : s.id = d}}
    <2>1. ~stops
      BY DEF ListInv, Phases
    <2>2. CASE Listing!Changed(screen, rows)
      <3>1. screen' = rows
        BY <1>1, <2>2
      <3>2. Listing!Room
        BY <1>9, <3>1, RoomLeft
      <3> QED
        BY <2>1, <3>1, <3>2 DEF Listing!Displayed
    <2>3. CASE ~Listing!Changed(screen, rows)
      <3>1. screen' = screen
        BY <1>1, <2>3
      <3>2. Listing!Displayed(d)' = Listing!Displayed(d)
        BY <3>1 DEF Listing!Displayed
      <3>3. /\ Listing!Room
            /\ \A c : Listing!Displayed(c) = {[id |-> e.id, pair |-> e.pair, connected |-> e.connected] : e \in {s \in rows : s.id = c}}
        BY <1>1, <1>9, <2>1, <2>3, <3>1, SameIsAsLarge
      <3> QED
        BY <2>1, <3>2, <3>3
    <2> QED
      BY <2>2, <2>3
  <1>10. Listing!UntouchedIsShown'
    <2> SUFFICES ASSUME Cardinality(screen') < Places, NEW d \in Known \ touched PROVE Listing!Displayed(d)' = Listing!Truth(d)'
      BY <1>1, ShownWholeNext
    <2> DEFINE mine == {s \in rows : s.id = d}
               asItIs(e) == [id |-> e.id, pair |-> e.pair, connected |-> e.connected]
    <2>1. /\ ~stops /\ Listing!Room /\ Listing!Displayed(d)' = {asItIs(e) : e \in mine}
      BY <1>9
    <2>2. Listing!Truth(d)' = Listing!Truth(d)
      BY <1>1, PollSame
    <2>3. Listed(d) /\ \A e, f \in rows : e.id = f.id => e = f
      BY <1>1, <2>1 DEF ListInv, Followed, OnePlace, Listing!ListedOnce
    <2>4. CASE conn[d] # "none"
      <3>1. SessionRow(d) \in rows
        BY <1>3, <2>1, <2>3, <2>4 DEF Listed
      <3>2. SessionRow(d).id = d /\ SessionRow(d).pair = (IF bond[d] THEN "Paired" ELSE wish[d]) /\ SessionRow(d).connected = (conn[d] = "up")
        BY DEF SessionRow
      <3>3. mine = {SessionRow(d)}
        BY <2>3, <3>1, <3>2
      <3>4. {asItIs(e) : e \in mine} = {asItIs(SessionRow(d))}
        BY <3>3
      <3>5. Listing!Truth(d) = {asItIs(SessionRow(d))}
        BY <2>4, <3>2 DEF Listing!Truth
      <3> QED
        BY <2>1, <2>2, <3>4, <3>5
    <2>5. CASE conn[d] = "none" /\ d \in saved
      <3>1. FileRow(d) \in rows
        BY <1>1, <2>1, <2>3, <2>5 DEF Listed
      <3>2. FileRow(d).id = d /\ FileRow(d).pair = "Paired" /\ FileRow(d).connected = FALSE
        BY DEF FileRow
      <3>3. mine = {FileRow(d)}
        BY <2>3, <3>1, <3>2
      <3>4. {asItIs(e) : e \in mine} = {asItIs(FileRow(d))}
        BY <3>3
      <3>5. Listing!Truth(d) = {asItIs(FileRow(d))}
        BY <2>5, <3>2 DEF Listing!Truth
      <3> QED
        BY <2>1, <2>2, <3>4, <3>5
    <2>6. CASE conn[d] = "none" /\ d \notin saved
      <3>1. mine = {}
        BY <2>3, <2>6 DEF Listed
      <3>2. Listing!Truth(d) = {}
        BY <2>6 DEF Listing!Truth
      <3> QED
        BY <2>1, <2>2, <3>1, <3>2
    <2> QED
      BY <2>4, <2>5, <2>6
  <1> QED
    BY <1>6, <1>7, <1>8, <1>10 DEF ListInv

\* Every step of the list of devices keeps its invariant.
LEMMA ListStep == ListInv /\ [Listing!Next]_listVars => ListInv'
  <1> SUFFICES ASSUME ListInv, [Listing!Next]_listVars PROVE ListInv'
    OBVIOUS
  <1>1. CASE UNCHANGED listVars
    <2>1. UNCHANGED <<client, conn, bond, wish, saved, poll, snap, kept, half, rows, orphan, left, screen, touched, stops, events>>
      BY <1>1 DEF listVars
    <2>2. Phases'
      BY <2>1 DEF ListInv, Phases, Listing!TypeOK, Listing!Entry, Listing!NoHalf
    <2>3. OnePlace'
      BY <2>1 DEF ListInv, OnePlace, BeingRead, Listing!ListedOnce
    <2>4. Listing!Room' = Listing!Room
      BY <2>1 DEF Listing!Room
    <2>5. Followed'
      BY <2>1, <2>4 DEF ListInv, Followed, Listed, SessionRow, FileRow
    <2>6. Listing!UntouchedIsShown'
      BY <2>1 DEF ListInv, Listing!UntouchedIsShown, Listing!Displayed, Listing!Truth
    <2> QED
      BY <2>2, <2>3, <2>5, <2>6 DEF ListInv
  <1>2. CASE Listing!Next
    BY <1>2, DeviceKeeps, ClientKeeps, BeginListKeeps, ReadPairedKeeps, ReadRestKeeps, EndSessionsKeeps, ReadActiveKeeps, ReadFileKeeps, ShowKeeps
       DEF Listing!Next, Listing!Read
  <1> QED
    BY <1>1, <1>2

\* The invariant is what the part promises.
LEMMA ListHolds == ListInv => Listing!TypeOK /\ Listing!UntouchedIsShown /\ Listing!ListedOnce
  BY DEF ListInv, Phases, OnePlace, Listing!ListedOnce

-----------------------------------------------------------------------------

(* DeviceScreen: what is on its way between the console and the phone.      *)

PhoneWord == {OnScreen!Unpaired} \cup {OnScreen!List(s) : s \in SUBSET Key}
ConsoleWord == {"pair", "unpair", "ask", "run", "ping", "ring"}

ScreenTypes == OnScreen!TypeOK /\ toMe \in Seq(PhoneWord) /\ toThem \in Seq(ConsoleWord)

\* A phone that the user has unpaired is paired with neither in fact nor on a screen.
PartedInv == (parted => ~trusts /\ ~row.paired /\ page # "commands") /\ ~pestered

\* The last list of commands on its way, or the menu, is the phone's.
LatestIsTheirs ==
  \/ menu = theirs /\ \A i \in 1 .. Len(toMe) : toMe[i].is # "list"
  \/ \E i \in 1 .. Len(toMe) :
       toMe[i] = OnScreen!List(theirs) /\ \A j \in 1 .. Len(toMe) : i < j => toMe[j].is # "list"

\* A phone whose commands the console may lack is about to be asked for them, or to tell.
MenuInv ==
  (trusts /\ theyTrust /\ linked /\ ~starting /\ ~accepting) =>
    LatestIsTheirs \/ \E i \in 1 .. Len(toThem) : toThem[i] \in {"ask", "pair"}

DeviceScreenInv == ScreenTypes /\ PartedInv /\ MenuInv

\* What is assumed of the commands.
LEMMA ScreenAssumption == IsFiniteSet(Key) /\ MaxNews \in Nat
  BY PeerAssumption

\* The two kinds of what the phone says.
LEMMA PhoneWords ==
  /\ OnScreen!Unpaired \in PhoneWord /\ OnScreen!Unpaired.is = "unpair"
  /\ \A s \in SUBSET Key : OnScreen!List(s) \in PhoneWord /\ OnScreen!List(s).is = "list" /\ OnScreen!List(s).of = s
  /\ \A m \in PhoneWord : m = OnScreen!Unpaired \/ \E s \in SUBSET Key : m = OnScreen!List(s)
  BY DEF PhoneWord, OnScreen!Unpaired, OnScreen!List

\* A paired phone's screens are closed when it connects.
LEMMA ScreenInit == OnScreen!Init => DeviceScreenInv
  <1> SUFFICES ASSUME OnScreen!Init PROVE DeviceScreenInv
    OBVIOUS
  <1>1. toMe \in Seq(PhoneWord) /\ toThem \in Seq(ConsoleWord) /\ toMe = <<>> /\ toThem = <<>>
    BY DEF OnScreen!Init
  <1>2. DOMAIN toMe = {} /\ DOMAIN toThem = {}
    BY <1>1
  <1>3. 0 \in 0 .. MaxNews
    BY ScreenAssumption
  <1>4. OnScreen!TypeOK
    BY <1>2, <1>3 DEF OnScreen!Init, OnScreen!TypeOK
  <1>5. PartedInv /\ MenuInv
    BY DEF OnScreen!Init, PartedInv, MenuInv
  <1> QED
    BY <1>1, <1>4, <1>5 DEF DeviceScreenInv, ScreenTypes

\* What is on its way has the types of what is sent.
LEMMA WordsTyped ==
  ASSUME NEW q \in Seq(PhoneWord), NEW r \in Seq(ConsoleWord)
  PROVE  /\ \A i \in DOMAIN q : q[i] \in {OnScreen!Unpaired} \cup {OnScreen!List(s) : s \in SUBSET Key}
         /\ \A i \in DOMAIN r : r[i] \in {"pair", "unpair", "ask", "run", "ping", "ring"}
  <1>1. \A i \in DOMAIN q : q[i] \in PhoneWord
    BY ElementOfSeq
  <1>2. \A i \in DOMAIN r : r[i] \in ConsoleWord
    BY ElementOfSeq
  <1> QED
    BY <1>1, <1>2 DEF PhoneWord, ConsoleWord

\* What is joined to a sequence comes after it.
LEMMA Joined ==
  ASSUME NEW S, NEW r \in Seq(S), NEW e \in S
  PROVE  /\ r \o <<e>> \in Seq(S)
         /\ \A i \in 1 .. Len(r) : i \in 1 .. Len(r \o <<e>>) /\ (r \o <<e>>)[i] = r[i]
         /\ \E i \in 1 .. Len(r \o <<e>>) : (r \o <<e>>)[i] = e
  <1>1. <<e>> \in Seq(S) /\ Len(<<e>>) = 1 /\ <<e>>[1] = e /\ Len(r) \in Nat
    OBVIOUS
  <1>2. /\ r \o <<e>> \in Seq(S) /\ Len(r \o <<e>>) = Len(r) + 1
        /\ \A i \in 1 .. Len(r) + 1 : (r \o <<e>>)[i] = IF i <= Len(r) THEN r[i] ELSE <<e>>[i - Len(r)]
    BY <1>1, ConcatProperties
  <1>3. Len(r) + 1 \in 1 .. Len(r) + 1 /\ ~(Len(r) + 1 <= Len(r)) /\ (Len(r) + 1) - Len(r) = 1
    BY <1>1
  <1>4. (r \o <<e>>)[Len(r) + 1] = e
    BY <1>1, <1>2, <1>3
  <1>5. \A i \in 1 .. Len(r) : i \in 1 .. Len(r) + 1 /\ i <= Len(r)
    BY <1>1
  <1> QED
    BY <1>2, <1>3, <1>4, <1>5

\* Requests that are sent are added, or lost.
LEMMA RequestSent ==
  ASSUME DeviceScreenInv, NEW m \in ConsoleWord, OnScreen!SendAll(<<m>>)
  PROVE  /\ toThem' \in Seq(ConsoleWord)
         /\ \A i \in 1 .. Len(toThem) : i \in 1 .. Len(toThem') /\ toThem'[i] = toThem[i]
         /\ linked => \E i \in 1 .. Len(toThem') : toThem'[i] = m
  <1>1. toThem \in Seq(ConsoleWord)
    BY DEF DeviceScreenInv, ScreenTypes
  <1>2. CASE linked
    <2>1. toThem' = toThem \o <<m>>
      BY <1>2 DEF OnScreen!SendAll
    <2> QED
      BY <1>1, <2>1, Joined
  <1>3. CASE ~linked
    BY <1>1, <1>3 DEF OnScreen!SendAll
  <1> QED
    BY <1>2, <1>3

\* A list that the phone tells is the last one.
LEMMA ListTold ==
  ASSUME DeviceScreenInv, theirs' \subseteq Key, linked, OnScreen!Tell(OnScreen!List(theirs'))
  PROVE  LatestIsTheirs' /\ toMe' \in Seq(PhoneWord)
  <1>1. toMe \in Seq(PhoneWord) /\ OnScreen!List(theirs') \in PhoneWord
    BY PhoneWords DEF DeviceScreenInv, ScreenTypes
  <1>2. toMe' = Append(toMe, OnScreen!List(theirs'))
    BY DEF OnScreen!Tell
  <1>3. /\ toMe' \in Seq(PhoneWord) /\ Len(toMe') = Len(toMe) + 1 /\ Len(toMe) \in Nat
        /\ toMe'[Len(toMe) + 1] = OnScreen!List(theirs')
    BY <1>1, <1>2, Appended
  <1>4. Len(toMe) + 1 \in 1 .. Len(toMe') /\ \A j \in 1 .. Len(toMe') : ~(Len(toMe) + 1 < j)
    BY <1>3
  <1> QED
    BY <1>3, <1>4 DEF LatestIsTheirs, OnScreen!List

\* The unpairing that the phone tells is no list.
LEMMA UnpairTold ==
  ASSUME DeviceScreenInv, linked, OnScreen!Tell(OnScreen!Unpaired)
  PROVE  toMe' \in Seq(PhoneWord)
  <1>1. toMe \in Seq(PhoneWord) /\ OnScreen!Unpaired \in PhoneWord
    BY PhoneWords DEF DeviceScreenInv, ScreenTypes
  <1> QED
    BY <1>1, Appended DEF OnScreen!Tell

\* What the invariant says of the next state, from the parts that an action may disturb.
LEMMA ScreenTyped ==
  ASSUME DeviceScreenInv,
         {trusts', linked', starting', accepting', theyTrust', parted', pestered'} \subseteq BOOLEAN,
         page' \in {"list", "device", "commands"}, row' \in [paired : BOOLEAN, connected : BOOLEAN],
         menu' \subseteq Key, shown' \subseteq Key, theirs' \subseteq Key,
         toMe' \in Seq(PhoneWord), toThem' \in Seq(ConsoleWord),
         news' = news \/ OnScreen!Count
  PROVE  ScreenTypes'
  <1>1. news' \in 0 .. MaxNews
    <2>1. MaxNews \in Nat
      BY ScreenAssumption
    <2>2. news \in 0 .. MaxNews
      BY DEF DeviceScreenInv, ScreenTypes, OnScreen!TypeOK
    <2>3. news' = news \/ (news < MaxNews /\ news' = news + 1)
      BY DEF OnScreen!Count
    <2> QED
      BY <2>1, <2>2, <2>3, Counts, Zenon
  <1>2. /\ \A i \in DOMAIN toMe' : toMe'[i] \in {OnScreen!Unpaired} \cup {OnScreen!List(s) : s \in SUBSET Key}
        /\ \A i \in DOMAIN toThem' : toThem'[i] \in {"pair", "unpair", "ask", "run", "ping", "ring"}
    BY WordsTyped
  <1>3. OnScreen!TypeOK'
    BY <1>1, <1>2 DEF OnScreen!TypeOK, OnScreen!Unpaired, OnScreen!List
  <1> QED
    BY <1>3 DEF ScreenTypes

\* The parts of the type invariant.
LEMMA ScreenTypesGive ==
  ASSUME DeviceScreenInv
  PROVE  /\ {trusts, linked, starting, accepting, theyTrust, parted, pestered} \subseteq BOOLEAN
         /\ page \in {"list", "device", "commands"} /\ row \in [paired : BOOLEAN, connected : BOOLEAN]
         /\ menu \subseteq Key /\ shown \subseteq Key /\ theirs \subseteq Key
         /\ toMe \in Seq(PhoneWord) /\ toThem \in Seq(ConsoleWord)
  BY DEF DeviceScreenInv, ScreenTypes, OnScreen!TypeOK

\* The phone: a list that it has not told is not theirs any more, or they ask for it.
LEMMA PhoneKeeps ==
  ASSUME DeviceScreenInv, OnScreen!Edit \/ OnScreen!TheyUnpair \/ OnScreen!TheyTake
  PROVE  DeviceScreenInv'
  <1>1. PartedInv'
    <2>1. parted' = parted /\ pestered' = pestered /\ trusts' = trusts /\ row' = row /\ page' = page
      BY DEF OnScreen!Edit, OnScreen!TheyUnpair, OnScreen!TheyTake, OnScreen!screens, OnScreen!history
    <2> QED
      BY <2>1 DEF DeviceScreenInv, PartedInv
  <1>2. CASE OnScreen!Edit
    <2>1. /\ theirs' \subseteq Key /\ theyTrust' = theyTrust /\ toThem' = toThem
          /\ UNCHANGED <<trusts, linked, starting, accepting, menu, page, row, shown, parted, pestered>>
      BY <1>2, ScreenTypesGive DEF OnScreen!Edit, OnScreen!screens, OnScreen!history
    <2>2. CASE theyTrust /\ linked
      <3>1. LatestIsTheirs' /\ toMe' \in Seq(PhoneWord)
        BY <1>2, <2>1, <2>2, ListTold DEF OnScreen!Edit
      <3>2. ScreenTypes'
        BY <1>2, <2>1, <3>1, ScreenTypesGive, ScreenTyped DEF OnScreen!Edit
      <3>3. MenuInv'
        BY <3>1 DEF MenuInv
      <3> QED
        BY <1>1, <3>2, <3>3 DEF DeviceScreenInv
    <2>3. CASE ~(theyTrust /\ linked)
      <3>1. toMe' = toMe
        BY <1>2, <2>3 DEF OnScreen!Edit, OnScreen!Tell
      <3>2. ScreenTypes'
        BY <1>2, <2>1, <3>1, ScreenTypesGive, ScreenTyped DEF OnScreen!Edit
      <3>3. MenuInv'
        BY <2>1, <2>3 DEF MenuInv
      <3> QED
        BY <1>1, <3>2, <3>3 DEF DeviceScreenInv
    <2> QED
      BY <2>2, <2>3
  <1>3. CASE OnScreen!TheyUnpair
    <2>1. /\ theyTrust' = FALSE /\ linked
          /\ UNCHANGED <<trusts, linked, starting, accepting, menu, page, row, shown, theirs, toThem, parted, pestered>>
      BY <1>3 DEF OnScreen!TheyUnpair, OnScreen!screens, OnScreen!history
    <2>2. toMe' \in Seq(PhoneWord)
      BY <1>3, <2>1, UnpairTold DEF OnScreen!TheyUnpair
    <2>3. ScreenTypes'
      BY <1>3, <2>1, <2>2, ScreenTypesGive, ScreenTyped DEF OnScreen!TheyUnpair
    <2>4. MenuInv'
      BY <2>1 DEF MenuInv
    <2> QED
      BY <1>1, <2>3, <2>4 DEF DeviceScreenInv
  <1>4. CASE OnScreen!TheyTake
    <2>1. /\ toThem # <<>> /\ toThem' = Tail(toThem)
          /\ UNCHANGED <<trusts, linked, starting, accepting, menu, page, row, shown, theirs, parted, pestered, news>>
      BY <1>4 DEF OnScreen!TheyTake, OnScreen!screens, OnScreen!history
    <2>2. toThem \in Seq(ConsoleWord)
      BY ScreenTypesGive
    <2>3. PICK m \in ConsoleWord : m = Head(toThem) /\ m = toThem[1]
      BY <2>1, <2>2, Taken
    <2>4. /\ theyTrust' = IF m = "pair" THEN TRUE ELSE IF m = "unpair" THEN FALSE ELSE theyTrust
          /\ IF m = "pair" \/ (m = "ask" /\ theyTrust) THEN OnScreen!Tell(OnScreen!List(theirs)) ELSE toMe' = toMe
      BY <1>4, <2>3 DEF OnScreen!TheyTake
    <2>5. theyTrust' \in BOOLEAN
      BY <2>4, ScreenTypesGive
    <2>6. toThem' \in Seq(ConsoleWord)
      BY <2>1, <2>2, Taken
    <2>7. CASE (m = "pair" \/ (m = "ask" /\ theyTrust)) /\ linked
      <3>1. LatestIsTheirs' /\ toMe' \in Seq(PhoneWord)
        BY <2>1, <2>4, <2>7, ScreenTypesGive, ListTold
      <3>2. ScreenTypes'
        BY <2>1, <2>5, <2>6, <3>1, ScreenTypesGive, ScreenTyped
      <3>3. MenuInv'
        BY <3>1 DEF MenuInv
      <3> QED
        BY <1>1, <3>2, <3>3 DEF DeviceScreenInv
    <2>8. CASE ~((m = "pair" \/ (m = "ask" /\ theyTrust)) /\ linked)
      <3>1. toMe' = toMe
        BY <2>4, <2>8 DEF OnScreen!Tell
      <3>2. ScreenTypes'
        BY <2>1, <2>5, <2>6, <3>1, ScreenTypesGive, ScreenTyped
      <3>3. MenuInv'
        <4> SUFFICES ASSUME trusts, theyTrust', linked, ~starting, ~accepting
                     PROVE  LatestIsTheirs \/ \E i \in 1 .. Len(toThem') : toThem'[i] \in {"ask", "pair"}
          BY <2>1, <3>1 DEF MenuInv, LatestIsTheirs
        <4>1. m \notin {"ask", "pair"} /\ theyTrust
          BY <2>4, <2>8
        <4>2. CASE LatestIsTheirs
          BY <4>2
        <4>3. ASSUME NEW i \in 1 .. Len(toThem), toThem[i] \in {"ask", "pair"}
              PROVE  \E j \in 1 .. Len(toThem') : toThem'[j] \in {"ask", "pair"}
          <5>1. i # 1 /\ i \in Nat
            BY <2>2, <2>3, <4>1, <4>3
          <5>2. /\ Len(toThem) \in Nat /\ Len(Tail(toThem)) = Len(toThem) - 1
                /\ \A j \in 1 .. Len(Tail(toThem)) : Tail(toThem)[j] = toThem[j + 1]
            BY <2>1, <2>2, Taken
          <5>3. i - 1 \in 1 .. Len(Tail(toThem)) /\ (i - 1) + 1 = i
            BY <5>1, <5>2
          <5>4. Tail(toThem)[i - 1] = toThem[i]
            BY <5>2, <5>3
          <5> QED
            BY <2>1, <4>3, <5>3, <5>4
        <4> QED
          BY <4>1, <4>2, <4>3 DEF DeviceScreenInv, MenuInv
      <3> QED
        BY <1>1, <3>2, <3>3 DEF DeviceScreenInv
    <2> QED
      BY <2>7, <2>8
  <1> QED
    BY <1>2, <1>3, <1>4

\* The session: a new one is asked for its commands before it counts.
LEMMA SessionKeeps ==
  ASSUME DeviceScreenInv, OnScreen!Drop \/ OnScreen!Connect \/ OnScreen!Start
  PROVE  DeviceScreenInv'
  <1>1. PartedInv'
    <2>1. parted' = parted /\ pestered' = pestered /\ trusts' = trusts /\ row' = row /\ page' = page
      BY DEF OnScreen!Drop, OnScreen!Connect, OnScreen!Start, OnScreen!screens, OnScreen!history
    <2> QED
      BY <2>1 DEF DeviceScreenInv, PartedInv
  <1>2. CASE OnScreen!Drop
    <2>1. /\ linked' = FALSE /\ toThem' = <<>> /\ toMe' = <<>>
          /\ UNCHANGED <<trusts, starting, accepting, menu, page, row, shown, theyTrust, theirs, parted, pestered>>
      BY <1>2 DEF OnScreen!Drop, OnScreen!screens, OnScreen!history, OnScreen!phone
    <2>2. toMe' \in Seq(PhoneWord) /\ toThem' \in Seq(ConsoleWord)
      BY <2>1
    <2>3. ScreenTypes'
      BY <1>2, <2>1, <2>2, ScreenTypesGive, ScreenTyped DEF OnScreen!Drop
    <2>4. MenuInv'
      BY <2>1 DEF MenuInv
    <2> QED
      BY <1>1, <2>3, <2>4 DEF DeviceScreenInv
  <1>3. CASE OnScreen!Connect
    <2>1. /\ linked' = TRUE /\ starting' = TRUE /\ menu' = {}
          /\ UNCHANGED <<trusts, accepting, page, row, shown, theyTrust, theirs, toThem, toMe, parted, pestered>>
      BY <1>3 DEF OnScreen!Connect, OnScreen!screens, OnScreen!history, OnScreen!phone
    <2>2. ScreenTypes'
      BY <1>3, <2>1, ScreenTypesGive, ScreenTyped DEF OnScreen!Connect
    <2>3. MenuInv'
      BY <2>1 DEF MenuInv
    <2> QED
      BY <1>1, <2>2, <2>3 DEF DeviceScreenInv
  <1>4. CASE OnScreen!Start
    <2>1. /\ starting' = FALSE /\ OnScreen!SendAll(IF trusts THEN <<"ask">> ELSE <<"unpair">>)
          /\ UNCHANGED <<trusts, linked, accepting, menu, page, row, shown, theyTrust, theirs, toMe, parted, pestered, news>>
      BY <1>4 DEF OnScreen!Start, OnScreen!screens, OnScreen!history, OnScreen!phone, OnScreen!OnConnected
    <2>2. PICK m \in ConsoleWord : m = (IF trusts THEN "ask" ELSE "unpair") /\ OnScreen!SendAll(<<m>>)
      <3>1. CASE trusts
        BY <2>1, <3>1 DEF ConsoleWord
      <3>2. CASE ~trusts
        BY <2>1, <3>2 DEF ConsoleWord
      <3> QED
        BY <3>1, <3>2
    <2>3. toThem' \in Seq(ConsoleWord) /\ (linked => \E i \in 1 .. Len(toThem') : toThem'[i] = m)
      BY <2>2, RequestSent
    <2>4. ScreenTypes'
      BY <2>1, <2>3, ScreenTypesGive, ScreenTyped
    <2>5. MenuInv'
      BY <2>1, <2>2, <2>3 DEF MenuInv
    <2> QED
      BY <1>1, <2>4, <2>5 DEF DeviceScreenInv
  <1> QED
    BY <1>2, <1>3, <1>4

\* What the console takes of the phone: a list that is taken is the menu.
LEMMA TakeKeeps == ASSUME DeviceScreenInv, OnScreen!Take PROVE DeviceScreenInv'
  <1>1. /\ toMe # <<>> /\ toMe' = Tail(toMe)
        /\ UNCHANGED <<linked, starting, accepting, page, row, shown, theyTrust, theirs, toThem, parted, pestered, news>>
    BY DEF OnScreen!Take, OnScreen!screens, OnScreen!history, OnScreen!phone
  <1>2. toMe \in Seq(PhoneWord)
    BY ScreenTypesGive
  <1>3. PICK m \in PhoneWord : m = Head(toMe) /\ m = toMe[1]
    BY <1>1, <1>2, Taken
  <1>4. /\ toMe' \in Seq(PhoneWord) /\ Len(toMe) \in Nat \ {0} /\ Len(toMe') = Len(toMe) - 1 /\ Len(toMe') \in Nat
        /\ \A i \in 1 .. Len(toMe') : i \in Nat /\ i + 1 \in 1 .. Len(toMe) /\ toMe'[i] = toMe[i + 1]
    BY <1>1, <1>2, Taken
  <1>5. CASE m.is = "unpair"
    <2>1. trusts' = FALSE /\ menu' = menu
      BY <1>3, <1>5 DEF OnScreen!Take
    <2>2. ScreenTypes'
      BY <1>1, <1>4, <2>1, ScreenTypesGive, ScreenTyped
    <2>3. PartedInv'
      BY <1>1, <2>1 DEF DeviceScreenInv, PartedInv
    <2>4. MenuInv'
      BY <2>1 DEF MenuInv
    <2> QED
      BY <2>2, <2>3, <2>4 DEF DeviceScreenInv
  <1>6. CASE m.is # "unpair"
    <2>1. PICK s \in SUBSET Key : m = OnScreen!List(s) /\ m.is = "list" /\ m.of = s
      BY <1>6, PhoneWords
    <2>2. trusts' = trusts /\ menu' = IF trusts THEN s ELSE menu
      BY <1>3, <1>6, <2>1 DEF OnScreen!Take, OnScreen!TakeList
    <2>3. menu' \subseteq Key
      BY <2>2, ScreenTypesGive
    <2>4. ScreenTypes'
      BY <1>1, <1>4, <2>2, <2>3, ScreenTypesGive, ScreenTyped
    <2>5. PartedInv'
      BY <1>1, <2>2 DEF DeviceScreenInv, PartedInv
    <2>6. MenuInv'
      <3> SUFFICES ASSUME trusts, theyTrust, linked, ~starting, ~accepting
                   PROVE  LatestIsTheirs' \/ \E i \in 1 .. Len(toThem) : toThem[i] \in {"ask", "pair"}
        BY <1>1, <2>2 DEF MenuInv
      <3>1. CASE \E i \in 1 .. Len(toThem) : toThem[i] \in {"ask", "pair"}
        BY <3>1
      <3>2. 1 \in 1 .. Len(toMe) /\ toMe[1].is = "list"
        BY <1>3, <1>4, <2>1
      <3>3. ASSUME NEW k \in 1 .. Len(toMe), toMe[k] = OnScreen!List(theirs),
                   \A j \in 1 .. Len(toMe) : k < j => toMe[j].is # "list"
            PROVE  LatestIsTheirs'
        <4>1. CASE k = 1
          <5>1. s = theirs
            BY <1>3, <2>1, <3>3, <4>1, ScreenTypesGive, PhoneWords
          <5>2. menu' = theirs'
            BY <1>1, <2>2, <5>1
          <5>3. \A i \in 1 .. Len(toMe') : toMe'[i].is # "list"
            <6> SUFFICES ASSUME NEW i \in 1 .. Len(toMe') PROVE toMe'[i].is # "list"
              OBVIOUS
            <6>1. i + 1 \in 1 .. Len(toMe) /\ toMe'[i] = toMe[i + 1] /\ 1 < i + 1
              BY <1>4
            <6> QED
              BY <3>3, <4>1, <6>1
          <5> QED
            BY <5>2, <5>3 DEF LatestIsTheirs
        <4>2. CASE k # 1
          <5>1. k - 1 \in 1 .. Len(toMe') /\ (k - 1) + 1 = k
            BY <1>4, <4>2
          <5>2. toMe'[k - 1] = OnScreen!List(theirs')
            BY <1>1, <1>4, <3>3, <5>1 DEF OnScreen!List
          <5>3. \A j \in 1 .. Len(toMe') : k - 1 < j => toMe'[j].is # "list"
            <6> SUFFICES ASSUME NEW j \in 1 .. Len(toMe'), k - 1 < j PROVE toMe'[j].is # "list"
              OBVIOUS
            <6>1. j + 1 \in 1 .. Len(toMe) /\ toMe'[j] = toMe[j + 1] /\ k < j + 1
              BY <1>4
            <6> QED
              BY <3>3, <6>1
          <5> QED
            BY <5>1, <5>2, <5>3 DEF LatestIsTheirs, OnScreen!List
        <4> QED
          BY <4>1, <4>2
      <3>4. LatestIsTheirs => LatestIsTheirs'
        BY <3>2, <3>3 DEF LatestIsTheirs
      <3> QED
        BY <3>1, <3>4 DEF DeviceScreenInv, MenuInv
    <2> QED
      BY <2>4, <2>5, <2>6 DEF DeviceScreenInv
  <1> QED
    BY <1>5, <1>6

\* The phone is asked for its commands again once it is paired.
LEMMA AcceptedKeeps == ASSUME DeviceScreenInv, OnScreen!Accepted PROVE DeviceScreenInv'
  <1>1. /\ accepting' = FALSE /\ trusts' = TRUE /\ parted' = FALSE /\ OnScreen!SendAll(<<"ask">>)
        /\ page' = "list" /\ row' = [paired |-> trusts', connected |-> linked] /\ shown' = shown
        /\ UNCHANGED <<linked, starting, menu, theyTrust, theirs, toMe, pestered, news>>
    BY DEF OnScreen!Accepted, OnScreen!OnConnected, OnScreen!ToList, OnScreen!phone
  <1>2. "ask" \in ConsoleWord
    BY DEF ConsoleWord
  <1>3. toThem' \in Seq(ConsoleWord) /\ (linked => \E i \in 1 .. Len(toThem') : toThem'[i] = "ask")
    BY <1>1, <1>2, RequestSent
  <1>4. row' \in [paired : BOOLEAN, connected : BOOLEAN]
    BY <1>1, ScreenTypesGive
  <1>5. ScreenTypes'
    BY <1>1, <1>3, <1>4, ScreenTypesGive, ScreenTyped
  <1>6. PartedInv'
    BY <1>1 DEF DeviceScreenInv, PartedInv
  <1>7. MenuInv'
    BY <1>1, <1>3 DEF MenuInv
  <1> QED
    BY <1>5, <1>6, <1>7 DEF DeviceScreenInv

\* The screens that only look.
LEMMA LooksKeep ==
  ASSUME DeviceScreenInv, OnScreen!Refresh \/ OnScreen!OpenDevice \/ OnScreen!OpenCommands \/ OnScreen!Back
  PROVE  DeviceScreenInv'
  <1>1. UNCHANGED <<trusts, linked, starting, accepting, menu, theyTrust, theirs, toThem, toMe, parted, pestered, news>>
    BY DEF OnScreen!Refresh, OnScreen!OpenDevice, OnScreen!OpenCommands, OnScreen!Back, OnScreen!phone, OnScreen!history
  <1>2. MenuInv'
    BY <1>1 DEF DeviceScreenInv, MenuInv, LatestIsTheirs
  <1>3. page' \in {"list", "device", "commands"} /\ shown' \subseteq Key /\ row' \in [paired : BOOLEAN, connected : BOOLEAN]
    <2>1. CASE OnScreen!Refresh
      BY <2>1, ScreenTypesGive DEF OnScreen!Refresh, OnScreen!Row
    <2>2. CASE OnScreen!OpenDevice
      BY <2>2, ScreenTypesGive DEF OnScreen!OpenDevice
    <2>3. CASE OnScreen!OpenCommands
      BY <2>3, ScreenTypesGive DEF OnScreen!OpenCommands, OnScreen!GetCommandList
    <2>4. CASE OnScreen!Back
      BY <2>4, ScreenTypesGive DEF OnScreen!Back
    <2> QED
      BY <2>1, <2>2, <2>3, <2>4
  <1>4. ScreenTypes'
    BY <1>1, <1>3, ScreenTypesGive, ScreenTyped
  <1>5. parted => ~row'.paired /\ page' # "commands"
    <2> SUFFICES ASSUME parted PROVE ~row'.paired /\ page' # "commands"
      OBVIOUS
    <2>0. ~trusts /\ ~row.paired /\ page # "commands"
      BY DEF DeviceScreenInv, PartedInv
    <2>1. CASE OnScreen!Refresh
      <3>1. row' = [paired |-> trusts, connected |-> linked] /\ page' = page
        BY <2>1 DEF OnScreen!Refresh, OnScreen!Row
      <3>2. row'.paired = trusts
        BY <3>1
      <3> QED
        BY <2>0, <3>1, <3>2
    <2>2. CASE OnScreen!OpenDevice
      BY <2>0, <2>2 DEF OnScreen!OpenDevice
    <2>3. CASE OnScreen!OpenCommands
      BY <2>0, <2>3 DEF OnScreen!OpenCommands, OnScreen!Offers
    <2>4. CASE OnScreen!Back
      BY <2>0, <2>4 DEF OnScreen!Back
    <2> QED
      BY <2>1, <2>2, <2>3, <2>4
  <1>6. PartedInv'
    BY <1>1, <1>5 DEF DeviceScreenInv, PartedInv
  <1> QED
    BY <1>2, <1>4, <1>6 DEF DeviceScreenInv

\* The screens that ask: an unpaired phone's has nothing to press.
LEMMA PressKeeps ==
  ASSUME DeviceScreenInv, OnScreen!Press \/ OnScreen!PressCommand
  PROVE  DeviceScreenInv'
  <1>1. PICK m \in ConsoleWord : OnScreen!Request(m)
    BY DEF OnScreen!Press, OnScreen!PressCommand, OnScreen!Ping, OnScreen!Ring, OnScreen!RunCommand, ConsoleWord
  <1>2. /\ OnScreen!SendAll(<<m>>) /\ pestered' = (pestered \/ (parted /\ linked))
        /\ UNCHANGED <<trusts, linked, starting, accepting, menu, page, row, shown, theyTrust, theirs, toMe, parted, news>>
    BY <1>1 DEF OnScreen!Request, OnScreen!phone, OnScreen!screens
  <1>3. /\ toThem' \in Seq(ConsoleWord)
        /\ \A i \in 1 .. Len(toThem) : i \in 1 .. Len(toThem') /\ toThem'[i] = toThem[i]
    BY <1>2, RequestSent
  <1>4. ~parted
    <2>1. row.paired \/ page = "commands"
      BY DEF OnScreen!Press, OnScreen!PressCommand, OnScreen!Offers
    <2> QED
      BY <2>1 DEF DeviceScreenInv, PartedInv
  <1>5. pestered' = FALSE
    BY <1>2, <1>4 DEF DeviceScreenInv, PartedInv
  <1>6. ScreenTypes'
    BY <1>2, <1>3, <1>5, ScreenTypesGive, ScreenTyped
  <1>7. PartedInv'
    BY <1>2, <1>4, <1>5 DEF PartedInv
  <1>8. MenuInv'
    <2>1. LatestIsTheirs => LatestIsTheirs'
      BY <1>2 DEF LatestIsTheirs
    <2> QED
      BY <1>2, <1>3, <2>1 DEF DeviceScreenInv, MenuInv
  <1> QED
    BY <1>6, <1>7, <1>8 DEF DeviceScreenInv

\* The user's pairing and unpairing.
LEMMA UserKeeps ==
  ASSUME DeviceScreenInv, OnScreen!Unpair \/ OnScreen!Accept
  PROVE  DeviceScreenInv'
  <1>1. CASE OnScreen!Unpair
    <2>1. /\ trusts' = FALSE /\ parted' = TRUE
          /\ page' = "list" /\ row' = [paired |-> trusts', connected |-> linked] /\ shown' = shown
          /\ UNCHANGED <<linked, starting, accepting, menu, theyTrust, theirs, toMe, pestered, news>>
          /\ OnScreen!SendAll(<<"unpair">>) \/ toThem' = toThem
      BY <1>1 DEF OnScreen!Unpair, OnScreen!ToList, OnScreen!phone
    <2>2. "unpair" \in ConsoleWord
      BY DEF ConsoleWord
    <2>3. toThem' \in Seq(ConsoleWord)
      BY <2>1, <2>2, RequestSent, ScreenTypesGive
    <2>4. row' \in [paired : BOOLEAN, connected : BOOLEAN] /\ row'.paired = FALSE
      BY <2>1, ScreenTypesGive
    <2>5. ScreenTypes'
      BY <2>1, <2>3, <2>4, ScreenTypesGive, ScreenTyped
    <2>6. PartedInv'
      BY <2>1, <2>4 DEF DeviceScreenInv, PartedInv
    <2>7. MenuInv'
      BY <2>1 DEF MenuInv
    <2> QED
      BY <2>5, <2>6, <2>7 DEF DeviceScreenInv
  <1>2. CASE OnScreen!Accept
    <2>1. /\ OnScreen!Count /\ OnScreen!SendAll(<<"pair">>) /\ accepting' = TRUE
          /\ UNCHANGED <<trusts, linked, starting, menu, page, row, shown, theyTrust, theirs, toMe, parted, pestered>>
      BY <1>2 DEF OnScreen!Accept, OnScreen!phone, OnScreen!screens, OnScreen!history
    <2>2. "pair" \in ConsoleWord
      BY DEF ConsoleWord
    <2>3. toThem' \in Seq(ConsoleWord)
      BY <2>1, <2>2, RequestSent
    <2>4. ScreenTypes'
      BY <2>1, <2>3, ScreenTypesGive, ScreenTyped
    <2>5. PartedInv'
      BY <2>1 DEF DeviceScreenInv, PartedInv
    <2>6. MenuInv'
      BY <2>1 DEF MenuInv
    <2> QED
      BY <2>4, <2>5, <2>6 DEF DeviceScreenInv
  <1> QED
    BY <1>1, <1>2

\* Every step of the device's screen keeps its invariant.
LEMMA ScreenStep == DeviceScreenInv /\ [OnScreen!Next]_screenVars => DeviceScreenInv'
  <1> SUFFICES ASSUME DeviceScreenInv, [OnScreen!Next]_screenVars PROVE DeviceScreenInv'
    OBVIOUS
  <1>1. CASE UNCHANGED screenVars
    <2>1. UNCHANGED <<trusts, linked, starting, accepting, menu, page, row, shown, theyTrust, theirs, toThem, toMe, parted, pestered, news>>
      BY <1>1 DEF screenVars
    <2>2. ScreenTypes'
      BY <2>1, ScreenTypesGive, ScreenTyped
    <2>3. PartedInv'
      BY <2>1 DEF DeviceScreenInv, PartedInv
    <2>4. MenuInv'
      BY <2>1 DEF DeviceScreenInv, MenuInv, LatestIsTheirs
    <2> QED
      BY <2>2, <2>3, <2>4 DEF DeviceScreenInv
  <1>2. CASE OnScreen!Next
    BY <1>2, PhoneKeeps, SessionKeeps, TakeKeeps, AcceptedKeeps, LooksKeep, PressKeeps, UserKeeps
       DEF OnScreen!Next, OnScreen!Overlay
  <1> QED
    BY <1>1, <1>2

\* The invariant is what the part promises.
LEMMA ScreenHolds == DeviceScreenInv => OnScreen!TypeOK /\ OnScreen!MenuIsTheirs /\ OnScreen!UnpairedIsLeft
  <1> SUFFICES ASSUME DeviceScreenInv PROVE OnScreen!TypeOK /\ OnScreen!MenuIsTheirs /\ OnScreen!UnpairedIsLeft
    OBVIOUS
  <1>1. OnScreen!MenuIsTheirs
    <2> SUFFICES ASSUME trusts /\ theyTrust /\ linked /\ ~starting /\ ~accepting /\ toThem = <<>> /\ toMe = <<>>
                 PROVE  menu = theirs
      BY DEF OnScreen!MenuIsTheirs
    <2>1. 1 .. Len(toThem) = {} /\ 1 .. Len(toMe) = {}
      OBVIOUS
    <2> QED
      BY <2>1 DEF DeviceScreenInv, MenuInv, LatestIsTheirs
  <1>2. OnScreen!TypeOK /\ OnScreen!UnpairedIsLeft
    BY DEF DeviceScreenInv, ScreenTypes, PartedInv, OnScreen!UnpairedIsLeft
  <1> QED
    BY <1>1, <1>2

-----------------------------------------------------------------------------

(* The parts together.                                                      *)

PhonesInv ==
  /\ SerialInv /\ TrackInv /\ OwnInv /\ TheirsInv /\ NewsInv /\ ChargedInv
  /\ OrdersInv /\ CoverInv /\ JsonInv /\ ListInv /\ DeviceScreenInv

\* Every part starts as its module says.
LEMMA PhonesStart == PhonesInit => PhonesInv
  <1> SUFFICES ASSUME PhonesInit PROVE PhonesInv
    OBVIOUS
  <1>1. /\ Init /\ Track!Init /\ Own!Init /\ Theirs!Init /\ News!Init /\ Charged!Init
        /\ Orders!Init /\ Cover!Init /\ Json!Init /\ Listing!Init /\ OnScreen!Init
    BY DEF PhonesInit
  <1> QED
    BY <1>1, SerialInvInit, TrackInit, OwnInit, TheirsInit, NewsInit, ChargedInit, OrdersInit, CoverInit,
       JsonInit, ListInit, ScreenInit DEF PhonesInv

\* A step of one part is none of the others.
LEMMA PhonesApart ==
  ASSUME [PhonesNext]_phonesVars
  PROVE  /\ [SerialNext]_vars /\ [Track!Next]_mediaVars /\ [Own!Next]_volumeVars /\ [Theirs!Next]_sinksVars
         /\ [News!Next]_noticesVars /\ [Charged!Next]_batteryVars /\ [Orders!Next]_commandsVars
         /\ [Cover!Next]_coverVars /\ [Json!Next]_jsonVars /\ [Listing!Next]_listVars /\ [OnScreen!Next]_screenVars
  <1>1. UNCHANGED pairVars => UNCHANGED vars
    BY DEF pairVars, vars, sessVars, wireVars, handlerVars, peerVars, userVars
  <1>2. CASE UNCHANGED phonesVars
    BY <1>1, <1>2 DEF phonesVars
  <1>3. CASE PhonesNext
    BY <1>1, <1>3 DEF PhonesNext
  <1> QED
    BY <1>2, <1>3

\* Every step of every part keeps the invariants of all.
LEMMA PhonesStep == PhonesInv /\ [PhonesNext]_phonesVars => PhonesInv'
  <1> SUFFICES ASSUME PhonesInv, [PhonesNext]_phonesVars PROVE PhonesInv'
    OBVIOUS
  <1> QED
    BY PhonesApart, SerialInvStep, TrackStep, OwnStep, TheirsStep, NewsStep, ChargedStep, OrdersStep, CoverStep,
       JsonStep, ListStep, ScreenStep DEF PhonesInv

\* The invariants of the parts hold in every state of the plugins and the screens.
THEOREM PhonesInductive == PhonesSpec => []PhonesInv
  BY PhonesStart, PhonesStep, PTL DEF PhonesSpec

\* What the plugins and the screens keep is of the types that their modules state, and
\* the documents of packets (net/json_body.cpp) have one owner each and act as values, for
\* any phones, messages and bounds.  Of mDNS packets nothing is stated.
THEOREM PeerIsSoundTheorem == PhonesSpec => [](part # "mdns" => PeerIsSound)
  <1>1. PhonesInv /\ part # "mdns" => PeerIsSound
    BY TrackHolds, OwnHolds, TheirsHold, NewsHold, ChargedHolds, OrdersHold, CoverHolds, JsonHolds, ListHolds, ScreenHolds
       DEF PhonesInv, PeerIsSound, SerialInv, PInv
  <1>2. PhonesInv => (part # "mdns" => PeerIsSound)
    BY <1>1
  <1> QED
    BY PhonesInductive, <1>2, PTL

\* What a screen of the overlay shows is what the phone reported last: media, sinks,
\* notifications, battery, covers, the list of devices and the commands.  Notifications that
\* were evicted or could not be written, and covers at the side that have fewer pixels than
\* the square, are excepted.
THEOREM ScreensAreTrueTheorem == PhonesSpec => []ScreensAreTrue
  <1>1. PhonesInv => ScreensAreTrue
    BY TrackHolds, TheirsHold, NewsHold, ChargedHolds, CoverHolds, ListHolds, ScreenHolds DEF PhonesInv, ScreensAreTrue
  <1> QED
    BY PhonesInductive, <1>1, PTL

\* What a phone is told of the console's volume, battery and commands is so, no command
\* runs that was not allowed, and an unpaired phone is asked for nothing.
THEOREM PhonesAreToldTheorem == PhonesSpec => []PhonesAreTold
  <1>1. PhonesInv => PhonesAreTold
    BY OwnHolds, ChargedHolds, OrdersHold, ScreenHolds DEF PhonesInv, PhonesAreTold
  <1> QED
    BY PhonesInductive, <1>1, PTL

=============================================================================
