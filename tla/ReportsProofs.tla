---------------------------- MODULE ReportsProofs ----------------------------
(***************************************************************************)
(* Theorems of Forecast and Figures, for any items, recipes, orders,       *)
(* machines and entries.                                                   *)
(***************************************************************************)
EXTENDS ReportsMC, SumTheorems, SequenceTheorems

-----------------------------------------------------------------------------
(* Arithmetic.                                                             *)

\* What a division with remainder leaves.
LEMMA Division ==
  ASSUME NEW n \in Int, NEW d \in Nat \ {0}
  PROVE  /\ n \div d \in Int /\ n % d \in Int
         /\ n = d * (n \div d) + (n % d) /\ 0 <= n % d /\ n % d < d
  OBVIOUS

\* a is n / d, but for half a point.
Nearest(a, n, d) == 2 * (a * d - n) <= d /\ -d <= 2 * (a * d - n)

\* Rounding moves a quotient by half at most.
LEMMA RoundIsNear ==
  ASSUME NEW n \in Int, NEW d \in Nat \ {0}
  PROVE  Round(n, d) \in Int /\ Nearest(Round(n, d), n, d)
<1> USE DEF Nearest
<1>1. PICK q, m : q = n \div d /\ m = n % d
  OBVIOUS
<1>2. q \in Int /\ m \in Int /\ n = d * q + m /\ 0 <= m /\ m < d
  BY <1>1, Division
<1>3. (q + 1) * d = d * q + d /\ q * d = d * q /\ d * q \in Int
  BY <1>2
<1>4. Round(n, d) = IF 2 * m < d \/ (2 * m = d /\ q % 2 = 0) THEN q ELSE q + 1
  BY <1>1 DEF Round
<1>5. CASE 2 * m < d \/ (2 * m = d /\ q % 2 = 0)
  <2>1. Round(n, d) = q /\ 2 * m <= d
    BY <1>2, <1>4, <1>5
  <2>2. Round(n, d) * d - n = -m
    BY <1>2, <1>3, <2>1
  <2> QED
    BY <1>2, <2>1, <2>2
<1>6. CASE ~(2 * m < d \/ (2 * m = d /\ q % 2 = 0))
  <2>1. Round(n, d) = q + 1 /\ 2 * m >= d
    BY <1>2, <1>4, <1>6
  <2>2. Round(n, d) * d - n = d - m
    BY <1>2, <1>3, <2>1
  <2> QED
    BY <1>2, <2>1, <2>2
<1> QED
  BY <1>5, <1>6

\* Sizes, of sums and of products.
LEMMA SizeIs ==
  ASSUME NEW u \in Int
  PROVE  Size(u) \in Nat /\ u <= Size(u) /\ -u <= Size(u)
  BY DEF Size

LEMMA SizeBound ==
  ASSUME NEW u \in Int, NEW b \in Int, u <= b, -u <= b
  PROVE  Size(u) <= b
  BY DEF Size

LEMMA SizeSum ==
  ASSUME NEW u \in Int, NEW v \in Int
  PROVE  Size(u + v) <= Size(u) + Size(v)
  BY DEF Size

LEMMA SizeProduct ==
  ASSUME NEW u \in Int, NEW v \in Int
  PROVE  Size(u * v) = Size(u) * Size(v)
<1>1. CASE u >= 0 /\ v >= 0
  BY <1>1 DEF Size
<1>2. CASE u < 0 /\ v < 0
  <2>1. PICK x, y \in Nat : x = -u /\ y = -v
    BY <1>2
  <2>2. u * v = x * y /\ x * y >= 0
    BY <2>1
  <2> QED
    BY <1>2, <2>1, <2>2 DEF Size
<1>3. CASE u >= 0 /\ v < 0
  <2>1. PICK y \in Nat : y = -v
    BY <1>3
  <2>2. u * v = -(u * y) /\ u * y >= 0 /\ u * y \in Int
    BY <1>3, <2>1
  <2> QED
    BY <1>3, <2>1, <2>2 DEF Size
<1>4. CASE u < 0 /\ v >= 0
  <2>1. PICK x \in Nat : x = -u
    BY <1>4
  <2>2. u * v = -(x * v) /\ x * v >= 0 /\ x * v \in Int
    BY <1>4, <2>1
  <2> QED
    BY <1>4, <2>1, <2>2 DEF Size
<1> QED
  BY <1>1, <1>2, <1>3, <1>4

LEMMA TimesGrows ==
  ASSUME NEW u \in Int, NEW v \in Int, NEW k \in Nat, u <= v
  PROVE  u * k <= v * k
  OBVIOUS

\* A is a of d, and u is half of d at most.
Rounded(A, u, a, d) == Size(A) = a * d /\ 2 * Size(u) <= d

\* What a product of three loses with the roundings, and a bound of it.
Excess(A, u, P, v, Q, w) == A * P * Q - (A - u) * (P - v) * (Q - w)
Room(a, p, q) == a * p + a * q + p * q + a + p + q + 1

\* A product of three percentages is near that of the figures that were rounded.
LEMMA RoundedProduct ==
  ASSUME NEW i \in Int, NEW j \in Int, NEW k \in Int,
         NEW l \in Int, NEW m \in Int, NEW n \in Int,
         NEW d \in Nat \ {0}, NEW e \in Nat \ {0}, NEW f \in Nat \ {0},
         Nearest(i, l, d), Nearest(j, m, e), Nearest(k, n, f)
  PROVE  2 * Size((i * d) * (j * e) * (k * f) - l * m * n)
           <= d * e * f * Room(Size(i), Size(j), Size(k))
<1>1. PICK A, P, Q \in Int : A = i * d /\ P = j * e /\ Q = k * f
  OBVIOUS
<1>2. PICK a, p, q \in Nat : a = Size(i) /\ p = Size(j) /\ q = Size(k)
  BY SizeIs
<1>3. PICK u, v, w \in Int : u = A - l /\ v = P - m /\ w = Q - n
  OBVIOUS
<1>4. Rounded(A, u, a, d) /\ Rounded(P, v, p, e) /\ Rounded(Q, w, q, f)
  <2>1. ASSUME NEW h \in Int, NEW b \in Int, NEW c \in Nat \ {0}, Nearest(h, b, c)
        PROVE  Rounded(h * c, h * c - b, Size(h), c)
    <3>1. Size(h * c) = Size(h) * Size(c) /\ Size(c) = c
      BY SizeProduct DEF Size
    <3>2. PICK r \in Int : r = h * c - b
      OBVIOUS
    <3>3. 2 * Size(r) <= c
      BY <2>1, <3>2 DEF Size, Nearest
    <3> QED
      BY <3>1, <3>2, <3>3 DEF Rounded
  <2> QED
    BY <1>1, <1>2, <1>3, <2>1
<1>5. 2 * Size(Excess(A, u, P, v, Q, w)) <= d * e * f * Room(a, p, q)
  <2> USE <1>4 DEF Rounded, Excess, Room
  <2>1. PICK x, y, z \in Nat : x = Size(u) /\ y = Size(v) /\ z = Size(w)
    BY SizeIs
  <2>2. A * P * Q - (A - u) * (P - v) * (Q - w)
          = u * (P * Q) + v * (A * Q) + w * (A * P)
            + -(u * v * Q) + -(u * w * P) + -(v * w * A) + u * v * w
    OBVIOUS
  <2> DEFINE s1 == u * (P * Q)
             s2 == v * (A * Q)
             s3 == w * (A * P)
             s4 == -(u * v * Q)
             s5 == -(u * w * P)
             s6 == -(v * w * A)
             s7 == u * v * w
  <2>3. /\ s1 \in Int /\ s2 \in Int /\ s3 \in Int /\ s4 \in Int /\ s5 \in Int /\ s6 \in Int /\ s7 \in Int
    OBVIOUS
  <2>4. Size(-(u * v * Q)) = Size(u * v * Q) /\ Size(-(u * w * P)) = Size(u * w * P)
        /\ Size(-(v * w * A)) = Size(v * w * A)
    <3>1. \A h \in Int : Size(-h) = Size(h)
      BY DEF Size
    <3> QED
      BY <3>1
  <2>5. /\ Size(s1) = x * ((p * e) * (q * f))
        /\ Size(s2) = y * ((a * d) * (q * f))
        /\ Size(s3) = z * ((a * d) * (p * e))
    <3>1. /\ Size(P * Q) = (p * e) * (q * f) /\ P * Q \in Int
          /\ Size(A * Q) = (a * d) * (q * f) /\ A * Q \in Int
          /\ Size(A * P) = (a * d) * (p * e) /\ A * P \in Int
      <4>1. Size(P * Q) = Size(P) * Size(Q)
        BY SizeProduct
      <4>2. Size(A * Q) = Size(A) * Size(Q)
        BY SizeProduct
      <4>3. Size(A * P) = Size(A) * Size(P)
        BY SizeProduct
      <4> QED
        BY <4>1, <4>2, <4>3
    <3>2. /\ Size(s1) = Size(u) * Size(P * Q)
          /\ Size(s2) = Size(v) * Size(A * Q)
          /\ Size(s3) = Size(w) * Size(A * P)
      BY <3>1, SizeProduct
    <3> QED
      BY <2>1, <3>1, <3>2
  <2>6. /\ Size(s4) = x * y * (q * f)
        /\ Size(s5) = x * z * (p * e)
        /\ Size(s6) = y * z * (a * d)
        /\ Size(s7) = x * y * z
    <3>1. /\ Size(u * v) = x * y /\ u * v \in Int
          /\ Size(u * w) = x * z /\ u * w \in Int
          /\ Size(v * w) = y * z /\ v * w \in Int
      BY <2>1, SizeProduct
    <3>2. /\ Size(u * v * Q) = Size(u * v) * Size(Q)
          /\ Size(u * w * P) = Size(u * w) * Size(P)
          /\ Size(v * w * A) = Size(v * w) * Size(A)
          /\ Size(u * v * w) = Size(u * v) * Size(w)
      BY <3>1, SizeProduct
    <3> QED
      BY <2>1, <2>4, <3>1, <3>2
  <2>7. 2 * Size(s1) <= d * ((p * e) * (q * f))
    BY <2>1, <2>5, TimesGrows
  <2>8. 2 * Size(s2) <= e * ((a * d) * (q * f))
    BY <2>1, <2>5, TimesGrows
  <2>9. 2 * Size(s3) <= f * ((a * d) * (p * e))
    BY <2>1, <2>5, TimesGrows
  <2>10. /\ 2 * (x * y) <= d * e /\ 2 * (x * z) <= d * f /\ 2 * (y * z) <= e * f
    <3> SUFFICES ASSUME NEW g \in Nat, NEW h \in Nat, NEW b \in Nat, NEW c \in Nat,
                        2 * g <= b, 2 * h <= c
                 PROVE  2 * (g * h) <= b * c
      BY <2>1
    <3>1. (2 * g) * h <= b * h
      BY TimesGrows
    <3>2. h * b <= c * b
      BY TimesGrows
    <3> QED
      BY <3>1, <3>2
  <2>11. 2 * Size(s4) <= d * e * (q * f)
    <3>1. (2 * (x * y)) * (q * f) <= (d * e) * (q * f)
      BY <2>1, <2>10, TimesGrows
    <3> QED
      BY <2>1, <2>6, <3>1
  <2>12. 2 * Size(s5) <= d * f * (p * e)
    <3>1. (2 * (x * z)) * (p * e) <= (d * f) * (p * e)
      BY <2>1, <2>10, TimesGrows
    <3> QED
      BY <2>1, <2>6, <3>1
  <2>13. 2 * Size(s6) <= e * f * (a * d)
    <3>1. (2 * (y * z)) * (a * d) <= (e * f) * (a * d)
      BY <2>1, <2>10, TimesGrows
    <3> QED
      BY <2>1, <2>6, <3>1
  <2>14. 2 * Size(s7) <= d * e * f
    <3>1. (2 * (x * y)) * z <= (d * e) * z
      BY <2>1, <2>10, TimesGrows
    <3>2. z * (d * e) <= f * (d * e)
      BY <2>1, TimesGrows
    <3> QED
      BY <2>6, <3>1, <3>2
  <2>15. Size(s1 + s2 + s3 + s4 + s5 + s6 + s7)
           <= Size(s1) + Size(s2) + Size(s3) + Size(s4) + Size(s5) + Size(s6) + Size(s7)
    <3> HIDE DEF s1, s2, s3, s4, s5, s6, s7
    <3>0. /\ s1 + s2 \in Int /\ s1 + s2 + s3 \in Int /\ s1 + s2 + s3 + s4 \in Int
          /\ s1 + s2 + s3 + s4 + s5 \in Int /\ s1 + s2 + s3 + s4 + s5 + s6 \in Int
      BY <2>3
    <3>10. Size(s1 + s2) <= Size(s1) + Size(s2)
      BY <2>3, <3>0, SizeSum
    <3>11. Size(s1 + s2 + s3) <= Size(s1 + s2) + Size(s3)
      BY <2>3, <3>0, SizeSum
    <3>12. Size(s1 + s2 + s3 + s4) <= Size(s1 + s2 + s3) + Size(s4)
      BY <2>3, <3>0, SizeSum
    <3>13. Size(s1 + s2 + s3 + s4 + s5) <= Size(s1 + s2 + s3 + s4) + Size(s5)
      BY <2>3, <3>0, SizeSum
    <3>14. Size(s1 + s2 + s3 + s4 + s5 + s6) <= Size(s1 + s2 + s3 + s4 + s5) + Size(s6)
      BY <2>3, <3>0, SizeSum
    <3>15. Size(s1 + s2 + s3 + s4 + s5 + s6 + s7) <= Size(s1 + s2 + s3 + s4 + s5 + s6) + Size(s7)
      BY <2>3, <3>0, SizeSum
    <3>2. /\ Size(s1) \in Int /\ Size(s2) \in Int /\ Size(s3) \in Int /\ Size(s4) \in Int
          /\ Size(s5) \in Int /\ Size(s6) \in Int /\ Size(s7) \in Int
          /\ Size(s1 + s2) \in Int /\ Size(s1 + s2 + s3) \in Int
          /\ Size(s1 + s2 + s3 + s4) \in Int /\ Size(s1 + s2 + s3 + s4 + s5) \in Int
          /\ Size(s1 + s2 + s3 + s4 + s5 + s6) \in Int
          /\ Size(s1 + s2 + s3 + s4 + s5 + s6 + s7) \in Int
      BY <2>3, SizeIs
    <3> QED
      BY <3>10, <3>11, <3>12, <3>13, <3>14, <3>15, <3>2
  <2>16. d * e * f * (a * p + a * q + p * q + a + p + q + 1)
           = d * ((p * e) * (q * f)) + e * ((a * d) * (q * f)) + f * ((a * d) * (p * e))
             + d * e * (q * f) + d * f * (p * e) + e * f * (a * d) + d * e * f
    OBVIOUS
  <2>17. Size(A * P * Q - (A - u) * (P - v) * (Q - w))
           = Size(s1 + s2 + s3 + s4 + s5 + s6 + s7)
    BY <2>2
  <2>18. /\ Size(s1) \in Int /\ Size(s2) \in Int /\ Size(s3) \in Int /\ Size(s4) \in Int
         /\ Size(s5) \in Int /\ Size(s6) \in Int /\ Size(s7) \in Int
         /\ Size(s1 + s2 + s3 + s4 + s5 + s6 + s7) \in Int
    BY <2>3, SizeIs
  <2> HIDE DEF s1, s2, s3, s4, s5, s6, s7
  <2>19. 2 * Size(s1 + s2 + s3 + s4 + s5 + s6 + s7)
           <= d * ((p * e) * (q * f)) + e * ((a * d) * (q * f)) + f * ((a * d) * (p * e))
              + d * e * (q * f) + d * f * (p * e) + e * f * (a * d) + d * e * f
    BY <2>7, <2>8, <2>9, <2>11, <2>12, <2>13, <2>14, <2>15, <2>18
  <2> QED
    BY <2>16, <2>17, <2>19
<1>6. Excess(A, u, P, v, Q, w) = (i * d) * (j * e) * (k * f) - l * m * n
  <2>1. A - u = l /\ P - v = m /\ Q - w = n
    BY <1>3
  <2> QED
    BY <1>1, <2>1 DEF Excess
<1> QED
  BY <1>2, <1>5, <1>6

\* t is near 100 * (x / d) * (z / e), as near as Slack says.
Near(t, d, e, x, z, a, p, q) ==
  20000 * Size(t * (d * e) - 100 * x * z)
    <= (d * e) * (10001 + Size(a) * Size(p) + Size(a) * Size(q) + Size(p) * Size(q)
                        + Size(a) + Size(p) + Size(q))

\* Percentages that were rounded, and their product.
Percentages(d, e, f, x, z, a, p, q, t) ==
  /\ Nearest(a, 100 * x, d) /\ Nearest(p, 100 * f, e) /\ Nearest(q, 100 * z, f)
  /\ Nearest(t, a * p * q, 10000)

\* The TRS of a record is near what its inputs say.
LEMMA TrsIsNear ==
  ASSUME NEW d \in Nat \ {0}, NEW e \in Nat \ {0}, NEW f \in Nat \ {0},
         NEW x \in Int, NEW z \in Int,
         NEW a \in Int, NEW p \in Int, NEW q \in Int, NEW t \in Int,
         Percentages(d, e, f, x, z, a, p, q, t)
  PROVE  Near(t, d, e, x, z, a, p, q)
<1>0. /\ Nearest(a, 100 * x, d) /\ Nearest(p, 100 * f, e) /\ Nearest(q, 100 * z, f)
      /\ Nearest(t, a * p * q, 10000)
  BY DEF Percentages
<1>1. PICK b, c, g \in Nat : b = Size(a) /\ c = Size(p) /\ g = Size(q)
  BY SizeIs
<1>2. PICK k \in Nat : k = Room(b, c, g)
  <2>1. b * c \in Nat /\ b * g \in Nat /\ c * g \in Nat
    OBVIOUS
  <2> QED
    BY <2>1 DEF Room
<1>3. PICK m \in Nat : m = d * e * f
  OBVIOUS
<1>4. PICK s \in Int : s = (a * d) * (p * e) * (q * f) - (100 * x) * (100 * f) * (100 * z)
  OBVIOUS
<1>5. 2 * Size(s) <= m * k
  <2>1. 100 * x \in Int /\ 100 * f \in Int /\ 100 * z \in Int
    OBVIOUS
  <2>2. 2 * Size((a * d) * (p * e) * (q * f) - (100 * x) * (100 * f) * (100 * z))
          <= d * e * f * Room(Size(a), Size(p), Size(q))
    BY <1>0, <2>1, RoundedProduct
  <2> QED
    BY <1>1, <1>2, <1>3, <1>4, <2>2
<1>6. PICK n \in Int : n = a * p * q
  OBVIOUS
<1>7. PICK r \in Int : r = t * 10000 + (-n)
  <2>1. PICK i, j \in Int : i = t * 10000 /\ j = -n
    OBVIOUS
  <2>2. PICK r \in Int : r = i + j
    OBVIOUS
  <2> QED
    BY <2>1, <2>2
<1>8. 2 * Size(r * m) <= 10000 * m
  <2>1. 2 * Size(r) <= 10000 /\ Size(r) \in Nat
    BY <1>0, <1>6, <1>7 DEF Size, Nearest
  <2>2. Size(m) = m
    BY DEF Size
  <2>3. Size(r * m) = Size(r) * m
    BY <2>2, SizeProduct
  <2> QED
    BY <2>1, <2>3, TimesGrows
<1>9. PICK h \in Int : h = t * (d * e) - 100 * x * z
  OBVIOUS
<1>10. 10000 * (h * f) = r * m + s
  BY <1>3, <1>4, <1>6, <1>7, <1>9
<1>11. 2 * Size(r * m + s) <= 10000 * m + m * k
  <2>1. Size(r * m + s) <= Size(r * m) + Size(s)
    BY SizeSum
  <2>2. Size(r * m + s) \in Int /\ Size(r * m) \in Int /\ Size(s) \in Int
    BY SizeIs
  <2> QED
    BY <1>5, <1>8, <2>1, <2>2
<1>12. Size(10000 * (h * f)) = 10000 * Size(h) * f /\ Size(h) \in Nat
  <2>1. Size(f) = f /\ Size(10000) = 10000
    BY DEF Size
  <2>2. Size(h * f) = Size(h) * f /\ h * f \in Int
    BY <2>1, SizeProduct
  <2>3. Size(10000 * (h * f)) = 10000 * Size(h * f)
    BY <2>1, <2>2, SizeProduct
  <2> QED
    BY <2>2, <2>3, SizeIs
<1>13. PICK y \in Nat : y = Size(h)
  BY <1>12
<1>14. f * (20000 * y) <= f * ((d * e) * (10000 + k))
  <2>1. 20000 * y * f <= m * (10000 + k)
    BY <1>10, <1>11, <1>12, <1>13
  <2>2. m * (10000 + k) = f * ((d * e) * (10000 + k))
    BY <1>3
  <2> QED
    BY <2>1, <2>2
<1>15. 20000 * y <= (d * e) * (10000 + k)
  <2>1. \A i, j \in Int : f * i <= f * j => i <= j
    OBVIOUS
  <2>2. 20000 * y \in Int /\ (d * e) * (10000 + k) \in Int
    OBVIOUS
  <2> QED
    BY <1>14, <2>1, <2>2
<1>16. 10000 + k = 10001 + b * c + b * g + c * g + b + c + g
  BY <1>2 DEF Room
<1> QED
  BY <1>1, <1>9, <1>13, <1>15, <1>16 DEF Near

-----------------------------------------------------------------------------
(* Figures: the types.                                                     *)

EntryRow == [line : Lines, hour : Nat, shift : Shifts, made : Nat, rejects : Nat,
             downtime : Nat, pct : Int, final : BOOLEAN]
UnsavedRow == [line : Lines, hour : Nat, shift : Shifts \union {""}, made : Nat,
               rejects : Nat, downtime : Nat, pct : Int, final : BOOLEAN]
TrsRow == [made : Nat, rejects : Nat, downtime : Nat, theory : {Nominal},
           duration : {ShiftDuration}, availability : Int, performance : Int,
           quality : Int, trs : Int]
CostRow == [labor : Int, total : Int, each : Int, made : Nat]

FiguresTyped ==
  /\ entry \in [Entries -> EntryRow \union {NoEntry}] /\ IsFiniteSet(Present)
  /\ oee \in [Lines -> TrsRow \union {NoRecord}]
  /\ cost \in [Lines -> CostRow \union {NoRecord}]
  /\ rate \in Int

\* The shift of an hour is a shift, and a row is saved with one.
LEMMA SavedTyped ==
  ASSUME NEW row \in UnsavedRow
  PROVE  /\ Saved(row) \in EntryRow
         /\ Saved(row).line = row.line /\ Saved(row).hour = row.hour
         /\ Saved(row).made = row.made /\ Saved(row).rejects = row.rejects
         /\ Saved(row).downtime = row.downtime
         /\ Saved(row).shift = IF row.shift = "" THEN ShiftForHour(row.hour) ELSE row.shift
         /\ Saved(row).pct = IF row.made > 0 /\ row.pct = 0
                             THEN Round(100 * row.rejects, row.made) ELSE row.pct
         /\ Saved(row).final = row.final
<1>1. PICK shift : shift = IF row.shift = "" THEN ShiftForHour(row.hour) ELSE row.shift
  OBVIOUS
<1>2. PICK pct : pct = IF row.made > 0 /\ row.pct = 0
                       THEN Round(100 * row.rejects, row.made) ELSE row.pct
  OBVIOUS
<1>3. shift \in Shifts
  <2>1. row.shift \in Shifts \union {""}
    BY DEF UnsavedRow
  <2> QED
    BY <1>1, <2>1 DEF ShiftForHour, Shifts
<1>4. pct \in Int
  <2>0. row.made \in Nat /\ row.rejects \in Nat /\ row.pct \in Int
    BY DEF UnsavedRow
  <2>1. PICK made, rejects \in Nat : made = row.made /\ rejects = row.rejects
    BY <2>0
  <2>2. made > 0 => Round(100 * rejects, made) \in Int
    <3>1. 100 * rejects \in Int /\ (made > 0 => made \in Nat \ {0})
      OBVIOUS
    <3> QED
      BY <3>1, RoundIsNear
  <2> QED
    BY <1>2, <2>0, <2>1, <2>2
<1>5. Saved(row) = [row EXCEPT !.shift = shift, !.pct = pct]
  BY <1>1, <1>2 DEF Saved
<1> QED
  BY <1>1, <1>2, <1>3, <1>4, <1>5 DEF EntryRow, UnsavedRow

LEMMA DraftTyped ==
  ASSUME NEW s \in Sent, NEW shift \in Shifts \union {""}, NEW pct \in Int
  PROVE  Draft(s, shift, pct) \in UnsavedRow
  BY SentAssumption DEF Draft, UnsavedRow

\* No entry and no record is a row.
LEMMA NothingIsNoRow ==
  NoEntry \notin EntryRow /\ NoRecord \notin TrsRow /\ NoRecord \notin CostRow
<1>1. NoEntry.made = -1 /\ NoRecord.made = -1
  BY DEF NoEntry, NoRecord
<1>2. \A r \in EntryRow \union TrsRow \union CostRow : r.made \in Nat
  BY DEF EntryRow, TrsRow, CostRow
<1> QED
  BY <1>1, <1>2

\* The rows of the entries there are.
LEMMA PresentRows ==
  ASSUME FiguresTyped
  PROVE  /\ \A e \in Present : e \in Entries /\ entry[e] \in EntryRow
         /\ \A m : OnLine(m) \subseteq Present /\ IsFiniteSet(OnLine(m))
<1>1. \A e \in Present : e \in Entries /\ entry[e] \in EntryRow
  BY DEF FiguresTyped, Present
<1>2. \A m : OnLine(m) \subseteq Present
  BY DEF OnLine
<1> QED
  BY <1>1, <1>2, FS_Subset DEF FiguresTyped

Fields == {"made", "rejects", "downtime"}

\* What entries add up to.
LEMMA TotalTyped ==
  ASSUME FiguresTyped, NEW S \in SUBSET Present, NEW field \in Fields
  PROVE  Total(field, S) \in Nat
<1>1. PICK f : f = [e \in S |-> entry[e][field]]
  OBVIOUS
<1>2. DOMAIN f = S /\ IsFiniteSet(S)
  BY <1>1, FS_Subset DEF FiguresTyped
<1>3. ASSUME NEW x \in S PROVE f[x] \in Nat
  <2>1. entry[x] \in EntryRow
    BY PresentRows
  <2>2. entry[x].made \in Nat /\ entry[x].rejects \in Nat /\ entry[x].downtime \in Nat
    BY <2>1 DEF EntryRow
  <2> QED
    BY <1>1, <2>2 DEF Fields
<1>4. SumFunctionOnSet(f, S) \in Nat
  BY <1>2, <1>3, SumIsNatural
<1> QED
  BY <1>1, <1>2, <1>4 DEF Total, SumFunction

\* What is computed of a record.
Computed(r, made, rejects, downtime) ==
  /\ r \in TrsRow
  /\ r.made = made /\ r.rejects = rejects /\ r.downtime = downtime
  /\ r.availability = Round(100 * (ShiftDuration - downtime), ShiftDuration)
  /\ r.performance = IF Nominal > 0 THEN Round(100 * made, Nominal) ELSE 0
  /\ r.quality = IF made > 0 THEN Round(100 * (made - rejects), made) ELSE 0
  /\ r.trs = Round(r.availability * r.performance * r.quality, 10000)

LEMMA ComputedRow ==
  ASSUME NEW made \in Nat, NEW rejects \in Nat, NEW downtime \in Nat
  PROVE  Computed(Compute(Unrated(made, rejects, downtime)), made, rejects, downtime)
<1>0. PICK r : r = Compute(Unrated(made, rejects, downtime))
  OBVIOUS
<1>1. PICK u : u = Unrated(made, rejects, downtime)
  OBVIOUS
<1>2. u \in TrsRow
  BY <1>1, FiguresAssumption DEF Unrated, TrsRow
<1>3. /\ u.made = made /\ u.rejects = rejects /\ u.downtime = downtime
      /\ u.theory = Nominal /\ u.duration = ShiftDuration
  BY <1>1 DEF Unrated
<1>4. PICK a : a = Round(100 * (ShiftDuration - downtime), ShiftDuration)
  OBVIOUS
<1>5. PICK p : p = IF Nominal > 0 THEN Round(100 * made, Nominal) ELSE 0
  OBVIOUS
<1>6. PICK q : q = IF made > 0 THEN Round(100 * (made - rejects), made) ELSE 0
  OBVIOUS
<1>7. PICK t : t = Round(a * p * q, 10000)
  OBVIOUS
<1>8. a \in Int
  BY <1>4, FiguresAssumption, RoundIsNear
<1>9. p \in Int
  BY <1>5, FiguresAssumption, RoundIsNear
<1>10. q \in Int
  BY <1>6, RoundIsNear
<1>11. t \in Int
  <2>1. a * p * q \in Int
    BY <1>8, <1>9, <1>10
  <2> QED
    BY <1>7, <2>1, RoundIsNear
<1>12. r = [u EXCEPT !.availability = a, !.performance = p, !.quality = q, !.trs = t]
  BY <1>0, <1>1, <1>3, <1>4, <1>5, <1>6, <1>7 DEF Compute
<1>13. r \in TrsRow
  BY <1>2, <1>8, <1>9, <1>10, <1>11, <1>12 DEF TrsRow
<1>14. /\ r.made = made /\ r.rejects = rejects /\ r.downtime = downtime
       /\ r.availability = a /\ r.performance = p /\ r.quality = q /\ r.trs = t
  BY <1>2, <1>3, <1>12 DEF TrsRow
<1> QED
  BY <1>0, <1>4, <1>5, <1>6, <1>7, <1>13, <1>14 DEF Computed

LEMMA CostedRow ==
  ASSUME NEW r \in Int, NEW m \in Lines, FiguresTyped, NEW n \in Nat,
         NEW c, c = ComputeTotals(Labour(r, m, n))
  PROVE  /\ c \in CostRow /\ c.made = n /\ c.total = 24 * r
         /\ n > 0 => c.each = Round(24 * r, n)
<1>1. OldEach(m) \in Int
  <2>1. cost[m] \in CostRow \union {NoRecord}
    BY DEF FiguresTyped
  <2> QED
    BY <2>1 DEF OldEach, CostRow
<1>2. PICK l \in CostRow : l = Labour(r, m, n)
  BY <1>1 DEF Labour, CostRow
<1>3. l.labor = 24 * r /\ l.made = n /\ l.each = OldEach(m)
  BY <1>2 DEF Labour
<1>4. PICK b : b = IF n > 0 THEN Round(24 * r, n) ELSE OldEach(m)
  OBVIOUS
<1>5. b \in Int
  BY <1>1, <1>4, RoundIsNear
<1>6. c = [l EXCEPT !.total = 24 * r, !.each = b]
  BY <1>2, <1>3, <1>4 DEF ComputeTotals
<1> QED
  BY <1>3, <1>4, <1>5, <1>6 DEF CostRow

-----------------------------------------------------------------------------
(* Figures: the steps.                                                     *)

\* A form makes a row, and overwrites one.
LEMMA PctTyped ==
  ASSUME NEW s \in Sent, NEW sends \in BOOLEAN
  PROVE  (IF sends THEN s.pct ELSE 0) \in Int
<1>1. s.pct \in Int
  BY SentAssumption
<1>2. 0 \in Int
  OBVIOUS
<1> QED
  BY <1>1, <1>2

LEMMA MadeTyped ==
  ASSUME NEW s \in Sent, NEW pct \in Int
  PROVE  Saved(Draft(s, s.shift, pct)) \in EntryRow
<1>1. s.shift \in Shifts \union {""}
  BY SentAssumption
<1>2. Draft(s, s.shift, pct) \in UnsavedRow
  BY <1>1, DraftTyped
<1> QED
  BY <1>2, SavedTyped

LEMMA OverwrittenTyped ==
  ASSUME NEW old \in EntryRow, NEW s \in Sent, NEW again \in BOOLEAN
  PROVE  Overwritten(old, s, again) \in EntryRow
<1>1. PICK shift : shift = IF s.shift = "" THEN old.shift ELSE s.shift
  OBVIOUS
<1>2. shift \in Shifts
  <2>1. old.shift \in Shifts /\ s.shift \in Shifts \union {""}
    BY SentAssumption DEF EntryRow
  <2> QED
    BY <1>1, <2>1
<1>3. s.made \in Nat /\ s.rejects \in Nat /\ s.downtime \in Nat /\ s.pct \in Int
  BY SentAssumption
<1>4. PICK sent : sent = [old EXCEPT !.made = s.made, !.rejects = s.rejects,
                                     !.downtime = s.downtime, !.shift = shift]
  OBVIOUS
<1>5. sent \in EntryRow
  BY <1>2, <1>3, <1>4 DEF EntryRow
<1>6. PICK zeroed : zeroed = [sent EXCEPT !.pct = s.pct]
  OBVIOUS
<1>7. zeroed \in UnsavedRow
  BY <1>3, <1>5, <1>6 DEF EntryRow, UnsavedRow
<1>8. PICK pct : pct = Saved(zeroed).pct
  OBVIOUS
<1>9. pct \in Int
  BY <1>7, <1>8, SavedTyped DEF EntryRow
<1>10. [sent EXCEPT !.pct = pct] \in EntryRow
  BY <1>5, <1>9 DEF EntryRow
<1>11. Overwritten(old, s, again) = IF again THEN [sent EXCEPT !.pct = pct] ELSE sent
  BY <1>1, <1>4, <1>6, <1>8 DEF Overwritten
<1> QED
  BY <1>5, <1>10, <1>11

EntryAction(e) == CreateEntry(e) \/ UpdateEntry(e) \/ BulkEntry(e)
                  \/ ValidateEntry(e) \/ DestroyEntry(e)

\* What an action on entries makes of entry e.
LEMMA EntryWritten ==
  ASSUME FiguresTyped, NEW e \in Entries, EntryAction(e)
  PROVE  \E row \in EntryRow \union {NoEntry} :
           /\ entry' = [entry EXCEPT ![e] = row] /\ UNCHANGED <<oee, cost, rate>>
           /\ \/ row = NoEntry
              \/ e \in Present /\ ~row.final
              \/ e \notin Present
              \/ e \in Present /\ row = Saved([entry[e] EXCEPT !.final = TRUE])
<1>1. e \in Present => entry[e] \in EntryRow
  BY PresentRows
<1>2. CASE CreateEntry(e)
  <2>1. PICK s \in Sent, pct \in Int : Make(e, s, pct)
    <3>1. PICK s \in Sent, sends \in BOOLEAN : Make(e, s, IF sends THEN s.pct ELSE 0)
      BY <1>2 DEF CreateEntry
    <3>2. (IF sends THEN s.pct ELSE 0) \in Int
      BY PctTyped
    <3> QED
      BY <3>1, <3>2
  <2>2. Saved(Draft(s, s.shift, pct)) \in EntryRow
    BY MadeTyped
  <2> QED
    BY <2>1, <2>2 DEF Make, WriteEntry
<1>3. CASE UpdateEntry(e)
  <2>0. PICK s \in Sent, sends \in BOOLEAN :
          /\ WriteEntry(e, Saved(Draft(s, IF s.shift = "" THEN entry[e].shift ELSE s.shift,
                                       IF sends THEN s.pct ELSE entry[e].pct)))
          /\ e \in Present
    BY <1>3 DEF UpdateEntry
  <2>1. PICK shift, pct : /\ shift = IF s.shift = "" THEN entry[e].shift ELSE s.shift
                          /\ pct = IF sends THEN s.pct ELSE entry[e].pct
    OBVIOUS
  <2>2. shift \in Shifts \union {""} /\ pct \in Int
    <3>1. s.shift \in Shifts \union {""} /\ s.pct \in Int
      BY SentAssumption
    <3> QED
      BY <1>1, <2>0, <2>1, <3>1 DEF EntryRow
  <2>3. PICK d \in UnsavedRow : d = Draft(s, shift, pct) /\ ~d.final
    BY <2>2, DraftTyped DEF Draft
  <2>4. Saved(d) \in EntryRow /\ ~Saved(d).final
    BY <2>3, SavedTyped
  <2> QED
    BY <2>0, <2>1, <2>3, <2>4 DEF WriteEntry
<1>4. CASE BulkEntry(e)
  <2>1. PICK s \in Sent, t \in Sent, sends \in BOOLEAN, again \in BOOLEAN :
          /\ e \notin Present
          /\ WriteEntry(e, Overwritten(Saved(Draft(s, s.shift, IF sends THEN s.pct ELSE 0)),
                                       t, again))
    BY <1>4 DEF BulkEntry
  <2>2. PICK pct \in Int : pct = IF sends THEN s.pct ELSE 0
    BY PctTyped
  <2>3. PICK row : row = Overwritten(Saved(Draft(s, s.shift, pct)), t, again)
    OBVIOUS
  <2>4. row \in EntryRow
    BY <2>3, MadeTyped, OverwrittenTyped
  <2> QED
    BY <2>1, <2>2, <2>3, <2>4 DEF WriteEntry
<1>5. CASE ValidateEntry(e)
  <2>1. e \in Present /\ WriteEntry(e, Saved([entry[e] EXCEPT !.final = TRUE]))
    BY <1>5 DEF ValidateEntry
  <2>2. [entry[e] EXCEPT !.final = TRUE] \in UnsavedRow
    BY <1>1, <2>1 DEF EntryRow, UnsavedRow
  <2>3. Saved([entry[e] EXCEPT !.final = TRUE]) \in EntryRow
    BY <2>2, SavedTyped
  <2> QED
    BY <2>1, <2>3 DEF WriteEntry
<1>6. CASE DestroyEntry(e)
  BY <1>6 DEF DestroyEntry
<1> QED
  BY <1>2, <1>3, <1>4, <1>5, <1>6 DEF EntryAction

\* Where the record of a machine comes from after a step.
LEMMA RecordWritten ==
  ASSUME FiguresTyped, FiguresNext, NEW m \in Lines
  PROVE  /\ \/ oee'[m] = oee[m]
            \/ \E made, rejects, downtime \in Nat :
                 oee'[m] = Compute(Unrated(made, rejects, downtime))
         /\ \/ cost'[m] = cost[m]
            \/ \E r \in Int, n \in Nat : cost'[m] = ComputeTotals(Labour(r, m, n))
<1>1. CASE \E e \in Entries : EntryAction(e)
  BY <1>1, EntryWritten
<1>2. ASSUME NEW machines \in SUBSET Lines, RecalcOEE(machines)
      PROVE  /\ \/ oee'[m] = oee[m]
                \/ \E made, rejects, downtime \in Nat :
                     oee'[m] = Compute(Unrated(made, rejects, downtime))
             /\ cost' = cost
  <2>1. oee'[m] = IF m \in machines /\ OnLine(m) # {} THEN Compute(Inputs(m)) ELSE oee[m]
    BY <1>2 DEF RecalcOEE
  <2>2. OnLine(m) \in SUBSET Present
    BY PresentRows
  <2>3. PICK made, rejects, downtime \in Nat :
          made = Total("made", OnLine(m)) /\ rejects = Total("rejects", OnLine(m))
          /\ downtime = Total("downtime", OnLine(m))
    BY <2>2, TotalTyped DEF Fields
  <2>4. Inputs(m) = Unrated(made, rejects, downtime)
    BY <2>3 DEF Inputs
  <2> QED
    BY <1>2, <2>1, <2>4 DEF RecalcOEE
<1>3. ASSUME NEW machines \in SUBSET Lines, RecalcCost(machines)
      PROVE  /\ \/ cost'[m] = cost[m]
                \/ \E r \in Int, n \in Nat : cost'[m] = ComputeTotals(Labour(r, m, n))
             /\ oee' = oee
  <2>1. PICK n : n = Max({Total("made", OnLine(m)), 1})
    OBVIOUS
  <2>2. cost'[m] = IF m \in machines /\ OnLine(m) # {}
                   THEN ComputeTotals(Labour(rate, m, n)) ELSE cost[m]
    BY <1>3, <2>1 DEF RecalcCost
  <2>3. OnLine(m) \in SUBSET Present
    BY PresentRows
  <2>4. PICK k \in Nat : k = Total("made", OnLine(m))
    BY <2>3, TotalTyped DEF Fields
  <2>5. n \in Nat
    <3>1. n \in {k, 1}
      <4>1. \E x \in {k, 1} : \A y \in {k, 1} : x >= y
        OBVIOUS
      <4> QED
        BY <2>1, <2>4, <4>1 DEF Max
    <3> QED
      BY <3>1
  <2> QED
    BY <1>3, <2>2, <2>5 DEF RecalcCost, FiguresTyped
<1>4. CASE SetRate
  BY <1>4 DEF SetRate
<1>5. ASSUME NEW k \in Lines, WriteOEE(k)
      PROVE  /\ \/ oee'[m] = oee[m]
                \/ \E made, rejects, downtime \in Nat :
                     oee'[m] = Compute(Unrated(made, rejects, downtime))
             /\ cost' = cost
  <2>1. PICK s \in Sent : oee' = [oee EXCEPT ![k] = Compute(Unrated(s.made, s.rejects, s.downtime))]
    BY <1>5 DEF WriteOEE
  <2>2. s.made \in Nat /\ s.rejects \in Nat /\ s.downtime \in Nat
    BY SentAssumption
  <2>3. oee'[m] = IF m = k THEN Compute(Unrated(s.made, s.rejects, s.downtime)) ELSE oee[m]
    BY <2>1 DEF FiguresTyped
  <2> QED
    BY <1>5, <2>2, <2>3 DEF WriteOEE
<1>6. ASSUME NEW k \in Lines, WriteCost(k)
      PROVE  /\ \/ cost'[m] = cost[m]
                \/ \E r \in Int, n \in Nat : cost'[m] = ComputeTotals(Labour(r, m, n))
             /\ oee' = oee
  <2>1. PICK s \in Sent, r \in Rates :
          cost' = [cost EXCEPT ![k] = ComputeTotals(Labour(r, k, s.made))]
    BY <1>6 DEF WriteCost
  <2>2. s.made \in Nat /\ r \in Int
    BY SentAssumption, FiguresAssumption
  <2>3. cost'[m] = IF m = k THEN ComputeTotals(Labour(r, m, s.made)) ELSE cost[m]
    BY <2>1 DEF FiguresTyped
  <2> QED
    BY <1>6, <2>2, <2>3 DEF WriteCost
<1> QED
  BY <1>1, <1>2, <1>3, <1>4, <1>5, <1>6 DEF FiguresNext, EntryAction

\* The types are kept.
LEMMA FiguresTypesKept ==
  ASSUME FiguresTyped, FiguresNext \/ UNCHANGED figuresVars
  PROVE  FiguresTyped'
<1>1. CASE UNCHANGED figuresVars
  BY <1>1 DEF figuresVars, FiguresTyped, Present
<1>2. CASE FiguresNext
  <2>1. \/ \E e \in Entries : \E row \in EntryRow \union {NoEntry} : entry' = [entry EXCEPT ![e] = row]
        \/ entry' = entry
    BY <1>2, EntryWritten DEF FiguresNext, EntryAction, RecalcOEE, RecalcCost, SetRate,
      WriteOEE, WriteCost
  <2>2. entry' \in [Entries -> EntryRow \union {NoEntry}] /\ IsFiniteSet(Present')
    <3>1. CASE entry' = entry
      BY <3>1 DEF FiguresTyped, Present
    <3>2. ASSUME NEW e \in Entries, NEW row \in EntryRow \union {NoEntry},
                 entry' = [entry EXCEPT ![e] = row]
          PROVE  entry' \in [Entries -> EntryRow \union {NoEntry}] /\ IsFiniteSet(Present')
      <4>1. entry' \in [Entries -> EntryRow \union {NoEntry}]
        BY <3>2 DEF FiguresTyped
      <4>2. Present' \subseteq Present \union {e}
        BY <3>2 DEF Present, FiguresTyped
      <4>3. IsFiniteSet(Present \union {e})
        BY FS_AddElement DEF FiguresTyped
      <4> QED
        BY <4>1, <4>2, <4>3, FS_Subset
    <3> QED
      BY <2>1, <3>1, <3>2
  <2>3. \A m \in Lines : oee'[m] \in TrsRow \union {NoRecord}
                       /\ cost'[m] \in CostRow \union {NoRecord}
    <3> SUFFICES ASSUME NEW m \in Lines
                 PROVE  oee'[m] \in TrsRow \union {NoRecord} /\ cost'[m] \in CostRow \union {NoRecord}
      OBVIOUS
    <3>1. oee[m] \in TrsRow \union {NoRecord} /\ cost[m] \in CostRow \union {NoRecord}
      BY DEF FiguresTyped
    <3>2. \A made, rejects, downtime \in Nat : Compute(Unrated(made, rejects, downtime)) \in TrsRow
      BY ComputedRow DEF Computed
    <3>3. \A r \in Int, n \in Nat : ComputeTotals(Labour(r, m, n)) \in CostRow
      BY CostedRow
    <3>4. oee'[m] \in TrsRow \union {NoRecord}
      BY <1>2, <3>1, <3>2, RecordWritten
    <3>5. cost'[m] \in CostRow \union {NoRecord}
      BY <1>2, <3>1, <3>3, RecordWritten
    <3> QED
      BY <3>4, <3>5
  <2>4. /\ DOMAIN oee' = Lines /\ oee' = [m \in Lines |-> oee'[m]]
        /\ DOMAIN cost' = Lines /\ cost' = [m \in Lines |-> cost'[m]]
    <3>1. \/ UNCHANGED <<oee, cost>>
          \/ \E machines \in SUBSET Lines : RecalcOEE(machines) \/ RecalcCost(machines)
          \/ \E m \in Lines : WriteOEE(m) \/ WriteCost(m)
      BY <1>2, EntryWritten DEF FiguresNext, EntryAction, SetRate
    <3>2. CASE UNCHANGED <<oee, cost>>
      BY <3>2 DEF FiguresTyped
    <3>3. CASE \E machines \in SUBSET Lines : RecalcOEE(machines) \/ RecalcCost(machines)
      BY <3>3 DEF FiguresTyped, RecalcOEE, RecalcCost
    <3>4. CASE \E m \in Lines : WriteOEE(m) \/ WriteCost(m)
      BY <3>4 DEF FiguresTyped, WriteOEE, WriteCost
    <3> QED
      BY <3>1, <3>2, <3>3, <3>4
  <2>5. rate' \in Int
    <3>1. rate' = rate \/ rate' \in Rates
      BY <1>2, EntryWritten DEF FiguresNext, EntryAction, RecalcOEE, RecalcCost, SetRate,
        WriteOEE, WriteCost
    <3> QED
      BY <3>1, FiguresAssumption DEF FiguresTyped
  <2> QED
    BY <2>2, <2>3, <2>4, <2>5 DEF FiguresTyped
<1> QED
  BY <1>1, <1>2

-----------------------------------------------------------------------------
(* Figures: the records and the entries.                                   *)

\* A record that was computed agrees with its inputs.
LEMMA ComputedAgrees ==
  ASSUME NEW made \in Nat, NEW rejects \in Nat, NEW downtime \in Nat
  PROVE  TrsAgrees(Compute(Unrated(made, rejects, downtime)))
<1>1. PICK r : r = Compute(Unrated(made, rejects, downtime))
  OBVIOUS
<1>2. Computed(r, made, rejects, downtime)
  BY <1>1, ComputedRow
<1>3. r.theory = Nominal /\ r.duration = ShiftDuration
  BY <1>2 DEF Computed, TrsRow
<1> SUFFICES ASSUME made > 0, Nominal > 0
             PROVE  TrsAgrees(r)
  BY <1>1, <1>2, <1>3 DEF Computed, TrsAgrees
<1>4. PICK x, z \in Int : x = ShiftDuration - downtime /\ z = made - rejects
  BY FiguresAssumption
<1>5. PICK a, p, q, t \in Int : a = r.availability /\ p = r.performance /\ q = r.quality /\ t = r.trs
  BY <1>2 DEF Computed, TrsRow
<1>6. /\ a = Round(100 * x, ShiftDuration) /\ p = Round(100 * made, Nominal)
      /\ q = Round(100 * z, made) /\ t = Round(a * p * q, 10000)
  BY <1>2, <1>4, <1>5 DEF Computed
<1>7. ShiftDuration \in Nat \ {0} /\ Nominal \in Nat \ {0} /\ made \in Nat \ {0}
  BY FiguresAssumption
<1>8. /\ 100 * x \in Int /\ 100 * z \in Int /\ 100 * made \in Int
  OBVIOUS
<1>9. a * p * q \in Int
  OBVIOUS
<1>10. Nearest(a, 100 * x, ShiftDuration)
  BY <1>6, <1>7, <1>8, RoundIsNear
<1>11. Nearest(p, 100 * made, Nominal)
  BY <1>6, <1>7, <1>8, RoundIsNear
<1>12. Nearest(q, 100 * z, made)
  BY <1>6, <1>7, <1>8, RoundIsNear
<1>13. Nearest(t, a * p * q, 10000)
  BY <1>6, <1>9, RoundIsNear
<1>14. Near(t, ShiftDuration, Nominal, x, z, a, p, q)
  <2>1. Percentages(ShiftDuration, Nominal, made, x, z, a, p, q, t)
    BY <1>10, <1>11, <1>12, <1>13 DEF Percentages
  <2> QED
    BY <1>7, <2>1, TrsIsNear
<1>15. /\ r.trs * (r.duration * r.theory) - 100 * (r.duration - r.downtime) * (r.made - r.rejects)
            = t * (ShiftDuration * Nominal) - 100 * x * z
       /\ Slack(r) = 10001 + Size(a) * Size(p) + Size(a) * Size(q) + Size(p) * Size(q)
                           + Size(a) + Size(p) + Size(q)
  BY <1>2, <1>3, <1>4, <1>5 DEF Computed, Slack
<1> QED
  BY <1>3, <1>14, <1>15 DEF TrsAgrees, Near

LEMMA CostedAgrees ==
  ASSUME FiguresTyped, NEW r \in Int, NEW m \in Lines, NEW n \in Nat
  PROVE  CostAgrees(ComputeTotals(Labour(r, m, n)))
<1>1. PICK c : c = ComputeTotals(Labour(r, m, n))
  OBVIOUS
<1>2. c.made = n /\ c.total = 24 * r /\ (n > 0 => c.each = Round(24 * r, n))
  BY <1>1, CostedRow
<1>3. CASE n > 0
  <2>1. PICK k \in Int : k = 24 * r
    OBVIOUS
  <2>2. c.each \in Int /\ Nearest(c.each, k, n)
    BY <1>2, <1>3, <2>1, RoundIsNear
  <2>3. PICK d : d = c.each * n - k /\ d \in Int
    BY <2>2
  <2>4. 2 * Size(d) <= n
    BY <2>2, <2>3 DEF Nearest, Size
  <2> QED
    BY <1>1, <1>2, <2>1, <2>3, <2>4 DEF CostAgrees
<1> QED
  BY <1>1, <1>2, <1>3 DEF CostAgrees

\* So do all of them, after any step.
LEMMA RecordsKeepAgreeing ==
  ASSUME FiguresTyped, RecordsAgree, FiguresNext
  PROVE  RecordsAgree'
<1>1. ASSUME NEW m \in Lines
      PROVE  /\ oee'[m] # NoRecord => TrsAgrees(oee'[m])
             /\ cost'[m] # NoRecord => CostAgrees(cost'[m])
  <2>1. oee[m] # NoRecord => TrsAgrees(oee[m])
    BY DEF RecordsAgree
  <2>2. cost[m] # NoRecord => CostAgrees(cost[m])
    BY DEF RecordsAgree
  <2>3. oee'[m] # NoRecord => TrsAgrees(oee'[m])
    BY <2>1, RecordWritten, ComputedAgrees
  <2>4. cost'[m] # NoRecord => CostAgrees(cost'[m])
    BY <2>2, RecordWritten, CostedAgrees
  <2> QED
    BY <2>3, <2>4
<1> QED
  BY <1>1 DEF RecordsAgree

\* A machine none of whose entries changed adds up to the same.
LEMMA LineUnchanged ==
  ASSUME NEW m, ~EntryChanged(m)
  PROVE  /\ OnLine(m)' = OnLine(m)
         /\ \A field \in Fields : Total(field, OnLine(m))' = Total(field, OnLine(m))
<1>1. \A e \in Entries : e \in OnLine(m) \union OnLine(m)' => entry'[e] = entry[e]
  BY DEF EntryChanged
<1>2. OnLine(m)' = OnLine(m)
  BY <1>1 DEF OnLine, Present
<1>3. ASSUME NEW field \in Fields
      PROVE  Total(field, OnLine(m))' = Total(field, OnLine(m))
  <2>1. \A e \in OnLine(m) : entry'[e] = entry[e]
    BY <1>1 DEF OnLine, Present
  <2>2. [e \in OnLine(m)' |-> entry'[e][field]] = [e \in OnLine(m) |-> entry[e][field]]
    BY <1>2, <2>1
  <2> QED
    BY <2>2 DEF Total
<1> QED
  BY <1>2, <1>3

\* The figures that were rebuilt are those of the entries, until one is written.
LEMMA RebuiltKept ==
  ASSUME FiguresTyped, FiguresStep, NEW m \in Lines
  PROVE  /\ (m \notin staleTrs => TrsRebuilt(m)) => (m \notin staleTrs' => TrsRebuilt(m)')
         /\ (m \notin staleCost => CostRebuilt(m)) => (m \notin staleCost' => CostRebuilt(m)')
<1>1. ASSUME m \notin staleTrs => TrsRebuilt(m), m \notin staleTrs'
      PROVE  TrsRebuilt(m)'
  <2>1. CASE TrsRecalculated(m)
    <3>1. PICK machines \in SUBSET Lines : m \in machines /\ RecalcOEE(machines) /\ OnLine(m) # {}
      BY <2>1 DEF TrsRecalculated
    <3>2. ~EntryChanged(m)
      BY <3>1 DEF RecalcOEE, EntryChanged
    <3>3. oee'[m] = Compute(Inputs(m))
      BY <3>1 DEF RecalcOEE
    <3>4. PICK made, rejects, downtime \in Nat :
            made = Total("made", OnLine(m)) /\ rejects = Total("rejects", OnLine(m))
            /\ downtime = Total("downtime", OnLine(m))
      <4>1. OnLine(m) \in SUBSET Present
        BY PresentRows
      <4> QED
        BY <4>1, TotalTyped DEF Fields
    <3>5. oee'[m] = Compute(Unrated(made, rejects, downtime))
      BY <3>3, <3>4 DEF Inputs
    <3>6. oee'[m].made = made /\ oee'[m].rejects = rejects /\ oee'[m].downtime = downtime
      BY <3>5, ComputedRow DEF Computed
    <3>7. /\ Total("made", OnLine(m))' = made /\ Total("rejects", OnLine(m))' = rejects
          /\ Total("downtime", OnLine(m))' = downtime
      BY <3>2, <3>4, LineUnchanged DEF Fields
    <3> QED
      BY <3>6, <3>7 DEF TrsRebuilt, PerMachine
  <2>2. CASE ~TrsRecalculated(m)
    <3>1. m \notin staleTrs /\ ~EntryChanged(m) /\ oee'[m] = oee[m]
      BY <1>1, <2>2 DEF FiguresStep
    <3>2. /\ OnLine(m)' = OnLine(m)
          /\ Total("made", OnLine(m))' = Total("made", OnLine(m))
          /\ Total("rejects", OnLine(m))' = Total("rejects", OnLine(m))
          /\ Total("downtime", OnLine(m))' = Total("downtime", OnLine(m))
      BY <3>1, LineUnchanged DEF Fields
    <3> QED
      BY <1>1, <3>1, <3>2 DEF TrsRebuilt, PerMachine
  <2> QED
    BY <2>1, <2>2
<1>2. ASSUME m \notin staleCost => CostRebuilt(m), m \notin staleCost'
      PROVE  CostRebuilt(m)'
  <2>1. CASE CostRecalculated(m)
    <3>1. PICK machines \in SUBSET Lines : m \in machines /\ RecalcCost(machines) /\ OnLine(m) # {}
      BY <2>1 DEF CostRecalculated
    <3>2. ~EntryChanged(m)
      BY <3>1 DEF RecalcCost, EntryChanged
    <3>3. PICK n : n = Max({Total("made", OnLine(m)), 1})
      OBVIOUS
    <3>4. cost'[m] = ComputeTotals(Labour(rate, m, n))
      BY <3>1, <3>3 DEF RecalcCost
    <3>5. ComputeTotals(Labour(rate, m, n)).made = n
      BY DEF ComputeTotals, Labour
    <3>6. Total("made", OnLine(m))' = Total("made", OnLine(m))
      BY <3>2, LineUnchanged DEF Fields
    <3> QED
      BY <3>3, <3>4, <3>5, <3>6 DEF CostRebuilt, PerMachine
  <2>2. CASE ~CostRecalculated(m)
    <3>1. m \notin staleCost /\ ~EntryChanged(m) /\ cost'[m] = cost[m]
      BY <1>2, <2>2 DEF FiguresStep
    <3>2. OnLine(m)' = OnLine(m) /\ Total("made", OnLine(m))' = Total("made", OnLine(m))
      BY <3>1, LineUnchanged DEF Fields
    <3> QED
      BY <1>2, <3>1, <3>2 DEF CostRebuilt, PerMachine
  <2> QED
    BY <2>1, <2>2
<1> QED
  BY <1>1, <1>2

\* An entry made plainly, and not sent again, keeps its percentage and its shift.
LEMMA EntriesKeepTelling ==
  ASSUME FiguresTyped, FiguresStep,
         \A e \in Present \ touched : PctTellsRejects(e) /\ ShiftTellsHour(e),
         NEW e \in (Present \ touched)'
  PROVE  (PctTellsRejects(e) /\ ShiftTellsHour(e))'
<1>1. e \in Entries /\ entry'[e] # NoEntry
  BY DEF Present
<1>2. IF e \in Present THEN e \notin touched /\ (entry'[e] # entry[e] => entry'[e].final)
      ELSE MadePlainly(e)
  BY <1>1 DEF FiguresStep
<1>3. CASE entry'[e] = entry[e]
  <2>1. e \in Present
    BY <1>1, <1>3 DEF Present
  <2>2. PctTellsRejects(e) /\ ShiftTellsHour(e)
    BY <1>2, <2>1
  <2> QED
    BY <1>3, <2>2 DEF PctTellsRejects, ShiftTellsHour
<1>4. CASE entry'[e] # entry[e]
  <2>1. EntryAction(e)
    <3>1. \E x \in Entries : EntryAction(x)
      BY <1>4 DEF FiguresStep, FiguresNext, EntryAction, RecalcOEE, RecalcCost, SetRate,
        WriteOEE, WriteCost
    <3>2. PICK x \in Entries : EntryAction(x)
      BY <3>1
    <3>3. \E row : entry' = [entry EXCEPT ![x] = row]
      BY <3>2, EntryWritten
    <3>4. x = e
      BY <1>1, <1>4, <3>3 DEF FiguresTyped
    <3> QED
      BY <3>2, <3>4
  <2>2. PICK row \in EntryRow \union {NoEntry} :
           /\ entry' = [entry EXCEPT ![e] = row]
           /\ \/ row = NoEntry
              \/ e \in Present /\ ~row.final
              \/ e \notin Present
              \/ e \in Present /\ row = Saved([entry[e] EXCEPT !.final = TRUE])
    BY <1>1, <2>1, EntryWritten
  <2>3. entry'[e] = row
    BY <1>1, <2>2 DEF FiguresTyped
  <2>4. \/ \E s \in Sent :
             s.shift \in {"", ShiftForHour(s.hour)} /\ row = Saved(Draft(s, s.shift, 0))
        \/ e \in Present /\ row = Saved([entry[e] EXCEPT !.final = TRUE])
    <3>1. CASE e \in Present
      BY <1>1, <1>2, <1>4, <2>2, <2>3, <3>1
    <3>2. CASE e \notin Present
      <4>1. PICK s \in Sent : s.shift \in {"", ShiftForHour(s.hour)} /\ Make(e, s, 0)
        BY <1>2, <3>2 DEF MadePlainly
      <4>2. entry'[e] = Saved(Draft(s, s.shift, 0))
        BY <1>1, <4>1 DEF Make, WriteEntry, FiguresTyped
      <4> QED
        BY <2>3, <4>1, <4>2
    <3> QED
      BY <3>1, <3>2
  <2>5. ASSUME NEW s \in Sent, s.shift \in {"", ShiftForHour(s.hour)},
               row = Saved(Draft(s, s.shift, 0))
        PROVE  /\ row.made > 0 => row.pct = Round(100 * row.rejects, row.made)
               /\ row.shift = ShiftForHour(row.hour)
    <3>1. s.shift \in Shifts \union {""}
      BY SentAssumption
    <3>2. 0 \in Int
      OBVIOUS
    <3>3. PICK d \in UnsavedRow : /\ d = Draft(s, s.shift, 0)
                                  /\ d.pct = 0 /\ d.shift = s.shift /\ d.hour = s.hour
      BY <3>1, <3>2, DraftTyped DEF Draft
    <3>5. /\ row.made = d.made /\ row.rejects = d.rejects /\ row.hour = d.hour
          /\ row.shift = IF d.shift = "" THEN ShiftForHour(d.hour) ELSE d.shift
          /\ row.pct = IF d.made > 0 /\ d.pct = 0
                       THEN Round(100 * d.rejects, d.made) ELSE d.pct
      BY <2>5, <3>3, SavedTyped
    <3> QED
      BY <2>5, <3>3, <3>5
  <2>6. ASSUME e \in Present, row = Saved([entry[e] EXCEPT !.final = TRUE])
        PROVE  /\ row.made > 0 => row.pct = Round(100 * row.rejects, row.made)
               /\ row.shift = ShiftForHour(row.hour)
    <3>1. PICK old \in EntryRow : old = entry[e]
      BY <2>6, PresentRows
    <3>6. PICK d : d = [old EXCEPT !.final = TRUE]
      OBVIOUS
    <3>7. d \in UnsavedRow
      BY <3>6 DEF EntryRow, UnsavedRow
    <3>2. /\ d.pct = old.pct /\ d.shift = old.shift /\ d.hour = old.hour
          /\ d.made = old.made /\ d.rejects = old.rejects
      BY <3>6 DEF EntryRow
    <3>3. d.shift # ""
      BY <3>2 DEF EntryRow, Shifts
    <3>4. PctTellsRejects(e) /\ ShiftTellsHour(e)
      BY <1>2, <2>6
    <3>5. /\ row.made = d.made /\ row.rejects = d.rejects /\ row.hour = d.hour
          /\ row.shift = IF d.shift = "" THEN ShiftForHour(d.hour) ELSE d.shift
          /\ row.pct = IF d.made > 0 /\ d.pct = 0
                       THEN Round(100 * d.rejects, d.made) ELSE d.pct
      BY <2>6, <3>1, <3>6, <3>7, SavedTyped
    <3> QED
      BY <3>1, <3>2, <3>3, <3>4, <3>5 DEF PctTellsRejects, ShiftTellsHour
  <2> QED
    BY <2>3, <2>4, <2>5, <2>6 DEF PctTellsRejects, ShiftTellsHour
<1> QED
  BY <1>3, <1>4

\* What the entries of some parts of the day add up to is the day.
LEMMA TotalParts ==
  ASSUME FiguresTyped, NEW field \in Fields, NEW T, IsFiniteSet(T),
         NEW part, \A e \in Present : part[e] \in T
  PROVE  SumFunction([t \in T |-> Total(field, {e \in Present : part[e] = t})])
           = Total(field, Present)
<1>1. PICK f : f = [e \in Present |-> entry[e][field]]
  OBVIOUS
<1>2. IsFiniteSet(Present) /\ Counted(f, Present)
  <2>1. ASSUME NEW e \in Present PROVE f[e] \in Int
    <3>1. entry[e].made \in Int /\ entry[e].rejects \in Int /\ entry[e].downtime \in Int
      BY PresentRows DEF EntryRow
    <3> QED
      BY <1>1, <3>1 DEF Fields
  <2> QED
    BY <2>1 DEF Counted, FiguresTyped
<1>3. ASSUME NEW S \in SUBSET Present
      PROVE  Total(field, S) = SumFunctionOnSet(f, S)
  <2>1. PICK g : g = [e \in S |-> entry[e][field]]
    OBVIOUS
  <2>2. Same(g, f, S) /\ DOMAIN g = S /\ IsFiniteSet(S)
    BY <1>1, <1>2, <2>1, FS_Subset DEF Same
  <2>3. SumFunctionOnSet(g, S) = SumFunctionOnSet(f, S)
    BY <2>2, SumSame
  <2> QED
    BY <2>1, <2>2, <2>3 DEF Total, SumFunction
<1>4. \A u : {e \in Present : part[e] = u} \in SUBSET Present
  OBVIOUS
<1>5. [t \in T |-> Total(field, {e \in Present : part[e] = t})] = ByPart(f, Present, part, T)
  BY <1>3, <1>4 DEF ByPart
<1>6. SumFunctionOnSet(ByPart(f, Present, part, T), T) = SumFunctionOnSet(f, Present)
  BY <1>2, SumParts
<1>7. DOMAIN ByPart(f, Present, part, T) = T
  BY DEF ByPart
<1>8. Total(field, Present) = SumFunctionOnSet(f, Present)
  BY <1>3
<1> QED
  BY <1>5, <1>6, <1>7, <1>8 DEF SumFunction

LEMMA DayAddsUp ==
  ASSUME FiguresTyped
  PROVE  ShiftsAddUp
<1>1. ASSUME NEW field \in Fields
      PROVE  DayTotal(field) = SumFunction([s \in Shifts |-> ShiftTotal(field, s)])
  <2>1. PICK part : part = [e \in Present |-> entry[e].shift]
    OBVIOUS
  <2>2. IsFiniteSet(Shifts)
    <3>1. Shifts = ({"MORNING"} \union {"AFTERNOON"}) \union {"NIGHT"}
      BY DEF Shifts
    <3> QED
      BY <3>1, FS_Singleton, FS_AddElement
  <2>3. \A e \in Present : part[e] \in Shifts
    BY <2>1, PresentRows DEF EntryRow
  <2>4. \A s : {e \in Present : part[e] = s} = {e \in Present : entry[e].shift = s}
    BY <2>1
  <2>5. SumFunction([s \in Shifts |-> Total(field, {e \in Present : part[e] = s})])
          = Total(field, Present)
    BY <2>2, <2>3, TotalParts
  <2>6. [s \in Shifts |-> Total(field, {e \in Present : part[e] = s})]
          = [s \in Shifts |-> ShiftTotal(field, s)]
    BY <2>4 DEF ShiftTotal
  <2> QED
    BY <2>5, <2>6 DEF DayTotal
<1>2. DayTotal("made") = SumFunction([m \in Lines |-> PerMachine(m)])
  <2>1. PICK part : part = [e \in Present |-> entry[e].line]
    OBVIOUS
  <2>2. \A e \in Present : part[e] \in Lines
    BY <2>1, PresentRows DEF EntryRow
  <2>3. \A m : {e \in Present : part[e] = m} = OnLine(m)
    BY <2>1 DEF OnLine
  <2>4. SumFunction([m \in Lines |-> Total("made", {e \in Present : part[e] = m})])
          = Total("made", Present)
    BY <2>2, FiguresAssumption, TotalParts DEF Fields
  <2>5. [m \in Lines |-> Total("made", {e \in Present : part[e] = m})]
          = [m \in Lines |-> PerMachine(m)]
    BY <2>3 DEF PerMachine
  <2> QED
    BY <2>4, <2>5 DEF DayTotal
<1> QED
  BY <1>1, <1>2 DEF ShiftsAddUp, Fields

\* The figures that a record, an entry or a rebuilding leaves behind.
FiguresInv == FiguresTyped /\ FiguresUnlessTouched

LEMMA FiguresBegin ==
  ASSUME HistoryInit
  PROVE  FiguresInv
<1>1. /\ entry = [e \in Entries |-> NoEntry] /\ oee = [m \in Lines |-> NoRecord]
      /\ cost = [m \in Lines |-> NoRecord] /\ rate \in Rates
  BY DEF HistoryInit, FiguresInit
<1>2. Present = {} /\ \A m : OnLine(m) = {}
  BY <1>1 DEF Present, OnLine
<1>3. FiguresTyped
  BY <1>1, <1>2, FS_EmptySet, FiguresAssumption DEF FiguresTyped
<1>4. RecordsAgree
  BY <1>1 DEF RecordsAgree
<1>5. \A m : TrsRebuilt(m) /\ CostRebuilt(m)
  BY <1>2 DEF TrsRebuilt, CostRebuilt
<1> QED
  BY <1>2, <1>3, <1>4, <1>5 DEF FiguresInv, FiguresUnlessTouched

LEMMA FiguresStay ==
  ASSUME FiguresInv, UNCHANGED <<figuresVars, staleTrs, staleCost, touched>>
  PROVE  FiguresInv'
<1>1. /\ entry' = entry /\ oee' = oee /\ cost' = cost /\ rate' = rate
      /\ staleTrs' = staleTrs /\ staleCost' = staleCost /\ touched' = touched
  BY DEF figuresVars
<1>2. FiguresTyped'
  BY FiguresTypesKept DEF FiguresInv
<1>3. FiguresUnlessTouched'
  <2>1. FiguresUnlessTouched
    BY DEF FiguresInv
  <2>2. Present' = Present /\ \A m : OnLine(m)' = OnLine(m)
    BY <1>1 DEF Present, OnLine
  <2>3. \A field, S : Total(field, S)' = Total(field, S)
    BY <1>1 DEF Total
  <2>4. RecordsAgree'
    BY <1>1, <2>1 DEF FiguresUnlessTouched, RecordsAgree
  <2>5. \A m : (TrsRebuilt(m) => TrsRebuilt(m)') /\ (CostRebuilt(m) => CostRebuilt(m)')
    BY <1>1, <2>2, <2>3 DEF TrsRebuilt, CostRebuilt, PerMachine
  <2>6. \A e : /\ PctTellsRejects(e) => PctTellsRejects(e)'
               /\ ShiftTellsHour(e) => ShiftTellsHour(e)'
    BY <1>1 DEF PctTellsRejects, ShiftTellsHour
  <2> QED
    BY <1>1, <2>1, <2>2, <2>4, <2>5, <2>6 DEF FiguresUnlessTouched
<1> QED
  BY <1>2, <1>3 DEF FiguresInv

LEMMA FiguresKept ==
  ASSUME FiguresInv, [HistoryNext]_<<forecastVars, figuresVars, history>>
  PROVE  FiguresInv'
<1>1. CASE ForecastStep \/ UNCHANGED <<forecastVars, figuresVars, history>>
  BY <1>1, FiguresStay DEF ForecastStep, history
<1>2. CASE FiguresStep
  <2>1. FiguresTyped /\ FiguresUnlessTouched /\ FiguresNext
    BY <1>2 DEF FiguresInv, FiguresStep
  <2>2. FiguresTyped'
    BY <2>1, FiguresTypesKept
  <2>3. RecordsAgree'
    BY <2>1, RecordsKeepAgreeing DEF FiguresUnlessTouched
  <2>4. \A m \in Lines : (m \notin staleTrs' => TrsRebuilt(m)')
                         /\ (m \notin staleCost' => CostRebuilt(m)')
    <3> SUFFICES ASSUME NEW m \in Lines
                 PROVE  /\ m \notin staleTrs' => TrsRebuilt(m)'
                        /\ m \notin staleCost' => CostRebuilt(m)'
      OBVIOUS
    <3>1. (m \notin staleTrs => TrsRebuilt(m)) /\ (m \notin staleCost => CostRebuilt(m))
      BY <2>1 DEF FiguresUnlessTouched
    <3> QED
      BY <1>2, <2>1, <3>1, RebuiltKept
  <2>5. \A e \in (Present \ touched)' : (PctTellsRejects(e) /\ ShiftTellsHour(e))'
    <3>1. \A e \in Present \ touched : PctTellsRejects(e) /\ ShiftTellsHour(e)
      BY <2>1 DEF FiguresUnlessTouched
    <3> QED
      BY <1>2, <2>1, <3>1, EntriesKeepTelling
  <2> QED
    BY <2>2, <2>3, <2>4, <2>5 DEF FiguresInv, FiguresUnlessTouched
<1> QED
  BY <1>1, <1>2 DEF HistoryNext

\* For any entries, machines and parameters, whatever the requests: the TRS of every
\* record agrees with its inputs within the rounding and the cost of a bottle with its
\* total; a record that was rebuilt is that of its entries until one of them or the
\* record is written; an entry sent once, with neither a percentage nor a shift of its
\* own, has the percentage its rejects make and the shift of its hour (recalc and
\* compute of apps/oee and apps/costs, ProductionEntry.save).
THEOREM FiguresHold ==
  HistorySpec => []FiguresUnlessTouched
<1>1. HistoryInit => FiguresInv
  BY FiguresBegin
<1>2. FiguresInv /\ [HistoryNext]_<<forecastVars, figuresVars, history>> => FiguresInv'
  BY FiguresKept
<1>3. FiguresInv => FiguresUnlessTouched
  BY DEF FiguresInv
<1> QED
  BY <1>1, <1>2, <1>3, PTL DEF HistorySpec

-----------------------------------------------------------------------------
(* Forecast: the types.                                                    *)

\* An order that was not deleted.
IsRow(row) ==
  /\ row.status \in Live \union {"DONE"} /\ row.machine \in Machines
  /\ row.bottle \in Bottles \union {NoBottle}
  /\ row.quantity \in Nat \ {0} /\ row.start \in Int \union {NoTime}

Deleted == [status |-> "deleted"]

\* The rows that n bottles of components c reserve.
RowsFor(c, n) == [t \in DOMAIN c |-> [item |-> c[t].item, grams |-> c[t].g * n]]

ComponentSets == {SyncRecipeComponents(r) : r \in Recipes}

ReservedRows == {NoRows} \union {RowsFor(c, n) : c \in ComponentSets, n \in Nat}

ForecastTyped ==
  /\ quantity \in [Items -> Nat] /\ produced \in [Orders -> Nat]
  /\ recipe \in [Bottles -> Recipes] /\ component \in [Bottles -> ComponentSets]
  /\ order = [o \in Orders |-> order[o]]
  /\ \A o \in Orders : order[o] = NoOrder \/ order[o] = Deleted \/ IsRow(order[o])
  /\ IsFiniteSet({o \in Orders : order[o] # NoOrder})
  /\ reserved \in [Orders -> ReservedRows]

\* What was not begun made nothing, and what is not live has nothing reserved.
Unbegun ==
  \A o \in Orders : /\ order[o].status \in {"none", "QUEUED"} => produced[o] = 0
                    /\ order[o].status \notin Live => reserved[o] = NoRows

\* The reservations that are in step are those of the order and the components.
InStep == \A o \in Orders \ unsynced : reserved[o] = Reservations(order[o], produced[o])

ForecastInv == ForecastTyped /\ Unbegun /\ InStep

\* The components of a recipe.
LEMMA ComponentsAre ==
  ASSUME NEW r \in Recipes, NEW c, c = SyncRecipeComponents(r)
  PROVE  /\ DOMAIN c = IF r.colorant = NoItem THEN RawTypes ELSE Types
         /\ IsFiniteSet(DOMAIN c)
         /\ \A t \in DOMAIN c : /\ c[t].item = IF t \in RawTypes THEN r.raw ELSE r.colorant
                                /\ c[t].g = r.g[t] /\ c[t].g \in Int /\ c[t].item \in Items
<1>1. /\ r.raw \in Items /\ r.colorant \in Items \union {NoItem} /\ NoItem \notin Items
      /\ \A t \in Types : r.g[t] \in Int
  BY RecipesAssumption
<1>2. IsFiniteSet(RawTypes) /\ IsFiniteSet(Types) /\ RawTypes \subseteq Types
  <2>1. RawTypes = {"BOTTLE_RAW"} \union {"CAP_RAW"}
    BY DEF RawTypes
  <2>2. Types = (RawTypes \union {"BOTTLE_COLORANT"}) \union {"CAP_COLORANT"}
    BY DEF Types, RawTypes, ColorantTypes
  <2>3. IsFiniteSet(RawTypes)
    BY <2>1, FS_Singleton, FS_AddElement
  <2>4. IsFiniteSet(Types)
    BY <2>2, <2>3, FS_AddElement
  <2> QED
    BY <2>2, <2>3, <2>4
<1>3. DOMAIN c = IF r.colorant = NoItem THEN RawTypes ELSE Types
  BY DEF SyncRecipeComponents
<1>4. ASSUME NEW t \in DOMAIN c
      PROVE  /\ c[t].item = IF t \in RawTypes THEN r.raw ELSE r.colorant
             /\ c[t].g = r.g[t]
  BY DEF SyncRecipeComponents
<1> QED
  BY <1>1, <1>2, <1>3, <1>4

\* What n bottles take is n times what one takes.
LEMMA NeedsAre ==
  ASSUME ForecastTyped, NEW b \in Bottles, NEW i, NEW n \in Int
  PROVE  /\ PerBottle(b, i) \in Int /\ (Weighed => PerBottle(b, i) \in Nat)
         /\ Needs(b, n, i) = n * PerBottle(b, i) /\ Needs(b, n, i) \in Int
         /\ i \notin Drawn(b) => PerBottle(b, i) = 0
<1>1. PICK r \in Recipes : component[b] = SyncRecipeComponents(r)
  BY DEF ForecastTyped, ComponentSets
<1>2. PICK c : c = component[b]
  OBVIOUS
<1>3. PICK S : S = {u \in DOMAIN c : c[u].item = i}
  OBVIOUS
<1>4. PICK f : f = [t \in S |-> c[t].g]
  OBVIOUS
<1>5. IsFiniteSet(S) /\ Counted(f, S) /\ DOMAIN f = S
  BY <1>1, <1>2, <1>3, <1>4, ComponentsAre, FS_Subset DEF Counted
<1>6. PICK s \in Int : s = SumFunctionOnSet(f, S)
  BY <1>5, SumType
<1>7. Needs(b, n, i) = n * s /\ Needs(b, 1, i) = 1 * s
  BY <1>2, <1>3, <1>4, <1>5, <1>6 DEF Needs, SumFunction
<1>8. Weighed => s \in Nat
  <2>1. DOMAIN c \subseteq Types /\ \A t \in DOMAIN c : c[t].g = r.g[t] /\ c[t].g \in Int
    BY <1>1, <1>2, ComponentsAre DEF Types
  <2>2. SUFFICES ASSUME Weighed PROVE s \in Nat
    OBVIOUS
  <2>3. \A x \in S : f[x] \in Nat
    BY <1>3, <1>4, <2>1, <2>2 DEF Weighed
  <2> QED
    BY <1>5, <1>6, <2>3, SumIsNatural
<1>9. i \notin Drawn(b) => s = 0
  <2>1. i \notin Drawn(b) => S = {}
    BY <1>2, <1>3 DEF Drawn
  <2> QED
    BY <1>6, <2>1, SumEmpty
<1> QED
  BY <1>7, <1>8, <1>9 DEF PerBottle

\* What is left of an order.
LEMMA RemainingIs ==
  ASSUME NEW row, row.quantity \in Nat, NEW made \in Nat
  PROVE  /\ Remaining(row, made) \in Nat /\ Remaining(row, made) <= row.quantity
         /\ Remaining(row, made) = IF row.quantity > made THEN row.quantity - made ELSE 0
<1>1. PICK q \in Nat : q = row.quantity
  OBVIOUS
<1>2. PICK m \in Int : m = Remaining(row, made) /\ m \in {q - made, 0} /\ m >= q - made /\ m >= 0
  <2>1. \E x \in {q - made, 0} : \A y \in {q - made, 0} : x >= y
    OBVIOUS
  <2>2. Remaining(row, made) = Max({q - made, 0})
    BY <1>1 DEF Remaining
  <2> QED
    BY <2>1, <2>2 DEF Max
<1> QED
  BY <1>1, <1>2

\* What is reserved.
LEMMA ReservationsAre ==
  ASSUME ForecastTyped, NEW row, IsRow(row), NEW made \in Nat
  PROVE  /\ Reservations(row, made) \in ReservedRows
         /\ row.status \notin Live => Reservations(row, made) = NoRows
<1>1. CASE row.bottle = NoBottle \/ row.status \notin Live \/ Remaining(row, made) = 0
  BY <1>1 DEF Reservations, ReservedRows
<1>2. CASE ~(row.bottle = NoBottle \/ row.status \notin Live \/ Remaining(row, made) = 0)
  <2>1. row.bottle \in Bottles /\ Remaining(row, made) \in Nat
    BY <1>2, RemainingIs DEF IsRow
  <2>2. Reservations(row, made) = RowsFor(component[row.bottle], Remaining(row, made))
    BY <1>2 DEF Reservations, RowsFor
  <2>3. component[row.bottle] \in ComponentSets
    BY <2>1 DEF ForecastTyped
  <2> QED
    BY <1>2, <2>1, <2>2, <2>3 DEF ReservedRows
<1> QED
  BY <1>1, <1>2

\* What a request does to order o.
OrderStep(o) ==
  \E row, made, rows :
    /\ order' = [order EXCEPT ![o] = row]
    /\ produced' = [produced EXCEPT ![o] = made]
    /\ reserved' = [reserved EXCEPT ![o] = rows]
    /\ made \in Nat /\ (row.status = "QUEUED" => made = 0)
    /\ \/ row = Deleted /\ made = 0 /\ rows = NoRows
       \/ IsRow(row) /\ rows = Reservations(row, made)

\* What is written of an order.
LEMMA RowsAreRows ==
  ASSUME NEW f \in Forms, NEW status \in Live \union {"DONE"}
  PROVE  IsRow(Row(f, status)) /\ Row(f, status).status = status
  BY FormsAssumption DEF IsRow, Row

LEMMA StatusOfRow ==
  ASSUME ForecastTyped, NEW o \in Orders
  PROVE  /\ order[o].status \in Live \union {"DONE"} => IsRow(order[o])
         /\ IsRow(order[o]) => order[o].status \in Live \union {"DONE"}
         /\ ~IsRow(order[o]) => order[o] \in {NoOrder, Deleted}
         /\ NoOrder.status = "none" /\ Deleted.status = "deleted"
  BY DEF ForecastTyped, IsRow, NoOrder, Deleted, Live

\* One order is written, or one item or one bottle.
LEMMA OrderWritten ==
  ASSUME ForecastTyped, Unbegun, NEW o \in Orders,
         CreateOrder(o) \/ UpdateOrder(o) \/ DestroyOrder(o) \/ Validate(o)
  PROVE  /\ OrderStep(o) /\ quantity' \in [Items -> Nat]
         /\ UNCHANGED <<recipe, component>>
<1>1. produced[o] \in Nat /\ quantity \in [Items -> Nat]
  BY DEF ForecastTyped
<1>2. ASSUME NEW f \in Forms, NEW status \in Live \union {"DONE"}, Write(o, Row(f, status)),
             status = "QUEUED" => produced[o] = 0
      PROVE  /\ OrderStep(o) /\ quantity' \in [Items -> Nat]
             /\ UNCHANGED <<recipe, component>>
  <2>1. PICK row : row = Row(f, status)
    OBVIOUS
  <2>2. IsRow(row) /\ row.status = status
    BY <2>1, RowsAreRows
  <2>3. /\ order' = [order EXCEPT ![o] = row]
        /\ reserved' = [reserved EXCEPT ![o] = Reservations(row, produced[o])]
        /\ UNCHANGED <<quantity, recipe, component, produced>>
    BY <1>2, <2>1 DEF Write
  <2>4. produced' = [produced EXCEPT ![o] = produced[o]]
    BY <2>3 DEF ForecastTyped
  <2>5. OrderStep(o)
    BY <1>1, <1>2, <2>2, <2>3, <2>4 DEF OrderStep
  <2> QED
    BY <1>1, <2>3, <2>5
<1>3. CASE CreateOrder(o)
  <2>1. PICK f \in Forms : Write(o, Row(f, "QUEUED"))
    BY <1>3 DEF CreateOrder
  <2>2. produced[o] = 0
    BY <1>3 DEF CreateOrder, Unbegun, NoOrder
  <2>3. "QUEUED" \in Live \union {"DONE"}
    BY DEF Live
  <2> QED
    BY <1>2, <2>1, <2>2, <2>3
<1>4. CASE UpdateOrder(o)
  <2>1. PICK f \in Forms : Write(o, Row(f, order[o].status))
    BY <1>4 DEF UpdateOrder
  <2>2. order[o].status \in Live \union {"DONE"}
    BY <1>4, StatusOfRow DEF UpdateOrder
  <2>3. order[o].status = "QUEUED" => produced[o] = 0
    BY DEF Unbegun
  <2> QED
    BY <1>2, <2>1, <2>2, <2>3
<1>5. CASE DestroyOrder(o)
  <2>1. /\ order' = [order EXCEPT ![o] = Deleted]
        /\ reserved' = [reserved EXCEPT ![o] = NoRows]
        /\ produced' = [produced EXCEPT ![o] = 0]
        /\ UNCHANGED <<quantity, recipe, component>>
    BY <1>5 DEF DestroyOrder, Deleted
  <2>2. OrderStep(o)
    BY <2>1 DEF OrderStep
  <2> QED
    BY <1>1, <2>1, <2>2
<1>6. CASE Validate(o)
  <2>0. PICK n \in Batches :
          /\ order[o].status \in Live \union {"DONE"}
          /\ \A i \in Items : quantity[i] >= IF order[o].bottle = NoBottle THEN 0
                                             ELSE Needs(order[o].bottle, n, i)
          /\ quantity' = [i \in Items |-> quantity[i] - (IF order[o].bottle = NoBottle THEN 0
                                                        ELSE Needs(order[o].bottle, n, i))]
          /\ produced' = [produced EXCEPT ![o] = produced[o] + n]
          /\ order' = [order EXCEPT ![o] =
               Row(order[o], IF order[o].status = "DONE" \/ Remaining(order[o], produced[o] + n) = 0
                        THEN "DONE" ELSE "IN_PROGRESS")]
          /\ reserved' = [reserved EXCEPT ![o] =
               IF order[o].status = "DONE" THEN reserved[o]
               ELSE Reservations(
                      Row(order[o], IF order[o].status = "DONE" \/ Remaining(order[o], produced[o] + n) = 0
                               THEN "DONE" ELSE "IN_PROGRESS"), produced[o] + n)]
          /\ UNCHANGED <<recipe, component>>
    BY <1>6 DEF Validate
  <2>1. PICK row : row = order[o]
    OBVIOUS
  <2>10. PICK made, status : /\ made = produced[o] + n
                             /\ status = IF row.status = "DONE" \/ Remaining(row, made) = 0
                                         THEN "DONE" ELSE "IN_PROGRESS"
    OBVIOUS
  <2>11. PICK after : after = Row(row, status)
    OBVIOUS
  <2>2. /\ produced' = [produced EXCEPT ![o] = made]
        /\ order' = [order EXCEPT ![o] = after]
        /\ reserved' = [reserved EXCEPT ![o] =
             IF row.status = "DONE" THEN reserved[o] ELSE Reservations(after, made)]
    BY <2>0, <2>1, <2>10, <2>11
  <2>3. n \in Nat /\ made \in Nat
    BY <1>1, <2>0, <2>10, AmountsAssumption
  <2>4. IsRow(row)
    BY <2>0, <2>1, StatusOfRow
  <2>5. /\ IsRow(after) /\ after.status = status
        /\ status \in {"DONE", "IN_PROGRESS"}
    BY <2>4, <2>10, <2>11 DEF IsRow, Row, Live
  <2>6. quantity' \in [Items -> Nat]
    <3> SUFFICES ASSUME NEW i \in Items PROVE quantity'[i] \in Nat
      BY <2>0
    <3>1. row.bottle # NoBottle => Needs(row.bottle, n, i) \in Int
      BY <2>3, <2>4, NeedsAre DEF IsRow
    <3>2. PICK d \in Int : d = IF row.bottle = NoBottle THEN 0 ELSE Needs(row.bottle, n, i)
      BY <3>1
    <3>3. quantity[i] >= d /\ quantity'[i] = quantity[i] - d
      BY <2>0, <2>1, <3>2
    <3> QED
      BY <1>1, <3>3
  <2>7. PICK rows : rows = IF row.status = "DONE" THEN reserved[o] ELSE Reservations(after, made)
    OBVIOUS
  <2>8. rows = Reservations(after, made)
    <3>1. row.status = "DONE" => after.status \notin Live /\ reserved[o] = NoRows
      BY <2>1, <2>5, <2>10 DEF Unbegun, Live
    <3> QED
      BY <2>3, <2>5, <2>7, <3>1, ReservationsAre
  <2>9. OrderStep(o)
    BY <2>2, <2>3, <2>5, <2>7, <2>8 DEF OrderStep
  <2> QED
    BY <2>0, <2>6, <2>9
<1> QED
  BY <1>3, <1>4, <1>5, <1>6

\* One item or one bottle is written.
LEMMA OtherWritten ==
  ASSUME ForecastTyped, ForecastNext,
         ~\E o \in Orders : CreateOrder(o) \/ UpdateOrder(o) \/ DestroyOrder(o) \/ Validate(o)
  PROVE  /\ UNCHANGED <<order, produced, reserved>>
         /\ quantity' \in [Items -> Nat]
         /\ recipe' \in [Bottles -> Recipes] /\ component' \in [Bottles -> ComponentSets]
<1>0. /\ quantity \in [Items -> Nat]
      /\ recipe \in [Bottles -> Recipes] /\ component \in [Bottles -> ComponentSets]
  BY DEF ForecastTyped
<1>1. ASSUME NEW i \in Items, Deliver(i)
      PROVE  UNCHANGED <<order, produced, reserved, recipe, component>>
             /\ quantity' \in [Items -> Nat]
  <2>1. PICK g \in Deliveries : quantity' = [quantity EXCEPT ![i] = @ + g]
    BY <1>1 DEF Deliver
  <2>2. g \in Nat
    BY AmountsAssumption
  <2>3. quantity' \in [Items -> Nat]
    BY <1>0, <2>1, <2>2
  <2> QED
    BY <1>1, <2>3 DEF Deliver
<1>2. ASSUME NEW b \in Bottles, EditBottle(b) \/ AdminEditBottle(b)
      PROVE  /\ UNCHANGED <<order, produced, reserved, quantity>>
             /\ recipe' \in [Bottles -> Recipes] /\ component' \in [Bottles -> ComponentSets]
  <2>1. PICK r \in Recipes : /\ recipe' = [recipe EXCEPT ![b] = r]
                             /\ \/ component' = component
                                \/ component' = [component EXCEPT ![b] = SyncRecipeComponents(r)]
                             /\ UNCHANGED <<order, produced, reserved, quantity>>
    BY <1>2 DEF EditBottle, AdminEditBottle
  <2>2. SyncRecipeComponents(r) \in ComponentSets
    BY DEF ComponentSets
  <2> QED
    BY <1>0, <2>1, <2>2
<1> QED
  BY <1>0, <1>1, <1>2 DEF ForecastNext

-----------------------------------------------------------------------------
(* Forecast: the invariant.                                                *)

\* A request leaves the other orders as they are.
LEMMA OrderAfter ==
  ASSUME ForecastTyped, NEW x \in Orders, OrderStep(x)
  PROVE  /\ \A o \in Orders \ {x} : /\ order'[o] = order[o] /\ produced'[o] = produced[o]
                                    /\ reserved'[o] = reserved[o]
         /\ \/ /\ order'[x] = Deleted /\ produced'[x] = 0 /\ reserved'[x] = NoRows
            \/ /\ IsRow(order'[x]) /\ produced'[x] \in Nat
               /\ reserved'[x] = Reservations(order'[x], produced'[x])
               /\ order'[x].status = "QUEUED" => produced'[x] = 0
         /\ order' = [o \in Orders |-> order'[o]]
         /\ DOMAIN produced' = Orders /\ DOMAIN reserved' = Orders
         /\ produced' = [o \in Orders |-> produced'[o]]
         /\ reserved' = [o \in Orders |-> reserved'[o]]
<1>1. PICK row, made, rows :
        /\ order' = [order EXCEPT ![x] = row]
        /\ produced' = [produced EXCEPT ![x] = made]
        /\ reserved' = [reserved EXCEPT ![x] = rows]
        /\ made \in Nat /\ (row.status = "QUEUED" => made = 0)
        /\ \/ row = Deleted /\ made = 0 /\ rows = NoRows
           \/ IsRow(row) /\ rows = Reservations(row, made)
  BY DEF OrderStep
<1>2. /\ DOMAIN order = Orders /\ order = [o \in Orders |-> order[o]]
      /\ DOMAIN produced = Orders /\ produced = [o \in Orders |-> produced[o]]
      /\ DOMAIN reserved = Orders /\ reserved = [o \in Orders |-> reserved[o]]
  BY DEF ForecastTyped
<1>3. order'[x] = row /\ produced'[x] = made /\ reserved'[x] = rows
  BY <1>1, <1>2
<1>4. \A o \in Orders \ {x} : /\ order'[o] = order[o] /\ produced'[o] = produced[o]
                              /\ reserved'[o] = reserved[o]
  BY <1>1, <1>2
<1>5. /\ order' = [o \in Orders |-> order'[o]] /\ DOMAIN produced' = Orders
      /\ produced' = [o \in Orders |-> produced'[o]]
      /\ DOMAIN reserved' = Orders /\ reserved' = [o \in Orders |-> reserved'[o]]
  BY <1>1, <1>2
<1>6. \/ row = Deleted /\ made = 0 /\ rows = NoRows
      \/ IsRow(row) /\ made \in Nat /\ rows = Reservations(row, made)
         /\ (row.status = "QUEUED" => made = 0)
  BY <1>1
<1> QED
  BY <1>3, <1>4, <1>5, <1>6

LEMMA ForecastTypesKept ==
  ASSUME ForecastTyped, Unbegun, ForecastNext
  PROVE  ForecastTyped' /\ Unbegun'
<1>1. ASSUME NEW x \in Orders,
             CreateOrder(x) \/ UpdateOrder(x) \/ DestroyOrder(x) \/ Validate(x)
      PROVE  ForecastTyped' /\ Unbegun'
  <2>1. OrderStep(x) /\ quantity' \in [Items -> Nat] /\ UNCHANGED <<recipe, component>>
    BY <1>1, OrderWritten
  <2>2. \A o \in Orders \ {x} : /\ order'[o] = order[o] /\ produced'[o] = produced[o]
                                /\ reserved'[o] = reserved[o]
    BY <2>1, OrderAfter
  <2>3. \/ order'[x] = Deleted /\ produced'[x] = 0 /\ reserved'[x] = NoRows
        \/ /\ IsRow(order'[x]) /\ produced'[x] \in Nat
           /\ reserved'[x] = Reservations(order'[x], produced'[x])
           /\ order'[x].status = "QUEUED" => produced'[x] = 0
    BY <2>1, OrderAfter
  <2>4. /\ order' = [o \in Orders |-> order'[o]]
        /\ produced' = [o \in Orders |-> produced'[o]]
        /\ reserved' = [o \in Orders |-> reserved'[o]]
    BY <2>1, OrderAfter
  <2>5. produced'[x] \in Nat /\ reserved'[x] \in ReservedRows
        /\ (order'[x] = Deleted \/ IsRow(order'[x]))
    BY <2>3, ReservationsAre DEF ReservedRows
  <2>6. \A o \in Orders : produced'[o] \in Nat /\ reserved'[o] \in ReservedRows
    BY <2>2, <2>5 DEF ForecastTyped
  <2>7. \A o \in Orders : order'[o] = NoOrder \/ order'[o] = Deleted \/ IsRow(order'[o])
    BY <2>2, <2>5 DEF ForecastTyped
  <2>8. IsFiniteSet({o \in Orders : order'[o] # NoOrder})
    <3>1. {o \in Orders : order'[o] # NoOrder} \subseteq {o \in Orders : order[o] # NoOrder} \union {x}
      BY <2>2
    <3>2. IsFiniteSet({o \in Orders : order[o] # NoOrder} \union {x})
      BY FS_AddElement DEF ForecastTyped
    <3> QED
      BY <3>1, <3>2, FS_Subset
  <2>9. recipe' \in [Bottles -> Recipes] /\ component' \in [Bottles -> ComponentSets]
    BY <2>1 DEF ForecastTyped
  <2>10. produced' \in [Orders -> Nat] /\ reserved' \in [Orders -> ReservedRows]
    BY <2>4, <2>6
  <2>11. ForecastTyped'
    BY <2>1, <2>4, <2>7, <2>8, <2>9, <2>10 DEF ForecastTyped, IsRow
  <2>12. /\ order'[x].status \in {"none", "QUEUED"} => produced'[x] = 0
         /\ order'[x].status \notin Live => reserved'[x] = NoRows
    <3>1. IsRow(order'[x]) => order'[x].status # "none"
      BY DEF IsRow, Live
    <3> QED
      BY <2>3, <3>1, ReservationsAre DEF Deleted
  <2>13. Unbegun'
    BY <2>2, <2>12 DEF Unbegun
  <2> QED
    BY <2>11, <2>13
<1>2. CASE ~\E x \in Orders : CreateOrder(x) \/ UpdateOrder(x) \/ DestroyOrder(x) \/ Validate(x)
  <2>1. /\ order' = order /\ produced' = produced /\ reserved' = reserved
        /\ quantity' \in [Items -> Nat]
        /\ recipe' \in [Bottles -> Recipes] /\ component' \in [Bottles -> ComponentSets]
    BY <1>2, OtherWritten
  <2>2. ForecastTyped'
    BY <2>1 DEF ForecastTyped, IsRow
  <2>3. Unbegun'
    BY <2>1 DEF Unbegun
  <2> QED
    BY <2>2, <2>3
<1> QED
  BY <1>1, <1>2

\* An order whose recipe stayed has reserved what it did, or what the request left.
LEMMA StaysInStep ==
  ASSUME ForecastInv, ForecastStep, NEW o \in Orders, o \notin unsynced'
  PROVE  reserved'[o] = Reservations(order[o], produced[o])'
<1>1. ForecastTyped /\ Unbegun /\ InStep /\ ForecastNext
  BY DEF ForecastInv, ForecastStep
<1>2. /\ o \notin unsynced \/ Synced(o)
      /\ order[o].status \in Live /\ order[o].bottle # NoBottle =>
           component'[order[o].bottle] = component[order[o].bottle]
  BY DEF ForecastStep
<1>3. ASSUME component' = component, NEW row, NEW made
      PROVE  Reservations(row, made)' = Reservations(row, made)
  BY <1>3 DEF Reservations
<1>4. ASSUME NEW x \in Orders,
             CreateOrder(x) \/ UpdateOrder(x) \/ DestroyOrder(x) \/ Validate(x)
      PROVE  reserved'[o] = Reservations(order[o], produced[o])'
  <2>1. OrderStep(x) /\ component' = component
    BY <1>1, <1>4, OrderWritten
  <2>2. CASE x = o
    <3>1. \/ order'[o] = Deleted /\ produced'[o] = 0 /\ reserved'[o] = NoRows
          \/ reserved'[o] = Reservations(order'[o], produced'[o])
      BY <1>1, <2>1, <2>2, OrderAfter
    <3>2. Reservations(order[o], produced[o])' = Reservations(order'[o], produced'[o])
      BY <2>1 DEF Reservations
    <3>3. Reservations(Deleted, 0) = NoRows
      BY DEF Reservations, Deleted, Live
    <3> QED
      BY <3>1, <3>2, <3>3
  <2>3. CASE x # o
    <3>1. order'[o] = order[o] /\ produced'[o] = produced[o] /\ reserved'[o] = reserved[o]
      BY <1>1, <2>1, <2>3, OrderAfter
    <3>2. o \notin unsynced
      BY <1>2, <3>1 DEF Synced
    <3>3. reserved[o] = Reservations(order[o], produced[o])
      BY <1>1, <3>2 DEF InStep
    <3> QED
      BY <2>1, <3>1, <3>3 DEF Reservations
  <2> QED
    BY <2>2, <2>3
<1>5. CASE ~\E x \in Orders : CreateOrder(x) \/ UpdateOrder(x) \/ DestroyOrder(x) \/ Validate(x)
  <2>1. order' = order /\ produced' = produced /\ reserved' = reserved
    BY <1>1, <1>5, OtherWritten
  <2>2. o \notin unsynced
    BY <1>2, <2>1 DEF Synced
  <2>3. reserved[o] = Reservations(order[o], produced[o])
    BY <1>1, <2>2 DEF InStep
  <2> QED
    BY <1>2, <2>1, <2>3 DEF Reservations
<1> QED
  BY <1>4, <1>5

LEMMA ForecastBegin ==
  ASSUME HistoryInit
  PROVE  ForecastInv
<1>1. /\ quantity \in [Items -> Deliveries] /\ recipe \in [Bottles -> Recipes]
      /\ component = [b \in Bottles |-> SyncRecipeComponents(recipe[b])]
      /\ order = [o \in Orders |-> NoOrder] /\ produced = [o \in Orders |-> 0]
      /\ reserved = [o \in Orders |-> NoRows]
  BY DEF HistoryInit, ForecastInit
<1>2. {o \in Orders : order[o] # NoOrder} = {}
  BY <1>1
<1>3. component \in [Bottles -> ComponentSets]
  BY <1>1 DEF ComponentSets
<1>4. quantity \in [Items -> Nat] /\ produced \in [Orders -> Nat]
  BY <1>1, AmountsAssumption
<1>5. ForecastTyped
  BY <1>1, <1>2, <1>3, <1>4, FS_EmptySet DEF ForecastTyped, ReservedRows
<1>6. Unbegun
  BY <1>1 DEF Unbegun
<1>7. NoOrder.status \notin Live
  BY DEF NoOrder, Live
<1>8. InStep
  BY <1>1, <1>7 DEF InStep, Reservations
<1> QED
  BY <1>5, <1>6, <1>8 DEF ForecastInv

LEMMA ForecastKept ==
  ASSUME ForecastInv, [HistoryNext]_<<forecastVars, figuresVars, history>>
  PROVE  ForecastInv'
<1>1. CASE FiguresStep \/ UNCHANGED <<forecastVars, figuresVars, history>>
  <2>1. /\ quantity' = quantity /\ recipe' = recipe /\ component' = component
        /\ order' = order /\ produced' = produced /\ reserved' = reserved
        /\ unsynced' = unsynced
    BY <1>1 DEF FiguresStep, forecastVars, history
  <2>2. ForecastTyped'
    BY <2>1 DEF ForecastInv, ForecastTyped, IsRow
  <2>3. Unbegun'
    BY <2>1 DEF ForecastInv, Unbegun
  <2>4. InStep'
    BY <2>1 DEF ForecastInv, InStep, Reservations
  <2> QED
    BY <2>2, <2>3, <2>4 DEF ForecastInv
<1>2. CASE ForecastStep
  <2>1. ForecastTyped' /\ Unbegun'
    BY <1>2, ForecastTypesKept DEF ForecastInv, ForecastStep
  <2>2. InStep'
    BY <1>2, StaysInStep DEF InStep
  <2> QED
    BY <2>1, <2>2 DEF ForecastInv
<1> QED
  BY <1>1, <1>2 DEF HistoryNext

-----------------------------------------------------------------------------
(* Forecast: the reservations.                                             *)

\* What n bottles reserve of an item, by the recipe.
LEMMA RowsAddUp ==
  ASSUME NEW r \in Recipes, NEW c, c = SyncRecipeComponents(r), NEW n \in Nat, NEW i \in Items,
         NEW o \in Orders, reserved[o] = RowsFor(c, n),
         NEW types, types = (IF r.raw = i THEN RawTypes ELSE {})
                            \union (IF r.colorant = i THEN ColorantTypes ELSE {})
  PROVE  Held(o, i) = n * SumFunction([t \in types |-> r.g[t]])
<1>1. /\ DOMAIN c = IF r.colorant = NoItem THEN RawTypes ELSE Types
      /\ IsFiniteSet(DOMAIN c)
      /\ \A t \in DOMAIN c : /\ c[t].item = IF t \in RawTypes THEN r.raw ELSE r.colorant
                             /\ c[t].g = r.g[t] /\ c[t].g \in Int
  BY ComponentsAre
<1>2. NoItem \notin Items
  BY RecipesAssumption
<1>3. /\ DOMAIN reserved[o] = DOMAIN c
      /\ \A t \in DOMAIN c : reserved[o][t].item = c[t].item /\ reserved[o][t].grams = c[t].g * n
  BY DEF RowsFor
<1>4. \A t \in RawTypes : t \notin ColorantTypes
  BY DEF RawTypes, ColorantTypes
<1>5. {u \in DOMAIN reserved[o] : reserved[o][u].item = i} = types
  <2>1. {u \in DOMAIN reserved[o] : reserved[o][u].item = i} = {u \in DOMAIN c : c[u].item = i}
    BY <1>3
  <2>2. {u \in DOMAIN c : c[u].item = i}
          = {u \in DOMAIN c : (IF u \in RawTypes THEN r.raw ELSE r.colorant) = i}
    BY <1>1
  <2>3. CASE r.colorant = NoItem
    BY <1>1, <1>2, <2>1, <2>2, <2>3
  <2>4. CASE r.colorant # NoItem
    <3>1. DOMAIN c = RawTypes \union ColorantTypes
      BY <1>1, <2>4 DEF Types
    <3> QED
      BY <1>4, <2>1, <2>2, <3>1
  <2> QED
    BY <2>3, <2>4
<1>6. types \subseteq DOMAIN c
  BY <1>3, <1>5
<1>7. IsFiniteSet(types)
  BY <1>1, <1>6, FS_Subset
<1>8. PICK f, g : f = [t \in types |-> r.g[t]] /\ g = [t \in types |-> reserved[o][t].grams]
  OBVIOUS
<1>9. Counted(f, types) /\ \A t \in types : g[t] = n * f[t]
  <2>1. \A t \in types : f[t] \in Int
    BY <1>1, <1>6, <1>8
  <2>2. ASSUME NEW t \in types PROVE g[t] = n * f[t]
    <3>1. PICK k \in Int : k = f[t]
      BY <2>1
    <3>2. c[t].g = k /\ g[t] = c[t].g * n
      BY <1>1, <1>3, <1>6, <1>8, <3>1
    <3> QED
      BY <3>1, <3>2
  <2> QED
    BY <2>1, <2>2 DEF Counted
<1>10. SumFunctionOnSet(g, types) = n * SumFunctionOnSet(f, types)
  BY <1>7, <1>9, SumTimes
<1>11. DOMAIN f = types /\ DOMAIN g = types
  BY <1>8
<1> QED
  BY <1>5, <1>8, <1>10, <1>11 DEF Held, SumFunction

\* What the types add up to is a number.
LEMMA DueIsNumber ==
  ASSUME NEW r \in Recipes, NEW i,
         NEW types, types = (IF r.raw = i THEN RawTypes ELSE {})
                            \union (IF r.colorant = i THEN ColorantTypes ELSE {})
  PROVE  SumFunction([t \in types |-> r.g[t]]) \in Int
<1>1. \A t \in Types : r.g[t] \in Int
  BY RecipesAssumption
<1>2. types \subseteq Types
  BY DEF Types
<1>3. IsFiniteSet(Types)
  <2>1. RawTypes = {"BOTTLE_RAW"} \union {"CAP_RAW"}
    BY DEF RawTypes
  <2>2. Types = (RawTypes \union {"BOTTLE_COLORANT"}) \union {"CAP_COLORANT"}
    BY DEF Types, RawTypes, ColorantTypes
  <2>3. IsFiniteSet(RawTypes)
    BY <2>1, FS_Singleton, FS_AddElement
  <2> QED
    BY <2>2, <2>3, FS_AddElement
<1>4. PICK f : f = [t \in types |-> r.g[t]]
  OBVIOUS
<1>5. Counted(f, types) /\ IsFiniteSet(types) /\ DOMAIN f = types
  BY <1>1, <1>2, <1>3, <1>4, FS_Subset DEF Counted
<1> QED
  BY <1>4, <1>5, SumType DEF SumFunction

\* No row holds nothing.
LEMMA NothingHeld ==
  ASSUME NEW o, reserved[o] = NoRows, NEW i
  PROVE  Held(o, i) = 0
<1>1. {u \in DOMAIN reserved[o] : reserved[o][u].item = i} = {}
  BY DEF NoRows
<1>2. PICK f : f = [t \in {u \in DOMAIN reserved[o] : reserved[o][u].item = i}
                      |-> reserved[o][t].grams]
  OBVIOUS
<1>3. DOMAIN f = {}
  BY <1>1, <1>2
<1>4. SumFunction(f) = 0
  BY <1>3, SumEmpty DEF SumFunction
<1> QED
  BY <1>2, <1>4 DEF Held

\* An order that is in step has reserved what the recipe says, if the components are
\* those of the recipe.
LEMMA InStepFollows ==
  ASSUME ForecastInv, NEW o \in Orders, o \notin unsynced,
         ~(order[o].status \in Live /\ order[o].bottle # NoBottle /\ Drifted(order[o].bottle))
  PROVE  ReservedFollowsRecipe(o)
<1>1. ForecastTyped /\ Unbegun /\ reserved[o] = Reservations(order[o], produced[o])
  BY DEF ForecastInv, InStep
<1>2. CASE ~(order[o].status \in Live /\ order[o].bottle # NoBottle)
  <2>1. reserved[o] = NoRows
    BY <1>1, <1>2 DEF Reservations
  <2> QED
    BY <1>2, <2>1, NothingHeld DEF ReservedFollowsRecipe
<1>3. CASE order[o].status \in Live /\ order[o].bottle # NoBottle
  <2>1. PICK b : b = order[o].bottle
    OBVIOUS
  <2>2. IsRow(order[o])
    BY <1>1, <1>3, StatusOfRow
  <2>3. b \in Bottles /\ component[b] = SyncRecipeComponents(recipe[b])
    BY <1>3, <2>1, <2>2 DEF IsRow, Drifted
  <2>4. PICK r \in Recipes : r = recipe[b]
    BY <1>1, <2>3 DEF ForecastTyped
  <2>5. PICK n \in Nat : n = Remaining(order[o], produced[o])
    BY <1>1, <2>2, RemainingIs DEF IsRow, ForecastTyped
  <2>6. ASSUME NEW i \in Items
        PROVE  Held(o, i) = Due(o, i)
    <3>1. PICK types : types = (IF r.raw = i THEN RawTypes ELSE {})
                               \union (IF r.colorant = i THEN ColorantTypes ELSE {})
      OBVIOUS
    <3>2. Due(o, i) = n * SumFunction([t \in types |-> r.g[t]])
      BY <2>1, <2>4, <2>5, <3>1 DEF Due
    <3>3. CASE n = 0
      <4>1. Held(o, i) = 0
        BY <1>1, <2>5, <3>3, NothingHeld DEF Reservations
      <4>2. PICK s \in Int : s = SumFunction([t \in types |-> r.g[t]])
        BY <3>1, DueIsNumber
      <4> QED
        BY <3>2, <3>3, <4>1, <4>2
    <3>4. CASE n # 0
      <4>1. reserved[o] = RowsFor(SyncRecipeComponents(r), n)
        BY <1>1, <1>3, <2>1, <2>3, <2>4, <2>5, <3>4 DEF Reservations, RowsFor
      <4> QED
        BY <3>1, <3>2, <4>1, RowsAddUp
    <3> QED
      BY <3>3, <3>4
  <2> QED
    BY <1>3, <2>6 DEF ReservedFollowsRecipe
<1> QED
  BY <1>2, <1>3

\* What is reserved is not negative, if the recipes were weighed.
LEMMA ReservedIs ==
  ASSUME ForecastTyped, NEW o \in Orders, NEW t \in DOMAIN reserved[o]
  PROVE  /\ reserved[o][t].grams \in Int
         /\ Weighed => reserved[o][t].grams >= 0
<1>1. reserved[o] # NoRows
  BY DEF NoRows
<1>2. PICK r \in Recipes, n \in Nat : reserved[o] = RowsFor(SyncRecipeComponents(r), n)
  BY <1>1 DEF ForecastTyped, ReservedRows, ComponentSets
<1>3. PICK c : c = SyncRecipeComponents(r)
  OBVIOUS
<1>4. t \in DOMAIN c /\ reserved[o][t].grams = c[t].g * n
  BY <1>2, <1>3 DEF RowsFor
<1>5. c[t].g \in Int /\ c[t].g = r.g[t] /\ t \in Types
  BY <1>3, <1>4, ComponentsAre DEF Types
<1>6. PICK g \in Int : g = c[t].g
  BY <1>5
<1>7. Weighed => g >= 0
  BY <1>5, <1>6 DEF Weighed
<1>8. g * n \in Int /\ (g >= 0 => g * n >= 0)
  OBVIOUS
<1> QED
  BY <1>4, <1>6, <1>7, <1>8

LEMMA ForecastTypes ==
  ASSUME ForecastTyped
  PROVE  ForecastTypeOK
<1>1. /\ quantity \in [Items -> Nat] /\ produced \in [Orders -> Nat]
      /\ recipe \in [Bottles -> Recipes]
  BY DEF ForecastTyped
<1>2. ASSUME NEW b \in Bottles
      PROVE  DOMAIN component[b] \in {RawTypes, Types} /\ Drawn(b) \subseteq Items
  <2>1. PICK r \in Recipes : component[b] = SyncRecipeComponents(r)
    BY DEF ForecastTyped, ComponentSets
  <2> QED
    BY <2>1, ComponentsAre DEF Drawn
<1>3. ASSUME NEW o \in Orders
      PROVE  order[o].status \in Live \union {"none", "DONE", "deleted"}
  BY StatusOfRow
<1> QED
  BY <1>1, <1>2, <1>3, ReservedIs DEF ForecastTypeOK

LEMMA FiguresTypes ==
  ASSUME FiguresTyped
  PROVE  FiguresTypeOK
<1>1. \A e \in Present : entry[e].shift \in Shifts \union {""} /\ entry[e].made \in Nat
  BY PresentRows DEF EntryRow
<1>2. ASSUME NEW m \in Lines
      PROVE  /\ oee[m] = NoRecord \/ oee[m].trs \in Int
             /\ cost[m] = NoRecord \/ cost[m].each \in Int
  <2>1. oee[m] \in TrsRow \union {NoRecord} /\ cost[m] \in CostRow \union {NoRecord}
    BY DEF FiguresTyped
  <2>2. oee[m] \in TrsRow => oee[m].trs \in Int
    BY DEF TrsRow
  <2>3. cost[m] \in CostRow => cost[m].each \in Int
    BY DEF CostRow
  <2> QED
    BY <2>1, <2>2, <2>3
<1> QED
  BY <1>1, <1>2 DEF FiguresTypeOK

\* Every request keeps the types: no stock and no count of bottles is negative, a
\* bottle has the components of one of the recipes, and an entry that was saved has
\* one of the three shifts.
THEOREM TypesHold ==
  HistorySpec => []TypeOK
<1>1. HistoryInit => ForecastInv /\ FiguresInv
  BY ForecastBegin, FiguresBegin
<1>2. ForecastInv /\ FiguresInv /\ [HistoryNext]_<<forecastVars, figuresVars, history>>
        => (ForecastInv /\ FiguresInv)'
  BY ForecastKept, FiguresKept
<1>3. ForecastInv /\ FiguresInv => TypeOK
  BY ForecastTypes, FiguresTypes DEF ForecastInv, FiguresInv, TypeOK
<1> QED
  BY <1>1, <1>2, <1>3, PTL DEF HistorySpec

\* Whatever was ordered, made, delivered or edited: an order holds what its recipe says
\* for what is left of it, and nothing once it is done or deleted, until its recipe or
\* the components of its bottle change (sync_reservations_for_order).
THEOREM ReservationsHold ==
  HistorySpec => []ReservedUnlessUnsynced
<1>1. HistoryInit => ForecastInv
  BY ForecastBegin
<1>2. ForecastInv /\ [HistoryNext]_<<forecastVars, figuresVars, history>> => ForecastInv'
  BY ForecastKept
<1>3. ForecastInv => ReservedUnlessUnsynced
  BY InStepFollows DEF ReservedUnlessUnsynced
<1> QED
  BY <1>1, <1>2, <1>3, PTL DEF HistorySpec

-----------------------------------------------------------------------------
(* Forecast: the capacity.                                                 *)

LEMMA TimesLess ==
  ASSUME NEW u \in Int, NEW v \in Int, NEW d \in Nat \ {0}, u * d < v * d
  PROVE  u < v
<1>1. v <= u => v * d <= u * d
  BY TimesGrows
<1> QED
  BY <1>1

\* A quotient towards zero.
LEMMA QuotientIs ==
  ASSUME NEW a \in Int, NEW d \in Nat \ {0}, NEW q, q = Quotient(a, d)
  PROVE  /\ q \in Int /\ q * d \in Int
         /\ a >= 0 => q >= 0 /\ q * d <= a /\ a < (q + 1) * d
         /\ a < 0 => q <= 0 /\ a <= q * d /\ (q - 1) * d < a
<1>1. CASE a >= 0
  <2>1. q = a \div d
    BY <1>1 DEF Quotient
  <2>2. PICK m : m = a % d
    OBVIOUS
  <2>3. q \in Int /\ m \in Int /\ a = d * q + m /\ 0 <= m /\ m < d
    BY <2>1, <2>2, Division
  <2>4. q * d = d * q /\ (q + 1) * d = d * q + d /\ d * q \in Int
    BY <2>3
  <2>5. q >= 0
    <3>1. 0 * d < (q + 1) * d
      BY <1>1, <2>3, <2>4
    <3>2. q + 1 \in Int
      BY <2>3
    <3>3. 0 < q + 1
      BY <3>1, <3>2, TimesLess
    <3> QED
      BY <2>3, <3>3
  <2> QED
    BY <1>1, <2>3, <2>4, <2>5
<1>2. CASE a < 0
  <2>1. PICK e, p, m : e = -a /\ p = e \div d /\ m = e % d
    OBVIOUS
  <2>2. q = -p
    BY <1>2, <2>1 DEF Quotient
  <2>3. e \in Int /\ p \in Int /\ m \in Int /\ e = d * p + m /\ 0 <= m /\ m < d
    BY <2>1, Division
  <2>4. /\ d * p \in Int /\ q * d = -(d * p) /\ (q - 1) * d = -(d * p) - d
        /\ (p + 1) * d = d * p + d
    BY <2>2, <2>3
  <2>5. p >= 0
    <3>1. 0 * d < (p + 1) * d
      BY <1>2, <2>1, <2>3, <2>4
    <3>2. p + 1 \in Int
      BY <2>3
    <3>3. 0 < p + 1
      BY <3>1, <3>2, TimesLess
    <3> QED
      BY <2>3, <3>3
  <2> QED
    BY <1>2, <2>1, <2>2, <2>3, <2>4, <2>5
<1> QED
  BY <1>1, <1>2

\* More of it goes at least as often.
LEMMA QuotientGrows ==
  ASSUME NEW a \in Int, NEW b \in Int, a <= b, NEW d \in Nat \ {0}
  PROVE  Quotient(a, d) <= Quotient(b, d)
<1>1. PICK q, r : q = Quotient(a, d) /\ r = Quotient(b, d)
  OBVIOUS
<1>2. /\ q \in Int /\ q * d \in Int
      /\ a >= 0 => q >= 0 /\ q * d <= a /\ a < (q + 1) * d
      /\ a < 0 => q <= 0 /\ a <= q * d /\ (q - 1) * d < a
  BY <1>1, QuotientIs
<1>3. /\ r \in Int /\ r * d \in Int
      /\ b >= 0 => r >= 0 /\ r * d <= b /\ b < (r + 1) * d
      /\ b < 0 => r <= 0 /\ b <= r * d /\ (r - 1) * d < b
  BY <1>1, QuotientIs
<1>4. PICK s, t \in Int : s = r + 1 /\ t = q - 1
  BY <1>2, <1>3
<1>5. s * d \in Int /\ t * d \in Int
  OBVIOUS
<1>6. CASE a >= 0
  <2>1. q * d < s * d
    BY <1>2, <1>3, <1>4, <1>5, <1>6
  <2>2. q < s
    BY <1>2, <2>1, TimesLess
  <2> QED
    BY <1>1, <1>2, <1>3, <1>4, <2>2
<1>7. CASE a < 0 /\ b >= 0
  BY <1>1, <1>2, <1>3, <1>7
<1>8. CASE b < 0
  <2>1. t * d < r * d
    BY <1>2, <1>3, <1>4, <1>5, <1>8
  <2>2. t < r
    BY <1>3, <2>1, TimesLess
  <2> QED
    BY <1>1, <1>2, <1>3, <1>4, <2>2
<1> QED
  BY <1>6, <1>7, <1>8

\* What is held of an item.
LEMMA HeldIs ==
  ASSUME ForecastTyped, NEW o \in Orders, NEW i
  PROVE  Held(o, i) \in Int /\ (Weighed => Held(o, i) \in Nat)
<1>1. PICK S : S = {u \in DOMAIN reserved[o] : reserved[o][u].item = i}
  OBVIOUS
<1>2. PICK f : f = [t \in S |-> reserved[o][t].grams]
  OBVIOUS
<1>3. IsFiniteSet(S)
  <2>1. CASE reserved[o] = NoRows
    <3>1. S = {}
      BY <1>1, <2>1 DEF NoRows
    <3> QED
      BY <3>1, FS_EmptySet
  <2>2. CASE reserved[o] # NoRows
    <3>1. PICK r \in Recipes, n \in Nat : reserved[o] = RowsFor(SyncRecipeComponents(r), n)
      BY <2>2 DEF ForecastTyped, ReservedRows, ComponentSets
    <3>2. DOMAIN reserved[o] = DOMAIN SyncRecipeComponents(r)
      BY <3>1 DEF RowsFor
    <3>3. S \subseteq DOMAIN SyncRecipeComponents(r)
      BY <1>1, <3>2
    <3>4. IsFiniteSet(DOMAIN SyncRecipeComponents(r))
      BY ComponentsAre
    <3> QED
      BY <3>3, <3>4, FS_Subset
  <2> QED
    BY <2>1, <2>2
<1>4. \A t \in S : f[t] \in Int /\ (Weighed => f[t] \in Nat)
  BY <1>1, <1>2, ReservedIs
<1>5. Counted(f, S) /\ DOMAIN f = S
  BY <1>2, <1>4 DEF Counted
<1>6. Weighed => SumFunctionOnSet(f, S) \in Nat
  BY <1>3, <1>4, SumIsNatural
<1> QED
  BY <1>1, <1>2, <1>3, <1>5, <1>6, SumType DEF Held, SumFunction

LEMMA ReservedOfIs ==
  ASSUME ForecastTyped, Unbegun, NEW i
  PROVE  ReservedOf(i) \in Int /\ (Weighed => ReservedOf(i) \in Nat)
<1>1. PICK S : S = {p \in Orders : DOMAIN reserved[p] # {}}
  OBVIOUS
<1>2. S \subseteq {o \in Orders : order[o] # NoOrder}
  <2>1. ASSUME NEW o \in Orders, order[o] = NoOrder PROVE DOMAIN reserved[o] = {}
    <3>1. order[o].status \notin Live
      BY <2>1 DEF NoOrder, Live
    <3> QED
      BY <3>1 DEF Unbegun, NoRows
  <2> QED
    BY <1>1, <2>1
<1>3. IsFiniteSet(S)
  BY <1>2, FS_Subset DEF ForecastTyped
<1>4. PICK f : f = [o \in S |-> Held(o, i)]
  OBVIOUS
<1>5. \A o \in S : f[o] \in Int /\ (Weighed => f[o] \in Nat)
  BY <1>1, <1>4, HeldIs
<1>6. Counted(f, S) /\ DOMAIN f = S
  BY <1>4, <1>5 DEF Counted
<1>7. Weighed => SumFunctionOnSet(f, S) \in Nat
  BY <1>3, <1>5, SumIsNatural
<1> QED
  BY <1>1, <1>3, <1>4, <1>6, <1>7, SumType DEF ReservedOf, SumFunction

\* The items a bottle takes something of.
Limiting(b) == {j \in Drawn(b) : PerBottle(b, j) > 0}

\* The capacity is that of the item that gives least.
LEMMA CapacityIs ==
  ASSUME ForecastTyped, NEW b \in Bottles, NEW stock, \A i \in Items : stock[i] \in Int
  PROVE  /\ Limiting(b) = {} => Capacity(b, stock) = 0
         /\ Limiting(b) # {} =>
              /\ \E k \in Limiting(b) : Capacity(b, stock) = Quotient(stock[k], PerBottle(b, k))
              /\ \A k \in Limiting(b) : Capacity(b, stock) <= Quotient(stock[k], PerBottle(b, k))
<1>1. PICK q : q = [i \in Limiting(b) |-> Quotient(stock[i], PerBottle(b, i))]
  OBVIOUS
<1>2. PICK limits : limits = {q[i] : i \in Limiting(b)}
  OBVIOUS
<1>3. Capacity(b, stock) = IF limits = {} THEN 0 ELSE Min(limits)
  <2>1. limits = {Quotient(stock[i], PerBottle(b, i)) : i \in Limiting(b)}
    BY <1>1, <1>2
  <2> QED
    BY <2>1 DEF Capacity, Limiting
<1>4. \A i \in Limiting(b) : q[i] \in Int
  <2> SUFFICES ASSUME NEW i \in Limiting(b) PROVE q[i] \in Int
    OBVIOUS
  <2>1. i \in Items
    BY ForecastTypes DEF Limiting, ForecastTypeOK
  <2>2. PerBottle(b, i) \in Nat \ {0}
    BY NeedsAre DEF Limiting
  <2> QED
    BY <1>1, <2>1, <2>2, QuotientIs
<1>5. limits # {} => \E x \in limits : \A y \in limits : x <= y
  <2>1. PICK r \in Recipes : component[b] = SyncRecipeComponents(r)
    BY DEF ForecastTyped, ComponentSets
  <2>2. Drawn(b) \subseteq {r.raw, r.colorant}
    BY <2>1, ComponentsAre DEF Drawn
  <2>3. Limiting(b) \subseteq {r.raw, r.colorant}
    BY <2>2 DEF Limiting
  <2>4. CASE r.raw \in Limiting(b) /\ r.colorant \in Limiting(b)
    <3>1. PICK x, y \in Int : x = q[r.raw] /\ y = q[r.colorant]
      BY <1>4, <2>4
    <3>2. limits = {x, y}
      BY <1>2, <2>3, <2>4, <3>1
    <3> QED
      BY <3>2
  <2>5. CASE ~(r.raw \in Limiting(b) /\ r.colorant \in Limiting(b))
    <3> SUFFICES ASSUME limits # {} PROVE \E x \in limits : \A y \in limits : x <= y
      OBVIOUS
    <3>1. PICK k \in Limiting(b) : Limiting(b) = {k}
      BY <1>2, <2>3, <2>5
    <3>2. limits = {q[k]} /\ q[k] \in Int
      BY <1>2, <1>4, <3>1
    <3> QED
      BY <3>2
  <2> QED
    BY <2>4, <2>5
<1>6. limits # {} => Min(limits) \in limits /\ \A y \in limits : Min(limits) <= y
  BY <1>5 DEF Min
<1> QED
  BY <1>1, <1>2, <1>3, <1>6

\* The capacity is exact, and that of the whole stock no smaller.
LEMMA CapacityExact ==
  ASSUME ForecastInv
  PROVE  CapacityIsExact
<1>1. ForecastTyped /\ Unbegun
  BY DEF ForecastInv
<1>2. \A i \in Items : /\ quantity[i] \in Int /\ Available[i] \in Int
                       /\ Available[i] = quantity[i] - ReservedOf(i)
                       /\ Weighed => Available[i] <= quantity[i]
  <2> SUFFICES ASSUME NEW i \in Items
               PROVE  /\ quantity[i] \in Int /\ Available[i] \in Int
                      /\ Available[i] = quantity[i] - ReservedOf(i)
                      /\ Weighed => Available[i] <= quantity[i]
    OBVIOUS
  <2>1. ReservedOf(i) \in Int /\ (Weighed => ReservedOf(i) \in Nat)
    BY <1>1, ReservedOfIs
  <2>2. quantity[i] \in Nat
    BY <1>1 DEF ForecastTyped
  <2> QED
    BY <2>1, <2>2 DEF Available
<1> SUFFICES ASSUME NEW b \in Bottles
             PROVE  LET n == Capacity(b, Available) IN
                    /\ Weighed => Capacity(b, quantity) >= n
                    /\ \A i \in LimitingComponents(b) :
                         Available[i] >= 0 => RequirementStatus(b, n + 1, i) = "INSUFFICIENT"
                    /\ (\A i \in Items : Available[i] >= 0) =>
                         \A i \in Drawn(b) : RequirementStatus(b, n, i) # "INSUFFICIENT"
  BY DEF CapacityIsExact
<1>3. PICK n, m : n = Capacity(b, Available) /\ m = Capacity(b, quantity)
  OBVIOUS
<1>4. \A i \in Drawn(b) : i \in Items
  BY <1>1, ForecastTypes DEF ForecastTypeOK
<1>5. \A i \in Limiting(b) : PerBottle(b, i) \in Nat \ {0} /\ i \in Items
  BY <1>1, <1>4, NeedsAre DEF Limiting
<1>6. /\ Limiting(b) = {} => n = 0 /\ m = 0
      /\ Limiting(b) # {} =>
           /\ \E k \in Limiting(b) : n = Quotient(Available[k], PerBottle(b, k))
           /\ \A k \in Limiting(b) : n <= Quotient(Available[k], PerBottle(b, k))
           /\ \E k \in Limiting(b) : m = Quotient(quantity[k], PerBottle(b, k))
  <2>1. /\ Limiting(b) = {} => n = 0
        /\ Limiting(b) # {} =>
             /\ \E k \in Limiting(b) : n = Quotient(Available[k], PerBottle(b, k))
             /\ \A k \in Limiting(b) : n <= Quotient(Available[k], PerBottle(b, k))
    BY <1>1, <1>2, <1>3, CapacityIs
  <2>2. /\ Limiting(b) = {} => m = 0
        /\ Limiting(b) # {} =>
             \E k \in Limiting(b) : m = Quotient(quantity[k], PerBottle(b, k))
    BY <1>1, <1>2, <1>3, CapacityIs
  <2> QED
    BY <2>1, <2>2
<1>7. n \in Int /\ m \in Int
  <2>1. ASSUME NEW k \in Limiting(b)
        PROVE  /\ Quotient(Available[k], PerBottle(b, k)) \in Int
               /\ Quotient(quantity[k], PerBottle(b, k)) \in Int
    <3>1. Available[k] \in Int /\ quantity[k] \in Int /\ PerBottle(b, k) \in Nat \ {0}
      BY <1>2, <1>5
    <3> QED
      BY <3>1, QuotientIs
  <2> QED
    BY <1>6, <2>1
<1>8. ASSUME Weighed PROVE m >= n
  <2>1. CASE Limiting(b) = {}
    BY <1>6, <2>1
  <2>2. CASE Limiting(b) # {}
    <3>1. PICK k \in Limiting(b) : m = Quotient(quantity[k], PerBottle(b, k))
      BY <1>6, <2>2
    <3>2. PICK x \in Int : x = Quotient(Available[k], PerBottle(b, k))
      BY <1>2, <1>5, QuotientIs
    <3>3. x <= m
      BY <1>2, <1>5, <1>8, <3>1, <3>2, QuotientGrows
    <3>4. n <= x
      BY <1>6, <2>2, <3>2
    <3> QED
      BY <1>7, <3>3, <3>4
  <2> QED
    BY <2>1, <2>2
<1>9. ASSUME NEW i \in LimitingComponents(b), Available[i] >= 0
      PROVE  RequirementStatus(b, n + 1, i) = "INSUFFICIENT"
  <2>1. i \in Limiting(b) /\ n = Quotient(Available[i], PerBottle(b, i))
    BY <1>3 DEF LimitingComponents, Limiting
  <2>2. PICK a \in Int, d \in Nat \ {0} : a = Available[i] /\ d = PerBottle(b, i)
    BY <1>2, <1>5, <2>1
  <2>3. a < (n + 1) * d
    BY <1>9, <2>1, <2>2, QuotientIs
  <2>4. PICK k \in Int : k = n + 1
    BY <1>7
  <2>5. Needs(b, k, i) = k * d /\ k * d \in Int
    BY <1>1, <2>2, NeedsAre
  <2>6. quantity[i] - ReservedOf(i) = a
    BY <1>2, <1>5, <2>1, <2>2
  <2>7. quantity[i] - ReservedOf(i) - Needs(b, k, i) < 0
    BY <2>3, <2>4, <2>5, <2>6
  <2> QED
    BY <2>4, <2>7 DEF RequirementStatus
<1>10. ASSUME \A i \in Items : Available[i] >= 0, NEW i \in Drawn(b)
       PROVE  RequirementStatus(b, n, i) # "INSUFFICIENT"
  <2>1. PICK a \in Int, d \in Int : a = Available[i] /\ d = PerBottle(b, i) /\ i \in Items
    BY <1>1, <1>2, <1>4, NeedsAre
  <2>2. a >= 0 /\ quantity[i] - ReservedOf(i) = a
    BY <1>2, <1>10, <2>1
  <2>3. Needs(b, n, i) = n * d
    BY <1>1, <1>7, <2>1, NeedsAre
  <2>4. n >= 0
    <3>1. CASE Limiting(b) # {}
      <4>1. PICK k \in Limiting(b) : n = Quotient(Available[k], PerBottle(b, k))
        BY <1>6, <3>1
      <4>2. PICK x \in Int, y \in Nat \ {0} : x = Available[k] /\ y = PerBottle(b, k)
        BY <1>2, <1>5
      <4>3. x >= 0
        BY <1>5, <1>10, <4>2
      <4>4. n = Quotient(x, y)
        BY <4>1, <4>2
      <4>5. x >= 0 => n >= 0
        BY <4>4, QuotientIs
      <4> QED
        BY <4>3, <4>5
    <3> QED
      BY <1>6, <3>1
  <2>5. n * d \in Int /\ n * d <= a
    <3>1. CASE d > 0
      <4>1. i \in Limiting(b)
        BY <2>1, <3>1 DEF Limiting
      <4>2. PICK q \in Int : q = Quotient(a, d)
        BY <3>1, QuotientIs
      <4>3. n <= q
        BY <1>6, <2>1, <4>1, <4>2
      <4>4. q * d <= a
        BY <2>2, <3>1, <4>2, QuotientIs
      <4>5. n * d <= q * d
        BY <1>7, <3>1, <4>3, TimesGrows
      <4> QED
        BY <1>7, <4>4, <4>5
    <3>2. CASE d <= 0
      <4>1. PICK e \in Nat : e = -d
        BY <3>2
      <4>2. n * d = -(n * e) /\ n * e >= 0 /\ n * e \in Int
        BY <1>7, <2>4, <4>1
      <4> QED
        BY <2>2, <4>2
    <3> QED
      BY <3>1, <3>2
  <2>6. ~(quantity[i] - ReservedOf(i) - Needs(b, n, i) < 0)
    BY <2>2, <2>3, <2>5
  <2> QED
    BY <2>6 DEF RequirementStatus
<1> QED
  BY <1>3, <1>8, <1>9, <1>10

\* For any recipes and any stock: so many bottles as max_producible says can be made by
\* calculate_material_requirements and one more cannot, for want of a limiting
\* component; and what is there allows no fewer than what is available.
THEOREM CapacityHolds ==
  HistorySpec => []CapacityIsExact
<1>1. HistoryInit => ForecastInv
  BY ForecastBegin
<1>2. ForecastInv /\ [HistoryNext]_<<forecastVars, figuresVars, history>> => ForecastInv'
  BY ForecastKept
<1>3. ForecastInv => CapacityIsExact
  BY CapacityExact
<1> QED
  BY <1>1, <1>2, <1>3, PTL DEF HistorySpec

-----------------------------------------------------------------------------
(* Sequences: what is sorted, and what is made of one element after another. *)

\* R puts any two elements of S in an order.
Linear(R, S) ==
  /\ \A x, y \in S : x # y => <<x, y>> \in R \/ <<y, x>> \in R
  /\ \A x, y, z \in S : <<x, y>> \in R /\ <<y, z>> \in R => <<x, z>> \in R

\* s has the elements of S, in the order R.
Sorts(s, S, R) ==
  /\ s \in [1 .. Cardinality(S) -> S]
  /\ \A x \in S : \E n \in DOMAIN s : s[n] = x
  /\ \A k, n \in DOMAIN s : k < n => <<s[k], s[n]>> \in R

\* A set that is not empty has a last element.
LEMMA LastExists ==
  ASSUME NEW S, IsFiniteSet(S), NEW R, Linear(R, S), S # {}
  PROVE  \E x \in S : \A y \in S \ {x} : <<y, x>> \in R
<1> DEFINE P == {s \in SUBSET S : s # {} => \E x \in s : \A y \in s \ {x} : <<y, x>> \in R}
<1>1. ASSUME NEW s \in SUBSET S, \A t \in SUBSET S : Cardinality(t) < Cardinality(s) => t \in P
      PROVE  s \in P
  <2> SUFFICES ASSUME s # {} PROVE \E x \in s : \A y \in s \ {x} : <<y, x>> \in R
    OBVIOUS
  <2>1. PICK x, t : x \in s /\ t = s \ {x}
    OBVIOUS
  <2>2. t \in SUBSET S /\ Cardinality(t) < Cardinality(s)
    BY <2>1, PickOne
  <2>3. CASE t = {}
    BY <2>1, <2>3
  <2>4. CASE t # {}
    <3>1. PICK m \in t : \A y \in t \ {m} : <<y, m>> \in R
      BY <1>1, <2>2, <2>4
    <3>2. m \in S /\ x \in S /\ m # x
      BY <2>1
    <3>3. CASE <<m, x>> \in R
      <4>1. ASSUME NEW y \in s \ {x} PROVE <<y, x>> \in R
        <5>1. y \in S /\ (y = m \/ <<y, m>> \in R)
          BY <2>1, <3>1
        <5> QED
          BY <3>2, <3>3, <5>1 DEF Linear
      <4> QED
        BY <2>1, <4>1
    <3>4. CASE <<x, m>> \in R
      <4>1. \A y \in s \ {m} : <<y, m>> \in R
        BY <2>1, <3>1, <3>4
      <4> QED
        BY <2>1, <4>1
    <3> QED
      BY <3>2, <3>3, <3>4 DEF Linear
  <2> QED
    BY <2>3, <2>4
<1> HIDE DEF P
<1>2. \A s \in SUBSET S : s \in P
  BY <1>1, SizeInduction
<1>3. S \in P
  BY <1>2
<1> QED
  BY <1>3 DEF P

\* A finite set can be sorted.
LEMMA SortExists ==
  ASSUME NEW S, IsFiniteSet(S), NEW R, Linear(R, S)
  PROVE  \E s : Sorts(s, S, R)
<1> DEFINE P == {u \in SUBSET S : \E s : Sorts(s, u, R)}
<1>1. ASSUME NEW u \in SUBSET S, \A t \in SUBSET S : Cardinality(t) < Cardinality(u) => t \in P
      PROVE  u \in P
  <2>1. CASE u = {}
    <3>1. PICK s : s = [n \in 1 .. 0 |-> n]
      OBVIOUS
    <3>2. Cardinality(u) = 0
      BY <2>1, FS_EmptySet
    <3>3. s \in [1 .. Cardinality(u) -> u] /\ DOMAIN s = {}
      BY <3>1, <3>2
    <3>4. Sorts(s, u, R)
      BY <2>1, <3>3 DEF Sorts
    <3> QED
      BY <3>4
  <2>2. CASE u # {}
    <3>0. IsFiniteSet(u) /\ Linear(R, u)
      BY FS_Subset DEF Linear
    <3>1. PICK x \in u : \A y \in u \ {x} : <<y, x>> \in R
      BY <2>2, <3>0, LastExists
    <3>2. PICK t : t = u \ {x}
      OBVIOUS
    <3>3. /\ t \in SUBSET S /\ Cardinality(t) < Cardinality(u) /\ Cardinality(t) \in Nat
          /\ Cardinality(u) = Cardinality(t) + 1
      BY <3>2, PickOne
    <3>4. PICK r : Sorts(r, t, R)
      BY <1>1, <3>3
    <3>5. PICK k \in Nat : k = Cardinality(t)
      BY <3>3
    <3>6. r \in [1 .. k -> t]
      BY <3>4, <3>5 DEF Sorts
    <3>7. PICK s : s = [n \in 1 .. k + 1 |-> IF n = k + 1 THEN x ELSE r[n]]
      OBVIOUS
    <3>8. DOMAIN s = 1 .. k + 1 /\ s[k + 1] = x /\ \A n \in 1 .. k : s[n] = r[n] /\ r[n] \in t
      BY <3>6, <3>7
    <3>9. s \in [1 .. Cardinality(u) -> u]
      <4>1. \A n \in 1 .. k + 1 : n = k + 1 \/ n \in 1 .. k
        OBVIOUS
      <4>2. \A n \in 1 .. k + 1 : s[n] \in u
        BY <3>2, <3>8, <4>1
      <4> QED
        BY <3>3, <3>5, <3>7, <4>2
    <3>10. \A y \in u : \E n \in DOMAIN s : s[n] = y
      <4> SUFFICES ASSUME NEW y \in u PROVE \E n \in DOMAIN s : s[n] = y
        OBVIOUS
      <4>1. CASE y = x
        BY <3>8, <4>1
      <4>2. CASE y # x
        <5>1. PICK n \in 1 .. k : r[n] = y
          BY <3>2, <3>4, <3>6, <4>2 DEF Sorts
        <5> QED
          BY <3>8, <5>1
      <4> QED
        BY <4>1, <4>2
    <3>11. ASSUME NEW j \in DOMAIN s, NEW n \in DOMAIN s, j < n
           PROVE  <<s[j], s[n]>> \in R
      <4>1. CASE n = k + 1
        <5>1. j \in 1 .. k
          BY <3>8, <3>11, <4>1
        <5>2. s[j] \in u \ {x} /\ s[n] = x
          BY <3>2, <3>8, <4>1, <5>1
        <5> QED
          BY <3>1, <5>2
      <4>2. CASE n # k + 1
        <5>1. j \in 1 .. k /\ n \in 1 .. k
          BY <3>8, <3>11, <4>2
        <5>2. <<r[j], r[n]>> \in R
          BY <3>4, <3>6, <3>11, <5>1 DEF Sorts
        <5> QED
          BY <3>8, <5>1, <5>2
      <4> QED
        BY <4>1, <4>2
    <3>12. Sorts(s, u, R)
      BY <3>9, <3>10, <3>11 DEF Sorts
    <3> QED
      BY <3>12
  <2> QED
    BY <2>1, <2>2
<1> HIDE DEF P
<1>2. \A u \in SUBSET S : u \in P
  BY <1>1, SizeInduction
<1>3. S \in P
  BY <1>2
<1> QED
  BY <1>3 DEF P

\* So Sorted sorts it.
LEMMA SortedSorts ==
  ASSUME NEW S, IsFiniteSet(S), NEW R, Linear(R, S)
  PROVE  Sorts(Sorted(S, R), S, R)
<1>1. PICK s : Sorts(s, S, R)
  BY SortExists
<1> QED
  BY <1>1 DEF Sorted, Sorts

\* The largest of some numbers up to N.
LEMMA MaxIs ==
  ASSUME NEW N \in Nat, NEW s \in SUBSET (1 .. N), s # {}
  PROVE  Max(s) \in s /\ \A y \in s : y <= Max(s)
<1> DEFINE G == {n \in Nat : \A u \in SUBSET (1 .. n) : u # {} =>
                   \E x \in u : \A y \in u : x >= y}
<1>1. 0 \in G
  <2>1. 1 .. 0 = {}
    OBVIOUS
  <2> QED
    BY <2>1
<1>2. ASSUME NEW n \in G PROVE n + 1 \in G
  <2> SUFFICES ASSUME NEW u \in SUBSET (1 .. n + 1), u # {}
               PROVE  \E x \in u : \A y \in u : x >= y
    OBVIOUS
  <2>1. CASE n + 1 \in u
    BY <2>1
  <2>2. CASE n + 1 \notin u
    <3>1. u \in SUBSET (1 .. n)
      BY <2>2
    <3> QED
      BY <3>1
  <2> QED
    BY <2>1, <2>2
<1>3. G = Nat
  <2>1. G \in SUBSET Nat
    OBVIOUS
  <2> HIDE DEF G
  <2> QED
    BY <1>1, <1>2, <2>1, SetInduction
<1>4. \E x \in s : \A y \in s : x >= y
  BY <1>3
<1>5. Max(s) \in s /\ \A y \in s : Max(s) >= y
  BY <1>4 DEF Max
<1> QED
  BY <1>5

\* The sizes of some positions up to N.
LEMMA PositionSizes ==
  ASSUME NEW N \in Nat, NEW s \in SUBSET (1 .. N)
  PROVE  /\ IsFiniteSet(1 .. N) /\ Cardinality(1 .. N) \in Nat /\ Cardinality(s) \in Nat
         /\ Cardinality(s) <= 0 => s = {}
         /\ \A x \in s : /\ s \ {x} \in SUBSET (1 .. N)
                         /\ Cardinality(s \ {x}) = Cardinality(s) - 1
<1>1. PICK S : S = 1 .. N
  OBVIOUS
<1>2. IsFiniteSet(S)
  <2>1. 1 \in Int /\ N \in Int
    OBVIOUS
  <2> QED
    BY <1>1, <2>1, FS_Interval
<1>3. s \in SUBSET S
  BY <1>1
<1>4. /\ Cardinality(s) \in Nat /\ (s = {} <=> Cardinality(s) = 0)
      /\ \A x \in s : s \ {x} \in SUBSET S /\ Cardinality(s \ {x}) = Cardinality(s) - 1
  BY <1>2, <1>3, PickOne
<1>5. Cardinality(S) \in Nat
  BY <1>2, FS_CardinalityType
<1> QED
  BY <1>1, <1>2, <1>4, <1>5

\* g makes of the positions 1 .. N what F makes of one after another, from base.
Unfolds(g, F, base, s) ==
  g[s] = IF s = {} THEN base ELSE F[<<g[s \ {Max(s)}], Max(s)>>]

\* There is a function that does.
LEMMA FoldsExist ==
  ASSUME NEW N \in Nat, NEW F, NEW base
  PROVE  \E g : \A s \in SUBSET (1 .. N) : Unfolds(g, F, base, s)
<1> DEFINE S == 1 .. N
           After(g) == [s \in SUBSET S |-> IF s = {} THEN base
                                           ELSE F[<<g[s \ {Max(s)}], Max(s)>>]]
           UpTo(g, n) == \A s \in SUBSET S : Cardinality(s) <= n => Unfolds(g, F, base, s)
           G == {n \in Nat : \E g : UpTo(g, n)}
<1>0. IsFiniteSet(S) /\ Cardinality(S) \in Nat
  BY PositionSizes
<1>1. 0 \in G
  <2>1. ASSUME NEW s \in SUBSET S, Cardinality(s) <= 0
        PROVE  Unfolds([t \in SUBSET S |-> base], F, base, s)
    <3>1. s = {}
      BY <2>1, PositionSizes
    <3> QED
      BY <3>1 DEF Unfolds
  <2> QED
    BY <2>1
<1>2. ASSUME NEW n \in G PROVE n + 1 \in G
  <2>1. PICK g : UpTo(g, n)
    OBVIOUS
  <2>2. PICK h : h = After(g)
    OBVIOUS
  <2>3. ASSUME NEW s \in SUBSET S, Cardinality(s) <= n + 1
        PROVE  Unfolds(h, F, base, s)
    <3>1. CASE s = {}
      BY <2>2, <3>1 DEF Unfolds
    <3>2. CASE s # {}
      <4>1. PICK x, t : x = Max(s) /\ t = s \ {x}
        OBVIOUS
      <4>2. x \in s
        BY <3>2, <4>1, MaxIs
      <4>3. t \in SUBSET S /\ Cardinality(t) <= n
        <5>1. Cardinality(t) = Cardinality(s) - 1 /\ Cardinality(s) \in Nat /\ t \in SUBSET S
          BY <4>1, <4>2, PositionSizes
        <5> QED
          BY <2>3, <5>1
      <4>4. Unfolds(g, F, base, t)
        BY <2>1, <4>3
      <4>5. h[t] = g[t]
        BY <2>2, <4>3, <4>4 DEF Unfolds
      <4>6. h[s] = F[<<g[t], x>>]
        BY <2>2, <3>2, <4>1
      <4> QED
        BY <3>2, <4>1, <4>5, <4>6 DEF Unfolds
    <3> QED
      BY <3>1, <3>2
  <2> QED
    BY <2>3
<1>3. G = Nat
  <2>1. G \in SUBSET Nat
    OBVIOUS
  <2> HIDE DEF G
  <2> QED
    BY <1>1, <1>2, <2>1, SetInduction
<1>4. PICK g : UpTo(g, Cardinality(S))
  BY <1>0, <1>3
<1>5. \A s \in SUBSET S : Unfolds(g, F, base, s)
  BY <1>0, <1>4, FS_Subset, FS_CardinalityType
<1> QED
  BY <1>5

\* What it makes is of V, if F makes elements of V of those.
LEMMA FoldsStay ==
  ASSUME NEW N \in Nat, NEW V, NEW base \in V, NEW F \in [V \X (1 .. N) -> V],
         NEW g, \A s \in SUBSET (1 .. N) : Unfolds(g, F, base, s)
  PROVE  \A s \in SUBSET (1 .. N) : g[s] \in V
<1> DEFINE P == {s \in SUBSET (1 .. N) : g[s] \in V}
<1>0. IsFiniteSet(1 .. N)
  BY PositionSizes
<1>1. ASSUME NEW s \in SUBSET (1 .. N),
             \A t \in SUBSET (1 .. N) : Cardinality(t) < Cardinality(s) => t \in P
      PROVE  s \in P
  <2>1. CASE s = {}
    BY <2>1 DEF Unfolds
  <2>2. CASE s # {}
    <3>1. PICK x, t : x = Max(s) /\ t = s \ {x}
      OBVIOUS
    <3>2. x \in s
      BY <2>2, <3>1, MaxIs
    <3>3. t \in SUBSET (1 .. N) /\ Cardinality(t) < Cardinality(s)
      <4>1. Cardinality(t) = Cardinality(s) - 1 /\ Cardinality(s) \in Nat
            /\ t \in SUBSET (1 .. N)
        BY <3>1, <3>2, PositionSizes
      <4> QED
        BY <4>1
    <3>4. g[t] \in V /\ x \in 1 .. N
      BY <1>1, <3>2, <3>3
    <3>5. g[s] = F[<<g[t], x>>]
      BY <2>2, <3>1 DEF Unfolds
    <3> QED
      BY <3>4, <3>5
  <2> QED
    BY <2>1, <2>2
<1> HIDE DEF P
<1>2. \A s \in SUBSET (1 .. N) : s \in P
  BY <1>0, <1>1, SizeInduction
<1> QED
  BY <1>2 DEF P

\* The positions up to k, but for the last.
LEMMA UpToLess ==
  ASSUME NEW N \in Nat, NEW k \in 1 .. N
  PROVE  /\ (1 .. k) \in SUBSET (1 .. N) /\ 1 .. k # {}
         /\ Max(1 .. k) = k /\ (1 .. k) \ {Max(1 .. k)} = 1 .. k - 1
<1>1. (1 .. k) \in SUBSET (1 .. N) /\ 1 .. k # {} /\ k \in 1 .. k
  OBVIOUS
<1>2. Max(1 .. k) \in 1 .. k /\ \A y \in 1 .. k : y <= Max(1 .. k)
  BY <1>1, MaxIs
<1>3. Max(1 .. k) = k
  BY <1>1, <1>2
<1> QED
  BY <1>1, <1>3

-----------------------------------------------------------------------------
(* Forecast: the schedule.                                                 *)

\* The queued orders are some of those there are.
LEMMA QueueRows ==
  ASSUME ForecastTyped
  PROVE  /\ IsFiniteSet(Queue) /\ Queue \subseteq Orders
         /\ \A o \in Queue : /\ o \in Nat /\ IsRow(order[o])
                             /\ order[o].start = NoTime \/ order[o].start \in Int
<1>1. Queue \subseteq {o \in Orders : order[o] # NoOrder}
  BY DEF Queue, NoOrder
<1>2. \A o \in Queue : IsRow(order[o])
  BY StatusOfRow DEF Queue, Live
<1>3. Queue \subseteq Orders /\ \A o \in Queue : o \in Nat
  BY KeysAssumption DEF Queue
<1>4. \A o \in Queue : order[o].start = NoTime \/ order[o].start \in Int
  BY <1>2 DEF IsRow
<1> QED
  BY <1>1, <1>2, <1>3, <1>4, FS_Subset DEF ForecastTyped

\* ComesBefore is an order of the queue, and nothing comes before itself.
LEMMA BeforeIsLinear ==
  ASSUME ForecastTyped
  PROVE  /\ \A o, p \in Queue : o # p => ComesBefore(o, p) \/ ComesBefore(p, o)
         /\ \A o, p, q \in Queue : ComesBefore(o, p) /\ ComesBefore(p, q) => ComesBefore(o, q)
         /\ \A o \in Queue : ~ComesBefore(o, o)
<1>1. ASSUME NEW o \in Queue, NEW p \in Queue, o # p
      PROVE  ComesBefore(o, p) \/ ComesBefore(p, o)
  <2>1. PICK s, u : s = order[o].start /\ u = order[p].start
    OBVIOUS
  <2>2. (s = NoTime \/ s \in Int) /\ (u = NoTime \/ u \in Int) /\ o \in Nat /\ p \in Nat
    BY <2>1, QueueRows
  <2> QED
    BY <1>1, <2>1, <2>2 DEF ComesBefore
<1>2. ASSUME NEW o \in Queue, NEW p \in Queue, NEW q \in Queue,
             ComesBefore(o, p), ComesBefore(p, q)
      PROVE  ComesBefore(o, q)
  <2>1. PICK s, u, v : s = order[o].start /\ u = order[p].start /\ v = order[q].start
    OBVIOUS
  <2>2. /\ (s = NoTime \/ s \in Int) /\ (u = NoTime \/ u \in Int) /\ (v = NoTime \/ v \in Int)
        /\ o \in Nat /\ p \in Nat /\ q \in Nat
    BY <2>1, QueueRows
  <2> QED
    BY <1>2, <2>1, <2>2 DEF ComesBefore
<1>3. \A o \in Queue : ~ComesBefore(o, o)
  BY QueueRows DEF ComesBefore
<1> QED
  BY <1>1, <1>2, <1>3

\* s has the elements of S, each once.
Lists(s, S) ==
  /\ Cardinality(S) \in Nat /\ s \in [1 .. Cardinality(S) -> S]
  /\ \A x \in S : \E n \in 1 .. Cardinality(S) : s[n] = x
  /\ \A k, n \in 1 .. Cardinality(S) : k < n => s[k] # s[n]

\* What is sorted by an order that puts nothing before itself.
LEMMA SortedLists ==
  ASSUME NEW S, IsFiniteSet(S), NEW R, Linear(R, S), \A x \in S : <<x, x>> \notin R
  PROVE  Lists(Sorted(S, R), S) /\ Sorts(Sorted(S, R), S, R)
<1>1. PICK s : s = Sorted(S, R)
  OBVIOUS
<1>2. Sorts(s, S, R)
  BY <1>1, SortedSorts
<1>3. s \in [1 .. Cardinality(S) -> S] /\ Cardinality(S) \in Nat
  BY <1>2, FS_CardinalityType DEF Sorts
<1>4. Lists(s, S)
  <2>1. DOMAIN s = 1 .. Cardinality(S)
    BY <1>3
  <2>2. \A x \in S : \E n \in 1 .. Cardinality(S) : s[n] = x
    BY <1>2, <2>1 DEF Sorts
  <2>3. \A k, n \in 1 .. Cardinality(S) : k < n => s[k] # s[n]
    BY <1>2, <1>3, <2>1 DEF Sorts
  <2> QED
    BY <1>3, <2>2, <2>3 DEF Lists
<1> QED
  BY <1>1, <1>2, <1>4

WaitingFor(m) == {o \in Queue : order[o].machine = m}

LEMMA WaitingLists ==
  ASSUME ForecastTyped, NEW m
  PROVE  Lists(Waiting(m), WaitingFor(m)) /\ IsFiniteSet(WaitingFor(m))
<1>1. PICK S : S = WaitingFor(m)
  OBVIOUS
<1>2. PICK R : R = {p \in S \X S : ComesBefore(p[1], p[2])}
  OBVIOUS
<1>3. IsFiniteSet(S) /\ S \subseteq Queue
  BY <1>1, QueueRows, FS_Subset DEF WaitingFor
<1>4. \A x, y \in S : <<x, y>> \in R <=> ComesBefore(x, y)
  BY <1>2
<1>5. Linear(R, S) /\ \A x \in S : <<x, x>> \notin R
  BY <1>3, <1>4, BeforeIsLinear DEF Linear
<1>6. Waiting(m) = Sorted(S, R)
  BY <1>1, <1>2 DEF Waiting, WaitingFor
<1> QED
  BY <1>1, <1>3, <1>5, <1>6, SortedLists

Job == [order : Orders, start : Int, finish : Int]

\* The mold before the next job, and what changing it to that of o takes.
MoldAfter(jobs) == IF jobs = <<>> THEN NoMold ELSE order[jobs[Len(jobs)].order].mold
ChangeTime(o, before) == IF before # NoMold /\ order[o].mold # before THEN MoldChange ELSE 0

\* The job that is booked.
LEMMA Booked ==
  ASSUME ForecastTyped, NEW jobs \in Seq(Job), NEW o \in Queue
  PROVE  \E j \in Job :
           /\ Book(jobs, o) = Append(jobs, j) /\ Book(jobs, o) \in Seq(Job)
           /\ j.order = o
           /\ j.finish = j.start + order[o].quantity + ChangeTime(o, MoldAfter(jobs))
           /\ j.finish >= j.start
           /\ order[o].start # NoTime => j.start >= order[o].start
           /\ jobs # <<>> => j.start >= jobs[Len(jobs)].finish
<1>1. PICK n, asked : n = order[o].quantity /\ asked = order[o].start
  OBVIOUS
<1>2. n \in Nat /\ (asked = NoTime \/ asked \in Int) /\ Now \in Int /\ MoldChange \in Nat
      /\ o \in Orders
  BY <1>1, QueueRows, AmountsAssumption DEF IsRow
<1>3. jobs # <<>> => jobs[Len(jobs)] \in Job /\ Last(jobs) = jobs[Len(jobs)]
  BY DEF Last
<1>4. PICK start : start = Start(o, jobs)
  OBVIOUS
<1>5. /\ start \in Int
      /\ asked # NoTime => start >= asked
      /\ jobs # <<>> => start >= jobs[Len(jobs)].finish
  <2>1. CASE jobs = <<>>
    BY <1>1, <1>2, <1>4, <2>1 DEF Start
  <2>2. CASE jobs # <<>>
    <3>1. PICK f \in Int : f = jobs[Len(jobs)].finish /\ f = Last(jobs).finish
      BY <1>3, <2>2 DEF Job
    <3>2. CASE asked = NoTime
      BY <1>1, <1>4, <2>2, <3>1, <3>2 DEF Start
    <3>3. CASE asked # NoTime
      <4>1. start = Max({asked, f}) /\ asked \in Int
        BY <1>1, <1>2, <1>4, <2>2, <3>1, <3>3 DEF Start
      <4>2. \E x \in {asked, f} : \A y \in {asked, f} : x >= y
        BY <3>1, <4>1
      <4>3. start \in {asked, f} /\ start >= asked /\ start >= f
        BY <4>1, <4>2 DEF Max
      <4> QED
        BY <3>1, <4>1, <4>3
    <3> QED
      BY <3>2, <3>3
  <2> QED
    BY <2>1, <2>2
<1>6. PICK change \in Nat :
        /\ change = ChangeTime(o, MoldAfter(jobs))
        /\ Book(jobs, o) = Append(jobs, [order |-> o, start |-> start,
                                         finish |-> start + change + order[o].quantity])
  <2>1. PICK before : before = IF jobs = <<>> THEN NoMold ELSE order[Last(jobs).order].mold
    OBVIOUS
  <2>2. PICK change : change = IF before # NoMold /\ order[o].mold # before THEN MoldChange ELSE 0
    OBVIOUS
  <2>3. change \in Nat
    BY <1>2, <2>2
  <2> QED
    BY <1>3, <1>4, <2>1, <2>2, <2>3 DEF Book, ChangeTime, MoldAfter
<1>7. PICK j : j = [order |-> o, start |-> start, finish |-> start + change + order[o].quantity]
  OBVIOUS
<1>8. /\ j \in Job /\ j.order = o /\ j.start = start
      /\ j.finish = j.start + order[o].quantity + change /\ j.finish >= j.start
  <2>1. PICK f \in Int : /\ f = start + change + order[o].quantity /\ f >= start
                         /\ f = start + order[o].quantity + change
    BY <1>1, <1>2, <1>5
  <2>2. j = [order |-> o, start |-> start, finish |-> f]
    BY <1>7, <2>1
  <2>3. j \in Job
    BY <1>2, <1>5, <2>1, <2>2 DEF Job
  <2> QED
    BY <2>1, <2>2, <2>3
<1>9. Book(jobs, o) = Append(jobs, j) /\ Append(jobs, j) \in Seq(Job)
  BY <1>6, <1>7, <1>8
<1> QED
  BY <1>1, <1>5, <1>6, <1>8, <1>9

\* The timeline books one order after another.
LEMMA TimelineUnfolds ==
  ASSUME ForecastTyped, NEW m, NEW N, N = Cardinality(WaitingFor(m))
  PROVE  \E h : /\ h[0] = <<>> /\ \A k \in 0 .. N : h[k] \in Seq(Job)
                /\ \A k \in 1 .. N : h[k] = Book(h[k - 1], Waiting(m)[k])
                /\ Timeline(m) = h[N]
<1>1. PICK W : W = Waiting(m)
  OBVIOUS
<1>2. N \in Nat /\ W \in [1 .. N -> Queue]
  BY <1>1, WaitingLists DEF Lists, WaitingFor
<1>3. PICK F : F = [p \in Seq(Job) \X (1 .. N) |-> Book(p[1], W[p[2]])]
  OBVIOUS
<1>4. F \in [Seq(Job) \X (1 .. N) -> Seq(Job)]
  <2>1. ASSUME NEW p \in Seq(Job) \X (1 .. N) PROVE Book(p[1], W[p[2]]) \in Seq(Job)
    <3>1. p[1] \in Seq(Job) /\ W[p[2]] \in Queue
      BY <1>2
    <3> QED
      BY <3>1, Booked
  <2> QED
    BY <1>3, <2>1
<1>5. <<>> \in Seq(Job)
  OBVIOUS
<1>6. PICK e : \A s \in SUBSET (1 .. N) : Unfolds(e, F, <<>>, s)
  BY <1>2, FoldsExist
<1>7. \A s \in SUBSET (1 .. N) : e[s] \in Seq(Job)
  BY <1>2, <1>4, <1>5, <1>6, FoldsStay
<1>8. PICK g : g = [s \in SUBSET (1 .. N) |-> e[s]]
  OBVIOUS
<1>9. ASSUME NEW s \in SUBSET (1 .. N)
      PROVE  g[s] = IF s = {} THEN <<>> ELSE Book(g[s \ {Max(s)}], W[Max(s)])
  <2>1. CASE s = {}
    BY <1>6, <1>8, <2>1 DEF Unfolds
  <2>2. CASE s # {}
    <3>1. PICK x, t : x = Max(s) /\ t = s \ {x}
      OBVIOUS
    <3>2. x \in 1 .. N /\ t \in SUBSET (1 .. N)
      BY <1>2, <2>2, <3>1, MaxIs
    <3>3. g[s] = F[<<e[t], x>>] /\ g[t] = e[t]
      BY <1>6, <1>8, <2>2, <3>1, <3>2 DEF Unfolds
    <3>4. F[<<e[t], x>>] = Book(e[t], W[x])
      BY <1>3, <1>7, <3>2
    <3> QED
      BY <2>2, <3>1, <3>3, <3>4
  <2> QED
    BY <2>1, <2>2
<1>10. g = [s \in SUBSET (1 .. N) |->
              IF s = {} THEN <<>> ELSE Book(g[s \ {Max(s)}], W[Max(s)])]
  BY <1>8, <1>9
<1>11. PICK f : f = (CHOOSE h : h = [s \in SUBSET (1 .. N) |->
                       IF s = {} THEN <<>> ELSE Book(h[s \ {Max(s)}], W[Max(s)])])
  OBVIOUS
<1>12. f = [s \in SUBSET (1 .. N) |->
              IF s = {} THEN <<>> ELSE Book(f[s \ {Max(s)}], W[Max(s)])]
  BY <1>10, <1>11
<1>13. DOMAIN W = 1 .. N
  BY <1>2
<1>14. Timeline(m) = f[1 .. N]
  BY <1>1, <1>11, <1>13 DEF Timeline, FoldLeft, MapThenFoldSet
<1>15. PICK h : h = [k \in 0 .. N |-> f[1 .. k]]
  OBVIOUS
<1>16. h[0] = <<>> /\ h[N] = f[1 .. N]
  <2>1. 1 .. 0 = {} /\ 0 \in 0 .. N /\ N \in 0 .. N
    BY <1>2
  <2>2. f[{}] = <<>>
    BY <1>12
  <2> QED
    BY <1>15, <2>1, <2>2
<1>17. ASSUME NEW k \in 1 .. N
       PROVE  h[k] = Book(h[k - 1], W[k])
  <2>1. k - 1 \in 0 .. N /\ k \in 0 .. N
    BY <1>2
  <2>2. /\ (1 .. k) \in SUBSET (1 .. N) /\ 1 .. k # {}
        /\ Max(1 .. k) = k /\ (1 .. k) \ {Max(1 .. k)} = 1 .. k - 1
    BY <1>2, UpToLess
  <2>3. f[1 .. k] = Book(f[1 .. k - 1], W[k])
    BY <1>12, <2>2
  <2> QED
    BY <1>15, <2>1, <2>3
<1>18. \A k \in 0 .. N : h[k] \in Seq(Job)
  <2> DEFINE G == {k \in Nat : k <= N => h[k] \in Seq(Job)}
  <2>1. 0 \in G
    BY <1>5, <1>16
  <2>2. ASSUME NEW k \in G PROVE k + 1 \in G
    <3> SUFFICES ASSUME k + 1 <= N PROVE h[k + 1] \in Seq(Job)
      OBVIOUS
    <3>1. k + 1 \in 1 .. N /\ (k + 1) - 1 = k /\ h[k] \in Seq(Job)
      BY <1>2
    <3>2. h[k + 1] = Book(h[k], W[k + 1])
      BY <1>17, <3>1
    <3>3. W[k + 1] \in Queue
      BY <1>2, <3>1
    <3> QED
      BY <3>1, <3>2, <3>3, Booked
  <2>3. G = Nat
    <3>1. G \in SUBSET Nat
      OBVIOUS
    <3> HIDE DEF G
    <3> QED
      BY <2>1, <2>2, <3>1, SetInduction
  <2> QED
    BY <1>2, <2>3
<1> QED
  BY <1>1, <1>14, <1>16, <1>17, <1>18

\* The first k jobs, of the orders W.
Scheduled(jobs, k, W) ==
  /\ jobs \in Seq(Job) /\ Len(jobs) = k
  /\ \A n \in 1 .. k :
       /\ jobs[n].order = W[n]
       /\ order[W[n]].start # NoTime => jobs[n].start >= order[W[n]].start
       /\ jobs[n].finish = jobs[n].start + order[W[n]].quantity
            + ChangeTime(W[n], IF n = 1 THEN NoMold ELSE order[jobs[n - 1].order].mold)
       /\ jobs[n].finish >= jobs[n].start
       /\ \A i \in 1 .. n - 1 : jobs[i].finish <= jobs[n].start

\* One more job follows all of them.
LEMMA BookedNext ==
  ASSUME ForecastTyped, NEW k \in Nat, NEW W, W[k + 1] \in Queue,
         NEW jobs, Scheduled(jobs, k, W)
  PROVE  Scheduled(Book(jobs, W[k + 1]), k + 1, W)
<1>1. PICK o \in Queue : o = W[k + 1]
  OBVIOUS
<1>2. jobs \in Seq(Job) /\ Len(jobs) = k
  BY DEF Scheduled
<1>3. PICK j \in Job :
        /\ Book(jobs, o) = Append(jobs, j) /\ Book(jobs, o) \in Seq(Job)
        /\ j.order = o
        /\ j.finish = j.start + order[o].quantity + ChangeTime(o, MoldAfter(jobs))
        /\ j.finish >= j.start
        /\ order[o].start # NoTime => j.start >= order[o].start
        /\ jobs # <<>> => j.start >= jobs[Len(jobs)].finish
  BY <1>2, Booked
<1>4. PICK more : more = Append(jobs, j)
  OBVIOUS
<1>5. /\ more \in Seq(Job) /\ Len(more) = k + 1 /\ more[k + 1] = j
      /\ \A n \in 1 .. k : more[n] = jobs[n]
  BY <1>2, <1>3, <1>4
<1>6. \A n \in 1 .. k : jobs[n].finish \in Int /\ jobs[n].start \in Int
  <2>1. \A n \in 1 .. k : jobs[n] \in Job
    BY <1>2
  <2> QED
    BY <2>1 DEF Job
<1>7. j.start \in Int /\ j.finish \in Int
  BY DEF Job
<1>8. \A i \in 1 .. k : jobs[i].finish <= j.start
  <2> SUFFICES ASSUME NEW i \in 1 .. k PROVE jobs[i].finish <= j.start
    OBVIOUS
  <2>1. k \in 1 .. k /\ jobs # <<>>
    BY <1>2
  <2>2. j.start >= jobs[k].finish
    BY <1>2, <1>3, <2>1
  <2>3. CASE i = k
    BY <1>6, <1>7, <2>2, <2>3
  <2>4. CASE i # k
    <3>1. i \in 1 .. k - 1
      BY <2>4
    <3>2. jobs[i].finish <= jobs[k].start /\ jobs[k].finish >= jobs[k].start
      BY <2>1, <3>1 DEF Scheduled
    <3> QED
      BY <1>6, <1>7, <2>1, <2>2, <3>2
  <2> QED
    BY <2>3, <2>4
<1>9. MoldAfter(jobs) = IF k + 1 = 1 THEN NoMold ELSE order[more[k].order].mold
  BY <1>2, <1>5 DEF MoldAfter
<1>10. ASSUME NEW n \in 1 .. k + 1
       PROVE  /\ more[n].order = W[n]
              /\ order[W[n]].start # NoTime => more[n].start >= order[W[n]].start
              /\ more[n].finish = more[n].start + order[W[n]].quantity
                   + ChangeTime(W[n], IF n = 1 THEN NoMold ELSE order[more[n - 1].order].mold)
              /\ more[n].finish >= more[n].start
              /\ \A i \in 1 .. n - 1 : more[i].finish <= more[n].start
  <2>1. CASE n = k + 1
    <3>1. n - 1 = k /\ more[n] = j /\ W[n] = o /\ 1 .. n - 1 = 1 .. k
      BY <1>1, <1>5, <2>1
    <3>2. \A i \in 1 .. k : more[i].finish <= j.start
      BY <1>5, <1>8
    <3>3. MoldAfter(jobs) = IF n = 1 THEN NoMold ELSE order[more[n - 1].order].mold
      BY <1>9, <2>1, <3>1
    <3> QED
      BY <1>3, <3>1, <3>2, <3>3
  <2>2. CASE n # k + 1
    <3>1. /\ n \in 1 .. k /\ more[n] = jobs[n]
          /\ \A i \in 1 .. n - 1 : i \in 1 .. k /\ more[i] = jobs[i]
      BY <1>5, <2>2
    <3>2. n # 1 => n - 1 \in 1 .. n - 1
      OBVIOUS
    <3>3. /\ jobs[n].order = W[n]
          /\ order[W[n]].start # NoTime => jobs[n].start >= order[W[n]].start
          /\ jobs[n].finish = jobs[n].start + order[W[n]].quantity
               + ChangeTime(W[n], IF n = 1 THEN NoMold ELSE order[jobs[n - 1].order].mold)
          /\ jobs[n].finish >= jobs[n].start
          /\ \A i \in 1 .. n - 1 : jobs[i].finish <= jobs[n].start
      BY <3>1 DEF Scheduled
    <3> QED
      BY <3>1, <3>2, <3>3
  <2> QED
    BY <2>1, <2>2
<1> QED
  BY <1>1, <1>3, <1>4, <1>5, <1>10 DEF Scheduled

\* The timeline of a machine.
LEMMA TimelineIs ==
  ASSUME ForecastTyped, NEW m
  PROVE  Scheduled(Timeline(m), Cardinality(WaitingFor(m)), Waiting(m))
<1>1. PICK N, W : N = Cardinality(WaitingFor(m)) /\ W = Waiting(m)
  OBVIOUS
<1>2. N \in Nat /\ W \in [1 .. N -> Queue]
  BY <1>1, WaitingLists DEF Lists, WaitingFor
<1>3. PICK h : /\ h[0] = <<>> /\ \A k \in 0 .. N : h[k] \in Seq(Job)
               /\ \A k \in 1 .. N : h[k] = Book(h[k - 1], W[k])
               /\ Timeline(m) = h[N]
  BY <1>1, TimelineUnfolds
<1> DEFINE G == {k \in Nat : k <= N => Scheduled(h[k], k, W)}
<1>4. 0 \in G
  BY <1>3 DEF Scheduled
<1>5. ASSUME NEW k \in G PROVE k + 1 \in G
  <2> SUFFICES ASSUME k + 1 <= N PROVE Scheduled(h[k + 1], k + 1, W)
    OBVIOUS
  <2>1. k \in Nat /\ k + 1 \in 1 .. N /\ (k + 1) - 1 = k /\ Scheduled(h[k], k, W)
    BY <1>2
  <2>2. h[k + 1] = Book(h[k], W[k + 1])
    BY <1>3, <2>1
  <2>3. W[k + 1] \in Queue
    BY <1>2, <2>1
  <2> QED
    BY <2>1, <2>2, <2>3, BookedNext
<1>6. G = Nat
  <2>1. G \in SUBSET Nat
    OBVIOUS
  <2> HIDE DEF G
  <2> QED
    BY <1>4, <1>5, <2>1, SetInduction
<1> QED
  BY <1>1, <1>2, <1>3, <1>6

LEMMA NoneDoubleBooked ==
  ASSUME ForecastTyped
  PROVE  NeverDoubleBooked
<1> SUFFICES ASSUME NEW m \in Machines
             PROVE  LET jobs == Timeline(m) IN
                    /\ {jobs[n].order : n \in DOMAIN jobs} = {o \in Queue : order[o].machine = m}
                    /\ \A n \in DOMAIN jobs :
                         LET o == jobs[n].order IN
                         /\ order[o].start # NoTime => jobs[n].start >= order[o].start
                         /\ LET before == IF n = 1 THEN NoMold ELSE order[jobs[n - 1].order].mold
                                other == before # NoMold /\ order[o].mold # before
                            IN jobs[n].finish = jobs[n].start + order[o].quantity
                                                + IF other THEN MoldChange ELSE 0
                         /\ \A k \in 1 .. n - 1 :
                              /\ jobs[k].order # o
                              /\ jobs[k].finish <= jobs[n].start
  BY DEF NeverDoubleBooked
<1>1. PICK N, W, jobs : N = Cardinality(WaitingFor(m)) /\ W = Waiting(m) /\ jobs = Timeline(m)
  OBVIOUS
<1>2. Scheduled(jobs, N, W)
  BY <1>1, TimelineIs
<1>3. /\ N \in Nat /\ W \in [1 .. N -> WaitingFor(m)]
      /\ \A x \in WaitingFor(m) : \E n \in 1 .. N : W[n] = x
      /\ \A k, n \in 1 .. N : k < n => W[k] # W[n]
  BY <1>1, WaitingLists DEF Lists
<1>4. DOMAIN jobs = 1 .. N /\ \A n \in 1 .. N : jobs[n].order = W[n]
  BY <1>2 DEF Scheduled
<1>5. {jobs[n].order : n \in DOMAIN jobs} = WaitingFor(m)
  BY <1>3, <1>4
<1>6. ASSUME NEW n \in DOMAIN jobs, NEW o, o = jobs[n].order
      PROVE  /\ order[o].start # NoTime => jobs[n].start >= order[o].start
             /\ jobs[n].finish = jobs[n].start + order[o].quantity
                  + ChangeTime(o, IF n = 1 THEN NoMold ELSE order[jobs[n - 1].order].mold)
             /\ \A k \in 1 .. n - 1 : jobs[k].order # o /\ jobs[k].finish <= jobs[n].start
  <2>1. n \in 1 .. N /\ o = W[n]
    BY <1>4, <1>6
  <2>2. \A k \in 1 .. n - 1 : k \in 1 .. N /\ k < n
    BY <1>3, <2>1
  <2>3. \A k \in 1 .. n - 1 : jobs[k].order # o
    BY <1>3, <1>4, <2>1, <2>2
  <2> QED
    BY <1>2, <2>1, <2>3 DEF Scheduled
<1> QED
  BY <1>1, <1>5, <1>6 DEF WaitingFor, ChangeTime

\* For any orders and any requests: a machine does every queued order once and one at
\* a time, none before it was asked for, and its molds are changed when they differ
\* (calculate_schedule).
THEOREM ScheduleHolds ==
  HistorySpec => []NeverDoubleBooked
<1>1. HistoryInit => ForecastInv
  BY ForecastBegin
<1>2. ForecastInv /\ [HistoryNext]_<<forecastVars, figuresVars, history>> => ForecastInv'
  BY ForecastKept
<1>3. ForecastInv => NeverDoubleBooked
  BY NoneDoubleBooked DEF ForecastInv
<1> QED
  BY <1>1, <1>2, <1>3, PTL DEF HistorySpec

-----------------------------------------------------------------------------
(* Forecast: the simulation.                                               *)

\* When a queued order starts is a number.
LEMMA StartsAreNumbers ==
  ASSUME ForecastTyped, NEW o \in Queue
  PROVE  StartOf(o) \in Int
<1>1. PICK m, N, W, jobs : /\ m = order[o].machine /\ N = Cardinality(WaitingFor(m))
                           /\ W = Waiting(m) /\ jobs = Timeline(m)
  OBVIOUS
<1>2. Scheduled(jobs, N, W)
  BY <1>1, TimelineIs
<1>3. N \in Nat /\ \A x \in WaitingFor(m) : \E n \in 1 .. N : W[n] = x
  BY <1>1, WaitingLists DEF Lists
<1>4. /\ jobs \in Seq(Job) /\ DOMAIN jobs = 1 .. N
      /\ \A n \in 1 .. N : jobs[n].order = W[n]
  BY <1>2, <1>3 DEF Scheduled
<1>5. o \in WaitingFor(m)
  BY <1>1 DEF WaitingFor
<1>6. \E n \in DOMAIN jobs : jobs[n].order = o
  BY <1>3, <1>4, <1>5
<1>7. PICK n : n = (CHOOSE k \in DOMAIN jobs : jobs[k].order = o)
  OBVIOUS
<1>8. n \in DOMAIN jobs
  BY <1>6, <1>7
<1>9. jobs[n] \in Job
  <2>1. jobs \in Seq(Job) /\ Len(jobs) = N
    BY <1>2 DEF Scheduled
  <2>2. \A k \in 1 .. N : jobs[k] \in Job
    BY <2>1
  <2>3. n \in 1 .. N
    BY <1>4, <1>8
  <2> QED
    BY <2>2, <2>3
<1>10. StartOf(o) = jobs[n].start
  BY <1>1, <1>7 DEF StartOf
<1> QED
  BY <1>9, <1>10 DEF Job

LEMMA StartOrderLists ==
  ASSUME ForecastTyped
  PROVE  Lists(StartOrder, Queue)
<1>1. PICK start : start = [o \in Queue |-> StartOf(o)]
  OBVIOUS
<1>2. PICK R : R = {p \in Queue \X Queue : StartsBefore(start, p[1], p[2])}
  OBVIOUS
<1>3. \A x, y \in Queue : <<x, y>> \in R <=> StartsBefore(start, x, y)
  BY <1>2
<1>4. \A o \in Queue : start[o] \in Int /\ order[o].machine \in Nat
  BY <1>1, StartsAreNumbers, QueueRows, KeysAssumption DEF IsRow
<1>5. ASSUME NEW o \in Queue, NEW p \in Queue, o # p
      PROVE  StartsBefore(start, o, p) \/ StartsBefore(start, p, o)
  BY <1>4, <1>5, BeforeIsLinear DEF StartsBefore
<1>6. ASSUME NEW o \in Queue, NEW p \in Queue, NEW q \in Queue,
             StartsBefore(start, o, p), StartsBefore(start, p, q)
      PROVE  StartsBefore(start, o, q)
  <2>1. PICK a, b, c \in Int : a = start[o] /\ b = start[p] /\ c = start[q]
    BY <1>4
  <2>2. PICK i, j, k \in Nat : i = order[o].machine /\ j = order[p].machine /\ k = order[q].machine
    BY <1>4
  <2>3. ComesBefore(o, p) /\ ComesBefore(p, q) => ComesBefore(o, q)
    BY BeforeIsLinear
  <2> QED
    BY <1>6, <2>1, <2>2, <2>3 DEF StartsBefore
<1>7. ASSUME NEW o \in Queue PROVE ~StartsBefore(start, o, o)
  BY <1>4, BeforeIsLinear DEF StartsBefore
<1>8. Linear(R, Queue) /\ \A x \in Queue : <<x, x>> \notin R
  BY <1>3, <1>5, <1>6, <1>7 DEF Linear
<1>9. StartOrder = Sorted(Queue, R)
  BY <1>1, <1>2 DEF StartOrder
<1> QED
  BY <1>8, <1>9, QueueRows, SortedLists

Verdict == [order : Orders, status : {"OK", "WARNING", "INSUFFICIENT"}]
Simulation == [pool : [Items -> Int], checks : Seq(Verdict)]

\* The queued orders that take something.
Bottled == {o \in Queue : order[o].bottle # NoBottle}

\* What a queued order takes is all it needs.
LEMMA NeedIs ==
  ASSUME ForecastTyped, Unbegun, NEW o \in Bottled, NEW i
  PROVE  /\ order[o].bottle \in Bottles /\ Remaining(order[o], produced[o]) # 0
         /\ Need(o, i) = Needs(order[o].bottle, order[o].quantity, i) /\ Need(o, i) \in Int
         /\ i \notin Drawn(order[o].bottle) => Need(o, i) = 0
<1>1. /\ o \in Orders /\ IsRow(order[o]) /\ order[o].bottle \in Bottles
      /\ order[o].status = "QUEUED"
  BY QueueRows DEF Bottled, IsRow, Queue
<1>2. produced[o] = 0
  BY <1>1 DEF Unbegun
<1>3. PICK n \in Nat \ {0} : n = order[o].quantity
  BY <1>1 DEF IsRow
<1>4. Remaining(order[o], produced[o]) = n
  BY <1>2, <1>3, RemainingIs
<1>5. /\ Needs(order[o].bottle, n, i) \in Int
      /\ i \notin Drawn(order[o].bottle) => Needs(order[o].bottle, n, i) = 0
  BY <1>1, <1>3, NeedsAre
<1> QED
  BY <1>1, <1>3, <1>4, <1>5 DEF Need

\* An order without a recipe is passed over; another one is checked.
LEMMA Checked ==
  ASSUME ForecastTyped, Unbegun, NEW acc \in Simulation, NEW o \in Queue
  PROVE  /\ Check(acc, o) \in Simulation
         /\ o \notin Bottled => Check(acc, o) = acc
         /\ o \in Bottled =>
              \E v \in Verdict :
                /\ Check(acc, o).checks = Append(acc.checks, v) /\ v.order = o
                /\ Check(acc, o).pool = Take(acc.pool, o)
                /\ v.status = "INSUFFICIENT" <=> ~Enough(acc.pool, o)
<1>1. o \notin Bottled => Check(acc, o) = acc
  BY DEF Check, Bottled
<1>2. ASSUME o \in Bottled
      PROVE  /\ Check(acc, o) \in Simulation
             /\ \E v \in Verdict :
                  /\ Check(acc, o).checks = Append(acc.checks, v) /\ v.order = o
                  /\ Check(acc, o).pool = Take(acc.pool, o)
                  /\ v.status = "INSUFFICIENT" <=> ~Enough(acc.pool, o)
  <2>1. PICK left, status :
          /\ left = Take(acc.pool, o)
          /\ status = IF ~Enough(acc.pool, o) THEN "INSUFFICIENT"
                      ELSE IF \E i \in Drawn(order[o].bottle) : left[i] <= Threshold[i]
                      THEN "WARNING" ELSE "OK"
    OBVIOUS
  <2>2. PICK v : v = [order |-> o, status |-> status]
    OBVIOUS
  <2>3. /\ order[o].bottle # NoBottle /\ Remaining(order[o], produced[o]) # 0
        /\ o \in Orders
    BY <1>2, NeedIs, QueueRows DEF Bottled
  <2>4. Check(acc, o) = [pool |-> left, checks |-> Append(acc.checks, v)]
    BY <2>1, <2>2, <2>3 DEF Check
  <2>5. v \in Verdict /\ v.order = o /\ v.status = status
    BY <2>1, <2>2, <2>3 DEF Verdict
  <2>6. status = "INSUFFICIENT" <=> ~Enough(acc.pool, o)
    BY <2>1
  <2>7. acc.checks \in Seq(Verdict) /\ acc.pool \in [Items -> Int]
    BY DEF Simulation
  <2>8. left \in [Items -> Int]
    <3>1. ASSUME NEW i \in Items PROVE acc.pool[i] - Need(o, i) \in Int
      BY <1>2, <2>7, NeedIs
    <3> QED
      BY <2>1, <2>7, <3>1 DEF Take
  <2>9. Append(acc.checks, v) \in Seq(Verdict)
    BY <2>5, <2>7
  <2>10. Check(acc, o) \in Simulation
    BY <2>4, <2>8, <2>9 DEF Simulation
  <2> QED
    BY <2>1, <2>4, <2>5, <2>6, <2>10
<1> QED
  BY <1>1, <1>2

\* The simulation checks one order after another.
LEMMA SimulationUnfolds ==
  ASSUME ForecastTyped, Unbegun, NEW N, N = Cardinality(Queue), NEW base,
         base = [pool |-> quantity, checks |-> <<>>]
  PROVE  \E h : /\ h[0] = base /\ \A k \in 0 .. N : h[k] \in Simulation
                /\ \A k \in 1 .. N : h[k] = Check(h[k - 1], StartOrder[k])
                /\ Simulate = h[N].checks
<1>1. PICK W : W = StartOrder
  OBVIOUS
<1>2. N \in Nat /\ W \in [1 .. N -> Queue]
  BY <1>1, StartOrderLists DEF Lists
<1>3. PICK F : F = [p \in Simulation \X (1 .. N) |-> Check(p[1], W[p[2]])]
  OBVIOUS
<1>4. F \in [Simulation \X (1 .. N) -> Simulation]
  <2>1. ASSUME NEW p \in Simulation \X (1 .. N) PROVE Check(p[1], W[p[2]]) \in Simulation
    <3>1. p[1] \in Simulation /\ W[p[2]] \in Queue
      BY <1>2
    <3> QED
      BY <3>1, Checked
  <2> QED
    BY <1>3, <2>1
<1>5. base \in Simulation
  <2>1. quantity \in [Items -> Int] /\ <<>> \in Seq(Verdict)
    BY DEF ForecastTyped
  <2> QED
    BY <2>1 DEF Simulation
<1>6. PICK e : \A s \in SUBSET (1 .. N) : Unfolds(e, F, base, s)
  BY <1>2, FoldsExist
<1>7. \A s \in SUBSET (1 .. N) : e[s] \in Simulation
  BY <1>2, <1>4, <1>5, <1>6, FoldsStay
<1>8. PICK g : g = [s \in SUBSET (1 .. N) |-> e[s]]
  OBVIOUS
<1>9. ASSUME NEW s \in SUBSET (1 .. N)
      PROVE  g[s] = IF s = {} THEN base ELSE Check(g[s \ {Max(s)}], W[Max(s)])
  <2>1. CASE s = {}
    BY <1>6, <1>8, <2>1 DEF Unfolds
  <2>2. CASE s # {}
    <3>1. PICK x, t : x = Max(s) /\ t = s \ {x}
      OBVIOUS
    <3>2. x \in 1 .. N /\ t \in SUBSET (1 .. N)
      BY <1>2, <2>2, <3>1, MaxIs
    <3>3. g[s] = F[<<e[t], x>>] /\ g[t] = e[t]
      BY <1>6, <1>8, <2>2, <3>1, <3>2 DEF Unfolds
    <3>4. F[<<e[t], x>>] = Check(e[t], W[x])
      BY <1>3, <1>7, <3>2
    <3> QED
      BY <2>2, <3>1, <3>3, <3>4
  <2> QED
    BY <2>1, <2>2
<1>10. g = [s \in SUBSET (1 .. N) |->
              IF s = {} THEN base ELSE Check(g[s \ {Max(s)}], W[Max(s)])]
  BY <1>8, <1>9
<1>11. PICK f : f = (CHOOSE h : h = [s \in SUBSET (1 .. N) |->
                       IF s = {} THEN base ELSE Check(h[s \ {Max(s)}], W[Max(s)])])
  OBVIOUS
<1>12. f = [s \in SUBSET (1 .. N) |->
              IF s = {} THEN base ELSE Check(f[s \ {Max(s)}], W[Max(s)])]
  BY <1>10, <1>11
<1>13. DOMAIN W = 1 .. N
  BY <1>2
<1>14. Simulate = f[1 .. N].checks
  BY <1>1, <1>11, <1>13 DEF Simulate, FoldLeft, MapThenFoldSet
<1>15. PICK h : h = [k \in 0 .. N |-> f[1 .. k]]
  OBVIOUS
<1>16. h[0] = base /\ h[N] = f[1 .. N]
  <2>1. 1 .. 0 = {} /\ 0 \in 0 .. N /\ N \in 0 .. N
    BY <1>2
  <2>2. f[{}] = base
    BY <1>12
  <2> QED
    BY <1>15, <2>1, <2>2
<1>17. ASSUME NEW k \in 1 .. N
       PROVE  h[k] = Check(h[k - 1], W[k])
  <2>1. k - 1 \in 0 .. N /\ k \in 0 .. N
    BY <1>2
  <2>2. /\ (1 .. k) \in SUBSET (1 .. N) /\ 1 .. k # {}
        /\ Max(1 .. k) = k /\ (1 .. k) \ {Max(1 .. k)} = 1 .. k - 1
    BY <1>2, UpToLess
  <2>3. f[1 .. k] = Check(f[1 .. k - 1], W[k])
    BY <1>12, <2>2
  <2> QED
    BY <1>15, <2>1, <2>3
<1>18. \A k \in 0 .. N : h[k] \in Simulation
  <2> DEFINE G == {k \in Nat : k <= N => h[k] \in Simulation}
  <2>1. 0 \in G
    BY <1>5, <1>16
  <2>2. ASSUME NEW k \in G PROVE k + 1 \in G
    <3> SUFFICES ASSUME k + 1 <= N PROVE h[k + 1] \in Simulation
      OBVIOUS
    <3>1. k + 1 \in 1 .. N /\ (k + 1) - 1 = k /\ h[k] \in Simulation
      BY <1>2
    <3>2. h[k + 1] = Check(h[k], W[k + 1])
      BY <1>17, <3>1
    <3>3. W[k + 1] \in Queue
      BY <1>2, <3>1
    <3> QED
      BY <3>1, <3>2, <3>3, Checked
  <2>3. G = Nat
    <3>1. G \in SUBSET Nat
      OBVIOUS
    <3> HIDE DEF G
    <3> QED
      BY <2>1, <2>2, <3>1, SetInduction
  <2> QED
    BY <1>2, <2>3
<1> QED
  BY <1>1, <1>14, <1>16, <1>17, <1>18

\* What the nth order checked takes, what those before it take that are not refused,
\* and whether it is too much.
TakenBy(checks, n, i) ==
  Needs(order[checks[n].order].bottle, order[checks[n].order].quantity, i)
Accepted(checks, n) == {k \in 1 .. n - 1 : checks[k].status # "INSUFFICIENT"}
TakenBefore(checks, n, i) == SumFunction([k \in Accepted(checks, n) |-> TakenBy(checks, k, i)])
TooMuch(checks, n) ==
  \E i \in Items : TakenBy(checks, n, i) + TakenBefore(checks, n, i) > quantity[i]

AllBottled(checks) == \A n \in 1 .. Len(checks) : checks[n].order \in Bottled

\* What is taken is a number, and one more check adds what it takes.
LEMMA TakenIs ==
  ASSUME ForecastTyped, Unbegun, NEW checks \in Seq(Verdict), AllBottled(checks), NEW i,
         NEW n \in 1 .. Len(checks) + 1
  PROVE  /\ TakenBefore(checks, n, i) \in Int
         /\ IsFiniteSet(Accepted(checks, n))
         /\ \A k \in Accepted(checks, n) : TakenBy(checks, k, i) \in Int
<1>1. PICK L \in Nat : L = Len(checks)
  OBVIOUS
<1>2. ASSUME NEW k \in 1 .. L PROVE TakenBy(checks, k, i) \in Int
  <2>1. checks[k].order \in Bottled
    BY <1>1 DEF AllBottled
  <2> QED
    BY <2>1, NeedIs DEF TakenBy
<1>3. Accepted(checks, n) \subseteq 1 .. L
  BY <1>1 DEF Accepted
<1>4. IsFiniteSet(Accepted(checks, n))
  BY <1>1, <1>3, PositionSizes, FS_Subset
<1>5. PICK f : f = [k \in Accepted(checks, n) |-> TakenBy(checks, k, i)]
  OBVIOUS
<1>6. DOMAIN f = Accepted(checks, n) /\ Counted(f, Accepted(checks, n))
  BY <1>2, <1>3, <1>5 DEF Counted
<1>7. SumFunctionOnSet(f, Accepted(checks, n)) \in Int
  BY <1>4, <1>6, SumType
<1>8. TakenBefore(checks, n, i) = SumFunctionOnSet(f, Accepted(checks, n))
  BY <1>5, <1>6 DEF TakenBefore, SumFunction
<1> QED
  BY <1>2, <1>3, <1>4, <1>7, <1>8

\* More than L checks take: the same, and what verdict v lets its order take.
TakesMore(more, checks, L, v, i) ==
  /\ \A n \in 1 .. L : TakenBy(more, n, i) = TakenBy(checks, n, i)
  /\ TakenBy(more, L + 1, i) = Need(v.order, i)
  /\ \A n \in 1 .. L + 1 : TakenBefore(more, n, i) = TakenBefore(checks, n, i)
  /\ TakenBefore(more, L + 2, i)
       = TakenBefore(checks, L + 1, i)
         + IF v.status = "INSUFFICIENT" THEN 0 ELSE Need(v.order, i)

LEMMA TakenNext ==
  ASSUME ForecastTyped, Unbegun, NEW checks \in Seq(Verdict), AllBottled(checks), NEW i,
         NEW v \in Verdict, v.order \in Bottled, NEW more, more = Append(checks, v),
         NEW L \in Nat, L = Len(checks)
  PROVE  TakesMore(more, checks, L, v, i)
<1>1. /\ more \in Seq(Verdict) /\ Len(more) = L + 1 /\ more[L + 1] = v
      /\ \A n \in 1 .. L : more[n] = checks[n]
  OBVIOUS
<1>2. \A n \in 1 .. L : TakenBy(more, n, i) = TakenBy(checks, n, i)
  BY <1>1 DEF TakenBy
<1>3. TakenBy(more, L + 1, i) = Need(v.order, i)
  BY <1>1, NeedIs DEF TakenBy
<1>4. ASSUME NEW n \in 1 .. L + 1
      PROVE  TakenBefore(more, n, i) = TakenBefore(checks, n, i)
  <2>1. Accepted(more, n) = Accepted(checks, n) /\ Accepted(checks, n) \subseteq 1 .. L
    BY <1>1 DEF Accepted
  <2>2. [k \in Accepted(more, n) |-> TakenBy(more, k, i)]
          = [k \in Accepted(checks, n) |-> TakenBy(checks, k, i)]
    BY <1>2, <2>1
  <2> QED
    BY <2>2 DEF TakenBefore
<1>5. PICK S : S = Accepted(checks, L + 1)
  OBVIOUS
<1>6. Accepted(more, L + 2) = IF v.status = "INSUFFICIENT" THEN S ELSE S \union {L + 1}
  <2>1. S = {k \in 1 .. L : checks[k].status # "INSUFFICIENT"}
    BY <1>5 DEF Accepted
  <2>2. Accepted(more, L + 2) = {k \in 1 .. L + 1 : more[k].status # "INSUFFICIENT"}
    BY DEF Accepted
  <2>3. ASSUME NEW k
        PROVE  k \in Accepted(more, L + 2) <=>
                 \/ k \in S
                 \/ k = L + 1 /\ v.status # "INSUFFICIENT"
    <3>1. k \in 1 .. L + 1 <=> k \in 1 .. L \/ k = L + 1
      OBVIOUS
    <3> QED
      BY <1>1, <2>1, <2>2, <3>1
  <2> QED
    BY <2>3
<1>7. /\ IsFiniteSet(S) /\ \A k \in S : TakenBy(checks, k, i) \in Int
      /\ S \subseteq 1 .. L
  <2>1. L + 1 \in 1 .. Len(checks) + 1
    OBVIOUS
  <2>2. S \subseteq 1 .. L
    BY <1>5 DEF Accepted
  <2> QED
    BY <1>5, <2>1, <2>2, TakenIs
<1>8. PICK f, g : /\ f = [k \in S |-> TakenBy(checks, k, i)]
                  /\ g = [k \in Accepted(more, L + 2) |-> TakenBy(more, k, i)]
  OBVIOUS
<1>9. /\ TakenBefore(checks, L + 1, i) = SumFunctionOnSet(f, S)
      /\ TakenBefore(more, L + 2, i) = SumFunctionOnSet(g, Accepted(more, L + 2))
  BY <1>5, <1>8 DEF TakenBefore, SumFunction
<1>10. Same(f, g, S)
  <2>1. ASSUME NEW k \in S PROVE f[k] = g[k]
    BY <1>2, <1>6, <1>7, <1>8
  <2> QED
    BY <2>1 DEF Same
<1>11. SumFunctionOnSet(f, S) = SumFunctionOnSet(g, S)
  BY <1>7, <1>10, SumSame
<1>12. SumFunctionOnSet(f, S) \in Int
  BY <1>7, <1>8, SumType DEF Counted
<1>13. CASE v.status = "INSUFFICIENT"
  <2>1. TakenBefore(more, L + 2, i) = TakenBefore(checks, L + 1, i) + 0
    BY <1>6, <1>9, <1>11, <1>12, <1>13
  <2> QED
    BY <1>2, <1>3, <1>4, <1>13, <2>1 DEF TakesMore
<1>14. CASE v.status # "INSUFFICIENT"
  <2>1. Accepted(more, L + 2) = S \union {L + 1} /\ L + 1 \notin S
    BY <1>6, <1>7, <1>14
  <2>2. g[L + 1] = Need(v.order, i) /\ Need(v.order, i) \in Int
    BY <1>3, <1>8, <2>1, NeedIs
  <2>3. Counted(g, S \union {L + 1})
    BY <1>7, <1>8, <1>10, <2>2 DEF Counted, Same
  <2>4. SumFunctionOnSet(g, S \union {L + 1}) = g[L + 1] + SumFunctionOnSet(g, S)
    BY <1>7, <2>1, <2>3, SumAdds
  <2>5. PICK a, b \in Int : a = SumFunctionOnSet(f, S) /\ b = Need(v.order, i)
    BY <1>12, <2>2
  <2>6. TakenBefore(checks, L + 1, i) = a /\ TakenBefore(more, L + 2, i) = b + a
    BY <1>9, <1>11, <2>1, <2>2, <2>4, <2>5
  <2>7. TakenBefore(more, L + 2, i) = TakenBefore(checks, L + 1, i) + Need(v.order, i)
    BY <2>5, <2>6
  <2> QED
    BY <1>2, <1>3, <1>4, <1>14, <2>7 DEF TakesMore
<1> QED
  BY <1>13, <1>14

\* The checks of some orders, and what they left of the stock.
Greedy(acc) ==
  /\ acc \in Simulation /\ AllBottled(acc.checks)
  /\ \A n \in 1 .. Len(acc.checks) :
       acc.checks[n].status = "INSUFFICIENT" <=> TooMuch(acc.checks, n)
  /\ \A i \in Items :
       /\ acc.pool[i] >= 0
       /\ acc.pool[i] = quantity[i] - TakenBefore(acc.checks, Len(acc.checks) + 1, i)

\* What is in the pool is enough just when nothing is taken too much of.
LEMMA EnoughIs ==
  ASSUME ForecastTyped, Unbegun, NEW pool \in [Items -> Int], \A i \in Items : pool[i] >= 0,
         NEW o \in Bottled
  PROVE  /\ Enough(pool, o) <=> \A i \in Items : pool[i] >= Need(o, i)
         /\ \A i \in Items : Take(pool, o)[i] =
              pool[i] - IF Enough(pool, o) THEN Need(o, i) ELSE 0
<1>1. Drawn(order[o].bottle) \subseteq Items
  BY NeedIs, ForecastTypes DEF ForecastTypeOK
<1>2. \A i \in Items : /\ pool[i] \in Int /\ Need(o, i) \in Int
                       /\ i \notin Drawn(order[o].bottle) => Need(o, i) = 0
  BY NeedIs
<1>3. \A i \in Items : i \notin Drawn(order[o].bottle) => pool[i] >= Need(o, i)
  BY <1>2
<1>4. Enough(pool, o) <=> \A i \in Items : pool[i] >= Need(o, i)
  BY <1>1, <1>3 DEF Enough
<1>5. ASSUME NEW i \in Items
      PROVE  Take(pool, o)[i] = pool[i] - IF Enough(pool, o) THEN Need(o, i) ELSE 0
  <2>1. CASE Enough(pool, o)
    BY <2>1 DEF Take
  <2>2. CASE ~Enough(pool, o)
    <3>1. Take(pool, o)[i] = pool[i]
      BY <2>2 DEF Take
    <3> QED
      BY <1>2, <2>2, <3>1
  <2> QED
    BY <2>1, <2>2
<1> QED
  BY <1>4, <1>5

LEMMA GreedyNext ==
  ASSUME ForecastTyped, Unbegun, NEW acc, Greedy(acc), NEW o \in Queue
  PROVE  Greedy(Check(acc, o))
<1>1. CASE o \notin Bottled
  <2>1. acc \in Simulation
    BY DEF Greedy
  <2>2. Check(acc, o) = acc
    BY <1>1, <2>1, Checked
  <2> QED
    BY <2>2
<1>2. CASE o \in Bottled
  <2>1. PICK checks, pool, L : checks = acc.checks /\ pool = acc.pool /\ L = Len(checks)
    OBVIOUS
  <2>2. acc \in Simulation /\ AllBottled(checks)
    BY <2>1 DEF Greedy
  <2>3. checks \in Seq(Verdict) /\ pool \in [Items -> Int] /\ L \in Nat
    BY <2>1, <2>2 DEF Simulation
  <2>4. \A n \in 1 .. L : checks[n].status = "INSUFFICIENT" <=> TooMuch(checks, n)
    BY <2>1 DEF Greedy
  <2>5. \A i \in Items : pool[i] >= 0 /\ pool[i] = quantity[i] - TakenBefore(checks, L + 1, i)
    BY <2>1 DEF Greedy
  <2>6. PICK next : next = Check(acc, o)
    OBVIOUS
  <2>7. PICK v \in Verdict :
          /\ next.checks = Append(checks, v) /\ v.order = o
          /\ next.pool = Take(pool, o)
          /\ v.status = "INSUFFICIENT" <=> ~Enough(pool, o)
    BY <1>2, <2>1, <2>2, <2>6, Checked
  <2>8. next \in Simulation
    BY <2>2, <2>6, Checked
  <2>9. PICK more : more = Append(checks, v)
    OBVIOUS
  <2>10. /\ Len(more) = L + 1 /\ more[L + 1] = v /\ \A n \in 1 .. L : more[n] = checks[n]
    BY <2>1, <2>3, <2>9
  <2>11. ASSUME NEW i
         PROVE  /\ \A n \in 1 .. L : TakenBy(more, n, i) = TakenBy(checks, n, i)
                /\ TakenBy(more, L + 1, i) = Need(o, i)
                /\ \A n \in 1 .. L + 1 : TakenBefore(more, n, i) = TakenBefore(checks, n, i)
                /\ TakenBefore(more, L + 2, i)
                     = TakenBefore(checks, L + 1, i)
                       + IF v.status = "INSUFFICIENT" THEN 0 ELSE Need(o, i)
    <3>1. v \in Verdict /\ v.order = o /\ v.order \in Bottled
      BY <1>2, <2>7
    <3>2. TakesMore(more, checks, L, v, i)
      BY <2>1, <2>2, <2>3, <2>9, <3>1, TakenNext
    <3> QED
      BY <3>1, <3>2 DEF TakesMore
  <2>12. \A i \in Items : /\ Need(o, i) \in Int /\ pool[i] \in Int /\ quantity[i] \in Int
                          /\ TakenBefore(checks, L + 1, i) \in Int
    <3>1. L + 1 \in 1 .. Len(checks) + 1
      BY <2>1, <2>3
    <3>2. \A i \in Items : quantity[i] \in Int
      BY DEF ForecastTyped
    <3> QED
      BY <1>2, <2>2, <2>3, <3>1, <3>2, NeedIs, TakenIs
  <2>13. /\ Enough(pool, o) <=> \A i \in Items : pool[i] >= Need(o, i)
         /\ \A i \in Items : Take(pool, o)[i] =
              pool[i] - IF Enough(pool, o) THEN Need(o, i) ELSE 0
    BY <1>2, <2>3, <2>5, EnoughIs
  <2>14. AllBottled(more)
    <3>1. ASSUME NEW n \in 1 .. L + 1 PROVE more[n].order \in Bottled
      BY <1>2, <2>1, <2>2, <2>3, <2>7, <2>10 DEF AllBottled
    <3> QED
      BY <2>10, <3>1 DEF AllBottled
  <2>15. ASSUME NEW n \in 1 .. L
         PROVE  more[n].status = "INSUFFICIENT" <=> TooMuch(more, n)
    <3>1. n \in 1 .. L + 1
      BY <2>3
    <3>2. TooMuch(more, n) <=> TooMuch(checks, n)
      BY <2>11, <3>1 DEF TooMuch
    <3> QED
      BY <2>4, <2>10, <3>2
  <2>16. v.status = "INSUFFICIENT" <=> TooMuch(more, L + 1)
    <3>1. L + 1 \in 1 .. L + 1
      BY <2>3
    <3>2. ASSUME NEW i \in Items
          PROVE  TakenBy(more, L + 1, i) + TakenBefore(more, L + 1, i) > quantity[i]
                   <=> ~(pool[i] >= Need(o, i))
      <4>1. TakenBy(more, L + 1, i) = Need(o, i)
        BY <2>11
      <4>2. TakenBefore(more, L + 1, i) = TakenBefore(checks, L + 1, i)
        BY <2>11, <3>1
      <4> QED
        BY <2>5, <2>12, <4>1, <4>2
    <3> QED
      BY <2>7, <2>13, <3>2 DEF TooMuch
  <2>17. ASSUME NEW i \in Items
         PROVE  /\ next.pool[i] >= 0
                /\ next.pool[i] = quantity[i] - TakenBefore(more, L + 2, i)
    <3>1. next.pool[i] = pool[i] - IF Enough(pool, o) THEN Need(o, i) ELSE 0
      BY <2>7, <2>13
    <3>2. TakenBefore(more, L + 2, i)
            = TakenBefore(checks, L + 1, i) + IF Enough(pool, o) THEN Need(o, i) ELSE 0
      BY <2>7, <2>11
    <3> QED
      BY <2>5, <2>12, <2>13, <3>1, <3>2
  <2>18. \A n \in 1 .. L + 1 : more[n].status = "INSUFFICIENT" <=> TooMuch(more, n)
    <3> SUFFICES ASSUME NEW n \in 1 .. L + 1
                 PROVE  more[n].status = "INSUFFICIENT" <=> TooMuch(more, n)
      OBVIOUS
    <3>1. CASE n = L + 1
      BY <2>10, <2>16, <3>1
    <3>2. CASE n # L + 1
      <4>1. n \in 1 .. L
        BY <2>3, <3>2
      <4> QED
        BY <2>15, <4>1
    <3> QED
      BY <3>1, <3>2
  <2>19. (L + 1) + 1 = L + 2
    BY <2>3
  <2>20. Greedy(next)
    BY <2>7, <2>8, <2>9, <2>10, <2>14, <2>17, <2>18, <2>19 DEF Greedy
  <2> QED
    BY <2>6, <2>20
<1> QED
  BY <1>1, <1>2

\* Every order that takes something is checked once.
LEMMA SimulatedAll ==
  ASSUME ForecastTyped, Unbegun
  PROVE  /\ \E acc : Greedy(acc) /\ acc.checks = Simulate
         /\ IsFiniteSet(Bottled) /\ Cardinality(Bottled) = Len(Simulate)
<1>1. PICK N, W, base : /\ N = Cardinality(Queue) /\ W = StartOrder
                        /\ base = [pool |-> quantity, checks |-> <<>>]
  OBVIOUS
<1>2. /\ N \in Nat /\ W \in [1 .. N -> Queue]
      /\ \A x \in Queue : \E n \in 1 .. N : W[n] = x
      /\ \A k, n \in 1 .. N : k < n => W[k] # W[n]
  BY <1>1, StartOrderLists DEF Lists
<1>3. PICK h : /\ h[0] = base /\ \A k \in 0 .. N : h[k] \in Simulation
               /\ \A k \in 1 .. N : h[k] = Check(h[k - 1], W[k])
               /\ Simulate = h[N].checks
  BY <1>1, SimulationUnfolds
<1>4. Greedy(base)
  <2>1. base \in Simulation
    BY <1>2, <1>3
  <2>2. base.checks = <<>> /\ base.pool = quantity /\ Len(base.checks) = 0
    BY <1>1
  <2>3. ASSUME NEW i \in Items PROVE TakenBefore(base.checks, 0 + 1, i) = 0
    <3>1. Accepted(base.checks, 0 + 1) = {}
      BY DEF Accepted
    <3> QED
      BY <3>1, SumEmpty DEF TakenBefore, SumFunction
  <2>4. \A i \in Items : quantity[i] >= 0 /\ quantity[i] \in Int
    BY DEF ForecastTyped
  <2> QED
    BY <2>1, <2>2, <2>3, <2>4 DEF Greedy, AllBottled
<1> DEFINE Done(k) == {W[n] : n \in 1 .. k} \cap Bottled
           G == {k \in Nat : k <= N =>
                   /\ Greedy(h[k])
                   /\ IsFiniteSet(Done(k)) /\ Cardinality(Done(k)) = Len(h[k].checks)}
<1>5. 0 \in G
  <2>1. Done(0) = {}
    OBVIOUS
  <2>2. Len(base.checks) = 0
    BY <1>1
  <2> QED
    BY <1>3, <1>4, <2>1, <2>2, FS_EmptySet
<1>6. ASSUME NEW k \in G PROVE k + 1 \in G
  <2> SUFFICES ASSUME k + 1 <= N
               PROVE  /\ Greedy(h[k + 1]) /\ IsFiniteSet(Done(k + 1))
                      /\ Cardinality(Done(k + 1)) = Len(h[k + 1].checks)
    OBVIOUS
  <2>1. k \in Nat /\ k + 1 \in 1 .. N /\ (k + 1) - 1 = k /\ k \in 0 .. N
    BY <1>2
  <2>2. Greedy(h[k]) /\ IsFiniteSet(Done(k)) /\ Cardinality(Done(k)) = Len(h[k].checks)
    BY <1>2, <2>1
  <2>3. W[k + 1] \in Queue /\ h[k] \in Simulation
    BY <1>2, <1>3, <2>1
  <2>4. h[k + 1] = Check(h[k], W[k + 1])
    BY <1>3, <2>1
  <2>5. {W[n] : n \in 1 .. k + 1} = {W[n] : n \in 1 .. k} \union {W[k + 1]}
    <3>1. \A n : n \in 1 .. k + 1 <=> n \in 1 .. k \/ n = k + 1
      BY <2>1
    <3> QED
      BY <3>1
  <2>6. W[k + 1] \notin {W[n] : n \in 1 .. k}
    <3> SUFFICES ASSUME NEW n \in 1 .. k PROVE W[n] # W[k + 1]
      OBVIOUS
    <3>1. n \in 1 .. N /\ n < k + 1
      BY <1>2, <2>1
    <3> QED
      BY <1>2, <2>1, <3>1
  <2>7. CASE W[k + 1] \notin Bottled
    <3>1. Done(k + 1) = Done(k)
      BY <2>5, <2>7
    <3>2. h[k + 1] = h[k]
      BY <2>3, <2>4, <2>7, Checked
    <3> QED
      BY <2>2, <3>1, <3>2
  <2>8. CASE W[k + 1] \in Bottled
    <3>1. Done(k + 1) = Done(k) \union {W[k + 1]} /\ W[k + 1] \notin Done(k)
      BY <2>5, <2>6, <2>8
    <3>2. IsFiniteSet(Done(k + 1)) /\ Cardinality(Done(k + 1)) = Cardinality(Done(k)) + 1
      <4>1. PICK d, e, x : d = Done(k) /\ e = Done(k + 1) /\ x = W[k + 1]
        OBVIOUS
      <4>2. IsFiniteSet(d) /\ x \notin d /\ e = d \union {x}
        BY <2>2, <3>1, <4>1
      <4>3. IsFiniteSet(e) /\ Cardinality(e) = Cardinality(d) + 1
        BY <4>2, FS_AddElement
      <4> QED
        BY <4>1, <4>3
    <3>3. \E v : h[k + 1].checks = Append(h[k].checks, v)
      <4>1. PICK acc, o : acc = h[k] /\ o = W[k + 1]
        OBVIOUS
      <4>2. acc \in Simulation /\ o \in Queue /\ o \in Bottled
        BY <2>3, <2>8, <4>1
      <4>3. \E v \in Verdict :
              /\ Check(acc, o).checks = Append(acc.checks, v) /\ v.order = o
              /\ Check(acc, o).pool = Take(acc.pool, o)
              /\ v.status = "INSUFFICIENT" <=> ~Enough(acc.pool, o)
        BY <4>2, Checked
      <4> QED
        BY <2>4, <4>1, <4>3
    <3>4. Len(h[k + 1].checks) = Len(h[k].checks) + 1
      <4>1. h[k].checks \in Seq(Verdict)
        BY <2>3 DEF Simulation
      <4> QED
        BY <3>3, <4>1
    <3>5. Greedy(h[k + 1])
      BY <2>2, <2>3, <2>4, GreedyNext
    <3> QED
      BY <2>2, <3>2, <3>4, <3>5
  <2> QED
    BY <2>7, <2>8
<1>7. G = Nat
  <2>1. G \in SUBSET Nat
    OBVIOUS
  <2> HIDE DEF G
  <2> QED
    BY <1>5, <1>6, <2>1, SetInduction
<1>8. Greedy(h[N]) /\ IsFiniteSet(Done(N)) /\ Cardinality(Done(N)) = Len(h[N].checks)
  <2>1. N \in G
    <3> HIDE DEF G
    <3> QED
      BY <1>2, <1>7
  <2>2. N \in Nat /\ N <= N
    BY <1>2
  <2> QED
    BY <2>1, <2>2
<1>9. Done(N) = Bottled
  BY <1>2 DEF Bottled
<1> QED
  BY <1>3, <1>8, <1>9

LEMMA SimulatedGreedily ==
  ASSUME ForecastTyped, Unbegun
  PROVE  SimulationIsGreedy
<1>1. PICK acc : Greedy(acc) /\ acc.checks = Simulate
  BY SimulatedAll
<1>2. PICK checks : checks = Simulate
  OBVIOUS
<1>3. DOMAIN checks = 1 .. Len(checks)
  BY <1>1, <1>2 DEF Greedy, Simulation
<1>4. \A n \in DOMAIN checks : checks[n].status = "INSUFFICIENT" <=> TooMuch(checks, n)
  BY <1>1, <1>2, <1>3 DEF Greedy
<1> QED
  BY <1>2, <1>4 DEF SimulationIsGreedy, TooMuch, TakenBefore, TakenBy, Accepted

\* For any stock, recipes and orders: the simulation refuses just the orders that do not
\* fit with those before them that it did not refuse, and a refused one takes nothing
\* (simulate_stock_sequence).
THEOREM SimulationHolds ==
  HistorySpec => []SimulationIsGreedy
<1>1. HistoryInit => ForecastInv
  BY ForecastBegin
<1>2. ForecastInv /\ [HistoryNext]_<<forecastVars, figuresVars, history>> => ForecastInv'
  BY ForecastKept
<1>3. ForecastInv => SimulationIsGreedy
  BY SimulatedGreedily DEF ForecastInv
<1> QED
  BY <1>1, <1>2, <1>3, PTL DEF HistorySpec

-----------------------------------------------------------------------------
(* Forecast: the overview.                                                 *)

\* What was made of the live orders.
LEMMA MadeOfPlanned ==
  ASSUME ForecastTyped
  PROVE  Actual \in 0 .. Planned
<1>1. Active \subseteq {o \in Orders : order[o] # NoOrder} /\ IsFiniteSet(Active)
  <2>1. Active \subseteq {o \in Orders : order[o] # NoOrder}
    BY DEF Active, NoOrder, Live
  <2> QED
    BY <2>1, FS_Subset DEF ForecastTyped
<1>2. PICK f, g : /\ f = [o \in Active |-> order[o].quantity]
                  /\ g = [o \in Active |-> Remaining(order[o], produced[o])]
  OBVIOUS
<1>3. ASSUME NEW o \in Active
      PROVE  f[o] \in Nat /\ g[o] \in Nat /\ g[o] <= f[o]
  <2>1. o \in Orders /\ order[o].status \in Live \union {"DONE"}
    BY DEF Active
  <2>2. IsRow(order[o])
    BY <2>1, StatusOfRow
  <2>3. order[o].quantity \in Nat /\ produced[o] \in Nat
    BY <2>1, <2>2 DEF IsRow, ForecastTyped
  <2>4. /\ Remaining(order[o], produced[o]) \in Nat
        /\ Remaining(order[o], produced[o]) <= order[o].quantity
    BY <2>3, RemainingIs
  <2> QED
    BY <1>2, <2>3, <2>4
<1>4. Counted(f, Active) /\ Counted(g, Active)
  BY <1>3 DEF Counted
<1>5. PICK a, b : a = SumFunctionOnSet(f, Active) /\ b = SumFunctionOnSet(g, Active)
  OBVIOUS
<1>6. a \in Nat /\ b \in Nat
  BY <1>1, <1>3, <1>5, SumIsNatural
<1>7. b <= a
  BY <1>1, <1>3, <1>4, <1>5, SumLess
<1>8. Planned = a /\ Actual = a - b
  <2>1. DOMAIN f = Active /\ DOMAIN g = Active
    BY <1>2
  <2>2. SumFunction(f) = a /\ SumFunction(g) = b
    BY <1>5, <2>1 DEF SumFunction
  <2> QED
    BY <1>2, <2>2 DEF Planned, Actual
<1> QED
  BY <1>6, <1>7, <1>8

\* Every check has one of three results.
LEMMA StatusesAddUp ==
  ASSUME NEW checks \in Seq(Verdict)
  PROVE  StatusCount(checks, "OK") + StatusCount(checks, "WARNING")
           + StatusCount(checks, "INSUFFICIENT") = Len(checks)
<1>1. PICK L \in Nat : L = Len(checks)
  OBVIOUS
<1>2. PICK A, B, C : /\ A = {n \in DOMAIN checks : checks[n].status = "OK"}
                     /\ B = {n \in DOMAIN checks : checks[n].status = "WARNING"}
                     /\ C = {n \in DOMAIN checks : checks[n].status = "INSUFFICIENT"}
  OBVIOUS
<1>3. DOMAIN checks = 1 .. L
  BY <1>1
<1>4. \A n \in 1 .. L : checks[n].status \in {"OK", "WARNING", "INSUFFICIENT"}
  <2>1. \A n \in 1 .. L : checks[n] \in Verdict
    BY <1>1
  <2> QED
    BY <2>1 DEF Verdict
<1>5. /\ A \subseteq 1 .. L /\ B \subseteq 1 .. L /\ C \subseteq 1 .. L
      /\ (A \union B) \union C = 1 .. L
      /\ A \cap B = {} /\ (A \union B) \cap C = {}
  BY <1>2, <1>3, <1>4
<1>6. IsFiniteSet(A) /\ IsFiniteSet(B) /\ IsFiniteSet(C)
  <2>1. IsFiniteSet(1 .. L)
    BY <1>1, PositionSizes
  <2> QED
    BY <1>5, <2>1, FS_Subset
<1>7. IsFiniteSet(A \union B) /\ Cardinality(A \union B) = Cardinality(A) + Cardinality(B) - 0
  BY <1>5, <1>6, FS_Union, FS_EmptySet
<1>8. Cardinality((A \union B) \union C) = Cardinality(A \union B) + Cardinality(C) - 0
  <2>1. PICK D : D = A \union B
    OBVIOUS
  <2>2. IsFiniteSet(D) /\ D \cap C = {}
    BY <1>5, <1>7, <2>1
  <2>3. Cardinality(D \union C) = Cardinality(D) + Cardinality(C) - Cardinality(D \cap C)
    BY <1>6, <2>2, FS_Union
  <2> QED
    BY <2>1, <2>2, <2>3, FS_EmptySet
<1>9. Cardinality(1 .. L) = L
  <2>1. 1 \in Int /\ L \in Int
    OBVIOUS
  <2>2. Cardinality(1 .. L) = IF 1 > L THEN 0 ELSE L - 1 + 1
    BY <2>1, FS_Interval
  <2> QED
    BY <2>2
<1>10. Cardinality(A) \in Nat /\ Cardinality(B) \in Nat /\ Cardinality(C) \in Nat
  BY <1>6, FS_CardinalityType
<1>11. Cardinality(A) + Cardinality(B) + Cardinality(C) = L
  <2>1. L = Cardinality(A \union B) + Cardinality(C) - 0
    BY <1>5, <1>8, <1>9
  <2>2. PICK a, b, c \in Nat : a = Cardinality(A) /\ b = Cardinality(B) /\ c = Cardinality(C)
    BY <1>10
  <2>3. L = (a + b - 0) + c - 0
    BY <1>7, <2>1, <2>2
  <2> QED
    BY <2>2, <2>3
<1> QED
  BY <1>1, <1>2, <1>11 DEF StatusCount

LEMMA Overview ==
  ASSUME ForecastTyped, Unbegun
  PROVE  OverviewAddsUp
<1>1. PICK checks : checks = Simulate
  OBVIOUS
<1>2. checks \in Seq(Verdict)
  BY <1>1, SimulatedAll DEF Greedy, Simulation
<1>3. StatusCount(checks, "OK") + StatusCount(checks, "WARNING")
        + StatusCount(checks, "INSUFFICIENT") = Cardinality(Bottled)
  BY <1>1, <1>2, SimulatedAll, StatusesAddUp
<1> QED
  BY <1>1, <1>3, MadeOfPlanned DEF OverviewAddsUp, Bottled

\* For any orders, entries and requests: the shifts and the machines add up to the day,
\* every queued order with a recipe is counted under one status, and what was made of
\* the live orders is between nothing and what was planned (shift_summary,
\* daily_summary, MaterialsOverviewView).
THEOREM TotalsHold ==
  HistorySpec => []TotalsAddUp
<1>1. HistoryInit => ForecastInv /\ FiguresInv
  BY ForecastBegin, FiguresBegin
<1>2. ForecastInv /\ FiguresInv /\ [HistoryNext]_<<forecastVars, figuresVars, history>>
        => (ForecastInv /\ FiguresInv)'
  BY ForecastKept, FiguresKept
<1>3. ForecastInv /\ FiguresInv => TotalsAddUp
  BY DayAddsUp, Overview DEF ForecastInv, FiguresInv, TotalsAddUp
<1> QED
  BY <1>1, <1>2, <1>3, PTL DEF HistorySpec

=============================================================================
