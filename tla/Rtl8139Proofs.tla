---------------------------- MODULE Rtl8139Proofs ----------------------------
(***************************************************************************)
(* Proofs about Rtl8139 for every size of ring, of margins and of counters,*)
(* every number of descriptors and all lengths of frames.  Positions in    *)
(* the ring are compared by their distance from the read position, which   *)
(* turns arithmetic modulo RING into linear arithmetic.                    *)
(***************************************************************************)
EXTENDS Rtl8139, FiniteSetTheorems, TLAPS

USE DEF ROK, TOK, IMR

-----------------------------------------------------------------------------
(* Remainders                                                               *)

LEMMA Remainder ==
  ASSUME NEW n \in Nat \ {0}, NEW q \in Int, NEW r \in 0 .. n - 1,
         NEW a, a = n * q + r
  PROVE  a % n = r
  OBVIOUS

LEMMA RemainderType ==
  ASSUME NEW n \in Nat \ {0}, NEW a \in Int
  PROVE  a % n \in 0 .. n - 1 /\ a = n * (a \div n) + (a % n) /\ a \div n \in Int
  OBVIOUS

\* Within two rounds a remainder is a subtraction.
LEMMA Once ==
  ASSUME NEW n \in Nat \ {0}, NEW a, a \in Int, 0 <= a + n, a < 2 * n
  PROVE  a % n = IF a < 0 THEN a + n ELSE IF a < n THEN a ELSE a - n
  <1>1. CASE a < 0
    <2>1. a = n * (-1) + (a + n) /\ a + n \in 0 .. n - 1
      BY <1>1
    <2> QED
      BY <1>1, <2>1, Remainder
  <1>2. CASE 0 <= a /\ a < n
    <2>1. a = n * 0 + a /\ a \in 0 .. n - 1
      BY <1>2
    <2> QED
      BY <1>2, <2>1, Remainder
  <1>3. CASE n <= a
    <2>1. a = n * 1 + (a - n) /\ a - n \in 0 .. n - 1
      BY <1>3
    <2> QED
      BY <1>3, <2>1, Remainder
  <1> QED
    BY <1>1, <1>2, <1>3

\* Remainders may be taken on the way.
LEMMA RemainderSum ==
  ASSUME NEW n, n \in Nat \ {0}, NEW a, a \in Int, NEW b, b \in Int
  PROVE  ((a % n) + b) % n = (a + b) % n
  <1> DEFINE q == a \div n
             r == a % n
             s == r + b
             u == s \div n
             v == s % n
  <1>1. q \in Int /\ r \in Int /\ a = n * q + r
    BY RemainderType
  <1> HIDE DEF q, r
  <1>2. s \in Int
    BY <1>1
  <1>3. u \in Int /\ v \in 0 .. n - 1 /\ s = n * u + v
    <2> HIDE DEF s
    <2> QED
      BY <1>2, RemainderType
  <1> HIDE DEF u, v
  <1>4. a + b = n * (q + u) + v
    <2>1. a + b = n * q + (n * u + v)
      BY <1>1, <1>3
    <2>2. n * (q + u) = n * q + n * u
      BY <1>1, <1>3
    <2> QED
      BY <1>1, <1>3, <2>1, <2>2
  <1>5. (a + b) % n = v
    <2> DEFINE w == a + b
               x == q + u
    <2>1. x \in Int /\ w = n * x + v
      BY <1>1, <1>3, <1>4
    <2> HIDE DEF w, x
    <2>2. w % n = v
      BY <1>3, <2>1, Remainder
    <2> QED
      BY <2>2 DEF w
  <1> QED
    BY <1>5 DEF v, r

\* And in what is subtracted.
LEMMA RemainderMinus ==
  ASSUME NEW n, n \in Nat \ {0}, NEW a, a \in Int, NEW b, b \in Int
  PROVE  (b - (a % n)) % n = (b - a) % n
  <1> DEFINE q == a \div n
             r == a % n
             c == b - a
             d == r + c
  <1>1. q \in Int /\ r \in Int /\ a = n * q + r
    BY RemainderType
  <1>2. c \in Int /\ b - a = c
    OBVIOUS
  <1> DEFINE u == c \div n
             v == c % n
  <1>3. u \in Int /\ v \in 0 .. n - 1 /\ c = n * u + v
    <2> HIDE DEF c
    <2> QED
      BY <1>2, RemainderType
  <1> HIDE DEF u, v, q, r
  <1>4. b - r = n * (q + u) + v
    <2>1. b - r = n * q + (n * u + v)
      BY <1>1, <1>3 DEF c
    <2>2. n * (q + u) = n * q + n * u
      BY <1>1, <1>3
    <2> QED
      BY <1>1, <1>3, <2>1, <2>2
  <1>5. (b - r) % n = v
    <2> DEFINE w == b - r
               x == q + u
    <2>1. x \in Int /\ w = n * x + v
      BY <1>1, <1>3, <1>4
    <2> HIDE DEF w, x
    <2>2. w % n = v
      BY <1>3, <2>1, Remainder
    <2> QED
      BY <2>2 DEF w
  <1> QED
    BY <1>5 DEF v, r, c

-----------------------------------------------------------------------------
(* The ring                                                                 *)

\* RING divides the number of values of CAPR.
LEMMA RingSize ==
  /\ RING \in Nat \ {0} /\ RING % 4 = 0 /\ RING > 16 /\ RING <= CAPR_MOD
  /\ CAPR_MOD \in Nat \ {0} /\ \E k \in Nat : CAPR_MOD = RING * k
  <1>1. CAPR_MOD \in Nat \ {0}
    BY SMT DEF CAPR_MOD
  <1>2. RING \in Nat \ {0} /\ RING % 4 = 0 /\ RING > 16 /\ CAPR_MOD % RING = 0
    BY NicConstants
  <1>3. ASSUME NEW a \in Int, a % RING = 0
        PROVE  \E k \in Int : a = RING * k
    <2> DEFINE w == a \div RING
    <2>1. w \in Int /\ a = RING * w
      BY <1>2, <1>3, RemainderType
    <2> HIDE DEF w
    <2> QED
      BY <2>1, Zenon
  <1>4. PICK k \in Int : CAPR_MOD = RING * k
    BY <1>1, <1>2, <1>3
  <1>5. k > 0
    BY <1>1, <1>2, <1>4
  <1>6. RING <= CAPR_MOD
    BY <1>1, <1>2, <1>4, <1>5
  <1> QED
    BY <1>1, <1>2, <1>4, <1>5, <1>6

\* Sixteen less than a position.
LEMMA LessSixteen ==
  ASSUME NEW n, n \in Nat \ {0}, n > 16, NEW o, o \in 0 .. n - 1
  PROVE  (o - 16) % n = IF o < 16 THEN o - 16 + n ELSE o - 16
  <1> DEFINE e == o - 16
  <1>1. e \in Int /\ 0 <= e + n /\ e < n
    OBVIOUS
  <1>2. ASSUME NEW a \in Int, 0 <= a + n, a < n
        PROVE  a % n = IF a < 0 THEN a + n ELSE a
    <2>1. a % n = IF a < 0 THEN a + n ELSE IF a < n THEN a ELSE a - n
      BY <1>2, Once
    <2> QED
      BY <1>2, <2>1
  <1> HIDE DEF e
  <1>3. e % n = IF e < 0 THEN e + n ELSE e
    BY <1>1, <1>2
  <1> QED
    BY <1>3 DEF e

\* The register CAPR, 16 less than the position, wraps without harm.
LEMMA CaprWraps ==
  ASSUME NEW o, o \in 0 .. RING - 1
  PROVE  /\ (o - 16) % CAPR_MOD \in 0 .. CAPR_MOD - 1
         /\ (((o - 16) % CAPR_MOD) + 16) % RING = o
  <1> DEFINE c == (o - 16) % CAPR_MOD
             d == c + 16
  <1>1. CAPR_MOD \in Nat \ {0} /\ RING \in Nat \ {0} /\ RING <= CAPR_MOD /\ RING > 16
    BY RingSize
  <1>2. c = IF o < 16 THEN o - 16 + CAPR_MOD ELSE o - 16
    BY <1>1, LessSixteen
  <1> HIDE DEF c
  <1>3. c \in 0 .. CAPR_MOD - 1
    BY <1>1, <1>2
  <1>4. d = IF o < 16 THEN CAPR_MOD + o ELSE o
    BY <1>1, <1>2
  <1> HIDE DEF d
  <1>5. d % RING = o
    <2>1. CASE o < 16
      <3>1. PICK k \in Nat : CAPR_MOD = RING * k
        BY RingSize
      <3>2. d = RING * k + o /\ o \in 0 .. RING - 1
        BY <1>1, <1>4, <2>1, <3>1
      <3> QED
        BY <1>1, <3>2, Remainder
    <2>2. CASE ~(o < 16)
      <3>1. d = RING * 0 + o
        BY <1>1, <1>4, <2>2
      <3> QED
        BY <1>1, <3>1, Remainder
    <2> QED
      BY <2>1, <2>2
  <1> QED
    BY <1>3, <1>5 DEF c, d

\* The slot of a frame holds its header and its data, and nothing is aligned
\* away.
LEMMA SlotSize ==
  ASSUME NEW length \in Nat, length >= 4
  PROVE  /\ Slot(length) \in Nat /\ Slot(length) % 4 = 0
         /\ Slot(length) >= length + 4 /\ Slot(length) >= 8
         /\ Slot(length) = ((length + 4 + 3) \div 4) * 4
  BY DEF Slot

LEMMA SlotsAlign ==
  ASSUME NEW p, p \in Nat, p % 4 = 0, NEW l, l \in Nat
  PROVE  ((p + l + 4 + 3) \div 4) * 4 = p + ((l + 4 + 3) \div 4) * 4
  <1> DEFINE a == l + 4 + 3
             q == p \div 4
             w == a \div 4
  <1>1. q \in Nat /\ p = 4 * q
    OBVIOUS
  <1>2. a \in Nat
    OBVIOUS
  <1>3. w \in Nat /\ 4 * w <= a /\ a < 4 * w + 4
    <2> HIDE DEF a
    <2> QED
      BY <1>2
  <1> HIDE DEF q, w, a
  <1>4. (4 * q + a) \div 4 = q + w
    BY <1>1, <1>2, <1>3
  <1>5. p + l + 4 + 3 = 4 * q + a
    BY <1>1 DEF a
  <1>6. (p + l + 4 + 3) \div 4 = q + w
    BY <1>4, <1>5
  <1> QED
    BY <1>1, <1>3, <1>6 DEF w, a

\* How far q is behind p in the ring.
Gap(p, q) == IF q <= p THEN p - q ELSE p - q + RING

LEMMA GapIs ==
  ASSUME NEW p, p \in 0 .. RING - 1, NEW q, q \in 0 .. RING - 1
  PROVE  (p - q + RING) % RING = Gap(p, q) /\ Gap(p, q) \in 0 .. RING - 1
  <1>1. RING \in Nat \ {0}
    BY NicConstants
  <1> DEFINE a == p - q + RING
  <1>2. a \in Int /\ 0 <= a + RING /\ a < 2 * RING /\ a >= 0
    BY <1>1
  <1>3. a < RING <=> ~(q <= p)
    BY <1>1
  <1>4. a - RING = p - q
    BY <1>1
  <1>5. Gap(p, q) = IF a < RING THEN a ELSE a - RING
    BY <1>1, <1>3, <1>4 DEF Gap
  <1>6. Gap(p, q) \in 0 .. RING - 1
    BY <1>1 DEF Gap
  <1> HIDE DEF a
  <1>7. a % RING = IF a < 0 THEN a + RING ELSE IF a < RING THEN a ELSE a - RING
    BY <1>1, <1>2, Once
  <1>8. a % RING = Gap(p, q)
    BY <1>1, <1>2, <1>5, <1>7
  <1> QED
    BY <1>6, <1>8 DEF a

\* A step forward, by no more than the size of the ring.
LEMMA Forward ==
  ASSUME NEW p, p \in 0 .. RING - 1, NEW s, s \in 0 .. RING
  PROVE  /\ (p + s) % RING = IF p + s < RING THEN p + s ELSE p + s - RING
         /\ (p + s) % RING \in 0 .. RING - 1
  <1>1. RING \in Nat \ {0}
    BY NicConstants
  <1> DEFINE a == p + s
  <1>2. a \in Int /\ 0 <= a + RING /\ a < 2 * RING /\ a >= 0
    BY <1>1
  <1> HIDE DEF a
  <1>3. a % RING = IF a < 0 THEN a + RING ELSE IF a < RING THEN a ELSE a - RING
    BY <1>1, <1>2, Once
  <1>4. a % RING = IF a < RING THEN a ELSE a - RING
    BY <1>1, <1>2, <1>3
  <1>5. a % RING \in 0 .. RING - 1
    BY <1>1, <1>2, <1>4
  <1>6. (p + s) % RING = IF p + s < RING THEN p + s ELSE p + s - RING
    BY <1>1, <1>4 DEF a
  <1>7. (p + s) % RING \in 0 .. RING - 1
    BY <1>5 DEF a
  <1> QED
    BY <1>6, <1>7

-----------------------------------------------------------------------------
(* The frames in the ring                                                   *)

LEMMA LengthType ==
  ASSUME NEW length \in Lengths
  PROVE  length \in Nat /\ length >= 4 /\ length <= MAX_LENGTH
  BY NicConstants

\* What the invariant says of one frame.
LEMMA FrameType ==
  ASSUME RingInv, NEW o \in DOMAIN frames
  PROVE  /\ frames[o] \in Frame /\ frames[o].length \in Lengths
         /\ Slot(frames[o].length) \in Nat /\ Slot(frames[o].length) >= 8
         /\ Slot(frames[o].length) % 4 = 0
         /\ Slot(frames[o].length) >= frames[o].length + 4
  <1>1. frames[o] \in Frame
    BY DEF RingInv
  <1>2. frames[o].length \in Lengths
    BY <1>1 DEF Frame
  <1> DEFINE l == frames[o].length
  <1>3. l \in Nat /\ l >= 4
    BY <1>2, LengthType
  <1> HIDE DEF l
  <1>4. Slot(l) \in Nat /\ Slot(l) >= 8 /\ Slot(l) % 4 = 0 /\ Slot(l) >= l + 4
    BY <1>3, SlotSize
  <1> QED
    BY <1>1, <1>2, <1>4 DEF l

\* The read position is one, and distances from it are gaps.
LEMMA Measures ==
  ASSUME TypeOK
  PROVE  /\ rd \in 0 .. RING - 1
         /\ Used = Gap(wr, rd) /\ Used \in 0 .. RING - 1
         /\ \A o \in 0 .. RING - 1 : Dist(o) = Gap(o, rd) /\ Dist(o) \in 0 .. RING - 1
  <1>1. RING \in Nat \ {0}
    BY NicConstants
  <1>2. capr + 16 \in Int
    BY RingSize DEF TypeOK
  <1>3. (capr + 16) % RING \in 0 .. RING - 1
    BY <1>1, <1>2, RemainderType
  <1>4. rd \in 0 .. RING - 1
    BY <1>3 DEF rd
  <1>5. wr \in 0 .. RING - 1
    BY DEF TypeOK
  <1>6. Used = Gap(wr, rd) /\ Used \in 0 .. RING - 1
    BY <1>4, <1>5, GapIs DEF Used
  <1>7. ASSUME NEW o \in 0 .. RING - 1
        PROVE  Dist(o) = Gap(o, rd) /\ Dist(o) \in 0 .. RING - 1
    BY <1>4, GapIs DEF Dist
  <1> QED
    BY <1>4, <1>6, <1>7

\* The same after a step.
LEMMA MeasuresAfter ==
  ASSUME TypeOK'
  PROVE  /\ rd' \in 0 .. RING - 1
         /\ Used' = Gap(wr', rd') /\ Used' \in 0 .. RING - 1
         /\ \A o \in 0 .. RING - 1 :
              Dist(o)' = Gap(o, rd') /\ Dist(o)' \in 0 .. RING - 1
  <1>1. RING \in Nat \ {0}
    BY NicConstants
  <1>2. capr' + 16 \in Int
    BY RingSize DEF TypeOK
  <1>3. (capr' + 16) % RING \in 0 .. RING - 1
    BY <1>1, <1>2, RemainderType
  <1>4. rd' \in 0 .. RING - 1
    BY <1>3 DEF rd
  <1>5. wr' \in 0 .. RING - 1
    BY DEF TypeOK
  <1>6. Used' = Gap(wr', rd') /\ Used' \in 0 .. RING - 1
    BY <1>4, <1>5, GapIs DEF Used
  <1>7. ASSUME NEW o \in 0 .. RING - 1
        PROVE  Dist(o)' = Gap(o, rd') /\ Dist(o)' \in 0 .. RING - 1
    BY <1>4, GapIs DEF Dist
  <1> QED
    BY <1>4, <1>6, <1>7

\* The ring is empty when no header is in it, and then only; otherwise one
\* starts where the driver reads.
LEMMA EmptyRing ==
  ASSUME TypeOK, RingInv
  PROVE  (Empty <=> rd \notin DOMAIN frames) /\ (Empty <=> DOMAIN frames = {})
  <1>1. ASSUME Empty, NEW o \in DOMAIN frames
        PROVE  FALSE
    <2>1. Used = 0
      BY <1>1, Measures DEF Empty, Gap, TypeOK
    <2>2. o \in 0 .. RING - 1
      BY DEF TypeOK
    <2>3. Dist(o) \in Nat
      BY <2>2, Measures
    <2>4. Behind(o) <= Used
      BY DEF RingInv
    <2> QED
      BY <2>1, <2>3, <2>4, FrameType DEF Behind
  <1>2. ASSUME ~Empty
        PROVE  rd \in DOMAIN frames
    BY <1>2 DEF Empty, RingInv
  <1> QED
    BY <1>1, <1>2

-----------------------------------------------------------------------------
(* A frame arrives                                                          *)

\* The write position moves on by the slot of the frame and stays in front of
\* the read position.
LEMMA WriteMoves ==
  ASSUME TypeOK, RingInv, TypeOK', NEW length \in Lengths,
         NEW h \in BadLengths \cup {length}, Receive(length, h)
  PROVE  /\ rd' = rd /\ Used' = Used + Slot(length) /\ wr' % 4 = 0
         /\ wr \notin DOMAIN frames /\ DOMAIN frames' = DOMAIN frames \cup {wr}
         /\ \A o \in DOMAIN frames :
              Behind(o) = Used => After(o) = wr
  <1> DEFINE s == Slot(length)
  <1>1. RING \in Nat \ {0} /\ RING % 4 = 0
    BY NicConstants
  <1>2. s \in Nat /\ s >= 8 /\ s % 4 = 0
    BY LengthType, SlotSize
  <1>3. rd' = rd
    BY DEF Receive, rd
  <1>4. Used + s < RING
    BY DEF Receive
  <1>5. wr' = (wr + s) % RING
    BY DEF Receive
  <1>6. DOMAIN frames' = DOMAIN frames \cup {wr}
    BY DEF Receive
  <1> HIDE DEF s
  <1>7. wr \in 0 .. RING - 1 /\ rd \in 0 .. RING - 1 /\ Used = Gap(wr, rd)
    BY Measures DEF TypeOK
  <1>8. wr' = IF wr + s < RING THEN wr + s ELSE wr + s - RING
    BY <1>1, <1>2, <1>4, <1>5, <1>7, Forward DEF Gap
  <1>9. Used' = Gap(wr', rd)
    BY <1>3, MeasuresAfter
  <1>10. Used' = Used + s
    BY <1>1, <1>2, <1>4, <1>7, <1>8, <1>9 DEF Gap
  <1>11. wr' % 4 = 0
    <2>1. wr % 4 = 0
      BY DEF RingInv
    <2> QED
      BY <1>1, <1>2, <1>7, <1>8, <2>1
  <1>12. wr \notin DOMAIN frames
    <2> SUFFICES ASSUME wr \in DOMAIN frames PROVE FALSE
      OBVIOUS
    <2>1. Behind(wr) <= Used
      BY DEF RingInv
    <2>2. Dist(wr) = Used
      BY <1>7, Measures
    <2>3. Slot(frames[wr].length) \in Nat /\ Slot(frames[wr].length) >= 8
      BY FrameType
    <2>4. Used \in Nat
      BY Measures
    <2> QED
      BY <2>1, <2>2, <2>3, <2>4 DEF Behind
  <1>13. ASSUME NEW o \in DOMAIN frames, Behind(o) = Used
         PROVE  After(o) = wr
    <2> DEFINE t == Slot(frames[o].length)
    <2>1. t \in Nat
      BY FrameType
    <2>2. o \in 0 .. RING - 1
      BY DEF TypeOK
    <2>3. Gap(o, rd) + t = Used /\ Gap(o, rd) \in 0 .. RING - 1
      BY <1>13, <2>2, Measures DEF Behind
    <2>4. After(o) = (o + t) % RING
      BY DEF After
    <2> HIDE DEF t
    <2>5. t \in 0 .. RING
      BY <1>1, <1>7, <2>1, <2>3 DEF Gap
    <2>6. After(o) = IF o + t < RING THEN o + t ELSE o + t - RING
      BY <2>2, <2>4, <2>5, Forward
    <2>7. Gap(o, rd) + t = Gap(wr, rd)
      BY <1>7, <2>3
    <2>8. wr = IF o + t < RING THEN o + t ELSE o + t - RING
      BY <1>1, <1>7, <2>1, <2>2, <2>7 DEF Gap
    <2> QED
      BY <2>6, <2>8
  <1> QED
    BY <1>3, <1>6, <1>10, <1>11, <1>12, <1>13 DEF s

LEMMA ReceiveKeepsRing ==
  ASSUME TypeOK, RingInv, TypeOK', NEW length \in Lengths,
         NEW h \in BadLengths \cup {length}, Receive(length, h)
  PROVE  RingInv'
  <1> DEFINE s == Slot(length)
  <1>1. s \in Nat /\ s >= 8
    BY LengthType, SlotSize
  <1>2. /\ rd' = rd /\ Used' = Used + s /\ wr' % 4 = 0
        /\ wr \notin DOMAIN frames /\ DOMAIN frames' = DOMAIN frames \cup {wr}
    BY WriteMoves
  <1>3. ASSUME NEW o \in DOMAIN frames
        PROVE  frames'[o] = frames[o]
    BY <1>2 DEF Receive
  <1>4. frames'[wr] = [header |-> h, length |-> length]
    BY DEF Receive
  <1>5. frames' \in [DOMAIN frames' -> Frame]
    <2>1. frames'[wr] \in Frame
      BY <1>4, LengthType, NicConstants DEF Frame
    <2>2. frames' = [o \in DOMAIN frames' |-> frames'[o]]
      BY DEF Receive
    <2>3. \A o \in DOMAIN frames' : frames'[o] \in Frame
      BY <1>2, <1>3, <2>1, FrameType
    <2> QED
      BY <2>2, <2>3
  <1>6. /\ Used \in Nat /\ wr \in 0 .. RING - 1 /\ DOMAIN frames \subseteq 0 .. RING - 1
        /\ Dist(wr) = Used
    BY Measures DEF TypeOK
  <1>7. ASSUME NEW o
        PROVE  Dist(o)' = Dist(o)
    BY <1>2 DEF Dist
  <1>8. ASSUME NEW o \in DOMAIN frames
        PROVE  Behind(o)' = Behind(o) /\ After(o)' = After(o)
    BY <1>3, <1>7 DEF Behind, After
  <1>9. ASSUME NEW o, o = wr
        PROVE  Dist(o)' = Used
    BY <1>6, <1>7, <1>9
  <1>10. ASSUME NEW o, o = wr
         PROVE  Behind(o)' = Used'
    BY <1>2, <1>4, <1>9, <1>10 DEF Behind
  <1>11. \A o \in DOMAIN frames : Behind(o) \in Nat /\ Behind(o) <= Used
    BY <1>6, Measures, FrameType DEF Behind, RingInv
  <1>12. rd' # wr' => rd' \in DOMAIN frames'
    BY <1>2 DEF RingInv
  <1>13. \A o \in DOMAIN frames' : o % 4 = 0
    BY <1>2 DEF RingInv
  <1>14. ASSUME NEW o \in DOMAIN frames'
         PROVE  Behind(o)' <= Used' /\ (Behind(o)' # Used' => After(o)' \in DOMAIN frames')
    <2>1. CASE o = wr
      <3>1. Behind(o)' = Used'
        BY <1>10, <2>1
      <3>2. Used' \in Nat
        BY <1>1, <1>2, <1>6
      <3> QED
        BY <3>1, <3>2
    <2>2. CASE o \in DOMAIN frames
      <3>1. Behind(o)' <= Used'
        BY <1>1, <1>2, <1>6, <1>8, <1>11, <2>2
      <3>2. Behind(o) # Used => After(o) \in DOMAIN frames
        BY <2>2 DEF RingInv
      <3>3. Behind(o) = Used => After(o) = wr
        BY <2>2, WriteMoves
      <3> QED
        BY <1>2, <1>8, <2>2, <3>1, <3>2, <3>3, Zenon
    <2> QED
      BY <1>2, <2>1, <2>2
  <1>15. ASSUME NEW o \in DOMAIN frames', NEW p \in DOMAIN frames', p # o
         PROVE  Behind(o)' <= Dist(p)' \/ Behind(p)' <= Dist(o)'
    <2>1. CASE o = wr
      <3>1. Dist(o)' = Used
        BY <1>9, <2>1
      <3>2. p \in DOMAIN frames
        BY <1>2, <1>15, <2>1
      <3> QED
        BY <1>8, <1>11, <3>1, <3>2
    <2>2. CASE p = wr
      <3>1. Dist(p)' = Used
        BY <1>9, <2>2
      <3>2. o \in DOMAIN frames
        BY <1>2, <1>15, <2>2
      <3> QED
        BY <1>8, <1>11, <3>1, <3>2
    <2>3. CASE o \in DOMAIN frames /\ p \in DOMAIN frames
      <3>1. Behind(o) <= Dist(p) \/ Behind(p) <= Dist(o)
        BY <1>15, <2>3 DEF RingInv
      <3> QED
        BY <1>7, <1>8, <2>3, <3>1
    <2> QED
      BY <1>2, <2>1, <2>2, <2>3
  <1>16. rd' % 4 = 0
    BY <1>2 DEF RingInv
  <1>17. ASSUME NEW o \in DOMAIN frames'
         PROVE  \A p \in DOMAIN frames' :
                  p = o \/ Behind(o)' <= Dist(p)' \/ Behind(p)' <= Dist(o)'
    BY <1>15
  <1> QED
    BY <1>2, <1>5, <1>12, <1>13, <1>14, <1>16, <1>17, Zenon DEF RingInv

-----------------------------------------------------------------------------
(* A frame is taken                                                         *)

\* A length that the driver believes is the length of the frame: the driver
\* moves to where the card has put the next one.
LEMMA NextFrame ==
  ASSUME TypeOK, RingInv, rx_offset = rd, Believable
  PROVE  /\ rd \in DOMAIN frames /\ NextOffset = After(rd)
         /\ NextOffset \in 0 .. RING - 1 /\ NextOffset % 4 = 0
         /\ NextOffset = IF rd + Slot(frames[rd].length) < RING
                         THEN rd + Slot(frames[rd].length)
                         ELSE rd + Slot(frames[rd].length) - RING
         /\ Slot(frames[rd].length) <= Used
  <1>1. RING \in Nat \ {0} /\ RING % 4 = 0
    BY NicConstants
  <1>2. rd \in DOMAIN frames
    BY DEF Believable, header
  <1>3. header = frames[rd].header
    BY <1>2 DEF header
  <1>4. frames[rd].header = frames[rd].length
    <2>1. frames[rd] \in Frame
      BY <1>2, FrameType
    <2>2. frames[rd].header \in Nat
      BY <2>1 DEF Frame
    <2>3. frames[rd].header \in 4 .. MAX_LENGTH
      BY <1>3, <2>2, NicConstants DEF Believable
    <2>4. frames[rd].header \notin BadLengths
      BY <2>3, NicConstants
    <2> QED
      BY <2>1, <2>4 DEF Frame
  <1> DEFINE l == frames[rd].length
             s == Slot(l)
  <1>5. l \in Nat /\ l >= 4
    BY <1>2, FrameType, LengthType
  <1>6. s \in Nat /\ s % 4 = 0 /\ s = ((l + 4 + 3) \div 4) * 4
    BY <1>5, SlotSize
  <1>7. rd \in 0 .. RING - 1 /\ Used \in 0 .. RING - 1 /\ Dist(rd) = Gap(rd, rd)
    BY <1>2, Measures DEF TypeOK
  <1>8. s <= Used
    <2>1. Behind(rd) <= Used
      BY <1>2 DEF RingInv
    <2>2. Dist(rd) = 0
      BY <1>1, <1>7 DEF Gap
    <2>3. 0 + s <= Used
      BY <2>1, <2>2 DEF Behind
    <2> QED
      BY <1>6, <1>7, <2>3
  <1>9. rd % 4 = 0
    BY DEF RingInv
  <1>10. header = l
    BY <1>3, <1>4
  <1>11. After(rd) = (rd + s) % RING
    BY DEF After
  <1>12. NextOffset = LET o == ((rd + l + 4 + 3) \div 4) * 4
                      IN  IF o >= RING THEN o - RING ELSE o
    BY <1>10 DEF NextOffset
  <1> HIDE DEF s, l
  <1>13. ((rd + l + 4 + 3) \div 4) * 4 = rd + s
    <2>1. rd \in Nat
      BY <1>1, <1>7
    <2> QED
      BY <1>5, <1>6, <1>9, <2>1, SlotsAlign
  <1>14. NextOffset = IF rd + s >= RING THEN rd + s - RING ELSE rd + s
    BY <1>1, <1>5, <1>6, <1>7, <1>12, <1>13
  <1>15. NextOffset = IF rd + s < RING THEN rd + s ELSE rd + s - RING
    BY <1>1, <1>6, <1>7, <1>14
  <1>16. s \in 0 .. RING
    BY <1>1, <1>6, <1>7, <1>8
  <1>17. (rd + s) % RING = IF rd + s < RING THEN rd + s ELSE rd + s - RING
    BY <1>1, <1>7, <1>16, Forward
  <1>18. NextOffset = After(rd)
    BY <1>11, <1>15, <1>17
  <1>19. NextOffset \in 0 .. RING - 1 /\ NextOffset % 4 = 0
    BY <1>1, <1>6, <1>7, <1>9, <1>15, <1>16
  <1> QED
    BY <1>2, <1>8, <1>15, <1>18, <1>19, Zenon DEF s, l

\* The read position follows, and comes nearer to everything else by the slot
\* of the frame.
LEMMA ReadMoves ==
  ASSUME TypeOK, RingInv, rx_offset = rd, TakeFrame, TypeOK'
  PROVE  /\ rd' = NextOffset /\ wr' = wr
         /\ Used' = Used - Slot(frames[rd].length)
         /\ \A o \in DOMAIN frames :
              o # rd => /\ Dist(o)' = Dist(o) - Slot(frames[rd].length)
                        /\ After(o) # rd
         /\ After(rd) # rd
  <1> DEFINE s == Slot(frames[rd].length)
  <1>1. RING \in Nat \ {0}
    BY NicConstants
  <1>2. /\ rd \in DOMAIN frames /\ NextOffset = After(rd) /\ s <= Used
        /\ NextOffset \in 0 .. RING - 1
        /\ NextOffset = IF rd + s < RING THEN rd + s ELSE rd + s - RING
    BY NextFrame DEF TakeFrame
  <1>3. capr' = (NextOffset - 16) % CAPR_MOD
    BY DEF TakeFrame
  <1>4. rd' = NextOffset
    BY <1>2, <1>3, CaprWraps DEF rd
  <1>5. s \in Nat /\ s >= 8
    BY <1>2, FrameType
  <1> HIDE DEF s
  <1>6. /\ rd \in 0 .. RING - 1 /\ wr \in 0 .. RING - 1
        /\ Used = Gap(wr, rd) /\ Used \in 0 .. RING - 1
    BY Measures DEF TypeOK
  <1>7. wr' = wr
    BY DEF TakeFrame
  <1>8. Used' = Gap(wr, rd')
    BY <1>7, MeasuresAfter
  <1>9. Used' = Used - s
    BY <1>1, <1>2, <1>4, <1>5, <1>6, <1>8 DEF Gap
  <1>10. After(rd) # rd
    BY <1>1, <1>2, <1>5, <1>6
  <1>11. ASSUME NEW o \in DOMAIN frames, o # rd
         PROVE  Dist(o)' = Dist(o) - s /\ After(o) # rd
    <2> DEFINE t == Slot(frames[o].length)
    <2>1. o \in 0 .. RING - 1
      BY DEF TypeOK
    <2>2. t \in Nat /\ t >= 8
      BY FrameType
    <2>3. /\ Dist(o) = Gap(o, rd) /\ Dist(o)' = Gap(o, rd') /\ Dist(o) \in 0 .. RING - 1
      BY <2>1, Measures, MeasuresAfter
    <2>4. Dist(rd) = 0
      BY <1>1, <1>6, Measures DEF Gap
    <2>5. Behind(rd) <= Dist(o) \/ Behind(o) <= Dist(rd)
      BY <1>2, <1>11 DEF RingInv
    <2>6. Behind(rd) = 0 + s
      BY <2>4 DEF Behind, s
    <2>7. Behind(o) = Dist(o) + t /\ Behind(o) <= Used
      BY DEF Behind, RingInv
    <2>8. After(o) = (o + t) % RING
      BY DEF After
    <2> HIDE DEF t
    <2>9. s <= Dist(o) /\ Dist(o) + t <= Used
      BY <1>5, <2>2, <2>3, <2>4, <2>5, <2>6, <2>7
    <2>10. Gap(o, rd') = Gap(o, rd) - s
      <3>1. s <= Gap(o, rd)
        BY <2>3, <2>9
      <3>2. Gap(o, NextOffset) = Gap(o, rd) - s
        BY <1>1, <1>2, <1>5, <1>6, <2>1, <3>1 DEF Gap
      <3> QED
        BY <1>4, <3>2
    <2>11. Dist(o)' = Dist(o) - s
      BY <2>3, <2>10
    <2>12. t \in 0 .. RING
      BY <1>1, <1>6, <2>2, <2>3, <2>9
    <2>13. (o + t) % RING = IF o + t < RING THEN o + t ELSE o + t - RING
      BY <1>1, <2>1, <2>12, Forward
    <2>14. Gap(o, rd) + t < RING
      BY <1>1, <1>6, <2>2, <2>3, <2>9
    <2>15. (IF o + t < RING THEN o + t ELSE o + t - RING) # rd
      BY <1>1, <1>5, <1>6, <2>1, <2>2, <2>14, <1>11 DEF Gap
    <2> QED
      BY <2>8, <2>11, <2>13, <2>15
  <1> QED
    BY <1>4, <1>7, <1>9, <1>10, <1>11 DEF s

LEMMA TakeKeepsRing ==
  ASSUME TypeOK, RingInv, rx_offset = rd, TakeFrame, TypeOK'
  PROVE  RingInv' /\ rx_offset' = rd'
  <1> DEFINE s == Slot(frames[rd].length)
  <1>1. /\ rd \in DOMAIN frames /\ NextOffset = After(rd) /\ s <= Used
        /\ NextOffset % 4 = 0
    BY NextFrame DEF TakeFrame
  <1>2. /\ rd' = NextOffset /\ wr' = wr /\ Used' = Used - s
        /\ \A o \in DOMAIN frames :
             o # rd => Dist(o)' = Dist(o) - s /\ After(o) # rd
        /\ After(rd) # rd
    BY ReadMoves
  <1>3. s \in Nat /\ s >= 8
    BY <1>1, FrameType
  <1>4. frames' = [o \in DOMAIN frames \ {rd} |-> frames[o]]
    BY DEF TakeFrame
  <1>5. DOMAIN frames' = DOMAIN frames \ {rd}
    BY <1>4
  <1>6. ASSUME NEW o \in DOMAIN frames'
        PROVE  /\ o \in DOMAIN frames /\ o # rd /\ frames'[o] = frames[o]
               /\ Dist(o) \in Nat /\ Dist(o)' = Dist(o) - s
               /\ Slot(frames[o].length) \in Nat
    BY <1>2, <1>4, <1>5, <1>6, Measures, FrameType DEF TypeOK
  <1> HIDE DEF s
  <1>7. ASSUME NEW o \in DOMAIN frames'
        PROVE  /\ Behind(o) \in Nat /\ Behind(o)' = Behind(o) - s
               /\ After(o)' = After(o)
    <2> DEFINE t == Slot(frames[o].length)
    <2>1. t \in Nat /\ Dist(o) \in Nat /\ Dist(o)' = Dist(o) - s
      BY <1>6, <1>7
    <2>2. Behind(o) = Dist(o) + t /\ Behind(o)' = Dist(o)' + t /\ After(o)' = After(o)
      BY <1>6, <1>7 DEF Behind, After
    <2> HIDE DEF t
    <2> QED
      BY <1>3, <2>1, <2>2
  <1>8. frames' \in [DOMAIN frames' -> Frame]
    <2>1. \A o \in DOMAIN frames' : frames'[o] \in Frame
      BY <1>6, FrameType
    <2> QED
      BY <1>4, <2>1
  <1>9. rd' # wr' => rd' \in DOMAIN frames'
    <2> SUFFICES ASSUME After(rd) \notin DOMAIN frames PROVE rd' = wr'
      BY <1>1, <1>2, <1>5
    <2>1. Behind(rd) = Used
      BY <1>1 DEF RingInv
    <2>2. Dist(rd) = 0
      <3>1. rd \in 0 .. RING - 1
        BY <1>1 DEF TypeOK
      <3> QED
        BY <3>1, Measures, NicConstants DEF Gap
    <2>3. Behind(rd) = 0 + s
      BY <2>2 DEF Behind, s
    <2>4. Used' = 0
      BY <1>2, <1>3, <2>1, <2>3
    <2>5. /\ Used' = Gap(wr', rd') /\ wr' \in 0 .. RING - 1
          /\ rd' \in 0 .. RING - 1 /\ RING \in Nat \ {0}
      BY MeasuresAfter, NicConstants DEF TypeOK
    <2>6. ASSUME NEW p, p \in 0 .. RING - 1, NEW q, q \in 0 .. RING - 1, Gap(p, q) = 0
          PROVE  p = q
      BY <2>5, <2>6 DEF Gap
    <2> QED
      BY <2>4, <2>5, <2>6
  <1>10. ASSUME NEW o \in DOMAIN frames'
         PROVE  /\ o % 4 = 0 /\ Behind(o)' <= Used'
                /\ Behind(o)' # Used' => After(o)' \in DOMAIN frames'
    <2>1. /\ o % 4 = 0 /\ Behind(o) <= Used
          /\ Behind(o) # Used => After(o) \in DOMAIN frames
      BY <1>6, <1>10 DEF RingInv
    <2>2. After(o) # rd
      BY <1>2, <1>6, <1>10
    <2>3. Used \in Nat
      BY Measures
    <2>4. ASSUME Behind(o) = Used
          PROVE  Behind(o)' = Used'
      <3>1. Behind(o)' = Behind(o) - s /\ Used' = Used - s
        BY <1>2, <1>7, <1>10
      <3> QED
        BY <2>4, <3>1
    <2>5. Behind(o)' <= Used'
      BY <1>2, <1>3, <1>7, <1>10, <2>1, <2>3
    <2> QED
      BY <1>5, <1>7, <1>10, <2>1, <2>2, <2>4, <2>5
  <1>11. ASSUME NEW o \in DOMAIN frames', NEW p \in DOMAIN frames'
         PROVE  p = o \/ Behind(o)' <= Dist(p)' \/ Behind(p)' <= Dist(o)'
    <2>1. p = o \/ Behind(o) <= Dist(p) \/ Behind(p) <= Dist(o)
      BY <1>6, <1>11 DEF RingInv
    <2>2. /\ Behind(o) \in Nat /\ Behind(o)' = Behind(o) - s
          /\ Behind(p) \in Nat /\ Behind(p)' = Behind(p) - s
      BY <1>7, <1>11
    <2>3. /\ Dist(o) \in Nat /\ Dist(o)' = Dist(o) - s
          /\ Dist(p) \in Nat /\ Dist(p)' = Dist(p) - s
      BY <1>6, <1>11
    <2> QED
      BY <1>3, <2>1, <2>2, <2>3
  <1>12. wr' % 4 = 0 /\ rd' % 4 = 0
    BY <1>1, <1>2 DEF RingInv
  <1>13. rx_offset' = rd'
    BY <1>2 DEF TakeFrame
  <1> QED
    BY <1>8, <1>9, <1>10, <1>11, <1>12, <1>13, Zenon DEF RingInv

-----------------------------------------------------------------------------
(* The transmit descriptors                                                 *)

LEMMA NthType ==
  ASSUME NEW n, n \in 0 .. TX_DESCRIPTORS - 1, NEW k, k \in Nat
  PROVE  Nth(n, k) \in 0 .. TX_DESCRIPTORS - 1
  BY RemainderType, NicConstants DEF Nth

LEMMA NthStep ==
  ASSUME NEW n, n \in 0 .. TX_DESCRIPTORS - 1, NEW k, k \in Nat
  PROVE  /\ (Nth(n, k) + 1) % TX_DESCRIPTORS = Nth(n, k + 1)
         /\ Nth((n + 1) % TX_DESCRIPTORS, k) = Nth(n, k + 1)
  <1>1. TX_DESCRIPTORS \in Nat \ {0}
    BY NicConstants
  <1> DEFINE a == n + k
             b == n + 1
  <1>2. a \in Int /\ b \in Int /\ a + 1 = n + (k + 1) /\ b + k = n + (k + 1)
    BY <1>1
  <1> HIDE DEF a, b
  <1>3. ((a % TX_DESCRIPTORS) + 1) % TX_DESCRIPTORS = (a + 1) % TX_DESCRIPTORS
    <2>1. ASSUME NEW i, i = 1
          PROVE  ((a % TX_DESCRIPTORS) + i) % TX_DESCRIPTORS = (a + i) % TX_DESCRIPTORS
      <3>1. i \in Int
        BY <2>1
      <3> QED
        BY <1>1, <1>2, <3>1, RemainderSum
    <2> QED
      BY <2>1, Zenon
  <1>4. ((b % TX_DESCRIPTORS) + k) % TX_DESCRIPTORS = (b + k) % TX_DESCRIPTORS
    BY <1>1, <1>2, RemainderSum
  <1>5. (a + 1) % TX_DESCRIPTORS = (n + (k + 1)) % TX_DESCRIPTORS
    BY <1>2
  <1>6. (b + k) % TX_DESCRIPTORS = (n + (k + 1)) % TX_DESCRIPTORS
    BY <1>2
  <1> QED
    BY <1>3, <1>4, <1>5, <1>6, Zenon DEF a, b, Nth

LEMMA NthApart ==
  ASSUME NEW n, n \in 0 .. TX_DESCRIPTORS - 1,
         NEW k, k \in 0 .. TX_DESCRIPTORS - 1
  PROVE  Nth(n, k) = n <=> k = 0
  <1>1. TX_DESCRIPTORS \in Nat \ {0}
    BY NicConstants
  <1> DEFINE a == n + k
  <1>2. a \in Int /\ 0 <= a + TX_DESCRIPTORS /\ a < 2 * TX_DESCRIPTORS
    BY <1>1
  <1> HIDE DEF a
  <1>3. a % TX_DESCRIPTORS
          = IF a < 0 THEN a + TX_DESCRIPTORS
            ELSE IF a < TX_DESCRIPTORS THEN a ELSE a - TX_DESCRIPTORS
    BY <1>1, <1>2, Once
  <1>4. CASE k = 0
    <2>1. a % TX_DESCRIPTORS = n
      BY <1>1, <1>2, <1>3, <1>4 DEF a
    <2> QED
      BY <1>4, <2>1 DEF a, Nth
  <1>5. CASE k # 0
    <2>1. a % TX_DESCRIPTORS # n
      BY <1>1, <1>2, <1>3, <1>5 DEF a
    <2> QED
      BY <1>5, <2>1 DEF a, Nth
  <1> QED
    BY <1>4, <1>5

\* The descriptors handed over are finitely many, and no more than there are.
LEMMA OwnedFinite ==
  ASSUME TypeOK
  PROVE  /\ IsFiniteSet(owned) /\ Cardinality(owned) \in 0 .. TX_DESCRIPTORS
         /\ tx_cur \in 0 .. TX_DESCRIPTORS - 1 /\ tx_next \in 0 .. TX_DESCRIPTORS - 1
  <1>1. TX_DESCRIPTORS \in Nat \ {0}
    BY NicConstants
  <1>2. owned \subseteq 0 .. TX_DESCRIPTORS - 1
    BY DEF TypeOK
  <1>3. /\ IsFiniteSet(0 .. TX_DESCRIPTORS - 1)
        /\ Cardinality(0 .. TX_DESCRIPTORS - 1) = TX_DESCRIPTORS
    <2>1. ASSUME NEW b, b = TX_DESCRIPTORS - 1
          PROVE  IsFiniteSet(0 .. b) /\ Cardinality(0 .. b) = IF 0 > b THEN 0 ELSE b - 0 + 1
      BY <1>1, <2>1, FS_Interval
    <2> QED
      BY <1>1, <2>1
  <1>4. IsFiniteSet(owned) /\ Cardinality(owned) <= TX_DESCRIPTORS
    BY <1>2, <1>3, FS_Subset
  <1>5. Cardinality(owned) \in Nat
    BY <1>4, FS_CardinalityType
  <1> QED
    BY <1>1, <1>4, <1>5 DEF TypeOK

LEMMA SendKeepsTurn ==
  ASSUME TypeOK, TransmitInStep, rtl8139_send
  PROVE  TransmitInStep'
  <1> SUFFICES ASSUME ~lapped' PROVE HandedOver'
    BY DEF TransmitInStep
  <1>0. HandedOver /\ tx_cur \notin owned
    BY DEF TransmitInStep, rtl8139_send
  <1> DEFINE c == Cardinality(owned)
             n == tx_next
  <1>1. c \in 0 .. TX_DESCRIPTORS /\ n \in 0 .. TX_DESCRIPTORS - 1 /\ TX_DESCRIPTORS \in Nat
    BY OwnedFinite, NicConstants
  <1>2. Cardinality(owned') = c + 1
    BY <1>0, OwnedFinite, FS_AddElement DEF rtl8139_send
  <1>3. owned = {Nth(n, k) : k \in 0 .. c - 1} /\ tx_cur = Nth(n, c)
    BY <1>0 DEF HandedOver
  <1>4. /\ owned' = owned \cup {tx_cur} /\ tx_next' = n
        /\ tx_cur' = (tx_cur + 1) % TX_DESCRIPTORS
    BY DEF rtl8139_send
  <1> HIDE DEF c, n
  <1>5. tx_cur' = Nth(n, c + 1)
    BY <1>1, <1>3, <1>4, NthStep
  <1>6. owned' = {Nth(n, k) : k \in 0 .. c}
    <2>1. 0 .. c = (0 .. c - 1) \cup {c}
      BY <1>1
    <2> QED
      BY <1>3, <1>4, <2>1, Zenon
  <1>7. (c + 1) - 1 = c
    BY <1>1
  <1> QED
    BY <1>2, <1>4, <1>5, <1>6, <1>7 DEF HandedOver

LEMMA SentKeepsTurn ==
  ASSUME TypeOK, TransmitInStep, Sent
  PROVE  TransmitInStep'
  <1> SUFFICES ASSUME ~lapped' PROVE HandedOver'
    BY DEF TransmitInStep
  <1>0. HandedOver
    BY DEF TransmitInStep, Sent
  <1> DEFINE c == Cardinality(owned)
             n == tx_next
             m == (n + 1) % TX_DESCRIPTORS
  <1>1. /\ c \in 0 .. TX_DESCRIPTORS /\ n \in 0 .. TX_DESCRIPTORS - 1
        /\ TX_DESCRIPTORS \in Nat
    BY OwnedFinite, NicConstants
  <1>2. n \in owned /\ owned' = owned \ {n} /\ tx_next' = m /\ tx_cur' = tx_cur
    BY DEF Sent, driver
  <1>3. Cardinality(owned') = c - 1
    BY <1>2, OwnedFinite, FS_RemoveElement
  <1>4. owned = {Nth(n, k) : k \in 0 .. c - 1} /\ tx_cur = Nth(n, c)
    BY <1>0 DEF HandedOver
  <1>5. \A k \in Nat : Nth(m, k) = Nth(n, k + 1)
    BY <1>1, NthStep
  <1> HIDE DEF c, n, m
  <1>6. c >= 1
    BY <1>1, <1>2, <1>4
  <1>7. tx_cur' = Nth(m, c - 1)
    <2>1. c - 1 \in Nat /\ (c - 1) + 1 = c
      BY <1>1, <1>6
    <2> QED
      BY <1>2, <1>4, <1>5, <2>1
  <1>8. owned' = {Nth(m, k) : k \in 0 .. (c - 1) - 1}
    <2>1. ASSUME NEW x \in owned'
          PROVE  \E k \in 0 .. (c - 1) - 1 : x = Nth(m, k)
      <3>1. PICK j \in 0 .. c - 1 : x = Nth(n, j)
        BY <1>2, <1>4, <2>1
      <3>2. x # n
        BY <1>2, <2>1
      <3>3. j # 0
        <4>1. j \in 0 .. TX_DESCRIPTORS - 1
          BY <1>1, <3>1
        <4>2. Nth(n, j) # n
          BY <3>1, <3>2
        <4>3. Nth(n, j) = n <=> j = 0
          BY <1>1, <4>1, NthApart
        <4> QED
          BY <4>2, <4>3
      <3>4. j - 1 \in 0 .. (c - 1) - 1 /\ j - 1 \in Nat /\ (j - 1) + 1 = j
        BY <1>1, <3>1, <3>3
      <3>5. x = Nth(m, j - 1)
        BY <1>5, <3>1, <3>4
      <3> QED
        BY <3>4, <3>5
    <2>2. ASSUME NEW k \in 0 .. (c - 1) - 1
          PROVE  Nth(m, k) \in owned'
      <3>1. /\ k + 1 \in 0 .. c - 1 /\ k \in Nat /\ k + 1 # 0
            /\ k + 1 \in 0 .. TX_DESCRIPTORS - 1
        BY <1>1, <2>2
      <3>2. Nth(m, k) = Nth(n, k + 1)
        BY <1>5, <3>1
      <3>3. Nth(n, k + 1) # n
        BY <1>1, <3>1, NthApart
      <3> QED
        BY <1>2, <1>4, <3>1, <3>2, <3>3
    <2> QED
      BY <2>1, <2>2
  <1> QED
    BY <1>2, <1>3, <1>7, <1>8 DEF HandedOver

-----------------------------------------------------------------------------
(* The count of frames                                                      *)

\* What the card has accepted, less what the driver has counted, is in the ring.
Counted ==
  (received - rx_packets_seen - Cardinality(DOMAIN frames)) % COUNT_MOD = 0

LEMMA FramesFinite ==
  ASSUME TypeOK
  PROVE  IsFiniteSet(DOMAIN frames) /\ Cardinality(DOMAIN frames) \in Nat
  <1>1. IsFiniteSet(0 .. RING - 1)
    <2>1. ASSUME NEW b, b = RING - 1
          PROVE  IsFiniteSet(0 .. b)
      BY <2>1, FS_Interval, NicConstants
    <2> QED
      BY <2>1
  <1>2. IsFiniteSet(DOMAIN frames)
    BY <1>1, FS_Subset DEF TypeOK
  <1> QED
    BY <1>2, FS_CardinalityType

LEMMA ReceiveKeepsCount ==
  ASSUME TypeOK, RingInv, Counted, TypeOK', NEW length \in Lengths,
         NEW h \in BadLengths \cup {length}, Receive(length, h)
  PROVE  Counted'
  <1> DEFINE c == Cardinality(DOMAIN frames)
             a == received + 1
             b == 0 - rx_packets_seen - (c + 1)
             m == a % COUNT_MOD
  <1>1. Cardinality(DOMAIN frames') = c + 1
    <2>1. wr \notin DOMAIN frames /\ DOMAIN frames' = DOMAIN frames \cup {wr}
      BY WriteMoves
    <2> QED
      BY <2>1, FramesFinite, FS_AddElement
  <1>2. c \in Nat /\ received \in Int /\ rx_packets_seen \in Int
    BY FramesFinite, NicConstants DEF TypeOK
  <1>3. COUNT_MOD \in Nat \ {0}
    BY NicConstants
  <1>4. received' = m /\ rx_packets_seen' = rx_packets_seen
    BY DEF Receive, receiver
  <1> HIDE DEF c
  <1>5. a \in Int /\ b \in Int /\ a + b = received - rx_packets_seen - c
    BY <1>2
  <1>6. (a + b) % COUNT_MOD = 0
    BY <1>5 DEF Counted, c
  <1>7. (m + b) % COUNT_MOD = 0
    <2> HIDE DEF a, b
    <2> QED
      BY <1>3, <1>5, <1>6, RemainderSum
  <1>8. m \in Int
    <2> HIDE DEF a
    <2> QED
      BY <1>3, <1>5, RemainderType
  <1> HIDE DEF m
  <1>9. m + b = m - rx_packets_seen - (c + 1)
    BY <1>2, <1>8
  <1> QED
    BY <1>1, <1>4, <1>7, <1>9, Zenon DEF Counted

LEMMA TakeKeepsCount ==
  ASSUME TypeOK, RingInv, rx_offset = rd, Counted, TakeFrame
  PROVE  Counted'
  <1> DEFINE c == Cardinality(DOMAIN frames)
             a == rx_packets_seen + 1
             b == received - (c - 1)
             m == a % COUNT_MOD
  <1>1. Cardinality(DOMAIN frames') = c - 1
    <2>1. rd \in DOMAIN frames
      BY NextFrame DEF TakeFrame
    <2>2. DOMAIN frames' = DOMAIN frames \ {rd}
      BY DEF TakeFrame
    <2> QED
      BY <2>1, <2>2, FramesFinite, FS_RemoveElement
  <1>2. c \in Nat /\ received \in Int /\ rx_packets_seen \in Int
    BY FramesFinite, NicConstants DEF TypeOK
  <1>3. COUNT_MOD \in Nat \ {0}
    BY NicConstants
  <1>4. received' = received /\ rx_packets_seen' = m
    BY DEF TakeFrame
  <1> HIDE DEF c
  <1>5. a \in Int /\ b \in Int /\ b - a = received - rx_packets_seen - c
    BY <1>2
  <1>6. (b - a) % COUNT_MOD = 0
    BY <1>5 DEF Counted, c
  <1>7. (b - m) % COUNT_MOD = 0
    <2> HIDE DEF a, b
    <2> QED
      BY <1>3, <1>5, <1>6, RemainderMinus
  <1>8. m \in Int
    <2> HIDE DEF a
    <2> QED
      BY <1>3, <1>5, RemainderType
  <1> HIDE DEF m
  <1>9. b - m = received - m - (c - 1)
    BY <1>2, <1>8
  <1> QED
    BY <1>1, <1>4, <1>7, <1>9, Zenon DEF Counted

-----------------------------------------------------------------------------
(* The inductive invariant                                                  *)

\* What IInv says, with the parts of InStep that need a proof of their own; the
\* rest of InStep follows from the order of the frames.
Core ==
  /\ TypeOK /\ RingInv /\ rx_offset = rd
  /\ TransmitInStep /\ Counted
  /\ NoLostWakeup /\ StatusInv

LEMMA CoreIsEnough == Core => IInv
  <1> SUFFICES ASSUME Core PROVE IInv
    OBVIOUS
  <1>1. (Empty <=> rx_offset \notin DOMAIN frames) /\ (Empty <=> DOMAIN frames = {})
    BY EmptyRing, Zenon DEF Core
  <1>2. rx_offset = rd /\ Counted
    BY DEF Core
  <1>3. InStep
    BY <1>1, <1>2, Zenon DEF InStep, Counted
  <1> QED
    BY <1>3 DEF Core, IInv

LEMMA InitCore == Init => Core
  <1> SUFFICES ASSUME Init PROVE Core
    OBVIOUS
  <1>1. /\ RING \in Nat \ {0} /\ COUNT_MOD \in Nat \ {0}
        /\ TX_DESCRIPTORS \in Nat \ {0} /\ GUARD \in Nat
    BY NicConstants
  <1>2. DOMAIN frames = {} /\ owned = {}
    BY DEF Init
  <1>3. CAPR_MOD \in Nat \ {0} /\ CAPR_MOD > 16
    BY RingSize
  <1>4. rd = 0
    <2>1. capr + 16 = CAPR_MOD
      BY <1>3 DEF Init
    <2> QED
      BY <2>1, NicConstants DEF rd
  <1>5. TypeOK
    <2>1. capr \in 0 .. CAPR_MOD - 1
      BY <1>3 DEF Init
    <2>2. pc \in {"init", "idle", "ack", "loop"} /\ lapped \in BOOLEAN
      BY DEF Init
    <2> QED
      BY <1>1, <1>2, <2>1, <2>2 DEF Init, TypeOK
  <1>6. RingInv
    <2>1. frames \in [DOMAIN frames -> Frame]
      BY <1>2 DEF Init
    <2>2. wr = 0
      BY DEF Init
    <2> QED
      BY <1>2, <1>4, <2>1, <2>2 DEF RingInv
  <1>7. Cardinality({}) = 0
    BY FS_EmptySet
  <1>8. HandedOver
    <2>1. Nth(0, 0) = 0
      <3>1. 0 \in 0 .. TX_DESCRIPTORS - 1
        BY <1>1
      <3> QED
        BY <3>1, NthApart
    <2>2. {Nth(tx_next, k) : k \in 0 .. 0 - 1} = {}
      OBVIOUS
    <2>3. tx_cur = 0 /\ tx_next = 0
      BY DEF Init
    <2> QED
      BY <1>2, <1>7, <2>1, <2>2, <2>3 DEF HandedOver
  <1>9. Counted
    <2>1. received = 0 /\ rx_packets_seen = 0
      BY DEF Init
    <2>2. 0 % COUNT_MOD = 0
      BY <1>1
    <2> QED
      BY <1>2, <1>7, <2>1, <2>2 DEF Counted
  <1>10. Empty
    BY <1>4 DEF Init, Empty
  <1>11. rx_offset = rd
    BY <1>4 DEF Init
  <1> QED
    BY <1>5, <1>6, <1>8, <1>9, <1>10, <1>11
       DEF Core, TransmitInStep, NoLostWakeup, StatusInv

\* The steps that leave the ring and the descriptors alone keep what is said
\* about them.
LEMMA RingUntouched ==
  ASSUME RingInv, rx_offset = rd, Counted,
         UNCHANGED <<capr, wr, frames, rx_offset, rx_packets_seen, received>>
  PROVE  /\ RingInv' /\ rx_offset' = rd' /\ Counted' /\ Used' = Used
         /\ (Empty' <=> Empty) /\ (Stuck' <=> Stuck)
  <1>1. rd' = rd
    BY DEF rd
  <1>2. \A o : Dist(o)' = Dist(o) /\ Behind(o)' = Behind(o) /\ After(o)' = After(o)
    BY <1>1 DEF Dist, Behind, After
  <1>3. Used' = Used
    BY <1>1 DEF Used
  <1>4. RingInv'
    BY <1>1, <1>2, <1>3 DEF RingInv
  <1>5. (Empty' <=> Empty) /\ (Stuck' <=> Stuck)
    BY <1>1 DEF Empty, Stuck, Believable, header
  <1>6. Counted'
    BY DEF Counted
  <1> QED
    BY <1>1, <1>3, <1>4, <1>5, <1>6

LEMMA DescriptorsUntouched ==
  ASSUME TransmitInStep, UNCHANGED transmitter
  PROVE  TransmitInStep'
  BY DEF TransmitInStep, HandedOver, transmitter

\* The counters of frames wrap; every step keeps the types.
LEMMA ReceiveType ==
  ASSUME TypeOK, NEW length \in Lengths, NEW h, Receive(length, h)
  PROVE  TypeOK'
  <1> DEFINE m == (received + 1) % COUNT_MOD
             w == (wr + Slot(length)) % RING
  <1>1. COUNT_MOD \in Nat \ {0} /\ RING \in Nat \ {0}
    BY NicConstants
  <1>2. m \in 0 .. COUNT_MOD - 1
    <2>1. received + 1 \in Int
      BY <1>1 DEF TypeOK
    <2> QED
      BY <1>1, <2>1, RemainderType
  <1>3. w \in 0 .. RING - 1
    <2>1. wr + Slot(length) \in Int
      BY <1>1, LengthType, SlotSize DEF TypeOK
    <2> QED
      BY <1>1, <2>1, RemainderType
  <1>4. received' = m /\ wr' = w
    BY DEF Receive
  <1> HIDE DEF m, w
  <1>5. DOMAIN frames' \subseteq 0 .. RING - 1
    BY DEF Receive, TypeOK
  <1>6. isr' \subseteq IMR
    BY DEF Receive, TypeOK
  <1> QED
    BY <1>2, <1>3, <1>4, <1>5, <1>6 DEF Receive, TypeOK, receiver, transmitter

LEMMA TakeType ==
  ASSUME TypeOK, RingInv, rx_offset = rd, TakeFrame
  PROVE  TypeOK'
  <1> DEFINE m == (rx_packets_seen + 1) % COUNT_MOD
             c == (NextOffset - 16) % CAPR_MOD
  <1>1. COUNT_MOD \in Nat \ {0} /\ GUARD \in Nat
    BY NicConstants
  <1>2. m \in 0 .. COUNT_MOD - 1
    <2>1. rx_packets_seen + 1 \in Int
      BY <1>1 DEF TypeOK
    <2> QED
      BY <1>1, <2>1, RemainderType
  <1>3. NextOffset \in 0 .. RING - 1
    BY NextFrame DEF TakeFrame
  <1>4. c \in 0 .. CAPR_MOD - 1
    BY <1>3, CaprWraps
  <1>5. rx_packets_seen' = m /\ capr' = c /\ rx_offset' = NextOffset
    BY DEF TakeFrame
  <1>6. guard' \in 0 .. GUARD
    BY <1>1 DEF TakeFrame, TypeOK
  <1>7. DOMAIN frames' \subseteq 0 .. RING - 1
    BY DEF TakeFrame, TypeOK
  <1> HIDE DEF m, c
  <1> QED
    BY <1>2, <1>3, <1>4, <1>5, <1>6, <1>7 DEF TakeFrame, TypeOK, transmitter

LEMMA TransmitType ==
  ASSUME TypeOK, rtl8139_send \/ Sent
  PROVE  TypeOK'
  <1>1. TX_DESCRIPTORS \in Nat \ {0}
    BY NicConstants
  <1>2. ASSUME NEW d, d \in 0 .. TX_DESCRIPTORS - 1
        PROVE  (d + 1) % TX_DESCRIPTORS \in 0 .. TX_DESCRIPTORS - 1
    <2>1. d + 1 \in Int
      BY <1>1, <1>2
    <2> QED
      BY <1>1, <2>1, RemainderType
  <1>3. tx_cur \in 0 .. TX_DESCRIPTORS - 1 /\ tx_next \in 0 .. TX_DESCRIPTORS - 1
    BY DEF TypeOK
  <1>4. CASE rtl8139_send
    <2>1. tx_cur' \in 0 .. TX_DESCRIPTORS - 1
      BY <1>2, <1>3, <1>4 DEF rtl8139_send
    <2> QED
      BY <1>4, <2>1 DEF rtl8139_send, TypeOK, receiver
  <1>5. CASE Sent
    <2>1. tx_next' \in 0 .. TX_DESCRIPTORS - 1
      BY <1>2, <1>3, <1>5 DEF Sent
    <2> QED
      BY <1>5, <2>1 DEF Sent, TypeOK, driver, receiver
  <1> QED
    BY <1>4, <1>5

LEMMA DriverType ==
  ASSUME TypeOK, Install \/ ReadStatus \/ Acknowledge \/ LoopDone \/ LoopCorrupted
  PROVE  TypeOK'
  <1>1. GUARD \in Nat
    BY NicConstants
  <1>2. CASE Install
    BY <1>2 DEF Install, TypeOK, card
  <1>3. CASE ReadStatus
    BY <1>3 DEF ReadStatus, TypeOK, card
  <1>4. CASE Acknowledge
    BY <1>1, <1>4 DEF Acknowledge, TypeOK, transmitter
  <1>5. CASE LoopDone
    BY <1>5 DEF LoopDone, TypeOK, card
  <1>6. CASE LoopCorrupted
    BY <1>6 DEF LoopCorrupted, TypeOK, card
  <1> QED
    BY <1>2, <1>3, <1>4, <1>5, <1>6

LEMMA NextCore == Core /\ [Next]_vars => Core'
  <1> SUFFICES ASSUME Core, [Next]_vars PROVE Core'
    OBVIOUS
  <1>1. TypeOK /\ RingInv /\ rx_offset = rd /\ TransmitInStep /\ Counted
    BY DEF Core
  <1>2. NoLostWakeup /\ StatusInv
    BY DEF Core
  <1>3. ASSUME NEW length \in Lengths, NEW h \in BadLengths \cup {length},
               Receive(length, h)
        PROVE  Core'
    <2>1. TypeOK'
      BY <1>1, <1>3, ReceiveType
    <2>2. RingInv'
      BY <1>1, <1>3, <2>1, ReceiveKeepsRing
    <2>3. rx_offset' = rd'
      BY <1>1, <1>3 DEF Receive, receiver, rd
    <2>4. TransmitInStep'
      BY <1>1, <1>3, DescriptorsUntouched DEF Receive, transmitter
    <2>5. Counted'
      BY <1>1, <1>3, <2>1, ReceiveKeepsCount
    <2>6. ROK \in isr'
      BY <1>3 DEF Receive
    <2> QED
      BY <2>1, <2>2, <2>3, <2>4, <2>5, <2>6 DEF Core, NoLostWakeup, StatusInv
  <1>4. CASE TakeFrame
    <2>1. TypeOK'
      BY <1>1, <1>4, TakeType
    <2>2. RingInv' /\ rx_offset' = rd'
      BY <1>1, <1>4, <2>1, TakeKeepsRing
    <2>3. TransmitInStep'
      BY <1>1, <1>4, DescriptorsUntouched DEF TakeFrame, transmitter
    <2>4. Counted'
      BY <1>1, <1>4, TakeKeepsCount
    <2>5. pc' = "loop"
      BY <1>4 DEF TakeFrame
    <2> QED
      BY <2>1, <2>2, <2>3, <2>4, <2>5 DEF Core, NoLostWakeup, StatusInv
  <1>5. ASSUME UNCHANGED <<capr, wr, frames, rx_offset, rx_packets_seen, received>>,
               TypeOK', TransmitInStep', (NoLostWakeup /\ StatusInv)'
        PROVE  Core'
    BY <1>1, <1>5, RingUntouched DEF Core
  <1>6. ASSUME UNCHANGED <<capr, wr, frames, rx_offset, rx_packets_seen, received>>
        PROVE  (Empty' <=> Empty) /\ (Stuck' <=> Stuck)
    BY <1>1, <1>6, RingUntouched
  <1>7. CASE rtl8139_send
    <2>1. TypeOK' /\ TransmitInStep'
      BY <1>1, <1>7, TransmitType, SendKeepsTurn
    <2>2. /\ UNCHANGED <<capr, wr, frames, rx_offset, rx_packets_seen, received>>
          /\ UNCHANGED <<pc, status, guard, isr>>
      BY <1>7 DEF rtl8139_send, receiver
    <2>3. (NoLostWakeup /\ StatusInv)'
      BY <1>2, <1>6, <2>2 DEF NoLostWakeup, StatusInv
    <2> QED
      BY <1>5, <2>1, <2>2, <2>3
  <1>8. CASE Sent
    <2>1. TypeOK' /\ TransmitInStep'
      BY <1>1, <1>8, TransmitType, SentKeepsTurn
    <2>2. /\ UNCHANGED <<capr, wr, frames, rx_offset, rx_packets_seen, received>>
          /\ UNCHANGED <<pc, status, guard>> /\ isr \subseteq isr'
      BY <1>8 DEF Sent, driver, receiver
    <2>3. (NoLostWakeup /\ StatusInv)'
      BY <1>2, <1>6, <2>2 DEF NoLostWakeup, StatusInv
    <2> QED
      BY <1>5, <2>1, <2>2, <2>3
  <1>9. CASE Install
    <2>1. TypeOK' /\ TransmitInStep'
      BY <1>1, <1>9, DriverType, DescriptorsUntouched DEF Install, card, transmitter
    <2>2. /\ UNCHANGED <<capr, wr, frames, rx_offset, rx_packets_seen, received>>
          /\ UNCHANGED <<status, guard, isr>> /\ pc = "init" /\ pc' = "idle"
      BY <1>9 DEF Install, card
    <2>3. (NoLostWakeup /\ StatusInv)'
      BY <1>2, <1>6, <2>2 DEF NoLostWakeup, StatusInv
    <2> QED
      BY <1>5, <2>1, <2>2, <2>3
  <1>10. CASE ReadStatus
    <2>1. TypeOK' /\ TransmitInStep'
      BY <1>1, <1>10, DriverType, DescriptorsUntouched
         DEF ReadStatus, card, transmitter
    <2>2. /\ UNCHANGED <<capr, wr, frames, rx_offset, rx_packets_seen, received>>
          /\ UNCHANGED <<guard, isr>> /\ pc = "idle" /\ pc' = "ack" /\ status' = isr
      BY <1>10 DEF ReadStatus, card
    <2>3. (NoLostWakeup /\ StatusInv)'
      BY <1>2, <1>6, <2>2 DEF NoLostWakeup, StatusInv
    <2> QED
      BY <1>5, <2>1, <2>2, <2>3
  <1>11. CASE Acknowledge
    <2>1. TypeOK' /\ TransmitInStep'
      BY <1>1, <1>11, DriverType, DescriptorsUntouched DEF Acknowledge, transmitter
    <2>2. /\ UNCHANGED <<capr, wr, frames, rx_offset, rx_packets_seen, received>>
          /\ pc = "ack" /\ isr' = isr \ status
          /\ pc' = IF ROK \in status THEN "loop" ELSE "idle"
          /\ guard' = IF ROK \in status THEN 0 ELSE guard
      BY <1>11 DEF Acknowledge
    <2>3. CASE ROK \in status
      <3>1. pc' = "loop"
        BY <2>2, <2>3
      <3>2. (NoLostWakeup /\ StatusInv)'
        BY <3>1 DEF NoLostWakeup, StatusInv
      <3> QED
        BY <1>5, <2>1, <2>2, <3>2
    <2>4. CASE ROK \notin status
      <3>1. pc' = "idle" /\ guard' = guard /\ (ROK \in isr => ROK \in isr')
        BY <2>2, <2>4
      <3>2. (NoLostWakeup /\ StatusInv)'
        BY <1>2, <1>6, <2>2, <2>4, <3>1 DEF NoLostWakeup, StatusInv
      <3> QED
        BY <1>5, <2>1, <2>2, <3>2
    <2> QED
      BY <2>3, <2>4
  <1>12. CASE LoopDone
    <2>1. TypeOK' /\ TransmitInStep'
      BY <1>1, <1>12, DriverType, DescriptorsUntouched
         DEF LoopDone, card, transmitter
    <2>2. /\ UNCHANGED <<capr, wr, frames, rx_offset, rx_packets_seen, received>>
          /\ UNCHANGED <<status, guard, isr>> /\ pc' = "idle"
          /\ Empty \/ guard = GUARD
      BY <1>12 DEF LoopDone, card
    <2>3. (NoLostWakeup /\ StatusInv)'
      BY <1>6, <2>2 DEF NoLostWakeup, StatusInv
    <2> QED
      BY <1>5, <2>1, <2>2, <2>3
  <1>13. CASE LoopCorrupted
    <2>1. TypeOK' /\ TransmitInStep'
      BY <1>1, <1>13, DriverType, DescriptorsUntouched
         DEF LoopCorrupted, card, transmitter
    <2>2. /\ UNCHANGED <<capr, wr, frames, rx_offset, rx_packets_seen, received>>
          /\ UNCHANGED <<status, guard, isr>> /\ pc' = "idle"
          /\ ~Empty /\ ~Believable
      BY <1>13 DEF LoopCorrupted, card
    <2>3. Stuck
      BY <1>1, <2>2, EmptyRing DEF Stuck
    <2>4. (NoLostWakeup /\ StatusInv)'
      BY <1>6, <2>2, <2>3 DEF NoLostWakeup, StatusInv
    <2> QED
      BY <1>5, <2>1, <2>2, <2>4
  <1>14. CASE UNCHANGED vars
    <2>1. /\ UNCHANGED <<capr, wr, frames, rx_offset, rx_packets_seen, received>>
          /\ UNCHANGED <<pc, status, guard, isr>>
          /\ UNCHANGED transmitter
      BY <1>14 DEF vars, driver, receiver, card, transmitter
    <2>2. TypeOK' /\ TransmitInStep'
      BY <1>1, <2>1, DescriptorsUntouched DEF TypeOK, transmitter
    <2>3. (NoLostWakeup /\ StatusInv)'
      BY <1>2, <1>6, <2>1 DEF NoLostWakeup, StatusInv
    <2> QED
      BY <1>5, <2>1, <2>2, <2>3
  <1>15. CASE Receives
    BY <1>3, <1>15 DEF Receives
  <1>16. CASE Corrupted
    BY <1>3, <1>16 DEF Corrupted
  <1> QED
    BY <1>4, <1>7, <1>8, <1>9, <1>10, <1>11, <1>12, <1>13, <1>14, <1>15, <1>16
    DEF Next, rtl_irq_handler

-----------------------------------------------------------------------------
(* The theorems                                                             *)

\* The invariant of driver and card.
THEOREM Invariance == Spec => []IInv
  <1>1. Spec => []Core
    BY InitCore, NextCore, PTL DEF Spec
  <1> QED
    BY <1>1, CoreIsEnough, PTL

\* Every variable keeps its type: the positions stay in the ring, the counters
\* and CAPR in their words.
THEOREM TypeCorrect == Spec => []TypeOK
  <1>1. IInv => TypeOK
    BY DEF IInv
  <1> QED
    BY <1>1, Invariance, PTL

\* Driver and card stay in step, in a ring of any size that divides 2^16 and
\* with frames of any lengths: about where the next frame starts and about how
\* many frames there have been.
THEOREM StaysInStep == Spec => []InStep
  <1>1. IInv => InStep
    BY DEF IInv
  <1> QED
    BY <1>1, Invariance, PTL

\* For any number of transmit descriptors driver and card agree on whose turn it
\* is, until the driver hands over a descriptor that the card still has.
THEOREM StaysInTurn == Spec => []TransmitInStep
  <1>1. IInv => TransmitInStep
    BY DEF IInv
  <1> QED
    BY <1>1, Invariance, PTL

\* No frame waits for an interrupt that will not come, unless the handler has
\* stopped at its limit or at a corrupted header.
THEOREM WakeupsKept == Spec => []NoLostWakeup
  <1>1. IInv => NoLostWakeup
    BY DEF IInv
  <1> QED
    BY <1>1, Invariance, PTL

\* The card stays in the block behind rx_buffer if the block has room for the
\* longest frame behind the ring, header excluded: a frame starts no later than
\* at the last multiple of 4 in the ring.
THEOREM DmaStaysInBlock ==
  ASSUME \A length \in Lengths : RING + length <= RxBlock
  PROVE  Spec => []DmaInBlock
  <1>1. IInv => DmaInBlock
    <2> SUFFICES ASSUME IInv, NEW o \in DOMAIN frames
                 PROVE  o + 4 + frames[o].length <= RxBlock
      BY DEF DmaInBlock
    <2> DEFINE l == frames[o].length
    <2>1. TypeOK /\ RingInv
      BY DEF IInv
    <2>2. l \in Lengths
      BY <2>1, FrameType
    <2>3. l \in Nat /\ RING + l <= RxBlock
      BY <2>2, LengthType
    <2>4. o \in 0 .. RING - 1 /\ o % 4 = 0
      BY <2>1 DEF TypeOK, RingInv
    <2>5. RING \in Nat \ {0} /\ RING % 4 = 0
      BY NicConstants
    <2>6. o + 4 <= RING
      BY <2>4, <2>5
    <2>7. RxBlock \in Int
      <3>1. RX_BUF_SIZE + ALIGNMENT - 1 \in Int
        BY NicConstants DEF RX_BUF_SIZE
      <3> QED
        BY <3>1, NicConstants DEF RxBlock
    <2> HIDE DEF l
    <2>8. o + 4 + l <= RxBlock
      BY <2>3, <2>4, <2>5, <2>6, <2>7
    <2> QED
      BY <2>8 DEF l
  <1> QED
    BY <1>1, Invariance, PTL

\* With the numbers of the code it has, for the frames of an Ethernet, CRC
\* included; RX_BUF_SIZE alone has not: 8192 + 1518 > 9708.
THEOREM RoomInTheCode ==
  ASSUME RING = 8192, HEADROOM = 16, PAD = 1500, ALIGNMENT = 8,
         Lengths \subseteq 4 .. 1518
  PROVE  \A length \in Lengths : RING + length <= RxBlock
  <1>1. RX_BUF_SIZE + ALIGNMENT - 1 = 9715
    BY DEF RX_BUF_SIZE
  <1>2. RxBlock = 9712
    BY <1>1 DEF RxBlock
  <1> QED
    BY <1>2

=============================================================================
