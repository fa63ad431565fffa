---------------------------- MODULE PacingProofs ----------------------------
(***************************************************************************)
(* The frame pacing of Load_Proc2 for every rate, clock and word: until    *)
(* the products wrap, the game stays at most two frames ahead of the clock *)
(* and at most maxSkips frames in a row are not shown.                     *)
(***************************************************************************)
EXTENDS FramePacing, TLAPS

(* Multiplication by a natural number keeps the order. *)
LEMMA MulMono == ASSUME NEW a \in Nat, NEW b \in Nat, NEW m \in Nat, a <= b
                 PROVE  m * a <= m * b
<1>1. PICK k \in Nat : b = a + k
  BY SMT
<1>2. m * b = m * a + m * k /\ m * k \in Nat
  BY <1>1, SMT
<1> QED
  BY <1>2, SMT

LEMMA MulNat == ASSUME NEW a \in Nat, NEW m \in Nat PROVE m * a \in Nat
  BY SMT

(* What \div is, as products. *)
LEMMA DivBounds == ASSUME NEW x \in Nat, NEW m \in Nat \ {0}
                   PROVE  /\ x \div m \in Nat
                          /\ m * (x \div m) <= x
                          /\ x < m * (x \div m) + m
  BY SMT

(* A multiple below x is a lower bound of the quotient. *)
LEMMA DivAtLeast == ASSUME NEW x \in Nat, NEW m \in Nat \ {0}, NEW q \in Nat,
                           m * q <= x
                    PROVE  q <= x \div m
<1> DEFINE d == x \div m
<1>1. d \in Nat /\ x < m * d + m
  BY DivBounds
<1>2. ASSUME d + 1 <= q PROVE FALSE
  <2>1. m * (d + 1) <= m * q
    BY <1>1, <1>2, MulMono
  <2>2. m * (d + 1) = m * d + m
    BY <1>1, SMT
  <2>3. m * d \in Nat /\ m * q \in Nat
    BY <1>1, SMT
  <2> QED
    BY <1>1, <2>1, <2>2, <2>3, SMT
<1> QED
  BY <1>1, <1>2, SMT

(* Below the word, % changes nothing. *)
LEMMA ModSmall == ASSUME NEW x \in Nat, x < Word PROVE x % Word = x
  BY PacingAssumption, SMT

LEMMA FrameRate == /\ Fps \in Nat \ {0} /\ Second \in Nat \ {0}
                   /\ Fps <= Second /\ Word \in Nat \ {0} /\ maxSkips \in Nat
  BY PacingAssumption, SMT

(* The frames due are a natural number, wrapped or not. *)
LEMMA DueType == ASSUME NEW t \in Nat PROVE Due(t) \in Nat
<1>1. Fps * t \in Nat
  BY FrameRate, SMT
<1>2. (Fps * t) % Word \in Nat
  BY <1>1, FrameRate, SMT
<1> QED
  BY <1>2, FrameRate, DivBounds DEF Due

(* So is the time of a frame. *)
LEMMA DueAtType == ASSUME NEW f \in Nat PROVE DueAt(f) \in Nat
<1>1. f * Second - Second \in Int
  BY FrameRate, SMT
<1>2. (f * Second - Second) % Word \in Nat
  BY <1>1, FrameRate, SMT
<1> QED
  BY <1>2, FrameRate, DivBounds DEF DueAt

(* While the product fits the word, what is due is a true quotient. *)
LEMMA DueExact == ASSUME NEW t \in Nat, Fps * t < Word
                  PROVE  /\ Second * Due(t) <= Fps * t
                         /\ Fps * t < Second * Due(t) + Second
<1>1. Fps * t \in Nat
  BY FrameRate, SMT
<1>2. Due(t) = (Fps * t) \div Second
  BY <1>1, ModSmall DEF Due
<1> QED
  BY <1>1, <1>2, FrameRate, DivBounds

(* Until the wrap, what is due only grows. *)
LEMMA DueMono == ASSUME NEW s \in Nat, NEW t \in Nat, s <= t, Fps * t < Word
                 PROVE  Fps * s <= Fps * t /\ Due(s) <= Due(t)
<1>1. Fps * s <= Fps * t /\ Fps * s \in Nat /\ Fps * t \in Nat
  BY FrameRate, MulMono, SMT
<1>2. Due(s) \in Nat /\ Due(t) = (Fps * t) \div Second
  BY <1>1, DueType, ModSmall DEF Due
<1>3. Second * Due(s) <= Fps * t
  <2>0. Fps * s < Word
    BY <1>1, FrameRate, SMT
  <2>1. Second * Due(s) <= Fps * s
    BY <2>0, DueExact
  <2> HIDE DEF Due
  <2> QED
    BY <1>1, <1>2, <2>1, FrameRate, SMT
<1> QED
  BY <1>1, <1>2, <1>3, FrameRate, DivAtLeast

(* A frame that waited for its time is at most two ahead of the clock. *)
LEMMA WaitEnough ==
  ASSUME NEW f \in Nat \ {0}, NEW e \in Nat, Second * (f - 1) < Word,
         DueAt(f) <= e, Fps * e < Word
  PROVE  f <= Due(e) + 2
<1> DEFINE x == Second * (f - 1)
           d == DueAt(f)
<1>1. x \in Nat /\ f * Second - Second = x
  BY FrameRate, SMT
<1>2. d = x \div Fps
  BY <1>1, ModSmall DEF DueAt
<1>3. d \in Nat /\ x < Fps * d + Fps
  BY <1>1, <1>2, FrameRate, DivBounds
<1>4. Fps * d <= Fps * e
  BY <1>3, FrameRate, MulMono
<1>5. Due(e) \in Nat /\ Fps * e < Second * Due(e) + Second
  BY DueType, DueExact
<1> HIDE DEF d, x
<1>6. x < Second * Due(e) + Second + Second
  <2>1. Fps * d \in Nat /\ Fps * e \in Nat /\ Second * Due(e) \in Nat
    BY <1>3, <1>5, FrameRate, SMT
  <2> QED
    BY <1>1, <1>3, <1>4, <1>5, <2>1, FrameRate, SMT
<1>7. Second * Due(e) + Second + Second = Second * (Due(e) + 2)
  BY <1>5, FrameRate, SMT
<1>8. ASSUME Due(e) + 2 <= f - 1 PROVE FALSE
  <2>1. Second * (Due(e) + 2) <= x
    BY <1>5, <1>8, FrameRate, MulMono DEF x
  <2> QED
    BY <1>1, <1>5, <1>6, <1>7, <2>1, FrameRate, SMT
<1> QED
  BY <1>5, <1>8, SMT

-----------------------------------------------------------------------------
(* The frames not shown are those the counter counts, and while it counts  *)
(* the game is behind the clock: so no early frame finds it above 0.       *)
Behind ==
    /\ FrameCount0 <= Due(elapsed) + 2
    /\ unseen = skipCounter
    /\ skipCounter > 0 => FrameCount0 < Due(elapsed)

PacingInv == PacingTypeOK /\ (Unwrapped => Behind)

(* The type invariant of the pacing survives each of its steps. *)
LEMMA PaceType == ASSUME PacingTypeOK, NEW t \in Nat, Pace(t)
                  PROVE  PacingTypeOK' /\ t <= elapsed'
<1> DEFINE f == (FrameCount0 + 1) % Word
<1>1. f \in Nat /\ Due(t) \in Nat /\ DueAt(f) \in Nat
  <2>1. f \in Nat
    BY FrameRate, SMT DEF PacingTypeOK
  <2> QED
    BY <2>1, DueType, DueAtType
<1>2. unseen' = unseen + 1 \/ unseen' = 0
  BY DEF Pace
<1>3. unseen' \in Nat
  BY <1>2, SMT DEF PacingTypeOK
<1> HIDE DEF f
<1>4. CASE Early(t, f)
  <2>1. elapsed' \in Nat /\ FrameCount0' \in Nat /\ t <= elapsed' /\ skipCounter' \in 0 .. maxSkips
    BY <1>1, <1>4, SMT DEF Early, Later, PacingTypeOK
  <2>2. FrameSkip' \in BOOLEAN
    BY <1>4 DEF Early
  <2> QED
    BY <1>3, <2>1, <2>2 DEF PacingTypeOK
<1>5. CASE Late(t, f)
  <2>1. elapsed' \in Nat /\ FrameCount0' \in Nat /\ t <= elapsed' /\ skipCounter' \in 0 .. maxSkips
    BY <1>1, <1>5, FrameRate, SMT DEF Late, PacingTypeOK
  <2>2. FrameSkip' \in BOOLEAN
    BY <1>5 DEF Late
  <2> QED
    BY <1>3, <2>1, <2>2 DEF PacingTypeOK
<1>6. CASE LetOff(t, f)
  <2>1. elapsed' \in Nat /\ FrameCount0' \in Nat /\ t <= elapsed' /\ skipCounter' \in 0 .. maxSkips
    BY <1>1, <1>6, FrameRate, SMT DEF LetOff
  <2>2. FrameSkip' \in BOOLEAN
    BY <1>6 DEF LetOff
  <2> QED
    BY <1>3, <2>1, <2>2 DEF PacingTypeOK
<1> QED
  BY <1>4, <1>5, <1>6 DEF Pace, f

(* And so does what holds until the wrap. *)
LEMMA PaceBehind == ASSUME PacingInv, NEW t \in Nat, t >= elapsed, Pace(t), Unwrapped'
                    PROVE  Behind'
<1> DEFINE n == FrameCount0 + 1
           f == n % Word
<1>1. /\ elapsed \in Nat /\ elapsed' \in Nat /\ t <= elapsed' /\ elapsed <= elapsed'
      /\ FrameCount0 \in Nat /\ skipCounter \in 0 .. maxSkips
  <2>1. t <= elapsed' /\ PacingTypeOK /\ PacingTypeOK'
    BY PaceType DEF PacingInv
  <2> QED
    BY <2>1, SMT DEF PacingTypeOK
<1>2. /\ Fps * elapsed <= Fps * t /\ Fps * t <= Fps * elapsed'
      /\ Fps * elapsed \in Nat /\ Fps * t \in Nat /\ Fps * elapsed' \in Nat
  <2>1. elapsed <= t
    BY <1>1, SMT
  <2>2. Fps * elapsed <= Fps * t /\ Fps * t <= Fps * elapsed'
    BY <1>1, <2>1, FrameRate, MulMono
  <2>3. Fps * elapsed \in Nat /\ Fps * t \in Nat /\ Fps * elapsed' \in Nat
    BY <1>1, FrameRate, MulNat
  <2> QED
    BY <2>2, <2>3
<1>3. /\ Fps * elapsed' + 3 * Second < Word /\ Fps * elapsed + 3 * Second < Word
      /\ Fps * t < Word /\ Fps * elapsed' < Word /\ Fps * elapsed < Word
  BY <1>2, FrameRate, SMT DEF Unwrapped
<1>4. Behind
  BY <1>3, SMT DEF PacingInv, Unwrapped
<1>5. Due(elapsed) <= Due(t) /\ Due(t) <= Due(elapsed')
  BY <1>1, <1>3, DueMono
<1>6. Due(elapsed) \in Nat /\ Due(t) \in Nat /\ Due(elapsed') \in Nat
  BY <1>1, DueType
<1>7. Second * Due(elapsed) <= Fps * elapsed /\ Second * Due(elapsed) \in Nat
  BY <1>1, <1>3, <1>6, DueExact, FrameRate, SMT
<1> HIDE DEF Due, DueAt
<1>8. n \in Nat \ {0} /\ n <= Due(elapsed) + 3
  BY <1>1, <1>4, <1>6, SMT DEF Behind
<1>9. Second * (n - 1) < Word /\ n < Word
  <2>1. Second * (n - 1) <= Second * (Due(elapsed) + 2)
    BY <1>6, <1>8, FrameRate, MulMono, SMT
  <2>2. Second * (Due(elapsed) + 2) = Second * Due(elapsed) + 2 * Second
    BY <1>6, FrameRate, SMT
  <2>3. 1 * (n - 1) <= Second * (n - 1)
    BY <1>8, FrameRate, SMT
  <2>4. Second * (n - 1) \in Nat
    BY <1>8, FrameRate, SMT
  <2> HIDE DEF n
  <2>5. Second * (n - 1) + Second < Word
    BY <1>2, <1>3, <1>7, <2>1, <2>2, <2>4, FrameRate, SMT
  <2> QED
    BY <1>8, <2>3, <2>4, <2>5, FrameRate, SMT
<1>10. f = n
  BY <1>8, <1>9, ModSmall
<1>11. /\ unseen' = (IF FrameSkip' THEN unseen + 1 ELSE 0)
       /\ Early(t, n) \/ Late(t, n) \/ LetOff(t, n)
  BY <1>10 DEF Pace
<1>12. CASE Early(t, n)
  <2>1. skipCounter = 0
    BY <1>1, <1>4, <1>5, <1>6, <1>12, SMT DEF Early, Behind
  <2>2. FrameSkip' = FALSE /\ skipCounter' = 0 /\ unseen' = 0
    <3>1. (skipCounter > 0) = FALSE
      BY <2>1, SMT
    <3>2. FrameSkip' = FALSE /\ skipCounter' = 0
      BY <1>12, <2>1, <3>1 DEF Early
    <3> QED
      BY <1>11, <3>2
  <2>3. DueAt(n) <= elapsed'
    BY <1>1, <1>8, <1>12, DueAtType, SMT DEF Early, Later
  <2>4. n <= Due(elapsed') + 2
    BY <1>1, <1>3, <1>8, <1>9, <2>3, WaitEnough
  <2> QED
    BY <1>12, <2>2, <2>4, SMT DEF Early, Behind
<1>13. CASE Late(t, n)
  <2>1. unseen' = unseen + 1
    BY <1>11, <1>13 DEF Late
  <2> QED
    BY <1>4, <1>6, <1>8, <1>13, <2>1, SMT DEF Late, Behind
<1>14. CASE LetOff(t, n)
  <2>1. unseen' = 0
    BY <1>11, <1>14 DEF LetOff
  <2> QED
    BY <1>6, <1>14, <2>1, SMT DEF LetOff, Behind
<1> QED
  BY <1>11, <1>12, <1>13, <1>14

(* A restart of the count meets it from anew. *)
LEMMA RestartInv == ASSUME PacingInv, Restart PROVE PacingInv'
<1>1. /\ elapsed' = 0 /\ FrameCount0' = 0 /\ skipCounter' = 0 /\ unseen' = 0
      /\ FrameSkip' = FrameSkip
  BY DEF Restart
<1>2. FrameSkip' \in BOOLEAN
  BY <1>1 DEF PacingInv, PacingTypeOK
<1>3. PacingTypeOK'
  BY <1>1, <1>2, FrameRate, SMT DEF PacingTypeOK
<1>4. Behind'
  <2>1. Due(elapsed') \in Nat
    BY <1>1, DueType, SMT
  <2> HIDE DEF Due
  <2> QED
    BY <1>1, <2>1, SMT DEF Behind
<1> QED
  BY <1>3, <1>4 DEF PacingInv

(* The inductive invariant of the pacing. *)
THEOREM PacingInductive == PacingSpec => []PacingInv
<1>1. PacingInit => PacingInv
  <2> SUFFICES ASSUME PacingInit PROVE PacingInv
    OBVIOUS
  <2>1. PacingTypeOK
    <3>1. FrameSkip \in BOOLEAN
      BY DEF PacingInit
    <3> QED
      BY <3>1, FrameRate, SMT DEF PacingInit, PacingTypeOK
  <2>2. Due(elapsed) \in Nat
    BY DueType, SMT DEF PacingInit
  <2>3. Behind
    BY <2>2, SMT DEF PacingInit, Behind
  <2> QED
    BY <2>1, <2>3 DEF PacingInv
<1>2. PacingInv /\ [AnyPace \/ Restart]_pacing => PacingInv'
  <2> SUFFICES ASSUME PacingInv, [AnyPace \/ Restart]_pacing PROVE PacingInv'
    OBVIOUS
  <2>1. CASE AnyPace
    <3>1. PICK d \in 0 .. MaxRun : Pace(elapsed + d)
      BY <2>1 DEF AnyPace
    <3> DEFINE t == elapsed + d
    <3>2. elapsed \in Nat
      BY DEF PacingInv, PacingTypeOK
    <3>3. t \in Nat /\ t >= elapsed
      BY <3>2, PacingAssumption, SMT
    <3>4. Pace(t) /\ PacingTypeOK
      BY <3>1 DEF PacingInv
    <3> HIDE DEF t
    <3>5. PacingTypeOK'
      BY <3>3, <3>4, PaceType
    <3>6. Unwrapped' => Behind'
      BY <3>3, <3>4, PaceBehind
    <3> QED
      BY <3>5, <3>6 DEF PacingInv
  <2>2. CASE Restart
    BY <2>2, RestartInv
  <2>3. CASE UNCHANGED pacing
    BY <2>3 DEF pacing, PacingInv, PacingTypeOK, Unwrapped, Behind, Due
  <2> QED
    BY <2>1, <2>2, <2>3
<1> QED
  BY <1>1, <1>2, PTL DEF PacingSpec

(* Until the wrap, at most maxSkips frames in a row are run and not shown  *)
(* (Load_Proc2.c:128), and the game is at most two frames ahead of the     *)
(* clock (Load_Proc2.c:117-121).                                           *)
THEOREM PacingSafe == PacingSpec => []Paced
<1>1. PacingInv => Paced
  <2> SUFFICES ASSUME PacingInv, Unwrapped PROVE unseen <= maxSkips /\ FrameCount0 <= Due(elapsed) + 2
    BY DEF Paced, SkipsBounded, HeldBack
  <2>1. Behind /\ skipCounter \in 0 .. maxSkips
    BY DEF PacingInv, PacingTypeOK
  <2> QED
    BY <2>1, FrameRate, SMT DEF Behind
<1> QED
  BY <1>1, PacingInductive, PTL
=============================================================================
