---------------------------- MODULE DisplayProofs ----------------------------
(***************************************************************************)
(* Safety of the frame hand-over, for any number of flips and any mix of   *)
(* outcomes of InitDisplay, with spurious wakeups or without.              *)
(***************************************************************************)
EXTENDS DisplayHandshake, TLAPS

(* Who is inside a critical section. *)
MainHolds   == {"recheck", "unlockWait", "publish", "unlockPub"}
ScalerHolds == {"recheck", "clear", "unlockClear", "unlockIdle"}

MutexInv ==
    /\ owner = "main"   <=> pcM \in MainHolds
    /\ owner = "scaler" <=> pcS \in ScalerHolds
    /\ "main"   \in waiters => pcM = "waiting"
    /\ "scaler" \in waiters => pcS = "waiting"

(* A frame is pending exactly from its publication to its acknowledgement. *)
PendingInv ==
    /\ pcM \in {"fill", "lockPub", "publish"} => "full" \notin flag
    /\ pcS \in {"read", "inDriver", "lockClear", "clear"} => "full" \in flag
    /\ "full" \in flag => \A f \in Fields : slot[f] = pub
    /\ pcM \in {"lockPub", "publish"} => \A f \in Fields : slot[f] = flips

(* The scaler knows of a pending frame through the mutex, or is excused. *)
OrderInv ==
    /\ pcS = "recheck" /\ "full" \in flag => ordered
    /\ ~excused /\ pcS \in {"unlockIdle", "top", "read"}
         => "full" \in flag /\ ordered
    /\ ~excused /\ pcS = "waiting" /\ "scaler" \notin waiters => "full" \in flag

IInv == TypeOK /\ MutexInv /\ PendingInv /\ OrderInv /\ NoLostWakeup /\ FrameNotTorn

-----------------------------------------------------------------------------
(* The inductive invariant holds in the initial states. *)
LEMMA InitIInv == Init => IInv
<1> SUFFICES ASSUME Init PROVE IInv
  OBVIOUS
<1> USE FlipsAssumption, OutcomesAssumption
<1>1. TypeOK
  BY DEF Init, TypeOK, Outcomes, Threads, Fields, Frames, MainPoints, ScalerPoints
<1>2. MutexInv
  BY DEF Init, MutexInv, MainHolds, ScalerHolds, Outcomes
<1>3. PendingInv /\ OrderInv
  BY DEF Init, PendingInv, OrderInv, Outcomes
<1>4. NoLostWakeup /\ FrameNotTorn
  BY DEF Init, NoLostWakeup, FrameNotTorn, Outcomes
<1>. QED
  BY <1>1, <1>2, <1>3, <1>4 DEF IInv

-----------------------------------------------------------------------------
(* Every step of the main thread preserves it. *)
LEMMA MainIInv == IInv /\ Main => IInv'
<1> SUFFICES ASSUME IInv, Main PROVE IInv'
  OBVIOUS
<1> USE FlipsAssumption DEF IInv, TypeOK, MutexInv, PendingInv, OrderInv,
        NoLostWakeup, FrameNotTorn, MainHolds, ScalerHolds, MainPoints,
        ScalerPoints, Threads, Fields, Frames, ghosts
<1>1. CASE FlipStart
  BY <1>1 DEF FlipStart
<1>2. CASE FlipTestFull
  BY <1>2 DEF FlipTestFull
<1>3. CASE FlipLockWait
  BY <1>3 DEF FlipLockWait, Lock
<1>4. CASE FlipRecheck
  BY <1>4 DEF FlipRecheck, Block, Unlock
<1>5. CASE FlipWake
  BY <1>5 DEF FlipWake, Lock
<1>6. CASE FlipUnlockWait
  BY <1>6 DEF FlipUnlockWait, Unlock
<1>7. CASE FlipFill
  <2>1. /\ slot' \in [Fields -> Frames]
        /\ pcM' \in {"fill", "lockPub"}
        /\ pcM' = "lockPub" => \A f \in Fields : slot'[f] = flips
    BY <1>7 DEF FlipFill
  <2>2. "full" \notin flag /\ pcS \notin {"read", "inDriver"}
    BY <1>7 DEF FlipFill
  <2>3. UNCHANGED <<mode, flag, owner, waiters, loaded, pcS, flips, args,
                    pub, shown, excused>> /\ ordered' = FALSE
    BY <1>7 DEF FlipFill
  <2>4. pcM = "fill"
    BY <1>7 DEF FlipFill
  <2>. QED
    BY <2>1, <2>2, <2>3, <2>4
<1>8. CASE FlipLockPub
  BY <1>8 DEF FlipLockPub, Lock
<1>9. CASE FlipPublish
  BY <1>9 DEF FlipPublish, Signal
<1>10. CASE FlipUnlockPub
  BY <1>10 DEF FlipUnlockPub, Unlock
<1>11. CASE FlipDraw
  BY <1>11 DEF FlipDraw
<1>12. CASE FlipReturn
  BY <1>12 DEF FlipReturn
<1>13. CASE DeinitDisplay
  BY <1>13 DEF DeinitDisplay
<1>14. CASE Exit
  BY <1>14 DEF Exit
<1>. QED
  BY <1>1, <1>2, <1>3, <1>4, <1>5, <1>6, <1>7, <1>8, <1>9, <1>10, <1>11, <1>12, <1>13, <1>14 DEF Main

(* Every step of the scaler thread preserves it. *)
LEMMA ScalerIInv == IInv /\ Scaler => IInv'
<1> SUFFICES ASSUME IInv, Scaler PROVE IInv'
  OBVIOUS
<1> USE FlipsAssumption DEF ScalerAt, IInv, TypeOK, MutexInv, PendingInv, OrderInv,
        NoLostWakeup, FrameNotTorn, MainHolds, ScalerHolds, MainPoints,
        ScalerPoints, Threads, Fields, Frames, ghosts
<1>1. CASE ScaleTop
  BY <1>1 DEF ScaleTop
<1>2. CASE ScaleRead
  BY <1>2 DEF ScaleRead
<1>3. CASE ScaleReturn
  BY <1>3 DEF ScaleReturn
<1>4. CASE ScaleLockClear
  BY <1>4 DEF ScaleLockClear, Lock
<1>5. CASE ScaleClear
  BY <1>5 DEF ScaleClear, Signal
<1>6. CASE ScaleUnlockClear
  BY <1>6 DEF ScaleUnlockClear, Unlock
<1>7. CASE ScaleLockIdle
  BY <1>7 DEF ScaleLockIdle, Lock
<1>8. CASE ScaleRecheck
  BY <1>8 DEF ScaleRecheck, Block, Unlock
<1>9. CASE ScaleWake
  BY <1>9 DEF ScaleWake, Lock
<1>10. CASE ScaleUnlockIdle
  BY <1>10 DEF ScaleUnlockIdle, Unlock
<1>. QED
  BY <1>1, <1>2, <1>3, <1>4, <1>5, <1>6, <1>7, <1>8, <1>9, <1>10 DEF Scaler

LEMMA DisplayStep == IInv /\ [Next]_vars => IInv'
<1> SUFFICES ASSUME IInv, [Next]_vars PROVE IInv'
  OBVIOUS
<1>1. CASE Main
  BY <1>1, MainIInv
<1>2. CASE Scaler
  BY <1>2, ScalerIInv
<1>3. CASE SpuriousWakeup
  BY <1>3 DEF SpuriousWakeup, IInv, TypeOK, MutexInv, PendingInv, OrderInv,
       NoLostWakeup, FrameNotTorn, Threads
<1>4. CASE UNCHANGED vars
  BY <1>4 DEF vars, IInv, TypeOK, MutexInv, PendingInv, OrderInv,
       NoLostWakeup, FrameNotTorn
<1>. QED
  BY <1>1, <1>2, <1>3, <1>4 DEF Next, Gone

(* The inductive invariant holds throughout. *)
THEOREM DisplayInvariant == Spec => []IInv
BY InitIInv, DisplayStep, PTL DEF Spec

(* Every variable keeps its type. *)
THEOREM DisplayTypeOK == Spec => []TypeOK
<1>1. IInv => TypeOK
  BY DEF IInv
<1>. QED
  BY DisplayInvariant, <1>1, PTL

(* No wakeup is lost: dispFlip is parked only while a frame is pending,    *)
(* the scaler only while none is.                                          *)
THEOREM DisplayNoLostWakeup == Spec => []NoLostWakeup
<1>1. IInv => NoLostWakeup
  BY DEF IInv
<1>. QED
  BY DisplayInvariant, <1>1, PTL

(* dispFlip does not touch Frame_* while the scaler may be reading it. *)
THEOREM DisplaySlotStable == Spec => []SlotStable
<1>1. IInv => SlotStable
  BY DEF IInv, PendingInv, SlotStable
<1>. QED
  BY DisplayInvariant, <1>1, PTL

(* A synchronised call of the scaler draws one whole flip, the last one. *)
THEOREM DisplayFrameNotTorn == Spec => []FrameNotTorn
<1>1. IInv => FrameNotTorn
  BY DEF IInv
<1>. QED
  BY DisplayInvariant, <1>1, PTL

(* The only racy reads of Frame_* are the scaler's first and those after a *)
(* spurious wakeup.                                                        *)
THEOREM DisplayRaceWindow == Spec => []RaceWindow
<1>1. IInv => RaceWindow
  BY DEF IInv, OrderInv, RaceWindow
<1>. QED
  BY DisplayInvariant, <1>1, PTL

-----------------------------------------------------------------------------
(* The hand-over implements the one-frame mailbox.                         *)

Offering == {"testFull", "lockWait", "recheck", "waiting", "unlockWait",
             "fill", "lockPub", "publish"}

(* Flips are published one by one, and only after the last was drawn. *)
CountInv ==
    /\ Threaded => flips = IF pcM \in Offering THEN pub + 1 ELSE pub
    /\ ~Threaded => pcM \notin Offering
    /\ "full" \in flag <=> shown # pub

(* Without a scaler nobody clears the flag, and no second frame goes out. *)
FrozenInv ==
    mode = "noscaler" =>
        /\ pcS = "absent"
        /\ pub <= 1
        /\ "full" \in flag <=> pub = 1
        /\ pcM \in {"lockWait", "recheck", "waiting", "unlockWait"} => pub = 1

CInv == IInv /\ CountInv /\ FrozenInv

LEMMA InitCInv == Init => CInv
BY InitIInv DEF Init, CInv, CountInv, FrozenInv, Threaded, Offering, Outcomes

LEMMA NextCInv == CInv /\ [Next]_vars => CInv'
<1> SUFFICES ASSUME CInv, [Next]_vars PROVE CountInv' /\ FrozenInv'
  BY DisplayStep DEF CInv
<1> USE DEF ScalerAt, CInv, CountInv, FrozenInv, Threaded, Offering, ghosts
<1>0. /\ flag \in SUBSET {"run", "full"} /\ pub \in Nat /\ flips \in Nat
      /\ pcM \in {"fill", "lockPub", "publish"} => "full" \notin flag
      /\ pcS \in {"read", "inDriver", "lockClear", "clear"} => "full" \in flag
  BY FlipsAssumption DEF IInv, TypeOK, PendingInv, Frames
<1>1. ASSUME Main PROVE CountInv' /\ FrozenInv'
  <2>1. CASE FlipStart
    BY <1>0, <2>1 DEF FlipStart
  <2>2. CASE FlipTestFull
    BY <1>0, <2>2 DEF FlipTestFull
  <2>3. CASE FlipLockWait
    BY <1>0, <2>3 DEF FlipLockWait
  <2>4. CASE FlipRecheck
    BY <1>0, <2>4 DEF FlipRecheck
  <2>5. CASE FlipWake
    BY <1>0, <2>5 DEF FlipWake
  <2>6. CASE FlipUnlockWait
    BY <1>0, <2>6 DEF FlipUnlockWait
  <2>7. CASE FlipFill
    BY <1>0, <2>7 DEF FlipFill
  <2>8. CASE FlipLockPub
    BY <1>0, <2>8 DEF FlipLockPub
  <2>9. CASE FlipPublish
    BY <1>0, <2>9 DEF FlipPublish
  <2>10. CASE FlipUnlockPub
    BY <1>0, <2>10 DEF FlipUnlockPub
  <2>11. CASE FlipDraw
    BY <1>0, <2>11 DEF FlipDraw
  <2>12. CASE FlipReturn
    BY <1>0, <2>12 DEF FlipReturn
  <2>13. CASE DeinitDisplay
    BY <1>0, <2>13 DEF DeinitDisplay
  <2>14. CASE Exit
    BY <1>0, <2>14 DEF Exit
  <2>. QED
    BY <1>1, <2>1, <2>2, <2>3, <2>4, <2>5, <2>6, <2>7,
       <2>8, <2>9, <2>10, <2>11, <2>12, <2>13, <2>14 DEF Main
<1>2. ASSUME Scaler PROVE CountInv' /\ FrozenInv'
  <2>1. CASE ScaleTop
    BY <1>0, <2>1 DEF ScaleTop
  <2>2. CASE ScaleRead
    BY <1>0, <2>2 DEF ScaleRead
  <2>3. CASE ScaleReturn
    BY <1>0, <2>3 DEF ScaleReturn
  <2>4. CASE ScaleLockClear
    BY <1>0, <2>4 DEF ScaleLockClear
  <2>5. CASE ScaleClear
    BY <1>0, <2>5 DEF ScaleClear
  <2>6. CASE ScaleUnlockClear
    BY <1>0, <2>6 DEF ScaleUnlockClear
  <2>7. CASE ScaleLockIdle
    BY <1>0, <2>7 DEF ScaleLockIdle
  <2>8. CASE ScaleRecheck
    BY <1>0, <2>8 DEF ScaleRecheck
  <2>9. CASE ScaleWake
    BY <1>0, <2>9 DEF ScaleWake
  <2>10. CASE ScaleUnlockIdle
    BY <1>0, <2>10 DEF ScaleUnlockIdle
  <2>. QED
    BY <1>2, <2>1, <2>2, <2>3, <2>4, <2>5,
       <2>6, <2>7, <2>8, <2>9, <2>10 DEF Scaler
<1>3. CASE SpuriousWakeup
  BY <1>0, <1>3 DEF SpuriousWakeup
<1>4. CASE UNCHANGED vars
  BY <1>4 DEF vars
<1>. QED
  BY <1>1, <1>2, <1>3, <1>4 DEF Next, Gone

LEMMA CInvariant == Spec => []CInv
BY InitCInv, NextCInv, DisplayStep, PTL DEF Spec

(* A scaler that was never created freezes the display after one frame. *)
THEOREM DisplayFrozenWithoutScaler == Spec => []FrozenWithoutScaler
<1>1. CInv => FrozenWithoutScaler
  BY DEF CInv, FrozenInv, FrozenWithoutScaler
<1>. QED
  BY CInvariant, <1>1, PTL

(* A step of the program is a step of the mailbox or changes none of it. *)
LEMMA StepRefines == CInv /\ [Next]_vars => [Mailbox!MNext]_Mailbox!mvars
<1> SUFFICES ASSUME CInv, [Next]_vars
             PROVE  [Mailbox!MNext]_Mailbox!mvars
  OBVIOUS
<1> USE DEF ScalerAt, Mailbox!MNext, Mailbox!mvars, Alive, ghosts
<1>0. /\ pub \in Nat /\ flips \in Nat /\ flag \in SUBSET {"run", "full"}
      /\ pcM = "publish" => flips = pub + 1 /\ shown = pub
      /\ pcS = "clear" => shown # pub
  BY FlipsAssumption
     DEF CInv, IInv, TypeOK, Frames, CountInv, PendingInv, Offering
<1>1. ASSUME Main PROVE [Mailbox!MNext]_Mailbox!mvars
  <2>1. CASE FlipPublish
    BY <1>0, <2>1 DEF FlipPublish, Mailbox!Put
  <2>2. CASE FlipDraw \/ Exit
    BY <2>2 DEF FlipDraw, Exit, Mailbox!Close
  <2>3. CASE FlipStart \/ FlipTestFull \/ FlipLockWait \/ FlipRecheck
             \/ FlipWake \/ FlipUnlockWait \/ FlipFill \/ FlipLockPub
             \/ FlipUnlockPub \/ FlipReturn \/ DeinitDisplay
    BY <2>3 DEF FlipStart, FlipTestFull, FlipLockWait, FlipRecheck,
       FlipWake, FlipUnlockWait, FlipFill, FlipLockPub, FlipUnlockPub,
       FlipReturn, DeinitDisplay
  <2>. QED
    BY <1>1, <2>1, <2>2, <2>3 DEF Main
<1>2. ASSUME Scaler PROVE [Mailbox!MNext]_Mailbox!mvars
  <2>1. CASE ScaleClear
    BY <1>0, <2>1 DEF ScaleClear, Mailbox!Take
  <2>2. CASE ScaleTop \/ ScaleRead \/ ScaleReturn \/ ScaleLockClear
             \/ ScaleUnlockClear \/ ScaleLockIdle \/ ScaleRecheck
             \/ ScaleWake \/ ScaleUnlockIdle
    BY <2>2 DEF ScaleTop, ScaleRead, ScaleReturn, ScaleLockClear,
       ScaleUnlockClear, ScaleLockIdle, ScaleRecheck, ScaleWake,
       ScaleUnlockIdle
  <2>. QED
    BY <1>2, <2>1, <2>2 DEF Scaler
<1>3. CASE SpuriousWakeup \/ UNCHANGED vars
  BY <1>3 DEF SpuriousWakeup, vars
<1>. QED
  BY <1>1, <1>2, <1>3 DEF Next, Gone

(* The scaler draws every published frame in order, none twice, and none   *)
(* is overwritten before it is drawn.                                      *)
THEOREM DisplayRefinesMailbox == Spec => OneFrameInFlight
<1>1. Init => Mailbox!MInit
  BY DEF Init, Mailbox!MInit, Alive
<1>. QED
  BY <1>1, StepRefines, CInvariant, PTL
     DEF Spec, OneFrameInFlight, Mailbox!MSpec
=============================================================================
