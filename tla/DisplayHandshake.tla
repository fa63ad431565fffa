-------------------------- MODULE DisplayHandshake --------------------------
(***************************************************************************)
(* The frame hand-over between the main thread, inside dispFlip, and the   *)
(* scaler thread that InitDisplay starts when setting.xml asks for one     *)
(* (DisplayThread # 0).  One slot (Frame_data, Frame_width, Frame_height,  *)
(* Frame_pitch), one flag word, one mutex and ONE condition variable that  *)
(* both threads wait on and both signal.                                   *)
(*                                                                         *)
(* A frame is the number of the flip that shows it.  Each lock, body and   *)
(* unlock is a step of its own, because the flag and the slot are also     *)
(* read outside the lock.                                                  *)
(***************************************************************************)
EXTENDS Naturals, FiniteSets

CONSTANTS
    MaxFlips,          \* bound: number of calls of dispFlip
    InitOutcomes,      \* outcomes of InitDisplay to start from
    SpuriousWakeups    \* may pthread_cond_wait return unsignalled?

(* What InitDisplay can leave behind:                                      *)
(*   direct    driver loaded, DisplayThread = 0                            *)
(*   threaded  driver loaded, scaler thread running                        *)
(*   noscaler  DisplayThread # 0 and video_driver_frame found, but no      *)
(*             thread: pthread_create failed, or a later dlsym did         *)
(*   nodriver  DisplayThread # 0 and driver.so or its init failed          *)
Outcomes == {"direct", "threaded", "noscaler", "nodriver"}

ASSUME FlipsAssumption    == MaxFlips \in Nat
ASSUME OutcomesAssumption == InitOutcomes \subseteq Outcomes
ASSUME SpuriousAssumption == SpuriousWakeups \in BOOLEAN

Threads == {"main", "scaler"}
Fields  == {"data", "width", "height", "pitch"}

VARIABLES
    mode,       \* the outcome of InitDisplay
    flag,       \* DisplayThreadflag: "run" is bit 1, "full" is bit 2
    owner,      \* holder of the mutex, or "none"
    waiters,    \* threads blocked in pthread_cond_wait
    slot,       \* Frame_data, Frame_width, Frame_height, Frame_pitch
    loaded,     \* driver.so is mapped: dlclose has not been called
    pcM,        \* program point of the main thread
    pcS,        \* program point of the scaler thread
    flips,      \* calls of dispFlip so far
    args,       \* arguments of the scaler's call into the driver
    (* history *)
    pub,        \* last frame published by dispFlip
    shown,      \* last frame the scaler has drawn and acknowledged
    ordered,    \* the scaler locked the mutex after the slot was last written
    excused     \* the scaler never locked yet, or last woke unsignalled

vars == <<mode, flag, owner, waiters, slot, loaded, pcM, pcS, flips, args,
          pub, shown, ordered, excused>>

ghosts == <<pub, shown, ordered, excused>>

Frames == 0 .. MaxFlips

Threaded     == mode # "direct"        \* DisplayThread # 0
HasFrameProc == mode # "nodriver"      \* video_driver_frame # NULL

Init ==
    /\ mode \in InitOutcomes
    /\ flag = IF mode = "threaded" THEN {"run"} ELSE {}
    /\ owner = "none"
    /\ waiters = {}
    /\ slot = [f \in Fields |-> 0]
    /\ loaded = TRUE
    /\ pcM = "idle"
    /\ pcS = IF mode = "threaded" THEN "top" ELSE "absent"
    /\ flips = 0
    /\ args = [f \in Fields |-> 0]
    /\ pub = 0
    /\ shown = 0
    /\ ordered = TRUE
    /\ excused = TRUE

-----------------------------------------------------------------------------
(* The mutex and the condition variable.                                   *)

Alive == pcM \notin {"crashed", "exited"}

Lock(t)   == owner = "none" /\ owner' = t
Unlock(t) == owner = t /\ owner' = "none"

(* pthread_cond_signal wakes one waiter if there is one. *)
Signal == \/ waiters = {} /\ waiters' = {}
          \/ \E t \in waiters : waiters' = waiters \ {t}

(* Entering pthread_cond_wait releases the mutex. *)
Block(t) == /\ Unlock(t)
            /\ waiters' = waiters \union {t}

-----------------------------------------------------------------------------
(* dispFlip, on the main thread.                                           *)

FlipStart ==
    /\ pcM = "idle"
    /\ flips < MaxFlips
    /\ flips' = flips + 1
    /\ pcM' = IF Threaded THEN "testFull" ELSE "draw"
    /\ UNCHANGED <<mode, flag, owner, waiters, slot, loaded, pcS, args, ghosts>>

(* Mutant: dispFlip does not wait for the frame before. *)
FlipTestFull_NoWait ==
    /\ pcM = "testFull"
    /\ pcM' = "fill"
    /\ UNCHANGED <<mode, flag, owner, waiters, slot, loaded, pcS, flips, args, ghosts>>

(* while ((DisplayThreadflag & 2) != 0), read without the lock *)
FlipTestFull ==
    /\ pcM = "testFull"
    /\ pcM' = IF "full" \in flag THEN "lockWait" ELSE "fill"
    /\ UNCHANGED <<mode, flag, owner, waiters, slot, loaded, pcS, flips, args, ghosts>>

FlipLockWait ==
    /\ pcM = "lockWait"
    /\ Lock("main")
    /\ pcM' = "recheck"
    /\ UNCHANGED <<mode, flag, waiters, slot, loaded, pcS, flips, args, ghosts>>

(* Tests the flag again under the lock: waits for the scaler, or leaves. *)
FlipRecheck ==
    /\ pcM = "recheck"
    /\ \/ /\ "full" \in flag
          /\ Block("main")
          /\ pcM' = "waiting"
       \/ /\ "full" \notin flag
          /\ Unlock("main")
          /\ pcM' = "testFull"
          /\ UNCHANGED waiters
    /\ UNCHANGED <<mode, flag, slot, loaded, pcS, flips, args, ghosts>>

FlipWake ==
    /\ pcM = "waiting"
    /\ "main" \notin waiters
    /\ Lock("main")
    /\ pcM' = "unlockWait"
    /\ UNCHANGED <<mode, flag, waiters, slot, loaded, pcS, flips, args, ghosts>>

(* Mutant: `if' instead of `while' around the wait. *)
FlipUnlockWait_NoRetest ==
    /\ pcM = "unlockWait"
    /\ Unlock("main")
    /\ pcM' = "fill"
    /\ UNCHANGED <<mode, flag, waiters, slot, loaded, pcS, flips, args, ghosts>>

FlipUnlockWait ==
    /\ pcM = "unlockWait"
    /\ Unlock("main")
    /\ pcM' = "testFull"
    /\ UNCHANGED <<mode, flag, waiters, slot, loaded, pcS, flips, args, ghosts>>

(* The four unlocked stores, in any order the compiler emits them. *)
FlipFill ==
    /\ pcM = "fill"
    /\ \E f \in Fields :
         /\ slot[f] # flips
         /\ slot' = [slot EXCEPT ![f] = flips]
    /\ pcM' = IF \A f \in Fields : slot'[f] = flips THEN "lockPub" ELSE "fill"
    /\ ordered' = FALSE
    /\ UNCHANGED <<mode, flag, owner, waiters, loaded, pcS, flips, args,
                   pub, shown, excused>>

FlipLockPub ==
    /\ pcM = "lockPub"
    /\ Lock("main")
    /\ pcM' = "publish"
    /\ UNCHANGED <<mode, flag, waiters, slot, loaded, pcS, flips, args, ghosts>>

(* Mutant: the frame is published without a signal. *)
FlipPublish_NoSignal ==
    /\ pcM = "publish"
    /\ flag' = flag \union {"full"}
    /\ pub' = flips
    /\ pcM' = "unlockPub"
    /\ UNCHANGED <<mode, owner, waiters, slot, loaded, pcS, flips, args,
                   shown, ordered, excused>>

FlipPublish ==
    /\ pcM = "publish"
    /\ flag' = flag \union {"full"}
    /\ Signal
    /\ pub' = flips
    /\ pcM' = "unlockPub"
    /\ UNCHANGED <<mode, owner, slot, loaded, pcS, flips, args,
                   shown, ordered, excused>>

FlipUnlockPub ==
    /\ pcM = "unlockPub"
    /\ Unlock("main")
    /\ pcM' = "draw"
    /\ UNCHANGED <<mode, flag, waiters, slot, loaded, pcS, flips, args, ghosts>>

(* The call through video_driver_frame.  Only the direct path tests the    *)
(* pointer, and InitDisplay leaves it NULL only in outcome "nodriver".     *)
FlipDraw ==
    /\ pcM = "draw"
    /\ pcM' = IF HasFrameProc THEN "inDriver" ELSE "crashed"
    /\ UNCHANGED <<mode, flag, owner, waiters, slot, loaded, pcS, flips, args, ghosts>>

FlipReturn ==
    /\ pcM = "inDriver"
    /\ pcM' = "idle"
    /\ UNCHANGED <<mode, flag, owner, waiters, slot, loaded, pcS, flips, args, ghosts>>

(* DeinitDisplay: video_driver_deinit, dlclose(handle); nobody stops or    *)
(* joins the scaler thread.  main then returns and the process ends.       *)
DeinitDisplay ==
    /\ pcM = "idle"
    /\ loaded
    /\ loaded' = FALSE
    /\ pcM' = "unloaded"
    /\ UNCHANGED <<mode, flag, owner, waiters, slot, pcS, flips, args, ghosts>>

Exit ==
    /\ pcM = "unloaded"
    /\ pcM' = "exited"
    /\ UNCHANGED <<mode, flag, owner, waiters, slot, loaded, pcS, flips, args, ghosts>>

-----------------------------------------------------------------------------
(* ScaleDisplayThread.                                                     *)

(* The thread lives as long as the process. *)
ScalerAt(point) == Alive /\ pcS = point

(* The two unlocked tests at the top of the loop. *)
ScaleTop ==
    /\ ScalerAt("top")
    /\ pcS' = CASE "run" \notin flag -> "done"
                [] "run" \in flag /\ "full" \in flag -> "read"
                [] OTHER -> "lockIdle"
    /\ UNCHANGED <<mode, flag, owner, waiters, slot, loaded, pcM, flips, args, ghosts>>

(* Loads Frame_* and calls the driver.  Without a lock taken since the     *)
(* stores, each load may still return the value of the frame before.       *)
ScaleRead ==
    /\ ScalerAt("read")
    /\ \E stale \in SUBSET Fields :
         /\ ordered => stale = {}
         /\ args' = [f \in Fields |-> IF f \in stale THEN shown ELSE slot[f]]
    /\ pcS' = "inDriver"
    /\ UNCHANGED <<mode, flag, owner, waiters, slot, loaded, pcM, flips, ghosts>>

ScaleReturn ==
    /\ ScalerAt("inDriver")
    /\ pcS' = "lockClear"
    /\ UNCHANGED <<mode, flag, owner, waiters, slot, loaded, pcM, flips, args, ghosts>>

ScaleLockClear ==
    /\ ScalerAt("lockClear")
    /\ Lock("scaler")
    /\ pcS' = "clear"
    /\ ordered' = TRUE
    /\ excused' = FALSE
    /\ UNCHANGED <<mode, flag, waiters, slot, loaded, pcM, flips, args, pub, shown>>

(* Mutant: the flag is cleared without a signal. *)
ScaleClear_NoSignal ==
    /\ ScalerAt("clear")
    /\ flag' = flag \ {"full"}
    /\ shown' = pub
    /\ pcS' = "unlockClear"
    /\ UNCHANGED <<mode, owner, waiters, slot, loaded, pcM, flips, args,
                   pub, ordered, excused>>

(* Mutant: the mask sets a bit nobody knows. *)
ScaleClear_WrongMask ==
    /\ ScalerAt("clear")
    /\ flag' = {"fffd"}
    /\ Signal
    /\ shown' = pub
    /\ pcS' = "unlockClear"
    /\ UNCHANGED <<mode, owner, slot, loaded, pcM, flips, args,
                   pub, ordered, excused>>

(* DisplayThreadflag & 0xfffd, then the signal. *)
ScaleClear ==
    /\ ScalerAt("clear")
    /\ flag' = flag \ {"full"}
    /\ Signal
    /\ shown' = pub
    /\ pcS' = "unlockClear"
    /\ UNCHANGED <<mode, owner, slot, loaded, pcM, flips, args,
                   pub, ordered, excused>>

ScaleUnlockClear ==
    /\ ScalerAt("unlockClear")
    /\ Unlock("scaler")
    /\ pcS' = "lockIdle"
    /\ UNCHANGED <<mode, flag, waiters, slot, loaded, pcM, flips, args, ghosts>>

ScaleLockIdle ==
    /\ ScalerAt("lockIdle")
    /\ Lock("scaler")
    /\ pcS' = "recheck"
    /\ ordered' = TRUE
    /\ excused' = FALSE
    /\ UNCHANGED <<mode, flag, waiters, slot, loaded, pcM, flips, args, pub, shown>>

(* Mutant: the scaler waits without looking at the flag under the lock. *)
ScaleRecheck_Blind ==
    /\ ScalerAt("recheck")
    /\ Block("scaler")
    /\ pcS' = "waiting"
    /\ UNCHANGED <<mode, flag, slot, loaded, pcM, flips, args, ghosts>>

ScaleRecheck ==
    /\ ScalerAt("recheck")
    /\ \/ /\ "full" \notin flag
          /\ Block("scaler")
          /\ pcS' = "waiting"
       \/ /\ "full" \in flag
          /\ Unlock("scaler")
          /\ pcS' = "top"
          /\ UNCHANGED waiters
    /\ UNCHANGED <<mode, flag, slot, loaded, pcM, flips, args, ghosts>>

ScaleWake ==
    /\ ScalerAt("waiting")
    /\ "scaler" \notin waiters
    /\ Lock("scaler")
    /\ pcS' = "unlockIdle"
    /\ ordered' = TRUE
    /\ UNCHANGED <<mode, flag, waiters, slot, loaded, pcM, flips, args,
                   pub, shown, excused>>

ScaleUnlockIdle ==
    /\ ScalerAt("unlockIdle")
    /\ Unlock("scaler")
    /\ pcS' = "top"
    /\ UNCHANGED <<mode, flag, waiters, slot, loaded, pcM, flips, args, ghosts>>

(* pthread_cond_wait may return although nobody signalled. *)
SpuriousWakeup ==
    /\ Alive
    /\ SpuriousWakeups
    /\ \E t \in waiters :
         /\ waiters' = waiters \ {t}
         /\ excused' = (excused \/ t = "scaler")
    /\ UNCHANGED <<mode, flag, owner, slot, loaded, pcM, pcS, flips, args,
                   pub, shown, ordered>>

-----------------------------------------------------------------------------
Main == \/ FlipStart \/ FlipTestFull \/ FlipLockWait \/ FlipRecheck
        \/ FlipWake \/ FlipUnlockWait \/ FlipFill \/ FlipLockPub
        \/ FlipPublish \/ FlipUnlockPub \/ FlipDraw \/ FlipReturn
        \/ DeinitDisplay \/ Exit

Scaler == \/ ScaleTop \/ ScaleRead \/ ScaleReturn \/ ScaleLockClear
          \/ ScaleClear \/ ScaleUnlockClear \/ ScaleLockIdle
          \/ ScaleRecheck \/ ScaleWake \/ ScaleUnlockIdle

(* The process is gone, and its threads with it. *)
Gone == ~Alive /\ UNCHANGED vars

Next == Main \/ Scaler \/ SpuriousWakeup \/ Gone

Spec == Init /\ [][Next]_vars

(* Inside dispFlip every step is the main thread's own; the kernel runs a  *)
(* runnable thread eventually, and a contended mutex is handed over, which *)
(* strong fairness says for the lock steps.  Nothing makes the caller flip *)
(* again or shut down: FlipStart and DeinitDisplay have no fairness.       *)
MainInside == Main /\ pcM # "idle"

Fairness ==
    /\ WF_vars(MainInside)
    /\ WF_vars(Scaler)
    /\ SF_vars(FlipLockWait \/ FlipWake \/ FlipLockPub)
    /\ SF_vars(ScaleLockClear \/ ScaleLockIdle \/ ScaleWake)

FairSpec == Spec /\ Fairness

-----------------------------------------------------------------------------
(* Properties.                                                             *)

MainPoints == {"idle", "testFull", "lockWait", "recheck", "waiting",
               "unlockWait", "fill", "lockPub", "publish", "unlockPub",
               "draw", "inDriver", "unloaded", "exited", "crashed"}

ScalerPoints == {"absent", "top", "read", "inDriver", "lockClear", "clear",
                 "unlockClear", "lockIdle", "recheck", "waiting",
                 "unlockIdle", "done"}

TypeOK ==
    /\ mode \in Outcomes
    /\ flag \in SUBSET {"run", "full"}
    /\ owner \in Threads \union {"none"}
    /\ waiters \in SUBSET Threads
    /\ slot \in [Fields -> Frames]
    /\ loaded \in BOOLEAN
    /\ pcM \in MainPoints
    /\ pcS \in ScalerPoints
    /\ flips \in Frames
    /\ args \in [Fields -> Frames]
    /\ pub \in Frames
    /\ shown \in Frames
    /\ ordered \in BOOLEAN
    /\ excused \in BOOLEAN

(* No wakeup is lost although both threads share one condition variable:   *)
(* dispFlip is only ever parked while a frame is pending for the scaler,   *)
(* and the scaler only while none is.  Hence they never both wait.         *)
NoLostWakeup ==
    /\ "main"   \in waiters => "full" \in flag
    /\ "scaler" \in waiters => "full" \notin flag

(* While a frame is pending, dispFlip keeps off the slot: the four stores  *)
(* happen only with the flag clear and the scaler outside the driver.      *)
SlotStable ==
    /\ pcM = "fill" => "full" \notin flag
    /\ pcS \in {"read", "inDriver"} => /\ "full" \in flag
                                       /\ \A f \in Fields : slot[f] = pub

(* The four arguments of the scaler's call belong to one flip, the one     *)
(* published last; in the race window (next property) some may still be    *)
(* those of the flip before, but never of a flip not yet published.        *)
FrameNotTorn ==
    pcS = "inDriver" =>
        /\ \A f \in Fields : args[f] \in {shown, pub}
        /\ ~excused => \A f \in Fields : args[f] = pub

(* The window of the data race on Frame_*: the scaler reads the slot with  *)
(* no lock taken since the stores only before it ever took the mutex, or   *)
(* after pthread_cond_wait returned unsignalled.                           *)
RaceWindow == pcS = "read" /\ ~ordered => excused

(* DisplayThread # 0 but no scaler (InitDisplay only prints a message):    *)
(* one frame goes out, and the next dispFlip blocks for ever.              *)
FrozenWithoutScaler ==
    mode = "noscaler" =>
        /\ pub <= 1
        /\ pcM \in {"lockWait", "recheck", "waiting", "unlockWait"} => pub = 1

(* The scaler draws the published frames in order, each exactly once, and  *)
(* dispFlip never publishes over one that is still to be drawn.  With a    *)
(* scaler thread every published frame is drawn.                           *)
Mailbox == INSTANCE FrameMailbox WITH
    put <- pub, taken <- shown, open <- Alive, reader <- mode = "threaded"
OneFrameInFlight == Mailbox!MSpec
EveryFrameShown  == Mailbox!MFairSpec

(* A call of dispFlip returns, however the two threads interleave: it      *)
(* never waits for ever for the scaler to free the slot.                   *)
FlipReturns == (mode = "threaded" /\ pcM = "testFull") ~> (pcM = "idle")
=============================================================================
