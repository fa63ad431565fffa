---------------------------- MODULE FramePacing ----------------------------
(***************************************************************************)
(* The clock of the game loop (Load_Proc2): when a frame is held back,     *)
(* when it is run and not shown, and when a late game is let off.  The     *)
(* products with fps and with 1000 are taken in an unsigned word, which    *)
(* wraps after some 19.9 hours of play (2^32 / 60 ms).                     *)
(***************************************************************************)
EXTENDS Integers

CONSTANTS
    Fps,         \* frames a second: 60, or 50 for PAL
    Second,      \* units of the clock in a second: 1000
    Word,        \* 2^32
    maxSkips,    \* 2
    MaxElapsed,  \* bound: the longest time without a restart of the count
    MaxRun       \* bound: the longest time from one look at the clock to
                 \* the next, less the wait

ASSUME PacingAssumption ==
    /\ Fps \in Nat \ {0} /\ Second \in Nat /\ Fps <= Second /\ Word \in Nat \ {0}
    /\ maxSkips \in Nat /\ MaxElapsed \in Nat /\ MaxRun \in Nat

VARIABLES
    elapsed,      \* the clock, less initialTicks
    FrameCount0,  \* frames since initialTicks that were, or are now, run
    skipCounter,
    FrameSkip,    \* DrawFrame returns at once
    unseen        \* history: frames run since one was shown, or the restart

pacing == <<elapsed, FrameCount0, skipCounter, FrameSkip, unseen>>

PacingInit == /\ elapsed = 0 /\ FrameCount0 = 0 /\ skipCounter = 0
              /\ FrameSkip = FALSE /\ unseen = 0

(* The frames due at time t, and the time frame f is due. *)
Due(t)   == ((Fps * t) % Word) \div Second
DueAt(f) == ((f * Second - Second) % Word) \div Fps

Later(s, t) == IF s < t THEN t ELSE s

(* Before its time: usleep, and the skip counter keeps its value. *)
Early(t, f) ==
    /\ Due(t) < f
    /\ FrameCount0' = f
    /\ elapsed' = Later(t, DueAt(f))
    /\ FrameSkip' = (skipCounter > 0)
    /\ UNCHANGED skipCounter

(* Mutant: off by one. *)
Late_OneMore(t, f) ==
    /\ Due(t) > f /\ skipCounter <= maxSkips
    /\ FrameCount0' = f
    /\ elapsed' = t
    /\ skipCounter' = skipCounter + 1
    /\ FrameSkip' = TRUE

(* Late: run the frame and do not show it, at most maxSkips in a row. *)
Late(t, f) ==
    /\ Due(t) > f /\ skipCounter < maxSkips
    /\ FrameCount0' = f
    /\ elapsed' = t
    /\ skipCounter' = skipCounter + 1
    /\ FrameSkip' = TRUE

(* On time, or late for too long: show it and forget the arrears. *)
LetOff(t, f) ==
    /\ Due(t) >= f /\ (Due(t) = f \/ skipCounter >= maxSkips)
    /\ FrameCount0' = Due(t)
    /\ elapsed' = t
    /\ skipCounter' = 0
    /\ FrameSkip' = FALSE

(* A frame, looked at on the clock at time t. *)
Pace(t) ==
    /\ t <= MaxElapsed
    /\ LET f == (FrameCount0 + 1) % Word IN Early(t, f) \/ Late(t, f) \/ LetOff(t, f)
    /\ unseen' = (IF FrameSkip' THEN unseen + 1 ELSE 0)

AnyPace == \E d \in 0 .. MaxRun : Pace(elapsed + d)

(* Mutant: the count goes on from a clock that starts again. *)
Restart_KeepsCount ==
    /\ elapsed' = 0 /\ skipCounter' = 0 /\ unseen' = 0
    /\ UNCHANGED <<FrameCount0, FrameSkip>>

(* A game starts, has run its first frame, or comes back from the pause    *)
(* menu.                                                                   *)
Restart ==
    /\ elapsed' = 0 /\ FrameCount0' = 0 /\ skipCounter' = 0 /\ unseen' = 0
    /\ UNCHANGED FrameSkip

PacingSpec == PacingInit /\ [][AnyPace \/ Restart]_pacing

-----------------------------------------------------------------------------
PacingTypeOK ==
    /\ elapsed \in Nat
    /\ FrameCount0 \in Nat
    /\ skipCounter \in 0 .. maxSkips
    /\ FrameSkip \in BOOLEAN
    /\ unseen \in Nat

(* Since initialTicks no product has wrapped, nor will one for three frames. *)
Unwrapped == Fps * elapsed + 3 * Second < Word

(* Until the word wraps, no more than maxSkips frames in a row are run and *)
(* not shown: a frame that is early never finds the counter of the late    *)
(* ones before it.  (After the wrap it does, and nothing is shown until    *)
(* the player opens the pause menu.)                                       *)
SkipsBounded == Unwrapped => unseen <= maxSkips

(* Until the word wraps, the game is never more than two frames ahead of   *)
(* the clock.  (After it the game runs as fast as it can.)                 *)
HeldBack == Unwrapped => FrameCount0 <= Due(elapsed) + 2

(* The game keeps its rate, and the player sees it: both of the above.     *)
Paced == SkipsBounded /\ HeldBack
=============================================================================
