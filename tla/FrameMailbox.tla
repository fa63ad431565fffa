---------------------------- MODULE FrameMailbox ----------------------------
(***************************************************************************)
(* What the hand-over of dispFlip promises its caller: a mailbox with room *)
(* for one frame.  A frame is put only when the one before was taken, so   *)
(* none is overwritten, skipped or taken twice; while the program runs,    *)
(* and if there is a reader at all, every frame put is taken.              *)
(***************************************************************************)
EXTENDS Naturals

VARIABLES put, taken, open, reader

mvars == <<put, taken, open>>

MInit == put = 0 /\ taken = 0 /\ open = TRUE

Put  == /\ open
        /\ taken = put
        /\ put' = put + 1
        /\ UNCHANGED <<taken, open>>

Take == /\ open
        /\ taken # put
        /\ taken' = put
        /\ UNCHANGED <<put, open>>

(* The program ends, with a frame still in the mailbox or without. *)
Close == /\ open
         /\ open' = FALSE
         /\ UNCHANGED <<put, taken>>

MNext == Put \/ Take \/ Close

MSpec     == MInit /\ [][MNext]_mvars
MFairSpec == MSpec /\ WF_mvars(reader /\ Take)
=============================================================================
