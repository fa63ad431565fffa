-------------------------------- MODULE Card --------------------------------
(***************************************************************************)
(* The files of the memory card as the program sees them, and as a power   *)
(* cut would leave them: what is written reaches the card when the kernel  *)
(* likes, in part or whole, or with fsync.                                 *)
(***************************************************************************)

EXTENDS Naturals

CONSTANTS
    Games,
    MaxEvents  \* bound: saves, faults and power cuts, together

ASSUME CardAssumption == MaxEvents \in Nat

None == ""  \* no file, no game

VARIABLES card, disk,
          busy,   \* the file that main is in the middle of rewriting, or None
          late,   \* history: the files whose last fsync failed
          events  \* so far: states saved, failed fsyncs, lists cut short, power cuts

Write(f, contents) == card' = [card EXCEPT ![f] = contents]

(* The kernel writes back some of what a file holds. *)
Writeback(f, parts) ==
    /\ disk[f] # card[f]
    /\ \E part \in parts : disk' = [disk EXCEPT ![f] = part]

Event == events < MaxEvents /\ events' = events + 1

(* No caller looks at what fsync returns. *)
Fsync(f) == \/ disk' = [disk EXCEPT ![f] = card'[f]] /\ late' = late \ {f} /\ UNCHANGED events
            \/ disk' = disk /\ late' = late \union {f} /\ Event

(* Power is lost, and comes back. *)
Cut == card' = disk /\ busy' = None /\ late' = {} /\ Event /\ UNCHANGED disk
=============================================================================
