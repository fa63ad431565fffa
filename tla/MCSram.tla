------------------------------- MODULE MCSram -------------------------------
(* SramPersist for TLC: two games, of two cores of which one (md) hides an *)
(* all-zero memory, or of one core; of two titles, or of one.              *)
EXTENDS SramPersist

CONSTANTS sonic, zelda,     \* games
          md, snes,         \* cores
          p1, p2,           \* places of dlopen
          hero, elf         \* titles

SameCore == [coreOf |-> [g \in {sonic, zelda} |-> snes],
             title  |-> [g \in {sonic, zelda} |-> IF g = sonic THEN hero ELSE elf],
             places |-> {p1}, changes |-> {"seen"}, kinds |-> {}, starts |-> 2]
TwoCores == [coreOf |-> [g \in {sonic, zelda} |-> IF g = sonic THEN md ELSE snes],
             title  |-> [g \in {sonic, zelda} |-> IF g = sonic THEN hero ELSE elf],
             places |-> {p1, p2}, changes |-> {"seen"}, kinds |-> {}, starts |-> 2]

(* One start, and bytes that cgm_sum does not sample. *)
Unsampled == [TwoCores EXCEPT !.changes = {"seen", "unseen"}, !.starts = 1]

(* The two games in two folders under one name; what their memory holds    *)
(* changes with the states.                                                *)
OneTitle(kind) == [SameCore EXCEPT !.title = [g \in {sonic, zelda} |-> hero],
                                   !.changes = {}, !.kinds = {kind}, !.starts = 1]

(* The same, and the file list gives one of them another core. *)
TwoOfATitle == [OneTitle("sav") EXCEPT
                  !.coreOf = [g \in {sonic, zelda} |-> IF g = sonic THEN md ELSE snes],
                  !.changes = {"seen"}]

All      == {SameCore, TwoCores, Unsampled, OneTitle("sav"), OneTitle("slot"),
             TwoOfATitle}
OnlySame == {SameCore}
OnlyTwo  == {TwoCores}
=============================================================================
