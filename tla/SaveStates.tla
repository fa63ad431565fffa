----------------------------- MODULE SaveStates -----------------------------
(***************************************************************************)
(* Save states: the default state of the hot key (SaveDefaultState, read   *)
(* at the start of every game by LoadDefaultState) and a slot of the pause *)
(* menu, to which mui_save_state appends a picture.  retro_save_state      *)
(* compresses into a buffer of the state's own size, writes over the old   *)
(* file, and looks at no result.                                           *)
(***************************************************************************)
EXTENDS Card, Integers

CONSTANTS
    SavFile, SlotFile  \* the files of a game: named after its title, not its path

VARIABLES
    newest,    \* history: per file, the last state it was told to hold
    doubt,     \* history: per file, that it may hold another, or none whole
    state,     \* what retro_unserialize was given last
    suspect    \* history: it came from a file in doubt

SavFiles == {SavFile[g] : g \in Games}
Slots == {SlotFile[g] : g \in Games}
StateFiles == SavFiles \cup Slots

ASSUME StatesAssumption == SavFiles \cap Slots = {} /\ None \notin StateFiles

(* A file: the state that was saved as the n-th event, 0 for none, and the *)
(* picture.                                                                *)
State(n) == [n |-> n, picture |-> FALSE]
Missing == State(0)
Torn == State(-1)

StatesInit ==
    /\ \A f \in StateFiles : card[f] = Missing /\ disk[f] = Missing
    /\ newest = [f \in StateFiles |-> 0] /\ doubt = [f \in StateFiles |-> FALSE]
    /\ state = Missing /\ suspect = FALSE

(* retro_save_state: the state may not compress into its own size, or not  *)
(* fit on the card; if the file cannot be opened nothing is written.  The  *)
(* result is 1 always.                                                     *)
RetroSave(f) ==
    /\ Event
    /\ newest' = [newest EXCEPT ![f] = events']
    /\ \/ Write(f, State(events')) /\ doubt' = [doubt EXCEPT ![f] = FALSE]
       \/ Write(f, Torn) /\ doubt' = [doubt EXCEPT ![f] = TRUE]
       \/ UNCHANGED card /\ doubt' = [doubt EXCEPT ![f] = TRUE]
    /\ UNCHANGED <<disk, late, state, suspect>>

(* Mutant: the file of the hot key stays open, as a slot's for its picture. *)
SaveDefaultState_StaysOpen(t) == busy = None /\ RetroSave(SavFile[t]) /\ busy' = SavFile[t]

(* The hot key: without fsync. *)
SaveDefaultState(t) == busy = None /\ RetroSave(SavFile[t]) /\ UNCHANGED busy

SaveSlot(t) == busy = None /\ RetroSave(SlotFile[t]) /\ busy' = SlotFile[t]

(* Mutant: the picture is written, not appended. *)
Picture_Overwrites ==
    /\ busy \in StateFiles /\ busy' = None
    /\ Write(busy, [Torn EXCEPT !.picture = TRUE])
    /\ Fsync(busy)
    /\ UNCHANGED <<newest, doubt, state, suspect>>

(* Mutant: no fsync here either. *)
Picture_NoSync ==
    /\ busy \in StateFiles /\ busy' = None
    /\ Write(busy, [card[busy] EXCEPT !.picture = TRUE])
    /\ UNCHANGED <<disk, late, events, newest, doubt, state, suspect>>

(* mui_save_state appends the picture and syncs the file, if it opens. *)
Picture ==
    /\ busy \in StateFiles /\ busy' = None
    /\ \/ /\ Write(busy, [card[busy] EXCEPT !.picture = TRUE])
          /\ Fsync(busy)
          /\ UNCHANGED doubt
       \/ doubt' = [doubt EXCEPT ![busy] = TRUE] /\ UNCHANGED <<card, disk, late, events>>
    /\ UNCHANGED <<newest, state, suspect>>

(* retro_load_state, of a file that exists: what is torn is handed to the  *)
(* core like the rest.                                                     *)
RetroLoad(f) ==
    /\ IF card[f].n # 0 \/ card[f].picture
       THEN state' = State(IF card[f].n = 0 THEN -1 ELSE card[f].n) /\ suspect' = doubt[f]
       ELSE UNCHANGED <<state, suspect>>
    /\ UNCHANGED <<card, disk, late, events, newest, doubt>>

LoadSlot(t) == busy = None /\ RetroLoad(SlotFile[t]) /\ UNCHANGED busy

StateParts(s) == {Torn, s}

(* A cut in the middle of a save, any time after a default one or after a  *)
(* failed fsync leaves the file in doubt if the card is behind.            *)
StatesCut ==
    /\ doubt' = [f \in StateFiles |->
                   doubt[f] \/ (disk[f] # card[f] /\ f \in {busy} \cup late \cup SavFiles)]
    /\ state' = Missing /\ suspect' = FALSE
    /\ UNCHANGED <<newest>>

-----------------------------------------------------------------------------
Stored == [n : -1 .. MaxEvents, picture : BOOLEAN]
StatesTypeOK ==
    /\ \A f \in StateFiles : card[f] \in Stored /\ disk[f] \in Stored
    /\ newest \in [StateFiles -> 0 .. MaxEvents]
    /\ doubt \in [StateFiles -> BOOLEAN] /\ state \in Stored /\ suspect \in BOOLEAN

(* A file holds the state it was last told to hold, and no game goes on    *)
(* from a torn one, unless a power cut came before the file was synced (a  *)
(* default state never is, and fsync may fail), the state was cut short,   *)
(* or a file could not be opened.  Of titles that share a file the last    *)
(* one saved counts.                                                       *)
StateAsSaved ==
    /\ \A f \in StateFiles : ~doubt[f] => card[f].n = newest[f]
    /\ state.n < 0 => suspect
=============================================================================
