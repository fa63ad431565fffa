----------------------------- MODULE CardProofs -----------------------------
(***************************************************************************)
(* What is on the card, for any games, names of files, lengths of lists    *)
(* and number of failures: a power cut takes no list and no slot but the   *)
(* one being rewritten and those whose last fsync failed; a file holds the *)
(* state that was saved to it; a list holds what the player chose; and the *)
(* types.                                                                  *)
(***************************************************************************)
EXTENDS CardFiles, WellFoundedInduction, SequenceTheorems, TLAPS

(* Outside a rewrite the card holds what the program sees of every list,   *)
(* and of every slot that is not in doubt, unless fsync failed for it.     *)
Synced ==
    /\ DOMAIN card = Files /\ DOMAIN disk = Files /\ DOMAIN doubt = StateFiles
    /\ \A l \in Lists \ Open : disk[l] = card[l]
    /\ \A f \in Slots \ Open : disk[f] = card[f] \/ doubt[f]

LEMMA Names == /\ None \notin Lists \cup Slots /\ Lists \cap Slots = {}
               /\ Lists \cap SavFiles = {} /\ Slots \cap SavFiles = {}
  BY FilesAssumption, StatesAssumption DEF None, Lists, Favorites, Recent,
         StateFiles

(* In a game main knows which; and how much has happened. *)
Playing == /\ games \subseteq Games /\ game \in Games \cup {None} /\ (begun => game # None)
           /\ events \in 0 .. MaxEvents

LEMMA PlayingInitially == ASSUME Init PROVE Playing
<1>1. PICK s \in Setups : games = s.games /\ events = MaxEvents - s.events
  BY DEF Init
<1>2. s \in [games : SUBSET Games, events : 0 .. MaxEvents] /\ MaxEvents \in Nat
  BY FilesAssumption, CardAssumption
<1>3. games \subseteq Games /\ events \in 0 .. MaxEvents
  BY <1>1, <1>2
<1> QED
  BY <1>3 DEF Init, Playing

LEMMA Counted == ASSUME [Next]_vars PROVE Event \/ events' = events
<1>1. CASE Browse \/ (\E g \in games : Start(g)) \/ EndOfRewrite
  BY <1>1 DEF Browse, Start, EndOfRewrite, Shoucang, Played, Forget, ForgetAll, Unopened,
         Rewrite, ListSynced, Fsync
<1>2. CASE LoadDefaultState \/ InGame \/ EndOfSave \/ Quit
  BY <1>2 DEF LoadDefaultState, InGame, EndOfSave, Quit, RetroLoad, SaveDefaultState,
         SaveSlot, LoadSlot, RetroSave, Picture, Fsync
<1>3. CASE Flush \/ PowerCut \/ UNCHANGED vars
  BY <1>3 DEF Flush, PowerCut, Cut, vars
<1> QED
  BY <1>1, <1>2, <1>3 DEF Next

LEMMA PlayingStep == ASSUME Playing, [Next]_vars PROVE Playing'
<1>1. events' \in 0 .. MaxEvents
  BY Counted, CardAssumption DEF Playing, Event
<1>2. CASE Browse \/ EndOfRewrite \/ InGame \/ EndOfSave \/ Flush \/ UNCHANGED vars
  <2>1. UNCHANGED <<games, game, begun>>
    BY <1>2 DEF Browse, EndOfRewrite, InGame, EndOfSave, Flush, vars
  <2> QED
    BY <1>1, <2>1, Zenon DEF Playing
<1>3. CASE (\E g \in games : Start(g)) \/ LoadDefaultState \/ Quit \/ PowerCut
  <2>1. CASE game = None /\ game' \in games /\ begun' = begun /\ games' = games
    <3>1. game' \in Games /\ ~begun
      BY <2>1, Zenon DEF Playing
    <3> QED
      BY <1>1, <2>1, <3>1, Zenon DEF Playing
  <2>2. CASE game # None /\ game' = game /\ games' = games
    BY <1>1, <2>2, Zenon DEF Playing
  <2>3. CASE game' = None /\ begun' = FALSE /\ games' = games
    BY <1>1, <2>3, Zenon DEF Playing
  <2> QED
    BY <1>3, <2>1, <2>2, <2>3 DEF Start, LoadDefaultState, Quit, PowerCut
<1> QED
  BY <1>2, <1>3 DEF Next

(* A game that is started is a game. *)
LEMMA Started == ASSUME Playing, \E g \in games : Start(g) PROVE \E g \in Games : Start(g)
  BY Zenon DEF Playing

LEMMA SyncedInit == ASSUME Init PROVE Synced
  BY DEF Init, StatesInit, Synced, Open, Files, StateFiles

(* The rewriting of a list, and its end. *)
LEMMA ListSteps ==
    ASSUME Synced, Browse \/ (\E g \in Games : Start(g)) \/ EndOfRewrite PROVE Synced'
<1>1. \/ \E l \in Lists : \E lines : Rewrite(l, lines) /\ UNCHANGED doubt
      \/ ListSynced /\ UNCHANGED doubt
      \/ UNCHANGED <<card, disk, busy, late, doubt>>
  BY DEF Browse, Start, EndOfRewrite, Shoucang, Played, Forget, ForgetAll, Unopened,
         states, Lists, Favorites, Recent
<1>2. ASSUME NEW l \in Lists, NEW lines, Rewrite(l, lines), UNCHANGED doubt PROVE Synced'
  <2>1. /\ busy = None /\ busy' = l /\ UNCHANGED <<disk, late>>
        /\ \E part : card' = [card EXCEPT ![l] = part]
    BY <1>2 DEF Rewrite, Write
  <2> QED
    BY <1>2, <2>1, Names DEF Synced, Open, Files, StateFiles
<1>3. CASE ListSynced /\ UNCHANGED doubt
  <2>1. busy \in Lists /\ busy' = None /\ card' = card /\ UNCHANGED doubt
    BY <1>3 DEF ListSynced
  <2>2. CASE disk' = [disk EXCEPT ![busy] = card'[busy]] /\ late' = late \ {busy}
    BY <2>1, <2>2, Names DEF Synced, Open, Files, StateFiles
  <2>3. CASE disk' = disk /\ late' = late \union {busy}
    BY <2>1, <2>3, Names DEF Synced, Open, Files, StateFiles
  <2> QED
    BY <1>3, <2>2, <2>3 DEF ListSynced, Fsync
<1>4. CASE UNCHANGED <<card, disk, busy, late, doubt>>
  BY <1>4 DEF Synced, Open
<1> QED
  BY <1>1, <1>2, <1>3, <1>4

(* The saving of a state: only its own file changes, and while it is open  *)
(* nothing is promised of it; a default state has no part in Synced.       *)
LEMMA SaveSteps == ASSUME Synced, NEW g \in Games, SaveDefaultState(g) \/ SaveSlot(g)
                   PROVE  Synced'
<1> DEFINE f == IF busy' = None THEN SavFile[g] ELSE SlotFile[g]
<1>1. /\ busy = None /\ RetroSave(f) /\ f \in SavFiles \cup Slots
      /\ busy' = f \/ (busy' = None /\ f \in SavFiles)
  BY Names DEF SaveDefaultState, SaveSlot, SavFiles, Slots
<1> HIDE DEF f
<1>2. \A h \in Files \ {f} : card'[h] = card[h] /\ (h \in StateFiles => doubt'[h] = doubt[h])
  BY <1>1 DEF RetroSave, Write, Synced
<1>3. /\ disk' = disk /\ late' = late
      /\ DOMAIN card' = DOMAIN card /\ DOMAIN doubt' = DOMAIN doubt
  BY <1>1 DEF RetroSave, Write
<1> QED
  BY <1>1, <1>2, <1>3, Names DEF Synced, Open, Files, StateFiles

(* The picture: the slot is synced, or fsync failed, or its file did not   *)
(* open.                                                                   *)
LEMMA PictureStep == ASSUME Synced, Picture PROVE Synced'
<1>1. CASE /\ card' = [card EXCEPT ![busy] = [card[busy] EXCEPT !.picture = TRUE]]
           /\ Fsync(busy) /\ UNCHANGED doubt
  <2>1. busy \in StateFiles /\ busy' = None
    BY DEF Picture
  <2>2. \A f \in Files \ {busy} : card'[f] = card[f] /\ disk'[f] = disk[f]
    BY <1>1 DEF Fsync, Synced
  <2>3. CASE disk' = [disk EXCEPT ![busy] = card'[busy]] /\ late' = late \ {busy}
    BY <1>1, <2>1, <2>2, <2>3, Names DEF Synced, Open, Files, StateFiles
  <2>4. CASE disk' = disk /\ late' = late \union {busy}
    BY <1>1, <2>1, <2>2, <2>4, Names DEF Synced, Open, Files, StateFiles
  <2> QED
    BY <1>1, <2>3, <2>4 DEF Fsync
<1>2. CASE doubt' = [doubt EXCEPT ![busy] = TRUE] /\ UNCHANGED <<card, disk, late>>
  BY <1>2, Names DEF Picture, Synced, Open, Files, StateFiles
<1> QED
  BY <1>1, <1>2 DEF Picture, Write

(* What the kernel writes back is of a file that the card is behind with. *)
LEMMA FlushStep == ASSUME Synced, Flush PROVE Synced'
<1>1. PICK f \in Files : disk[f] # card[f] /\ \E part : disk' = [disk EXCEPT ![f] = part]
  BY DEF Flush, Writeback
<1>2. UNCHANGED <<card, busy, late, doubt>>
  BY DEF Flush, states
<1> QED
  BY <1>1, <1>2 DEF Synced, Open

LEMMA CutStep == ASSUME Synced, PowerCut PROVE Synced'
  BY DEF PowerCut, Cut, StatesCut, Synced

LEMMA SyncedStep == ASSUME Synced, Playing, [Next]_vars PROVE Synced'
<1>1. CASE Browse \/ (\E g \in games : Start(g)) \/ EndOfRewrite
  BY <1>1, ListSteps, Started
<1>2. CASE LoadDefaultState
  BY <1>2 DEF LoadDefaultState, RetroLoad, Synced, Open
<1>3. CASE InGame
  <2>1. CASE game \in Games /\ (SaveDefaultState(game) \/ SaveSlot(game))
    BY <2>1, SaveSteps
  <2>2. CASE LoadSlot(game)
    BY <2>2 DEF LoadSlot, RetroLoad, Synced, Open
  <2> QED
    BY <1>3, <2>1, <2>2 DEF InGame, Playing
<1>4. CASE EndOfSave
  BY <1>4, PictureStep DEF EndOfSave
<1>5. CASE Quit
  BY <1>5 DEF Quit, Synced, Open
<1>6. CASE Flush
  BY <1>6, FlushStep
<1>7. CASE PowerCut
  BY <1>7, CutStep
<1>8. CASE UNCHANGED vars
  BY <1>8 DEF vars, states, Synced, Open
<1> QED
  BY <1>1, <1>2, <1>3, <1>4, <1>5, <1>6, <1>7, <1>8 DEF Next

(* Every list and every slot that was written to its end is on the card,   *)
(* unless the last fsync failed.                                           *)
THEOREM CardSynced == Spec => []Synced
  BY SyncedInit, SyncedStep, PlayingInitially, PlayingStep, PTL DEF Spec

(* So a power cut changes none of them (the fsync at the end of shoucang,  *)
(* mui_run_game, mui_recent and mui_save_state), but for those that are    *)
(* open and those that fsync failed for.                                   *)
THEOREM CardCutSpares == Spec => CutSpares
<1>1. ASSUME Synced, [Next]_vars, PowerCut
      PROVE  /\ \A l \in Lists \ Open : card'[l] = card[l]
             /\ \A f \in Slots \ Open : ~doubt[f] => card'[f] = card[f]
  BY <1>1 DEF PowerCut, Cut, Synced
<1> QED
  BY <1>1, CardSynced, PTL DEF Spec, CutSpares

-----------------------------------------------------------------------------
(* The save states.  Stored, and its state apart from the picture: no      *)
(* record of a file is looked into but by these.                           *)
LEMMA StoredParts ==
    ASSUME NEW s \in Stored
    PROVE  /\ s.n \in -1 .. MaxEvents /\ s.picture \in BOOLEAN
           /\ [s EXCEPT !.picture = TRUE] \in Stored
           /\ [s EXCEPT !.picture = TRUE].n = s.n
  BY DEF Stored

LEMMA StoredStates ==
    ASSUME NEW n \in -1 .. MaxEvents
    PROVE  State(n) \in Stored /\ State(n).n = n /\ ~State(n).picture
  BY DEF Stored, State

LEMMA NoStates == /\ Missing \in Stored /\ Missing.n = 0 /\ ~Missing.picture
                  /\ Torn \in Stored /\ Torn.n = -1 /\ ~Torn.picture
<1>1. 0 \in -1 .. MaxEvents /\ -1 \in -1 .. MaxEvents
  BY CardAssumption
<1> QED
  BY <1>1, StoredStates, Zenon DEF Missing, Torn

(* A file with a picture, and the one that waits for its picture, was told *)
(* to hold a state: so a file of which only a picture is left is in doubt. *)
Told == \A f \in StateFiles : card[f].picture \/ disk[f].picture \/ f = busy => newest[f] > 0

StatesInv == /\ DOMAIN card = Files /\ DOMAIN disk = Files
             /\ StatesTypeOK /\ Told /\ StateAsSaved

LEMMA StatesInitially == ASSUME Init PROVE StatesInv
<1>1. /\ \A f \in StateFiles : card[f] = Missing /\ disk[f] = Missing
      /\ newest = [f \in StateFiles |-> 0] /\ doubt = [f \in StateFiles |-> FALSE]
      /\ state = Missing /\ suspect = FALSE
      /\ busy \notin StateFiles
  BY StatesAssumption DEF Init, StatesInit
<1>2. DOMAIN card = Files /\ DOMAIN disk = Files
  BY DEF Init
<1>3. ~(state.n < 0) /\ 0 \in 0 .. MaxEvents
  BY <1>1, NoStates, CardAssumption
<1>4. StatesTypeOK
  BY <1>1, <1>3, NoStates DEF StatesTypeOK
<1> QED
  BY <1>1, <1>2, <1>3, <1>4, NoStates DEF StatesInv, Told, StateAsSaved

(* The lists are other files. *)
LEMMA StatesApart ==
    ASSUME StatesInv, DOMAIN card' = Files, DOMAIN disk' = Files,
           \A f \in StateFiles : card'[f] = card[f] /\ disk'[f] = disk[f],
           busy' \notin StateFiles, UNCHANGED states
    PROVE  StatesInv'
  BY DEF StatesInv, StatesTypeOK, Told, StateAsSaved, states

LEMMA StatesListSteps ==
    ASSUME StatesInv, Browse \/ (\E g \in Games : Start(g)) \/ EndOfRewrite
    PROVE  StatesInv'
<1>1. \/ \E l \in Lists : \E lines : Rewrite(l, lines)
      \/ ListSynced
      \/ busy = None /\ UNCHANGED <<card, disk, busy>>
  BY DEF Browse, Start, EndOfRewrite, Shoucang, Played, Forget, ForgetAll, Unopened,
         Lists, Favorites, Recent
<1>2. UNCHANGED states
  BY DEF Browse, Start, EndOfRewrite, states
<1>3. Lists \cap StateFiles = {} /\ None \notin StateFiles
  BY FilesAssumption, StatesAssumption
<1>4. /\ DOMAIN card' = Files /\ DOMAIN disk' = Files /\ busy' \notin StateFiles
      /\ \A f \in StateFiles : card'[f] = card[f] /\ disk'[f] = disk[f]
  BY <1>1, <1>3 DEF Rewrite, Write, ListSynced, Fsync, StatesInv, Files
<1> QED
  BY <1>2, <1>4, StatesApart

(* The three ends of a save: only the file itself is touched. *)
LEMMA StatesSaved ==
    ASSUME StatesInv, Playing, NEW f \in StateFiles, RetroSave(f), busy' \in {None, f}
    PROVE  StatesInv'
<1>1. f \in Files /\ None \notin StateFiles
  BY StatesAssumption DEF Files
<1>2. events' \in 1 .. MaxEvents /\ newest' = [newest EXCEPT ![f] = events']
  <2>1. Event /\ newest' = [newest EXCEPT ![f] = events']
    BY Zenon DEF RetroSave
  <2>2. events' \in 1 .. MaxEvents
    BY <2>1, CardAssumption DEF Event, Playing
  <2> QED
    BY <2>1, <2>2
<1>3. UNCHANGED <<disk, state, suspect>> /\ DOMAIN card' = Files
  BY DEF RetroSave, Write, StatesInv
<1>4. /\ card'[f] \in {card[f], Torn, State(events')}
      /\ \A h \in StateFiles \ {f} : card'[h] = card[h]
  BY <1>1 DEF RetroSave, Write, StatesInv, Files
<1>5. /\ doubt' \in [StateFiles -> BOOLEAN] 
      /\ ~doubt'[f] => card'[f] = State(events')
      /\ \A h \in StateFiles \ {f} : doubt'[h] <=> doubt[h]
  <2>1. CASE Write(f, State(events')) /\ doubt' = [doubt EXCEPT ![f] = FALSE]
    BY <2>1, <1>1 DEF Write, StatesInv, StatesTypeOK
  <2>2. CASE doubt' = [doubt EXCEPT ![f] = TRUE]
    BY <2>2, <1>1 DEF StatesInv, StatesTypeOK
  <2> QED
    BY <2>1, <2>2 DEF RetroSave
<1>6. StatesTypeOK'
  <2>1. newest' \in [StateFiles -> 0 .. MaxEvents]
    BY <1>2 DEF StatesInv, StatesTypeOK
  <2>2. State(events') \in Stored
    BY <1>2, StoredStates
  <2>3. \A h \in StateFiles : card'[h] \in Stored /\ disk'[h] \in Stored
    BY <1>3, <1>4, <2>2, NoStates DEF StatesInv, StatesTypeOK
  <2> QED
    BY <1>3, <1>5, <2>1, <2>3, Zenon DEF StatesInv, StatesTypeOK
<1>7. newest'[f] = events' /\ \A h \in StateFiles \ {f} : newest'[h] = newest[h]
  BY <1>2 DEF StatesInv, StatesTypeOK
<1>8. Told'
  BY <1>1, <1>2, <1>3, <1>4, <1>7 DEF StatesInv, Told
<1>9. StateAsSaved'
  <2>1. ASSUME NEW h \in StateFiles, ~doubt'[h] PROVE card'[h].n = newest'[h]
    BY <2>1, <1>2, <1>4, <1>5, <1>7, StoredParts, StoredStates, NoStates
       DEF StatesInv, StateAsSaved
  <2> QED
    BY <2>1, <1>3 DEF StatesInv, StateAsSaved
<1> QED
  BY <1>3, <1>6, <1>8, <1>9 DEF StatesInv

LEMMA StatesPicture == ASSUME StatesInv, Picture PROVE StatesInv'
<1> DEFINE f == busy
<1>1. f \in StateFiles /\ f \in Files /\ None \notin StateFiles /\ busy' = None
  BY StatesAssumption DEF Picture, Files
<1>2. UNCHANGED <<newest, state, suspect>>
  BY DEF Picture
<1>3. CASE /\ Write(busy, [card[busy] EXCEPT !.picture = TRUE])
           /\ Fsync(busy) /\ UNCHANGED doubt
  <2>1. DOMAIN card' = Files /\ DOMAIN disk' = Files
    BY <1>3 DEF Write, Fsync, StatesInv
  <2>2. /\ card'[f] = [card[f] EXCEPT !.picture = TRUE] /\ disk'[f] \in {card'[f], disk[f]}
        /\ \A h \in StateFiles \ {f} : card'[h] = card[h] /\ disk'[h] = disk[h]
    BY <1>1, <1>3 DEF Write, Fsync, StatesInv, Files
  <2>3. card'[f] \in Stored /\ card'[f].n = card[f].n
    BY <1>1, <2>2, StoredParts, StoredStates, NoStates DEF StatesInv, StatesTypeOK
  <2>4. StatesTypeOK'
    BY <1>2, <1>3, <2>2, <2>3 DEF StatesInv, StatesTypeOK
  <2>5. Told'
    BY <1>1, <1>2, <2>2 DEF StatesInv, Told
  <2>6. StateAsSaved'
    BY <1>1, <1>2, <1>3, <2>2, <2>3 DEF StatesInv, StateAsSaved
  <2> QED
    BY <2>1, <2>4, <2>5, <2>6 DEF StatesInv
<1>4. CASE doubt' = [doubt EXCEPT ![busy] = TRUE] /\ UNCHANGED <<card, disk>>
  <2>1. doubt' \in [StateFiles -> BOOLEAN] /\ \A h \in StateFiles : ~doubt'[h] => ~doubt[h]
    BY <1>1, <1>4 DEF StatesInv, StatesTypeOK
  <2>2. StatesTypeOK'
    BY <1>2, <1>4, <2>1 DEF StatesInv, StatesTypeOK
  <2> QED
    BY <1>1, <1>2, <1>4, <2>1, <2>2 DEF StatesInv, Told, StateAsSaved
<1> QED
  BY <1>3, <1>4 DEF Picture

(* What is read of a file that is not in doubt is what it was told to hold. *)
LEMMA StatesLoaded ==
    ASSUME StatesInv, NEW f \in StateFiles, RetroLoad(f), UNCHANGED busy
    PROVE  StatesInv'
<1>1. UNCHANGED <<card, disk, newest, doubt, busy>>
  BY DEF RetroLoad
<1>2. CASE UNCHANGED <<state, suspect>>
  BY <1>1, <1>2 DEF StatesInv, StatesTypeOK, Told, StateAsSaved
<1>3. CASE /\ card[f].n # 0 \/ card[f].picture
           /\ state' = State(IF card[f].n = 0 THEN -1 ELSE card[f].n) /\ suspect' = doubt[f]
  <2>1. card[f] \in Stored /\ newest[f] \in 0 .. MaxEvents /\ doubt[f] \in BOOLEAN
    BY DEF StatesInv, StatesTypeOK
  <2>2. ~doubt[f] => card[f].n = newest[f] /\ newest[f] > 0
    BY <1>3, <2>1 DEF StatesInv, StateAsSaved, Told
  <2>3. state' \in Stored /\ (~doubt[f] => state'.n > 0)
    <3> DEFINE n == IF card[f].n = 0 THEN -1 ELSE card[f].n
    <3>1. state' = State(n)
      BY <1>3
    <3>2. n \in -1 .. MaxEvents
      <4>1. card[f].n \in -1 .. MaxEvents
        BY <2>1, StoredParts
      <4>2. -1 \in -1 .. MaxEvents
        BY CardAssumption
      <4> QED
        BY <4>1, <4>2
    <3>3. ~doubt[f] => n > 0
      BY <2>1, <2>2
    <3> HIDE DEF n
    <3> QED
      BY <3>1, <3>2, <3>3, StoredStates
  <2>4. StatesTypeOK'
    BY <1>1, <1>3, <2>1, <2>3 DEF StatesInv, StatesTypeOK
  <2>5. state'.n < 0 => suspect'
    <3>1. state'.n \in -1 .. MaxEvents
      BY <2>3, StoredParts
    <3>2. state'.n < 0 => doubt[f]
      BY <2>3, <3>1
    <3> QED
      BY <1>3, <3>2
  <2> QED
    BY <1>1, <2>4, <2>5 DEF StatesInv, Told, StateAsSaved
<1> QED
  BY <1>2, <1>3 DEF RetroLoad

LEMMA StatesFlush == ASSUME StatesInv, Flush PROVE StatesInv'
<1>1. PICK f \in Files : \E part \in IF f \in Lists THEN ListParts(card[f]) ELSE StateParts(card[f]) :
                            disk' = [disk EXCEPT ![f] = part]
  BY DEF Flush, Writeback
<1>2. UNCHANGED <<card, busy, newest, doubt, state, suspect>> /\ DOMAIN disk' = Files
  BY <1>1 DEF Flush, states, StatesInv
<1>3. \A h \in StateFiles : disk'[h] \in {disk[h], card[h], Torn}
  BY <1>1, FilesAssumption DEF StateParts, StatesInv, Files
<1>4. StatesTypeOK'
  BY <1>2, <1>3, StoredParts, StoredStates, NoStates DEF StatesInv, StatesTypeOK
<1>5. Told'
  BY <1>2, <1>3, StoredParts, StoredStates, NoStates DEF StatesInv, Told
<1> QED
  BY <1>2, <1>4, <1>5 DEF StatesInv, StateAsSaved

(* What the card is behind with after a cut was not synced. *)
LEMMA StatesPowerCut == ASSUME StatesInv, Synced, PowerCut PROVE StatesInv'
<1>1. /\ card' = disk /\ disk' = disk /\ busy' = None /\ UNCHANGED newest
      /\ state' = Missing /\ suspect' = FALSE /\ None \notin StateFiles
  BY StatesAssumption DEF PowerCut, Cut, StatesCut
<1>2. /\ doubt' \in [StateFiles -> BOOLEAN]
      /\ \A f \in StateFiles : ~doubt'[f] => ~doubt[f] /\ (disk[f] = card[f] \/ f \notin {busy} \cup late \cup SavFiles)
  BY DEF PowerCut, StatesCut
<1>3. \A f \in StateFiles : ~doubt'[f] => ~doubt[f] /\ disk[f] = card[f]
  BY <1>2 DEF Synced, Open, StateFiles
<1>4. StatesTypeOK'
  BY <1>1, <1>2, StoredParts, StoredStates, NoStates DEF StatesInv, StatesTypeOK
<1> QED
  BY <1>1, <1>3, <1>4, StoredParts, StoredStates, NoStates DEF StatesInv, Told,
         StateAsSaved

LEMMA StatesStep == ASSUME StatesInv, Synced, Playing, [Next]_vars PROVE StatesInv'
<1>1. \A g \in Games : SavFile[g] \in StateFiles /\ SlotFile[g] \in StateFiles
  BY DEF StateFiles, SavFiles, Slots
<1>2. CASE Browse \/ (\E g \in games : Start(g)) \/ EndOfRewrite
  BY <1>2, StatesListSteps, Started
<1>3. CASE LoadDefaultState
  BY <1>1, <1>3, StatesLoaded DEF LoadDefaultState, Playing
<1>4. CASE InGame
  <2>1. game \in Games
    BY <1>4 DEF InGame, Playing
  <2>2. CASE SaveDefaultState(game)
    BY <1>1, <2>1, <2>2, StatesSaved DEF SaveDefaultState
  <2>3. CASE SaveSlot(game)
    BY <1>1, <2>1, <2>3, StatesSaved DEF SaveSlot
  <2>4. CASE LoadSlot(game)
    BY <1>1, <2>1, <2>4, StatesLoaded DEF LoadSlot
  <2> QED
    BY <1>4, <2>2, <2>3, <2>4 DEF InGame
<1>5. CASE EndOfSave
  BY <1>5, StatesPicture DEF EndOfSave
<1>6. CASE Quit
  <2>1. /\ UNCHANGED <<card, disk, busy, newest, doubt>>
        /\ state' = Missing /\ suspect' = FALSE
    BY <1>6 DEF Quit
  <2>2. ~(state'.n < 0)
    BY <2>1, NoStates
  <2> QED
    BY <2>1, <2>2, NoStates DEF StatesInv, StatesTypeOK, Told, StateAsSaved
<1>7. CASE Flush
  BY <1>7, StatesFlush
<1>8. CASE PowerCut
  BY <1>8, StatesPowerCut
<1>9. CASE UNCHANGED vars
  BY <1>9 DEF vars, states, StatesInv, StatesTypeOK, Told, StateAsSaved
<1> QED
  BY <1>2, <1>3, <1>4, <1>5, <1>6, <1>7, <1>8, <1>9 DEF Next

(* A file of which nobody has reason to doubt holds the last state that    *)
(* was saved to it, and a torn state reaches a core only from one that is  *)
(* in doubt: for any games, however they share their files, any number of  *)
(* saves and of cuts (retro_save_state, retro_load_state, mui_save_state). *)
THEOREM CardStateAsSaved == Spec => []StateAsSaved
<1>1. StatesInv => StateAsSaved
  BY DEF StatesInv
<1> QED
  BY <1>1, SyncedInit, SyncedStep, PlayingInitially, PlayingStep, StatesInitially,
     StatesStep, PTL DEF Spec

-----------------------------------------------------------------------------
(* Induction over a set of numbers and over a set of sequences, from the   *)
(* least counterexample.                                                   *)
LEMMA FromZero ==
    ASSUME NEW S \in SUBSET Nat, 0 \in S, \A n \in S : n + 1 \in S
    PROVE  S = Nat
<1> DEFINE T == Nat \ S
<1> SUFFICES ASSUME T # {} PROVE FALSE
  OBVIOUS
<1>1. PICK m \in T : \A k \in T : ~(<<k, m>> \in OpToRel(<, Nat))
  BY WFMin, NatLessThanWellFounded
<1>2. m \in Nat /\ m \notin S /\ m # 0
  OBVIOUS
<1>3. m - 1 \in Nat /\ (m - 1) + 1 = m
  BY <1>2
<1>4. m - 1 \notin S
  BY <1>2, <1>3
<1>5. <<m - 1, m>> \in OpToRel(<, Nat)
  BY <1>2, <1>3 DEF OpToRel
<1> QED
  BY <1>1, <1>3, <1>4, <1>5

LEMMA SeqsFromEmpty ==
    ASSUME NEW T, NEW S \in SUBSET Seq(T), <<>> \in S,
           \A s \in S, x \in T : Append(s, x) \in S
    PROVE  S = Seq(T)
<1> DEFINE N == {n \in Nat : \A s \in Seq(T) : Len(s) = n => s \in S}
<1>1. 0 \in N
  BY EmptySeq
<1>2. ASSUME NEW n \in N PROVE n + 1 \in N
  <2> SUFFICES ASSUME NEW s \in Seq(T), Len(s) = n + 1 PROVE s \in S
    OBVIOUS
  <2>1. s # <<>>
    BY EmptySeq
  <2>2. s # <<>> => \E r \in Seq(T) : \E x \in T : s = Append(r, x)
    BY SequenceEmptyOrAppend
  <2>3. PICK r \in Seq(T), x \in T : s = Append(r, x)
    BY <2>1, <2>2
  <2>4. Len(r) = n
    BY <2>3
  <2>5. r \in S
    BY <2>4
  <2> QED
    BY <2>3, <2>5
<1>3. N = Nat
  <2> HIDE DEF N
  <2> QED
    BY <1>1, <1>2, FromZero DEF N
<1>4. ASSUME NEW s \in Seq(T) PROVE s \in S
  <2>1. Len(s) \in N
    BY <1>3, LenProperties
  <2> QED
    BY <2>1
<1> QED
  BY <1>4

(* The recursive function of Kept, up to m: that there is one, and what it *)
(* says of the empty sequence and of a sequence with one member more.      *)
Copied(S, s, k, n) == IF s[n] \in S THEN Append(k, s[n]) ELSE k
Upto(S, s, f, m) ==
    f = [n \in 0 .. m |-> IF n = 0 THEN <<>> ELSE Copied(S, s, f[n - 1], n)]

LEMMA UptoParts ==
    ASSUME NEW S, NEW s, NEW f, NEW m \in Nat, Upto(S, s, f, m)
    PROVE  f[0] = <<>> /\ \A n \in 1 .. m : f[n] = Copied(S, s, f[n - 1], n)
<1>1. \A n \in 0 .. m : f[n] = IF n = 0 THEN <<>> ELSE Copied(S, s, f[n - 1], n)
  BY Zenon DEF Upto
<1>2. 0 \in 0 .. m /\ \A n \in 1 .. m : n \in 0 .. m /\ n # 0
  OBVIOUS
<1> QED
  BY <1>1, <1>2

LEMMA KeptExists ==
    ASSUME NEW S, NEW T, NEW s \in Seq(T)
    PROVE  \E f : Upto(S, s, f, Len(s))
<1> DEFINE N == {m \in Nat : \E f : Upto(S, s, f, m)}
<1>1. 0 \in N
  <2> DEFINE f == [n \in 0 .. 0 |-> <<>>]
  <2>1. Upto(S, s, f, 0)
    BY DEF Upto
  <2> QED
    BY <2>1
<1>2. ASSUME NEW m \in N PROVE m + 1 \in N
  <2>1. m \in Nat /\ \E f : Upto(S, s, f, m)
    OBVIOUS
  <2>2. PICK f : Upto(S, s, f, m)
    BY <2>1
  <2> DEFINE g == [n \in 0 .. m + 1 |->
                      IF n = 0 THEN <<>> ELSE Copied(S, s, f[n - 1], n)]
  <2>3. \A n \in 0 .. m : g[n] = f[n]
    <3>1. \A n \in 0 .. m : n \in 0 .. m + 1 
      BY <2>1
    <3>2. \A n \in 0 .. m : f[n] = IF n = 0 THEN <<>> ELSE Copied(S, s, f[n - 1], n)
      BY <2>2, Zenon DEF Upto
    <3> QED
      BY <3>1, <3>2
  <2>4. \A n \in 0 .. m + 1 : n # 0 => g[n - 1] = f[n - 1]
    <3>1. \A n \in 0 .. m + 1 : n # 0 => n - 1 \in 0 .. m
      BY <2>1
    <3> HIDE DEF g
    <3> QED
      BY <2>3, <3>1
  <2>5. g = [n \in 0 .. m + 1 |-> IF n = 0 THEN <<>> ELSE Copied(S, s, g[n - 1], n)]
    BY <2>4
  <2>6. Upto(S, s, g, m + 1)
    BY <2>5, Zenon DEF Upto
  <2>7. m + 1 \in Nat
    BY <2>1
  <2> QED
    BY <2>6, <2>7
<1>3. N = Nat
  <2> HIDE DEF N
  <2> QED
    BY <1>1, <1>2, FromZero DEF N
<1> QED
  BY <1>3, LenProperties

LEMMA KeptIs ==
    ASSUME NEW S, NEW T, NEW s \in Seq(T), NEW n, n = Len(s)
    PROVE  \E f : Upto(S, s, f, n) /\ Kept(S, s) = f[n]
<1> DEFINE f == CHOOSE f : Upto(S, s, f, Len(s))
<1>1. Kept(S, s) = f[Len(s)]
  BY DEF Kept, Upto, Copied
<1>2. Upto(S, s, f, Len(s))
  BY KeptExists, Zenon
<1> QED
  BY <1>1, <1>2

LEMMA KeptEmpty == ASSUME NEW S PROVE Kept(S, <<>>) = <<>>
<1>1. PICK f : Upto(S, <<>>, f, 0) /\ Kept(S, <<>>) = f[0]
  <2>1. <<>> \in Seq({}) /\ Len(<<>>) = 0
    OBVIOUS
  <2> QED
    BY <2>1, KeptIs
<1> QED
  BY <1>1, UptoParts

LEMMA KeptAppend ==
    ASSUME NEW S, NEW T, NEW s \in Seq(T), NEW x \in T
    PROVE  Kept(S, Append(s, x)) = IF x \in S THEN Append(Kept(S, s), x) ELSE Kept(S, s)
<1> DEFINE a == Append(s, x)
           n == Len(s)
<1>1. /\ a \in Seq(T) /\ n \in Nat /\ Len(a) = n + 1
      /\ a[n + 1] = x /\ \A i \in 1 .. n : a[i] = s[i]
  OBVIOUS
<1> HIDE DEF a, n
<1>2. PICK f : Upto(S, s, f, n) /\ Kept(S, s) = f[n]
  BY KeptIs DEF n
<1>3. PICK g : Upto(S, a, g, n + 1) /\ Kept(S, a) = g[n + 1]
  BY <1>1, KeptIs
<1>4. f[0] = <<>> /\ \A i \in 1 .. n : f[i] = Copied(S, s, f[i - 1], i)
  BY <1>2, <1>1, UptoParts
<1>5. n + 1 \in Nat
  BY <1>1
<1>6. g[0] = <<>> /\ \A i \in 1 .. n + 1 : g[i] = Copied(S, a, g[i - 1], i)
  BY <1>3, <1>5, UptoParts
<1> DEFINE N == {m \in Nat : m <= n => g[m] = f[m]}
<1>7. 0 \in N
  BY <1>4, <1>6
<1>8. ASSUME NEW m \in N PROVE m + 1 \in N
  <2> SUFFICES ASSUME m + 1 <= n PROVE g[m + 1] = f[m + 1]
    OBVIOUS
  <2>1. m + 1 \in 1 .. n /\ m + 1 \in 1 .. n + 1 /\ (m + 1) - 1 = m /\ g[m] = f[m]
    BY <1>1
  <2> QED
    BY <1>1, <1>4, <1>6, <2>1 DEF Copied
<1>9. N = Nat
  <2> HIDE DEF N
  <2> QED
    BY <1>7, <1>8, FromZero DEF N
<1>10. g[n] = f[n]
  BY <1>9, <1>1
<1>11. g[n + 1] = Copied(S, a, g[n], n + 1)
  <2>1. n + 1 \in 1 .. n + 1 /\ (n + 1) - 1 = n
    BY <1>1
  <2> QED
    BY <1>6, <2>1
<1> QED
  BY <1>2, <1>3, <1>10, <1>11, <1>1 DEF Copied, a

LEMMA KeptType == ASSUME NEW T, NEW S PROVE \A s \in Seq(T) : Kept(S, s) \in Seq(T)
<1> DEFINE G == {s \in Seq(T) : Kept(S, s) \in Seq(T)}
<1>1. <<>> \in G
  BY KeptEmpty, EmptySeq
<1>2. ASSUME NEW s \in G, NEW x \in T PROVE Append(s, x) \in G
  <2>1. s \in Seq(T) /\ Kept(S, s) \in Seq(T)
    OBVIOUS
  <2>2. Kept(S, Append(s, x)) \in {Append(Kept(S, s), x), Kept(S, s)}
    BY <2>1, KeptAppend
  <2> QED
    BY <2>1, <2>2
<1>3. G = Seq(T)
  <2> HIDE DEF G
  <2> QED
    BY <1>1, <1>2, SeqsFromEmpty DEF G
<1> QED
  BY <1>3

(* What is known of a list, line by line. *)
LEMMA KnownEmpty == Known(<<>>) = <<>>
  BY KeptEmpty DEF Known

LEMMA KnownAppend ==
    ASSUME NEW s \in Seq(Lines), NEW x \in Lines
    PROVE  Known(Append(s, x)) =
              IF x.whole /\ x.game \notin Wide THEN Append(Known(s), x.game) ELSE Known(s)
<1> DEFINE S == {line \in Lines : line.whole /\ line.game \notin Wide}
           p == Kept(S, s)
<1>1. Kept(S, Append(s, x)) = IF x \in S THEN Append(p, x) ELSE p
  BY KeptAppend
<1>2. p \in Seq(Lines)
  BY KeptType
<1>3. x \in S <=> x.whole /\ x.game \notin Wide
  OBVIOUS
<1>4. Known(s) = [i \in DOMAIN p |-> p[i].game]
  BY DEF Known
<1> HIDE DEF p, S
<1>5. [i \in DOMAIN Append(p, x) |-> Append(p, x)[i].game] =
         Append([i \in DOMAIN p |-> p[i].game], x.game)
  BY <1>2 DEF Lines
<1> QED
  BY <1>1, <1>3, <1>4, <1>5 DEF Known, S

LEMMA KnownType == \A s \in Seq(Lines) : Known(s) \in Seq(Games)
<1> DEFINE G == {s \in Seq(Lines) : Known(s) \in Seq(Games)}
<1>1. <<>> \in G
  BY KnownEmpty, EmptySeq
<1>2. ASSUME NEW s \in G, NEW x \in Lines PROVE Append(s, x) \in G
  <2>1. s \in Seq(Lines) /\ Known(s) \in Seq(Games) /\ x.game \in Games
    BY DEF Lines
  <2> QED
    BY <2>1, KnownAppend
<1>3. G = Seq(Lines)
  <2> HIDE DEF G
  <2> QED
    BY <1>1, <1>2, SeqsFromEmpty DEF G
<1> QED
  BY <1>3

LEMMA KnownWithout ==
    ASSUME NEW g \in Games
    PROVE  \A s \in Seq(Lines) :
              Known(Without(g, s)) =
                 IF g \in Wide THEN Known(s) ELSE Kept(Games \ {g}, Known(s))
<1> DEFINE S == {line \in Lines : line.whole /\ ~Same(g, line)}
           others == Games \ {g}
           G == {s \in Seq(Lines) :
                    Known(Kept(S, s)) = IF g \in Wide THEN Known(s) ELSE Kept(others, Known(s))}
<1>1. <<>> \in G
  BY KnownEmpty, KeptEmpty
<1>2. ASSUME NEW s \in G, NEW x \in Lines PROVE Append(s, x) \in G
  <2> DEFINE a == Append(s, x)
  <2>1. s \in Seq(Lines) /\ a \in Seq(Lines)
    OBVIOUS
  <2>2. /\ s \in Seq(Lines) /\ Known(s) \in Seq(Games)
        /\ x.game \in Games /\ x.whole \in BOOLEAN
    BY <2>1, KnownType DEF Lines
  <2>3. Kept(S, s) \in Seq(Lines)
    BY <2>2, KeptType
  <2>4. x \in S <=> x.whole /\ (g \in Wide \/ x.game # g)
    BY DEF Same
  <2>5. Known(Kept(S, s)) = IF g \in Wide THEN Known(s) ELSE Kept(others, Known(s))
    OBVIOUS
  <2>6. Kept(S, a) = IF x \in S THEN Append(Kept(S, s), x) ELSE Kept(S, s)
    BY <2>2, KeptAppend
  <2>7. Known(a) = IF x.whole /\ x.game \notin Wide
                   THEN Append(Known(s), x.game) ELSE Known(s)
    BY <2>2, KnownAppend
  <2>8. Known(Append(Kept(S, s), x)) =
          IF x.whole /\ x.game \notin Wide
          THEN Append(Known(Kept(S, s)), x.game) ELSE Known(Kept(S, s))
    BY <2>3, KnownAppend
  <2>9. x.game \in others <=> x.game # g
    BY <2>2
  <2>10. Kept(others, Append(Known(s), x.game)) =
          IF x.game # g
          THEN Append(Kept(others, Known(s)), x.game) ELSE Kept(others, Known(s))
    <3>1. ASSUME NEW q \in Seq(Games), NEW h \in Games
          PROVE  Kept(others, Append(q, h)) =
                    IF h \in others THEN Append(Kept(others, q), h) ELSE Kept(others, q)
      BY KeptAppend
    <3> HIDE DEF others
    <3> QED
      BY <2>2, <2>9, <3>1
  <2> HIDE DEF S, a, others
  <2>11. Known(Kept(S, a)) = IF g \in Wide THEN Known(a) ELSE Kept(others, Known(a))
    BY <2>4, <2>5, <2>6, <2>7, <2>8, <2>10, Zenon
  <2> QED
    BY <2>1, <2>11 DEF a
<1>3. G = Seq(Lines)
  <2> HIDE DEF G
  <2> QED
    BY <1>1, <1>2, SeqsFromEmpty DEF G
<1> QED
  BY <1>3 DEF Without

LEMMA KnownFinds ==
    ASSUME NEW g \in Games \ Wide
    PROVE  \A s \in Seq(Lines) :
              (\E i \in DOMAIN s : s[i].whole /\ s[i].game = g)
              <=> \E i \in DOMAIN Known(s) : Known(s)[i] = g
<1> DEFINE In(q) == \E i \in DOMAIN q : q[i].whole /\ q[i].game = g
           Of(q) == \E i \in DOMAIN q : q[i] = g
           G == {s \in Seq(Lines) : In(s) <=> Of(Known(s))}
<1>1. <<>> \in G
  <2>1. ~In(<<>>) /\ ~Of(<<>>)
    OBVIOUS
  <2> HIDE DEF In, Of
  <2> QED
    BY <2>1, KnownEmpty
<1>2. ASSUME NEW s \in G, NEW x \in Lines PROVE Append(s, x) \in G
  <2>1. /\ s \in Seq(Lines) /\ Known(s) \in Seq(Games) /\ x.game \in Games
        /\ In(s) <=> Of(Known(s))
    BY KnownType DEF Lines
  <2>2. In(Append(s, x)) <=> In(s) \/ (x.whole /\ x.game = g)
    <3>1. /\ DOMAIN Append(s, x) = DOMAIN s \cup {Len(s) + 1} 
          /\ Append(s, x)[Len(s) + 1] = x /\ \A i \in DOMAIN s : Append(s, x)[i] = s[i]
      BY <2>1
    <3> QED
      BY <3>1
  <2>3. ASSUME NEW q \in Seq(Games), NEW h PROVE Of(Append(q, h)) <=> Of(q) \/ h = g
    <3>1. /\ DOMAIN Append(q, h) = DOMAIN q \cup {Len(q) + 1} 
          /\ Append(q, h)[Len(q) + 1] = h /\ \A i \in DOMAIN q : Append(q, h)[i] = q[i]
      OBVIOUS
    <3> QED
      BY <3>1
  <2> HIDE DEF In, Of
  <2>4. In(Append(s, x)) <=> Of(Known(Append(s, x)))
    <3>1. CASE x.whole /\ x.game \notin Wide
      <4>1. Known(Append(s, x)) = Append(Known(s), x.game)
        BY <2>1, <3>1, KnownAppend
      <4>2. Of(Append(Known(s), x.game)) <=> Of(Known(s)) \/ x.game = g
        BY <2>1, <2>3
      <4> QED
        BY <2>1, <2>2, <3>1, <4>1, <4>2
    <3>2. CASE ~(x.whole /\ x.game \notin Wide)
      BY <2>1, <2>2, <3>2, KnownAppend
    <3> QED
      BY <3>1, <3>2
  <2> QED
    BY <2>1, <2>4
<1>3. G = Seq(Lines)
  <2> HIDE DEF G
  <2> QED
    BY <1>1, <1>2, SeqsFromEmpty DEF G
<1> QED
  BY <1>3

LEMMA KnownInFront ==
    ASSUME NEW g \in Games
    PROVE  \A s \in Seq(Lines) :
              Known(<<Line(g)>> \o s) = IF g \in Wide THEN Known(s) ELSE <<g>> \o Known(s)
<1> DEFINE l == Line(g)
           G == {s \in Seq(Lines) :
                    Known(<<l>> \o s) = IF g \in Wide THEN Known(s) ELSE <<g>> \o Known(s)}
<1>1. l \in Lines /\ l.whole /\ l.game = g
  BY DEF Line, Lines
<1> HIDE DEF l
<1>2. <<>> \in G
  <2>1. <<l>> \o <<>> = Append(<<>>, l) /\ <<>> \in Seq(Lines) /\ <<g>> \o <<>> = Append(<<>>, g)
    BY <1>1
  <2> QED
    BY <1>1, <2>1, KnownEmpty, KnownAppend
<1>3. ASSUME NEW s \in G, NEW x \in Lines PROVE Append(s, x) \in G
  <2>1. /\ s \in Seq(Lines) /\ Known(s) \in Seq(Games) /\ x.game \in Games
        /\ Known(<<l>> \o s) = IF g \in Wide THEN Known(s) ELSE <<g>> \o Known(s)
    BY KnownType DEF Lines
  <2>2. <<l>> \o Append(s, x) = Append(<<l>> \o s, x) /\ <<l>> \o s \in Seq(Lines)
    BY <1>1, <2>1
  <2>3. <<g>> \o Append(Known(s), x.game) = Append(<<g>> \o Known(s), x.game)
    BY <2>1
  <2>4. Known(<<l>> \o Append(s, x)) =
          IF x.whole /\ x.game \notin Wide
          THEN Append(Known(<<l>> \o s), x.game) ELSE Known(<<l>> \o s)
    BY <2>2, KnownAppend
  <2>5. Known(Append(s, x)) =
          IF x.whole /\ x.game \notin Wide THEN Append(Known(s), x.game) ELSE Known(s)
    BY <2>1, KnownAppend
  <2>6. Known(<<l>> \o Append(s, x)) =
          IF g \in Wide THEN Known(Append(s, x)) ELSE <<g>> \o Known(Append(s, x))
    BY <2>1, <2>3, <2>4, <2>5, Zenon
  <2> QED
    BY <2>1, <2>6
<1>4. G = Seq(Lines)
  <2> HIDE DEF G
  <2> QED
    BY <1>2, <1>3, SeqsFromEmpty DEF G
<1> QED
  BY <1>4 DEF l

-----------------------------------------------------------------------------
(* Of a list that is cut short the beginning is left.                      *)
LEMMA PartTypes == ASSUME NEW s \in Seq(Lines) PROVE ListParts(s) \subseteq Seq(Lines)
<1>1. ASSUME NEW n \in 0 .. Len(s) PROVE SubSeq(s, 1, n) \in Seq(Lines)
  OBVIOUS
<1>2. ASSUME NEW n \in 1 .. Len(s)
      PROVE  SubSeq(s, 1, n - 1) \o <<[s[n] EXCEPT !.whole = FALSE]>> \in Seq(Lines)
  <2>1. s[n] \in Lines
    OBVIOUS
  <2>2. [s[n] EXCEPT !.whole = FALSE] \in Lines
    BY <2>1 DEF Lines
  <2>3. SubSeq(s, 1, n - 1) \in Seq(Lines)
    OBVIOUS
  <2> QED
    BY <2>2, <2>3
<1> QED
  BY <1>1, <1>2 DEF ListParts

LEMMA PartsEmpty == ListParts(<<>>) = {<<>>}
<1>1. Len(<<>>) = 0 /\ 0 .. 0 = {0} /\ 1 .. 0 = {} /\ SubSeq(<<>>, 1, 0) = <<>>
  OBVIOUS
<1>2. {SubSeq(<<>>, 1, n) : n \in {0}} = {<<>>}
  BY <1>1
<1> QED
  BY <1>1, <1>2 DEF ListParts

LEMMA PartsAppend ==
    ASSUME NEW s \in Seq(Lines), NEW x \in Lines, NEW part \in ListParts(Append(s, x))
    PROVE  \/ part \in ListParts(s)
           \/ part = Append(s, [x EXCEPT !.whole = FALSE])
           \/ part = Append(s, x)
<1> DEFINE a == Append(s, x)
           m == Len(s)
<1>1. m \in Nat /\ Len(a) = m + 1 /\ a[m + 1] = x /\ \A i \in 1 .. m : a[i] = s[i]
  OBVIOUS
<1>2. \A n \in 0 .. m : SubSeq(a, 1, n) = SubSeq(s, 1, n)
  OBVIOUS
<1>3. SubSeq(a, 1, m + 1) = a /\ SubSeq(a, 1, m) = s
  OBVIOUS
<1>4. CASE \E n \in 0 .. Len(a) : part = SubSeq(a, 1, n)
  <2>1. PICK n \in 0 .. m + 1 : part = SubSeq(a, 1, n)
    BY <1>1, <1>4
  <2>2. CASE n = m + 1
    BY <1>3, <2>1, <2>2
  <2>3. CASE n # m + 1
    <3>1. n \in 0 .. Len(s) /\ part = SubSeq(s, 1, n)
      BY <1>1, <1>2, <2>1, <2>3
    <3> QED
      BY <3>1 DEF ListParts
  <2> QED
    BY <2>2, <2>3
<1>5. CASE \E n \in 1 .. Len(a) :
              part = SubSeq(a, 1, n - 1) \o <<[a[n] EXCEPT !.whole = FALSE]>>
  <2>1. PICK n \in 1 .. m + 1 :
                part = SubSeq(a, 1, n - 1) \o <<[a[n] EXCEPT !.whole = FALSE]>>
    BY <1>1, <1>5
  <2>2. CASE n = m + 1
    <3>1. n - 1 = m /\ a[n] = x
      BY <1>1, <2>2
    <3>2. SubSeq(a, 1, n - 1) = s
      BY <1>3, <3>1
    <3> DEFINE torn == [x EXCEPT !.whole = FALSE]
    <3>3. part = s \o <<torn>>
      BY <2>1, <3>1, <3>2
    <3> HIDE DEF torn
    <3>4. s \o <<torn>> = Append(s, torn)
      OBVIOUS
    <3> QED
      BY <3>3, <3>4 DEF torn
  <2>3. CASE n # m + 1
    <3>1. n \in 1 .. Len(s) /\ n - 1 \in 0 .. m
      BY <1>1, <2>1, <2>3
    <3>2. SubSeq(a, 1, n - 1) = SubSeq(s, 1, n - 1) /\ a[n] = s[n]
      BY <1>1, <1>2, <3>1
    <3>3. part = SubSeq(s, 1, n - 1) \o <<[s[n] EXCEPT !.whole = FALSE]>>
      BY <2>1, <3>2
    <3> QED
      BY <3>1, <3>3 DEF ListParts
  <2> QED
    BY <2>2, <2>3
<1> QED
  BY <1>4, <1>5 DEF ListParts

LEMMA BeginsAll == ASSUME NEW T, NEW t \in Seq(T) PROVE Begins(t, t)
<1>1. Len(t) \in 0 .. Len(t) /\ SubSeq(t, 1, Len(t)) = t
  OBVIOUS
<1> QED
  BY <1>1 DEF Begins

LEMMA BeginsLonger ==
    ASSUME NEW T, NEW t \in Seq(T), NEW y \in T, NEW s, Begins(s, t)
    PROVE  Begins(s, Append(t, y))
<1>1. PICK n \in 0 .. Len(t) : s = SubSeq(t, 1, n)
  BY DEF Begins
<1>2. n \in 0 .. Len(Append(t, y)) /\ SubSeq(Append(t, y), 1, n) = SubSeq(t, 1, n)
  OBVIOUS
<1> QED
  BY <1>1, <1>2 DEF Begins

LEMMA KnownParts ==
    \A s \in Seq(Lines) : \A part \in ListParts(s) : Begins(Known(part), Known(s))
<1> DEFINE G == {s \in Seq(Lines) : \A part \in ListParts(s) : Begins(Known(part), Known(s))}
<1>1. <<>> \in G
  <2>1. <<>> \in Seq(Games) /\ <<>> \in Seq(Lines)
    OBVIOUS
  <2>2. Begins(<<>>, <<>>)
    BY <2>1, BeginsAll
  <2> QED
    BY <2>1, <2>2, PartsEmpty, KnownEmpty
<1>2. ASSUME NEW s \in G, NEW x \in Lines PROVE Append(s, x) \in G
  <2>1. s \in Seq(Lines) /\ \A part \in ListParts(s) : Begins(Known(part), Known(s))
    OBVIOUS
  <2>2. Append(s, x) \in Seq(Lines) /\ Known(s) \in Seq(Games) /\ x.game \in Games
    <3>1. Append(s, x) \in Seq(Lines)
      BY <2>1
    <3> QED
      BY <2>1, <3>1, KnownType DEF Lines
  <2>3. \A q : Begins(q, Known(s)) => Begins(q, Known(Append(s, x)))
    <3>1. \A q : Begins(q, Known(s)) => Begins(q, Append(Known(s), x.game))
      BY <2>2, BeginsLonger
    <3> QED
      BY <2>1, <3>1, KnownAppend
  <2>4. ASSUME NEW part \in ListParts(Append(s, x))
        PROVE  Begins(Known(part), Known(Append(s, x)))
    <3>1. CASE part \in ListParts(s)
      BY <2>1, <2>3, <3>1
    <3>2. CASE part = Append(s, [x EXCEPT !.whole = FALSE])
      <4>1. [x EXCEPT !.whole = FALSE] \in Lines /\ ~[x EXCEPT !.whole = FALSE].whole
        BY DEF Lines
      <4>2. Known(part) = Known(s)
        BY <2>1, <3>2, <4>1, KnownAppend
      <4> QED
        BY <2>2, <2>3, <4>2, BeginsAll
    <3>3. CASE part = Append(s, x)
      <4>1. Known(part) \in Seq(Games)
        BY <2>2, <3>3, KnownType
      <4> QED
        BY <3>3, <4>1, BeginsAll
    <3> QED
      BY <2>1, <3>1, <3>2, <3>3, PartsAppend
  <2> QED
    BY <2>2, <2>4
<1>3. G = Seq(Lines)
  <2> HIDE DEF G
  <2> QED
    BY <1>1, <1>2, SeqsFromEmpty DEF G
<1> QED
  BY <1>3

-----------------------------------------------------------------------------
(* The lists: what is known of each is what the player chose, or of a list *)
(* that did not fit the beginning of it, and the copy in memory is not     *)
(* behind, except while the favourites are written.                        *)
ListHolds(l) == IF l \in short THEN Begins(Known(card[l]), chosen[l])
                ELSE Known(card[l]) = chosen[l]
ListsInv ==
    /\ ListsTypeOK
    /\ \A l \in Lists : ListHolds(l)
    /\ cache = NotRead \/ busy = Favorites \/ cache = card[Favorites]

LEMMA ListNames ==
    /\ Favorites \in Lists /\ Recent \in Lists /\ Favorites # Recent
    /\ \A l \in Lists : l = Favorites \/ l = Recent
    /\ Lists \subseteq Files /\ None \notin Lists /\ Lists \cap StateFiles = {}
  BY FilesAssumption DEF Lists, Favorites, Recent, Files, None

LEMMA ListsInitially == ASSUME Init PROVE ListsInv
<1>1. /\ \A l \in Lists : card[l] = <<>> /\ disk[l] = <<>>
      /\ cache = NotRead /\ chosen = [l \in Lists |-> <<>>] /\ short = {}
  BY DEF Init, ListsInit
<1> QED
  BY <1>1, KnownEmpty, EmptySeq DEF ListsInv, ListsTypeOK, ListHolds

LEMMA WrittenTypes ==
    ASSUME NEW g \in Games, NEW s \in Seq(Lines)
    PROVE  Without(g, s) \in Seq(Lines) /\ InFront(g, s) \in Seq(Lines)
<1>1. Without(g, s) \in Seq(Lines)
  BY KeptType DEF Without
<1>2. Line(g) \in Lines
  BY DEF Line, Lines
<1> QED
  BY <1>1, <1>2 DEF InFront

(* What a change does to the file it does to the history. *)
LEMMA ChosenKnown ==
    ASSUME ListsInv, NEW l \in Lists, NEW g \in Games,
           NEW add \in BOOLEAN, NEW with \in BOOLEAN, Chosen(l, g, add), g \notin Wide => (add <=> with)
    PROVE  chosen' = [chosen EXCEPT ![l] =
                         Known(IF with THEN InFront(g, card[l]) ELSE Without(g, card[l]))]
<1>1. card[l] \in Seq(Lines) /\ Before(l) = Known(card[l])
  BY DEF ListsInv, ListsTypeOK, ListHolds, Before
<1> DEFINE before == Before(l)
<1> HIDE DEF before
<1>2. Without(g, card[l]) \in Seq(Lines)
  BY <1>1, WrittenTypes
<1>3. Known(Without(g, card[l])) =
        IF g \in Wide THEN before ELSE Kept(Games \ {g}, before)
  BY <1>1, KnownWithout DEF before
<1>4. Known(InFront(g, card[l])) =
        IF g \in Wide THEN before ELSE <<g>> \o Kept(Games \ {g}, before)
  BY <1>2, <1>3, KnownInFront DEF InFront
<1>5. chosen' = [chosen EXCEPT ![l] =
                    IF g \in Wide THEN before
                    ELSE IF add THEN <<g>> \o Kept(Games \ {g}, before)
                    ELSE Kept(Games \ {g}, before)]
  BY DEF Chosen, before
<1>6. Known(IF with THEN InFront(g, card[l]) ELSE Without(g, card[l])) =
        IF g \in Wide THEN before
        ELSE IF add THEN <<g>> \o Kept(Games \ {g}, before)
        ELSE Kept(Games \ {g}, before)
  <2>1. CASE with
    BY <2>1, <1>3, <1>4
  <2>2. CASE ~with
    BY <2>2, <1>3, <1>4
  <2> QED
    BY <2>1, <2>2
<1> QED
  BY <1>5, <1>6

LEMMA ListRewritten ==
    ASSUME ListsInv, DOMAIN card = Files, NEW l \in Lists, NEW lines \in Seq(Lines),
           Rewrite(l, lines), chosen' = [chosen EXCEPT ![l] = Known(lines)],
           cache' = cache \/ (l = Favorites /\ cache' = Favourites)
    PROVE  ListsInv'
<1>1. PICK part \in Seq(Lines) :
         /\ card' = [card EXCEPT ![l] = part]
         /\ \/ part = lines /\ short' = short \ {l}
            \/ Begins(Known(part), Known(lines)) /\ short' = short \union {l}
  <2>1. CASE Write(l, lines) /\ short' = short \ {l}
    BY <2>1 DEF Write
  <2>2. CASE /\ \E part \in ListParts(lines) \ {lines} : Write(l, part)
             /\ short' = short \union {l}
    BY <2>2, PartTypes, KnownParts DEF Write
  <2> QED
    BY <2>1, <2>2 DEF Rewrite
<1>2. disk' = disk /\ busy = None /\ busy' = l
  BY DEF Rewrite
<1>3. card'[l] = part /\ \A k \in Lists \ {l} : card'[k] = card[k]
  BY <1>1, ListNames
<1>4. /\ chosen' \in [Lists -> Seq(Games)]
      /\ chosen'[l] = Known(lines) /\ \A k \in Lists \ {l} : chosen'[k] = chosen[k]
  BY KnownType DEF ListsInv, ListsTypeOK
<1>5. short' \subseteq Lists /\ \A k \in Lists \ {l} : k \in short' <=> k \in short
  BY <1>1 DEF ListsInv, ListsTypeOK
<1>6. \A k \in Lists : ListHolds(k)'
  BY <1>1, <1>3, <1>4, <1>5 DEF ListsInv, ListHolds
<1>7. cache' \in Seq(Lines) \cup {NotRead}
  BY ListNames DEF ListsInv, ListsTypeOK, Favourites
<1>8. cache' = NotRead \/ busy' = Favorites \/ cache' = card'[Favorites]
  BY <1>2, <1>3, ListNames DEF ListsInv
<1>9. \A k \in Lists : card'[k] \in Seq(Lines) /\ disk'[k] \in Seq(Lines)
  BY <1>1, <1>2, <1>3 DEF ListsInv, ListsTypeOK
<1> QED
  BY <1>4, <1>5, <1>6, <1>7, <1>8, <1>9 DEF ListsInv, ListsTypeOK

(* IsShoucang asks the copy, and is right about the file. *)
LEMMA Favoured ==
    ASSUME ListsInv, busy = None, NEW g \in Games \ Wide
    PROVE  IsShoucang(g) <=> g \in {Before(Favorites)[i] : i \in DOMAIN Before(Favorites)}
<1>1. Favourites = card[Favorites]
  BY ListNames DEF ListsInv, Favourites
<1>2. card[Favorites] \in Seq(Lines) /\ Known(card[Favorites]) = Before(Favorites)
  BY ListNames DEF ListsInv, ListsTypeOK, ListHolds, Before
<1>3. IsShoucang(g) <=> \E i \in DOMAIN card[Favorites] :
                           card[Favorites][i].whole /\ card[Favorites][i].game = g
  BY <1>1 DEF IsShoucang, Same
<1>4. IsShoucang(g) <=> \E i \in DOMAIN Before(Favorites) : Before(Favorites)[i] = g
  BY <1>2, <1>3, KnownFinds
<1> QED
  BY <1>4

LEMMA ShoucangLists ==
    ASSUME ListsInv, DOMAIN card = Files, NEW g \in Games, Shoucang(g) PROVE ListsInv'
<1> DEFINE with == ~IsShoucang(g)
           add == g \notin {Before(Favorites)[i] : i \in DOMAIN Before(Favorites)}
           lines == IF with THEN InFront(g, card[Favorites]) ELSE Without(g, card[Favorites])
<1>1. Rewrite(Favorites, lines) /\ Chosen(Favorites, g, add) /\ cache' = Favourites
  BY DEF Shoucang
<1>2. with \in BOOLEAN /\ add \in BOOLEAN
  OBVIOUS
<1>3. busy = None
  BY <1>1 DEF Rewrite
<1>4. g \notin Wide => (add <=> with)
  BY <1>3, Favoured
<1>5. card[Favorites] \in Seq(Lines)
  BY ListNames DEF ListsInv, ListsTypeOK
<1>6. lines \in Seq(Lines)
  BY <1>5, WrittenTypes
<1> HIDE DEF with, add
<1>7. chosen' = [chosen EXCEPT ![Favorites] = Known(lines)]
  BY <1>1, <1>2, <1>4, ListNames, ChosenKnown
<1> HIDE DEF lines
<1> QED
  BY <1>1, <1>6, <1>7, ListNames, ListRewritten

LEMMA PlayedLists ==
    ASSUME ListsInv, DOMAIN card = Files, NEW g \in Games, Played(g) PROVE ListsInv'
<1>1. InFront(g, card[Recent]) \in Seq(Lines)
  BY ListNames, WrittenTypes DEF ListsInv, ListsTypeOK
<1>2. chosen' = [chosen EXCEPT ![Recent] = Known(InFront(g, card[Recent]))]
  BY ListNames, ChosenKnown DEF Played
<1> QED
  BY <1>1, <1>2, ListNames, ListRewritten DEF Played

LEMMA ForgetLists ==
    ASSUME ListsInv, DOMAIN card = Files, NEW g \in Games, Forget(g) PROVE ListsInv'
<1>1. Without(g, card[Recent]) \in Seq(Lines)
  BY ListNames, WrittenTypes DEF ListsInv, ListsTypeOK
<1>2. chosen' = [chosen EXCEPT ![Recent] = Known(Without(g, card[Recent]))]
  BY ListNames, ChosenKnown DEF Forget
<1> QED
  BY <1>1, <1>2, ListNames, ListRewritten DEF Forget

LEMMA ForgetAllLists ==
    ASSUME ListsInv, DOMAIN card = Files, NEW l \in Lists, ForgetAll(l) PROVE ListsInv'
  BY ListRewritten, KnownEmpty, EmptySeq DEF ForgetAll

LEMMA UnopenedLists == ASSUME ListsInv, Unopened PROVE ListsInv'
  BY DEF Unopened, ListsInv, ListsTypeOK, ListHolds

LEMMA ListSyncedLists == ASSUME ListsInv, ListSynced PROVE ListsInv'
<1>1. /\ busy \in Lists /\ busy' = None /\ UNCHANGED <<card, chosen, short>>
      /\ disk' \in {disk, [disk EXCEPT ![busy] = card[busy]]}
      /\ cache' = IF busy = Favorites THEN card[busy] ELSE cache
  BY DEF ListSynced, Fsync
<1>2. \A l \in Lists : disk'[l] \in {disk[l], card[l]}
  <2>1. CASE disk' = disk
    BY <2>1
  <2>2. CASE disk' = [disk EXCEPT ![busy] = card[busy]]
    BY <2>2
  <2> QED
    BY <1>1, <2>1, <2>2
<1> QED
  BY <1>1, <1>2, ListNames DEF ListsInv, ListsTypeOK, ListHolds

(* The save states are other files. *)
LEMMA ListsApart ==
    ASSUME ListsInv, \A l \in Lists : card'[l] = card[l] /\ disk'[l] \in Seq(Lines),
           UNCHANGED lists, busy # Favorites \/ busy' = busy
    PROVE  ListsInv'
  BY ListNames DEF ListsInv, ListsTypeOK, ListHolds, lists

LEMMA StatesLists ==
    ASSUME ListsInv, DOMAIN card = Files, DOMAIN disk = Files, Playing,
           LoadDefaultState \/ InGame \/ EndOfSave \/ Quit
    PROVE  ListsInv'
<1>1. \A l \in Lists : l \notin StateFiles /\ card[l] \in Seq(Lines) /\ disk[l] \in Seq(Lines)
  BY ListNames DEF ListsInv, ListsTypeOK
<1>2. UNCHANGED lists
  BY DEF LoadDefaultState, InGame, EndOfSave, Quit
<1>3. CASE LoadDefaultState \/ Quit
  BY <1>1, <1>2, <1>3, ListsApart DEF LoadDefaultState, RetroLoad, Quit
<1>4. CASE InGame
  <2>1. game \in Games /\ busy = None
    BY <1>4 DEF InGame, Playing, SaveDefaultState, SaveSlot, LoadSlot
  <2>2. SavFile[game] \in StateFiles /\ SlotFile[game] \in StateFiles
    BY <2>1 DEF StateFiles, SavFiles, Slots
  <2>3. \/ UNCHANGED <<card, disk>>
        \/ \E f \in StateFiles : RetroSave(f)
    BY <1>4, <2>2 DEF InGame, SaveDefaultState, SaveSlot, LoadSlot, RetroLoad
  <2>4. disk' = disk /\ \A l \in Lists : card'[l] = card[l]
    BY <1>1, <2>3, ListNames DEF RetroSave, Write
  <2> QED
    BY <1>1, <1>2, <2>1, <2>4, ListNames, ListsApart
<1>5. CASE EndOfSave
  <2>1. busy \in StateFiles /\ \A l \in Lists : card'[l] = card[l] /\ disk'[l] = disk[l]
    BY <1>1, <1>5, ListNames DEF EndOfSave, Picture, Write, Fsync
  <2> QED
    BY <1>1, <1>2, <2>1, ListNames, ListsApart
<1> QED
  BY <1>3, <1>4, <1>5

LEMMA FlushLists == ASSUME ListsInv, Flush PROVE ListsInv'
<1>1. PICK f \in Files :
         \E part \in IF f \in Lists THEN ListParts(card[f]) ELSE StateParts(card[f]) :
            disk' = [disk EXCEPT ![f] = part]
  BY DEF Flush, Writeback
<1>2. UNCHANGED <<card, busy, lists>>
  BY DEF Flush
<1>3. \A l \in Lists : disk'[l] = disk[l] \/ disk'[l] \in ListParts(card[l])
  BY <1>1
<1>4. \A l \in Lists : disk'[l] \in Seq(Lines)
  BY <1>3, PartTypes DEF ListsInv, ListsTypeOK
<1> QED
  BY <1>2, <1>4, ListsApart

LEMMA CutLists == ASSUME ListsInv, Synced, PowerCut PROVE ListsInv'
<1>1. /\ card' = disk /\ disk' = disk /\ busy' = None /\ cache' = NotRead
      /\ chosen' = [l \in Lists |-> IF l \in Open THEN Known(disk[l]) ELSE chosen[l]]
      /\ short' = short \ Open
  BY DEF PowerCut, Cut, ListsCut, Open
<1>2. \A l \in Lists : disk[l] \in Seq(Lines) /\ (l \notin Open => disk[l] = card[l])
  BY DEF Synced, ListsInv, ListsTypeOK
<1>3. \A l \in Lists : chosen'[l] \in Seq(Games) /\ ListHolds(l)'
  <2>1. ASSUME NEW l \in Lists, l \in Open PROVE chosen'[l] \in Seq(Games) /\ ListHolds(l)'
    BY <1>1, <1>2, <2>1, KnownType DEF ListHolds
  <2>2. ASSUME NEW l \in Lists, l \notin Open PROVE chosen'[l] \in Seq(Games) /\ ListHolds(l)'
    BY <1>1, <1>2, <2>2 DEF ListsInv, ListsTypeOK, ListHolds
  <2> QED
    BY <2>1, <2>2
<1>4. chosen' \in [Lists -> Seq(Games)] /\ short' \subseteq Lists
  BY <1>1, <1>3 DEF ListsInv, ListsTypeOK
<1> QED
  BY <1>1, <1>2, <1>3, <1>4 DEF ListsInv, ListsTypeOK

LEMMA ListsStep == ASSUME ListsInv, Synced, Playing, [Next]_vars PROVE ListsInv'
<1>1. DOMAIN card = Files /\ DOMAIN disk = Files
  BY DEF Synced
<1>2. CASE Browse
  <2>1. \/ \E g \in Games : Shoucang(g) \/ Forget(g)
        \/ \E l \in Lists : ForgetAll(l)
        \/ Unopened
    BY <1>2 DEF Browse, Playing
  <2> QED
    BY <1>1, <2>1, ShoucangLists, ForgetLists, ForgetAllLists, UnopenedLists
<1>3. CASE \E g \in games : Start(g)
  BY <1>1, <1>3, PlayedLists, Started DEF Start
<1>4. CASE EndOfRewrite
  BY <1>4, ListSyncedLists DEF EndOfRewrite
<1>5. CASE LoadDefaultState \/ InGame \/ EndOfSave \/ Quit
  BY <1>1, <1>5, StatesLists
<1>6. CASE Flush
  BY <1>6, FlushLists
<1>7. CASE PowerCut
  BY <1>7, CutLists
<1>8. CASE UNCHANGED vars
  <2>1. UNCHANGED <<card, disk, busy, lists>>
    BY <1>8 DEF vars
  <2> QED
    BY <2>1, ListsApart DEF ListsInv, ListsTypeOK
<1> QED
  BY <1>2, <1>3, <1>4, <1>5, <1>6, <1>7, <1>8 DEF Next

(* Outside a rewrite each list holds what the player chose, newest first,  *)
(* or of a list that did not fit on the card the beginning of it, for any  *)
(* games, spellings, length of the lists, failed opens and fsyncs, and     *)
(* cuts: the copy that IsShoucang asks never misleads shoucang.            *)
THEOREM CardListsAsChosen == Spec => []ListsAsChosen
<1>1. ListsInv => ListsAsChosen
  BY DEF ListsInv, ListHolds, ListsAsChosen
<1> QED
  BY <1>1, SyncedInit, SyncedStep, PlayingInitially, PlayingStep, ListsInitially,
     ListsStep, PTL DEF Spec

(* Which files are being rewritten and which are late, and whether a game  *)
(* has begun.                                                              *)
MainTypes == /\ busy \in Lists \cup Slots \cup {None} /\ late \subseteq Lists \cup Slots
             /\ begun \in BOOLEAN

LEMMA MainStep == ASSUME MainTypes, Playing, [Next]_vars PROVE MainTypes'
<1>1. CASE Browse \/ (\E g \in games : Start(g)) \/ EndOfRewrite
  <2>1. /\ busy' \in Lists \cup {None} /\ begun' = begun
        /\ late' \in {late, late \ {busy}, late \union {busy}}
        /\ late' # late => busy \in Lists
    BY <1>1, ListNames
       DEF Browse, Start, EndOfRewrite, Shoucang, Played, Forget, ForgetAll, Unopened,
           Rewrite, ListSynced, Fsync
  <2> QED
    BY <2>1 DEF MainTypes
<1>2. CASE LoadDefaultState \/ Quit \/ Flush \/ UNCHANGED vars
  <2>1. busy' = busy /\ late' = late /\ begun' \in {begun, TRUE, FALSE}
    BY <1>2 DEF LoadDefaultState, RetroLoad, Quit, Flush, vars
  <2> QED
    BY <2>1 DEF MainTypes
<1>3. CASE InGame
  <2>1. game \in Games
    BY <1>3 DEF InGame, Playing
  <2>2. busy' \in {busy} \cup Slots /\ UNCHANGED <<begun, late>>
    BY <1>3, <2>1 DEF InGame, SaveDefaultState, SaveSlot, LoadSlot, RetroSave, RetroLoad, Slots
  <2> QED
    BY <2>2 DEF MainTypes
<1>4. CASE EndOfSave
  <2>1. busy \in Slots
    BY <1>4, Names, StatesAssumption DEF EndOfSave, Picture, MainTypes, StateFiles
  <2>2. /\ busy' = None /\ begun' = begun
        /\ late' \in {late, late \ {busy}, late \union {busy}}
    BY <1>4 DEF EndOfSave, Picture, Fsync
  <2> QED
    BY <2>1, <2>2 DEF MainTypes
<1>5. CASE PowerCut
  BY <1>5 DEF PowerCut, Cut, MainTypes
<1> QED
  BY <1>1, <1>2, <1>3, <1>4, <1>5 DEF Next

(* What is on the card, in part or whole, are lines and states.            *)
THEOREM CardTypeOK == Spec => []TypeOK
<1>1. Init => MainTypes
  BY Zenon DEF Init, MainTypes
<1>2. ListsInv /\ StatesInv /\ MainTypes /\ Playing => TypeOK
  BY DEF ListsInv, StatesInv, MainTypes, Playing, TypeOK
<1> QED
  BY <1>1, <1>2, SyncedInit, SyncedStep, PlayingInitially, PlayingStep, ListsInitially,
     ListsStep, StatesInitially, StatesStep, MainStep, PTL DEF Spec
=============================================================================
