------------------------------ MODULE CardFiles ------------------------------
(***************************************************************************)
(* Main writes the lists in the menu and the save states in a game, one    *)
(* file after another, on one card; the power may go at any moment.        *)
(***************************************************************************)
EXTENDS GameLists, SaveStates

CONSTANT Setups  \* [games: the games on the card, events: how many may happen]

ASSUME FilesAssumption ==
    /\ Lists \cap StateFiles = {}
    /\ Setups \subseteq [games : SUBSET Games, events : 0 .. MaxEvents]

VARIABLES
    games,  \* those on the card
    game,   \* the game that runs, or None
    begun   \* its first frame has been shown

lists == <<cache, chosen, short>>
states == <<newest, doubt, state, suspect>>
vars == <<card, disk, busy, late, events, lists, states, games, game, begun>>

Files == Lists \cup StateFiles
Empty(f) == IF f \in Lists THEN <<>> ELSE Missing

Init ==
    /\ card = [f \in Files |-> Empty(f)] /\ disk = card /\ busy = None /\ late = {}
    /\ \E s \in Setups : games = s.games /\ events = MaxEvents - s.events
    /\ ListsInit /\ StatesInit
    /\ game = None /\ begun = FALSE

(* In the menu. *)
Browse ==
    /\ game = None
    /\ \/ \E g \in games : Shoucang(g) \/ Forget(g)
       \/ \E l \in Lists : ForgetAll(l)
       \/ Unopened
    /\ UNCHANGED <<states, games, game, begun>>

(* mui_run_game puts the game first, then starts it. *)
Start(g) ==
    /\ game = None /\ Played(g) /\ game' = g
    /\ UNCHANGED <<states, games, begun>>

EndOfRewrite == ListSynced /\ UNCHANGED <<states, games, game, begun>>

(* After the first frame. *)
LoadDefaultState ==
    /\ game # None /\ busy = None /\ ~begun /\ begun' = TRUE
    /\ RetroLoad(SavFile[game])
    /\ UNCHANGED <<busy, lists, games, game>>

InGame ==
    /\ begun
    /\ SaveDefaultState(game) \/ SaveSlot(game) \/ LoadSlot(game)
    /\ UNCHANGED <<lists, games, game, begun>>

EndOfSave == Picture /\ UNCHANGED <<lists, games, game, begun>>

Quit == /\ begun /\ busy = None /\ game' = None /\ begun' = FALSE
        /\ state' = Missing /\ suspect' = FALSE
        /\ UNCHANGED <<card, disk, busy, late, events, lists, newest, doubt, games>>

Flush ==
    /\ \E f \in Files :
          Writeback(f, IF f \in Lists THEN ListParts(card[f]) ELSE StateParts(card[f]))
    /\ UNCHANGED <<card, busy, late, events, lists, states, games, game, begun>>

PowerCut ==
    /\ Cut /\ ListsCut /\ StatesCut
    /\ game' = None /\ begun' = FALSE /\ UNCHANGED games

Next ==
    \/ Browse \/ (\E g \in games : Start(g)) \/ EndOfRewrite
    \/ LoadDefaultState \/ InGame \/ EndOfSave \/ Quit
    \/ Flush \/ PowerCut

Spec == Init /\ [][Next]_vars

TypeOK ==
    /\ ListsTypeOK /\ StatesTypeOK
    /\ busy \in Lists \cup Slots \cup {None} /\ late \subseteq Lists \cup Slots
    /\ events \in 0 .. MaxEvents
    /\ games \subseteq Games /\ game \in Games \cup {None} /\ begun \in BOOLEAN

(* A power cut changes no list and no slot but the one that is being       *)
(* rewritten and those that fsync failed for (of a slot that is already in *)
(* doubt nothing is promised); the default states, which are never synced, *)
(* it may change at any time.                                              *)
Open == late \cup {busy}
CutSpares ==
    [][PowerCut => /\ \A l \in Lists \ Open : card'[l] = card[l]
                   /\ \A f \in Slots \ Open : ~doubt[f] => card'[f] = card[f]]_vars
=============================================================================
