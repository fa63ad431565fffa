----------------------------- MODULE SramProofs -----------------------------
(***************************************************************************)
(* The battery saves, for any games, cores, places of dlopen and number of *)
(* games between two power cuts.                                           *)
(***************************************************************************)
EXTENDS SramPersist, TLAPS

(* A game is loaded: its core is mapped. *)
InGame == pc \notin {"menu", "crashed"}

Loaded == InGame => /\ game \in Games /\ lib \in Libs
                    /\ lib.core = CoreOf(game)

TypeInv == TypeOK /\ Loaded

LEMMA Setup ==
    ASSUME setup \in Setups
    PROVE  /\ \A g \in Games : CoreOf(g) \in Cores
           /\ setup.places \subseteq Places
           /\ setup.changes \subseteq {"seen", "unseen"}
           /\ setup.title \in [Games -> Titles] /\ setup.starts \in Nat
<1>1. setup \in [coreOf : [Games -> Cores], title : [Games -> Titles],
                 places : SUBSET Places, changes : SUBSET {"seen", "unseen"},
                 kinds : SUBSET {"sav", "slot"}, starts : Nat]
  BY CoreAssumption
<1> QED
  BY <1>1 DEF CoreOf

LEMMA DataSum == ASSUME NEW d \in Data PROVE Sum(d) \in Sums
  BY DEF Sums

LEMMA ZeroData == ASSUME NEW S \in SUBSET Games PROVE Zero(S) \in Data
  BY DEF Zero, Data

(* What a game may do to its battery memory leaves battery memory. *)
LEMMA ChangedData ==
    ASSUME NEW d \in Data, NEW g \in Games, NEW c \in {"seen", "unseen"}
    PROVE  /\ [d EXCEPT !.from = @ \union {g}, ![c] = 1 - @] \in Data
           /\ [d EXCEPT !.from = @ \union {g}, ![c] = 1 - @].from = d.from \union {g}
<1>1. d.from \union {g} \in SUBSET Games /\ 1 - d.seen \in 0 .. 1 /\ 1 - d.unseen \in 0 .. 1
  BY DEF Data
<1>2. CASE c = "seen"
  BY <1>1, <1>2 DEF Data
<1>3. CASE c = "unseen"
  BY <1>1, <1>3 DEF Data
<1> QED
  BY <1>2, <1>3

LEMMA SeenData == ASSUME NEW d \in Data PROVE [d EXCEPT !.seen = 1] \in Data
  BY DEF Data

LEMMA TornData == ASSUME NEW d \in Data PROVE [d EXCEPT !.torn = TRUE] \in Data
  BY DEF Data

(* What retro_save_state writes for m, whole or cut short. *)
Saved(m, cut) == [core |-> lib.core, mem |-> [m EXCEPT !.torn = @ \/ cut]]

LEMMA SavedState ==
    ASSUME lib \in Libs, NEW m \in Data, NEW cut \in BOOLEAN
    PROVE  Saved(m, cut) \in States /\ Saved(m, cut).mem.from = m.from
<1>1. (m.torn \/ cut) \in BOOLEAN
  OBVIOUS
<1>2. [m EXCEPT !.torn = @ \/ cut] \in Data /\ [m EXCEPT !.torn = @ \/ cut].from = m.from
  <2> DEFINE t == m.torn \/ cut
  <2>1. [m EXCEPT !.torn = t] \in Data /\ [m EXCEPT !.torn = t].from = m.from
    <3> HIDE DEF t
    <3>1. t \in BOOLEAN
      BY <1>1 DEF t
    <3> QED
      BY <3>1 DEF Data
  <2> QED
    BY <2>1
<1>3. lib.core \in Cores
  BY DEF Libs
<1> QED
  BY <1>2, <1>3 DEF Saved, States

(* Saving a state changes the running game's file of that kind, if any.    *)
LEMMA RetroSaves ==
    ASSUME TypeOK, game \in Games, lib \in Libs, NEW kind \in {"sav", "slot"}, RetroSave(kind)
    PROVE  /\ state' \in [StateFiles -> States \union {None}]
           /\ \A f \in StateFiles : \/ state'[f] = state[f]
                                   \/ \E cut \in BOOLEAN : state'[f] = Saved(mem, cut)
<1>1. state \in [StateFiles -> States \union {None}] /\ mem \in Data
  BY DEF TypeOK
<1>2. CASE UNCHANGED state
  BY <1>1, <1>2
<1>3. ASSUME NEW cut \in BOOLEAN,
             state' = [state EXCEPT ![StateFile(kind)] = Saved(mem, cut)]
      PROVE  /\ state' \in [StateFiles -> States \union {None}]
             /\ \A f \in StateFiles : state'[f] = state[f] \/ state'[f] = Saved(mem, cut)
  <2>1. Saved(mem, cut) \in States
    BY <1>1, SavedState
  <2> QED
    BY <1>1, <1>3, <2>1
<1> QED
  BY <1>2, <1>3 DEF RetroSave, Saved

(* Loading a state leaves what was there, or the memory of a state of this *)
(* core.                                                                   *)
LEMMA RetroLoads ==
    ASSUME TypeOK, game \in Games, NEW kind \in {"sav", "slot"}, NEW m, RetroLoad(kind, m)
    PROVE  /\ m \in Data /\ brought' \in SUBSET Games
           /\ brought \subseteq brought' /\ m.from \subseteq mem.from \union brought'
           /\ \/ m = mem
              \/ \E f \in StateFiles : /\ state[f] # None /\ state[f].core = lib.core
                                      /\ m = state[f].mem
<1> DEFINE f == StateFile(kind)
<1>1. f \in StateFiles
  BY Setup DEF TypeOK, StateFiles, StateFile
<1>2. state[f] # None => state[f] \in States
  BY <1>1 DEF TypeOK
<1>3. mem \in Data /\ brought \in SUBSET Games
  BY DEF TypeOK
<1>4. \/ m = mem /\ brought' = brought
      \/ /\ state[f] # None /\ state[f].core = lib.core
         /\ m = state[f].mem /\ brought' = brought \union state[f].mem.from
  BY DEF RetroLoad
<1>5. CASE m = mem /\ brought' = brought
  BY <1>3, <1>5
<1>6. CASE /\ state[f] # None /\ state[f].core = lib.core
           /\ m = state[f].mem /\ brought' = brought \union state[f].mem.from
  <2>1. m \in Data
    BY <1>2, <1>6 DEF States
  <2>2. m.from \in SUBSET Games
    BY <2>1 DEF Data
  <2> HIDE DEF f
  <2> QED
    BY <1>1, <1>3, <1>6, <2>1, <2>2
<1> QED
  BY <1>4, <1>5, <1>6

(* The hot key and the first frame, as far as the save files go: the steps *)
(* that bind, and the ones that die in the functions of a closed core.     *)
LEMMA SaveKeySteps ==
    ASSUME SaveKey
    PROVE  /\ pc \in {"top", "resumed"} /\ RetroSave("sav")
           /\ UNCHANGED <<session, mem, first, srm, gsum, history, had>>
           /\ \/ pc' = "crashed" /\ UNCHANGED <<gbase, bound, throttled, ret>>
              \/ /\ gbase' = game /\ Bind /\ FlushIf(BoundView(mem), "poll")
                 /\ pc' \in {"fopen", "poll"}
  BY DEF SaveKey, FlushIf

LEMMA DefaultSteps ==
    ASSUME LoadDefaultState
    PROVE  \E m \in Data :
             /\ pc = "default" /\ RetroLoad("sav", m)
             /\ UNCHANGED <<session, srm, state, ret, polled, ioerr, had>>
             /\ \/ /\ pc' = "crashed" /\ mem' = m
                   /\ UNCHANGED <<gbase, bound, throttled, gsum, unread, first>>
                \/ /\ gbase' = game /\ Bind /\ LoadFile(game, TRUE /\ BoundView(m), m)
                   /\ first' = FALSE /\ pc' = "top"
  BY DEF LoadDefaultState, Default

(* Reading a save leaves battery memory, and no mapping to it changes. *)
LEMMA LoadFileType ==
    ASSUME TypeOK, NEW b \in Games, NEW v, NEW m \in Data, LoadFile(b, v, m)
    PROVE  /\ mem' \in Data /\ gsum' \in Sums \union {None}
           /\ unread' \in BOOLEAN
<1>1. srm[b] # None => srm[b] \in Data
  BY DEF TypeOK
<1>2. gsum \in Sums \union {None} /\ unread \in BOOLEAN
  BY DEF TypeOK
<1>3. CASE v /\ srm[b] # None
  <2>1. mem' \in {srm[b], m}
    BY <1>3 DEF LoadFile
  <2>2. gsum' = gsum \/ gsum' = Sum(srm[b])
    BY <1>3 DEF LoadFile
  <2>3. unread' = (unread /\ b # game)
    BY <1>3 DEF LoadFile
  <2> QED
    BY <1>1, <1>2, <1>3, <2>1, <2>2, <2>3, DataSum
<1>4. CASE ~(v /\ srm[b] # None)
  BY <1>2, <1>4 DEF LoadFile
<1> QED
  BY <1>3, <1>4

LEMMA BindType ==
    ASSUME TypeOK, Bind, lib \in Libs
    PROVE  /\ gcore' \in Places \union {None} /\ gfn' \in Libs \union {None}
           /\ throttled' \in BOOLEAN /\ mistaken' \in BOOLEAN
<1>1. lib.place \in Places
  BY DEF Libs
<1>2. gcore' \in Places \union {None} /\ gfn' \in Libs \union {None} /\ throttled' \in BOOLEAN
  BY <1>1 DEF TypeOK, Bind
<1>3. mistaken' \in BOOLEAN
  BY DEF TypeOK, Bind
<1> QED
  BY <1>2, <1>3

LEMMA TypeInit == ASSUME Init PROVE TypeInv
<1>1. mem \in Data
  BY ZeroData DEF Init
<1>2. srm \in [Games -> Data \union {None}]
  <2>1. ASSUME NEW g \in Games PROVE [Zero({g}) EXCEPT !.seen = 1] \in Data
    BY ZeroData, SeenData
  <2>2. PICK saved \in SUBSET Games :
          srm = [g \in Games |-> IF g \in saved THEN [Zero({g}) EXCEPT !.seen = 1] ELSE None]
    BY DEF Init
  <2>3. ASSUME NEW g \in Games
        PROVE  (IF g \in saved THEN [Zero({g}) EXCEPT !.seen = 1] ELSE None) \in Data \union {None}
    BY <2>1
  <2> QED
    BY <2>2, <2>3
<1>3. sessions \in 0 .. setup.starts
  BY Setup DEF Init
<1>4. state \in [StateFiles -> States \union {None}]
  BY DEF Init
<1> QED
  BY <1>1, <1>2, <1>3, <1>4 DEF Init, TypeInv, TypeOK, Points, Loaded, InGame

LEMMA CrashType == ASSUME TypeInv, Crash PROVE TypeInv'
  BY DEF TypeInv, TypeOK, Crash, session, statics, bound, history, Points, Loaded,
         InGame

LEMMA StartGameType ==
    ASSUME TypeInv, NEW g \in Games, NEW p \in setup.places, StartGame(g, p) PROVE TypeInv'
<1>1. CoreOf(g) \in Cores /\ p \in Places
  BY Setup DEF TypeInv, TypeOK
<1>2. lib' \in Libs /\ lib'.core = CoreOf(g)
  BY <1>1 DEF StartGame, Libs
<1>3. CoreOf(g)' = CoreOf(g)
  BY DEF StartGame, CoreOf
<1>4. mem' \in Data
  BY ZeroData DEF StartGame
<1>5. sessions' \in 0 .. setup.starts
  BY Setup DEF StartGame, TypeInv, TypeOK
<1>6. unread' \in BOOLEAN
  BY DEF StartGame
<1>7. TypeOK'
  BY <1>2, <1>4, <1>5, <1>6 DEF TypeInv, TypeOK, StartGame, statics, bound, Points
<1>8. Loaded'
  BY <1>2, <1>3 DEF Loaded, StartGame, CoreOf
<1> QED
  BY <1>7, <1>8 DEF TypeInv

LEMMA PreLoadType == ASSUME TypeInv, PreLoad PROVE TypeInv'
<1>1. CASE Crash
  BY <1>1, CrashType
<1>2. CASE ~Crash
  <2>1. mem' \in Data /\ gsum' \in Sums \union {None} /\ unread' \in BOOLEAN
    <3>1. CASE gbase = None
      BY <1>2, <3>1 DEF PreLoad, TypeInv, TypeOK
    <3>2. CASE gbase # None
      <4>1. gbase \in Games /\ mem \in Data /\ TypeOK
        BY <3>2 DEF TypeInv, TypeOK
      <4>2. LoadFile(gbase, View, mem)
        BY <1>2, <3>2 DEF PreLoad
      <4> QED
        BY <4>1, <4>2, LoadFileType
    <3> QED
      BY <3>1, <3>2
  <2> QED
    BY <1>2, <2>1 DEF PreLoad, TypeInv, TypeOK, session, bound, Points, Loaded,
           InGame, CoreOf
<1> QED
  BY <1>1, <1>2

LEMMA FlushType == ASSUME TypeInv, FlushOpen \/ FlushWrite PROVE TypeInv'
<1>1. srm' \in [Games -> Data \union {None}]
  BY TornData DEF FlushOpen, FlushWrite, TypeInv, TypeOK
<1>2. gsum' \in Sums \union {None}
  BY DataSum DEF FlushOpen, FlushWrite, TypeInv, TypeOK, statics
<1>3. ioerr' \in BOOLEAN
  BY DEF FlushOpen, FlushWrite, TypeInv, TypeOK
<1>6. had' \in BOOLEAN
  BY DEF FlushOpen, FlushWrite, TypeInv, TypeOK
<1>4. /\ pc' \in Points /\ ret' \in Points
      /\ UNCHANGED <<session, mem, first, state, bound, gbase, throttled, unread, polled, brought>>
  BY DEF FlushOpen, FlushWrite, TypeInv, TypeOK, Points, statics
<1>5. InGame
  BY DEF FlushOpen, FlushWrite, InGame
<1> QED
  BY <1>1, <1>2, <1>3, <1>4, <1>5, <1>6 DEF TypeInv, TypeOK, session, bound, Loaded,
         CoreOf

LEMMA LeaveType == ASSUME TypeInv, CloseGame \/ PowerCut PROVE TypeInv'
<1>1. mem' \in Data
  BY ZeroData DEF CloseGame, PowerCut
<1>2. sessions' \in 0 .. setup.starts
  BY Setup DEF CloseGame, PowerCut, TypeInv, TypeOK
<1>3. state' \in [StateFiles -> States \union {None}]
  BY DEF CloseGame, PowerCut, TypeInv, TypeOK
<1> QED
  BY <1>1, <1>2, <1>3 DEF CloseGame, PowerCut, TypeInv, TypeOK, statics, bound,
         Points, Loaded, InGame

(* The steps that go on in the loop and touch neither game nor library. *)
LEMMA LoopType == ASSUME TypeInv, ExitKey \/ NoKey \/ PollSkip \/ Poll \/ Tick PROVE TypeInv'
<1>1. CASE Crash
  BY <1>1, CrashType
<1>2. CASE ~Crash
  <2>1. InGame \/ Tick
    BY DEF ExitKey, NoKey, PollSkip, Poll, InGame
  <2>2. /\ pc' \in Points /\ ret' \in Points
        /\ UNCHANGED <<session, mem, first, srm, state, bound, gbase, gsum, unread, ioerr,
                       brought, had>>
    BY <1>2 DEF ExitKey, NoKey, PollSkip, Poll, Tick, FlushIf, TypeInv, TypeOK,
                Points, statics, history, bound
  <2>3. throttled' \in BOOLEAN /\ polled' \in BOOLEAN
    BY <1>2 DEF ExitKey, NoKey, PollSkip, Poll, Tick, TypeInv, TypeOK, statics,
           history
  <2>4. InGame' => InGame
    BY <2>1 DEF Tick, InGame
  <2> QED
    BY <2>2, <2>3, <2>4 DEF TypeInv, TypeOK, session, bound, Loaded, CoreOf
<1> QED
  BY <1>1, <1>2

LEMMA SaveKeyType == ASSUME TypeInv, SaveKey PROVE TypeInv'
<1>1. InGame /\ game \in Games /\ lib \in Libs /\ TypeOK
  BY SaveKeySteps DEF InGame, TypeInv, Loaded
<1>2. state' \in [StateFiles -> States \union {None}]
  BY <1>1, SaveKeySteps, RetroSaves
<1>3. UNCHANGED <<session, mem, first, srm, gsum, history, had>>
  BY SaveKeySteps
<1>4. CASE pc' = "crashed" /\ UNCHANGED <<gbase, bound, throttled, ret>>
  BY <1>2, <1>3, <1>4 DEF TypeInv, TypeOK, session, bound, history, Points, Loaded,
         InGame
<1>5. CASE gbase' = game /\ Bind /\ FlushIf(BoundView(mem), "poll")
  <2>1. /\ gcore' \in Places \union {None} /\ gfn' \in Libs \union {None}
        /\ throttled' \in BOOLEAN /\ mistaken' \in BOOLEAN
    BY <1>1, <1>5, BindType
  <2>2. pc' \in Points /\ ret' \in Points /\ gbase' = game
    BY <1>5 DEF FlushIf, Points
  <2> QED
    BY <1>1, <1>2, <1>3, <2>1, <2>2 DEF TypeInv, TypeOK, session, history, Loaded,
           CoreOf
<1> QED
  BY <1>4, <1>5, SaveKeySteps

(* The pause menu's states. *)
LEMMA SlotType == ASSUME TypeInv, SaveSlot \/ LoadSlot PROVE TypeInv'
<1>1. InGame /\ game \in Games /\ lib \in Libs /\ TypeOK
  BY DEF SaveSlot, LoadSlot, InGame, TypeInv, Loaded
<1>2. CASE SaveSlot
  <2>1. state' \in [StateFiles -> States \union {None}]
    BY <1>1, <1>2, RetroSaves DEF SaveSlot
  <2> QED
    BY <1>2, <2>1 DEF SaveSlot, TypeInv, TypeOK, session, statics, bound, history,
           Loaded,
                      InGame, CoreOf
<1>3. CASE LoadSlot
  <2>1. mem' \in Data /\ brought' \in SUBSET Games
    BY <1>1, <1>3, RetroLoads DEF LoadSlot
  <2> QED
    BY <1>1, <1>3, <2>1 DEF LoadSlot, TypeInv, TypeOK, session, statics, bound,
           Points, Loaded,
                            CoreOf
<1> QED
  BY <1>2, <1>3

LEMMA RetroRunType == ASSUME TypeInv, RetroRun PROVE TypeInv'
<1>1. InGame /\ game \in Games
  BY DEF RetroRun, InGame, TypeInv, Loaded
<1>2. mem' \in Data
  <2>1. CASE UNCHANGED mem
    BY <2>1 DEF TypeInv, TypeOK
  <2>2. ASSUME NEW c \in setup.changes,
               mem' = [mem EXCEPT !.from = @ \union {game}, ![c] = 1 - @]
        PROVE  mem' \in Data
    <3>1. c \in {"seen", "unseen"} /\ mem \in Data
      BY Setup DEF TypeInv, TypeOK
    <3> QED
      BY <1>1, <2>2, <3>1, ChangedData
  <2> QED
    BY <2>1, <2>2 DEF RetroRun
<1>3. /\ pc' \in Points /\ polled' \in BOOLEAN
      /\ UNCHANGED <<session, first, srm, state, statics, ret, unread, ioerr, brought, had>>
  BY DEF RetroRun, Points
<1> QED
  BY <1>1, <1>2, <1>3 DEF TypeInv, TypeOK, session, statics, bound, Loaded, CoreOf

LEMMA LoadDefaultType == ASSUME TypeInv, LoadDefaultState PROVE TypeInv'
<1>1. PICK m \in Data :
        /\ pc = "default" /\ RetroLoad("sav", m)
        /\ UNCHANGED <<session, srm, state, ret, polled, ioerr, had>>
        /\ \/ /\ pc' = "crashed" /\ mem' = m
              /\ UNCHANGED <<gbase, bound, throttled, gsum, unread, first>>
           \/ /\ gbase' = game /\ Bind /\ LoadFile(game, TRUE /\ BoundView(m), m)
              /\ first' = FALSE /\ pc' = "top"
  BY DefaultSteps
<1>2. InGame /\ game \in Games /\ lib \in Libs /\ TypeOK
  BY <1>1 DEF InGame, TypeInv, Loaded
<1>3. brought' \in SUBSET Games
  BY <1>1, <1>2, RetroLoads
<1>4. CASE pc' = "crashed"
  BY <1>1, <1>3, <1>4 DEF TypeInv, TypeOK, session, bound, Points, Loaded, InGame
<1>5. CASE pc' = "top"
  <2>1. /\ gcore' \in Places \union {None} /\ gfn' \in Libs \union {None}
        /\ throttled' \in BOOLEAN /\ mistaken' \in BOOLEAN
    BY <1>1, <1>2, <1>5, BindType
  <2>2. mem' \in Data /\ gsum' \in Sums \union {None} /\ unread' \in BOOLEAN
    BY <1>1, <1>2, <1>5, LoadFileType
  <2>3. first' = FALSE /\ gbase' = game
    BY <1>1, <1>5
  <2> QED
    BY <1>1, <1>2, <1>3, <1>5, <2>1, <2>2, <2>3 DEF TypeInv, TypeOK, session,
           Points, Loaded, CoreOf
<1> QED
  BY <1>1, <1>4, <1>5

LEMMA TypeStep == ASSUME TypeInv, [Next]_vars PROVE TypeInv'
<1>1. CASE UNCHANGED vars
  BY <1>1 DEF vars, session, statics, bound, history, TypeInv, TypeOK, Loaded,
         InGame, CoreOf
<1>2. CASE Next
  BY <1>2, StartGameType, PreLoadType, FlushType, LeaveType, LoopType, SaveKeyType,
     RetroRunType, LoadDefaultType, SlotType DEF Next, Frame
<1> QED
  BY <1>1, <1>2

LEMMA SramTypeInv == Spec => []TypeInv
  BY TypeInit, TypeStep, PTL DEF Spec

(* Every variable keeps its type, a base is a game and a handle a library, *)
(* over any sequence of games and power cuts.                              *)
THEOREM SramTypeOK == Spec => []TypeOK
  BY SramTypeInv, PTL DEF TypeInv

-----------------------------------------------------------------------------
(* No step changes the setup. *)
LEMMA SetupFixed == ASSUME [Next]_vars PROVE setup' = setup /\ \A g : CoreOf(g)' = CoreOf(g)
<1>1. setup' = setup
  BY DEF Next, Frame, vars, session, StartGame, PreLoad, Crash, CloseGame,
         FlushOpen, FlushWrite,
         ExitKey, SaveKey, SaveSlot, LoadSlot, NoKey, PollSkip, Poll, RetroRun, LoadDefaultState,
         Default, Tick, PowerCut
<1> QED
  BY <1>1 DEF CoreOf

(* A mapped library is not NULL. *)
LEMMA LibNotNull == ASSUME NEW l \in Libs PROVE l # None
  BY NoneAssumption

(* What cgm_sram_bind remembers: the functions come with a base, of a game *)
(* of their core unless the bind was mistaken; and a flush goes through    *)
(* functions that are those of the running game.                           *)
Binding ==
    /\ gfn # None => gbase # None
    /\ (gfn # None /\ ~mistaken) => CoreOf(gbase) = gfn.core
    /\ pc \in {"fopen", "fwrite"} => gfn = lib /\ ret \in {"close", "poll", "run"}

LEMMA BindStep ==
    ASSUME TypeInv, InGame, Bind, gbase' = game, UNCHANGED setup, NEW m
    PROVE  /\ gfn' # None /\ gbase' # None
           /\ ~mistaken' => CoreOf(gbase)' = gfn'.core
           /\ BoundView(m) => gfn' = lib
<1>1. game \in Games /\ lib \in Libs /\ lib.core = CoreOf(game) /\ lib # None /\ game # None
  BY LibNotNull, NoneAssumption DEF TypeInv, Loaded
<1>2. CASE BoundAlready
  BY <1>1, <1>2 DEF Bind, BoundAlready, BoundView, View, FnStale, FnValid, FnNull,
         CoreOf
<1>3. CASE ~BoundAlready
  BY <1>1, <1>3 DEF Bind, CoreOf
<1> QED
  BY <1>2, <1>3

LEMMA BindingStep == ASSUME TypeInv, Binding, [Next]_vars PROVE Binding'
<1>1. setup' = setup /\ CoreOf(gbase)' = setup.coreOf[gbase']
  BY SetupFixed DEF CoreOf
<1>2. CASE UNCHANGED <<pc, ret, lib, gfn, gbase, mistaken>>
  BY <1>1, <1>2 DEF Binding, CoreOf
<1>3. CASE pc' \notin {"fopen", "fwrite"} /\ UNCHANGED <<gfn, gbase, mistaken>>
  BY <1>1, <1>3 DEF Binding, CoreOf
<1>4. CASE Crash
  BY <1>3, <1>4 DEF Crash, statics, bound
<1>5. CASE FlushOpen \/ FlushWrite
  BY <1>1, <1>5 DEF FlushOpen, FlushWrite, Binding, statics, bound, session, CoreOf
<1>6. CASE (ExitKey \/ Poll) /\ ~Crash
  BY <1>1, <1>6 DEF ExitKey, Poll, FlushIf, View, FnValid, Binding, statics, bound,
         session, CoreOf
<1>7. CASE SaveKey
  <2>1. InGame /\ UNCHANGED lib
    BY <1>7, SaveKeySteps DEF InGame, session
  <2>2. CASE pc' = "crashed" /\ UNCHANGED <<gbase, bound, throttled, ret>>
    BY <1>3, <2>2 DEF bound
  <2>3. CASE gbase' = game /\ Bind /\ FlushIf(BoundView(mem), "poll")
    <3>1. pc' # "fwrite" /\ (pc' = "fopen" => BoundView(mem) /\ ret' = "poll")
      BY <2>3 DEF FlushIf
    <3> QED
      BY <1>1, <2>1, <2>3, <3>1, BindStep DEF Binding
  <2> QED
    BY <1>7, <2>2, <2>3, SaveKeySteps
<1>8. CASE LoadDefaultState
  <2>1. InGame
    BY <1>8, DefaultSteps DEF InGame
  <2>2. \/ pc' = "crashed" /\ UNCHANGED <<gbase, bound>>
        \/ gbase' = game /\ Bind /\ pc' = "top"
    BY <1>8, DefaultSteps
  <2> QED
    BY <1>1, <1>3, <2>1, <2>2, BindStep DEF Binding, bound
<1>9. CASE PowerCut
  BY <1>9 DEF PowerCut, Binding
<1>10. CASE (PreLoad \/ CloseGame \/ NoKey \/ PollSkip \/ RetroRun \/ LoadSlot) /\ ~Crash
  BY <1>3, <1>10 DEF PreLoad, CloseGame, NoKey, PollSkip, RetroRun, LoadSlot,
         statics, bound, LoadFile
<1>11. CASE Tick \/ SaveSlot \/ UNCHANGED vars
  BY <1>2, <1>11 DEF Tick, SaveSlot, vars, session, statics, bound
<1>12. CASE \E g \in Games, p \in setup.places : StartGame(g, p)
  BY <1>3, <1>12 DEF StartGame, statics, bound
<1> QED
  BY <1>4, <1>5, <1>6, <1>7, <1>8, <1>9, <1>10, <1>11, <1>12 DEF Next, Frame

LEMMA SramBinding == Spec => []Binding
<1>1. Init => Binding
  BY DEF Init, Binding
<1> QED
  BY <1>1, BindingStep, SramTypeInv, PTL DEF Spec

-----------------------------------------------------------------------------
(* Whose play is in a game's memory: only that of games of its core.       *)
OfItsCore == InGame => \A h \in mem.from : CoreOf(h) = CoreOf(game)

(* And whose in a state: only that of games of the core that wrote it.     *)
OfOneCore(states) ==
    \A f \in StateFiles : states[f] # None =>
        \A h \in states[f].mem.from : CoreOf(h) = states[f].core

Mixing == ForeignOnlySameCore /\ (mistaken \/ (OfItsCore /\ OfOneCore(state)))

(* What a file read leaves in memory. *)
LEMMA Loads == ASSUME NEW b, NEW v, NEW m, LoadFile(b, v, m)
               PROVE  mem' = m \/ (v /\ srm[b] # None /\ mem' = srm[b])
  BY DEF LoadFile

(* A save that a flush writes is the running game's, or one of its core.   *)
LEMMA FlushMixing == ASSUME TypeInv, Binding, Mixing, FlushOpen \/ FlushWrite PROVE Mixing'
<1>1. /\ InGame /\ UNCHANGED <<setup, game, mem, state, mistaken>>
  BY DEF FlushOpen, FlushWrite, InGame, session, bound, statics
<1>2. gbase \in Games /\ gfn = lib /\ lib \in Libs /\ lib.core = CoreOf(game)
  BY <1>1, LibNotNull DEF FlushOpen, FlushWrite, Binding, TypeInv, TypeOK, Loaded
<1>3. ASSUME ~mistaken, NEW g \in Games, NEW h \in Owners(srm'[g]) PROVE CoreOf(h) = CoreOf(g)
  <2>1. CoreOf(gbase) = CoreOf(game)
    BY <1>2, <1>3, LibNotNull DEF Binding
  <2>2. srm'[g] = srm[g] \/ (g = gbase /\ srm'[g].from = mem.from)
    <3>1. mem \in Data /\ srm \in [Games -> Data \union {None}]
      BY DEF TypeInv, TypeOK
    <3>2. [mem EXCEPT !.torn = TRUE].from = mem.from
      BY <3>1 DEF Data
    <3> QED
      BY <1>2, <3>1, <3>2 DEF FlushOpen, FlushWrite
  <2>3. \A x \in mem.from : CoreOf(x) = CoreOf(game)
    BY <1>1, <1>3 DEF Mixing, OfItsCore
  <2> QED
    BY <1>3, <2>1, <2>2, <2>3 DEF Mixing, ForeignOnlySameCore, Owners
<1>4. mistaken' \/ (OfItsCore' /\ OfOneCore(state)')
  BY <1>1 DEF Mixing, OfItsCore, OfOneCore, InGame, CoreOf
<1> QED
  BY <1>1, <1>3, <1>4 DEF Mixing, ForeignOnlySameCore, CoreOf

(* A game reads a save of its core. *)
LEMMA LoadMixing ==
    ASSUME TypeInv, Mixing, ~mistaken, InGame, NEW b \in Games, CoreOf(b) = CoreOf(game),
           NEW v, NEW m, \A h \in m.from : CoreOf(h) = CoreOf(game), LoadFile(b, v, m)
    PROVE  \A h \in mem'.from : CoreOf(h) = CoreOf(game)
  BY Loads DEF Mixing, OfItsCore, ForeignOnlySameCore, Owners

(* And a state of its core; what it saves is its own. *)
LEMMA StateMixing ==
    ASSUME TypeInv, Mixing, ~mistaken, InGame
    PROVE  /\ \A kind \in {"sav", "slot"} : \A m : RetroLoad(kind, m) =>
                 \A h \in m.from : CoreOf(h) = CoreOf(game)
           /\ \A kind \in {"sav", "slot"} : RetroSave(kind) => OfOneCore(state')
<1>1. game \in Games /\ lib \in Libs /\ lib.core = CoreOf(game) /\ TypeOK /\ mem \in Data
  BY DEF TypeInv, Loaded, TypeOK
<1>2. ASSUME NEW kind \in {"sav", "slot"}, NEW m, RetroLoad(kind, m)
      PROVE  \A h \in m.from : CoreOf(h) = CoreOf(game)
  BY <1>1, <1>2, RetroLoads DEF Mixing, OfItsCore, OfOneCore
<1>3. ASSUME NEW kind \in {"sav", "slot"}, RetroSave(kind) PROVE OfOneCore(state')
  <2>1. ASSUME NEW f \in StateFiles, state'[f] # None, NEW h \in state'[f].mem.from
        PROVE  CoreOf(h) = state'[f].core
    <3>1. CASE state'[f] = state[f]
      BY <2>1, <3>1 DEF Mixing, OfOneCore
    <3>2. ASSUME NEW cut \in BOOLEAN, state'[f] = Saved(mem, cut)
          PROVE  CoreOf(h) = state'[f].core
      <4>1. Saved(mem, cut).mem.from = mem.from /\ Saved(mem, cut).core = lib.core
        BY <1>1, SavedState DEF Saved
      <4> QED
        BY <1>1, <2>1, <3>2, <4>1 DEF Mixing, OfItsCore
    <3> QED
      BY <1>1, <1>3, <3>1, <3>2, RetroSaves
  <2> QED
    BY <2>1 DEF OfOneCore
<1> QED
  BY <1>2, <1>3

(* A frame adds the running game's play to its memory, and no other's.     *)
LEMMA RetroRunMem ==
    ASSUME TypeInv, RetroRun
    PROVE  /\ InGame /\ game \in Games /\ mem'.from \subseteq mem.from \union {game}
           /\ UNCHANGED <<session, first, srm, state, statics, ret, unread, ioerr, brought>>
           /\ ~polled' /\ pc' \in {"default", "top"}
<1>1. InGame /\ game \in Games /\ mem \in Data
  BY DEF RetroRun, InGame, TypeInv, TypeOK, Loaded
<1>2. mem'.from \subseteq mem.from \union {game}
  <2>1. CASE UNCHANGED mem
    BY <2>1
  <2>2. ASSUME NEW c \in setup.changes,
               mem' = [mem EXCEPT !.from = @ \union {game}, ![c] = 1 - @]
        PROVE  mem'.from = mem.from \union {game}
    <3>1. c \in {"seen", "unseen"}
      BY Setup DEF TypeInv, TypeOK
    <3> QED
      BY <1>1, <2>2, <3>1, ChangedData
  <2> QED
    BY <2>1, <2>2 DEF RetroRun
<1>3. UNCHANGED <<session, first, srm, state, statics, ret, unread, ioerr, brought>> /\ ~polled'
  BY DEF RetroRun
<1>4. pc' \in {"default", "top"}
  BY DEF RetroRun
<1> QED
  BY <1>1, <1>2, <1>3, <1>4

LEMMA MixingStep == ASSUME TypeInv, Binding, Mixing, [Next]_vars PROVE Mixing'
<1>1. \A g : CoreOf(g)' = CoreOf(g)
  BY SetupFixed
<1>2. ASSUME UNCHANGED srm, mistaken => mistaken',
             ~mistaken' => OfItsCore' /\ OfOneCore(state')
      PROVE  Mixing'
  BY <1>1, <1>2 DEF Mixing, ForeignOnlySameCore, OfOneCore
<1>3. ASSUME UNCHANGED <<srm, state>>, mistaken => mistaken', ~mistaken' => OfItsCore' PROVE Mixing'
  BY <1>1, <1>2, <1>3 DEF Mixing, OfOneCore
<1>4. ASSUME UNCHANGED <<srm, state, game, mem>>, mistaken => mistaken', InGame' => InGame
      PROVE  Mixing'
  BY <1>1, <1>3, <1>4 DEF Mixing, OfItsCore
<1>5. CASE FlushOpen \/ FlushWrite
  BY <1>5, FlushMixing
<1>6. CASE (ExitKey \/ NoKey \/ PollSkip \/ Poll \/ PreLoad) /\ Crash
  BY <1>4, <1>6 DEF Crash, session, statics, bound, InGame
<1>7. CASE (ExitKey \/ Poll \/ NoKey \/ PollSkip) /\ ~Crash
  BY <1>4, <1>7 DEF ExitKey, Poll, NoKey, PollSkip, session, statics, bound, InGame
<1>8. CASE Tick \/ UNCHANGED vars
  BY <1>4, <1>8 DEF Tick, vars, session, statics, bound, InGame
<1>9. CASE SaveKey
  <2>1. InGame /\ RetroSave("sav") /\ UNCHANGED <<srm, game, mem>>
    BY <1>9, SaveKeySteps DEF InGame, session
  <2>2. mistaken => mistaken'
    BY <1>9, SaveKeySteps DEF Bind, bound
  <2> QED
    BY <1>1, <1>2, <2>1, <2>2, StateMixing DEF Mixing, OfItsCore
<1>10. CASE SaveSlot
  <2>1. InGame /\ RetroSave("slot") /\ UNCHANGED <<srm, game, mem, mistaken>>
    BY <1>10 DEF SaveSlot, InGame, session, statics, bound
  <2> QED
    BY <1>1, <1>2, <2>1, StateMixing DEF Mixing, OfItsCore
<1>11. CASE LoadSlot
  <2>1. InGame /\ RetroLoad("slot", mem') /\ UNCHANGED <<srm, state, game, mistaken>>
    BY <1>11 DEF LoadSlot, InGame, session, statics, bound
  <2> QED
    BY <1>1, <1>3, <2>1, StateMixing DEF OfItsCore
<1>12. CASE CloseGame
  BY <1>3, <1>12 DEF CloseGame, OfItsCore, InGame, statics, bound
<1>13. CASE PowerCut
  <2>1. OfOneCore(state) => OfOneCore(state')
    BY <1>13 DEF PowerCut, OfOneCore
  <2>2. UNCHANGED <<srm, mistaken>> /\ ~InGame'
    BY <1>13 DEF PowerCut, InGame
  <2> QED
    BY <1>2, <2>1, <2>2 DEF Mixing, OfItsCore
<1>14. ASSUME NEW g \in Games, NEW p \in setup.places, StartGame(g, p) PROVE Mixing'
  <2>1. mem'.from = {g} /\ game' = g
    BY <1>14 DEF StartGame, Zero
  <2> QED
    BY <1>3, <1>14, <2>1 DEF StartGame, OfItsCore, statics, bound
<1>15. CASE RetroRun
  <2>1. /\ mem'.from \subseteq mem.from \union {game} /\ InGame
        /\ UNCHANGED <<srm, state, game, mistaken>>
    BY <1>15, RetroRunMem DEF session, statics, bound
  <2> QED
    BY <1>1, <1>3, <2>1 DEF Mixing, OfItsCore
<1>16. CASE PreLoad /\ ~Crash
  <2>1. InGame /\ game \in Games /\ lib \in Libs /\ lib.core = CoreOf(game)
    BY <1>16 DEF PreLoad, InGame, TypeInv, Loaded
  <2>2. ASSUME ~mistaken PROVE \A h \in mem'.from : CoreOf(h) = CoreOf(game)
    <3>1. CASE UNCHANGED mem
      BY <2>1, <2>2, <3>1 DEF Mixing, OfItsCore
    <3>2. CASE gbase \in Games /\ LoadFile(gbase, View, mem) /\ View
      <4>1. CoreOf(gbase) = CoreOf(game)
        BY <2>1, <2>2, <3>2, LibNotNull DEF View, FnValid, Binding
      <4>2. \A h \in mem.from : CoreOf(h) = CoreOf(game)
        BY <2>1, <2>2 DEF Mixing, OfItsCore
      <4> QED
        BY <2>1, <2>2, <3>2, <4>1, <4>2, LoadMixing
    <3>3. gbase = None \/ gbase \in Games
      BY DEF TypeInv, TypeOK
    <3> QED
      BY <1>16, <3>1, <3>2, <3>3, Loads DEF PreLoad
  <2> QED
    BY <1>1, <1>3, <1>16, <2>2 DEF PreLoad, session, bound, OfItsCore
<1>17. CASE LoadDefaultState
  <2>1. PICK m \in Data :
          /\ pc = "default" /\ RetroLoad("sav", m)
          /\ UNCHANGED <<session, srm, state, ret, polled, ioerr, had>>
          /\ \/ /\ pc' = "crashed" /\ mem' = m
                /\ UNCHANGED <<gbase, bound, throttled, gsum, unread, first>>
             \/ /\ gbase' = game /\ Bind /\ LoadFile(game, TRUE /\ BoundView(m), m)
                /\ first' = FALSE /\ pc' = "top"
    BY <1>17, DefaultSteps
  <2>2. InGame /\ game \in Games /\ UNCHANGED <<srm, state, game>>
    BY <2>1 DEF InGame, TypeInv, Loaded, session
  <2>4. mistaken => mistaken'
    BY <2>1, Zenon DEF bound, Bind
  <2>3. ASSUME ~mistaken PROVE \A h \in mem'.from : CoreOf(h) = CoreOf(game)
    <3>1. \A h \in m.from : CoreOf(h) = CoreOf(game)
      BY <2>1, <2>2, <2>3, StateMixing
    <3> QED
      BY <2>1, <2>2, <2>3, <3>1, LoadMixing
  <2> QED
    BY <1>1, <1>3, <2>2, <2>3, <2>4 DEF OfItsCore
<1> QED
  BY <1>5, <1>6, <1>7, <1>8, <1>9, <1>10, <1>11, <1>12, <1>13, <1>14, <1>15, <1>16,
     <1>17
     DEF Next, Frame

(* A save file never holds the play of a game of another core, in any      *)
(* number of games, unless a bind took one core for another.               *)
THEOREM SramForeign == Spec => []ForeignOnlySameCore
<1>1. Init => Mixing
  <2> SUFFICES ASSUME Init PROVE Mixing
    OBVIOUS
  <2>1. ASSUME NEW g \in Games, NEW h \in Owners(srm[g]) PROVE CoreOf(h) = CoreOf(g)
    <3>1. srm[g] = None \/ srm[g] = [Zero({g}) EXCEPT !.seen = 1]
      BY DEF Init
    <3>2. [Zero({g}) EXCEPT !.seen = 1].from = {g}
      BY DEF Zero
    <3> QED
      BY <2>1, <3>1, <3>2 DEF Owners
  <2> QED
    BY <2>1 DEF Init, Mixing, ForeignOnlySameCore, OfItsCore, OfOneCore, InGame
<1> QED
  BY <1>1, MixingStep, SramTypeInv, SramBinding, PTL DEF Spec, Mixing

-----------------------------------------------------------------------------
(* From its first frame on a game has set the base and bound its library;  *)
(* its save was read, unless the library could not be asked.               *)
AfterFirst ==
    /\ pc = "menu" => first
    /\ (InGame /\ unread) => srm[game] # None
    /\ (InGame /\ ~first) =>
          /\ gbase = game /\ gcore = lib.place /\ gfn # None
          /\ (gfn = lib /\ CoreOf(game) \notin ZeroDetect) => ~unread

LEMMA DefaultAfterFirst ==
    ASSUME TypeInv, AfterFirst, LoadDefaultState PROVE AfterFirst'
<1>1. PICK m \in Data :
        /\ pc = "default" /\ RetroLoad("sav", m)
        /\ UNCHANGED <<session, srm, state, ret, polled, ioerr, had>>
        /\ \/ /\ pc' = "crashed" /\ mem' = m
              /\ UNCHANGED <<gbase, bound, throttled, gsum, unread, first>>
           \/ /\ gbase' = game /\ Bind /\ LoadFile(game, TRUE /\ BoundView(m), m)
              /\ first' = FALSE /\ pc' = "top"
  BY DefaultSteps
<1>2. /\ InGame /\ game \in Games /\ lib \in Libs /\ lib # None
      /\ lib.core = CoreOf(game) /\ UNCHANGED <<game, lib, srm, setup>>
  BY <1>1, LibNotNull DEF InGame, TypeInv, Loaded, session
<1>3. CASE pc' = "crashed"
  BY <1>1, <1>3 DEF AfterFirst, InGame
<1>4. CASE pc' = "top"
  <2>1. LoadFile(game, TRUE /\ BoundView(m), m) /\ Bind /\ gbase' = game
    BY <1>1, <1>4
  <2>2. gcore' = lib.place /\ gfn' # None
    BY <1>2, <2>1 DEF Bind, BoundAlready, FnNull
  <2>3. unread' => unread
    BY <2>1 DEF LoadFile
  <2>4. ASSUME gfn' = lib, CoreOf(game) \notin ZeroDetect PROVE ~unread'
    <3>1. BoundView(m)
      BY <1>2, <2>1, <2>4 DEF Bind, BoundView, ViewOf, FnValid, BoundAlready, FnNull
    <3>2. CASE srm[game] # None
      BY <2>1, <3>1, <3>2 DEF LoadFile
    <3>3. CASE srm[game] = None
      BY <1>2, <2>3, <3>3 DEF AfterFirst
    <3> QED
      BY <3>2, <3>3
  <2>5. CoreOf(game)' = CoreOf(game)
    BY <1>2 DEF CoreOf
  <2> QED
    BY <1>2, <1>4, <2>1, <2>2, <2>3, <2>4, <2>5 DEF AfterFirst, InGame
<1> QED
  BY <1>1, <1>3, <1>4

LEMMA AfterFirstStep == ASSUME TypeInv, Binding, AfterFirst, [Next]_vars PROVE AfterFirst'
<1>1. \A g : CoreOf(g)' = CoreOf(g)
  BY SetupFixed
<1>2. ASSUME UNCHANGED <<game, lib, srm, first, gbase, gcore, gfn>>, unread' => unread,
             pc' = "menu" => pc = "menu", InGame' => InGame
      PROVE  AfterFirst'
  BY <1>1, <1>2 DEF AfterFirst
<1>3. CASE (ExitKey \/ NoKey \/ PollSkip \/ Poll \/ PreLoad) /\ Crash
  BY <1>2, <1>3 DEF Crash, session, statics, bound, history, InGame
<1>4. CASE (ExitKey \/ Poll \/ NoKey \/ PollSkip) /\ ~Crash
  BY <1>2, <1>4 DEF ExitKey, Poll, NoKey, PollSkip, FlushIf, session, statics,
         bound, history, InGame
<1>5. CASE RetroRun
  <2>1. /\ InGame /\ pc' # "menu"
        /\ UNCHANGED <<game, lib, srm, first, gbase, gcore, gfn, unread>>
    BY <1>5 DEF RetroRun, InGame, session, statics, bound
  <2> QED
    BY <1>2, <2>1
<1>12. CASE Tick \/ SaveSlot \/ LoadSlot \/ UNCHANGED vars
  BY <1>2, <1>12 DEF Tick, SaveSlot, LoadSlot, vars, session, statics, bound,
         history, InGame
<1>6. CASE PreLoad /\ ~Crash
  BY <1>2, <1>6 DEF PreLoad, LoadFile, session, bound, InGame
<1>7. CASE PowerCut \/ CloseGame
  BY <1>7 DEF PowerCut, CloseGame, AfterFirst, InGame
<1>8. ASSUME NEW g \in Games, NEW p \in setup.places, StartGame(g, p) PROVE AfterFirst'
  BY <1>8 DEF StartGame, AfterFirst, InGame
<1>9. CASE FlushOpen \/ FlushWrite
  <2>1. InGame /\ gbase \in Games /\ game \in Games /\ mem \in Data /\ srm \in [Games -> Data \union {None}]
    BY <1>9, LibNotNull DEF FlushOpen, FlushWrite, InGame, Binding, TypeInv, TypeOK,
           Loaded
  <2>2. mem # None /\ [mem EXCEPT !.torn = TRUE] # None
    BY <2>1, TornData, NoneAssumption
  <2>3. srm[game] # None => srm'[game] # None
    BY <1>9, <2>1, <2>2 DEF FlushOpen, FlushWrite
  <2>4. /\ UNCHANGED <<game, lib, first, gbase, gcore, gfn, unread>>
        /\ pc' # "menu"
    BY <1>9 DEF FlushOpen, FlushWrite, Binding, session, statics, bound
  <2> QED
    BY <1>1, <2>1, <2>3, <2>4 DEF AfterFirst
<1>10. CASE SaveKey
  <2>1. InGame /\ UNCHANGED <<game, lib, srm, first, unread>> /\ pc' # "menu"
    BY <1>10, SaveKeySteps DEF InGame, session, history
  <2>2. CASE gbase' = game /\ Bind
    <3>1. ~first => UNCHANGED <<gcore, gfn>>
      BY <2>1, <2>2 DEF AfterFirst, Bind, BoundAlready, FnNull
    <3> QED
      BY <1>1, <2>1, <2>2, <3>1 DEF AfterFirst
  <2>3. CASE pc' = "crashed"
    BY <2>1, <2>3 DEF AfterFirst, InGame
  <2> QED
    BY <1>10, <2>2, <2>3, SaveKeySteps
<1>11. CASE LoadDefaultState
  BY <1>11, DefaultAfterFirst
<1> QED
  BY <1>3, <1>4, <1>5, <1>6, <1>7, <1>8, <1>9, <1>10, <1>11, <1>12 DEF Next, Frame

LEMMA SramAfterFirst == Spec => []AfterFirst
<1>1. Init => AfterFirst
  BY DEF Init, AfterFirst, InGame
<1> QED
  BY <1>1, AfterFirstStep, SramTypeInv, SramBinding, PTL DEF Spec

(* A save is emptied by its own game after that game has read it, outside  *)
(* the first frame and cores that hide an all-zero memory.                 *)
THEOREM SramOverwrite == Spec => OverwriteWindow
<1> DEFINE A == pc = "fopen" /\ pc' = "fwrite" =>
                  (gbase = game /\ ~unread) \/ first \/ CoreOf(game) \in ZeroDetect
<1>1. Binding /\ AfterFirst => [A]_vars
  BY DEF Binding, AfterFirst, InGame
<1> QED
  BY <1>1, SramBinding, SramAfterFirst, PTL DEF OverwriteWindow

(* Leaving a game after its first frame puts its battery memory on the     *)
(* card.                                                                   *)
LEMMA ExitSavesStep ==
    ASSUME TypeInv, Binding, AfterFirst, ExitSaves, [Next]_vars PROVE ExitSaves'
<1> SUFFICES ASSUME (pc = "close")', ~first', ~ioerr', View' PROVE (srm[game] = mem)'
  BY DEF ExitSaves
<1>1. CASE UNCHANGED <<pc, game, lib, mem, first, srm, gfn, ioerr>>
  <2>1. View
    BY <1>1 DEF View, ViewOf, FnValid
  <2> QED
    BY <1>1, <2>1 DEF ExitSaves
<1>2. CASE FlushOpen
  BY <1>2, Zenon DEF FlushOpen, Binding
<1>3. CASE FlushWrite
  <2>1. InGame /\ gbase = game /\ game \in Games /\ mem' = mem /\ game' = game
    BY <1>3 DEF FlushWrite, AfterFirst, InGame, session, TypeInv, Loaded
  <2>2. srm' = [srm EXCEPT ![gbase] = mem] /\ DOMAIN srm = Games
    BY <1>3 DEF FlushWrite, TypeInv, TypeOK
  <2> QED
    BY <2>1, <2>2
<1>4. CASE ExitKey /\ ~Crash
  <2>1. /\ InGame /\ UNCHANGED <<game, lib, mem, first, gfn, gbase>>
        /\ ~(gbase # None /\ View)
    BY <1>4 DEF ExitKey, FlushIf, InGame, session, statics, bound
  <2>2. View /\ gbase = game /\ game \in Games
    BY <2>1 DEF View, ViewOf, FnValid, AfterFirst, TypeInv, Loaded
  <2> QED
    BY <2>1, <2>2, NoneAssumption
<1>5. CASE Crash
  BY <1>5 DEF Crash
<1>6. CASE (PreLoad \/ Poll) /\ ~Crash
  BY <1>6 DEF PreLoad, Poll, FlushIf
<1>11. CASE SaveKey \/ LoadDefaultState \/ SaveSlot \/ LoadSlot
  <2>1. pc' # "close"
    BY <1>11, SaveKeySteps, DefaultSteps DEF SaveSlot, LoadSlot
  <2> QED
    BY <2>1
<1>7. CASE NoKey \/ PollSkip \/ CloseGame \/ PowerCut
  BY <1>7 DEF NoKey, PollSkip, CloseGame, PowerCut
<1>8. CASE RetroRun
  <2>1. pc' # "close"
    BY <1>8 DEF RetroRun
  <2> QED
    BY <2>1
<1>9. CASE \E g \in Games, p \in setup.places : StartGame(g, p)
  BY <1>9 DEF StartGame
<1>10. CASE Tick \/ UNCHANGED vars
  BY <1>1, <1>10 DEF Tick, vars, session, statics, bound, history
<1> QED
  BY <1>2, <1>3, <1>4, <1>5, <1>6, <1>7, <1>8, <1>9, <1>10, <1>11 DEF Next, Frame

(* Leaving a game after its first frame puts its whole battery memory on   *)
(* the card, unless a write failed or a closed core answered: Load_Proc2   *)
(* flushes before it closes, for any core that it may have bound.          *)
THEOREM SramExitSaves == Spec => []ExitSaves
<1>1. Init => ExitSaves
  BY DEF Init, ExitSaves
<1> QED
  BY <1>1, ExitSavesStep, SramTypeInv, SramBinding, SramAfterFirst, PTL DEF Spec

-----------------------------------------------------------------------------
(* The first game after power-up: the base is its own, and so is its play, *)
(* except what its save held or a state brought.                           *)
FirstGame ==
    /\ sessions = 0 => pc = "menu" /\ gbase = None /\ gfn = None /\ gsum = None
    /\ (sessions = 1 /\ InGame) =>
          /\ gbase \in {None, game}
          /\ mem.from \subseteq {game} \union Owners(srm[game]) \union brought

LEMMA FirstGameStep == ASSUME TypeInv, Binding, FirstGame, [Next]_vars PROVE FirstGame'
<1>1. ASSUME UNCHANGED <<sessions, game, mem, srm, brought>>, gbase' = gbase \/ gbase' = game,
             InGame, gsum' = gsum
      PROVE  FirstGame'
  BY <1>1 DEF FirstGame, InGame
<1>2. CASE UNCHANGED <<sessions, game, mem, srm, brought, gsum, gbase, gfn, pc>>
  BY <1>2 DEF FirstGame, InGame
<1>3. CASE (ExitKey \/ NoKey \/ PollSkip \/ Poll \/ PreLoad) /\ Crash
  <2>1. InGame
    BY <1>3 DEF ExitKey, NoKey, PollSkip, Poll, PreLoad, InGame
  <2> QED
    BY <1>1, <1>3, <2>1 DEF Crash, session, statics, history
<1>4. CASE (ExitKey \/ Poll \/ NoKey \/ PollSkip) /\ ~Crash
  BY <1>1, <1>4 DEF ExitKey, Poll, NoKey, PollSkip, session, statics, history,
         InGame
<1>5. CASE SaveKey
  BY <1>1, <1>5, SaveKeySteps DEF session, history, InGame
<1>6. CASE Tick \/ SaveSlot \/ UNCHANGED vars
  BY <1>2, <1>6 DEF Tick, SaveSlot, vars, session, statics, bound, history
<1>7. CASE PowerCut \/ CloseGame
  BY <1>7 DEF PowerCut, CloseGame, FirstGame, InGame, statics, bound, TypeInv,
         TypeOK
<1>8. ASSUME NEW g \in Games, NEW p \in setup.places, StartGame(g, p) PROVE FirstGame'
  <2>1. mem'.from = {g} /\ game' = g /\ sessions' = sessions + 1 /\ gbase' = gbase /\ sessions \in Nat
    BY <1>8 DEF StartGame, Zero, statics, TypeInv, TypeOK
  <2> QED
    BY <2>1 DEF FirstGame, InGame
<1>9. CASE RetroRun
  BY <1>9, RetroRunMem DEF FirstGame, InGame, session, statics
<1>10. CASE PreLoad /\ ~Crash
  <2>1. /\ InGame /\ UNCHANGED <<sessions, game, srm, brought, gbase>> /\ sessions # 0
    BY <1>10 DEF PreLoad, InGame, session, FirstGame
  <2>2. ASSUME sessions = 1 PROVE mem' = mem \/ (srm[game] # None /\ mem' = srm[game])
    <3>1. gbase = None \/ gbase = game
      BY <2>1, <2>2 DEF FirstGame
    <3> QED
      BY <1>10, <3>1, Loads DEF PreLoad
  <2> QED
    BY <2>1, <2>2 DEF FirstGame, InGame, Owners
<1>12. CASE LoadDefaultState
  <2>1. PICK m \in Data :
          /\ pc = "default" /\ RetroLoad("sav", m)
          /\ UNCHANGED <<session, srm, state, ret, polled, ioerr, had>>
          /\ \/ /\ pc' = "crashed" /\ mem' = m
                /\ UNCHANGED <<gbase, bound, throttled, gsum, unread, first>>
             \/ /\ gbase' = game /\ Bind /\ LoadFile(game, TRUE /\ BoundView(m), m)
                /\ first' = FALSE /\ pc' = "top"
    BY <1>12, DefaultSteps
  <2>2. /\ InGame /\ game \in Games /\ TypeOK /\ sessions # 0
        /\ UNCHANGED <<sessions, game, srm>>
        /\ (gbase' = gbase \/ gbase' = game)
    BY <2>1 DEF InGame, TypeInv, Loaded, session, FirstGame
  <2>3. brought \subseteq brought' /\ m.from \subseteq mem.from \union brought'
    BY <2>1, <2>2, RetroLoads
  <2>4. mem' = m \/ (srm[game] # None /\ mem' = srm[game])
    BY <2>1, Loads
  <2> QED
    BY <2>2, <2>3, <2>4 DEF FirstGame, InGame, Owners
<1>13. CASE LoadSlot
  <2>1. /\ InGame /\ game \in Games /\ TypeOK /\ sessions # 0 /\ RetroLoad("slot", mem')
        /\ UNCHANGED <<sessions, game, srm, gbase>>
    BY <1>13 DEF LoadSlot, InGame, TypeInv, Loaded, session, statics, FirstGame
  <2>2. brought \subseteq brought' /\ mem'.from \subseteq mem.from \union brought'
    BY <2>1, RetroLoads
  <2> QED
    BY <2>1, <2>2 DEF FirstGame, InGame
<1>11. CASE FlushOpen \/ FlushWrite
  <2>1. /\ InGame /\ gbase # None /\ game \in Games /\ mem \in Data
        /\ srm \in [Games -> Data \union {None}]
        /\ sessions # 0 /\ UNCHANGED <<sessions, game, mem, gbase, brought>>
    BY <1>11, LibNotNull DEF FlushOpen, FlushWrite, InGame, Binding, TypeInv,
           TypeOK, Loaded,
                             FirstGame, session, statics
  <2>2. [mem EXCEPT !.torn = TRUE].from = mem.from /\ mem # None /\ [mem EXCEPT !.torn = TRUE] # None
    BY <2>1, TornData, NoneAssumption DEF Data
  <2>3. srm' = srm \/ srm' = [srm EXCEPT ![gbase] = mem]
        \/ srm' = [srm EXCEPT ![gbase] = [mem EXCEPT !.torn = TRUE]]
    BY <1>11 DEF FlushOpen, FlushWrite
  <2>4. ASSUME sessions = 1
        PROVE  mem.from \subseteq {game} \union Owners(srm'[game]) \union brought
    <3>1. gbase = game
      BY <2>1, <2>4 DEF FirstGame
    <3> QED
      BY <2>1, <2>2, <2>3, <2>4, <3>1 DEF FirstGame, Owners
  <2> QED
    BY <2>1, <2>4 DEF FirstGame
<1> QED
  BY <1>3, <1>4, <1>5, <1>6, <1>7, <1>8, <1>9, <1>10, <1>11, <1>12, <1>13 DEF Next,
         Frame

LEMMA SramFirst == Spec => []FirstGame
<1>1. Init => FirstGame
  BY DEF Init, FirstGame, InGame
<1> QED
  BY <1>1, FirstGameStep, SramTypeInv, SramBinding, PTL DEF Spec

(* A step that writes a save file is a flush.                              *)
LEMMA OnlyFlushWrites == ASSUME [Next]_vars PROVE UNCHANGED srm \/ FlushOpen \/ FlushWrite
  BY DEF Next, Frame, vars, StartGame, PreLoad, Crash, CloseGame, ExitKey, SaveKey,
         NoKey,
         SaveSlot, LoadSlot, PollSkip, Poll, RetroRun, LoadDefaultState, Default, Tick, PowerCut

(* The first game after power-up writes its own save only, and adds only   *)
(* its own play and what a state of its title brought in this session.     *)
THEOREM SramFirstGame == Spec => FirstGameKeepsApart
<1> DEFINE Brought(g) == IF g = game THEN brought ELSE {}
           A == sessions <= 1 =>
                  \A g \in Games :
                     Owners(srm'[g]) \subseteq Owners(srm[g]) \union {g} \union Brought(g)
<1>1. ASSUME TypeInv, Binding, FirstGame, [Next]_vars, sessions <= 1,
             NEW g \in Games
      PROVE  Owners(srm'[g]) \subseteq Owners(srm[g]) \union {g} \union Brought(g)
  <2>1. CASE UNCHANGED srm
    BY <2>1
  <2>2. CASE FlushOpen \/ FlushWrite
    <3>1. /\ InGame /\ gbase # None /\ sessions = 1 /\ mem \in Data
          /\ srm \in [Games -> Data \union {None}]
      BY <1>1, <2>2, LibNotNull, Setup DEF FlushOpen, FlushWrite, InGame, Binding,
         FirstGame, TypeInv, TypeOK, Loaded
    <3>2. /\ gbase = game /\ game \in Games
          /\ mem.from \subseteq {game} \union Owners(srm[game]) \union brought
      BY <1>1, <3>1 DEF FirstGame, TypeInv, Loaded
    <3>3. [mem EXCEPT !.torn = TRUE].from = mem.from
      BY <3>1 DEF Data
    <3>4. srm'[g] = srm[g] \/ (g = game /\ srm'[g].from = mem.from)
      BY <2>2, <3>1, <3>2, <3>3 DEF FlushOpen, FlushWrite
    <3> QED
      BY <3>2, <3>4 DEF Owners
  <2> QED
    BY <1>1, <2>1, <2>2, OnlyFlushWrites
<1>2. TypeInv /\ Binding /\ FirstGame /\ [Next]_vars => [A]_vars
  BY <1>1
<1> QED
  BY <1>2, SramTypeInv, SramBinding, SramFirst, PTL DEF Spec, FirstGameKeepsApart

-----------------------------------------------------------------------------
(* The fingerprint of the first game is that of its save, outside a flush. *)
Fingerprint ==
    (sessions = 1 /\ InGame /\ ~ioerr /\ gsum # None /\ pc # "fwrite") =>
        srm[game] # None /\ Sum(srm[game]) = gsum

PolledAt == polled => \/ pc \in {"run", "crashed"}
                      \/ pc \in {"fopen", "fwrite"} /\ ret = "run"

Sampled == Fingerprint /\ PolledAt /\ SampledDurable

LEMMA SampledStep ==
    ASSUME TypeInv, Binding, FirstGame, Sampled, [Next]_vars PROVE Sampled'
<1>1. CASE UNCHANGED <<pc, game, lib, mem, srm, gfn, gsum, polled, ret, sessions, ioerr, setup>>
  <2>1. View' = View /\ InGame' = InGame
    BY <1>1 DEF View, ViewOf, FnValid, InGame
  <2>2. Fingerprint' /\ SampledDurable'
    BY <1>1, <2>1 DEF Sampled, Fingerprint, SampledDurable
  <2>3. PolledAt'
    BY <1>1 DEF Sampled, PolledAt
  <2> QED
    BY <2>2, <2>3 DEF Sampled
(* A step inside the game that is no flush and reads no file. *)
<1>2. ASSUME UNCHANGED <<sessions, game, srm, gsum, ioerr>>, InGame, pc # "fwrite" PROVE Fingerprint'
  BY <1>2 DEF Sampled, Fingerprint
(* Nothing is polled outside the flush a poll starts. *)
<1>3. polled => pc \in {"run", "crashed", "fopen", "fwrite"}
  BY DEF Sampled, PolledAt
<1>4. CASE Crash /\ InGame
  <2>1. ~InGame' /\ pc' = "crashed"
    BY <1>4 DEF Crash, InGame
  <2> QED
    BY <2>1 DEF Sampled, Fingerprint, PolledAt, SampledDurable
<1>5. CASE (ExitKey \/ NoKey \/ PollSkip \/ SaveSlot \/ LoadSlot) /\ ~Crash
  <2>1. InGame /\ ~polled'
    BY <1>3, <1>5 DEF ExitKey, NoKey, PollSkip, SaveSlot, LoadSlot, InGame, history
  <2>2. Fingerprint'
    BY <1>2, <1>5, <2>1 DEF ExitKey, NoKey, PollSkip, SaveSlot, LoadSlot, session,
           statics, history
  <2> QED
    BY <2>1, <2>2 DEF Sampled, PolledAt, SampledDurable
<1>15. CASE SaveKey
  <2>1. InGame /\ ~polled' /\ pc # "fwrite" /\ UNCHANGED <<sessions, game, srm, gsum, ioerr>>
    BY <1>3, <1>15, SaveKeySteps DEF InGame, session, history
  <2> QED
    BY <1>2, <2>1 DEF Sampled, PolledAt, SampledDurable
<1>6. CASE Poll /\ ~Crash
  <2>1. InGame /\ UNCHANGED <<sessions, game, lib, gfn, mem, srm, gsum, ioerr, setup>>
    BY <1>6 DEF Poll, InGame, session, bound
  <2>2. Fingerprint'
    BY <1>2, <1>6, <2>1 DEF Poll
  <2>3. PolledAt'
    BY <1>6 DEF Poll, FlushIf, PolledAt
  <2>4. SampledDurable'
    <3> SUFFICES ASSUME (pc = "run")', (sessions = 1)', ~ioerr', View'
                 PROVE  (srm[game] # None /\ Sum(srm[game]) = Sum(mem))'
      BY DEF SampledDurable
    <3>1. View
      BY <2>1 DEF View, ViewOf, FnValid
    <3>2. ~Dirty(gsum, mem)
      BY <1>6, <3>1 DEF Poll, FlushIf
    <3>3. gsum # None /\ Sum(mem) = gsum
      BY <3>2 DEF Dirty
    <3> QED
      BY <2>1, <2>2, <3>3, <1>6 DEF Fingerprint, Poll, FlushIf, InGame
  <2> QED
    BY <2>2, <2>3, <2>4 DEF Sampled
<1>7. CASE FlushOpen
  <2>1. PolledAt'
    BY <1>7 DEF FlushOpen, PolledAt, Sampled
  <2>2. ioerr' \/ pc' = "fwrite"
    BY <1>7 DEF FlushOpen
  <2>3. Fingerprint' /\ SampledDurable'
    BY <2>2 DEF Fingerprint, SampledDurable
  <2> QED
    BY <2>1, <2>3 DEF Sampled
<1>8. CASE FlushWrite
  <2>1. PolledAt'
    BY <1>8 DEF FlushWrite, PolledAt, Sampled
  <2>2. CASE ioerr'
    BY <2>1, <2>2 DEF Sampled, Fingerprint, SampledDurable
  <2>3. CASE ~ioerr'
    <3>1. /\ srm' = [srm EXCEPT ![gbase] = mem] /\ gsum' = Sum(mem)
          /\ UNCHANGED <<sessions, game, mem, gbase>> /\ InGame
      BY <1>8, <2>3 DEF FlushWrite, session, InGame
    <3>2. gbase # None /\ mem # None /\ game \in Games /\ DOMAIN srm = Games
      BY <1>8, <3>1, LibNotNull, NoneAssumption DEF FlushWrite, Binding, TypeInv,
             TypeOK, Loaded
    <3>3. sessions = 1 => srm'[game] = mem
      BY <3>1, <3>2 DEF FirstGame
    <3>4. Fingerprint' /\ SampledDurable'
      BY <3>1, <3>2, <3>3 DEF Fingerprint, SampledDurable
    <3> QED
      BY <2>1, <3>4 DEF Sampled
  <2> QED
    BY <2>2, <2>3
<1>9. CASE RetroRun
  <2>1. InGame /\ ~polled' /\ pc # "fwrite"
    BY <1>9, RetroRunMem DEF RetroRun
  <2>2. UNCHANGED <<sessions, game, srm, gsum, ioerr>>
    BY <1>9, RetroRunMem DEF session, statics
  <2> QED
    BY <1>2, <2>1, <2>2 DEF Sampled, PolledAt, SampledDurable
<1>10. CASE (PreLoad /\ ~Crash) \/ LoadDefaultState
  <2>1. InGame /\ ~polled' /\ UNCHANGED <<sessions, game, srm, ioerr>> /\ pc # "fwrite" /\ sessions # 0
    <3>1. CASE PreLoad /\ ~Crash
      BY <1>3, <3>1 DEF PreLoad, InGame, session, FirstGame
    <3>2. CASE LoadDefaultState
      <4>1. pc = "default" /\ UNCHANGED <<session, srm, polled, ioerr>>
        BY <3>2, DefaultSteps
      <4> QED
        BY <1>3, <4>1 DEF InGame, session, FirstGame
    <3> QED
      BY <1>10, <3>1, <3>2
  <2>2. ASSUME sessions = 1
        PROVE  UNCHANGED gsum \/ (srm[game] # None /\ gsum' = Sum(srm[game]))
    <3>1. gbase = None \/ gbase = game
      BY <2>1, <2>2 DEF FirstGame
    <3>2. ASSUME NEW v, NEW m, LoadFile(game, v, m)
          PROVE  UNCHANGED gsum \/ (srm[game] # None /\ gsum' = Sum(srm[game]))
      BY <3>2 DEF LoadFile
    <3>3. CASE PreLoad /\ ~Crash
      BY <3>1, <3>2, <3>3 DEF PreLoad
    <3>4. CASE LoadDefaultState
      BY <3>2, <3>4, DefaultSteps
    <3> QED
      BY <1>10, <3>3, <3>4
  <2>3. Fingerprint'
    BY <2>1, <2>2 DEF Sampled, Fingerprint
  <2> QED
    BY <2>1, <2>3 DEF Sampled, PolledAt, SampledDurable
<1>11. CASE PowerCut \/ CloseGame
  <2>1. ~polled' /\ ~InGame'
    BY <1>11 DEF PowerCut, CloseGame, InGame
  <2> QED
    BY <2>1 DEF Sampled, Fingerprint, PolledAt, SampledDurable
<1>12. CASE \E g \in Games, p \in setup.places : StartGame(g, p)
  <2>1. ~polled' /\ sessions' = sessions + 1 /\ sessions \in Nat /\ UNCHANGED gsum
    BY <1>3, <1>12 DEF StartGame, statics, TypeInv, TypeOK
  <2>2. Fingerprint'
    BY <2>1 DEF Fingerprint, FirstGame
  <2> QED
    BY <2>1, <2>2 DEF Sampled, PolledAt, SampledDurable
<1>13. CASE Tick \/ UNCHANGED vars
  BY <1>1, <1>13 DEF Tick, vars, session, statics, bound, history
<1>14. (ExitKey \/ Poll \/ NoKey \/ PollSkip \/ PreLoad \/ SaveSlot \/ LoadSlot) => InGame
  BY DEF ExitKey, Poll, NoKey, PollSkip, PreLoad, SaveSlot, LoadSlot, InGame
<1> QED
  BY <1>4, <1>5, <1>6, <1>7, <1>8, <1>9, <1>10, <1>11, <1>12, <1>13, <1>14, <1>15
     DEF Next, Frame

(* After a poll that was not throttled, the first game's sampled bytes are *)
(* on the card, unless a write failed.                                     *)
THEOREM SramSampled == Spec => []SampledDurable
<1>1. Init => Sampled
  BY DEF Init, Sampled, Fingerprint, PolledAt, SampledDurable, InGame
<1> QED
  BY <1>1, SampledStep, SramTypeInv, SramBinding, SramFirst, PTL DEF Spec, Sampled
=============================================================================
