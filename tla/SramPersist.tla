----------------------------- MODULE SramPersist -----------------------------
(***************************************************************************)
(* Battery saves: sram_persist.c as the game loop (Load_Proc2), the state  *)
(* hot key (SaveDefaultState) and the first frame (LoadDefaultState) drive *)
(* it, over any sequence of games in one run of the program, with power    *)
(* cuts at any step.                                                       *)
(*                                                                         *)
(* The statics of sram_persist.c (g_core, g_gd, g_base, the fingerprint)   *)
(* outlive a game; the core library they point into does not.  The two     *)
(* channels (.srm, .rtc) run the same code side by side: the model has one.*)
(* A ROM without battery memory (size 0 for good) takes no branch here.    *)
(* g_pending_load is left out: nothing in the program sets it.             *)
(*                                                                         *)
(* A save state holds the battery memory with the rest of the machine, so  *)
(* loading one replaces it.  State files are named after the title of a    *)
(* game: those of one title in two folders share them (CardFiles has what  *)
(* else can happen to these files).                                        *)
(***************************************************************************)
EXTENDS Naturals, FiniteSets

CONSTANTS
    Games,        \* ROM files, each with a save file of its own
    Cores,        \* core libraries
    Titles,       \* RomName and type, which the state files are named after
    ZeroDetect,   \* cores that report size 0 while the memory is all zero
    Places,       \* where dlopen may map a library (the handle it returns)
    Setups,       \* the core and title of each game, the bytes games change
                  \* (those cgm_sum samples, "seen", or not), dlopen's places,
                  \* which of the two states the player makes use of, and
                  \* the bound: games started between two power cuts
    None          \* NULL: no game, no handle, no file

ASSUME CoreAssumption ==
    /\ Setups \subseteq [coreOf : [Games -> Cores], title : [Games -> Titles],
                         places : SUBSET Places,
                         changes : SUBSET {"seen", "unseen"},
                         kinds : SUBSET {"sav", "slot"}, starts : Nat]
    /\ ZeroDetect \subseteq Cores

(* Battery memory, in memory or in a file: the games whose play it holds,  *)
(* the content of the bytes cgm_sum samples and of those it does not (two  *)
(* contents each, 0 all zero), and whether part was lost to a torn file.   *)
Data  == [from : SUBSET Games, seen : 0 .. 1, unseen : 0 .. 1, torn : BOOLEAN]
Zero(owners) == [from |-> owners, seen |-> 0, unseen |-> 0, torn |-> FALSE]

(* cgm_sum hashes about 257 bytes of the memory, however large it is. *)
Sum(d) == [from |-> d.from, seen |-> d.seen, torn |-> d.torn]
Sums   == {Sum(d) : d \in Data}

(* A mapped library: where, and which. *)
Libs == [place : Places, core : Cores]

(* A save state: the core that wrote it, and the memory in it.  Of each    *)
(* title there is the one of the hot key and those of the pause menu's     *)
(* slots, of which the model has one.                                      *)
States     == [core : Cores, mem : Data]
StateFiles == Titles \X {"sav", "slot"}

ASSUME NoneAssumption ==
    None \notin Games \union Places \union Libs \union Data \union Sums \union States

VARIABLES
    setup,      \* one of Setups, fixed
    pc,         \* where the main thread is
    game,       \* the running game
    lib,        \* the mapped core: [place, core], None while none is
    mem,        \* the core's battery memory
    first,      \* bVar2 of Load_Proc2: no frame was run yet
    srm,        \* the save file of each game
    state,      \* the state files of each title
    gcore,      \* g_core
    gfn,        \* g_gd and g_gs: the library they were resolved in
    gbase,      \* g_base
    gsum,       \* last_sum; None while has_sum = 0
    throttled,  \* g_last_poll is less than 5 s ago
    ret,        \* where cgm_sram_flush returns to, "menu" outside it
    (* history *)
    sessions,   \* games started since power-up
    unread,     \* the game had a save file and it was not read yet
    polled,     \* this frame's poll was not throttled
    ioerr,      \* a write failed in this session
    brought,    \* the games whose play came out of a state in this session
    had,        \* the file that fopen emptied held a whole save
    mistaken    \* cgm_sram_bind took another core for the one it had bound

session == <<setup, game, lib, sessions>>
bound   == <<gcore, gfn, mistaken>>
statics == <<bound, gbase, gsum, throttled>>
history == <<unread, polled, ioerr, brought>>
vars    == <<session, pc, mem, first, srm, state, statics, ret, history, had>>

CoreOf(g) == setup.coreOf[g]

(* The program starts, with some saves on the card. *)
Init ==
    /\ setup \in Setups
    /\ pc = "menu" /\ game = None /\ lib = None /\ mem = Zero({})
    /\ first = TRUE /\ gcore = None /\ gfn = None /\ gbase = None
    /\ gsum = None /\ throttled = FALSE /\ ret = "menu" /\ sessions = 0
    /\ unread = FALSE /\ polled = FALSE /\ ioerr = FALSE /\ mistaken = FALSE
    /\ \E saved \in SUBSET Games :
         srm = [g \in Games |-> IF g \in saved
                               THEN [Zero({g}) EXCEPT !.seen = 1] ELSE None]
    /\ state = [f \in StateFiles |-> None] /\ brought = {} /\ had = FALSE

-----------------------------------------------------------------------------
(* g_gs and g_gd point into the mapped core, or into one that was closed:  *)
(* called then, they crash, or answer for a game that was unloaded (size   *)
(* 0) if something still keeps the old library mapped.                     *)
FnNull  == gfn = None
FnValid == gfn # None /\ gfn = lib
FnStale == ~FnNull /\ ~FnValid

(* cgm_refresh: the view exists when the core reports a size; it forgets   *)
(* the pointer otherwise, and asks for it only when size > 0.              *)
ViewOf(l, d) == l.core \in ZeroDetect => d.seen + d.unseen > 0
View         == FnValid /\ ViewOf(lib, mem)

Crash == /\ pc' = "crashed"
         /\ UNCHANGED <<session, mem, first, srm, state, statics, ret, history, had>>

(* cgm_sram_load(file of b), with m in memory, once the view v is          *)
(* refreshed; a torn file reads short, with some of its bytes in memory    *)
(* and no fingerprint.                                                     *)
LoadFile(b, v, m) ==
    IF v /\ srm[b] # None
    THEN /\ mem' \in {srm[b]} \union (IF srm[b].torn THEN {m} ELSE {})
         /\ gsum' = IF srm[b].torn THEN gsum ELSE Sum(srm[b])
         /\ unread' = (unread /\ b # game)
    ELSE mem' = m /\ UNCHANGED <<gsum, unread>>

(* The running game's file of one kind. *)
StateFile(kind) == <<setup.title[game], kind>>

(* retro_save_state: the machine as it is, whole or cut short by a full    *)
(* card, or nothing if the file cannot be opened.                          *)
RetroSave(kind) ==
    \/ /\ kind \in setup.kinds
       /\ \E cut \in BOOLEAN :
            state' = [state EXCEPT ![StateFile(kind)] =
                        [core |-> lib.core, mem |-> [mem EXCEPT !.torn = @ \/ cut]]]
    \/ UNCHANGED state

(* retro_load_state, leaving m in memory: what the file holds, or what was *)
(* there before, if there is no file or retro_unserialize refuses it.  A   *)
(* core refuses the states of another (the cores are not part of the       *)
(* program: this is assumed).                                              *)
RetroLoad(kind, m) ==
    LET s == state[StateFile(kind)]
    IN  \/ m = mem /\ UNCHANGED brought
        \/ /\ s # None /\ s.core = lib.core
           /\ m = s.mem /\ brought' = brought \union s.mem.from

-----------------------------------------------------------------------------
(* Starting and leaving a game.                                            *)

(* mui_run_game and Core_Load up to Load_Proc2: RomName, fileName, dlopen, *)
(* retro_load_game.                                                        *)
StartGame(g, p) ==
    /\ pc = "menu"
    /\ sessions < setup.starts
    /\ sessions' = sessions + 1
    /\ game' = g
    /\ lib' = [place |-> p, core |-> CoreOf(g)]
    /\ mem' = Zero({g})
    /\ unread' = (srm[g] # None)
    /\ pc' = "preload"
    /\ UNCHANGED <<setup, first, srm, state, statics, ret, polled, ioerr, brought, had>>

(* cgm_sram_load_base() before the loop: whatever base and functions the   *)
(* game before left behind.                                                *)
PreLoad ==
    /\ pc = "preload"
    /\ \/ gbase # None /\ FnStale /\ Crash
       \/ /\ IF gbase = None THEN UNCHANGED <<mem, gsum, unread>>
                             ELSE LoadFile(gbase, View, mem)
          /\ pc' = "top"
          /\ UNCHANGED <<session, first, srm, state, bound, gbase, throttled, ret,
                         polled, ioerr, brought, had>>

(* retro_unload_game, retro_deinit, dlclose(handle_emurun); the statics of *)
(* sram_persist.c stay.                                                    *)
CloseGame ==
    /\ pc = "close"
    /\ pc' = "menu" /\ game' = None /\ lib' = None /\ mem' = Zero({})
    /\ first' = TRUE /\ unread' = FALSE /\ polled' = FALSE /\ ioerr' = FALSE
    /\ brought' = {}
    /\ UNCHANGED <<setup, sessions, srm, state, statics, ret, had>>

-----------------------------------------------------------------------------
(* cgm_sram_flush.  It refreshes, and skips a channel without a view.      *)

FlushIf(writes, after) ==
    IF writes THEN pc' = "fopen" /\ ret' = after
              ELSE pc' = after /\ ret' = "menu"

(* fopen(path, "wb") empties the old save; it may fail (card full or gone).*)
FlushOpen ==
    /\ pc = "fopen"
    /\ \/ /\ pc' = "fwrite"
          /\ srm' = [srm EXCEPT ![gbase] = [mem EXCEPT !.torn = TRUE]]
          /\ had' = (srm[gbase] # None /\ ~srm[gbase].torn)
          /\ UNCHANGED <<ret, ioerr>>
       \/ /\ pc' = ret /\ ret' = "menu"
          /\ ioerr' = TRUE
          /\ UNCHANGED <<srm, had>>
    /\ UNCHANGED <<session, mem, first, state, statics, unread, polled, brought>>

(* fwrite, fflush, fsync, fclose: the whole memory, or short (card full).  *)
FlushWrite ==
    /\ pc = "fwrite"
    /\ pc' = ret /\ ret' = "menu" /\ had' = FALSE
    /\ \/ /\ srm' = [srm EXCEPT ![gbase] = mem]
          /\ gsum' = Sum(mem)
          /\ UNCHANGED ioerr
       \/ /\ ioerr' = TRUE
          /\ UNCHANGED <<srm, gsum>>
    /\ UNCHANGED <<session, mem, first, state, bound, gbase, throttled, unread,
                   polled, brought>>

-----------------------------------------------------------------------------
(* The game loop of Load_Proc2.                                            *)

(* Mutant: the program leaves without the flush. *)
ExitKey_NoFlush ==
    /\ pc = "top"
    /\ pc' = "close"
    /\ UNCHANGED <<session, mem, first, srm, state, statics, ret, history, had>>

(* Menu key with "exit" chosen, or a negative key: flush, then leave. *)
ExitKey ==
    /\ pc = "top"
    /\ \/ gbase # None /\ FnStale /\ Crash
       \/ /\ FlushIf(gbase # None /\ View, "close")
          /\ UNCHANGED <<session, mem, first, srm, state, statics, history, had>>

(* cgm_sram_bind: a handle equal to g_core counts as already bound. *)
BoundAlready == gcore = lib.place /\ ~FnNull

(* The view, with m in memory, once cgm_sram_bind has returned. *)
BoundView(m) == (BoundAlready => FnValid) /\ ViewOf(lib, m)

(* Mutant: the library is remembered in place of its handle. *)
Bind_StoresLib ==
    /\ mistaken' = (mistaken \/ (BoundAlready /\ FnStale))
    /\ IF BoundAlready THEN UNCHANGED <<gcore, gfn, throttled>>
                       ELSE gcore' = lib /\ gfn' = lib /\ throttled' = FALSE

Bind ==
    /\ mistaken' = (mistaken \/ (BoundAlready /\ FnStale))
    /\ IF BoundAlready THEN UNCHANGED <<gcore, gfn, throttled>>
                       ELSE gcore' = lib.place /\ gfn' = lib /\ throttled' = FALSE

(* The pause menu saves a slot, or loads one that exists and goes back to  *)
(* the game.                                                               *)
SaveSlot ==
    /\ pc = "top"
    /\ RetroSave("slot")
    /\ UNCHANGED <<session, pc, mem, first, srm, statics, ret, history, had>>

LoadSlot ==
    /\ pc = "top"
    /\ state[StateFile("slot")] # None
    /\ RetroLoad("slot", mem')
    /\ pc' = "resumed"
    /\ UNCHANGED <<session, first, srm, state, statics, ret, unread, polled, ioerr, had>>

(* Mutant: the base of the game before is kept. *)
SaveKey_KeepsBase ==
    /\ pc \in {"top", "resumed"}
    /\ RetroSave("sav")
    /\ \/ BoundAlready /\ FnStale /\ pc' = "crashed"
          /\ UNCHANGED <<gbase, bound, throttled, ret>>
       \/ /\ Bind
          /\ FlushIf(gbase # None /\ BoundView(mem), "poll")
          /\ UNCHANGED gbase
    /\ UNCHANGED <<session, mem, first, srm, gsum, history, had>>

(* SaveDefaultState: the state, then set the base, bind, flush. *)
SaveKey ==
    /\ pc \in {"top", "resumed"}
    /\ RetroSave("sav")
    /\ \/ BoundAlready /\ FnStale /\ pc' = "crashed"
          /\ UNCHANGED <<gbase, bound, throttled, ret>>
       \/ /\ gbase' = game
          /\ Bind
          /\ FlushIf(BoundView(mem), "poll")
    /\ UNCHANGED <<session, mem, first, srm, gsum, history, had>>

NoKey ==
    /\ pc \in {"top", "resumed"}
    /\ pc' = "poll"
    /\ UNCHANGED <<session, mem, first, srm, state, statics, ret, history, had>>

(* cgm_sram_poll_base: the 5 s throttle, then a flush if the fingerprint   *)
(* moved.                                                                  *)
PollSkip ==
    /\ pc = "poll"
    /\ gbase = None \/ throttled
    /\ pc' = "run"
    /\ UNCHANGED <<session, mem, first, srm, state, statics, ret, history, had>>

(* Mutant: without a fingerprint there is nothing to compare, so no flush. *)
Dirty_NeedsSum(sum, d) == sum # None /\ Sum(d) # sum

Dirty(sum, d) == sum = None \/ Sum(d) # sum

Poll ==
    /\ pc = "poll"
    /\ gbase # None /\ ~throttled
    /\ \/ FnStale /\ Crash
       \/ /\ throttled' = TRUE
          /\ polled' = TRUE
          /\ FlushIf(View /\ Dirty(gsum, mem), "run")
          /\ UNCHANGED <<session, mem, first, srm, state, bound, gbase, gsum,
                         unread, ioerr, brought, had>>

(* retro_run: the game may change its battery memory. *)
RetroRun ==
    /\ pc = "run"
    /\ \/ UNCHANGED mem
       \/ \E c \in setup.changes :
            mem' = [mem EXCEPT !.from = @ \union {game}, ![c] = 1 - @]
    /\ polled' = FALSE
    /\ pc' = IF first THEN "default" ELSE "top"
    /\ UNCHANGED <<session, first, srm, state, statics, ret, unread, ioerr, brought, had>>

(* LoadDefaultState with b for its base, after the first frame: load the   *)
(* state of the hot key, set the base, bind, load the save if it does.     *)
Default(b, loads) ==
    /\ pc = "default"
    /\ \E m \in Data :
         /\ RetroLoad("sav", m)
         /\ \/ BoundAlready /\ FnStale /\ pc' = "crashed" /\ mem' = m
               /\ UNCHANGED <<gbase, bound, throttled, gsum, unread, first>>
            \/ /\ gbase' = b
               /\ Bind
               /\ LoadFile(game, loads /\ BoundView(m), m)
               /\ first' = FALSE
               /\ pc' = "top"
    /\ UNCHANGED <<session, srm, state, ret, polled, ioerr, had>>

(* Mutant: the base is set and bound, and the file not read. *)
LoadDefaultState_NoLoad == Default(game, FALSE)

(* Mutant: the base is that of any file of the list. *)
LoadDefaultState_AnyBase == \E g \in Games : Default(g, TRUE)

LoadDefaultState == Default(game, TRUE)

(* Five seconds pass on the clock cgm_sram_poll reads. *)
Tick ==
    /\ throttled
    /\ throttled' = FALSE
    /\ UNCHANGED <<session, pc, mem, first, srm, state, bound, gbase, gsum, ret,
                   history, had>>

(* The power goes, or the program died and is started again.  The states   *)
(* of the hot key are never synced: a cut may lose them.                   *)
PowerCut ==
    /\ pc' = "menu" /\ game' = None /\ lib' = None /\ mem' = Zero({})
    /\ first' = TRUE /\ gcore' = None /\ gfn' = None /\ gbase' = None
    /\ gsum' = None /\ throttled' = FALSE /\ ret' = "menu" /\ sessions' = 0
    /\ unread' = FALSE /\ polled' = FALSE /\ ioerr' = FALSE
    /\ brought' = {} /\ had' = FALSE
    /\ \E lost \in SUBSET Titles :
         state' = [f \in StateFiles |->
                     IF f[1] \in lost /\ f[2] = "sav" THEN None ELSE state[f]]
    /\ UNCHANGED <<setup, srm, mistaken>>

-----------------------------------------------------------------------------
Frame == \/ PreLoad \/ CloseGame \/ FlushOpen \/ FlushWrite \/ ExitKey
         \/ SaveKey \/ NoKey \/ PollSkip \/ Poll \/ RetroRun
         \/ LoadDefaultState

Next == \/ \E g \in Games, p \in setup.places : StartGame(g, p)
        \/ Frame
        \/ SaveSlot
        \/ LoadSlot
        \/ Tick
        \/ PowerCut

Spec == Init /\ [][Next]_vars

(* The program runs, and the clock advances, while the power is on. *)
Fairness == WF_vars(Frame) /\ WF_vars(Tick)

FairSpec == Spec /\ Fairness

-----------------------------------------------------------------------------
(* Properties that hold.                                                   *)

Points == {"menu", "preload", "top", "resumed", "poll", "run", "default",
           "fopen", "fwrite", "close", "crashed"}

TypeOK ==
    /\ setup \in Setups
    /\ pc \in Points
    /\ game \in Games \union {None}
    /\ lib \in Libs \union {None}
    /\ mem \in Data
    /\ first \in BOOLEAN
    /\ srm \in [Games -> Data \union {None}]
    /\ state \in [StateFiles -> States \union {None}]
    /\ gcore \in Places \union {None}
    /\ gfn \in Libs \union {None}
    /\ gbase \in Games \union {None}
    /\ gsum \in Sums \union {None}
    /\ throttled \in BOOLEAN
    /\ ret \in Points
    /\ sessions \in 0 .. setup.starts
    /\ unread \in BOOLEAN
    /\ polled \in BOOLEAN
    /\ ioerr \in BOOLEAN
    /\ brought \in SUBSET Games
    /\ had \in BOOLEAN
    /\ mistaken \in BOOLEAN

Owners(f) == IF f = None THEN {} ELSE f.from

(* A save file never holds the play of a game of another core, although    *)
(* the base and the functions of the game before are still in use when the *)
(* next one starts; unless a bind once took another core, at the handle of *)
(* the one it had bound, for that one, and the program survived the call.  *)
ForeignOnlySameCore ==
    mistaken \/ \A g \in Games : \A h \in Owners(srm[g]) : CoreOf(h) = CoreOf(g)

(* The first game after power-up writes its own save only, and adds no     *)
(* other game's play to it but what a state of its title brought: mixing   *)
(* takes a second game in the same run, or a state.                        *)
FirstGameKeepsApart ==
    [][sessions <= 1 =>
         \A g \in Games :
            Owners(srm'[g]) \subseteq
                Owners(srm[g]) \union {g} \union (IF g = game THEN brought ELSE {})]_vars

(* Leaving a game after its first frame puts its whole battery memory on   *)
(* the card, unless a write failed or the functions of a closed core       *)
(* answered in place of its own (see CallsWhileAlive).                     *)
ExitSaves ==
    pc = "close" /\ ~first /\ ~ioerr /\ View => srm[game] = mem

(* After a poll that was not throttled, the bytes cgm_sum samples are on   *)
(* the card, for the first game of a run.                                  *)
SampledDurable ==
    pc = "run" /\ polled /\ sessions = 1 /\ ~ioerr /\ View =>
        srm[game] # None /\ Sum(srm[game]) = Sum(mem)

(* A save is emptied by the game it belongs to, after that game has read   *)
(* it; except before LoadDefaultState has run, in the first frame, and     *)
(* with a core that hides an all-zero memory.                              *)
OverwriteWindow ==
    [][pc = "fopen" /\ pc' = "fwrite" =>
         \/ gbase = game /\ ~unread
         \/ first
         \/ CoreOf(game) \in ZeroDetect]_vars

(* While the first game of a run goes on, a change of a sampled byte       *)
(* reaches the card, unless a write failed (a failed flush leaves the file *)
(* torn, and the fingerprint of the flush before calls it clean) or the    *)
(* core hides the memory again.                                            *)
OnCard == srm[gbase] # None /\ Sum(srm[gbase]) = Sum(mem)

ChangesReachCard ==
    pc = "run" /\ gbase = game /\ sessions = 1 /\ View
        ~> game = None \/ gbase # game \/ OnCard \/ ioerr \/ ~View

-----------------------------------------------------------------------------
(* What comments of the code say, and the code does not do.                *)

(* Load_Proc2:62 "read-back moved before the first retro_run". *)
ReadBackBeforeFirstRun == pc = "run" /\ first => ~unread

(* cgm_upgrade.h:27 the save is written every so often while the game      *)
(* runs, "to avoid that a power cut loses everything": a power cut during  *)
(* that write leaves a whole save, the old or the new, if there was one.   *)
PowerCutKeepsSave ==
    [][PowerCut /\ pc = "fwrite" /\ ret = "run" /\ ~first /\ had => ~srm'[gbase].torn]_vars

(* Load_Proc2:77 the memory must be used before dlclose, while "the SRAM   *)
(* view is still alive": no call goes through functions of a closed core.  *)
CallsWhileAlive == pc # "crashed"
=============================================================================
