---------------------------- MODULE GameSession ----------------------------
(***************************************************************************)
(* One game after another: how the rom is read (FilePreEmu, run_game), who *)
(* loads the core (Core_Load, FBA_Load, Gpsp_Load, with Load_Proc1), the   *)
(* loop of Load_Proc2 with the clock of FramePacing, what the core asks of *)
(* the screen (environment), the pause menu, and what each of them leaves  *)
(* to the next game: a rom buffer, a mapped library, the turn and the      *)
(* colours of the screen, the pointer to the last frame.                   *)
(***************************************************************************)
EXTENDS FramePacing, Sequences

CONSTANTS
    Games, Cores,
    Gpsp,       \* the core of Gpsp_Load
    Setups,     \* bound: the cards and consoles looked at, see Setup
    MaxMapped   \* bound: how often one library is mapped

None == "none"
Raw == "raw"        \* a buffer that UnzipItem did not fill
Unasked == -1       \* a core that never sets its rotation

(* What is fixed while the console is on:                                  *)
(*   file     how a game lies on the card, what its type says of the       *)
(*            loader, its core, and whether the player assigned it one     *)
(*   ask      what a core sets while it loads, and what it cannot do       *)
(*   fba      the cores FBA_Load tries in turn                             *)
(*   soft     soft_rotation of setting.xml                                 *)
(*   trouble  files may be unreadable, memory may be short, games refused  *)
Setup == [file : [Games -> [packed : {"plain", "zip", "set"}, assigned : BOOLEAN,
                            type : {"core", "gpsp", "direct", "unknown"}, core : Cores]],
          ask : [Cores -> [format : {"565", "8888", "unset"}, turn : {Unasked, 0, 1},
                           fault : {None, "open", "support", "init", "entry", "region"}]],
          fba : Seq(Cores), soft : BOOLEAN, trouble : BOOLEAN]

ASSUME SessionAssumption ==
    /\ Gpsp \in Cores /\ MaxMapped \in Nat
    /\ {None, Raw} \cap Games = {}
    /\ Setups \subseteq {s \in Setup : s.fba # <<>>}

VARIABLES
    setup,
    pc,       \* where main is: "menu", "load", in Load_Proc2 ("top" of the
              \* loop, "run", "begin"), "pause", or "dead"
    game, way,        \* the last game, and how it was started
    loader, queue,    \* its loader, and the cores it tries, the first one now
    zip,              \* ZIP_BUF: whose contents it holds
    unread,           \* history: FilePreEmu left ZIP_BUF as it found it
    refused,          \* history: the last core to load it refused the game
    mapped, inited,   \* per core: open handles, retro_init less retro_deinit
    screen,           \* rotation, rotation_buff and use_rgb_8888; the
                      \* driver's turn and colour mode
    found,            \* history: what of the screen was not neutral before
    resumed,          \* history: the game has been paused
    frame,            \* this_frame: in the game's memory ("live"), or not
    first,            \* Load_Proc2 has not run the first frame
    ran               \* history: frames since the start or the last pause

session == <<setup, game, way, loader, queue, unread, refused, found>>
loop == <<resumed, first, ran>>
vars == <<session, pc, zip, mapped, inited, screen, frame, loop, pacing>>

Ways == {"run_game", "assigned", "chosen"}
Neutral == [rotation |-> 0, buffer |-> FALSE, rgb |-> FALSE, turn |-> 0, mode |-> 0]
Left(s) == [rotation |-> s.rotation # 0, turn |-> s.turn # 0,
            rgb |-> s.rgb, mode |-> s.mode # 0]

Boot(s) ==
    /\ setup = s /\ pc = "menu" /\ way = "run_game" /\ zip = None /\ unread = FALSE
    /\ refused = FALSE
    /\ game = None /\ loader = None /\ queue = <<>>
    /\ mapped = [c \in Cores |-> 0] /\ inited = [c \in Cores |-> 0]
    /\ screen = Neutral /\ found = Left(Neutral)
    /\ resumed = FALSE /\ first = TRUE /\ frame = None /\ ran = 0

Init == PacingInit /\ \E s \in Setups : Boot(s)

-----------------------------------------------------------------------------
(* Reading the rom.                                                        *)

File(g) == setup.file[g]
Core(g) == File(g).core
Fails(outcomes) == IF setup.trouble THEN outcomes ELSE {}

(* FilePreEmu: what ZIP_BUF holds after it, and its result.  A set of roms *)
(* is left to the core, and a zip that cannot be listed is not an error.   *)
FilePreEmu(g) ==
    LET read(rom) == [rom |-> rom, ok |-> TRUE, kept |-> FALSE]
        kept(ok) == [rom |-> zip, ok |-> ok, kept |-> TRUE]
    IN  CASE File(g).packed = "set" -> {kept(TRUE)} \cup Fails({kept(FALSE)})
          [] File(g).packed = "plain" -> {read(g)} \cup Fails({kept(FALSE), read(None)})
          [] OTHER -> {read(g)} \cup Fails({kept(FALSE), kept(TRUE), read(None)})

(* run_game: which loader, with which cores and which buffer.  The zipped  *)
(* files of the "direct" types find no loader; what UnzipItem could not    *)
(* unpack is loaded all the same; a plain file without memory is read to   *)
(* address 0.                                                              *)
RunGame(g) ==
    LET by(l, cores, rom) == [loader |-> l, cores |-> cores, rom |-> rom]
        nothing == by(None, <<>>, None)
        typed(rom) == IF File(g).type = "core" THEN by("core", <<Core(g)>>, rom)
                                               ELSE by(None, <<>>, rom)
    IN  CASE File(g).packed = "set" -> {by("fba", setup.fba, None)} \cup Fails({nothing})
          [] File(g).packed # "set" /\ File(g).type = "gpsp" ->
                {by("gpsp", <<Gpsp>>, None)}
                \cup Fails(IF File(g).packed = "zip" THEN {nothing} ELSE {})
          [] File(g).packed = "zip" /\ File(g).type # "gpsp" -> {typed(g)} \cup Fails({nothing, typed(Raw)})
          [] File(g).packed = "plain" /\ File(g).type = "direct" -> {by("core", <<Core(g)>>, None)}
          [] OTHER -> {typed(g)} \cup Fails({nothing, by("crash", <<>>, None)})

(* A loader is called, or none is and the menu comes back. *)
Begin(g, w, l, cores, rom, skipped) ==
    /\ game' = g /\ way' = w /\ unread' = skipped /\ refused' = FALSE
    /\ loader' = l /\ queue' = cores
    /\ zip' = (IF l \in {None, "crash"} THEN None ELSE rom)
    /\ pc' = (CASE l = None -> "menu" [] l = "crash" -> "dead" [] OTHER -> "load")
    /\ found' = Left(screen)
    /\ UNCHANGED <<setup, mapped, inited, screen, frame, loop, pacing>>

Room == \A c \in Cores : mapped[c] < MaxMapped

(* A game of a list: run_game, or the core the player assigned, for which  *)
(* mui_run_game ignores FilePreEmu's result.                               *)
Start(g) ==
    /\ pc = "menu" /\ Room
    /\ IF File(g).assigned
       THEN \E f \in FilePreEmu(g) :
                Begin(g, "assigned", "core", <<Core(g)>>, f.rom, f.kept)
       ELSE \E r \in RunGame(g) : Begin(g, "run_game", r.loader, r.cores, r.rom, FALSE)

(* A page's list of cores: FilePreEmu, the choice, and filelist_run_game,  *)
(* which looks for the name of the core at 0x304 bytes after the path it   *)
(* was given.  What lies there is the compiler's choice: the name, nothing *)
(* (run_game then), or bytes that name no core.  Without a choice the page *)
(* frees the buffer.                                                       *)
StartChosen(g) ==
    /\ pc = "menu" /\ Room
    /\ \E f \in FilePreEmu(g) :
          \/ Begin(g, "chosen", None, <<>>, None, FALSE)
          \/ f.ok /\ \/ Begin(g, "chosen", "core", <<Core(g)>>, f.rom, f.kept)
                     \/ \E r \in RunGame(g) :
                            Begin(g, "chosen", r.loader, r.cores, r.rom, FALSE)

-----------------------------------------------------------------------------
(* Loading the core.                                                       *)

Ask(c) == setup.ask[c]
Fault(c) == IF loader = "gpsp" /\ Ask(c).fault = "support" THEN None ELSE Ask(c).fault
Now == queue[1]

(* environment(): the pixel format, then the rotation. *)
Environment(c, s) ==
    LET coloured == CASE Ask(c).format = "unset" -> s
                      [] Ask(c).format = "565" -> [s EXCEPT !.rgb = FALSE]
                      [] OTHER -> [s EXCEPT !.rgb = TRUE, !.mode = 1]
    IN  CASE Ask(c).turn = Unasked -> coloured
          [] setup.soft /\ Ask(c).turn = 1 ->
                [coloured EXCEPT !.rotation = Ask(c).turn, !.buffer = TRUE]
          [] OTHER -> [coloured EXCEPT !.rotation = Ask(c).turn, !.turn = Ask(c).turn]

(* What a loader does to the screen after Load_Proc2. *)
Restored(s) ==
    CASE loader = "core" -> [s EXCEPT !.turn = 0, !.mode = 0]
      [] loader = "fba" -> [s EXCEPT !.rotation = 0, !.turn = 0,
                                     !.buffer = IF setup.soft THEN FALSE ELSE @]
      [] OTHER -> s

(* Mutant: the pages leave the buffer to the next game too. *)
BufferLeft_Always == zip

(* run_game and the pages free the buffer; mui_run_game, with an assigned  *)
(* core, does not.                                                         *)
BufferLeft == IF way = "assigned" THEN zip ELSE None

(* Back in the menu, with screen s.  The counters of the clock mean nothing *)
(* until the next game sets them, and are forgotten here.                   *)
Menu(s) ==
    /\ pc' = "menu"
    /\ zip' = BufferLeft
    /\ screen' = s
    /\ resumed' = FALSE /\ first' = TRUE /\ ran' = 0
    /\ Restart

(* This core will not do: FBA_Load tries the next one, the others return. *)
NextCore(s) ==
    /\ UNCHANGED <<setup, game, way, loader, unread, frame>>
    /\ IF loader = "fba" /\ Len(queue) > 1
       THEN /\ queue' = Tail(queue) /\ screen' = s /\ found' = Left(s)
            /\ UNCHANGED <<pc, zip, loop, pacing>>
       ELSE UNCHANGED <<queue, found>> /\ Menu(s)

Maps(opens, inits) ==
    /\ mapped' = [mapped EXCEPT ![Now] = @ + opens]
    /\ inited' = [inited EXCEPT ![Now] = @ + inits]

(* No library, or one that does not know the game, is closed again; when   *)
(* Load_Proc1 misses a function, only FBA_Load closes it.                  *)
LoadFails ==
    /\ pc = "load" /\ Fault(Now) \in {"open", "support", "init"}
    /\ Maps(IF Fault(Now) = "init" /\ loader # "fba" THEN 1 ELSE 0, 0)
    /\ NextCore(screen)
    /\ UNCHANGED refused

(* Mutant: FBA_Load goes on to the next core and leaves this one open. *)
Abandons_All == loader # "core" \/ Fault(Now) = "entry"

(* Gpsp_Load leaves the library that did not load the game as it is, and   *)
(* Core_Load does when it has no retro_load_game.                          *)
Abandons == loader = "gpsp" \/ (loader = "core" /\ Fault(Now) = "entry")

(* retro_load_game is missing or says no. *)
Refused ==
    /\ pc = "load"
    /\ Fault(Now) = "entry" \/ (setup.trouble /\ Fault(Now) \in {None, "region"})
    /\ LET kept == IF Abandons THEN 1 ELSE 0 IN Maps(kept, kept)
    /\ \E s \in {screen, Environment(Now, screen)} :
          NextCore(IF loader = "core" THEN [s EXCEPT !.mode = 0] ELSE s)
    /\ refused' = (pc' = "menu")

(* Load_Proc2 finds no retro_get_region and returns, with all left open. *)
NoRegion ==
    /\ pc = "load" /\ Fault(Now) = "region"
    /\ Maps(1, 1)
    /\ Menu(Restored(Environment(Now, screen)))
    /\ UNCHANGED <<session, frame>>

Loaded ==
    /\ pc = "load" /\ Fault(Now) = None
    /\ Maps(1, 1)
    /\ screen' = Environment(Now, screen)
    /\ pc' = "top"
    /\ Restart
    /\ UNCHANGED <<session, zip, frame, loop>>

-----------------------------------------------------------------------------
(* The loop of Load_Proc2, and the pause menu.                             *)

(* A frame: the clock, the pads, retro_run, and DrawFrame unless it is to  *)
(* be skipped.                                                             *)
Frame ==
    /\ pc \in {"top", "run"}
    /\ AnyPace
    /\ pc' = (IF first THEN "begin" ELSE "top")
    /\ ran' = (IF ran > maxSkips + 1 THEN ran ELSE ran + 1)
    /\ frame' = (IF FrameSkip' THEN frame ELSE "live")
    /\ UNCHANGED <<session, zip, mapped, inited, screen, resumed, first>>

(* After the first frame the clock starts again. *)
FirstDone ==
    /\ pc = "begin" /\ pc' = "top" /\ first' = FALSE
    /\ Restart
    /\ UNCHANGED <<session, zip, mapped, inited, screen, resumed, frame, ran>>

(* The hot key.  A frame of 32 bits a pixel is copied for the menu, and    *)
(* this_frame is the copy from now on.  Reading what is no longer there    *)
(* may crash.                                                              *)
Pause ==
    /\ pc = "top"
    /\ screen' = [screen EXCEPT !.turn = 0, !.mode = IF screen.rgb THEN 1 ELSE @]
    /\ pc' \in {"pause"} \cup (IF frame = "gone" THEN {"dead"} ELSE {})
    /\ UNCHANGED <<session, zip, mapped, inited, frame, loop, pacing>>

(* Mutant: the screen stays as the pause menu had it. *)
Unpaused_KeepsTurn(turn) == [screen EXCEPT !.mode = IF screen.rgb THEN 1 ELSE @]

(* Leaving the pause menu either way: the copy is freed. *)
Unpaused(turn) ==
    [screen EXCEPT !.turn = turn, !.mode = IF screen.rgb THEN 1 ELSE @]
Freed == IF screen.rgb THEN "gone" ELSE frame

(* Back to the game; the driver is turned even if DrawFrame turns. *)
Resume ==
    /\ pc = "pause" /\ pc' = "run"
    /\ screen' = Unpaused(screen.rotation)
    /\ frame' = Freed
    /\ resumed' = TRUE /\ ran' = 0
    /\ Restart
    /\ UNCHANGED <<session, zip, mapped, inited, first>>

(* The end of a game: the core is unloaded and closed, its loader and the  *)
(* caller clear up.                                                        *)
Close(s, f) ==
    /\ Maps(-1, -1)
    /\ frame' = (IF f = "live" THEN "gone" ELSE f)
    /\ Menu(Restored(s))
    /\ UNCHANGED session

Quit == pc = "pause" /\ Close(Unpaused(0), Freed)
KeyOff == pc = "top" /\ Close(screen, frame)

Next ==
    \/ \E g \in Games : Start(g) \/ StartChosen(g)
    \/ LoadFails \/ Refused \/ NoRegion \/ Loaded
    \/ Frame \/ FirstDone \/ Pause \/ Resume \/ Quit \/ KeyOff

Spec == Init /\ [][Next]_vars

-----------------------------------------------------------------------------
InGame == pc \in {"top", "run", "begin", "pause"}

TypeOK ==
    /\ PacingTypeOK
    /\ setup \in Setups
    /\ pc \in {"menu", "load", "top", "run", "begin", "pause", "dead"}
    /\ game \in Games \cup {None} /\ way \in Ways
    /\ loader \in {"core", "fba", "gpsp", "crash", None} /\ queue \in Seq(Cores)
    /\ (pc = "load" \/ InGame) => loader # None /\ queue # <<>>
    /\ zip \in Games \cup {None, Raw} /\ unread \in BOOLEAN /\ refused \in BOOLEAN
    /\ mapped \in [Cores -> 0 .. MaxMapped] /\ inited \in [Cores -> 0 .. MaxMapped]
    /\ screen \in [rotation : {0, 1}, buffer : BOOLEAN, rgb : BOOLEAN,
                   turn : {0, 1}, mode : {0, 1}]
    /\ found \in [rotation : BOOLEAN, turn : BOOLEAN, rgb : BOOLEAN, mode : BOOLEAN]
    /\ frame \in {"live", "gone", None}
    /\ resumed \in BOOLEAN /\ first \in BOOLEAN /\ ran \in 0 .. maxSkips + 2

(* A core is handed the rom of its own game, or none.  The ways to another *)
(* are FilePreEmu leaving ZIP_BUF as it is, after a game that mui_run_game *)
(* left its buffer behind; and run_game going on after UnzipItem failed.   *)
RomOfTheGame ==
    /\ ((pc = "load" \/ InGame) /\ loader = "core") =>
            zip \in {None, game} \/ unread \/ (zip = Raw /\ way # "assigned")
    /\ (pc = "menu" /\ zip # None) => way = "assigned"

(* A library is mapped, and its retro_init in force, once while its game   *)
(* runs and not at all otherwise, so that every game finds fresh statics.  *)
(* Not so once it was abandoned: by Load_Proc2 without a region, by a load *)
(* that failed half way in Core_Load, or by Gpsp_Load refusing.            *)
Tidy(c) ==
    /\ \/ Ask(c).fault \in {None, "open", "support"}
       \/ (Ask(c).fault \in {"init", "entry"} /\ \A g \in Games : Core(g) # c)
    /\ c = Gpsp => ~setup.trouble /\ Ask(c).fault \notin {"init", "entry"}
BalancedCores ==
    pc # "dead" => \A c \in Cores : Tidy(c) =>
        LET n == IF InGame /\ Now = c THEN 1 ELSE 0
        IN  mapped[c] = n /\ inited[c] = n

(* A game is shown turned and coloured as its core asked, turned once, by  *)
(* DrawFrame or by the driver; and unturned if it asked nothing and found  *)
(* it so.  What an earlier game, or a core that FBA_Load tried before,     *)
(* left is seen by a core that does not ask; and a pause under             *)
(* soft_rotation turns twice.                                              *)
GameScreen ==
    pc \in {"top", "run", "begin"} =>
        LET ask == Ask(Now)
            wide == ask.format = "8888"
        IN  /\ (ask.format = "unset" /\ found.rgb) \/ screen.rgb = wide
            /\ found.mode \/ (ask.format = "unset" /\ found.rgb)
               \/ screen.mode = (IF wide THEN 1 ELSE 0)
            /\ \/ found.turn /\ (ask.turn = Unasked \/ setup.soft)
               \/ found.rotation /\ ask.turn = Unasked
               \/ resumed /\ setup.soft /\ screen.rotation # 0
               \/ (IF setup.soft THEN screen.rotation ELSE 0) + screen.turn
                   = (IF ask.turn = 1 THEN 1 ELSE 0)
            /\ (setup.soft /\ screen.rotation # 0) => screen.buffer

(* The menu is drawn upright and in its own colours, unless Gpsp_Load (or, *)
(* for the colours, FBA_Load) was the last to use the screen, or found it  *)
(* like that, or the core had the screen turned before it refused the game *)
(* (Core_Load and FBA_Load turn it back only after Load_Proc2).            *)
MenuScreen ==
    pc = "menu" => /\ screen.turn = 0 \/ loader = "gpsp" \/ found.turn \/ refused
                   /\ screen.mode = 0 \/ loader \in {"fba", "gpsp"} \/ found.mode

(* What one core, or the pause menu, makes of the screen is not seen by    *)
(* the next game or the menu, but in these cases.                          *)
ScreenAsAsked == GameScreen /\ MenuScreen

(* The pause menu shows a frame of its game that is still there, once so   *)
(* many frames have been run since the start or the last pause that the    *)
(* pacing cannot have skipped them all.                                    *)
PausePicture ==
    (pc = "top" /\ ran > maxSkips + 1 /\ Unwrapped) => frame = "live"
=============================================================================
