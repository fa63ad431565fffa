--------------------------- MODULE SessionProofs ---------------------------
(***************************************************************************)
(* The game session paces its frames as FramePacing says, and what follows *)
(* from that for the pause menu; whose rom a core is handed; the types;    *)
(* which libraries stay mapped; and what is left of a game on the screen.  *)
(* For any games, cores, cards and clock.                                  *)
(***************************************************************************)
EXTENDS GameSession, PacingProofs

(* A step of the session looks at the clock, starts it again, or leaves it. *)
LEMMA StepPaces == ASSUME [Next]_vars PROVE [AnyPace \/ Restart]_pacing
<1>1. CASE UNCHANGED vars
  BY <1>1 DEF vars
<1>2. ASSUME NEW g \in Games, Start(g) \/ StartChosen(g) PROVE UNCHANGED pacing
  BY <1>2 DEF Start, StartChosen, Begin
<1>3. ASSUME NEW s, NextCore(s) PROVE [Restart]_pacing
  BY <1>3 DEF NextCore, Menu
<1>4. CASE LoadFails \/ Refused
  BY <1>3, <1>4 DEF LoadFails, Refused
<1>5. CASE NoRegion \/ Loaded \/ FirstDone \/ Resume
  BY <1>5 DEF NoRegion, Menu, Loaded, FirstDone, Resume
<1>6. CASE Frame \/ Pause
  BY <1>6 DEF Frame, Pause
<1>7. CASE Quit \/ KeyOff
  BY <1>7 DEF Quit, KeyOff, Close, Menu
<1> QED
  BY <1>1, <1>2, <1>4, <1>5, <1>6, <1>7 DEF Next

(* Every session is a behaviour of the clock: Load_Proc2's counters are    *)
(* only ever set, together, by a look at the clock or by a restart of it.  *)
THEOREM SessionPaces == Spec => PacingSpec
<1>1. Init => PacingInit
  BY DEF Init
<1> QED
  BY <1>1, StepPaces, PTL DEF Spec, PacingSpec

(* In every session no more than maxSkips frames in a row are held from    *)
(* the screen, and the game is held back to its rate, until the word wraps. *)
THEOREM SessionPaced == Spec => []Paced
  BY SessionPaces, PacingSafe, PTL

-----------------------------------------------------------------------------
(* While this_frame is not in the game's memory, no frame was shown since   *)
(* the start or the last pause, but for the very first one the clock has    *)
(* counted them all.                                                        *)
Unshown ==
    /\ ran \in Nat /\ unseen \in Nat
    /\ pc \in {"menu", "load"} => ran = 0 /\ first
    /\ (pc \in {"top", "run"} /\ first) => ran = 0
    /\ pc = "begin" => ran <= 1
    /\ (pc \in {"top", "run"} /\ frame # "live") => ran <= unseen + 1

LEMMA SkipsNat == maxSkips \in Nat
  BY PacingAssumption

LEMMA FrameUnshown == ASSUME Unshown, Frame PROVE Unshown'
<1>1. /\ pc \in {"top", "run"} /\ ran \in Nat /\ unseen \in Nat
      /\ ran' = IF ran > maxSkips + 1 THEN ran ELSE ran + 1
      /\ first => pc' = "begin"
      /\ ~first => pc' = "top"
      /\ first' = first
  BY DEF Unshown, Frame
<1>2. CASE FrameSkip'
  <2>1. unseen' = unseen + 1 /\ frame' = frame
    BY <1>2 DEF Frame, AnyPace, Pace
  <2>2. ran' \in Nat /\ unseen' \in Nat /\ ran' <= ran + 1
    BY <1>1, <2>1, SkipsNat, SMT
  <2>3. CASE first
    <3>1. pc' = "begin" /\ ran = 0
      BY <1>1, <2>3 DEF Unshown
    <3>2. ran' <= 1
      BY <3>1, <2>2, SMT
    <3> QED
      BY <3>1, <3>2, <2>2 DEF Unshown
  <2>4. CASE ~first
    <3>1. pc' = "top" /\ ~first'
      BY <1>1, <2>4
    <3>2. ASSUME frame # "live" PROVE ran' <= unseen' + 1
      <4>1. ran <= unseen + 1
        BY <1>1, <3>2 DEF Unshown
      <4> QED
        BY <4>1, <1>1, <2>1, <2>2, SMT
    <3> QED
      BY <3>1, <3>2, <2>1, <2>2 DEF Unshown
  <2> QED
    BY <2>3, <2>4
<1>3. CASE ~FrameSkip'
  <2>1. unseen' = 0 /\ frame' = "live"
    BY <1>3 DEF Frame, AnyPace, Pace
  <2>2. ran' \in Nat /\ unseen' \in Nat
    BY <1>1, <2>1, SkipsNat, SMT
  <2>3. first => ran' <= 1
    <3>1. ASSUME ran = 0 PROVE ran' <= 1
      BY <3>1, <1>1, SkipsNat, SMT
    <3> QED
      BY <3>1, <1>1 DEF Unshown
  <2> QED
    BY <1>1, <2>1, <2>2, <2>3 DEF Unshown
<1> QED
  BY <1>2, <1>3

LEMMA StepUnshown == ASSUME Unshown, [Next]_vars PROVE Unshown'
<1> DEFINE Cleared == pc' = "menu" /\ ran' = 0 /\ first' /\ unseen' = 0
<1>1. ASSUME Cleared PROVE Unshown'
  BY <1>1 DEF Unshown
<1>2. ASSUME UNCHANGED <<ran, unseen, first>>, pc \in {"menu", "load"},
             pc' \in {"menu", "load", "dead"} PROVE Unshown'
  BY <1>2 DEF Unshown
<1>3. CASE UNCHANGED vars
  BY <1>3 DEF vars, loop, pacing, Unshown
<1>4. ASSUME NEW g \in Games, Start(g) \/ StartChosen(g) PROVE Unshown'
  <2>1. ASSUME NEW w, NEW l, NEW q, NEW r, NEW k, pc = "menu", Begin(g, w, l, q, r, k)
        PROVE Unshown'
    <3>1. UNCHANGED <<ran, unseen, first>> /\ pc' \in {"menu", "load", "dead"}
      BY <2>1, Zenon DEF Begin, loop, pacing
    <3> QED
      BY <2>1, <3>1, <1>2
  <2> QED
    BY <1>4, <2>1 DEF Start, StartChosen
<1>5. ASSUME NEW s, pc = "load", NextCore(s) PROVE Unshown'
  <2>1. CASE Menu(s)
    BY <2>1, <1>1 DEF Menu, Restart
  <2>2. CASE UNCHANGED <<pc, zip, loop, pacing>>
    BY <2>2, <1>2, <1>5 DEF loop, pacing
  <2> QED
    BY <1>5, <2>1, <2>2 DEF NextCore
<1>6. CASE LoadFails
  BY <1>6, <1>5 DEF LoadFails
<1>7. CASE Refused
  BY <1>7, <1>5 DEF Refused
<1>8. CASE NoRegion
  BY <1>8, <1>1 DEF NoRegion, Menu, Restart
<1>9. CASE Loaded
  BY <1>9 DEF Loaded, Restart, loop, Unshown
<1>10. CASE Frame
  BY <1>10, FrameUnshown
<1>11. CASE FirstDone
  BY <1>11 DEF FirstDone, Restart, Unshown
<1>12. CASE Pause
  <2>1. pc' \in {"pause", "dead"} /\ UNCHANGED <<ran, unseen>>
    BY <1>12 DEF Pause, loop, pacing
  <2> QED
    BY <2>1 DEF Unshown
<1>13. CASE Resume
  BY <1>13 DEF Resume, Restart, Unshown
<1>14. CASE Quit \/ KeyOff
  <2>1. PICK s, f : Close(s, f)
    BY <1>14 DEF Quit, KeyOff
  <2> QED
    BY <2>1, <1>1 DEF Close, Menu, Restart
<1> QED
  BY <1>3, <1>4, <1>6, <1>7, <1>8, <1>9, <1>10, <1>11, <1>12, <1>13, <1>14 DEF Next

(* The pause menu finds a frame of its game, once more frames have been    *)
(* run than the pacing can skip.                                           *)
THEOREM SessionPicture == Spec => []PausePicture
<1>1. Init => Unshown
  BY DEF Init, Boot, PacingInit, Unshown
<1>2. Unshown /\ Paced => PausePicture
  <2> SUFFICES ASSUME Unshown, Paced, pc = "top", ran > maxSkips + 1,
                      Unwrapped, frame # "live"
               PROVE  FALSE
    BY DEF PausePicture
  <2>1. ran \in Nat /\ unseen \in Nat /\ ran <= unseen + 1 /\ unseen <= maxSkips
    BY DEF Unshown, Paced, SkipsBounded
  <2> QED
    BY <2>1, SkipsNat, SMT
<1> QED
  BY <1>1, <1>2, StepUnshown, SessionPaced, PTL DEF Spec

-----------------------------------------------------------------------------
(* Whose rom a core is handed: what FilePreEmu and run_game leave in        *)
(* ZIP_BUF is the game's, nothing, what was there, or not yet unpacked.     *)
LEMMA FilePreEmuRom ==
    ASSUME NEW g, NEW f \in FilePreEmu(g)
    PROVE  f.rom \in {None, g} \/ f.kept
  BY DEF FilePreEmu, Fails

LEMMA RunGameRom ==
    ASSUME NEW g, NEW r \in RunGame(g)
    PROVE  r.rom \in {None, g, Raw}
  BY DEF RunGame, Fails

LEMMA BeginRom ==
    ASSUME NEW g, NEW w, NEW l, NEW q, NEW r, NEW k, Begin(g, w, l, q, r, k),
           r \in {None, g} \/ k \/ (r = Raw /\ w # "assigned")
    PROVE  RomOfTheGame'
<1>1. zip' \in {None, r} /\ game' = g /\ way' = w /\ unread' = k
  BY DEF Begin
<1>2. pc' = "menu" => zip' = None
  BY DEF Begin
<1> QED
  BY <1>1, <1>2 DEF RomOfTheGame

LEMMA StepRom == ASSUME RomOfTheGame, [Next]_vars PROVE RomOfTheGame'
<1>1. CASE UNCHANGED <<session, pc, zip>>
  BY <1>1 DEF session, RomOfTheGame, InGame
<1>2. ASSUME UNCHANGED <<game, way, loader, unread, zip>>,
             pc = "load" \/ InGame, pc' # "menu" PROVE RomOfTheGame'
  BY <1>2 DEF RomOfTheGame
<1>3. ASSUME NEW s, Menu(s), way' = way PROVE RomOfTheGame'
  BY <1>3 DEF Menu, BufferLeft, RomOfTheGame, InGame
<1>4. ASSUME NEW g \in Games, Start(g) \/ StartChosen(g) PROVE RomOfTheGame'
  <2>1. ASSUME NEW w, w # "assigned", NEW r \in RunGame(g),
               Begin(g, w, r.loader, r.cores, r.rom, FALSE) PROVE RomOfTheGame'
    BY <2>1, RunGameRom, BeginRom
  <2>2. ASSUME NEW w, NEW f \in FilePreEmu(g), NEW q,
               Begin(g, w, "core", q, f.rom, f.kept) PROVE RomOfTheGame'
    BY <2>2, FilePreEmuRom, BeginRom
  <2>3. ASSUME NEW w, Begin(g, w, None, <<>>, None, FALSE) PROVE RomOfTheGame'
    BY <2>3, BeginRom
  <2> QED
    BY <1>4, <2>1, <2>2, <2>3 DEF Start, StartChosen
<1>5. ASSUME NEW s, pc = "load", NextCore(s) PROVE RomOfTheGame'
  <2>1. CASE Menu(s)
    BY <1>5, <2>1, <1>3 DEF NextCore
  <2>2. CASE UNCHANGED <<pc, zip, loop, pacing>>
    BY <1>5, <2>2, <1>2 DEF NextCore
  <2> QED
    BY <1>5, <2>1, <2>2 DEF NextCore
<1>6. CASE LoadFails
  BY <1>6, <1>5 DEF LoadFails
<1>7. CASE Refused
  BY <1>7, <1>5 DEF Refused
<1>8. CASE NoRegion
  BY <1>8, <1>3 DEF NoRegion, session
<1>9. CASE Loaded \/ Frame \/ FirstDone \/ Pause \/ Resume
  BY <1>9, <1>2 DEF Loaded, Frame, FirstDone, Pause, Resume, InGame, session
<1>10. CASE Quit \/ KeyOff
  BY <1>10, <1>3 DEF Quit, KeyOff, Close, session
<1> QED
  BY <1>1, <1>4, <1>6, <1>7, <1>8, <1>9, <1>10 DEF Next, vars

(* A core is handed the rom of its own game or none, but for the two ways   *)
(* that the property names: a buffer that FilePreEmu left alone, and one    *)
(* that UnzipItem did not fill.                                             *)
THEOREM SessionRom == Spec => []RomOfTheGame
<1>1. Init => RomOfTheGame
  BY DEF Init, Boot, RomOfTheGame, InGame
<1> QED
  BY <1>1, StepRom, PTL DEF Spec

-----------------------------------------------------------------------------
(* Types.                                                                  *)
ScreenType == [rotation : {0, 1}, buffer : BOOLEAN, rgb : BOOLEAN, turn : {0, 1}, mode : {0, 1}]
AskType == [format : {"565", "8888", "unset"}, turn : {Unasked, 0, 1},
            fault : {None, "open", "support", "init", "entry", "region"}]
Loaders == {"core", "fba", "gpsp"}

Where ==
    /\ setup \in Setups
    /\ pc \in {"menu", "load", "top", "run", "begin", "pause", "dead"}
    /\ game \in Games \cup {None} /\ way \in Ways
    /\ loader \in Loaders \cup {"crash", None} /\ queue \in Seq(Cores)
    /\ (pc = "load" \/ InGame) => loader # None /\ queue # <<>>
Contents ==
    /\ zip \in Games \cup {None, Raw}
    /\ mapped \in [Cores -> 0 .. MaxMapped] /\ inited \in [Cores -> 0 .. MaxMapped]
    /\ frame \in {"live", "gone", None} /\ ran \in 0 .. maxSkips + 2
Marks ==
    /\ unread \in BOOLEAN /\ refused \in BOOLEAN /\ resumed \in BOOLEAN /\ first \in BOOLEAN
    /\ found \in [rotation : BOOLEAN, turn : BOOLEAN, rgb : BOOLEAN, mode : BOOLEAN]
    /\ screen \in ScreenType

LEMMA LoadersSet == {"core", "fba", "gpsp", "crash", None} = Loaders \cup {"crash", None}
  BY DEF Loaders

LEMMA TypeParts == TypeOK <=> PacingTypeOK /\ Where /\ Contents /\ Marks
  BY LoadersSet, Zenon DEF TypeOK, Where, Contents, Marks, ScreenType

LEMMA TypeNext == ASSUME PacingTypeOK', Where', Contents', Marks' PROVE TypeOK'
  BY LoadersSet, Zenon DEF TypeOK, Where, Contents, Marks, ScreenType

LEMMA SetupTypes ==
    ASSUME setup \in Setups
    PROVE  /\ \A c \in Cores : Ask(c) \in AskType
           /\ \A g \in Games : Core(g) \in Cores
           /\ setup.fba \in Seq(Cores) /\ setup.fba # <<>>
           /\ setup.soft \in BOOLEAN
<1>1. setup \in Setup /\ setup.fba # <<>>
  BY SessionAssumption
<1> QED
  BY <1>1 DEF Setup, Ask, AskType, Core, File

(* What environment() makes of the screen, field by field: e is s, changed *)
(* as core c asks.                                                         *)
AsAsked(c, s, e) ==
    /\ e \in ScreenType
    /\ Ask(c).format = "unset" => e.rgb = s.rgb
    /\ Ask(c).format = "565" => e.rgb = FALSE
    /\ Ask(c).format = "8888" => e.rgb = TRUE /\ e.mode = 1
    /\ Ask(c).format # "8888" => e.mode = s.mode
    /\ Ask(c).turn = Unasked => e.rotation = s.rotation /\ e.turn = s.turn
    /\ Ask(c).turn # Unasked => e.rotation = Ask(c).turn
    /\ (Ask(c).turn # Unasked /\ ~(setup.soft /\ Ask(c).turn = 1)) => e.turn = Ask(c).turn
    /\ (Ask(c).turn # Unasked /\ setup.soft /\ Ask(c).turn = 1) => e.turn = s.turn /\ e.buffer = TRUE
    /\ e.buffer = s.buffer \/ e.buffer = TRUE

LEMMA EnvironmentAsked ==
    ASSUME setup \in Setups, NEW c \in Cores, NEW s \in ScreenType, NEW e, e = Environment(c, s)
    PROVE  AsAsked(c, s, e)
<1> USE DEF AsAsked
<1> DEFINE a == CASE Ask(c).format = "unset" -> s
                  [] Ask(c).format = "565" -> [s EXCEPT !.rgb = FALSE]
                  [] OTHER -> [s EXCEPT !.rgb = TRUE, !.mode = 1]
<1>1. Ask(c) \in AskType
  BY SetupTypes
<1>2. /\ a \in ScreenType
      /\ Ask(c).format = "unset" => a.rgb = s.rgb
      /\ Ask(c).format = "565" => a.rgb = FALSE
      /\ Ask(c).format = "8888" => a.rgb = TRUE /\ a.mode = 1
      /\ Ask(c).format # "8888" => a.mode = s.mode
      /\ a.rotation = s.rotation /\ a.turn = s.turn /\ a.buffer = s.buffer
  <2>1. CASE Ask(c).format = "unset"
    BY <2>1
  <2>2. CASE Ask(c).format = "565"
    BY <2>2 DEF ScreenType
  <2>3. CASE Ask(c).format = "8888"
    BY <2>3 DEF ScreenType
  <2> QED
    BY <1>1, <2>1, <2>2, <2>3 DEF AskType
<1>3. e = CASE Ask(c).turn = Unasked -> a
            [] setup.soft /\ Ask(c).turn = 1 -> [a EXCEPT !.rotation = Ask(c).turn, !.buffer = TRUE]
            [] OTHER -> [a EXCEPT !.rotation = Ask(c).turn, !.turn = Ask(c).turn]
  BY DEF Environment
<1> HIDE DEF a
<1>4. CASE Ask(c).turn = Unasked
  <2>1. e = a
    BY <1>3, <1>4 DEF Unasked
  <2> QED
    BY <1>2, <1>4, <2>1
<1>5. CASE Ask(c).turn # Unasked /\ setup.soft /\ Ask(c).turn = 1
  <2>1. Ask(c).turn = 1
    BY <1>1, <1>5 DEF AskType
  <2>2. e = [a EXCEPT !.rotation = Ask(c).turn, !.buffer = TRUE]
    BY <1>3, <1>5
  <2>3. /\ e \in ScreenType /\ e.rotation = Ask(c).turn /\ e.buffer = TRUE
        /\ e.rgb = a.rgb /\ e.mode = a.mode /\ e.turn = a.turn
    BY <1>2, <2>1, <2>2 DEF ScreenType
  <2> QED
    BY <1>2, <1>5, <2>3
<1>6. CASE Ask(c).turn # Unasked /\ ~(setup.soft /\ Ask(c).turn = 1)
  <2>1. Ask(c).turn \in {0, 1}
    BY <1>1, <1>6 DEF AskType
  <2>2. e = [a EXCEPT !.rotation = Ask(c).turn, !.turn = Ask(c).turn]
    BY <1>3, <1>6
  <2>3. /\ e \in ScreenType /\ e.rotation = Ask(c).turn /\ e.turn = Ask(c).turn
        /\ e.rgb = a.rgb /\ e.mode = a.mode /\ e.buffer = a.buffer
    BY <1>2, <2>1, <2>2 DEF ScreenType
  <2> QED
    BY <1>2, <1>6, <2>3
<1> QED
  BY <1>4, <1>5, <1>6

LEMMA EnvironmentScreen ==
    ASSUME setup \in Setups, NEW c \in Cores, NEW s \in ScreenType
    PROVE  Environment(c, s) \in ScreenType
  BY EnvironmentAsked DEF AsAsked

LEMMA RestoredScreen ==
    ASSUME NEW s \in ScreenType, NEW e, e = Restored(s)
    PROVE  /\ e \in ScreenType
           /\ loader \in {"core", "fba"} => e.turn = 0
           /\ loader = "core" => e.mode = 0
           /\ (setup.soft /\ e.rotation # 0) => s.rotation # 0 /\ e.buffer = s.buffer
<1>1. CASE loader = "core"
  BY <1>1 DEF Restored, ScreenType
<1>2. CASE loader = "fba"
  BY <1>2 DEF Restored, ScreenType
<1>3. CASE loader \notin {"core", "fba"}
  BY <1>3 DEF Restored
<1> QED
  BY <1>1, <1>2, <1>3

LEMMA UnpausedScreen ==
    ASSUME screen \in ScreenType, NEW t \in {0, 1}, NEW e, e = Unpaused(t)
    PROVE  /\ e \in ScreenType /\ e.turn = t
           /\ e.rotation = screen.rotation /\ e.rgb = screen.rgb /\ e.buffer = screen.buffer
           /\ e.mode = IF screen.rgb THEN 1 ELSE screen.mode
  BY DEF Unpaused, ScreenType

LEMMA LeftType == ASSUME NEW s PROVE Left(s).rotation = (s.rotation # 0)
  BY DEF Left

(* The pacing keeps its types in every step of the session. *)
LEMMA PacingTypeStep == ASSUME PacingTypeOK, [Next]_vars PROVE PacingTypeOK'
<1>1. CASE UNCHANGED pacing
  BY <1>1 DEF pacing, PacingTypeOK
<1>2. CASE AnyPace
  <2>1. PICK d \in 0 .. MaxRun : Pace(elapsed + d)
    BY <1>2 DEF AnyPace
  <2>2. elapsed + d \in Nat
    BY PacingAssumption DEF PacingTypeOK
  <2> QED
    BY <2>1, <2>2, PaceType
<1>3. CASE Restart
  BY <1>3, PacingAssumption DEF Restart, PacingTypeOK
<1> QED
  BY <1>1, <1>2, <1>3, StepPaces

(* No more libraries are initialised than mapped, one more may be mapped   *)
(* while a game is loaded, and the running game's is; which cores the      *)
(* loaders try.                                                            *)
Active == pc = "load" \/ InGame

Counts ==
    /\ pc = "load" => Room
    /\ \A c \in Cores : inited[c] <= mapped[c]
    /\ InGame => mapped[Now] > 0 /\ inited[Now] > 0

Queues ==
    Active => /\ loader \in Loaders
              /\ loader = "core" => game \in Games /\ queue = <<Core(game)>>
              /\ loader = "gpsp" => queue = <<Gpsp>>

SessionInv == TypeOK /\ Counts /\ Queues

LEMMA NowCore == ASSUME TypeOK, Active PROVE Now \in Cores
  BY DEF TypeOK, Active, Now

(* A loader is called with cores of its own. *)
LEMMA BeginInv ==
    ASSUME SessionInv, pc = "menu", Room, PacingTypeOK', NEW g \in Games, NEW w \in Ways,
           NEW l \in Loaders \cup {"crash", None}, NEW q \in Seq(Cores),
           NEW r \in Games \cup {None, Raw}, NEW k \in BOOLEAN,
           l \in Loaders => q # <<>>,
           l = "core" => q = <<Core(g)>>,
           l = "gpsp" => q = <<Gpsp>>,
           Begin(g, w, l, q, r, k)
    PROVE  SessionInv'
<1>1. /\ game' = g /\ way' = w /\ unread' = k /\ refused' = FALSE /\ loader' = l /\ queue' = q
      /\ zip' \in {None, r} /\ found' = Left(screen)
      /\ UNCHANGED <<setup, mapped, inited, screen, frame, resumed, first, ran>>
  BY DEF Begin, loop
<1>2. pc' \in {"menu", "dead", "load"} /\ (pc' = "load" => l \in Loaders)
  BY DEF Begin, Loaders
<1>3. found' \in [rotation : BOOLEAN, turn : BOOLEAN, rgb : BOOLEAN, mode : BOOLEAN]
  BY <1>1 DEF Left, SessionInv, TypeOK
<1>4. ~InGame' /\ (Active' => pc' = "load")
  BY <1>2 DEF InGame, Active
<1>5. TypeOK'
  <2>1. Where /\ Contents /\ Marks
    BY TypeParts DEF SessionInv
  <2>2. Where'
    BY <1>1, <1>2, <1>4, <2>1 DEF Where, Loaders, None
  <2>3. Contents'
    BY <1>1, <2>1 DEF Contents
  <2>4. Marks'
    BY <1>1, <1>3, <2>1 DEF Marks
  <2> QED
    BY <2>2, <2>3, <2>4, TypeNext
<1>6. Counts'
  BY <1>1, <1>4 DEF Counts, SessionInv, Room
<1>7. Queues'
  BY <1>1, <1>2, <1>4 DEF Queues, Core, File
<1> QED
  BY <1>5, <1>6, <1>7 DEF SessionInv

LEMMA RunGameTypes ==
    ASSUME SessionInv, NEW g \in Games, NEW r \in RunGame(g)
    PROVE  /\ r.loader \in Loaders \cup {"crash", None} /\ r.cores \in Seq(Cores)
           /\ r.rom \in Games \cup {None, Raw}
           /\ r.loader \in Loaders => r.cores # <<>>
           /\ r.loader = "core" => r.cores = <<Core(g)>>
           /\ r.loader = "gpsp" => r.cores = <<Gpsp>>
<1> DEFINE by(l, cores, rom) == [loader |-> l, cores |-> cores, rom |-> rom]
<1>1. /\ Core(g) \in Cores /\ Gpsp \in Cores /\ setup.fba \in Seq(Cores) /\ setup.fba # <<>>
      /\ <<Core(g)>> \in Seq(Cores) /\ <<Gpsp>> \in Seq(Cores) /\ <<>> \in Seq(Cores)
  BY SetupTypes, SessionAssumption DEF SessionInv, TypeOK
<1>2. r \in {by("fba", setup.fba, None), by(None, <<>>, None), by("gpsp", <<Gpsp>>, None),
             by("core", <<Core(g)>>, g), by("core", <<Core(g)>>, Raw), by("core", <<Core(g)>>, None),
             by(None, <<>>, g), by(None, <<>>, Raw), by("crash", <<>>, None)}
  BY DEF RunGame, Fails
<1> HIDE DEF by
<1>3. ASSUME NEW l, NEW q, NEW x PROVE by(l, q, x).loader = l /\ by(l, q, x).cores = q /\ by(l, q, x).rom = x
  BY DEF by
<1>4. \E l, q, x :
        /\ r = by(l, q, x) /\ x \in Games \cup {None, Raw}
        /\ \/ l = "fba" /\ q = setup.fba
           \/ l = "gpsp" /\ q = <<Gpsp>>
           \/ l = "core" /\ q = <<Core(g)>>
           \/ l \in {"crash", None} /\ q = <<>>
  BY <1>2
<1>5. PICK l, q, x :
        /\ r.loader = l /\ r.cores = q /\ r.rom = x /\ x \in Games \cup {None, Raw}
        /\ \/ l = "fba" /\ q = setup.fba
           \/ l = "gpsp" /\ q = <<Gpsp>>
           \/ l = "core" /\ q = <<Core(g)>>
           \/ l \in {"crash", None} /\ q = <<>>
  BY <1>3, <1>4
<1>6. r.cores \in Seq(Cores) /\ r.rom \in Games \cup {None, Raw}
  BY <1>1, <1>5
<1>7. r.loader \in Loaders \cup {"crash", None}
  BY <1>5 DEF Loaders
<1>8. r.loader = "core" => r.cores = <<Core(g)>>
  BY <1>5 DEF None
<1>9. r.loader = "gpsp" => r.cores = <<Gpsp>>
  BY <1>5 DEF None
<1>10. r.loader \in Loaders => r.cores # <<>>
  <2>1. <<Core(g)>> # <<>> /\ <<Gpsp>> # <<>>
    OBVIOUS
  <2>2. r.cores = <<>> => r.loader \in {"crash", None}
    BY <1>1, <1>5, <2>1
  <2> QED
    BY <2>2 DEF Loaders, None
<1> QED
  BY <1>6, <1>7, <1>8, <1>9, <1>10

LEMMA FilePreEmuTypes ==
    ASSUME SessionInv, NEW g \in Games, NEW f \in FilePreEmu(g)
    PROVE  f.rom \in Games \cup {None, Raw} /\ f.kept \in BOOLEAN
<1>1. zip \in Games \cup {None, Raw}
  BY DEF SessionInv, TypeOK
<1> DEFINE out(rom, ok, kept) == [rom |-> rom, ok |-> ok, kept |-> kept]
<1>2. f \in {out(zip, TRUE, TRUE), out(zip, FALSE, TRUE), out(g, TRUE, FALSE), out(None, TRUE, FALSE)}
  BY DEF FilePreEmu, Fails
<1>3. f.rom \in Games \cup {None, Raw}
  BY <1>1, <1>2
<1>4. f.kept = TRUE \/ f.kept = FALSE
  BY <1>2
<1> QED
  BY <1>3, <1>4

LEMMA StartInv ==
    ASSUME SessionInv, PacingTypeOK', NEW g \in Games, Start(g) \/ StartChosen(g)
    PROVE  SessionInv'
<1>1. pc = "menu" /\ Room
  BY DEF Start, StartChosen
<1>2. <<Core(g)>> \in Seq(Cores) /\ <<>> \in Seq(Cores)
  BY SetupTypes DEF SessionInv, TypeOK
<1>3. ASSUME NEW w \in Ways, NEW r \in RunGame(g),
             Begin(g, w, r.loader, r.cores, r.rom, FALSE) PROVE SessionInv'
  BY <1>1, <1>3, RunGameTypes, BeginInv
<1>4. ASSUME NEW w \in Ways, NEW f \in FilePreEmu(g),
             Begin(g, w, "core", <<Core(g)>>, f.rom, f.kept) PROVE SessionInv'
  <2>1. /\ f.rom \in Games \cup {None, Raw} /\ f.kept \in BOOLEAN
        /\ "core" \in Loaders \cup {"crash", None} /\ <<Core(g)>> # <<>>
    BY FilePreEmuTypes DEF Loaders
  <2> QED
    BY <1>1, <1>2, <1>4, <2>1, BeginInv
<1>5. ASSUME NEW w \in Ways, Begin(g, w, None, <<>>, None, FALSE) PROVE SessionInv'
  BY <1>1, <1>2, <1>5, BeginInv DEF Loaders, None
<1> QED
  BY <1>3, <1>4, <1>5 DEF Start, StartChosen, Ways

(* Back in the menu, whatever was mapped. *)
LEMMA MenuInv ==
    ASSUME SessionInv, PacingTypeOK', NEW s \in ScreenType, Menu(s),
           UNCHANGED <<setup, game, way, loader, queue, unread, found>>, refused' \in BOOLEAN,
           frame' \in {"live", "gone", None},
           mapped' \in [Cores -> 0 .. MaxMapped], inited' \in [Cores -> 0 .. MaxMapped],
           \A c \in Cores : inited'[c] <= mapped'[c]
    PROVE  SessionInv'
<1>1. /\ pc' = "menu" /\ zip' \in {zip, None} /\ screen' = s /\ resumed' = FALSE /\ first' = TRUE
      /\ ran' = 0 /\ ~InGame' /\ ~Active'
  BY DEF Menu, BufferLeft, InGame, Active
<1>2. ran' \in 0 .. maxSkips + 2
  BY <1>1, SkipsNat
<1>3. TypeOK'
  <2>1. Where /\ Contents /\ Marks
    BY TypeParts DEF SessionInv
  <2>2. Where'
    BY <1>1, <2>1 DEF Where
  <2>3. Contents'
    BY <1>1, <1>2, <2>1 DEF Contents
  <2>4. Marks'
    BY <1>1, <2>1 DEF Marks
  <2> QED
    BY <2>2, <2>3, <2>4, TypeNext
<1> QED
  BY <1>1, <1>3 DEF SessionInv, Counts, Queues

(* Opening and initialising the core that is tried. *)
LEMMA MapsTypes ==
    ASSUME SessionInv, Active, NEW o \in {0, 1}, NEW i \in {0, 1}, i <= o, o = 1 => Room, Maps(o, i)
    PROVE  /\ mapped' \in [Cores -> 0 .. MaxMapped] /\ inited' \in [Cores -> 0 .. MaxMapped]
           /\ \A c \in Cores : inited'[c] <= mapped'[c]
           /\ mapped'[Now] = mapped[Now] + o /\ inited'[Now] = inited[Now] + i
<1>1. /\ Now \in Cores /\ mapped \in [Cores -> 0 .. MaxMapped] /\ inited \in [Cores -> 0 .. MaxMapped]
      /\ \A c \in Cores : inited[c] <= mapped[c]
  BY NowCore DEF SessionInv, TypeOK, Counts
<1>2. mapped' = [mapped EXCEPT ![Now] = @ + o] /\ inited' = [inited EXCEPT ![Now] = @ + i]
  BY DEF Maps
<1>3. mapped[Now] + o \in 0 .. MaxMapped /\ inited[Now] + i \in 0 .. MaxMapped
      /\ inited[Now] + i <= mapped[Now] + o
  BY <1>1, SessionAssumption DEF Room
<1> HIDE DEF Now
<1> QED
  BY <1>1, <1>2, <1>3

LEMMA NextCoreInv ==
    ASSUME SessionInv, PacingTypeOK', pc = "load", NEW s \in ScreenType,
           NEW o \in {0, 1}, NEW i \in {0, 1}, i <= o, loader = "fba" => o = 0 /\ i = 0,
           Maps(o, i), NextCore(s), refused' \in BOOLEAN
    PROVE  SessionInv'
<1>1. Room /\ Active /\ Where /\ Contents /\ Marks /\ queue # <<>> /\ queue \in Seq(Cores)
  BY TypeParts DEF SessionInv, Counts, Active, Where
<1>2. /\ mapped' \in [Cores -> 0 .. MaxMapped] /\ inited' \in [Cores -> 0 .. MaxMapped]
      /\ \A c \in Cores : inited'[c] <= mapped'[c]
  BY <1>1, MapsTypes
<1>3. UNCHANGED <<setup, game, way, loader, unread, frame>>
  BY DEF NextCore
<1>4. CASE loader = "fba" /\ Len(queue) > 1
  <2>1. queue' = Tail(queue) /\ found' = Left(s) /\ screen' = s /\ UNCHANGED <<pc, zip, resumed, first, ran>>
    BY <1>4 DEF NextCore, loop
  <2>2. queue' \in Seq(Cores) /\ queue' # <<>>
    <3>1. Tail(queue) \in Seq(Cores)
      BY <1>1
    <3>2. Len(Tail(queue)) = Len(queue) - 1 /\ Len(queue) \in Nat
      BY <1>1
    <3>3. \A n \in Nat : n > 1 => n - 1 # 0
      OBVIOUS
    <3>4. Len(Tail(queue)) # 0
      BY <1>4, <3>2, <3>3, Zenon
    <3>5. \A q : q = <<>> => Len(q) = 0
      OBVIOUS
    <3> QED
      BY <2>1, <3>1, <3>4, <3>5
  <2>3. found' \in [rotation : BOOLEAN, turn : BOOLEAN, rgb : BOOLEAN, mode : BOOLEAN]
    BY <2>1 DEF Left, ScreenType
  <2>4. UNCHANGED <<mapped, inited>>
    <3>1. Now \in Cores
      BY <1>1, NowCore DEF SessionInv
    <3> HIDE DEF Now
    <3> QED
      BY <1>1, <1>4, <3>1 DEF Maps, Contents
  <2>5. Where'
    BY <1>1, <1>3, <2>1, <2>2 DEF Where
  <2>6. Contents'
    BY <1>1, <1>3, <2>1, <2>4 DEF Contents
  <2>7. Marks'
    BY <1>1, <1>3, <2>1, <2>3 DEF Marks
  <2>8. Counts'
    BY <1>1, <2>1, <2>4 DEF SessionInv, Counts, Room, InGame
  <2>9. Queues'
    BY <1>1, <1>3, <1>4 DEF SessionInv, Queues, Loaders
  <2> QED
    BY <2>5, <2>6, <2>7, <2>8, <2>9, TypeNext DEF SessionInv
<1>5. CASE ~(loader = "fba" /\ Len(queue) > 1)
  <2>1. Menu(s) /\ UNCHANGED <<queue, found>> /\ frame' \in {"live", "gone", None}
    BY <1>1, <1>3, <1>5 DEF NextCore, Contents
  <2> QED
    BY <1>2, <1>3, <2>1, MenuInv
<1> QED
  BY <1>4, <1>5

LEMMA LoadInv ==
    ASSUME SessionInv, PacingTypeOK', LoadFails \/ Refused \/ NoRegion
    PROVE  SessionInv'
<1>1. /\ pc = "load" /\ Active /\ Room /\ Now \in Cores /\ screen \in ScreenType /\ setup \in Setups
      /\ Contents /\ Marks
  BY NowCore, TypeParts DEF SessionInv, LoadFails, Refused, NoRegion, Active, Counts, Where, Marks
<1> HIDE DEF Now
<1>2. CASE LoadFails
  <2>1. PICK o \in {0, 1} : Maps(o, 0) /\ (loader = "fba" => o = 0)
    BY <1>2 DEF LoadFails
  <2>2. NextCore(screen) /\ refused' \in BOOLEAN
    BY <1>1, <1>2 DEF LoadFails, Marks
  <2> QED
    BY <1>1, <2>1, <2>2, NextCoreInv
<1>3. CASE Refused
  <2>1. PICK k \in {0, 1} : Maps(k, k) /\ (loader = "fba" => k = 0)
    BY <1>3 DEF Refused, Abandons
  <2>2. PICK s \in {screen, Environment(Now, screen)} :
            NextCore(IF loader = "core" THEN [s EXCEPT !.mode = 0] ELSE s)
    BY <1>3 DEF Refused
  <2>3. s \in ScreenType
    BY <1>1, <2>2, EnvironmentScreen
  <2>4. [s EXCEPT !.mode = 0] \in ScreenType
    BY <2>3 DEF ScreenType
  <2>5. refused' \in BOOLEAN
    BY <1>3 DEF Refused
  <2> QED
    BY <1>1, <2>1, <2>2, <2>3, <2>4, <2>5, NextCoreInv
<1>4. CASE NoRegion
  <2>1. Environment(Now, screen) \in ScreenType
    BY <1>1, EnvironmentScreen
  <2>2. Restored(Environment(Now, screen)) \in ScreenType
    BY <2>1, RestoredScreen
  <2>3. Maps(1, 1) /\ Menu(Restored(Environment(Now, screen))) /\ UNCHANGED <<session, frame>>
    BY <1>4 DEF NoRegion
  <2>4. /\ mapped' \in [Cores -> 0 .. MaxMapped] /\ inited' \in [Cores -> 0 .. MaxMapped]
        /\ \A c \in Cores : inited'[c] <= mapped'[c]
    BY <1>1, <2>3, MapsTypes
  <2>5. frame' \in {"live", "gone", None} /\ refused' \in BOOLEAN
    BY <1>1, <2>3 DEF Contents, Marks, session
  <2> QED
    BY <2>2, <2>3, <2>4, <2>5, MenuInv DEF session
<1> QED
  BY <1>2, <1>3, <1>4

LEMMA LoadedInv == ASSUME SessionInv, PacingTypeOK', Loaded PROVE SessionInv'
<1>1. /\ pc = "load" /\ Active /\ Room /\ Now \in Cores /\ screen \in ScreenType /\ setup \in Setups
      /\ Where /\ Contents /\ Marks
  BY NowCore, TypeParts DEF SessionInv, Loaded, Active, Counts, Where, Marks
<1>2. /\ Maps(1, 1) /\ screen' = Environment(Now, screen) /\ pc' = "top"
      /\ UNCHANGED <<session, zip, frame, loop>>
  BY DEF Loaded
<1>3. screen' \in ScreenType
  BY <1>1, <1>2, EnvironmentScreen
<1>4. /\ mapped' \in [Cores -> 0 .. MaxMapped] /\ inited' \in [Cores -> 0 .. MaxMapped]
      /\ \A c \in Cores : inited'[c] <= mapped'[c]
      /\ mapped'[Now] = mapped[Now] + 1 /\ inited'[Now] = inited[Now] + 1
  BY <1>1, <1>2, MapsTypes
<1>5. Now' = Now
  BY <1>2 DEF Now, session
<1>6. InGame' /\ Active' /\ pc' # "load"
  BY <1>2 DEF InGame, Active
<1>7. Where'
  BY <1>1, <1>2 DEF Where, session
<1>8. Contents'
  BY <1>1, <1>2, <1>4 DEF Contents, loop
<1>9. Marks'
  BY <1>1, <1>2, <1>3 DEF Marks, loop, session
<1>10. Counts'
  <2>1. mapped[Now] \in Nat /\ inited[Now] \in Nat
    BY <1>1 DEF Contents
  <2>2. mapped'[Now] > 0 /\ inited'[Now] > 0
    BY <1>4, <2>1
  <2> HIDE DEF Now
  <2> QED
    BY <1>4, <1>5, <1>6, <2>2 DEF Counts
<1>11. Queues'
  BY <1>1, <1>2 DEF SessionInv, Queues, session, Core, File
<1> QED
  BY <1>7, <1>8, <1>9, <1>10, <1>11, TypeNext DEF SessionInv

(* Frames and pauses leave the library, the setup and the buffer alone. *)
LEMMA PlayInv ==
    ASSUME SessionInv, PacingTypeOK', Frame \/ FirstDone \/ Pause \/ Resume
    PROVE  SessionInv'
<1>1. /\ InGame /\ Where /\ Contents /\ Marks /\ screen \in ScreenType
      /\ UNCHANGED <<session, zip, mapped, inited>>
  BY TypeParts DEF SessionInv, InGame, Frame, FirstDone, Pause, Resume, Marks
<1>2. pc' \in {"top", "run", "begin", "pause", "dead"}
  BY DEF Frame, FirstDone, Pause, Resume
<1>3. frame' \in {"live", "gone", None}
  <2>1. frame \in {"live", "gone", None}
    BY <1>1 DEF Contents
  <2> QED
    BY <2>1 DEF Frame, FirstDone, Pause, Resume, Freed
<1>4. ran' \in 0 .. maxSkips + 2
  <2>1. ran \in 0 .. maxSkips + 2
    BY <1>1 DEF Contents
  <2> QED
    BY <2>1, SkipsNat DEF Frame, FirstDone, Pause, Resume, loop
<1>5. screen' \in ScreenType
  <2>1. CASE Frame \/ FirstDone
    BY <1>1, <2>1 DEF Frame, FirstDone
  <2>2. CASE Pause
    BY <1>1, <2>2 DEF Pause, ScreenType
  <2>3. CASE Resume
    <3>1. screen.rotation \in {0, 1}
      BY <1>1 DEF ScreenType
    <3> QED
      BY <1>1, <2>3, <3>1, UnpausedScreen DEF Resume
  <2> QED
    BY <2>1, <2>2, <2>3
<1>6. resumed' \in BOOLEAN /\ first' \in BOOLEAN
  BY <1>1 DEF Frame, FirstDone, Pause, Resume, loop, Marks
<1>7. Where'
  BY <1>1, <1>2 DEF Where, session, InGame
<1>8. Contents'
  BY <1>1, <1>3, <1>4 DEF Contents
<1>9. Marks'
  BY <1>1, <1>5, <1>6 DEF Marks, session
<1>10. Counts'
  BY <1>1, <1>2 DEF SessionInv, Counts, Now, session
<1>11. Queues'
  BY <1>1, <1>2 DEF SessionInv, Queues, Active, session, Core, File
<1> QED
  BY <1>7, <1>8, <1>9, <1>10, <1>11, TypeNext DEF SessionInv

LEMMA CloseInv ==
    ASSUME SessionInv, PacingTypeOK', InGame, NEW s \in ScreenType, NEW f \in {"live", "gone", None}, Close(s, f)
    PROVE  SessionInv'
<1>1. /\ Active /\ Now \in Cores /\ Contents /\ Marks
  BY NowCore, TypeParts DEF SessionInv, Active
<1>2. /\ mapped' = [mapped EXCEPT ![Now] = @ + (-1)] /\ inited' = [inited EXCEPT ![Now] = @ + (-1)]
      /\ Menu(Restored(s)) /\ UNCHANGED session
  BY DEF Close, Maps
<1>3. mapped[Now] > 0 /\ inited[Now] > 0 /\ \A c \in Cores : inited[c] <= mapped[c]
  BY DEF SessionInv, Counts
<1> HIDE DEF Now
<1>4. /\ mapped' \in [Cores -> 0 .. MaxMapped] /\ inited' \in [Cores -> 0 .. MaxMapped]
      /\ \A c \in Cores : inited'[c] <= mapped'[c]
  BY <1>1, <1>2, <1>3, SessionAssumption DEF Contents
<1>5. Restored(s) \in ScreenType
  BY RestoredScreen
<1>6. frame' \in {"live", "gone", None} /\ refused' \in BOOLEAN
  BY <1>1, <1>2 DEF Close, Marks, session
<1> QED
  BY <1>2, <1>4, <1>5, <1>6, MenuInv DEF session

LEMMA LeaveInv == ASSUME SessionInv, PacingTypeOK', Quit \/ KeyOff PROVE SessionInv'
<1>1. InGame /\ screen \in ScreenType /\ frame \in {"live", "gone", None}
  BY TypeParts DEF SessionInv, InGame, Quit, KeyOff, Marks, Contents
<1>2. Unpaused(0) \in ScreenType /\ Freed \in {"live", "gone", None}
  BY <1>1, UnpausedScreen DEF Freed
<1> QED
  BY <1>1, <1>2, CloseInv DEF Quit, KeyOff

LEMMA SessionStep == ASSUME SessionInv, [Next]_vars PROVE SessionInv'
<1>1. PacingTypeOK'
  BY PacingTypeStep DEF SessionInv, TypeOK
<1>2. CASE UNCHANGED vars
  <2>1. Where /\ Contents /\ Marks
    BY TypeParts DEF SessionInv
  <2>2. Where' /\ Contents' /\ Marks'
    <3>1. Where'
      BY <1>2, <2>1 DEF vars, session, Where, InGame
    <3>2. Contents'
      BY <1>2, <2>1 DEF vars, loop, Contents
    <3>3. Marks'
      BY <1>2, <2>1 DEF vars, session, loop, Marks
    <3> QED
      BY <3>1, <3>2, <3>3
  <2>3. Counts' /\ Queues'
    BY <1>2 DEF vars, session, SessionInv, Counts, Queues, Room, Active, InGame, Now, Core, File
  <2> QED
    BY <1>1, <2>2, <2>3, TypeNext DEF SessionInv
<1> QED
  BY <1>1, <1>2, StartInv, LoadInv, LoadedInv, PlayInv, LeaveInv DEF Next

LEMMA SessionInit == ASSUME Init PROVE SessionInv
<1>1. PICK s \in Setups : Boot(s)
  BY DEF Init
<1>2. PacingTypeOK
  <2>1. PacingInit
    BY DEF Init
  <2>2. 0 \in 0 .. maxSkips
    BY SkipsNat
  <2> QED
    BY <2>1, <2>2 DEF PacingInit, PacingTypeOK
<1>3. Where
  BY <1>1 DEF Boot, Where, InGame, Ways
<1>4. Contents
  BY <1>1, SessionAssumption, SkipsNat DEF Boot, Contents
<1>5. Marks
  BY <1>1 DEF Boot, Marks, Neutral, Left, ScreenType
<1>6. Counts /\ Queues
  BY <1>1 DEF Boot, Counts, Queues, Active, InGame
<1> QED
  BY <1>2, <1>3, <1>4, <1>5, <1>6, TypeParts DEF SessionInv

LEMMA SessionInductive == Spec => []SessionInv
  BY SessionInit, SessionStep, PTL DEF Spec

(* The session keeps its types over any games, cores and cards; among them *)
(* that no library is unmapped that was not mapped.                        *)
THEOREM SessionTypeOK == Spec => []TypeOK
  BY SessionInductive, PTL DEF SessionInv

-----------------------------------------------------------------------------
(* The cores that stay tidy are neither left open half way nor refused by  *)
(* a loader that leaves them open.                                         *)
LEMMA TidyCores ==
    ASSUME SessionInv, pc = "load", Tidy(Now)
    PROVE  /\ Fault(Now) \in {None, "open", "support"} \/ loader = "fba"
           /\ Fault(Now) \in {"init", "entry"} => loader = "fba"
           /\ setup.trouble => loader # "gpsp"
<1>1. /\ loader \in Loaders
      /\ loader = "core" => game \in Games /\ queue = <<Core(game)>>
      /\ loader = "gpsp" => queue = <<Gpsp>>
  BY DEF SessionInv, Queues, Active
<1>2. /\ Ask(Now).fault \in {None, "open", "support"}
         \/ (Ask(Now).fault \in {"init", "entry"} /\ \A g \in Games : Core(g) # Now)
      /\ Now = Gpsp => ~setup.trouble /\ Ask(Now).fault \notin {"init", "entry"}
  BY DEF Tidy
<1>3. CASE loader = "core"
  <2>1. Now = Core(game)
    BY <1>1, <1>3 DEF Now
  <2> QED
    BY <1>1, <1>2, <1>3, <2>1 DEF Fault, None
<1>4. CASE loader = "gpsp"
  <2>1. Now = Gpsp
    BY <1>1, <1>4 DEF Now
  <2> QED
    BY <1>2, <1>4, <2>1 DEF Fault, None
<1>5. CASE loader = "fba"
  BY <1>5
<1> QED
  BY <1>1, <1>3, <1>4, <1>5 DEF Loaders

(* Opening a core changes its own counts and no other's. *)
LEMMA MapsOne ==
    ASSUME SessionInv, NEW o \in Int, NEW i \in Int, Maps(o, i), NEW c \in Cores
    PROVE  /\ c # Now => mapped'[c] = mapped[c] /\ inited'[c] = inited[c]
           /\ c = Now => mapped'[c] = mapped[c] + o /\ inited'[c] = inited[c] + i
<1>1. DOMAIN mapped = Cores /\ DOMAIN inited = Cores
  BY TypeParts DEF SessionInv, Contents
<1>2. mapped' = [mapped EXCEPT ![Now] = @ + o] /\ inited' = [inited EXCEPT ![Now] = @ + i]
  BY DEF Maps
<1> HIDE DEF Now
<1> QED
  BY <1>1, <1>2

Uses(c) == IF InGame /\ Now = c THEN 1 ELSE 0

LEMMA BalancedStep == ASSUME SessionInv, BalancedCores, [Next]_vars PROVE BalancedCores'
<1> SUFFICES ASSUME pc' # "dead", NEW c \in Cores, Tidy(c)'
             PROVE  mapped'[c] = Uses(c)' /\ inited'[c] = Uses(c)'
  BY DEF BalancedCores, Uses
<1>1. ASSUME setup' = setup PROVE Tidy(c)
  BY <1>1 DEF Tidy, Ask, Core, File
<1>2. ASSUME pc # "dead", setup' = setup
      PROVE  mapped[c] = Uses(c) /\ inited[c] = Uses(c)
  BY <1>1, <1>2 DEF BalancedCores, Uses
<1>3. CASE UNCHANGED <<setup, pc, queue, mapped, inited>>
  BY <1>2, <1>3 DEF Uses, InGame, Now
<1>4. ASSUME NEW g \in Games, Start(g) \/ StartChosen(g)
      PROVE  mapped'[c] = Uses(c)' /\ inited'[c] = Uses(c)'
  <2>1. UNCHANGED <<setup, mapped, inited>> /\ pc' \in {"menu", "load", "dead"} /\ pc = "menu"
    BY <1>4 DEF Start, StartChosen, Begin
  <2> QED
    BY <1>2, <2>1 DEF Uses, InGame
<1>5. ASSUME pc = "load", NEW s, NextCore(s), NEW o \in {0, 1}, NEW i \in {0, 1}, Maps(o, i),
             Tidy(Now) => o = 0 /\ i = 0
      PROVE  mapped'[c] = Uses(c)' /\ inited'[c] = Uses(c)'
  <2>1. setup' = setup /\ pc' \in {"menu", "load"}
    BY <1>5 DEF NextCore, Menu
  <2>2. mapped[c] = 0 /\ inited[c] = 0
    BY <1>2, <1>5, <2>1 DEF Uses, InGame
  <2>3. /\ c # Now => mapped'[c] = mapped[c] /\ inited'[c] = inited[c]
        /\ c = Now => mapped'[c] = mapped[c] + o /\ inited'[c] = inited[c] + i
    BY <1>5, MapsOne
  <2>4. c = Now => o = 0 /\ i = 0
    BY <1>1, <1>5, <2>1
  <2>5. mapped'[c] = 0 /\ inited'[c] = 0
    BY <2>2, <2>3, <2>4
  <2> QED
    BY <2>1, <2>5 DEF Uses, InGame
<1>6. CASE LoadFails
  <2>1. PICK o \in {0, 1} : Maps(o, 0) /\ (o = 1 => Fault(Now) = "init" /\ loader # "fba")
    BY <1>6 DEF LoadFails
  <2>2. Tidy(Now) => o = 0
    BY <1>6, <2>1, TidyCores DEF LoadFails
  <2> QED
    BY <1>5, <1>6, <2>1, <2>2 DEF LoadFails
<1>7. CASE Refused
  <2>1. PICK k \in {0, 1} : Maps(k, k) /\ (k = 1 => Abandons)
    BY <1>7 DEF Refused
  <2>2. ASSUME Tidy(Now) PROVE ~Abandons
    BY <1>7, <2>2, TidyCores DEF Refused, Abandons
  <2> QED
    BY <1>5, <1>7, <2>1, <2>2 DEF Refused
<1>8. CASE NoRegion
  <2>1. setup' = setup /\ pc = "load" /\ Fault(Now) = "region" /\ Maps(1, 1) /\ pc' = "menu"
    BY <1>8 DEF NoRegion, Menu, session
  <2>2. Ask(Now).fault = "region"
    BY <2>1 DEF Fault, None
  <2>3. c # Now
    BY <1>1, <2>1, <2>2 DEF Tidy, None
  <2> QED
    BY <1>2, <2>1, <2>3, MapsOne DEF Uses, InGame
<1>9. CASE Loaded
  <2>1. setup' = setup /\ queue' = queue /\ pc = "load" /\ Maps(1, 1) /\ pc' = "top"
    BY <1>9 DEF Loaded, session
  <2>2. mapped[c] = 0 /\ inited[c] = 0 /\ Now' = Now
    BY <1>2, <2>1 DEF Uses, InGame, Now
  <2> QED
    BY <2>1, <2>2, MapsOne DEF Uses, InGame
<1>10. CASE Frame \/ FirstDone \/ Pause \/ Resume
  <2>1. InGame /\ UNCHANGED <<setup, queue, mapped, inited>> /\ pc' \in {"top", "run", "begin", "pause", "dead"}
    BY <1>10 DEF Frame, FirstDone, Pause, Resume, session, InGame
  <2> QED
    BY <1>2, <2>1 DEF Uses, InGame, Now
<1>11. CASE Quit \/ KeyOff
  <2>1. InGame /\ Maps(-1, -1) /\ setup' = setup /\ pc' = "menu"
    BY <1>11 DEF Quit, KeyOff, Close, Menu, session, InGame
  <2>2. mapped[c] = Uses(c) /\ inited[c] = Uses(c)
    BY <1>2, <2>1 DEF InGame
  <2> QED
    BY <2>1, <2>2, MapsOne DEF Uses, InGame
<1> QED
  BY <1>3, <1>4, <1>6, <1>7, <1>8, <1>9, <1>10, <1>11 DEF Next, vars, session

(* A library is open and initialised once while its game runs and not at   *)
(* all otherwise, except those that the loaders abandon.                   *)
THEOREM SessionBalanced == Spec => []BalancedCores
<1>1. Init => BalancedCores
  BY DEF Init, Boot, BalancedCores, InGame
<1> QED
  BY <1>1, BalancedStep, SessionInductive, PTL DEF Spec

-----------------------------------------------------------------------------
(* The screen of a running game: coloured as its core asked or as found,   *)
(* turned as asked (to a pause: by the driver or by DrawFrame; after one,  *)
(* by the driver), or as found.                                            *)
Wide == Ask(Now).format = "8888"
OldColours == Ask(Now).format = "unset" /\ found.rgb

Coloured ==
    /\ OldColours \/ (screen.rgb <=> Wide)
    /\ found.mode \/ OldColours \/ (Wide /\ screen.mode = 1) \/ (~Wide /\ screen.mode = 0)

Oriented ==
    LET turn == Ask(Now).turn IN
    /\ (turn = Unasked /\ screen.rotation # 0) => found.rotation
    /\ turn # Unasked => screen.rotation = turn
    /\ (pc # "pause" /\ resumed) => screen.turn = screen.rotation
    /\ (pc # "pause" /\ ~resumed /\ (turn = Unasked \/ (setup.soft /\ turn = 1)) /\ screen.turn # 0)
          => found.turn
    /\ (pc # "pause" /\ ~resumed /\ turn # Unasked /\ ~(setup.soft /\ turn = 1))
          => screen.turn = turn

Shown ==
    /\ (setup.soft /\ screen.rotation # 0) => screen.buffer
    /\ pc = "load" => found = Left(screen)
    /\ pc \in {"menu", "load"} => ~resumed
    /\ InGame => Coloured /\ Oriented

LEMMA LeftOf ==
    ASSUME NEW s \in ScreenType
    PROVE  /\ s.rotation # 0 => Left(s).rotation
           /\ s.turn # 0 => Left(s).turn
           /\ s.mode # 0 => Left(s).mode
           /\ s.rgb => Left(s).rgb
  BY DEF Left, ScreenType

LEMMA LoadedShown == ASSUME SessionInv, Shown, Loaded PROVE Shown'
<1>1. /\ pc = "load" /\ Now \in Cores /\ screen \in ScreenType /\ setup \in Setups
  BY NowCore, TypeParts DEF SessionInv, Loaded, Active, Where, Marks
<1>2. /\ screen' = Environment(Now, screen) /\ pc' = "top" /\ InGame' /\ resumed' = resumed
      /\ UNCHANGED <<setup, queue, found>>
  BY DEF Loaded, InGame, session, loop
<1>3. Now' = Now /\ Ask(Now)' = Ask(Now) /\ Ask(Now) \in AskType
  BY <1>1, <1>2, SetupTypes DEF Now, Ask
<1>4. found = Left(screen) /\ ~resumed
  BY <1>1 DEF Shown
<1>5. /\ screen.rotation # 0 => found.rotation
      /\ screen.turn # 0 => found.turn
      /\ screen.mode # 0 => found.mode
      /\ screen.rgb => found.rgb
  BY <1>1, <1>4, LeftOf
<1> DEFINE e == screen'
           a == Ask(Now)
<1>6. AsAsked(Now, screen, e)
  BY <1>1, <1>2, EnvironmentAsked
<1>7. a.format \in {"565", "8888", "unset"} /\ a.turn \in {Unasked, 0, 1}
  BY <1>3 DEF AskType
<1> HIDE DEF e, a
<1>8. (a.format = "unset" /\ found.rgb) \/ (e.rgb <=> a.format = "8888")
  BY <1>5, <1>6, <1>7 DEF AsAsked, a
<1>9. found.mode \/ (a.format = "8888" /\ e.mode = 1) \/ (a.format # "8888" /\ e.mode = 0)
  BY <1>5, <1>6, <1>7 DEF AsAsked, a
<1>10. Coloured'
  BY <1>2, <1>3, <1>8, <1>9 DEF Coloured, Wide, OldColours, e, a
<1>11. /\ (a.turn = Unasked /\ e.rotation # 0) => found.rotation
       /\ a.turn # Unasked => e.rotation = a.turn
       /\ ((a.turn = Unasked \/ (setup.soft /\ a.turn = 1)) /\ e.turn # 0) => found.turn
       /\ (a.turn # Unasked /\ ~(setup.soft /\ a.turn = 1)) => e.turn = a.turn
  BY <1>5, <1>6 DEF AsAsked, a
<1>12. Oriented'
  BY <1>2, <1>3, <1>4, <1>11 DEF Oriented, e, a
<1>13. ((setup.soft /\ screen.rotation # 0) => screen.buffer)'
  <2>1. CASE a.turn = Unasked
    BY <1>2, <1>6, <2>1 DEF AsAsked, Shown, e, a
  <2>2. CASE a.turn = 1
    BY <1>2, <1>6, <2>2 DEF AsAsked, e, a, Unasked
  <2>3. CASE a.turn = 0
    BY <1>6, <2>3 DEF AsAsked, e, a, Unasked
  <2> QED
    BY <1>7, <2>1, <2>2, <2>3
<1> QED
  BY <1>2, <1>10, <1>12, <1>13 DEF Shown

(* A step that leaves the screen and what it is compared with alone. *)
LEMMA SameShown ==
    ASSUME Shown, UNCHANGED <<setup, queue, found, screen, resumed>>,
           pc' = "load" => pc = "load", pc' = "menu" => pc = "menu", InGame' => InGame /\ (pc' # "pause" => pc # "pause")
    PROVE  Shown'
<1>1. Ask(Now)' = Ask(Now)
  BY DEF Now, Ask
<1>2. InGame' => Coloured'
  BY <1>1 DEF Shown, Coloured, Wide, OldColours
<1>3. InGame' => Oriented'
  BY <1>1 DEF Shown, Oriented
<1> QED
  BY <1>2, <1>3 DEF Shown

LEMMA PauseShown == ASSUME SessionInv, Shown, Pause PROVE Shown'
<1>1. /\ InGame /\ pc' \in {"pause", "dead"} /\ screen \in ScreenType
      /\ UNCHANGED <<setup, queue, found, resumed>>
      /\ screen' = [screen EXCEPT !.turn = 0, !.mode = IF screen.rgb THEN 1 ELSE @]
  BY TypeParts DEF Pause, InGame, session, loop, SessionInv, Marks
<1>2. /\ screen'.rotation = screen.rotation /\ screen'.buffer = screen.buffer /\ screen'.rgb = screen.rgb
      /\ screen.rgb => screen'.mode = 1
      /\ ~screen.rgb => screen'.mode = screen.mode
  BY <1>1 DEF ScreenType
<1>3. Ask(Now)' = Ask(Now)
  BY <1>1 DEF Now, Ask
<1>4. Coloured'
  BY <1>1, <1>2, <1>3 DEF Shown, Coloured, Wide, OldColours
<1>5. pc' = "pause" => Oriented'
  BY <1>1, <1>2, <1>3 DEF Shown, Oriented
<1> QED
  BY <1>1, <1>2, <1>4, <1>5 DEF Shown, InGame

LEMMA ResumeShown == ASSUME SessionInv, Shown, Resume PROVE Shown'
<1>1. /\ InGame /\ pc' = "run" /\ screen \in ScreenType /\ screen.rotation \in {0, 1}
      /\ UNCHANGED <<setup, queue, found>> /\ resumed' = TRUE /\ screen' = Unpaused(screen.rotation)
  BY TypeParts DEF Resume, InGame, session, SessionInv, Marks, ScreenType
<1>2. /\ screen'.rotation = screen.rotation /\ screen'.buffer = screen.buffer /\ screen'.rgb = screen.rgb
      /\ screen'.turn = screen.rotation
      /\ screen'.mode = IF screen.rgb THEN 1 ELSE screen.mode
  BY <1>1, UnpausedScreen
<1>3. Ask(Now)' = Ask(Now)
  BY <1>1 DEF Now, Ask
<1>4. Coloured'
  BY <1>1, <1>2, <1>3 DEF Shown, Coloured, Wide, OldColours
<1>5. Oriented'
  BY <1>1, <1>2, <1>3 DEF Shown, Oriented
<1> QED
  BY <1>1, <1>2, <1>4, <1>5 DEF Shown, InGame

(* Back in the menu only the buffer is still of interest. *)
LEMMA MenuShown ==
    ASSUME NEW s, Menu(s), setup' = setup, (setup.soft /\ s.rotation # 0) => s.buffer
    PROVE  Shown'
  BY DEF Menu, Shown, InGame

LEMMA NextCoreShown ==
    ASSUME SessionInv, pc = "load", Shown, NEW s, NextCore(s), (setup.soft /\ s.rotation # 0) => s.buffer
    PROVE  Shown'
<1>1. CASE Menu(s)
  BY <1>1, MenuShown DEF NextCore
<1>2. CASE screen' = s /\ found' = Left(s) /\ UNCHANGED <<pc, resumed, setup>>
  BY <1>2 DEF Shown, InGame
<1> QED
  BY <1>1, <1>2 DEF NextCore, loop

(* Turning under soft_rotation needs, and gets, a buffer to turn in. *)
LEMMA EnvironmentBuffer ==
    ASSUME setup \in Setups, NEW c \in Cores, NEW s \in ScreenType, NEW e, e = Environment(c, s),
           (setup.soft /\ s.rotation # 0) => s.buffer
    PROVE  (setup.soft /\ e.rotation # 0) => e.buffer
<1>1. AsAsked(c, s, e)
  BY EnvironmentAsked
<1>2. Ask(c).turn \in {Unasked, 0, 1}
  BY SetupTypes DEF AskType
<1>3. CASE Ask(c).turn = Unasked
  BY <1>1, <1>3 DEF AsAsked
<1>4. CASE Ask(c).turn = 0
  BY <1>1, <1>4 DEF AsAsked, Unasked
<1>5. CASE Ask(c).turn = 1
  BY <1>1, <1>5 DEF AsAsked, Unasked
<1> QED
  BY <1>2, <1>3, <1>4, <1>5

LEMMA LoadShown == ASSUME SessionInv, Shown, LoadFails \/ Refused \/ NoRegion PROVE Shown'
<1>1. /\ pc = "load" /\ Now \in Cores /\ screen \in ScreenType /\ setup \in Setups
      /\ (setup.soft /\ screen.rotation # 0) => screen.buffer
  BY NowCore, TypeParts DEF SessionInv, LoadFails, Refused, NoRegion, Active, Where, Marks, Shown
<1> HIDE DEF Now
<1>2. CASE LoadFails
  BY <1>1, <1>2, NextCoreShown DEF LoadFails
<1>3. CASE Refused
  <2>1. PICK s \in {screen, Environment(Now, screen)} :
            NextCore(IF loader = "core" THEN [s EXCEPT !.mode = 0] ELSE s)
    BY <1>3 DEF Refused
  <2>2. s \in ScreenType /\ ((setup.soft /\ s.rotation # 0) => s.buffer)
    BY <1>1, <2>1, EnvironmentScreen, EnvironmentBuffer
  <2>3. [s EXCEPT !.mode = 0].rotation = s.rotation /\ [s EXCEPT !.mode = 0].buffer = s.buffer
    BY <2>2 DEF ScreenType
  <2> QED
    BY <1>1, <2>1, <2>2, <2>3, NextCoreShown
<1>4. CASE NoRegion
  <2>1. Menu(Restored(Environment(Now, screen))) /\ setup' = setup
    BY <1>4 DEF NoRegion, session
  <2>2. PICK e \in ScreenType : e = Environment(Now, screen)
    BY <1>1, EnvironmentScreen
  <2>3. (setup.soft /\ e.rotation # 0) => e.buffer
    BY <1>1, <2>2, EnvironmentBuffer
  <2>4. (setup.soft /\ Restored(e).rotation # 0) => Restored(e).buffer
    BY <2>3, RestoredScreen
  <2> QED
    BY <2>1, <2>2, <2>4, MenuShown
<1> QED
  BY <1>2, <1>3, <1>4

LEMMA LeaveShown == ASSUME SessionInv, Shown, Quit \/ KeyOff PROVE Shown'
<1>1. screen \in ScreenType /\ ((setup.soft /\ screen.rotation # 0) => screen.buffer)
  BY TypeParts DEF SessionInv, Marks, Shown
<1>2. PICK s \in ScreenType :
        s.rotation = screen.rotation /\ s.buffer = screen.buffer /\ \E f : Close(s, f)
  BY <1>1, UnpausedScreen DEF Quit, KeyOff
<1>3. (setup.soft /\ Restored(s).rotation # 0) => Restored(s).buffer
  BY <1>1, <1>2, RestoredScreen
<1> QED
  BY <1>2, <1>3, MenuShown DEF Close, session

LEMMA ShownStep == ASSUME SessionInv, Shown, [Next]_vars PROVE Shown'
<1>1. CASE UNCHANGED vars
  BY <1>1, SameShown DEF vars, session, loop, InGame
<1>2. ASSUME NEW g \in Games, Start(g) \/ StartChosen(g) PROVE Shown'
  <2>1. /\ pc' \in {"menu", "load", "dead"} /\ UNCHANGED <<setup, screen, resumed>>
        /\ found' = Left(screen) /\ pc = "menu"
    BY <1>2 DEF Start, StartChosen, Begin, loop
  <2>2. ~resumed
    BY <2>1 DEF Shown
  <2> QED
    BY <2>1, <2>2 DEF Shown, InGame
<1>3. CASE Frame \/ FirstDone
  BY <1>3, SameShown DEF Frame, FirstDone, session, InGame
<1> QED
  BY <1>1, <1>2, <1>3, LoadedShown, PauseShown, ResumeShown, LoadShown, LeaveShown DEF Next

LEMMA ScreenOfGame == ASSUME SessionInv, Shown PROVE GameScreen
<1> DEFINE ask == Ask(Now)
<1> SUFFICES ASSUME pc \in {"top", "run", "begin"}
             PROVE  /\ (ask.format = "unset" /\ found.rgb) \/ screen.rgb = (ask.format = "8888")
                    /\ found.mode \/ (ask.format = "unset" /\ found.rgb)
                       \/ screen.mode = (IF ask.format = "8888" THEN 1 ELSE 0)
                    /\ \/ found.turn /\ (ask.turn = Unasked \/ setup.soft)
                       \/ found.rotation /\ ask.turn = Unasked
                       \/ resumed /\ setup.soft /\ screen.rotation # 0
                       \/ (IF setup.soft THEN screen.rotation ELSE 0) + screen.turn
                           = (IF ask.turn = 1 THEN 1 ELSE 0)
                    /\ (setup.soft /\ screen.rotation # 0) => screen.buffer
  BY DEF GameScreen
<1>1. Coloured /\ Oriented /\ ((setup.soft /\ screen.rotation # 0) => screen.buffer)
  BY DEF Shown, InGame
<1>2. /\ ask.turn \in {Unasked, 0, 1} /\ setup.soft \in BOOLEAN
      /\ screen.rgb \in BOOLEAN /\ screen.turn \in {0, 1} /\ screen.rotation \in {0, 1}
  <2>1. Now \in Cores /\ setup \in Setups /\ screen \in ScreenType
    BY NowCore, TypeParts DEF SessionInv, Active, InGame, Where, Marks
  <2>2. ask \in AskType
    BY <2>1, SetupTypes
  <2> QED
    BY <2>1, <2>2, SetupTypes DEF AskType, ScreenType
<1>3. (ask.format = "unset" /\ found.rgb) \/ (screen.rgb <=> ask.format = "8888")
  BY <1>1 DEF Coloured, OldColours, Wide
<1>4. (ask.format = "unset" /\ found.rgb) \/ screen.rgb = (ask.format = "8888")
  BY <1>2, <1>3, Zenon
<1>5. found.mode \/ (ask.format = "unset" /\ found.rgb)
      \/ screen.mode = (IF ask.format = "8888" THEN 1 ELSE 0)
  BY <1>1 DEF Coloured, OldColours, Wide
<1>6. \/ found.turn /\ (ask.turn = Unasked \/ setup.soft)
      \/ found.rotation /\ ask.turn = Unasked
      \/ resumed /\ setup.soft /\ screen.rotation # 0
      \/ (IF setup.soft THEN screen.rotation ELSE 0) + screen.turn = (IF ask.turn = 1 THEN 1 ELSE 0)
  <2>1. /\ (ask.turn = Unasked /\ screen.rotation # 0) => found.rotation
        /\ ask.turn # Unasked => screen.rotation = ask.turn
        /\ resumed => screen.turn = screen.rotation
        /\ (~resumed /\ (ask.turn = Unasked \/ (setup.soft /\ ask.turn = 1)) /\ screen.turn # 0)
              => found.turn
        /\ (~resumed /\ ask.turn # Unasked /\ ~(setup.soft /\ ask.turn = 1)) => screen.turn = ask.turn
    BY <1>1 DEF Oriented
  <2> HIDE DEF ask
  <2>2. CASE ask.turn = Unasked
    BY <1>2, <2>1, <2>2 DEF Unasked
  <2>3. CASE ask.turn = 0
    BY <1>2, <2>1, <2>3 DEF Unasked
  <2>4. CASE ask.turn = 1
    BY <1>2, <2>1, <2>4 DEF Unasked
  <2> QED
    BY <1>2, <2>2, <2>3, <2>4
<1> QED
  BY <1>1, <1>4, <1>5, <1>6

LEMMA MenuScreenStep == ASSUME SessionInv, Shown, MenuScreen, [Next]_vars PROVE MenuScreen'
<1> DEFINE Upright == screen.turn = 0 \/ loader = "gpsp" \/ found.turn \/ refused
           Plain == screen.mode = 0 \/ loader \in {"fba", "gpsp"} \/ found.mode
<1> SUFFICES ASSUME pc' = "menu" PROVE Upright' /\ Plain'
  BY DEF MenuScreen
<1>1. CASE UNCHANGED vars
  BY <1>1 DEF vars, session, MenuScreen
<1>2. screen \in ScreenType /\ loader \in Loaders \cup {"crash", None}
  BY TypeParts DEF SessionInv, Where, Marks
<1>3. /\ screen.turn # 0 => Left(screen).turn
      /\ screen.mode # 0 => Left(screen).mode
  BY <1>2, LeftOf
<1>4. ASSUME NEW g \in Games, Start(g) \/ StartChosen(g) PROVE Upright' /\ Plain'
  <2>1. UNCHANGED screen /\ found' = Left(screen)
    BY <1>4 DEF Start, StartChosen, Begin
  <2> QED
    BY <1>3, <2>1
<1>5. ASSUME pc = "load" PROVE loader \in Loaders /\ setup \in Setups /\ Now \in Cores /\ found = Left(screen)
  BY <1>5, NowCore, TypeParts DEF SessionInv, Active, Queues, Where, Shown
<1>6. CASE LoadFails
  <2>1. pc = "load" /\ UNCHANGED found /\ screen' = screen
    BY <1>6 DEF LoadFails, NextCore, Menu
  <2> QED
    BY <1>3, <1>5, <2>1
<1>7. CASE Refused
  <2>1. pc = "load" /\ refused' = TRUE /\ UNCHANGED <<found, loader>>
    BY <1>7 DEF Refused, NextCore
  <2>2. PICK s \in {screen, Environment(Now, screen)} :
            screen' = IF loader = "core" THEN [s EXCEPT !.mode = 0] ELSE s
    BY <1>7, <2>1 DEF Refused, NextCore, Menu
  <2>3. s \in ScreenType
    BY <1>2, <1>5, <2>1, <2>2, EnvironmentScreen
  <2>4. [s EXCEPT !.mode = 0].mode = 0
    BY <2>3 DEF ScreenType
  <2> QED
    BY <1>5, <2>1, <2>2, <2>4 DEF Loaders
<1>8. ASSUME NEW s \in ScreenType, screen' = Restored(s), loader' = loader, loader \in Loaders
      PROVE  Upright' /\ Plain'
  BY <1>8, RestoredScreen DEF Loaders
<1>9. CASE NoRegion
  <2>1. pc = "load" /\ screen' = Restored(Environment(Now, screen)) /\ loader' = loader
    BY <1>9 DEF NoRegion, Menu, session
  <2>2. Environment(Now, screen) \in ScreenType
    BY <1>2, <1>5, <2>1, EnvironmentScreen
  <2> QED
    BY <1>5, <1>8, <2>1, <2>2
<1>10. CASE Quit \/ KeyOff
  <2>1. PICK s \in ScreenType : \E f : Close(s, f)
    BY <1>2, <1>10, UnpausedScreen DEF Quit, KeyOff
  <2>2. screen' = Restored(s) /\ loader' = loader
    BY <2>1 DEF Close, Menu, session
  <2>3. loader \in Loaders
    BY <1>10 DEF Quit, KeyOff, SessionInv, Queues, Active, InGame
  <2> QED
    BY <1>8, <2>2, <2>3
<1>11. CASE Loaded \/ Frame \/ FirstDone \/ Pause \/ Resume
  <2>1. pc' # "menu"
    BY <1>11 DEF Loaded, Frame, FirstDone, Pause, Resume
  <2> QED
    BY <2>1
<1> QED
  BY <1>1, <1>4, <1>6, <1>7, <1>9, <1>10, <1>11 DEF Next

(* What one core, or the pause menu, makes of the screen is not seen by    *)
(* the next game or the menu, but in the cases that the property names.    *)
THEOREM SessionScreen == Spec => []ScreenAsAsked
<1>1. Init => Shown /\ MenuScreen
  BY DEF Init, Boot, Shown, MenuScreen, InGame, Neutral
<1>2. SessionInv /\ Shown /\ MenuScreen => ScreenAsAsked
  BY ScreenOfGame DEF ScreenAsAsked
<1> QED
  BY <1>1, <1>2, ShownStep, MenuScreenStep, SessionInductive, PTL DEF Spec
=============================================================================
