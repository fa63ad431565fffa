----------------------------- MODULE MenuProofs -----------------------------
(***************************************************************************)
(* The menus' two worker threads, for any tours of the pages, any number   *)
(* of thumbnail threads, games and rounds between pictures: the types, the *)
(* stops of main (StoppedMeansGone) and its waits for the painter          *)
(* (NoForeignPaint).                                                       *)
(***************************************************************************)
EXTENDS MenuThreads, FiniteSetTheorems, TLAPS

(* Why main stops: "boot" only before the first page, "select" only on its *)
(* way to SeletEmuCore.  A selection moves on pages with pictures, a       *)
(* window opens on pages with windows.                                     *)
Reasons ==
    /\ why = "boot" => pcM \in {"startSound", "startThumb", "createThumb"}
    /\ why = "select" =>
         page # "setting" /\ pcM \in {"stopLoad", "stopStore", "waitThumb"}
    /\ pcM \in {"move", "scroll"} => page \in Pictures /\ ~empty
    /\ pcM \in {"popStore", "popup", "popOffStore"} => page \in Windows

FlagTypes == /\ flag \subseteq Bits /\ mreg \subseteq Bits /\ sflag \subseteq {"run", "play"}
             /\ reg \in [Threads -> SUBSET Bits]
MainTypes ==
    /\ pcM \in {"startSound", "startThumb", "createThumb", "enter", "mark",
                "list", "loop", "move", "scroll", "popStore", "popup", "popOffStore",
                "stopSound", "waitSound", "stopLoad", "stopStore",
                "waitThumb", "select", "game"}
    /\ tour \in Tours /\ page \in tour.pages /\ empty \in BOOLEAN /\ sel \in tour.games
    /\ why \in {"boot", "select", "game"}
FaultTypes == faults \in 0 .. tour.faults
ThreadTypes ==
    /\ pcT \in [Threads -> {"none", "head", "busy", "decode", "look", "find", "miss",
                            "paint", "clear", "last"}]
    /\ doing \in [Threads -> SUBSET (Selections \union {Blank})]
    /\ pcS \in {"none", "loop", "last"}
    /\ painted \in Selections \union {Blank}
SlideTypes == want \in [Threads -> Nat] /\ frame \in Nat /\ noThumb \in Nat
CountTypes == count \in [Threads -> 0 .. Period - 1]
HistTypes == /\ stale \subseteq Threads
             /\ lost \in BOOLEAN /\ hidden \in BOOLEAN /\ hasty \in BOOLEAN
             /\ orphan \in BOOLEAN

LEMMA TypeParts ==
    TypeOK <=> /\ FlagTypes /\ MainTypes /\ FaultTypes
               /\ ThreadTypes /\ SlideTypes /\ CountTypes /\ HistTypes
  BY Zenon DEF TypeOK, FlagTypes, MainTypes, FaultTypes, ThreadTypes, SlideTypes,
         CountTypes, HistTypes

LEMMA TypeNext ==
    TypeOK' <=> /\ FlagTypes' /\ MainTypes' /\ FaultTypes'
                /\ ThreadTypes' /\ SlideTypes' /\ CountTypes' /\ HistTypes'
  BY Zenon DEF TypeOK, FlagTypes, MainTypes, FaultTypes, ThreadTypes, SlideTypes,
         CountTypes, HistTypes

(* What main does with DisplayThumbnailflag: leave it, set it, load it and *)
(* later write it back.                                                    *)
Moves == \/ StartSound \/ Enter \/ MoveSel \/ Scroll \/ Leave \/ Select \/ RunGame
         \/ Cancel \/ Choose \/ StopSound \/ WaitSound \/ EndGame
Sets == StartThumb \/ Mark \/ List \/ Move \/ ScrollFlag \/ VideoSetting
Loads == PopLoad \/ PopOffLoad \/ StopLoad
WriteBacks == PopStore \/ PopOffStore \/ StopStore
Rests == Sleep \/ Sound \/ UNCHANGED vars

LEMMA Fewer == ASSUME TypeOK PROVE /\ faults > 0 => faults - 1 \in 0 .. tour.faults
                                   /\ tour.threads \in Nat /\ Cardinality(Threads) \in Nat
                                   /\ tour.threads <= Cardinality(Threads)
<1>1. tour.faults \in Nat /\ tour.threads \in 1 .. Cardinality(Threads)
  BY TypeParts, TourAssumption DEF MainTypes
<1>2. Cardinality(Threads) \in Nat
  BY TourAssumption, FS_CardinalityType
<1> QED
  BY <1>1, <1>2, TypeParts DEF FaultTypes

LEMMA Rounds == /\ \A n \in 0 .. Period - 1 : (n + 1) % Period \in 0 .. Period - 1
                /\ 1 % Period \in 0 .. Period - 1 /\ 0 \in 0 .. Period - 1
<1>1. Period \in Nat /\ Period > 0
  BY SizeAssumption
<1>2. \A n \in Nat : n % Period \in 0 .. Period - 1
  BY <1>1
<1> QED
  BY <1>1, <1>2

LEMMA Steps ==
    [Next]_vars => \/ Moves \/ Sets \/ Loads \/ WriteBacks \/ CreateThumb \/ WaitThumb \/ Rests
                   \/ \E t \in Threads : Thread(t)
  BY Zenon DEF Next, User, Program, Moves, Sets, Loads, WriteBacks, Rests

LEMMA FlagTypesStep == ASSUME TypeOK, [Next]_vars PROVE FlagTypes'
<1> USE TypeParts
<1>1. CASE Moves
  BY <1>1 DEF FlagTypes, Bits, Moves, StartSound, Enter, MoveSel, Scroll, Leave,
         Select, RunGame, Cancel, Choose, StopSound, WaitSound, EndGame, MayLaunch,
         Goto, Back, vars, svars, mvars, tvars, slides, hist
<1>2. CASE Sets
  BY <1>2 DEF FlagTypes, Bits, Sets, StartThumb, Mark, List, Move, ScrollFlag,
         VideoSetting, Set, Goto, vars, svars, mvars, tvars, slides, hist
<1>3. CASE Loads
  BY <1>3 DEF FlagTypes, Bits, Loads, PopLoad, PopOffLoad, StopLoad, Goto, vars,
         svars, mvars, tvars, slides, hist
<1>4. CASE WriteBacks
  BY <1>4 DEF FlagTypes, Bits, WriteBacks, PopStore, PopOffStore, StopStore,
         WriteBack, Goto, vars, svars, mvars, tvars, slides, hist
<1>5. CASE CreateThumb
  BY <1>5 DEF FlagTypes, Bits, CreateThumb, Goto, Back, vars, svars, mvars, tvars,
         slides, hist
<1>6. CASE WaitThumb
  BY <1>6 DEF FlagTypes, Bits, WaitThumb, Goto, vars, svars, mvars, tvars, slides,
         hist
<1>7. CASE Rests
  BY <1>7 DEF FlagTypes, Bits, Rests, Sleep, Sound, SoundStops, SoundLast, vars,
         svars, mvars, tvars, slides, hist
<1>8. ASSUME NEW t \in Threads, Thread(t) PROVE FlagTypes'
  BY <1>8 DEF FlagTypes, Bits, Thread, Head, Busy, Display, Decode, Look, Find,
         Miss, Paint, Clear, Last, Step, Store, Round, vars, svars, mvars, tvars,
         slides, hist
<1> QED
  BY <1>1, <1>2, <1>3, <1>4, <1>5, <1>6, <1>7, <1>8, Steps

LEMMA MainTypesStep == ASSUME TypeOK, Reasons, [Next]_vars PROVE MainTypes' /\ Reasons'
<1> USE TypeParts
<1>1. CASE Moves
  <2>1. CASE StartSound
    BY <2>1 DEF MainTypes, Reasons, Pictures, Windows, StartSound, Goto
  <2>2. CASE Enter
    BY <2>2 DEF MainTypes, Reasons, Pictures, Windows, Enter, Goto
  <2>3. CASE MoveSel
    BY <2>3 DEF MainTypes, Reasons, Pictures, Windows, MoveSel, Goto
  <2>4. CASE Scroll
    BY <2>4 DEF MainTypes, Reasons, Pictures, Windows, Scroll, Goto
  <2>5. CASE Leave
    BY <2>5 DEF MainTypes, Reasons, Pictures, Windows, Leave, Goto
  <2>6. CASE Select
    BY <2>6 DEF MainTypes, Reasons, Pictures, Windows, Select, MayLaunch, Goto
  <2>7. CASE RunGame
    BY <2>7 DEF MainTypes, Reasons, Pictures, Windows, RunGame, MayLaunch, Goto
  <2>8. CASE Cancel
    BY <2>8 DEF MainTypes, Reasons, Pictures, Windows, Cancel, Back, Goto
  <2>9. CASE Choose
    BY <2>9 DEF MainTypes, Reasons, Pictures, Windows, Choose, Back, Goto
  <2>10. CASE StopSound
    BY <2>10 DEF MainTypes, Reasons, Pictures, Windows, StopSound, Goto
  <2>11. CASE WaitSound
    BY <2>11 DEF MainTypes, Reasons, Pictures, Windows, WaitSound, Goto
  <2>12. CASE EndGame
    BY <2>12 DEF MainTypes, Reasons, Pictures, Windows, EndGame, Goto
  <2> QED
    BY <1>1, <2>1, <2>2, <2>3, <2>4, <2>5, <2>6, <2>7, <2>8, <2>9, <2>10, <2>11,
       <2>12 DEF Moves
<1>2. CASE Sets
  <2>1. CASE StartThumb
    BY <2>1 DEF MainTypes, Reasons, Pictures, Windows, StartThumb, Goto
  <2>2. CASE Mark
    BY <2>2 DEF MainTypes, Reasons, Pictures, Windows, Mark, Goto
  <2>3. CASE List
    BY <2>3 DEF MainTypes, Reasons, Pictures, Windows, List, Goto
  <2>4. CASE Move
    BY <2>4 DEF MainTypes, Reasons, Pictures, Windows, Move, Goto
  <2>6. CASE ScrollFlag
    BY <2>6 DEF MainTypes, Reasons, Pictures, Windows, ScrollFlag, Goto
  <2>5. CASE VideoSetting
    BY <2>5 DEF MainTypes, Reasons, Pictures, Windows, VideoSetting, mvars
  <2> QED
    BY <1>2, <2>1, <2>2, <2>3, <2>4, <2>5, <2>6 DEF Sets
<1>3. CASE Loads
  BY <1>3 DEF MainTypes, Reasons, Pictures, Windows, Loads, PopLoad, PopOffLoad,
         StopLoad, Goto, vars, svars, mvars, tvars, slides, hist
<1>4. CASE WriteBacks
  BY <1>4 DEF MainTypes, Reasons, Pictures, Windows, WriteBacks, PopStore,
         PopOffStore, StopStore, WriteBack, Goto, vars, svars, mvars, tvars, slides,
         hist
<1>5. CASE CreateThumb
  BY <1>5 DEF MainTypes, Reasons, Pictures, Windows, CreateThumb, Goto, Back, vars,
         svars, mvars, tvars, slides, hist
<1>6. CASE WaitThumb
  BY <1>6 DEF MainTypes, Reasons, Pictures, Windows, WaitThumb, Goto, vars, svars,
         mvars, tvars, slides, hist
<1>7. CASE Rests
  BY <1>7 DEF MainTypes, Reasons, Pictures, Windows, Rests, Sleep, Sound,
         SoundStops, SoundLast, vars, svars, mvars, tvars, slides, hist
<1>8. ASSUME NEW t \in Threads, Thread(t) PROVE MainTypes' /\ Reasons'
  BY <1>8 DEF MainTypes, Reasons, Pictures, Windows, Thread, Head, Busy, Display,
         Decode, Look, Find, Miss, Paint, Clear, Last, Step, Store, Round, vars,
         svars, mvars, tvars, slides, hist
<1> QED
  BY <1>1, <1>2, <1>3, <1>4, <1>5, <1>6, <1>7, <1>8, Steps

LEMMA FaultTypesStep == ASSUME TypeOK, [Next]_vars PROVE FaultTypes'
<1> USE TypeParts, Fewer
<1>1. CASE Moves
  BY <1>1 DEF FaultTypes, MainTypes, Moves, StartSound, Enter, MoveSel, Scroll,
         Leave, Select, RunGame, Cancel, Choose, StopSound, WaitSound, EndGame,
         MayLaunch, Goto, Back, vars, svars, mvars, tvars, slides, hist
<1>2. CASE Sets
  BY <1>2 DEF FaultTypes, MainTypes, Sets, StartThumb, Mark, List, Move, ScrollFlag,
         VideoSetting, Set, Goto, vars, svars, mvars, tvars, slides, hist
<1>3. CASE Loads
  BY <1>3 DEF FaultTypes, MainTypes, Loads, PopLoad, PopOffLoad, StopLoad, Goto,
         vars, svars, mvars, tvars, slides, hist
<1>4. CASE WriteBacks
  BY <1>4 DEF FaultTypes, MainTypes, WriteBacks, PopStore, PopOffStore, StopStore,
         WriteBack, Goto, vars, svars, mvars, tvars, slides, hist
<1>5. CASE CreateThumb
  BY <1>5 DEF FaultTypes, MainTypes, CreateThumb, Goto, Back, vars, svars, mvars,
         tvars, slides, hist
<1>6. CASE WaitThumb
  BY <1>6 DEF FaultTypes, MainTypes, WaitThumb, Goto, vars, svars, mvars, tvars,
         slides, hist
<1>7. CASE Rests
  BY <1>7 DEF FaultTypes, MainTypes, Rests, Sleep, Sound, SoundStops, SoundLast,
         vars, svars, mvars, tvars, slides, hist
<1>8. ASSUME NEW t \in Threads, Thread(t) PROVE FaultTypes'
  BY <1>8 DEF FaultTypes, MainTypes, Thread, Head, Busy, Display, Decode, Look,
         Find, Miss, Paint, Clear, Last, Step, Store, Round, vars, svars, mvars,
         tvars, slides, hist
<1> QED
  BY <1>1, <1>2, <1>3, <1>4, <1>5, <1>6, <1>7, <1>8, Steps

LEMMA ThreadTypesStep == ASSUME TypeOK, [Next]_vars PROVE ThreadTypes'
<1> USE TypeParts
<1>1. CASE Moves
  BY <1>1 DEF ThreadTypes, MainTypes, Moves, StartSound, Enter, MoveSel, Scroll,
         Leave, Select, RunGame, Cancel, Choose, StopSound, WaitSound, EndGame,
         MayLaunch, Goto, Back, vars, svars, mvars, tvars, slides, hist
<1>2. CASE Sets
  BY <1>2 DEF ThreadTypes, MainTypes, Sets, StartThumb, Mark, List, Move,
         ScrollFlag, VideoSetting, Set, Goto, vars, svars, mvars, tvars, slides,
         hist
<1>3. CASE Loads
  BY <1>3 DEF ThreadTypes, MainTypes, Loads, PopLoad, PopOffLoad, StopLoad, Goto,
         vars, svars, mvars, tvars, slides, hist
<1>4. CASE WriteBacks
  BY <1>4 DEF ThreadTypes, MainTypes, WriteBacks, PopStore, PopOffStore, StopStore,
         WriteBack, Goto, vars, svars, mvars, tvars, slides, hist
<1>5. CASE CreateThumb
  BY <1>5 DEF ThreadTypes, MainTypes, CreateThumb, Goto, Back, vars, svars, mvars,
         tvars, slides, hist
<1>6. CASE WaitThumb
  BY <1>6 DEF ThreadTypes, MainTypes, WaitThumb, Goto, vars, svars, mvars, tvars,
         slides, hist
<1>7. CASE Rests
  BY <1>7 DEF ThreadTypes, MainTypes, Rests, Sleep, Sound, SoundStops, SoundLast,
         vars, svars, mvars, tvars, slides, hist
<1>8. ASSUME NEW t \in Threads, Thread(t) PROVE ThreadTypes'
  <2>1. CASE Head(t)
    BY <2>1 DEF ThreadTypes, MainTypes, Head, Step, Store, svars, mvars, hist
  <2>2. CASE Busy(t)
    BY <2>2 DEF ThreadTypes, MainTypes, Busy, Step, Store, svars, mvars, hist
  <2>3. CASE Decode(t)
    BY <2>3 DEF ThreadTypes, MainTypes, Decode, Step, Store, svars, mvars, hist
  <2>4. CASE Look(t)
    BY <2>4, TourAssumption DEF ThreadTypes, MainTypes, Look, Step, Store, svars,
           mvars, hist
  <2>5. CASE Find(t)
    BY <2>5 DEF ThreadTypes, MainTypes, Find, Step, Store, svars, mvars, hist
  <2>6. CASE Miss(t)
    BY <2>6 DEF ThreadTypes, MainTypes, Miss, Step, Store, svars, mvars, hist
  <2>7. CASE Paint(t)
    BY <2>7 DEF ThreadTypes, MainTypes, Paint, Step, Store, svars, mvars, hist
  <2>8. CASE Clear(t)
    BY <2>8 DEF ThreadTypes, MainTypes, Clear, Step, Store, svars, mvars, hist
  <2>9. CASE Last(t)
    BY <2>9 DEF ThreadTypes, MainTypes, Last, Step, Store, svars, mvars, hist
  <2> QED
    BY <1>8, <2>1, <2>2, <2>3, <2>4, <2>5, <2>6, <2>7, <2>8, <2>9 DEF Thread,
           Display
<1> QED
  BY <1>1, <1>2, <1>3, <1>4, <1>5, <1>6, <1>7, <1>8, Steps

LEMMA CountTypesStep == ASSUME TypeOK, [Next]_vars PROVE CountTypes'
<1> USE TypeParts, Rounds
<1>1. CASE Moves
  BY <1>1 DEF CountTypes, ThreadTypes, Moves, StartSound, Enter, MoveSel, Scroll,
         Leave, Select, RunGame, Cancel, Choose, StopSound, WaitSound, EndGame,
         MayLaunch, Goto, Back, vars, svars, mvars, tvars, slides, hist
<1>2. CASE Sets
  BY <1>2 DEF CountTypes, ThreadTypes, Sets, StartThumb, Mark, List, Move,
         ScrollFlag, VideoSetting, Set, Goto, vars, svars, mvars, tvars, slides,
         hist
<1>3. CASE Loads
  BY <1>3 DEF CountTypes, ThreadTypes, Loads, PopLoad, PopOffLoad, StopLoad, Goto,
         vars, svars, mvars, tvars, slides, hist
<1>4. CASE WriteBacks
  BY <1>4 DEF CountTypes, ThreadTypes, WriteBacks, PopStore, PopOffStore, StopStore,
         WriteBack, Goto, vars, svars, mvars, tvars, slides, hist
<1>5. CASE CreateThumb
  BY <1>5 DEF CountTypes, ThreadTypes, CreateThumb, Goto, Back, vars, svars, mvars,
         tvars, slides, hist
<1>6. CASE WaitThumb
  BY <1>6 DEF CountTypes, ThreadTypes, WaitThumb, Goto, vars, svars, mvars, tvars,
         slides, hist
<1>7. CASE Rests
  BY <1>7 DEF CountTypes, ThreadTypes, Rests, Sleep, Sound, SoundStops, SoundLast,
         vars, svars, mvars, tvars, slides, hist
<1>8. ASSUME NEW t \in Threads, Thread(t) PROVE CountTypes'
  BY <1>8 DEF CountTypes, ThreadTypes, Thread, Head, Busy, Display, Decode, Look,
         Find, Miss, Paint, Clear, Last, Step, Store, Round, vars, svars, mvars,
         tvars, slides, hist
<1> QED
  BY <1>1, <1>2, <1>3, <1>4, <1>5, <1>6, <1>7, <1>8, Steps

LEMMA SlideTypesStep == ASSUME TypeOK, [Next]_vars PROVE SlideTypes'
<1> USE TypeParts
<1>1. CASE Moves
  BY <1>1 DEF SlideTypes, ThreadTypes, Moves, StartSound, Enter, MoveSel, Scroll,
         Leave, Select, RunGame, Cancel, Choose, StopSound, WaitSound, EndGame,
         MayLaunch, Goto, Back, vars, svars, mvars, tvars, slides, hist
<1>2. CASE Sets
  <2>1. CASE ScrollFlag
    BY <2>1 DEF SlideTypes, ScrollFlag
  <2>2. CASE StartThumb \/ Mark \/ List \/ Move \/ VideoSetting
    BY <2>2 DEF SlideTypes, StartThumb, Mark, List, Move, VideoSetting, tvars,
           slides
  <2> QED
    BY <1>2, <2>1, <2>2 DEF Sets
<1>3. CASE Loads
  BY <1>3 DEF SlideTypes, ThreadTypes, Loads, PopLoad, PopOffLoad, StopLoad, Goto,
         vars, svars, mvars, tvars, slides, hist
<1>4. CASE WriteBacks
  BY <1>4 DEF SlideTypes, ThreadTypes, WriteBacks, PopStore, PopOffStore, StopStore,
         WriteBack, Goto, vars, svars, mvars, tvars, slides, hist
<1>5. CASE CreateThumb
  BY <1>5 DEF SlideTypes, ThreadTypes, CreateThumb, Goto, Back, vars, svars, mvars,
         tvars, slides, hist
<1>6. CASE WaitThumb
  BY <1>6 DEF SlideTypes, ThreadTypes, WaitThumb, Goto, vars, svars, mvars, tvars,
         slides, hist
<1>7. CASE Rests
  BY <1>7 DEF SlideTypes, ThreadTypes, Rests, Sleep, Sound, SoundStops, SoundLast,
         vars, svars, mvars, tvars, slides, hist
<1>8. ASSUME NEW t \in Threads, Thread(t) PROVE SlideTypes'
  BY <1>8 DEF SlideTypes, ThreadTypes, Thread, Head, Busy, Display, Decode, Look,
         Find, Miss, Paint, Clear, Last, Step, Store, Round, vars, svars, mvars,
         tvars, slides, hist
<1> QED
  BY <1>1, <1>2, <1>3, <1>4, <1>5, <1>6, <1>7, <1>8, Steps

LEMMA HistTypesStep == ASSUME TypeOK, [Next]_vars PROVE HistTypes'
<1> USE TypeParts
<1>1. CASE Moves
  BY <1>1 DEF HistTypes, ThreadTypes, Moves, StartSound, Enter, MoveSel, Scroll,
         Leave, Select, RunGame, Cancel, Choose, StopSound, WaitSound, EndGame,
         MayLaunch, Goto, Back, vars, svars, mvars, tvars, slides, hist
<1>2. CASE Sets
  BY <1>2 DEF HistTypes, Pending, Painting, Alive, ThreadTypes, Sets, StartThumb,
         Mark, List, Move, ScrollFlag, VideoSetting, Set, Goto, vars, svars, mvars,
         tvars, slides, hist
<1>3. CASE Loads
  BY <1>3 DEF HistTypes, Alive, ThreadTypes, Loads, PopLoad, PopOffLoad, StopLoad,
         Goto, vars, svars, mvars, tvars, slides, hist
<1>4. CASE WriteBacks
  BY <1>4 DEF HistTypes, Pending, Painting, Alive, ThreadTypes, WriteBacks,
         PopStore, PopOffStore, StopStore, WriteBack, Goto, vars, svars, mvars,
         tvars, slides, hist
<1>5. CASE CreateThumb
  BY <1>5 DEF HistTypes, Alive, ThreadTypes, CreateThumb, Goto, Back, vars, svars,
         mvars, tvars, slides, hist
<1>6. CASE WaitThumb
  BY <1>6 DEF HistTypes, ThreadTypes, WaitThumb, Goto, vars, svars, mvars, tvars,
         slides, hist
<1>7. CASE Rests
  BY <1>7 DEF HistTypes, ThreadTypes, Rests, Sleep, Sound, SoundStops, SoundLast,
         vars, svars, mvars, tvars, slides, hist
<1>8. ASSUME NEW t \in Threads, Thread(t) PROVE HistTypes'
  BY <1>8 DEF HistTypes, Painting, Alive, ThreadTypes, Thread, Head, Busy, Display,
         Decode, Look, Find, Miss, Paint, Clear, Last, Step, Store, Round, vars,
         svars, mvars, tvars, slides, hist
<1> QED
  BY <1>1, <1>2, <1>3, <1>4, <1>5, <1>6, <1>7, <1>8, Steps

LEMMA TypedStep == ASSUME TypeOK, Reasons, [Next]_vars PROVE TypeOK' /\ Reasons'
  BY FlagTypesStep, MainTypesStep, FaultTypesStep, ThreadTypesStep, SlideTypesStep,
     CountTypesStep, HistTypesStep, TypeNext

LEMMA TypedInit == Init => TypeOK /\ Reasons
<1> SUFFICES ASSUME Init PROVE TypeOK /\ Reasons
  OBVIOUS
<1>1. tour.faults \in Nat
  BY TourAssumption DEF Init
<1>2. FaultTypes /\ CountTypes
  BY <1>1, Rounds DEF Init, FaultTypes, CountTypes
<1>3. FlagTypes /\ MainTypes /\ ThreadTypes /\ HistTypes /\ Reasons
  BY DEF Init, FlagTypes, MainTypes, ThreadTypes, HistTypes, Reasons
<1>4. SlideTypes
  BY DEF Init, SlideTypes
<1> QED
  BY <1>2, <1>3, <1>4, TypeParts

(* The flags hold sets of their bits, the threads are where their code     *)
(* has a step, and no round is counted past Period.                        *)
THEOREM MenuTypeOK == Spec => []TypeOK
  BY TypedInit, TypedStep, PTL DEF Spec

-----------------------------------------------------------------------------
(* Two threads alive at a time, and the Cardinality by which lost tells.   *)
One == \A t, u \in Alive : t = u

LEMMA Counting == /\ Cardinality(Alive) \in Nat
                  /\ Cardinality(Alive) > 0 <=> Alive # {}
                  /\ Cardinality(Alive) <= 1 <=> One
<1>1. IsFiniteSet(Alive)
  BY TourAssumption, FS_Subset DEF Alive
<1>2. CASE Alive = {}
  BY <1>2, FS_EmptySet DEF One
<1>3. CASE Alive # {}
  <2>1. PICK t : t \in Alive
    BY <1>3
  <2>2. One => Alive = {t}
    BY <2>1 DEF One
  <2>3. Cardinality({t}) = 1
    BY FS_Singleton
  <2>4. {t} \subseteq Alive /\ Cardinality(Alive) \in Nat
    BY <1>1, <2>1, FS_CardinalityType
  <2>5. 1 <= Cardinality(Alive) /\ (Cardinality(Alive) = 1 => Alive = {t})
    BY <1>1, <2>3, <2>4, FS_Subset
  <2> QED
    BY <1>3, <2>2, <2>3, <2>4, <2>5 DEF One
<1> QED
  BY <1>2, <1>3

(* Storing the whole flag makes good what was lost, but for threads that   *)
(* should be gone.                                                         *)
SetStores(bits) ==
    /\ flag' = bits
    /\ stale' = Pending
    /\ ~lost' => ~lost \/ (One /\ (pcM \in {"startThumb", "game"} => Alive = {}))
    /\ hidden' => Painting # {} /\ (hidden \/ "show" \in bits \/ pcM = "startThumb")
    /\ ~hidden' => Painting = {} \/ (~hidden /\ "show" \notin bits /\ pcM # "startThumb")

LEMMA Setting == \A bits : Set(bits) => SetStores(bits)
<1> SUFFICES ASSUME NEW bits, Set(bits) PROVE SetStores(bits)
  OBVIOUS
<1>1. /\ flag' = bits /\ stale' = Pending
      /\ hidden' <=> Painting # {} /\ (hidden \/ "show" \in bits \/ pcM = "startThumb")
      /\ lost' <=> lost /\ Cardinality(Alive) > (IF pcM \in {"startThumb", "game"} THEN 0 ELSE 1)
  BY Zenon DEF Set
<1>2. lost' <=> lost /\ IF pcM \in {"startThumb", "game"} THEN Alive # {} ELSE ~One
  <2>1. CASE pcM \in {"startThumb", "game"}
    BY <1>1, <2>1, Counting
  <2>2. CASE pcM \notin {"startThumb", "game"}
    <3>1. lost' <=> lost /\ Cardinality(Alive) > 1
      BY <1>1, <2>2
    <3>2. Cardinality(Alive) > 1 <=> ~One
      BY Counting
    <3> QED
      BY <2>2, <3>1, <3>2
  <2> QED
    BY <2>1, <2>2
<1>3. Alive = {} => One
  BY DEF One
<1> QED
  BY <1>1, <1>2, <1>3, Zenon DEF SetStores

(* There is always a name left for a new thread.                           *)
LEMMA Names == ASSUME TypeOK, Cardinality(Alive) < tour.threads PROVE Unused \notin Alive
<1>1. Alive # Threads
  BY Fewer
<1>2. \E t \in Threads : t \notin Alive
  BY <1>1 DEF Alive
<1> QED
  BY <1>2, Zenon DEF Unused

-----------------------------------------------------------------------------
(* The painter.                                                            *)

(* Where no picture may be begun: under a window, on a page that waited    *)
(* for the painter, and on mui_setting after a game.                       *)
Quiet == /\ why # "boot"
         /\ \/ pcM = "popup"
            \/ page \in {"search", "setting"} /\ pcM \in {"list", "loop"}
            \/ page = "setting" /\ pcM \in {"createThumb", "select"}

(* Only a thread that will store can undo a store.                         *)
Outdated == stale \subseteq Pending

(* A thread that paints is marked in the flag, or the mark is overwritten. *)
Marked == Painting # {} /\ ~hidden => "busy" \in flag
(* What the loops of main that wait for the painter have seen.             *)
Waited == /\ pcM = "mark" /\ Painting # {} => hidden
          /\ pcM = "popStore" => "busy" \notin mreg
(* A thread begins a picture because it was asked for one.                 *)
Asked == \A t \in Threads : pcT[t] = "busy" => "show" \in reg[t]
(* On a quiet page no thread is asked for one, and none is at work on one. *)
Unasked == ~lost /\ Quiet => /\ "show" \notin flag
                             /\ \A t \in Pending \ stale : "show" \notin reg[t]
Unpainted == ~lost /\ Quiet => (Painting # {} => hidden)
Painter == Outdated /\ Marked /\ Waited /\ Asked /\ Unasked /\ Unpainted

(* What main does between its stores, and the sound thread, leaves the     *)
(* flag and the thumbnail threads alone.                                   *)
Shared == <<flag, pcT, reg, stale, lost, hidden>>

LEMMA MainKeeps == Moves \/ Loads \/ WaitThumb \/ Rests => UNCHANGED Shared
  BY DEF Shared, Moves, StartSound, Enter, MoveSel, Scroll, Leave, Select, RunGame,
         Cancel, Choose, StopSound, WaitSound, EndGame, MayLaunch, Loads, PopLoad,
         PopOffLoad, StopLoad, WaitThumb, Rests, Sleep, Sound, SoundStops,
         SoundLast, vars, svars, mvars, tvars, slides, hist

LEMMA MainStores == Sets \/ WriteBacks => UNCHANGED <<pcT, reg>>
  BY DEF Sets, StartThumb, Mark, List, Move, ScrollFlag, VideoSetting, WriteBacks,
         PopStore, PopOffStore, StopStore, tvars

(* Until it paints, what a thread does in mui_DisplayThumbnail is seen by  *)
(* nobody else.                                                            *)
Draws(t) == Decode(t) \/ Look(t) \/ Find(t) \/ Miss(t)

LEMMA Drawing ==
    ASSUME TypeOK, NEW t \in Threads, Draws(t)
    PROVE  /\ UNCHANGED <<flag, reg, mvars, hist>>
           /\ UNCHANGED <<pcM, page, empty, mreg, why, stale, lost, hidden, hasty, orphan>>
           /\ \A u \in Threads : pcT'[u] = "busy" <=> pcT[u] = "busy"
           /\ Alive' = Alive /\ Painting' = Painting /\ Pending' = Pending
<1>1. /\ UNCHANGED <<flag, reg, mvars, hist>>
      /\ pcT[t] \in {"decode", "look", "find", "miss"}
      /\ pcT' = [pcT EXCEPT ![t] = pcT'[t]]
      /\ pcT'[t] \in {"look", "find", "miss", "paint"}
  BY TypeParts DEF Draws, Decode, Look, Find, Miss, Step, ThreadTypes
<1>2. /\ \A u \in Threads \ {t} : pcT'[u] = pcT[u]
      /\ pcT'[t] \in {"look", "find", "miss", "paint"}
  BY <1>1, TypeParts DEF ThreadTypes
<1> QED
  BY <1>1, <1>2 DEF mvars, hist, Alive, Painting, Pending

LEMMA OutdatedStep == ASSUME TypeOK, Outdated, [Next]_vars PROVE Outdated'
<1> USE TypeParts
<1>1. CASE UNCHANGED Shared
  BY <1>1 DEF Outdated, Pending, Alive, ThreadTypes, Shared
<1>2. CASE Sets
  BY <1>2, Setting, MainStores DEF Outdated, Pending, Alive, ThreadTypes, Sets,
         StartThumb, Mark, List, Move, ScrollFlag, VideoSetting, SetStores, Goto,
         vars, svars, mvars, tvars, slides, hist
<1>3. CASE WriteBacks
  BY <1>3, MainStores DEF Outdated, Pending, Alive, ThreadTypes, WriteBacks,
         PopStore, PopOffStore, StopStore, WriteBack, Goto, vars, svars, mvars,
         tvars, slides, hist
<1>4. CASE CreateThumb
  BY <1>4, Names DEF Outdated, Pending, Alive, ThreadTypes, CreateThumb, Goto, Back,
         vars, svars, mvars, tvars, slides, hist
<1>5. ASSUME NEW t \in Threads, Thread(t) PROVE Outdated'
  BY <1>5 DEF Outdated, Pending, Alive, ThreadTypes, Thread, Head, Busy, Display,
         Decode, Look, Find, Miss, Paint, Clear, Last, Step, Store, vars, svars,
         mvars, tvars, slides, hist
<1> QED
  BY <1>1, <1>2, <1>3, <1>4, <1>5, Steps, MainKeeps

LEMMA MarkedStep == ASSUME TypeOK, Marked, Waited, [Next]_vars PROVE Marked'
<1> USE TypeParts
<1>1. CASE UNCHANGED Shared
  BY <1>1 DEF Marked, Waited, Painting, Alive, ThreadTypes, Shared
<1>2. CASE Sets
  <2>1. CASE StartThumb
    BY <2>1, Setting, MainStores DEF Marked, Waited, Painting, Alive, ThreadTypes,
           StartThumb, SetStores, Goto, vars, svars, mvars, tvars, slides, hist
  <2>2. CASE Mark
    BY <2>2, Setting, MainStores DEF Marked, Waited, Painting, Alive, ThreadTypes,
           Mark, SetStores, Goto, vars, svars, mvars, tvars, slides, hist
  <2>3. CASE List
    BY <2>3, Setting, MainStores DEF Marked, Waited, Painting, Alive, ThreadTypes,
           List, SetStores, Goto, vars, svars, mvars, tvars, slides, hist
  <2>4. CASE Move
    BY <2>4, Setting, MainStores DEF Marked, Waited, Painting, Alive, ThreadTypes,
           Move, SetStores, Goto, vars, svars, mvars, tvars, slides, hist
  <2>6. CASE ScrollFlag
    BY <2>6, Setting, MainStores DEF Marked, Waited, Painting, Alive, ThreadTypes,
           ScrollFlag, SetStores, Goto, vars, svars, mvars, tvars, slides, hist
  <2>5. CASE VideoSetting
    BY <2>5, Setting, MainStores DEF Marked, Waited, Painting, Alive, ThreadTypes,
           VideoSetting, SetStores, vars, svars, mvars, tvars, slides, hist
  <2> QED
    BY <1>2, <2>1, <2>2, <2>3, <2>4, <2>5, <2>6 DEF Sets
<1>3. CASE WriteBacks
  BY <1>3, MainStores DEF Marked, Waited, Painting, Alive, ThreadTypes, WriteBacks,
         PopStore, PopOffStore, StopStore, WriteBack, Goto, vars, svars, mvars,
         tvars, slides, hist
<1>4. CASE CreateThumb
  BY <1>4, Names DEF Marked, Waited, Painting, Alive, ThreadTypes, CreateThumb,
         Goto, Back, vars, svars, mvars, tvars, slides, hist
<1>5. ASSUME NEW t \in Threads, Head(t) PROVE Marked'
  BY <1>5 DEF Marked, Waited, Painting, Alive, ThreadTypes, Head, Step, vars, svars,
         mvars, tvars, slides, hist
<1>6. ASSUME NEW t \in Threads, Busy(t) PROVE Marked'
  BY <1>6 DEF Marked, Waited, Painting, Alive, ThreadTypes, Busy, Step, Store, vars,
         svars, mvars, tvars, slides, hist
<1>7. ASSUME NEW t \in Threads, Draws(t) PROVE Marked'
  BY <1>7, Drawing DEF Marked, Waited, Painting, Alive
<1>8. ASSUME NEW t \in Threads, Paint(t) PROVE Marked'
  BY <1>8 DEF Marked, Waited, Painting, Alive, ThreadTypes, Paint, Step, vars,
         svars, mvars, tvars, slides, hist
<1>9. ASSUME NEW t \in Threads, Clear(t) PROVE Marked'
  BY <1>9 DEF Marked, Waited, Painting, Alive, ThreadTypes, Clear, Step, Store,
         vars, svars, mvars, tvars, slides, hist
<1>10. ASSUME NEW t \in Threads, Last(t) PROVE Marked'
  BY <1>10 DEF Marked, Waited, Painting, Alive, ThreadTypes, Last, Step, Store,
         vars, svars, mvars, tvars, slides, hist
<1> QED
  BY <1>1, <1>2, <1>3, <1>4, <1>5, <1>6, <1>7, <1>8, <1>9, <1>10, Steps, MainKeeps
     DEF Thread, Display, Draws

LEMMA WaitedStep == ASSUME TypeOK, Marked, Waited, [Next]_vars PROVE Waited'
<1> USE TypeParts
<1>1. CASE Moves
  BY <1>1 DEF Marked, Waited, Painting, Alive, ThreadTypes, Moves, StartSound,
         Enter, MoveSel, Scroll, Leave, Select, RunGame, Cancel, Choose, StopSound,
         WaitSound, EndGame, MayLaunch, Goto, Back, vars, svars, mvars, tvars,
         slides, hist
<1>2. CASE Sets
  BY <1>2, Setting, MainStores DEF Marked, Waited, Painting, Alive, ThreadTypes,
         Sets, StartThumb, Mark, List, Move, ScrollFlag, VideoSetting, SetStores,
         Goto, vars, svars, mvars, tvars, slides, hist
<1>3. CASE Loads
  BY <1>3 DEF Marked, Waited, Painting, Alive, ThreadTypes, Loads, PopLoad,
         PopOffLoad, StopLoad, Goto, vars, svars, mvars, tvars, slides, hist
<1>4. CASE WriteBacks
  BY <1>4, MainStores DEF Marked, Waited, Painting, Alive, ThreadTypes, WriteBacks,
         PopStore, PopOffStore, StopStore, WriteBack, Goto, vars, svars, mvars,
         tvars, slides, hist
<1>5. CASE CreateThumb
  BY <1>5, Names DEF Marked, Waited, Painting, Alive, ThreadTypes, CreateThumb,
         Goto, Back, vars, svars, mvars, tvars, slides, hist
<1>6. CASE WaitThumb
  BY <1>6 DEF Marked, Waited, Painting, Alive, ThreadTypes, MainTypes, WaitThumb,
         Goto, vars, svars, mvars, tvars, slides, hist
<1>7. CASE Rests
  BY <1>7 DEF Marked, Waited, Painting, Alive, ThreadTypes, Rests, Sleep, Sound,
         SoundStops, SoundLast, vars, svars, mvars, tvars, slides, hist
<1>8. ASSUME NEW t \in Threads, Thread(t) PROVE Waited'
  BY <1>8 DEF Marked, Waited, Painting, Alive, ThreadTypes, Thread, Head, Busy,
         Display, Decode, Look, Find, Miss, Paint, Clear, Last, Step, Store, vars,
         svars, mvars, tvars, slides, hist
<1> QED
  BY <1>1, <1>2, <1>3, <1>4, <1>5, <1>6, <1>7, <1>8, Steps

LEMMA AskedStep == ASSUME TypeOK, Asked, [Next]_vars PROVE Asked'
<1> USE TypeParts
<1>1. CASE UNCHANGED Shared
  BY <1>1 DEF Asked, ThreadTypes, FlagTypes, Shared
<1>2. CASE Sets
  BY <1>2, Setting, MainStores DEF Asked, ThreadTypes, FlagTypes, Sets, StartThumb,
         Mark, List, Move, ScrollFlag, VideoSetting, SetStores, Goto, vars, svars,
         mvars, tvars, slides, hist
<1>3. CASE WriteBacks
  BY <1>3, MainStores DEF Asked, ThreadTypes, FlagTypes, WriteBacks, PopStore,
         PopOffStore, StopStore, WriteBack, Goto, vars, svars, mvars, tvars, slides,
         hist
<1>4. CASE CreateThumb
  BY <1>4, Names DEF Asked, ThreadTypes, FlagTypes, CreateThumb, Goto, Back, vars,
         svars, mvars, tvars, slides, hist
<1>5. ASSUME NEW t \in Threads, Thread(t) PROVE Asked'
  BY <1>5 DEF Asked, ThreadTypes, FlagTypes, Thread, Head, Busy, Display, Decode,
         Look, Find, Miss, Paint, Clear, Last, Step, Store, vars, svars, mvars,
         tvars, slides, hist
<1> QED
  BY <1>1, <1>2, <1>3, <1>4, <1>5, Steps, MainKeeps

LEMMA UnaskedStep == ASSUME TypeOK, Reasons, Outdated, Asked, Unasked, [Next]_vars PROVE Unasked'
<1> USE TypeParts
<1>1. CASE Moves
  <2>1. CASE StartSound
    BY <2>1 DEF Reasons, Outdated, Asked, Unasked, Quiet, Pending, Alive, Pictures,
           Windows, StartSound, Goto, vars, svars, mvars, tvars, slides, hist
  <2>2. CASE Enter
    BY <2>2 DEF Reasons, Outdated, Asked, Unasked, Quiet, Pending, Alive, Pictures,
           Waits, Windows, Enter, Goto, vars, svars, mvars, tvars, slides, hist
  <2>3. CASE MoveSel
    BY <2>3 DEF Reasons, Outdated, Asked, Unasked, Quiet, Pending, Alive, Pictures,
           Windows, MoveSel, Goto, vars, svars, mvars, tvars, slides, hist
  <2>12. CASE Scroll
    BY <2>12 DEF Reasons, Outdated, Asked, Unasked, Quiet, Pending, Alive, Pictures,
           Windows, Scroll, Goto, vars, svars, mvars, tvars, slides, hist
  <2>4. CASE Leave
    BY <2>4 DEF Reasons, Outdated, Asked, Unasked, Quiet, Pending, Alive, Pictures,
           Windows, Leave, Goto, vars, svars, mvars, tvars, slides, hist
  <2>5. CASE Select
    BY <2>5 DEF Reasons, Outdated, Asked, Unasked, Quiet, Pending, Alive, Pictures,
           Windows, Select, MayLaunch, Goto, vars, svars, mvars, tvars, slides, hist
  <2>6. CASE RunGame
    BY <2>6 DEF Reasons, Outdated, Asked, Unasked, Quiet, Pending, Alive, Pictures,
           Windows, RunGame, MayLaunch, Goto, vars, svars, mvars, tvars, slides,
           hist
  <2>7. CASE Cancel
    BY <2>7 DEF Reasons, Outdated, Asked, Unasked, Quiet, Pending, Alive, Pictures,
           Windows, Cancel, Goto, vars, svars, mvars, tvars, slides, hist
  <2>8. CASE Choose
    BY <2>8 DEF Reasons, Outdated, Asked, Unasked, Quiet, Pending, Alive, Pictures,
           Windows, Choose, Goto, Back, vars, svars, mvars, tvars, slides, hist
  <2>9. CASE StopSound
    BY <2>9 DEF Reasons, Outdated, Asked, Unasked, Quiet, Pending, Alive, Pictures,
           Windows, StopSound, Goto, vars, svars, mvars, tvars, slides, hist
  <2>10. CASE WaitSound
    BY <2>10 DEF Reasons, Outdated, Asked, Unasked, Quiet, Pending, Alive, Pictures,
           Windows, WaitSound, Goto, vars, svars, mvars, tvars, slides, hist
  <2>11. CASE EndGame
    BY <2>11 DEF Reasons, Outdated, Asked, Unasked, Quiet, Pending, Alive, Pictures,
           Windows, EndGame, Goto, vars, svars, mvars, tvars, slides, hist
  <2> QED
    BY <1>1, <2>1, <2>2, <2>3, <2>4, <2>5, <2>6, <2>7, <2>8, <2>9, <2>10, <2>11,
       <2>12 DEF Moves
<1>2. CASE Sets
  <2>1. CASE StartThumb
    BY <2>1, Setting, MainStores DEF Reasons, Outdated, Asked, Unasked, Quiet,
           Pending, Alive, Pictures, Windows, StartThumb, SetStores, Goto, vars,
           svars, mvars, tvars, slides, hist
  <2>2. CASE Mark
    BY <2>2, Setting, MainStores DEF Reasons, Outdated, Asked, Unasked, Quiet,
           Pending, Alive, Pictures, Windows, Mark, SetStores, Goto, vars, svars,
           mvars, tvars, slides, hist
  <2>3. CASE List
    BY <2>3, Setting, MainStores DEF Reasons, Outdated, Asked, Unasked, Quiet,
           Pending, Alive, Pictures, Windows, List, SetStores, Goto, vars, svars,
           mvars, tvars, slides, hist
  <2>4. CASE Move
    BY <2>4, Setting, MainStores DEF Reasons, Outdated, Asked, Unasked, Quiet,
           Pending, Alive, Pictures, Windows, Move, SetStores, Goto, vars, svars,
           mvars, tvars, slides, hist
  <2>6. CASE ScrollFlag
    BY <2>6, Setting, MainStores DEF Reasons, Outdated, Asked, Unasked, Quiet,
           Pending, Alive, Pictures, Windows, ScrollFlag, SetStores, Goto, vars,
           svars, mvars, tvars, slides, hist
  <2>5. CASE VideoSetting
    BY <2>5, Setting, MainStores DEF Reasons, Outdated, Asked, Unasked, Quiet,
           Pending, Alive, Pictures, Windows, VideoSetting, SetStores, vars, svars,
           mvars, tvars, slides, hist
  <2> QED
    BY <1>2, <2>1, <2>2, <2>3, <2>4, <2>5, <2>6 DEF Sets
<1>3. CASE Loads
  BY <1>3 DEF Reasons, Outdated, Asked, Unasked, Quiet, Pending, Alive, Pictures,
         Windows, Loads, PopLoad, PopOffLoad, StopLoad, Goto, vars, svars, mvars,
         tvars, slides, hist
<1>4. CASE WriteBacks
  BY <1>4, MainStores DEF Reasons, Outdated, Asked, Unasked, Quiet, Pending, Alive,
         Pictures, Windows, WriteBacks, PopStore, PopOffStore, StopStore, WriteBack,
         Goto, vars, svars, mvars, tvars, slides, hist
<1>5. CASE CreateThumb
  BY <1>5, Names DEF ThreadTypes, Reasons, Outdated, Asked, Unasked, Quiet, Pending,
         Alive, Pictures, Windows, CreateThumb, Goto, Back, vars, svars, mvars,
         tvars, slides, hist
<1>6. CASE WaitThumb
  BY <1>6 DEF Reasons, Outdated, Asked, Unasked, Quiet, Pending, Alive, Pictures,
         Windows, MainTypes, WaitThumb, Goto, vars, svars, mvars, tvars, slides,
         hist
<1>7. CASE Rests
  BY <1>7 DEF Reasons, Outdated, Asked, Unasked, Quiet, Pending, Alive, Pictures,
         Waits, Windows, Rests, Sleep, Sound, SoundStops, SoundLast, vars, svars,
         mvars, tvars, slides, hist
<1>8. ASSUME NEW t \in Threads, Head(t) PROVE Unasked'
  BY <1>8 DEF ThreadTypes, FlagTypes, Reasons, Outdated, Asked, Unasked, Quiet,
         Pending, Alive, Pictures, Windows, Head, Step, vars, svars, mvars, tvars,
         slides, hist
<1>9. ASSUME NEW t \in Threads, Busy(t) PROVE Unasked'
  BY <1>9 DEF ThreadTypes, FlagTypes, Reasons, Outdated, Asked, Unasked, Quiet,
         Pending, Alive, Pictures, Windows, Busy, Step, Store, vars, svars, mvars,
         tvars, slides, hist
<1>10. ASSUME NEW t \in Threads, Draws(t) PROVE Unasked'
  BY <1>10, Drawing DEF Reasons, Outdated, Asked, Unasked, Quiet, Pending, Alive,
         Pictures, Windows
<1>11. ASSUME NEW t \in Threads, Paint(t) PROVE Unasked'
  BY <1>11 DEF ThreadTypes, FlagTypes, Reasons, Outdated, Asked, Unasked, Quiet,
         Pending, Alive, Pictures, Windows, Paint, Step, vars, svars, mvars, tvars,
         slides, hist
<1>12. ASSUME NEW t \in Threads, Clear(t) PROVE Unasked'
  BY <1>12 DEF ThreadTypes, FlagTypes, Reasons, Outdated, Asked, Unasked, Quiet,
         Pending, Alive, Pictures, Windows, Clear, Step, Store, vars, svars, mvars,
         tvars, slides, hist
<1>13. ASSUME NEW t \in Threads, Last(t) PROVE Unasked'
  BY <1>13 DEF ThreadTypes, FlagTypes, Reasons, Outdated, Asked, Unasked, Quiet,
         Pending, Alive, Pictures, Windows, Last, Step, Store, vars, svars, mvars,
         tvars, slides, hist
<1> QED
  BY <1>1, <1>2, <1>3, <1>4, <1>5, <1>6, <1>7, <1>8, <1>9, <1>10, <1>11, <1>12,
     <1>13, Steps DEF Thread, Display, Draws

LEMMA UnpaintedStep == ASSUME TypeOK, Reasons, Painter, [Next]_vars PROVE Unpainted'
<1> USE TypeParts
<1>1. CASE Moves
  <2>1. CASE StartSound
    BY <2>1 DEF Painter, Marked, Waited, Unpainted, Painting, Reasons, Outdated,
           Asked, Unasked, Quiet, Pending, Alive, Pictures, Windows, StartSound,
           Goto, vars, svars, mvars, tvars, slides, hist
  <2>2. CASE Enter
    BY <2>2 DEF Painter, Marked, Waited, Unpainted, Painting, Reasons, Outdated,
           Asked, Unasked, Quiet, Pending, Alive, Pictures, Waits, Windows, Enter,
           Goto, vars, svars, mvars, tvars, slides, hist
  <2>3. CASE MoveSel
    BY <2>3 DEF Painter, Marked, Waited, Unpainted, Painting, Reasons, Outdated,
           Asked, Unasked, Quiet, Pending, Alive, Pictures, Windows, MoveSel, Goto,
           vars, svars, mvars, tvars, slides, hist
  <2>12. CASE Scroll
    BY <2>12 DEF Painter, Marked, Waited, Unpainted, Painting, Reasons, Outdated,
           Asked, Unasked, Quiet, Pending, Alive, Pictures, Windows, Scroll, Goto,
           vars, svars, mvars, tvars, slides, hist
  <2>4. CASE Leave
    BY <2>4 DEF Painter, Marked, Waited, Unpainted, Painting, Reasons, Outdated,
           Asked, Unasked, Quiet, Pending, Alive, Pictures, Windows, Leave, Goto,
           vars, svars, mvars, tvars, slides, hist
  <2>5. CASE Select
    BY <2>5 DEF Painter, Marked, Waited, Unpainted, Painting, Reasons, Outdated,
           Asked, Unasked, Quiet, Pending, Alive, Pictures, Windows, Select,
           MayLaunch, Goto, vars, svars, mvars, tvars, slides, hist
  <2>6. CASE RunGame
    BY <2>6 DEF Painter, Marked, Waited, Unpainted, Painting, Reasons, Outdated,
           Asked, Unasked, Quiet, Pending, Alive, Pictures, Windows, RunGame,
           MayLaunch, Goto, vars, svars, mvars, tvars, slides, hist
  <2>7. CASE Cancel
    BY <2>7 DEF Painter, Marked, Waited, Unpainted, Painting, Reasons, Outdated,
           Asked, Unasked, Quiet, Pending, Alive, Pictures, Windows, Cancel, Goto,
           vars, svars, mvars, tvars, slides, hist
  <2>8. CASE Choose
    BY <2>8 DEF Painter, Marked, Waited, Unpainted, Painting, Reasons, Outdated,
           Asked, Unasked, Quiet, Pending, Alive, Pictures, Windows, Choose, Goto,
           Back, vars, svars, mvars, tvars, slides, hist
  <2>9. CASE StopSound
    BY <2>9 DEF Painter, Marked, Waited, Unpainted, Painting, Reasons, Outdated,
           Asked, Unasked, Quiet, Pending, Alive, Pictures, Windows, StopSound,
           Goto, vars, svars, mvars, tvars, slides, hist
  <2>10. CASE WaitSound
    BY <2>10 DEF Painter, Marked, Waited, Unpainted, Painting, Reasons, Outdated,
           Asked, Unasked, Quiet, Pending, Alive, Pictures, Windows, WaitSound,
           Goto, vars, svars, mvars, tvars, slides, hist
  <2>11. CASE EndGame
    BY <2>11 DEF Painter, Marked, Waited, Unpainted, Painting, Reasons, Outdated,
           Asked, Unasked, Quiet, Pending, Alive, Pictures, Windows, EndGame, Goto,
           vars, svars, mvars, tvars, slides, hist
  <2> QED
    BY <1>1, <2>1, <2>2, <2>3, <2>4, <2>5, <2>6, <2>7, <2>8, <2>9, <2>10, <2>11,
       <2>12 DEF Moves
<1>2. CASE Sets
  <2>1. CASE StartThumb
    BY <2>1, Setting, MainStores DEF Painter, Marked, Waited, Unpainted, Painting,
           Reasons, Outdated, Asked, Unasked, Quiet, Pending, Alive, Pictures,
           Windows, StartThumb, SetStores, Goto, vars, svars, mvars, tvars, slides,
           hist
  <2>2. CASE Mark
    BY <2>2, Setting, MainStores DEF Painter, Marked, Waited, Unpainted, Painting,
           Reasons, Outdated, Asked, Unasked, Quiet, Pending, Alive, Pictures,
           Windows, Mark, SetStores, Goto, vars, svars, mvars, tvars, slides, hist
  <2>3. CASE List
    BY <2>3, Setting, MainStores DEF Painter, Marked, Waited, Unpainted, Painting,
           Reasons, Outdated, Asked, Unasked, Quiet, Pending, Alive, Pictures,
           Windows, List, SetStores, Goto, vars, svars, mvars, tvars, slides, hist
  <2>4. CASE Move
    BY <2>4, Setting, MainStores DEF Painter, Marked, Waited, Unpainted, Painting,
           Reasons, Outdated, Asked, Unasked, Quiet, Pending, Alive, Pictures,
           Windows, Move, SetStores, Goto, vars, svars, mvars, tvars, slides, hist
  <2>6. CASE ScrollFlag
    BY <2>6, Setting, MainStores DEF Painter, Marked, Waited, Unpainted, Painting,
           Reasons, Outdated, Asked, Unasked, Quiet, Pending, Alive, Pictures,
           Windows, ScrollFlag, SetStores, Goto, vars, svars, mvars, tvars, slides,
           hist
  <2>5. CASE VideoSetting
    BY <2>5, Setting, MainStores DEF Painter, Marked, Waited, Unpainted, Painting,
           Reasons, Outdated, Asked, Unasked, Quiet, Pending, Alive, Pictures,
           Windows, VideoSetting, SetStores, vars, svars, mvars, tvars, slides, hist
  <2> QED
    BY <1>2, <2>1, <2>2, <2>3, <2>4, <2>5, <2>6 DEF Sets
<1>3. CASE Loads
  BY <1>3 DEF Painter, Marked, Waited, Unpainted, Painting, Reasons, Outdated,
         Asked, Unasked, Quiet, Pending, Alive, Pictures, Windows, Loads, PopLoad,
         PopOffLoad, StopLoad, Goto, vars, svars, mvars, tvars, slides, hist
<1>4. CASE WriteBacks
  BY <1>4, MainStores DEF Painter, Marked, Waited, Unpainted, Painting, Reasons,
         Outdated, Asked, Unasked, Quiet, Pending, Alive, Pictures, Windows,
         WriteBacks, PopStore, PopOffStore, StopStore, WriteBack, Goto, vars, svars,
         mvars, tvars, slides, hist
<1>5. CASE CreateThumb
  BY <1>5, Names DEF ThreadTypes, Painter, Marked, Waited, Unpainted, Painting,
         Reasons, Outdated, Asked, Unasked, Quiet, Pending, Alive, Pictures,
         Windows, CreateThumb, Goto, Back, vars, svars, mvars, tvars, slides, hist
<1>6. CASE WaitThumb
  BY <1>6 DEF Painter, Marked, Waited, Unpainted, Painting, Reasons, Outdated,
         Asked, Unasked, Quiet, Pending, Alive, Pictures, Windows, MainTypes,
         WaitThumb, Goto, vars, svars, mvars, tvars, slides, hist
<1>7. CASE Rests
  BY <1>7 DEF Painter, Marked, Waited, Unpainted, Painting, Reasons, Outdated,
         Asked, Unasked, Quiet, Pending, Alive, Pictures, Waits, Windows, Rests,
         Sleep, Sound, SoundStops, SoundLast, vars, svars, mvars, tvars, slides,
         hist
<1>8. ASSUME NEW t \in Threads, Head(t) PROVE Unpainted'
  BY <1>8 DEF ThreadTypes, FlagTypes, Painter, Marked, Waited, Unpainted, Painting,
         Reasons, Outdated, Asked, Unasked, Quiet, Pending, Alive, Pictures,
         Windows, Head, Step, vars, svars, mvars, tvars, slides, hist
<1>9. ASSUME NEW t \in Threads, Busy(t) PROVE Unpainted'
  BY <1>9 DEF ThreadTypes, FlagTypes, Painter, Marked, Waited, Unpainted, Painting,
         Reasons, Outdated, Asked, Unasked, Quiet, Pending, Alive, Pictures,
         Windows, Busy, Step, Store, vars, svars, mvars, tvars, slides, hist
<1>10. ASSUME NEW t \in Threads, Draws(t) PROVE Unpainted'
  BY <1>10, Drawing DEF Painter, Marked, Waited, Unpainted, Painting, Reasons,
         Outdated, Asked, Unasked, Quiet, Pending, Alive, Pictures, Windows
<1>11. ASSUME NEW t \in Threads, Paint(t) PROVE Unpainted'
  BY <1>11 DEF ThreadTypes, FlagTypes, Painter, Marked, Waited, Unpainted, Painting,
         Reasons, Outdated, Asked, Unasked, Quiet, Pending, Alive, Pictures,
         Windows, Paint, Step, vars, svars, mvars, tvars, slides, hist
<1>12. ASSUME NEW t \in Threads, Clear(t) PROVE Unpainted'
  BY <1>12 DEF ThreadTypes, FlagTypes, Painter, Marked, Waited, Unpainted, Painting,
         Reasons, Outdated, Asked, Unasked, Quiet, Pending, Alive, Pictures,
         Windows, Clear, Step, Store, vars, svars, mvars, tvars, slides, hist
<1>13. ASSUME NEW t \in Threads, Last(t) PROVE Unpainted'
  BY <1>13 DEF ThreadTypes, FlagTypes, Painter, Marked, Waited, Unpainted, Painting,
         Reasons, Outdated, Asked, Unasked, Quiet, Pending, Alive, Pictures,
         Windows, Last, Step, Store, vars, svars, mvars, tvars, slides, hist
<1> QED
  BY <1>1, <1>2, <1>3, <1>4, <1>5, <1>6, <1>7, <1>8, <1>9, <1>10, <1>11, <1>12,
     <1>13, Steps DEF Thread, Display, Draws

(* Outside its exceptions main's stops are waited for: the flag that main  *)
(* stores is what the thread loads, and it holds "show", so that 0 can     *)
(* only be the thread's last word.                                         *)
Tame == ~lost /\ ~hasty =>
    /\ One
    /\ pcM \in {"startSound", "startThumb", "createThumb", "game"} => Alive = {}
    /\ pcM = "select" /\ page # "setting" => Alive = {}
    /\ \A t \in Pending \ stale : reg[t] = flag
    /\ Alive # {} =>
         /\ page \in Pictures /\ ~empty
            /\ pcM \in {"loop", "move", "stopSound", "waitSound", "stopLoad"} => "show" \in flag
         /\ pcM = "stopStore" => "show" \in mreg
         /\ pcM = "waitThumb" => "show" \in flag

(* Such a thread leaves "show" as it is: it stores what it has loaded.     *)
LEMMA ShowKept ==
    ASSUME Tame, ~hasty, ~lost', NEW t \in Pending, NEW bits, Store(t, bits),
           "show" \in bits <=> "show" \in reg[t]
    PROVE  ~lost /\ One /\ ("show" \in flag' <=> "show" \in flag)
<1>1. ~lost /\ flag' = bits /\ (t \in stale => bits = flag)
  BY DEF Store
<1>2. One /\ (t \notin stale => reg[t] = flag)
  BY <1>1 DEF Tame
<1> QED
  BY <1>1, <1>2

LEMMA TameStores ==
    ASSUME TypeOK, Outdated, Tame, NEW t \in Threads, Busy(t) \/ Clear(t) \/ Last(t)
    PROVE  Tame'
<1> SUFFICES ASSUME ~lost', ~hasty' PROVE Tame'
  BY Zenon DEF Tame
<1>1. /\ ~hasty /\ t \in Pending /\ t \in Alive
      /\ UNCHANGED <<pcM, page, empty, mreg>>
  BY DEF Busy, Clear, Last, mvars, Pending, Alive
<1>2. \A u \in Threads \ {t} : pcT'[u] = pcT[u] /\ reg'[u] = reg[u]
  BY TypeParts DEF Busy, Clear, Last, Step, ThreadTypes, FlagTypes
<1>3. pcT' \in [Threads -> {"none", "head", "busy", "decode", "look", "find", "miss",
                            "paint", "clear", "last"}]
  BY TypeParts DEF Busy, Clear, Last, Step, ThreadTypes
<1>4. Alive' \subseteq Alive
  BY <1>1, <1>2 DEF Alive
<1>5. CASE Last(t)
  <2>1. ~lost
    BY <1>5 DEF Last, Store
  <2>2. One
    BY <1>1, <2>1 DEF Tame
  <2>3. Alive' = {}
    BY <1>1, <1>2, <1>5, <2>2, TypeParts DEF One, Alive, Last, Step, ThreadTypes
  <2> QED
    BY <2>3 DEF Tame, One, Pending, Alive
<1>6. CASE Busy(t) \/ Clear(t)
  <2>1. CASE pcT'[t] = "clear" /\ UNCHANGED <<flag, lost, stale, reg>>
    <3>1. Pending' \subseteq Pending
      BY <1>1, <1>2, <2>1 DEF Pending, Alive
    <3> QED
      BY <1>1, <1>4, <2>1, <3>1 DEF Tame, One
  <2>2. CASE /\ pcT'[t] \in {"decode", "head"}
             /\ \E bits : Store(t, bits) /\ ("show" \in bits <=> "show" \in reg[t])
    <3>1. ~lost /\ One /\ ("show" \in flag' <=> "show" \in flag)
      BY <1>1, <2>2, ShowKept
    <3>2. Pending' = {}
      BY <1>1, <1>4, <2>2, <3>1 DEF One, Pending
    <3> QED
      BY <1>1, <1>4, <3>1, <3>2 DEF Tame, One
  <2> QED
    BY <1>1, <1>6, <2>1, <2>2, TypeParts DEF Busy, Clear, Step, ThreadTypes
<1> QED
  BY <1>5, <1>6

LEMMA TameStep == ASSUME TypeOK, Reasons, Outdated, Tame, [Next]_vars PROVE Tame'
<1> USE TypeParts
<1>1. CASE Moves
  <2>1. CASE StartSound
    BY <2>1 DEF Reasons, Outdated, Tame, One, Pending, Alive, Pictures, Windows,
           StartSound, Goto, vars, svars, mvars, tvars, slides, hist
  <2>2. CASE Enter
    BY <2>2 DEF Reasons, Outdated, Tame, One, Pending, Alive, Pictures, Waits,
           Windows, Enter, Goto, vars, svars, mvars, tvars, slides, hist
  <2>3. CASE MoveSel
    BY <2>3 DEF Reasons, Outdated, Tame, One, Pending, Alive, Pictures, Windows,
           MoveSel, Goto, vars, svars, mvars, tvars, slides, hist
  <2>12. CASE Scroll
    BY <2>12 DEF Reasons, Outdated, Tame, One, Pending, Alive, Pictures, Windows,
           Scroll, Goto, vars, svars, mvars, tvars, slides, hist
  <2>4. CASE Leave
    BY <2>4 DEF Reasons, Outdated, Tame, One, Pending, Alive, Pictures, Windows,
           Leave, Goto, vars, svars, mvars, tvars, slides, hist
  <2>5. CASE Select
    BY <2>5 DEF Reasons, Outdated, Tame, One, Pending, Alive, Pictures, Windows,
           Select, MayLaunch, Goto, vars, svars, mvars, tvars, slides, hist
  <2>6. CASE RunGame
    BY <2>6 DEF Reasons, Outdated, Tame, One, Pending, Alive, Pictures, Windows,
           RunGame, MayLaunch, Goto, vars, svars, mvars, tvars, slides, hist
  <2>7. CASE Cancel
    BY <2>7 DEF Reasons, Outdated, Tame, One, Pending, Alive, Pictures, Windows,
           Cancel, Goto, vars, svars, mvars, tvars, slides, hist
  <2>8. CASE Choose
    BY <2>8 DEF Reasons, Outdated, Tame, One, Pending, Alive, Pictures, Windows,
           Choose, Goto, Back, vars, svars, mvars, tvars, slides, hist
  <2>9. CASE StopSound
    BY <2>9 DEF Reasons, Outdated, Tame, One, Pending, Alive, Pictures, Windows,
           StopSound, Goto, vars, svars, mvars, tvars, slides, hist
  <2>10. CASE WaitSound
    BY <2>10 DEF Reasons, Outdated, Tame, One, Pending, Alive, Pictures, Windows,
           WaitSound, Goto, vars, svars, mvars, tvars, slides, hist
  <2>11. CASE EndGame
    BY <2>11 DEF Reasons, Outdated, Tame, One, Pending, Alive, Pictures, Windows,
           EndGame, Goto, vars, svars, mvars, tvars, slides, hist
  <2> QED
    BY <1>1, <2>1, <2>2, <2>3, <2>4, <2>5, <2>6, <2>7, <2>8, <2>9, <2>10, <2>11,
       <2>12 DEF Moves
<1>2. CASE Sets
  <2>1. CASE StartThumb
    BY <2>1, Setting, MainStores DEF Reasons, Outdated, Tame, One, Pending, Alive,
           Pictures, Windows, StartThumb, SetStores, Goto, vars, svars, mvars,
           tvars, slides, hist
  <2>2. CASE Mark
    BY <2>2, Setting, MainStores DEF Reasons, Outdated, Tame, One, Pending, Alive,
           Pictures, Windows, Mark, SetStores, Goto, vars, svars, mvars, tvars,
           slides, hist
  <2>3. CASE List
    BY <2>3, Setting, MainStores DEF Reasons, Outdated, Tame, One, Pending, Alive,
           Pictures, Windows, List, SetStores, Goto, vars, svars, mvars, tvars,
           slides, hist
  <2>4. CASE Move
    BY <2>4, Setting, MainStores DEF Reasons, Outdated, Tame, One, Pending, Alive,
           Pictures, Windows, Move, SetStores, Goto, vars, svars, mvars, tvars,
           slides, hist
  <2>6. CASE ScrollFlag
    BY <2>6, Setting, MainStores DEF Reasons, Outdated, Tame, One, Pending, Alive,
           Pictures, Windows, ScrollFlag, SetStores, Goto, vars, svars, mvars,
           tvars, slides, hist
  <2>5. CASE VideoSetting
    BY <2>5, Setting, MainStores DEF Reasons, Outdated, Tame, One, Pending, Alive,
           Pictures, Windows, VideoSetting, SetStores, vars, svars, mvars, tvars,
           slides, hist
  <2> QED
    BY <1>2, <2>1, <2>2, <2>3, <2>4, <2>5, <2>6 DEF Sets
<1>3. CASE Loads
  <2>1. CASE PopLoad
    BY <2>1 DEF Reasons, Outdated, Tame, One, Pending, Alive, Pictures, Windows,
           PopLoad, Goto, vars, svars, mvars, tvars, slides, hist
  <2>2. CASE PopOffLoad
    BY <2>2 DEF Reasons, Outdated, Tame, One, Pending, Alive, Pictures, Windows,
           PopOffLoad, Goto, vars, svars, mvars, tvars, slides, hist
  <2>3. CASE StopLoad
    BY <2>3 DEF Reasons, Outdated, Tame, One, Pending, Alive, Pictures, Windows,
           StopLoad, Goto, vars, svars, mvars, tvars, slides, hist
  <2> QED
    BY <1>3, <2>1, <2>2, <2>3 DEF Loads
<1>4. CASE WriteBacks
  BY <1>4, MainStores DEF Reasons, Outdated, Tame, One, Pending, Alive, Pictures,
         Windows, WriteBacks, PopStore, PopOffStore, StopStore, WriteBack, Goto,
         vars, svars, mvars, tvars, slides, hist
<1>5. CASE CreateThumb
  BY <1>5, Names DEF ThreadTypes, FlagTypes, Reasons, Outdated, Tame, One, Pending,
         Alive, Pictures, Windows, CreateThumb, Goto, Back, vars, svars, mvars,
         tvars, slides, hist
<1>6. CASE WaitThumb
  BY <1>6 DEF Reasons, Outdated, Tame, One, Pending, Alive, Pictures, Windows,
         MainTypes, WaitThumb, Goto, vars, svars, mvars, tvars, slides, hist
<1>7. CASE Rests
  BY <1>7 DEF Reasons, Outdated, Tame, One, Pending, Alive, Pictures, Waits,
         Windows, Rests, Sleep, Sound, SoundStops, SoundLast, vars, svars, mvars,
         tvars, slides, hist
<1>8. ASSUME NEW t \in Threads, Head(t) PROVE Tame'
  BY <1>8 DEF ThreadTypes, FlagTypes, Reasons, Outdated, Tame, One, Pending, Alive,
         Pictures, Windows, Head, Step, vars, svars, mvars, tvars, slides, hist
<1>9. ASSUME NEW t \in Threads, Busy(t) PROVE Tame'
  BY <1>9, TameStores
<1>10. ASSUME NEW t \in Threads, Draws(t) PROVE Tame'
  BY <1>10, Drawing DEF Reasons, Outdated, Tame, One, Pending, Alive, Pictures,
         Windows
<1>11. ASSUME NEW t \in Threads, Paint(t) PROVE Tame'
  BY <1>11 DEF ThreadTypes, FlagTypes, Reasons, Outdated, Tame, One, Pending, Alive,
         Pictures, Windows, Paint, Step, vars, svars, mvars, tvars, slides, hist
<1>12. ASSUME NEW t \in Threads, Clear(t) PROVE Tame'
  BY <1>12, TameStores
<1>13. ASSUME NEW t \in Threads, Last(t) PROVE Tame'
  BY <1>13, TameStores
<1> QED
  BY <1>1, <1>2, <1>3, <1>4, <1>5, <1>6, <1>7, <1>8, <1>9, <1>10, <1>11, <1>12,
     <1>13, Steps DEF Thread, Display, Draws

Threading == TypeOK /\ Reasons /\ Painter /\ Tame

LEMMA ThreadingInit == Init => Threading
<1> SUFFICES ASSUME Init PROVE Threading
  OBVIOUS
<1>1. Alive = {} /\ Pending = {} /\ Painting = {}
  BY DEF Init, Alive, Pending, Painting
<1>2. Painter
  BY <1>1 DEF Init, Painter, Outdated, Marked, Waited, Asked, Unasked, Unpainted,
         Quiet
<1>3. Tame
  BY <1>1 DEF Init, Tame, One
<1> QED
  BY <1>2, <1>3, TypedInit DEF Threading

LEMMA ThreadingStep == Threading /\ [Next]_vars => Threading'
  BY TypedStep, OutdatedStep, MarkedStep, WaitedStep, AskedStep, UnaskedStep,
     UnpaintedStep, TameStep DEF Threading, Painter

(* The stops of main before SeletEmuCore and before a game                 *)
(* (DisplayThumbnailflag &= ~1, then the wait for 0) leave no thumbnail    *)
(* thread, for any pages, threads and games, but in the cases that         *)
(* StoppedMeansGone names.                                                 *)
THEOREM MenuStopped == Spec => []StoppedMeansGone
<1>1. Threading => StoppedMeansGone
  BY Counting DEF Threading, Tame, StoppedMeansGone
<1> QED
  BY <1>1, ThreadingInit, ThreadingStep, PTL DEF Spec

(* The waits for the painter ("busy") keep pictures off the windows and    *)
(* pages that wait, but in the cases that NoForeignPaint names.            *)
THEOREM MenuPaints == Spec => []NoForeignPaint
<1>1. Threading => NoForeignPaint
  BY DEF Threading, Reasons, Painter, Unpainted, Quiet, NoForeignPaint
<1> QED
  BY <1>1, ThreadingInit, ThreadingStep, PTL DEF Spec
=============================================================================
