----------------------------- MODULE MenuThreads -----------------------------
(***************************************************************************)
(* The menus and their two worker threads.  mui_DisplayThumbnailThread     *)
(* paints the picture of the selected game, mui_SoundplayThread plays the  *)
(* music.  The main thread stops both before a game runs, and the first    *)
(* before SeletEmuCore, and creates them anew afterwards.                  *)
(*                                                                         *)
(* They talk through DisplayThumbnailflag and Soundplayflag, words that    *)
(* both sides read, change and write back with no lock: a store loses      *)
(* whatever the other side stored since the load.  The sets of bits are    *)
(* sets of names here: run is 1, show 2, started 4, busy 8.                *)
(***************************************************************************)
EXTENDS Naturals, FiniteSets

CONSTANTS
    Tours,          \* the pages a user goes to and the games they list; bounds:
                    \* threads alive at a time, threads not created or files gone
    Threads,        \* names of thumbnail threads
    Period,         \* 0x40: rounds between two pictures of one game
    Selections,     \* the games of a list
    Shots,          \* how many pictures a game has: numbered 0, 1, ...
    Packed,         \* the games whose archive of pictures can be opened
    Blank           \* the empty frame of menu.raw

AllPages == {"menu", "type", "recent", "search", "setting"}

ASSUME TourAssumption ==
    /\ IsFiniteSet(Threads)
    /\ Tours \subseteq [pages : SUBSET AllPages \ {{}}, games : SUBSET Selections \ {{}},
                        threads : 1 .. Cardinality(Threads), faults : Nat]
ASSUME SizeAssumption == Period \in Nat \ {0}
ASSUME ShotAssumption == /\ Shots \in [Selections -> Nat] /\ Packed \subseteq Selections
                         /\ Blank \notin Selections

Bits == {"run", "show", "started", "busy"}

(* Pages that wait for the picture being painted; that show pictures at    *)
(* all; that offer windows on top of the list.  mui_shoucang is "recent".  *)
Waits    == {"type", "search", "setting"}
Pictures == {"menu", "type", "recent"}
Windows  == {"recent"}

VARIABLES
    flag,       \* DisplayThumbnailflag
    sflag,      \* Soundplayflag
    (* main thread *)
    tour,       \* chosen at the start
    pcM,
    page,       \* DAT_003af26c
    empty,      \* no list on the page, or the focus is not on it
    sel,        \* DAT_003af27c
    mreg,       \* what main loaded from the flag
    why,        \* stopping for "select" or "game"; "boot" at first
    faults,
    (* thumbnail threads, sound thread *)
    pcT, reg, count,
    want, doing,    \* want_idx; the game looked up, or Blank: what it will paint
    pcS,
    frame,          \* DAT_003af280
    noThumb,        \* s_no_thumb; 0, which is never looked at, for its -1
    (* history *)
    painted,    \* what was painted last
    stale,      \* main has stored into the flag since the thread loaded it
    lost,       \* a thread has undone such a store
    hidden,     \* "busy" of a thread that paints was overwritten, or is about to be
    hasty,      \* a stop began on a page where the flag is "run" alone
    orphan      \* the thread to stop was not there when the stop began

slides == <<want, frame, noThumb>>
tvars  == <<pcT, reg, count, doing, slides, painted>>
svars  == <<sflag, pcS>>
mvars  == <<tour, pcM, page, empty, sel, mreg, why, faults>>
hist   == <<stale, lost, hidden, hasty, orphan>>
vars   == <<flag, svars, mvars, tvars, hist>>

Alive    == {t \in Threads : pcT[t] # "none"}
Painting == {t \in Alive : pcT[t] \in {"decode", "look", "find", "miss", "paint"}}
Pending  == {t \in Alive : pcT[t] \in {"busy", "clear", "last"}}

Init ==
    /\ flag = {} /\ sflag = {}
    /\ pcM = "startSound"
    /\ tour \in Tours /\ page \in tour.pages /\ faults = tour.faults
    /\ empty = FALSE /\ sel \in tour.games
    /\ mreg = {} /\ why = "boot"
    /\ pcT = [t \in Threads |-> "none"] /\ reg = [t \in Threads |-> {}]
    /\ count = [t \in Threads |-> 0] /\ doing = [t \in Threads |-> {}]
    /\ want = [t \in Threads |-> 0] /\ frame = 0 /\ noThumb = 0
    /\ pcS = "none"
    /\ painted = Blank
    /\ stale = {} /\ lost = FALSE /\ hidden = FALSE /\ hasty = FALSE
    /\ orphan = FALSE

-----------------------------------------------------------------------------
(* Stores of the main thread.                                              *)

(* DisplayThumbnailflag = 1 or 3: whatever was lost is right again, except *)
(* what threads are about to write back, and a thread that should be gone. *)
Set(bits) ==
    /\ flag' = bits
    /\ stale' = Pending
    /\ lost' = (lost /\ Cardinality(Alive) > (IF pcM \in {"startThumb", "game"} THEN 0 ELSE 1))
    /\ hidden' = (/\ Painting # {}
                  /\ hidden \/ "show" \in bits \/ pcM = "startThumb")

(* DisplayThumbnailflag = mreg changed.                                    *)
WriteBack(bits) ==
    /\ flag' = bits
    /\ mreg' = {}
    /\ stale' = Pending
    /\ hidden' = (hidden \/ (Painting # {} /\ "busy" \notin bits))
    /\ UNCHANGED lost

Goto(pc) == pcM' = pc

(* Where a page goes on after a game: all but mui_setting start over.      *)
Back == IF page = "setting" THEN "list" ELSE "enter"

-----------------------------------------------------------------------------
(* main_Menu, and the end of mui_run_game and filelist_run_game: both      *)
(* threads are created; a failure is only logged.                          *)

StartSound ==
    /\ pcM = "startSound"
    /\ sflag' = {"run", "play"}
    /\ \/ pcS' = "loop" /\ faults' = faults
       \/ faults > 0 /\ faults' = faults - 1 /\ pcS' = pcS
    /\ Goto("startThumb")
    /\ UNCHANGED <<flag, tour, page, empty, sel, mreg, why, tvars, hist>>

StartThumb ==
    /\ pcM = "startThumb"
    /\ Set({"run"})
    /\ hasty' = (hasty /\ Alive # {})
    /\ Goto("createThumb")
    /\ UNCHANGED <<svars, tour, page, empty, sel, mreg, why, faults, tvars, orphan>>

(* Names of threads mean nothing: any one will do.                         *)
Unused == CHOOSE t \in Threads : t \notin Alive

(* The register that counts rounds holds whatever was in it.               *)
CreateThumb ==
    /\ pcM = "createThumb"
    /\ \/ /\ Cardinality(Alive) < tour.threads
          /\ pcT' = [pcT EXCEPT ![Unused] = "head"]
          /\ \E n \in 0 .. Period - 1 : count' = [count EXCEPT ![Unused] = n]
          /\ faults' = faults
       \/ /\ faults > 0 /\ faults' = faults - 1
          /\ UNCHANGED <<pcT, count>>
    /\ Goto(IF why = "boot" THEN "enter" ELSE Back) /\ why' = "game"
    /\ UNCHANGED <<flag, svars, tour, page, empty, sel, mreg, reg, doing,
                   slides, painted, hist>>

-----------------------------------------------------------------------------
(* A page: mui_menu, mui_type, mui_recent, mui_shoucang, mui_search,       *)
(* mui_setting.                                                            *)

(* Mutant: the page does not wait for the painter. *)
Enter_NoWait ==
    /\ pcM = "enter"
    /\ Goto(IF page \in Waits THEN "mark" ELSE "list")
    /\ UNCHANGED <<flag, svars, tour, page, empty, sel, mreg, why, faults, tvars, hist>>

Enter ==
    /\ pcM = "enter"
    /\ page \in Waits => "busy" \notin flag
    /\ Goto(IF page \in Waits THEN "mark" ELSE "list")
    /\ UNCHANGED <<flag, svars, tour, page, empty, sel, mreg, why, faults, tvars, hist>>

Mark ==
    /\ pcM = "mark"
    /\ Set({"run"})
    /\ Goto("list")
    /\ UNCHANGED <<svars, tour, page, empty, sel, mreg, why, faults, tvars, hasty, orphan>>

(* The list is shown.  mui_menu asks for a picture even if it is empty,    *)
(* the others do not, and mui_type does not while its tabs have the focus. *)
List ==
    /\ pcM = "list"
    /\ empty' \in IF page \in Pictures \ {"menu"} THEN BOOLEAN ELSE {FALSE}
    /\ IF page \in Pictures /\ ~empty'
       THEN Set({"run", "show"}) /\ UNCHANGED <<hasty, orphan>>
       ELSE UNCHANGED <<flag, hist>>
    /\ Goto("loop")
    /\ UNCHANGED <<svars, tour, page, sel, mreg, why, faults, tvars>>

(* The selection moves: the flag is stored before the index.               *)
Move ==
    /\ pcM = "loop" /\ page \in Pictures /\ ~empty
    /\ Set({"run", "show"})
    /\ Goto("move")
    /\ UNCHANGED <<svars, tour, page, empty, sel, mreg, why, faults, tvars, hasty, orphan>>

MoveSel ==
    /\ pcM = "move"
    /\ sel' \in tour.games
    /\ Goto("loop")
    /\ UNCHANGED <<flag, svars, tour, page, empty, mreg, why, faults, tvars, hist>>

(* It moves past the end of the screen: the index is stored before the     *)
(* flag, and mui_menu starts the slide show anew.                          *)
Scroll ==
    /\ pcM = "loop" /\ page \in Pictures /\ ~empty
    /\ sel' \in tour.games
    /\ Goto("scroll")
    /\ UNCHANGED <<flag, svars, tour, page, empty, mreg, why, faults, tvars, hist>>

ScrollFlag ==
    /\ pcM = "scroll"
    /\ frame' = IF page = "menu" THEN 0 ELSE frame
    /\ Set({"run", "show"})
    /\ Goto("loop")
    /\ UNCHANGED <<svars, tour, page, empty, sel, mreg, why, faults, pcT, reg, count,
                   doing, want, noThumb, painted, hasty, orphan>>

Leave ==
    /\ pcM = "loop"
    /\ page' \in tour.pages /\ empty' = FALSE
    /\ Goto("enter")
    /\ UNCHANGED <<flag, svars, tour, sel, mreg, why, faults, tvars, hist>>

(* mui_recent and mui_shoucang: a window that asks whether to delete.      *)
PopLoad ==
    /\ pcM = "loop" /\ page \in Windows
    /\ "busy" \notin flag
    /\ mreg' = flag
    /\ Goto("popStore")
    /\ UNCHANGED <<flag, svars, tour, page, empty, sel, why, faults, tvars, hist>>

PopStore ==
    /\ pcM = "popStore"
    /\ WriteBack(mreg \ {"show"})
    /\ Goto("popup")
    /\ UNCHANGED <<svars, tour, page, empty, sel, why, faults, tvars, hasty, orphan>>

PopOffLoad ==
    /\ pcM = "popup"
    /\ mreg' = flag
    /\ Goto("popOffStore")
    /\ UNCHANGED <<flag, svars, tour, page, empty, sel, why, faults, tvars, hist>>

PopOffStore ==
    /\ pcM = "popOffStore"
    /\ WriteBack(mreg \union {"show"})
    /\ \/ Goto("loop")
       \/ Goto("enter")
    /\ UNCHANGED <<svars, tour, page, empty, sel, why, faults, tvars, hasty, orphan>>

-----------------------------------------------------------------------------
(* Stopping, choosing a core, running a game.                              *)

(* The user starts a game.  mui_setting starts files, and its way to       *)
(* SeletEmuCore leaves the thumbnail thread alone.                         *)
MayLaunch == pcM = "loop" /\ ~(page = "type" /\ empty)

Select ==
    /\ MayLaunch
    /\ IF page = "setting" THEN Goto("select") /\ why' = why
       ELSE Goto("stopLoad") /\ why' = "select"
    /\ UNCHANGED <<flag, svars, tour, page, empty, sel, mreg, faults, tvars, hist>>

(* mui_run_game; filelist_run_game from mui_setting.  The file is opened   *)
(* before anything is stopped.                                             *)
RunGame ==
    /\ MayLaunch
    /\ Goto("stopSound")
    /\ UNCHANGED <<flag, svars, tour, page, empty, sel, mreg, why, faults, tvars, hist>>

(* SeletEmuCore, then filelist_run_game, whose file may be gone.           *)
Cancel ==
    /\ pcM = "select"
    /\ Goto(IF page = "setting" THEN "list" ELSE "startThumb")
    /\ UNCHANGED <<flag, svars, tour, page, empty, sel, mreg, why, faults, tvars, hist>>

Choose ==
    /\ pcM = "select"
    /\ \/ Goto("stopSound") /\ faults' = faults
       \/ faults > 0 /\ faults' = faults - 1 /\ Goto(Back)
    /\ UNCHANGED <<flag, svars, tour, page, empty, sel, mreg, why, tvars, hist>>

(* The sound thread stores nothing while "run" is set: one step will do.   *)
StopSound ==
    /\ pcM = "stopSound"
    /\ sflag' = sflag \ {"run"}
    /\ orphan' = (pcS = "none")
    /\ Goto("waitSound")
    /\ UNCHANGED <<flag, pcS, tour, page, empty, sel, mreg, why, faults, tvars,
                   stale, lost, hidden, hasty>>

WaitSound ==
    /\ pcM = "waitSound"
    /\ sflag = {}
    /\ orphan' = FALSE
    /\ Goto("stopLoad")
    /\ UNCHANGED <<flag, svars, tour, page, empty, sel, mreg, why, faults, tvars,
                   stale, lost, hidden, hasty>>

StopLoad ==
    /\ pcM = "stopLoad"
    /\ mreg' = flag
    /\ hasty' = (hasty \/ (Alive # {} /\ (page \notin Pictures \/ empty)))
    /\ orphan' = (Alive = {})
    /\ Goto("stopStore")
    /\ UNCHANGED <<flag, svars, tour, page, empty, sel, why, faults, tvars,
                   stale, lost, hidden>>

(* Mutant: the thread is told to stop by an empty flag. *)
StopStore_Zero ==
    /\ pcM = "stopStore"
    /\ WriteBack({})
    /\ Goto("waitThumb")
    /\ UNCHANGED <<svars, tour, page, empty, sel, why, faults, tvars, hasty, orphan>>

StopStore ==
    /\ pcM = "stopStore"
    /\ WriteBack(mreg \ {"run"})
    /\ Goto("waitThumb")
    /\ UNCHANGED <<svars, tour, page, empty, sel, why, faults, tvars, hasty, orphan>>

WaitThumb ==
    /\ pcM = "waitThumb"
    /\ flag = {}
    /\ Goto(why) /\ why' = "game"
    /\ orphan' = FALSE
    /\ UNCHANGED <<flag, svars, tour, page, empty, sel, mreg, faults, tvars,
                   stale, lost, hidden, hasty>>

(* usleep(1000) in a waiting loop.                                         *)
Sleep ==
    /\ \/ pcM = "enter" /\ page \in Waits /\ "busy" \in flag
       \/ pcM = "waitSound" /\ sflag # {}
       \/ pcM = "waitThumb" /\ flag # {}
    /\ UNCHANGED vars

(* mui_video_setting, in the pause menu of the game.                       *)
VideoSetting ==
    /\ pcM = "game"
    /\ "busy" \notin flag
    /\ Set({"run"})
    /\ UNCHANGED <<svars, mvars, tvars, hasty, orphan>>

EndGame ==
    /\ pcM = "game"
    /\ Goto("startSound")
    /\ UNCHANGED <<flag, svars, tour, page, empty, sel, mreg, why, faults, tvars, hist>>

-----------------------------------------------------------------------------
(* mui_DisplayThumbnailThread.                                             *)

Step(t, pc) == pcT' = [pcT EXCEPT ![t] = pc]

(* A store of the thread: main's stores since its load are undone.         *)
Store(t, bits) ==
    /\ flag' = bits
    /\ lost' = (lost \/ (t \in stale /\ bits # flag))
    /\ stale' = stale \ {t}

Round(t) == count' = [count EXCEPT ![t] = (@ + 1) % Period]

(* Mutant: the round counter does not wrap. *)
Head_NoWrap(t) ==
    /\ pcT[t] = "head"
    /\ reg' = [reg EXCEPT ![t] = flag]
    /\ IF "run" \notin flag THEN Step(t, "last") /\ count' = count
       ELSE IF "show" \in flag THEN Step(t, "busy") /\ count' = count
       ELSE Step(t, "clear") /\ count' = [count EXCEPT ![t] = @ + 1]
    /\ UNCHANGED <<flag, svars, mvars, doing, slides, painted, hist>>

Head(t) ==
    /\ pcT[t] = "head"
    /\ reg' = [reg EXCEPT ![t] = flag]
    /\ IF "run" \notin flag THEN Step(t, "last") /\ count' = count
       ELSE IF "show" \in flag THEN Step(t, "busy") /\ count' = count
       ELSE Step(t, "clear") /\ Round(t)
    /\ UNCHANGED <<flag, svars, mvars, doing, slides, painted, hist>>

(* Mutant: a game is painted once. *)
Busy_Once(t) ==
    /\ pcT[t] = "busy"
    /\ IF "started" \notin reg[t]
       THEN /\ Store(t, reg[t] \union {"busy", "started"})
            /\ count' = [count EXCEPT ![t] = 1 % Period]
            /\ frame' = 0
            /\ Step(t, "decode")
       ELSE /\ Step(t, "clear")
            /\ UNCHANGED <<count, frame, flag, lost, stale>>
    /\ hidden' = (hidden \/ (pcM = "mark" /\ pcT'[t] = "decode"))
    /\ UNCHANGED <<svars, mvars, reg, doing, want, noThumb, painted, hasty, orphan>>

(* The first picture of a game is painted at once, the next ones every     *)
(* Period rounds; in between "busy" is set and cleared again at once.      *)
Busy(t) ==
    /\ pcT[t] = "busy"
    /\ IF "started" \notin reg[t]
       THEN /\ Store(t, reg[t] \union {"busy", "started"})
            /\ count' = [count EXCEPT ![t] = 1 % Period]
            /\ frame' = 0
            /\ Step(t, "decode")
       ELSE /\ Round(t) /\ frame' = frame
            /\ IF count[t] = 0
               THEN Store(t, reg[t] \union {"busy"}) /\ Step(t, "decode")
               ELSE Step(t, "clear") /\ UNCHANGED <<flag, lost, stale>>
    /\ hidden' = (hidden \/ (pcM = "mark" /\ pcT'[t] = "decode"))
    /\ UNCHANGED <<svars, mvars, reg, doing, want, noThumb, painted, hasty, orphan>>

(* mui_DisplayThumbnail.  The number of a picture that some game did not   *)
(* have is never looked for again, whatever the game: the frame is blanked.*)
Decode(t) ==
    /\ pcT[t] = "decode"
    /\ want' = [want EXCEPT ![t] = frame]
    /\ IF frame # 0 /\ frame = noThumb
       THEN doing' = [doing EXCEPT ![t] = {Blank}] /\ Step(t, "paint")
       ELSE Step(t, "look") /\ doing' = doing
    /\ UNCHANGED <<flag, svars, mvars, reg, count, frame, noThumb, painted, hist>>

(* The index is read twice, for the archive and for the name: taken as one *)
(* read, since a picture not found for it is one more way to miss.  With   *)
(* no archive nothing is painted.                                          *)
Look(t) ==
    /\ pcT[t] = "look"
    /\ IF sel \in Packed
       THEN doing' = [doing EXCEPT ![t] = {sel}] /\ Step(t, "find")
       ELSE Step(t, "paint") /\ doing' = doing
    /\ UNCHANGED <<flag, svars, mvars, reg, count, slides, painted, hist>>

Find(t) ==
    /\ pcT[t] = "find"
    /\ Step(t, IF \E g \in doing[t] : frame < Shots[g] THEN "paint" ELSE "miss")
    /\ UNCHANGED <<flag, svars, mvars, reg, count, doing, slides, painted, hist>>

(* There is no such picture: the first one is tried next, and if that was  *)
(* it the number asked for at first is remembered.                         *)
Miss(t) ==
    /\ pcT[t] = "miss"
    /\ IF frame = 0
       THEN /\ noThumb' = want[t] /\ frame' = frame
            /\ doing' = [doing EXCEPT ![t] = {Blank}]
            /\ Step(t, "paint")
       ELSE /\ frame' = 0
            /\ Step(t, "find")
            /\ UNCHANGED <<noThumb, doing>>
    /\ UNCHANGED <<flag, svars, mvars, reg, count, want, painted, hist>>

Paint(t) ==
    /\ pcT[t] = "paint"
    /\ IF doing[t] = {} THEN painted' = painted ELSE painted' \in doing[t]
    /\ frame' = IF doing[t] \subseteq {Blank} THEN frame ELSE frame + 1
    /\ doing' = [doing EXCEPT ![t] = {}] /\ want' = [want EXCEPT ![t] = 0]
    /\ hidden' = (hidden /\ Painting # {t})
    /\ reg' = [reg EXCEPT ![t] = flag]
    /\ Step(t, "clear")
    /\ UNCHANGED <<flag, svars, mvars, count, noThumb, stale, lost, hasty, orphan>>

Clear(t) ==
    /\ pcT[t] = "clear"
    /\ Store(t, reg[t] \ {"busy"})
    /\ Step(t, "head")
    /\ reg' = [reg EXCEPT ![t] = {}]
    /\ hidden' = (hidden \/ Painting # {})
    /\ UNCHANGED <<svars, mvars, count, doing, slides, painted, hasty, orphan>>

(* Mutant: the thread goes and the flag stays. *)
Last_KeepsFlag(t) ==
    /\ pcT[t] = "last"
    /\ Store(t, flag \ {"run"})
    /\ Step(t, "none")
    /\ reg' = [reg EXCEPT ![t] = {}]
    /\ count' = [count EXCEPT ![t] = 0]
    /\ hidden' = (hidden \/ Painting # {})
    /\ UNCHANGED <<svars, mvars, doing, slides, painted, hasty, orphan>>

Last(t) ==
    /\ pcT[t] = "last"
    /\ Store(t, {})
    /\ Step(t, "none")
    /\ reg' = [reg EXCEPT ![t] = {}]
    /\ count' = [count EXCEPT ![t] = 0]
    /\ hidden' = (hidden \/ Painting # {})
    /\ UNCHANGED <<svars, mvars, doing, slides, painted, hasty, orphan>>

Display(t) == Decode(t) \/ Look(t) \/ Find(t) \/ Miss(t) \/ Paint(t)
Thread(t) == Head(t) \/ Busy(t) \/ Display(t) \/ Clear(t) \/ Last(t)

(* mui_SoundplayThread: it plays until it sees "run" gone.                 *)
SoundStops ==
    /\ pcS = "loop" /\ "run" \notin sflag
    /\ pcS' = "last"
    /\ UNCHANGED <<flag, sflag, mvars, tvars, hist>>

SoundLast ==
    /\ pcS = "last"
    /\ sflag' = {} /\ pcS' = "none"
    /\ UNCHANGED <<flag, mvars, tvars, hist>>

-----------------------------------------------------------------------------
User == \/ Move \/ Scroll \/ Leave \/ PopLoad \/ PopOffLoad \/ Select \/ RunGame
        \/ Cancel \/ Choose \/ VideoSetting \/ EndGame

Program == \/ StartSound \/ StartThumb \/ CreateThumb \/ Enter \/ Mark \/ List
           \/ MoveSel \/ ScrollFlag \/ PopStore \/ PopOffStore \/ StopSound \/ WaitSound
           \/ StopLoad \/ StopStore \/ WaitThumb

Sound == SoundStops \/ SoundLast

Next == User \/ Program \/ Sleep \/ Sound \/ \E t \in Threads : Thread(t)

Spec == Init /\ [][Next]_vars

(* The three threads are scheduled; the user owes nothing.                 *)
FairSpec == /\ Spec
            /\ WF_vars(Program) /\ WF_vars(Sound)
            /\ \A t \in Threads : WF_vars(Thread(t))

-----------------------------------------------------------------------------
TypeOK ==
    /\ flag \subseteq Bits /\ sflag \subseteq {"run", "play"}
    /\ pcM \in {"startSound", "startThumb", "createThumb", "enter", "mark",
                "list", "loop", "move", "scroll", "popStore", "popup", "popOffStore",
                "stopSound", "waitSound", "stopLoad", "stopStore",
                "waitThumb", "select", "game"}
    /\ tour \in Tours /\ page \in tour.pages /\ empty \in BOOLEAN /\ sel \in tour.games
    /\ mreg \subseteq Bits /\ why \in {"boot", "select", "game"}
    /\ faults \in 0 .. tour.faults
    /\ pcT \in [Threads -> {"none", "head", "busy", "decode", "look", "find", "miss",
                            "paint", "clear", "last"}]
    /\ reg \in [Threads -> SUBSET Bits]
    /\ count \in [Threads -> 0 .. Period - 1]
    /\ doing \in [Threads -> SUBSET (Selections \union {Blank})]
    /\ want \in [Threads -> Nat] /\ frame \in Nat /\ noThumb \in Nat
    /\ pcS \in {"none", "loop", "last"}
    /\ painted \in Selections \union {Blank}
    /\ stale \subseteq Threads
    /\ lost \in BOOLEAN /\ hidden \in BOOLEAN /\ hasty \in BOOLEAN
    /\ orphan \in BOOLEAN

(* While a core is chosen from a list or a game runs, no thumbnail thread  *)
(* lives, and never two at once: unless a store of main was undone, or a   *)
(* stop began on a page that shows no pictures, where clearing the one bit *)
(* leaves 0, the very value main waits for.                                *)
StoppedMeansGone ==
    ~lost /\ ~hasty =>
    /\ Cardinality(Alive) <= 1
    /\ pcM = "select" /\ page # "setting" => Alive = {}
    /\ pcM = "game" => Alive = {}

(* No picture is painted over a window, or over a page that waited for the *)
(* painter, unless main has stored over the bit it waits for (a move does, *)
(* and so does a page whose wait ended just before the painter began), or  *)
(* a second thread has, or a store of main was undone.                     *)
NoForeignPaint ==
    Painting # {} /\ ~lost /\ ~hidden =>
    /\ pcM # "popup"
    /\ ~(pcM = "loop" /\ page \in {"search", "setting"})

(* The waiting loops end, unless the thread to be stopped was never there  *)
(* (it could not be created, or filelist_run_game returned early and left  *)
(* none), or a store of either side was undone: the flag says "run" again, *)
(* or the thread is gone and its last 0 was overwritten, which takes an    *)
(* earlier stop that did not wait for it.                                  *)
StopReturns ==
    /\ pcM = "waitSound" ~> (pcM # "waitSound" \/ orphan)
    /\ pcM = "waitThumb" ~>
         \/ pcM # "waitThumb" \/ orphan
         \/ lost /\ "run" \in flag
         \/ (lost \/ hasty) /\ Alive = {}

(* Where the selection rests its picture appears, or the blank if it has   *)
(* none, although the thread may have taken the game before as the one     *)
(* that was asked for; unless a store was undone, there is no thread, or   *)
(* the slide show has stopped for good on the number that s_no_thumb       *)
(* remembers of a game without pictures: the game at hand may have it, but *)
(* the frame is blanked and the number is not stepped.                     *)
Resting == pcM = "loop" /\ page \in Pictures /\ ~empty
Shown   == sel \in Packed => painted = IF Shots[sel] = 0 THEN Blank ELSE sel
Blanked == painted = Blank /\ noThumb # 0 /\ frame = noThumb
ThumbnailFollows ==
    Resting ~> (Shown \/ ~Resting \/ lost \/ Alive = {} \/ Blanked)
=============================================================================
