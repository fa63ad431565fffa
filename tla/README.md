# Verification of rkgame (1to1)

`rkgame` is the front-end of a small game console: a program of one process that
draws the menus, loads emulator cores (libretro libraries) with `dlopen`, runs
their frames, reads USB and wireless pads, keeps battery saves on an SD card, and
rewrites the console's flash from an update package.  `src/1to1` is a
reconstruction of the maker's binary in C, function by function; two additions,
`upgrade/sram_persist.c` and `upgrade/evdev_gamepad.c`, are compiled in by switches.
These modules model that program.  `src/rkgame-rebuild` and
`src/rkgame-debug-28800` are earlier reconstructions and are not modelled.

File names below are short: `Load_Proc2` is
`src/1to1/src/proprietary/core/FUN_002b5c08_Load_Proc2.c`, and so on.
`PROJECT.json` maps every definition to its file and lines.

## 1. Inventory

The process has a main thread and up to four others, and they share plain global
variables.  Only the display uses a mutex; everywhere else the flags are words that
both sides read, change and write back.

| Component | State | Operations | Interacts with | Module |
|---|---|---|---|---|
| Display hand-over: `InitDisplay`, `dispFlip`, `ScaleDisplayThread` | `DisplayThreadflag`, `Frame_*`, mutex, one condition variable | flip a frame, scale a frame | main thread and scaler thread, `driver.so` | `DisplayHandshake` |
| Battery saves: `sram_persist.c` | `g_core`, `g_gd`, `g_gs`, `g_base`, fingerprint, throttle; the save files | bind, load, flush, poll | called by the game loop, the hot key, `LoadDefaultState`; calls into the core library | `SramPersist` |
| Firmware update: `UpdateROM`, `UpdateROMProc` and the flash driver | flash sectors, security pages, the unpacked image | compare, unpack, verify/erase/write, record, reboot | `main` at start; the heartbeat thread | `FirmwareUpdate` |
| Heartbeat: `XintiaoThread` | `shm` | count up once a second | main creates the memory after the thread may run | in `FirmwareUpdate` |
| Joystick input: `ReadUSBJoy`, `evdev_gamepad.c`, `RF_Joystick_timer_isr`, `ReadJoystickProc`, `ReadJoystick` | descriptors, accumulated keys, back-off, `RF_joy_key`, `TimeCountReg`, `Joy1_Press`, `Joy1_Delay` | open, poll one event, packet, hop, repeat | kernel device nodes, radio thread, every screen | `Joystick` |
| Menu threads: `mui_*` pages, `mui_DisplayThumbnailThread`, `mui_DisplayThumbnail`, `mui_SoundplayThread`, `mui_run_game`, `filelist_run_game`, `SeletEmuCore` | `DisplayThumbnailflag`, `Soundplayflag`, selection, frame number, `s_no_thumb` | show, move, window, stop, run, restart | three threads | `MenuThreads` |
| Frame pacing: the clock in `Load_Proc2` | `FrameCount0`, `initialTicks`, `skipCounter`, `FrameSkip` | wait, run unseen, let off, restart | the game loop, `DrawFrame`, pause menu | `FramePacing` |
| Core and rom loading and the game loop: `FilePreEmu`, `run_game`, `Core_Load`, `FBA_Load`, `Gpsp_Load`, `Load_Proc1`, `Load_Proc2`, `environment`, `PauseMenu` | `ZIP_BUF`, the library, `rotation`, `rotation_buff`, `use_rgb_8888`, the driver's turn and colours, `this_frame` | read the rom, choose, load, refuse, run, pause, resume, leave | zip, cores, `driver.so`, pacing | `GameSession` |
| Favourites and recent games: `shoucang`, `IsShoucang`, `mui_run_game`, `mui_recent`, `mui_shoucang`, `mui_setting` | two list files, the copy of one in memory | put in front, drop, forget one or all | menu pages, the card | `GameLists`, `CardFiles` |
| Save states: `retro_save_state`, `retro_load_state`, `SaveDefaultState`, `LoadDefaultState`, `mui_save_state` | one file per slot and one for the hot key | compress, write, append the picture, read | pause menu, hot key, first frame, the card | `SaveStates`, `CardFiles` |
| Sound mixing: `AudioProcess`, `SoundPlay`, `SoundClose`, `Mp3DecodeLoop` | two slots of `SoundPlayer` | play, decode, mix | main and sound thread | not modelled |
| The rest: settings and key tables, zip files, fonts and drawing, menu log, GPIO, test screens, diagnosis, vendored libraries, build tools | | | | not modelled; the reason of each is in `PROJECT.json` |

What makes each of them hard, and what being correct means:

* **Display.** Two threads wait on and signal *one* condition variable, test the flag
  outside the lock, and write the slot outside the lock.  Correct: no wakeup is lost,
  no frame is overwritten, skipped, drawn twice or made of two frames, `dispFlip`
  returns.
* **Saves.** The statics outlive the library they point into; the card can lose power
  between any two steps; a fingerprint of about 257 bytes decides what is dirty.
  Correct: play reaches the card, a save belongs to its game, an old save is never
  overwritten unread.
* **Update.** Power cuts at every step, flash commands that fail or are ignored, a
  second thread that can kill the process.  Correct: the record says "installed" only
  when the image is; an interrupted update is taken up again; it ends.
* **Input.** Nodes come and go in any order, queues overflow, one event is read per
  poll.  Correct: joy_key follows the pad, keys do not stick, a pad that comes back
  is read.
* **Menu threads.** Unlocked read-modify-write on both sides of two flag words.
  Correct: a stop returns, and then the thread is gone; nobody paints on somebody
  else's page; the selected game's picture appears.
* **Pacing.** Products in a 32-bit word that wraps after some 20 hours, a skip counter
  that is not cleared when the game catches up by waiting.  Correct: the game keeps its
  rate and shows a frame often enough.
* **Session.** Some fifteen globals survive a game; every loader has its own way to give
  up.  Correct: a core gets the rom of its own game, a library is mapped once, the
  screen is as the core asked, the pause menu reads memory that is still there.
* **Card.** Files are emptied and written again, some synced and some not, results are
  not looked at, and names are compared across two encodings.  Correct: the lists say
  what the player chose, a state is the last one saved, a power cut spares the rest, and a card that is full or
  fails costs no more than the file at hand.

`PROJECT.json` lists the hazards one by one, at their lines, with the properties that
cover them.

## 2. The modules and how they correspond to the code

### DisplayHandshake, abstract FrameMailbox, proofs in DisplayProofs

A frame is the number of the `dispFlip` call that shows it.  The actions `Flip...`
are `dispFlip` on the main thread, `Scale...` are `ScaleDisplayThread`; each lock,
locked body and unlock is a step of its own because the flag and the slot are read
outside the lock as well.  The four `Frame_*` fields are separate, so that a torn
frame can be seen.  `Init` starts from the outcomes of `InitDisplay`: direct drawing,
threaded, threaded with no scaler (creation failed; the code only prints a message),
no driver.  `DeinitDisplay` and `Exit` end the program with the scaler still running.

`FrameMailbox` says what the hand-over promises: a mailbox for one frame.
`DisplayHandshake` implements it with `put <- pub`, `taken <- shown`.

Left out: pixels, the direct path's rotation buffer, what happens inside `driver.so`.

### SramPersist, proofs in SramProofs

The main thread through a whole run of the program: choosing a game, `Load_Proc2`
before the first frame, the exit key, the hot key, the poll with its throttle,
`retro_run`, `LoadDefaultState` after the first frame, leaving the game, the next
game, and power cuts at every step.  `FlushOpen` and `FlushWrite` are two steps because
`fopen("wb")` empties the file.  Functions of a closed library crash when called, or
answer with size 0 when the library is still mapped by something else; `dlopen` may
return the old handle (`Places`).  The memory is abstracted to whose play it holds,
the version of the sampled and of the unsampled bytes, and whether bytes were lost.

A save state holds the battery memory with the rest of the machine.  `LoadDefaultState`
loads the hot key's state *before* it reads the `.srm`, the pause menu loads a slot at
any time (`LoadSlot`), and both files are named after the title (`Titles`): a game of the
same title in another folder may have written them.  What a state brings into the memory
in a session is remembered (`brought`), and `FirstGameKeepsApart` takes it as given for
the save of the running game, and for no other.  Of the cores, which are not part of the
program, the model assumes that one refuses the states of another.  The states of the
hot key are not synced and may be lost with the power; `CardFiles` has what else can
happen to the files.

`had` remembers that the file which `fopen` emptied held a whole save:
`PowerCutKeepsSave` is about these, and about the flush that the poll makes while the
game is played. The two channels (`.srm`, `.rtc`) run the same code; the model has one.
A bind that takes another core for the one it had bound, because `dlopen` gave it the
same handle, and survives the call, is remembered (`mistaken`): what that bind reads and
writes is the exception of `ForeignOnlySameCore`.

### FirmwareUpdate, abstract ImageInstall, proofs in FirmwareProofs

`main` from `spi_driver_init` to the menu, with `UpdateROM` and `UpdateROMProc` cut
into the steps between which the power can fail: read the record, unpack, per sector
compare/erase/write with three tries, erase the security pages, write back the
identity, write the record, reboot.  Every erase or write can complete, fail, be
ignored by the chip, or be cut half way.  The heartbeat thread (`Beat`) writes
through `shm`, which is NULL until `ShareMemCreat`.  `ImageInstall` is the promise:
sectors that hold the image keep it, and "installed" is recorded only when all do.

Left out: bytes beyond the end of the image in its last sector; reads that return
wrong data without an error; the counter in the shared memory.

### Joystick, proofs in JoystickProofs

A USB pad with a joydev node and an event node, a wireless pad and its thread, and
the combination and key repetition on the main thread.  `Program` is one pass of
`ReadJoystickProc`: radio key read, `ReadUSBJoy`'s `access` test, the evdev fallback
(open with its one second back-off, one event read, disappearance), joydev open and
read, then `ReadJoystick`.  `Kernel` makes nodes appear and vanish in any order,
`RFThread` is `RF_Joystick_timer_isr` with its wrapping 16-bit counter.  The second
byte of a radio packet is read into a one-byte local and its keys taken from a
variable never assigned: the model lets the keys be anything in that byte.

Left out: three of the four slots and all but one radio channel (the same code side
by side), key tables, the initial events of joydev, SYN events.

### MenuThreads, proofs in MenuProofs

The two flag words as sets of bits, `run`, `show`, `started`, `busy`.  On the main
thread every load and store of `DisplayThumbnailflag` is a step (`StopLoad` and
`StopStore` are `DisplayThumbnailflag & 0xfe`); so are the load (`Head`), the stores
(`Busy`, `Clear`, `Last`) and the painting of `mui_DisplayThumbnailThread`.  Pages
differ only in what they do with the flags: whether they wait for the painter, show
pictures, open windows.  `filelist_run_game`, `mui_run_game`, `SeletEmuCore` and
`main_Menu` stop and create the threads; `pthread_create` may fail, a file may have
gone.  `mui_DisplayThumbnail` is cut where it reads or writes what main also writes:
`Decode` takes the frame number (`want_idx`) and looks at `s_no_thumb`, `Look` reads the
selection and opens the archive, `Find` and `Miss` search it for the picture of that
number, `Paint` draws it and steps the number; `Scroll` and `ScrollFlag` are the two
halves of a move that scrolls the list of `mui_menu`.  A game has `Shots` pictures; of a
game whose archive does not open nothing is painted.  There is no time in the model: a sleeping thread may sleep arbitrarily long,
which is what `usleep` allows.

What the model shows of the code, beyond the properties that hold:

* A thread that loaded the flag before `StopStore` can write `run` back (`lost`): main
  then waits for a thread that was never asked to stop.
* On search, settings and empty lists the flag is `run` alone; clearing it leaves 0,
  the value that means "gone" (`hasty`): main goes on, and may create a second thread
  while the first still lives.
* A move of the selection stores 3 and wipes `busy`; and between a page's wait for the
  painter and its store of 1 the thread may set `busy`; and of two threads that live at
  once, one wipes the `busy` of the other (all `hidden`): windows and pages are then
  painted over.
* After a stop that passed early, the thread's last store of 0 can fall between main's
  load and store of the next stop: main writes the old bits back and waits for ever
  (the lost update in the other direction, again under `hasty`).
* A thread that could not be created leaves its flag set; the next stop waits for
  ever (`orphan`).
* `s_no_thumb` remembers the number of a picture that was not found, and not the game.
  If the frame number of the game at hand has that value, its picture is skipped, the
  field is blanked, and the number is not stepped, so that it stays blank (`Blanked`),
  until the selection moves.  The comment at `mui_DisplayThumbnail:86` says that skipping
  changes nothing that can be seen; that is so for the game it was found missing for.

Of the others the source states nothing to the contrary, so these are exceptions named
in the properties and not findings; the properties say that *nothing else* goes wrong.

### FramePacing, proofs in PacingProofs

One look of `Load_Proc2` at the clock is one action, `Pace(t)`: the frame is early
(`Early`: `usleep` until it is due, and the skip counter keeps its value), late
(`Late`: run and not shown, at most `maxSkips` in a row) or on time or too late
(`LetOff`: shown, the arrears forgotten).  `Due` and `DueAt` keep the code's products in
a word of `Word` values.  `Restart` is the start of a game, the end of its first frame
and the return from the pause menu.  `Unwrapped` names the time in which no product has
wrapped; after it the model shows what the hazard says: the game runs unpaced, or
nothing is shown until the player opens the pause menu.

### GameSession, extending FramePacing, proofs in SessionProofs

One game after another.  `Start` is `mui_run_game` with `FilePreEmu` and `run_game`,
`StartChosen` the page that lists the cores with `filelist_run_game`; `LoadFails`,
`Refused`, `NoRegion` and `Loaded` are `Core_Load`, `FBA_Load` (which tries core after
core) and `Gpsp_Load` with `Load_Proc1`; `Frame`, `FirstDone`, `Pause`, `Resume`,
`Quit` and `KeyOff` are the loop of `Load_Proc2` and `PauseMenu`.  A frame is paced by
`AnyPace` of `FramePacing`, the same variables; `Spec` therefore implements
`PacingSpec`.  What is fixed while the console is on (how a game lies on the card, what
a core asks of the screen and which function it lacks, the list of cores, soft
rotation, whether files and memory may fail) is one record, `Setup`.

What the model shows of the code, beyond the properties that hold, and what the
properties therefore name as exceptions:

* `mui_run_game` ignores `FilePreEmu`'s result and does not free `ZIP_BUF` after an
  assigned core: the next game that cannot be read is started with the rom before it
  (`unread`); a file that `UnzipItem` could not unpack is loaded all the same (`Raw`).
* `filelist_run_game` looks for the name of the core at 0x304 bytes after the path it
  was given; what lies there is the compiler's choice, and the model takes each.
* What a core asked of the screen is not always put back: by `Gpsp_Load` never, by
  `FBA_Load` not the colours, by `Core_Load` not `rotation`; a core that does not ask
  finds what the one before left (`found`).  Under soft rotation, leaving the pause menu
  turns the driver as well as the frame (`resumed`).  A core that asked for a turn and
  then refuses the game leaves the menu turned (`refused`): the turn is undone after
  `Load_Proc2`, which is not reached.
* A library that was abandoned half way (`Abandons`, `NoRegion`) stays mapped, with the
  statics of its last game; `Tidy` names the cores for which this cannot happen: their
  functions are all there, or the loaders that try them close the library when they miss
  one, and `Gpsp_Load`'s core refuses no game.
* If the pacing skips every frame after a pause, the next pause reads the frame that
  the first one freed; `PausePicture` says how many frames rule it out.

### Card, GameLists, SaveStates, CardFiles, proofs in CardProofs

`Card` is the memory card: what the program sees (`card`) and what a power cut would
leave (`disk`), with write-back in part or whole at any time, and `Fsync`.  `GameLists`
and `SaveStates` extend it with the files they keep, and `CardFiles` composes the two:
main changes a list in the menu or a state in a game, one at a time, and the power may
go between any two steps and in the middle of a rewrite (`busy`).

A list is a sequence of lines, the last of which a cut may leave torn.  A line is found
by `strcmp` of the UTF-8 name with the GB2312 name in the file: the games of `Wide`,
whose names differ, are never found (`Same`), so that they are never dropped from a
list, and `ListsAsChosen` promises nothing of them.  `Kept` is the loop that copies the
lines of a file but some.  `IsShoucang` reads a
copy of the file in memory (`cache`) and `shoucang` the file.  Nobody looks at what
`fprintf`, `fflush` and `fsync` return.  A rewrite on a full card leaves any part of the
list, for good (`short`); after a failed `fsync` the card may be behind with the file
(`late`), and that ends only with the next `fsync` of it that succeeds.  A list that
cannot be opened to be written (`Unopened`) is left as it is: forgetting all of it is
skipped, and every other change writes through a null pointer, so that the program dies
and is started again.  Of `short` lists `ListsAsChosen` says that they hold the beginning
of what was chosen, and that the next change goes on from there; `CutSpares` leaves out
the files in `late`.  The model assumes that a list which exists can be read.  A state file holds the
number of the state; several games share one when they have the same title.
`retro_save_state` may be cut short (the state does not compress into its own size, the
card is full) or write nothing, and says success; a slot is synced by the picture that
`mui_save_state` appends, the file of the hot key never (`doubt`).

## 3. Runs

Passing runs:

| Run | Configuration | Shows |
|---|---|---|
| `display` | all four outcomes of `InitDisplay`, four flips, spurious wakeups | `NoLostWakeup`, `SlotStable`, `FrameNotTorn`, the refinement `OneFrameInFlight` with liveness `EveryFrameShown`, and `FlipReturns` |
| `sram` | two games of one core or of two, two sessions, two places of `dlopen`; one title with the hot key's state or with a slot; fairness | `ForeignOnlySameCore`, `FirstGameKeepsApart`, `ExitSaves`, `SampledDurable`, `OverwriteWindow`, and that a change reaches the card, `ChangesReachCard` |
| `firmware` | two sectors, every kind of package, two flash errors, one power cut, both kinds of chip | `RecordedMeansInstalled`, the refinement `InstallsImage`, `GoodPackageInstalled`, `StartEnds` |
| `joystick` | five setups: with and without the fallback, hat and stick, wireless | `NoGhostKeys`, `RepeatCadence`, `Settles`, `RecoversIfNoticed`, `SilentPadReleases` |
| `menu` | every page with one thread; the slide show of games with two pictures, none, and no archive; two threads at a time on one page | `StoppedMeansGone`, `NoForeignPaint`, `StopReturns`, `ThumbnailFollows` |
| `session` | two games, three cores, 32 setups of cards, loaders and screens, a clock that goes past the wrap | `RomOfTheGame`, `BalancedCores`, `ScreenAsAsked`, `PausePicture`, `Paced` |
| `card` | three games of one title, two lists, two states; saves, lists cut short, failed fsyncs and power cuts at any step | `ListsAsChosen`, `StateAsSaved`, `CutSpares` |

Each also checks its module's `TypeOK`.

Runs that exhibit a disagreement between the code and what its comments say:

| Run | Property | What happens |
|---|---|---|
| `sram_first_run` | `ReadBackBeforeFirstRun` | `Load_Proc2:62` says the save is read before the first `retro_run`; for the first game `g_base` is still empty, and it is read after it |
| `sram_stale` | `CallsWhileAlive` | the second game starts by calling the functions of the first one's closed core |
| `sram_cut` | `PowerCutKeepsSave` | the card holds a whole save; the periodic flush, meant against power cuts (`cgm_upgrade.h:28`), empties it first, and a cut then leaves neither the old save nor the new one |
| `firmware_heartbeat` | `UpdateReturns` | the heartbeat thread started by `UpdateROMProc` writes through a pointer that is set only after the update |
| `joystick_replug` | `PadComesBack` | a pad pulled and back between two polls is never noticed: the descriptor stays on the removed device |

## 4. Bounds, and why they are enough

* `MaxFlips = 4`: the slot is reused, the scaler lags behind, both sides wait and wake
  in every order; the fifth flip meets states that differ only in the frame number.
  `DisplayProofs` removes the bound for safety.
* `starts` of each set-up of `MCSram`, one or two games between two power cuts; two
  games, two contents of the sampled and of the unsampled bytes: a stale static needs one
  game before, and a lost change needs one change after a flush.  Two places: the second
  library lands on the old handle or beside it.  Two titles or one; `kinds` of a set-up
  says which of the two states the player uses, because their product is too large: with
  one title, one start and power cuts in between, the other game has written the state
  before.  Power cuts are not bounded.  `SramProofs` holds for any set-ups, games, cores,
  titles, places and sessions.
* `N = 2` sectors: one written and one not; the third try and its unread write are
  there (`Tries = 3` is the code's).  `MaxFaults = 2` reaches two errors in one sector
  or in two; `MaxCuts = 1` at any step, and a restart is an unlimited number of starts.
  `FirmwareProofs` holds for any `N`, `MaxFaults`, `MaxCuts`.
* `QueueSize = 2`, `MaxPlugs = 2`, two changes of the pad: an overflow, an exchange of
  pads with keys held, and a press and its release.  `RepeatAt`, `RepeatFrom`,
  `RFTimeout` and `TimerSize` are scaled down; the code's values are in the comments
  and only lengthen the same path.  `TimerSize` must exceed `RFTimeout + 1`, as 0x10000
  exceeds 0x100.  `JoystickProofs` holds for any of these numbers and for any setups.
* `Period = 2` for 0x40 rounds between two pictures: a picture and a round without
  one.  Two thread names: a third thread needs a second early stop and meets nothing
  new.  The combinations are in `MCMenu` and `MCJoystick` as tours and setups, because
  their full product is too large; the tours keep every page with one thread and one
  fault, two threads wherever a stop can pass early, and the slide show of games with
  different numbers of pictures on each page that shows them (two threads only with an
  archive that does not open).  Two pictures: the number after the last one is missed
  once at 2 and starts over.  `MenuProofs` holds for any tours, threads, faults, `Period`,
  and pictures.
* `Fps = 2`, `Second = 3`, `Word = 24`, `MaxElapsed = 14`: a frame is due at times that do
  not divide evenly, and the products wrap before `MaxElapsed`, so that both sides of
  `Unwrapped` are reached.  `maxSkips = 2` is the code's.  `MaxRun = 4` is longer than
  the two frames that are skipped at most, so that `LetOff` forgets arrears.
  `PacingProofs` holds for any rate, second and word.
* `MaxMapped = 2`: once more than a game needs; more would repeat it.  The product of
  all cards, cores and settings is too large, so `MCSession` takes the combinations that
  bring out one part at a time: a rom left behind, each missing function with each
  loader, each pair of requests to the screen under both settings.  `SessionProofs`
  holds for any set of such combinations, and so for the product.
* `MaxLines = 2`, three games: a game is put before another, dropped from behind it, a
  list loses its end and gets a torn line, a state replaces one of another game.
  `MaxEvents` bounds states saved, lists cut short, failed fsyncs and power cuts
  together, because their product with the lists is too large; of its 3 a set-up of
  `MCCard` allows two with three games (a fault and the cut that shows it, a state saved
  over that of another game), three with one game (a state saved over another, or with a
  failed fsync, and a cut).  All games share one title, the case in which files are
  shared; one has a wide name.  `CardProofs` holds for any names, games, lengths and
  numbers of events.

## 5. Fairness

* `DisplayHandshake`: the kernel runs a runnable thread (weak fairness of both), and a
  mutex taken again and again by the other thread is handed over eventually (strong
  fairness of the lock steps).  Nothing makes the caller flip again.
* `SramPersist`: the program and the clock advance while the power is on; nothing makes
  the player leave or the power fail.
* `FirmwareUpdate`: the process runs while the power is on, and a dead console is
  switched off and on.
* `Joystick`: nodes follow the plug, the program polls again and again, the radio
  thread runs, time passes.  Nothing is asked of the player.
* `MenuThreads`: the three threads are scheduled; nothing is asked of the user.
* `GameSession` and `CardFiles` state safety only and no fairness.  The run `session` does
  not check for deadlock, because a console that crashed stays as it is, and the clock
  stops at its bound.

## 6. What is proved

`DisplayProofs` proves, for any `MaxFlips`, any set of `InitOutcomes` and with spurious
wakeups or without: `TypeOK`, `NoLostWakeup`, `SlotStable`, `FrameNotTorn`,
`RaceWindow`, `FrozenWithoutScaler` and the refinement `OneFrameInFlight`.  None of the
safety properties is inductive.  `IInv` adds who is inside a critical section
(`MutexInv`), that a frame is pending exactly between `FlipPublish` and `ScaleClear`
and that the slot then holds it (`PendingInv`), and that the scaler knows of a pending
frame through the mutex or is in the race window (`OrderInv`).  `CInv` adds that flips
are published one by one after the last was drawn; the refinement rests on it, with
one step per action mapped to `Put`, `Take`, `Close` or a stutter.

`FirmwareProofs` proves, for any number of sectors, errors and power cuts: `TypeOK`,
`VerifiedPrefix`, `RecordedMeansInstalled`, `InstalledSectorsKept` and the refinement
`InstallsImage`.  The strengthening says that, unless the update is spoiled, the buffer
is the image (`SoundBuffer`), a sector is erased or written only while it is not the
image's (`OnlyBadSectors`), and the record is rewritten only when the image is complete
(`RecordingInstalled`).  `OnlyBadSectors` is what makes an interrupted erase harmless.

`PacingProofs` proves, for any rate, second, word and number of skips, that `PacingSpec`
implies `Paced`.  `Paced` is not inductive: an early frame leaves the skip counter, and
with it `FrameSkip`, as it is.  `Behind` adds that the frames not shown are those the
counter counts, and that the game is behind the clock while the counter is not 0, so
that an early frame finds it at 0; the lemmas on products, `\div` and `%` (`MulMono`,
`DivAtLeast`, `DueMono`, `WaitEnough`) carry the arithmetic.

`SessionProofs` proves, for any games, cores, setups and clock: that every step of a
session is a step of the clock or leaves it alone (`SessionPaces`), hence `Paced`;
`PausePicture`, from the number of frames run unseen (`Unshown`); `RomOfTheGame`, from
whose buffer `ZIP_BUF` can be after each loader; `TypeOK`, `BalancedCores` and
`ScreenAsAsked`.  The types need more than themselves: a library is counted down only
if it was counted up (`Counts`), and the core at the head of the queue is one that the
loader at work may try (`Queues`).  `BalancedCores` is inductive on top of these.
`ScreenAsAsked` is not: `Shown` says separately of the colours (`Coloured`) and of the
turn (`Oriented`) what the core asked for, what was `found`, and, while a game is being
loaded, that `found` is what the one before left.  Of a turned frame it must say who
turns it, the driver or `DrawFrame`, and that changes when the pause menu is left.

`SramProofs` proves, for any games, cores, places of `dlopen`, and number of sessions
between two power cuts: `TypeOK`, `ForeignOnlySameCore`, `OverwriteWindow`, `ExitSaves`,
`FirstGameKeepsApart` and `SampledDurable`. All rest on what the statics may say of a
library that is gone (`Binding`): a bound function belongs to the core of the game whose
base is set, unless a bind was mistaken, and a flush under way uses the library that is
mapped. `Mixing` adds whose play the memory holds, and that a state's is of games of its
core (`OfOneCore`), so that what a state brings is of the core that loads it;
`AfterFirst`, that after the first frame the base, the handle and the functions are the
running game's; `FirstGame` and `Fingerprint`, that, but for what was `brought`, the
memory is the game's own, and in the first game after power-up the fingerprint is that
of the file. `SampledDurable` says no more than the first game because in the second the
fingerprint may be that of another file.

`JoystickProofs` proves, for any sizes, limits and setups: `TypeOK`, `RepeatCadence` and
`NoGhostKeys`.  `Cadence` relates the calls since a key went down to `Joy1_Delay`, before
the first repetition and from one repetition to the next.  `NoGhostKeys` speaks of
empty queues and is far from inductive; `Follows` says it of a queue of any length: the
newest event of each control says where the control is now, and a control of which no
event waits is where the keys say.  Both queues follow the hand while the descriptor is
the present pad's and the kernel dropped nothing (`Joydev`, `Evdev`).

`MenuProofs` proves, for any tours of the pages, number of threads, faults and rounds:
`TypeOK`, `StoppedMeansGone` and `NoForeignPaint`.  `Tame` says that, outside the
exceptions, at most one thumbnail thread lives, that whatever it has loaded is still
the flag, and that main asks it to stop only while the flag holds `show`, so that 0 can
only be its last word.  `Painter` follows the painter: it is marked in the flag or
`hidden`, a loop of main that waits for it has seen the mark go, and on a page or
under a window where nothing may be painted no thread is asked, or was asked and has
not answered.  `Drawing` treats the steps of the slide show as one: they touch no flag.

`CardProofs` proves, for any games, file names, lengths and number of events: that outside
a rewrite, and unless the last `fsync` failed, the card holds what the program sees of
every list and of every slot not in doubt (`Synced`), and from it the action property `CutSpares`; `StateAsSaved`, with who
was told that a file holds a state (`Told`); `TypeOK`; and `ListsAsChosen`, with
`ListsInv`: what is known of each file is what was chosen, or of a list that was cut
short the beginning of it (`KnownParts`: what is known of a part of a list is a beginning
of what is known of the list), and the copy that `IsShoucang` asks is not behind.  The last is about sequences of any length.  `Kept` is a
recursive function over the lines read, and not `SelectSeq`, whose definition the
provers cannot use; what it does to an empty list, to one line more and to two lists
put together is proved by the least length at which it would fail (`FromZero`,
`SeqsFromEmpty`), an induction over a set of numbers that needs no operator as its
parameter.

The proofs use only the named assumptions on the constants in the modules, which TLC
evaluates in the runs.  They are of three kinds: constants that count are numbers, and
those that divide are not 0; setups, tours and pads are records of the right types
(`CoreAssumption`, `SessionAssumption`, `TourAssumption`, `SetupAssumption`, and of
`FilesAssumption` the set-ups), and pictures are numbered (`ShotAssumption`); and names
that the models keep apart are apart (`NoneAssumption`, `StatesAssumption`,
`FilesAssumption`).  Two speak of the program: `SessionAssumption` has `FBA_Load` always
find a core to try, as its table is not empty; in `SizeAssumption` the radio's time-out
is shorter than its counter, as 0x100 is than 0x10000.

Every invariant and every action property that the passing runs check is a theorem of
its specification.  Only model-checked: the liveness properties, because fairness is out
of the provers' reach (`EveryFrameShown`, `FlipReturns`, `ChangesReachCard`,
`GoodPackageInstalled`, `StartEnds`, `Settles`, `RecoversIfNoticed`, `SilentPadReleases`,
`StopReturns`, `ThumbnailFollows`).  The five disagreements of section 3 are shown by the
counterexamples of their runs.

## 7. Plan

Done: `DisplayHandshake` with `FrameMailbox`, `SramPersist` in one run, `FirmwareUpdate`
with `ImageInstall`, `Joystick`, `MenuThreads`, `FramePacing` and `GameSession`, `Card`,
`GameLists`, `SaveStates` and `CardFiles`; and the proofs of all their safety properties.

Next, in this order:

1. An abstract specification of the stop protocol for `MenuThreads` and of a durable
   store for `SramPersist` and `CardFiles`, with the refinements proved: `Tame` and
   `Synced` are the invariants they need.
2. The two sound slots of `SoundPlayer`, composed with the sound thread of
   `MenuThreads`: main fills a slot while the thread plays it.
3. The turbo keys of the input callback, and the menu log as one more file of the card.

## 8. Not modelled, and why

Drawing, fonts, text conversion, list layout and the search key pad produce output no
other component reads.  Parsing of settings, key tables and zip files is sequential and
easy to test; their outcomes (no package, a package that does not unpack, a threaded
display) are choices of the models that depend on them.  `driver.so` and the cores are
closed libraries: the models assume of them only what the code calls them for.  The
vendored libraries, the diagnosis code, the probes and the build tools are not part
of the running program's logic.
