---------------------------- MODULE FirmwareUpdate ----------------------------
(***************************************************************************)
(* UpdateROM and UpdateROMProc: at every start main compares the package   *)
(* update/firmware.upk on the card with the checksum kept in a security    *)
(* page of the flash, rewrites the sectors that differ, records the new    *)
(* checksum and reboots.  The steps are cut where the power can fail, a    *)
(* flash command can fail, or the heartbeat thread can kill the process.   *)
(*                                                                         *)
(* A sector holds the image's data ("new"), other data ("old"), 0xff       *)
(* ("blank") or an interrupted write ("part").  Bytes past the end of an   *)
(* image that is not a whole number of sectors are not modelled.           *)
(***************************************************************************)
EXTENDS Integers

CONSTANTS
    N,                 \* sectors of the image
    Packages,          \* states of update/firmware.upk to start from
    FlipResults,       \* may dispFlip return a value other than 0?
    HeartbeatStarts,   \* outcomes of pthread_create in UpdateROMProc
    MaxFaults,         \* bound: flash, memory and unpacking errors
    MaxCuts            \* bound: power cuts while the program works

(*   absent   not there, or not readable     foreign  does not begin "WQW" *)
(*   damaged  OpenZipU fails                 empty    has no first entry   *)
(*   corrupt  the entry does not unpack      good     unpacks to the image *)
PackageKinds == {"absent", "foreign", "damaged", "empty", "corrupt", "good"}

ASSUME NAssumption         == N \in Nat \ {0}
ASSUME PackagesAssumption  == Packages \subseteq PackageKinds
ASSUME FlipAssumption      == FlipResults \subseteq BOOLEAN
ASSUME HeartbeatAssumption == HeartbeatStarts \subseteq BOOLEAN
ASSUME BoundsAssumption    == MaxFaults \in Nat /\ MaxCuts \in Nat

Sectors == 0 .. N - 1
Tries   == 3                        \* local_48
Data    == {"old", "new", "blank", "part"}
Records == {"old", "new", "zero", "blank", "junk"}
Points  == {"boot", "update", "open", "start", "verify", "erase", "write",
            "proved", "record", "erasePages", "writeId", "writeRecord",
            "reboot", "done", "menu", "exit", "dead"}

VARIABLES
    xt,        \* spi_id[0] = 0x0b: record and identity share an erase block
    pkg,       \* the package on the card
    flash,     \* contents of the image's sectors
    rec,       \* checksum in the security page 0x100 or 0x2000
    id,        \* the page spi_driver_init checks: 0 or 0x1000
    pc,        \* program point of main, UpdateROM, UpdateROMProc
    crc,       \* *__ptr: the checksum as UpdateROM read it
    spare,     \* __ptr + 0x40: page 0 as read back before the erase
    buf,       \* __s: the unpacked image
    cur,       \* sector at hand
    tries,     \* attempts left for it
    shm,       \* what the heartbeat's pointer points to
    beats,     \* heartbeat threads running
    faults, cuts,
    (* history *)
    spoiled,   \* an update gave up, or was fed a short image
    killed     \* a heartbeat killed the process

main    == <<xt, pkg>>
work    == <<crc, spare, buf, cur, tries>>
threads == <<shm, beats>>
history == <<spoiled, killed>>
vars    == <<xt, pkg, flash, rec, id, pc, work, threads, faults, cuts, history>>

Installed == \A s \in Sectors : flash[s] = "new"
Unset     == [s \in Sectors |-> "blank"]

Init ==
    /\ xt \in BOOLEAN
    /\ pkg \in Packages
    /\ flash \in [Sectors -> {"old", "new"}]
    /\ rec \in {"old", "blank", "new"}
    /\ rec = "new" => Installed
    /\ id = "ok"
    /\ pc = "boot"
    /\ crc = "junk" /\ spare = "bad" /\ buf = Unset
    /\ cur = 0 /\ tries = Tries
    /\ shm = "null" /\ beats = 0
    /\ faults = 0 /\ cuts = 0
    /\ spoiled = FALSE /\ killed = FALSE

(* One more error, within the bound.                                       *)
Fault   == faults < MaxFaults /\ faults' = faults + 1
NoFault == faults' = faults
Goto(p) == pc' = p

SetSector(d) == flash' = [flash EXCEPT ![cur] = d]

(* Programming can only clear bits: over anything but 0xff it gives a mix, *)
(* unless what is there is the beginning of the same data.                 *)
Programmed(c, d) ==
    IF d = "blank" THEN {c}
    ELSE IF c = "blank" THEN {d}
    ELSE IF c = "part" THEN {"part", d} ELSE {"part"}

(* The contents of the sector when an erase or a write did not complete.   *)
HalfErased  == {flash[cur], "part", "blank"}
HalfWritten == {flash[cur]} \cup Programmed(flash[cur], buf[cur])
                 \cup (IF buf[cur] = "blank" THEN {} ELSE {"part"})

-----------------------------------------------------------------------------
(* Deliberately wrong variants of the actions below, to test the           *)
(* properties with; no specification of this module uses them.             *)
Start_RecordsFirst ==      \* mutant: the checksum is recorded up front
    /\ pc = "start"
    /\ \E up \in HeartbeatStarts : beats' = IF up THEN beats + 1 ELSE beats
    /\ cur' = 0
    /\ tries' = Tries
    /\ Goto(IF pkg = "empty" THEN "proved" ELSE "verify")
    /\ rec' = "new"
    /\ UNCHANGED <<main, flash, id, crc, spare, buf, shm, faults, cuts,
                   history>>

SectorEqual_OffByOne ==      \* mutant: the last sector is not looked at
    /\ pc = "verify"
    /\ flash[cur] = buf[cur]
    /\ cur' = cur + 1
    /\ tries' = Tries
    /\ Goto(IF cur + 2 >= N THEN "proved" ELSE "verify")
    /\ UNCHANGED <<main, flash, rec, id, crc, spare, buf, threads, faults,
                   cuts, history>>

NextTry_CountsTwice ==      \* mutant: a failed try is counted twice
    /\ tries' = tries - 2
    /\ Goto(IF tries = 1 THEN "record" ELSE "verify")
    /\ spoiled' = (spoiled \/ tries = 1)

WriteRecord_Dropped ==      \* mutant: the new checksum is not written
    /\ pc = "writeRecord"
    /\ Goto("reboot")
    /\ UNCHANGED <<main, flash, rec, id, work, threads, faults, cuts, history>>

-----------------------------------------------------------------------------
(* main: spi_driver_init accepts the console when the identity page reads  *)
(* back and matches; otherwise main closes down.                           *)
SpiDriverInit ==
    /\ pc = "boot"
    /\ \/ id = "ok" /\ Goto("update") /\ NoFault
       \/ id # "ok" /\ Goto("exit") /\ NoFault
       \/ Goto("exit") /\ Fault
    /\ UNCHANGED <<main, flash, rec, id, work, threads, cuts, history>>

(* UpdateROM, up to OpenZipU: no package, or not one of ours.              *)
NoPackage ==
    /\ pc = "update"
    /\ pkg \in {"absent", "foreign"}
    /\ Goto("done")
    /\ UNCHANGED <<main, flash, rec, id, work, threads, faults, cuts, history>>

(* The recorded checksum is read into fresh memory, the result ignored.    *)
ReadRecord ==
    /\ pc = "update"
    /\ pkg \notin {"absent", "foreign"}
    /\ \/ crc' = rec /\ NoFault
       \/ crc' \in Records /\ Fault
    /\ Goto("open")
    /\ UNCHANGED <<main, flash, rec, id, spare, buf, cur, tries, threads,
                   cuts, history>>

(* OpenZipU fails, the entry's checksum is the recorded one, or there is   *)
(* no memory for the image.                                                *)
NothingToDo ==
    /\ pc = "open"
    /\ \/ pkg = "damaged" /\ NoFault
       \/ pkg \in {"good", "corrupt"} /\ crc = "new" /\ NoFault
       \/ pkg \in {"good", "corrupt"} /\ crc # "new" /\ Fault
    /\ Goto("done")
    /\ UNCHANGED <<main, flash, rec, id, work, threads, cuts, history>>

(* UnzipItem into a buffer of 0xff; nobody looks at its result.            *)
Unpack ==
    /\ pc = "open"
    /\ pkg \in {"good", "corrupt"} /\ crc # "new"
    /\ \E k \in 0 .. N :
         /\ buf' = [s \in Sectors |-> IF s < k THEN "new" ELSE "blank"]
         /\ \/ pkg = "good" /\ k = N /\ NoFault
            \/ pkg = "good" /\ k < N /\ Fault
            \/ pkg = "corrupt" /\ k < N /\ NoFault
         /\ spoiled' = (spoiled \/ k < N)
    /\ Goto("start")
    /\ UNCHANGED <<main, flash, rec, id, crc, spare, cur, tries, threads,
                   cuts, killed>>

(* GetZipItemA fails: UpdateROMProc is called with no image.               *)
NoEntry ==
    /\ pc = "open"
    /\ pkg = "empty"
    /\ Goto("start")
    /\ UNCHANGED <<main, flash, rec, id, work, threads, faults, cuts, history>>

-----------------------------------------------------------------------------
(* UpdateROMProc.                                                          *)
Start ==
    /\ pc = "start"
    /\ \E up \in HeartbeatStarts : beats' = IF up THEN beats + 1 ELSE beats
    /\ cur' = 0
    /\ tries' = Tries
    /\ Goto(IF pkg = "empty" THEN "proved" ELSE "verify")
    /\ UNCHANGED <<main, flash, rec, id, crc, spare, buf, shm, faults, cuts,
                   history>>

(* The sector reads back equal to the image: on to the next one.           *)
SectorEqual ==
    /\ pc = "verify"
    /\ flash[cur] = buf[cur]
    /\ cur' = cur + 1
    /\ tries' = Tries
    /\ Goto(IF cur + 1 = N THEN "proved" ELSE "verify")
    /\ UNCHANGED <<main, flash, rec, id, crc, spare, buf, threads, faults,
                   cuts, history>>

SectorDiffers ==
    /\ pc = "verify"
    /\ flash[cur] # buf[cur]
    /\ Goto("erase")
    /\ UNCHANGED <<main, flash, rec, id, work, threads, faults, cuts, history>>

(* spi_read fails: give up at once, with 0xffffffff.                       *)
ReadFails ==
    /\ pc = "verify"
    /\ Fault
    /\ Goto("record")
    /\ spoiled' = TRUE
    /\ UNCHANGED <<main, flash, rec, id, work, threads, cuts, killed>>

(* local_48--; at 0 "Update fail." and 0xffffffff, even if the last write  *)
(* was good: it is never read back.                                        *)
NextTry ==
    /\ tries' = tries - 1
    /\ Goto(IF tries = 1 THEN "record" ELSE "verify")
    /\ spoiled' = (spoiled \/ tries = 1)

EraseSector ==
    /\ pc = "erase"
    /\ SetSector("blank")
    /\ Goto("write")
    /\ UNCHANGED <<main, rec, id, work, threads, faults, cuts, history>>

(* snor_write_en failed unnoticed: the chip ignores the erase.             *)
EraseIgnored ==
    /\ pc = "erase"
    /\ Fault
    /\ Goto("write")
    /\ UNCHANGED <<main, flash, rec, id, work, threads, cuts, history>>

EraseFails ==
    /\ pc = "erase"
    /\ Fault
    /\ \E d \in HalfErased : SetSector(d)
    /\ NextTry
    /\ UNCHANGED <<main, rec, id, crc, spare, buf, cur, threads, cuts, killed>>

WriteSector ==
    /\ pc = "write"
    /\ \E d \in Programmed(flash[cur], buf[cur]) : SetSector(d)
    /\ NextTry
    /\ UNCHANGED <<main, rec, id, crc, spare, buf, cur, threads, faults, cuts,
                   killed>>

(* A page write fails, with an error that ends the loop or unnoticed.      *)
WriteFails ==
    /\ pc = "write"
    /\ Fault
    /\ \E d \in HalfWritten : SetSector(d)
    /\ NextTry
    /\ UNCHANGED <<main, rec, id, crc, spare, buf, cur, threads, cuts, killed>>

(* "100% OK": the result is whatever dispFlip returns.                     *)
Proved ==
    /\ pc = "proved"
    /\ \E r \in FlipResults : Goto(IF r THEN "record" ELSE "done")
    /\ UNCHANGED <<main, flash, rec, id, work, threads, faults, cuts, history>>

-----------------------------------------------------------------------------
(* UpdateROM, when UpdateROMProc returned anything but 0: keep the         *)
(* identity page if it shares the block, erase, write back, record, reboot.*)
KeepId ==
    /\ pc = "record"
    /\ \/ ~ xt /\ spare' = spare /\ NoFault
       \/ xt /\ spare' = id /\ NoFault
       \/ xt /\ spare' = "bad" /\ Fault
    /\ Goto("erasePages")
    /\ UNCHANGED <<main, flash, rec, id, crc, buf, cur, tries, threads, cuts,
                   history>>

ErasePages ==
    /\ pc = "erasePages"
    /\ \/ rec' = "blank" /\ id' = (IF xt THEN "blank" ELSE id) /\ NoFault
       \/ rec' = rec /\ id' = id /\ Fault
    /\ Goto(IF xt THEN "writeId" ELSE "writeRecord")
    /\ UNCHANGED <<main, flash, work, threads, cuts, history>>

(* A page that is not blank keeps its contents only if they are the same.  *)
Page(c, d, mixed) == IF c = "blank" THEN d ELSE IF c = d THEN c ELSE mixed

WriteId ==
    /\ pc = "writeId"
    /\ \/ id' = Page(id, spare, "bad") /\ NoFault
       \/ id' \in {id, "bad"} /\ Fault
    /\ Goto("writeRecord")
    /\ UNCHANGED <<main, flash, rec, work, threads, cuts, history>>

ImageCrc == IF pkg = "empty" THEN "zero" ELSE "new"

WriteRecord ==
    /\ pc = "writeRecord"
    /\ \/ rec' = Page(rec, ImageCrc, "junk") /\ NoFault
       \/ rec' \in {rec, "junk"} /\ Fault
    /\ Goto("reboot")
    /\ UNCHANGED <<main, flash, id, work, threads, cuts, history>>

(* A new process: its memory, threads and shm start over.                  *)
PowerOn ==
    /\ Goto("boot")
    /\ crc' = "junk" /\ spare' = "bad" /\ buf' = Unset
    /\ cur' = 0 /\ tries' = Tries
    /\ shm' = "null" /\ beats' = 0

Reboot ==
    /\ pc = "reboot"
    /\ PowerOn
    /\ UNCHANGED <<main, flash, rec, id, faults, cuts, history>>

(* Back in main: ShareMemCreat and a heartbeat thread of its own.          *)
EnterMenu ==
    /\ pc = "done"
    /\ \/ shm' = "mapped" /\ NoFault
       \/ shm' \in {"null", "invalid"} /\ Fault
    /\ beats' \in {beats, beats + 1}
    /\ Goto("menu")
    /\ UNCHANGED <<main, flash, rec, id, work, cuts, history>>

-----------------------------------------------------------------------------
(* What stops the program.  A command under way is left half done.         *)
Interrupted ==
    /\ \/ pc = "erase" /\ \E d \in HalfErased : SetSector(d)
       \/ pc = "write" /\ \E d \in HalfWritten : SetSector(d)
       \/ pc \notin {"erase", "write"} /\ UNCHANGED flash
    /\ rec' \in {rec} \cup (IF pc = "erasePages" THEN {"blank", "junk"}
                            ELSE IF pc = "writeRecord" THEN {"junk"} ELSE {})
    /\ id' \in {id} \cup (IF pc = "erasePages" /\ xt THEN {"blank", "bad"}
                          ELSE IF pc = "writeId" THEN {"bad"} ELSE {})

(* XintiaoThread writes through shm; UpdateROMProc starts it before main   *)
(* has called ShareMemCreat.                                               *)
Beat ==
    /\ beats > 0
    /\ shm # "mapped"
    /\ pc # "dead"
    /\ Goto("dead")
    /\ Interrupted
    /\ killed' = TRUE
    /\ beats' = 0
    /\ UNCHANGED <<main, work, shm, faults, cuts, spoiled>>

PowerCut ==
    /\ pc \notin {"boot", "menu", "exit", "dead"}
    /\ cuts < MaxCuts
    /\ cuts' = cuts + 1
    /\ Interrupted
    /\ PowerOn
    /\ UNCHANGED <<main, faults, history>>

(* The player switches the console off and on.                             *)
PowerCycle ==
    /\ pc \in {"menu", "exit", "dead"}
    /\ PowerOn
    /\ UNCHANGED <<main, flash, rec, id, faults, cuts, history>>

Step ==
    \/ SpiDriverInit \/ NoPackage \/ ReadRecord \/ NothingToDo \/ Unpack
    \/ NoEntry \/ Start \/ SectorEqual \/ SectorDiffers \/ ReadFails
    \/ EraseSector \/ EraseIgnored \/ EraseFails \/ WriteSector \/ WriteFails
    \/ Proved \/ KeepId \/ ErasePages \/ WriteId \/ WriteRecord \/ Reboot
    \/ EnterMenu

Next == Step \/ Beat \/ PowerCut \/ PowerCycle

Spec == Init /\ [][Next]_vars

(* The process runs while the power is on, and a dead console is switched  *)
(* off and on again.                                                       *)
FairSpec == Spec /\ WF_vars(Step) /\ WF_vars(pc = "dead" /\ PowerCycle)

-----------------------------------------------------------------------------
TypeOK ==
    /\ xt \in BOOLEAN
    /\ pkg \in Packages
    /\ flash \in [Sectors -> Data]
    /\ rec \in Records
    /\ id \in {"ok", "blank", "bad"}
    /\ pc \in Points
    /\ crc \in Records
    /\ spare \in {"ok", "blank", "bad"}
    /\ buf \in [Sectors -> {"new", "blank"}]
    /\ cur \in 0 .. N
    /\ tries \in 0 .. Tries
    /\ shm \in {"null", "invalid", "mapped"}
    /\ beats \in Nat
    /\ faults \in 0 .. MaxFaults
    /\ cuts \in 0 .. MaxCuts
    /\ spoiled \in BOOLEAN
    /\ killed \in BOOLEAN

(* UpdateROMProc reaches a sector only when all sectors before it read     *)
(* back equal to the image, and prints "100% OK" only when all do.         *)
VerifiedPrefix ==
    /\ pc \in {"verify", "erase", "write"} =>
         cur < N /\ \A s \in 0 .. cur - 1 : flash[s] = buf[s]
    /\ pc = "proved" /\ pkg # "empty" =>
         \A s \in Sectors : flash[s] = buf[s]

(* However often the power fails or the process dies half way, the         *)
(* recorded checksum says the image is installed only when all of it is:   *)
(* an interrupted update is taken up again.  The exceptions are those the  *)
(* code makes itself: it also records an update that gave up, and one fed  *)
(* from a package that did not unpack.                                     *)
RecordedMeansInstalled == rec = "new" => Installed \/ spoiled

(* A sector that holds the image's data is never erased again by a restart *)
(* of the update: the work done before a power cut is kept.                *)
InstalledSectorsKept ==
    [][~ spoiled' => \A s \in Sectors : flash[s] = "new" => flash'[s] = "new"]_vars

(* The update as a whole installs the image sector by sector and records   *)
(* it once complete, or gives up.                                          *)
Abstract == INSTANCE ImageInstall WITH
    Sectors  <- Sectors,
    have     <- {s \in Sectors : flash[s] = "new"},
    recorded <- rec = "new",
    gaveUp   <- spoiled
InstallsImage == Abstract!Spec

(* A good package ends up in the flash whatever power cuts there are,      *)
(* unless a flash error or a heartbeat thread got in the way.              *)
Disturbed == faults > 0 \/ killed

GoodPackageInstalled == (pkg = "good") ~> (Installed \/ Disturbed)

(* ... and every start ends: in the menu, or closing down because the      *)
(* identity page is lost.  (A package without an entry is recorded and     *)
(* rebooted from at every start, if dispFlip does not return 0.)           *)
StartEnds ==
    (pc = "boot" /\ pkg # "empty") ~> (pc \in {"menu", "exit"} \/ Disturbed)

(* The documented start: UpdateROM returns to main, which calls            *)
(* ShareMemCreat and opens the menu, or it reboots into the new image.     *)
UpdateReturns == (pc = "start") ~> (pc \in {"menu", "reboot"})
=============================================================================
