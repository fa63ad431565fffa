---------------------------- MODULE FirmwareProofs ----------------------------
(***************************************************************************)
(* Proofs about FirmwareUpdate, for any number of sectors, flash errors    *)
(* and power cuts.                                                         *)
(***************************************************************************)
EXTENDS FirmwareUpdate, TLAPS

(* The program points of UpdateROMProc at which a sector is at hand.       *)
AtSector == pc \in {"verify", "erase", "write"}

(* Unless the update is spoiled, the buffer UpdateROMProc works from is    *)
(* the image, a sector is erased or written only while it is not the       *)
(* image's, and the record is rewritten only when the image is complete.   *)
SoundBuffer ==
    pc \in {"start", "verify", "erase", "write", "proved"} /\ pkg # "empty"
        => spoiled \/ buf = [s \in Sectors |-> "new"]
OnlyBadSectors ==
    pc \in {"erase", "write"} => spoiled \/ flash[cur] # "new"
RecordingInstalled ==
    pc \in {"record", "erasePages", "writeId", "writeRecord"} /\ pkg # "empty"
        => spoiled \/ Installed
EmptyHasNoSectors == AtSector => pkg # "empty"
TriesLeft == AtSector => tries > 0

IInv == /\ TypeOK
        /\ VerifiedPrefix
        /\ RecordedMeansInstalled
        /\ SoundBuffer
        /\ OnlyBadSectors
        /\ RecordingInstalled
        /\ EmptyHasNoSectors
        /\ TriesLeft

USE NAssumption, BoundsAssumption
USE DEF vars, main, work, threads, history

-----------------------------------------------------------------------------
(* Whatever a command leaves in a sector is one of the kinds of data.      *)
LEMMA SectorData ==
  ASSUME TypeOK, cur \in Sectors
  PROVE  /\ HalfErased \subseteq Data
         /\ HalfWritten \subseteq Data
         /\ Programmed(flash[cur], buf[cur]) \subseteq Data
  BY DEF TypeOK, Data, HalfErased, HalfWritten, Programmed

(* Storing into the sector at hand leaves the others alone.                *)
LEMMA OthersKept ==
  ASSUME TypeOK, cur \in Sectors, NEW d \in Data, SetSector(d)
  PROVE  /\ flash' \in [Sectors -> Data]
         /\ \A s \in Sectors : s # cur => flash'[s] = flash[s]
  BY DEF TypeOK, SetSector

(* While a sector is being rewritten the image is not installed and, in    *)
(* consequence, not recorded, unless the update is spoiled.                *)
LEMMA RewritingFacts ==
  ASSUME IInv, pc \in {"erase", "write"}
  PROVE  /\ cur \in Sectors
         /\ spoiled \/ (~ Installed /\ rec # "new")
  BY DEF IInv, TypeOK, AtSector, VerifiedPrefix, OnlyBadSectors, Installed,
         RecordedMeansInstalled, Sectors

-----------------------------------------------------------------------------
(* The invariant holds when the console is first switched on.              *)
LEMMA InitIInv == Init => IInv
<1> SUFFICES ASSUME Init PROVE IInv
  OBVIOUS
<1>1. flash \in [Sectors -> Data] /\ buf \in [Sectors -> {"new", "blank"}]
  BY DEF Init, Data, Unset
<1>2. TypeOK
  <2>1. cur \in 0 .. N /\ tries \in 0 .. Tries /\ beats \in Nat
        /\ faults \in 0 .. MaxFaults /\ cuts \in 0 .. MaxCuts
    BY DEF Init, Tries
  <2>2. rec \in Records /\ crc \in Records /\ pc \in Points
    BY DEF Init, Records, Points
  <2> QED
    BY <1>1, <2>1, <2>2 DEF Init, TypeOK
<1>3. VerifiedPrefix /\ SoundBuffer /\ OnlyBadSectors
  BY DEF Init, VerifiedPrefix, SoundBuffer, OnlyBadSectors
<1>4. /\ RecordedMeansInstalled /\ RecordingInstalled
      /\ EmptyHasNoSectors /\ TriesLeft
  BY DEF Init, RecordedMeansInstalled, RecordingInstalled, EmptyHasNoSectors,
         TriesLeft, AtSector
<1> QED
  BY <1>2, <1>3, <1>4 DEF IInv

(* A step that rewrites the sector at hand and does not move on to another *)
(* one keeps everything that is known of the other sectors.                *)
LEMMA RewriteKeeps ==
  ASSUME IInv, pc \in {"erase", "write"},
         NEW d \in Data, SetSector(d),
         UNCHANGED <<main, rec, buf, cur>>,
         spoiled' \in BOOLEAN, spoiled => spoiled',
         pc' \in {"verify", "write", "record"},
         pc' = "write" => d # "new" \/ spoiled',
         pc' = "record" => spoiled'
  PROVE  /\ flash' \in [Sectors -> Data]
         /\ VerifiedPrefix' /\ RecordedMeansInstalled' /\ SoundBuffer'
         /\ OnlyBadSectors' /\ RecordingInstalled' /\ EmptyHasNoSectors'
<1>1. cur \in Sectors /\ (spoiled \/ rec # "new")
  BY RewritingFacts
<1>2. /\ flash' \in [Sectors -> Data]
      /\ \A s \in Sectors : s # cur => flash'[s] = flash[s]
  BY <1>1, OthersKept DEF IInv
<1>3. VerifiedPrefix'
  BY <1>1, <1>2 DEF IInv, TypeOK, VerifiedPrefix, Sectors
<1>4. RecordedMeansInstalled'
  BY <1>1 DEF RecordedMeansInstalled
<1>5. SoundBuffer'
  BY DEF IInv, SoundBuffer, EmptyHasNoSectors, AtSector, Sectors
<1>6. OnlyBadSectors'
  BY <1>1 DEF OnlyBadSectors, SetSector, IInv, TypeOK
<1>7. RecordingInstalled'
  BY DEF RecordingInstalled
<1>8. EmptyHasNoSectors'
  BY DEF IInv, EmptyHasNoSectors, AtSector
<1> QED
  BY <1>2, <1>3, <1>4, <1>5, <1>6, <1>7, <1>8

(* Every step of main, every flash error, power cut, heartbeat and restart *)
(* preserves the invariant.                                                *)
LEMMA StepIInv == IInv /\ [Next]_vars => IInv'
<1> SUFFICES ASSUME IInv, [Next]_vars PROVE IInv'
  OBVIOUS
<1> USE DEF IInv, TypeOK, VerifiedPrefix, RecordedMeansInstalled, SoundBuffer,
            OnlyBadSectors, RecordingInstalled, EmptyHasNoSectors, TriesLeft,
            AtSector, Installed, Unset, Sectors, Data, Records, Points, Tries,
            Page, ImageCrc
<1>1. CASE SpiDriverInit
  BY <1>1 DEF SpiDriverInit, Goto, Fault, NoFault
<1>2. CASE NoPackage
  BY <1>2 DEF NoPackage, Goto
<1>3. CASE ReadRecord
  BY <1>3 DEF ReadRecord, Goto, Fault, NoFault
<1>4. CASE NothingToDo
  BY <1>4 DEF NothingToDo, Goto, Fault, NoFault
<1>5. CASE Unpack
  <2>1. PICK k \in 0 .. N :
          /\ buf' = [s \in Sectors |-> IF s < k THEN "new" ELSE "blank"]
          /\ spoiled' = (spoiled \/ k < N)
    BY <1>5 DEF Unpack
  <2>2. buf' \in [Sectors -> {"new", "blank"}]
    BY <2>1
  <2>3. spoiled' \/ buf' = [s \in Sectors |-> "new"]
    <3>1. CASE k < N
      BY <2>1, <3>1
    <3>2. CASE k = N
      BY <2>1, <3>2
    <3> QED
      BY <3>1, <3>2
  <2>4. TypeOK'
    BY <1>5, <2>1, <2>2 DEF Unpack, Goto, Fault, NoFault
  <2>5. SoundBuffer'
    BY <1>5, <2>3 DEF Unpack, Goto
  <2>6. RecordedMeansInstalled'
    BY <1>5, <2>1 DEF Unpack
  <2>7. VerifiedPrefix' /\ OnlyBadSectors' /\ RecordingInstalled'
        /\ EmptyHasNoSectors' /\ TriesLeft'
    BY <1>5 DEF Unpack, Goto
  <2> QED
    BY <2>4, <2>5, <2>6, <2>7
<1>6. CASE NoEntry
  BY <1>6 DEF NoEntry, Goto
<1>7. CASE Start
  BY <1>7 DEF Start, Goto
<1>8. CASE SectorEqual
  BY <1>8 DEF SectorEqual, Goto
<1>9. CASE SectorDiffers
  BY <1>9 DEF SectorDiffers, Goto
<1>10. CASE ReadFails
  BY <1>10 DEF ReadFails, Goto, Fault, NoFault
<1>11. CASE EraseSector
  BY <1>11 DEF EraseSector, Goto, SetSector
<1>12. CASE EraseIgnored
  BY <1>12 DEF EraseIgnored, Goto, Fault, NoFault
<1>13. CASE EraseFails
  <2>1. PICK d \in HalfErased : SetSector(d)
    BY <1>13 DEF EraseFails
  <2>2. cur \in Sectors
    BY <1>13, RewritingFacts DEF EraseFails
  <2>3. d \in Data
    BY <2>1, <2>2, SectorData
  <2>4. /\ UNCHANGED <<main, rec, buf, cur>>
        /\ spoiled' \in BOOLEAN /\ (spoiled => spoiled')
        /\ pc' \in {"verify", "record"} /\ (pc' = "record" => spoiled')
    BY <1>13 DEF EraseFails, NextTry, Goto
  <2>5. /\ flash' \in [Sectors -> Data]
        /\ VerifiedPrefix' /\ RecordedMeansInstalled' /\ SoundBuffer'
        /\ OnlyBadSectors' /\ RecordingInstalled' /\ EmptyHasNoSectors'
    BY <1>13, <2>1, <2>3, <2>4, RewriteKeeps DEF EraseFails
  <2>6. tries' \in 0 .. Tries /\ TriesLeft'
    BY <1>13 DEF EraseFails, NextTry, Goto
  <2>7. TypeOK'
    BY <1>13, <2>4, <2>5, <2>6 DEF EraseFails, Fault
  <2> QED
    BY <2>5, <2>6, <2>7
<1>14. CASE WriteSector
  <2>1. PICK d \in Programmed(flash[cur], buf[cur]) : SetSector(d)
    BY <1>14 DEF WriteSector
  <2>2. cur \in Sectors
    BY <1>14, RewritingFacts DEF WriteSector
  <2>3. d \in Data
    BY <2>1, <2>2, SectorData
  <2>4. /\ UNCHANGED <<main, rec, buf, cur>>
        /\ spoiled' \in BOOLEAN /\ (spoiled => spoiled')
        /\ pc' \in {"verify", "record"} /\ (pc' = "record" => spoiled')
    BY <1>14 DEF WriteSector, NextTry, Goto
  <2>5. /\ flash' \in [Sectors -> Data]
        /\ VerifiedPrefix' /\ RecordedMeansInstalled' /\ SoundBuffer'
        /\ OnlyBadSectors' /\ RecordingInstalled' /\ EmptyHasNoSectors'
    BY <1>14, <2>1, <2>3, <2>4, RewriteKeeps DEF WriteSector
  <2>6. tries' \in 0 .. Tries /\ TriesLeft'
    BY <1>14 DEF WriteSector, NextTry, Goto
  <2>7. TypeOK'
    BY <1>14, <2>4, <2>5, <2>6 DEF WriteSector
  <2> QED
    BY <2>5, <2>6, <2>7
<1>15. CASE WriteFails
  <2>1. PICK d \in HalfWritten : SetSector(d)
    BY <1>15 DEF WriteFails
  <2>2. cur \in Sectors
    BY <1>15, RewritingFacts DEF WriteFails
  <2>3. d \in Data
    BY <2>1, <2>2, SectorData
  <2>4. /\ UNCHANGED <<main, rec, buf, cur>>
        /\ spoiled' \in BOOLEAN /\ (spoiled => spoiled')
        /\ pc' \in {"verify", "record"} /\ (pc' = "record" => spoiled')
    BY <1>15 DEF WriteFails, NextTry, Goto
  <2>5. /\ flash' \in [Sectors -> Data]
        /\ VerifiedPrefix' /\ RecordedMeansInstalled' /\ SoundBuffer'
        /\ OnlyBadSectors' /\ RecordingInstalled' /\ EmptyHasNoSectors'
    BY <1>15, <2>1, <2>3, <2>4, RewriteKeeps DEF WriteFails
  <2>6. tries' \in 0 .. Tries /\ TriesLeft'
    BY <1>15 DEF WriteFails, NextTry, Goto
  <2>7. TypeOK'
    BY <1>15, <2>4, <2>5, <2>6 DEF WriteFails, Fault
  <2> QED
    BY <2>5, <2>6, <2>7
<1>16. CASE Proved
  BY <1>16 DEF Proved, Goto
<1>17. CASE KeepId
  BY <1>17 DEF KeepId, Goto, Fault, NoFault
<1>18. CASE ErasePages
  BY <1>18 DEF ErasePages, Goto, Fault, NoFault
<1>19. CASE WriteId
  BY <1>19 DEF WriteId, Goto, Fault, NoFault
<1>20. CASE WriteRecord
  BY <1>20 DEF WriteRecord, Goto, Fault, NoFault
<1>21. CASE Reboot
  BY <1>21 DEF Reboot, Goto, PowerOn
<1>22. CASE EnterMenu
  BY <1>22 DEF EnterMenu, Goto, Fault, NoFault
<1>23. CASE Beat
  <2>1. flash' \in [Sectors -> Data]
    BY <1>23, RewritingFacts, SectorData, OthersKept DEF Beat, Interrupted
  <2>2. TypeOK'
    BY <1>23, <2>1 DEF Beat, Goto, Interrupted
  <2>3. spoiled \/ rec' # "new" \/ (flash' = flash /\ rec' = rec)
    BY <1>23, RewritingFacts DEF Beat, Interrupted
  <2>4. RecordedMeansInstalled'
    BY <1>23, <2>3 DEF Beat
  <2>5. VerifiedPrefix' /\ SoundBuffer' /\ OnlyBadSectors'
        /\ RecordingInstalled' /\ EmptyHasNoSectors' /\ TriesLeft'
    BY <1>23 DEF Beat, Goto
  <2> QED
    BY <2>2, <2>4, <2>5
<1>24. CASE PowerCut
  <2>1. flash' \in [Sectors -> Data]
    BY <1>24, RewritingFacts, SectorData, OthersKept DEF PowerCut, Interrupted
  <2>2. TypeOK'
    BY <1>24, <2>1 DEF PowerCut, PowerOn, Goto, Interrupted
  <2>3. spoiled \/ rec' # "new" \/ (flash' = flash /\ rec' = rec)
    BY <1>24, RewritingFacts DEF PowerCut, Interrupted
  <2>4. RecordedMeansInstalled'
    BY <1>24, <2>3 DEF PowerCut
  <2>5. VerifiedPrefix' /\ SoundBuffer' /\ OnlyBadSectors'
        /\ RecordingInstalled' /\ EmptyHasNoSectors' /\ TriesLeft'
    BY <1>24 DEF PowerCut, PowerOn, Goto
  <2> QED
    BY <2>2, <2>4, <2>5
<1>25. CASE PowerCycle
  BY <1>25 DEF PowerCycle, Goto, PowerOn
<1>26. CASE UNCHANGED vars
  BY <1>26
<1> QED
  BY <1>1, <1>2, <1>3, <1>4, <1>5, <1>6, <1>7, <1>8, <1>9, <1>10, <1>11, <1>12, <1>13, <1>14, <1>15, <1>16, <1>17, <1>18, <1>19, <1>20, <1>21, <1>22, <1>23, <1>24, <1>25, <1>26 DEF Next, Step

(* The inductive invariant holds throughout.                               *)
THEOREM FirmwareInvariant == Spec => []IInv
<1>1. Init => IInv
  BY InitIInv
<1>2. IInv /\ [Next]_vars => IInv'
  BY StepIInv
<1> QED
  BY <1>1, <1>2, PTL DEF Spec

(* Type correctness.                                                       *)
THEOREM FirmwareTypeOK == Spec => []TypeOK
<1>1. IInv => TypeOK
  BY DEF IInv
<1> QED
  BY <1>1, FirmwareInvariant, PTL

(* "100% OK" is printed only when every sector read back equal.            *)
THEOREM FirmwareVerifiedPrefix == Spec => []VerifiedPrefix
<1>1. IInv => VerifiedPrefix
  BY DEF IInv
<1> QED
  BY <1>1, FirmwareInvariant, PTL

(* Whatever power cuts, flash errors and crashes: the checksum is recorded *)
(* only for a complete image, unless the update was spoiled.               *)
THEOREM FirmwareRecorded == Spec => []RecordedMeansInstalled
<1>1. IInv => RecordedMeansInstalled
  BY DEF IInv
<1> QED
  BY <1>1, FirmwareInvariant, PTL

-----------------------------------------------------------------------------
(* One step keeps the sectors that hold the image's data.                  *)
KeepsSectors ==
    ~ spoiled' => \A s \in Sectors : flash[s] = "new" => flash'[s] = "new"

(* The action form of InstalledSectorsKept, from the invariant.            *)
LEMMA StepKeepsSectors == IInv /\ [Next]_vars => KeepsSectors
<1> SUFFICES ASSUME IInv, [Next]_vars PROVE KeepsSectors
  OBVIOUS
<1>1. CASE flash' = flash
  BY <1>1 DEF KeepsSectors
<1>2. CASE pc \in {"erase", "write"} /\ \E d : SetSector(d)
  <2>1. PICK d : SetSector(d)
    BY <1>2
  <2>2. cur \in Sectors
    BY <1>2, RewritingFacts
  <2>3. \A s \in Sectors : s # cur => flash'[s] = flash[s]
    BY <2>1 DEF SetSector, IInv, TypeOK
  <2>4. spoiled => spoiled'
    BY <1>2 DEF IInv, TypeOK, Next, Step, SpiDriverInit, NoPackage, ReadRecord,
       NothingToDo, Unpack, NoEntry, Start, SectorEqual, SectorDiffers,
       ReadFails, EraseSector, EraseIgnored, EraseFails, WriteSector,
       WriteFails, Proved, KeepId, ErasePages, WriteId, WriteRecord, Reboot,
       EnterMenu, Beat, PowerCut, PowerCycle, NextTry
  <2>5. spoiled \/ flash[cur] # "new"
    BY <1>2 DEF IInv, OnlyBadSectors
  <2> QED
    BY <2>3, <2>4, <2>5 DEF KeepsSectors
<1>3. flash' = flash \/ (pc \in {"erase", "write"} /\ \E d : SetSector(d))
  BY DEF Next, Step, SpiDriverInit, NoPackage, ReadRecord,
     NothingToDo, Unpack, NoEntry, Start, SectorEqual, SectorDiffers,
     ReadFails, EraseSector, EraseIgnored, EraseFails, WriteSector,
     WriteFails, Proved, KeepId, ErasePages, WriteId, WriteRecord, Reboot,
     EnterMenu, Beat, PowerCut, PowerCycle, Interrupted
<1> QED
  BY <1>1, <1>2, <1>3

(* Work done before a power cut is kept.                                   *)
THEOREM FirmwareKeepsSectors == Spec => InstalledSectorsKept
<1>1. IInv /\ [Next]_vars => [KeepsSectors]_vars
  BY StepKeepsSectors
<1> QED
  BY <1>1, FirmwareInvariant, PTL DEF Spec, InstalledSectorsKept, KeepsSectors

-----------------------------------------------------------------------------
(* The update implements ImageInstall: every step is an installation, a    *)
(* record, its removal, a surrender, or none of these.                     *)
Have == {s \in Sectors : flash[s] = "new"}

(* Initial states map to initial states.                                   *)
LEMMA AbstractInit == Init => Abstract!Init
  BY DEF Init, Abstract!Init, Installed

(* Every step maps to a step of ImageInstall or to a stutter.              *)
LEMMA AbstractStep == IInv /\ [Next]_vars => [Abstract!Next]_Abstract!vars
<1> SUFFICES ASSUME IInv, [Next]_vars PROVE [Abstract!Next]_Abstract!vars
  OBVIOUS
<1> USE DEF Abstract!vars
<1>1. CASE flash' = flash /\ rec' = rec /\ spoiled' = spoiled
  BY <1>1
<1>2. CASE spoiled'
  <2>1. Abstract!GiveUp
    BY <1>2 DEF Abstract!GiveUp
  <2> QED
    BY <2>1 DEF Abstract!Next
<1>3. CASE ~ spoiled' /\ spoiled' = spoiled /\ rec' = rec /\ pc \in {"erase", "write"}
           /\ \E d : SetSector(d)
  <2>1. PICK d : SetSector(d)
    BY <1>3
  <2>2. cur \in Sectors /\ flash[cur] # "new"
    BY <1>3, RewritingFacts DEF IInv, OnlyBadSectors
  <2>3. /\ \A s \in Sectors : s # cur => flash'[s] = flash[s]
        /\ flash'[cur] = d
    BY <2>1, <2>2 DEF SetSector, IInv, TypeOK
  <2>4. CASE d = "new"
    <3>1. Have' = Have \cup {cur}
      BY <2>2, <2>3, <2>4 DEF Have
    <3>2. Abstract!Install
      BY <3>1, <2>2, <1>3 DEF Abstract!Install, Have
    <3> QED
      BY <3>2 DEF Abstract!Next
  <2>5. CASE d # "new"
    <3>1. Have' = Have
      BY <2>2, <2>3, <2>5 DEF Have
    <3> QED
      BY <3>1, <1>3 DEF Have
  <2> QED
    BY <2>4, <2>5
<1>4. CASE ~ spoiled' /\ spoiled' = spoiled /\ flash' = flash
           /\ (rec' = rec \/ rec' # "new" \/ Installed)
  <2>1. CASE rec' = rec
    BY <1>4, <2>1
  <2>2. CASE rec' # "new"
    <3>1. Abstract!Forget
      BY <1>4, <2>2 DEF Abstract!Forget
    <3> QED
      BY <3>1 DEF Abstract!Next
  <2>3. CASE rec' = "new" /\ Installed
    <3>1. Abstract!Record
      BY <1>4, <2>3 DEF Abstract!Record, Installed
    <3> QED
      BY <3>1 DEF Abstract!Next
  <2> QED
    BY <1>4, <2>1, <2>2, <2>3
<1>5. spoiled' \in BOOLEAN /\ (~ spoiled' => spoiled' = spoiled)
  BY DEF IInv, TypeOK, Next, Step, SpiDriverInit, NoPackage, ReadRecord,
     NothingToDo, Unpack, NoEntry, Start, SectorEqual, SectorDiffers,
     ReadFails, EraseSector, EraseIgnored, EraseFails, WriteSector,
     WriteFails, Proved, KeepId, ErasePages, WriteId, WriteRecord, Reboot,
     EnterMenu, Beat, PowerCut, PowerCycle, NextTry
<1>6. \/ flash' = flash /\ rec' = rec
      \/ pc \in {"erase", "write"} /\ rec' = rec /\ \E d : SetSector(d)
      \/ flash' = flash /\ pc \in {"erasePages", "writeRecord"}
  BY DEF Next, Step, SpiDriverInit, NoPackage, ReadRecord,
     NothingToDo, Unpack, NoEntry, Start, SectorEqual, SectorDiffers,
     ReadFails, EraseSector, EraseIgnored, EraseFails, WriteSector,
     WriteFails, Proved, KeepId, ErasePages, WriteId, WriteRecord, Reboot,
     EnterMenu, Beat, PowerCut, PowerCycle, Interrupted
<1>7. CASE flash' = flash /\ pc \in {"erasePages", "writeRecord"} /\ ~ spoiled'
  <2>1. rec' = rec \/ rec' # "new" \/ pkg # "empty"
    BY <1>7 DEF Next, Step, SpiDriverInit, NoPackage, ReadRecord,
       NothingToDo, Unpack, NoEntry, Start, SectorEqual, SectorDiffers,
       ReadFails, EraseSector, EraseIgnored, EraseFails, WriteSector,
       WriteFails, Proved, KeepId, ErasePages, WriteId, WriteRecord, Reboot,
       EnterMenu, Beat, PowerCut, PowerCycle, Interrupted, ImageCrc, Page
  <2>2. rec' = rec \/ rec' # "new" \/ Installed
    BY <2>1, <1>5, <1>7 DEF IInv, RecordingInstalled
  <2> QED
    BY <2>2, <1>4, <1>5, <1>7
<1> QED
  BY <1>1, <1>2, <1>3, <1>4, <1>5, <1>6, <1>7

(* The detailed update implements the abstract one.                        *)
THEOREM FirmwareInstallsImage == Spec => InstallsImage
<1>1. Init => Abstract!Init
  BY AbstractInit
<1>2. IInv /\ [Next]_vars => [Abstract!Next]_Abstract!vars
  BY AbstractStep
<1> QED
  BY <1>1, <1>2, FirmwareInvariant, PTL DEF Spec, InstallsImage, Abstract!Spec
=============================================================================
