---------------------------- MODULE EepromPower -----------------------------
(***************************************************************************)
(* The emulated EEPROM when the supply may fail in the middle of a commit. *)
(* flash_range_erase works sector by sector and flash_range_program flash  *)
(* page by flash page (a chunk here); the supply fails between two of      *)
(* these.  Interrupts are disabled meanwhile, so nothing else interleaves. *)
(*                                                                         *)
(* A receiver is supplied by the PC, so it loses power whenever the PC     *)
(* does.  Losses in the middle of erasing and of programming are chosen by *)
(* constants because their consequences differ: the properties below are   *)
(* about losses in the middle of programming.                              *)
(***************************************************************************)
EXTENDS Eeprom

CONSTANTS
    PagesPerSector,     \* FLASH_SECTOR_SIZE / _size
    ChunkSize,          \* cells the hardware programs at a time
    LossIn,             \* the phases in which the supply may fail
    MaxLosses           \* bound on the failures in the middle of an operation

ASSUME PowerAssumption ==
    /\ PagesPerSector \in Nat \ {0}
    /\ NumPages % PagesPerSector = 0
    /\ ChunkSize \in Nat \ {0}
    /\ Size % ChunkSize = 0
    /\ LossIn \subseteq {"erase", "program"}
    /\ MaxLosses \in Nat

VARIABLES
    phase,      \* what the flash controller is doing
    after,      \* what follows the erase: programming or nothing
    done,       \* sectors erased or chunks programmed so far
    before,     \* what a restart would have loaded when the operation began
    losses      \* failures so far

pvars == <<vars, phase, after, done, before, losses>>

NumSectors == NumPages \div PagesPerSector
NumChunks == Size \div ChunkSize
SectorPages(s) == {p \in Page : p \div PagesPerSector = s}
ChunkCells(k) == {c \in Cell : c \div ChunkSize = k}

PowerTypeOK ==
    /\ TypeOK
    /\ phase \in {"idle", "erase", "program"}
    /\ after \in {"idle", "program"}
    /\ done \in 0 .. NumSectors + NumChunks
    /\ before \in [Addr -> Byte]
    /\ losses \in 0 .. MaxLosses

PowerInit ==
    /\ Init
    /\ phase = "idle"
    /\ after = "idle"
    /\ done = 0
    /\ before = Content(cache)
    /\ losses = 0

Idle == phase = "idle" /\ UNCHANGED <<phase, after, done, before, losses>>

IdleWrite(a, v) == Idle /\ Write(a, v)
IdleCommit == Idle /\ CommitClean
IdleBegin == Idle /\ Begin

CommitStart ==
    /\ phase = "idle" /\ dirty
    /\ phase' = IF first_empty_page = -1 THEN "erase" ELSE "program"
    /\ after' = "program"
    /\ done' = 0
    /\ before' = Content(Loaded(flash))
    /\ cache' = [cache EXCEPT ![Last] = Mark]
    /\ UNCHANGED <<flash, dirty, first_empty_page, res, losses>>

ResetStart ==
    /\ phase = "idle"
    /\ phase' = "erase"
    /\ after' = "idle"
    /\ done' = 0
    /\ before' = Content(Loaded(flash))
    /\ UNCHANGED <<vars, losses>>

EraseSector ==
    /\ phase = "erase"
    /\ flash' = [p \in Page |-> IF p \in SectorPages(done) THEN Erased ELSE flash[p]]
    /\ IF done + 1 < NumSectors
         THEN /\ done' = done + 1
              /\ UNCHANGED <<phase, first_empty_page, cache>>
         ELSE /\ done' = 0
              /\ phase' = after
              /\ first_empty_page' = 0
              /\ cache' = IF after = "idle" THEN Erased ELSE cache
    /\ UNCHANGED <<dirty, res, after, before, losses>>

Overlaid(old, new, cells) ==
    [c \in Cell |-> IF c \in cells THEN old[c] \cup new[c] ELSE old[c]]

\* Mutant: the memcmp is left out.
VerifiedBlindly(image) == TRUE

Verified(image) == image = cache

\* Programming the last chunk ends the commit with the verification.
ProgramChunk ==
    /\ phase = "program"
    /\ LET p == first_empty_page
           image == Overlaid(flash[p], cache, ChunkCells(done))
       IN /\ flash' = [flash EXCEPT ![p] = image]
          /\ IF done + 1 < NumChunks
               THEN /\ done' = done + 1
                    /\ UNCHANGED <<phase, first_empty_page, dirty, res>>
               ELSE /\ done' = 0
                    /\ phase' = "idle"
                    /\ first_empty_page' = NextPage(p)
                    /\ dirty' = FALSE
                    /\ res' = Verified(image)
    /\ UNCHANGED <<cache, after, before, losses>>

\* The supply fails and returns: flash stays as it is, eeprom_begin runs.
PowerLoss ==
    /\ phase \in LossIn
    /\ losses < MaxLosses
    /\ losses' = losses + 1
    /\ phase' = "idle"
    /\ done' = 0
    /\ Begin
    /\ UNCHANGED <<after, before>>

PowerNext ==
    \/ \E a \in Addr, v \in Byte : IdleWrite(a, v)
    \/ IdleCommit
    \/ IdleBegin
    \/ CommitStart
    \/ ResetStart
    \/ EraseSector
    \/ ProgramChunk
    \/ PowerLoss

PowerSpec == PowerInit /\ [][PowerNext]_pvars

-----------------------------------------------------------------------------
(***************************************************************************)
(* Properties that hold when the supply fails only while programming.      *)
(***************************************************************************)
\* The chunk with the mark is programmed last (eeprom.c:124-125), so a commit
\* the supply interrupts while it programs leaves the configuration that was
\* stored before, if there is a page in front of the one being programmed.  There
\* is none when the log is new or has just been erased because it was full: then
\* the old configuration is lost, and a blank one is loaded.
TornProgramKeepsOld ==
    [][PowerLoss /\ phase = "program" =>
          Content(cache') = IF first_empty_page > 0 THEN before
                            ELSE Content(Erased)]_pvars

\* A commit whose verification succeeds has stored the cache: a restart would
\* load it (eeprom.c:126, 59-71).
VerifiedIsStored ==
    [][ProgramChunk /\ phase' = "idle" /\ res' =>
          Content(Loaded(flash')) = Content(cache')]_pvars

\* A page that the search would skip is never the one being programmed, so
\* only pages that carry no mark are ever written.
NeverProgramsMarked ==
    phase = "program" => flash[first_empty_page][Last] = Unwritten
=============================================================================
