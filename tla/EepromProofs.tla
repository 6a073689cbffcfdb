---------------------------- MODULE EepromProofs ----------------------------
(***************************************************************************)
(* Theorems about modules Eeprom and EepromPower, for every number and     *)
(* size of pages.                                                          *)
(*                                                                         *)
(* The argument is LogShape: the marked pages are exactly those in front   *)
(* of first_empty_page and the others are erased.  It makes the search of  *)
(* eeprom_begin find what the RAM variable already says (FirstEmptyFound), *)
(* makes every program operation hit an erased page, and so lets the page  *)
(* written last be the image a restart loads.  TornShaped is what is left  *)
(* of it when the supply may fail while a page is programmed.              *)
(***************************************************************************)
EXTENDS EepromPower, TLAPS

IInv ==
    /\ TypeOK
    /\ LogShape
    /\ CleanMeansDurable
    /\ CommitVerifies

\* The mark differs from an unwritten byte.
LEMMA MarkIsWritten == Mark # Unwritten
  BY EepromAssumption DEF Mark, Unwritten

\* Programming an erased page stores the data unchanged.
LEMMA ProgramErased ==
  ASSUME NEW data \in [Cell -> Byte]
  PROVE  Programmed(Erased, data) = data
  BY DEF Programmed, Erased, Unwritten, Cell, Byte

LEMMA ErasedType ==
  /\ Erased \in [Cell -> Byte]
  /\ AllErased \in [Page -> [Cell -> Byte]]
  BY DEF Erased, AllErased, Unwritten, Byte

\* The search of eeprom_begin finds the first page without a mark, whatever
\* that page and those behind it hold.
LEMMA SearchFinds ==
  ASSUME NEW f, NEW e \in Page \cup {-1},
         e # -1 => f[e][Last] = Unwritten,
         \A p \in Page : e = -1 \/ p < e => f[p][Last] = Mark
  PROVE  FirstEmpty(f) = e
  <1>1. CASE e = -1
    <2>1. \A p \in Page : f[p][Last] # Unwritten
      BY <1>1, MarkIsWritten
    <2> QED
      BY <1>1, <2>1 DEF FirstEmpty, IsFirstEmpty
  <1>2. CASE e # -1
    <2>1. e \in Page
      BY <1>2
    <2>2. IsFirstEmpty(f, e)
      BY <1>2, MarkIsWritten DEF IsFirstEmpty
    <2>3. \A p \in Page : IsFirstEmpty(f, p) => p = e
      BY <2>1, <2>2, EepromAssumption DEF IsFirstEmpty, Page
    <2> QED
      BY <2>1, <2>2, <2>3 DEF FirstEmpty
  <1> QED
    BY <1>1, <1>2

LEMMA LastInCell == Last \in Cell /\ Erased[Last] = Unwritten
  BY EepromAssumption DEF Last, Cell, Erased

\* On a log of the proper shape this is the page that first_empty_page names.
LEMMA FirstEmptyFound ==
  ASSUME NEW f, NEW e \in Page \cup {-1}, Shaped(f, e)
  PROVE  FirstEmpty(f) = e
  <1>1. e # -1 => f[e] = Erased
    BY EepromAssumption DEF Shaped, Page
  <1> QED
    BY <1>1, LastInCell, SearchFinds DEF Shaped

\* What a dirty commit does to the log, in terms of the page it programs.
LEMMA CommitDirtyEffect ==
  ASSUME TypeOK, LogShape, CommitDirty
  PROVE  /\ TypeOK'
         /\ LogShape'
         /\ res'
         /\ Loaded(flash') = cache'
         /\ Content(cache') = Content(cache)
  <1> DEFINE full == first_empty_page = -1
             base == IF full THEN AllErased ELSE flash
             p == IF full THEN 0 ELSE first_empty_page
             data == [cache EXCEPT ![Last] = Mark]
  <1>1. p \in Page
    BY EepromAssumption DEF TypeOK, Page
  <1>2. data \in [Cell -> Byte] /\ data[Last] = Mark
    BY EepromAssumption DEF TypeOK, Last, Cell, Byte, Mark
  <1>3. base \in [Page -> [Cell -> Byte]]
    BY DEF TypeOK, AllErased, Erased, Unwritten, Byte
  <1>4. base[p] = Erased
    BY <1>1, EepromAssumption DEF TypeOK, LogShape, Shaped, AllErased, Page
  <1>5. Programmed(base[p], data) = data
    BY <1>2, <1>4, ProgramErased
  <1>6. /\ cache' = data
        /\ flash' = [base EXCEPT ![p] = data]
        /\ res' = TRUE
        /\ first_empty_page' = NextPage(p)
        /\ dirty' = FALSE
    BY <1>5 DEF CommitDirty
  <1>7. /\ \A q \in Page : q < p => base[q][Last] = Mark
        /\ \A q \in Page : q > p => base[q] = Erased
    BY EepromAssumption DEF TypeOK, LogShape, Shaped, AllErased, Page
  <1> HIDE DEF full, base, p, data
  <1>8. NextPage(p) \in Page \cup {-1}
    BY <1>1, EepromAssumption DEF NextPage, Page
  <1>9. flash' \in [Page -> [Cell -> Byte]]
    BY <1>1, <1>2, <1>3, <1>6
  <1>10. TypeOK'
    BY <1>2, <1>6, <1>8, <1>9 DEF TypeOK
  <1>11. LogShape'
    <2> SUFFICES ASSUME NEW q \in Page
                 PROVE  IF NextPage(p) = -1 \/ q < NextPage(p)
                          THEN flash'[q][Last] = Mark
                          ELSE flash'[q] = Erased
      BY <1>6 DEF LogShape, Shaped
    <2>1. (NextPage(p) = -1 \/ q < NextPage(p)) <=> q <= p
      BY <1>1, EepromAssumption DEF NextPage, Page
    <2>2. CASE q = p
      BY <1>1, <1>2, <1>3, <1>6, <2>1, <2>2, EepromAssumption DEF Page
    <2>3. CASE q < p
      BY <1>1, <1>3, <1>6, <1>7, <2>1, <2>3, EepromAssumption DEF Page
    <2>4. CASE q > p
      BY <1>1, <1>3, <1>6, <1>7, <2>1, <2>4, EepromAssumption DEF Page
    <2> QED
      BY <1>1, <2>2, <2>3, <2>4, EepromAssumption DEF Page
  <1>12. Loaded(flash') = cache'
    <2>1. FirstEmpty(flash') = NextPage(p)
      BY <1>6, <1>8, <1>11, FirstEmptyFound DEF LogShape
    <2>2. Image(flash', NextPage(p)) = flash'[p]
      BY <1>1, EepromAssumption DEF Image, NextPage, Page
    <2>3. flash'[p] = data
      BY <1>1, <1>3, <1>6
    <2> QED
      BY <1>6, <2>1, <2>2, <2>3 DEF Loaded
  <1>13. Content(cache') = Content(cache)
    BY <1>6, EepromAssumption DEF Content, Addr, TypeOK, data
  <1> QED
    BY <1>6, <1>10, <1>11, <1>12, <1>13
-----------------------------------------------------------------------------
LEMMA InitInv == Init => IInv
  <1> SUFFICES ASSUME Init PROVE IInv
    OBVIOUS
  <1>1. TypeOK
    <2>1. 0 \in Page
      BY EepromAssumption DEF Page
    <2> QED
      BY <2>1, ErasedType DEF Init, TypeOK
  <1>2. LogShape
    BY EepromAssumption DEF Init, LogShape, Shaped, AllErased, Page
  <1>3. FirstEmpty(flash) = 0
    BY <1>2, FirstEmptyFound, EepromAssumption DEF Init, LogShape, Page
  <1>4. CleanMeansDurable
    BY <1>3 DEF Init, CleanMeansDurable, Loaded, Image
  <1> QED
    BY <1>1, <1>2, <1>4 DEF IInv, CommitVerifies, Init

LEMMA StepInv == IInv /\ [Next]_vars => IInv'
  <1> SUFFICES ASSUME IInv, [Next]_vars PROVE IInv'
    OBVIOUS
  <1> USE DEF IInv
  <1>1. ASSUME NEW a \in Addr, NEW v \in Byte, Write(a, v)
        PROVE  IInv'
    <2>1. TypeOK'
      BY <1>1 DEF Write, TypeOK, Addr
    <2>2. LogShape'
      BY <1>1 DEF Write, LogShape
    <2>3. CleanMeansDurable'
      <3> SUFFICES ASSUME ~dirty'
                   PROVE  cache' = cache /\ flash' = flash /\ ~dirty
        BY DEF CleanMeansDurable
      <3> QED
        BY <1>1 DEF Write, TypeOK, Addr
    <2> QED
      BY <1>1, <2>1, <2>2, <2>3 DEF Write, CommitVerifies
  <1>2. ASSUME CommitClean
        PROVE  IInv'
    BY <1>2 DEF CommitClean, TypeOK, LogShape, CleanMeansDurable, CommitVerifies
  <1>3. ASSUME CommitDirty
        PROVE  IInv'
    BY <1>3, CommitDirtyEffect DEF CleanMeansDurable, CommitVerifies, TypeOK
  <1>4. ASSUME Reset
        PROVE  IInv'
    <2>1. TypeOK'
      BY <1>4, EepromAssumption
      DEF Reset, TypeOK, AllErased, Erased, Unwritten, Byte, Page
    <2>2. LogShape'
      BY <1>4, EepromAssumption DEF Reset, LogShape, Shaped, AllErased, Page
    <2>3. FirstEmpty(flash') = 0
      BY <1>4, <2>2, FirstEmptyFound, EepromAssumption DEF Reset, LogShape, Page
    <2>4. CleanMeansDurable'
      BY <1>4, <2>3 DEF Reset, CleanMeansDurable, Loaded, Image
    <2> QED
      BY <1>4, <2>1, <2>2, <2>4 DEF Reset, CommitVerifies
  <1>5. ASSUME Begin
        PROVE  IInv'
    <2>1. first_empty_page' = first_empty_page
      BY <1>5, FirstEmptyFound DEF Begin, TypeOK, LogShape
    <2>2. cache' \in [Cell -> Byte]
      BY <1>5, <2>1, EepromAssumption
      DEF Begin, Loaded, Image, TypeOK, Erased, Unwritten, Byte, Page
    <2> QED
      BY <1>5, <2>1, <2>2
      DEF Begin, TypeOK, LogShape, CleanMeansDurable, CommitVerifies
  <1>6. ASSUME UNCHANGED vars
        PROVE  IInv'
    BY <1>6 DEF vars, TypeOK, LogShape, CleanMeansDurable, CommitVerifies
  <1> QED
    BY <1>1, <1>2, <1>3, <1>4, <1>5, <1>6 DEF Next, Commit

\* The variables of the emulated EEPROM keep their types, the log keeps its
\* shape, a cache that is not dirty equals what a restart loads, and no commit
\* fails its verification, for every number and size of pages
\* (eeprom.c:39-147).
THEOREM Invariance == Spec => []IInv
  BY InitInv, StepInv, PTL DEF Spec

\* The variables of the emulated EEPROM keep their types (eeprom.c:32-37).
THEOREM TypeCorrect == Spec => []TypeOK
  <1>1. IInv => TypeOK
    BY DEF IInv
  <1> QED
    BY <1>1, Invariance, PTL

\* The log keeps its shape (eeprom.c:59-66, 119-129).
THEOREM LogShaped == Spec => []LogShape
  <1>1. IInv => LogShape
    BY DEF IInv
  <1> QED
    BY <1>1, Invariance, PTL

\* _dirty clear means that the configuration in use survives a restart
\* (eeprom.c:98-102, 134).
THEOREM Durability == Spec => []CleanMeansDurable
  <1>1. IInv => CleanMeansDurable
    BY DEF IInv
  <1> QED
    BY <1>1, Invariance, PTL

\* The verification of eeprom_commit succeeds on sound flash (eeprom.c:126).
THEOREM Verification == Spec => []CommitVerifies
  <1>1. IInv => CommitVerifies
    BY DEF IInv
  <1> QED
    BY <1>1, Invariance, PTL

\* A page is programmed only when it is erased, and the flash is erased only
\* when no page is left or on request (eeprom.c:119-129).
THEOREM WearLevelling == Spec => WearLevelled
  <1>1. IInv /\ [Next]_vars => [LevelledStep]_vars
    <2> SUFFICES ASSUME IInv, [Next]_vars, NEW p \in Page,
                        flash'[p] # flash[p], first_empty_page # -1, ~Reset
                 PROVE  flash[p] = Erased
      BY DEF LevelledStep
    <2>1. CommitDirty
      BY DEF Next, Commit, CommitClean, Write, Begin, vars
    <2>2. p = first_empty_page
      BY <2>1 DEF CommitDirty, IInv, TypeOK
    <2> QED
      BY <2>2, EepromAssumption DEF IInv, LogShape, Shaped, Page
  <1> QED
    BY <1>1, Invariance, PTL DEF WearLevelled, Spec

-----------------------------------------------------------------------------
LEMMA InitImplements == Init => Store!Init
  <1> SUFFICES ASSUME Init PROVE Store!Init
    OBVIOUS
  <1>1. FirstEmpty(flash) = 0
    BY InitInv, FirstEmptyFound, EepromAssumption DEF Init, IInv, LogShape, Page
  <1> QED
    BY <1>1, EepromAssumption
    DEF Init, Store!Init, Store!Empty, Loaded, Image, Content, Erased, Addr

LEMMA StepImplements == IInv /\ [Next]_vars => [Store!Next]_(Store!vars)
  <1> SUFFICES ASSUME IInv, [Next]_vars PROVE [Store!Next]_(Store!vars)
    OBVIOUS
  <1> USE DEF IInv
  <1>1. ASSUME NEW a \in Addr, NEW v \in Byte, Write(a, v)
        PROVE  Store!Next
    <2>1. Content(cache') = [Content(cache) EXCEPT ![a] = v]
      BY <1>1 DEF Write, Content, TypeOK, Addr
    <2>2. Content(Loaded(flash')) = Content(Loaded(flash))
      BY <1>1 DEF Write
    <2> QED
      BY <2>1, <2>2 DEF Store!Next, Store!Put
  <1>2. ASSUME CommitClean
        PROVE  UNCHANGED Store!vars
    BY <1>2 DEF CommitClean, Store!vars
  <1>3. ASSUME CommitDirty
        PROVE  Store!Next
    BY <1>3, CommitDirtyEffect DEF Store!Next, Store!Commit
  <1>4. ASSUME Reset
        PROVE  Store!Next
    <2>1. FirstEmpty(flash') = 0
      <3>1. Shaped(AllErased, 0)
        BY EepromAssumption DEF Shaped, AllErased, Page
      <3> QED
        BY <1>4, <3>1, FirstEmptyFound, EepromAssumption DEF Reset, Page
    <2>2. Content(Erased) = Store!Empty
      BY EepromAssumption DEF Content, Erased, Store!Empty, Addr
    <2> QED
      BY <1>4, <2>1, <2>2 DEF Reset, Store!Next, Store!Reset, Loaded, Image
  <1>5. ASSUME Begin
        PROVE  Store!Next
    BY <1>5 DEF Begin, Store!Next, Store!Restart
  <1>6. ASSUME UNCHANGED vars
        PROVE  UNCHANGED Store!vars
    BY <1>6 DEF vars, Store!vars
  <1> QED
    BY <1>1, <1>2, <1>3, <1>4, <1>5, <1>6 DEF Next, Commit

\* Every behaviour of the paged, wear-levelled log is a behaviour of the
\* abstract store whose durable copy is the image a restart would load
\* (eeprom.c:39-147).
THEOREM Refinement == Spec => ImplementsStore
  BY InitImplements, StepImplements, Invariance, PTL
  DEF Spec, ImplementsStore, Store!Spec

-----------------------------------------------------------------------------
(***************************************************************************)
(* The supply fails while a page is programmed, never while the log is     *)
(* erased.  LogShape is too strong then: the page in front, which          *)
(* first_empty_page names, may hold part of an image.  It carries no mark  *)
(* though, because the chunk with the mark is programmed last.             *)
(***************************************************************************)
TornShaped(f, e) ==
    \A p \in Page :
        /\ e = -1 \/ p < e => f[p][Last] = Mark
        /\ e # -1 /\ p = e => f[p][Last] = Unwritten
        /\ e # -1 /\ p > e => f[p] = Erased

ErasedSoFar == \A p \in Page : p \div PagesPerSector < done => flash[p] = Erased

PInv ==
    /\ PowerTypeOK
    /\ phase # "erase" => TornShaped(flash, first_empty_page)
    /\ phase = "erase" => done < NumSectors /\ ErasedSoFar
    /\ phase = "program" =>
          /\ done < NumChunks
          /\ first_empty_page # -1
          /\ first_empty_page > 0 =>
                before = Content(flash[first_empty_page - 1])
          /\ after = "program"
    /\ phase # "idle" /\ after = "program" => cache[Last] = Mark

LEMMA TornFound ==
  ASSUME NEW f, NEW e \in Page \cup {-1}, TornShaped(f, e)
  PROVE  FirstEmpty(f) = e
  BY SearchFinds DEF TornShaped

LEMMA Counts == NumSectors \in Nat /\ NumChunks \in Nat \ {0}
  BY EepromAssumption, PowerAssumption DEF NumSectors, NumChunks

\* The sectors are the whole log, and the mark is in the last chunk.
LEMMA SectorsCover ==
  ASSUME NEW p \in Page
  PROVE  p \div PagesPerSector \in 0 .. NumSectors - 1
  BY EepromAssumption, PowerAssumption DEF NumSectors, Page

LEMMA MarkIsLast == Last \div ChunkSize = NumChunks - 1
  BY EepromAssumption, PowerAssumption DEF NumChunks, Last
LEMMA OverlaidType ==
  ASSUME NEW old \in [Cell -> Byte], NEW new \in [Cell -> Byte], NEW cells
  PROVE  Overlaid(old, new, cells) \in [Cell -> Byte]
  BY DEF Overlaid, Byte

LEMMA LoadedType ==
  ASSUME NEW f \in [Page -> [Cell -> Byte]], NEW e \in Page \cup {-1}
  PROVE  Image(f, e) \in [Cell -> Byte] /\ Content(Image(f, e)) \in [Addr -> Byte]
  <1>1. Image(f, e) \in [Cell -> Byte]
    BY ErasedType, EepromAssumption DEF Image, Page
  <1> QED
    BY <1>1 DEF Content, Addr

LEMMA SearchType ==
  ASSUME NEW f
  PROVE  FirstEmpty(f) \in Page \cup {-1}
  BY DEF FirstEmpty

LEMMA InitPInv == PowerInit => PInv
  <1> SUFFICES ASSUME PowerInit
               PROVE  PInv
    OBVIOUS
  <1>1. TypeOK /\ LogShape
    BY InitInv DEF PowerInit, IInv
  <1>2. before \in [Addr -> Byte]
    BY <1>1 DEF PowerInit, TypeOK, Content, Addr
  <1>3. PowerTypeOK
    BY <1>1, <1>2, Counts, PowerAssumption DEF PowerInit, PowerTypeOK
  <1>4. TornShaped(flash, first_empty_page)
    BY <1>1, LastInCell, EepromAssumption
    DEF LogShape, Shaped, TornShaped, TypeOK, Page
  <1> QED
    BY <1>3, <1>4 DEF PInv, PowerInit

\* One chunk: it reaches the mark exactly when it is the last one.
LEMMA ProgramChunkEffect ==
  ASSUME PInv, ProgramChunk
  PROVE  LET p == first_empty_page
             image == Overlaid(flash[p], cache, ChunkCells(done))
         IN /\ p \in Page
            /\ image \in [Cell -> Byte]
            /\ flash' = [flash EXCEPT ![p] = image]
            /\ done + 1 < NumChunks => image[Last] = Unwritten
            /\ ~(done + 1 < NumChunks) => image[Last] = Mark
  <1> DEFINE p == first_empty_page
             image == Overlaid(flash[p], cache, ChunkCells(done))
  <1>1. p \in Page /\ done \in Nat /\ done < NumChunks
    BY Counts DEF PInv, PowerTypeOK, TypeOK, ProgramChunk
  <1>2. image \in [Cell -> Byte]
    BY <1>1, OverlaidType DEF PInv, PowerTypeOK, TypeOK
  <1>3. flash[p][Last] = Unwritten /\ cache[Last] = Mark
    BY <1>1 DEF PInv, TornShaped, ProgramChunk
  <1>4. Last \in ChunkCells(done) <=> done = NumChunks - 1
    BY LastInCell, MarkIsLast, Counts, <1>1 DEF ChunkCells
  <1>5. image[Last] = IF done = NumChunks - 1 THEN Mark ELSE Unwritten
    BY <1>3, <1>4, LastInCell DEF Overlaid, Unwritten
  <1> QED
    BY <1>1, <1>2, <1>5, Counts DEF ProgramChunk

LEMMA ProgramChunkPInv == PInv /\ ProgramChunk => PInv'
  <1> SUFFICES ASSUME PInv, ProgramChunk
               PROVE  PInv'
    OBVIOUS
  <1> DEFINE p == first_empty_page
             image == Overlaid(flash[p], cache, ChunkCells(done))
  <1>1. /\ p \in Page
        /\ image \in [Cell -> Byte]
        /\ flash' = [flash EXCEPT ![p] = image]
        /\ done + 1 < NumChunks => image[Last] = Unwritten
        /\ ~(done + 1 < NumChunks) => image[Last] = Mark
    BY ProgramChunkEffect
  <1>2. done \in Nat /\ after = "program" /\ cache[Last] = Mark
    BY Counts DEF PInv, PowerTypeOK, ProgramChunk
  <1>3. flash' \in [Page -> [Cell -> Byte]]
    BY <1>1 DEF PInv, PowerTypeOK, TypeOK
  <1>4. \A q \in Page : flash'[q] = IF q = p THEN image ELSE flash[q]
    BY <1>1 DEF PInv, PowerTypeOK, TypeOK
  <1> HIDE DEF image
  <1>5. /\ \A q \in Page : q < p => flash[q][Last] = Mark
        /\ \A q \in Page : q > p => flash[q] = Erased
    BY <1>1, EepromAssumption DEF PInv, ProgramChunk, TornShaped, Page
  <1>6. CASE done + 1 < NumChunks
    <2>1. /\ done' = done + 1
          /\ UNCHANGED <<phase, first_empty_page, dirty, res, cache, after,
                         before, losses>>
      BY <1>6 DEF ProgramChunk
    <2>2. TornShaped(flash', first_empty_page')
      BY <1>1, <1>4, <1>5, <1>6, <2>1, EepromAssumption DEF TornShaped, Page
    <2>3. PowerTypeOK'
      BY <1>2, <1>3, <1>6, <2>1, Counts DEF PInv, PowerTypeOK, TypeOK
    <2>4. first_empty_page > 0 =>
            flash'[first_empty_page - 1] = flash[first_empty_page - 1]
      BY <1>1, <1>4, EepromAssumption DEF Page
    <2> QED
      BY <1>1, <1>2, <1>6, <2>1, <2>2, <2>3, <2>4 DEF PInv, ProgramChunk
  <1>7. CASE ~(done + 1 < NumChunks)
    <2>1. /\ done' = 0 /\ phase' = "idle" /\ dirty' = FALSE
          /\ first_empty_page' = NextPage(p)
          /\ res' \in BOOLEAN
          /\ UNCHANGED <<cache, after, before, losses>>
      BY <1>7 DEF ProgramChunk, Verified
    <2>2. first_empty_page' \in Page \cup {-1}
      BY <1>1, <2>1, EepromAssumption DEF NextPage, Page
    <2>3. TornShaped(flash', first_empty_page')
      BY <1>1, <1>4, <1>5, <1>7, <2>1, LastInCell, EepromAssumption
      DEF TornShaped, Page, NextPage
    <2>4. TypeOK'
      BY <1>3, <2>1, <2>2 DEF PInv, PowerTypeOK, TypeOK
    <2>5. PowerTypeOK'
      BY <2>1, <2>4, Counts DEF PInv, PowerTypeOK
    <2> QED
      BY <2>1, <2>3, <2>5 DEF PInv
  <1> QED
    BY <1>6, <1>7

LEMMA EraseSectorPInv == PInv /\ EraseSector => PInv'
  <1> SUFFICES ASSUME PInv, EraseSector
               PROVE  PInv'
    OBVIOUS
  <1>1. done \in Nat /\ done < NumSectors /\ ErasedSoFar
    BY Counts DEF PInv, PowerTypeOK, EraseSector
  <1>2. flash' \in [Page -> [Cell -> Byte]]
    BY ErasedType DEF PInv, PowerTypeOK, TypeOK, EraseSector
  <1>3. \A p \in Page : p \div PagesPerSector < done + 1 => flash'[p] = Erased
    BY <1>1, SectorsCover, Counts DEF EraseSector, ErasedSoFar, SectorPages
  <1>4. CASE done + 1 < NumSectors
    <2>1. /\ done' = done + 1
          /\ UNCHANGED <<phase, first_empty_page, cache, dirty, res, after,
                         before, losses>>
      BY <1>4 DEF EraseSector
    <2>2. PowerTypeOK'
      BY <1>1, <1>2, <1>4, <2>1, Counts DEF PInv, PowerTypeOK, TypeOK
    <2> QED
      BY <1>3, <1>4, <2>1, <2>2 DEF PInv, EraseSector, ErasedSoFar
  <1>5. CASE ~(done + 1 < NumSectors)
    <2>1. /\ done' = 0 /\ phase' = after /\ first_empty_page' = 0
          /\ cache' = IF after = "idle" THEN Erased ELSE cache
          /\ UNCHANGED <<dirty, res, after, before, losses>>
      BY <1>5 DEF EraseSector
    <2>2. \A p \in Page : flash'[p] = Erased
      BY <1>1, <1>3, <1>5, SectorsCover, Counts
    <2>3. TornShaped(flash', 0)
      BY <2>2, LastInCell DEF TornShaped, Page
    <2>4. PowerTypeOK'
      BY <1>2, <2>1, ErasedType, Counts, EepromAssumption
      DEF PInv, PowerTypeOK, TypeOK, Page
    <2>5. after = "program" => cache'[Last] = Mark
      BY <2>1 DEF PInv, EraseSector
    <2> QED
      BY <2>1, <2>3, <2>4, <2>5, Counts DEF PInv, PowerTypeOK
  <1> QED
    BY <1>4, <1>5

\* The calls that leave flash alone, eeprom_begin among them.
LEMMA RamPInv ==
  ASSUME PInv,
         \/ \E a \in Addr, v \in Byte : IdleWrite(a, v)
         \/ IdleCommit
         \/ IdleBegin
         \/ CommitStart
         \/ ResetStart
         \/ UNCHANGED pvars
  PROVE  PInv'
  <1>1. ASSUME NEW a \in Addr, NEW v \in Byte, IdleWrite(a, v)
        PROVE  PInv'
    BY <1>1 DEF IdleWrite, Idle, Write, PInv, PowerTypeOK, TypeOK, Addr
  <1>2. CASE IdleCommit
    BY <1>2 DEF IdleCommit, Idle, CommitClean, PInv, PowerTypeOK, TypeOK
  <1>3. CASE IdleBegin
    <2>1. first_empty_page' = first_empty_page
      BY <1>3, TornFound DEF IdleBegin, Idle, Begin, PInv, PowerTypeOK, TypeOK
    <2>2. cache' \in [Cell -> Byte]
      BY <1>3, LoadedType, SearchType
      DEF IdleBegin, Begin, Loaded, PInv, PowerTypeOK, TypeOK
    <2> QED
      BY <1>3, <2>1, <2>2 DEF IdleBegin, Idle, Begin, PInv, PowerTypeOK, TypeOK
  <1>4. CASE CommitStart
    <2>1. FirstEmpty(flash) = first_empty_page
      BY <1>4, TornFound DEF CommitStart, PInv, PowerTypeOK, TypeOK
    <2>2. before' \in [Addr -> Byte]
      BY <1>4, LoadedType, SearchType
      DEF CommitStart, Loaded, PInv, PowerTypeOK, TypeOK
    <2>3. first_empty_page > 0 =>
            before' = Content(flash[first_empty_page - 1])
      BY <1>4, <2>1 DEF CommitStart, Loaded, Image
    <2>4. cache' \in [Cell -> Byte] /\ cache'[Last] = Mark
      BY <1>4, LastInCell DEF CommitStart, PInv, PowerTypeOK, TypeOK, Byte, Mark
    <2>5. PowerTypeOK'
      BY <1>4, <2>2, <2>4, Counts DEF CommitStart, PInv, PowerTypeOK, TypeOK
    <2>6. CASE first_empty_page = -1
      <3>1. 0 < NumSectors
        BY SectorsCover, Counts, EepromAssumption DEF Page
      <3>2. ErasedSoFar'
        BY <1>4, SectorsCover DEF CommitStart, ErasedSoFar
      <3> QED
        BY <1>4, <2>4, <2>5, <2>6, <3>1, <3>2 DEF CommitStart, PInv
    <2>7. CASE first_empty_page # -1
      BY <1>4, <2>3, <2>4, <2>5, <2>7, Counts DEF CommitStart, PInv
    <2> QED
      BY <2>6, <2>7
  <1>5. CASE ResetStart
    <2>1. before' \in [Addr -> Byte]
      BY <1>5, LoadedType, SearchType
      DEF ResetStart, Loaded, PInv, PowerTypeOK, TypeOK
    <2>2. 0 < NumSectors
      BY SectorsCover, Counts, EepromAssumption DEF Page
    <2>3. ErasedSoFar'
      BY <1>5, SectorsCover DEF ResetStart, ErasedSoFar, vars
    <2> QED
      BY <1>5, <2>1, <2>2, <2>3, Counts
      DEF ResetStart, vars, PInv, PowerTypeOK, TypeOK
  <1>6. CASE UNCHANGED pvars
    BY <1>6 DEF pvars, vars, PInv, PowerTypeOK, TypeOK, ErasedSoFar
  <1> QED
    BY <1>1, <1>2, <1>3, <1>4, <1>5, <1>6

\* eeprom_begin after a failure while a page was programmed.
LEMMA PowerLossEffect ==
  ASSUME "erase" \notin LossIn, PInv, PowerLoss
  PROVE  /\ phase = "program"
         /\ first_empty_page' = first_empty_page
         /\ cache' = Image(flash, first_empty_page)
  <1>1. phase = "program"
    BY PowerAssumption DEF PowerLoss
  <1>2. FirstEmpty(flash) = first_empty_page
    BY <1>1, TornFound DEF PInv, PowerTypeOK, TypeOK
  <1> QED
    BY <1>1, <1>2 DEF PowerLoss, Begin, Loaded
LEMMA StepPInv ==
  ASSUME "erase" \notin LossIn, PInv, [PowerNext]_pvars
  PROVE  PInv'
  <1>1. CASE PowerLoss
    <2>1. /\ phase = "program"
          /\ first_empty_page' = first_empty_page
          /\ cache' = Image(flash, first_empty_page)
      BY <1>1, PowerLossEffect
    <2>2. /\ phase' = "idle" /\ done' = 0 /\ dirty' = FALSE /\ res' = TRUE
          /\ losses' = losses + 1 /\ losses' <= MaxLosses
          /\ UNCHANGED <<flash, after, before>>
      BY <1>1, PowerAssumption DEF PowerLoss, Begin, PInv, PowerTypeOK
    <2>3. TypeOK'
      BY <2>1, <2>2, LoadedType DEF PInv, PowerTypeOK, TypeOK
    <2>4. PowerTypeOK'
      BY <2>2, <2>3, Counts, PowerAssumption DEF PInv, PowerTypeOK
    <2> QED
      BY <2>1, <2>2, <2>4 DEF PInv
  <1> QED
    BY <1>1, RamPInv, EraseSectorPInv, ProgramChunkPInv DEF PowerNext

\* What the flash and the controller look like as long as the supply fails only
\* while a page is programmed.
THEOREM PowerInvariance ==
  ASSUME "erase" \notin LossIn
  PROVE  PowerSpec => []PInv
  <1>1. PInv /\ [PowerNext]_pvars => PInv'
    BY StepPInv
  <1> QED
    BY <1>1, InitPInv, PTL DEF PowerSpec

\* A page that is being programmed carries no mark (eeprom.c:59-66, 119-129).
THEOREM MarkedLeftAlone ==
  ASSUME "erase" \notin LossIn
  PROVE  PowerSpec => []NeverProgramsMarked
  <1>1. PInv => NeverProgramsMarked
    BY DEF PInv, PowerTypeOK, TypeOK, TornShaped, NeverProgramsMarked
  <1> QED
    BY <1>1, PowerInvariance, PTL

\* A commit that the supply interrupts while it programs leaves the configuration
\* of before, or a blank one when it was programming the first page of a log that
\* is new or was full and has just been erased (eeprom.c:59-71, 119-125).
THEOREM TornProgram ==
  ASSUME "erase" \notin LossIn
  PROVE  PowerSpec => TornProgramKeepsOld
  <1>1. PInv /\ [PowerNext]_pvars =>
          [PowerLoss /\ phase = "program" =>
              Content(cache') = IF first_empty_page > 0 THEN before
                                ELSE Content(Erased)]_pvars
    <2> SUFFICES ASSUME PInv, PowerLoss
                 PROVE  Content(cache') = IF first_empty_page > 0 THEN before
                                          ELSE Content(Erased)
      OBVIOUS
    <2>1. phase = "program" /\ cache' = Image(flash, first_empty_page)
      BY PowerLossEffect
    <2> QED
      BY <2>1 DEF PInv, Image
  <1> QED
    BY <1>1, PowerInvariance, PTL DEF PowerSpec, TornProgramKeepsOld

\* A commit that reports success has stored the cache, also on a page that was
\* torn before (eeprom.c:59-71, 126).
THEOREM VerifiedStored ==
  ASSUME "erase" \notin LossIn
  PROVE  PowerSpec => VerifiedIsStored
  <1>1. PInv /\ [PowerNext]_pvars =>
          [ProgramChunk /\ phase' = "idle" /\ res' =>
              Content(Loaded(flash')) = Content(cache')]_pvars
    <2> SUFFICES ASSUME PInv, ProgramChunk, phase' = "idle", res'
                 PROVE  Loaded(flash') = cache'
      OBVIOUS
    <2> DEFINE p == first_empty_page
               image == Overlaid(flash[p], cache, ChunkCells(done))
    <2>1. p \in Page /\ flash'[p] = image
      BY ProgramChunkEffect DEF PInv, PowerTypeOK, TypeOK
    <2>2. /\ first_empty_page' = NextPage(p)
          /\ image = cache
          /\ cache' = cache
      BY DEF ProgramChunk, Verified
    <2> HIDE DEF image
    <2>3. FirstEmpty(flash') = NextPage(p)
      BY <2>2, ProgramChunkPInv, TornFound DEF PInv, PowerTypeOK, TypeOK
    <2>4. Image(flash', NextPage(p)) = flash'[p]
      BY <2>1, EepromAssumption DEF Image, NextPage, Page
    <2> QED
      BY <2>1, <2>2, <2>3, <2>4 DEF Loaded
  <1> QED
    BY <1>1, PowerInvariance, PTL DEF PowerSpec, VerifiedIsStored
=============================================================================
