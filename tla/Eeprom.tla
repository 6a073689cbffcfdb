------------------------------- MODULE Eeprom -------------------------------
(***************************************************************************)
(* The emulated EEPROM (RP2xxx/eeprom/eeprom.c): a cache in RAM and a log  *)
(* of whole images of it in flash.  An image fills one page; its last cell *)
(* is the mark that tells a written page from an erased one.  Pages are    *)
(* written one after the other and all of them are erased together when    *)
(* none is left.                                                           *)
(*                                                                         *)
(* Flash is modelled by what the hardware does: erasing sets every bit,    *)
(* programming can only clear bits.  A byte is therefore the set of its    *)
(* CLEARED bits: 0xFF is {}, 0x00 is Bits, and programming a byte takes    *)
(* the union of what was there and what is written.                        *)
(*                                                                         *)
(* eeprom_commit and eeprom_reset run with interrupts disabled, so each is *)
(* one step here; module EepromPower splits them to let the power fail.    *)
(***************************************************************************)
EXTENDS Integers

CONSTANTS
    NumPages,   \* _nr_sectors * FLASH_SECTOR_SIZE / _size
    Size,       \* _size
    Bits        \* the bits of a byte

ASSUME EepromAssumption ==
    /\ NumPages \in Nat \ {0}
    /\ Size \in Nat \ {0, 1}
    /\ Bits # {}

Page == 0 .. NumPages - 1
Cell == 0 .. Size - 1
Last == Size - 1
Addr == Cell \ {Last}       \* main.c's layout never reaches the marked cell
Byte == SUBSET Bits

Unwritten == {}             \* 0xFF
Mark == Bits                \* 0x00

Erased == [c \in Cell |-> Unwritten]

VARIABLES
    flash,              \* the pages behind _sector
    cache,              \* _data
    dirty,              \* _dirty
    first_empty_page,   \* first_empty_page, -1 when no page is left
    res                 \* what the latest eeprom_commit returned

vars == <<flash, cache, dirty, first_empty_page, res>>

TypeOK ==
    /\ flash \in [Page -> [Cell -> Byte]]
    /\ cache \in [Cell -> Byte]
    /\ dirty \in BOOLEAN
    /\ first_empty_page \in Page \cup {-1}
    /\ res \in BOOLEAN

(***************************************************************************)
(* eeprom_begin: the first page whose last byte is unwritten, and the      *)
(* image the cache is loaded from.                                         *)
(***************************************************************************)
IsFirstEmpty(f, p) ==
    /\ f[p][Last] = Unwritten
    /\ \A q \in Page : q < p => f[q][Last] # Unwritten

FirstEmpty(f) ==
    IF \E p \in Page : IsFirstEmpty(f, p)
      THEN CHOOSE p \in Page : IsFirstEmpty(f, p)
      ELSE -1

\* Mutant: the empty page itself is taken for the newest image.
ImageOffByOne(f, p) == IF p = -1 THEN f[NumPages - 1] ELSE f[p]

Image(f, p) ==
    IF p > 0 THEN f[p - 1]
    ELSE IF p = -1 THEN f[NumPages - 1]
    ELSE Erased

Loaded(f) == Image(f, FirstEmpty(f))

Programmed(old, new) == [c \in Cell |-> old[c] \cup new[c]]

AllErased == [p \in Page |-> Erased]

Init ==
    /\ flash = AllErased
    /\ cache = Erased
    /\ dirty = FALSE
    /\ first_empty_page = 0
    /\ res = TRUE

Begin ==
    /\ first_empty_page' = FirstEmpty(flash)
    /\ cache' = Loaded(flash)
    /\ dirty' = FALSE
    /\ res' = TRUE
    /\ UNCHANGED flash

\* Mutant: a write forgets that it made the cache differ from flash.
WriteNotDirty(a, v) ==
    /\ cache' = [cache EXCEPT ![a] = v]
    /\ UNCHANGED <<flash, dirty, first_empty_page, res>>

Write(a, v) ==
    /\ cache' = [cache EXCEPT ![a] = v]
    /\ dirty' = (dirty \/ cache[a] # v)
    /\ UNCHANGED <<flash, first_empty_page, res>>

\* Mutants: the last page is not recognised, the log wraps without erasing, the
\* page is not advanced.
NextPageOffByOne(p) == IF p + 1 <= NumPages THEN p + 1 ELSE -1
NextPageWraps(p) == IF p + 1 < NumPages THEN p + 1 ELSE 0
NextPageStays(p) == p

NextPage(p) == IF p + 1 < NumPages THEN p + 1 ELSE -1

CommitClean ==
    /\ ~dirty
    /\ res' = TRUE
    /\ UNCHANGED <<flash, cache, dirty, first_empty_page>>

\* Mutant: the last byte is not marked.
CommitUnmarked ==
    /\ dirty
    /\ LET full == first_empty_page = -1
           base == IF full THEN AllErased ELSE flash
           p == IF full THEN 0 ELSE first_empty_page
       IN /\ flash' = [base EXCEPT ![p] = Programmed(base[p], cache)]
          /\ res' = (Programmed(base[p], cache) = cache)
          /\ first_empty_page' = NextPage(p)
    /\ dirty' = FALSE
    /\ UNCHANGED cache

CommitDirty ==
    /\ dirty
    /\ LET full == first_empty_page = -1
           base == IF full THEN AllErased ELSE flash
           p == IF full THEN 0 ELSE first_empty_page
           data == [cache EXCEPT ![Last] = Mark]
       IN /\ cache' = data
          /\ flash' = [base EXCEPT ![p] = Programmed(base[p], data)]
          /\ res' = (Programmed(base[p], data) = data)
          /\ first_empty_page' = NextPage(p)
    /\ dirty' = FALSE

Commit == CommitClean \/ CommitDirty

\* Mutant: a reset that forgets the cache.
ResetKeepsCache ==
    /\ flash' = AllErased
    /\ first_empty_page' = 0
    /\ UNCHANGED <<cache, dirty, res>>

\* eeprom_reset leaves _dirty as it is.
Reset ==
    /\ flash' = AllErased
    /\ cache' = Erased
    /\ first_empty_page' = 0
    /\ UNCHANGED <<dirty, res>>

Next ==
    \/ \E a \in Addr, v \in Byte : Write(a, v)
    \/ Commit
    \/ Reset
    \/ Begin

Spec == Init /\ [][Next]_vars

-----------------------------------------------------------------------------
(***************************************************************************)
(* Properties.                                                             *)
(***************************************************************************)
Content(image) == [a \in Addr |-> image[a]]

\* The pages in front of first_empty_page are marked and all others are
\* erased, however commits, resets and restarts alternate (eeprom.c:59-66
\* finds the newest image by that shape alone).
Shaped(f, e) ==
    \A p \in Page :
        IF e = -1 \/ p < e THEN f[p][Last] = Mark ELSE f[p] = Erased

LogShape == Shaped(flash, first_empty_page)

\* When _dirty is not set, a restart brings back exactly the configuration
\* that is in use: the answer 0 to CMD_EEPROM_DIRTY (main.c:637) may be
\* trusted.
CleanMeansDurable == ~dirty => Content(Loaded(flash)) = Content(cache)

\* The verification in eeprom_commit (eeprom.c:126) never fails on sound
\* flash: the page it programs is always an erased one.
CommitVerifies == res = TRUE

\* A page is never programmed a second time without being erased first, and
\* a commit erases nothing as long as an erased page is left.
LevelledStep ==
    \A p \in Page :
        flash'[p] # flash[p] =>
            \/ flash[p] = Erased
            \/ first_empty_page = -1
            \/ Reset

WearLevelled == [][LevelledStep]_vars

\* The emulated EEPROM implements the abstract durable store, where stored is
\* the image a restart would load.
Store == INSTANCE DurableStore WITH
            Value <- Byte,
            Blank <- Unwritten,
            cache <- Content(cache),
            stored <- Content(Loaded(flash))

ImplementsStore == Store!Spec
=============================================================================
