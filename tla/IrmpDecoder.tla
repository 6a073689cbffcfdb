------------------------------- MODULE IrmpDecoder -------------------------------
(***************************************************************************)
(* The infrared decoder, irmp_ISR and irmp_get_data of irmp.c: from light  *)
(* and dark to a protocol, an address and a command.                       *)
(*                                                                         *)
(* The interrupt routine sees one sample per tick.  A step of the model    *)
(* takes as many equal samples at once as the routine only counts, and one *)
(* sample where it decides.  The code accumulates tmp_address, tmp_command *)
(* and the variants other protocols need while the bits arrive; the model  *)
(* keeps the bits and cuts the fields out of them when the frame is        *)
(* complete.  Module Irmp has what follows: repetitions and releases.      *)
(***************************************************************************)
EXTENDS IrmpParams

VARIABLE irmp       \* the static variables of irmp_ISR

-----------------------------------------------------------------------------
(* Constants of irmp.c, in ticks.                                          *)

StopBitPause    == 151     \* STOP_BIT_PAUSE_LEN_MIN
Timeout         == 775     \* IRMP_TIMEOUT_LEN
TimeoutNikon    == 1475    \* IRMP_TIMEOUT_NIKON_LEN
Ir60Timeout     == 125     \* IR60_TIMEOUT_LEN
NecRepeatMax    == 6000    \* NEC_FRAME_REPEAT_PAUSE_LEN_MAX
AutoRepeat      == 4000    \* AUTO_FRAME_REPETITION_LEN
DenonRepeat     == 2475    \* DENON_AUTO_REPETITION_PAUSE_LEN
Rc6ToggleMin    == 22      \* RC6_TOGGLE_BIT_LEN_MIN
JvcStart        == 450     \* JVC_START_BIT_PULSE_TIME

\* Nothing tells longer pauses apart: the counters of the model stop here.
LongestPause == NecRepeatMax

Least(a, b) == IF a < b THEN a ELSE b

-----------------------------------------------------------------------------
(* The fields of a frame.                                                  *)

MsbValue(bits) == FoldLeft(LAMBDA v, b : 2 * v + b, 0, bits)
LsbValue(bits) == MsbValue(Reverse(bits))

Cut(bits, range) == SubSeq(bits, range[1] + 1, Least(range[2], Len(bits)))

Field(r, range) ==
    IF r.param.lsb_first THEN LsbValue(Cut(r.bits, range))
                         ELSE MsbValue(Cut(r.bits, range))

Complement(bits) == [i \in DOMAIN bits |-> 1 - bits[i]]

\* A repetition frame of NEC stands for the frame before it.
NecRepetition(r) == r.param.protocol = "NEC" /\ r.bits = <<>>
Repeats(r) == NecRepetition(r) /\ r.repeat_len < NecRepeatMax

\* irmp_tmp_address.  To SIRCS' address SircsLast adds the number of bits above
\* twelve; TECHNICS has checked that it is the complement of the command.
TmpAddress(r) ==
    LET p == r.param.protocol
        a == Field(r, r.param.address)
    IN CASE Repeats(r)      -> r.last_address
         [] p = "SIRCS"     -> a + 256 * r.more_bits
         [] p = "TECHNICS"  -> 0
         [] OTHER           -> a

\* irmp_tmp_command.  A bit that was lost is none (see Siemens).
Lost == 2

TmpCommand(r) ==
    LET p == r.param.protocol
        c == Field([r EXCEPT !.bits = SelectSeq(@, LAMBDA b : b # Lost)],
                   r.param.command)
    IN CASE Repeats(r)      -> r.last_command
         [] p = "KASEIKYO"  -> c + 4096 * LsbValue(Cut(r.bits, <<20, 24>>))
         [] OTHER           -> c

\* FDC: the sign of the key goes to bit 7, four bits of the address to the
\* upper half.
FdcCommand(a, c) ==
    LET key == IF c % 16 > 0 THEN 128 + ((c \div 16) % 128) ELSE c \div 16
    IN key + 256 * ((a \div 64) % 16)

\* What becomes irmp_address and irmp_command.
AddressOf(r) ==
    IF r.param.protocol = "FDC" THEN TmpAddress(r) % 64 ELSE TmpAddress(r)

CommandOf(r) ==
    CASE r.param.protocol = "FDC" -> FdcCommand(TmpAddress(r), TmpCommand(r))
      [] r.param.protocol = "RC5" -> TmpCommand(r) + r.bit6
      [] OTHER                    -> TmpCommand(r)

\* irmp_tmp_id.
TmpId(r) ==
    CASE r.param.protocol = "SAMSUNG"   -> LsbValue(Cut(r.bits, <<17, 21>>))
      [] r.param.protocol = "SAMSUNG48" -> LsbValue(Cut(r.bits, <<32, 48>>))
      [] OTHER -> 0

-----------------------------------------------------------------------------
(* Dark after the first pulse of a frame: is it a start bit, and whose?     *)

StartBitOf(r, p) ==
    /\ In(r.pulse, p.windows.start_pulse)
    /\ In(r.pause, p.windows.start_pause)

NecPulse(r) == In(r.pulse, NECWindows.start_pulse)

\* After a frame of JVC the next one may come without a start bit.
JvcRepetition(r) ==
    r.protocol = "JVC" /\ In(r.pulse, JvcStartPulse) /\ In(r.pause, JvcRepeatPause)

\* One or two halves of a bi-phase bit.
Halves(n, window) == In(n, window) \/ In(n, Doubled(window))

BiPhaseStartOf(r, p) ==
    /\ Halves(r.pulse, p.windows.start_pulse)
    /\ Halves(r.pause, p.windows.start_pause)

\* No start bit: the first bit is one of the frame.
FirstBitOf(r, p) ==
    /\ In(r.pulse, p.windows.pulse_1)
    /\ In(r.pause, p.windows.pause_1) \/ In(r.pause, p.windows.pause_0)

\* The chain of tests: the first that holds decides.
Start(r, p) == <<StartBitOf(r, p), p>>

Candidates(r) ==
    <<Start(r, sircs_param),
      <<JvcRepetition(r), nec_param>>,
      Start(r, nec42_param),
      <<NecPulse(r) /\ In(r.pause, NecRepeatWindow),
        IF r.protocol = "JVC" THEN nec_param ELSE nec_rep_param>>,
      <<r.protocol = "JVC" /\ NecPulse(r) /\ In(r.pause, NECWindows.pause_0),
        nec_param>>,
      Start(r, telefunken_param), Start(r, pentax_param),
      Start(r, nikon_param),      Start(r, samsung_param),
      Start(r, samsungah_param),  Start(r, matsushita_param),
      Start(r, kaseikyo_param),   Start(r, vincent_param),
      Start(r, metz_param),       Start(r, recs80_param),
      <<BiPhaseStartOf(r, rc5_param), rc5_param>>,
      <<FirstBitOf(r, denon_param), denon_param>>,
      <<FirstBitOf(r, thomson_param), thomson_param>>,
      Start(r, bose_param),       Start(r, rc6_param),
      Start(r, recs80ext_param),  Start(r, nubert_param),
      Start(r, speaker_param),    Start(r, grundig_param),
      <<BiPhaseStartOf(r, ruwido_param), ruwido_param>>,
      Start(r, fdc_param),        Start(r, rccar_param),
      Start(r, gree_param)>>

Detected(r) == SelectInSeq(Candidates(r), LAMBDA c : c[1])

\* irmp_param2: what looks like RC5 may turn out to be one of these.
Param2(r) == IF StartBitOf(r, fdc_param) THEN fdc_param
             ELSE IF StartBitOf(r, rccar_param) THEN rccar_param
             ELSE NoParam

\* last_pause, last_value, rc5_cmd_bit6 and irmp_param2 as detection sets them.
Long(n, window) == n > window[2] /\ n <= 2 * window[2]

BeginBiPhase(r) ==
    CASE r.param.protocol = "RC5" ->
           LET w    == RC5Windows.start_pulse
               late == Long(r.pulse, w) \/ Long(r.pause, w)
           IN [r EXCEPT !.param2 = Param2(r), !.last_pause = r.pause,
                        !.last_value = IF late THEN 0 ELSE 1,
                        !.bit6 = IF late THEN 64 ELSE @]
      [] r.param.protocol = "RC6" ->
           [r EXCEPT !.last_pause = 0, !.last_value = 1]
      [] r.param.protocol \in {"GRUNDIG", "RUWIDO"} ->
           [r EXCEPT !.last_pause = r.pause, !.last_value = 1]
      [] OTHER -> r

\* irmp_store_bit.
Store(r, value) == [r EXCEPT !.bits = Append(@, value)]

\* The value of a long pulse's, or pause's, first half and of its second half.
FirstHalf(r)  == IF r.param.first_pulse_is_1 THEN 0 ELSE 1
SecondHalf(r) == 1 - FirstHalf(r)

\* The bit that the start bit carries.
FirstBit(r) ==
    CASE r.param.protocol \in {"RC5", "GRUNDIG"} ->
           IF Long(r.pause, r.param.windows.pulse_1) THEN Store(r, FirstHalf(r))
           ELSE IF r.last_value = 0 THEN Store(r, SecondHalf(r))
           ELSE r
      [] r.param.protocol \in {"DENON", "THOMSON"} ->
           Store(r, IF In(r.pause, r.param.windows.pause_1) THEN 1 ELSE 0)
      [] OTHER -> r

\* Light again after the first pause.
Detect(r) ==
    LET d    == Detected(r)
        next == [r EXCEPT !.bits = <<>>, !.bits2 = <<>>, !.param2 = NoParam,
                          !.start_space = FALSE]
        begun == IF d = 0
                 THEN [next EXCEPT !.started = FALSE, !.param = NoParam]
                 ELSE FirstBit(BeginBiPhase(
                        [next EXCEPT !.param = Candidates(r)[d][2]]))
    IN [begun EXCEPT !.pulse = 1, !.pause = 0]

-----------------------------------------------------------------------------
(* A pulse and the pause after it are known: store what they say.          *)

\* The frame is given up.  Its last light may start another one.
Abandon(r) == [r EXCEPT !.started = FALSE, !.pause = 0]

IsRc6(r)  == r.param.protocol = "RC6"
Rc6Long(r) == IsRc6(r) /\ r.param.complete_len = 36

\* The toggle bit of RC6 is twice as long, the trailer bit of RC6A too.
ToggleBit(r) == IsRc6(r) /\ Len(r.bits) = 4 /\ r.pulse > Rc6ToggleMin

\* A pulse longer than one half: the second half of a bit and the first half
\* of the next, or a toggle bit.
LongPulse(r) ==
    LET grown  == IF IsRc6(r) /\ r.param.complete_len = Len(r.bits) + 1
                  THEN [r EXCEPT !.param.complete_len = @ + 1] ELSE r
        first  == Store(grown, FirstHalf(r))
        second == SecondHalf(r)
    IN IF ToggleBit(r)
       THEN LET v == IF Rc6Long(grown) THEN 1 ELSE 0
            IN [Store(grown, v) EXCEPT !.last_value = v]
       ELSE IF ToggleBit(first)
       THEN [Store(first, 1) EXCEPT
               !.last_value =
                 IF r.pause > 2 * r.param.windows.pause_1[2] THEN 0 ELSE 1]
       ELSE [Store(first, second) EXCEPT !.last_value = second]

\* A pulse of one half: after a long pause the value changes.
ShortPulse(r) ==
    LET v == IF Long(r.last_pause, r.param.windows.pause_1)
             THEN 1 - r.last_value ELSE r.last_value
        rc6a == IsRc6(r) /\ Len(r.bits) = 1 /\ v = 1
    IN Store([r EXCEPT !.last_value = v,
                       !.param.complete_len = IF rc6a THEN 36 ELSE @,
                       !.param.address = IF rc6a THEN <<5, 20>> ELSE @,
                       !.param.command = IF rc6a THEN <<21, 36>> ELSE @], v)

\* A bit of irmp_param2: neither FDC nor RCCAR tells pulses apart.
Bit2(r) ==
    LET w == r.param2.windows
    IN IF ~In(r.pulse, w.pulse_1) THEN {}
       ELSE IF In(r.pause, w.pause_1) THEN {1}
       ELSE IF In(r.pause, w.pause_0) THEN {0}
       ELSE {}

At(bits, i) == IF i <= Len(bits) THEN bits[i] ELSE 0

\* irmp_store_bit2: one bit behind irmp_store_bit, which counts the start bit.
Store2(r, value) ==
    LET k == Len(r.bits) - 1
    IN IF k < 1 THEN r
       ELSE [r EXCEPT !.bits2 = [i \in 1 .. k |->
                                   IF i = k THEN value ELSE At(@, i)]]

IsParam2(r) == r.param2.protocol # "none"

\* Either the pair is one of RC5 too, and both readings go on, or the frame is
\* irmp_param2's from here.
BiPhasePair(r) ==
    LET w == r.param.windows.pulse_1
        stored == IF r.pulse > w[2] THEN LongPulse(r)
                  ELSE IF In(r.pulse, w) THEN ShortPulse(r)
                  ELSE r
        bit2 == IF IsParam2(r) THEN Bit2(r) ELSE {}
        next ==
          IF r.pulse < w[1]
          THEN IF bit2 = {} THEN Abandon(r)
               ELSE [r EXCEPT
                       !.bits = [i \in 1 .. Len(r.bits) |->
                                   IF i = Len(r.bits) THEN CHOOSE b \in bit2 : TRUE
                                   ELSE At(r.bits2, i)],
                       !.param = r.param2, !.param2 = NoParam]
          ELSE IF bit2 = {} THEN stored
               ELSE Store2(stored, CHOOSE b \in bit2 : TRUE)
    IN [next EXCEPT !.last_pause = next.pause, !.space = FALSE]

\* The frame is of another protocol than its start bit said.
Relabel(r, protocol, address, command, len) ==
    [r EXCEPT !.param.protocol = protocol, !.param.address = address,
              !.param.command = command, !.param.complete_len = len]

IsOne(r)  == /\ In(r.pulse, r.param.windows.pulse_1)
             /\ In(r.pause, r.param.windows.pause_1)
IsZero(r) == /\ In(r.pulse, r.param.windows.pulse_0)
             /\ In(r.pause, r.param.windows.pause_0)

\* Between the address and the code SAMSUNG sends the pause of a start bit;
\* SAMSUNG32 and SAMSUNG48 do not.
SamsungSync(r) ==
    LET w == SAMSUNGWindows
    IN IF ~In(r.pulse, w.pulse_1) THEN Abandon(r)
       ELSE IF In(r.pause, w.start_pause) THEN Store(r, 0)
       ELSE Store(Relabel(r, "SAMSUNG48", r.param.address, <<16, 32>>, 48),
                  IF In(r.pause, w.pause_1) THEN 1 ELSE 0)

\* So does NEC16 after its address.
Nec16Sync(r) ==
    /\ r.param.protocol = "NEC42"
    /\ Len(r.bits) = 8
    /\ In(r.pause, NECWindows.start_pause)

\* A bit that only MELINERA has.
MelineraBit(r) ==
    LET w == MelineraBits
    IN /\ r.param.protocol = "NEC42"
       /\ \/ In(r.pulse, w.pulse_0) /\ In(r.pause, w.pause_0)
          \/ In(r.pulse, w.pulse_1) /\ In(r.pause, w.pause_1)

Melinera(r) ==
    Store([Relabel(r, "MELINERA", None, <<0, 8>>, 8) EXCEPT
             !.param.windows = MELINERAWindows, !.param.lsb_first = FALSE],
          IF In(r.pause, MelineraBits.pause_0) THEN 0 ELSE 1)

PulsePair(r) ==
    LET next ==
          IF r.param.protocol = "SAMSUNG" /\ Len(r.bits) = 16 THEN SamsungSync(r)
          ELSE IF Nec16Sync(r) THEN Relabel(r, "NEC16", <<0, 8>>, <<8, 16>>, 16)
          ELSE IF IsOne(r) THEN Store(r, 1)
          ELSE IF IsZero(r) THEN Store(r, 0)
          ELSE IF MelineraBit(r) THEN Melinera(r)
          ELSE Abandon(r)
    IN [next EXCEPT !.space = IF next.started THEN FALSE ELSE @]

\* Light again after a pause, or a pause that stands for it.
Evaluate(r) ==
    [IF r.param.manchester THEN BiPhasePair(r) ELSE PulsePair(r)
       EXCEPT !.pulse = 1]

-----------------------------------------------------------------------------
(* Dark within a frame: a pause that is too long for a bit ends it.        *)

\* Between frames.  What only the next start bit reads, after setting it anew,
\* is left as it was by irmp.c and cleared here.
Rested(r) == [r EXCEPT !.started = FALSE, !.pause = 0,
                       !.bits = <<>>, !.bits2 = <<>>, !.last_pause = 0,
                       !.last_value = 0, !.bit6 = 0, !.more_bits = 0,
                       !.param = NoParam, !.param2 = NoParam]

GiveUp(r) == [Rested(r) EXCEPT !.pulse = 0]

\* No stop bit to wait for; one more light is due.
Ended(r) == [r EXCEPT !.param.stop_bit = 1]

LongDark(r) == r.pause >= 2 * r.param.windows.pause_1[2]

\* All bits are there and the stop bit is over.
StopBit(r) ==
    IF r.param.manchester \/ In(r.pulse, r.param.windows.pulse_0)
    THEN [r EXCEPT !.param.stop_bit = 0]
    ELSE GiveUp(r)

StopBitOver(r) ==
    /\ Len(r.bits) = r.param.complete_len
    /\ r.param.stop_bit = 1
    /\ r.param.manchester \/ r.pause > StopBitPause

\* SIRCS has no stop bit and ends after 12 to 20 bits.
SircsOver(r) ==
    /\ r.param.protocol = "SIRCS"
    /\ r.pause > SIRCSWindows.pause_1[2]
    /\ Len(r.bits) >= 11

\* Mutant: one of the bits beyond the twelfth is not counted.
SircsLastOffByOne(r) ==
    Evaluate([r EXCEPT !.param.complete_len = Len(r.bits) + 1,
                       !.more_bits = Len(r.bits) - 12,
                       !.pause = SIRCSWindows.pause_1[2] - 1])

SircsLast(r) ==
    Evaluate([r EXCEPT !.param.complete_len = Len(r.bits) + 1,
                       !.more_bits = Len(r.bits) + 1 - 12,
                       !.pause = SIRCSWindows.pause_1[2] - 1])

\* GRUNDIG, IR60 and NOKIA have one start bit; the length of the frame tells
\* which it is.
InfoFrame(r) ==
    LET n == Len(r.bits)
    IN IF r.pause > Ir60Timeout /\ n \in {5, 6}
       THEN Evaluate(Ended(Relabel(r, "IR60", None, <<0, 7>>, 7)))
       ELSE IF LongDark(r) /\ n >= 8
       THEN Evaluate(Ended([r EXCEPT !.param.complete_len = 10]))
       ELSE IF n >= 10
       THEN Relabel(r, "NOKIA", <<9, 17>>, <<1, 9>>, 17)
       ELSE r

\* RUWIDO's bits again, as SIEMENS has them.  irmp.c shifts the fields it has
\* collected and takes the last bit from last_value.
Siemens(r) ==
    LET tail == IF Len(r.bits) = 18 THEN <<Lost>> ELSE <<>>
    IN [Relabel(r, "SIEMENS", <<0, 11>>, <<11, 22>>, 22) EXCEPT
          !.bits = SubSeq(@, 1, 16) \o <<IF r.last_value = 1 THEN 1 ELSE @[17]>>
                   \o tail]

RuwidoFrame(r) ==
    LET n == Len(r.bits)
    IN IF LongDark(r) /\ n >= 15
       THEN Evaluate(Ended([r EXCEPT !.param.complete_len = 17]))
       ELSE IF n >= 17 THEN Siemens(r)
       ELSE r

\* The remaining bi-phase protocols.
BiPhaseOver(r) ==
    /\ r.param.manchester /\ LongDark(r)
    /\ \/ Rc6Long(r)
       \/ Len(r.bits) >= r.param.complete_len - 2 /\ r.param.stop_bit = 0

BiPhaseLast(r) ==
    Evaluate(Ended(IF Rc6Long(r)
                   THEN [r EXCEPT !.param.complete_len = Len(r.bits) + 1]
                   ELSE r))

\* Shorter frames that begin like NEC or NEC42.
Jvc(r, end) == Ended(Relabel(r, "JVC", <<0, 4>>, <<4, end>>, Len(r.bits)))
Lgair(r)    == [Ended(Relabel(r, "LGAIR", <<0, 8>>, <<8, 24>>, Len(r.bits)))
                  EXCEPT !.param.lsb_first = FALSE]

\* A start bit without a frame repeats the last one.
NecWithoutBits(r) ==
    IF r.repeat_len < NecRepeatMax
    THEN [Ended(Relabel(r, "NEC", None, None, 0)) EXCEPT !.repeat_len = 0]
    ELSE r

\* TECHNICS is a short MATSUSHITA whose halves are complements.
Technics(r) ==
    IF Cut(r.bits, <<0, 11>>) = Complement(Cut(r.bits, <<11, 22>>))
    THEN Relabel(r, "TECHNICS", <<11, 22>>, <<0, 11>>, 22)
    ELSE GiveUp(r)

\* Mutant: a frame that is of no use is not abandoned.
TimedOutIfComplete(r) ==
    IF Len(r.bits) = r.param.complete_len - 1 /\ r.param.stop_bit = 0
    THEN Store(r, 0) ELSE r

\* IRMP_TIMEOUT_LEN without light.
TimedOut(r) ==
    LET p == r.param.protocol
        n == Len(r.bits)
    IN CASE n = r.param.complete_len - 1 /\ r.param.stop_bit = 0 -> Store(r, 0)
         [] p \in {"NEC", "NEC42"} /\ n = 0       -> NecWithoutBits(r)
         [] p = "NEC"   /\ n \in {16, 17}         -> Jvc(r, 16)
         [] p = "NEC42" /\ n \in {16, 17}         -> Jvc(r, 17)
         [] p = "NEC"   /\ n \in {28, 29}         -> Lgair(r)
         [] p = "NEC42" /\ n = 28                 -> Lgair(r)
         [] p = "NEC42" /\ n = 32 ->
              Ended(Relabel(r, "NEC", <<0, 16>>, <<16, 32>>, 32))
         [] p = "SAMSUNG48" /\ n = 32 ->
              Relabel(r, "SAMSUNG32", <<0, 16>>, <<16, 32>>, 32)
         [] p = "MATSUSHITA" /\ n = 22            -> Technics(r)
         [] OTHER                                 -> GiveUp(r)

\* One more tick of dark; r.pause has it already.
DarkTick(r) ==
    LET p == r.param.protocol
    IN IF StopBitOver(r) THEN StopBit(r)
       ELSE IF SircsOver(r) THEN SircsLast(r)
       ELSE IF p = "GRUNDIG" /\ r.param.stop_bit = 0 THEN InfoFrame(r)
       ELSE IF p = "RUWIDO" /\ r.param.stop_bit = 0 THEN RuwidoFrame(r)
       ELSE IF BiPhaseOver(r) THEN BiPhaseLast(r)
       ELSE IF r.pause > Timeout THEN TimedOut(r)
       ELSE r

-----------------------------------------------------------------------------
(* A frame is complete.                                                    *)

\* All nibbles of the address, and all bytes of the command, cancel out.
Part(r, from, n) == SubSeq(r.bits, from + 1, from + n)

KaseikyoOK(r) ==
    /\ XorOf([i \in 1 .. 4 |-> Part(r, 4 * (i - 1), 4)]) = Part(r, 16, 4)
    /\ XorOf([i \in 1 .. 3 |-> Part(r, 8 * (i + 1), 8)]) = Part(r, 40, 8)

\* Mutant: the end frame of NOKIA counts.
SwallowedNoNokia(r, repetitions) ==
    \/ r.param.protocol \in {"NUBERT", "SPEAKER"} /\ repetitions = 1
    \/ r.param.protocol = "GRUNDIG" /\ TmpCommand(r) = 511

\* Frames that are not a command of their own: the second frame of NUBERT and
\* SPEAKER, the start and end frames of GRUNDIG and NOKIA, a repetition of
\* NEC that comes too late.
Swallowed(r, repetitions) ==
    LET p == r.param.protocol
    IN \/ p \in {"NUBERT", "SPEAKER"} /\ repetitions = 1
       \/ p = "GRUNDIG" /\ TmpCommand(r) = 511
       \/ p = "NOKIA" /\ TmpAddress(r) = 255 /\ TmpCommand(r) = 254

Rejected(r) == \/ NecRepetition(r) /\ ~Repeats(r)
               \/ r.param.protocol = "KASEIKYO" /\ ~KaseikyoOK(r)

ProtocolOf(r) ==
    IF ~IsRc6(r) THEN r.param.protocol
    ELSE CASE r.param.complete_len = 36 -> "RC6A"
           [] r.param.complete_len = 25 -> "RC6A20"
           [] r.param.complete_len = 33 -> "RC6A28"
           [] OTHER -> "RC6"

\* irmp_protocol, irmp_address, irmp_command and irmp_id, and, if the frame
\* counts, what the next one is compared with.
Reported(r, detected, address, command) ==
    [r EXCEPT !.detected = detected,
              !.protocol = ProtocolOf(r),
              !.address = address, !.command = command, !.id = TmpId(r),
              !.last_address = IF detected \/ r.param.protocol = "NEC"
                               THEN address ELSE @,
              !.last_command = IF detected THEN command ELSE @,
              !.repeat_len = IF detected THEN 0 ELSE @]

\* DENON sends two frames, the command and its complement.  Only the two
\* together count, and commands are even.
Denon(r) ==
    LET c == TmpCommand(r)
    IN IF 1023 - c = r.denon_last
       THEN [Reported(r, TRUE, TmpAddress(r), r.denon_last)
               EXCEPT !.denon_last = 0, !.id = r.id]
       ELSE IF c % 2 = 0
       THEN [r EXCEPT !.denon_last = c, !.denon_len = 0]
       ELSE [r EXCEPT !.denon_last = 0]

\* The parity of repetition_frame_number.
Repetitions(r) ==
    LET command == IF NecRepetition(r) /\ r.repeat_len > 0
                   THEN 0 ELSE TmpCommand(r)
    IN IF r.last_command = command /\ r.repeat_len < AutoRepeat
       THEN 1 - r.repetitions ELSE 0

Complete(r) ==
    /\ r.started /\ ~r.start_space
    /\ Len(r.bits) = r.param.complete_len
    /\ r.param.stop_bit = 0

\* After JVC the pulse of the start bit that its repetitions leave out is
\* taken as seen.
Finish(r) ==
    LET n == Repetitions(r)
        p == r.param.protocol
        next ==
          IF Swallowed(r, n)
          THEN [r EXCEPT !.repeat_len = IF p \in {"NUBERT", "SPEAKER"} THEN 0 ELSE @]
          ELSE IF p = "DENON" THEN Denon(r)
          ELSE Reported([r EXCEPT !.repeat_len = IF Repeats(r) THEN 0 ELSE @],
                        ~Rejected(r), AddressOf(r), CommandOf(r))
    IN [Rested(next) EXCEPT
          !.repetitions = n,
          !.pulse = IF next.protocol = "JVC" THEN JvcStart ELSE 0]

Completed(r) == IF Complete(r) THEN Finish(r) ELSE r

-----------------------------------------------------------------------------
(* irmp_ISR, branch by branch.  While a result waits for irmp_get_data, no *)
(* sample is looked at.                                                    *)

InPulse == irmp.started /\ ~irmp.start_space /\ ~irmp.space
InPause == irmp.started /\ ~irmp.start_space /\ irmp.space

\* n samples of light: the pulse grows.
PulseGrows(n) ==
    /\ ~irmp.detected
    /\ ~irmp.started \/ InPulse
    /\ irmp' = [irmp EXCEPT !.pulse = @ + n]

\* Dark: the first pulse of a frame is over.
FirstPulseEnds ==
    /\ ~irmp.detected
    /\ ~irmp.started /\ irmp.pulse > 0
    /\ irmp' = [irmp EXCEPT !.started = TRUE, !.start_space = TRUE,
                            !.space = FALSE, !.pause = 1, !.bit6 = 0,
                            !.more_bits = 0]

\* n samples of dark between frames.
Idle(n) ==
    LET expired == /\ irmp.denon_last # 0
                   /\ irmp.denon_len < LongestPause
                   /\ irmp.denon_len + n >= DenonRepeat
    IN /\ ~irmp.detected
       /\ ~irmp.started /\ irmp.pulse = 0
       /\ irmp' = [irmp EXCEPT
                     !.repeat_len = Least(LongestPause, @ + n),
                     !.denon_len = IF expired THEN LongestPause
                                   ELSE Least(LongestPause, @ + n),
                     !.denon_last = IF expired THEN 0 ELSE @]

\* n samples of the pause of a start bit, which may be too long for one.
StartPauseGrows(n) ==
    LET r == [irmp EXCEPT !.pause = @ + n]
    IN /\ ~irmp.detected
       /\ irmp.started /\ irmp.start_space
       /\ irmp' = IF \/ /\ ~In(r.pulse, NIKONWindows.start_pulse)
                        /\ r.pause > Timeout
                     \/ r.pause > TimeoutNikon
                  THEN GiveUp(r) ELSE r

StartPauseEnds ==
    /\ ~irmp.detected
    /\ irmp.started /\ irmp.start_space
    /\ irmp' = Completed(Detect(irmp))

PulseEnds ==
    /\ ~irmp.detected
    /\ InPulse
    /\ irmp' = Completed([irmp EXCEPT !.space = TRUE, !.pause = 1])

\* n samples of the pause of a bit; the tests are made for the last of them.
PauseGrows(n) ==
    /\ ~irmp.detected
    /\ InPause
    /\ irmp' = Completed(DarkTick([irmp EXCEPT
                                      !.pause = Least(LongestPause, @ + n)]))

PauseEnds ==
    /\ ~irmp.detected
    /\ InPause
    /\ irmp' = Completed(Evaluate(irmp))

\* The pauses after which a test may turn out differently: up to the next of
\* these the samples of one run of dark can be taken at once.
Thresholds ==
    {1, SIRCSWindows.pause_1[2], Ir60Timeout, StopBitPause, Timeout,
     Timeout + 1, TimeoutNikon, 2 * irmp.param.windows.pause_1[2] - 1}

Ahead(n) == Min({n} \cup {t + 1 - irmp.pause : t \in {t \in Thresholds :
                                                        t >= irmp.pause}})

-----------------------------------------------------------------------------
(* irmp_get_data.                                                          *)

Low(c)  == c % 256
High(c) == c \div 256

\* The upper byte is the complement of the lower.
Checked(c) == High(c) + Low(c) = 255

Data(protocol, address, command) ==
    [protocol |-> protocol, address |-> address, command |-> command]

\* What the code of a protocol is made of, and whether it is a code at all.
NecData(a, c) ==
    IF Checked(c) THEN Data("NEC", IF Checked(a) THEN Low(a) ELSE a, Low(c))
    ELSE IF a = 34798 THEN Data("APPLE", High(c), Low(c))        \* 0x87EE
    ELSE Data("ONKYO", a, c)

RccarData(c) ==
    Data("RCCAR", (c \div 4) % 4,
         1024 * ((c \div 4096) % 2) + 256 * (c % 4) + ((c \div 16) % 256))

\* None, or one value.
GetDataResult(r) ==
    LET p == r.protocol
        a == r.address
        c == r.command
    IN CASE p = "SAMSUNG"   -> IF Checked(c)
                               THEN {Data(p, a, Low(c) + 256 * r.id)} ELSE {}
         [] p = "SAMSUNG48" -> {Data(p, a, Low(c) + 256 * Low(r.id))}
         [] p \in {"NEC", "APPLE"} -> {NecData(a, c)}
         [] p = "VINCENT"   -> IF High(c) = Low(c)
                               THEN {Data(p, a, Low(c))} ELSE {}
         [] p = "BOSE"      -> IF Checked(c) THEN {Data(p, a, Low(c))} ELSE {}
         [] p \in {"SIEMENS", "RUWIDO"} ->
              IF c % 2 = 1 - ((c \div 2) % 2) THEN {Data(p, a, c \div 2)} ELSE {}
         [] p = "RC5"       -> {Data(p, a % 32, c)}
         [] p = "IR60"      -> IF c = 125 THEN {} ELSE {Data(p, a, c)}
         [] p = "RCCAR"     -> {RccarData(c)}
         [] p = "METZ"      ->
              IF (a \div 8) % 8 = 7 - (a % 8) /\ (c \div 64) + (c % 64) = 63
              THEN {Data(p, (a % 64) \div 8, c \div 64)} ELSE {}
         [] OTHER           -> {Data(p, a, c)}

GetData ==
    /\ irmp.detected
    /\ irmp' = [irmp EXCEPT
                  !.detected = FALSE,
                  !.protocol = IF @ \in {"NEC", "APPLE"}
                               THEN NecData(irmp.address, irmp.command).protocol
                               ELSE @]

IrmpInit ==
    irmp = [started |-> FALSE, start_space |-> FALSE, space |-> FALSE,
            pulse |-> 0, pause |-> 0, bits |-> <<>>, bits2 |-> <<>>,
            param |-> NoParam, param2 |-> NoParam, last_pause |-> 0,
            last_value |-> 0, bit6 |-> 0, more_bits |-> 0,
            detected |-> FALSE,
            protocol |-> "none", address |-> 0, command |-> 0, id |-> 0,
            repeat_len |-> 0, last_address |-> 65535, last_command |-> 65535,
            repetitions |-> 0, denon_last |-> 0, denon_len |-> LongestPause]

IrmpTypeOK ==
    /\ irmp.started \in BOOLEAN
    /\ irmp.start_space \in BOOLEAN
    /\ irmp.space \in BOOLEAN
    /\ irmp.detected \in BOOLEAN
    /\ irmp.pulse \in 0 .. 65535
    /\ irmp.pause \in 0 .. LongestPause
    /\ irmp.bits \in Seq({0, 1, Lost})
    /\ irmp.address \in 0 .. 65535
    /\ irmp.command \in 0 .. 65535
    /\ irmp.repeat_len \in 0 .. LongestPause
    /\ irmp.repetitions \in {0, 1}

-----------------------------------------------------------------------------
(* The decoder under any light.                                            *)

\* n samples of dark may be taken at once if no test turns out differently
\* before the last of them; one sample always may.
Skippable(n) == \A t \in Thresholds : irmp.pause <= t => irmp.pause + n <= t + 1

DecoderNext ==
    \/ \E n \in Nat \ {0} :
         \/ PulseGrows(n)
         \/ Idle(n)
         \/ Skippable(n) /\ (StartPauseGrows(n) \/ PauseGrows(n))
    \/ FirstPulseEnds \/ StartPauseEnds \/ PulseEnds \/ PauseEnds
    \/ GetData

DecoderSpec == IrmpInit /\ [][DecoderNext]_irmp

\* The decoder does not wait for ever: in the dark a frame is over after
\* 15.5 ms, or 29.5 ms after the start bit of NIKON, whole or not, and the next
\* light starts a new one (irmp.c, IRMP_TIMEOUT_LEN).
TimesOut == irmp.started /\ ~InPulse => irmp.pause <= TimeoutNikon

\* The frames that irmp.c waits for without a limit: of GRUNDIG and RUWIDO those
\* that are too short for any frame the start bit may belong to, and a start bit
\* of NEC that repeats nothing.
WaitsOn(r) ==
    LET p == r.param.protocol
        n == Len(r.bits)
    IN \/ p = "GRUNDIG" /\ r.param.stop_bit = 0 /\ n \in {0, 1, 2, 3, 4, 7}
       \/ p = "RUWIDO" /\ r.param.stop_bit = 0 /\ n < 15
       \/ /\ p \in {"NEC", "NEC42"} /\ n = 0
          /\ r.param.complete_len # 0 /\ r.repeat_len >= NecRepeatMax

Stalled == InPause /\ WaitsOn(irmp)

=============================================================================
