--------------------------------- MODULE Irsnd ---------------------------------
(***************************************************************************)
(* The infrared encoder, irsnd.c: irsnd_send_data turns a code into the    *)
(* bits of a frame, and irsnd_ISR, called 50000 times a second, switches   *)
(* the light on and off.  One step of the model is one bit, one pause      *)
(* between frames, or one decision of the interrupt routine; the runs of   *)
(* light and dark it stands for are handed out one by one, in ticks.       *)
(***************************************************************************)
EXTENDS IrProtocols

CONSTANT Codes      \* codes to send: [protocol, address, command, repeats]

\* The cases of irsnd_send_data that irmp.c has, too.
Protocols ==
    {"SIRCS", "NEC", "APPLE", "ONKYO", "NEC16", "NEC42", "MELINERA", "LGAIR",
     "SAMSUNG", "SAMSUNG32", "SAMSUNG48", "MATSUSHITA", "TECHNICS", "KASEIKYO",
     "RECS80", "RECS80EXT", "RC5", "RC6", "RC6A", "DENON", "THOMSON", "BOSE",
     "NUBERT", "SPEAKER", "TELEFUNKEN", "GRUNDIG", "IR60", "NOKIA", "SIEMENS",
     "RUWIDO", "FDC", "RCCAR", "JVC", "NIKON", "PENTAX"}

Word == 0 .. 65535      \* uint16_t

ASSUME CodesAssumption ==
    \A c \in Codes : /\ c.protocol \in Protocols
                     /\ c.address \in Word
                     /\ c.command \in Word
                     /\ c.repeats \in 0 .. 14

VARIABLES irsnd,    \* the static variables of irsnd_send_data and irsnd_ISR
          toggle,   \* the toggle bits, by protocol
          todo      \* runs of the step under way that are still to come

irsndVars == <<irsnd, toggle, todo>>

-----------------------------------------------------------------------------
(* irsnd_send_data: from a code to the bits of its frame.                  *)

\* bitsrevervse (x, n) sent most significant bit first, and x itself.
Lsb(n, x) == [i \in 1 .. n |-> (x \div 2 ^ (i - 1)) % 2]
Msb(n, x) == [i \in 1 .. n |-> (x \div 2 ^ (n - i)) % 2]
Not(bits) == [i \in DOMAIN bits |-> 1 - bits[i]]
Inverted(bits) == bits \o Not(bits)         \* a field, then its complement

\* In place of a bit: a pulse with the pause of a start bit.
Sync == 2

SIRCSBits(a, c)  == Lsb(15, c) \o Lsb(5, a)
APPLEBits(a, c)  == Lsb(16, 34798) \o Lsb(8, c) \o Lsb(8, a)    \* 0x87EE
NECBits(a, c)    == Inverted(Lsb(8, a)) \o Inverted(Lsb(8, c))
ONKYOBits(a, c)  == Lsb(16, a) \o Lsb(16, c)
NEC16Bits(a, c)  == Lsb(8, a) \o <<Sync>> \o Lsb(8, c)
NEC42Bits(a, c)  == Inverted(Lsb(13, a)) \o Inverted(Lsb(8, c))
MELINERABits(c)  == Msb(8, c)
LGAIRBits(a, c)  ==
    Msb(8, a) \o Msb(16, c)
    \o Msb(4, (c \div 4096 + c \div 256 + c \div 16 + c) % 16)
SAMSUNGBits(a, c) ==
    Lsb(16, a) \o <<Sync>> \o Lsb(4, c \div 256) \o Inverted(Lsb(8, c))
SAMSUNG32Bits(a, c) == Lsb(16, a) \o Lsb(16, c)
SAMSUNG48Bits(a, c) ==
    Lsb(16, a) \o Inverted(Lsb(8, c)) \o Inverted(Lsb(8, c \div 256))
MATSUSHITABits(a, c) == Lsb(12, c) \o Lsb(12, a)
TECHNICSBits(c)      == Inverted(Lsb(11, c))

\* genre2, the upper half of the flags, is zero.
KASEIKYOBits(a, c) ==
    LET parity == XorOf([i \in 1 .. 4 |-> Lsb(4, a \div 16 ^ (i - 1))])
        low    == parity \o Lsb(4, c \div 4096)
        high   == Lsb(4, 0) \o Lsb(4, c)
        last   == Lsb(8, c \div 16)
    IN Lsb(16, a) \o low \o high \o last \o XorOf(<<low, high, last>>)

\* RECS80 and RC6A or the toggle bit to a bit of the code.
Or(x, y) == IF x + y = 0 THEN 0 ELSE 1

RECS80Bits(a, c, t)    == [Msb(4, a) \o Msb(6, c) EXCEPT ![1] = Or(@, t)]
RECS80EXTBits(a, c, t) == <<1, t>> \o Msb(4, a) \o Msb(6, c)
RC5Bits(a, c, t)       == Not(Msb(1, c \div 64)) \o <<t>> \o Msb(5, a)
                          \o Msb(6, c)
RC6Bits(a, c, t)       == <<1, 0, 0, 0, t>> \o Msb(8, a) \o Msb(8, c)

RC6ABits(a, c, t) ==
    [<<1, 1, 1, 0, 0, 0>> \o Msb(14, a) \o Msb(16, c) EXCEPT ![21] = Or(@, t)]

\* Two frames: the second one repeats the address and inverts the command.
DENONBits(a, c)   == Msb(5, a) \o Msb(10, c) \o <<0>>
                     \o Msb(5, a) \o Not(Msb(10, c)) \o <<0>>
THOMSONBits(a, c, t) == Msb(4, a) \o <<t>> \o Msb(7, c)
BOSEBits(c)       == Inverted(Lsb(8, c))
NUBERTBits(c)     == Msb(10, c)
SPEAKERBits(c)    == Msb(10, c)
TELEFUNKENBits(c) == Msb(15, c)

\* A start frame of ones (IR60: 0x7d) and, from bit 16, 8 or 24, the code;
\* the bit before it is sent as the start bit of its frame.
GRUNDIGBits(c)  == Msb(16, 65472) \o <<1>> \o Lsb(9, c)          \* 0xFFC0
IR60Bits(c)     == Lsb(7, 125) \o <<1>> \o Lsb(7, c)
NOKIABits(a, c) == Msb(24, 12582784) \o <<1>> \o Lsb(8, c)       \* 0xBFFF80
                   \o Lsb(8, a)

SIEMENSBits(a, c) == Msb(11, a) \o Msb(10, c) \o Not(Msb(1, c))
RUWIDOBits(a, c)  == Msb(9, a) \o Msb(7, c) \o Not(Msb(1, c))

\* Only the upper eight bits of the address and of the command are sent.
FDCBits(a, c) == Lsb(8, a \div 64) \o Lsb(16, 0) \o Inverted(Lsb(8, c \div 16))

RCCARBits(a, c)  == Lsb(2, c \div 256) \o Lsb(2, a) \o Lsb(8, c)
                    \o Lsb(1, c \div 1024)
JVCBits(a, c)    == Lsb(4, a) \o Lsb(12, c)
NIKONBits(c)     == Msb(2, c)
PENTAXBits(c)    == Msb(6, c)

\* The cases of irsnd_send_data: protocol, its times and the bits to send.
Frame(n, p, bits) == [protocol |-> n, times |-> p, bits |-> bits]

FrameOf(code, t) ==
    LET n == code.protocol
        a == code.address
        c == code.command
    IN CASE n = "SIRCS" -> Frame(n, [SIRCS EXCEPT !.len = 12 + a \div 256],
                                 SIRCSBits(a, c))
         [] n = "NEC"        -> Frame(n, NEC, NECBits(a, c))
         [] n = "APPLE"      -> Frame("NEC", NEC, APPLEBits(a, c))
         [] n = "ONKYO"      -> Frame(n, NEC, ONKYOBits(a, c))
         [] n = "NEC16"      -> Frame(n, [NEC16 EXCEPT !.len = 17],
                                      NEC16Bits(a, c))
         [] n = "NEC42"      -> Frame(n, NEC42, NEC42Bits(a, c))
         [] n = "MELINERA"   -> Frame(n, MELINERA, MELINERABits(c))
         [] n = "LGAIR"      -> Frame(n, LGAIR, LGAIRBits(a, c))
         [] n = "SAMSUNG"    -> Frame(n, SAMSUNG, SAMSUNGBits(a, c))
         [] n = "SAMSUNG32"  -> Frame(n, SAMSUNG32, SAMSUNG32Bits(a, c))
         [] n = "SAMSUNG48"  -> Frame(n, SAMSUNG48, SAMSUNG48Bits(a, c))
         [] n = "MATSUSHITA" -> Frame(n, MATSUSHITA, MATSUSHITABits(a, c))
         [] n = "TECHNICS"   -> Frame(n, TECHNICS, TECHNICSBits(c))
         [] n = "KASEIKYO"   -> Frame(n, KASEIKYO, KASEIKYOBits(a, c))
         [] n = "RECS80"     -> Frame(n, RECS80, RECS80Bits(a, c, t))
         [] n = "RECS80EXT"  -> Frame(n, RECS80EXT, RECS80EXTBits(a, c, t))
         [] n = "RC5"        -> Frame(n, RC5, RC5Bits(a, c, t))
         [] n = "RC6"        -> Frame(n, RC6, RC6Bits(a, c, t))
         [] n = "RC6A"       -> Frame(n, RC6A, RC6ABits(a, c, t))
         [] n = "DENON"      -> Frame(n, DENON, DENONBits(a, c))
         [] n = "THOMSON"    -> Frame(n, THOMSON, THOMSONBits(a, c, t))
         [] n = "BOSE"       -> Frame(n, BOSE, BOSEBits(c))
         [] n = "NUBERT"     -> Frame(n, NUBERT, NUBERTBits(c))
         [] n = "SPEAKER"    -> Frame(n, SPEAKER, SPEAKERBits(c))
         [] n = "TELEFUNKEN" -> Frame(n, TELEFUNKEN, TELEFUNKENBits(c))
         [] n = "GRUNDIG"    -> Frame(n, GRUNDIG, GRUNDIGBits(c))
         [] n = "IR60"       -> Frame(n, IR60, IR60Bits(c))
         [] n = "NOKIA"      -> Frame(n, NOKIA, NOKIABits(a, c))
         [] n = "SIEMENS"    -> Frame(n, SIEMENS, SIEMENSBits(a, c))
         [] n = "RUWIDO"     -> Frame(n, RUWIDO, RUWIDOBits(a, c))
         [] n = "FDC"        -> Frame(n, FDC, FDCBits(a, c))
         [] n = "RCCAR"      -> Frame(n, RCCAR, RCCARBits(a, c))
         [] n = "JVC"        -> Frame(n, JVC, JVCBits(a, c))
         [] n = "NIKON"      -> Frame(n, NIKON, NIKONBits(c))
         [] n = "PENTAX"     -> Frame(n, PENTAX, PENTAXBits(c))

\* The toggle bit a protocol uses: RC6 and RC6A share theirs.
ToggleOf(protocol) == IF protocol = "RC6A" THEN "RC6" ELSE protocol

Toggles == {"RECS80", "RECS80EXT", "RC5", "RC6", "THOMSON"}

\* The repetitions the flags ask for: 15 is IRSND_ENDLESS_REPETITION, which
\* runs until irsnd_stop and is left out.
SendData(code) ==
    LET g == ToggleOf(code.protocol)
        t == IF g \in Toggles THEN 1 - toggle[g] ELSE 0
        f == FrameOf(code, t)
    IN /\ ~irsnd.busy
       /\ irsnd' = [irsnd EXCEPT !.busy = TRUE,
                                 !.protocol = f.protocol,
                                 !.times = f.times,
                                 !.buffer = f.bits,
                                 !.repeat = code.repeats]
       /\ toggle' = IF g \in Toggles THEN [toggle EXCEPT ![g] = t] ELSE toggle
       /\ UNCHANGED todo

-----------------------------------------------------------------------------
(* irsnd_ISR: from the bits to light and dark.                             *)

\* current_bit before the first bit: the start bit.
StartBit == 255

Light(n) == [light |-> TRUE,  n |-> n]
Dark(n)  == [light |-> FALSE, n |-> n]

\* The protocols that send a start frame first, then the code.
InfoFrames == {"GRUNDIG", "IR60", "NOKIA"}

\* Their start bit goes before the bit that current_bit names.
InfoStart == [GRUNDIG |-> 15, IR60 |-> 7, NOKIA |-> 23]

IsStart(s) ==
    \/ s.current_bit = StartBit
    \/ s.protocol \in InfoFrames /\ s.current_bit = InfoStart[s.protocol]

\* A bit of a pulse-distance protocol.  NIKON, PENTAX, DENON and THOMSON do
\* not take off the tick in which the next bit is fetched.
PulseCell(s) ==
    LET p == s.times
        k == s.current_bit
        Cell(pair) == <<Light(Ticks(pair[1])), Dark(Ticks(pair[2]))>>
    IN IF k = StartBit
       THEN IF s.protocol \in {"NIKON", "PENTAX", "DENON", "THOMSON"}
            THEN <<Light(Ticks(p.start[1])), Dark(Ticks(p.start[2]) + 1)>>
            ELSE Cell(IF s.protocol \in {"NEC", "ONKYO"} /\ s.repeat_counter > 0
                      THEN <<p.start[1], NecRepeatPause>>
                      ELSE p.start)
       ELSE IF k >= s.len THEN Cell(p.zero)             \* the stop bit
       ELSE IF s.buffer[k + 1] = Sync THEN Cell(<<p.zero[1], p.start[2]>>)
       ELSE Cell(IF s.buffer[k + 1] = 1 THEN p.one ELSE p.zero)

\* The lengths of the pulse and of the pause of a bi-phase bit.
BiPhaseLengths(s) ==
    LET p == s.times
        k == s.current_bit
    IN CASE s.protocol \in {"RC6", "RC6A"} /\ k = StartBit ->
              <<Ticks(p.start[1]), Ticks(p.start[2]) - 1>>
         [] s.protocol = "RC6"  /\ k = 4 -> <<Ticks(Rc6Bit2), Ticks(Rc6Bit2)>>
         [] s.protocol = "RC6A" /\ k = 4 -> <<Ticks(Rc6Bit3), Ticks(Rc6Bit2)>>
         [] s.protocol = "RC6A" /\ k = 5 -> <<Ticks(p.one[1]), Ticks(Rc6Bit2)>>
         [] s.protocol \in InfoFrames /\ IsStart(s) ->
              <<Ticks(p.start[1]), Ticks(p.start[2]) - 1>>
         [] OTHER -> <<Ticks(p.one[1]), Ticks(p.one[2])>>

BiPhaseCell(s) ==
    LET first_pulse == IsStart(s) \/ s.buffer[s.current_bit + 1] = 1
        n == BiPhaseLengths(s)
    IN IF first_pulse = (s.protocol # "RC5")
       THEN <<Light(n[1]), Dark(n[2])>>
       ELSE <<Dark(n[2]), Light(n[1])>>

\* DENON and THOMSON have no pulse for a start bit.
Cell(s) ==
    LET runs == IF s.times.manchester THEN BiPhaseCell(s) ELSE PulseCell(s)
    IN IF runs[1].n = 0 THEN Tail(runs) ELSE runs

\* The gap between two frames of one command, and where the next one starts.
Gap ==
    LET s == irsnd
        p == s.protocol
        resumed ==
            CASE p = "DENON"   -> <<16, 31>>
              [] p = "GRUNDIG" -> <<15, 26>>
              [] p = "IR60"    -> <<7, 15>>
              [] p = "NOKIA" /\ s.auto_counter + 1 < s.n_auto -> <<23, 41>>
              [] p = "NOKIA" /\ s.auto_counter + 1 >= s.n_auto ->
                   <<StartBit, NOKIA.len>>
              [] OTHER -> <<StartBit, s.len>>
    IN /\ s.busy /\ s.new_frame /\ s.auto_counter > 0 /\ todo = <<>>
       /\ irsnd' = [s EXCEPT !.current_bit = resumed[1],
                             !.len = resumed[2],
                             !.new_frame = FALSE]
       /\ todo' = <<Dark(s.auto_pause - 1)>> \o Cell(irsnd')
       /\ UNCHANGED toggle

\* The pause after a command and between its repetitions.
TrailingSpace ==
    /\ irsnd.busy /\ irsnd.new_frame /\ irsnd.auto_counter = 0 /\ todo = <<>>
    /\ irsnd.trailing > 0
    /\ todo' = <<Dark(irsnd.trailing)>>
    /\ irsnd' = [irsnd EXCEPT !.trailing = 0]
    /\ UNCHANGED toggle

\* The command is over.
TrailerEnd ==
    /\ irsnd.busy /\ irsnd.new_frame /\ irsnd.auto_counter = 0 /\ todo = <<>>
    /\ irsnd.trailing = 0
    /\ irsnd.send_trailer
    /\ irsnd' = [irsnd EXCEPT !.busy = FALSE, !.send_trailer = FALSE]
    /\ todo' = <<Dark(1)>>
    /\ UNCHANGED toggle

\* The first frame of a command, or of a repetition of it.
InitFrame ==
    LET s == irsnd
        p == s.times
        again == s.repeat_counter > 0
    IN /\ s.busy /\ s.new_frame /\ s.auto_counter = 0 /\ todo = <<>>
       /\ s.trailing = 0
       /\ ~s.send_trailer
       /\ irsnd' =
            [s EXCEPT
               !.n_repeat = s.repeat,
               !.len = IF again /\ s.protocol \in {"NEC", "ONKYO"}
                       THEN 0 ELSE p.len,
               !.n_auto = IF again /\ s.protocol = "SIRCS" THEN 1 ELSE p.frames,
               !.auto_pause = Ticks(p.gap),
               !.trailing = Ticks(p.pause),
               !.current_bit = IF again /\ s.protocol = "JVC"
                               THEN 0 ELSE StartBit,
               !.new_frame = FALSE]
       /\ todo' = Cell(irsnd')
       /\ UNCHANGED toggle

NextBit(s) == (s.current_bit + 1) % 256

FrameEnds(s) == NextBit(s) >= s.len + s.times.stop

SendBit ==
    /\ irsnd.busy /\ ~irsnd.new_frame /\ todo = <<>>
    /\ ~FrameEnds(irsnd)
    /\ irsnd' = [irsnd EXCEPT !.current_bit = NextBit(irsnd)]
    /\ todo' = Cell(irsnd')
    /\ UNCHANGED toggle

RepeatsLeft(s) == s.repeat_counter < s.n_repeat

\* All frames of the command are sent: repeat it, or send the last pause.
\* FDC marks its repetitions in the third byte.
EndOfCommand(s) ==
    IF RepeatsLeft(s)
    THEN [s EXCEPT !.repeat_counter = @ + 1,
                   !.buffer = IF s.protocol = "FDC"
                              THEN [i \in DOMAIN @ |->
                                      IF i \in 21 .. 24 THEN 1 ELSE @[i]]
                              ELSE @]
    ELSE [s EXCEPT !.send_trailer = TRUE, !.n_repeat = 0, !.repeat_counter = 0]

\* GRUNDIG, IR60 and NOKIA repeat their info frame as often as wanted, before
\* they send what ends the command.
EndOfInfoFrame(s) ==
    LET t == [s EXCEPT !.auto_counter = @ + 1,
                       !.auto_pause = IF s.repeat_counter > 0
                                      THEN Ticks(s.times.pause) ELSE @]
    IN IF RepeatsLeft(s)
       THEN [t EXCEPT !.n_auto = @ + 1, !.repeat_counter = @ + 1]
       ELSE IF t.auto_counter = s.n_auto
            THEN EndOfCommand([t EXCEPT !.auto_counter = 0])
            ELSE t

EndOfPulseFrame(s) ==
    IF s.auto_counter + 1 = s.n_auto
    THEN EndOfCommand([s EXCEPT !.auto_counter = 0])
    ELSE [s EXCEPT !.auto_counter = @ + 1]

\* A bi-phase frame takes one tick more to end.
EndOfFrame ==
    LET s == [irsnd EXCEPT !.current_bit = StartBit, !.new_frame = TRUE]
    IN /\ irsnd.busy /\ ~irsnd.new_frame /\ todo = <<>>
       /\ FrameEnds(irsnd)
       /\ irsnd' = IF s.protocol \in InfoFrames THEN EndOfInfoFrame(s)
                   ELSE IF s.times.manchester THEN EndOfCommand(s)
                   ELSE EndOfPulseFrame(s)
       /\ todo' = IF s.times.manchester THEN <<Dark(1)>> ELSE <<>>
       /\ UNCHANGED toggle

Isr == Gap \/ TrailingSpace \/ TrailerEnd \/ InitFrame \/ SendBit \/ EndOfFrame

IrsndInit ==
    /\ irsnd = [busy |-> FALSE, protocol |-> "UNKNOWN", times |-> NEC,
                buffer |-> <<>>, repeat |-> 0, current_bit |-> StartBit,
                new_frame |-> TRUE, len |-> 0, n_auto |-> 0,
                auto_counter |-> 0, auto_pause |-> 0, n_repeat |-> 0,
                repeat_counter |-> 0, trailing |-> 0, send_trailer |-> FALSE]
    /\ toggle = [p \in Toggles |-> 0]
    /\ todo = <<>>

IrsndTypeOK ==
    /\ irsnd.busy \in BOOLEAN
    /\ irsnd.new_frame \in BOOLEAN
    /\ irsnd.send_trailer \in BOOLEAN
    /\ irsnd.current_bit \in 0 .. 255
    /\ irsnd.repeat_counter \in 0 .. irsnd.repeat
    /\ irsnd.buffer \in Seq({0, 1, Sync})
    /\ toggle \in [Toggles -> {0, 1}]
    /\ \A i \in DOMAIN todo : todo[i] \in [light : BOOLEAN, n : Nat]

=============================================================================
