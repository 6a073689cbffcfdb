------------------------------ MODULE IrProtocols ------------------------------
(***************************************************************************)
(* The infrared protocols of irmpprotocols.h, as far as this project's     *)
(* decoder (irmpconfig.h) receives them or its encoder (irsndconfig.h)     *)
(* sends them.  Both sides read the same header: the times a protocol      *)
(* gives to its start bit, to a one and to a zero, the number of its bits, *)
(* whether a stop bit follows, how many frames one command takes, and the  *)
(* pauses after a frame.                                                   *)
(*                                                                         *)
(* Times are in microseconds.  Both interrupt routines run at              *)
(* F_INTERRUPTS = 50 kHz, so that one tick is 20 microseconds.             *)
(***************************************************************************)
EXTENDS Integers, Sequences, SequencesExt

\* (uint) (F_INTERRUPTS * time + 0.5), the conversion of every ..._LEN macro.
Ticks(us) == (us + 10) \div 20

\* A pulse-distance protocol: a bit is a pulse followed by a pause.
PulseDistance(start, one, zero, len, stop, pause) ==
    [start |-> start, one |-> one, zero |-> zero, len |-> len, stop |-> stop,
     pause |-> pause, frames |-> 1, gap |-> 0, manchester |-> FALSE]

\* A bi-phase protocol: a bit is a pulse and a pause of the same length, and
\* their order is its value.  None has a stop bit.
BiPhase(start, bit, len, pause) ==
    [start |-> start, one |-> <<bit, bit>>, zero |-> <<bit, bit>>, len |-> len,
     stop |-> 0, pause |-> pause, frames |-> 1, gap |-> 0, manchester |-> TRUE]

\* ..._FRAMES and ..._AUTO_REPETITION_PAUSE_TIME: one command takes n frames.
Repeated(p, n, gap) == [p EXCEPT !.frames = n, !.gap = gap]

-----------------------------------------------------------------------------
(* Protocols with a start bit.                                             *)

SIRCS == Repeated(PulseDistance(<<2400, 600>>, <<1200, 600>>, <<600, 600>>,
                                12, 0, 25000), 3, 25000)

NEC == PulseDistance(<<9000, 4500>>, <<560, 1690>>, <<560, 560>>, 32, 1, 40000)

\* NEC_REPEAT_START_BIT_PAUSE_TIME: the pause of a repetition frame.  In
\* floating point, 2250.0e-6 s are a little less than 112.5 ticks.
NecRepeatPause == 2249

NEC42 == [NEC EXCEPT !.len = 42]
LGAIR == [NEC EXCEPT !.len = 28]
NEC16 == [NEC EXCEPT !.len = 16]

MELINERA == PulseDistance(<<8800, 4100>>, <<970, 1140>>, <<440, 590>>,
                          8, 1, 40000)

SAMSUNG == PulseDistance(<<4500, 4500>>, <<550, 1500>>, <<550, 500>>,
                         37, 1, 25000)
SAMSUNG32 == Repeated([SAMSUNG EXCEPT !.len = 32, !.pause = 47000], 1, 47000)
SAMSUNG48 == Repeated([SAMSUNG EXCEPT !.len = 48, !.pause = 47000], 2, 5000)

SAMSUNGAH == PulseDistance(<<2500, 1900>>, <<450, 1100>>, <<450, 450>>,
                           48, 1, 40000)

MATSUSHITA == PulseDistance(<<3488, 3488>>, <<872, 2616>>, <<872, 872>>,
                            24, 1, 40000)
TECHNICS == [MATSUSHITA EXCEPT !.len = 22]

KASEIKYO == Repeated(PulseDistance(<<3456, 1728>>, <<432, 1296>>, <<432, 432>>,
                                   48, 1, 74000), 1, 74000)

VINCENT == PulseDistance(<<2500, 4600>>, <<550, 1540>>, <<550, 550>>,
                         32, 1, 40000)

RECS80 == PulseDistance(<<158, 7432>>, <<158, 7432>>, <<158, 4902>>,
                        10, 1, 45000)

RECS80EXT == PulseDistance(<<158, 3637>>, <<158, 7432>>, <<158, 4902>>,
                           12, 1, 45000)

NUBERT == Repeated(PulseDistance(<<1340, 340>>, <<1340, 340>>, <<500, 1300>>,
                                 10, 1, 35000), 2, 35000)

SPEAKER == Repeated(PulseDistance(<<440, 1250>>, <<1250, 440>>, <<440, 1250>>,
                                  10, 1, 35000), 2, 35000)

FDC == PulseDistance(<<2085, 966>>, <<300, 715>>, <<300, 220>>, 40, 1, 60000)

RCCAR == PulseDistance(<<2000, 2000>>, <<600, 450>>, <<600, 900>>,
                       13, 1, 40000)

JVC == PulseDistance(<<9000, 4500>>, <<560, 1690>>, <<560, 560>>, 16, 1, 22000)

NIKON == PulseDistance(<<2200, 27100>>, <<500, 3500>>, <<500, 1500>>,
                       2, 1, 60000)

BOSE == Repeated(PulseDistance(<<1060, 1425>>, <<550, 1425>>, <<550, 437>>,
                               16, 1, 40000), 1, 40000)

TELEFUNKEN == PulseDistance(<<600, 1500>>, <<600, 1500>>, <<600, 600>>,
                            15, 1, 22000)

PENTAX == PulseDistance(<<13000, 3000>>, <<1000, 3000>>, <<1000, 1000>>,
                        6, 1, 60000)

GREE == PulseDistance(<<12000, 6000>>, <<900, 700>>, <<900, 2100>>,
                      32, 1, 40000)

METZ == PulseDistance(<<870, 2300>>, <<435, 1680>>, <<435, 960>>, 20, 0, 122000)

-----------------------------------------------------------------------------
(* Protocols without a start bit: the first bit starts the frame.          *)

DENON == Repeated(PulseDistance(<<0, 0>>, <<310, 1780>>, <<310, 745>>,
                                15, 1, 45000), 2, 45000)

THOMSON == Repeated(PulseDistance(<<0, 0>>, <<550, 4500>>, <<550, 2000>>,
                                  12, 1, 35000), 1, 35000)

-----------------------------------------------------------------------------
(* Bi-phase protocols.                                                     *)

RC5 == BiPhase(<<889, 889>>, 889, 13, 88900)

RC6  == BiPhase(<<2666, 889>>, 444, 21, 45000)
RC6A == [RC6 EXCEPT !.len = 36]

\* RC6_BIT_2_TIME and RC6_BIT_3_TIME: the long bits, RC6_TOGGLE_BIT_TIME.
Rc6Bit2 == 889
Rc6Bit3 == 1333

GrundigNokiaIr60 == BiPhase(<<528, 2639>>, 528, 10, 117760)
GRUNDIG == Repeated(GrundigNokiaIr60, 2, 20000)
NOKIA   == Repeated([GrundigNokiaIr60 EXCEPT !.len = 17], 3, 20000)
IR60    == Repeated([GrundigNokiaIr60 EXCEPT !.len = 7], 2, 22200)

\* The start bit of the encoder is a plain bit; the pause of the first bit
\* makes it the <<275, 550>> of the header.
RUWIDO  == BiPhase(<<275, 550>>, 275, 17, 45000)
SIEMENS == [RUWIDO EXCEPT !.len = 22]

-----------------------------------------------------------------------------
\* The exclusive or of all nibbles, or bytes, a sequence is made of.
XorOf(words) == FoldLeft(LAMBDA x, w : [i \in DOMAIN w |-> (x[i] + w[i]) % 2],
                         Head(words), Tail(words))

=============================================================================
