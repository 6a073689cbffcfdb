------------------------------- MODULE IrmpParams -------------------------------
(***************************************************************************)
(* What the decoder knows of each protocol: the windows in which a pulse   *)
(* or a pause counts as part of a start bit, of a one or of a zero         *)
(* (irmp.c, ..._LEN_MIN and ..._LEN_MAX), and the parameter tables it      *)
(* copies to irmp_param when a start bit matches (IRMP_PARAMETER).         *)
(*                                                                         *)
(* A window is a pair of ticks.  Its bounds are the protocol's time plus   *)
(* or minus a tolerance, here in thousandths.                              *)
(***************************************************************************)
EXTENDS IrProtocols

\* (uint) (F_INTERRUPTS * time * tolerance + 0.5).  Where the product is an exact
\* half and comes out a little less in floating point, the tolerance is given
\* one thousandth less (699 for 0.7, 1129 for 1.13).
Within(us, tolerance) ==
    <<(us * tolerance[1] + 10000) \div 20000,
      (us * tolerance[2] + 10000) \div 20000>>

In(n, window) == window[1] <= n /\ n <= window[2]

\* 2 * ..._LEN_MIN to 2 * ..._LEN_MAX: two halves of bi-phase bits in a row.
Doubled(window) == <<2 * window[1], 2 * window[2]>>

Windows(p, start_pulse, start_pause, pulse_1, pause_1, pulse_0, pause_0) ==
    [start_pulse |-> Within(p.start[1], start_pulse),
     start_pause |-> Within(p.start[2], start_pause),
     pulse_1 |-> Within(p.one[1], pulse_1),
     pause_1 |-> Within(p.one[2], pause_1),
     pulse_0 |-> Within(p.zero[1], pulse_0),
     pause_0 |-> Within(p.zero[2], pause_0)]

\* A bi-phase protocol has one window for each half of a bit.
BiPhaseWindows(p, start_pulse, start_pause, pulse, pause) ==
    Windows(p, start_pulse, start_pause, pulse, pause, <<0, 0>>, <<0, 0>>)

\* Tolerances that go by a name in irmp.c.
MinMax(percent) == <<1000 - 10 * percent, 1000 + 10 * percent>>

SIRCSWindows ==
    Windows(SIRCS, <<880, 1120>>, <<700, 1150>>,
            <<850, 1140>>, MinMax(30), MinMax(30), MinMax(30))

NECWindows ==
    Windows(NEC, <<700, 1129>>, <<699, 1300>>,
            MinMax(40), MinMax(30), MinMax(40), MinMax(40))
NecRepeatWindow == Within(NecRepeatPause, MinMax(30))

\* What becomes of NEC's windows when MELINERA is recognised: the upper bounds
\* of the pauses are written over those of the pulses.
MELINERAWindows ==
    LET w == Windows(MELINERA, <<0, 0>>, <<0, 0>>,
                     MinMax(30), MinMax(30), <<600, 1150>>, MinMax(40))
    IN [NECWindows EXCEPT
          !.pulse_0 = <<w.pulse_0[1], w.pause_0[2]>>,
          !.pause_0 = <<w.pause_0[1], @[2]>>,
          !.pulse_1 = <<w.pulse_1[1], w.pause_1[2]>>,
          !.pause_1 = <<w.pause_1[1], @[2]>>]

\* MELINERA_..., by which it is recognised.
MelineraBits ==
    Windows(MELINERA, <<0, 0>>, <<0, 0>>,
            MinMax(30), MinMax(30), <<600, 1150>>, MinMax(40))

SAMSUNGWindows ==
    Windows(SAMSUNG, <<899, 1100>>, <<899, 1100>>,
            MinMax(50), MinMax(35), MinMax(50), MinMax(50))

SAMSUNGAHWindows ==
    Windows(SAMSUNGAH, MinMax(10), MinMax(15),
            <<600, 1399>>, MinMax(35), <<600, 1399>>, <<600, 1399>>)

MATSUSHITAWindows ==
    Windows(MATSUSHITA, MinMax(20), MinMax(20),
            MinMax(45), MinMax(40), MinMax(45), <<450, 1450>>)

KASEIKYOWindows ==
    Windows(KASEIKYO, <<800, 1220>>, <<750, 1220>>,
            MinMax(52), <<750, 1300>>, MinMax(52), <<570, 1320>>)

VINCENTWindows ==
    Windows(VINCENT, MinMax(12), MinMax(10),
            MinMax(50), MinMax(23), MinMax(50), MinMax(30))

RECS80Windows ==
    Windows(RECS80, <<530, 2160>>, MinMax(10),
            <<530, 1900>>, MinMax(10), <<530, 1900>>, MinMax(10))

RECS80EXTWindows ==
    Windows(RECS80EXT, <<530, 1900>>, MinMax(10),
            <<530, 1900>>, MinMax(10), <<530, 1900>>, MinMax(10))

NUBERTWindows ==
    Windows(NUBERT, MinMax(25), <<380, 1350>>,
            MinMax(25), <<380, 1350>>, <<700, 1420>>, MinMax(25))

SPEAKERWindows ==
    Windows(SPEAKER, MinMax(35), MinMax(25),
            MinMax(25), MinMax(35), MinMax(35), MinMax(25))

\* The pause of a zero is FDC_0_PAUSE_LEN_MIN (1) to ..._MAX (plus 1).
FDCWindows ==
    LET w == Windows(FDC, <<900, 1060>>, <<840, 1080>>,
                     <<400, 1699>>, MinMax(30), <<400, 1699>>, <<0, 1200>>)
    IN [w EXCEPT !.pause_0 = <<1, @[2] + 1>>]

RCCARWindows ==
    Windows(RCCAR, MinMax(10), MinMax(10),
            <<700, 1350>>, <<600, 1500>>, <<700, 1350>>, <<699, 1400>>)

NIKONWindows ==
    Windows(NIKON, MinMax(20), MinMax(20),
            <<700, 1400>>, MinMax(20), <<700, 1400>>, MinMax(25))

GREEWindows ==
    Windows(GREE, MinMax(20), MinMax(20),
            MinMax(25), MinMax(30), MinMax(25), MinMax(25))

BOSEWindows ==
    Windows(BOSE, MinMax(40), <<810, 1400>>,
            MinMax(40), MinMax(30), MinMax(40), <<590, 1400>>)

TELEFUNKENWindows ==
    Windows(TELEFUNKEN, <<800, 1249>>, MinMax(15),
            MinMax(40), MinMax(35), MinMax(40), MinMax(40))

PENTAXWindows ==
    Windows(PENTAX, MinMax(10), MinMax(10),
            MinMax(25), MinMax(20), MinMax(25), MinMax(25))

METZWindows ==
    Windows(METZ, MinMax(11), MinMax(7),
            MinMax(32), MinMax(23), MinMax(32), MinMax(25))

DENONWindows ==
    Windows(DENON, <<0, 0>>, <<0, 0>>,
            <<700, 1400>>, MinMax(15), <<700, 1400>>, MinMax(20))

THOMSONWindows ==
    Windows(THOMSON, <<0, 0>>, <<0, 0>>,
            <<800, 1270>>, <<899, 1100>>, <<800, 1270>>, <<700, 1150>>)

RC5Windows ==
    BiPhaseWindows(RC5, <<838, 1190>>, <<838, 1190>>, <<830, 1190>>, <<830, 1190>>)

RC6Windows ==
    BiPhaseWindows(RC6, <<850, 1250>>, <<830, 1500>>, <<800, 1500>>, <<600, 1460>>)

GRUNDIGWindows ==
    BiPhaseWindows(GrundigNokiaIr60, <<710, 1250>>, MinMax(20),
                   <<710, 1250>>, <<710, 1250>>)

RUWIDOWindows ==
    BiPhaseWindows(RUWIDO, <<690, 1350>>, <<690, 1200>>, <<780, 1530>>, <<500, 1350>>)

\* JVC sends the start bit once.  A pause longer than IRMP_TIMEOUT_TIME
\* (15.5 ms) ends a frame, so what is left of the pause before the next frame
\* is taken for its start bit.
JvcStartPulse == Within(JVC.start[1], MinMax(40))
JvcRepeatPause == Within(JVC.pause - 15500, <<600, 1699>>)

-----------------------------------------------------------------------------
(* IRMP_PARAMETER.  address and command are the bits <<offset, end>> of the   *)
(* frame; a bit within both belongs to the address.                        *)

Parameter(protocol, w, address, command, len, stop, lsb_first) ==
    [protocol |-> protocol, windows |-> w, address |-> address,
     command |-> command, complete_len |-> len, stop_bit |-> stop,
     lsb_first |-> lsb_first, manchester |-> FALSE, first_pulse_is_1 |-> FALSE]

Manchester(protocol, w, address, command, len, lsb_first, first_pulse_is_1) ==
    [Parameter(protocol, w, address, command, len, 0, lsb_first)
       EXCEPT !.manchester = TRUE, !.first_pulse_is_1 = first_pulse_is_1]

None == <<0, 0>>

sircs_param ==
    Parameter("SIRCS", SIRCSWindows, <<15, 20>>, <<0, 15>>, 20, 0, TRUE)
nec_param ==
    Parameter("NEC", NECWindows, <<0, 16>>, <<16, 32>>, 32, 1, TRUE)
nec_rep_param ==
    Parameter("NEC", NECWindows, None, None, 0, 1, TRUE)
nec42_param ==
    Parameter("NEC42", NECWindows, <<0, 13>>, <<26, 34>>, 42, 1, TRUE)
samsung_param ==
    Parameter("SAMSUNG", SAMSUNGWindows, <<0, 16>>, <<21, 37>>, 37, 1, TRUE)
samsungah_param ==
    Parameter("SAMSUNGAH", SAMSUNGAHWindows, <<0, 16>>, <<32, 48>>, 48, 1, TRUE)
telefunken_param ==
    Parameter("TELEFUNKEN", TELEFUNKENWindows, None, <<0, 15>>, 15, 1, FALSE)
matsushita_param ==
    Parameter("MATSUSHITA", MATSUSHITAWindows, <<12, 24>>, <<0, 12>>, 24, 1, TRUE)
kaseikyo_param ==
    Parameter("KASEIKYO", KASEIKYOWindows, <<0, 16>>, <<28, 40>>, 48, 1, TRUE)
vincent_param ==
    Parameter("VINCENT", VINCENTWindows, <<0, 16>>, <<16, 32>>, 32, 1, FALSE)
recs80_param ==
    Parameter("RECS80", RECS80Windows, <<1, 4>>, <<4, 10>>, 10, 1, FALSE)
rc5_param ==
    Manchester("RC5", RC5Windows, <<1, 7>>, <<7, 13>>, 13, FALSE, FALSE)
denon_param ==
    Parameter("DENON", DENONWindows, <<0, 5>>, <<5, 15>>, 15, 1, FALSE)
rc6_param ==
    Manchester("RC6", RC6Windows, <<5, 13>>, <<13, 21>>, 21, FALSE, TRUE)
recs80ext_param ==
    Parameter("RECS80EXT", RECS80EXTWindows, <<2, 6>>, <<6, 12>>, 12, 1, FALSE)
nubert_param ==
    Parameter("NUBERT", NUBERTWindows, None, <<0, 10>>, 10, 1, FALSE)
speaker_param ==
    Parameter("SPEAKER", SPEAKERWindows, None, <<0, 10>>, 10, 1, FALSE)
grundig_param ==
    Manchester("GRUNDIG", GRUNDIGWindows, None, <<1, 11>>, 17, TRUE, TRUE)
ruwido_param ==
    Manchester("RUWIDO", RUWIDOWindows, <<0, 9>>, <<9, 17>>, 22, FALSE, TRUE)
fdc_param ==
    Parameter("FDC", FDCWindows, <<0, 14>>, <<20, 32>>, 40, 1, TRUE)
rccar_param ==
    Parameter("RCCAR", RCCARWindows, None, <<0, 13>>, 13, 1, TRUE)
nikon_param ==
    Parameter("NIKON", NIKONWindows, None, <<0, 2>>, 2, 1, FALSE)
gree_param ==
    Parameter("GREE", GREEWindows, <<0, 16>>, <<16, 32>>, 32, 1, TRUE)
thomson_param ==
    Parameter("THOMSON", THOMSONWindows, <<0, 4>>, <<5, 12>>, 12, 1, FALSE)
bose_param ==
    Parameter("BOSE", BOSEWindows, None, <<0, 16>>, 16, 1, TRUE)
pentax_param ==
    Parameter("PENTAX", PENTAXWindows, None, <<0, 6>>, 6, 1, FALSE)
metz_param ==
    Parameter("METZ", METZWindows, <<1, 7>>, <<7, 20>>, 20, 0, FALSE)

\* irmp_param.protocol = 0.
NoParam == Parameter("none", NECWindows, None, None, 0, 0, TRUE)

=============================================================================
