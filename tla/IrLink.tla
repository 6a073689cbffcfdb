--------------------------------- MODULE IrLink ---------------------------------
(***************************************************************************)
(* The encoder of one device and the decoder of another, which the light   *)
(* between them couples: what irsnd_ISR sends as light and dark, irmp_ISR  *)
(* sees as light and dark, an edge a tick sooner or later.  (A device does *)
(* not hear itself: irmp_timer_callback leaves irmp_ISR out while          *)
(* irsnd_ISR is busy.)                                                     *)
(*                                                                         *)
(* While a result waits for the main loop irmp_ISR looks at no sample.     *)
(* The main loop comes round in some milliseconds (Latencies, in samples), *)
(* and a frame is followed by at least 20 ms of dark.                      *)
(***************************************************************************)
EXTENDS Irsnd, IrmpDecoder

CONSTANTS Commands,     \* the commands to send one after the other, each with
                        \*   codes:     the codes it may send,
                        \*   jitter:    ticks the end of a pulse may be late,
                        \*   blockable: protocols that may not get through
          Latencies,    \* samples that pass before the main loop asks
          Silences      \* ticks of dark that may follow a command

ASSUME IrLinkAssumption ==
    /\ \A i \in DOMAIN Commands : /\ Commands[i].codes \subseteq Codes
                                  /\ Commands[i].jitter \subseteq {-1, 0, 1}
    /\ Latencies \subseteq Nat
    /\ Silences \subseteq Nat \ {0}

VARIABLES air,      \* what the receiver has not yet seen: at most one run
          blocked,  \* the receiver sees no more light of this command
          sent,     \* the last command sent
          heard,    \* the last report
          reported, \* how often the last command was reported
          commands  \* commands sent so far

linkVars == <<irsndVars, irmp, air, blocked, sent, heard, reported, commands>>

\* A code without its repetitions, as irmp_get_data reports it.
Message(c) == Data(c.protocol, c.address, c.command)
NoCode == [protocol |-> "none", address |-> 0, command |-> 0, repeats |-> 0]

-----------------------------------------------------------------------------
(* The sender.                                                             *)

\* All that was sent has been seen.
Seen == air = <<>>

\* Until the pause after a JVC frame has lasted too long for a repetition, any
\* light is taken for one: whatever is sent right after JVC is lost.
RepetitionExpected == irmp.protocol = "JVC" /\ irmp.started

Send(c) ==
    /\ Seen /\ todo = <<>>
    /\ ~RepetitionExpected
    /\ commands < Len(Commands)
    /\ commands' = commands + 1
    /\ c \in Commands[commands'].codes
    /\ SendData(c)
    /\ blocked' = FALSE
    /\ sent' = c
    /\ heard' = Message(NoCode)
    /\ reported' = 0
    /\ UNCHANGED <<irmp, air>>

\* irsnd_ISR decides what comes next.
SenderStep ==
    /\ Seen
    /\ Isr
    /\ UNCHANGED <<irmp, air, blocked, sent, heard, reported, commands>>

\* Somebody steps between the remote control and the receiver.
Block ==
    /\ ~blocked /\ irsnd.busy
    /\ sent.protocol \in Commands[commands].blockable
    /\ Seen
    /\ blocked' = TRUE
    /\ UNCHANGED <<irsndVars, irmp, air, sent, heard, reported, commands>>

\* The receiver sees light go out j ticks late; what follows is shorter.
Emit(j) ==
    LET run  == Head(todo)
        rest == Tail(todo)
        late == run.light /\ rest # <<>>
    IN /\ Seen /\ todo # <<>>
       /\ j \in Commands[commands].jitter
       /\ air' = <<[light |-> run.light /\ ~blocked,
                     n     |-> IF late THEN run.n + j ELSE run.n]>>
       /\ todo' = IF late THEN [rest EXCEPT ![1].n = @ - j] ELSE rest
       /\ UNCHANGED <<irsnd, toggle, irmp, blocked, sent, heard, reported, commands>>

Silence(n) ==
    /\ Seen /\ todo = <<>> /\ ~irsnd.busy
    /\ air' = <<Dark(n)>>
    /\ UNCHANGED <<irsndVars, irmp, blocked, sent, heard, reported, commands>>

-----------------------------------------------------------------------------
(* The receiver.                                                           *)

\* The receiver has seen the first n samples of the run in the air.
See(light, n) ==
    /\ air # <<>> /\ air[1].light = light
    /\ air' = IF n = air[1].n THEN <<>> ELSE <<[air[1] EXCEPT !.n = @ - n]>>
    /\ UNCHANGED <<irsndVars, blocked, sent, heard, reported, commands>>

All  == air[1].n
Some == Ahead(air[1].n)

SeePulse      == ~Seen /\ PulseGrows(All)      /\ See(TRUE, All)
SeeStartBit   == ~Seen /\ StartPauseEnds       /\ See(TRUE, 1)
SeeBit        == ~Seen /\ PauseEnds            /\ See(TRUE, 1)
SeeFirstPulse == ~Seen /\ FirstPulseEnds       /\ See(FALSE, 1)
SeeIdle       == ~Seen /\ Idle(All)            /\ See(FALSE, All)
SeeStartPause == ~Seen /\ StartPauseGrows(Some) /\ See(FALSE, Some)
SeePulseEnd   == ~Seen /\ PulseEnds            /\ See(FALSE, 1)
SeePause      == ~Seen /\ PauseGrows(Some)     /\ See(FALSE, Some)

\* The main loop asks for a result n samples after there is one, or before it
\* gets light again; they pass unseen.  irmp_get_data has none when the code
\* does not check.
Polled(n) ==
    /\ GetData
    /\ air' = IF Seen \/ air[1].light THEN air
              ELSE <<[air[1] EXCEPT !.n = Max({1, @ - n})]>>
    /\ UNCHANGED <<irsndVars, blocked, sent, commands>>

Poll(n) ==
    /\ Polled(n)
    /\ \E d \in GetDataResult(irmp) : heard' = d
    /\ reported' = reported + 1

Discard(n) ==
    /\ Polled(n)
    /\ GetDataResult(irmp) = {}
    /\ UNCHANGED <<heard, reported>>

ReceiverStep ==
    \/ SeePulse \/ SeeStartBit \/ SeeBit
    \/ SeeFirstPulse \/ SeeIdle \/ SeeStartPause \/ SeePulseEnd \/ SeePause
    \/ \E n \in Latencies : Poll(n) \/ Discard(n)

-----------------------------------------------------------------------------

LinkInit ==
    /\ IrsndInit
    /\ IrmpInit
    /\ air = <<>>
    /\ blocked = FALSE
    /\ sent = NoCode
    /\ heard = Message(NoCode)
    /\ reported = 0
    /\ commands = 0

LinkNext ==
    \/ \E c \in Codes : Send(c)
    \/ SenderStep
    \/ Block
    \/ \E j \in {-1, 0, 1} : Emit(j)
    \/ \E n \in Silences : Silence(n)
    \/ ReceiverStep

LinkSpec == LinkInit /\ [][LinkNext]_linkVars

-----------------------------------------------------------------------------
(* Properties.                                                             *)

\* The variables of the interrupt routines and of the link have their types.
LinkTypeOK ==
    /\ IrsndTypeOK
    /\ IrmpTypeOK
    /\ Len(air) <= 1
    /\ sent \in Codes \cup {NoCode}
    /\ commands \in 0 .. Len(Commands)

\* The decoder undoes the encoder.  A command is heard as what it is, with
\* repetitions, stop bits, start frames and relabelled protocols on the way,
\* whatever was sent before it and however the edges are off by a tick, and
\* before the next one is sent; nothing else is heard, unless its light did
\* not all arrive (irmp.c, irsnd.c).
CodeMessages == {Message(c) : c \in Codes}

Channel == INSTANCE IrChannel WITH Messages <- CodeMessages,
                                   Nothing  <- Message(NoCode),
                                   sent     <- Message(sent),
                                   lost     <- blocked
HeardAsSent == Channel!Spec

\* The frames of one command that are reported: those of DENON, NUBERT and
\* SPEAKER come in pairs, GRUNDIG, IR60 and NOKIA wrap theirs in a start frame
\* and an end frame, and a repetition of SIRCS is one frame, not three.
ReportsOf(c) ==
    LET p == c.protocol
        n == c.repeats + 1
    IN CASE p = "SIRCS"     -> n + 2
         [] p = "SAMSUNG48" -> 2 * n
         [] OTHER           -> n

\* When the light is off for good, a command has been reported as often as it
\* was sent: no frame is lost, and none that belongs to another is taken for a
\* key pressed once more (irmp.c, the tests before irmp_ir_detected = TRUE).
Quiet == /\ ~irsnd.busy /\ Seen /\ todo = <<>>
         /\ ~irmp.started /\ ~irmp.detected
EachFrameOnce == Quiet /\ sent # NoCode /\ ~blocked => reported = ReportsOf(sent)

=============================================================================
