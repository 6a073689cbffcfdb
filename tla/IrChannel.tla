-------------------------------- MODULE IrChannel --------------------------------
(***************************************************************************)
(* What infrared promises: a code that was sent is heard as the code it    *)
(* is, at least once before the next one is sent, and nothing else is      *)
(* heard.  It promises nothing of a code whose light did not all arrive.   *)
(***************************************************************************)
CONSTANTS
    Messages,   \* what can be sent
    Nothing     \* no message

VARIABLES sent,     \* the last message
          heard,    \* sent, once it has been heard
          lost      \* not all of the light arrived

channelVars == <<sent, heard, lost>>

Init == sent = Nothing /\ heard = Nothing /\ lost = FALSE

Send(m) ==
    /\ heard = sent \/ lost
    /\ sent' = m
    /\ heard' = Nothing
    /\ lost' = FALSE

\* The first time is progress, further times change nothing.
Hear ==
    /\ heard # sent /\ ~lost
    /\ heard' = sent
    /\ UNCHANGED <<sent, lost>>

Lose ==
    /\ lost' = TRUE
    /\ UNCHANGED <<sent, heard>>

\* Something else may be heard instead.
Mishear ==
    /\ lost
    /\ UNCHANGED <<sent, lost>>

Next == Hear \/ Lose \/ Mishear \/ \E m \in Messages : Send(m)

Spec == Init /\ [][Next]_channelVars

=============================================================================
