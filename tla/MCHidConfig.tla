---------------------------- MODULE MCHidConfig -----------------------------
(***************************************************************************)
(* Instances of the configuration commands for TLC.                        *)
(***************************************************************************)
EXTENDS HidConfig

CONSTANTS k1

Command(acc, cmd, s, v) == [acc |-> acc, cmd |-> cmd, slot |-> s, value |-> v]
Plain(acc, cmd) == Command(acc, cmd, 0, NoValue)

\* Every command of get_handler, set_handler and reset_handler that is
\* modelled, once.
AllRequests ==
    {Plain("get", "wake"), Plain("get", "after"), Plain("get", "alarm"),
     Command("set", "wake", 0, k1), Command("set", "wake", LastSlot, k1),
     Command("set", "after", 0, MaxAfter), Command("set", "alarm", 0, MaxAlarm),
     Plain("set", "statusled"),
     Plain("set", "learn"), Plain("set", "emit"), Plain("set", "commit"),
     Plain("set", "reboot"), Plain("set", "unknown"),
     Plain("reset", "wake"), Plain("reset", "after"), Plain("reset", "alarm"),
     Plain("reset", "eeprom")}

\* What sets up a wakeup: by the alarm, by a code, with the magic report after
\* it; and a command that is pending when the PC is switched off.
WakeRequests ==
    {Command("set", "alarm", 0, MaxAlarm), Command("set", "after", 0, MaxAfter),
     Plain("reset", "wake"), Plain("set", "emit")}
=============================================================================
