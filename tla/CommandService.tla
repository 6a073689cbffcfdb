--------------------------- MODULE CommandService ---------------------------
(***************************************************************************)
(* What the configuration commands promise to the programs that send them  *)
(* ("The device answers with the 3 obligatory bytes, the first byte        *)
(* (status) is set to STAT_SUCCESS or STAT_FAILURE", PROTOCOLS.md:27):     *)
(* each request is carried out once, between its call and its return, and  *)
(* the reply is the outcome of that request.  Buffers, flags, transfers    *)
(* and the loop that serves the requests are the business of HidConfig.    *)
(***************************************************************************)
CONSTANTS
    Clients,        \* the programs that send commands
    Requests,       \* the commands they send
    WakeSlot,       \* the slots of the wakeup table
    Codes,          \* what may be stored in a slot
    Erased,         \* the content of a slot that was never written
    AlarmReading,   \* what the alarm timer may show
    NoValue         \* a reply without data

VARIABLES
    cells,      \* the settings: what the commands read and write
    saved,      \* the settings that survive a restart
    request,    \* of each client: its outstanding request
    outcome,    \* of each client: the outcome of that request
    reply       \* of each client: the reply to its last request

vars == <<cells, saved, request, outcome, reply>>

NoRequest == [acc |-> "none", cmd |-> "none", slot |-> 0, value |-> NoValue]
NoOutcome == [ok |-> FALSE, value |-> Erased]
Failed == [ok |-> FALSE, value |-> NoValue]
Answer(value) == [ok |-> TRUE, value |-> value]
Done == Answer(NoValue)

Blank == [wake |-> [s \in WakeSlot |-> Erased], after |-> 0]

Init ==
    /\ cells = Blank
    /\ saved = Blank
    /\ request = [c \in Clients |-> NoRequest]
    /\ outcome = [c \in Clients |-> NoOutcome]
    /\ reply = [c \in Clients |-> NoOutcome]

Call(c) ==
    /\ request[c] = NoRequest
    /\ \E r \in Requests : request' = [request EXCEPT ![c] = r]
    /\ reply' = [reply EXCEPT ![c] = NoOutcome]
    /\ UNCHANGED <<cells, saved, outcome>>

\* What a request may come to: the settings after it, the ones saved, and the
\* outcome.
Result(c, s, o) == [cells |-> c, saved |-> s, outcome |-> o]
Only(o) == {Result(cells, saved, o)}
WithWake(s, v) == [cells EXCEPT !.wake[s] = v]
WithAfter(v) == [cells EXCEPT !.after = v]

Results(r) ==
    CASE r.acc = "get" /\ r.cmd = "wake"     -> Only(Answer(cells.wake[r.slot]))
      [] r.acc = "get" /\ r.cmd = "after"    -> Only(Answer(cells.after))
      [] r.acc = "get" /\ r.cmd = "alarm"    ->
            UNION {Only(Answer(v)) : v \in AlarmReading}
      [] r.acc = "set" /\ r.cmd = "wake"     ->
            LET changed == WithWake(r.slot, r.value)
            IN  {Result(changed, IF r.slot = 0 THEN changed ELSE saved, Done)}
      [] r.acc = "set" /\ r.cmd = "learn"    ->
            Only(Failed) \cup
            {Result(WithWake(r.slot, v), saved, Done) : v \in Codes}
      [] r.acc = "set" /\ r.cmd = "after"    ->
            {Result(WithAfter(r.value), saved, Done)}
      [] r.acc = "set" /\ r.cmd = "commit"   -> {Result(cells, cells, Done)}
      [] r.acc = "reset" /\ r.cmd = "wake"   ->
            {Result(WithWake(r.slot, Erased), saved, Done)}
      [] r.acc = "reset" /\ r.cmd = "after"  -> {Result(WithAfter(0), saved, Done)}
      [] r.acc = "reset" /\ r.cmd = "eeprom" -> {Result(Blank, Blank, Done)}
      [] r.cmd = "unknown"                   -> Only(Failed)
      [] OTHER                               -> Only(Done)

\* The request is carried out.
Serve(c) ==
    /\ request[c] # NoRequest
    /\ outcome[c] = NoOutcome
    /\ \E result \in Results(request[c]) :
          /\ cells' = result.cells
          /\ saved' = result.saved
          /\ outcome' = [outcome EXCEPT ![c] = result.outcome]
    /\ UNCHANGED <<request, reply>>

Return(c) ==
    /\ outcome[c] # NoOutcome
    /\ reply' = [reply EXCEPT ![c] = outcome[c]]
    /\ request' = [request EXCEPT ![c] = NoRequest]
    /\ outcome' = [outcome EXCEPT ![c] = NoOutcome]
    /\ UNCHANGED <<cells, saved>>

\* The receiver learns its first wakeup by itself.
Learn ==
    /\ cells.wake[0] = Erased
    /\ \E v \in Codes : cells' = WithWake(0, v)
    /\ saved' = cells'
    /\ UNCHANGED <<request, outcome, reply>>

\* Who waits for a device that restarts gets an error.
Restart ==
    /\ cells' = saved
    /\ request' = [c \in Clients |-> NoRequest]
    /\ outcome' = [c \in Clients |-> NoOutcome]
    /\ reply' = [c \in Clients |->
                    IF request[c] = NoRequest THEN reply[c] ELSE Failed]
    /\ UNCHANGED saved

Next ==
    \/ \E c \in Clients : Call(c) \/ Serve(c) \/ Return(c)
    \/ Learn
    \/ Restart

Spec == Init /\ [][Next]_vars
=============================================================================
