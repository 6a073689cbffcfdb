------------------------------- MODULE IrLog --------------------------------
(***************************************************************************)
(* The log of the IR signal: the timer interrupt records the lengths of    *)
(* light and dark (irmp.c, irmp_log), the main loop sends a finished log   *)
(* in reports of a fixed length (main.c:915-921), and irmpconfig shows it. *)
(*                                                                         *)
(* A sample of the interrupt is not a step; the end of a run is, where the *)
(* interrupt writes.  Between two of them the loop gets any distance.      *)
(*                                                                         *)
(* The PC may suspend the bus at any time and resume it.  External, as the *)
(* firmware uses them: the USB stack, which takes a report if its endpoint *)
(* is free and keeps it until the host has fetched it, and the host.       *)
(***************************************************************************)
EXTENDS Integers, Sequences, SequencesExt

CONSTANTS
    DATALEN,        \* of the buffer
    Report,         \* bytes of a report, HID_IN_REPORT_COUNT - 1
    Lights, Darks,  \* lengths of runs, in samples
    Beyond          \* what lies behind the buffer in memory

STARTCYCLES == 2
ENDBITS == 300

ASSUME IrLogAssumption ==
    /\ DATALEN \in Nat /\ DATALEN > 3
    /\ Report \in Nat \ {0}
    /\ \A n \in Lights : n \in Nat /\ n > STARTCYCLES
    /\ Darks \subseteq 1 .. ENDBITS
    /\ Beyond \in 0 .. 255

VARIABLES
    lit,                    \* the sensor sees light
    buf, buf_idx, last_val, \* of irmp_log
    log_buf_ready, log_buf_len,
    place,                  \* of the main loop: tud_task() in "task", the loop
                            \* over the offset in "send", and in "wait" its
                            \* loop around tud_task()
    offset,
    PrevXferComplete,
    in_flight,              \* the report that the endpoint holds
    suspended,              \* ~tud_ready()
    reports,                \* what the host has got since the log was begun
    seen,                   \* the runs that are recorded
    log,                    \* those of the log that is to be sent
    torn,                   \* the buffer was written before that was done
    lost                    \* the bus was suspended before all reports were got

rec_vars == <<lit, buf, buf_idx, last_val, seen>>
flag_vars == <<log_buf_len, log>>
loop_vars == <<place, offset>>
usb_vars == <<PrevXferComplete, in_flight, suspended, reports, lost>>
vars == <<rec_vars, flag_vars, log_buf_ready, loop_vars, usb_vars, torn>>

Free == <<>>

Init ==
    /\ lit = FALSE
    /\ buf = [i \in 0 .. DATALEN - 1 |-> 0] /\ buf_idx = 0 /\ last_val = 1
    /\ log_buf_ready = FALSE /\ log_buf_len = 0
    /\ place = "task" /\ offset = 0
    /\ PrevXferComplete = TRUE /\ in_flight = Free /\ suspended = FALSE
    /\ reports = <<>> /\ seen = <<>> /\ log = <<>>
    /\ torn = FALSE /\ lost = FALSE

-----------------------------------------------------------------------------
(* The timer interrupt.                                                    *)

Bytes(n) ==
    IF n >= 255 THEN <<255, n % 256, (n \div 256) % 256>> ELSE <<n>>

\* Mutant: one byte less is kept free.
RoomOffByOne == buf_idx <= DATALEN - 3

Room == buf_idx < DATALEN - 3

Stored(bytes) ==
    /\ buf' = [i \in DOMAIN buf |-> IF i - buf_idx \in 0 .. Len(bytes) - 1
                                    THEN bytes[i - buf_idx + 1] ELSE buf[i]]
    /\ buf_idx' = buf_idx + Len(bytes)
    /\ torn' = (torn \/ log_buf_ready)

\* The length of the run that ended, unless the buffer is full: then last_val
\* keeps its value, too.
RunEnds(val, n, bytes) ==
    /\ IF Room /\ last_val = val
       THEN Stored(bytes) /\ last_val' = 1 - val /\ seen' = Append(seen, n)
       ELSE UNCHANGED <<buf, buf_idx, last_val, seen, torn>>
    /\ UNCHANGED <<flag_vars, log_buf_ready, loop_vars, usb_vars>>

\* The first samples of light are not counted.
LightEnds(n) ==
    /\ lit /\ lit' = FALSE
    /\ RunEnds(0, n, Bytes(IF buf_idx = 1 THEN n - STARTCYCLES ELSE n))

DarkEnds(n) ==
    /\ ~lit /\ lit' = TRUE
    /\ buf_idx # 0
    /\ RunEnds(1, n, Bytes(n))

\* Light begins the log, with a run of no length before it.
LogBegins ==
    /\ ~lit /\ lit' = TRUE
    /\ buf_idx = 0
    /\ Stored(<<0>>) /\ last_val' = 0 /\ seen' = <<>>
    /\ UNCHANGED <<flag_vars, log_buf_ready, loop_vars, usb_vars>>

\* Mutant: the terminator is not counted.
LogEndsShort ==
    /\ ~lit /\ buf_idx # 0 /\ last_val = 1
    /\ buf' = [buf EXCEPT ![buf_idx] = 0]
    /\ log_buf_len' = buf_idx - 1 /\ log_buf_ready' = TRUE
    /\ log' = seen
    /\ buf_idx' = 0
    /\ torn' = (torn \/ log_buf_ready)
    /\ UNCHANGED <<lit, last_val, seen, loop_vars, usb_vars>>

\* It has been dark for more than ENDBITS samples.
LogEnds ==
    /\ ~lit /\ buf_idx # 0 /\ last_val = 1
    /\ buf' = [buf EXCEPT ![buf_idx] = 0]
    /\ log_buf_len' = buf_idx /\ log_buf_ready' = TRUE
    /\ log' = seen
    /\ buf_idx' = 0
    /\ torn' = (torn \/ log_buf_ready)
    /\ UNCHANGED <<lit, last_val, seen, loop_vars, usb_vars>>

irmp_log ==
    \/ \E n \in Lights : LightEnds(n)
    \/ \E n \in Darks : DarkEnds(n)
    \/ LogBegins \/ LogEnds

-----------------------------------------------------------------------------
(* The main loop.                                                          *)

\* What is still in the endpoint when a log is begun is of an earlier one; the
\* stack will not take the first report.
SendStart ==
    /\ place = "task" /\ PrevXferComplete /\ log_buf_ready
    /\ place' = "send" /\ offset' = 0
    /\ reports' = <<>>
    /\ lost' = (in_flight # Free)
    /\ UNCHANGED <<rec_vars, flag_vars, log_buf_ready, PrevXferComplete, in_flight,
                   suspended, torn>>

\* log_buf_ptr is the second byte of the buffer.  A report has its full length,
\* however little is left of the log or of the buffer.
ReportAt(at) ==
    [i \in 1 .. Report |-> IF at + i < DATALEN THEN buf[at + i] ELSE Beyond]

\* USB_HID_SendData: PrevXferComplete is cleared whether or not the stack takes
\* the report.
SendReport ==
    /\ place = "send" /\ offset < log_buf_len
    /\ ~suspended
    /\ place' = "wait"
    /\ PrevXferComplete' = FALSE
    /\ in_flight' = IF in_flight = Free THEN ReportAt(offset) ELSE in_flight
    /\ UNCHANGED <<rec_vars, flag_vars, log_buf_ready, offset, suspended, reports,
                   torn, lost>>

\* ... and while the bus is suspended it returns at once.  The loop goes on.
SendNothing ==
    /\ place = "send" /\ offset < log_buf_len
    /\ suspended
    /\ offset' = offset + Report
    /\ lost' = TRUE
    /\ UNCHANGED <<rec_vars, flag_vars, log_buf_ready, place, PrevXferComplete,
                   in_flight, suspended, reports, torn>>

WaitEnds ==
    /\ place = "wait" /\ PrevXferComplete
    /\ place' = "send" /\ offset' = offset + Report
    /\ UNCHANGED <<rec_vars, flag_vars, log_buf_ready, usb_vars, torn>>

SendEnd ==
    /\ place = "send" /\ offset >= log_buf_len
    /\ place' = "task" /\ offset' = 0
    /\ log_buf_ready' = FALSE
    /\ reports' = <<>> /\ log' = <<>>
    /\ torn' = FALSE /\ lost' = FALSE
    /\ UNCHANGED <<rec_vars, log_buf_len, PrevXferComplete, in_flight, suspended>>

Loop == SendStart \/ SendReport \/ SendNothing \/ WaitEnds \/ SendEnd

-----------------------------------------------------------------------------
(* The callbacks of the USB stack, which run inside tud_task().            *)

InTask == place \in {"task", "wait"}

\* The host has fetched the report.
tud_hid_report_complete_cb ==
    /\ InTask /\ ~suspended /\ in_flight # Free
    /\ reports' = Append(reports, in_flight)
    /\ in_flight' = Free
    /\ PrevXferComplete' = TRUE
    /\ UNCHANGED <<rec_vars, flag_vars, log_buf_ready, loop_vars, suspended, torn,
                   lost>>

\* Mutant: who waits for a transfer is not woken.
SuspendKeepsWaiting ==
    /\ InTask /\ ~suspended
    /\ suspended' = TRUE
    /\ lost' = (lost \/ in_flight # Free)
    /\ UNCHANGED <<rec_vars, flag_vars, log_buf_ready, loop_vars, PrevXferComplete,
                   in_flight, reports, torn>>

\* The report stays in the endpoint, but nobody waits for it any longer.
tud_suspend_cb ==
    /\ InTask /\ ~suspended
    /\ suspended' = TRUE
    /\ PrevXferComplete' = TRUE
    /\ lost' = (lost \/ in_flight # Free)
    /\ UNCHANGED <<rec_vars, flag_vars, log_buf_ready, loop_vars, in_flight, reports,
                   torn>>

tud_resume_cb ==
    /\ InTask /\ suspended
    /\ suspended' = FALSE
    /\ UNCHANGED <<rec_vars, flag_vars, log_buf_ready, loop_vars, PrevXferComplete,
                   in_flight, reports, torn, lost>>

Callback == tud_hid_report_complete_cb \/ tud_suspend_cb \/ tud_resume_cb

Next == irmp_log \/ Loop \/ Callback

\* The loop goes on, and a host that is awake fetches what is there.
Spec == Init /\ [][Next]_vars
        /\ WF_vars(Loop) /\ WF_vars(tud_hid_report_complete_cb)

-----------------------------------------------------------------------------
(* irmpconfig, monitor.                                                    *)

\* The runs of a report up to a zero; the first one of a report gets the
\* samples back that were not counted.  At the end of a report the program
\* reads an escape from what lies behind it; here it ends.
Escaped(r, l) == r[l] = 255 /\ l + 2 <= Len(r)

\* Mutant: a run of three bytes does not get them.
RunAtPlain(r, l) ==
    IF Escaped(r, l) THEN r[l + 1] + 256 * r[l + 2]
    ELSE IF l = 1 /\ r[l] > 0 THEN r[l] + STARTCYCLES ELSE r[l]

RunAt(r, l) ==
    IF Escaped(r, l)
    THEN r[l + 1] + 256 * r[l + 2] + (IF l = 1 THEN STARTCYCLES ELSE 0)
    ELSE IF l = 1 /\ r[l] > 0 THEN r[l] + STARTCYCLES ELSE r[l]

Shown(r) ==
    LET from[l \in 1 .. Len(r) + 1] ==
            IF l > Len(r) \/ RunAt(r, l) = 0 THEN <<>>
            ELSE <<RunAt(r, l)>> \o
                 from[IF Escaped(r, l) THEN l + 3 ELSE l + 1]
    IN from[1]

-----------------------------------------------------------------------------
TypeOK ==
    /\ {lit, log_buf_ready, PrevXferComplete, suspended, torn, lost} \subseteq BOOLEAN
    /\ place \in {"task", "send", "wait"}
    /\ buf \in [0 .. DATALEN - 1 -> 0 .. 255]
    /\ buf_idx \in 0 .. DATALEN - 1
    /\ last_val \in {0, 1}
    /\ log_buf_len \in 0 .. DATALEN - 1
    /\ offset \in 0 .. DATALEN + Report
    /\ {seen, log} \subseteq Seq(Lights \cup Darks)

\* The loop is through with a log.
SentAll == place = "send" /\ offset >= log_buf_len

\* The bytes of a log and the one that ends it.
LogBytes ==
    FlattenSeq(<<Bytes(log[1] - STARTCYCLES)>> \o
               [i \in 1 .. Len(log) - 1 |-> Bytes(log[i + 1])]) \o <<0>>

HostHasLog == IsPrefix(LogBytes, FlattenSeq(reports))

\* What the host has got when the loop is through with a log is the whole of
\* it and the byte that ends it, if the interrupt has not begun another one
\* and the bus was not suspended meanwhile: the length, the reports and the
\* place of the end fit together (irmp.c:1194-1197, main.c:916).
LogIntact == SentAll /\ ~torn /\ ~lost => HostHasLog

\* ... and a log that takes one report is shown as the sensor saw it
\* (irmpconfig.c:838-856).
ShownAsSeen ==
    SentAll /\ ~torn /\ ~lost /\ log_buf_len <= Report => Shown(reports[1]) = log

\* The loop gets through with every finished log, though the bus may be
\* suspended and stay so while it waits (usb_hid.c:81), and the host has got
\* the log then, unless it was suspended or the next log begun.
LogSent == log_buf_ready ~> SentAll /\ (HostHasLog \/ torn \/ lost)
=============================================================================
