--------------------------- MODULE Irmp4kbdProofs ---------------------------
(***************************************************************************)
(* Proofs about the VDR plugin: its types, that VDR gets presses,          *)
(* repetitions and releases in an order it expects, and that it is told of *)
(* the key that is held, for any keys, times and length of the driver's    *)
(* queue.                                                                  *)
(***************************************************************************)
EXTENDS Irmp4kbd, TLAPS

Reports == [id : {"kbd", "other"}, bytes : Bytes]

\* TypeOK, and that the driver's queue holds reports.
Types ==
    /\ TypeOK
    /\ queue \in Seq(Reports)

\* The key that was evaluated last is the one VDR was told of, but for the
\* moment between a generated release and the key that follows it.
LastToldInv ==
    /\ repeat => lastkey # NoKey /\ told = lastkey
    /\ lastkey # NoKey => \/ told = lastkey
                          \/ Loaded /\ ~release /\ key # lastkey

KInv == Types /\ LastToldInv

-----------------------------------------------------------------------------
(* Bytes.                                                                  *)

LEMMA PairsOfBytes ==
  ASSUME NEW b \in Bytes
  PROVE  /\ b[1] \in Byte /\ b[2] \in Byte
         /\ b \in Byte \X Byte
BY Irmp4kbdAssumption DEF Bytes, Byte, Released

LEMMA KeyIsPair ==
  ASSUME Types, evaluating = "load", NextBytes = {}
  PROVE  key \in Byte \X Byte /\ key # NoKey
  <1>1. {1, 2} \subseteq DOMAIN got
    BY DEF NextBytes
  <1> QED
    BY <1>1 DEF Types, TypeOK, key, NoKey

-----------------------------------------------------------------------------
(* The types.                                                              *)

LEMMA InitTypes == Init => Types
  <1> SUFFICES ASSUME Init
               PROVE  Types
    OBVIOUS
  <1>1. /\ queue \in Seq(Reports)
        /\ Len(queue) <= MaxQueue
    BY Irmp4kbdAssumption DEF Init
  <1>2. buf \in [id : {"kbd", "other"}, bytes : Bytes]
    BY DEF Init, Bytes
  <1>3. /\ DOMAIN got \in SUBSET (1 .. 4)
        /\ \A i \in DOMAIN got : got[i] \in Byte
    BY DEF Init
  <1>4. /\ first \in 0 .. Delay /\ last \in 0 .. Delta
        /\ last > first => first = Delay
    BY Irmp4kbdAssumption DEF Init
  <1>5. {repeat, missed, plugged} \subseteq BOOLEAN
    BY DEF Init
  <1> QED
    BY <1>1, <1>2, <1>3, <1>4, <1>5 DEF Init, Types, TypeOK

LEMMA DeviceTypes == Types /\ Device => Types'
  <1> SUFFICES ASSUME Types, Device
               PROVE  Types'
    OBVIOUS
  <1>1. ASSUME NEW r \in Reports, Report(r), held' \in Keys \cup {Magic, NoKey}
        PROVE  Types'
    <2>1. /\ queue' \in Seq(Reports)
          /\ Len(queue') <= MaxQueue
      BY <1>1, Irmp4kbdAssumption DEF Types, TypeOK, Report
    <2> QED
      BY <1>1, <2>1
      DEF Types, TypeOK, Report, reader_vars, key_vars, timer_vars
  <1>2. \A k \in Keys \cup {Magic, Released} : Kbd(k) \in Reports
    BY DEF Kbd, Reports, Bytes
  <1>3. Other \in Reports
    BY DEF Other, Reports, Bytes
  <1>4. CASE DevicePress
    BY <1>1, <1>2, <1>4 DEF DevicePress
  <1>5. CASE DeviceRepeat
    <2>1. held \in Keys \cup {Magic}
      BY <1>5 DEF DeviceRepeat, Types, TypeOK
    <2> QED
      BY <1>1, <1>2, <1>5, <2>1 DEF DeviceRepeat
  <1>6. CASE DeviceRelease
    BY <1>1, <1>2, <1>6 DEF DeviceRelease
  <1>7. CASE DeviceOther
    BY <1>1, <1>3, <1>7 DEF DeviceOther, Types, TypeOK
  <1>8. CASE Unplug \/ Plug
    BY <1>8
    DEF Unplug, Plug, Types, TypeOK, reader_vars, key_vars, timer_vars
  <1> QED
    BY <1>4, <1>5, <1>6, <1>7, <1>8 DEF Device

LEMMA ReaderTypes == Types /\ Reader => Types'
  <1> SUFFICES ASSUME Types, Reader
               PROVE  Types'
    OBVIOUS
  <1>1. \A r : After(r) \in {"notify", "read"}
    BY DEF After
  <1>2. CASE Read
    <2>1. /\ Head(queue) \in Reports
          /\ Tail(queue) \in Seq(Reports)
          /\ Len(Tail(queue)) <= MaxQueue
      BY <1>2, Irmp4kbdAssumption DEF Read, Types, TypeOK
    <2> QED
      BY <1>1, <1>2, <2>1
      DEF Read, Unread, Types, TypeOK, Reports, device_vars, key_vars, timer_vars
  <1>3. CASE Disconnect \/ Connect
    BY <1>1, <1>3
    DEF Disconnect, Connect, Types, TypeOK, device_vars, key_vars, timer_vars
  <1>4. CASE Receive
    BY <1>4
    DEF Receive, Types, TypeOK, device_vars, key_vars, timer_vars
  <1> QED
    BY <1>2, <1>3, <1>4 DEF Reader

LEMMA EvaluatorTypes == Types /\ Evaluator => Types'
  <1> SUFFICES ASSUME Types, Evaluator
               PROVE  Types'
    OBVIOUS
  <1> USE DEF device_vars, reader_vars, key_vars, timer_vars
  <1>1. CASE Wait \/ Wake
    BY <1>1 DEF Wait, Wake, Types, TypeOK
  <1>2. CASE Load
    <2>1. PICK i \in NextBytes :
             got' = [j \in DOMAIN got \cup {i} |->
                        IF j = i THEN buf.bytes[2 - (i % 2)] ELSE got[j]]
      BY <1>2 DEF Load
    <2>2. i \in 1 .. 4
      BY <2>1 DEF NextBytes
    <2>3. buf.bytes[2 - (i % 2)] \in Byte
      BY <2>2, PairsOfBytes DEF Types, TypeOK
    <2>4. /\ DOMAIN got' \in SUBSET (1 .. 4)
          /\ \A j \in DOMAIN got' : got'[j] \in Byte
      BY <2>1, <2>2, <2>3 DEF Types, TypeOK
    <2> QED
      BY <1>2, <2>4 DEF Load, Types, TypeOK
  <1>3. CASE IgnoreMagic \/ SkipRepeat
    BY <1>3 DEF IgnoreMagic, SkipRepeat, Continue, Types, TypeOK
  <1>4. CASE GenerateRelease
    BY <1>4 DEF GenerateRelease, Types, TypeOK
  <1>5. CASE NewKey
    <2>1. key \in Byte \X Byte
      BY <1>5, KeyIsPair DEF NewKey, Loaded
    <2> QED
      BY <1>5, <2>1, Irmp4kbdAssumption
      DEF NewKey, Continue, Types, TypeOK
  <1>6. CASE RepeatKey
    BY <1>6, Irmp4kbdAssumption
    DEF RepeatKey, TooEarly, Continue, Types, TypeOK
  <1>7. CASE ReleaseKey
    <2>1. missed' \in BOOLEAN
      BY <1>7 DEF ReleaseKey
    <2>2. /\ last' \in 0 .. Delta
          /\ last' > first' => first' = Delay
      BY <1>7, Irmp4kbdAssumption DEF ReleaseKey, Types, TypeOK
    <2>3. /\ repeat' \in BOOLEAN
          /\ {lastkey', told'} \subseteq (Byte \X Byte) \cup {NoKey}
      BY <1>7 DEF ReleaseKey, Types, TypeOK
    <2>4. /\ DOMAIN got' \in SUBSET (1 .. 4)
          /\ \A i \in DOMAIN got' : got'[i] \in Byte
          /\ evaluating' = "lock"
      BY <1>7 DEF ReleaseKey, Continue
    <2>5. UNCHANGED <<plugged, held, queue, fd, buf, reading, first>>
      BY <1>7 DEF ReleaseKey, Continue
    <2> QED
      BY <2>1, <2>2, <2>3, <2>4, <2>5 DEF Types, TypeOK
  <1> QED
    BY <1>1, <1>2, <1>3, <1>4, <1>5, <1>6, <1>7 DEF Evaluator

LEMMA TimeTypes == Types /\ Time => Types'
  <1> SUFFICES ASSUME Types, Time
               PROVE  Types'
    OBVIOUS
  <1>1. /\ first' \in 0 .. Delay /\ last' \in 0 .. Delta
        /\ last' > first' => first' = Delay
    BY Irmp4kbdAssumption DEF Time, Remote!Passed, Types, TypeOK
  <1> QED
    BY <1>1 DEF Time, Types, TypeOK, device_vars, reader_vars

LEMMA StepTypes == Types /\ [Next]_vars => Types'
  <1> SUFFICES ASSUME Types, [Next]_vars
               PROVE  Types'
    OBVIOUS
  <1>1. CASE UNCHANGED vars
    BY <1>1
    DEF vars, device_vars, reader_vars, key_vars, timer_vars, Types, TypeOK
  <1> QED
    BY <1>1, DeviceTypes, ReaderTypes, EvaluatorTypes, TimeTypes DEF Next

\* The types of device, driver, threads and timers (irmp4kbd.c:76-217), for any
\* keys, delays and length of the queue.
THEOREM TypeCorrect == Spec => []TypeOK
  <1>1. Types => TypeOK
    BY DEF Types
  <1> QED
    BY InitTypes, StepTypes, <1>1, PTL DEF Spec

-----------------------------------------------------------------------------
(* The last key.                                                           *)

\* What the invariant is about.
lastKeyVars == <<evaluating, got, lastkey, told, repeat>>

LEMMA LastToldUnchanged == LastToldInv /\ UNCHANGED lastKeyVars => LastToldInv'
BY DEF LastToldInv, Loaded, NextBytes, key, release, lastKeyVars

LEMMA EvaluatorLastTold == KInv /\ Evaluator => LastToldInv'
  <1> SUFFICES ASSUME KInv, Evaluator
               PROVE  LastToldInv'
    OBVIOUS
  <1>1. CASE Wait \/ Wake \/ Load \/ IgnoreMagic
    <2>1. ~Loaded
      BY <1>1 DEF Wait, Wake, Load, IgnoreMagic, Loaded
    <2>2. UNCHANGED <<lastkey, told, repeat>>
      BY <1>1 DEF Wait, Wake, Load, IgnoreMagic, key_vars
    <2> QED
      BY <2>1, <2>2 DEF KInv, LastToldInv
  <1>2. CASE GenerateRelease
    <2>1. /\ UNCHANGED <<evaluating, got, lastkey>>
          /\ Loaded /\ ~release /\ key # lastkey
          /\ repeat' = FALSE
      BY <1>2 DEF GenerateRelease
    <2>2. Loaded' /\ ~release' /\ key' # lastkey'
      BY <2>1 DEF Loaded, NextBytes, key, release
    <2> QED
      BY <2>1, <2>2 DEF LastToldInv
  <1>3. CASE NewKey
    BY <1>3 DEF NewKey, KInv, LastToldInv
  <1>4. CASE SkipRepeat
    BY <1>4 DEF SkipRepeat, key_vars, KInv, LastToldInv
  <1>5. CASE RepeatKey
    <2>1. lastkey # NoKey
      BY <1>5, KeyIsPair DEF RepeatKey, Loaded, KInv
    <2> QED
      BY <1>5, <2>1 DEF RepeatKey, KInv, LastToldInv
  <1>6. CASE ReleaseKey
    BY <1>6 DEF ReleaseKey, LastToldInv
  <1> QED
    BY <1>1, <1>2, <1>3, <1>4, <1>5, <1>6 DEF Evaluator

LEMMA StepKInv == KInv /\ [Next]_vars => KInv'
  <1> SUFFICES ASSUME KInv, [Next]_vars
               PROVE  LastToldInv'
    BY StepTypes DEF KInv
  <1>1. CASE Device
    BY <1>1, LastToldUnchanged
    DEF Device, DevicePress, DeviceRepeat, DeviceRelease, DeviceOther, Report,
        Unplug, Plug, key_vars, lastKeyVars, KInv
  <1>2. CASE Receive
    <2>1. CASE evaluating = "wait"
      BY <1>2, <2>1 DEF Receive, key_vars, Loaded, KInv, LastToldInv
    <2>2. CASE evaluating # "wait"
      BY <1>2, <2>2, LastToldUnchanged DEF Receive, key_vars, lastKeyVars, KInv
    <2> QED
      BY <2>1, <2>2
  <1>3. CASE Reader /\ ~Receive
    BY <1>3, LastToldUnchanged
    DEF Reader, Read, Disconnect, Connect, key_vars, lastKeyVars, KInv
  <1>4. CASE Evaluator
    BY <1>4, EvaluatorLastTold
  <1>5. CASE Time \/ UNCHANGED vars
    BY <1>5, LastToldUnchanged DEF Time, vars, key_vars, lastKeyVars, KInv
  <1> QED
    BY <1>1, <1>2, <1>3, <1>4, <1>5 DEF Next

LEMMA InitKInv == Init => KInv
BY InitTypes DEF Init, KInv, LastToldInv

-----------------------------------------------------------------------------
(* What VDR is told.                                                       *)

LEMMA EvaluatorImplements ==
  KInv /\ Evaluator => [Remote!Next]_(Remote!vars)
  <1> SUFFICES ASSUME KInv, Evaluator
               PROVE  Remote!Next \/ UNCHANGED Remote!vars
    OBVIOUS
  <1> USE DEF key_vars, timer_vars
  <1>1. CASE Wait \/ Wake \/ Load \/ IgnoreMagic \/ SkipRepeat
    BY <1>1 DEF Wait, Wake, Load, IgnoreMagic, SkipRepeat, Remote!vars
  <1>2. CASE GenerateRelease
    BY <1>2 DEF GenerateRelease, Remote!Next, Remote!Release
  <1>3. CASE NewKey
    <2>1. key # NoKey
      BY <1>3, KeyIsPair DEF NewKey, Loaded, KInv
    <2> QED
      BY <1>3, <2>1 DEF NewKey, Remote!Next, Remote!Press
  <1>4. CASE RepeatKey
    <2>1. told # NoKey
      BY <1>4, KeyIsPair DEF RepeatKey, Loaded, KInv, LastToldInv
    <2>2. first = Delay /\ last = Delta
      BY <1>4, Irmp4kbdAssumption DEF RepeatKey, TooEarly, KInv, Types, TypeOK
    <2> QED
      BY <1>4, <2>1, <2>2 DEF RepeatKey, Remote!Next, Remote!Repeat
  <1>5. CASE ReleaseKey
    <2>1. CASE repeat
      BY <1>5, <2>1 DEF ReleaseKey, Remote!Next, Remote!Release
    <2>2. CASE ~repeat
      <3>1. repeat = FALSE
        BY <2>2 DEF KInv, Types, TypeOK
      <3> QED
        BY <1>5, <3>1 DEF ReleaseKey, Remote!vars
    <2> QED
      BY <2>1, <2>2
  <1> QED
    BY <1>1, <1>2, <1>3, <1>4, <1>5 DEF Evaluator

\* Whatever the threads read torn, overwrite or lose and whenever the device
\* comes and goes, VDR gets presses, repetitions and releases as it expects
\* them (irmp4kbd.c:110-156), for any keys and times.
THEOREM Refinement == Spec => ImplementsRemote
  <1>1. Init => Remote!Init
    BY DEF Init, Remote!Init
  <1>2. KInv /\ [Next]_vars => [Remote!Next]_(Remote!vars)
    <2> SUFFICES ASSUME KInv, [Next]_vars
                 PROVE  Remote!Next \/ UNCHANGED Remote!vars
      OBVIOUS
    <2> USE DEF key_vars, timer_vars, Remote!vars
    <2>1. CASE Device
      BY <2>1
      DEF Device, DevicePress, DeviceRepeat, DeviceRelease, DeviceOther, Report,
          Unplug, Plug
    <2>2. CASE Reader
      BY <2>2 DEF Reader, Read, Disconnect, Connect, Receive
    <2>3. CASE Evaluator
      BY <2>3, EvaluatorImplements
    <2>4. CASE Time
      BY <2>4 DEF Time, Remote!Next, Remote!Time
    <2>5. CASE UNCHANGED vars
      BY <2>5 DEF vars
    <2> QED
      BY <2>1, <2>2, <2>3, <2>4, <2>5 DEF Next
  <1> QED
    BY InitKInv, StepKInv, <1>1, <1>2, PTL DEF Spec, ImplementsRemote, Remote!Spec

-----------------------------------------------------------------------------
(***************************************************************************)
(* VDR keeps in step with the device.  A report travels from the driver's  *)
(* queue through the buffer and the bytes taken from it into lastkey.  As  *)
(* long as no report is missed, the keys of these stages, from lastkey on, *)
(* are a history of the device that ends with the key it holds now.  A     *)
(* history only ever presses a key after it has released another, so the   *)
(* report after a wakeup, which is evaluated to nothing, finds no key      *)
(* pressed.                                                                *)
(***************************************************************************)
HeldKey == Keys \cup {Magic, NoKey}

KeyOf(bytes) == IF bytes = Released THEN NoKey ELSE bytes

\* One report apart.
Leads(x, y) == x = y \/ x = NoKey \/ y = NoKey

\* The evaluating thread has, or has not yet, all the bytes it wants.
Taken == evaluating = "load" /\ NextBytes = {}
Taking == evaluating = "woken" \/ (evaluating = "load" /\ NextBytes # {})

Buffered == buf.id = "kbd" /\ (reading = "notify" \/ Taking)

TakenKey == IF release THEN NoKey ELSE key

\* The key that will be the last one once all is evaluated that is taken, and
\* all that is taken and buffered.
KeyTaken == IF Taken THEN TakenKey ELSE lastkey
KeyBuffered == IF Buffered THEN KeyOf(buf.bytes) ELSE KeyTaken

\* hist[i] is the key that is held after report i of the queue.
IsHistory(hist) ==
    /\ hist[0] = KeyBuffered \/ (hist[0] = Magic /\ KeyBuffered = NoKey)
    /\ \A i \in 1 .. Len(queue) :
          /\ hist[i] = IF queue[i].id = "kbd" THEN KeyOf(queue[i].bytes)
                                             ELSE hist[i - 1]
          /\ Leads(hist[i - 1], hist[i])
    /\ hist[Len(queue)] = held

HasHistory == \E hist \in [0 .. Len(queue) -> HeldKey] : IsHistory(hist)

\* The bytes taken are those of the report in the buffer.
FromBuffer == \A i \in DOMAIN got : got[i] = buf.bytes[2 - (i % 2)]

Shape ==
    /\ reading = "notify" => buf.id = "kbd"
    /\ reading = "sleep" => fd = "none"
    /\ evaluating # "load" => got = <<>>
    /\ DOMAIN got \in {{}, {1}, {2}, {1, 2}, 1 .. 3, 1 .. 4}
    /\ 3 \in DOMAIN got => key # Magic
    /\ 4 \in DOMAIN got => got[3] = 0

InTime ==
    /\ Taking => buf.id = "kbd" /\ FromBuffer
    /\ fd # "open" => /\ held = NoKey /\ queue = <<>>
                      /\ buf.id = "kbd" => buf = Kbd(Released)
    /\ Leads(lastkey, KeyTaken)
    /\ Leads(KeyTaken, KeyBuffered)
    /\ HasHistory

CInv == KInv /\ Shape /\ (~missed => InTime)

\* What the bytes in got come to is the key of the report they are from.
LEMMA TakenIsBuffered ==
  Shape /\ NextBytes = {} /\ buf.bytes \in Bytes /\ FromBuffer
    => TakenKey = KeyOf(buf.bytes)
  <1> SUFFICES ASSUME Shape, NextBytes = {}, buf.bytes \in Bytes, FromBuffer
               PROVE  TakenKey = KeyOf(buf.bytes)
    OBVIOUS
  <1> DEFINE b == buf.bytes
  <1>1. PICK x \in 0 .. 255, y \in 0 .. 255 : b = <<x, y>>
    <2>1. Bytes \subseteq (0 .. 255) \X (0 .. 255)
      <3>1. Released \in (0 .. 255) \X (0 .. 255)
        BY DEF Released
      <3> QED
        BY <3>1, Irmp4kbdAssumption DEF Bytes
    <2>2. b = <<b[1], b[2]>> /\ b[1] \in 0 .. 255 /\ b[2] \in 0 .. 255
      BY <2>1
    <2> QED
      BY <2>2
  <1>2. /\ 1 \in DOMAIN got => got[1] = x
        /\ 2 \in DOMAIN got => got[2] = y
        /\ 3 \in DOMAIN got => got[3] = x
        /\ 4 \in DOMAIN got => got[4] = y
    BY <1>1 DEF FromBuffer
  <1>3. {1, 2} \subseteq DOMAIN got
    BY DEF NextBytes
  <1>4. key = b
    BY <1>1, <1>2, <1>3 DEF key
  <1>5. CASE DOMAIN got = {1, 2}
    <2>1. key = Magic
      BY <1>5 DEF NextBytes
    <2> QED
      BY <1>4, <1>5, <2>1, Irmp4kbdAssumption DEF TakenKey, release, KeyOf
  <1>6. CASE DOMAIN got = 1 .. 3
    <2>1. x # 0
      BY <1>2, <1>6 DEF NextBytes
    <2> QED
      BY <1>1, <1>4, <1>6, <2>1 DEF TakenKey, release, KeyOf, Released
  <1>7. CASE DOMAIN got = 1 .. 4
    BY <1>1, <1>2, <1>4, <1>7 DEF Shape, TakenKey, release, KeyOf, Released
  <1> QED
    BY <1>3, <1>5, <1>6, <1>7 DEF Shape

LEMMA HistoryKept ==
  ASSUME HasHistory, UNCHANGED <<queue, held>>,
         \/ KeyBuffered' = KeyBuffered
         \/ KeyBuffered = Magic /\ KeyBuffered' = NoKey
  PROVE  HasHistory'
  <1>1. Magic # NoKey
    BY Irmp4kbdAssumption DEF NoKey
  <1>2. PICK hist \in [0 .. Len(queue) -> HeldKey] : IsHistory(hist)
    BY DEF HasHistory
  <1>3. IsHistory(hist)'
    BY <1>1, <1>2 DEF IsHistory
  <1> QED
    BY <1>2, <1>3 DEF HasHistory

LEMMA StepShape == Types /\ Shape /\ [Next]_vars => Shape'
  <1> SUFFICES ASSUME Types, Shape, [Next]_vars
               PROVE  Shape'
    OBVIOUS
  <1> USE DEF device_vars, reader_vars, key_vars, timer_vars
  <1>1. CASE Device
    BY <1>1
    DEF Device, DevicePress, DeviceRepeat, DeviceRelease, DeviceOther, Report,
        Unplug, Plug, Shape, key
  <1>2. CASE Reader
    BY <1>2
    DEF Reader, Read, Disconnect, Connect, Receive, After, Shape, key
  <1>3. CASE Load
    <2>1. PICK i \in NextBytes :
             got' = [j \in DOMAIN got \cup {i} |->
                        IF j = i THEN buf.bytes[2 - (i % 2)] ELSE got[j]]
      BY <1>3 DEF Load
    <2>2. CASE {1, 2} \subseteq DOMAIN got
      <3>1. got'[1] = got[1] /\ got'[2] = got[2]
        BY <2>1, <2>2 DEF NextBytes
      <3>2. CASE DOMAIN got = {1, 2}
        BY <1>3, <2>1, <3>1, <3>2 DEF Load, Shape, key, NextBytes
      <3>3. CASE DOMAIN got = 1 .. 3
        BY <1>3, <2>1, <3>1, <3>3 DEF Load, Shape, key, NextBytes
      <3>4. ASSUME DOMAIN got = 1 .. 4
            PROVE  FALSE
        <4>1. 3 \in 1 .. 4 /\ 4 \in 1 .. 4 /\ 4 \notin 1 .. 3
          OBVIOUS
        <4>2. NextBytes = {}
          BY <3>4, <4>1 DEF NextBytes
        <4> QED
          BY <2>1, <4>2
      <3> QED
        BY <2>2, <3>2, <3>3, <3>4 DEF Shape
    <2>3. CASE ~({1, 2} \subseteq DOMAIN got)
      BY <1>3, <2>1, <2>3 DEF Load, Shape, NextBytes
    <2> QED
      BY <2>2, <2>3
  <1>4. CASE Evaluator /\ ~Load
    BY <1>4
    DEF Evaluator, Wait, Wake, IgnoreMagic, GenerateRelease, NewKey, SkipRepeat,
        RepeatKey, ReleaseKey, Continue, Shape, Loaded, key
  <1>5. CASE Time \/ UNCHANGED vars
    BY <1>5 DEF Time, vars, Shape, key
  <1> QED
    BY <1>1, <1>2, <1>3, <1>4, <1>5 DEF Next

LEMMA InitCInv == Init => CInv
  <1> SUFFICES ASSUME Init
               PROVE  CInv
    OBVIOUS
  <1>1. Shape
    BY DEF Init, Shape
  <1>2. KeyBuffered = NoKey /\ KeyTaken = NoKey
    BY DEF Init, KeyBuffered, KeyTaken, Buffered, Taken
  <1>3. HasHistory
    <2>1. [i \in 0 .. 0 |-> NoKey] \in [0 .. Len(queue) -> HeldKey]
      BY DEF Init, HeldKey
    <2>2. IsHistory([i \in 0 .. 0 |-> NoKey])
      BY <1>2 DEF Init, IsHistory
    <2> QED
      BY <2>1, <2>2 DEF HasHistory
  <1> QED
    BY <1>1, <1>2, <1>3, InitKInv DEF Init, CInv, InTime, Taking, Leads

\* The variables that the stages depend on.
stage_vars == <<buf, reading, evaluating, got, lastkey>>

LEMMA SameStages ==
  UNCHANGED stage_vars =>
    /\ KeyTaken' = KeyTaken /\ KeyBuffered' = KeyBuffered
    /\ Taking' = Taking /\ FromBuffer' = FromBuffer
BY DEF stage_vars, KeyTaken, KeyBuffered, Taking, Taken, Buffered, TakenKey,
       FromBuffer, NextBytes, key, release

\* A report that the driver takes is one step of the history.
LEMMA ReportInTime ==
  ASSUME Types, InTime, NEW r, Report(r), fd = "open",
         held' \in HeldKey, Leads(held, held'),
         held' = IF r.id = "kbd" THEN KeyOf(r.bytes) ELSE held
  PROVE  InTime'
  <1>1. UNCHANGED stage_vars /\ UNCHANGED fd
    BY DEF Report, stage_vars, reader_vars, key_vars
  <1> DEFINE n == Len(queue)
  <1>2. /\ n \in Nat
        /\ Len(queue') = n + 1
        /\ \A i \in 1 .. n : queue'[i] = queue[i]
        /\ queue'[n + 1] = IF TRUE THEN r ELSE r
    BY DEF Types, Report
  <1>3. HasHistory'
    <2>1. PICK hist \in [0 .. n -> HeldKey] : IsHistory(hist)
      BY DEF InTime, HasHistory
    <2>2. PICK longer \in [0 .. n + 1 -> HeldKey] :
             /\ longer[n + 1] = held'
             /\ \A i \in 0 .. n : longer[i] = hist[i]
      <3> DEFINE f == [i \in 0 .. n + 1 |-> IF i = n + 1 THEN held' ELSE hist[i]]
      <3>1. f \in [0 .. n + 1 -> HeldKey]
        BY <1>2, <2>1
      <3>2. f[n + 1] = held' /\ \A i \in 0 .. n : f[i] = hist[i]
        BY <1>2
      <3> QED
        BY <3>1, <3>2
    <2>3. /\ longer[n + 1] = held'
          /\ \A i \in 0 .. n : longer[i] = hist[i]
      BY <2>2
    <2> HIDE DEF n
    <2>4. hist[n] = held
      BY <2>1 DEF IsHistory, n
    <2>5. ASSUME NEW i \in 1 .. Len(queue')
          PROVE  /\ longer[i] = IF queue'[i].id = "kbd" THEN KeyOf(queue'[i].bytes)
                                                       ELSE longer[i - 1]
                 /\ Leads(longer[i - 1], longer[i])
      <3>1. CASE i = n + 1
        BY <1>2, <2>3, <2>4, <3>1
      <3>2. CASE i # n + 1
        <4>1. i \in 1 .. n /\ i - 1 \in 0 .. n /\ i \in 0 .. n
          BY <1>2, <3>2
        <4> QED
          BY <1>2, <2>1, <2>3, <4>1 DEF IsHistory, n
      <3> QED
        BY <3>1, <3>2
    <2>6. longer[0] = hist[0]
      BY <1>2, <2>3
    <2>7. IsHistory(longer)'
      BY <1>1, <1>2, <2>1, <2>3, <2>5, <2>6, SameStages DEF IsHistory
    <2> QED
      BY <1>2, <2>2, <2>7 DEF HasHistory
  <1> QED
    BY <1>1, <1>3, SameStages DEF InTime, stage_vars

LEMMA DeviceInTime ==
  ASSUME Types, InTime, Device, ~missed'
  PROVE  InTime'
  <1>1. \A k \in Keys \cup {Magic} : KeyOf(k) = k
    BY Irmp4kbdAssumption DEF KeyOf
  <1>2. ASSUME NEW r, Report(r)
        PROVE  fd = "open"
    BY <1>2 DEF Report
  <1>3. CASE DevicePress
    <2>1. held' = KeyOf(Kbd(held').bytes) /\ Kbd(held').id = "kbd"
      BY <1>1, <1>3 DEF DevicePress, Kbd
    <2> QED
      BY <1>2, <1>3, <2>1, ReportInTime DEF DevicePress, Leads, HeldKey
  <1>4. CASE DeviceRepeat
    <2>1. held \in Keys \cup {Magic} /\ held' = held
      BY <1>4 DEF DeviceRepeat, Types, TypeOK
    <2>2. held' = KeyOf(Kbd(held).bytes) /\ Kbd(held).id = "kbd"
      BY <1>1, <2>1 DEF Kbd
    <2> QED
      BY <1>2, <1>4, <2>1, <2>2, ReportInTime DEF DeviceRepeat, Leads, HeldKey
  <1>5. CASE DeviceRelease
    <2>1. held' = KeyOf(Kbd(Released).bytes) /\ Kbd(Released).id = "kbd"
      BY <1>5 DEF DeviceRelease, KeyOf, Kbd
    <2> QED
      BY <1>2, <1>5, <2>1, ReportInTime DEF DeviceRelease, Leads, HeldKey
  <1>6. CASE DeviceOther
    BY <1>2, <1>6, ReportInTime
    DEF DeviceOther, Other, Leads, HeldKey, Types, TypeOK
  <1>7. CASE Unplug
    BY <1>7 DEF Unplug
  <1>8. CASE Plug
    <2>1. UNCHANGED stage_vars /\ UNCHANGED <<queue, held, fd>>
      BY <1>8 DEF Plug, stage_vars, reader_vars, key_vars
    <2> QED
      BY <2>1, SameStages, HistoryKept DEF InTime, stage_vars
  <1> QED
    BY <1>3, <1>4, <1>5, <1>6, <1>7, <1>8 DEF Device

\* The first report of the queue goes into a buffer of which nothing is needed.
LEMMA ReadInTime ==
  ASSUME Types, Shape, InTime, Read, ~missed'
  PROVE  InTime'
  <1>1. /\ ~Unread /\ reading = "read" /\ ~Buffered /\ ~Taking
        /\ KeyBuffered = KeyTaken
    BY DEF Read, Unread, Buffered, Taking, InTime, KeyBuffered
  <1>2. /\ buf' = queue[1] /\ queue' = Tail(queue)
        /\ Len(queue) \in Nat /\ Len(queue) > 0
        /\ Len(queue') = Len(queue) - 1
        /\ \A i \in 1 .. Len(queue) - 1 : queue'[i] = queue[i + 1]
        /\ reading' = After(queue[1])
        /\ UNCHANGED <<held, fd, evaluating, got, lastkey>>
    BY DEF Read, Types, device_vars, key_vars
  <1>3. /\ Taking' = Taking /\ KeyTaken' = KeyTaken
    BY <1>2 DEF Taking, KeyTaken, Taken, TakenKey, NextBytes, key, release
  <1>4. Buffered' <=> queue[1].id = "kbd"
    BY <1>1, <1>2, <1>3 DEF Buffered, After
  <1>5. PICK hist \in [0 .. Len(queue) -> HeldKey] : IsHistory(hist)
    BY DEF InTime, HasHistory
  <1>6. /\ hist[1] = IF queue[1].id = "kbd" THEN KeyOf(queue[1].bytes) ELSE hist[0]
        /\ Leads(hist[0], hist[1])
    <2>1. 1 \in 1 .. Len(queue) /\ 1 - 1 = 0
      BY <1>2
    <2> QED
      BY <1>5, <2>1 DEF IsHistory
  <1>7. /\ KeyBuffered' = hist[1]
            \/ (hist[1] = Magic /\ KeyBuffered' = NoKey)
        /\ Leads(KeyTaken', KeyBuffered')
    <2>1. CASE queue[1].id = "kbd"
      <3>1. KeyBuffered' = hist[1]
        BY <1>2, <1>4, <1>6, <2>1 DEF KeyBuffered
      <3>2. Leads(KeyTaken, hist[1])
        BY <1>1, <1>5, <1>6 DEF IsHistory, Leads
      <3> QED
        BY <1>3, <3>1, <3>2
    <2>2. CASE queue[1].id # "kbd"
      <3>1. KeyBuffered' = KeyBuffered /\ hist[1] = hist[0]
        BY <1>1, <1>3, <1>4, <1>6, <2>2 DEF KeyBuffered
      <3> QED
        BY <1>1, <1>3, <1>5, <3>1 DEF IsHistory, Leads
    <2> QED
      BY <2>1, <2>2
  <1>8. HasHistory'
    <2> DEFINE n == Len(queue)
    <2>1. PICK shorter \in [0 .. n - 1 -> HeldKey] :
             \A i \in 0 .. n - 1 : shorter[i] = hist[i + 1]
      <3> DEFINE f == [i \in 0 .. n - 1 |-> hist[i + 1]]
      <3>1. f \in [0 .. n - 1 -> HeldKey]
        BY <1>2, <1>5
      <3>2. \A i \in 0 .. n - 1 : f[i] = hist[i + 1]
        BY <1>2
      <3> QED
        BY <3>1, <3>2
    <2>2. \A i \in 0 .. n - 1 : shorter[i] = hist[i + 1]
      BY <2>1
    <2>3. ASSUME NEW i \in 1 .. Len(queue')
          PROVE  /\ shorter[i] = IF queue'[i].id = "kbd" THEN KeyOf(queue'[i].bytes)
                                                        ELSE shorter[i - 1]
                 /\ Leads(shorter[i - 1], shorter[i])
      <3>1. /\ i \in 1 .. n - 1 /\ i \in 0 .. n - 1 /\ i - 1 \in 0 .. n - 1
            /\ i + 1 \in 1 .. n /\ (i + 1) - 1 = i /\ (i - 1) + 1 = i
        BY <1>2
      <3>2. queue'[i] = queue[i + 1]
        BY <1>2, <3>1
      <3>3. shorter[i] = hist[i + 1] /\ shorter[i - 1] = hist[(i - 1) + 1]
        BY <2>2, <3>1
      <3>4. /\ hist[i + 1] = IF queue[i + 1].id = "kbd"
                              THEN KeyOf(queue[i + 1].bytes) ELSE hist[(i + 1) - 1]
            /\ Leads(hist[(i + 1) - 1], hist[i + 1])
        BY <1>5, <3>1 DEF IsHistory
      <3>5. hist[(i + 1) - 1] = hist[i] /\ hist[(i - 1) + 1] = hist[i]
        BY <3>1
      <3> QED
        BY <3>2, <3>3, <3>4, <3>5, Zenon
    <2>4. shorter[Len(queue')] = held' /\ shorter[0] = hist[1]
      BY <1>2, <1>5, <2>2 DEF IsHistory
    <2>5. IsHistory(shorter)'
      BY <1>7, <2>3, <2>4 DEF IsHistory
    <2> QED
      BY <1>2, <2>1, <2>5 DEF HasHistory
  <1> QED
    BY <1>1, <1>2, <1>3, <1>7, <1>8 DEF InTime

\* The rest of the reading thread leaves the stages as they are, but for a
\* report that is evaluated again after the device was found.
LEMMA ReaderInTime ==
  ASSUME Types, Shape, InTime, Reader, ~missed'
  PROVE  InTime'
  <1>1. CASE Read
    BY <1>1, ReadInTime
  <1>2. ASSUME UNCHANGED <<queue, held, buf, evaluating, got, lastkey>>,
               reading' # "notify" /\ reading # "notify",
               fd' = "open" => fd = "open" \/ KeyBuffered' = KeyBuffered,
               fd' # "open" => fd # "open"
        PROVE  InTime'
    <2>1. /\ KeyTaken' = KeyTaken /\ KeyBuffered' = KeyBuffered
          /\ Taking' = Taking /\ FromBuffer' = FromBuffer
      BY <1>2
      DEF KeyTaken, KeyBuffered, Taking, Taken, Buffered, TakenKey, FromBuffer,
          NextBytes, key, release
    <2> QED
      BY <1>2, <2>1, HistoryKept DEF InTime
  <1>3. CASE Disconnect
    BY <1>2, <1>3 DEF Disconnect, device_vars, key_vars
  <1>4. CASE Connect
    <2>1. /\ held = NoKey /\ queue = <<>> /\ fd # "open"
          /\ buf.id = "kbd" => buf = Kbd(Released)
          /\ UNCHANGED <<queue, held, buf, evaluating, got, lastkey>>
          /\ fd' = "open" /\ reading' = After(buf) /\ reading = "sleep"
      BY <1>4 DEF Connect, Shape, InTime, device_vars, key_vars
    <2>2. KeyTaken' = KeyTaken /\ Taking' = Taking /\ FromBuffer' = FromBuffer
      BY <2>1
      DEF KeyTaken, Taking, Taken, TakenKey, FromBuffer, NextBytes, key, release
    <2>3. CASE buf.id # "kbd"
      BY <1>2, <2>1, <2>2, <2>3 DEF After, KeyBuffered, Buffered
    <2>4. CASE buf.id = "kbd"
      <3>1. KeyBuffered' = NoKey
        BY <2>1, <2>4 DEF After, KeyBuffered, Buffered, KeyOf, Kbd
      <3>2. PICK hist \in [0 .. Len(queue) -> HeldKey] : IsHistory(hist)
        BY DEF InTime, HasHistory
      <3>3. hist[0] = NoKey
        BY <2>1, <3>2 DEF IsHistory
      <3>4. IsHistory(hist)'
        BY <2>1, <3>1, <3>2, <3>3 DEF IsHistory
      <3>5. HasHistory'
        BY <2>1, <3>2, <3>4 DEF HasHistory
      <3> QED
        BY <2>1, <2>2, <2>4, <3>1, <3>5 DEF InTime, Leads
    <2> QED
      BY <2>3, <2>4
  <1>5. CASE Receive
    <2>1. /\ evaluating # "lock" /\ evaluating # "load" /\ reading = "notify"
          /\ evaluating' = "woken" \/ evaluating' = evaluating
          /\ UNCHANGED <<queue, held, fd, buf, got, lastkey>>
      BY <1>5 DEF Receive, MutexFree, device_vars, key_vars
    <2>2. evaluating' = "woken" /\ buf.id = "kbd" /\ got = <<>>
      BY <1>5, <2>1 DEF Receive, Shape, Types, TypeOK
    <2>3. KeyTaken' = KeyTaken /\ KeyBuffered' = KeyBuffered
      BY <2>1, <2>2 DEF KeyTaken, Taken, KeyBuffered, Buffered, Taking
    <2>4. FromBuffer'
      BY <2>1, <2>2 DEF FromBuffer
    <2> QED
      BY <2>1, <2>2, <2>3, <2>4, HistoryKept DEF InTime
  <1> QED
    BY <1>1, <1>3, <1>4, <1>5 DEF Reader

LEMMA LoadInTime ==
  ASSUME Types, Shape, Shape', InTime, Load
  PROVE  InTime'
  <1>1. PICK i \in NextBytes :
           got' = [j \in DOMAIN got \cup {i} |->
                      IF j = i THEN buf.bytes[2 - (i % 2)] ELSE got[j]]
    BY DEF Load
  <1>2. /\ Taking /\ ~Taken /\ evaluating = "load" /\ evaluating' = "load"
        /\ UNCHANGED <<held, queue, fd, buf, reading, lastkey>>
    BY <1>1 DEF Load, Taking, Taken, device_vars, reader_vars, key_vars
  <1>3. buf.id = "kbd" /\ FromBuffer /\ buf.bytes \in Bytes
    BY <1>2 DEF InTime, Types, TypeOK
  <1>4. FromBuffer'
    BY <1>1, <1>2, <1>3 DEF FromBuffer
  <1>5. KeyTaken = lastkey /\ KeyBuffered = KeyOf(buf.bytes)
    BY <1>2, <1>3 DEF KeyTaken, KeyBuffered, Buffered
  <1>6. CASE NextBytes' = {}
    <2>1. TakenKey' = KeyOf(buf.bytes)
      <3>1. (Shape /\ NextBytes = {} /\ buf.bytes \in Bytes /\ FromBuffer
               => TakenKey = KeyOf(buf.bytes))'
        BY TakenIsBuffered, PTL
      <3> QED
        BY <1>2, <1>3, <1>4, <1>6, <3>1 DEF KeyOf
    <2>2. KeyTaken' = KeyOf(buf.bytes) /\ KeyBuffered' = KeyOf(buf.bytes)
      BY <1>2, <1>6, <2>1 DEF KeyTaken, Taken, KeyBuffered, Buffered
    <2> QED
      BY <1>2, <1>3, <1>4, <1>5, <2>2, HistoryKept
      DEF InTime, Leads, Taken, Taking
  <1>7. CASE NextBytes' # {}
    <2>1. KeyTaken' = KeyTaken /\ KeyBuffered' = KeyBuffered
      BY <1>2, <1>3, <1>7
      DEF KeyTaken, Taken, KeyBuffered, Buffered, Taking
    <2> QED
      BY <1>2, <1>3, <1>4, <2>1, HistoryKept DEF InTime
  <1> QED
    BY <1>6, <1>7

\* The end of an evaluation: lastkey becomes what was taken, or was the report
\* after a wakeup, which leaves it alone.
LEMMA EvaluatedInTime ==
  ASSUME Shape, InTime, Taken, Continue, UNCHANGED fd,
         \/ lastkey' = KeyTaken
         \/ lastkey' = lastkey /\ KeyTaken = Magic
  PROVE  InTime'
  <1>1. /\ evaluating' = "lock" /\ got' = <<>>
        /\ UNCHANGED <<held, queue, fd, buf, reading>>
    BY DEF Continue, device_vars, reader_vars
  <1>2. KeyTaken' = lastkey' /\ ~Taking'
    BY <1>1 DEF KeyTaken, Taken, Taking
  <1>3. Buffered' = Buffered
    BY <1>1 DEF Buffered, Taking, Taken
  <1>4. /\ Leads(lastkey', KeyBuffered')
        /\ \/ KeyBuffered' = KeyBuffered
           \/ KeyBuffered = Magic /\ KeyBuffered' = NoKey
    <2>1. CASE Buffered
      BY <1>1, <1>3, <2>1, Irmp4kbdAssumption
      DEF InTime, KeyBuffered, Leads, NoKey
    <2>2. CASE ~Buffered
      BY <1>2, <1>3, <2>2, Irmp4kbdAssumption
      DEF InTime, KeyBuffered, Leads, NoKey
    <2> QED
      BY <2>1, <2>2
  <1> QED
    BY <1>1, <1>2, <1>4, HistoryKept DEF InTime, Leads

LEMMA EvaluatorInTime ==
  ASSUME Types, Shape, Shape', InTime, Evaluator
  PROVE  InTime'
  <1> USE DEF device_vars, reader_vars, key_vars, timer_vars
  <1>1. CASE Wait \/ Wake
    <2>1. /\ UNCHANGED <<held, queue, fd, buf, reading, got, lastkey>>
          /\ ~Taken /\ ~Taken' /\ Taking' = Taking
      BY <1>1 DEF Wait, Wake, Taken, Taking, Shape, NextBytes
    <2>2. KeyTaken' = KeyTaken /\ KeyBuffered' = KeyBuffered
      BY <2>1 DEF KeyTaken, KeyBuffered, Buffered
    <2> QED
      BY <2>1, <2>2, HistoryKept DEF InTime, FromBuffer
  <1>2. CASE Load
    BY <1>2, LoadInTime
  <1>3. CASE IgnoreMagic
    <2>1. ~release
      BY <1>3 DEF IgnoreMagic, Shape, release
    <2> QED
      BY <1>3, <2>1, EvaluatedInTime
      DEF IgnoreMagic, Continue, Taken, KeyTaken, TakenKey
  <1>4. CASE GenerateRelease
    <2>1. UNCHANGED stage_vars /\ UNCHANGED <<held, queue, fd>>
      BY <1>4 DEF GenerateRelease, stage_vars
    <2> QED
      BY <2>1, SameStages, HistoryKept DEF InTime, stage_vars
  <1>5. CASE NewKey \/ SkipRepeat \/ RepeatKey \/ ReleaseKey
    <2>1. Taken /\ Continue /\ UNCHANGED fd
      BY <1>5 DEF NewKey, SkipRepeat, RepeatKey, ReleaseKey, Loaded, Taken, Continue
    <2>2. lastkey' = KeyTaken
      BY <1>5
      DEF NewKey, SkipRepeat, RepeatKey, ReleaseKey, Loaded, KeyTaken, Taken,
          TakenKey
    <2> QED
      BY <2>1, <2>2, EvaluatedInTime
  <1> QED
    BY <1>1, <1>2, <1>3, <1>4, <1>5 DEF Evaluator

\* A release with nothing behind it makes up for what was missed.
LEMMA AgainInTime ==
  ASSUME Types, ReleaseKey, AllReleased
  PROVE  InTime'
  <1>1. /\ held' = NoKey /\ queue' = <<>> /\ buf' = Kbd(Released)
        /\ lastkey' = NoKey /\ evaluating' = "lock"
    BY DEF ReleaseKey, AllReleased, Continue, device_vars, reader_vars
  <1>2. KeyTaken' = NoKey /\ KeyBuffered' = NoKey /\ ~Taking'
    BY <1>1 DEF KeyTaken, Taken, KeyBuffered, KeyOf, Kbd, Taking
  <1>3. PICK hist \in [0 .. 0 -> HeldKey] : hist[0] = NoKey
    <2> DEFINE f == [i \in 0 .. 0 |-> NoKey]
    <2>1. f \in [0 .. 0 -> HeldKey] /\ f[0] = NoKey
      BY DEF HeldKey
    <2> QED
      BY <2>1
  <1>4. IsHistory(hist)'
    BY <1>1, <1>2, <1>3 DEF IsHistory
  <1>5. HasHistory'
    BY <1>1, <1>3, <1>4 DEF HasHistory
  <1> QED
    BY <1>1, <1>2, <1>5 DEF InTime, Leads

LEMMA StepCInv == CInv /\ [Next]_vars => CInv'
  <1> SUFFICES ASSUME CInv, [Next]_vars
               PROVE  CInv'
    OBVIOUS
  <1>1. KInv' /\ Types /\ Shape /\ Shape'
    BY StepKInv, StepShape DEF CInv, KInv
  <1>2. ASSUME ~missed'
        PROVE  InTime'
    <2>1. CASE missed
      <3>1. ReleaseKey /\ AllReleased
        BY <1>2, <2>1
        DEF Next, Device, DevicePress, DeviceRepeat, DeviceRelease, DeviceOther,
            Report, Unplug, Plug, Reader, Read, Disconnect, Connect, Receive,
            Evaluator, Wait, Wake, Load, IgnoreMagic, GenerateRelease, NewKey,
            SkipRepeat, RepeatKey, ReleaseKey, Time, vars
      <3> QED
        BY <1>1, <3>1, AgainInTime
    <2>2. CASE ~missed
      <3>1. InTime
        BY <2>2 DEF CInv
      <3>2. CASE Time \/ UNCHANGED vars
        <4>1. UNCHANGED stage_vars /\ UNCHANGED <<held, queue, fd>>
          BY <3>2
          DEF Time, vars, device_vars, reader_vars, key_vars, stage_vars
        <4> QED
          BY <3>1, <4>1, SameStages, HistoryKept DEF InTime, stage_vars
      <3> QED
        BY <1>1, <1>2, <3>1, <3>2, DeviceInTime, ReaderInTime, EvaluatorInTime
        DEF Next
    <2> QED
      BY <2>1, <2>2
  <1> QED
    BY <1>1, <1>2 DEF CInv

\* Once every report is evaluated and none was missed since, the key that VDR
\* was told of is the one that is held, and only that one is repeated
\* (irmp4kbd.c:103-170), for any keys, times and length of the queue.
THEOREM KeepsInStep == Spec => []InStep
  <1>1. CInv => InStep
    <2> SUFFICES ASSUME CInv, Quiet, ~missed
                 PROVE  /\ held \in Keys => told = held
                        /\ repeat => held = told
      BY DEF InStep
    <2>1. InTime /\ LastToldInv /\ ~Loaded
      BY DEF CInv, KInv, Quiet, Loaded
    <2>2. KeyBuffered = lastkey
      BY DEF Quiet, KeyBuffered, Buffered, Taking, KeyTaken, Taken
    <2>3. PICK hist \in [0 .. Len(queue) -> HeldKey] : IsHistory(hist)
      BY <2>1 DEF InTime, HasHistory
    <2>4. held = lastkey \/ (held = Magic /\ lastkey = NoKey)
      BY <2>2, <2>3 DEF IsHistory, Quiet
    <2> QED
      BY <2>1, <2>4, Irmp4kbdAssumption DEF LastToldInv, NoKey
  <1> QED
    BY InitCInv, StepCInv, <1>1, PTL DEF Spec
=============================================================================
