--------------------------- MODULE IrSignalProofs ---------------------------
(***************************************************************************)
(* Proofs about what irmp_ISR makes of the light it sees.                  *)
(*                                                                         *)
(* The log of the signal, for any size of the buffer and of the reports    *)
(* and any lengths of light and dark:                                      *)
(*   TypeCorrect  neither the interrupt nor the loop leaves the buffer,    *)
(*   Intact       a log arrives whole, unless it was torn or the bus was   *)
(*                suspended before all of it was got,                      *)
(*   AsSeen       and irmpconfig shows it as the sensor saw it.            *)
(*                                                                         *)
(* The argument: a log that is recorded is in the buffer as the bytes of   *)
(* its runs one behind the other (RecordInv), so it is when it is finished *)
(* (FinishedInv), and what the host has got is what the buffer holds up to *)
(* the report that is on its way (SendInv), as long as nothing is written  *)
(* meanwhile and none of the reports is lost.  What FlattenSeq             *)
(* and Shown compute is proved by induction over the numbers, in the form  *)
(* of SetInduction: FlattenSeq is the last of the Parts of a sequence,     *)
(* Shown goes from one of them to the next.                                *)
(*                                                                         *)
(* The decoder, under any light:                                           *)
(*   FramesTimeOut  in the dark a frame is over in time, but for those of  *)
(*                  which irmp.c waits for more.                           *)
(*                                                                         *)
(* The argument: a tick of dark leaves a pause within its limit, a frame   *)
(* that is complete, or one that the next tick completes (DarkTickOK),     *)
(* branch by branch; every evaluation of a bit ends the pause it is about. *)
(*                                                                         *)
(* The link, for any codes and commands:                                   *)
(*   LinkIsLight   what the receiver sees of a sender is such a light,     *)
(*   LinkTimesOut  so that a frame of a remote control is over in time,    *)
(*                 too.                                                    *)
(*                                                                         *)
(* The argument: every pulse and pause the sender makes of a code, of its  *)
(* start bit or of a gap takes more ticks than an edge may be off          *)
(* (SenderInv).                                                            *)
(***************************************************************************)
EXTENDS IrLog, IrLink, SequenceTheorems, WellFoundedInduction, TLAPS

\* What limits the offset: a report is only waited for if something of a log
\* was left to be sent, however the interrupt has changed the length since.
OffsetInv == place = "wait" => offset < DATALEN

LInv == TypeOK /\ OffsetInv

\* What a log is stored as: the bytes of its runs, one behind the other.
Entries(runs) ==
    <<Bytes(runs[1] - STARTCYCLES)>> \o
    [i \in 1 .. Len(runs) - 1 |-> Bytes(runs[i + 1])]

Encoded(runs) == FlattenSeq(Entries(runs))

Holds(s) == \A i \in 1 .. Len(s) : buf[i] = s[i]

\* The buffer holds the runs that are recorded, behind the byte of the run of
\* no length that begins a log.
RecordInv ==
    /\ lit => buf_idx > 0
    /\ buf_idx > 0 /\ seen = <<>> => buf_idx = 1 /\ last_val = 0
    /\ buf_idx > 0 /\ seen # <<>> =>
          /\ buf_idx > 1
          /\ seen[1] \in Lights
          /\ Len(Encoded(seen)) = buf_idx - 1
          /\ Holds(Encoded(seen))

\* It holds the finished log until the interrupt writes to it again.
FinishedInv ==
    log_buf_ready /\ ~torn =>
        /\ log # <<>> /\ log[1] \in Lights
        /\ Len(LogBytes) = log_buf_len
        /\ Holds(LogBytes)

\* What the host has got, and what the loop reads for it.
Sent == FlattenSeq(reports)

Read(i) == IF i < DATALEN THEN buf[i] ELSE Beyond

ReportsInv == reports \in Seq(Seq(0 .. 255)) /\ in_flight \in Seq(0 .. 255)

\* While the loop waits, the next report is in the endpoint or was got.
WaitInv ==
    IF PrevXferComplete
      THEN in_flight = Free /\ Len(Sent) = offset + Report
      ELSE /\ Len(Sent) = offset /\ Len(in_flight) = Report
           /\ ~torn => in_flight = ReportAt(offset)

\* What was got is what is read up to the offset.
SendInv ==
    /\ place # "task" => log_buf_ready
    /\ place = "send" /\ ~lost => in_flight = Free /\ Len(Sent) = offset
    /\ place = "wait" /\ ~lost => WaitInv
    /\ place # "task" /\ ~lost /\ ~torn =>
          /\ \A i \in 1 .. Len(Sent) : Sent[i] = Read(i)
          /\ reports # <<>> => reports[1] = ReportAt(0)

LogInv ==
    /\ LInv
    /\ ReportsInv
    /\ RecordInv
    /\ FinishedInv
    /\ SendInv

-----------------------------------------------------------------------------
(* What sequences that are put together are.                               *)

\* Induction over the numbers, with a set for the property.
LEMMA SetInduction ==
  ASSUME NEW S, 0 \in S, \A n \in Nat : n \in S => n + 1 \in S
  PROVE  Nat \subseteq S
  <1> DEFINE Less == {p \in Nat \X Nat : p[1] < p[2]}
             T == Nat \ S
  <1>1. IsWellFoundedOn(Less, Nat)
    BY NatLessThanWellFounded DEF OpToRel
  <1>2. ASSUME T # {}
       PROVE  FALSE
    <2>0. T \subseteq Nat
      OBVIOUS
    <2>1. \E x \in T : \A y \in T : <<y, x>> \notin Less
      <3> HIDE DEF T, Less
      <3> QED
        BY <1>1, <2>0, <1>2, WFMin, Zenon
    <2>2. PICK x \in T : \A y \in T : <<y, x>> \notin Less
      BY <2>1
    <2>3. x # 0 /\ x - 1 \in Nat
      OBVIOUS
    <2>4. <<x - 1, x>> \in Less
      BY <2>3
    <2>5. x - 1 \in S
      BY <2>2, <2>3, <2>4
    <2> QED
      BY <2>3, <2>5
  <1> QED
    BY <1>2

\* The sequences that the first k of Q make, put one behind the other.
Parts(F, Q) ==
    /\ F[0] = <<>>
    /\ \A i \in 0 .. Len(Q) - 1 : F[i + 1] = F[i] \o Q[i + 1]

\* Sequences that agree have the same parts.
LEMMA PartsUnique ==
  ASSUME NEW S, NEW Q \in Seq(S), NEW R \in Seq(S), NEW F, NEW G,
         Parts(F, Q), Parts(G, R), Len(Q) <= Len(R),
         \A i \in 1 .. Len(Q) : Q[i] = R[i]
  PROVE  F[Len(Q)] = G[Len(Q)]
  <1> DEFINE T == {i \in Nat : i <= Len(Q) => F[i] = G[i]}
  <1>1. 0 \in T
    BY DEF Parts
  <1>2. ASSUME NEW n \in Nat, n \in T
       PROVE  n + 1 \in T
    <2> SUFFICES ASSUME n + 1 <= Len(Q) PROVE F[n + 1] = G[n + 1]
      OBVIOUS
    <2>1. F[n] = G[n]
      BY <1>2
    <2>2. n + 1 \in 1 .. Len(Q) /\ n \in 0 .. Len(Q) - 1 /\ n \in 0 .. Len(R) - 1
      OBVIOUS
    <2>3. F[n + 1] = F[n] \o Q[n + 1]
      BY <2>2 DEF Parts
    <2>4. G[n + 1] = G[n] \o R[n + 1]
      BY <2>2 DEF Parts
    <2>5. Q[n + 1] = R[n + 1]
      BY <2>2
    <2> QED
      BY <2>1, <2>3, <2>4, <2>5
  <1>3. Nat \subseteq T
    <2> HIDE DEF T
    <2> QED
      BY <1>1, <1>2, SetInduction
  <1> QED
    BY <1>3

LEMMA PartsExist ==
  ASSUME NEW S, NEW Q \in Seq(Seq(S))
  PROVE  \E F \in [0 .. Len(Q) -> Seq(S)] : Parts(F, Q)
  <1> DEFINE Upto(F, k) == /\ F \in [0 .. k -> Seq(S)]
                           /\ F[0] = <<>>
                           /\ \A i \in 0 .. k - 1 : F[i + 1] = F[i] \o Q[i + 1]
             P(k) == k <= Len(Q) => \E F : Upto(F, k)
             T == {k \in Nat : P(k)}
  <1>1. P(0)
    <2>1. Upto([i \in 0 .. 0 |-> <<>>], 0)
      OBVIOUS
    <2> QED
      BY <2>1
  <1>2. ASSUME NEW k \in Nat, P(k)
       PROVE  P(k + 1)
    <2> SUFFICES ASSUME k + 1 <= Len(Q) PROVE \E G : Upto(G, k + 1)
      OBVIOUS
    <2>0. k <= Len(Q) /\ k + 1 \in 1 .. Len(Q)
      OBVIOUS
    <2>1. PICK F : Upto(F, k)
      <3> HIDE DEF Upto
      <3> QED
        BY <1>2, <2>0
    <2>2. Q[k + 1] \in Seq(S)
      BY <2>0, ElementOfSeq
    <2>3. F[k] \o Q[k + 1] \in Seq(S)
      BY <2>1, <2>2
    <2>4. PICK e \in Seq(S) : e = F[k] \o Q[k + 1]
      BY <2>3, Zenon
    <2>9. F \in [0 .. k -> Seq(S)]
      BY <2>1
    <2>10. PICK G : G = [i \in 0 .. k + 1 |-> IF i = k + 1 THEN e ELSE F[i]]
      OBVIOUS
    <2>5. /\ G \in [0 .. k + 1 -> Seq(S)]
          /\ G[k + 1] = e
          /\ \A i \in 0 .. k : G[i] = F[i]
      BY <2>9, <2>10
    <2>6. ASSUME NEW i \in 0 .. (k + 1) - 1
         PROVE  G[i + 1] = G[i] \o Q[i + 1]
      <3>1. CASE i = k
        <4>1. G[k] = F[k] /\ G[k + 1] = e
          BY <2>5
        <4>2. G[k + 1] = G[k] \o Q[k + 1]
          BY <2>4, <4>1, Zenon
        <4> QED
          BY <3>1, <4>2, Zenon
      <3>2. CASE i # k
        <4>1. i \in 0 .. k - 1 /\ i \in 0 .. k /\ i + 1 \in 0 .. k
          BY <3>2
        <4>2. F[i + 1] = F[i] \o Q[i + 1]
          BY <4>1, <2>1
        <4>3. G[i + 1] = F[i + 1] /\ G[i] = F[i]
          BY <4>1, <2>5
        <4> QED
          BY <4>2, <4>3, Zenon
      <3> QED
        BY <3>1, <3>2
    <2>7. G[0] = <<>>
      BY <2>1, <2>5
    <2>8. Upto(G, k + 1)
      BY <2>5, <2>6, <2>7
    <2> HIDE DEF Upto
    <2> QED
      BY <2>8
  <1>3. Nat \subseteq T
    <2> HIDE DEF P
    <2>1. 0 \in T
      BY <1>1
    <2>2. \A n \in Nat : n \in T => n + 1 \in T
      BY <1>2
    <2> HIDE DEF T
    <2> QED
      BY <2>1, <2>2, SetInduction
  <1>4. PICK F : Upto(F, Len(Q))
    <2>1. Len(Q) \in Nat
      OBVIOUS
    <2>2. P(Len(Q))
      <3> HIDE DEF P
      <3> QED
        BY <1>3, <2>1
    <2> HIDE DEF Upto
    <2> QED
      BY <2>1, <2>2
  <1> QED
    BY <1>4 DEF Parts

LEMMA FlattenParts ==
  ASSUME NEW S, NEW Q \in Seq(Seq(S)), NEW F \in [0 .. Len(Q) -> Seq(S)],
         Parts(F, Q)
  PROVE  FlattenSeq(Q) = F[Len(Q)]
  <1>1. CASE Len(Q) = 0
    BY <1>1 DEF FlattenSeq, Parts
  <1>2. CASE Len(Q) # 0
    <2> DEFINE n == Len(Q)
               Rec(f) == f = [i \in 1 .. n |->
                              IF i = 1 THEN Q[i] ELSE f[i - 1] \o Q[i]]
    <2>0. n \in Nat \ {0}
      BY <1>2
    <2>9. PICK H : H = [i \in 1 .. n |-> F[i]]
      OBVIOUS
    <2>10. DOMAIN H = 1 .. n /\ \A i \in 1 .. n : H[i] = F[i]
      BY <2>9
    <2>1. Rec(H)
      <3> SUFFICES ASSUME NEW i \in 1 .. n
                   PROVE  H[i] = IF i = 1 THEN Q[i] ELSE H[i - 1] \o Q[i]
        <4>1. H = [i \in 1 .. n |-> H[i]]
          BY <2>9
        <4> QED
          BY <4>1, Zenon
      <3>1. F[i] = F[i - 1] \o Q[i]
        <4>1. i - 1 \in 0 .. Len(Q) - 1 /\ (i - 1) + 1 = i
          OBVIOUS
        <4>2. F[(i - 1) + 1] = F[i - 1] \o Q[(i - 1) + 1]
          BY <4>1 DEF Parts
        <4> QED
          BY <4>1, <4>2
      <3>2. CASE i = 1
        <4>1. Q[i] \in Seq(S) /\ F[i - 1] = <<>>
          BY <3>2, ElementOfSeq DEF Parts
        <4>2. <<>> \o Q[i] = Q[i]
          BY <4>1, ConcatEmptySeq
        <4> QED
          BY <3>1, <3>2, <4>1, <4>2, <2>10
      <3>3. CASE i # 1
        <4>1. H[i - 1] = F[i - 1] /\ H[i] = F[i]
          BY <3>3, <2>10
        <4> QED
          BY <3>1, <3>3, <4>1
      <3> QED
        BY <3>2, <3>3
    <2>2. PICK f : Rec(f) /\ FlattenSeq(Q) = f[n]
      <3> DEFINE c == CHOOSE g : Rec(g)
      <3>1. FlattenSeq(Q) = c[n]
        BY <1>2 DEF FlattenSeq
      <3>2. Rec(c)
        <4> HIDE DEF Rec
        <4> QED
          BY <2>1
      <3> HIDE DEF c, Rec
      <3> QED
        BY <3>1, <3>2
    <2>4. \A i \in 1 .. n : f[i] = IF i = 1 THEN Q[i] ELSE f[i - 1] \o Q[i]
      BY <2>2
    <2> DEFINE P(i) == i \in 1 .. n => f[i] = F[i]
               T == {i \in Nat : P(i)}
    <2>5. P(0)
      OBVIOUS
    <2>6. ASSUME NEW i \in Nat, P(i)
         PROVE  P(i + 1)
      <3> SUFFICES ASSUME NEW j, j = i + 1, j \in 1 .. n
                   PROVE  f[j] = F[j]
        OBVIOUS
      <3>1. CASE j = 1
        BY <2>0, <2>1, <2>4, <2>10, <3>1
      <3>2. CASE j # 1
        <4>1. j - 1 = i /\ i \in 1 .. n
          BY <3>2
        <4>2. f[j] = f[i] \o Q[j]
          <5> HIDE DEF Rec
          <5> QED
            BY <2>4, <3>2, <4>1
        <4>3. F[j] = F[i] \o Q[j]
          <5>1. i \in 0 .. Len(Q) - 1
            BY <3>2
          <5> QED
            BY <5>1 DEF Parts
        <4> QED
          BY <2>6, <4>1, <4>2, <4>3
      <3> QED
        BY <3>1, <3>2
    <2>7. Nat \subseteq T
      <3> HIDE DEF P
      <3>1. 0 \in T
        BY <2>5
      <3>2. \A i \in Nat : i \in T => i + 1 \in T
        BY <2>6
      <3> HIDE DEF T
      <3> QED
        BY <3>1, <3>2, SetInduction
    <2>8. P(n)
      <3> HIDE DEF P
      <3> QED
        BY <2>0, <2>7
    <2>12. FlattenSeq(Q) = f[n]
      BY <2>2
    <2> QED
      BY <2>0, <2>12, <2>8
  <1> QED
    BY <1>1, <1>2

LEMMA FlattenType ==
  ASSUME NEW S, NEW Q \in Seq(Seq(S))
  PROVE  FlattenSeq(Q) \in Seq(S)
  <1>1. PICK F \in [0 .. Len(Q) -> Seq(S)] : Parts(F, Q)
    BY PartsExist
  <1>2. FlattenSeq(Q) = F[Len(Q)]
    BY <1>1, FlattenParts
  <1> QED
    BY <1>2

LEMMA FlattenAppend ==
  ASSUME NEW S, NEW Q \in Seq(Seq(S)), NEW b \in Seq(S)
  PROVE  FlattenSeq(Append(Q, b)) = FlattenSeq(Q) \o b
  <1> DEFINE n == Len(Q)
  <1>. PICK R : R = Append(Q, b)
    OBVIOUS
  <1>1. R \in Seq(Seq(S)) /\ Len(R) = n + 1 /\ R[n + 1] = b
        /\ n \in Nat /\ \A i \in 1 .. n : Q[i] = R[i]
    OBVIOUS
  <1>2. PICK F \in [0 .. Len(Q) -> Seq(S)] : Parts(F, Q)
    BY PartsExist
  <1>3. PICK G \in [0 .. Len(R) -> Seq(S)] : Parts(G, R)
    BY <1>1, PartsExist
  <1>4. FlattenSeq(Q) = F[n]
    BY <1>2, FlattenParts
  <1>5. FlattenSeq(R) = G[n + 1]
    BY <1>1, <1>3, FlattenParts
  <1>6. F[n] = G[n]
    <2>1. Len(R) \in Nat /\ n <= Len(R)
      BY <1>1
    <2>2. /\ Len(Q) \in Nat /\ Len(Q) <= Len(R)
          /\ \A i \in 1 .. Len(Q) : Q[i] = R[i]
      BY <1>1
    <2>3. F[n] = G[n]
      BY <2>2, <1>1, <1>2, <1>3, PartsUnique
    <2> QED
      BY <1>1, <2>3
  <1>7. G[n + 1] = G[n] \o b
    <2>1. n \in 0 .. Len(R) - 1
      BY <1>1
    <2>2. G[n + 1] = G[n] \o R[n + 1]
      BY <1>3, <2>1 DEF Parts
    <2> QED
      BY <1>1, <2>2
  <1> QED
    BY <1>4, <1>5, <1>6, <1>7

-----------------------------------------------------------------------------
(* The types.                                                              *)

LEMMA BytesType ==
  ASSUME NEW n \in Nat
  PROVE  /\ Bytes(n) \in Seq(0 .. 255)
         /\ Len(Bytes(n)) \in {1, 3}
  <1>1. CASE n >= 255
    <2>1. /\ n % 256 \in 0 .. 255
          /\ (n \div 256) % 256 \in 0 .. 255
      OBVIOUS
    <2>2. Bytes(n) = <<255, n % 256, (n \div 256) % 256>>
      BY <1>1 DEF Bytes
    <2> QED
      BY <2>1, <2>2
  <1>2. CASE ~(n >= 255)
    <2>1. n \in 0 .. 255 /\ Bytes(n) = <<n>>
      BY <1>2 DEF Bytes
    <2> QED
      BY <2>1
  <1> QED
    BY <1>1, <1>2

\* Where there is room, an entry of one or three bytes stays in the buffer.
LEMMA StoredType ==
  ASSUME TypeOK, NEW bytes \in Seq(0 .. 255), Len(bytes) \in {1, 3},
         Stored(bytes), Room
  PROVE  /\ buf' \in [0 .. DATALEN - 1 -> 0 .. 255]
         /\ buf_idx' \in 0 .. DATALEN - 1
         /\ torn' \in BOOLEAN
  <1>1. ASSUME NEW i \in 0 .. DATALEN - 1, i - buf_idx \in 0 .. Len(bytes) - 1
        PROVE  bytes[i - buf_idx + 1] \in 0 .. 255
    <2>1. i - buf_idx + 1 \in 1 .. Len(bytes)
      BY <1>1 DEF TypeOK
    <2> QED
      BY <2>1, ElementOfSeq
  <1>2. buf' \in [0 .. DATALEN - 1 -> 0 .. 255]
    BY <1>1 DEF Stored, TypeOK
  <1>3. buf_idx' \in 0 .. DATALEN - 1
    <2>1. buf_idx' = buf_idx + Len(bytes)
      BY DEF Stored
    <2>2. buf_idx \in Nat /\ buf_idx < DATALEN - 3
      BY DEF Room, TypeOK
    <2>3. Len(bytes) = 1 \/ Len(bytes) = 3
      OBVIOUS
    <2>4. buf_idx' \in {buf_idx + 1, buf_idx + 3}
      BY <2>1, <2>3
    <2>5. DATALEN \in Nat
      BY IrLogAssumption
    <2> QED
      BY <2>2, <2>4, <2>5
  <1>4. torn' \in BOOLEAN
    BY DEF Stored
  <1> QED
    BY <1>2, <1>3, <1>4

LEMMA RunEndsType ==
  ASSUME TypeOK, NEW val \in {0, 1}, NEW n \in Lights \cup Darks,
         NEW bytes \in Seq(0 .. 255), Len(bytes) \in {1, 3},
         RunEnds(val, n, bytes), lit' \in BOOLEAN
  PROVE  TypeOK'
  <1>1. CASE Room /\ last_val = val
    <2>1. /\ Stored(bytes)
          /\ last_val' = 1 - val
          /\ seen' = Append(seen, n)
      BY <1>1 DEF RunEnds
    <2>2. /\ last_val' \in {0, 1}
          /\ seen' \in Seq(Lights \cup Darks)
      BY <2>1 DEF TypeOK
    <2>3. UNCHANGED <<log_buf_len, log, log_buf_ready, PrevXferComplete,
                      place, offset, suspended, lost>>
      BY DEF RunEnds, flag_vars, loop_vars, usb_vars
    <2>4. /\ buf' \in [0 .. DATALEN - 1 -> 0 .. 255]
          /\ buf_idx' \in 0 .. DATALEN - 1
          /\ torn' \in BOOLEAN
      BY <1>1, <2>1, StoredType
    <2> QED
      BY <2>2, <2>3, <2>4 DEF TypeOK
  <1>2. CASE ~(Room /\ last_val = val)
    BY <1>2 DEF RunEnds, flag_vars, loop_vars, usb_vars, TypeOK
  <1> QED
    BY <1>1, <1>2

LEMMA InitLInv == Init => LInv
  <1> SUFFICES ASSUME Init
               PROVE  LInv
    OBVIOUS
  <1>1. buf \in [0 .. DATALEN - 1 -> 0 .. 255]
    BY DEF Init
  <1>2. /\ buf_idx \in 0 .. DATALEN - 1
        /\ log_buf_len \in 0 .. DATALEN - 1
        /\ offset \in 0 .. DATALEN + Report
    BY IrLogAssumption DEF Init
  <1>3. {seen, log} \subseteq Seq(Lights \cup Darks)
    BY DEF Init
  <1> QED
    BY <1>1, <1>2, <1>3 DEF Init, LInv, TypeOK, OffsetInv

LEMMA InterruptLInv == LInv /\ irmp_log => LInv'
  <1> SUFFICES ASSUME LInv, irmp_log
               PROVE  LInv'
    OBVIOUS
  <1>1. UNCHANGED <<place, offset>>
    BY DEF irmp_log, LightEnds, DarkEnds, RunEnds, LogBegins, LogEnds, loop_vars
  <1>2. OffsetInv'
    BY <1>1 DEF LInv, OffsetInv
  <1>3. ASSUME NEW n \in Lights, LightEnds(n)
        PROVE  TypeOK'
    <2>1. /\ n \in Nat
          /\ n - STARTCYCLES \in Nat
      BY IrLogAssumption DEF STARTCYCLES
    <2>2. PICK k \in Nat : RunEnds(0, n, Bytes(k))
      BY <1>3, <2>1 DEF LightEnds
    <2> QED
      BY <1>3, <2>2, BytesType, RunEndsType DEF LightEnds, LInv
  <1>4. ASSUME NEW n \in Darks, DarkEnds(n)
        PROVE  TypeOK'
    <2>1. n \in Nat
      BY IrLogAssumption DEF ENDBITS
    <2> QED
      BY <1>4, <2>1, BytesType, RunEndsType DEF DarkEnds, LInv
  <1>5. CASE LogBegins
    <2>1. /\ << 0 >> \in Seq(0 .. 255)
          /\ Len(<< 0 >>) \in {1, 3}
          /\ <<>> \in Seq(Lights \cup Darks)
      OBVIOUS
    <2>2. Room
      BY <1>5, IrLogAssumption DEF LogBegins, Room
    <2>3. /\ UNCHANGED <<log_buf_len, log, log_buf_ready, PrevXferComplete,
                         place, offset, suspended, lost>>
          /\ lit' = TRUE /\ last_val' = 0 /\ seen' = <<>>
          /\ Stored(<< 0 >>)
      BY <1>5 DEF LogBegins, flag_vars, loop_vars, usb_vars
    <2>4. /\ buf' \in [0 .. DATALEN - 1 -> 0 .. 255]
          /\ buf_idx' \in 0 .. DATALEN - 1
          /\ torn' \in BOOLEAN
      BY <2>1, <2>2, <2>3, StoredType DEF LInv
    <2> QED
      BY <1>2, <2>1, <2>3, <2>4 DEF LInv, TypeOK
  <1>6. CASE LogEnds
    <2>1. buf' \in [0 .. DATALEN - 1 -> 0 .. 255]
      BY <1>6 DEF LogEnds, LInv, TypeOK
    <2>2. buf_idx' \in 0 .. DATALEN - 1
      BY <1>6, IrLogAssumption DEF LogEnds
    <2>3. torn' \in BOOLEAN
      BY <1>6 DEF LogEnds
    <2>4. /\ UNCHANGED <<lit, last_val, seen, PrevXferComplete, place, offset,
                         suspended, lost>>
          /\ log_buf_len' = buf_idx /\ log_buf_ready' = TRUE /\ log' = seen
      BY <1>6 DEF LogEnds, loop_vars, usb_vars
    <2> QED
      BY <1>2, <2>1, <2>2, <2>3, <2>4 DEF LInv, TypeOK
  <1> QED
    BY <1>2, <1>3, <1>4, <1>5, <1>6 DEF irmp_log, LInv

LEMMA LoopLInv == LInv /\ Loop => LInv'
  <1> SUFFICES ASSUME LInv, Loop
               PROVE  LInv'
    OBVIOUS
  <1> USE DEF rec_vars, flag_vars, LInv, TypeOK, OffsetInv
  <1>1. CASE SendStart
    BY <1>1, IrLogAssumption DEF SendStart
  <1>2. CASE SendReport
    <2>1. offset < DATALEN
      BY <1>2, IrLogAssumption DEF SendReport
    <2> QED
      BY <1>2, <2>1 DEF SendReport
  <1>3. CASE SendNothing
    <2>1. offset < DATALEN
      BY <1>3, IrLogAssumption DEF SendNothing
    <2> QED
      BY <1>3, <2>1, IrLogAssumption DEF SendNothing
  <1>4. CASE WaitEnds
    BY <1>4, IrLogAssumption DEF WaitEnds, usb_vars
  <1>5. CASE SendEnd
    <2>1. log' \in Seq(Lights \cup Darks)
      BY <1>5 DEF SendEnd
    <2>2. offset' \in 0 .. DATALEN + Report
      BY <1>5, IrLogAssumption DEF SendEnd
    <2> QED
      BY <1>5, <2>1, <2>2 DEF SendEnd
  <1> QED
    BY <1>1, <1>2, <1>3, <1>4, <1>5 DEF Loop

LEMMA CallbackLInv == LInv /\ Callback => LInv'
  <1> SUFFICES ASSUME LInv, Callback
               PROVE  LInv'
    OBVIOUS
  <1>1. UNCHANGED <<lit, buf, buf_idx, last_val, seen, log_buf_len, log, log_buf_ready,
                    place, offset, torn>>
    BY DEF Callback, tud_hid_report_complete_cb, tud_suspend_cb, tud_resume_cb,
           rec_vars, flag_vars, loop_vars
  <1>2. /\ PrevXferComplete' = PrevXferComplete \/ PrevXferComplete' = TRUE
        /\ suspended' \in BOOLEAN
        /\ lost' = lost \/ lost' = (lost \/ in_flight # Free)
    BY DEF Callback, tud_hid_report_complete_cb, tud_suspend_cb, tud_resume_cb,
           LInv, TypeOK
  <1>3. {PrevXferComplete', suspended', lost'} \subseteq BOOLEAN
    BY <1>2 DEF LInv, TypeOK
  <1> QED
    BY <1>1, <1>3 DEF LInv, TypeOK, OffsetInv

LEMMA StepLInv == LInv /\ [Next]_vars => LInv'
  <1> SUFFICES ASSUME LInv, [Next]_vars
               PROVE  LInv'
    OBVIOUS
  <1>1. CASE UNCHANGED vars
    BY <1>1
    DEF vars, rec_vars, flag_vars, loop_vars, usb_vars, LInv, TypeOK, OffsetInv
  <1> QED
    BY <1>1, InterruptLInv, LoopLInv, CallbackLInv DEF Next

\* The types, and with them the bounds of the buffer: three bytes are always
\* kept free for the longest entry (irmp.c:1240), for any lengths of light and
\* dark and any pace of the loop.
THEOREM TypeCorrect == Spec => []TypeOK
  <1>1. LInv => TypeOK
    BY DEF LInv
  <1> QED
    BY InitLInv, StepLInv, <1>1, PTL DEF Spec

-----------------------------------------------------------------------------
(* What is stored of a log.                                                *)

LEMMA RunsAreNumbers ==
  ASSUME NEW n \in Lights \cup Darks
  PROVE  n \in Nat \ {0} /\ (n \in Lights => n - STARTCYCLES \in Nat \ {0})
  <1>1. CASE n \in Lights
    BY <1>1, IrLogAssumption DEF STARTCYCLES
  <1>2. CASE n \in Darks
    <2>1. n \in 1 .. 300
      BY <1>2, IrLogAssumption DEF ENDBITS
    <2>2. n \in Lights => n - 2 \in Nat \ {0}
      BY IrLogAssumption DEF STARTCYCLES
    <2> QED
      BY <2>1, <2>2 DEF STARTCYCLES
  <1> QED
    BY <1>1, <1>2

\* There is an entry for each run; that of the first is what is left of it
\* without the first samples.
LEMMA EntriesShape ==
  ASSUME NEW runs \in Seq(Lights \cup Darks), runs # <<>>, runs[1] \in Lights
  PROVE  /\ Entries(runs) \in Seq(Seq(0 .. 255))
         /\ Len(Entries(runs)) = Len(runs)
         /\ Entries(runs)[1] = Bytes(runs[1] - STARTCYCLES)
         /\ \A i \in 2 .. Len(runs) : Entries(runs)[i] = Bytes(runs[i])
  <1> DEFINE B == Seq(0 .. 255)
  <1>1. PICK first : first = <<Bytes(runs[1] - STARTCYCLES)>>
    OBVIOUS
  <1>2. Len(runs) \in Nat \ {0}
    OBVIOUS
  <1>3. PICK rest : rest = [i \in 1 .. Len(runs) - 1 |-> Bytes(runs[i + 1])]
    OBVIOUS
  <1>4. Entries(runs) = first \o rest
    BY <1>3, <1>1 DEF Entries
  <1>5. first \in Seq(B) /\ Len(first) = 1
        /\ first[1] = Bytes(runs[1] - STARTCYCLES)
    <2>1. Bytes(runs[1] - STARTCYCLES) \in B
      BY RunsAreNumbers, BytesType
    <2> HIDE DEF B
    <2> QED
      BY <1>1, <2>1
  <1>6. rest \in Seq(B) /\ Len(rest) = Len(runs) - 1
    <2>1. ASSUME NEW i \in 1 .. Len(runs) - 1
         PROVE  Bytes(runs[i + 1]) \in B
      <3>1. i + 1 \in 1 .. Len(runs)
        BY <1>2
      <3>2. runs[i + 1] \in Lights \cup Darks
        BY <3>1, ElementOfSeq
      <3>3. runs[i + 1] \in Nat
        BY <3>2, RunsAreNumbers
      <3> QED
        BY <3>3, BytesType
    <2> HIDE DEF B
    <2>2. rest \in [1 .. Len(runs) - 1 -> B] /\ Len(runs) - 1 \in Nat
      BY <1>2, <1>3, <2>1
    <2> QED
      BY <2>2
  <1>7. /\ first \o rest \in Seq(B)
        /\ Len(first \o rest) = Len(runs)
        /\ \A i \in 1 .. Len(runs) :
             (first \o rest)[i] = IF i <= 1 THEN first[i] ELSE rest[i - 1]
    <2> HIDE DEF B
    <2>1. /\ first \o rest \in Seq(B)
          /\ Len(first \o rest) = Len(first) + Len(rest)
          /\ \A i \in 1 .. Len(first) + Len(rest) : (first \o rest)[i] =
               IF i <= Len(first) THEN first[i] ELSE rest[i - Len(first)]
      BY <1>5, <1>6, ConcatProperties
    <2> QED
      BY <1>2, <1>5, <1>6, <2>1
  <1>8. ASSUME NEW i \in 2 .. Len(runs)
       PROVE  rest[i - 1] = Bytes(runs[i])
    BY <1>2, <1>3
  <1>9. (first \o rest)[1] = Bytes(runs[1] - STARTCYCLES)
    <2>1. 1 \in 1 .. Len(runs)
      BY <1>2
    <2> QED
      BY <1>5, <1>7, <2>1
  <1>10. ASSUME NEW i \in 2 .. Len(runs)
       PROVE  (first \o rest)[i] = Bytes(runs[i])
    <2>1. i \in 1 .. Len(runs) /\ ~(i <= 1)
      BY <1>2
    <2> QED
      BY <1>7, <1>8, <2>1
  <1> QED
    BY <1>4, <1>7, <1>9, <1>10, Zenon

LEMMA EncodedFirst ==
  ASSUME NEW n \in Lights
  PROVE  Encoded(<<n>>) = Bytes(n - STARTCYCLES)
  <1> DEFINE b == Bytes(n - STARTCYCLES)
             Q == Entries(<<n>>)
  <1>1. b \in Seq(0 .. 255)
    BY RunsAreNumbers, BytesType
  <1>2. <<n>> \in Seq(Lights \cup Darks) /\ <<n>> # <<>>
        /\ <<n>>[1] = n /\ Len(<<n>>) = 1
    OBVIOUS
  <1>3. Q \in Seq(Seq(0 .. 255)) /\ Len(Q) = 1 /\ Q[1] = b
    BY <1>2, EntriesShape
  <1> HIDE DEF b, Q
  <1>4. Q = Append(<<>>, b)
    BY <1>1, <1>3
  <1>5. FlattenSeq(Append(<<>>, b)) = FlattenSeq(<<>>) \o b
    <2>1. <<>> \in Seq(Seq(0 .. 255))
      OBVIOUS
    <2> QED
      BY <1>1, <2>1, FlattenAppend
  <1>6. FlattenSeq(<<>>) = <<>>
    BY DEF FlattenSeq
  <1>7. <<>> \o b = b
    BY <1>1, ConcatEmptySeq
  <1> QED
    BY <1>4, <1>5, <1>6, <1>7 DEF Encoded, b, Q

LEMMA EncodedAppend ==
  ASSUME NEW runs \in Seq(Lights \cup Darks), runs # <<>>, runs[1] \in Lights,
         NEW n \in Lights \cup Darks
  PROVE  Encoded(Append(runs, n)) = Encoded(runs) \o Bytes(n)
  <1> DEFINE b == Bytes(n)
             Q == Entries(runs)
             R == Entries(Append(runs, n))
  <1>1. b \in Seq(0 .. 255)
    BY RunsAreNumbers, BytesType
  <1>2. PICK s : s = Append(runs, n)
    OBVIOUS
  <1>3. /\ s \in Seq(Lights \cup Darks)
        /\ Len(s) = Len(runs) + 1 /\ Len(runs) \in Nat \ {0}
        /\ s # <<>> /\ s[Len(runs) + 1] = n
        /\ \A i \in 1 .. Len(runs) : s[i] = runs[i]
    BY <1>2
  <1>4. /\ Q \in Seq(Seq(0 .. 255)) /\ Len(Q) = Len(runs)
        /\ Q[1] = Bytes(runs[1] - STARTCYCLES)
        /\ \A i \in 2 .. Len(runs) : Q[i] = Bytes(runs[i])
    BY EntriesShape
  <1>5. s[1] \in Lights /\ s[1] = runs[1]
    BY <1>3
  <1>6. /\ R \in Seq(Seq(0 .. 255)) /\ Len(R) = Len(runs) + 1
        /\ R[1] = Bytes(runs[1] - STARTCYCLES)
        /\ \A i \in 2 .. Len(runs) + 1 : R[i] = Bytes(s[i])
    BY <1>3, <1>5, <1>2, EntriesShape
  <1> HIDE DEF Q, R
  <1>7. ASSUME NEW i \in 1 .. Len(runs)
       PROVE  R[i] = Q[i]
    <2>1. CASE i = 1
      BY <1>4, <1>6, <2>1, Zenon
    <2>2. CASE i # 1
      <3>1. i \in 2 .. Len(runs) /\ i \in 2 .. Len(runs) + 1
        BY <1>3, <2>2
      <3>2. s[i] = runs[i]
        BY <1>3
      <3> QED
        BY <1>4, <1>6, <3>1, <3>2, Zenon
    <2> QED
      BY <2>1, <2>2
  <1>8. R[Len(runs) + 1] = b
    BY <1>3, <1>6
  <1> HIDE DEF b
  <1>9. R = Append(Q, b)
    BY <1>1, <1>3, <1>4, <1>6, <1>7, <1>8
  <1>10. FlattenSeq(Append(Q, b)) = FlattenSeq(Q) \o b
    BY <1>1, <1>4, FlattenAppend
  <1> QED
    BY <1>9, <1>10 DEF Encoded, b, Q, R

LEMMA EncodedType ==
  ASSUME NEW runs \in Seq(Lights \cup Darks), runs # <<>>, runs[1] \in Lights
  PROVE  Encoded(runs) \in Seq(0 .. 255)
  BY EntriesShape, FlattenType DEF Encoded

LEMMA LogBytesEncoded ==
  LogBytes = Encoded(log) \o << 0 >>
  BY DEF LogBytes, Encoded, Entries

-----------------------------------------------------------------------------
(* The log in the buffer, and what is sent of it.                          *)

\* An entry is written behind what the buffer holds, which stays.
LEMMA StoredBytes ==
  ASSUME TypeOK, NEW bytes \in Seq(0 .. 255), Len(bytes) \in {1, 3},
         Stored(bytes), Room
  PROVE  /\ buf_idx' = buf_idx + Len(bytes)
         /\ \A i \in 0 .. DATALEN - 1 : i < buf_idx => buf'[i] = buf[i]
         /\ \A i \in 1 .. Len(bytes) : buf'[buf_idx + i - 1] = bytes[i]
  <1>1. buf_idx \in Nat /\ buf_idx < DATALEN - 3 /\ DATALEN \in Nat
    BY IrLogAssumption DEF Room, TypeOK
  <1>2. buf' = [i \in 0 .. DATALEN - 1 |-> IF i - buf_idx \in 0 .. Len(bytes) - 1
                                           THEN bytes[i - buf_idx + 1] ELSE buf[i]]
    BY DEF Stored, TypeOK
  <1>3. buf_idx' = buf_idx + Len(bytes)
    BY DEF Stored
  <1>4. ASSUME NEW i \in 0 .. DATALEN - 1, i < buf_idx
        PROVE  buf'[i] = buf[i]
    <2>1. ~(i - buf_idx \in 0 .. Len(bytes) - 1)
      BY <1>1, <1>4
    <2> QED
      BY <1>2, <2>1
  <1>5. ASSUME NEW i \in 1 .. Len(bytes)
        PROVE  buf'[buf_idx + i - 1] = bytes[i]
    <2>1. PICK k : k = buf_idx + i - 1
      OBVIOUS
    <2>4. k \in 0 .. DATALEN - 1
      <3>1. PICK l \in 1 .. 3 : l = Len(bytes)
        OBVIOUS
      <3>3. i \in 1 .. l
        BY <3>1
      <3>2. i \in 1 .. 3
        BY <3>3
      <3> QED
        BY <1>1, <2>1, <3>2
    <2>2. k - buf_idx \in 0 .. Len(bytes) - 1 /\ k - buf_idx + 1 = i
      BY <1>1, <2>1
    <2>3. buf'[k] = bytes[k - buf_idx + 1]
      BY <1>2, <2>2, <2>4
    <2> QED
      BY <2>1, <2>2, <2>3
  <1> QED
    BY <1>3, <1>4, <1>5

\* What the buffer holds is continued by the bytes that are stored.
LEMMA StoredHolds ==
  ASSUME TypeOK, buf_idx > 0, Room,
         NEW s \in Seq(0 .. 255), Len(s) = buf_idx - 1, Holds(s),
         NEW bytes \in Seq(0 .. 255), Len(bytes) \in {1, 3}, Stored(bytes)
  PROVE  /\ Len(s \o bytes) = buf_idx' - 1
         /\ \A i \in 1 .. Len(s \o bytes) : buf'[i] = (s \o bytes)[i]
  <1>1. buf_idx \in Nat /\ buf_idx < DATALEN - 3 /\ DATALEN \in Nat
    BY IrLogAssumption DEF Room, TypeOK
  <1>2. PICK t \in Seq(0 .. 255) :
          /\ t = s \o bytes
          /\ Len(t) = Len(s) + Len(bytes)
    BY ConcatProperties
  <1>3. ASSUME NEW i \in 1 .. Len(s) + Len(bytes)
        PROVE  t[i] = IF i <= Len(s) THEN s[i] ELSE bytes[i - Len(s)]
    BY <1>2, ConcatProperties
  <1>4. ASSUME NEW i \in 1 .. Len(t)
        PROVE  buf'[i] = t[i]
    <2>1. CASE i <= Len(s)
      <3>1. i \in 0 .. DATALEN - 1 /\ i < buf_idx /\ i \in 1 .. Len(s)
        BY <1>1, <2>1
      <3>2. buf'[i] = buf[i]
        BY <3>1, StoredBytes
      <3>3. buf[i] = s[i]
        BY <3>1 DEF Holds
      <3>4. t[i] = s[i]
        BY <1>2, <1>3, <2>1
      <3> QED
        BY <3>2, <3>3, <3>4
    <2>2. CASE ~(i <= Len(s))
      <3>1. PICK k \in 1 .. Len(bytes) : k = i - Len(s)
        BY <1>1, <1>2, <2>2
      <3>2. buf_idx + k - 1 = i
        BY <1>1, <3>1
      <3>3. buf'[buf_idx + k - 1] = bytes[k]
        BY StoredBytes
      <3>4. t[i] = bytes[k]
        BY <1>2, <1>3, <2>2, <3>1
      <3> QED
        BY <3>2, <3>3, <3>4
    <2> QED
      BY <2>1, <2>2
  <1>5. Len(t) = buf_idx' - 1
    BY <1>1, <1>2, StoredBytes
  <1> QED
    BY <1>2, <1>4, <1>5

\* A run that ends is added to the log and to the buffer, or to neither.
LEMMA RunEndsRecord ==
  ASSUME TypeOK, RecordInv, buf_idx > 0,
         NEW val \in {0, 1}, NEW n \in Lights \cup Darks, NEW m \in Nat,
         seen = <<>> /\ last_val = val => n \in Lights /\ m = n - STARTCYCLES,
         seen # <<>> => m = n,
         RunEnds(val, n, Bytes(m))
  PROVE  RecordInv'
  <1>1. CASE Room /\ last_val = val
    <2>1. /\ Stored(Bytes(m))
          /\ seen' = Append(seen, n)
      BY <1>1 DEF RunEnds
    <2>2. Bytes(m) \in Seq(0 .. 255) /\ Len(Bytes(m)) \in {1, 3}
      BY BytesType
    <2>3. buf_idx \in Nat
      BY DEF TypeOK
    <2>4. seen \in Seq(Lights \cup Darks)
      BY DEF TypeOK
    <2>5. PICK e \in Seq(0 .. 255) :
            /\ e = Encoded(Append(seen, n))
            /\ Len(e) = buf_idx' - 1
            /\ \A i \in 1 .. Len(e) : buf'[i] = e[i]
      <3>1. CASE seen = <<>>
        <4>1. buf_idx = 1 /\ m = n - STARTCYCLES /\ n \in Lights
          BY <1>1, <3>1 DEF RecordInv
        <4>2. Append(seen, n) = <<n>>
          BY <3>1
        <4>3. Encoded(<<n>>) = Bytes(m)
          BY <4>1, EncodedFirst
        <4>4. /\ buf_idx' = 1 + Len(Bytes(m))
              /\ \A i \in 1 .. Len(Bytes(m)) : buf'[1 + i - 1] = Bytes(m)[i]
          BY <1>1, <2>1, <2>2, <4>1, StoredBytes
        <4>5. ASSUME NEW i \in 1 .. Len(Bytes(m))
              PROVE  buf'[i] = Bytes(m)[i]
          <5>1. 1 + i - 1 = i
            BY <2>2
          <5> QED
            BY <4>4, <5>1
        <4>6. Len(Bytes(m)) = buf_idx' - 1
          BY <2>2, <4>4
        <4> QED
          BY <2>2, <4>2, <4>3, <4>5, <4>6
      <3>2. CASE seen # <<>>
        <4>1. m = n /\ seen[1] \in Lights
              /\ Len(Encoded(seen)) = buf_idx - 1 /\ Holds(Encoded(seen))
          BY <3>2 DEF RecordInv
        <4>2. Encoded(Append(seen, n)) = Encoded(seen) \o Bytes(m)
          BY <2>4, <3>2, <4>1, EncodedAppend
        <4>3. Encoded(seen) \in Seq(0 .. 255)
          BY <2>4, <3>2, <4>1, EncodedType
        <4>4. /\ Len(Encoded(seen) \o Bytes(m)) = buf_idx' - 1
              /\ \A i \in 1 .. Len(Encoded(seen) \o Bytes(m)) :
                   buf'[i] = (Encoded(seen) \o Bytes(m))[i]
          BY <1>1, <2>1, <2>2, <4>1, <4>3, StoredHolds
        <4>5. Encoded(seen) \o Bytes(m) \in Seq(0 .. 255)
          BY <2>2, <4>3, ConcatProperties
        <4> QED
          BY <4>2, <4>4, <4>5
      <3> QED
        BY <3>1, <3>2
    <2>6. Encoded(seen)' = e
      BY <2>1, <2>5 DEF Encoded, Entries, Bytes, STARTCYCLES
    <2>7. buf_idx' \in Nat /\ buf_idx' > 1
      <3>1. buf_idx' = buf_idx + Len(Bytes(m))
        BY <1>1, <2>1, <2>2, StoredBytes
      <3>2. buf_idx' = buf_idx + 1 \/ buf_idx' = buf_idx + 3
        BY <2>2, <3>1
      <3> QED
        BY <2>3, <3>2
    <2>8. seen' # <<>> /\ seen'[1] \in Lights
      <3>1. CASE seen = <<>>
        BY <1>1, <2>1, <3>1
      <3>2. CASE seen # <<>>
        BY <2>1, <2>4, <3>2 DEF RecordInv
      <3> QED
        BY <3>1, <3>2
    <2>9. Len(Encoded(seen))' = buf_idx' - 1 /\ Holds(Encoded(seen))'
      BY <2>5, <2>6 DEF Holds
    <2> QED
      BY <2>7, <2>8, <2>9 DEF RecordInv
  <1>2. CASE ~(Room /\ last_val = val)
    <2>1. UNCHANGED <<buf, buf_idx, last_val, seen>>
      BY <1>2 DEF RunEnds
    <2>2. Encoded(seen)' = Encoded(seen)
      BY <2>1 DEF Encoded, Entries, Bytes, STARTCYCLES
    <2>3. Holds(Encoded(seen)) => Holds(Encoded(seen))'
      BY <2>1, <2>2 DEF Holds
    <2>4. buf_idx > 0
      OBVIOUS
    <2> QED
      BY <2>1, <2>2, <2>3, <2>4 DEF RecordInv
  <1> QED
    BY <1>1, <1>2

LEMMA StepRecord == LInv /\ RecordInv /\ [Next]_vars => RecordInv'
  <1> SUFFICES ASSUME LInv, RecordInv, [Next]_vars
               PROVE  RecordInv'
    OBVIOUS
  <1>1. ASSUME NEW n \in Lights, LightEnds(n)
        PROVE  RecordInv'
    <2>1. n \in Nat /\ n - STARTCYCLES \in Nat
      BY RunsAreNumbers
    <2>2. PICK m \in Nat : m = IF buf_idx = 1 THEN n - STARTCYCLES ELSE n
      BY <2>1
    <2>3. RunEnds(0, n, Bytes(m))
      BY <1>1, <2>2 DEF LightEnds
    <2>4. /\ buf_idx > 0
          /\ seen = <<>> => m = n - STARTCYCLES
          /\ seen # <<>> => m = n
      BY <1>1, <2>2 DEF LightEnds, RecordInv
    <2> QED
      BY <2>3, <2>4, RunEndsRecord DEF LInv
  <1>2. ASSUME NEW n \in Darks, DarkEnds(n)
        PROVE  RecordInv'
    <2>1. n \in Nat
      BY RunsAreNumbers
    <2>2. RunEnds(1, n, Bytes(n)) /\ buf_idx # 0
      BY <1>2 DEF DarkEnds
    <2>3. buf_idx > 0
      BY <2>2 DEF LInv, TypeOK
    <2>4. seen = <<>> => last_val # 1
      BY <2>3 DEF RecordInv
    <2> QED
      BY <2>1, <2>2, <2>3, <2>4, RunEndsRecord DEF LInv
  <1>3. CASE LogBegins
    <2>1. seen' = <<>> /\ last_val' = 0 /\ Stored(<< 0 >>) /\ buf_idx = 0
      BY <1>3 DEF LogBegins
    <2>2. buf_idx' = 1
      BY <2>1 DEF Stored
    <2> QED
      BY <2>1, <2>2 DEF RecordInv
  <1>4. CASE LogEnds
    BY <1>4 DEF LogEnds, RecordInv
  <1>5. CASE Loop \/ Callback \/ UNCHANGED vars
    <2>1. UNCHANGED <<lit, buf, buf_idx, last_val, seen>>
      BY <1>5 DEF Loop, SendStart, SendReport, SendNothing, WaitEnds, SendEnd,
                  Callback, tud_hid_report_complete_cb, tud_suspend_cb, tud_resume_cb,
                  vars, rec_vars
    <2>2. Encoded(seen)' = Encoded(seen)
      BY <2>1 DEF Encoded, Entries, Bytes, STARTCYCLES
    <2>3. Holds(Encoded(seen)) => Holds(Encoded(seen))'
      BY <2>1, <2>2 DEF Holds
    <2> QED
      BY <2>1, <2>2, <2>3 DEF RecordInv
  <1> QED
    BY <1>1, <1>2, <1>3, <1>4, <1>5 DEF Next, irmp_log

\* Whatever the interrupt writes to a finished log marks it as torn.
LEMMA UntornUnchanged ==
  ASSUME irmp_log, log_buf_ready, ~torn'
  PROVE  UNCHANGED <<buf, flag_vars, log_buf_ready, torn>>
  <1>1. ASSUME NEW bytes
        PROVE  ~Stored(bytes)
    BY DEF Stored
  <1>2. ASSUME NEW val, NEW n, NEW bytes, RunEnds(val, n, bytes)
        PROVE  UNCHANGED <<buf, flag_vars, log_buf_ready, torn>>
    BY <1>1, <1>2 DEF RunEnds
  <1>3. ~LogEnds /\ ~LogBegins
    BY <1>1 DEF LogEnds, LogBegins
  <1> QED
    BY <1>2, <1>3 DEF irmp_log, LightEnds, DarkEnds

\* The bytes of a log that ends are those of the runs that are recorded, and
\* the byte behind them.
LEMMA LogEndsHolds ==
  ASSUME TypeOK, RecordInv, LogEnds
  PROVE  /\ seen # <<>> /\ seen[1] \in Lights
         /\ Len(LogBytes)' = buf_idx
         /\ Holds(LogBytes)'
  <1>1. /\ buf_idx # 0 /\ last_val = 1
        /\ buf' = [buf EXCEPT ![buf_idx] = 0]
        /\ log' = seen
    BY DEF LogEnds
  <1>2. buf_idx \in 1 .. DATALEN - 1 /\ DATALEN \in Nat
        /\ buf \in [0 .. DATALEN - 1 -> 0 .. 255]
        /\ seen \in Seq(Lights \cup Darks)
    BY <1>1, IrLogAssumption DEF TypeOK
  <1>3. /\ seen # <<>> /\ seen[1] \in Lights
        /\ Len(Encoded(seen)) = buf_idx - 1 /\ Holds(Encoded(seen))
    BY <1>1, <1>2 DEF RecordInv
  <1>4. PICK e \in Seq(0 .. 255) : e = Encoded(seen)
    BY <1>2, <1>3, EncodedType
  <1>5. PICK k : k = buf_idx
    OBVIOUS
  <1>6. PICK t \in Seq(0 .. 255) :
          /\ t = e \o << 0 >>
          /\ Len(t) = k
          /\ \A i \in 1 .. k : t[i] = IF i <= k - 1 THEN e[i] ELSE 0
    <2>1. << 0 >> \in Seq(0 .. 255) /\ Len(<< 0 >>) = 1
      OBVIOUS
    <2>2. PICK t \in Seq(0 .. 255) :
            /\ t = e \o << 0 >>
            /\ Len(t) = Len(e) + Len(<< 0 >>)
      BY <2>1, ConcatProperties
    <2>3. ASSUME NEW i \in 1 .. Len(e) + Len(<< 0 >>)
          PROVE  t[i] = IF i <= Len(e) THEN e[i] ELSE << 0 >>[i - Len(e)]
      BY <2>1, <2>2, ConcatProperties
    <2>4. Len(e) = k - 1 /\ k \in Nat
      BY <1>2, <1>3, <1>4, <1>5
    <2>5. ASSUME NEW i \in 1 .. k
          PROVE  t[i] = IF i <= k - 1 THEN e[i] ELSE 0
      <3>1. CASE i <= k - 1
        BY <2>1, <2>3, <2>4, <3>1
      <3>2. CASE ~(i <= k - 1)
        <4>1. i = k /\ i - Len(e) = 1 /\ i \in 1 .. Len(e) + Len(<< 0 >>)
          BY <2>1, <2>4, <3>2
        <4> QED
          BY <2>3, <2>4, <3>2, <4>1
      <3> QED
        BY <3>1, <3>2
    <2>6. Len(t) = k
      BY <2>1, <2>2, <2>4
    <2> QED
      BY <2>2, <2>5, <2>6, Zenon
  <1>7. LogBytes' = t
    <2>1. LogBytes' = Encoded(log)' \o << 0 >>
      BY LogBytesEncoded DEF LogBytes, Encoded, Entries, Bytes, STARTCYCLES
    <2>2. Encoded(log)' = e
      BY <1>1, <1>4 DEF Encoded, Entries, Bytes, STARTCYCLES
    <2> QED
      BY <1>6, <2>1, <2>2
  <1>8. ASSUME NEW i \in 1 .. k
        PROVE  buf'[i] = t[i]
    <2>1. CASE i = k
      BY <1>1, <1>2, <1>5, <1>6, <2>1
    <2>2. CASE i # k
      <3>1. i \in 1 .. k - 1 /\ i \in 0 .. DATALEN - 1 /\ k - 1 = Len(e)
        BY <1>2, <1>3, <1>4, <1>5, <2>2
      <3>2. buf'[i] = buf[i]
        BY <1>1, <1>2, <1>5, <2>2, <3>1
      <3>3. buf[i] = e[i]
        BY <1>3, <1>4, <3>1 DEF Holds
      <3>4. t[i] = e[i]
        BY <1>2, <1>5, <1>6, <3>1
      <3> QED
        BY <3>2, <3>3, <3>4
    <2> QED
      BY <2>1, <2>2
  <1>9. Holds(LogBytes)'
    BY <1>6, <1>7, <1>8 DEF Holds
  <1> QED
    BY <1>3, <1>5, <1>6, <1>7, <1>9

LEMMA StepFinished ==
  LInv /\ RecordInv /\ FinishedInv /\ [Next]_vars => FinishedInv'
  <1> SUFFICES ASSUME LInv, RecordInv, FinishedInv, [Next]_vars,
                      log_buf_ready', ~torn'
               PROVE  /\ log' # <<>> /\ log'[1] \in Lights
                      /\ Len(LogBytes)' = log_buf_len'
                      /\ Holds(LogBytes)'
    BY DEF FinishedInv
  <1>1. CASE LogEnds
    <2>1. log' = seen /\ log_buf_len' = buf_idx
      BY <1>1 DEF LogEnds
    <2> QED
      BY <1>1, <2>1, LogEndsHolds DEF LInv
  <1>2. CASE ~LogEnds
    <2>1. UNCHANGED <<buf, log, log_buf_len>> /\ log_buf_ready /\ ~torn
      <3>1. CASE irmp_log
        <4>1. log_buf_ready' = log_buf_ready
          BY <1>2, <3>1 DEF irmp_log, LightEnds, DarkEnds, LogBegins, RunEnds
        <4>2. log_buf_ready
          BY <4>1, Zenon
        <4>3. UNCHANGED <<buf, log, log_buf_len>> /\ torn' = torn
          BY <3>1, <4>2, UntornUnchanged DEF flag_vars
        <4> QED
          BY <4>2, <4>3, Zenon
      <3>2. CASE Loop \/ Callback \/ UNCHANGED vars
        <4>1. ~SendEnd
          BY DEF SendEnd
        <4>2. /\ UNCHANGED <<buf, log, log_buf_len>>
              /\ log_buf_ready' = log_buf_ready /\ torn' = torn
          BY <3>2, <4>1 DEF Loop, SendStart, SendReport, SendNothing, WaitEnds,
                            Callback, tud_hid_report_complete_cb, tud_suspend_cb,
                            tud_resume_cb, vars, rec_vars, flag_vars
        <4> QED
          BY <4>2, Zenon
      <3> QED
        BY <3>1, <3>2 DEF Next
    <2>2. LogBytes' = LogBytes
      BY <2>1 DEF LogBytes, Bytes, STARTCYCLES
    <2>3. Holds(LogBytes) => Holds(LogBytes)'
      BY <2>1, <2>2 DEF Holds
    <2> QED
      BY <2>1, <2>2, <2>3 DEF FinishedInv
  <1> QED
    BY <1>1, <1>2

-----------------------------------------------------------------------------
\* A report has its full length.
LEMMA ReportType ==
  ASSUME TypeOK, NEW at \in Nat
  PROVE  /\ ReportAt(at) \in Seq(0 .. 255)
         /\ Len(ReportAt(at)) = Report
         /\ \A i \in 1 .. Report : ReportAt(at)[i] = Read(at + i)
  <1>1. ASSUME NEW i \in 1 .. Report
        PROVE  Read(at + i) \in 0 .. 255
    <2>1. at + i \in Nat /\ DATALEN \in Nat /\ Beyond \in 0 .. 255
      BY IrLogAssumption
    <2>2. CASE at + i < DATALEN
      <3>1. at + i \in 0 .. DATALEN - 1
        BY <2>1, <2>2
      <3> QED
        BY <2>2, <3>1 DEF TypeOK, Read
    <2> QED
      BY <2>1, <2>2 DEF Read
  <1>2. PICK r : r = [i \in 1 .. Report |-> Read(at + i)]
    OBVIOUS
  <1>3. ReportAt(at) = r
    BY <1>2 DEF ReportAt, Read
  <1>4. r \in [1 .. Report -> 0 .. 255] /\ Report \in Nat
    BY <1>1, <1>2, IrLogAssumption
  <1>5. r \in Seq(0 .. 255) /\ Len(r) = Report
    BY <1>4
  <1> QED
    BY <1>2, <1>3, <1>5

LEMMA StepReports == LInv /\ ReportsInv /\ [Next]_vars => ReportsInv'
  <1> SUFFICES ASSUME LInv, ReportsInv, [Next]_vars
               PROVE  ReportsInv'
    OBVIOUS
  <1>1. CASE SendReport
    <2>1. offset \in Nat
      BY IrLogAssumption DEF LInv, TypeOK
    <2>2. PICK r \in Seq(0 .. 255) : r = ReportAt(offset)
      BY <2>1, ReportType DEF LInv
    <2>3. in_flight' \in {r, in_flight} /\ reports' = reports
      BY <1>1, <2>2 DEF SendReport
    <2> QED
      BY <2>2, <2>3 DEF ReportsInv
  <1>2. CASE SendStart \/ SendEnd
    <2>1. reports' = <<>> /\ in_flight' = in_flight
      BY <1>2 DEF SendStart, SendEnd
    <2> QED
      BY <2>1 DEF ReportsInv
  <1>3. CASE tud_hid_report_complete_cb
    <2>1. in_flight' = <<>> /\ reports' = Append(reports, in_flight)
      BY <1>3 DEF tud_hid_report_complete_cb, Free
    <2> QED
      BY <2>1 DEF ReportsInv
  <1>4. CASE ~SendReport /\ ~SendStart /\ ~SendEnd /\ ~tud_hid_report_complete_cb
    <2>1. reports' = reports /\ in_flight' = in_flight
      BY <1>4 DEF Next, irmp_log, LightEnds, DarkEnds, RunEnds, LogBegins,
                  LogEnds, Loop, SendNothing, WaitEnds, Callback, tud_suspend_cb,
                  tud_resume_cb, vars, usb_vars
    <2> QED
      BY <2>1 DEF ReportsInv
  <1> QED
    BY <1>1, <1>2, <1>3, <1>4

\* What was got is continued by a report.
LEMMA SentMore ==
  ASSUME TypeOK, ReportsInv, reports' = Append(reports, in_flight), buf' = buf,
         Len(Sent) = offset, in_flight = ReportAt(offset)
  PROVE  /\ Len(Sent)' = offset + Report
         /\ (\A i \in 1 .. Len(Sent) : Sent[i] = Read(i)) =>
              \A i \in 1 .. Len(Sent)' : Sent'[i] = Read(i)'
  <1>1. offset \in Nat /\ Report \in Nat
    BY IrLogAssumption DEF TypeOK
  <1>2. PICK r : r = ReportAt(offset)
    OBVIOUS
  <1>3. /\ r \in Seq(0 .. 255) /\ Len(r) = Report
        /\ \A i \in 1 .. Report : r[i] = Read(offset + i)
    BY <1>1, <1>2, ReportType
  <1>4. PICK s \in Seq(0 .. 255) : s = Sent
    BY FlattenType DEF ReportsInv, Sent
  <1>5. Sent' = s \o r
    <2>1. reports' = Append(reports, r)
      BY <1>2
    <2>2. FlattenSeq(Append(reports, r)) = FlattenSeq(reports) \o r
      BY <1>3, FlattenAppend DEF ReportsInv
    <2> QED
      BY <1>4, <2>1, <2>2 DEF Sent
  <1>6. PICK t \in Seq(0 .. 255) : t = s \o r /\ Len(t) = Len(s) + Len(r)
    BY <1>3, ConcatProperties
  <1>7. ASSUME NEW i \in 1 .. Len(s) + Len(r)
        PROVE  t[i] = IF i <= Len(s) THEN s[i] ELSE r[i - Len(s)]
    BY <1>3, <1>6, ConcatProperties
  <1>8. Len(s) = offset /\ Len(t) = offset + Report
    BY <1>3, <1>4, <1>6
  <1>9. buf' = buf
    OBVIOUS
  <1>10. ASSUME \A i \in 1 .. Len(s) : s[i] = Read(i),
                NEW i \in 1 .. Len(t)
         PROVE  t[i] = Read(i)'
    <2>1. Read(i)' = Read(i)
      BY <1>9 DEF Read
    <2>2. CASE i <= Len(s)
      <3>1. i \in 1 .. Len(s) /\ i \in 1 .. Len(s) + Len(r)
        BY <1>1, <1>3, <1>8, <2>2
      <3> QED
        BY <1>7, <1>10, <2>1, <2>2, <3>1
    <2>3. CASE ~(i <= Len(s))
      <3>1. PICK k \in 1 .. Report : k = i - Len(s)
        BY <1>1, <1>8, <2>3
      <3>2. offset + k = i /\ i \in 1 .. Len(s) + Len(r)
        BY <1>1, <1>3, <1>8, <3>1
      <3>3. t[i] = r[k]
        BY <1>7, <2>3, <3>1, <3>2
      <3>4. r[k] = Read(offset + k)
        BY <1>3
      <3> QED
        BY <2>1, <3>2, <3>3, <3>4
    <2> QED
      BY <2>2, <2>3
  <1>11. Sent' = t
    BY <1>5, <1>6
  <1> QED
    BY <1>4, <1>8, <1>10, <1>11

\* Its length does not depend on what it holds.
LEMMA SentLonger ==
  ASSUME TypeOK, ReportsInv, reports' = Append(reports, in_flight)
  PROVE  Len(Sent)' = Len(Sent) + Len(in_flight)
  <1>1. FlattenSeq(Append(reports, in_flight)) = FlattenSeq(reports) \o in_flight
    BY FlattenAppend DEF ReportsInv
  <1>2. PICK s \in Seq(0 .. 255) : s = FlattenSeq(reports)
    BY FlattenType DEF ReportsInv
  <1>3. Len(s \o in_flight) = Len(s) + Len(in_flight)
    BY ConcatProperties DEF ReportsInv
  <1> QED
    BY <1>1, <1>2, <1>3 DEF Sent

\* A step that sends and gets nothing, and tears nothing that is not lost.
LEMMA SendKept ==
  ASSUME SendInv, UNCHANGED <<place, offset, in_flight, reports>>,
         log_buf_ready => log_buf_ready',
         ASSUME place # "task", ~lost' PROVE ~lost /\ PrevXferComplete' = PrevXferComplete,
         ASSUME place # "task", ~lost', ~torn' PROVE ~torn /\ buf' = buf
  PROVE  SendInv'
  <1>1. Sent' = Sent
    BY DEF Sent
  <1>2. place' # "task" => log_buf_ready'
    BY DEF SendInv
  <1>3. ASSUME place' # "task", ~lost'
        PROVE  /\ place # "task" /\ ~lost
               /\ PrevXferComplete' = PrevXferComplete
    BY <1>3
  <1>4. ASSUME place' # "task", ~lost', ~torn'
        PROVE  ~torn /\ \A i : Read(i)' = Read(i) /\ ReportAt(i)' = ReportAt(i)
    <2>1. ~torn /\ buf' = buf
      BY <1>4
    <2> QED
      BY <2>1 DEF Read, ReportAt
  <1>5. place' = "send" /\ ~lost' => in_flight' = Free' /\ Len(Sent)' = offset'
    BY <1>1, <1>3 DEF SendInv, Free
  <1>6. ASSUME place' = "wait", ~lost'
        PROVE  WaitInv'
    <2>1. WaitInv /\ PrevXferComplete' = PrevXferComplete
      BY <1>3, <1>6 DEF SendInv
    <2>2. ~torn' => ~torn /\ ReportAt(offset)' = ReportAt(offset)
      <3>1. ~torn' => ReportAt(offset)' = ReportAt(offset)
        <4> SUFFICES ASSUME ~torn' PROVE ReportAt(offset)' = ReportAt(offset)
          OBVIOUS
        <4>1. buf' = buf /\ offset' = offset
          BY <1>6
        <4> QED
          BY <4>1 DEF ReportAt
      <3> QED
        BY <1>4, <1>6, <3>1
    <2>3. CASE PrevXferComplete
      <3>1. PrevXferComplete'
        BY <2>1, <2>3, Zenon
      <3> QED
        BY <1>1, <2>1, <2>3, <3>1 DEF WaitInv, Free
    <2>4. CASE ~PrevXferComplete
      <3>1. ~PrevXferComplete'
        BY <2>1, <2>4, Zenon
      <3> QED
        BY <1>1, <2>1, <2>2, <2>4, <3>1 DEF WaitInv, Free
    <2> QED
      BY <2>3, <2>4
  <1>7. ASSUME place' # "task", ~lost', ~torn'
        PROVE  /\ \A i \in 1 .. Len(Sent)' : Sent'[i] = Read(i)'
               /\ reports' # <<>> => reports'[1] = ReportAt(0)'
    <2>1. /\ \A i \in 1 .. Len(Sent) : Sent[i] = Read(i)
          /\ reports # <<>> => reports[1] = ReportAt(0)
      BY <1>3, <1>4, <1>7 DEF SendInv
    <2>2. \A i : Read(i)' = Read(i) /\ ReportAt(i)' = ReportAt(i)
      BY <1>4, <1>7
    <2> QED
      BY <1>1, <2>1, <2>2
  <1> QED
    BY <1>2, <1>5, <1>6, <1>7 DEF SendInv

LEMMA InterruptSend == LInv /\ SendInv /\ irmp_log => SendInv'
  <1> SUFFICES ASSUME LInv, SendInv, irmp_log
               PROVE  SendInv'
    OBVIOUS
  <1>1. UNCHANGED <<place, offset, PrevXferComplete, in_flight, reports, lost>>
    BY DEF irmp_log, LightEnds, DarkEnds, LogBegins, LogEnds, RunEnds, loop_vars,
           usb_vars
  <1>2. log_buf_ready => log_buf_ready'
    BY DEF irmp_log, LightEnds, DarkEnds, LogBegins, LogEnds, RunEnds
  <1>3. ASSUME place # "task", ~lost'
        PROVE  ~lost /\ PrevXferComplete' = PrevXferComplete
    BY <1>1, <1>3, Zenon
  <1>4. ASSUME place # "task", ~lost', ~torn'
        PROVE  ~torn /\ buf' = buf
    <2>1. log_buf_ready
      BY <1>4 DEF SendInv
    <2>2. buf' = buf /\ torn' = torn
      BY <1>4, <2>1, UntornUnchanged
    <2> QED
      BY <1>4, <2>2, Zenon
  <1> QED
    BY <1>1, <1>2, <1>3, <1>4, SendKept

LEMMA LoopSend == LInv /\ ReportsInv /\ SendInv /\ Loop => SendInv'
  <1> SUFFICES ASSUME LInv, ReportsInv, SendInv, Loop
               PROVE  SendInv'
    OBVIOUS
  <1>1. offset \in Nat /\ Report \in Nat \ {0}
    BY IrLogAssumption DEF LInv, TypeOK
  <1>2. CASE SendStart
    <2>1. /\ place' = "send" /\ offset' = 0 /\ reports' = <<>>
          /\ ~lost' => in_flight' = Free
      BY <1>2 DEF SendStart
    <2>2. log_buf_ready'
      <3>1. log_buf_ready' = log_buf_ready /\ log_buf_ready
        BY <1>2 DEF SendStart
      <3> QED
        BY <3>1, Zenon
    <2>3. Sent' = <<>>
      BY <2>1 DEF Sent, FlattenSeq
    <2>4. Len(Sent)' = 0
      BY <2>3
    <2> QED
      BY <2>1, <2>2, <2>4 DEF SendInv, Free
  <1>3. CASE SendReport
    <2>1. /\ place = "send" /\ place' = "wait" /\ PrevXferComplete' = FALSE
          /\ in_flight' = IF in_flight = Free THEN ReportAt(offset) ELSE in_flight
      BY <1>3 DEF SendReport
    <2>2. /\ buf' = buf /\ offset' = offset /\ reports' = reports
          /\ lost' = lost /\ torn' = torn /\ log_buf_ready' = log_buf_ready
      BY <1>3 DEF SendReport, rec_vars
    <2>3. log_buf_ready'
      <3>1. log_buf_ready
        BY <2>1 DEF SendInv
      <3> QED
        BY <2>2, <3>1, Zenon
    <2>4. /\ Sent' = Sent
          /\ \A i : Read(i)' = Read(i) /\ ReportAt(i)' = ReportAt(i)
      BY <2>2 DEF Sent, Read, ReportAt
    <2>5. ASSUME ~lost'
          PROVE  WaitInv'
      <3>1. ~lost
        BY <2>2, <2>5, Zenon
      <3>2. in_flight = Free /\ Len(Sent) = offset
        BY <2>1, <3>1 DEF SendInv
      <3>3. PICK r \in Seq(0 .. 255) : r = ReportAt(offset) /\ Len(r) = Report
        BY <1>1, ReportType DEF LInv
      <3>4. in_flight' = r
        BY <2>1, <3>2, <3>3
      <3>5. ReportAt(offset)' = r
        BY <2>2, <3>3 DEF ReportAt
      <3> QED
        BY <2>1, <2>2, <2>4, <3>2, <3>3, <3>4, <3>5 DEF WaitInv
    <2>6. ASSUME ~lost', ~torn'
          PROVE  /\ \A i \in 1 .. Len(Sent)' : Sent'[i] = Read(i)'
                 /\ reports' # <<>> => reports'[1] = ReportAt(0)'
      <3>1. ~lost /\ ~torn
        BY <2>2, <2>6, Zenon
      <3> QED
        BY <2>1, <2>2, <2>4, <3>1 DEF SendInv
    <2> QED
      BY <2>1, <2>3, <2>5, <2>6 DEF SendInv
  <1>4. CASE SendNothing
    <2>1. place = "send" /\ place' = place /\ lost' = TRUE
          /\ log_buf_ready' = log_buf_ready
      BY <1>4 DEF SendNothing
    <2>2. log_buf_ready'
      <3>1. log_buf_ready
        BY <2>1 DEF SendInv
      <3> QED
        BY <2>1, <3>1, Zenon
    <2> QED
      BY <2>1, <2>2 DEF SendInv
  <1>5. CASE WaitEnds
    <2>1. /\ place = "wait" /\ PrevXferComplete
          /\ place' = "send" /\ offset' = offset + Report
      BY <1>5 DEF WaitEnds
    <2>2. /\ buf' = buf /\ reports' = reports /\ in_flight' = in_flight
          /\ lost' = lost /\ torn' = torn /\ log_buf_ready' = log_buf_ready
      BY <1>5 DEF WaitEnds, rec_vars, usb_vars
    <2>3. log_buf_ready'
      <3>1. log_buf_ready
        BY <2>1 DEF SendInv
      <3> QED
        BY <2>2, <3>1, Zenon
    <2>4. /\ Sent' = Sent
          /\ \A i : Read(i)' = Read(i) /\ ReportAt(i)' = ReportAt(i)
      BY <2>2 DEF Sent, Read, ReportAt
    <2>5. ASSUME ~lost'
          PROVE  in_flight' = Free /\ Len(Sent)' = offset'
      <3>1. ~lost
        BY <2>2, <2>5, Zenon
      <3> QED
        BY <2>1, <2>2, <2>4, <3>1 DEF SendInv, WaitInv
    <2>6. ASSUME ~lost', ~torn'
          PROVE  /\ \A i \in 1 .. Len(Sent)' : Sent'[i] = Read(i)'
                 /\ reports' # <<>> => reports'[1] = ReportAt(0)'
      <3>1. ~lost /\ ~torn
        BY <2>2, <2>6, Zenon
      <3> QED
        BY <2>1, <2>2, <2>4, <3>1 DEF SendInv
    <2> QED
      BY <2>1, <2>3, <2>5, <2>6 DEF SendInv, Free
  <1>6. CASE SendEnd
    BY <1>6 DEF SendEnd, SendInv
  <1> QED
    BY <1>2, <1>3, <1>4, <1>5, <1>6 DEF Loop

\* A report that is got is the one that was on its way.
LEMMA CompleteSend ==
  LInv /\ ReportsInv /\ SendInv /\ tud_hid_report_complete_cb => SendInv'
  <1> SUFFICES ASSUME LInv, ReportsInv, SendInv, tud_hid_report_complete_cb
               PROVE  SendInv'
    OBVIOUS
  <1>1. /\ place \in {"task", "wait"} /\ in_flight # Free
        /\ reports' = Append(reports, in_flight)
        /\ in_flight' = Free /\ PrevXferComplete' = TRUE
        /\ buf' = buf /\ place' = place /\ offset' = offset
    BY DEF tud_hid_report_complete_cb, InTask, rec_vars, loop_vars
  <1>2. lost' = lost /\ torn' = torn /\ log_buf_ready' = log_buf_ready
    BY DEF tud_hid_report_complete_cb
  <1>3. CASE place = "task"
    BY <1>1, <1>3 DEF SendInv
  <1>4. CASE place = "wait"
    <2>1. log_buf_ready'
      <3>1. log_buf_ready
        BY <1>4 DEF SendInv
      <3> QED
        BY <1>2, <3>1, Zenon
    <2>2. ASSUME ~lost'
          PROVE  /\ Len(Sent) = offset /\ Len(Sent)' = offset + Report
                 /\ ~torn => in_flight = ReportAt(offset)
      <3>1. ~lost
        BY <1>2, <2>2, Zenon
      <3>2. WaitInv
        BY <1>4, <3>1 DEF SendInv
      <3>3. /\ Len(Sent) = offset /\ Len(in_flight) = Report
            /\ ~torn => in_flight = ReportAt(offset)
        BY <1>1, <3>2 DEF WaitInv
      <3> QED
        BY <1>1, <3>3, SentLonger DEF LInv
    <2>3. ASSUME ~lost'
          PROVE  WaitInv'
      BY <1>1, <2>2, <2>3 DEF WaitInv, Free
    <2>4. ASSUME ~lost', ~torn'
          PROVE  /\ \A i \in 1 .. Len(Sent)' : Sent'[i] = Read(i)'
                 /\ reports' # <<>> => reports'[1] = ReportAt(0)'
      <3>1. ~lost /\ ~torn
        BY <1>2, <2>4, Zenon
      <3>2. /\ \A i \in 1 .. Len(Sent) : Sent[i] = Read(i)
            /\ reports # <<>> => reports[1] = ReportAt(0)
        BY <1>4, <3>1 DEF SendInv
      <3>3. \A i \in 1 .. Len(Sent)' : Sent'[i] = Read(i)'
        BY <1>1, <2>2, <2>4, <3>1, <3>2, SentMore DEF LInv
      <3>4. reports'[1] = ReportAt(0)'
        <4>1. ReportAt(0)' = ReportAt(0)
          BY <1>1 DEF ReportAt
        <4>2. CASE reports = <<>>
          <5>1. Sent = <<>>
            BY <4>2 DEF Sent, FlattenSeq
          <5>2. offset = 0
            BY <2>2, <2>4, <5>1
          <5>3. PICK r : r = in_flight
            OBVIOUS
          <5>4. reports' = Append(<<>>, r)
            BY <1>1, <4>2, <5>3
          <5>5. reports'[1] = r
            BY <5>4
          <5> QED
            BY <2>2, <2>4, <3>1, <4>1, <5>2, <5>3, <5>5
        <4>3. CASE reports # <<>>
          <5>1. PICK r : r = in_flight
            OBVIOUS
          <5>2. reports'[1] = reports[1]
            BY <1>1, <4>3, <5>1 DEF ReportsInv
          <5> QED
            BY <3>2, <4>1, <4>3, <5>2
        <4> QED
          BY <4>2, <4>3
      <3> QED
        BY <3>3, <3>4
    <2> QED
      BY <1>1, <1>4, <2>1, <2>3, <2>4 DEF SendInv
  <1> QED
    BY <1>1, <1>3, <1>4

\* Nothing is waited for when the bus is suspended, or it is lost.
LEMMA SuspendSend == LInv /\ SendInv /\ tud_suspend_cb => SendInv'
  <1> SUFFICES ASSUME LInv, SendInv, tud_suspend_cb
               PROVE  SendInv'
    OBVIOUS
  <1>1. /\ UNCHANGED <<place, offset, in_flight, reports, buf>>
        /\ place \in {"task", "wait"}
        /\ PrevXferComplete' = TRUE
        /\ lost' = (lost \/ in_flight # Free)
    BY DEF tud_suspend_cb, InTask, loop_vars, rec_vars
  <1>2. log_buf_ready' = log_buf_ready /\ torn' = torn
    BY DEF tud_suspend_cb
  <1>3. log_buf_ready => log_buf_ready'
    BY <1>2, Zenon
  <1>4. ASSUME place # "task", ~lost'
        PROVE  ~lost /\ PrevXferComplete' = PrevXferComplete
    <2>1. place = "wait" /\ ~lost /\ in_flight = Free
      BY <1>1, <1>4
    <2>2. PrevXferComplete
      <3>1. Len(in_flight) = 0 /\ Report # 0
        BY <2>1, IrLogAssumption DEF Free
      <3> QED
        BY <2>1, <3>1 DEF SendInv, WaitInv
    <2>3. PrevXferComplete \in BOOLEAN
      BY DEF LInv, TypeOK
    <2> QED
      BY <1>1, <2>1, <2>2, <2>3
  <1>5. ASSUME place # "task", ~lost', ~torn'
        PROVE  ~torn /\ buf' = buf
    <2>1. ~torn
      BY <1>2, <1>5, Zenon
    <2> QED
      BY <1>1, <2>1
  <1> QED
    BY <1>1, <1>3, <1>4, <1>5, SendKept

LEMMA StepSend == LInv /\ ReportsInv /\ SendInv /\ [Next]_vars => SendInv'
  <1> SUFFICES ASSUME LInv, ReportsInv, SendInv, [Next]_vars
               PROVE  SendInv'
    OBVIOUS
  <1>1. CASE tud_resume_cb \/ UNCHANGED vars
    <2>1. UNCHANGED <<place, offset, in_flight, reports, buf, PrevXferComplete, lost,
                      torn, log_buf_ready>>
      BY <1>1 DEF tud_resume_cb, vars, rec_vars, loop_vars, usb_vars
    <2>2. log_buf_ready => log_buf_ready'
      BY <2>1, Zenon
    <2>3. ASSUME place # "task", ~lost'
          PROVE  ~lost /\ PrevXferComplete' = PrevXferComplete
      BY <2>1, <2>3, Zenon
    <2>4. ASSUME place # "task", ~lost', ~torn'
          PROVE  ~torn /\ buf' = buf
      BY <2>1, <2>4, Zenon
    <2> QED
      BY <2>1, <2>2, <2>3, <2>4, SendKept
  <1> QED
    BY <1>1, InterruptSend, LoopSend, CompleteSend, SuspendSend DEF Next, Callback

LEMMA InitLogInv == Init => LogInv
  <1> SUFFICES ASSUME Init
               PROVE  LogInv
    OBVIOUS
  <1>1. LInv
    BY InitLInv
  <1>2. ReportsInv
    BY DEF Init, ReportsInv, Free
  <1>3. RecordInv /\ FinishedInv /\ SendInv
    BY DEF Init, RecordInv, FinishedInv, SendInv
  <1> QED
    BY <1>1, <1>2, <1>3 DEF LogInv

LEMMA StepLogInv == LogInv /\ [Next]_vars => LogInv'
  BY StepLInv, StepReports, StepRecord, StepFinished, StepSend DEF LogInv

\* At the end of the transfer the log, what was sent and the buffer agree.
LEMMA SentAgrees ==
  ASSUME LogInv, SentAll, ~torn, ~lost
  PROVE  /\ Len(LogBytes) = log_buf_len
         /\ log_buf_len \in Nat /\ log_buf_len < DATALEN
         /\ LogBytes \in Seq(0 .. 255)
         /\ Sent \in Seq(0 .. 255)
         /\ log_buf_len <= Len(Sent)
         /\ \A i \in 1 .. log_buf_len : LogBytes[i] = buf[i] /\ Sent[i] = buf[i]
  <1>1. place = "send" /\ offset >= log_buf_len
    BY DEF SentAll
  <1>2. log_buf_ready /\ Len(Sent) = offset
        /\ \A i \in 1 .. Len(Sent) : Sent[i] = Read(i)
    <2>1. offset \in Nat
      BY IrLogAssumption DEF LogInv, LInv, TypeOK
    <2> QED
      BY <1>1, <2>1 DEF LogInv, SendInv
  <1>3. /\ log # <<>> /\ log[1] \in Lights
        /\ Len(LogBytes) = log_buf_len /\ Holds(LogBytes)
    BY <1>2 DEF LogInv, FinishedInv
  <1>4. log_buf_len \in Nat /\ log_buf_len < DATALEN /\ DATALEN \in Nat
        /\ offset \in Nat /\ log \in Seq(Lights \cup Darks)
    BY IrLogAssumption DEF LogInv, LInv, TypeOK
  <1>5. LogBytes \in Seq(0 .. 255)
    <2>1. Encoded(log) \in Seq(0 .. 255) /\ << 0 >> \in Seq(0 .. 255)
      BY <1>3, <1>4, EncodedType
    <2> QED
      BY <2>1, LogBytesEncoded, ConcatProperties
  <1>6. Sent \in Seq(0 .. 255)
    BY FlattenType DEF LogInv, ReportsInv, Sent
  <1>7. log_buf_len <= Len(Sent)
    BY <1>1, <1>2, <1>4
  <1>8. ASSUME NEW i \in 1 .. log_buf_len
        PROVE  LogBytes[i] = buf[i] /\ Sent[i] = buf[i]
    <2>1. i \in 1 .. Len(Sent) /\ i < DATALEN /\ i \in 1 .. Len(LogBytes)
      BY <1>2, <1>3, <1>4, <1>7
    <2> QED
      BY <1>2, <1>3, <2>1 DEF Holds, Read
  <1> QED
    BY <1>3, <1>4, <1>5, <1>6, <1>7, <1>8

\* What the host gets of a log is the whole of it and the byte that ends it,
\* unless the interrupt began the next one meanwhile or the bus was suspended
\* before all its reports were got (irmp.c:1194-1197, main.c:916, usb_hid.c:25).
THEOREM Intact == Spec => []LogIntact
  <1>1. LogInv => LogIntact
    <2> SUFFICES ASSUME LogInv, SentAll, ~torn, ~lost
                 PROVE  IsPrefix(LogBytes, FlattenSeq(reports))
      BY DEF LogIntact, HostHasLog
    <2>1. PICK s \in Seq(0 .. 255) : s = LogBytes
      BY SentAgrees
    <2>2. PICK t \in Seq(0 .. 255) : t = FlattenSeq(reports)
      BY SentAgrees DEF Sent
    <2>3. Len(s) <= Len(t) /\ \A i \in 1 .. Len(s) : s[i] = t[i]
      BY <2>1, <2>2, SentAgrees DEF Sent
    <2>4. SubSeq(s, 1, Len(s)) = SubSeq(t, 1, Len(s))
      BY <2>3
    <2> QED
      BY <2>1, <2>2, <2>3, <2>4 DEF IsPrefix
  <1> QED
    BY InitLogInv, StepLogInv, <1>1, PTL DEF Spec

-----------------------------------------------------------------------------
(* What is shown of it.                                                    *)

\* The function that puts the parts H[l] together from l on, each with what
\* begins at X[l], up to a stop.
Collects(f, N, Stop, H, X) ==
    f = [l \in 1 .. N + 1 |->
           IF l > N \/ l \in Stop THEN <<>> ELSE H[l] \o f[X[l]]]

\* There is one if every part is followed by one behind it.
LEMMA DownRecursion ==
  ASSUME NEW N \in Nat, NEW Stop, NEW H, NEW X \in [1 .. N -> 1 .. N + 1],
         \A l \in 1 .. N : X[l] > l
  PROVE  \E f : Collects(f, N, Stop, H, X)
  <1> DEFINE Ends(l) == l > N \/ l \in Stop
             Sat(f, a) == \A l \in a .. N + 1 :
                 /\ Ends(l) => f[l] = <<>>
                 /\ ~Ends(l) => f[l] = H[l] \o f[X[l]]
             P(k) == k <= N => \E f : Sat(f, N + 1 - k)
             T == {k \in Nat : P(k)}
  <1>1. P(0)
    <2>1. PICK f : f = [l \in 1 .. N + 1 |-> <<>>]
      OBVIOUS
    <2>2. \A l \in N + 1 - 0 .. N + 1 : l > N /\ f[l] = <<>>
      BY <2>1
    <2> QED
      BY <2>2
  <1>2. ASSUME NEW k \in Nat, P(k)
        PROVE  P(k + 1)
    <2> SUFFICES ASSUME k + 1 <= N
                 PROVE  \E g : Sat(g, N + 1 - (k + 1))
      OBVIOUS
    <2>1. PICK f : Sat(f, N + 1 - k)
      <3> HIDE DEF Sat
      <3> QED
        BY <1>2
    <2>2. PICK a : a = N - k
      OBVIOUS
    <2>3. a \in 1 .. N /\ N + 1 - k = a + 1 /\ N + 1 - (k + 1) = a
      BY <2>2
    <2>4. PICK c : /\ Ends(a) => c = <<>>
                   /\ ~Ends(a) => c = H[a] \o f[X[a]]
      <3> HIDE DEF Ends
      <3> QED
        OBVIOUS
    <2>5. PICK g : g = [l \in 1 .. N + 1 |-> IF l = a THEN c ELSE f[l]]
      OBVIOUS
    <2>6. g[a] = c /\ \A l \in a + 1 .. N + 1 : g[l] = f[l]
      BY <2>3, <2>5
    <2>7. ASSUME NEW l \in a .. N + 1
          PROVE  /\ Ends(l) => g[l] = <<>>
                 /\ ~Ends(l) => g[l] = H[l] \o g[X[l]]
      <3>1. ~Ends(l) => l \in 1 .. N /\ X[l] \in a + 1 .. N + 1
        BY <2>3
      <3>2. ~Ends(l) => g[X[l]] = f[X[l]]
        BY <2>6, <3>1
      <3>3. CASE l = a
        <4> HIDE DEF Ends, Sat
        <4> QED
          BY <2>4, <2>6, <3>2, <3>3, Zenon
      <3>4. CASE l # a
        <4>1. l \in a + 1 .. N + 1
          BY <2>3, <3>4
        <4>2. g[l] = f[l]
          BY <2>6, <4>1
        <4>3. /\ Ends(l) => f[l] = <<>>
              /\ ~Ends(l) => f[l] = H[l] \o f[X[l]]
          <5>1. l \in N + 1 - k .. N + 1
            BY <2>3, <4>1
          <5> HIDE DEF Ends
          <5> QED
            BY <2>1, <5>1, Zenon
        <4> HIDE DEF Ends
        <4> QED
          BY <3>2, <4>2, <4>3, Zenon
      <3> QED
        BY <3>3, <3>4
    <2>8. Sat(g, a)
      <3> HIDE DEF Ends
      <3> QED
        BY <2>7, Zenon
    <2> HIDE DEF Sat
    <2> QED
      BY <2>3, <2>8
  <1>3. Nat \subseteq T
    <2> HIDE DEF P
    <2>1. 0 \in T
      BY <1>1
    <2>2. \A n \in Nat : n \in T => n + 1 \in T
      BY <1>2
    <2> HIDE DEF T
    <2> QED
      BY <2>1, <2>2, SetInduction
  <1>4. PICK f : Sat(f, 1)
    <2>1. P(N)
      <3> HIDE DEF P
      <3> QED
        BY <1>3
    <2>2. N + 1 - N = 1
      OBVIOUS
    <2> HIDE DEF Sat
    <2> QED
      BY <2>1, <2>2
  <1>5. PICK h : h = [l \in 1 .. N + 1 |-> f[l]]
    OBVIOUS
  <1>6. \A l \in 1 .. N + 1 : h[l] = f[l]
    BY <1>5
  <1>7. ASSUME NEW l \in 1 .. N + 1
        PROVE  f[l] = IF l > N \/ l \in Stop THEN <<>> ELSE H[l] \o h[X[l]]
    <2>1. ~Ends(l) => h[X[l]] = f[X[l]]
      BY <1>6
    <2>2. /\ Ends(l) => f[l] = <<>>
          /\ ~Ends(l) => f[l] = H[l] \o f[X[l]]
      BY <1>4, Zenon
    <2> QED
      BY <2>1, <2>2, Zenon
  <1>8. h = [l \in 1 .. N + 1 |->
               IF l > N \/ l \in Stop THEN <<>> ELSE H[l] \o h[X[l]]]
    BY <1>5, <1>7, Zenon
  <1> QED
    BY <1>8, Zenon DEF Collects

\* A number is the sum of its bytes, if there are no more than two.
LEMMA BytesSum ==
  ASSUME NEW m \in Nat, m < 256 * 256
  PROVE  (m % 256) + 256 * ((m \div 256) % 256) = m
  <1>1. m \div 256 \in 0 .. 255
    OBVIOUS
  <1>2. (m \div 256) % 256 = m \div 256
    BY <1>1
  <1>3. m = (256 * (m \div 256)) + (m % 256)
    OBVIOUS
  <1> QED
    BY <1>1, <1>2, <1>3

\* A run is read back from the bytes it is stored as, and the bytes are passed.
LEMMA RunReadBack ==
  ASSUME NEW m \in Nat \ {0}, m < 256 * 256, NEW r, NEW l \in Nat \ {0},
         Len(r) \in Nat,
         l + Len(Bytes(m)) <= Len(r),
         \A i \in 1 .. Len(Bytes(m)) : r[l + i - 1] = Bytes(m)[i]
  PROVE  /\ RunAt(r, l) = IF l = 1 THEN m + STARTCYCLES ELSE m
         /\ (IF Escaped(r, l) THEN l + 3 ELSE l + 1) = l + Len(Bytes(m))
  <1>1. CASE m >= 255
    <2>1. Bytes(m) = <<255, m % 256, (m \div 256) % 256>>
      BY <1>1 DEF Bytes
    <2>2. Len(Bytes(m)) = 3
      BY <2>1
    <2>3. l + 1 - 1 = l /\ l + 2 - 1 = l + 1 /\ l + 3 - 1 = l + 2
      OBVIOUS
    <2>4. r[l + 1 - 1] = 255 /\ r[l + 2 - 1] = m % 256
          /\ r[l + 3 - 1] = (m \div 256) % 256
      <3>1. 1 \in 1 .. Len(Bytes(m)) /\ 2 \in 1 .. Len(Bytes(m))
            /\ 3 \in 1 .. Len(Bytes(m))
        BY <2>2
      <3>2. /\ r[l + 1 - 1] = Bytes(m)[1] /\ r[l + 2 - 1] = Bytes(m)[2]
            /\ r[l + 3 - 1] = Bytes(m)[3]
        BY <3>1, Zenon
      <3> QED
        BY <2>1, <3>2
    <2>5. r[l] = 255 /\ r[l + 1] = m % 256 /\ r[l + 2] = (m \div 256) % 256
      BY <2>3, <2>4
    <2>6. (m % 256) + 256 * ((m \div 256) % 256) = m
      BY BytesSum
    <2>7. Escaped(r, l)
      BY <2>2, <2>5 DEF Escaped
    <2>8. RunAt(r, l) = m + (IF l = 1 THEN STARTCYCLES ELSE 0)
      BY <2>5, <2>6, <2>7 DEF RunAt
    <2> QED
      BY <2>2, <2>7, <2>8 DEF STARTCYCLES
  <1>2. CASE ~(m >= 255)
    <2>1. Bytes(m) = <<m>>
      BY <1>2 DEF Bytes
    <2>2. Len(Bytes(m)) = 1 /\ Bytes(m)[1] = m
      BY <2>1
    <2>3. r[l] = m
      <3>1. 1 \in 1 .. Len(Bytes(m)) /\ l + 1 - 1 = l
        BY <2>2
      <3>2. r[l + 1 - 1] = Bytes(m)[1]
        BY <3>1, Zenon
      <3> QED
        BY <2>2, <3>1, <3>2
    <2>4. ~Escaped(r, l)
      BY <1>2, <2>3 DEF Escaped
    <2> QED
      BY <2>2, <2>3, <2>4 DEF RunAt
  <1> QED
    BY <1>1, <1>2

\* Where the entries of a log begin and end: the runs, the entries and the
\* bytes before each of them.
\* t begins with s.
Opens(s, t) == Len(s) <= Len(t) /\ \A i \in 1 .. Len(s) : t[i] = s[i]

LEMMA PartsNested ==
  ASSUME NEW S, NEW Q \in Seq(Seq(S)), NEW F \in [0 .. Len(Q) -> Seq(S)],
         Parts(F, Q), NEW k \in 0 .. Len(Q)
  PROVE  Opens(F[k], F[Len(Q)])
  <1>1. PICK n \in Nat : n = Len(Q)
    OBVIOUS
  <1>2. k \in 0 .. n /\ F \in [0 .. n -> Seq(S)]
    BY <1>1
  <1>3. ASSUME NEW j \in 0 .. n - 1
        PROVE  F[j + 1] = F[j] \o Q[j + 1] /\ Q[j + 1] \in Seq(S)
    <2>1. j \in 0 .. Len(Q) - 1 /\ j + 1 \in 1 .. Len(Q)
      BY <1>1
    <2> QED
      BY <2>1, ElementOfSeq DEF Parts
  <1> DEFINE Nested(j) == /\ Len(F[j]) <= Len(F[n])
                          /\ \A i \in 1 .. Len(F[j]) : F[n][i] = F[j][i]
         P(d) == d <= n => Nested(n - d)
         T == {d \in Nat : P(d)}
  <1>4. P(0)
    <2>1. F[n] \in Seq(S) /\ n - 0 = n
      BY <1>2
    <2>2. Len(F[n]) <= Len(F[n])
      BY <2>1
    <2> QED
      BY <2>1, <2>2
  <1>5. ASSUME NEW d \in Nat, P(d)
        PROVE  P(d + 1)
    <2> SUFFICES ASSUME d + 1 <= n
                 PROVE  Nested(n - (d + 1))
      OBVIOUS
    <2>1. PICK j : j = n - (d + 1)
      OBVIOUS
    <2>2. j \in 0 .. n - 1 /\ j + 1 = n - d /\ j + 1 \in 0 .. n /\ j \in 0 .. n
          /\ j + 1 \in 1 .. n
      BY <1>1, <2>1
    <2>3. Nested(j + 1)
      <3> HIDE DEF Nested
      <3> QED
        BY <1>5, <2>2
    <2>4. PICK s \in Seq(S) : s = F[j]
      BY <1>2, <2>2
    <2>5. PICK t \in Seq(S) : t = F[j + 1]
      BY <1>2, <2>2
    <2>6. PICK u \in Seq(S) : u = F[n]
      BY <1>2
    <2>7. PICK b \in Seq(S) : b = Q[j + 1]
      BY <1>3, <2>2
    <2>8. t = s \o b
      <3>1. F[j + 1] = F[j] \o Q[j + 1]
        BY <1>3, <2>2
      <3> QED
        BY <2>4, <2>5, <2>7, <3>1
    <2>9. Len(s) <= Len(t) /\ \A i \in 1 .. Len(s) : t[i] = s[i]
      <3>1. Len(t) = Len(s) + Len(b)
        BY <2>8, ConcatProperties
      <3>2. ASSUME NEW i \in 1 .. Len(s)
            PROVE  t[i] = s[i]
        <4>1. i \in 1 .. Len(s) + Len(b) /\ i <= Len(s)
          OBVIOUS
        <4> QED
          BY <2>8, <4>1, ConcatProperties
      <3> QED
        BY <3>1, <3>2
    <2>10. Len(t) <= Len(u) /\ \A i \in 1 .. Len(t) : u[i] = t[i]
      BY <2>3, <2>5, <2>6
    <2>11. Len(s) <= Len(u) /\ \A i \in 1 .. Len(s) : u[i] = s[i]
      BY <2>9, <2>10
    <2> QED
      BY <2>1, <2>4, <2>6, <2>11
  <1>6. Nat \subseteq T
    <2> HIDE DEF P
    <2>1. 0 \in T
      BY <1>4
    <2>2. \A d \in Nat : d \in T => d + 1 \in T
      BY <1>5
    <2> HIDE DEF T
    <2> QED
      BY <2>1, <2>2, SetInduction
  <1>7. PICK d \in Nat : d = n - k
    BY <1>2
  <1>8. P(d)
    <2> HIDE DEF P
    <2> QED
      BY <1>6
  <1>9. d <= n /\ n - d = k
    BY <1>2, <1>7
  <1> QED
    BY <1>8, <1>9, <1>1 DEF Opens

Passed(r, l) == IF Escaped(r, l) THEN l + 3 ELSE l + 1

\* Shown goes on from one run to the next.
LEMMA ShownRecursion ==
  ASSUME NEW r, Len(r) \in Nat
  PROVE  \E f : /\ Shown(r) = f[1]
                /\ \A l \in 1 .. Len(r) + 1 :
                     f[l] = IF l > Len(r) \/ RunAt(r, l) = 0 THEN <<>>
                            ELSE <<RunAt(r, l)>> \o f[Passed(r, l)]
  <1> DEFINE N == Len(r)
             Rec(f) == f = [l \in 1 .. Len(r) + 1 |->
                 IF l > Len(r) \/ RunAt(r, l) = 0 THEN <<>>
                 ELSE <<RunAt(r, l)>> \o
                      f[IF Escaped(r, l) THEN l + 3 ELSE l + 1]]
  <1>1. PICK Stop : Stop = {l \in 1 .. N : RunAt(r, l) = 0}
    OBVIOUS
  <1>2. PICK H : H = [l \in 1 .. N |-> <<RunAt(r, l)>>]
    OBVIOUS
  <1>3. PICK X : X = [l \in 1 .. N |-> Passed(r, l)]
    OBVIOUS
  <1>4. ASSUME NEW l \in 1 .. N
        PROVE  Passed(r, l) \in 1 .. N + 1 /\ Passed(r, l) > l
    BY DEF Passed, Escaped
  <1>5. X \in [1 .. N -> 1 .. N + 1] /\ \A l \in 1 .. N : X[l] > l
    BY <1>3, <1>4
  <1>6. PICK g : Collects(g, N, Stop, H, X)
    <2>1. N \in Nat
      OBVIOUS
    <2> HIDE DEF N
    <2> QED
      BY <1>5, <2>1, DownRecursion
  <1>7. Rec(g)
    <2>1. ASSUME NEW l \in 1 .. N + 1
          PROVE  (IF l > N \/ l \in Stop THEN <<>> ELSE H[l] \o g[X[l]]) =
                 (IF l > Len(r) \/ RunAt(r, l) = 0 THEN <<>>
                  ELSE <<RunAt(r, l)>> \o
                       g[IF Escaped(r, l) THEN l + 3 ELSE l + 1])
      <3>1. CASE l > N
        BY <3>1
      <3>2. CASE ~(l > N)
        <4>1. /\ l \in Stop <=> RunAt(r, l) = 0
              /\ H[l] = <<RunAt(r, l)>>
              /\ X[l] = IF Escaped(r, l) THEN l + 3 ELSE l + 1
          <5>1. l \in 1 .. N
            BY <3>2
          <5> QED
            BY <1>1, <1>2, <1>3, <5>1 DEF Passed
        <4> QED
          BY <4>1, Zenon
      <3> QED
        BY <3>1, <3>2
    <2> QED
      BY <1>6, <2>1, Zenon DEF Collects
  <1>8. PICK f : Rec(f) /\ Shown(r) = f[1]
    <2> DEFINE c == CHOOSE h : Rec(h)
    <2>1. Shown(r) = c[1]
      BY DEF Shown
    <2>2. Rec(c)
      <3> HIDE DEF Rec
      <3> QED
        BY <1>7
    <2> HIDE DEF c, Rec
    <2> QED
      BY <2>1, <2>2
  <1>9. ASSUME NEW l \in 1 .. Len(r) + 1
        PROVE  f[l] = IF l > Len(r) \/ RunAt(r, l) = 0 THEN <<>>
                      ELSE <<RunAt(r, l)>> \o f[Passed(r, l)]
    BY <1>8, Zenon DEF Passed
  <1> QED
    BY <1>8, <1>9

\* What is stored of the k-th run, and how many samples that stands for.
Counted(runs, k) == IF k = 1 THEN runs[k] - STARTCYCLES ELSE runs[k]

LEMMA DarksAreShort ==
  ASSUME NEW n \in 1 .. 300
  PROVE  n < 256 * 256
  <1>1. n <= 300
    OBVIOUS
  <1>2. n \in Nat
    OBVIOUS
  <1> QED
    BY <1>1, <1>2

\* A log begins with light.
Loggable(runs) ==
    runs \in Seq(Lights \cup Darks) /\ runs # <<>> /\ runs[1] \in Lights

\* The lengths fit the two bytes behind an escape.
LightsFit == \A n \in Lights : n < 256 * 256

\* The bytes e begin the report r, with something behind them.
Begins(e, r) ==
    /\ Len(r) \in Nat /\ Len(e) < Len(r)
    /\ \A i \in 1 .. Len(e) : r[i] = e[i]

Fits(m) == m \in Nat \ {0} /\ m < 256 * 256

LEMMA EntryOfRun ==
  ASSUME NEW runs, Loggable(runs), LightsFit, NEW k \in 1 .. Len(runs)
  PROVE  /\ Fits(Counted(runs, k))
         /\ Entries(runs)[k] = Bytes(Counted(runs, k))
         /\ runs[k] = IF k = 1 THEN Counted(runs, k) + STARTCYCLES
                      ELSE Counted(runs, k)
  <1>1. runs \in Seq(Lights \cup Darks) /\ runs # <<>> /\ runs[1] \in Lights
    BY DEF Loggable
  <1>2. runs[k] \in Lights \cup Darks
    BY <1>1, ElementOfSeq
  <1>3. runs[k] \in Nat \ {0}
        /\ (runs[k] \in Lights => runs[k] - STARTCYCLES \in Nat \ {0})
    BY <1>2, RunsAreNumbers
  <1>4. runs[k] < 256 * 256
    <2>1. CASE runs[k] \in Lights
      BY <2>1, Zenon DEF LightsFit
    <2>2. CASE runs[k] \in Darks
      <3>1. runs[k] \in 1 .. 300
        BY <2>2, IrLogAssumption DEF ENDBITS
      <3> QED
        BY <3>1, DarksAreShort, Zenon
    <2> QED
      BY <1>2, <2>1, <2>2, Zenon
  <1>5. CASE k = 1
    <2>1. Counted(runs, k) = runs[k] - 2 /\ runs[k] \in Lights
      BY <1>1, <1>5 DEF Counted, STARTCYCLES
    <2>2. Entries(runs)[k] = Bytes(runs[k] - STARTCYCLES)
      BY <1>1, <1>5, EntriesShape
    <2> QED
      BY <1>3, <1>4, <1>5, <2>1, <2>2 DEF STARTCYCLES, Fits
  <1>6. CASE k # 1
    <2>1. Counted(runs, k) = runs[k]
      BY <1>6 DEF Counted
    <2>2. k \in 2 .. Len(runs)
      BY <1>6
    <2>3. Entries(runs)[k] = Bytes(runs[k])
      BY <1>1, <2>2, EntriesShape
    <2> QED
      BY <1>3, <1>4, <1>6, <2>1, <2>3 DEF Fits
  <1> QED
    BY <1>5, <1>6

\* At l of the report r the run m is read, and the next one at j.
Reads(r, l, m, j) ==
    l \in 1 .. Len(r) /\ RunAt(r, l) = m /\ m # 0 /\ Passed(r, l) = j

\* An entry that begins behind s is read as what it counts, and the next one
\* begins behind it.
LEMMA EntryRead ==
  ASSUME NEW m, Fits(m),
         NEW s \in Seq(0 .. 255), NEW t \in Seq(0 .. 255),
         NEW e \in Seq(0 .. 255),
         t = s \o Bytes(m), Opens(t, e), NEW r, Begins(e, r),
         NEW l \in Nat, l = Len(s) + 1
  PROVE  Reads(r, l, IF l = 1 THEN m + STARTCYCLES ELSE m, Len(t) + 1)
  <1>1. /\ Len(r) \in Nat /\ Len(e) < Len(r)
        /\ \A i \in 1 .. Len(e) : r[i] = e[i]
        /\ Len(t) <= Len(e)
        /\ \A i \in 1 .. Len(t) : e[i] = t[i]
        /\ m \in Nat \ {0} /\ m < 256 * 256
    BY DEF Begins, Opens, Fits
  <1>2. Bytes(m) \in Seq(0 .. 255)
    BY <1>1, BytesType
  <1>3. Len(t) = Len(s) + Len(Bytes(m))
    BY <1>2, ConcatProperties
  <1>4. Len(Bytes(m)) \in Nat /\ Len(s) \in Nat /\ Len(t) \in Nat /\ Len(e) \in Nat
    BY <1>2
  <1>5. l \in Nat \ {0} /\ l + Len(Bytes(m)) <= Len(r) /\ l \in 1 .. Len(r)
    BY <1>1, <1>3, <1>4
  <1>6. ASSUME NEW i \in 1 .. Len(Bytes(m))
        PROVE  r[l + i - 1] = Bytes(m)[i]
    <2>1. PICK j \in 1 .. Len(s) + Len(Bytes(m)) : j = Len(s) + i
      BY <1>4
    <2>2. l + i - 1 = j /\ ~(j <= Len(s)) /\ j - Len(s) = i /\ j \in 1 .. Len(t)
          /\ j \in 1 .. Len(e)
      BY <1>1, <1>3, <1>4, <2>1
    <2>3. t[j] = IF j <= Len(s) THEN s[j] ELSE Bytes(m)[j - Len(s)]
      BY <1>2, ConcatProperties, Zenon
    <2>4. t[j] = Bytes(m)[i]
      BY <2>2, <2>3, Zenon
    <2>5. r[j] = e[j] /\ e[j] = t[j]
      BY <1>1, <2>2, Zenon
    <2> QED
      BY <2>2, <2>4, <2>5, Zenon
  <1>7. /\ RunAt(r, l) = IF l = 1 THEN m + STARTCYCLES ELSE m
        /\ (IF Escaped(r, l) THEN l + 3 ELSE l + 1) = l + Len(Bytes(m))
    BY <1>1, <1>5, <1>6, RunReadBack
  <1>8. RunAt(r, l) # 0
    BY <1>1, <1>7 DEF STARTCYCLES
  <1>9. Passed(r, l) = l + Len(Bytes(m))
    BY <1>7 DEF Passed
  <1> QED
    BY <1>3, <1>4, <1>5, <1>7, <1>8, <1>9 DEF Reads

\* What goes on from place to place and takes an element at each of them takes
\* the whole sequence.
Gathers(f, A, runs) ==
    /\ f[A[Len(runs)]] = <<>>
    /\ \A k \in 0 .. Len(runs) - 1 : f[A[k]] = <<runs[k + 1]>> \o f[A[k + 1]]

LEMMA Collected ==
  ASSUME NEW S, NEW runs \in Seq(S), NEW f, NEW A, Gathers(f, A, runs)
  PROVE  f[A[0]] = runs
  <1>1. PICK n \in Nat : n = Len(runs)
    OBVIOUS
  <1>2. /\ f[A[n]] = <<>>
        /\ \A k \in 0 .. n - 1 : f[A[k]] = <<runs[k + 1]>> \o f[A[k + 1]]
    BY <1>1, Zenon DEF Gathers
  <1> DEFINE Rest(k) == f[A[k]] = SubSeq(runs, k + 1, n)
             P(d) == d <= n => Rest(n - d)
             T == {d \in Nat : P(d)}
  <1>3. P(0)
    <2>1. SubSeq(runs, n + 1, n) = <<>>
      BY <1>1, SubSeqEmpty
    <2>2. n - 0 = n
      OBVIOUS
    <2> QED
      BY <1>2, <2>1, <2>2
  <1>4. ASSUME NEW d \in Nat, P(d)
        PROVE  P(d + 1)
    <2> SUFFICES ASSUME d + 1 <= n
                 PROVE  Rest(n - (d + 1))
      OBVIOUS
    <2>1. PICK k : k = n - (d + 1)
      OBVIOUS
    <2>2. k \in 0 .. n - 1 /\ k + 1 = n - d /\ d <= n /\ (k + 1) + 1 = k + 2
      BY <2>1
    <2>3. f[A[k + 1]] = SubSeq(runs, k + 2, n)
      <3>1. Rest(k + 1)
        <4> HIDE DEF Rest
        <4> QED
          BY <1>4, <2>2
      <3> QED
        BY <2>2, <3>1
    <2>4. SubSeq(runs, k + 1, n) = <<runs[k + 1]>> \o SubSeq(runs, k + 2, n)
      <3>1. k + 1 \in 1 .. Len(runs) /\ n \in k + 1 .. Len(runs)
        BY <1>1, <2>2
      <3>2. SubSeq(runs, k + 1, n) = <<runs[k + 1]>> \o SubSeq(runs, (k + 1) + 1, n)
        BY <3>1, SubSeqRecursiveFirst
      <3> QED
        BY <2>2, <3>2
    <2>5. f[A[k]] = <<runs[k + 1]>> \o f[A[k + 1]]
      BY <1>2, <2>2
    <2>6. f[A[k]] = SubSeq(runs, k + 1, n)
      BY <2>3, <2>4, <2>5, Zenon
    <2> QED
      BY <2>1, <2>6, Zenon
  <1>5. Nat \subseteq T
    <2> HIDE DEF P
    <2>1. 0 \in T
      BY <1>3
    <2>2. \A d \in Nat : d \in T => d + 1 \in T
      BY <1>4
    <2> HIDE DEF T
    <2> QED
      BY <2>1, <2>2, SetInduction
  <1>6. P(n)
    <2> HIDE DEF P
    <2> QED
      BY <1>5
  <1>7. n - n = 0 /\ n <= n
    OBVIOUS
  <1>8. SubSeq(runs, 0 + 1, n) = runs
    BY <1>1, SubSeqFull
  <1>9. Rest(0)
    <2> HIDE DEF Rest
    <2> QED
      BY <1>6, <1>7
  <1> QED
    BY <1>8, <1>9

\* F[k] is what the first k of the n runs are encoded as.
Laid(runs, n, F) ==
    /\ Loggable(runs) /\ LightsFit /\ n \in Nat /\ n = Len(runs)
    /\ F \in [0 .. n -> Seq(0 .. 255)] /\ Parts(F, Entries(runs))

LEMMA LaidNested ==
  ASSUME NEW runs, NEW n, NEW F, Laid(runs, n, F), NEW k \in 0 .. n
  PROVE  Opens(F[k], F[n])
  <1>1. PICK Q \in Seq(Seq(0 .. 255)) : Q = Entries(runs) /\ Len(Q) = n
    BY EntriesShape DEF Laid, Loggable
  <1>2. F \in [0 .. Len(Q) -> Seq(0 .. 255)] /\ Parts(F, Q) /\ k \in 0 .. Len(Q)
    BY <1>1, Zenon DEF Laid
  <1>3. Opens(F[k], F[Len(Q)])
    BY <1>2, PartsNested
  <1> QED
    BY <1>1, <1>3, Zenon

\* Only the first entry begins at the beginning.
LEMMA EntriesBegin ==
  ASSUME NEW runs, NEW n, NEW F, Laid(runs, n, F), NEW k \in 0 .. n
  PROVE  Len(F[k]) + 1 = 1 <=> k = 0
  <1>1. /\ Loggable(runs) /\ LightsFit /\ n \in Nat /\ n = Len(runs)
        /\ F \in [0 .. n -> Seq(0 .. 255)] /\ Parts(F, Entries(runs))
    BY DEF Laid
  <1>2. /\ F[0] = <<>>
        /\ \A j \in 0 .. n - 1 : F[j + 1] = F[j] \o Entries(runs)[j + 1]
    <2>1. Len(Entries(runs)) = n
      BY <1>1, EntriesShape DEF Loggable
    <2> QED
      BY <1>1, <2>1, Zenon DEF Parts
  <1>3. CASE k = 0
    <2>1. Len(F[k]) = 0
      BY <1>2, <1>3
    <2> QED
      BY <1>3, <2>1
  <1>4. CASE k # 0
    <2>1. PICK j \in 0 .. n - 1 : j + 1 = k
      <3>1. k - 1 \in 0 .. n - 1 /\ (k - 1) + 1 = k
        BY <1>4, <1>1
      <3> QED
        BY <3>1
    <2>2. PICK b : b = Entries(runs)[k]
      OBVIOUS
    <2>3. b \in Seq(0 .. 255) /\ Len(b) \in {1, 3}
      <3>1. k \in 1 .. Len(runs)
        BY <1>4, <1>1
      <3>2. b = Bytes(Counted(runs, k)) /\ Fits(Counted(runs, k))
        BY <1>1, <2>2, <3>1, EntryOfRun, Zenon
      <3>3. PICK m \in Nat : m = Counted(runs, k)
        BY <3>2 DEF Fits
      <3>4. b = Bytes(m)
        BY <3>2, <3>3, Zenon
      <3> QED
        BY <3>4, BytesType, Zenon
    <2>4. PICK s \in Seq(0 .. 255) : s = F[j]
      <3>1. j \in 0 .. n
        BY <1>1
      <3> QED
        BY <1>1, <3>1, Zenon
    <2>5. F[k] = s \o b
      BY <1>2, <2>1, <2>2, <2>4, Zenon
    <2>6. Len(s \o b) = Len(s) + Len(b)
      BY <2>3, ConcatProperties
    <2>7. Len(F[k]) = Len(s) + Len(b)
      BY <2>5, <2>6, Zenon
    <2>8. Len(s) \in Nat /\ Len(b) \in Nat \ {0}
      <3>1. Len(b) = 1 \/ Len(b) = 3
        BY <2>3, Zenon
      <3>2. \A i : i = 1 \/ i = 3 => i \in Nat \ {0}
        OBVIOUS
      <3>3. Len(b) \in Nat \ {0}
        BY <3>1, <3>2, Zenon
      <3>4. Len(s) \in Nat
        BY LenProperties
      <3> QED
        BY <3>3, <3>4
    <2> QED
      BY <1>4, <2>7, <2>8
  <1> QED
    BY <1>3, <1>4

\* The k-th run of a report is read where its entry begins, and the next one
\* where that entry ends.
LEMMA RunShown ==
  ASSUME NEW runs, NEW n, NEW F, Laid(runs, n, F),
         NEW r, Begins(F[n], r), NEW k \in 0 .. n - 1
  PROVE  Reads(r, Len(F[k]) + 1, runs[k + 1], Len(F[k + 1]) + 1)
  <1>1. /\ Loggable(runs) /\ LightsFit /\ n \in Nat /\ n = Len(runs)
        /\ F \in [0 .. n -> Seq(0 .. 255)] /\ Parts(F, Entries(runs))
    BY DEF Laid
  <1>2. k \in 0 .. n /\ k + 1 \in 0 .. n /\ k + 1 \in 1 .. n
        /\ (k + 1 = 1 <=> k = 0)
        /\ n \in 0 .. n
    BY <1>1
  <1>3. k + 1 \in 1 .. Len(runs)
    BY <1>1, <1>2, Zenon
  <1>4. PICK m : m = Counted(runs, k + 1) /\ Fits(m)
    BY <1>1, <1>3, EntryOfRun, Zenon
  <1>5. /\ Entries(runs)[k + 1] = Bytes(m)
        /\ runs[k + 1] = IF k = 0 THEN m + STARTCYCLES ELSE m
    <2>1. /\ Entries(runs)[k + 1] = Bytes(Counted(runs, k + 1))
          /\ runs[k + 1] = IF k + 1 = 1 THEN Counted(runs, k + 1) + STARTCYCLES
                           ELSE Counted(runs, k + 1)
      BY <1>1, <1>3, EntryOfRun, Zenon
    <2> QED
      BY <1>2, <1>4, <2>1, Zenon
  <1>6. PICK s \in Seq(0 .. 255) : s = F[k]
    BY <1>1, <1>2, Zenon
  <1>7. PICK t \in Seq(0 .. 255) : t = F[k + 1]
    BY <1>1, <1>2, Zenon
  <1>8. PICK e \in Seq(0 .. 255) : e = F[n]
    BY <1>1, <1>2, Zenon
  <1>9. PICK Q \in Seq(Seq(0 .. 255)) : Q = Entries(runs) /\ Len(Q) = n
    BY <1>1, EntriesShape DEF Loggable
  <1>10. t = s \o Bytes(m)
    BY <1>1, <1>5, <1>6, <1>7, <1>9, Zenon DEF Parts
  <1>11. Opens(t, e)
    BY <1>2, <1>7, <1>8, LaidNested, Zenon
  <1>12. PICK l \in Nat : l = Len(s) + 1
    OBVIOUS
  <1>13. Begins(e, r)
    BY <1>8, Zenon
  <1>14. Reads(r, l, IF l = 1 THEN m + STARTCYCLES ELSE m, Len(t) + 1)
    BY <1>4, <1>10, <1>11, <1>12, <1>13, EntryRead
  <1>15. l = 1 <=> k = 0
    <2>1. Len(F[k]) + 1 = 1 <=> k = 0
      BY <1>2, EntriesBegin
    <2> QED
      BY <1>6, <1>12, <2>1, Zenon
  <1> QED
    BY <1>5, <1>6, <1>7, <1>12, <1>14, <1>15, Zenon

\* What a log is encoded as is shown as that log, if a 0 follows it.
LEMMA ShownEncoded ==
  ASSUME NEW runs, Loggable(runs), LightsFit,
         NEW r, Begins(Encoded(runs), r), r[Len(Encoded(runs)) + 1] = 0
  PROVE  Shown(r) = runs
  <1>1. runs \in Seq(Lights \cup Darks) /\ runs # <<>> /\ runs[1] \in Lights
    BY DEF Loggable
  <1>2. PICK n \in Nat : n = Len(runs)
    BY <1>1
  <1>3. PICK Q \in Seq(Seq(0 .. 255)) : Q = Entries(runs) /\ Len(Q) = n
    BY <1>1, <1>2, EntriesShape
  <1>4. PICK G \in [0 .. Len(Q) -> Seq(0 .. 255)] : Parts(G, Q)
    BY PartsExist
  <1>5. Encoded(runs) = G[n]
    BY <1>3, <1>4, FlattenParts DEF Encoded
  <1>6. PICK F \in [0 .. n -> Seq(0 .. 255)] :
          Parts(F, Entries(runs)) /\ Encoded(runs) = F[n]
    BY <1>3, <1>4, <1>5, Zenon
  <1>7. Laid(runs, n, F)
    BY <1>2, <1>6, Zenon DEF Laid
  <1>8. Begins(F[n], r)
    BY <1>6, Zenon
  <1>9. PICK f : /\ Shown(r) = f[1]
                 /\ \A l \in 1 .. Len(r) + 1 :
                      f[l] = IF l > Len(r) \/ RunAt(r, l) = 0 THEN <<>>
                             ELSE <<RunAt(r, l)>> \o f[Passed(r, l)]
    BY ShownRecursion DEF Begins
  <1>10. PICK A : A = [k \in 0 .. n |-> Len(F[k]) + 1]
    OBVIOUS
  <1>11. \A k \in 0 .. n : A[k] = Len(F[k]) + 1
    BY <1>10, Zenon
  <1>12. \A l \in 1 .. Len(r) : l \in 1 .. Len(r) + 1 /\ ~(l > Len(r))
    BY DEF Begins
  <1>13. 0 \in 0 .. n /\ n \in 0 .. n
         /\ \A k \in 0 .. n - 1 : k \in 0 .. n /\ k + 1 \in 0 .. n
    OBVIOUS
  <1>14. f[A[n]] = <<>>
    <2>1. PICK e \in Seq(0 .. 255) : e = F[n]
      BY <1>13, Zenon
    <2>2. Begins(e, r) /\ r[Len(e) + 1] = 0
      BY <1>6, <2>1, Zenon
    <2>3. PICK l \in 1 .. Len(r) : l = Len(e) + 1
      BY <2>2 DEF Begins
    <2>4. r[l] = 0
      BY <2>2, <2>3, Zenon
    <2>5. RunAt(r, l) = 0
      BY <2>4 DEF RunAt, Escaped
    <2>6. f[l] = <<>>
      BY <1>9, <1>12, <2>5, Zenon
    <2>7. A[n] = l
      BY <1>11, <1>13, <2>1, <2>3, Zenon
    <2> QED
      BY <2>6, <2>7, Zenon
  <1>15. ASSUME NEW k \in 0 .. n - 1
         PROVE  f[A[k]] = <<runs[k + 1]>> \o f[A[k + 1]]
    <2>1. PICK l : l = Len(F[k]) + 1
      OBVIOUS
    <2>2. /\ l \in 1 .. Len(r)
          /\ RunAt(r, l) = runs[k + 1]
          /\ RunAt(r, l) # 0
          /\ Passed(r, l) = Len(F[k + 1]) + 1
      <3>1. Reads(r, Len(F[k]) + 1, runs[k + 1], Len(F[k + 1]) + 1)
        BY <1>8, <1>7, RunShown
      <3> QED
        BY <2>1, <3>1, Zenon DEF Reads
    <2>3. f[l] = <<RunAt(r, l)>> \o f[Passed(r, l)]
      BY <1>9, <1>12, <2>2, Zenon
    <2>4. A[k] = l /\ A[k + 1] = Len(F[k + 1]) + 1
      BY <1>11, <1>13, <2>1, Zenon
    <2> QED
      BY <2>2, <2>3, <2>4, Zenon
  <1>16. f[A[0]] = runs
    <2>1. Gathers(f, A, runs)
      BY <1>2, <1>14, <1>15, Zenon DEF Gathers
    <2> QED
      BY <1>1, <2>1, Collected, Zenon
  <1>17. A[0] = 1
    <2>1. A[0] = Len(F[0]) + 1 /\ F[0] = <<>>
      BY <1>6, <1>11, <1>13, Zenon DEF Parts
    <2> QED
      BY <2>1
  <1> QED
    BY <1>9, <1>16, <1>17, Zenon

\* The first report of a log that fits it: the log, and the byte that ends it.
LEMMA FirstReport ==
  ASSUME LogInv, SentAll, ~torn, ~lost, log_buf_len <= Report, LightsFit
  PROVE  /\ Loggable(log)
         /\ Begins(Encoded(log), reports[1])
         /\ reports[1][Len(Encoded(log)) + 1] = 0
  <1>1. place = "send" /\ log_buf_ready
    BY DEF SentAll, LogInv, SendInv
  <1>2. log # <<>> /\ log[1] \in Lights /\ log \in Seq(Lights \cup Darks)
    BY <1>1 DEF LogInv, FinishedInv, LInv, TypeOK
  <1>3. Loggable(log)
    BY <1>2 DEF Loggable
  <1>4. PICK e \in Seq(0 .. 255) : e = Encoded(log)
    BY <1>2, EncodedType
  <1>5. LogBytes = e \o << 0 >>
    BY <1>2, <1>4, LogBytesEncoded
  <1>6. /\ Len(e \o << 0 >>) = Len(e) + 1
        /\ (e \o << 0 >>)[Len(e) + 1] = 0
        /\ \A i \in 1 .. Len(e) : (e \o << 0 >>)[i] = e[i]
    OBVIOUS
  <1>7. PICK n \in Nat : n = log_buf_len
    BY SentAgrees
  <1>8. n = Len(e) + 1 /\ n <= Report /\ n < DATALEN /\ Report \in Nat
        /\ Len(e) \in Nat
    BY <1>5, <1>6, <1>7, SentAgrees, IrLogAssumption
  <1>9. \A i \in 1 .. n : LogBytes[i] = buf[i]
    BY <1>7, SentAgrees
  <1>10. reports # <<>>
    <2>1. CASE reports = <<>>
      <3>1. FlattenSeq(<<>>) = <<>>
        BY DEF FlattenSeq
      <3>2. Len(Sent) = 0
        BY <2>1, <3>1 DEF Sent
      <3>3. n <= Len(Sent)
        BY <1>7, SentAgrees
      <3> QED
        BY <1>8, <3>2, <3>3
    <2> QED
      BY <2>1
  <1>11. reports[1] = ReportAt(0)
    BY <1>1, <1>10 DEF LogInv, SendInv
  <1>12. PICK r \in Seq(0 .. 255) : r = ReportAt(0)
    BY ReportType DEF LogInv, LInv
  <1>13. Len(r) = Report /\ \A i \in 1 .. Report : r[i] = Read(0 + i)
    BY <1>12, ReportType DEF LogInv, LInv
  <1>14. ASSUME NEW i \in 1 .. n
         PROVE  r[i] = (e \o << 0 >>)[i]
    <2>1. i \in 1 .. Report /\ 0 + i = i /\ i < DATALEN
      BY <1>8, IrLogAssumption
    <2>2. r[i] = buf[i]
      BY <1>13, <2>1 DEF Read
    <2> QED
      BY <1>5, <1>9, <2>2, Zenon
  <1>15. /\ \A i \in 1 .. Len(e) : r[i] = e[i]
         /\ r[Len(e) + 1] = 0
    <2>1. Len(e) + 1 \in 1 .. n /\ \A i \in 1 .. Len(e) : i \in 1 .. n
      BY <1>8
    <2> QED
      BY <1>6, <1>14, <2>1, Zenon
  <1>16. Begins(e, r)
    BY <1>8, <1>13, <1>15 DEF Begins
  <1> QED
    BY <1>3, <1>4, <1>11, <1>12, <1>15, <1>16, Zenon

\* A log that takes one report, and is neither torn nor lost, is shown as the
\* sensor saw it, as long as no light takes more samples than two bytes hold (irmp.c:1240-1252,
\* irmpconfig.c:838-856).
THEOREM AsSeen ==
  ASSUME LightsFit
  PROVE  Spec => []ShownAsSeen
  <1>1. LogInv => ShownAsSeen
    BY FirstReport, ShownEncoded DEF ShownAsSeen
  <1> QED
    BY InitLogInv, StepLogInv, <1>1, PTL DEF Spec

-----------------------------------------------------------------------------
(* The decoder.  Whatever the light, the record irmp keeps its types and   *)
(* the pause of a frame keeps its limit: DecoderOK.                        *)

IrmpFields ==
    {"started", "start_space", "space", "pulse", "pause", "bits", "bits2",
     "param", "param2", "last_pause", "last_value", "bit6", "more_bits",
     "detected", "protocol", "address", "command", "id", "repeat_len",
     "last_address", "last_command", "repetitions", "denon_last", "denon_len"}

ParamFields == {"protocol", "windows", "address", "command", "complete_len",
                "stop_bit", "lsb_first", "manchester", "first_pulse_is_1"}

Bits == {0, 1, Lost}

\* GRUNDIG and RUWIDO are waited for: what they take for a long pause is short.
WaitsShort(p) ==
    p.protocol \in {"GRUNDIG", "RUWIDO"} =>
        p.windows.pause_1[2] <= 100

ParamOK(p) ==
    /\ DOMAIN p = ParamFields
    /\ p.complete_len \in Nat
    /\ p.stop_bit \in {0, 1}
    /\ p.windows.pause_1[2] \in Nat
    /\ WaitsShort(p)

\* The types, of which the pause of a frame depends; start_space is in S.
RecOK(S, r) ==
    /\ DOMAIN r = IrmpFields
    /\ r.started \in BOOLEAN
    /\ r.start_space \in S
    /\ r.space \in BOOLEAN
    /\ r.pause \in Nat
    /\ r.repeat_len \in Nat
    /\ r.bits \in Seq(Bits)
    /\ r.bits2 \in Seq({0, 1})
    /\ r.last_value \in {0, 1}
    /\ ParamOK(r.param)
    /\ ParamOK(r.param2)
    /\ r.param2.protocol \notin {"GRUNDIG", "RUWIDO"}

\* The windows are numbers of ticks.
LEMMA WindowsOK ==
  /\ SIRCSWindows.pause_1[2] \in Nat
  /\ NECWindows.pause_1[2] \in Nat
  /\ SAMSUNGWindows.pause_1[2] \in Nat
  /\ SAMSUNGAHWindows.pause_1[2] \in Nat
  /\ MATSUSHITAWindows.pause_1[2] \in Nat
  /\ KASEIKYOWindows.pause_1[2] \in Nat
  /\ VINCENTWindows.pause_1[2] \in Nat
  /\ RECS80Windows.pause_1[2] \in Nat
  /\ RECS80EXTWindows.pause_1[2] \in Nat
  /\ NUBERTWindows.pause_1[2] \in Nat
  /\ SPEAKERWindows.pause_1[2] \in Nat
  /\ FDCWindows.pause_1[2] \in Nat
  /\ RCCARWindows.pause_1[2] \in Nat
  /\ NIKONWindows.pause_1[2] \in Nat
  /\ GREEWindows.pause_1[2] \in Nat
  /\ BOSEWindows.pause_1[2] \in Nat
  /\ TELEFUNKENWindows.pause_1[2] \in Nat
  /\ PENTAXWindows.pause_1[2] \in Nat
  /\ METZWindows.pause_1[2] \in Nat
  /\ DENONWindows.pause_1[2] \in Nat
  /\ THOMSONWindows.pause_1[2] \in Nat
  /\ MELINERAWindows.pause_1[2] \in Nat
  /\ RC5Windows.pause_1[2] \in Nat
  /\ RC6Windows.pause_1[2] \in Nat
  /\ GRUNDIGWindows.pause_1[2] \in Nat
  /\ RUWIDOWindows.pause_1[2] \in Nat
  /\ GRUNDIGWindows.pause_1[2] <= 100
  /\ RUWIDOWindows.pause_1[2] <= 100
  <1>1. /\ SIRCSWindows.pause_1[2] \in Nat
        /\ NECWindows.pause_1[2] \in Nat
        /\ SAMSUNGWindows.pause_1[2] \in Nat
        /\ SAMSUNGAHWindows.pause_1[2] \in Nat
        /\ MATSUSHITAWindows.pause_1[2] \in Nat
        /\ KASEIKYOWindows.pause_1[2] \in Nat
        /\ VINCENTWindows.pause_1[2] \in Nat
    BY DEF SIRCSWindows, NECWindows, SAMSUNGWindows, SAMSUNGAHWindows,
           MATSUSHITAWindows, KASEIKYOWindows, VINCENTWindows, Windows,
           Within, MinMax, SIRCS, NEC, SAMSUNG, SAMSUNGAH, MATSUSHITA,
           KASEIKYO, VINCENT, PulseDistance, Repeated
  <1>2. /\ RECS80Windows.pause_1[2] \in Nat
        /\ RECS80EXTWindows.pause_1[2] \in Nat
        /\ NUBERTWindows.pause_1[2] \in Nat
        /\ SPEAKERWindows.pause_1[2] \in Nat
        /\ FDCWindows.pause_1[2] \in Nat
        /\ RCCARWindows.pause_1[2] \in Nat
        /\ NIKONWindows.pause_1[2] \in Nat
    BY DEF RECS80Windows, RECS80EXTWindows, NUBERTWindows, SPEAKERWindows,
           FDCWindows, RCCARWindows, NIKONWindows, Windows, Within, MinMax,
           RECS80, RECS80EXT, NUBERT, SPEAKER, FDC, RCCAR, NIKON,
           PulseDistance, Repeated
  <1>3. /\ GREEWindows.pause_1[2] \in Nat
        /\ BOSEWindows.pause_1[2] \in Nat
        /\ TELEFUNKENWindows.pause_1[2] \in Nat
        /\ PENTAXWindows.pause_1[2] \in Nat
        /\ METZWindows.pause_1[2] \in Nat
        /\ DENONWindows.pause_1[2] \in Nat
        /\ THOMSONWindows.pause_1[2] \in Nat
    BY DEF GREEWindows, BOSEWindows, TELEFUNKENWindows, PENTAXWindows,
           METZWindows, DENONWindows, THOMSONWindows, Windows, Within,
           MinMax, GREE, BOSE, TELEFUNKEN, PENTAX, METZ, DENON, THOMSON,
           PulseDistance, Repeated
  <1>4. MELINERAWindows.pause_1[2] = NECWindows.pause_1[2]
    BY DEF MELINERAWindows, NECWindows, Windows
  <1>5. /\ RC5Windows.pause_1[2] \in Nat
        /\ RC6Windows.pause_1[2] \in Nat
        /\ GRUNDIGWindows.pause_1[2] \in Nat
        /\ GRUNDIGWindows.pause_1[2] <= 100
        /\ RUWIDOWindows.pause_1[2] \in Nat
        /\ RUWIDOWindows.pause_1[2] <= 100
    BY DEF RC5Windows, RC6Windows, GRUNDIGWindows, RUWIDOWindows,
           BiPhaseWindows, Windows, Within, MinMax, RC5, RC6,
           GrundigNokiaIr60, RUWIDO, BiPhase
  <1> QED
    BY <1>1, <1>2, <1>3, <1>4, <1>5

LEMMA NoParamOK == ParamOK(NoParam) /\ NoParam.protocol = "none"
  BY WindowsOK DEF ParamOK, NoParam, Parameter, WaitsShort, ParamFields

LEMMA InitOK == IrmpInit => RecOK(BOOLEAN, irmp)
  BY NoParamOK, EmptySeq DEF IrmpInit, RecOK, IrmpFields, LongestPause

LEMMA StoreOK ==
  ASSUME NEW S, NEW r, RecOK(S, r), NEW v \in Bits
  PROVE  RecOK(S, Store(r, v)) /\ Len(Store(r, v).bits) = Len(r.bits) + 1
  BY AppendProperties DEF RecOK, Store, IrmpFields

LEMMA RestedOK ==
  ASSUME NEW S, NEW r, RecOK(S, r)
  PROVE  /\ RecOK(S, Rested(r)) /\ ~Rested(r).started
         /\ RecOK(S, GiveUp(r)) /\ ~GiveUp(r).started
         /\ RecOK(S, Abandon(r)) /\ ~Abandon(r).started
  BY NoParamOK, EmptySeq DEF RecOK, Rested, GiveUp, Abandon, IrmpFields

LEMMA EndedOK ==
  ASSUME NEW S, NEW r, RecOK(S, r)
  PROVE  /\ RecOK(S, Ended(r))
         /\ Ended(r).param.stop_bit = 1
         /\ Ended(r).param.complete_len = r.param.complete_len
         /\ Ended(r).param.protocol = r.param.protocol
         /\ Ended(r).bits = r.bits
         /\ Ended(r).started = r.started
         /\ Ended(r).start_space = r.start_space
         /\ Ended(r).space = r.space
         /\ Ended(r).pause = r.pause
         /\ Ended(r).repeat_len = r.repeat_len
  BY DEF RecOK, Ended, IrmpFields, ParamOK, ParamFields, WaitsShort

LEMMA RelabelOK ==
  ASSUME NEW S, NEW r, RecOK(S, r), NEW p, p \notin {"GRUNDIG", "RUWIDO"},
         NEW a, NEW c, NEW n \in Nat
  PROVE  LET s == Relabel(r, p, a, c, n)
         IN /\ RecOK(S, s)
            /\ s.param.stop_bit = r.param.stop_bit
            /\ s.param.complete_len = n
            /\ s.param.protocol = p
            /\ s.bits = r.bits
            /\ s.started = r.started
            /\ s.start_space = r.start_space
            /\ s.space = r.space
            /\ s.pause = r.pause
            /\ s.repeat_len = r.repeat_len
  BY DEF RecOK, Relabel, IrmpFields, ParamOK, ParamFields, WaitsShort

\* What a start bit may select.
Detectable ==
    {sircs_param, nec_param, nec_rep_param, nec42_param, telefunken_param,
     pentax_param, nikon_param, samsung_param, samsungah_param,
     matsushita_param, kaseikyo_param, vincent_param, metz_param,
     recs80_param, rc5_param, denon_param, thomson_param, bose_param,
     rc6_param, recs80ext_param, nubert_param, speaker_param, grundig_param,
     ruwido_param, fdc_param, rccar_param, gree_param}

LEMMA ParametersOK ==
  \A p \in Detectable : ParamOK(p)
  <1>1. ParamOK(grundig_param)
    BY WindowsOK
       DEF grundig_param, Manchester, Parameter, ParamOK, ParamFields, WaitsShort
  <1>2. ParamOK(ruwido_param)
    BY WindowsOK
       DEF ruwido_param, Manchester, Parameter, ParamOK, ParamFields, WaitsShort
  <1>3. ParamOK(rc5_param) /\ ParamOK(rc6_param)
    <2>1. ParamOK(rc5_param)
      BY WindowsOK DEF rc5_param, Manchester, Parameter, ParamOK, ParamFields, WaitsShort
    <2>2. ParamOK(rc6_param)
      BY WindowsOK DEF rc6_param, Manchester, Parameter, ParamOK, ParamFields, WaitsShort
    <2> QED
      BY <2>1, <2>2
  <1>4. \A p \in Detectable \ {grundig_param, ruwido_param, rc5_param, rc6_param} :
           ParamOK(p)
    BY WindowsOK DEF Detectable, Parameter, ParamOK, ParamFields, WaitsShort,
           sircs_param, nec_param, nec_rep_param, nec42_param, telefunken_param,
           pentax_param, nikon_param, samsung_param, samsungah_param,
           matsushita_param, kaseikyo_param, vincent_param, metz_param,
           recs80_param, denon_param, thomson_param, bose_param,
           recs80ext_param, nubert_param, speaker_param,
           fdc_param, rccar_param, gree_param
  <1> QED
    BY <1>1, <1>2, <1>3, <1>4

LEMMA CandidatesDetectable ==
  ASSUME NEW r, NEW d \in 1 .. 28
  PROVE  Candidates(r)[d][2] \in Detectable
  BY DEF Candidates, Start, Detectable

LEMMA LeastExists ==
  ASSUME NEW A \in SUBSET Nat, A # {}
  PROVE  \E x \in A : \A y \in A : x <= y
  <1>1. \E x \in A : \A y \in A : << y, x >> \notin OpToRel(<, Nat)
    BY NatLessThanWellFounded, WFMin, Zenon
  <1>2. PICK x \in A : \A y \in A : << y, x >> \notin OpToRel(<, Nat)
    BY <1>1
  <1>3. ASSUME NEW y \in A
        PROVE  x <= y
    <2>1. << y, x >> \in Nat \X Nat
      OBVIOUS
    <2>2. ~(y < x)
      BY <1>2, <2>1 DEF OpToRel
    <2> QED
      BY <2>2
  <1> QED
    BY <1>3

LEMMA DetectedIn ==
  ASSUME NEW r, Detected(r) # 0
  PROVE  Detected(r) \in 1 .. 28
  <1> DEFINE I == {i \in 1 .. Len(Candidates(r)) : Candidates(r)[i][1]}
  <1>1. Len(Candidates(r)) = 28
    BY DEF Candidates
  <1>2. I # {} /\ Detected(r) = Min(I)
    BY DEF Detected, SelectInSeq
  <1>3. I \subseteq Nat
    OBVIOUS
  <1>4. \E x \in I : \A y \in I : x <= y
    <2> HIDE DEF I
    <2> QED
      BY <1>2, <1>3, LeastExists
  <1> QED
    BY <1>1, <1>2, <1>4 DEF Min

-----------------------------------------------------------------------------
(* Detection.                                                              *)

LEMMA Param2OK ==
  ASSUME NEW r
  PROVE  ParamOK(Param2(r)) /\ Param2(r).protocol \notin {"GRUNDIG", "RUWIDO"}
  <1>1. fdc_param.protocol = "FDC" /\ rccar_param.protocol = "RCCAR"
    BY DEF fdc_param, rccar_param, Parameter
  <1>2. fdc_param \in Detectable /\ rccar_param \in Detectable
    BY DEF Detectable
  <1> QED
    BY <1>1, <1>2, ParametersOK, NoParamOK DEF Param2

LEMMA BeginBiPhaseOK ==
  ASSUME NEW S, NEW r, RecOK(S, r)
  PROVE  RecOK(S, BeginBiPhase(r))
  <1>1. CASE r.param.protocol = "RC5"
    BY <1>1, Param2OK DEF BeginBiPhase, RecOK, IrmpFields
  <1>2. CASE r.param.protocol # "RC5"
    BY <1>2 DEF BeginBiPhase, RecOK, IrmpFields
  <1> QED
    BY <1>1, <1>2

LEMMA FirstHalfOK ==
  ASSUME NEW r
  PROVE  FirstHalf(r) \in {0, 1} /\ SecondHalf(r) \in {0, 1}
  BY DEF FirstHalf, SecondHalf

LEMMA FirstBitOK ==
  ASSUME NEW S, NEW r, RecOK(S, r)
  PROVE  RecOK(S, FirstBit(r))
  <1>1. \A v \in {0, 1} : RecOK(S, Store(r, v))
    BY StoreOK DEF Bits
  <1> QED
    BY <1>1, FirstHalfOK DEF FirstBit

LEMMA DetectOK ==
  ASSUME NEW r, RecOK(BOOLEAN, r)
  PROVE  RecOK({FALSE}, Detect(r)) /\ Detect(r).pause = 0
  <1> DEFINE next == [r EXCEPT !.bits = <<>>, !.bits2 = <<>>, !.param2 = NoParam,
                               !.start_space = FALSE]
             none == [next EXCEPT !.started = FALSE, !.param = NoParam]
             found(p) == [next EXCEPT !.param = p]
  <1>1. RecOK({FALSE}, next)
    BY NoParamOK, EmptySeq DEF RecOK, IrmpFields
  <1>2. RecOK({FALSE}, none)
    BY <1>1, NoParamOK DEF RecOK, IrmpFields
  <1>3. \A p \in Detectable : RecOK({FALSE}, found(p))
    BY <1>1, ParametersOK DEF RecOK, IrmpFields
  <1>4. PICK begun : /\ RecOK({FALSE}, begun)
                     /\ Detect(r) = [begun EXCEPT !.pulse = 1, !.pause = 0]
    <2>1. CASE Detected(r) = 0
      <3>1. Detect(r) = [none EXCEPT !.pulse = 1, !.pause = 0]
        BY <2>1 DEF Detect
      <3> QED
        BY <3>1, <1>2
    <2>2. CASE Detected(r) # 0
      <3> DEFINE p == Candidates(r)[Detected(r)][2]
      <3>1. p \in Detectable
        BY <2>2, DetectedIn, CandidatesDetectable
      <3>2. RecOK({FALSE}, FirstBit(BeginBiPhase(found(p))))
        BY <3>1, <1>3, BeginBiPhaseOK, FirstBitOK
      <3>3. Detect(r) = [FirstBit(BeginBiPhase(found(p)))
                           EXCEPT !.pulse = 1, !.pause = 0]
        BY <2>2 DEF Detect
      <3> QED
        BY <3>2, <3>3
    <2> QED
      BY <2>1, <2>2
  <1>5. \A S, s, t : RecOK(S, s) /\ t = [s EXCEPT !.pulse = 1, !.pause = 0] =>
           RecOK(S, t) /\ t.pause = 0
    BY DEF RecOK, IrmpFields
  <1> QED
    BY <1>4, <1>5, Zenon

-----------------------------------------------------------------------------
(* A pulse and a pause.                                                    *)

LEMMA LongPulseOK ==
  ASSUME NEW S, NEW r, RecOK(S, r)
  PROVE  RecOK(S, LongPulse(r))
  <1> DEFINE grown == IF IsRc6(r) /\ r.param.complete_len = Len(r.bits) + 1
                      THEN [r EXCEPT !.param.complete_len = @ + 1] ELSE r
             first == Store(grown, FirstHalf(r))
             second == SecondHalf(r)
  <1>1. RecOK(S, grown)
    BY DEF RecOK, IrmpFields, ParamOK, ParamFields, WaitsShort
  <1>2. \A s : RecOK(S, s) => \A v \in {0, 1} : RecOK(S, Store(s, v))
    BY StoreOK DEF Bits
  <1>3. \A s : RecOK(S, s) => \A v \in {0, 1} : RecOK(S, [s EXCEPT !.last_value = v])
    BY DEF RecOK, IrmpFields
  <1>4. RecOK(S, first)
    BY <1>1, <1>2, FirstHalfOK
  <1>5. LongPulse(r) =
          IF ToggleBit(r)
          THEN LET v == IF Rc6Long(grown) THEN 1 ELSE 0
               IN [Store(grown, v) EXCEPT !.last_value = v]
          ELSE IF ToggleBit(first)
          THEN [Store(first, 1) EXCEPT
                  !.last_value =
                    IF r.pause > 2 * r.param.windows.pause_1[2] THEN 0 ELSE 1]
          ELSE [Store(first, second) EXCEPT !.last_value = second]
    BY DEF LongPulse
  <1> HIDE DEF grown, first
  <1>6. CASE ToggleBit(r)
    <2>1. PICK v \in {0, 1} : LongPulse(r) = [Store(grown, v) EXCEPT !.last_value = v]
      BY <1>5, <1>6
    <2> QED
      BY <2>1, <1>1, <1>2, <1>3
  <1>7. CASE ~ToggleBit(r) /\ ToggleBit(first)
    <2>1. PICK v \in {0, 1} : LongPulse(r) = [Store(first, 1) EXCEPT !.last_value = v]
      BY <1>5, <1>7
    <2> QED
      BY <2>1, <1>4, <1>2, <1>3
  <1>8. CASE ~ToggleBit(r) /\ ~ToggleBit(first)
    <2>1. LongPulse(r) = [Store(first, second) EXCEPT !.last_value = second]
      BY <1>5, <1>8
    <2>2. second \in {0, 1}
      BY FirstHalfOK
    <2> QED
      BY <2>1, <2>2, <1>4, <1>2, <1>3
  <1> QED
    BY <1>6, <1>7, <1>8

LEMMA ShortPulseOK ==
  ASSUME NEW S, NEW r, RecOK(S, r)
  PROVE  RecOK(S, ShortPulse(r))
  <1>1. PICK v : v = IF Long(r.last_pause, r.param.windows.pause_1)
                     THEN 1 - r.last_value ELSE r.last_value
    OBVIOUS
  <1>2. v \in {0, 1}
    BY <1>1 DEF RecOK
  <1>3. PICK rc6a \in BOOLEAN : rc6a = (IsRc6(r) /\ Len(r.bits) = 1 /\ v = 1)
    OBVIOUS
  <1>4. PICK s : s = [r EXCEPT !.last_value = v,
                       !.param.complete_len = IF rc6a THEN 36 ELSE @,
                       !.param.address = IF rc6a THEN << 5, 20 >> ELSE @,
                       !.param.command = IF rc6a THEN << 21, 36 >> ELSE @]
    OBVIOUS
  <1>5. RecOK(S, s)
    BY <1>4, <1>2 DEF RecOK, IrmpFields, ParamOK, ParamFields, WaitsShort
  <1>6. ShortPulse(r) = Store(s, v)
    BY <1>1, <1>3, <1>4, Zenon DEF ShortPulse
  <1> QED
    BY <1>2, <1>5, <1>6, StoreOK DEF Bits

\* A reading of irmp_param2.
LEMMA Bit2OK ==
  ASSUME NEW r
  PROVE  Bit2(r) \subseteq {0, 1} /\ (Bit2(r) # {} => (CHOOSE b \in Bit2(r) : TRUE) \in {0, 1})
  BY DEF Bit2

LEMMA AtOK ==
  ASSUME NEW s \in Seq({0, 1}), NEW i \in Nat \ {0}
  PROVE  At(s, i) \in {0, 1}
  BY ElementOfSeq DEF At

LEMMA FunctionIsSeq ==
  ASSUME NEW T, NEW n \in Nat, NEW f \in [1 .. n -> T]
  PROVE  f \in Seq(T)
  OBVIOUS

LEMMA Store2OK ==
  ASSUME NEW S, NEW r, RecOK(S, r), NEW v \in {0, 1}
  PROVE  RecOK(S, Store2(r, v))
  <1> DEFINE k == Len(r.bits) - 1
             bits == [i \in 1 .. k |-> IF i = k THEN v ELSE At(r.bits2, i)]
  <1>1. CASE k < 1
    BY <1>1 DEF Store2
  <1>2. CASE ~(k < 1)
    <2>1. r.bits \in Seq(Bits) /\ r.bits2 \in Seq({0, 1})
      BY DEF RecOK
    <2>2. k \in Nat
      BY <1>2, <2>1, LenProperties
    <2>3. \A i \in 1 .. k : bits[i] \in {0, 1}
      BY <2>1, <2>2, AtOK
    <2>4. bits \in [1 .. k -> {0, 1}]
      BY <2>2, <2>3
    <2> HIDE DEF bits
    <2>5. bits \in Seq({0, 1})
      BY <2>2, <2>4, FunctionIsSeq
    <2>6. Store2(r, v) = [r EXCEPT !.bits2 = bits]
      BY <1>2 DEF Store2, bits
    <2> QED
      BY <2>5, <2>6 DEF RecOK, IrmpFields
  <1> QED
    BY <1>1, <1>2

LEMMA RecordWith ==
  ASSUME NEW S, NEW r, RecOK(S, r)
  PROVE  /\ \A b \in Seq(Bits) : RecOK(S, [r EXCEPT !.bits = b])
         /\ \A v \in BOOLEAN : /\ RecOK(S, [r EXCEPT !.space = v])
                             /\ [r EXCEPT !.space = v].space = v
                             /\ [r EXCEPT !.space = v].started = r.started
  BY DEF RecOK, IrmpFields

LEMMA BiPhasePairOK ==
  ASSUME NEW S, NEW r, RecOK(S, r)
  PROVE  RecOK(S, BiPhasePair(r)) /\ ~BiPhasePair(r).space
  <1> DEFINE w == r.param.windows.pulse_1
             stored == IF r.pulse > w[2] THEN LongPulse(r)
                       ELSE IF In(r.pulse, w) THEN ShortPulse(r)
                       ELSE r
             bit2 == IF IsParam2(r) THEN Bit2(r) ELSE {}
             b == CHOOSE b \in bit2 : TRUE
             bits == [i \in 1 .. Len(r.bits) |->
                        IF i = Len(r.bits) THEN b ELSE At(r.bits2, i)]
             other == [r EXCEPT !.bits = bits, !.param = r.param2, !.param2 = NoParam]
             next == IF r.pulse < w[1]
                     THEN IF bit2 = {} THEN Abandon(r) ELSE other
                     ELSE IF bit2 = {} THEN stored ELSE Store2(stored, b)
  <1>1. RecOK(S, stored)
    BY LongPulseOK, ShortPulseOK
  <1>2. bit2 # {} => b \in {0, 1}
    BY Bit2OK
  <1>3. bit2 # {} => RecOK(S, other)
    <2> SUFFICES ASSUME bit2 # {}
                 PROVE  RecOK(S, other)
      OBVIOUS
    <2>1. r.bits \in Seq(Bits) /\ r.bits2 \in Seq({0, 1}) /\ Len(r.bits) \in Nat
      BY LenProperties DEF RecOK
    <2>2. \A i \in 1 .. Len(r.bits) : bits[i] \in Bits
      BY <2>1, <1>2, AtOK DEF Bits
    <2>3. PICK s : s = bits
      OBVIOUS
    <2>4. s \in Seq(Bits)
      <3>1. s \in [1 .. Len(r.bits) -> Bits]
        BY <2>2, <2>3
      <3> QED
        BY <3>1, <2>1, FunctionIsSeq
    <2>5. RecOK(S, [r EXCEPT !.bits = s, !.param = r.param2, !.param2 = NoParam])
      BY <2>4, NoParamOK DEF RecOK, IrmpFields
    <2> QED
      BY <2>3, <2>5
  <1>4. RecOK(S, next)
    <2> HIDE DEF stored, bit2, b, other
    <2> QED
      BY <1>1, <1>2, <1>3, Store2OK, RestedOK
  <1>5. BiPhasePair(r) = [next EXCEPT !.last_pause = next.pause, !.space = FALSE]
    BY DEF BiPhasePair
  <1> HIDE DEF next
  <1>6. RecOK(S, BiPhasePair(r))
    BY <1>4, <1>5 DEF RecOK, IrmpFields
  <1>7. "space" \in DOMAIN next
    BY <1>4 DEF RecOK, IrmpFields
  <1> QED
    BY <1>5, <1>6, <1>7

LEMMA SamsungSyncOK ==
  ASSUME NEW S, NEW r, RecOK(S, r)
  PROVE  RecOK(S, SamsungSync(r))
  <1> DEFINE s == Relabel(r, "SAMSUNG48", r.param.address, << 16, 32 >>, 48)
  <1>1. RecOK(S, Abandon(r)) /\ RecOK(S, Store(r, 0))
    BY RestedOK, StoreOK DEF Bits
  <1>2. RecOK(S, s)
    BY RelabelOK
  <1>3. RecOK(S, Store(s, 0)) /\ RecOK(S, Store(s, 1))
    BY <1>2, StoreOK DEF Bits
  <1> QED
    BY <1>1, <1>3 DEF SamsungSync

LEMMA MelineraOK ==
  ASSUME NEW S, NEW r, RecOK(S, r)
  PROVE  RecOK(S, Melinera(r))
  <1>1. PICK s : s = Relabel(r, "MELINERA", None, << 0, 8 >>, 8)
    OBVIOUS
  <1>2. RecOK(S, s) /\ s.param.protocol = "MELINERA"
    BY <1>1, RelabelOK
  <1>3. PICK w : w = MELINERAWindows
    OBVIOUS
  <1>4. PICK p : p = [s.param EXCEPT !.windows = w, !.lsb_first = FALSE]
    OBVIOUS
  <1>5. ParamOK(p)
    <2>1. ParamOK(s.param) /\ w.pause_1[2] \in Nat
      BY <1>2, <1>3, WindowsOK DEF RecOK
    <2>2. /\ DOMAIN p = ParamFields
          /\ p.complete_len = s.param.complete_len
          /\ p.stop_bit = s.param.stop_bit
          /\ p.protocol = "MELINERA"
          /\ p.windows = w
      BY <1>2, <1>4, <2>1 DEF ParamOK, ParamFields
    <2> QED
      BY <2>1, <2>2 DEF ParamOK, WaitsShort
  <1>6. PICK m : m = [s EXCEPT !.param = p]
    OBVIOUS
  <1>7. RecOK(S, m)
    BY <1>2, <1>5, <1>6 DEF RecOK, IrmpFields
  <1>8. [s EXCEPT !.param.windows = MELINERAWindows, !.param.lsb_first = FALSE] = m
    BY <1>2, <1>3, <1>4, <1>6 DEF RecOK, IrmpFields
  <1>9. RecOK(S, Store(m, 0)) /\ RecOK(S, Store(m, 1))
    BY <1>7, StoreOK DEF Bits
  <1> QED
    BY <1>1, <1>8, <1>9 DEF Melinera

LEMMA PulsePairOK ==
  ASSUME NEW S, NEW r, RecOK(S, r)
  PROVE  RecOK(S, PulsePair(r)) /\ (PulsePair(r).started => ~PulsePair(r).space)
  <1> DEFINE next ==
          IF r.param.protocol = "SAMSUNG" /\ Len(r.bits) = 16 THEN SamsungSync(r)
          ELSE IF Nec16Sync(r) THEN Relabel(r, "NEC16", << 0, 8 >>, << 8, 16 >>, 16)
          ELSE IF IsOne(r) THEN Store(r, 1)
          ELSE IF IsZero(r) THEN Store(r, 0)
          ELSE IF MelineraBit(r) THEN Melinera(r)
          ELSE Abandon(r)
  <1>1. RecOK(S, Relabel(r, "NEC16", << 0, 8 >>, << 8, 16 >>, 16))
    BY RelabelOK
  <1>2. RecOK(S, Store(r, 0)) /\ RecOK(S, Store(r, 1)) /\ RecOK(S, Abandon(r))
    BY StoreOK, RestedOK DEF Bits
  <1>3. RecOK(S, next)
    BY <1>1, <1>2, SamsungSyncOK, MelineraOK
  <1>4. PulsePair(r) = [next EXCEPT !.space = IF next.started THEN FALSE ELSE @]
    BY DEF PulsePair
  <1> HIDE DEF next
  <1>5. next.space \in BOOLEAN /\ next.started \in BOOLEAN
    BY <1>3 DEF RecOK
  <1>6. PICK v \in BOOLEAN : /\ next.started => ~v
                            /\ PulsePair(r) = [next EXCEPT !.space = v]
    BY <1>4, <1>5
  <1> QED
    BY <1>3, <1>6, RecordWith

\* Whatever the pulse and the pause are, the pause is over.
LEMMA EvaluateOK ==
  ASSUME NEW S, NEW r, RecOK(S, r)
  PROVE  RecOK(S, Evaluate(r)) /\ (Evaluate(r).started => ~Evaluate(r).space)
  <1>1. PICK s : /\ RecOK(S, s) /\ (s.started => ~s.space)
                 /\ Evaluate(r) = [s EXCEPT !.pulse = 1]
    BY BiPhasePairOK, PulsePairOK DEF Evaluate
  <1>2. RecOK(S, Evaluate(r))
    BY <1>1 DEF RecOK, IrmpFields
  <1>3. Evaluate(r).started = s.started /\ Evaluate(r).space = s.space
    BY <1>1 DEF RecOK, IrmpFields
  <1> QED
    BY <1>1, <1>2, <1>3

-----------------------------------------------------------------------------
(* A frame is complete.                                                    *)

\* The stop bit is all that is missing.
Closing(r) == Len(r.bits) = r.param.complete_len /\ r.param.stop_bit = 1

\* A frame is timed out on the tick after Timeout, or has been given the length it
\* has so that the next tick completes it, or is waited for.
PauseOK(r) ==
    r.started /\ r.space =>
        \/ r.pause <= Timeout
        \/ r.pause = Timeout + 1 /\ Closing(r)
        \/ WaitsOn(r)

LEMMA ReportedOK ==
  ASSUME NEW S, NEW r, RecOK(S, r), NEW d, NEW a, NEW c
  PROVE  RecOK(S, Reported(r, d, a, c))
  BY DEF Reported, RecOK, IrmpFields

LEMMA DenonOK ==
  ASSUME NEW S, NEW r, RecOK(S, r)
  PROVE  RecOK(S, Denon(r))
  <1>1. PICK c, told : /\ c = TmpCommand(r)
                       /\ told = Reported(r, TRUE, TmpAddress(r), r.denon_last)
    OBVIOUS
  <1>2. RecOK(S, told)
    BY <1>1, ReportedOK
  <1>3. Denon(r) = IF 1023 - c = r.denon_last
                   THEN [told EXCEPT !.denon_last = 0, !.id = r.id]
                   ELSE IF c % 2 = 0
                   THEN [r EXCEPT !.denon_last = c, !.denon_len = 0]
                   ELSE [r EXCEPT !.denon_last = 0]
    BY <1>1 DEF Denon
  <1> QED
    BY <1>2, <1>3 DEF RecOK, IrmpFields

LEMMA FinishOK ==
  ASSUME NEW S, NEW r, RecOK(S, r)
  PROVE  RecOK(S, Finish(r)) /\ ~Finish(r).started
  <1> DEFINE n == Repetitions(r)
             p == r.param.protocol
             swallowed == [r EXCEPT !.repeat_len =
                             IF p \in {"NUBERT", "SPEAKER"} THEN 0 ELSE @]
             repeated == [r EXCEPT !.repeat_len = IF Repeats(r) THEN 0 ELSE @]
             next == IF Swallowed(r, n) THEN swallowed
                     ELSE IF p = "DENON" THEN Denon(r)
                     ELSE Reported(repeated, ~Rejected(r), AddressOf(r), CommandOf(r))
  <1>1. RecOK(S, swallowed) /\ RecOK(S, repeated)
    BY DEF RecOK, IrmpFields
  <1>2. RecOK(S, next)
    <2> HIDE DEF swallowed, repeated
    <2> QED
      BY <1>1, DenonOK, ReportedOK
  <1>3. Finish(r) = [Rested(next) EXCEPT
                       !.repetitions = n,
                       !.pulse = IF next.protocol = "JVC" THEN JvcStart ELSE 0]
    BY DEF Finish
  <1>4. RecOK(S, Rested(next)) /\ ~Rested(next).started
    BY <1>2, RestedOK
  <1> HIDE DEF next, n
  <1> QED
    BY <1>3, <1>4 DEF RecOK, IrmpFields

LEMMA CompletedOK ==
  ASSUME NEW S, NEW r, RecOK(S, r), PauseOK(r) \/ Complete(r)
  PROVE  RecOK(S, Completed(r)) /\ PauseOK(Completed(r))
  BY FinishOK DEF Completed, PauseOK

-----------------------------------------------------------------------------
(* Dark within a frame.                                                    *)

LEMMA EvaluatedOK ==
  ASSUME NEW S, NEW r, RecOK(S, r)
  PROVE  RecOK(S, Evaluate(r)) /\ PauseOK(Evaluate(r))
  BY EvaluateOK DEF PauseOK

LEMMA StopBitEnds ==
  ASSUME NEW S, NEW r, RecOK(S, r), r.started, ~r.start_space, StopBitOver(r)
  PROVE  RecOK(S, StopBit(r)) /\ (PauseOK(StopBit(r)) \/ Complete(StopBit(r)))
  <1> DEFINE s == [r EXCEPT !.param.stop_bit = 0]
  <1>1. RecOK(S, s) /\ Complete(s)
    BY DEF RecOK, IrmpFields, ParamOK, ParamFields, WaitsShort, Complete, StopBitOver
  <1>2. RecOK(S, GiveUp(r)) /\ PauseOK(GiveUp(r))
    BY RestedOK DEF PauseOK
  <1> QED
    BY <1>1, <1>2 DEF StopBit

LEMMA LengthOK ==
  ASSUME NEW S, NEW r, RecOK(S, r), NEW n \in Nat
  PROVE  LET s == [r EXCEPT !.param.complete_len = n]
         IN RecOK(S, s)
  BY DEF RecOK, IrmpFields, ParamOK, ParamFields, WaitsShort

LEMMA SircsEnds ==
  ASSUME NEW S, NEW r, RecOK(S, r)
  PROVE  RecOK(S, SircsLast(r)) /\ PauseOK(SircsLast(r))
  <1>1. SIRCSWindows.pause_1[2] - 1 \in Nat
    BY DEF SIRCSWindows, Windows, Within, MinMax, SIRCS, Repeated, PulseDistance
  <1>2. Len(r.bits) + 1 \in Nat
    BY LenProperties DEF RecOK
  <1>3. PICK s : s = [r EXCEPT !.param.complete_len = Len(r.bits) + 1,
                               !.more_bits = Len(r.bits) + 1 - 12,
                               !.pause = SIRCSWindows.pause_1[2] - 1]
    OBVIOUS
  <1>4. RecOK(S, s)
    <2>1. PICK n \in Nat : n = Len(r.bits) + 1
      BY <1>2
    <2>2. PICK p \in Nat : p = SIRCSWindows.pause_1[2] - 1
      BY <1>1
    <2>3. PICK m : m = Len(r.bits) + 1 - 12
      OBVIOUS
    <2>4. s = [r EXCEPT !.param.complete_len = n, !.more_bits = m, !.pause = p]
      BY <1>3, <2>1, <2>2, <2>3
    <2> QED
      BY <2>2, <2>4 DEF RecOK, IrmpFields, ParamOK, ParamFields, WaitsShort
  <1> QED
    BY <1>3, <1>4, EvaluatedOK DEF SircsLast

\* What a frame of GRUNDIG or RUWIDO takes for a long pause is no longer than 4 ms.
LEMMA LongDarkIsShort ==
  ASSUME NEW S, NEW r, RecOK(S, r), r.param.protocol \in {"GRUNDIG", "RUWIDO"},
         ~LongDark(r)
  PROVE  r.pause <= 200
  <1>1. PICK b : b = r.param.windows.pause_1[2]
    OBVIOUS
  <1>2. b \in Nat /\ b <= 100 /\ r.pause \in Nat
    BY <1>1 DEF RecOK, ParamOK, WaitsShort
  <1>3. ~(r.pause >= 2 * b)
    BY <1>1 DEF LongDark
  <1> QED
    BY <1>2, <1>3

LEMMA InfoFrameOK ==
  ASSUME NEW S, NEW r, RecOK(S, r), r.param.protocol = "GRUNDIG",
         r.param.stop_bit = 0
  PROVE  RecOK(S, InfoFrame(r)) /\ PauseOK(InfoFrame(r))
  <1>0. PICK n \in Nat : n = Len(r.bits)
    BY LenProperties DEF RecOK
  <1> DEFINE ir60 == Relabel(r, "IR60", None, << 0, 7 >>, 7)
             nokia == Relabel(r, "NOKIA", << 9, 17 >>, << 1, 9 >>, 17)
             grundig == [r EXCEPT !.param.complete_len = 10]
  <1>1. \/ n \in {0, 1, 2, 3, 4, 7} \/ n \in {5, 6} \/ n >= 8
    OBVIOUS
  <1>2. RecOK(S, ir60) /\ RecOK(S, nokia) /\ nokia.pause = r.pause
    BY RelabelOK
  <1>3. RecOK(S, grundig)
    BY LengthOK
  <1>4. RecOK(S, Evaluate(Ended(ir60))) /\ PauseOK(Evaluate(Ended(ir60)))
    BY <1>2, EndedOK, EvaluatedOK
  <1>5. RecOK(S, Evaluate(Ended(grundig))) /\ PauseOK(Evaluate(Ended(grundig)))
    BY <1>3, EndedOK, EvaluatedOK
  <1>6. InfoFrame(r) =
          IF r.pause > Ir60Timeout /\ n \in {5, 6} THEN Evaluate(Ended(ir60))
          ELSE IF LongDark(r) /\ n >= 8 THEN Evaluate(Ended(grundig))
          ELSE IF n >= 10 THEN nokia ELSE r
    BY <1>0 DEF InfoFrame
  <1> HIDE DEF ir60, nokia, grundig
  <1>7. CASE r.pause > Ir60Timeout /\ n \in {5, 6}
    BY <1>4, <1>6, <1>7
  <1>8. CASE LongDark(r) /\ n >= 8
    BY <1>5, <1>6, <1>8
  <1>9. CASE n >= 8 /\ ~LongDark(r)
    <2>1. r.pause <= Timeout
      BY <1>9, LongDarkIsShort DEF RecOK, Timeout
    <2>2. PauseOK(r) /\ PauseOK(nokia)
      BY <2>1, <1>2 DEF PauseOK
    <2> QED
      BY <1>1, <1>2, <1>6, <1>9, <2>2
  <1>10. CASE n \in {5, 6} /\ ~(r.pause > Ir60Timeout)
    <2>1. r.pause <= Timeout
      BY <1>10 DEF RecOK, Timeout, Ir60Timeout
    <2> QED
      BY <1>6, <1>10, <2>1 DEF PauseOK
  <1>11. CASE n \in {0, 1, 2, 3, 4, 7}
    <2>1. WaitsOn(r)
      BY <1>0, <1>11 DEF WaitsOn
    <2> QED
      BY <1>6, <1>11, <2>1 DEF PauseOK
  <1> QED
    BY <1>1, <1>7, <1>8, <1>9, <1>10, <1>11

LEMMA SiemensOK ==
  ASSUME NEW S, NEW r, RecOK(S, r), Len(r.bits) >= 17
  PROVE  RecOK(S, Siemens(r)) /\ Siemens(r).pause = r.pause
  <1> DEFINE tail == IF Len(r.bits) = 18 THEN << Lost >> ELSE << >>
             last == IF r.last_value = 1 THEN 1 ELSE r.bits[17]
             bits == SubSeq(r.bits, 1, 16) \o << last >> \o tail
             s == Relabel(r, "SIEMENS", << 0, 11 >>, << 11, 22 >>, 22)
  <1>1. r.bits \in Seq(Bits) /\ Len(r.bits) \in Nat
    BY LenProperties DEF RecOK
  <1>2. last \in Bits
    BY <1>1, ElementOfSeq DEF Bits
  <1>3. tail \in Seq(Bits)
    <2>1. << >> \in Seq(Bits) /\ << Lost >> \in Seq(Bits)
      BY DEF Bits
    <2> QED
      BY <2>1
  <1>4. SubSeq(r.bits, 1, 16) \in Seq(Bits)
    BY <1>1, ElementOfSeq, SubSeqProperties
  <1>5. << last >> \in Seq(Bits)
    BY <1>2
  <1>6. bits \in Seq(Bits)
    <2> HIDE DEF tail, last
    <2> QED
      BY <1>3, <1>4, <1>5, ConcatProperties
  <1>7. RecOK(S, s) /\ s.bits = r.bits /\ s.pause = r.pause
    BY RelabelOK
  <1>8. Siemens(r) = [s EXCEPT !.bits = bits]
    BY <1>7 DEF Siemens, RecOK, IrmpFields
  <1> HIDE DEF s, bits
  <1> QED
    BY <1>6, <1>7, <1>8 DEF RecOK, IrmpFields

LEMMA RuwidoFrameOK ==
  ASSUME NEW S, NEW r, RecOK(S, r), r.param.protocol = "RUWIDO",
         r.param.stop_bit = 0
  PROVE  RecOK(S, RuwidoFrame(r)) /\ PauseOK(RuwidoFrame(r))
  <1> DEFINE n == Len(r.bits)
             ruwido == [r EXCEPT !.param.complete_len = 17]
  <1>1. n \in Nat
    BY LenProperties DEF RecOK
  <1>2. RecOK(S, ruwido)
    BY LengthOK
  <1>3. RecOK(S, Evaluate(Ended(ruwido))) /\ PauseOK(Evaluate(Ended(ruwido)))
    BY <1>2, EndedOK, EvaluatedOK
  <1>4. RuwidoFrame(r) =
          IF LongDark(r) /\ n >= 15 THEN Evaluate(Ended(ruwido))
          ELSE IF n >= 17 THEN Siemens(r) ELSE r
    BY DEF RuwidoFrame
  <1> HIDE DEF ruwido
  <1>5. CASE LongDark(r) /\ n >= 15
    BY <1>3, <1>4, <1>5
  <1>6. CASE ~LongDark(r) /\ n >= 15
    <2>1. r.pause <= Timeout
      BY <1>6, LongDarkIsShort DEF RecOK, Timeout
    <2>2. n >= 17 => RecOK(S, Siemens(r)) /\ PauseOK(Siemens(r))
      BY <2>1, SiemensOK DEF PauseOK
    <2>3. PauseOK(r)
      BY <2>1 DEF PauseOK
    <2> QED
      BY <1>1, <1>4, <1>6, <2>2, <2>3
  <1>7. CASE n < 15
    <2>1. WaitsOn(r)
      BY <1>7 DEF WaitsOn
    <2> QED
      BY <1>1, <1>4, <1>7, <2>1 DEF PauseOK
  <1> QED
    BY <1>1, <1>5, <1>6, <1>7

LEMMA BiPhaseEnds ==
  ASSUME NEW S, NEW r, RecOK(S, r)
  PROVE  RecOK(S, BiPhaseLast(r)) /\ PauseOK(BiPhaseLast(r))
  <1>1. Len(r.bits) + 1 \in Nat
    BY LenProperties DEF RecOK
  <1>2. RecOK(S, [r EXCEPT !.param.complete_len = Len(r.bits) + 1])
    BY <1>1, LengthOK
  <1>3. PICK s : RecOK(S, s) /\ BiPhaseLast(r) = Evaluate(Ended(s))
    BY <1>2 DEF BiPhaseLast
  <1> QED
    BY <1>3, EndedOK, EvaluatedOK

LEMMA ClosingOK ==
  ASSUME NEW S, NEW r, RecOK(S, r), r.pause = Timeout + 1, r.started, ~r.start_space,
         Len(r.bits) = r.param.complete_len
  PROVE  PauseOK(r) \/ Complete(r)
  BY DEF RecOK, ParamOK, PauseOK, Closing, Complete

LEMMA JvcOK ==
  ASSUME NEW S, NEW r, RecOK(S, r), r.pause = Timeout + 1, r.started, ~r.start_space,
         NEW p, p \notin {"GRUNDIG", "RUWIDO"}, NEW a, NEW c
  PROVE  LET s == Ended(Relabel(r, p, a, c, Len(r.bits)))
         IN /\ RecOK(S, s) /\ PauseOK(s)
            /\ RecOK(S, [s EXCEPT !.param.lsb_first = FALSE])
            /\ PauseOK([s EXCEPT !.param.lsb_first = FALSE])
  <1>1. Len(r.bits) \in Nat
    BY LenProperties DEF RecOK
  <1>2. PICK s : s = Ended(Relabel(r, p, a, c, Len(r.bits)))
    OBVIOUS
  <1>3. RecOK(S, s) /\ s.pause = Timeout + 1 /\ Closing(s)
    BY <1>1, <1>2, RelabelOK, EndedOK DEF Closing
  <1>4. PICK t : t = [s EXCEPT !.param.lsb_first = FALSE]
    OBVIOUS
  <1>5. RecOK(S, t) /\ t.pause = Timeout + 1 /\ Closing(t)
    BY <1>3, <1>4 DEF Closing, RecOK, IrmpFields, ParamOK, ParamFields, WaitsShort
  <1> QED
    BY <1>2, <1>3, <1>4, <1>5 DEF PauseOK

LEMMA RelabelEnds ==
  ASSUME NEW S, NEW r, RecOK(S, r), r.pause = Timeout + 1, r.started, ~r.start_space,
         NEW p, p \notin {"GRUNDIG", "RUWIDO"}, NEW a, NEW c
  PROVE  LET s == Relabel(r, p, a, c, Len(r.bits))
         IN RecOK(S, s) /\ (PauseOK(s) \/ Complete(s))
  <1>1. Len(r.bits) \in Nat
    BY LenProperties DEF RecOK
  <1>2. PICK s : s = Relabel(r, p, a, c, Len(r.bits))
    OBVIOUS
  <1>3. /\ RecOK(S, s) /\ s.pause = Timeout + 1 /\ s.started /\ ~s.start_space
        /\ Len(s.bits) = s.param.complete_len
    BY <1>1, <1>2, RelabelOK
  <1> QED
    BY <1>2, <1>3, ClosingOK

\* What a tick of dark leaves: a pause within its limit, or a complete frame.
Outcome(S, s) == RecOK(S, s) /\ (PauseOK(s) \/ Complete(s))

LEMMA NecWithoutBitsOK ==
  ASSUME NEW S, NEW r, RecOK(S, r), r.started, ~r.start_space,
         r.param.protocol \in {"NEC", "NEC42"}, Len(r.bits) = 0,
         r.pause = Timeout + 1 \/ WaitsOn(r)
  PROVE  Outcome(S, NecWithoutBits(r))
  <1>1. CASE r.repeat_len < NecRepeatMax
    <2>1. r.pause = Timeout + 1
      BY <1>1 DEF WaitsOn, RecOK, NecRepeatMax
    <2>2. PICK s : s = Ended(Relabel(r, "NEC", None, None, 0))
      OBVIOUS
    <2>3. RecOK(S, s) /\ s.pause = Timeout + 1 /\ Closing(s)
      BY <2>1, <2>2, RelabelOK, EndedOK DEF Closing
    <2>4. PICK t : t = [s EXCEPT !.repeat_len = 0]
      OBVIOUS
    <2>5. RecOK(S, t) /\ PauseOK(t)
      BY <2>3, <2>4 DEF RecOK, IrmpFields, PauseOK, Closing
    <2>6. NecWithoutBits(r) = t
      BY <1>1, <2>2, <2>4 DEF NecWithoutBits
    <2> QED
      BY <2>5, <2>6 DEF Outcome
  <1>2. CASE ~(r.repeat_len < NecRepeatMax)
    <2>1. NecWithoutBits(r) = r
      BY <1>2 DEF NecWithoutBits
    <2>2. CASE r.param.complete_len # 0
      <3>1. WaitsOn(r)
        BY <1>2, <2>2 DEF WaitsOn, RecOK, NecRepeatMax
      <3> QED
        BY <2>1, <3>1 DEF Outcome, PauseOK
    <2>3. CASE r.param.complete_len = 0
      <3>1. r.pause = Timeout + 1
        BY <2>3 DEF WaitsOn
      <3> QED
        BY <2>1, <2>3, <3>1, ClosingOK DEF Outcome
    <2> QED
      BY <2>2, <2>3
  <1> QED
    BY <1>1, <1>2

LEMMA TechnicsOK ==
  ASSUME NEW S, NEW r, RecOK(S, r), r.pause = Timeout + 1, r.started, ~r.start_space,
         Len(r.bits) = 22
  PROVE  Outcome(S, Technics(r))
  <1>1. Outcome(S, Relabel(r, "TECHNICS", << 11, 22 >>, << 0, 11 >>, 22))
    BY RelabelEnds DEF Outcome
  <1>2. Outcome(S, GiveUp(r))
    BY RestedOK DEF Outcome, PauseOK
  <1> QED
    BY <1>1, <1>2 DEF Technics

LEMMA TimedOutOK ==
  ASSUME NEW S, NEW r, RecOK(S, r), r.started, ~r.start_space,
         \/ r.pause = Timeout + 1
         \/ WaitsOn(r) /\ r.param.protocol \in {"NEC", "NEC42"}
  PROVE  Outcome(S, TimedOut(r))
  <1>1. PICK n \in Nat : n = Len(r.bits)
    BY LenProperties DEF RecOK
  <1>2. PICK p : p = r.param.protocol
    OBVIOUS
  <1>3. ASSUME n = r.param.complete_len - 1, r.param.stop_bit = 0
        PROVE  Outcome(S, Store(r, 0))
    <2>1. RecOK(S, Store(r, 0)) /\ Len(Store(r, 0).bits) = Len(r.bits) + 1
      BY StoreOK DEF Bits
    <2>2. /\ Store(r, 0).param = r.param /\ Store(r, 0).started
          /\ ~Store(r, 0).start_space
      BY DEF Store, RecOK, IrmpFields
    <2> QED
      BY <1>1, <1>3, <2>1, <2>2 DEF Outcome, Complete, RecOK, ParamOK
  <1>4. ASSUME p \in {"NEC", "NEC42"}, n = 0
        PROVE  Outcome(S, NecWithoutBits(r))
    BY <1>1, <1>2, <1>4, NecWithoutBitsOK
  <1>5. ASSUME ~(p \in {"NEC", "NEC42"} /\ n = 0)
        PROVE  r.pause = Timeout + 1
    BY <1>1, <1>2, <1>5 DEF WaitsOn
  <1>6. ASSUME n # 0
        PROVE  /\ Outcome(S, Jvc(r, 16)) /\ Outcome(S, Jvc(r, 17))
               /\ Outcome(S, Lgair(r))
    BY <1>1, <1>5, <1>6, JvcOK DEF Jvc, Lgair, Outcome
  <1>7. ASSUME n = 32
        PROVE  /\ Outcome(S, Ended(Relabel(r, "NEC", << 0, 16 >>, << 16, 32 >>, 32)))
               /\ Outcome(S, Relabel(r, "SAMSUNG32", << 0, 16 >>, << 16, 32 >>, 32))
    <2>1. r.pause = Timeout + 1
      BY <1>5, <1>7
    <2>2. Len(r.bits) = 32
      BY <1>1, <1>7
    <2> QED
      BY <2>1, <2>2, JvcOK, RelabelEnds DEF Outcome
  <1>8. ASSUME n = 22
        PROVE  Outcome(S, Technics(r))
    <2>1. r.pause = Timeout + 1
      BY <1>5, <1>8
    <2>2. Len(r.bits) = 22
      BY <1>1, <1>8
    <2> QED
      BY <2>1, <2>2, TechnicsOK
  <1>9. Outcome(S, GiveUp(r))
    BY RestedOK DEF Outcome, PauseOK
  <1>10. TimedOut(r) =
           CASE n = r.param.complete_len - 1 /\ r.param.stop_bit = 0 -> Store(r, 0)
             [] p \in {"NEC", "NEC42"} /\ n = 0       -> NecWithoutBits(r)
             [] p = "NEC"   /\ n \in {16, 17}         -> Jvc(r, 16)
             [] p = "NEC42" /\ n \in {16, 17}         -> Jvc(r, 17)
             [] p = "NEC"   /\ n \in {28, 29}         -> Lgair(r)
             [] p = "NEC42" /\ n = 28                 -> Lgair(r)
             [] p = "NEC42" /\ n = 32 ->
                  Ended(Relabel(r, "NEC", << 0, 16 >>, << 16, 32 >>, 32))
             [] p = "SAMSUNG48" /\ n = 32 ->
                  Relabel(r, "SAMSUNG32", << 0, 16 >>, << 16, 32 >>, 32)
             [] p = "MATSUSHITA" /\ n = 22            -> Technics(r)
             [] OTHER                                 -> GiveUp(r)
    BY <1>1, <1>2 DEF TimedOut
  <1> QED
    BY <1>3, <1>4, <1>6, <1>7, <1>8, <1>9, <1>10

LEMMA DarkTickOK ==
  ASSUME NEW S, NEW r, RecOK(S, r), r.started, ~r.start_space,
         \/ r.pause <= Timeout + 1
         \/ r.pause = Timeout + 2 /\ Closing(r)
         \/ WaitsOn(r)
  PROVE  Outcome(S, DarkTick(r))
  <1>1. PICK p : p = r.param.protocol
    OBVIOUS
  <1>2. r.pause \in Nat
    BY DEF RecOK
  <1>3. DarkTick(r) =
          IF StopBitOver(r) THEN StopBit(r)
          ELSE IF SircsOver(r) THEN SircsLast(r)
          ELSE IF p = "GRUNDIG" /\ r.param.stop_bit = 0 THEN InfoFrame(r)
          ELSE IF p = "RUWIDO" /\ r.param.stop_bit = 0 THEN RuwidoFrame(r)
          ELSE IF BiPhaseOver(r) THEN BiPhaseLast(r)
          ELSE IF r.pause > Timeout THEN TimedOut(r)
          ELSE r
    BY <1>1 DEF DarkTick
  <1>4. StopBitOver(r) => Outcome(S, StopBit(r))
    BY StopBitEnds DEF Outcome
  <1>5. Outcome(S, SircsLast(r))
    BY SircsEnds DEF Outcome
  <1>6. p = "GRUNDIG" /\ r.param.stop_bit = 0 => Outcome(S, InfoFrame(r))
    BY <1>1, InfoFrameOK DEF Outcome
  <1>7. p = "RUWIDO" /\ r.param.stop_bit = 0 => Outcome(S, RuwidoFrame(r))
    BY <1>1, RuwidoFrameOK DEF Outcome
  <1>8. Outcome(S, BiPhaseLast(r))
    BY BiPhaseEnds DEF Outcome
  <1>9. ASSUME ~StopBitOver(r),
               ~(p = "GRUNDIG" /\ r.param.stop_bit = 0),
               ~(p = "RUWIDO" /\ r.param.stop_bit = 0),
               r.pause > Timeout
        PROVE  Outcome(S, TimedOut(r))
    <2>1. ~(r.pause = Timeout + 2 /\ Closing(r))
      BY <1>9 DEF Closing, StopBitOver, Timeout, StopBitPause
    <2>2. WaitsOn(r) => p \in {"NEC", "NEC42"}
      BY <1>1, <1>9 DEF WaitsOn
    <2>3. \/ r.pause = Timeout + 1
          \/ WaitsOn(r) /\ r.param.protocol \in {"NEC", "NEC42"}
      BY <1>1, <1>2, <1>9, <2>1, <2>2 DEF Timeout
    <2> QED
      BY <2>3, TimedOutOK
  <1>10. ASSUME ~(r.pause > Timeout)
         PROVE  Outcome(S, r)
    BY <1>2, <1>10 DEF Outcome, PauseOK, Timeout
  <1> QED
    BY <1>3, <1>4, <1>5, <1>6, <1>7, <1>8, <1>9, <1>10

-----------------------------------------------------------------------------
(* The steps of irmp_ISR.                                                  *)

StartOK(r) == r.started /\ r.start_space => r.pause <= TimeoutNikon

\* The inductive invariant.
DecoderOK(r) ==
    /\ RecOK(BOOLEAN, r)
    /\ StartOK(r)
    /\ ~r.start_space => PauseOK(r)

LEMMA InFrame ==
  ASSUME NEW r
  PROVE  /\ DecoderOK(r) /\ ~r.start_space => RecOK({FALSE}, r) /\ PauseOK(r)
         /\ RecOK({FALSE}, r) /\ PauseOK(r) => DecoderOK(r) /\ ~r.start_space
  BY DEF DecoderOK, StartOK, RecOK

LEMMA CompletedInv ==
  ASSUME NEW r, RecOK({FALSE}, r), PauseOK(r) \/ Complete(r)
  PROVE  DecoderOK(Completed(r))
  BY CompletedOK, InFrame

LEMMA PulseGrowsOK ==
  ASSUME NEW n \in Nat \ {0}, DecoderOK(irmp), PulseGrows(n)
  PROVE  DecoderOK(irmp')
  <1>1. PICK r, s : r = irmp /\ s = irmp'
    OBVIOUS
  <1>2. s = [r EXCEPT !.pulse = r.pulse + n] /\ DecoderOK(r)
    BY <1>1 DEF PulseGrows
  <1>3. DecoderOK(s)
    BY <1>2 DEF DecoderOK, StartOK, PauseOK, WaitsOn, Closing, RecOK, IrmpFields
  <1> QED
    BY <1>1, <1>3

LEMMA IdleOK ==
  ASSUME NEW n \in Nat \ {0}, DecoderOK(irmp), Idle(n)
  PROVE  DecoderOK(irmp')
  <1>1. PICK r, s : r = irmp /\ s = irmp'
    OBVIOUS
  <1>2. ~r.started /\ DecoderOK(r)
    BY <1>1 DEF Idle
  <1>3. PICK m, a, b : /\ m = Least(LongestPause, r.repeat_len + n)
                       /\ s = [r EXCEPT !.repeat_len = m, !.denon_len = a,
                                        !.denon_last = b]
    BY <1>1 DEF Idle
  <1>4. m \in Nat
    BY <1>2, <1>3 DEF DecoderOK, RecOK, Least, LongestPause, NecRepeatMax
  <1>5. DecoderOK(s)
    BY <1>2, <1>3, <1>4 DEF DecoderOK, StartOK, PauseOK, RecOK, IrmpFields
  <1> QED
    BY <1>1, <1>5

LEMMA StartPauseGrowsOK ==
  ASSUME NEW n \in Nat \ {0}, DecoderOK(irmp), StartPauseGrows(n)
  PROVE  DecoderOK(irmp')
  <1>1. PICK q, s : q = irmp /\ s = irmp'
    OBVIOUS
  <1>2. PICK r : r = [q EXCEPT !.pause = q.pause + n]
    OBVIOUS
  <1>3. RecOK(BOOLEAN, q) /\ q.start_space
    BY <1>1 DEF StartPauseGrows, DecoderOK
  <1>4. RecOK(BOOLEAN, r) /\ r.start_space /\ r.pause \in Nat
    <2>1. PICK m : m = q.pause + n
      OBVIOUS
    <2>2. m \in Nat
      BY <1>3, <2>1 DEF RecOK
    <2>3. \A S : RecOK(S, q) => RecOK(S, r)
      BY <1>2, <2>1, <2>2 DEF RecOK, IrmpFields
    <2>4. r.pause = m /\ r.start_space = q.start_space
      BY <1>2, <1>3, <2>1 DEF RecOK, IrmpFields
    <2> QED
      BY <1>3, <2>2, <2>3, <2>4
  <1>5. \/ s = GiveUp(r)
        \/ s = r /\ ~(r.pause > TimeoutNikon)
    BY <1>1, <1>2 DEF StartPauseGrows
  <1>6. CASE s = GiveUp(r)
    <2>1. RecOK(BOOLEAN, GiveUp(r)) /\ ~GiveUp(r).started
      BY <1>4, RestedOK
    <2> QED
      BY <1>1, <1>6, <2>1 DEF DecoderOK, StartOK, PauseOK
  <1>7. CASE s = r /\ ~(r.pause > TimeoutNikon)
    <2>1. r.pause <= TimeoutNikon
      BY <1>4, <1>7 DEF TimeoutNikon
    <2> QED
      BY <1>1, <1>4, <1>7, <2>1 DEF DecoderOK, StartOK
  <1> QED
    BY <1>5, <1>6, <1>7

LEMMA PauseGrowsOK ==
  ASSUME NEW n \in Nat \ {0}, DecoderOK(irmp), Skippable(n), PauseGrows(n)
  PROVE  DecoderOK(irmp')
  <1>1. PICK q : q = irmp
    OBVIOUS
  <1>2. PICK m : m = Least(LongestPause, q.pause + n)
    OBVIOUS
  <1>3. PICK r : r = [q EXCEPT !.pause = m]
    OBVIOUS
  <1>4. irmp' = Completed(DarkTick(r))
    BY <1>1, <1>2, <1>3 DEF PauseGrows
  <1>5. /\ q.started /\ ~q.start_space /\ q.space /\ q.pause \in Nat
        /\ RecOK({FALSE}, q) /\ PauseOK(q)
    BY <1>1, InFrame DEF PauseGrows, InPause, DecoderOK, RecOK
  <1>6. /\ q.pause <= Timeout => q.pause + n <= Timeout + 1
        /\ q.pause <= Timeout + 1 => q.pause + n <= Timeout + 2
    BY <1>1, <1>5 DEF Skippable, Thresholds, Timeout
  <1>7. /\ m \in Nat
        /\ q.pause <= Timeout => m <= Timeout + 1
        /\ q.pause = Timeout + 1 => m = Timeout + 2
    BY <1>2, <1>5, <1>6 DEF Least, LongestPause, NecRepeatMax, Timeout
  <1>8. /\ r.started /\ ~r.start_space /\ r.pause = m
        /\ Closing(q) => Closing(r)
        /\ WaitsOn(q) => WaitsOn(r)
    BY <1>3, <1>5 DEF RecOK, IrmpFields, Closing, WaitsOn
  <1>9. \A S : RecOK(S, q) => RecOK(S, r)
    BY <1>3, <1>7 DEF RecOK, IrmpFields
  <1>10. \/ r.pause <= Timeout + 1
         \/ r.pause = Timeout + 2 /\ Closing(r)
         \/ WaitsOn(r)
    BY <1>5, <1>7, <1>8 DEF PauseOK
  <1>11. Outcome({FALSE}, DarkTick(r))
    BY <1>5, <1>8, <1>9, <1>10, DarkTickOK
  <1> QED
    BY <1>4, <1>11, CompletedInv DEF Outcome

LEMMA FirstPulseEndsOK ==
  ASSUME DecoderOK(irmp), FirstPulseEnds
  PROVE  DecoderOK(irmp')
  <1>1. PICK r, s : r = irmp /\ s = irmp'
    OBVIOUS
  <1>2. /\ DecoderOK(r)
        /\ s = [r EXCEPT !.started = TRUE, !.start_space = TRUE,
                         !.space = FALSE, !.pause = 1, !.bit6 = 0,
                         !.more_bits = 0]
    BY <1>1 DEF FirstPulseEnds
  <1>3. DecoderOK(s)
    BY <1>2 DEF DecoderOK, StartOK, RecOK, IrmpFields, TimeoutNikon
  <1> QED
    BY <1>1, <1>3

LEMMA StartPauseEndsOK ==
  ASSUME DecoderOK(irmp), StartPauseEnds
  PROVE  DecoderOK(irmp')
  <1>1. PICK s : s = Detect(irmp)
    OBVIOUS
  <1>2. RecOK({FALSE}, s) /\ s.pause = 0
    BY <1>1, DetectOK DEF DecoderOK
  <1>3. PauseOK(s)
    BY <1>2 DEF PauseOK, Timeout
  <1> QED
    BY <1>1, <1>2, <1>3, CompletedInv DEF StartPauseEnds

LEMMA PulseEndsOK ==
  ASSUME DecoderOK(irmp), PulseEnds
  PROVE  DecoderOK(irmp')
  <1>1. PICK r : r = irmp
    OBVIOUS
  <1>2. PICK s : s = [r EXCEPT !.space = TRUE, !.pause = 1]
    OBVIOUS
  <1>3. RecOK({FALSE}, r)
    BY <1>1, InFrame DEF PulseEnds, InPulse
  <1>4. \A S : RecOK(S, r) => RecOK(S, s) /\ s.pause = 1
    BY <1>2 DEF RecOK, IrmpFields
  <1>5. RecOK({FALSE}, s) /\ PauseOK(s)
    BY <1>3, <1>4 DEF PauseOK, Timeout
  <1> QED
    BY <1>1, <1>2, <1>5, CompletedInv DEF PulseEnds

LEMMA PauseEndsOK ==
  ASSUME DecoderOK(irmp), PauseEnds
  PROVE  DecoderOK(irmp')
  <1>1. RecOK({FALSE}, irmp)
    BY InFrame DEF PauseEnds, InPause
  <1>2. RecOK({FALSE}, Evaluate(irmp)) /\ PauseOK(Evaluate(irmp))
    BY <1>1, EvaluatedOK
  <1> QED
    BY <1>2, CompletedInv DEF PauseEnds

LEMMA GetDataOK ==
  ASSUME DecoderOK(irmp), GetData
  PROVE  DecoderOK(irmp')
  <1>1. PICK r, s : r = irmp /\ s = irmp'
    OBVIOUS
  <1>2. PICK p : s = [r EXCEPT !.detected = FALSE, !.protocol = p]
    BY <1>1 DEF GetData
  <1>3. DecoderOK(s)
    BY <1>1, <1>2 DEF DecoderOK, StartOK, PauseOK, WaitsOn, Closing, RecOK, IrmpFields
  <1> QED
    BY <1>1, <1>3

LEMMA DecoderStepOK ==
  ASSUME DecoderOK(irmp), [DecoderNext]_irmp
  PROVE  DecoderOK(irmp')
  <1>1. CASE UNCHANGED irmp
    BY <1>1
  <1>2. CASE DecoderNext
    BY <1>2, PulseGrowsOK, IdleOK, StartPauseGrowsOK, PauseGrowsOK,
       FirstPulseEndsOK, StartPauseEndsOK, PulseEndsOK, PauseEndsOK, GetDataOK
       DEF DecoderNext
  <1> QED
    BY <1>1, <1>2

\* Whatever light the receiver sees, and whenever it is asked for a result: a frame
\* is over after 15.5 ms of dark, or 29.5 ms after its first pulse, unless it is one
\* of those that irmp.c waits for (irmp.c, IRMP_TIMEOUT_LEN).
THEOREM FramesTimeOut == DecoderSpec => [](TimesOut \/ Stalled)
  <1>1. IrmpInit => DecoderOK(irmp)
    BY InitOK DEF IrmpInit, DecoderOK, StartOK, PauseOK
  <1>2. DecoderOK(irmp) /\ [DecoderNext]_irmp => DecoderOK(irmp)'
    BY DecoderStepOK
  <1>3. DecoderOK(irmp) => TimesOut \/ Stalled
    BY DEF DecoderOK, RecOK, StartOK, PauseOK, TimesOut, Stalled, InPulse, InPause,
           Timeout, TimeoutNikon
  <1> QED
    BY <1>1, <1>2, <1>3, PTL DEF DecoderSpec

\* What IrLink lets pass at once is only ever counted.
LEMMA AheadIsSkippable ==
  ASSUME NEW n \in Nat \ {0}, DecoderOK(irmp)
  PROVE  Ahead(n) \in Nat \ {0} /\ Ahead(n) <= n /\ Skippable(Ahead(n))
  <1>1. irmp.pause \in Nat /\ irmp.param.windows.pause_1[2] \in Nat
    BY DEF DecoderOK, RecOK, ParamOK
  <1>2. Thresholds \subseteq Int
    BY <1>1, WindowsOK
       DEF Thresholds, Ir60Timeout, StopBitPause, Timeout, TimeoutNikon
  <1>3. PICK A : A = {n} \cup {t + 1 - irmp.pause :
                                t \in {t \in Thresholds : t >= irmp.pause}}
    OBVIOUS
  <1>4. A \subseteq Nat \ {0} /\ n \in A
    BY <1>1, <1>2, <1>3
  <1>5. PICK a : a = Min(A)
    OBVIOUS
  <1>6. a \in A /\ \A k \in A : a <= k
    BY <1>4, <1>5, LeastExists DEF Min
  <1>7. Ahead(n) = a
    BY <1>3, <1>5, Zenon DEF Ahead
  <1>8. a \in Nat \ {0} /\ a <= n
    BY <1>4, <1>6
  <1>9. ASSUME NEW t \in Thresholds, irmp.pause <= t
        PROVE  irmp.pause + a <= t + 1
    <2>1. t \in Int /\ a \in Int
      BY <1>2, <1>8, <1>9
    <2>2. t + 1 - irmp.pause \in A
      BY <1>1, <1>3, <1>9, <2>1
    <2>3. a <= t + 1 - irmp.pause
      BY <1>6, <2>2
    <2> QED
      BY <1>1, <2>1, <2>3
  <1> QED
    BY <1>7, <1>8, <1>9 DEF Skippable

-----------------------------------------------------------------------------
(* The light of a sender.                                                  *)

\* Pulses and pauses last a tenth of a millisecond and more.
Times == {us \in Nat : us >= 100}

LightTimes(pair) == pair[1] \in Times /\ pair[2] \in Times

TimesOK(n, p) ==
    /\ p.manchester \in BOOLEAN
    /\ LightTimes(p.one) /\ LightTimes(p.zero)
    /\ \/ LightTimes(p.start)
       \/ n \in {"DENON", "THOMSON"} /\ p.start = <<0, 0>> /\ ~p.manchester
    /\ p.pause \in Times
    /\ p.frames \in Nat \ {0} /\ p.gap \in Nat
    /\ p.frames > 1 \/ n \in InfoFrames => p.gap \in Times

LEMMA PulseTimesOK ==
  /\ \A x : TimesOK("SIRCS", [SIRCS EXCEPT !.len = x])
  /\ TimesOK("NEC", NEC) /\ TimesOK("ONKYO", NEC) /\ TimesOK("NEC42", NEC42)
  /\ TimesOK("NEC16", [NEC16 EXCEPT !.len = 17]) /\ TimesOK("LGAIR", LGAIR)
  /\ TimesOK("MELINERA", MELINERA) /\ TimesOK("SAMSUNG", SAMSUNG)
  /\ TimesOK("SAMSUNG32", SAMSUNG32) /\ TimesOK("SAMSUNG48", SAMSUNG48)
  BY DEF TimesOK, LightTimes, Times, InfoFrames, PulseDistance, Repeated,
         SIRCS, NEC, NEC42, NEC16, LGAIR, MELINERA, SAMSUNG, SAMSUNG32, SAMSUNG48

LEMMA MorePulseTimesOK ==
  /\ TimesOK("MATSUSHITA", MATSUSHITA) /\ TimesOK("TECHNICS", TECHNICS)
  /\ TimesOK("KASEIKYO", KASEIKYO) /\ TimesOK("RECS80", RECS80)
  /\ TimesOK("RECS80EXT", RECS80EXT) /\ TimesOK("DENON", DENON)
  /\ TimesOK("THOMSON", THOMSON) /\ TimesOK("BOSE", BOSE)
  /\ TimesOK("NUBERT", NUBERT) /\ TimesOK("SPEAKER", SPEAKER)
  /\ TimesOK("TELEFUNKEN", TELEFUNKEN) /\ TimesOK("FDC", FDC)
  /\ TimesOK("RCCAR", RCCAR) /\ TimesOK("JVC", JVC)
  /\ TimesOK("NIKON", NIKON) /\ TimesOK("PENTAX", PENTAX)
  BY DEF TimesOK, LightTimes, Times, InfoFrames, PulseDistance, Repeated,
         MATSUSHITA, TECHNICS, KASEIKYO, RECS80, RECS80EXT, DENON, THOMSON, BOSE,
         NUBERT, SPEAKER, TELEFUNKEN, FDC, RCCAR, JVC, NIKON, PENTAX

LEMMA BiPhaseTimesOK ==
  /\ TimesOK("RC5", RC5) /\ TimesOK("RC6", RC6) /\ TimesOK("RC6A", RC6A)
  /\ TimesOK("GRUNDIG", GRUNDIG) /\ TimesOK("NOKIA", NOKIA)
  /\ TimesOK("IR60", IR60)
  /\ TimesOK("RUWIDO", RUWIDO) /\ TimesOK("SIEMENS", SIEMENS)
  BY DEF TimesOK, LightTimes, Times, InfoFrames, BiPhase, Repeated,
         RC5, RC6, RC6A, GrundigNokiaIr60, GRUNDIG, NOKIA, IR60, RUWIDO, SIEMENS

LEMMA FrameOK ==
  ASSUME NEW code, code.protocol \in Protocols, NEW t
  PROVE  TimesOK(FrameOf(code, t).protocol, FrameOf(code, t).times)
  BY PulseTimesOK, MorePulseTimesOK, BiPhaseTimesOK DEF FrameOf, Frame, Protocols

\* A run of light or dark; after light comes dark, and what moves by a tick has
\* more than one.
Run == [light : BOOLEAN, n : Nat \ {0}]

RunsOK(runs) ==
    /\ runs \in Seq(Run)
    /\ \A i \in 1 .. Len(runs) :
         runs[i].light => /\ runs[i].n >= 2
                          /\ i < Len(runs) => ~runs[i + 1].light /\ runs[i + 1].n >= 2

\* DENON and THOMSON have no start bit, and none of their bits is a pulse with
\* the pause of one.
BitsOK(s) ==
    s.protocol \in {"DENON", "THOMSON"} /\ s.current_bit # StartBit =>
        s.current_bit >= s.len \/ s.buffer[s.current_bit + 1] # Sync

NoSync(n, buffer) ==
    /\ n = "DENON" => \A k \in 1 .. 31 : buffer[k] # Sync
    /\ n = "THOMSON" => \A k \in 1 .. 12 : buffer[k] # Sync

CodeOK(n, p, buffer) ==
    /\ TimesOK(n, p)
    /\ n = "DENON" => p.len = 15
    /\ n = "THOMSON" => p.len = 12
    /\ NoSync(n, buffer)

\* While frames are under way: a pause is left between two of them, and no bit
\* comes from behind the code.
UnderWay(s) ==
    /\ s.n_auto \in Nat /\ s.auto_counter < s.n_auto
    /\ s.auto_pause \in Nat
    /\ s.n_auto > 1 \/ s.protocol \in InfoFrames => s.auto_pause >= 2
    /\ s.protocol = "DENON" => s.len \in Nat /\ s.len <= 31
    /\ s.protocol = "THOMSON" => s.len \in Nat /\ s.len <= 12

\* What irsnd_ISR computes the next runs from.
IrsndFields == {"busy", "protocol", "times", "buffer", "repeat", "current_bit",
                "new_frame", "len", "n_auto", "auto_counter", "auto_pause",
                "n_repeat", "repeat_counter", "trailing", "send_trailer"}

Bit == {0, 1}

SenderOK(s) ==
    /\ DOMAIN s = IrsndFields
    /\ CodeOK(s.protocol, s.times, s.buffer)
    /\ s.current_bit \in Nat
    /\ s.trailing \in Nat
    /\ s.auto_counter \in Nat
    /\ s.busy \/ (s.new_frame /\ s.auto_counter = 0)
    /\ (s.new_frame /\ s.auto_counter = 0) \/ UnderWay(s)

SenderInv == SenderOK(irsnd) /\ toggle \in [Toggles -> Bit] /\ RunsOK(todo)

LEMMA TicksOK == \A us \in Times : Ticks(us) \in Nat /\ Ticks(us) >= 5
  BY DEF Times, Ticks

LEMMA Cells ==
  ASSUME NEW a \in Nat, NEW b \in Nat, a >= 2, b >= 2
  PROVE  RunsOK(<<Light(a), Dark(b)>>) /\ RunsOK(<<Dark(b), Light(a)>>)
  <1>1. Light(a) \in Run /\ Dark(b) \in Run
    BY DEF Light, Dark, Run
  <1>2. /\ <<Light(a), Dark(b)>> \in Seq(Run) /\ Len(<<Light(a), Dark(b)>>) = 2
        /\ <<Dark(b), Light(a)>> \in Seq(Run) /\ Len(<<Dark(b), Light(a)>>) = 2
    BY <1>1
  <1> QED
    BY <1>2 DEF RunsOK, Light, Dark

LEMMA OneRun ==
  ASSUME NEW n \in Nat \ {0}
  PROVE  RunsOK(<<Dark(n)>>)
  <1>1. Dark(n) \in Run
    BY DEF Dark, Run
  <1>2. <<Dark(n)>> \in Seq(Run) /\ Len(<<Dark(n)>>) = 1
    BY <1>1
  <1> QED
    BY <1>2 DEF RunsOK, Dark

LEMMA GapFirst ==
  ASSUME NEW n \in Nat \ {0}, NEW runs, RunsOK(runs)
  PROVE  RunsOK(<<Dark(n)>> \o runs)
  <1>1. PICK all : all = <<Dark(n)>> \o runs
    OBVIOUS
  <1>2. Dark(n) \in Run /\ ~Dark(n).light
    BY DEF Dark, Run
  <1>3. /\ all \in Seq(Run) /\ Len(all) = Len(runs) + 1
        /\ all[1] = Dark(n)
        /\ \A i \in 2 .. Len(all) : all[i] = runs[i - 1]
    BY <1>1, <1>2 DEF RunsOK
  <1>4. ASSUME NEW i \in 1 .. Len(all), all[i].light
        PROVE  /\ all[i].n >= 2
               /\ i < Len(all) => ~all[i + 1].light /\ all[i + 1].n >= 2
    <2>1. PICK k : k = i - 1
      OBVIOUS
    <2>2. i # 1
      BY <1>2, <1>3, <1>4
    <2>3. k \in 1 .. Len(runs) /\ all[i] = runs[k] /\ i = k + 1
      BY <1>3, <2>1, <2>2 DEF RunsOK
    <2>4. i < Len(all) => k < Len(runs) /\ all[i + 1] = runs[k + 1]
      BY <1>3, <2>3 DEF RunsOK
    <2> QED
      BY <1>4, <2>3, <2>4 DEF RunsOK
  <1> QED
    BY <1>1, <1>3, <1>4 DEF RunsOK

LEMMA PulseCellOK ==
  ASSUME NEW s, TimesOK(s.protocol, s.times), BitsOK(s), ~s.times.manchester
  PROVE  \/ \E a, b \in Nat : a >= 2 /\ b >= 2 /\ PulseCell(s) = <<Light(a), Dark(b)>>
         \/ PulseCell(s) = <<Light(0), Dark(1)>>
  <1>1. PICK start, one, zero, k :
          /\ start = s.times.start /\ one = s.times.one /\ zero = s.times.zero
          /\ k = s.current_bit
    OBVIOUS
  <1>2. LightTimes(one) /\ LightTimes(zero)
    BY <1>1 DEF TimesOK
  <1>3. \A pair : LightTimes(pair) =>
          /\ Ticks(pair[1]) \in Nat /\ Ticks(pair[1]) >= 5
          /\ Ticks(pair[2]) \in Nat /\ Ticks(pair[2]) >= 5
    BY TicksOK DEF LightTimes
  <1>4. CASE k = StartBit /\ s.protocol \in {"NIKON", "PENTAX", "DENON", "THOMSON"}
    <2>1. PulseCell(s) = <<Light(Ticks(start[1])), Dark(Ticks(start[2]) + 1)>>
      BY <1>1, <1>4 DEF PulseCell
    <2>2. CASE LightTimes(start)
      BY <1>3, <2>1, <2>2
    <2>3. CASE start = <<0, 0>>
      <3>1. Ticks(start[1]) = 0 /\ Ticks(start[2]) + 1 = 1
        BY <2>3 DEF Ticks
      <3> QED
        BY <2>1, <3>1
    <2> QED
      BY <1>1, <2>2, <2>3 DEF TimesOK
  <1>5. CASE ~(k = StartBit /\ s.protocol \in {"NIKON", "PENTAX", "DENON", "THOMSON"})
    <2> DEFINE C(pair) == <<Light(Ticks(pair[1])), Dark(Ticks(pair[2]))>>
    <2>1. CASE k = StartBit
      <3>1. LightTimes(start) /\ LightTimes(<<start[1], NecRepeatPause>>)
        BY <1>1, <1>5, <2>1 DEF TimesOK, LightTimes, NecRepeatPause, Times
      <3>2. PulseCell(s) \in {C(start), C(<<start[1], NecRepeatPause>>)}
        BY <1>1, <1>5, <2>1 DEF PulseCell
      <3>3. PICK pair : LightTimes(pair) /\ PulseCell(s) = C(pair)
        BY <3>1, <3>2
      <3> QED
        BY <1>3, <3>3
    <2>2. CASE k # StartBit /\ ~(k >= s.len) /\ s.buffer[k + 1] = Sync
      <3>1. LightTimes(start)
        BY <1>1, <2>2 DEF TimesOK, BitsOK
      <3>2. LightTimes(<<zero[1], start[2]>>)
        BY <1>2, <3>1 DEF LightTimes
      <3>3. PulseCell(s) = C(<<zero[1], start[2]>>)
        BY <1>1, <2>2 DEF PulseCell
      <3> HIDE DEF C
      <3>4. PICK pair : LightTimes(pair) /\ PulseCell(s) = C(pair)
        BY <3>2, <3>3
      <3> QED
        BY <1>3, <3>4 DEF C
    <2>3. CASE k # StartBit /\ (k >= s.len \/ s.buffer[k + 1] # Sync)
      <3>1. PulseCell(s) \in {C(one), C(zero)}
        BY <1>1, <2>3 DEF PulseCell
      <3>2. PICK pair : LightTimes(pair) /\ PulseCell(s) = C(pair)
        BY <1>2, <3>1
      <3> QED
        BY <1>3, <3>2
    <2> QED
      BY <2>1, <2>2, <2>3
  <1> QED
    BY <1>4, <1>5

LEMMA BiPhaseCellOK ==
  ASSUME NEW s, TimesOK(s.protocol, s.times), s.times.manchester
  PROVE  \E a, b \in Nat : /\ a >= 2 /\ b >= 2
                           /\ BiPhaseCell(s) \in {<<Light(a), Dark(b)>>, <<Dark(b), Light(a)>>}
  <1>1. PICK n : n = BiPhaseLengths(s)
    OBVIOUS
  <1>2. PICK start, one, info :
          /\ start = s.times.start /\ one = s.times.one
          /\ info = (s.protocol \in InfoFrames /\ IsStart(s))
    OBVIOUS
  <1>3. \A us \in {start[1], start[2], one[1], one[2], Rc6Bit2, Rc6Bit3} :
          Ticks(us) \in Nat /\ Ticks(us) >= 5
    BY <1>2, TicksOK DEF TimesOK, LightTimes, Times, Rc6Bit2, Rc6Bit3
  <1>4. n \in {<<Ticks(start[1]), Ticks(start[2]) - 1>>, <<Ticks(Rc6Bit2), Ticks(Rc6Bit2)>>,
               <<Ticks(Rc6Bit3), Ticks(Rc6Bit2)>>, <<Ticks(one[1]), Ticks(Rc6Bit2)>>,
               <<Ticks(one[1]), Ticks(one[2])>>}
    BY <1>1, <1>2 DEF BiPhaseLengths
  <1>5. n[1] \in Nat /\ n[1] >= 2 /\ n[2] \in Nat /\ n[2] >= 2
    BY <1>3, <1>4
  <1>6. BiPhaseCell(s) \in {<<Light(n[1]), Dark(n[2])>>, <<Dark(n[2]), Light(n[1])>>}
    BY <1>1 DEF BiPhaseCell
  <1> QED
    BY <1>5, <1>6

LEMMA CellOK ==
  ASSUME NEW s, TimesOK(s.protocol, s.times), BitsOK(s)
  PROVE  RunsOK(Cell(s))
  <1>1. CASE s.times.manchester
    <2>1. PICK a \in Nat, b \in Nat :
            /\ a >= 2 /\ b >= 2
            /\ BiPhaseCell(s) \in {<<Light(a), Dark(b)>>, <<Dark(b), Light(a)>>}
      BY <1>1, BiPhaseCellOK
    <2>2. BiPhaseCell(s)[1].n # 0
      BY <2>1 DEF Light, Dark
    <2>3. Cell(s) = BiPhaseCell(s)
      BY <1>1, <2>2 DEF Cell
    <2> QED
      BY <2>1, <2>3, Cells
  <1>2. CASE ~s.times.manchester
    <2>1. Cell(s) = IF PulseCell(s)[1].n = 0 THEN Tail(PulseCell(s)) ELSE PulseCell(s)
      BY <1>2 DEF Cell
    <2>2. CASE PulseCell(s) = <<Light(0), Dark(1)>>
      <3>1. Cell(s) = <<Dark(1)>>
        BY <2>1, <2>2 DEF Light
      <3> QED
        BY <3>1, OneRun
    <2>3. ASSUME NEW a \in Nat, NEW b \in Nat, a >= 2, b >= 2,
                 PulseCell(s) = <<Light(a), Dark(b)>>
          PROVE  RunsOK(Cell(s))
      <3>1. PulseCell(s)[1].n # 0
        BY <2>3 DEF Light
      <3>2. Cell(s) = <<Light(a), Dark(b)>>
        BY <2>1, <2>3, <3>1
      <3> QED
        BY <2>3, <3>2, Cells
    <2> QED
      BY <1>2, <2>2, <2>3, PulseCellOK
  <1> QED
    BY <1>1, <1>2

\* The field of n bits.
SentBits(bits, n) == bits \in Seq(Bit) /\ Len(bits) = n

LEMMA MsbType == \A n, x \in Nat : SentBits(Msb(n, x), n)
  <1> SUFFICES ASSUME NEW n \in Nat, NEW x \in Nat
               PROVE  SentBits(Msb(n, x), n)
    OBVIOUS
  <1>1. \A i \in 1 .. n : (x \div 2 ^ (n - i)) % 2 \in Bit
    BY DEF Bit
  <1>2. Msb(n, x) \in [1 .. n -> Bit]
    BY <1>1 DEF Msb
  <1> QED
    BY <1>2 DEF SentBits

LEMMA NotType ==
  ASSUME NEW bits, NEW n \in Nat, SentBits(bits, n)
  PROVE  SentBits(Not(bits), n)
  <1>1. DOMAIN bits = 1 .. n /\ \A i \in 1 .. n : bits[i] \in Bit
    BY DEF SentBits
  <1>2. Not(bits) \in [1 .. n -> Bit]
    BY <1>1 DEF Not, Bit
  <1> QED
    BY <1>2 DEF SentBits

LEMMA BitsJoin ==
  ASSUME NEW x, NEW y, NEW m \in Nat, NEW n \in Nat, SentBits(x, m), SentBits(y, n)
  PROVE  SentBits(x \o y, m + n)
  BY DEF SentBits

LEMMA OneBit == \A b \in Bit : SentBits(<<b>>, 1)
  BY DEF SentBits

LEMMA ZeroBit == SentBits(<<0>>, 1)
  BY OneBit DEF Bit

LEMMA BitsUnsynced ==
  ASSUME NEW bits, NEW n \in Nat, SentBits(bits, n), NEW k \in 1 .. n
  PROVE  bits[k] # Sync
  <1>1. bits[k] \in Bit
    BY ElementOfSeq DEF SentBits
  <1> QED
    BY <1>1 DEF Sync, Bit

LEMMA CodeType ==
  ASSUME NEW code \in Codes
  PROVE  /\ code.protocol \in Protocols
         /\ code.address \in Nat
         /\ code.command \in Nat
  <1>1. /\ code.protocol \in Protocols
        /\ code.address \in Word /\ code.command \in Word
    BY CodesAssumption
  <1>2. Word \subseteq Nat
    BY DEF Word
  <1> QED
    BY <1>1, <1>2

LEMMA DenonBits ==
  ASSUME NEW a \in Nat, NEW c \in Nat
  PROVE  SentBits(DENONBits(a, c), 32)
  <1>1. SentBits(Msb(5, a), 5) /\ SentBits(Msb(10, c), 10)
    BY MsbType
  <1>2. SentBits(Not(Msb(10, c)), 10)
    BY <1>1, NotType
  <1>3. PICK b : b = Msb(5, a) \o Msb(10, c) \o <<0>>
    OBVIOUS
  <1>4. SentBits(Msb(5, a) \o Msb(10, c), 15)
    BY <1>1, BitsJoin
  <1>5. SentBits(b, 16)
    BY <1>3, <1>4, ZeroBit, BitsJoin
  <1>6. SentBits(b \o Msb(5, a), 21)
    BY <1>1, <1>5, BitsJoin
  <1>7. SentBits(b \o Msb(5, a) \o Not(Msb(10, c)), 31)
    BY <1>2, <1>6, BitsJoin
  <1>8. SentBits(b \o Msb(5, a) \o Not(Msb(10, c)) \o <<0>>, 32)
    BY <1>7, ZeroBit, BitsJoin
  <1> QED
    BY <1>3, <1>8, Zenon DEF DENONBits

LEMMA ThomsonBits ==
  ASSUME NEW a \in Nat, NEW c \in Nat, NEW t \in Bit
  PROVE  SentBits(THOMSONBits(a, c, t), 12)
  <1>1. SentBits(Msb(4, a), 4) /\ SentBits(Msb(7, c), 7) /\ SentBits(<<t>>, 1)
    BY MsbType, OneBit
  <1>2. SentBits(Msb(4, a) \o <<t>>, 5)
    BY <1>1, BitsJoin
  <1>3. SentBits(Msb(4, a) \o <<t>> \o Msb(7, c), 12)
    BY <1>1, <1>2, BitsJoin
  <1> QED
    BY <1>3, Zenon DEF THOMSONBits

LEMMA BufferOK ==
  ASSUME NEW code \in Codes, NEW t \in Bit
  PROVE  LET f == FrameOf(code, t) IN CodeOK(f.protocol, f.times, f.bits)
  <1>1. PICK n, a, c : n = code.protocol /\ a = code.address /\ c = code.command
    OBVIOUS
  <1>2. n \in Protocols /\ a \in Nat /\ c \in Nat
    BY <1>1, CodeType
  <1>3. PICK f : f = FrameOf(code, t)
    OBVIOUS
  <1>4. TimesOK(f.protocol, f.times)
    BY <1>1, <1>2, <1>3, FrameOK
  <1>5. CASE n = "DENON"
    <2>1. f = Frame("DENON", DENON, DENONBits(a, c))
      BY <1>1, <1>3, <1>5 DEF FrameOf
    <2>3. SentBits(DENONBits(a, c), 32)
      BY <1>2, DenonBits
    <2>4. DENON.len = 15
      BY DEF DENON, Repeated, PulseDistance
    <2>5. NoSync("DENON", DENONBits(a, c))
      BY <2>3, BitsUnsynced DEF NoSync
    <2> QED
      BY <1>3, <1>4, <2>1, <2>4, <2>5 DEF CodeOK, Frame
  <1>6. CASE n = "THOMSON"
    <2>1. f = Frame("THOMSON", THOMSON, THOMSONBits(a, c, t))
      BY <1>1, <1>3, <1>6 DEF FrameOf
    <2>3. SentBits(THOMSONBits(a, c, t), 12)
      BY <1>2, ThomsonBits
    <2>4. THOMSON.len = 12
      BY DEF THOMSON, Repeated, PulseDistance
    <2>5. NoSync("THOMSON", THOMSONBits(a, c, t))
      BY <2>3, BitsUnsynced DEF NoSync
    <2> QED
      BY <1>3, <1>4, <2>1, <2>4, <2>5 DEF CodeOK, Frame
  <1>7. CASE n \notin {"DENON", "THOMSON"}
    <2>1. f.protocol \notin {"DENON", "THOMSON"}
      BY <1>1, <1>2, <1>3, <1>7 DEF FrameOf, Frame, Protocols
    <2> QED
      BY <1>3, <1>4, <2>1 DEF CodeOK, NoSync
  <1> QED
    BY <1>5, <1>6, <1>7

\* The fields that a step of the sender leaves alone keep their types.
LEMMA SendDataOK ==
  ASSUME SenderOK(irsnd), toggle \in [Toggles -> Bit], NEW code \in Codes, SendData(code)
  PROVE  SenderOK(irsnd') /\ toggle' \in [Toggles -> Bit] /\ todo' = todo
  <1>1. PICK g, t : /\ g = ToggleOf(code.protocol)
                    /\ t = IF g \in Toggles THEN 1 - toggle[g] ELSE 0
    OBVIOUS
  <1>2. t \in Bit
    BY <1>1 DEF Bit
  <1>3. PICK f : f = FrameOf(code, t)
    OBVIOUS
  <1>4. CodeOK(f.protocol, f.times, f.bits)
    BY <1>2, <1>3, BufferOK
  <1>5. PICK s, u : s = irsnd /\ u = irsnd'
    OBVIOUS
  <1>6. /\ ~s.busy
        /\ u = [s EXCEPT !.busy = TRUE, !.protocol = f.protocol,
                         !.times = f.times, !.buffer = f.bits,
                         !.repeat = code.repeats]
        /\ toggle' = IF g \in Toggles THEN [toggle EXCEPT ![g] = t] ELSE toggle
        /\ todo' = todo
    BY <1>1, <1>3, <1>5, Zenon DEF SendData
  <1>7. SenderOK(u)
    BY <1>4, <1>5, <1>6 DEF SenderOK, IrsndFields
  <1> QED
    BY <1>2, <1>5, <1>6, <1>7

LEMMA BitsFollow ==
  ASSUME NEW s, SenderOK(s), UnderWay(s)
  PROVE  BitsOK(s)
  <1>1. CASE s.protocol = "DENON" /\ s.current_bit < s.len
    BY <1>1 DEF SenderOK, UnderWay, CodeOK, NoSync, BitsOK
  <1>2. CASE s.protocol = "THOMSON" /\ s.current_bit < s.len
    BY <1>2 DEF SenderOK, UnderWay, CodeOK, NoSync, BitsOK
  <1>3. CASE s.protocol \in {"DENON", "THOMSON"} /\ s.current_bit >= s.len
    BY <1>3 DEF BitsOK
  <1>4. CASE s.protocol \notin {"DENON", "THOMSON"}
    BY <1>4 DEF BitsOK
  <1>5. s.protocol \in {"DENON", "THOMSON"} => s.current_bit \in Int /\ s.len \in Int
    BY DEF SenderOK, UnderWay
  <1> QED
    BY <1>1, <1>2, <1>3, <1>4, <1>5

LEMMA NextCell ==
  ASSUME NEW s, SenderOK(s), UnderWay(s)
  PROVE  RunsOK(Cell(s))
  BY BitsFollow, CellOK DEF SenderOK, CodeOK

LEMMA NoRuns == RunsOK(<<>>)
  BY DEF RunsOK

LEMMA GapOK ==
  ASSUME SenderOK(irsnd), Gap
  PROVE  SenderOK(irsnd') /\ RunsOK(todo')
  <1>1. PICK s, u : s = irsnd /\ u = irsnd'
    OBVIOUS
  <1>2. PICK bit, len :
          /\ u = [s EXCEPT !.current_bit = bit, !.len = len, !.new_frame = FALSE]
          /\ bit \in Nat
          /\ s.protocol = "DENON" => len = 31
          /\ s.protocol = "THOMSON" => len = s.len
    <2>1. PICK resumed :
            /\ resumed =
                 CASE s.protocol = "DENON"   -> <<16, 31>>
                   [] s.protocol = "GRUNDIG" -> <<15, 26>>
                   [] s.protocol = "IR60"    -> <<7, 15>>
                   [] s.protocol = "NOKIA" /\ s.auto_counter + 1 < s.n_auto -> <<23, 41>>
                   [] s.protocol = "NOKIA" /\ s.auto_counter + 1 >= s.n_auto ->
                        <<StartBit, NOKIA.len>>
                   [] OTHER -> <<StartBit, s.len>>
            /\ u = [s EXCEPT !.current_bit = resumed[1], !.len = resumed[2],
                             !.new_frame = FALSE]
      BY <1>1, Zenon DEF Gap
    <2>2. CASE s.protocol = "DENON"
      BY <2>1, <2>2
    <2>3. CASE s.protocol = "THOMSON"
      BY <2>1, <2>3 DEF StartBit
    <2>4. CASE s.protocol \notin {"DENON", "THOMSON"}
      <3>1. resumed[1] \in Nat
        BY <2>1, <2>4 DEF StartBit
      <3> QED
        BY <2>1, <2>4, <3>1
    <2> QED
      BY <2>2, <2>3, <2>4
  <1>3. SenderOK(s) /\ s.auto_counter > 0 /\ s.busy
    BY <1>1 DEF Gap
  <1>4. UnderWay(s) /\ s.auto_pause >= 2
    BY <1>3 DEF SenderOK, UnderWay
  <1>5. SenderOK(u) /\ UnderWay(u)
    <2>1. /\ DOMAIN u = IrsndFields
          /\ u.current_bit = bit /\ u.len = len
          /\ \A f \in IrsndFields \ {"current_bit", "len", "new_frame"} : u[f] = s[f]
      BY <1>2, <1>3 DEF SenderOK, IrsndFields
    <2>2. UnderWay(u)
      BY <1>2, <1>4, <2>1 DEF UnderWay, IrsndFields
    <2> QED
      BY <1>2, <1>3, <2>1, <2>2 DEF SenderOK, IrsndFields
  <1>6. RunsOK(Cell(u))
    BY <1>5, NextCell
  <1>7. s.auto_pause - 1 \in Nat \ {0}
    BY <1>4 DEF UnderWay
  <1>8. todo' = <<Dark(s.auto_pause - 1)>> \o Cell(u)
    BY <1>1 DEF Gap
  <1> QED
    BY <1>1, <1>5, <1>6, <1>7, <1>8, GapFirst

LEMMA TrailingSpaceOK ==
  ASSUME SenderOK(irsnd), TrailingSpace
  PROVE  SenderOK(irsnd') /\ RunsOK(todo')
  <1>1. PICK s, u : s = irsnd /\ u = irsnd'
    OBVIOUS
  <1>2. u = [s EXCEPT !.trailing = 0] /\ s.trailing > 0 /\ SenderOK(s)
    BY <1>1 DEF TrailingSpace
  <1>3. SenderOK(u) /\ s.trailing \in Nat \ {0}
    BY <1>2 DEF SenderOK, UnderWay, IrsndFields
  <1> QED
    BY <1>1, <1>3, OneRun DEF TrailingSpace

LEMMA TrailerEndOK ==
  ASSUME SenderOK(irsnd), TrailerEnd
  PROVE  SenderOK(irsnd') /\ RunsOK(todo')
  <1>1. PICK s, u : s = irsnd /\ u = irsnd'
    OBVIOUS
  <1>2. /\ u = [s EXCEPT !.busy = FALSE, !.send_trailer = FALSE]
        /\ s.new_frame /\ s.auto_counter = 0 /\ SenderOK(s)
    BY <1>1 DEF TrailerEnd
  <1>3. SenderOK(u)
    BY <1>2 DEF SenderOK, UnderWay, IrsndFields
  <1> QED
    BY <1>1, <1>3, OneRun DEF TrailerEnd

LEMMA InitFrameOK ==
  ASSUME SenderOK(irsnd), InitFrame
  PROVE  SenderOK(irsnd') /\ RunsOK(todo')
  <1>1. PICK s, u, p : s = irsnd /\ u = irsnd' /\ p = s.times
    OBVIOUS
  <1>2. PICK len, frames, bit :
          /\ u = [s EXCEPT !.n_repeat = s.repeat, !.len = len, !.n_auto = frames,
                           !.auto_pause = Ticks(p.gap), !.trailing = Ticks(p.pause),
                           !.current_bit = bit, !.new_frame = FALSE]
          /\ s.protocol \in {"DENON", "THOMSON"} => len = p.len
          /\ frames \in {1, p.frames}
          /\ bit \in {0, StartBit}
    BY <1>1 DEF InitFrame
  <1>3. SenderOK(s) /\ s.busy /\ s.new_frame /\ s.auto_counter = 0
    BY <1>1 DEF InitFrame
  <1>4. CodeOK(s.protocol, p, s.buffer)
    BY <1>1, <1>3 DEF SenderOK
  <1>5. /\ frames \in Nat \ {0} /\ Ticks(p.gap) \in Nat /\ Ticks(p.pause) \in Nat
        /\ frames > 1 \/ s.protocol \in InfoFrames => Ticks(p.gap) >= 2
    <2>1. /\ p.frames \in Nat \ {0} /\ p.gap \in Nat /\ p.pause \in Times
          /\ p.frames > 1 \/ s.protocol \in InfoFrames => p.gap \in Times
      BY <1>4 DEF CodeOK, TimesOK
    <2>2. Ticks(p.gap) \in Nat
      BY <2>1 DEF Ticks
    <2> QED
      BY <1>2, <2>1, <2>2, TicksOK
  <1>6. UnderWay(u)
    BY <1>2, <1>3, <1>4, <1>5 DEF SenderOK, UnderWay, CodeOK, IrsndFields
  <1>7. SenderOK(u)
    <2>1. bit \in Nat
      BY <1>2 DEF StartBit
    <2> QED
      BY <1>2, <1>3, <1>5, <1>6, <2>1 DEF SenderOK, IrsndFields
  <1> QED
    BY <1>1, <1>6, <1>7, NextCell DEF InitFrame

LEMMA SendBitOK ==
  ASSUME SenderOK(irsnd), SendBit
  PROVE  SenderOK(irsnd') /\ RunsOK(todo')
  <1>1. PICK s, u : s = irsnd /\ u = irsnd'
    OBVIOUS
  <1>2. /\ u = [s EXCEPT !.current_bit = NextBit(s)]
        /\ ~s.new_frame /\ SenderOK(s)
    BY <1>1 DEF SendBit
  <1>3. NextBit(s) \in Nat
    BY <1>2 DEF SenderOK, NextBit
  <1>4. SenderOK(u) /\ UnderWay(u)
    BY <1>2, <1>3 DEF SenderOK, UnderWay, IrsndFields
  <1> QED
    BY <1>1, <1>4, NextCell DEF SendBit

LEMMA EndOfCommandOK ==
  ASSUME NEW s, SenderOK(s)
  PROVE  SenderOK(EndOfCommand(s))
  <1>1. CASE ~RepeatsLeft(s)
    BY <1>1 DEF EndOfCommand, SenderOK, UnderWay, IrsndFields
  <1>2. CASE RepeatsLeft(s)
    <2>1. PICK buffer : /\ EndOfCommand(s) = [s EXCEPT !.repeat_counter = @ + 1,
                                                       !.buffer = buffer]
                        /\ s.protocol # "FDC" => buffer = s.buffer
      BY <1>2 DEF EndOfCommand
    <2>2. CodeOK(s.protocol, s.times, buffer)
      BY <2>1 DEF SenderOK, CodeOK, NoSync
    <2> QED
      BY <2>1, <2>2 DEF SenderOK, UnderWay, IrsndFields
  <1> QED
    BY <1>1, <1>2

LEMMA EndOfInfoFrameOK ==
  ASSUME NEW s, SenderOK(s), UnderWay(s), s.busy, s.new_frame, s.protocol \in InfoFrames
  PROVE  SenderOK(EndOfInfoFrame(s))
  <1>1. PICK t, pause :
          /\ t = [s EXCEPT !.auto_counter = @ + 1, !.auto_pause = pause]
          /\ pause \in {s.auto_pause, Ticks(s.times.pause)}
          /\ EndOfInfoFrame(s) =
               IF RepeatsLeft(s)
               THEN [t EXCEPT !.n_auto = @ + 1, !.repeat_counter = @ + 1]
               ELSE IF t.auto_counter = s.n_auto
                    THEN EndOfCommand([t EXCEPT !.auto_counter = 0])
                    ELSE t
    BY DEF EndOfInfoFrame
  <1>2. pause \in Nat /\ pause >= 2
    BY <1>1, TicksOK DEF UnderWay, SenderOK, CodeOK, TimesOK
  <1>3. CASE RepeatsLeft(s)
    <2>1. SenderOK([t EXCEPT !.n_auto = @ + 1, !.repeat_counter = @ + 1])
      BY <1>1, <1>2 DEF SenderOK, UnderWay, IrsndFields, InfoFrames
    <2> QED
      BY <1>1, <1>3, <2>1
  <1>4. CASE ~RepeatsLeft(s) /\ t.auto_counter = s.n_auto
    <2>1. SenderOK([t EXCEPT !.auto_counter = 0])
      BY <1>1 DEF SenderOK, IrsndFields
    <2> QED
      BY <1>1, <1>4, <2>1, EndOfCommandOK
  <1>5. CASE ~RepeatsLeft(s) /\ t.auto_counter # s.n_auto
    <2>1. SenderOK(t)
      BY <1>1, <1>2, <1>5 DEF SenderOK, UnderWay, IrsndFields, InfoFrames
    <2> QED
      BY <1>1, <1>5, <2>1
  <1> QED
    BY <1>3, <1>4, <1>5

LEMMA EndOfFrameOK ==
  ASSUME SenderOK(irsnd), EndOfFrame
  PROVE  SenderOK(irsnd') /\ RunsOK(todo')
  <1>1. PICK q, s : q = irsnd /\ s = [q EXCEPT !.current_bit = StartBit, !.new_frame = TRUE]
    OBVIOUS
  <1>2. SenderOK(q) /\ ~q.new_frame /\ q.busy
    BY <1>1 DEF EndOfFrame
  <1>3. SenderOK(s) /\ UnderWay(s) /\ s.busy /\ s.new_frame
    BY <1>1, <1>2 DEF SenderOK, UnderWay, IrsndFields, StartBit
  <1>4. CASE s.protocol \in InfoFrames
    <2>1. SenderOK(EndOfInfoFrame(s))
      BY <1>3, <1>4, EndOfInfoFrameOK
    <2> QED
      BY <1>1, <1>4, <2>1, OneRun, NoRuns DEF EndOfFrame
  <1>5. CASE s.protocol \notin InfoFrames /\ s.times.manchester
    BY <1>1, <1>3, <1>5, EndOfCommandOK, OneRun, NoRuns DEF EndOfFrame
  <1>6. CASE s.protocol \notin InfoFrames /\ ~s.times.manchester
    <2>1. CASE s.auto_counter + 1 = s.n_auto
      <3>1. SenderOK([s EXCEPT !.auto_counter = 0])
        BY <1>3 DEF SenderOK, IrsndFields
      <3>2. SenderOK(EndOfPulseFrame(s))
        BY <2>1, <3>1, EndOfCommandOK DEF EndOfPulseFrame
      <3> QED
        BY <1>1, <1>6, <3>2, NoRuns DEF EndOfFrame
    <2>2. CASE s.auto_counter + 1 # s.n_auto
      <3>1. SenderOK([s EXCEPT !.auto_counter = @ + 1])
        BY <1>3, <2>2 DEF SenderOK, UnderWay, IrsndFields
      <3>2. SenderOK(EndOfPulseFrame(s))
        BY <2>2, <3>1 DEF EndOfPulseFrame
      <3> QED
        BY <1>1, <1>6, <3>2, NoRuns DEF EndOfFrame
    <2> QED
      BY <2>1, <2>2
  <1> QED
    BY <1>4, <1>5, <1>6

LEMMA IsrOK ==
  ASSUME SenderInv, Isr
  PROVE  SenderInv'
  <1>1. SenderOK(irsnd') /\ RunsOK(todo')
    BY GapOK, TrailingSpaceOK, TrailerEndOK, InitFrameOK, SendBitOK, EndOfFrameOK
       DEF SenderInv, Isr
  <1>2. toggle' = toggle
    BY DEF Isr, Gap, TrailingSpace, TrailerEnd, InitFrame, SendBit, EndOfFrame
  <1> QED
    BY <1>1, <1>2 DEF SenderInv

\* A run that is on its way.
AirOK == air = <<>> \/ \E run \in Run : air = <<run>>

LinkInv == SenderInv /\ AirOK /\ DecoderOK(irmp)

\* An edge that is moved leaves something of both runs.
LEMMA EmitOK ==
  ASSUME RunsOK(todo), NEW j \in {-1, 0, 1}, Emit(j)
  PROVE  RunsOK(todo') /\ AirOK'
  <1>1. PICK run, rest, late : /\ run = Head(todo) /\ rest = Tail(todo)
                               /\ late = (run.light /\ rest # <<>>)
    OBVIOUS
  <1>2. /\ todo # <<>>
        /\ air' = <<[light |-> run.light /\ ~blocked,
                      n |-> IF late THEN run.n + j ELSE run.n]>>
        /\ todo' = IF late THEN [rest EXCEPT ![1].n = @ - j] ELSE rest
    BY <1>1, Zenon DEF Emit
  <1>3. PICK k : k = Len(todo) - 1
    OBVIOUS
  <1>4. /\ todo \in Seq(Run) /\ k \in Nat /\ Len(todo) = k + 1
        /\ run = todo[1] /\ run \in Run
        /\ rest \in Seq(Run) /\ Len(rest) = k
        /\ \A i \in 1 .. k : rest[i] = todo[i + 1]
    BY <1>1, <1>2, <1>3 DEF RunsOK
  <1>5. \A i \in 1 .. k : rest[i].light =>
          /\ rest[i].n >= 2
          /\ i < k => ~rest[i + 1].light /\ rest[i + 1].n >= 2
    <2> SUFFICES ASSUME NEW i \in 1 .. k, rest[i].light
                 PROVE  /\ rest[i].n >= 2
                        /\ i < k => ~rest[i + 1].light /\ rest[i + 1].n >= 2
      OBVIOUS
    <2>1. i + 1 \in 1 .. k + 1 /\ rest[i] = todo[i + 1]
      BY <1>4
    <2>2. i < k => i + 1 \in 1 .. k /\ rest[i + 1] = todo[i + 2]
      BY <1>4
    <2>3. i + 1 < Len(todo) => ~todo[i + 2].light /\ todo[i + 2].n >= 2
      BY <1>4, <2>1 DEF RunsOK
    <2>4. todo[i + 1].n >= 2
      BY <1>4, <2>1 DEF RunsOK
    <2> QED
      BY <1>4, <2>1, <2>2, <2>3, <2>4
  <1>6. RunsOK(rest)
    BY <1>4, <1>5 DEF RunsOK
  <1>7. CASE ~late
    <2>1. [light |-> run.light /\ ~blocked, n |-> run.n] \in Run
      BY <1>4 DEF Run
    <2> QED
      BY <1>2, <1>6, <1>7, <2>1 DEF AirOK
  <1>8. CASE late
    <2>1. k >= 1 /\ run.light
      <3>1. run.light /\ rest # <<>>
        BY <1>1, <1>8
      <3>2. k # 0
        BY <1>4, <3>1, EmptySeq
      <3> QED
        BY <1>4, <3>1, <3>2
    <2>2. run.n >= 2 /\ ~todo[2].light /\ todo[2].n >= 2
      BY <1>4, <2>1 DEF RunsOK
    <2>3. PICK first : first = rest[1]
      OBVIOUS
    <2>4. first \in Run /\ ~first.light /\ first.n >= 2
      BY <1>4, <2>1, <2>2, <2>3
    <2>5. PICK m \in Nat \ {0} : m = first.n - j
      BY <2>4 DEF Run
    <2>6. PICK short : short = [first EXCEPT !.n = m]
      OBVIOUS
    <2>7. short \in Run /\ ~short.light
      BY <2>4, <2>6 DEF Run
    <2>8. todo' = [rest EXCEPT ![1] = short]
      BY <1>2, <1>8, <2>3, <2>5, <2>6
    <2>9. /\ todo' \in Seq(Run) /\ Len(todo') = k
          /\ todo'[1] = short
          /\ \A i \in 2 .. k : todo'[i] = rest[i]
      BY <1>4, <2>1, <2>7, <2>8
    <2>10. RunsOK(todo')
      <3> SUFFICES ASSUME NEW i \in 1 .. k, todo'[i].light
                   PROVE  /\ todo'[i].n >= 2
                          /\ i < k => ~todo'[i + 1].light /\ todo'[i + 1].n >= 2
        BY <2>9 DEF RunsOK
      <3>1. i \in 2 .. k /\ todo'[i] = rest[i]
        BY <2>7, <2>9
      <3>2. i < k => todo'[i + 1] = rest[i + 1]
        BY <1>4, <2>9, <3>1
      <3> QED
        BY <1>4, <1>5, <3>1, <3>2
    <2>11. [light |-> run.light /\ ~blocked, n |-> run.n + j] \in Run
      BY <1>4, <2>2 DEF Run
    <2> QED
      BY <1>2, <1>8, <2>10, <2>11 DEF AirOK
  <1> QED
    BY <1>7, <1>8

LEMMA SeeOK ==
  ASSUME AirOK, NEW light, NEW n \in Nat \ {0}, See(light, n), n <= air[1].n
  PROVE  AirOK'
  <1>1. PICK run \in Run : air = <<run>>
    BY DEF AirOK, See
  <1>2. air' = IF n = run.n THEN <<>> ELSE <<[run EXCEPT !.n = @ - n]>>
    BY <1>1 DEF See
  <1>3. n # run.n => [run EXCEPT !.n = @ - n] \in Run
    BY <1>1 DEF Run
  <1> QED
    BY <1>2, <1>3 DEF AirOK

LEMMA PolledOK ==
  ASSUME AirOK, NEW n \in Nat, Polled(n)
  PROVE  AirOK'
  <1>1. CASE Seen \/ air[1].light
    BY <1>1 DEF Polled, AirOK
  <1>2. CASE ~(Seen \/ air[1].light)
    <2>1. PICK run \in Run : air = <<run>>
      BY <1>2 DEF AirOK, Seen
    <2>2. air' = <<[run EXCEPT !.n = Max({1, @ - n})]>>
      BY <1>2, <2>1 DEF Polled
    <2>3. PICK k \in Int : k = run.n - n
      BY DEF Run
    <2>4. Max({1, k}) \in Nat \ {0}
      <3>1. \E m \in {1, k} : \A y \in {1, k} : m >= y
        BY <2>3
      <3>2. PICK m : m = Max({1, k})
        OBVIOUS
      <3>3. m \in {1, k} /\ \A y \in {1, k} : m >= y
        BY <3>1, <3>2 DEF Max
      <3> QED
        BY <2>3, <3>2, <3>3
    <2>5. [run EXCEPT !.n = Max({1, k})] \in Run
      BY <2>4 DEF Run
    <2> QED
      BY <2>2, <2>3, <2>5 DEF AirOK
  <1> QED
    BY <1>1, <1>2

\* What the receiver sees of the light of a sender is light.
LEMMA ReceiverDecodes ==
  ASSUME LinkInv, ReceiverStep
  PROVE  DecoderNext /\ AirOK'
  <1> DEFINE Sees(n) == n \in Nat \ {0} /\ n <= air[1].n
  <1>1. AirOK /\ DecoderOK(irmp)
    BY DEF LinkInv
  <1>2. ASSUME ~Seen
        PROVE  Sees(All) /\ Sees(Some) /\ Sees(1) /\ Skippable(Some)
    <2>1. PICK run \in Run : air = <<run>>
      BY <1>1, <1>2 DEF AirOK, Seen
    <2>2. air[1].n \in Nat \ {0}
      BY <2>1 DEF Run
    <2> QED
      BY <1>1, <2>2, AheadIsSkippable DEF All, Some
  <1>3. \A light, n : Sees(n) /\ See(light, n) => AirOK'
    BY <1>1, SeeOK
  <1> HIDE DEF Sees
  <1>4. \A n : Sees(n) => n \in Nat \ {0}
    BY DEF Sees
  <1>5. CASE SeePulse
    BY <1>2, <1>3, <1>4, <1>5 DEF SeePulse, DecoderNext
  <1>6. CASE SeeIdle
    BY <1>2, <1>3, <1>4, <1>6 DEF SeeIdle, DecoderNext
  <1>7. CASE SeeStartPause
    BY <1>2, <1>3, <1>4, <1>7 DEF SeeStartPause, DecoderNext
  <1>8. CASE SeePause
    BY <1>2, <1>3, <1>4, <1>8 DEF SeePause, DecoderNext
  <1>9. CASE SeeStartBit \/ SeeBit \/ SeeFirstPulse \/ SeePulseEnd
    BY <1>2, <1>3, <1>9
       DEF SeeStartBit, SeeBit, SeeFirstPulse, SeePulseEnd, DecoderNext
  <1>10. ASSUME NEW n \in Latencies, Poll(n) \/ Discard(n)
         PROVE  DecoderNext /\ AirOK'
    <2>1. n \in Nat /\ Polled(n)
      BY <1>10, IrLinkAssumption DEF Poll, Discard
    <2>2. GetData
      BY <2>1 DEF Polled
    <2> QED
      BY <1>1, <2>1, <2>2, PolledOK DEF DecoderNext
  <1> QED
    BY <1>5, <1>6, <1>7, <1>8, <1>9, <1>10 DEF ReceiverStep

LEMMA InitLink == LinkInit => LinkInv
  <1> SUFFICES ASSUME LinkInit
               PROVE  LinkInv
    OBVIOUS
  <1>1. DecoderOK(irmp)
    BY InitOK DEF LinkInit, IrmpInit, DecoderOK, StartOK, PauseOK
  <1>2. TimesOK("UNKNOWN", NEC)
    BY DEF TimesOK, LightTimes, Times, InfoFrames, PulseDistance, NEC
  <1>3. SenderOK(irsnd)
    BY <1>2 DEF LinkInit, IrsndInit, SenderOK, CodeOK, NoSync, IrsndFields, StartBit
  <1>4. toggle \in [Toggles -> Bit] /\ RunsOK(todo) /\ AirOK
    BY NoRuns DEF LinkInit, IrsndInit, Bit, AirOK
  <1> QED
    BY <1>1, <1>3, <1>4 DEF LinkInv, SenderInv

\* A step of the link is a step of the decoder, or none.
LEMMA StepLink ==
  LinkInv /\ [LinkNext]_linkVars => LinkInv' /\ [DecoderNext]_irmp
  <1> SUFFICES ASSUME LinkInv, [LinkNext]_linkVars
               PROVE  LinkInv' /\ [DecoderNext]_irmp
    OBVIOUS
  <1>1. SenderInv /\ AirOK /\ DecoderOK(irmp)
    BY DEF LinkInv
  <1>2. ASSUME [DecoderNext]_irmp, SenderInv', AirOK'
        PROVE  LinkInv' /\ [DecoderNext]_irmp
    BY <1>1, <1>2, DecoderStepOK DEF LinkInv
  <1>3. ASSUME UNCHANGED <<irsndVars>>
        PROVE  SenderInv'
    BY <1>1, <1>3 DEF SenderInv, irsndVars
  <1>4. UNCHANGED air => AirOK'
    BY <1>1 DEF AirOK
  <1>5. CASE UNCHANGED linkVars
    BY <1>2, <1>3, <1>4, <1>5 DEF linkVars
  <1>6. ASSUME NEW c \in Codes, Send(c)
        PROVE  LinkInv' /\ [DecoderNext]_irmp
    <2>1. SendData(c) /\ UNCHANGED <<irmp, air>>
      BY <1>6 DEF Send
    <2>2. SenderInv'
      BY <1>1, <2>1, SendDataOK DEF SenderInv
    <2> QED
      BY <1>2, <1>4, <2>1, <2>2
  <1>7. CASE SenderStep
    BY <1>1, <1>2, <1>4, <1>7, IsrOK DEF SenderStep
  <1>8. CASE Block
    BY <1>2, <1>3, <1>4, <1>8 DEF Block
  <1>9. ASSUME NEW j \in {-1, 0, 1}, Emit(j)
        PROVE  LinkInv' /\ [DecoderNext]_irmp
    <2>1. UNCHANGED <<irsnd, toggle, irmp>>
      BY <1>9 DEF Emit
    <2>2. RunsOK(todo') /\ AirOK'
      BY <1>1, <1>9, EmitOK DEF SenderInv
    <2> QED
      BY <1>1, <1>2, <2>1, <2>2 DEF SenderInv
  <1>10. ASSUME NEW n \in Silences, Silence(n)
         PROVE  LinkInv' /\ [DecoderNext]_irmp
    <2>1. Dark(n) \in Run
      BY IrLinkAssumption DEF Dark, Run
    <2> QED
      BY <1>2, <1>3, <1>10, <2>1 DEF Silence, AirOK
  <1>11. CASE ReceiverStep
    <2>1. DecoderNext /\ AirOK'
      BY <1>11, ReceiverDecodes
    <2>2. UNCHANGED irsndVars
      BY <1>11 DEF ReceiverStep, SeePulse, SeeStartBit, SeeBit, SeeFirstPulse, SeeIdle,
                   SeeStartPause, SeePulseEnd, SeePause, See, Poll, Discard, Polled
    <2> QED
      BY <1>2, <1>3, <2>1, <2>2
  <1> QED
    BY <1>5, <1>6, <1>7, <1>8, <1>9, <1>10, <1>11 DEF LinkNext

\* Whatever codes are sent, with whatever repetitions, edges a tick off, interrupted or
\* not: what the receiver sees is light and dark, and no more of it at once than
\* the decoder would see sample by sample (irsnd.c, irmpmain.c:27-34).
THEOREM LinkIsLight == LinkSpec => DecoderSpec
  <1>1. LinkInit => IrmpInit
    BY DEF LinkInit
  <1> QED
    BY <1>1, InitLink, StepLink, PTL DEF LinkSpec, DecoderSpec

\* In the dark the receiver is done with a frame in time, unless it is one that irmp.c
\* waits for: for any codes and commands (irmp.c, IRMP_TIMEOUT_LEN).
THEOREM LinkTimesOut == LinkSpec => [](TimesOut \/ Stalled)
  BY LinkIsLight, FramesTimeOut, PTL

=============================================================================
