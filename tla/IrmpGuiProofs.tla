--------------------------- MODULE IrmpGuiProofs ---------------------------
(***************************************************************************)
(* Theorems about the graphical configuration program, for a table of any  *)
(* length, any codes and keys, a queue of any size and any number of       *)
(* clicks: the map shows what the device holds.                            *)
(***************************************************************************)
EXTENDS IrmpGui, SequenceTheorems, TLAPS

(***************************************************************************)
(* Steps of handlers.                                                      *)
(***************************************************************************)
Cmds == {"setting", "setting_remote", "irdata", "irdata_remote", "key",
         "eeprom", "caps", "reboot", "dirty"}
Whats == {"rescan", "connect", "get_eeprom", "loaded", "enable", "disconnect",
          "flash", "rearm", "exit"}
Uses == {"show", "load", "wrote", "put", "put_next", "learnt", "compare"}

Steps ==
    [acc : {"get", "set", "reset"}, cmd : Cmds, line : Line \cup {0},
     value : Values, use : Uses]
    \cup {Do(what) : what \in Whats}

Part(s) == <<s.line, s.cmd>>
Puts(s) == s.use \in {"put", "put_next", "compare"}
Reads(s) == Puts(s) \/ s.use = "load"

Formed(s) ==
    /\ s \in Steps
    /\ Reads(s) => s.acc = "get" /\ Part(s) \in Parts
    /\ s.use = "wrote" => s.acc = "set" /\ Part(s) \in Parts
    /\ s.use = "learnt" <=> s.cmd \in {"irdata_remote", "setting_remote"}
    /\ s.use = "compare" => s.cmd = "irdata"
    /\ s.cmd = "irdata_remote" => s.line \in Line
    /\ s.cmd = "setting_remote" => s.line = 0
    /\ s.cmd = "eeprom" => s.acc # "get"

\* The step moves the cursor, or starts what does.
Moves(s) ==
    \/ s.use \in {"put_next", "compare"}
    \/ s.cmd \in {"loaded", "get_eeprom", "connect"}

\* It changes the text.
Rewrites(s) == Reads(s) \/ s.cmd \in {"get_eeprom", "connect"}

\* It changes part p of the device's table.
Changes(s, p) ==
    \/ s.acc \in {"set", "reset"} /\ p = Part(s)
    \/ s.cmd = "eeprom"
    \/ s.cmd = "irdata_remote" /\ p = <<s.line, "irdata">>

\* It reads part p back.
Mends(s, p) == s.cmd = "get_eeprom" \/ (Reads(s) /\ p = Part(s))

Mended(q, p) == \E k \in 1 .. Len(q) : Mends(q[k], p)
MendedAfter(q, j, p) == \E k \in 1 .. Len(q) : j < k /\ Mends(q[k], p)

\* What a step says about those behind it.
Before(s, r) ==
    /\ Moves(s) => ~Puts(r)
    /\ Rewrites(s) => r.use # "wrote"
    /\ s.use \in {"learnt", "compare"} =>
          \A p \in Parts : Mends(r, p) => p = <<s.line, "irdata">>

Ordered(q) == \A j, k \in 1 .. Len(q) : j < k => Before(q[j], q[k])

\* What is changed is read back later, but for what the map has anyway.
Followed(q) ==
    \A j \in 1 .. Len(q), p \in Parts :
        Changes(q[j], p) /\ q[j].use # "wrote" => MendedAfter(q, j, p)

\* Lines are put at the cursor c, which the display l shows.
Placed(q, c, l) ==
    \A j \in 1 .. Len(q) : Puts(q[j]) => q[j].line = c /\ q[j].line = l

\* What is written is the text t.
AsText(q, t) ==
    \A j \in 1 .. Len(q) : q[j].use = "wrote" => q[j].value = t[Part(q[j])]

\* The device is opened last, and flashed when it is not open.
Opened(q, h) ==
    \A j \in 1 .. Len(q) :
        /\ q[j].cmd = "connect" => j = Len(q)
        /\ q[j].cmd = "flash" =>
              IF j = 1 THEN h = "none" ELSE q[j - 1].cmd = "disconnect"

Shaped(q, c, l, t, h) ==
    /\ q \in Seq(Steps) /\ \A j \in 1 .. Len(q) : Formed(q[j])
    /\ Ordered(q) /\ Followed(q)
    /\ Placed(q, c, l) /\ AsText(q, t) /\ Opened(q, h)

Shape == Shaped(todo, cursor, line_text, text, handle)

(***************************************************************************)
(* Lemmas about sequences of steps.                                        *)
(***************************************************************************)
LEMMA TailShaped ==
  ASSUME NEW q, q # <<>>, NEW c, NEW l, NEW t, NEW h, Shaped(q, c, l, t, h),
         NEW c2, NEW l2, NEW t2, NEW h2,
         Moves(Head(q)) \/ (c2 = c /\ l2 = l),
         Rewrites(Head(q)) \/ t2 = t,
         Head(q).cmd = "disconnect" => h2 = "none"
  PROVE  Shaped(Tail(q), c2, l2, t2, h2)
  <1> DEFINE r == Tail(q)
  <1>1. /\ r \in Seq(Steps) /\ Len(q) \in Nat /\ Len(q) > 0
        /\ Len(r) = Len(q) - 1
        /\ \A i \in 1 .. Len(r) : r[i] = q[i + 1]
    BY HeadTailProperties, EmptySeq DEF Shaped
  <1>2. Head(q) = q[1] /\ 1 \in 1 .. Len(q)
    BY <1>1 DEF Shaped
  <1> HIDE DEF r
  <1>3. \A i \in 1 .. Len(r) : i + 1 \in 1 .. Len(q) /\ 1 < i + 1 /\ (i + 1) - 1 = i
    BY <1>1
  <1>4. \A i \in 1 .. Len(r) : Before(q[1], r[i])
    BY <1>1, <1>2, <1>3 DEF Shaped, Ordered
  <1>5. \A i \in 1 .. Len(r) : Formed(r[i])
    BY <1>1, <1>3 DEF Shaped
  <1>6. Ordered(r)
    BY <1>1, <1>3 DEF Shaped, Ordered
  <1>7. Followed(r)
    <2> SUFFICES ASSUME NEW j \in 1 .. Len(r), NEW p \in Parts,
                        Changes(r[j], p), r[j].use # "wrote"
                 PROVE  MendedAfter(r, j, p)
      BY DEF Followed
    <2>1. MendedAfter(q, j + 1, p)
      BY <1>1, <1>3 DEF Shaped, Followed
    <2>2. PICK k \in 1 .. Len(q) : j + 1 < k /\ Mends(q[k], p)
      BY <2>1 DEF MendedAfter
    <2>3. k - 1 \in 1 .. Len(r) /\ j < k - 1 /\ r[k - 1] = q[k]
      BY <1>1, <2>2
    <2> QED
      BY <2>2, <2>3 DEF MendedAfter
  <1>8. Placed(r, c2, l2)
    BY <1>1, <1>2, <1>3, <1>4 DEF Shaped, Placed, Before
  <1>9. AsText(r, t2)
    BY <1>1, <1>2, <1>3, <1>4 DEF Shaped, AsText, Before
  <1>10. Opened(r, h2)
    <2> SUFFICES ASSUME NEW j \in 1 .. Len(r)
                 PROVE  /\ r[j].cmd = "connect" => j = Len(r)
                        /\ r[j].cmd = "flash" =>
                              IF j = 1 THEN h2 = "none" ELSE r[j - 1].cmd = "disconnect"
      BY DEF Opened
    <2>1. r[j] = q[j + 1] /\ (j # 1 => r[j - 1] = q[j])
      BY <1>1, <1>3
    <2>2. /\ q[j + 1].cmd = "connect" => j + 1 = Len(q)
          /\ q[j + 1].cmd = "flash" => q[j].cmd = "disconnect"
      BY <1>3 DEF Shaped, Opened
    <2> QED
      BY <1>1, <1>2, <2>1, <2>2
  <1> QED
    BY <1>1, <1>5, <1>6, <1>7, <1>8, <1>9, <1>10 DEF Shaped, r

LEMMA EmptyShaped == \A c, l, t, h : Shaped(<<>>, c, l, t, h)
  BY EmptySeq DEF Shaped, Ordered, Followed, Placed, AsText, Opened

LEMMA StillShaped ==
  ASSUME NEW q, NEW c, NEW l, NEW t, NEW h, Shaped(q, c, l, t, h),
         NEW h2, h = "none" => h2 = "none"
  PROVE  Shaped(q, c, l, t, h2)
  BY DEF Shaped, Opened

LEMMA TailMended ==
  ASSUME NEW q \in Seq(Steps), q # <<>>, NEW p, Mended(q, p), ~Mends(Head(q), p)
  PROVE  Mended(Tail(q), p)
  <1>1. /\ Len(q) \in Nat /\ Len(q) > 0 /\ Head(q) = q[1]
        /\ Len(Tail(q)) = Len(q) - 1
        /\ \A i \in 1 .. Len(Tail(q)) : Tail(q)[i] = q[i + 1]
    BY HeadTailProperties, EmptySeq
  <1>2. PICK k \in 1 .. Len(q) : Mends(q[k], p)
    BY DEF Mended
  <1>3. k # 1
    BY <1>1, <1>2
  <1>4. k - 1 \in 1 .. Len(Tail(q)) /\ Tail(q)[k - 1] = q[k]
    BY <1>1, <1>3
  <1> QED
    BY <1>2, <1>4 DEF Mended

LEMMA TailMendedBehind ==
  ASSUME NEW q \in Seq(Steps), q # <<>>, NEW p, MendedAfter(q, 1, p)
  PROVE  Mended(Tail(q), p)
  <1>1. /\ Len(q) \in Nat /\ Len(Tail(q)) = Len(q) - 1
        /\ \A i \in 1 .. Len(Tail(q)) : Tail(q)[i] = q[i + 1]
    BY HeadTailProperties, EmptySeq
  <1>2. PICK k \in 1 .. Len(q) : 1 < k /\ Mends(q[k], p)
    BY DEF MendedAfter
  <1>3. k - 1 \in 1 .. Len(Tail(q)) /\ Tail(q)[k - 1] = q[k]
    BY <1>1, <1>2
  <1> QED
    BY <1>2, <1>3 DEF Mended

\* What the head changes is read back behind it.
LEMMA HeadMended ==
  ASSUME NEW q, q # <<>>, NEW c, NEW l, NEW t, NEW h, Shaped(q, c, l, t, h),
         NEW p \in Parts, Changes(Head(q), p), Head(q).use # "wrote"
  PROVE  Mended(q, p)
  <1>1. 1 \in 1 .. Len(q) /\ Head(q) = q[1]
    BY HeadTailProperties, EmptySeq DEF Shaped
  <1> QED
    BY <1>1 DEF Shaped, Followed, MendedAfter, Mended

(***************************************************************************)
(* The handlers are well formed.                                           *)
(***************************************************************************)
LEMMA GetFormed ==
  ASSUME NEW kind \in {"irdata", "key"}, NEW i \in Line,
         NEW use \in {"show", "load", "put", "put_next"}
  PROVE  Formed(Get(kind, i, use))
  BY DEF Get, Ask, Formed, Steps, Cmds, Uses, Values, Reads, Puts, Part, Parts

LEMMA CompareFormed ==
  ASSUME NEW i \in Line
  PROVE  Formed(Get("irdata", i, "compare"))
  BY DEF Get, Ask, Formed, Steps, Cmds, Uses, Values, Reads, Puts, Part, Parts

LEMMA SetFormed ==
  ASSUME NEW kind \in {"irdata", "key"}, NEW i \in Line, NEW value \in Values,
         NEW use \in {"show", "wrote"}
  PROVE  Formed(Set(kind, i, value, use))
  BY DEF Set, Ask, Formed, Steps, Cmds, Uses, Reads, Puts, Part, Parts

LEMMA ResetFormed ==
  ASSUME NEW kind \in {"irdata", "key"}, NEW i \in Line
  PROVE  Formed(Reset(kind, i))
  BY DEF Reset, Ask, Formed, Steps, Cmds, Uses, Values, Reads, Puts, Part, Parts

LEMMA LearnFormed ==
  ASSUME NEW i \in Line
  PROVE  Formed(Set("irdata_remote", i, Erased, "learnt"))
  BY DEF Set, Ask, Formed, Steps, Cmds, Uses, Values, Reads, Puts, Part, Parts

LEMMA DoFormed ==
  ASSUME NEW what \in Whats
  PROVE  Formed(Do(what))
  BY DEF Do, Ask, Formed, Steps, Whats, Reads, Puts, Part, Parts

LEMMA OthersFormed ==
  /\ Formed(Setting) /\ Formed(LearnSetting) /\ Formed(Reset("eeprom", 0))
  /\ Formed(Reboot) /\ Formed(Dirty)
  /\ Formed(Get("caps", 0, "show")) /\ Formed(Get("caps", 1, "show"))
  BY GuiAssumption DEF Setting, LearnSetting, Reset, Reboot, Dirty, Get, Ask, Formed,
     Steps, Cmds,
     Uses, Values, Reads, Puts, Part, Parts, Line

LEMMA PairShaped ==
  ASSUME NEW s, NEW r, Formed(s), Formed(r), NEW c, NEW l, NEW t, NEW h,
         ~Puts(s), Puts(r) => r.line = c /\ r.line = l,
         s.use # "wrote", r.use # "wrote", 
         s.cmd \notin {"connect", "flash"}, r.cmd # "flash", Before(s, r),
         \A p \in Parts : Changes(s, p) => Mends(r, p),
         \A p \in Parts : ~Changes(r, p)
  PROVE  Shaped(<<s, r>>, c, l, t, h)
  <1> DEFINE q == <<s, r>>
  <1>1. /\ q \in Seq(Steps) /\ Len(q) = 2 /\ q[1] = s /\ q[2] = r
        /\ \A j \in 1 .. Len(q) : j = 1 \/ j = 2
    BY DEF Formed
  <1> HIDE DEF q
  <1>2. Ordered(q)
    BY <1>1 DEF Ordered
  <1>3. Followed(q)
    BY <1>1 DEF Followed, MendedAfter
  <1>4. Placed(q, c, l) /\ AsText(q, t) /\ Opened(q, h)
    BY <1>1 DEF Placed, AsText, Opened
  <1>5. \A j \in 1 .. Len(q) : Formed(q[j])
    BY <1>1
  <1> QED
    BY <1>1, <1>2, <1>3, <1>4, <1>5 DEF Shaped, q

LEMMA OneShaped ==
  ASSUME NEW s, Formed(s), NEW c, NEW l, NEW t, NEW h,
         ~Puts(s), s.use # "wrote", s.cmd # "flash",
         \A p \in Parts : ~Changes(s, p)
  PROVE  Shaped(<<s>>, c, l, t, h)
  <1> DEFINE q == <<s>>
  <1>1. /\ q \in Seq(Steps) /\ Len(q) = 1 /\ q[1] = s
        /\ \A j \in 1 .. Len(q) : j = 1
    BY DEF Formed
  <1> HIDE DEF q
  <1>2. Ordered(q) /\ Followed(q)
    BY <1>1 DEF Ordered, Followed
  <1>3. Placed(q, c, l) /\ AsText(q, t) /\ Opened(q, h)
    BY <1>1 DEF Placed, AsText, Opened
  <1> QED
    BY <1>1, <1>2, <1>3 DEF Shaped, q

\* A step that changes neither the table nor a line of the text.
Harmless(s) ==
    /\ Formed(s)
    /\ ~Puts(s) /\ s.use \notin {"wrote", "learnt", "compare"}
    /\ \A p \in Parts : ~Changes(s, p)

LEMMA HarmlessShaped ==
  ASSUME NEW q \in Seq(Steps), \A j \in 1 .. Len(q) : Harmless(q[j]),
         NEW c, NEW l, NEW t, NEW h, Opened(q, h)
  PROVE  Shaped(q, c, l, t, h)
  BY DEF Harmless, Shaped, Ordered, Followed, Placed, AsText, Before

LEMMA HarmlessSteps ==
  /\ Harmless(Setting) /\ Harmless(Reboot) /\ Harmless(Dirty)
  /\ Harmless(Get("caps", 0, "show")) /\ Harmless(Get("caps", 1, "show"))
  /\ \A what \in Whats : Harmless(Do(what))
  /\ \A kind \in {"irdata", "key"}, i \in Line : Harmless(Get(kind, i, "show"))
  <1>1. \A what \in Whats : Harmless(Do(what))
    BY DoFormed DEF Harmless, Do, Ask, Puts, Changes, Whats
  <1>2. \A kind \in {"irdata", "key"}, i \in Line : Harmless(Get(kind, i, "show"))
    BY GetFormed DEF Harmless, Get, Ask, Puts, Changes
  <1> QED
    BY <1>1, <1>2, OthersFormed
       DEF Harmless, Setting, Reboot, Dirty, Get, Ask, Puts, Changes, Part, Parts

LEMMA AfterOpeningShaped ==
  ASSUME NEW c, NEW l, NEW t, NEW h
  PROVE  Shaped(AfterOpening, c, l, t, h)
  <1> DEFINE q == AfterOpening
  <1>1. /\ q \in Seq(Steps) /\ Len(q) = 5
        /\ q[1] = Get("caps", 0, "show") /\ q[2] = Get("caps", 1, "show")
        /\ q[3] = Do("get_eeprom") /\ q[4] = Do("enable") /\ q[5] = Setting
    BY HarmlessSteps DEF AfterOpening, Harmless, Formed, Whats
  <1>2. \A j \in 1 .. 5 : j = 1 \/ j = 2 \/ j = 3 \/ j = 4 \/ j = 5
    OBVIOUS
  <1> HIDE DEF q
  <1>3. \A j \in 1 .. Len(q) : Harmless(q[j])
    BY <1>1, <1>2, HarmlessSteps DEF Whats
  <1>4. Opened(q, h)
    BY <1>1, <1>2 DEF Opened, Get, Do, Setting, Ask
  <1> QED
    BY <1>1, <1>3, <1>4, HarmlessShaped DEF q

LEMMA OpeningShaped ==
  ASSUME NEW c, NEW l, NEW t, NEW h
  PROVE  /\ Shaped(<<Do("connect")>>, c, l, t, h)
         /\ Shaped(<<Do("disconnect")>>, c, l, t, h)
         /\ Shaped(<<Do("rescan")>>, c, l, t, h)
         /\ Shaped(<<Do("rescan"), Do("connect")>>, c, l, t, h)
         /\ Shaped(<<Reboot, Do("disconnect")>>, c, l, t, h)
         /\ Shaped(<<Dirty, Do("exit")>>, c, l, t, h)
         /\ Shaped(<<Dirty, Do("disconnect"), Do("connect")>>, c, l, t, h)
         /\ Shaped(<<Setting>>, c, l, t, h)
         /\ Shaped(<<Setting, Setting>>, c, l, t, h)
         /\ Shaped(<<Get("caps", 0, "show"), Get("caps", 1, "show")>>, c, l, t, h)
         /\ Shaped(<<Do("get_eeprom")>>, c, l, t, h)
  <1>1. ASSUME NEW s, Harmless(s), s.cmd # "flash"
        PROVE  Shaped(<<s>>, c, l, t, h)
    BY <1>1, OneShaped DEF Harmless
  <1>2. ASSUME NEW s, NEW r, Harmless(s), Harmless(r),
               s.cmd \notin {"connect", "flash"}, r.cmd # "flash"
        PROVE  Shaped(<<s, r>>, c, l, t, h)
    BY <1>2, PairShaped DEF Harmless, Before
  <1>3. \A what \in Whats : Harmless(Do(what)) /\ Do(what).cmd = what
    BY HarmlessSteps DEF Do, Ask
  <1>4. /\ Harmless(Reboot) /\ Reboot.cmd = "reboot"
        /\ Harmless(Dirty) /\ Dirty.cmd = "dirty"
        /\ Harmless(Setting) /\ Setting.cmd = "setting"
        /\ Harmless(Get("caps", 0, "show")) /\ Get("caps", 0, "show").cmd = "caps"
        /\ Harmless(Get("caps", 1, "show")) /\ Get("caps", 1, "show").cmd = "caps"
    BY HarmlessSteps DEF Reboot, Dirty, Setting, Get, Ask
  <1>5. /\ Shaped(<<Do("connect")>>, c, l, t, h)
        /\ Shaped(<<Do("disconnect")>>, c, l, t, h)
        /\ Shaped(<<Do("rescan")>>, c, l, t, h)
        /\ Shaped(<<Setting>>, c, l, t, h)
        /\ Shaped(<<Do("get_eeprom")>>, c, l, t, h)
    BY <1>1, <1>3, <1>4 DEF Whats
  <1>6. /\ Shaped(<<Do("rescan"), Do("connect")>>, c, l, t, h)
        /\ Shaped(<<Reboot, Do("disconnect")>>, c, l, t, h)
        /\ Shaped(<<Dirty, Do("exit")>>, c, l, t, h)
        /\ Shaped(<<Setting, Setting>>, c, l, t, h)
        /\ Shaped(<<Get("caps", 0, "show"), Get("caps", 1, "show")>>, c, l, t, h)
    BY <1>2, <1>3, <1>4 DEF Whats
  <1>7. Shaped(<<Dirty, Do("disconnect"), Do("connect")>>, c, l, t, h)
    <2> DEFINE q == <<Dirty, Do("disconnect"), Do("connect")>>
    <2>1. /\ q \in Seq(Steps) /\ Len(q) = 3
          /\ q[1] = Dirty /\ q[2] = Do("disconnect") /\ q[3] = Do("connect")
      BY HarmlessSteps DEF Harmless, Formed, Whats
    <2>2. \A j \in 1 .. 3 : j = 1 \/ j = 2 \/ j = 3
      OBVIOUS
    <2> HIDE DEF q
    <2>3. \A j \in 1 .. Len(q) : Harmless(q[j])
      BY <2>1, <2>2, HarmlessSteps DEF Whats
    <2>4. Opened(q, h)
      BY <2>1, <2>2 DEF Opened, Do, Dirty, Get, Ask
    <2> QED
      BY <2>1, <2>3, <2>4, HarmlessShaped DEF q
  <1> QED
    BY <1>5, <1>6, <1>7

LEMMA UpgradeShaped ==
  ASSUME NEW c, NEW l, NEW t, NEW h
  PROVE  Shaped((IF h # "none" THEN <<Reboot>> ELSE <<>>)
                \o <<Do("disconnect"), Do("flash"), Do("rescan"), Do("connect")>>,
                c, l, t, h)
  <1> DEFINE a == <<Do("disconnect"), Do("flash"), Do("rescan"), Do("connect")>>
  <1>1. /\ a \in Seq(Steps) /\ Len(a) = 4
        /\ a[1] = Do("disconnect") /\ a[2] = Do("flash")
        /\ a[3] = Do("rescan") /\ a[4] = Do("connect")
    BY HarmlessSteps DEF Harmless, Formed, Whats
  <1>2. \A what \in Whats : Harmless(Do(what)) /\ Do(what).cmd = what
    BY HarmlessSteps DEF Do, Ask
  <1>3. \A j \in 1 .. 4 : j = 1 \/ j = 2 \/ j = 3 \/ j = 4
    OBVIOUS
  <1>4. CASE h = "none"
    <2>1. <<>> \o a = a
      BY <1>1, ConcatEmptySeq
    <2> HIDE DEF a
    <2>2. \A j \in 1 .. Len(a) : Harmless(a[j])
      BY <1>1, <1>2, <1>3 DEF Whats
    <2>3. Opened(a, h)
      BY <1>1, <1>2, <1>3 DEF Opened, Whats
    <2>4. Shaped(a, c, l, t, h)
      BY <1>1, <2>2, <2>3, HarmlessShaped
    <2> QED
      BY <1>4, <2>1, <2>4 DEF a
  <1>5. CASE h # "none"
    <2> DEFINE q == <<Reboot>> \o a
    <2>1. <<Reboot>> \in Seq(Steps) /\ Len(<<Reboot>>) = 1
      BY HarmlessSteps DEF Harmless, Formed
    <2> HIDE DEF a
    <2>2. /\ q \in Seq(Steps) /\ Len(q) = 5
          /\ q[1] = Reboot /\ q[2] = a[1] /\ q[3] = a[2] /\ q[4] = a[3] /\ q[5] = a[4]
      <3>1. PICK r \in Seq(Steps) : r = <<Reboot>>
        BY <2>1
      <3>2. Len(r) = 1 /\ r[1] = Reboot
        BY <3>1
      <3>3. /\ r \o a \in Seq(Steps) /\ Len(r \o a) = Len(r) + Len(a)
            /\ \A i \in 1 .. Len(r) + Len(a) :
                  (r \o a)[i] = IF i <= Len(r) THEN r[i] ELSE a[i - Len(r)]
        BY <1>1, <3>1, ConcatProperties, Zenon
      <3>4. q = r \o a
        BY <3>1
      <3> HIDE DEF q
      <3> QED
        BY <1>1, <3>2, <3>3, <3>4
    <2>3. \A j \in 1 .. 5 : j = 1 \/ j = 2 \/ j = 3 \/ j = 4 \/ j = 5
      OBVIOUS
    <2> HIDE DEF q
    <2>4. \A j \in 1 .. Len(q) : Harmless(q[j])
      BY <1>1, <1>2, <2>2, <2>3, HarmlessSteps DEF Whats
    <2>5. Reboot.cmd = "reboot"
      BY DEF Reboot, Set, Ask
    <2>6. Opened(q, h)
      BY <1>1, <1>2, <2>2, <2>3, <2>5 DEF Opened, Whats
    <2>7. Shaped(q, c, l, t, h)
      BY <2>2, <2>4, <2>6, HarmlessShaped
    <2> QED
      BY <1>5, <2>7 DEF q, a
  <1> QED
    BY <1>4, <1>5

\* The handlers of a line, and the ones that learn or reset.
LEMMA LineShaped ==
  ASSUME NEW i \in Line, NEW t, NEW h
  PROVE  /\ \A value \in Values : Shaped(SetKey(i, value), i, i, t, h)
         /\ \A kind \in {"irdata", "key"}, value \in Values :
               Shaped(<<Set(kind, i, value, "show"), Get(kind, i, "put_next")>>,
                      i, i, t, h)
         /\ \A kind \in {"irdata", "key"} :
               /\ Shaped(<<Reset(kind, i), Get(kind, i, "put_next")>>, i, i, t, h)
               /\ Shaped(<<Get(kind, i, "show")>>, i, i, t, h)
         /\ Shaped(SetByRemote(i), i, i, t, h)
  <1>1. ASSUME NEW kind \in {"irdata", "key"}, NEW value \in Values,
               NEW use \in {"put", "put_next"}
        PROVE  Shaped(<<Set(kind, i, value, "show"), Get(kind, i, use)>>, i, i, t, h)
    <2> DEFINE s == Set(kind, i, value, "show")
               r == Get(kind, i, use)
    <2>1. Formed(s) /\ Formed(r)
      BY SetFormed, GetFormed
    <2> QED
      BY <2>1, PairShaped
         DEF Set, Get, Ask, Puts, Reads, Part, Before, Moves, Rewrites, Changes, Mends
  <1>2. ASSUME NEW kind \in {"irdata", "key"}
        PROVE  Shaped(<<Reset(kind, i), Get(kind, i, "put_next")>>, i, i, t, h)
    <2> DEFINE s == Reset(kind, i)
               r == Get(kind, i, "put_next")
    <2>1. Formed(s) /\ Formed(r)
      BY ResetFormed, GetFormed
    <2> QED
      BY <2>1, PairShaped
         DEF Reset, Get, Ask, Puts, Reads, Part, Before, Moves, Rewrites, Changes, Mends
  <1>3. ASSUME NEW kind \in {"irdata", "key"}
        PROVE  Shaped(<<Get(kind, i, "show")>>, i, i, t, h)
    BY HarmlessSteps, OneShaped DEF Harmless, Get, Ask
  <1>4. Shaped(SetByRemote(i), i, i, t, h)
    <2> DEFINE s == Set("irdata_remote", i, Erased, "learnt")
               r == Get("irdata", i, "compare")
    <2>1. Formed(s) /\ Formed(r)
      BY LearnFormed, CompareFormed
    <2>2. \A p \in Parts : Changes(s, p) => p = <<i, "irdata">>
      BY DEF Set, Ask, Changes, Part, Parts
    <2>3. \A p \in Parts : ~Changes(r, p) /\ (Mends(r, p) <=> p = <<i, "irdata">>)
      BY DEF Get, Ask, Changes, Mends, Reads, Puts, Part
    <2> QED
      BY <2>1, <2>2, <2>3, PairShaped
         DEF SetByRemote, Set, Get, Ask, Puts, Before, Moves, Rewrites, Reads
  <1> QED
    BY <1>1, <1>2, <1>3, <1>4 DEF SetKey

LEMMA ResetEepromShaped ==
  ASSUME NEW c, NEW l, NEW t, NEW h
  PROVE  Shaped(<<Reset("eeprom", 0), Do("get_eeprom")>>, c, l, t, h)
  <1>1. Formed(Reset("eeprom", 0)) /\ Formed(Do("get_eeprom"))
    BY OthersFormed, DoFormed DEF Whats
  <1> QED
    BY <1>1, PairShaped
       DEF Reset, Do, Ask, Puts, Reads, Before, Moves, Rewrites, Changes, Mends,
          Part, Parts

LEMMA LearnSettingShaped ==
  ASSUME NEW c, NEW l, NEW t, NEW h
  PROVE  Shaped(<<LearnSetting, Setting>>, c, l, t, h)
  BY OthersFormed, PairShaped
     DEF LearnSetting, Setting, Ask, Puts, Reads, Before, Moves, Rewrites, Changes,
         Mends, Part, Parts

LEMMA KeyboardShaped ==
  ASSUME NEW i \in Line, NEW key \in Values, NEW t, NEW h
  PROVE  Shaped(SetKey(i, key) \o SetByRemote(i) \o <<Do("rearm")>>, i, i, t, h)
  <1> DEFINE q == SetKey(i, key) \o SetByRemote(i) \o <<Do("rearm")>>
             s1 == Set("key", i, key, "show")
             s2 == Get("key", i, "put")
             s3 == Set("irdata_remote", i, Erased, "learnt")
             s4 == Get("irdata", i, "compare")
             s5 == Do("rearm")
  <1>1. Formed(s1) /\ Formed(s2) /\ Formed(s3) /\ Formed(s4) /\ Formed(s5)
    BY SetFormed, GetFormed, LearnFormed, CompareFormed, DoFormed DEF Whats
  <1>2. /\ q \in Seq(Steps) /\ Len(q) = 5
        /\ q[1] = s1 /\ q[2] = s2 /\ q[3] = s3 /\ q[4] = s4 /\ q[5] = s5
    <2> HIDE DEF s1, s2, s3, s4, s5
    <2>1. SetKey(i, key) = <<s1, s2>> /\ SetByRemote(i) = <<s3, s4>>
      BY DEF SetKey, SetByRemote, s1, s2, s3, s4
    <2>2. /\ <<s1, s2>> \in Seq(Steps) /\ <<s3, s4>> \in Seq(Steps)
          /\ <<s5>> \in Seq(Steps)
      BY <1>1 DEF Formed
    <2> QED
      BY <2>1, <2>2 DEF s5
  <1>3. \A j \in 1 .. 5 : j = 1 \/ j = 2 \/ j = 3 \/ j = 4 \/ j = 5
    OBVIOUS
  <1>4. /\ ~Moves(s1) /\ ~Rewrites(s1) /\ ~Puts(s1) /\ s1.use = "show" /\ s1.cmd = "key"
        /\ ~Moves(s2) /\ s2.use = "put" /\ s2.line = i /\ s2.cmd = "key"
        /\ ~Moves(s3) /\ ~Rewrites(s3) /\ s3.use = "learnt" /\ s3.line = i
        /\ s3.cmd = "irdata_remote"
        /\ s4.use = "compare" /\ s4.line = i /\ s4.cmd = "irdata"
        /\ ~Puts(s5) /\ s5.use = "none" /\ s5.cmd = "rearm"
        /\ ~Puts(s3)
    BY DEF Set, Get, Do, Ask, Moves, Rewrites, Reads, Puts
  <1>5. \A p \in Parts :
           /\ Changes(s1, p) => Mends(s2, p)
           /\ Changes(s3, p) => Mends(s4, p)
           /\ ~Changes(s2, p) /\ ~Changes(s4, p) /\ ~Changes(s5, p)
           /\ Mends(s4, p) => p = <<i, "irdata">>
           /\ ~Mends(s5, p)
    BY DEF Set, Get, Do, Ask, Changes, Mends, Reads, Puts, Part, Parts
  <1> HIDE DEF q, s1, s2, s3, s4, s5
  <1>6. Ordered(q)
    BY <1>2, <1>3, <1>4, <1>5 DEF Ordered, Before
  <1>7. Followed(q)
    BY <1>2, <1>3, <1>5 DEF Followed, MendedAfter
  <1>8. Placed(q, i, i) /\ AsText(q, t) /\ Opened(q, h)
    BY <1>2, <1>3, <1>4 DEF Placed, AsText, Opened
  <1>9. \A j \in 1 .. Len(q) : Formed(q[j])
    BY <1>1, <1>2, <1>3
  <1> QED
    BY <1>2, <1>6, <1>7, <1>8, <1>9 DEF Shaped, q

\* What is done with each line comes in pairs of steps.
LEMMA HalfOfLines ==
  /\ \A j \in 1 .. 2 * Lines :
        /\ (j + 1) \div 2 \in Line
        /\ 2 - (j % 2) = 1 \/ 2 - (j % 2) = 2
  /\ \A i \in Line :
        /\ 2 * i - 1 \in 1 .. 2 * Lines /\ 2 * i \in 1 .. 2 * Lines
        /\ ((2 * i - 1) + 1) \div 2 = i /\ (2 * i + 1) \div 2 = i
        /\ 2 - ((2 * i - 1) % 2) = 1 /\ 2 - ((2 * i) % 2) = 2
  BY GuiAssumption DEF Line

LEMMA LoadsShaped ==
  /\ OnLines(LoadLine) \in Seq(Steps)
  /\ \A j \in 1 .. Len(OnLines(LoadLine)) :
        \E kind \in {"irdata", "key"}, i \in Line :
           OnLines(LoadLine)[j] = Get(kind, i, "load")
  /\ \A p \in Parts : Mended(OnLines(LoadLine), p)
  <1> DEFINE q == OnLines(LoadLine)
  <1>1. \A i \in Line : /\ LoadLine(i)[1] = Get("irdata", i, "load")
                        /\ LoadLine(i)[2] = Get("key", i, "load")
    BY DEF LoadLine
  <1>2. \A j \in 1 .. 2 * Lines : q[j] = LoadLine((j + 1) \div 2)[2 - (j % 2)]
    BY DEF OnLines
  <1>3. \A j \in 1 .. 2 * Lines :
           \E kind \in {"irdata", "key"}, i \in Line : q[j] = Get(kind, i, "load")
    <2> SUFFICES ASSUME NEW j \in 1 .. 2 * Lines
                 PROVE  \E kind \in {"irdata", "key"}, i \in Line :
                           q[j] = Get(kind, i, "load")
      OBVIOUS
    <2>1. PICK i \in Line : i = (j + 1) \div 2
      BY HalfOfLines
    <2>2. q[j] = LoadLine(i)[1] \/ q[j] = LoadLine(i)[2]
      BY <1>2, <2>1, HalfOfLines
    <2> QED
      BY <1>1, <2>2
  <1>4. \A j \in 1 .. 2 * Lines : q[j] \in Steps
    BY <1>3, GetFormed DEF Formed
  <1>5. q \in Seq(Steps) /\ Len(q) = 2 * Lines
    <2>1. 2 * Lines \in Nat /\ DOMAIN q = 1 .. 2 * Lines
      BY GuiAssumption DEF OnLines
    <2>2. q = [j \in 1 .. 2 * Lines |-> q[j]]
      BY DEF OnLines
    <2> HIDE DEF q
    <2> QED
      BY <1>4, <2>1, <2>2
  <1>6. ASSUME NEW p \in Parts
        PROVE  Mended(q, p)
    <2>1. PICK i \in Line, kind \in {"irdata", "key"} : p = <<i, kind>>
      BY DEF Parts
    <2>2. \E j \in 1 .. 2 * Lines : q[j] = Get(kind, i, "load")
      <3>1. q[2 * i - 1] = LoadLine(i)[1] /\ q[2 * i] = LoadLine(i)[2]
        BY <1>2, HalfOfLines
      <3> HIDE DEF q
      <3> QED
        BY <1>1, <3>1, HalfOfLines
    <2>3. Mends(Get(kind, i, "load"), p)
      BY <2>1 DEF Get, Ask, Mends, Reads, Part
    <2> HIDE DEF q
    <2> QED
      BY <1>5, <2>2, <2>3 DEF Mended
  <1> QED
    BY <1>3, <1>5, <1>6

LEMMA FlashShaped ==
  ASSUME text \in [Parts -> Values], NEW c, NEW l, NEW h
  PROVE  Shaped(OnLines(FlashLine), c, l, text, h)
  <1> DEFINE q == OnLines(FlashLine)
             Flashes(s) == \E kind \in {"irdata", "key"}, i \in Line :
                              s = Set(kind, i, text[<<i, kind>>], "wrote")
  <1>1. \A i \in Line : Flashes(FlashLine(i)[1]) /\ Flashes(FlashLine(i)[2])
    BY DEF FlashLine
  <1>2. \A j \in 1 .. 2 * Lines : q[j] = FlashLine((j + 1) \div 2)[2 - (j % 2)]
    BY DEF OnLines
  <1>3. \A j \in 1 .. 2 * Lines : Flashes(q[j])
    <2> SUFFICES ASSUME NEW j \in 1 .. 2 * Lines
                 PROVE  Flashes(q[j])
      OBVIOUS
    <2>1. PICK i \in Line : i = (j + 1) \div 2
      BY HalfOfLines
    <2>2. q[j] = FlashLine(i)[1] \/ q[j] = FlashLine(i)[2]
      BY <1>2, <2>1, HalfOfLines
    <2> HIDE DEF q, Flashes
    <2> QED
      BY <1>1, <2>2
  <1>4. ASSUME NEW s, Flashes(s)
        PROVE  /\ Formed(s) /\ s.value = text[Part(s)] /\ s.use = "wrote"
               /\ ~Puts(s) /\ ~Reads(s) /\ s.cmd \in {"irdata", "key"}
    <2>1. PICK kind \in {"irdata", "key"}, i \in Line :
                  s = Set(kind, i, text[<<i, kind>>], "wrote")
      BY <1>4
    <2>2. text[<<i, kind>>] \in Values
      BY DEF Parts
    <2>3. Formed(s)
      BY <2>1, <2>2, SetFormed
    <2> QED
      BY <2>1, <2>3 DEF Set, Ask, Part, Puts, Reads
  <1> HIDE DEF Flashes
  <1>5. q \in Seq(Steps) /\ Len(q) = 2 * Lines
    <2>1. 2 * Lines \in Nat /\ DOMAIN q = 1 .. 2 * Lines
      BY GuiAssumption DEF OnLines
    <2>2. q = [j \in 1 .. 2 * Lines |-> q[j]]
      BY DEF OnLines
    <2>3. \A j \in 1 .. 2 * Lines : q[j] \in Steps
      BY <1>3, <1>4 DEF Formed
    <2> HIDE DEF q
    <2> QED
      BY <2>1, <2>2, <2>3
  <1> HIDE DEF q
  <1>6. \A j \in 1 .. Len(q) : Flashes(q[j])
    BY <1>3, <1>5
  <1>7. Ordered(q) /\ Followed(q) /\ Placed(q, c, l) /\ AsText(q, text)
    BY <1>4, <1>6 DEF Ordered, Before, Moves, Rewrites, Followed, Placed, AsText
  <1>8. Opened(q, h)
    BY <1>4, <1>6 DEF Opened
  <1> QED
    BY <1>4, <1>5, <1>6, <1>7, <1>8 DEF Shaped, q

\* Harmless steps put before the rest of a handler.
LEMMA ConcatShaped ==
  ASSUME NEW q \in Seq(Steps), NEW r,
         \A j \in 1 .. Len(q) : Harmless(q[j]) /\ q[j].cmd \notin {"connect", "flash"},
         NEW c, NEW l, NEW t, NEW h, Shaped(r, c, l, t, h),
         \A j \in 1 .. Len(r) : ~Puts(r[j]) /\ r[j].use # "wrote",
         r # <<>> => r[1].cmd # "flash"
  PROVE  /\ Shaped(q \o r, c, l, t, h)
         /\ \A p \in Parts : Mended(q, p) \/ Mended(r, p) => Mended(q \o r, p)
  <1>1. r \in Seq(Steps) /\ Len(q) \in Nat /\ Len(r) \in Nat
    BY DEF Shaped
  <1>2. PICK n, m, s : n = Len(q) /\ m = Len(r) /\ s = q \o r
    OBVIOUS
  <1>3. /\ s \in Seq(Steps) /\ Len(s) = n + m
        /\ \A i \in 1 .. n + m : s[i] = IF i <= n THEN q[i] ELSE r[i - n]
        /\ n \in Nat /\ m \in Nat
    BY <1>1, <1>2, ConcatProperties
  <1>4. \A i \in 1 .. n : i \in 1 .. n + m /\ s[i] = q[i]
    BY <1>3
  <1>5. \A i \in 1 .. m : i + n \in 1 .. n + m /\ s[i + n] = r[i]
    BY <1>3
  <1>6. \A i \in 1 .. n + m : i \in 1 .. n \/ (i - n \in 1 .. m /\ s[i] = r[i - n])
    BY <1>3
  <1>7. \A j \in 1 .. m : Formed(r[j]) /\ ~Puts(r[j]) /\ r[j].use # "wrote"
    BY <1>2 DEF Shaped
  <1>8. \A j \in 1 .. n : Harmless(s[j]) /\ s[j].cmd \notin {"connect", "flash"}
    BY <1>2, <1>4
  <1>9. \A i \in 1 .. n + m : Formed(s[i]) /\ ~Puts(s[i]) /\ s[i].use # "wrote"
    BY <1>6, <1>7, <1>8 DEF Harmless
  <1>10. Ordered(s)
    <2> SUFFICES ASSUME NEW j \in 1 .. n + m, NEW k \in 1 .. n + m, j < k
                 PROVE  Before(s[j], s[k])
      BY <1>3 DEF Ordered
    <2>1. CASE j \in 1 .. n
      BY <1>8, <1>9, <2>1 DEF Harmless, Before
    <2>2. CASE j \notin 1 .. n
      <3>1. /\ j - n \in 1 .. m /\ k - n \in 1 .. m /\ j - n < k - n
            /\ s[j] = r[j - n] /\ s[k] = r[k - n]
        <4>1. j - n \in 1 .. m /\ n < j
          BY <1>3, <1>6, <2>2
        <4>2. k - n \in 1 .. m /\ j - n < k - n /\ k \notin 1 .. n
          BY <1>3, <4>1
        <4> QED
          BY <1>6, <2>2, <4>1, <4>2
      <3> QED
        BY <1>2, <3>1 DEF Shaped, Ordered
    <2> QED
      BY <2>1, <2>2
  <1>11. Followed(s)
    <2> SUFFICES ASSUME NEW j \in 1 .. n + m, NEW p \in Parts, Changes(s[j], p)
                 PROVE  MendedAfter(s, j, p)
      BY <1>3 DEF Followed
    <2>1. j - n \in 1 .. m /\ s[j] = r[j - n]
      BY <1>6, <1>8 DEF Harmless
    <2>2. MendedAfter(r, j - n, p)
      BY <1>2, <1>7, <2>1 DEF Shaped, Followed
    <2>3. PICK k \in 1 .. m : j - n < k /\ Mends(r[k], p)
      BY <1>2, <2>2 DEF MendedAfter
    <2>4. k + n \in 1 .. Len(s) /\ j < k + n /\ Mends(s[k + n], p)
      BY <1>3, <1>5, <2>3
    <2> QED
      BY <2>4 DEF MendedAfter
  <1>12. Placed(s, c, l) /\ AsText(s, t)
    BY <1>3, <1>9 DEF Placed, AsText
  <1>13. Opened(s, h)
    <2> SUFFICES ASSUME NEW j \in 1 .. n + m
                 PROVE  /\ s[j].cmd = "connect" => j = n + m
                        /\ s[j].cmd = "flash" =>
                              IF j = 1 THEN h = "none" ELSE s[j - 1].cmd = "disconnect"
      BY <1>3 DEF Opened
    <2>1. CASE j \in 1 .. n
      BY <1>8, <2>1
    <2>2. CASE j \notin 1 .. n
      <3>1. j - n \in 1 .. m /\ s[j] = r[j - n]
        BY <1>6, <2>2
      <3>2. r[j - n].cmd = "connect" => j - n = m
        BY <1>2, <3>1 DEF Shaped, Opened
      <3>3. ASSUME r[j - n].cmd = "flash"
            PROVE  j # 1 /\ s[j - 1].cmd = "disconnect"
        <4>1. j - n # 1
          BY <1>1, <1>2, <3>1, <3>3, EmptySeq
        <4>2. /\ (j - n) - 1 \in 1 .. m /\ ((j - n) - 1) + n = j - 1
              /\ j # 1
          BY <1>3, <3>1, <4>1
        <4>3. r[(j - n) - 1].cmd = "disconnect"
          BY <1>2, <3>1, <3>3, <4>1 DEF Shaped, Opened
        <4> QED
          BY <1>5, <4>2, <4>3
      <3>4. r[j - n].cmd = "connect" => j = n + m
        BY <1>3, <3>1, <3>2
      <3> QED
        BY <3>1, <3>3, <3>4
    <2> QED
      BY <2>1, <2>2
  <1>14. ASSUME NEW p \in Parts, Mended(q, p) \/ Mended(r, p)
         PROVE  Mended(s, p)
    <2>1. CASE Mended(q, p)
      BY <1>2, <1>3, <1>4, <2>1 DEF Mended
    <2>2. CASE Mended(r, p)
      <3>1. PICK k \in 1 .. m : Mends(r[k], p)
        BY <1>2, <2>2 DEF Mended
      <3>2. k + n \in 1 .. Len(s) /\ s[k + n] = r[k]
        BY <1>3, <1>5, <3>1
      <3> QED
        BY <3>1, <3>2 DEF Mended
    <2> QED
      BY <1>14, <2>1, <2>2
  <1>15. Shaped(s, c, l, t, h)
    BY <1>3, <1>9, <1>10, <1>11, <1>12, <1>13 DEF Shaped
  <1> QED
    BY <1>2, <1>14, <1>15

\* The whole table is read, then the rest of the handler runs.
LEMMA LoadAllShaped ==
  ASSUME NEW r, NEW c, NEW l, NEW t, NEW h, Shaped(r, c, l, t, h),
         \A j \in 1 .. Len(r) : ~Puts(r[j]) /\ r[j].use # "wrote",
         r # <<>> => r[1].cmd # "flash"
  PROVE  /\ Shaped(LoadAll \o r, c, l, t, h)
         /\ \A p \in Parts : Mended(LoadAll \o r, p)
  <1>1. PICK q \in Seq(Steps) : q = OnLines(LoadLine)
    BY LoadsShaped
  <1>2. \A kind \in {"irdata", "key"}, i \in Line :
           /\ Harmless(Get(kind, i, "load"))
           /\ Get(kind, i, "load").cmd \notin {"connect", "flash"}
    BY GetFormed DEF Harmless, Get, Ask, Puts, Changes
  <1>3. \A j \in 1 .. Len(q) : Harmless(q[j]) /\ q[j].cmd \notin {"connect", "flash"}
    BY <1>1, <1>2, LoadsShaped
  <1>4. Harmless(Do("loaded")) /\ Do("loaded").cmd \notin {"connect", "flash"}
    BY HarmlessSteps DEF Do, Ask, Whats
  <1>5. PICK e \in Seq(Steps) : e = <<Do("loaded")>>
    <2>1. Do("loaded") \in Steps
      BY <1>4 DEF Harmless, Formed
    <2>2. <<Do("loaded")>> \in Seq(Steps)
      BY <2>1
    <2> QED
      BY <2>2
  <1>6. Len(e) = 1 /\ e[1] = Do("loaded")
    BY <1>5
  <1>7. PICK a, n : a = q \o e /\ n = Len(q)
    OBVIOUS
  <1>8. /\ a \in Seq(Steps) /\ Len(a) = n + 1 /\ n \in Nat
        /\ \A i \in 1 .. n + 1 : a[i] = IF i <= n THEN q[i] ELSE e[i - n]
    BY <1>6, <1>7, ConcatProperties
  <1>9. \A j \in 1 .. Len(a) : Harmless(a[j]) /\ a[j].cmd \notin {"connect", "flash"}
    <2> SUFFICES ASSUME NEW j \in 1 .. n + 1
                 PROVE  Harmless(a[j]) /\ a[j].cmd \notin {"connect", "flash"}
      BY <1>8
    <2>1. CASE j <= n
      <3>1. j \in 1 .. n /\ a[j] = q[j]
        BY <1>8, <2>1
      <3> QED
        BY <1>3, <1>7, <3>1
    <2>2. CASE ~(j <= n)
      <3>1. j - n = 1 /\ a[j] = e[j - n]
        BY <1>8, <2>2
      <3> QED
        BY <1>4, <1>6, <3>1
    <2> QED
      BY <1>8, <2>1, <2>2
  <1>10. ASSUME NEW p \in Parts
         PROVE  Mended(a, p)
    <2>1. PICK k \in 1 .. n : Mends(q[k], p)
      BY <1>1, <1>7, LoadsShaped DEF Mended
    <2>2. k \in 1 .. Len(a) /\ a[k] = q[k]
      BY <1>8
    <2> QED
      BY <2>1, <2>2 DEF Mended
  <1>11. LoadAll = a
    BY <1>1, <1>5, <1>7 DEF LoadAll
  <1> QED
    BY <1>8, <1>9, <1>10, <1>11, ConcatShaped

(***************************************************************************)
(* Types.                                                                  *)
(***************************************************************************)
Reports ==
    {Remote, Log} \cup [id : {"config"}, acc : {"get", "set", "reset", "none"},
                   cmd : Cmds \cup Whats \cup {"nothing"}, ok : BOOLEAN, value : Values]

Types ==
    /\ TypeOK
    /\ reports \in Seq(Reports)
    /\ buffer \in Steps \cup {NoCommand}
    /\ serving \in Steps \cup {NoCommand}

LEMMA Typed ==
  /\ Line # {} /\ 1 \in Line /\ Lines \in Line
  /\ Blank \in [Parts -> Values] /\ File \in [Parts -> Values]
  /\ Erased \in Values /\ Zeros \in Values
  /\ Codes \subseteq Values /\ Keys \subseteq Values
  BY GuiAssumption DEF Line, Blank, Values

LEMMA Bounds ==
  /\ 0 \in 0 .. Patience /\ 0 \in 0 .. LearnTime /\ 0 \in 0 .. Clicks
  /\ 0 <= QueueSize
  BY GuiAssumption

LEMMA InitTypes == Init => Types
  <1> SUFFICES ASSUME Init
               PROVE  Types
    OBVIOUS
  <1>1. TypeOK
    <2>1. reports = <<>> /\ Len(reports) <= QueueSize
      BY Bounds, EmptySeq DEF Init
    <2>2. /\ enabled \subseteq AtStart \cup OnConnected
          /\ active \subseteq {"receive", "keyboard", "loop"}
          /\ timers \subseteq {"read_timer", "keyboard_timer", "loop_timer"}
      BY DEF Init
    <2> QED
      BY <2>1, <2>2, Typed, Bounds DEF Init, TypeOK
  <1>2. reports \in Seq(Reports)
    BY EmptySeq DEF Init
  <1> QED
    BY <1>1, <1>2 DEF Init, Types

LEMMA EndTypes ==
  ASSUME Types, End, UNCHANGED clicks
  PROVE  Types'
  <1>1. reports' \in Seq(Reports) /\ Len(reports') = 0
    BY EmptySeq DEF End
  <1>3. TypeOK'
    BY <1>1, Bounds, Typed DEF End, Types, TypeOK, device_vars
  <1> QED
    BY <1>1, <1>3 DEF End, Types, device_vars

\* The first step of the running handler.
LEMMA HeadFormed ==
  ASSUME Shape, todo # <<>>
  PROVE  /\ 1 \in 1 .. Len(todo) /\ Head(todo) = todo[1]
         /\ Formed(Head(todo)) /\ Head(todo) \in Steps
  <1>1. 1 \in 1 .. Len(todo) /\ Head(todo) = todo[1]
    BY HeadTailProperties, EmptySeq DEF Shape, Shaped
  <1> QED
    BY <1>1 DEF Shape, Shaped, Formed

LEMMA KindsOfSteps ==
  ASSUME NEW s, Formed(s)
  PROVE  /\ s.value \in Values /\ s.line \in Line \cup {0}
         /\ s.cmd \in Whats => /\ s.acc = "none" /\ s.use = "none"
                               /\ ~Puts(s) /\ ~Reads(s)
         /\ s.acc # "none" => /\ s.cmd \in Cmds /\ s.use \in Uses
                              /\ s.cmd \notin Whats
                              /\ s.acc \in {"get", "set", "reset"}
  BY Typed DEF Formed, Steps, Do, Ask, Cmds, Whats, Uses, Puts, Reads

Buttonsets == SUBSET (AtStart \cup OnConnected)
Timers == SUBSET {"read_timer", "keyboard_timer", "loop_timer"}

LEMMA AbortedTypes ==
  ASSUME Types, NEW e \in Buttonsets, NEW t \in Timers, Aborted(e, t) \/ GoesOn(e, t)
  PROVE  /\ enabled' \in Buttonsets /\ timers' \in Timers
         /\ active' \subseteq {"receive", "keyboard", "loop"}
         /\ pressed' \in Keys \cup {NoKey} /\ last_key' \in Values \cup {NoKey}
  BY DEF Types, TypeOK, Buttonsets, Timers, Aborted, GoesOn, OffInKeyboardMode,
         AtStart, OnConnected, key_vars

LEMMA NextLineType == Types => NextLine \in Line
  BY GuiAssumption DEF Types, TypeOK, NextLine, Line

LEMMA AfterTypes ==
  ASSUME Types, Shape, Exchange, NEW ok \in BOOLEAN, NEW v \in Values,
         NEW e \in Buttonsets, NEW t \in Timers, After(ok, v, e, t)
  PROVE  /\ enabled' \in Buttonsets /\ timers' \in Timers
         /\ active' \subseteq {"receive", "keyboard", "loop"}
         /\ pressed' \in Keys \cup {NoKey} /\ last_key' \in Values \cup {NoKey}
         /\ text' \in [Parts -> Values] /\ modified' \in BOOLEAN
         /\ doubt' \subseteq Parts
         /\ cursor' \in Line /\ line_text' \in Line
         /\ sent' \in BOOLEAN /\ tries' \in 0 .. Patience
  <1> DEFINE s == Head(todo)
             Result ==
               /\ enabled' \in Buttonsets /\ timers' \in Timers
               /\ active' \subseteq {"receive", "keyboard", "loop"}
               /\ pressed' \in Keys \cup {NoKey} /\ last_key' \in Values \cup {NoKey}
               /\ text' \in [Parts -> Values] /\ modified' \in BOOLEAN
               /\ doubt' \subseteq Parts
               /\ cursor' \in Line /\ line_text' \in Line
  <1>1. Formed(s) /\ s.acc # "none"
    BY HeadFormed DEF Exchange, Step
  <1>2. /\ text \in [Parts -> Values] /\ doubt \subseteq Parts /\ modified \in BOOLEAN
        /\ cursor \in Line /\ line_text \in Line
        /\ pressed \in Keys \cup {NoKey} /\ last_key \in Values \cup {NoKey}
        /\ active \subseteq {"receive", "keyboard", "loop"}
    BY DEF Types, TypeOK
  <1>3. sent' \in BOOLEAN /\ tries' \in 0 .. Patience
    BY Bounds DEF After
  <1>4. t \cup (IF "loop" \in active THEN {"loop_timer"} ELSE {}) \in Timers
    <2>1. CASE "loop" \in active
      BY <2>1 DEF Timers
    <2>2. CASE "loop" \notin active
      BY <2>2 DEF Timers
    <2> QED
      BY <2>1, <2>2
  <1>5. ASSUME Show(e, t)
        PROVE  Result
    BY <1>2, <1>5, AbortedTypes DEF Show, text_vars, place_vars
  <1>6. ASSUME Load(ok, v, e, t)
        PROVE  Result
    <2>1. Part(s) \in Parts
      BY <1>1, <1>6 DEF Load, Formed, Reads
    <2> QED
      BY <1>2, <1>6, <2>1, AbortedTypes DEF Load, Doubted, Part, place_vars
  <1>7. ASSUME Wrote(ok, e, t)
        PROVE  Result
    <2>1. Part(s) \in Parts
      BY <1>1, <1>7 DEF Wrote, Formed
    <2> QED
      BY <1>2, <1>7, <2>1, AbortedTypes DEF Wrote, Doubted, Part, place_vars
  <1>8. ASSUME Put(ok, v, e, t)
        PROVE  Result
    <2>1. <<cursor, s.cmd>> \in Parts
      BY <1>1, <1>2, <1>8 DEF Put, Formed, Reads, Puts, Part, Parts
    <2> QED
      BY <1>2, <1>8, <2>1, NextLineType DEF Put, PutText, Doubted
  <1>9. ASSUME Learnt(ok, e, t)
        PROVE  Result
    <2>1. s.cmd # "setting_remote" => <<s.line, "irdata">> \in Parts
      BY <1>1, <1>9 DEF Learnt, Formed, Parts
    <2> QED
      BY <1>2, <1>9, <2>1, AbortedTypes DEF Learnt, place_vars
  <1>10. ASSUME Compare(ok, v, e, t)
        PROVE  Result
    <2>1. <<cursor, "irdata">> \in Parts /\ <<line_text, "irdata">> \in Parts
      BY <1>2 DEF Parts
    <2> QED
      BY <1>2, <1>4, <1>10, <2>1, AbortedTypes, NextLineType
         DEF Compare, PutText, Doubted, place_vars
  <1> QED
    BY <1>3, <1>5, <1>6, <1>7, <1>8, <1>9, <1>10 DEF After

LEMMA BeginTypes ==
  ASSUME Types, NEW steps, Begin(steps), clicks' \in 0 .. Clicks
  PROVE  Types'
  BY DEF Types, TypeOK, Begin, mode_vars, key_vars, text_vars, place_vars,
         read_vars, device_vars

LEMMA ClickedType == Types /\ Clicked => clicks' \in 0 .. Clicks
  BY GuiAssumption DEF Types, TypeOK, Clicked

LEMMA ButtonsTypes ==
  ASSUME Types, Buttons, clicks' \in 0 .. Clicks
  PROVE  Types'
  <1>1. CASE onSetEeprom
    BY <1>1, Typed DEF onSetEeprom, Types, TypeOK, mode_vars, key_vars, text_vars,
                place_vars, read_vars, device_vars
  <1>2. CASE ~onSetEeprom
    <2>1. \E steps : Begin(steps)
      BY <1>2 DEF Buttons, onConnect, onDisconnect, onRescan, onReboot, onUpgrade,
         onDevlistDoubleclicked, onCmdQuit, onSetWakeup, onSetMacro, onSetRepeat,
         onSetAlarm, onSendIR, onCommitEeprom, onGetWakeup, onGetMacro, onGetRepeat,
         onGetAlarm, onResetWakeup, onResetMacro, onResetRepeat, onResetAlarm,
         onGetCaps, onGetrawEeprom, onSetByRemoteWakeup, onSetByRemoteMacro,
         onGetIrdata, onGetKey, onSetByRemoteIrdata, onSetIrdata, onSetKey,
         onResetIrdata, onResetKey, onGetEeprom, onResetEeprom
    <2> QED
      BY <2>1, BeginTypes
  <1> QED
    BY <1>1, <1>2

LEMMA TextTypes ==
  ASSUME Types, TextActions, clicks' \in 0 .. Clicks
  PROVE  Types'
  <1>1. CASE Edit
    <2>1. PICK edit \in Edits : /\ text' = [text EXCEPT ![edit[1]] = edit[2]]
                                /\ doubt' = doubt \cup {edit[1]}
      BY <1>1 DEF Edit
    <2>2. edit[1] \in Parts /\ edit[2] \in Values
      BY GuiAssumption
    <2>3. text' \in [Parts -> Values] /\ doubt' \subseteq Parts
      BY <2>1, <2>2 DEF Types, TypeOK
    <2> QED
      BY <1>1, <2>3 DEF Edit, Types, TypeOK, mode_vars, key_vars, place_vars,
                read_vars, device_vars
  <1>2. CASE ClickLine
    BY <1>2 DEF ClickLine, Types, TypeOK, mode_vars, key_vars, text_vars,
                read_vars, device_vars
  <1>3. CASE onOpen
    <2>1. active' \subseteq {"receive", "keyboard", "loop"}
      BY <1>3 DEF onOpen, Types, TypeOK
    <2> QED
      BY <1>3, <2>1, Typed DEF onOpen, Types, TypeOK, key_vars, read_vars, device_vars
  <1>4. CASE onSave
    BY <1>4 DEF onSave, Types, TypeOK, mode_vars, key_vars, place_vars,
                read_vars, device_vars
  <1> QED
    BY <1>1, <1>2, <1>3, <1>4 DEF TextActions

LEMMA NoReports ==
  reports' = <<>> => reports' \in Seq(Reports) /\ Len(reports') <= QueueSize
  BY Bounds, EmptySeq

LEMMA SetTypes ==
  ASSUME Types
  PROVE  /\ StoppedTimers \in Timers
         /\ \A name \in {"read_timer", "keyboard_timer", "loop_timer"} :
               /\ timers \cup {name} \in Timers /\ timers \ {name} \in Timers
               /\ StoppedTimers \cup {name} \in Timers
         /\ enabled \in Buttonsets
         /\ Disconnected(enabled) \in Buttonsets /\ Connected(enabled) \in Buttonsets
         /\ Disconnected(enabled \ OffWhileReceiving) \in Buttonsets
         /\ enabled \ OffWhileReceiving \in Buttonsets
         /\ enabled \cup OffWhileReceiving \in Buttonsets
         /\ enabled \ OffInKeyboardMode \in Buttonsets
         /\ (enabled \cup OffInKeyboardMode) \ {"connect"} \in Buttonsets
  BY DEF Types, TypeOK, Timers, Buttonsets, StoppedTimers, Disconnected, Connected,
         OnConnected, AtStart, OffWhileReceiving, OffInKeyboardMode

LEMMA ModesTypes ==
  ASSUME Types, Modes, clicks' \in 0 .. Clicks
  PROVE  Types'
  <1>1. \A name \in {"receive", "keyboard"} :
           /\ active \cup {name} \subseteq {"receive", "keyboard", "loop"}
           /\ active \ {name} \subseteq {"receive", "keyboard", "loop"}
    BY DEF Types, TypeOK
  <1>2. CASE ReceiveOn
    <2>1. /\ enabled' \in Buttonsets /\ timers' \in Timers
          /\ handle' \in {"none", "open", "dead"} /\ listed' \in BOOLEAN
      BY <1>2, SetTypes DEF ReceiveOn, Types, TypeOK
    <2> QED
      BY <1>1, <1>2, <2>1, NoReports
         DEF ReceiveOn, Types, TypeOK, Buttonsets, Timers, key_vars, text_vars,
             place_vars, read_vars, device_vars
  <1>3. CASE ReceiveOff
    BY <1>1, <1>3, SetTypes
       DEF ReceiveOff, Types, TypeOK, Buttonsets, Timers, key_vars, text_vars,
           place_vars, read_vars, device_vars
  <1>4. CASE KeyboardOn
    BY <1>1, <1>4, SetTypes
       DEF KeyboardOn, Types, TypeOK, Buttonsets, Timers, text_vars,
           place_vars, read_vars, device_vars
  <1>5. CASE KeyboardOff
    BY <1>1, <1>5, SetTypes
       DEF KeyboardOff, Types, TypeOK, Buttonsets, Timers, text_vars,
           place_vars, read_vars, device_vars
  <1> QED
    BY <1>2, <1>3, <1>4, <1>5 DEF Modes

LEMMA InModesTypes ==
  ASSUME Types, InModes, UNCHANGED clicks
  PROVE  Types'
  <1>1. CASE ReceiveCrash
    BY <1>1, EndTypes DEF ReceiveCrash
  <1>2. CASE onReadIR
    <2>1. reports' \in Seq(Reports) /\ Len(reports') <= QueueSize
      <3>1. reports \in Seq(Reports) /\ reports # <<>> /\ reports' = Tail(reports)
            /\ Len(reports) <= QueueSize
        BY <1>2 DEF onReadIR, Types, TypeOK
      <3>2. reports' \in Seq(Reports) /\ Len(reports') = Len(reports) - 1
        BY <3>1, HeadTailProperties
      <3> QED
        BY <3>1, <3>2, GuiAssumption
    <2>2. cursor' \in Line
      BY <1>2 DEF onReadIR, Types, TypeOK
    <2> QED
      BY <1>2, <2>1, <2>2
         DEF onReadIR, Types, TypeOK, mode_vars, key_vars, text_vars, read_vars,
             device_vars
  <1>3. CASE ReceiveError
    BY <1>3, SetTypes, NoReports
       DEF ReceiveError, Disconnect, Types, TypeOK, Buttonsets, Timers, key_vars,
           place_vars, read_vars, device_vars
  <1>4. CASE onKeyPress
    BY <1>4 DEF onKeyPress, Types, TypeOK, mode_vars, text_vars, place_vars,
                read_vars, device_vars
  <1>5. CASE onKbdTimeout
    BY <1>5, SetTypes
       DEF onKbdTimeout, Types, TypeOK, Buttonsets, Timers, text_vars, place_vars,
           read_vars, device_vars
  <1>6. CASE onSetByRemoteIrdataTimeout
    BY <1>6, SetTypes
       DEF onSetByRemoteIrdataTimeout, Types, TypeOK, Buttonsets, Timers, key_vars,
           text_vars, place_vars, read_vars, device_vars
  <1> QED
    BY <1>1, <1>2, <1>3, <1>4, <1>5, <1>6 DEF InModes

LEMMA StartTypes ==
  ASSUME Types, Start \/ Display, UNCHANGED clicks
  PROVE  Types'
  <1>1. CASE Start
    BY <1>1 DEF Start, Types, TypeOK, key_vars, text_vars, place_vars, read_vars,
                device_vars
  <1>2. CASE Display
    BY <1>2 DEF Display, Types, TypeOK, mode_vars, key_vars, text_vars, read_vars,
                device_vars
  <1> QED
    BY <1>1, <1>2

LEMMA FailedTypes ==
  ASSUME Types, Shape, Exchange, Failed, UNCHANGED clicks
  PROVE  Types'
  <1>1. NoAnswer \in Values
    BY Typed DEF NoAnswer
  <1>2. After(FALSE, NoAnswer, Disconnected(enabled), StoppedTimers)
    BY DEF Failed
  <1>3. /\ enabled' \in Buttonsets /\ timers' \in Timers
        /\ active' \subseteq {"receive", "keyboard", "loop"}
        /\ pressed' \in Keys \cup {NoKey} /\ last_key' \in Values \cup {NoKey}
        /\ text' \in [Parts -> Values] /\ modified' \in BOOLEAN
        /\ doubt' \subseteq Parts
        /\ cursor' \in Line /\ line_text' \in Line
        /\ sent' \in BOOLEAN /\ tries' \in 0 .. Patience
    BY <1>1, <1>2, AfterTypes, SetTypes
  <1> QED
    BY <1>3, NoReports DEF Failed, Types, TypeOK, Buttonsets, Timers, device_vars

\* One report was read.
LEMMA ReadTypes ==
  ASSUME Types, reports # <<>>, reports' = Tail(reports)
  PROVE  /\ reports' \in Seq(Reports) /\ Len(reports') <= QueueSize
         /\ Head(reports) \in Reports
  <1>1. reports \in Seq(Reports) /\ Len(reports) <= QueueSize /\ QueueSize \in Nat
    BY GuiAssumption DEF Types, TypeOK
  <1>2. /\ reports' \in Seq(Reports) /\ Len(reports') = Len(reports) - 1
        /\ Head(reports) \in Reports
    BY <1>1, HeadTailProperties
  <1> QED
    BY <1>1, <1>2

LEMMA ReadAnswerTypes ==
  ASSUME Types, Shape, ReadAnswer, UNCHANGED clicks
  PROVE  Types'
  <1> DEFINE a == Head(reports)
             ok == a.ok /\ a.acc = Head(todo).acc /\ a.cmd = Head(todo).cmd
  <1>1. /\ reports' \in Seq(Reports) /\ Len(reports') <= QueueSize
        /\ a \in Reports /\ a.id = "config"
    BY ReadTypes DEF ReadAnswer
  <1>2. a.value \in Values /\ ok \in BOOLEAN
    BY <1>1 DEF Reports, Remote, Log
  <1>3. After(ok, a.value, enabled, timers) /\ Exchange
    BY DEF ReadAnswer, Waits
  <1>4. enabled \in Buttonsets /\ timers \in Timers
    BY DEF Types, TypeOK, Buttonsets, Timers
  <1> HIDE DEF a, ok
  <1>5. /\ enabled' \in Buttonsets /\ timers' \in Timers
        /\ active' \subseteq {"receive", "keyboard", "loop"}
        /\ pressed' \in Keys \cup {NoKey} /\ last_key' \in Values \cup {NoKey}
        /\ text' \in [Parts -> Values] /\ modified' \in BOOLEAN
        /\ doubt' \subseteq Parts
        /\ cursor' \in Line /\ line_text' \in Line
        /\ sent' \in BOOLEAN /\ tries' \in 0 .. Patience
    BY <1>2, <1>3, <1>4, AfterTypes
  <1> QED
    BY <1>1, <1>5 DEF ReadAnswer, Types, TypeOK, Buttonsets, Timers, device_vars

LEMMA ReadLogTypes ==
  ASSUME Types, Shape, ReadLog, UNCHANGED clicks
  PROVE  Types'
  <1>1. reports' \in Seq(Reports) /\ Len(reports') <= QueueSize
    BY ReadTypes DEF ReadLog
  <1>2. Noise \in Values
    BY DEF Values
  <1>3. After(FALSE, Noise, enabled, timers) /\ Exchange
    BY DEF ReadLog, Waits
  <1>4. enabled \in Buttonsets /\ timers \in Timers
    BY DEF Types, TypeOK, Buttonsets, Timers
  <1>5. /\ enabled' \in Buttonsets /\ timers' \in Timers
        /\ active' \subseteq {"receive", "keyboard", "loop"}
        /\ pressed' \in Keys \cup {NoKey} /\ last_key' \in Values \cup {NoKey}
        /\ text' \in [Parts -> Values] /\ modified' \in BOOLEAN
        /\ doubt' \subseteq Parts
        /\ cursor' \in Line /\ line_text' \in Line
        /\ sent' \in BOOLEAN /\ tries' \in 0 .. Patience
    BY <1>2, <1>3, <1>4, AfterTypes
  <1> QED
    BY <1>1, <1>5 DEF ReadLog, Types, TypeOK, Buttonsets, Timers, device_vars

LEMMA GiveUpTypes ==
  ASSUME Types, Shape, GiveUp, UNCHANGED clicks
  PROVE  Types'
  <1>1. NoAnswer \in Values
    BY Typed DEF NoAnswer
  <1>2. After(FALSE, NoAnswer, enabled, timers) /\ Exchange
    BY DEF GiveUp
  <1>3. enabled \in Buttonsets /\ timers \in Timers
    BY DEF Types, TypeOK, Buttonsets, Timers
  <1>4. /\ enabled' \in Buttonsets /\ timers' \in Timers
        /\ active' \subseteq {"receive", "keyboard", "loop"}
        /\ pressed' \in Keys \cup {NoKey} /\ last_key' \in Values \cup {NoKey}
        /\ text' \in [Parts -> Values] /\ modified' \in BOOLEAN
        /\ doubt' \subseteq Parts
        /\ cursor' \in Line /\ line_text' \in Line
        /\ sent' \in BOOLEAN /\ tries' \in 0 .. Patience
    BY <1>1, <1>2, <1>3, AfterTypes
  <1> QED
    BY <1>4 DEF GiveUp, Types, TypeOK, Buttonsets, Timers, device_vars

LEMMA TriesType == Types /\ Waits => tries + 1 \in 0 .. Patience
  BY GuiAssumption DEF Types, TypeOK, Waits

LEMMA HandlerTypes ==
  ASSUME Types, Shape, Handler, UNCHANGED clicks
  PROVE  Types'
  <1>1. CASE Write
    <2>1. /\ buffer' \in Steps \cup {NoCommand} /\ sent' \in BOOLEAN
          /\ crossed' \in BOOLEAN
      BY <1>1, HeadFormed DEF Write, Exchange, Step
    <2> QED
      BY <1>1, <2>1 DEF Write, Types, TypeOK, mode_vars, key_vars, text_vars, place_vars
  <1>2. CASE WriteError \/ ReadError
    BY <1>2, FailedTypes DEF WriteError, ReadError, Waits
  <1>3. CASE Crash \/ Exit
    BY <1>3, EndTypes DEF Crash, Exit
  <1>4. CASE ReadOther
    <2>1. tries' \in 0 .. Patience
      BY <1>4, TriesType DEF ReadOther, Types, TypeOK
    <2> QED
      BY <1>4, <2>1, ReadTypes
         DEF ReadOther, Types, TypeOK, mode_vars, key_vars, text_vars, place_vars,
             device_vars
  <1>5. CASE GetEeprom
    BY <1>5 DEF GetEeprom, Types, TypeOK, mode_vars, key_vars, place_vars, read_vars,
                device_vars
  <1>6. CASE Loaded
    <2>1. active' \subseteq {"receive", "keyboard", "loop"}
      BY <1>6 DEF Loaded, Types, TypeOK
    <2> QED
      BY <1>6, <2>1, Typed
         DEF Loaded, Types, TypeOK, key_vars, read_vars, device_vars
  <1>7. CASE Connect
    <2>1. handle' \in {"none", "open", "dead"} /\ crossed' \in BOOLEAN
      BY <1>7 DEF Connect, Types, TypeOK
    <2> QED
      BY <1>7, <2>1 DEF Connect, Types, TypeOK, mode_vars, key_vars, text_vars,
                        place_vars, read_vars, device_vars
  <1>8. CASE Enable
    BY <1>8, SetTypes DEF Enable, Types, TypeOK, Buttonsets, key_vars, text_vars,
                          place_vars, read_vars, device_vars
  <1>9. CASE StepDisconnect \/ Rescan
    <2>1. listed' \in BOOLEAN /\ Disconnect
      BY <1>9 DEF StepDisconnect, Rescan, Types, TypeOK
    <2> QED
      BY <2>1, SetTypes, NoReports
         DEF Disconnect, Types, TypeOK, Buttonsets, Timers, key_vars, place_vars,
             read_vars, device_vars
  <1>10. CASE Flash
    <2>1. plugged' \in BOOLEAN /\ cells' \in [Parts -> Values]
      BY <1>10, Typed DEF Flash, Restarted, Types, TypeOK
    <2> QED
      BY <1>10, <2>1 DEF Flash, Types, TypeOK, mode_vars, key_vars, text_vars,
                         place_vars, read_vars
  <1>11. CASE Rearm
    <2>1. timers' \in Timers
      BY <1>11 DEF Rearm, Types, TypeOK, Timers
    <2> QED
      BY <1>11, <2>1 DEF Rearm, Types, TypeOK, Timers, key_vars, text_vars,
                         place_vars, read_vars, device_vars
  <1> QED
    BY <1>1, <1>2, <1>3, <1>4, <1>5, <1>6, <1>7, <1>8, <1>9, <1>10, <1>11,
       ReadAnswerTypes, ReadLogTypes, GiveUpTypes DEF Handler

LEMMA DeliveredTypes ==
  ASSUME Types, NEW r \in Reports, Delivered(r)
  PROVE  reports' \in Seq(Reports) /\ Len(reports') <= QueueSize
  <1>1. reports \in Seq(Reports) /\ Len(reports) <= QueueSize /\ QueueSize \in Nat
    BY GuiAssumption DEF Types, TypeOK
  <1>2. CASE handle = "open" /\ Len(reports) < QueueSize
    <2>1. /\ reports' = Append(reports, r)
          /\ reports' \in Seq(Reports) /\ Len(reports') = Len(reports) + 1
      BY <1>1, <1>2, AppendProperties DEF Delivered
    <2> QED
      BY <1>1, <1>2, <2>1
  <1>3. CASE ~(handle = "open" /\ Len(reports) < QueueSize)
    BY <1>1, <1>3 DEF Delivered
  <1> QED
    BY <1>2, <1>3

LEMMA StoredType == Types /\ buffer \in Steps => Stored \in [Parts -> Values]
  <1> SUFFICES ASSUME Types, buffer \in Steps
               PROVE  Stored \in [Parts -> Values]
    OBVIOUS
  <1>1. buffer.value \in Values
    BY Typed DEF Steps, Do, Ask
  <1> QED
    BY <1>1, Typed DEF Stored, Types, TypeOK

LEMMA AnswerType ==
  ASSUME Types, NEW ok \in BOOLEAN, NEW v \in Values
  PROVE  Answer(ok, v) \in Reports /\ Answer(ok, v).id = "config"
  <1>1. /\ buffer.acc \in {"get", "set", "reset", "none"}
        /\ buffer.cmd \in Cmds \cup Whats \cup {"nothing"}
    BY DEF Types, Steps, NoCommand, Do, Ask, Whats
  <1> QED
    BY <1>1 DEF Answer, Reports

LEMMA RemoteTypes ==
  ASSUME Types, RemoteReport \/ LogReport, clicks' \in 0 .. Clicks
  PROVE  Types'
  <1>1. PICK r \in {Remote, Log} : FromRemote(r)
    BY DEF RemoteReport, LogReport
  <1>2. reports' \in Seq(Reports) /\ Len(reports') <= QueueSize
    BY <1>1, DeliveredTypes DEF FromRemote, Reports, Remote, Log
  <1> QED
    BY <1>1, <1>2 DEF FromRemote, Types, TypeOK, program_vars, mode_vars, key_vars,
       text_vars, place_vars, read_vars, device_vars

LEMMA DeviceTypes ==
  ASSUME Types, Device, UNCHANGED clicks
  PROVE  Types'
  <1>1. 0 \in 0 .. LearnTime /\ NoCommand \in Steps \cup {NoCommand}
    BY Bounds
  <1>2. CASE Serve
    <2>1. buffer \in Steps
      BY <1>2 DEF Serve, Types
    <2>2. Fetched \in Values
      BY Typed DEF Fetched, Types, TypeOK
    <2>3. reports' \in Seq(Reports) /\ Len(reports') <= QueueSize
      BY <1>2, <2>2, AnswerType, DeliveredTypes DEF Serve
    <2>4. /\ cells' \in [Parts -> Values] /\ plugged' \in BOOLEAN
          /\ handle' \in {"none", "open", "dead"}
      BY <1>2, <2>1, StoredType DEF Serve, Abandoned, Types, TypeOK
    <2> QED
      BY <1>2, <2>3, <2>4 DEF Serve, Types, TypeOK, program_vars, mode_vars, key_vars,
         text_vars, place_vars, read_vars
  <1>3. CASE Learn \/ LearnTimeout
    <2>1. PICK ok \in BOOLEAN : EndLearn(ok)
      BY <1>3 DEF Learn, LearnTimeout
    <2>2. reports' \in Seq(Reports) /\ Len(reports') <= QueueSize
      BY <2>1, Typed, AnswerType, DeliveredTypes DEF EndLearn
    <2>3. cells' \in [Parts -> Values]
      BY <1>3, Typed DEF Learn, LearnTimeout, Types, TypeOK
    <2> QED
      BY <1>1, <2>1, <2>2, <2>3 DEF EndLearn, Types, TypeOK, program_vars,
         mode_vars, key_vars, text_vars, place_vars, read_vars
  <1>4. CASE RemoteReport
    <2>1. clicks' \in 0 .. Clicks
      BY DEF Types, TypeOK
    <2> QED
      BY <1>4, <2>1, RemoteTypes
  <1>7. CASE BeginLearn
    BY <1>7 DEF BeginLearn, Types, TypeOK, program_vars, mode_vars, key_vars,
       text_vars, place_vars, read_vars
  <1>5. CASE Unplug
    <2>1. handle' \in {"none", "open", "dead"}
      BY <1>5 DEF Unplug, Abandoned, Types, TypeOK
    <2> QED
      BY <1>1, <1>5, <2>1 DEF Unplug, Types, TypeOK, program_vars, mode_vars, key_vars,
         text_vars, place_vars, read_vars
  <1>6. CASE Plug
    <2>1. cells' \in [Parts -> Values]
      BY <1>6, Typed DEF Plug, Restarted, Types, TypeOK
    <2> QED
      BY <1>6, <2>1 DEF Plug, Types, TypeOK, program_vars, mode_vars, key_vars,
         text_vars, place_vars, read_vars
  <1> QED
    BY <1>2, <1>3, <1>4, <1>5, <1>6, <1>7 DEF Device

LEMMA TickTypes ==
  ASSUME Types, Tick, UNCHANGED clicks
  PROVE  Types'
  <1>1. tries' \in 0 .. Patience
    BY TriesType DEF Tick
  <1>2. left' \in 0 .. LearnTime
    BY GuiAssumption DEF Tick, Types, TypeOK
  <1> QED
    BY <1>1, <1>2 DEF Tick, Types, TypeOK, mode_vars, key_vars, text_vars, place_vars

LEMMA NextTypes == Types /\ Shape /\ [Next]_vars => Types'
  <1> SUFFICES ASSUME Types, Shape, [Next]_vars
               PROVE  Types'
    OBVIOUS
  <1>1. CASE UNCHANGED vars
    BY <1>1 DEF vars, Types, TypeOK, mode_vars, key_vars, text_vars, place_vars,
                read_vars, device_vars
  <1>2. CASE (Buttons \/ TextActions \/ Modes \/ LogReport) /\ Clicked
    BY <1>2, ClickedType, ButtonsTypes, TextTypes, ModesTypes, RemoteTypes
  <1>3. CASE Unaided(Start \/ Handler \/ Display \/ InModes \/ Device \/ Tick)
    BY <1>3, StartTypes, HandlerTypes, InModesTypes, DeviceTypes, TickTypes DEF Unaided
  <1> QED
    BY <1>1, <1>2, <1>3 DEF Next

(***************************************************************************)
(* Program and device.  As long as no command has crossed an answer, a     *)
(* command is with the device, or its answer is on the way, only while the *)
(* program waits for it, or because a piece of the log ended the exchange: *)
(* the program does not give up before, as it waits longer than the device *)
(* learns.  Without the log, nothing crosses.                              *)
(***************************************************************************)
Answers(a, s) ==
    handle = "open" /\ a.ok /\ Part(s) \in Parts =>
        /\ s.acc = "get" => a.value = cells[Part(s)]
        /\ s.acc = "set" => s.value = cells[Part(s)]

Served ==
    Owes =>
        /\ handle = "open" /\ buffer = Head(todo) /\ serving \in {NoCommand, buffer}
        /\ IF serving # NoCommand THEN tries <= left /\ (tries > 0 => reports = <<>>)
                                  ELSE tries = 0

Answering ==
    \A j \in 1 .. Len(reports) : reports[j].id = "config" =>
        /\ ~Owes /\ tries + j <= Patience
        /\ Answers(reports[j], Head(todo))
        /\ \A k \in 1 .. Len(reports) : reports[k].id = "config" => k = j

Placing ==
    /\ handle = "open" => plugged
    /\ handle = "dead" => ~Owes
    /\ handle = "none" => reports = <<>>
    /\ ~running => handle = "none" /\ todo = <<>>
    /\ sent => todo # <<>> /\ Head(todo).acc # "none" /\ handle # "none" /\ running
    /\ ~sent => tries = 0
    /\ serving # NoCommand => Owes /\ Learns(serving)

NoAnswers(r) == \A j \in 1 .. Len(r) : r[j].id # "config"
NoLogs(r) == \A j \in 1 .. Len(r) : r[j].id # "log"

Uncrossed == sent /\ ~crossed => Served /\ Answering

Quiet ==
    ~Logging =>
        /\ ~crossed /\ NoLogs(reports)
        /\ ~sent => ~Owes /\ NoAnswers(reports)

Sync == Placing /\ Uncrossed /\ Quiet

\* The program waits for nothing.
Resting == Placing /\ ~sent /\ Quiet

LEMMA RestingSync == Sync /\ ~sent <=> Resting
  BY DEF Sync, Uncrossed, Resting

LEMMA RestingSyncNext == Resting' => Sync'
  BY DEF Sync, Uncrossed, Resting

\* One report less.
LEMMA Shorter ==
  ASSUME Types, reports' = Tail(reports), reports # <<>>
  PROVE  /\ NoAnswers(reports) => NoAnswers(reports')
         /\ NoLogs(reports) => NoLogs(reports')
  <1>1. /\ reports \in Seq(Reports) /\ Len(reports) \in Nat
        /\ Len(reports') = Len(reports) - 1
        /\ \A i \in 1 .. Len(reports') : reports'[i] = reports[i + 1]
    BY HeadTailProperties DEF Types
  <1>2. \A i \in 1 .. Len(reports') : i + 1 \in 1 .. Len(reports)
    BY <1>1
  <1> QED
    BY <1>1, <1>2 DEF NoAnswers, NoLogs

LEMMA NoneLeft == NoAnswers(<<>>) /\ NoLogs(<<>>)
  BY EmptySeq DEF NoAnswers, NoLogs

\* What the program does at rest: it reads some reports, or gives up the handle.
LEMMA StillRests ==
  ASSUME Types, Resting,
         ~sent', tries' = 0, UNCHANGED <<crossed, plugged, buffer, serving>>,
         handle' = handle \/ handle' = "none",
         \/ reports' = <<>>
         \/ /\ handle' = handle
            /\ reports' = reports \/ (reports # <<>> /\ reports' = Tail(reports)),
         ~running' => handle' = "none" /\ todo' = <<>>
  PROVE  Sync'
  <1>1. /\ NoAnswers(reports) => NoAnswers(reports')
        /\ NoLogs(reports) => NoLogs(reports')
    BY Shorter, NoneLeft
  <1>2. Owes' = Owes
    BY DEF Owes
  <1>3. handle' = "none" => reports' = <<>>
    <2>1. CASE reports' = <<>>
      BY <2>1
    <2>2. CASE handle' = handle /\ reports # <<>>
      BY <2>2 DEF Resting, Placing
    <2>3. CASE handle' = handle /\ reports' = reports
      BY <2>3 DEF Resting, Placing
    <2> QED
      BY <2>1, <2>2, <2>3
  <1>4. Placing'
    BY <1>2, <1>3 DEF Resting, Placing
  <1>5. Quiet'
    BY <1>1, <1>2 DEF Resting, Quiet
  <1> QED
    BY <1>4, <1>5, RestingSyncNext DEF Resting

\* At rest: the buttons, the timers, and the steps without an exchange.
LEMMA IdleRests ==
  ASSUME Sync, todo = <<>> \/ Head(todo).acc = "none" \/ ~running
  PROVE  Resting
  BY RestingSync DEF Sync, Placing

LEMMA RestsAsBefore ==
  ASSUME Types, Resting, running, UNCHANGED <<running, read_vars, reports, handle>>,
         UNCHANGED <<plugged, buffer, serving>>
  PROVE  Sync'
  <1>1. ~sent /\ tries = 0
    BY DEF Resting, Placing
  <1>2. /\ sent' = sent /\ tries' = tries /\ running' = running
        /\ UNCHANGED <<crossed, plugged, buffer, serving, reports, handle>>
    BY DEF read_vars
  <1> QED
    BY <1>1, <1>2, StillRests

LEMMA BeginSync ==
  ASSUME Types, Sync, Idle, NEW steps, Begin(steps)
  PROVE  Sync'
  <1>1. Resting /\ running
    BY IdleRests DEF Idle
  <1> QED
    BY <1>1, RestsAsBefore DEF Begin, device_vars

LEMMA ButtonsSync ==
  ASSUME Types, Sync, Buttons
  PROVE  Sync'
  <1>1. CASE onSetEeprom
    <2>1. Resting /\ running
      BY <1>1, IdleRests DEF onSetEeprom, Button, User, Idle
    <2> QED
      BY <1>1, <2>1, RestsAsBefore DEF onSetEeprom, device_vars
  <1>2. CASE ~onSetEeprom
    <2>1. Idle /\ \E steps : Begin(steps)
      BY <1>2 DEF Button, User, Buttons, onConnect, onDisconnect, onRescan, onReboot,
         onUpgrade,
         onDevlistDoubleclicked, onCmdQuit, onSetWakeup, onSetMacro, onSetRepeat,
         onSetAlarm, onSendIR, onCommitEeprom, onGetWakeup, onGetMacro, onGetRepeat,
         onGetAlarm, onResetWakeup, onResetMacro, onResetRepeat, onResetAlarm,
         onGetCaps, onGetrawEeprom, onSetByRemoteWakeup, onSetByRemoteMacro,
         onGetIrdata, onGetKey, onSetByRemoteIrdata, onSetIrdata, onSetKey,
         onResetIrdata, onResetKey, onGetEeprom, onResetEeprom
    <2> QED
      BY <2>1, BeginSync
  <1> QED
    BY <1>1, <1>2

LEMMA EndSync ==
  ASSUME Types, Resting, End
  PROVE  Sync'
  BY StillRests DEF End, device_vars

LEMMA UserSync ==
  ASSUME Types, Sync, TextActions \/ Modes \/ Start \/ Display \/ InModes
  PROVE  Sync'
  <1>1. Resting
    BY IdleRests DEF TextActions, Edit, ClickLine, onOpen, onSave, Modes, ReceiveOn,
       ReceiveOff, KeyboardOn, KeyboardOff, InModes, ReceiveCrash, onReadIR,
       ReceiveError, onKeyPress, onKbdTimeout, onSetByRemoteIrdataTimeout, Start,
       Display, Button, User, Idle
  <1>2. CASE TextActions \/ Display
    BY <1>1, <1>2, RestsAsBefore
       DEF TextActions, Edit, ClickLine, onOpen, onSave, Display, Button, User, Idle,
           device_vars
  <1>3. ~sent /\ tries = 0
    BY <1>1 DEF Resting, Placing
  <1>4. CASE ReceiveOn \/ ReceiveError
    <2>1. /\ running' /\ UNCHANGED <<sent, tries, crossed, plugged, buffer, serving>>
          /\ handle' = handle \/ handle' = "none"
          /\ reports' = <<>>
      BY <1>4 DEF ReceiveOn, ReceiveError, Disconnect, read_vars, device_vars, Button,
         User, Idle
    <2> QED
      BY <1>1, <1>3, <2>1, StillRests
  <1>5. CASE ReceiveOff \/ KeyboardOn \/ KeyboardOff
    BY <1>1, <1>5, RestsAsBefore
       DEF ReceiveOff, KeyboardOn, KeyboardOff, device_vars, Button, User, Idle
  <1>6. CASE Start
    <2>1. /\ UNCHANGED <<sent, tries, crossed, plugged, buffer, serving, handle, reports>>
          /\ running'
      BY <1>6 DEF Start, read_vars, device_vars
    <2> QED
      BY <1>1, <1>3, <2>1, StillRests
  <1>7. CASE ReceiveCrash
    BY <1>1, <1>7, EndSync DEF ReceiveCrash
  <1>8. CASE onReadIR
    <2>1. /\ UNCHANGED <<sent, tries, crossed, plugged, buffer, serving, handle>>
          /\ running' /\ reports # <<>> /\ reports' = Tail(reports)
      BY <1>8 DEF onReadIR, Idle, read_vars, device_vars
    <2> QED
      BY <1>1, <1>3, <2>1, StillRests
  <1>9. CASE onKeyPress \/ onKbdTimeout \/ onSetByRemoteIrdataTimeout
    BY <1>1, <1>9, RestsAsBefore
       DEF onKeyPress, onKbdTimeout, onSetByRemoteIrdataTimeout, Idle, device_vars
  <1> QED
    BY <1>2, <1>4, <1>5, <1>6, <1>7, <1>8, <1>9 DEF Modes, InModes

\* A step without an exchange.
LEMMA DoingRests ==
  ASSUME Shape, Sync, NEW what \in Whats, Doing(what)
  PROVE  /\ Resting /\ running /\ todo # <<>>
         /\ Head(todo).cmd = what /\ Head(todo).use = "none"
         /\ ~Puts(Head(todo)) /\ ~Reads(Head(todo))
  <1>1. todo # <<>> /\ Head(todo).cmd = what /\ running
    BY DEF Doing, Step
  <1>2. /\ Head(todo).acc = "none" /\ Head(todo).use = "none"
        /\ ~Puts(Head(todo)) /\ ~Reads(Head(todo))
    BY <1>1, HeadFormed, KindsOfSteps
  <1> QED
    BY <1>1, <1>2, IdleRests

LEMMA ConnectSync ==
  ASSUME Types, Resting, running, Connect
  PROVE  Sync'
  <1>1. CASE handle' = handle /\ crossed' = crossed
    <2>1. read_vars' = read_vars /\ running' = running /\ reports' = reports
      BY <1>1 DEF Connect, read_vars
    <2> QED
      BY <1>1, <2>1, RestsAsBefore DEF Connect, device_vars
  <1>2. CASE handle = "none" /\ plugged /\ handle' = "open" /\ crossed' = FALSE
    <2>1. /\ sent' = sent /\ tries' = tries /\ running' = running
          /\ UNCHANGED <<plugged, buffer, serving, reports>>
      BY DEF Connect, device_vars
    <2>2. Owes' = Owes
      BY <2>1 DEF Owes
    <2>3. Placing'
      BY <1>2, <2>1, <2>2 DEF Resting, Placing
    <2>4. Quiet'
      BY <1>2, <2>1, <2>2 DEF Resting, Quiet
    <2>5. ~sent'
      BY <2>1 DEF Resting
    <2> QED
      BY <2>3, <2>4, <2>5, RestingSyncNext DEF Resting
  <1> QED
    BY <1>1, <1>2 DEF Connect

LEMMA DoingSync ==
  ASSUME Types, Shape, Sync,
         GetEeprom \/ Loaded \/ Connect \/ Enable \/ StepDisconnect \/ Rescan
         \/ Flash \/ Rearm \/ Exit
  PROVE  Sync'
  <1>1. Resting /\ running /\ ~sent /\ tries = 0
    BY DoingRests DEF GetEeprom, Loaded, Connect, Enable, StepDisconnect, Rescan, Flash,
       Rearm, Exit, Whats, Resting, Placing
  <1>2. CASE GetEeprom \/ Loaded \/ Enable \/ Rearm
    BY <1>1, <1>2, RestsAsBefore DEF GetEeprom, Loaded, Enable, Rearm, device_vars
  <1>3. CASE Connect
    BY <1>1, <1>3, ConnectSync
  <1>4. CASE StepDisconnect \/ Rescan
    <2>1. /\ UNCHANGED <<sent, tries, crossed, plugged, buffer, serving>>
          /\ running' = running /\ reports' = <<>> /\ handle' = "none"
      BY <1>4 DEF StepDisconnect, Rescan, Disconnect, read_vars, device_vars
    <2> QED
      BY <1>1, <2>1, StillRests
  <1>5. CASE Flash
    <2>1. /\ UNCHANGED <<running, sent, tries, crossed, buffer, serving, reports, handle>>
          /\ plugged' = plugged \/ plugged' = TRUE
      BY <1>5 DEF Flash, read_vars
    <2>2. Owes' = Owes
      BY <2>1 DEF Owes
    <2>3. Placing'
      BY <1>1, <2>1, <2>2 DEF Resting, Placing
    <2>4. Quiet'
      BY <1>1, <2>1, <2>2 DEF Resting, Quiet
    <2> QED
      BY <1>1, <2>1, <2>3, <2>4, RestingSyncNext DEF Resting
  <1>6. CASE Exit
    BY <1>1, <1>6, EndSync DEF Exit
  <1> QED
    BY <1>2, <1>3, <1>4, <1>5, <1>6

LEMMA AfterEnds ==
  ASSUME NEW ok, NEW v, NEW e, NEW t, After(ok, v, e, t)
  PROVE  ~sent' /\ tries' = 0
  BY DEF After

LEMMA FailedSync ==
  ASSUME Sync, Exchange, handle = "dead", Failed
  PROVE  Sync'
  <1>1. ~Owes /\ running
    BY DEF Sync, Placing, Exchange, Step
  <1>2. /\ ~sent' /\ tries' = 0 /\ handle' = "none" /\ reports' = <<>> /\ running'
        /\ UNCHANGED <<crossed, buffer, serving>>
    BY <1>1, AfterEnds DEF Failed, device_vars
  <1>3. ~Owes' /\ serving' = NoCommand
    BY <1>1, <1>2 DEF Owes, Sync, Placing
  <1>4. Placing'
    BY <1>2, <1>3 DEF Placing
  <1>5. Quiet'
    BY <1>2, <1>3, NoneLeft DEF Sync, Quiet
  <1> QED
    BY <1>2, <1>4, <1>5, RestingSyncNext DEF Resting

\* An exchange ends while the handle stays as it is.
LEMMA EndedSync ==
  ASSUME Types, Sync, Exchange, sent, ~sent', tries' = 0,
         UNCHANGED <<running, handle, crossed, device_vars>>,
         reports' = reports \/ (reports # <<>> /\ reports' = Tail(reports)),
         ~Logging => ~Owes /\ NoAnswers(reports')
  PROVE  Sync'
  <1>1. running /\ handle # "none"
    BY DEF Exchange, Step, Sync, Placing
  <1>2. UNCHANGED <<plugged, buffer, serving>>
    BY DEF device_vars
  <1>3. Owes' = Owes
    BY <1>2 DEF Owes
  <1>4. Placing'
    BY <1>1, <1>2, <1>3 DEF Sync, Placing
  <1>5. NoLogs(reports) => NoLogs(reports')
    BY Shorter
  <1>6. Quiet'
    BY <1>3, <1>5 DEF Sync, Quiet
  <1> QED
    BY <1>4, <1>6, RestingSyncNext DEF Resting

\* The answer is the only one.
LEMMA AnswerAlone ==
  ASSUME Types, Sync, ~crossed, ReadAnswer
  PROVE  /\ ~Owes /\ NoAnswers(reports')
         /\ Answers(Head(reports), Head(todo))
  <1>1. /\ reports \in Seq(Reports) /\ Len(reports) \in Nat /\ reports # <<>>
        /\ 1 \in 1 .. Len(reports) /\ Head(reports) = reports[1]
        /\ Len(Tail(reports)) = Len(reports) - 1
        /\ \A i \in 1 .. Len(Tail(reports)) : Tail(reports)[i] = reports[i + 1]
    BY HeadTailProperties, EmptySeq DEF Types, ReadAnswer
  <1>2. reports[1].id = "config" /\ reports' = Tail(reports) /\ sent
    BY <1>1 DEF ReadAnswer, Waits
  <1>3. /\ ~Owes
        /\ Answers(reports[1], Head(todo))
        /\ \A k \in 1 .. Len(reports) : reports[k].id = "config" => k = 1
    BY <1>1, <1>2 DEF Sync, Uncrossed, Answering
  <1>4. \A i \in 1 .. Len(reports') :
           i + 1 \in 1 .. Len(reports) /\ i + 1 # 1 /\ reports'[i] = reports[i + 1]
    BY <1>1, <1>2
  <1> QED
    BY <1>1, <1>3, <1>4 DEF NoAnswers

LEMMA ReadAnswerSync ==
  ASSUME Types, Sync, ReadAnswer
  PROVE  Sync'
  <1>1. /\ Exchange /\ sent /\ reports # <<>> /\ reports' = Tail(reports)
        /\ UNCHANGED <<running, handle, crossed, device_vars>>
    BY DEF ReadAnswer, Waits
  <1>2. ~sent' /\ tries' = 0
    BY AfterEnds DEF ReadAnswer
  <1>3. ~Logging => ~Owes /\ NoAnswers(reports')
    BY AnswerAlone DEF Sync, Quiet
  <1> QED
    BY <1>1, <1>2, <1>3, EndedSync

LEMMA ReadLogSync ==
  ASSUME Types, Sync, ReadLog
  PROVE  Sync'
  <1>1. /\ Exchange /\ sent /\ reports # <<>> /\ reports' = Tail(reports)
        /\ UNCHANGED <<running, handle, crossed, device_vars>>
    BY DEF ReadLog, Waits
  <1>2. ~sent' /\ tries' = 0
    BY AfterEnds DEF ReadLog
  <1>3. Logging
    <2>1. 1 \in 1 .. Len(reports) /\ Head(reports) = reports[1]
      BY <1>1, HeadTailProperties, EmptySeq DEF Types
    <2>2. Head(reports).id = "log"
      BY DEF ReadLog, Log
    <2> QED
      BY <2>1, <2>2 DEF Sync, Quiet, NoLogs
  <1> QED
    BY <1>1, <1>2, <1>3, EndedSync

LEMMA GivenUp ==
  ASSUME Types, Sync, ~crossed, GiveUp
  PROVE  ~Owes /\ NoAnswers(reports)
  <1>1. /\ tries = Patience /\ Patience \in Nat /\ LearnTime \in Nat
        /\ LearnTime < Patience /\ left \in 0 .. LearnTime /\ Len(reports) \in Nat
    BY GuiAssumption DEF GiveUp, Types, TypeOK
  <1>2. Served /\ Answering
    BY DEF GiveUp, Sync, Uncrossed
  <1>3. ~Owes
    BY <1>1, <1>2 DEF Served
  <1> QED
    BY <1>1, <1>2, <1>3 DEF Answering, NoAnswers

LEMMA GiveUpSync ==
  ASSUME Types, Sync, GiveUp
  PROVE  Sync'
  <1>1. Exchange /\ sent /\ UNCHANGED <<running, handle, crossed, reports, device_vars>>
    BY DEF GiveUp
  <1>2. ~sent' /\ tries' = 0
    BY AfterEnds DEF GiveUp
  <1>3. ~Logging => ~Owes /\ NoAnswers(reports')
    BY <1>1, GivenUp DEF Sync, Quiet, NoAnswers
  <1> QED
    BY <1>1, <1>2, <1>3, EndedSync

LEMMA WriteSync ==
  ASSUME Types, Shape, Sync, Write
  PROVE  Sync'
  <1>1. Resting
    BY RestingSync DEF Write
  <1>2. /\ sent' /\ UNCHANGED <<running, handle, todo, tries, reports, plugged, serving>>
        /\ buffer' = Head(todo) /\ handle = "open"
        /\ Exchange /\ tries = 0
    BY <1>1 DEF Write, Resting, Placing
  <1>3. Owes'
    BY <1>2 DEF Owes, NoCommand, Do, Ask, Exchange
  <1>4. Placing'
    BY <1>1, <1>2, <1>3 DEF Exchange, Step, Resting, Placing
  <1>5. ~crossed' => ~crossed /\ ~Owes /\ NoAnswers(reports)
    BY DEF Write, Unread, NoAnswers
  <1>6. Uncrossed'
    <2> SUFFICES ASSUME ~crossed'
                 PROVE  Served' /\ Answering'
      BY DEF Uncrossed
    <2>1. serving' = NoCommand /\ NoAnswers(reports')
      BY <1>1, <1>2, <1>5 DEF Resting, Placing, NoAnswers
    <2>2. Head(todo)' = Head(todo) /\ tries' = 0
      BY <1>2
    <2> QED
      BY <1>2, <2>1, <2>2 DEF Served, Answering, NoAnswers
  <1>7. Quiet'
    BY <1>1, <1>2 DEF Resting, Quiet, NoLogs, NoAnswers, Unread, Write
  <1> QED
    BY <1>4, <1>6, <1>7 DEF Sync

LEMMA ReadOtherSync ==
  ASSUME Types, Sync, ReadOther
  PROVE  Sync'
  <1>1. /\ reports \in Seq(Reports) /\ Len(reports) \in Nat /\ reports # <<>>
        /\ reports' = Tail(reports)
        /\ Len(reports') = Len(reports) - 1
        /\ \A i \in 1 .. Len(reports') : reports'[i] = reports[i + 1]
    BY HeadTailProperties, EmptySeq DEF Types, ReadOther
  <1>2. /\ UNCHANGED <<running, handle, todo, crossed, plugged, cells, buffer, serving, left>>
        /\ sent' = sent /\ sent /\ tries' = IF Owes THEN tries ELSE tries + 1
    BY DEF ReadOther, Waits, device_vars
  <1>3. Owes' = Owes
    BY <1>2 DEF Owes
  <1>4. Placing'
    BY <1>2, <1>3 DEF Sync, Placing
  <1>5. Quiet'
    BY <1>1, <1>2, Shorter DEF Sync, Quiet
  <1>6. Uncrossed'
    <2> SUFFICES ASSUME ~crossed
                 PROVE  Served' /\ Answering'
      BY <1>2 DEF Uncrossed
    <2>1. Served /\ Answering
      BY <1>2 DEF Sync, Uncrossed
    <2>2. Served'
      <3> SUFFICES ASSUME Owes'
                   PROVE  /\ handle' = "open" /\ buffer' = Head(todo)'
                          /\ serving' \in {NoCommand, buffer'}
                          /\ IF serving' # NoCommand
                               THEN tries' <= left' /\ (tries' > 0 => reports' = <<>>)
                               ELSE tries' = 0
        BY DEF Served
      <3>1. Owes /\ tries' = tries /\ Head(todo)' = Head(todo)
        BY <1>2, <1>3
      <3>2. serving # NoCommand => ~(tries > 0)
        BY <1>1, <2>1, <3>1 DEF Served
      <3> QED
        BY <1>2, <2>1, <3>1, <3>2 DEF Served
    <2>3. Answering'
      <3> SUFFICES ASSUME NEW j \in 1 .. Len(reports'), reports'[j].id = "config"
                   PROVE  /\ ~Owes' /\ tries' + j <= Patience
                          /\ Answers(reports[j], Head(todo))'
                          /\ \A k \in 1 .. Len(reports') :
                                reports'[k].id = "config" => k = j
        BY DEF Answering
      <3>1. j + 1 \in 1 .. Len(reports) /\ reports'[j] = reports[j + 1]
        BY <1>1
      <3>2. /\ ~Owes /\ tries + (j + 1) <= Patience
            /\ Answers(reports[j + 1], Head(todo))
            /\ \A k \in 1 .. Len(reports) : reports[k].id = "config" => k = j + 1
        BY <2>1, <3>1 DEF Answering
      <3>3. tries' + j <= Patience
        BY <1>2, <3>2, GuiAssumption DEF Types, TypeOK
      <3>4. Answers(reports[j], Head(todo))'
        BY <1>2, <3>1, <3>2 DEF Answers
      <3>5. \A k \in 1 .. Len(reports') : reports'[k].id = "config" => k = j
        BY <1>1, <3>2
      <3> QED
        BY <1>3, <3>2, <3>3, <3>4, <3>5
    <2> QED
      BY <2>2, <2>3
  <1> QED
    BY <1>4, <1>5, <1>6 DEF Sync

LEMMA HandlerSync ==
  ASSUME Types, Shape, Sync, Handler
  PROVE  Sync'
  <1>1. CASE Crash
    <2>1. Resting
      BY <1>1, RestingSync DEF Crash, Sync, Placing
    <2> QED
      BY <1>1, <2>1, EndSync DEF Crash
  <1>2. CASE WriteError \/ ReadError
    BY <1>2, FailedSync DEF WriteError, ReadError, Waits
  <1> QED
    BY <1>1, <1>2, DoingSync, ReadAnswerSync, ReadLogSync, GiveUpSync, WriteSync,
       ReadOtherSync DEF Handler

\* While the device works at a command that the program waits for, there is no
\* answer yet, and the one to come is read in time.
LEMMA AnswerDelivered ==
  ASSUME Types, Served, Answering, Owes, NEW r \in Reports, r.id = "config",
         Delivered(r), UNCHANGED <<tries, todo>>, ~Owes',
         Answers(r, Head(todo))'
  PROVE  Answering'
  <1>1. /\ NoAnswers(reports)
        /\ (tries <= left /\ (tries > 0 => reports = <<>>)) \/ tries = 0
    BY DEF Served, Answering, NoAnswers
  <1>2. /\ tries \in Nat /\ Patience \in Nat /\ LearnTime \in Nat
        /\ left \in 0 .. LearnTime
        /\ QueueSize \in Nat /\ QueueSize <= Patience /\ LearnTime < Patience
        /\ reports \in Seq(Reports) /\ Len(reports) \in Nat
    BY GuiAssumption DEF Types, TypeOK
  <1>3. CASE reports' = reports
    <2>1. NoAnswers(reports')
      BY <1>1, <1>3 DEF NoAnswers
    <2> QED
      BY <2>1 DEF Answering, NoAnswers
  <1>4. CASE reports' = Append(reports, r) /\ Len(reports) < QueueSize
    <2>1. /\ Len(reports') = Len(reports) + 1
          /\ \A i \in 1 .. Len(reports) : reports'[i] = reports[i]
          /\ reports'[Len(reports) + 1] = r
      BY <1>2, <1>4, AppendProperties
    <2>2. \A j \in 1 .. Len(reports') :
             reports'[j].id = "config" => j = Len(reports) + 1
      BY <1>1, <1>2, <2>1 DEF NoAnswers
    <2>3. tries + (Len(reports) + 1) <= Patience
      <3>1. CASE tries = 0
        BY <1>2, <1>4, <3>1
      <3>2. CASE tries # 0
        <4>1. tries <= left /\ Len(reports) = 0
          BY <1>1, <1>2, <3>2, EmptySeq
        <4> QED
          BY <1>2, <4>1
      <3> QED
        BY <3>1, <3>2
    <2> QED
      BY <1>1, <2>1, <2>2, <2>3 DEF Answering
  <1> QED
    BY <1>3, <1>4 DEF Delivered

\* An answer is delivered to an open handle, or lost.
LEMMA DeliveredKinds ==
  ASSUME Types, NEW r \in Reports, Delivered(r)
  PROVE  /\ r.id # "log" /\ NoLogs(reports) => NoLogs(reports')
         /\ r.id # "config" /\ NoAnswers(reports) => NoAnswers(reports')
         /\ handle = "none" => reports' = reports
         /\ \A j \in 1 .. Len(reports') : j \in 1 .. Len(reports) \/ reports'[j] = r
         /\ \A j \in 1 .. Len(reports) : reports'[j] = reports[j]
  <1>1. reports \in Seq(Reports) /\ Len(reports) \in Nat
    BY DEF Types
  <1>2. CASE reports' = reports
    BY <1>2 DEF Delivered, NoLogs, NoAnswers
  <1>3. CASE reports' = Append(reports, r) /\ handle = "open"
    <2>1. /\ Len(reports') = Len(reports) + 1
          /\ \A i \in 1 .. Len(reports) : reports'[i] = reports[i]
          /\ reports'[Len(reports) + 1] = r
      BY <1>1, <1>3, AppendProperties
    <2>2. \A j \in 1 .. Len(reports') : j \in 1 .. Len(reports) \/ reports'[j] = r
      BY <1>1, <2>1
    <2> QED
      BY <1>3, <2>1, <2>2 DEF NoLogs, NoAnswers
  <1> QED
    BY <1>2, <1>3 DEF Delivered

\* The device has answered.
LEMMA AnsweredSync ==
  ASSUME Types, Sync, Owes, NEW r \in Reports, r.id = "config", Delivered(r),
         UNCHANGED <<sent, tries, crossed, todo, running>>, ~Owes', serving' = NoCommand,
         (handle' = handle /\ plugged' = plugged) \/ handle' = Abandoned,
         sent /\ ~crossed => Answers(r, Head(todo))'
  PROVE  Sync'
  <1>1. /\ NoLogs(reports) => NoLogs(reports')
        /\ handle = "none" => reports' = reports
    BY DeliveredKinds
  <1>2. Placing'
    BY <1>1 DEF Sync, Placing, Abandoned
  <1>3. Quiet'
    <2> SUFFICES ASSUME ~Logging
                 PROVE  ~crossed' /\ NoLogs(reports') /\ sent'
      BY DEF Quiet
    <2>1. ~crossed /\ NoLogs(reports) /\ sent
      BY DEF Sync, Quiet
    <2> QED
      BY <1>1, <2>1
  <1>4. Uncrossed'
    <2> SUFFICES ASSUME sent, ~crossed
                 PROVE  Served' /\ Answering'
      BY DEF Uncrossed
    <2>1. Served /\ Answering
      BY DEF Sync, Uncrossed
    <2>2. Answering'
      BY <2>1, AnswerDelivered
    <2> QED
      BY <2>2 DEF Served
  <1> QED
    BY <1>2, <1>3, <1>4 DEF Sync

LEMMA ServeSync ==
  ASSUME Types, Shape, Sync, Serve
  PROVE  Sync'
  <1>1. buffer # NoCommand /\ Owes
    BY DEF Serve, Owes
  <1>2. PICK r : r = Answer(TRUE, Fetched)
    OBVIOUS
  <1>3. /\ UNCHANGED <<sent, tries, crossed, todo, running>> /\ buffer' = NoCommand
        /\ serving' = NoCommand
        /\ cells' = Stored /\ Delivered(r)
        /\ handle' = Abandoned \/ UNCHANGED <<plugged, handle>>
    BY <1>2 DEF Serve, program_vars, read_vars
  <1>4. r \in Reports /\ r.id = "config" /\ r.value = Fetched
    <2>1. Fetched \in Values
      BY Typed DEF Fetched, Types, TypeOK
    <2> QED
      BY <1>2, <2>1, AnswerType DEF Answer
  <1>5. ASSUME sent, ~crossed
        PROVE  Answers(r, Head(todo))'
    <2>1. buffer = Head(todo)
      BY <1>1, <1>5 DEF Sync, Uncrossed, Served
    <2>2. ASSUME Part(buffer) \in Parts
          PROVE  /\ buffer.acc = "get" => Fetched = Stored[Part(buffer)]
                 /\ buffer.acc = "set" => buffer.value = Stored[Part(buffer)]
      <3>1. buffer.cmd # "eeprom"
        BY <2>2 DEF Part, Parts
      <3>2. cells \in [Parts -> Values]
        BY DEF Types, TypeOK
      <3> QED
        BY <2>2, <3>1, <3>2 DEF Fetched, Stored, Part
    <2>3. Head(todo)' = buffer /\ cells' = Stored
      BY <1>3, <2>1
    <2> QED
      BY <1>4, <2>2, <2>3 DEF Answers
  <1>6. ~Owes'
    BY <1>3 DEF Owes
  <1> QED
    BY <1>1, <1>3, <1>4, <1>5, <1>6, AnsweredSync

LEMMA LearnSync ==
  ASSUME Types, Shape, Sync, Learn \/ LearnTimeout
  PROVE  Sync'
  <1>1. serving # NoCommand /\ Owes
    BY DEF Learn, LearnTimeout, Sync, Placing
  <1>2. PICK ok \in BOOLEAN : EndLearn(ok)
    BY DEF Learn, LearnTimeout
  <1>3. PICK r : r = Answer(ok, Zeros)
    OBVIOUS
  <1>4. /\ UNCHANGED <<sent, tries, crossed, todo, running, plugged, handle>>
        /\ buffer' = NoCommand /\ serving' = NoCommand /\ Delivered(r)
    BY <1>2, <1>3 DEF EndLearn, program_vars, read_vars
  <1>5. r \in Reports /\ r.id = "config"
    BY <1>3, Typed, AnswerType
  <1>6. ASSUME sent, ~crossed
        PROVE  Answers(r, Head(todo))'
    <2>1. serving = Head(todo) /\ serving.cmd \in {"irdata_remote", "setting_remote"}
      BY <1>1, <1>6 DEF Sync, Uncrossed, Served, Placing, Learns
    <2>2. Part(serving) \notin Parts
      BY <2>1 DEF Part, Parts
    <2>3. Head(todo)' = serving
      BY <1>4, <2>1
    <2> QED
      BY <2>2, <2>3 DEF Answers
  <1>7. ~Owes'
    BY <1>4 DEF Owes
  <1> QED
    BY <1>1, <1>4, <1>5, <1>6, <1>7, AnsweredSync

LEMMA BeginLearnSync ==
  ASSUME Types, Sync, BeginLearn
  PROVE  Sync'
  <1>1. /\ UNCHANGED <<sent, tries, crossed, todo, running, plugged, handle, reports,
                       buffer, left, cells>>
        /\ serving' = buffer /\ serving = NoCommand /\ Learns(buffer)
    BY DEF BeginLearn, program_vars, read_vars
  <1>2. Owes /\ Owes'
    BY <1>1 DEF Owes, Learns, NoCommand, Do, Ask
  <1>3. Placing'
    BY <1>1, <1>2 DEF Sync, Placing
  <1>4. Quiet'
    BY <1>1, <1>2 DEF Sync, Quiet
  <1>5. Uncrossed'
    <2> SUFFICES ASSUME sent, ~crossed
                 PROVE  Served' /\ Answering'
      BY <1>1 DEF Uncrossed
    <2>1. Served /\ Answering
      BY DEF Sync, Uncrossed
    <2>2. 0 <= left
      BY GuiAssumption DEF Types, TypeOK
    <2>3. handle = "open" /\ buffer = Head(todo) /\ tries = 0
      BY <1>1, <1>2, <2>1 DEF Served
    <2>4. Served'
      BY <1>1, <2>2, <2>3 DEF Served
    <2>5. Answering'
      BY <1>1, <1>2, <2>1 DEF Answering
    <2> QED
      BY <2>4, <2>5
  <1> QED
    BY <1>3, <1>4, <1>5 DEF Sync

LEMMA RemoteSync ==
  ASSUME Types, Sync, RemoteReport \/ LogReport
  PROVE  Sync'
  <1>1. PICK r \in {Remote} \cup (IF Logging THEN {Log} ELSE {}) : FromRemote(r)
    BY DEF RemoteReport, LogReport
  <1>2. /\ UNCHANGED <<sent, tries, crossed, todo, running, plugged, handle, buffer,
                       serving, left, cells>>
        /\ serving = NoCommand /\ handle = "open" /\ Delivered(r)
    BY <1>1 DEF FromRemote, program_vars, read_vars, device_vars
  <1>3. /\ r \in Reports /\ r.id # "config" /\ (~Logging => r.id # "log")
    BY <1>1 DEF Reports, Remote, Log
  <1>4. /\ ~Logging /\ NoLogs(reports) => NoLogs(reports')
        /\ NoAnswers(reports) => NoAnswers(reports')
        /\ \A j \in 1 .. Len(reports') : reports'[j].id = "config" =>
              j \in 1 .. Len(reports) /\ reports'[j] = reports[j]
    BY <1>2, <1>3, DeliveredKinds
  <1>5. Owes' = Owes
    BY <1>2 DEF Owes
  <1>6. Placing'
    BY <1>2, <1>5 DEF Sync, Placing
  <1>7. Quiet'
    BY <1>2, <1>4, <1>5 DEF Sync, Quiet
  <1>8. Uncrossed'
    <2> SUFFICES ASSUME sent, ~crossed
                 PROVE  Served' /\ Answering'
      BY <1>2 DEF Uncrossed
    <2>1. Served /\ Answering
      BY DEF Sync, Uncrossed
    <2>2. Served'
      BY <1>2, <1>5, <2>1 DEF Served
    <2>3. Answering'
      <3> SUFFICES ASSUME NEW j \in 1 .. Len(reports'), reports'[j].id = "config"
                   PROVE  /\ ~Owes' /\ tries' + j <= Patience
                          /\ Answers(reports[j], Head(todo))'
                          /\ \A k \in 1 .. Len(reports') :
                                reports'[k].id = "config" => k = j
        BY DEF Answering
      <3>1. j \in 1 .. Len(reports) /\ reports'[j] = reports[j]
        BY <1>4
      <3>2. Answers(reports[j], Head(todo))'
        BY <1>2, <2>1, <3>1 DEF Answering, Answers
      <3> QED
        BY <1>2, <1>4, <1>5, <2>1, <3>1, <3>2 DEF Answering
    <2> QED
      BY <2>2, <2>3
  <1> QED
    BY <1>6, <1>7, <1>8 DEF Sync

\* A handle that is not open, and what is read from it.
LEMMA ClosedSync ==
  ASSUME Sync, UNCHANGED <<sent, tries, crossed, todo, running, reports>>,
         ~Owes', serving' = NoCommand, handle' # "open",
         handle' = "none" => handle = "none", handle = "none" => handle' = "none",
         Owes => handle # "dead"
  PROVE  Sync'
  <1>1. Placing'
    BY DEF Sync, Placing
  <1>2. Quiet'
    BY DEF Sync, Quiet
  <1>3. ASSUME sent, ~crossed, Served, Answering
        PROVE  Served' /\ Answering'
    <2>1. Served'
      BY DEF Served
    <2> QED
      BY <1>3, <2>1 DEF Answering, Answers
  <1> QED
    BY <1>1, <1>2, <1>3 DEF Sync, Uncrossed

LEMMA PlugSync ==
  ASSUME Types, Sync, Unplug \/ Plug
  PROVE  Sync'
  <1>1. UNCHANGED <<sent, tries, crossed, todo, running, reports>>
    BY DEF Unplug, Plug, program_vars, read_vars
  <1>2. CASE Unplug
    BY <1>1, <1>2, ClosedSync DEF Unplug, Abandoned, Owes, Sync, Placing
  <1>3. CASE Plug
    <2>1. /\ handle # "open" /\ handle' = handle /\ serving' = serving
          /\ buffer' = buffer /\ plugged'
      BY <1>3 DEF Plug, Sync, Placing
    <2>2. Owes' = Owes
      BY <2>1 DEF Owes
    <2>3. Placing'
      BY <1>1, <2>1, <2>2 DEF Sync, Placing
    <2>4. Quiet'
      BY <1>1, <2>2 DEF Sync, Quiet
    <2>5. ASSUME sent, ~crossed, Served, Answering
          PROVE  Served' /\ Answering'
      <3>1. ~Owes
        BY <2>1, <2>5 DEF Served
      <3>2. Served'
        BY <2>2, <3>1 DEF Served
      <3> QED
        BY <1>1, <2>1, <2>2, <2>5, <3>2 DEF Answering, Answers
    <2> QED
      BY <1>1, <2>3, <2>4, <2>5 DEF Sync, Uncrossed
  <1> QED
    BY <1>2, <1>3

LEMMA TickSync ==
  ASSUME Types, Sync, Tick
  PROVE  Sync'
  <1>1. /\ UNCHANGED <<sent, todo, crossed, running, plugged, handle, buffer, serving,
                       cells, reports>>
        /\ reports = <<>> /\ sent /\ tries' = tries + 1
        /\ left' = IF Owes THEN left + 1 ELSE left
        /\ Owes => serving # NoCommand
    BY DEF Tick, Waits
  <1>2. Owes' = Owes
    BY <1>1 DEF Owes
  <1>3. Placing'
    BY <1>1, <1>2 DEF Sync, Placing
  <1>4. Quiet'
    BY <1>1, <1>2 DEF Sync, Quiet
  <1>5. ASSUME ~crossed
        PROVE  Served' /\ Answering'
    <2>1. Served
      BY <1>1, <1>5 DEF Sync, Uncrossed
    <2>2. left \in Nat /\ tries \in Nat
      BY GuiAssumption DEF Types, TypeOK
    <2>3. Served'
      BY <1>1, <1>2, <2>1, <2>2 DEF Served
    <2>4. Answering'
      BY <1>1, EmptySeq DEF Answering
    <2> QED
      BY <2>3, <2>4
  <1> QED
    BY <1>1, <1>3, <1>4, <1>5 DEF Sync, Uncrossed

LEMMA NextSync == Types /\ Shape /\ Sync /\ [Next]_vars => Sync'
  <1> SUFFICES ASSUME Types, Shape, Sync, [Next]_vars
               PROVE  Sync'
    OBVIOUS
  <1>1. CASE UNCHANGED vars
    <2>1. /\ UNCHANGED <<sent, tries, todo, crossed, running, plugged, handle, buffer,
                         serving, cells, reports, left>>
      BY <1>1 DEF vars, read_vars, device_vars
    <2>2. Owes' = Owes
      BY <2>1 DEF Owes
    <2>3. Placing' /\ Quiet'
      BY <2>1, <2>2 DEF Sync, Placing, Quiet
    <2>4. Uncrossed'
      BY <2>1, <2>2 DEF Sync, Uncrossed, Served, Answering, Answers
    <2> QED
      BY <2>3, <2>4 DEF Sync
  <1>2. CASE (Buttons \/ TextActions \/ Modes \/ LogReport) /\ Clicked
    BY <1>2, ButtonsSync, UserSync, RemoteSync
  <1>3. CASE Unaided(Start \/ Handler \/ Display \/ InModes \/ Device \/ Tick)
    BY <1>3, UserSync, HandlerSync, ServeSync, BeginLearnSync, LearnSync, RemoteSync,
       PlugSync, TickSync DEF Unaided, Device
  <1> QED
    BY <1>1, <1>2, <1>3 DEF Next

LEMMA InitSync == Init => Sync
  <1> SUFFICES ASSUME Init
               PROVE  Sync
    OBVIOUS
  <1>1. Resting
    BY NoneLeft DEF Init, Resting, Placing, Quiet, Owes
  <1> QED
    BY <1>1, RestingSync

(***************************************************************************)
(* The map.  While the device is open and no command has crossed an        *)
(* answer, each part of the text that is not doubted is what the device    *)
(* holds and will not be changed by a command that the program no longer   *)
(* waits for, or it is still to be read back.                              *)
(***************************************************************************)
Pending(p) == ~sent /\ (Changes(buffer, p) \/ Changes(serving, p))

MapInv ==
    handle = "open" /\ ~crossed =>
        \A p \in Parts \ doubt :
            (text[p] = cells[p] /\ ~Pending(p)) \/ Mended(todo, p)

GuiInv == Types /\ Sync /\ Shape /\ MapInv

\* The head is done; the rest of the handler is still well formed.
LEMMA NextStepShaped ==
  ASSUME Shape, todo # <<>>, todo' = Tail(todo),
         Moves(Head(todo)) \/ UNCHANGED <<cursor, line_text>>,
         Rewrites(Head(todo)) \/ UNCHANGED text,
         handle' = "none" \/ (handle' = handle /\ Head(todo).cmd # "disconnect")
  PROVE  Shape'
  <1>1. Shaped(Tail(todo), cursor', line_text', text', handle')
    BY TailShaped DEF Shape
  <1> QED
    BY <1>1 DEF Shape

\* What is behind the head of a handler that learns.
LEMMA LearnerMends ==
  ASSUME Shape, todo # <<>>, Head(todo).use \in {"learnt", "compare"},
         NEW p \in Parts, Mended(todo, p), ~Mends(Head(todo), p)
  PROVE  p = <<Head(todo).line, "irdata">>
  <1>1. 1 \in 1 .. Len(todo) /\ Head(todo) = todo[1] /\ Len(todo) \in Nat
    BY HeadFormed DEF Shape, Shaped
  <1>2. PICK k \in 1 .. Len(todo) : Mends(todo[k], p)
    BY DEF Mended
  <1>3. 1 < k
    BY <1>1, <1>2
  <1> QED
    BY <1>1, <1>2, <1>3 DEF Shape, Shaped, Ordered, Before

LEMMA AfterShape ==
  ASSUME Types, Shape, Exchange, NEW ok \in BOOLEAN, NEW v, NEW e, NEW t,
         After(ok, v, e, t), handle' \in {handle, "none"}
  PROVE  Shape'
  <1> DEFINE s == Head(todo)
  <1>1. todo # <<>> /\ Formed(s) /\ s.acc # "none" /\ s.cmd # "disconnect"
    BY HeadFormed, KindsOfSteps DEF Exchange, Step, Whats
  <1>2. CASE todo' = <<>>
    BY <1>2, EmptyShaped DEF Shape
  <1>3. CASE todo' = Tail(todo)
    <2>1. CASE Show(e, t) \/ Wrote(ok, e, t) \/ Learnt(ok, e, t)
      <3>1. UNCHANGED <<cursor, line_text, text>>
        BY <2>1 DEF Show, Wrote, Learnt, text_vars, place_vars
      <3> QED
        BY <1>1, <1>3, <3>1, NextStepShaped
    <2>2. CASE Load(ok, v, e, t)
      <3>1. UNCHANGED <<cursor, line_text>> /\ Rewrites(s)
        BY <2>2 DEF Load, place_vars, Rewrites, Reads
      <3> QED
        BY <1>1, <1>3, <3>1, NextStepShaped
    <2>3. CASE Put(ok, v, e, t)
      <3>1. Rewrites(s) /\ (Moves(s) \/ UNCHANGED <<cursor, line_text>>)
        BY <2>3 DEF Put, Rewrites, Reads, Puts, Moves
      <3> QED
        BY <1>1, <1>3, <3>1, NextStepShaped
    <2>4. CASE Compare(ok, v, e, t)
      <3>1. Rewrites(s) /\ Moves(s)
        BY <2>4 DEF Compare, Rewrites, Reads, Puts, Moves
      <3> QED
        BY <1>1, <1>3, <3>1, NextStepShaped
    <2> QED
      BY <2>1, <2>2, <2>3, <2>4 DEF After
  <1> QED
    BY <1>2, <1>3 DEF After, Show, Load, Wrote, Put, Learnt, Compare, GoesOn, Aborted

\* The answer v, if it is ok, is what the device holds or was told.
LEMMA AfterMap ==
  ASSUME GuiInv, Exchange, NEW ok \in BOOLEAN, NEW v, NEW e, NEW t,
         After(ok, v, e, t), UNCHANGED <<handle, cells>>,
         handle = "open", ~crossed,
         ok /\ Part(Head(todo)) \in Parts =>
            /\ Head(todo).acc = "get" => v = cells[Part(Head(todo))]
            /\ Head(todo).acc = "set" => Head(todo).value = cells[Part(Head(todo))],
         NEW p \in Parts, p \notin doubt'
  PROVE  text'[p] = cells[p] \/ Mended(todo, p)'
  <1> DEFINE s == Head(todo)
  <1>1. todo # <<>> /\ Formed(s) /\ s.acc # "none" /\ s.cmd \notin Whats
    BY HeadFormed, KindsOfSteps DEF GuiInv, Exchange, Step
  <1>2. p \notin doubt => text[p] = cells[p] \/ Mended(todo, p)
    BY DEF GuiInv, MapInv
  <1>3. text \in [Parts -> Values] /\ todo \in Seq(Steps)
    BY DEF GuiInv, Types, TypeOK, Shape, Shaped
  <1>4. ASSUME p \notin doubt, ~Mends(s, p), todo' = Tail(todo), text'[p] = text[p]
        PROVE  text'[p] = cells[p] \/ Mended(todo, p)'
    BY <1>1, <1>2, <1>3, <1>4, TailMended DEF Mended
  <1>5. Reads(s) => (Mends(s, p) <=> p = Part(s))
    BY <1>1 DEF Mends, Whats
  <1>6. ~Reads(s) => ~Mends(s, p)
    BY <1>1 DEF Mends, Whats
  <1>7. Puts(s) => s.line = cursor /\ s.line = line_text
    BY <1>1, HeadFormed DEF GuiInv, Shape, Shaped, Placed
  <1>8. CASE Show(e, t)
    <2>1. ~Reads(s) /\ UNCHANGED <<text, doubt>> /\ todo' = Tail(todo)
      BY <1>8 DEF Show, Reads, Puts, GoesOn, text_vars
    <2> QED
      BY <1>4, <1>6, <2>1
  <1>9. CASE Load(ok, v, e, t)
    <2>1. /\ Reads(s) /\ text' = [text EXCEPT ![Part(s)] = v] /\ Doubted(Part(s), ok)
          /\ todo' = Tail(todo)
      BY <1>9 DEF Load, Reads, GoesOn, Part
    <2>2. s.acc = "get"
      BY <1>1, <2>1 DEF Formed
    <2>3. CASE p = Part(s)
      BY <1>3, <2>1, <2>2, <2>3 DEF Doubted
    <2>4. CASE p # Part(s)
      <3>1. p \notin doubt /\ text'[p] = text[p]
        BY <1>3, <2>1, <2>4 DEF Doubted
      <3> QED
        BY <1>4, <1>5, <2>1, <2>4, <3>1
    <2> QED
      BY <2>3, <2>4
  <1>10. CASE Wrote(ok, e, t)
    <2>1. /\ s.use = "wrote" /\ UNCHANGED text /\ Doubted(Part(s), ok)
          /\ todo' = Tail(todo) /\ ~Reads(s)
      BY <1>10 DEF Wrote, Reads, Puts, GoesOn, Part
    <2>2. s.acc = "set" /\ s.value = text[Part(s)]
      BY <1>1, <2>1, HeadFormed DEF GuiInv, Shape, Shaped, AsText, Formed
    <2>3. CASE p = Part(s)
      BY <2>1, <2>2, <2>3 DEF Doubted
    <2>4. CASE p # Part(s)
      <3>1. p \notin doubt
        BY <2>1, <2>4 DEF Doubted
      <3> QED
        BY <1>4, <1>6, <2>1, <3>1
    <2> QED
      BY <2>3, <2>4
  <1>11. ASSUME Puts(s), PutText(<<cursor, s.cmd>>, ok, v), todo' = Tail(todo)
         PROVE  text'[p] = cells[p] \/ Mended(todo, p)'
    <2>1. /\ Reads(s) /\ text' = [text EXCEPT ![Part(s)] = v] /\ Doubted(Part(s), ok)
      BY <1>7, <1>11 DEF PutText, Reads, Part
    <2>2. s.acc = "get"
      BY <1>1, <2>1 DEF Formed
    <2>3. CASE p = Part(s)
      BY <1>3, <2>1, <2>2, <2>3 DEF Doubted
    <2>4. CASE p # Part(s)
      <3>1. p \notin doubt /\ text'[p] = text[p]
        BY <1>3, <2>1, <2>4 DEF Doubted
      <3> QED
        BY <1>4, <1>5, <1>11, <2>1, <2>4, <3>1
    <2> QED
      BY <2>3, <2>4
  <1>12. CASE Put(ok, v, e, t)
    BY <1>11, <1>12 DEF Put, Puts
  <1>13. CASE Learnt(ok, e, t)
    <2>1. s.use = "learnt" /\ ~Reads(s) /\ UNCHANGED text /\ ~Mends(s, p)
      BY <1>6, <1>13 DEF Learnt, Reads, Puts
    <2>2. CASE ok
      BY <1>4, <1>13, <2>1, <2>2 DEF Learnt, GoesOn
    <2>3. CASE ~ok
      <3>1. p \notin doubt
        BY <1>13, <2>3 DEF Learnt
      <3>2. s.cmd \in {"irdata_remote", "setting_remote"}
        BY <1>1, <2>1 DEF Formed
      <3>3. Mended(todo, p) => p = <<s.line, "irdata">>
        BY <1>1, <2>1, LearnerMends DEF GuiInv
      <3>4. p # <<s.line, "irdata">>
        <4>1. CASE s.cmd = "setting_remote"
          BY <1>1, <4>1, GuiAssumption DEF Formed, Parts, Line
        <4>2. CASE s.cmd # "setting_remote"
          BY <1>13, <2>3, <4>2 DEF Learnt
        <4> QED
          BY <4>1, <4>2
      <3> QED
        BY <1>2, <2>1, <3>1, <3>3, <3>4
    <2> QED
      BY <2>2, <2>3
  <1>14. CASE Compare(ok, v, e, t)
    <2>1. s.use = "compare" /\ Puts(s) /\ Reads(s) /\ s.cmd = "irdata"
      BY <1>1, <1>14 DEF Compare, Reads, Puts, Formed
    <2>2. CASE \E i \in Line \ {line_text} : text[<<i, "irdata">>] = v
      <3>1. UNCHANGED text /\ doubt' = doubt \cup {<<line_text, "irdata">>}
        BY <1>14, <2>2 DEF Compare
      <3>2. p \notin doubt /\ p # Part(s)
        BY <1>7, <2>1, <3>1 DEF Part
      <3>3. ~Mended(todo, p)
        BY <1>1, <1>5, <2>1, <3>2, LearnerMends DEF GuiInv, Part
      <3> QED
        BY <1>2, <3>1, <3>2, <3>3
    <2>3. CASE ~(\E i \in Line \ {line_text} : text[<<i, "irdata">>] = v)
      BY <1>11, <1>14, <2>1, <2>3 DEF Compare, GoesOn
    <2> QED
      BY <2>2, <2>3
  <1> QED
    BY <1>8, <1>9, <1>10, <1>12, <1>13, <1>14 DEF After

LEMMA NothingChanges == \A p : ~Changes(NoCommand, p)
  BY DEF Changes, NoCommand, Do, Ask

\* A command that the program no longer waits for changes what is doubted, or
\* is read back.
LEMMA PendingMended ==
  ASSUME GuiInv, Exchange, sent, ~crossed, NEW v, NEW e, NEW t,
         After(FALSE, v, e, t), UNCHANGED <<buffer, serving>>,
         NEW p \in Parts, p \notin doubt', Pending(p)'
  PROVE  Mended(todo, p)'
  <1> DEFINE s == Head(todo)
  <1>1. /\ todo # <<>> /\ Formed(s) /\ s.acc # "none" /\ todo[1] = s
        /\ 1 \in 1 .. Len(todo) /\ todo \in Seq(Steps)
    BY HeadFormed DEF GuiInv, Exchange, Step, Shape, Shaped
  <1>2. Changes(s, p)
    <2>1. Changes(buffer, p) \/ Changes(serving, p)
      BY DEF Pending
    <2>2. Owes
      BY <2>1, NothingChanges DEF Owes, GuiInv, Sync, Placing
    <2>3. buffer = s /\ serving \in {NoCommand, buffer}
      BY <2>2 DEF GuiInv, Sync, Uncrossed, Served
    <2> QED
      BY <2>1, <2>3, NothingChanges
  <1>3. CASE Show(e, t)
    <2>1. s.use = "show" /\ todo' = Tail(todo)
      BY <1>3 DEF Show, GoesOn
    <2>2. MendedAfter(todo, 1, p)
      BY <1>1, <1>2, <2>1 DEF GuiInv, Shape, Shaped, Followed
    <2> QED
      BY <1>1, <2>1, <2>2, TailMendedBehind DEF Mended
  <1>4. CASE Load(FALSE, v, e, t) \/ Put(FALSE, v, e, t) \/ Compare(FALSE, v, e, t)
    <2>1. Reads(s)
      BY <1>4 DEF Load, Put, Compare, Reads, Puts
    <2>2. /\ s.acc = "get" /\ s.cmd # "eeprom"
          /\ s.cmd \notin {"irdata_remote", "setting_remote"}
      BY <1>1, <2>1 DEF Formed, Reads, Puts, Part, Parts
    <2> QED
      BY <1>2, <2>2 DEF Changes
  <1>5. CASE Wrote(FALSE, e, t)
    <2>1. s.use = "wrote" /\ p # Part(s)
      BY <1>5 DEF Wrote, Doubted, Part
    <2>2. s.cmd \notin {"eeprom", "irdata_remote"}
      BY <1>1, <2>1 DEF Formed, Part, Parts
    <2> QED
      BY <1>2, <2>1, <2>2 DEF Changes
  <1>6. CASE Learnt(FALSE, e, t)
    <2>1. s.use = "learnt" /\ s.cmd \in {"irdata_remote", "setting_remote"}
      BY <1>1, <1>6 DEF Learnt, Formed
    <2>2. Part(s) \notin Parts
      BY <2>1 DEF Part, Parts
    <2>3. s.cmd # "setting_remote" => p # <<s.line, "irdata">>
      BY <1>6 DEF Learnt
    <2> QED
      BY <1>2, <2>1, <2>2, <2>3 DEF Changes
  <1> QED
    BY <1>3, <1>4, <1>5, <1>6 DEF After

\* The exchange ends without an answer.
LEMMA NothingMap ==
  ASSUME GuiInv, Exchange, sent, NEW v, NEW e, NEW t, After(FALSE, v, e, t),
         UNCHANGED <<handle, crossed, device_vars>>
  PROVE  MapInv'
  <1> SUFFICES ASSUME handle = "open", ~crossed, NEW p \in Parts, p \notin doubt'
               PROVE  (text'[p] = cells'[p] /\ ~Pending(p)') \/ Mended(todo, p)'
    BY DEF MapInv
  <1>1. UNCHANGED <<cells, buffer, serving>>
    BY DEF device_vars
  <1>2. text'[p] = cells[p] \/ Mended(todo, p)'
    BY <1>1, AfterMap
  <1>3. Pending(p)' => Mended(todo, p)'
    BY <1>1, PendingMended
  <1> QED
    BY <1>1, <1>2, <1>3

\* A handler begins when nothing is left to be read back.
LEMMA BeginMap ==
  ASSUME MapInv, todo = <<>>, UNCHANGED <<text, handle, read_vars, device_vars>>,
         doubt \subseteq doubt'
  PROVE  MapInv'
  <1>1. /\ UNCHANGED <<cells, buffer, serving>> /\ sent' = sent /\ crossed' = crossed
    BY DEF read_vars, device_vars
  <1>2. \A p : Pending(p)' = Pending(p)
    BY <1>1 DEF Pending
  <1>3. \A p : ~Mended(todo, p)
    BY EmptySeq DEF Mended
  <1> QED
    BY <1>1, <1>2, <1>3 DEF MapInv

LEMMA ButtonsMap ==
  ASSUME ~Hasty, GuiInv, Buttons
  PROVE  Shape' /\ MapInv'
  <1>1. /\ todo = <<>> /\ cursor = line_text /\ cursor \in Line
        /\ text \in [Parts -> Values]
    <2>1. User
      BY DEF Buttons, Button, onConnect, onDisconnect, onRescan, onReboot, onUpgrade,
         onDevlistDoubleclicked, onCmdQuit, onSetWakeup, onSetMacro, onSetRepeat,
         onSetAlarm, onSendIR, onCommitEeprom, onGetWakeup, onGetMacro, onGetRepeat,
         onGetAlarm, onResetWakeup, onResetMacro, onResetRepeat, onResetAlarm,
         onGetCaps, onGetrawEeprom, onSetByRemoteWakeup, onSetByRemoteMacro,
         onGetIrdata, onGetKey, onSetByRemoteIrdata, onSetIrdata, onSetKey,
         onResetIrdata, onResetKey, onGetEeprom, onResetEeprom, onSetEeprom
    <2> QED
      BY <2>1 DEF User, Idle, Ready, GuiInv, Types, TypeOK
  <1>2. CASE onSetEeprom
    <2>1. /\ todo' = OnLines(FlashLine)
          /\ UNCHANGED <<text, handle, doubt, read_vars, device_vars>>
      BY <1>2 DEF onSetEeprom, text_vars
    <2>2. Shaped(OnLines(FlashLine), cursor', line_text', text, handle')
      BY <1>1, FlashShaped
    <2> QED
      BY <1>1, <2>1, <2>2, BeginMap DEF Shape, GuiInv
  <1>3. ASSUME NEW steps, Begin(steps), Shaped(steps, cursor, cursor, text, handle)
        PROVE  Shape' /\ MapInv'
    <2>1. /\ todo' = steps /\ UNCHANGED <<text, handle, doubt, cursor, line_text>>
          /\ UNCHANGED <<read_vars, device_vars>>
      BY <1>3 DEF Begin, text_vars, place_vars
    <2> QED
      BY <1>1, <1>3, <2>1, BeginMap DEF Shape, GuiInv
  <1>4. CASE onConnect \/ onDisconnect \/ onRescan \/ onReboot
             \/ onDevlistDoubleclicked \/ onCmdQuit \/ onGetCaps \/ onGetrawEeprom
             \/ onGetEeprom
    BY <1>3, <1>4, OpeningShaped
       DEF onConnect, onDisconnect, onRescan, onReboot, onDevlistDoubleclicked,
           onCmdQuit, onGetCaps, onGetrawEeprom, onGetEeprom
  <1>5. CASE onUpgrade
    BY <1>3, <1>5, UpgradeShaped DEF onUpgrade
  <1>6. CASE onSetWakeup \/ onSetMacro \/ onSetRepeat \/ onSetAlarm \/ onSendIR
             \/ onCommitEeprom \/ onGetWakeup \/ onGetMacro \/ onGetRepeat
             \/ onGetAlarm \/ onResetWakeup \/ onResetMacro \/ onResetRepeat
             \/ onResetAlarm
    <2>1. Begin(<<Setting>>)
      BY <1>6 DEF onSetWakeup, onSetMacro, onSetRepeat, onSetAlarm, onSendIR,
         onCommitEeprom, onGetWakeup, onGetMacro, onGetRepeat, onGetAlarm,
         onResetWakeup, onResetMacro, onResetRepeat, onResetAlarm
    <2> QED
      BY <1>3, <2>1, OpeningShaped
  <1>7. CASE onSetByRemoteWakeup \/ onSetByRemoteMacro
    BY <1>3, <1>7, LearnSettingShaped DEF onSetByRemoteWakeup, onSetByRemoteMacro
  <1>8. CASE onResetEeprom
    BY <1>3, <1>8, ResetEepromShaped DEF onResetEeprom
  <1>9. CASE onGetIrdata \/ onGetKey \/ onSetByRemoteIrdata \/ onResetIrdata
             \/ onResetKey
    BY <1>1, <1>3, <1>9, LineShaped
       DEF onGetIrdata, onGetKey, onSetByRemoteIrdata, onResetIrdata, onResetKey
  <1>10. CASE \E c \in Codes : onSetIrdata(c)
    BY <1>1, <1>3, <1>10, LineShaped, Typed DEF onSetIrdata
  <1>11. CASE \E k \in Keys : onSetKey(k)
    BY <1>1, <1>3, <1>11, LineShaped, Typed DEF onSetKey
  <1> QED
    BY <1>2, <1>4, <1>5, <1>6, <1>7, <1>8, <1>9, <1>10, <1>11 DEF Buttons

LEMMA TextMap ==
  ASSUME GuiInv, TextActions \/ Display
  PROVE  Shape' /\ MapInv'
  <1>1. todo = <<>> /\ todo' = todo /\ UNCHANGED <<handle, read_vars, device_vars>>
    BY DEF TextActions, Edit, ClickLine, onOpen, onSave, Display, Button, User, Idle
  <1>2. Shape'
    BY <1>1, EmptyShaped DEF Shape
  <1>3. CASE Edit
    <2>1. PICK edit \in Edits : /\ text' = [text EXCEPT ![edit[1]] = edit[2]]
                                /\ doubt' = doubt \cup {edit[1]}
      BY <1>3 DEF Edit
    <2>2. text \in [Parts -> Values]
      BY DEF GuiInv, Types, TypeOK
    <2>3. \A p \in Parts \ doubt' : p \in Parts \ doubt /\ text'[p] = text[p]
      BY <2>1, <2>2
    <2>4. /\ UNCHANGED <<cells, buffer, serving, handle>>
          /\ sent' = sent /\ crossed' = crossed
      BY <1>1 DEF read_vars, device_vars
    <2>5. \A p : Pending(p)' = Pending(p) /\ ~Mended(todo, p)
      BY <1>1, <2>4, EmptySeq DEF Pending, Mended
    <2> QED
      BY <1>2, <2>3, <2>4, <2>5 DEF GuiInv, MapInv
  <1>4. CASE onOpen
    BY <1>2, <1>4 DEF onOpen, MapInv
  <1>5. CASE ClickLine \/ onSave \/ Display
    <2>1. UNCHANGED <<text, doubt>>
      BY <1>5 DEF ClickLine, onSave, Display, text_vars
    <2> QED
      BY <1>1, <1>2, <2>1, BeginMap DEF GuiInv
  <1> QED
    BY <1>3, <1>4, <1>5 DEF TextActions

\* Nothing is known of a device that is not open.
LEMMA ClosedMap == handle' # "open" => MapInv'
  BY DEF MapInv

LEMMA EndMap == End => Shape' /\ MapInv'
  BY EmptyShaped DEF End, Shape, MapInv

LEMMA ModesMap ==
  ASSUME ~Hasty, GuiInv, Modes \/ InModes
  PROVE  Shape' /\ MapInv'
  <1>1. todo = <<>> /\ text \in [Parts -> Values] /\ cursor \in Line
    BY DEF Modes, ReceiveOn, ReceiveOff, KeyboardOn, KeyboardOff, InModes, ReceiveCrash,
           onReadIR, ReceiveError, onKeyPress, onKbdTimeout, onSetByRemoteIrdataTimeout,
           Button, User, Idle, GuiInv, Types, TypeOK
  <1>2. ASSUME todo' = todo
        PROVE  Shape'
    BY <1>1, <1>2, EmptyShaped DEF Shape
  <1>3. CASE ReceiveOn
    <2>1. /\ todo' = todo /\ UNCHANGED <<text, doubt, read_vars, device_vars>>
          /\ handle' = handle \/ handle' = "none"
      BY <1>3 DEF ReceiveOn, text_vars
    <2> QED
      BY <1>1, <1>2, <2>1, BeginMap, ClosedMap DEF GuiInv
  <1>4. CASE ReceiveOff \/ KeyboardOn \/ KeyboardOff \/ onReadIR \/ onKeyPress
    <2>1. todo' = todo /\ UNCHANGED <<text, doubt, handle, read_vars, device_vars>>
      BY <1>4 DEF ReceiveOff, KeyboardOn, KeyboardOff, onReadIR, onKeyPress, text_vars
    <2> QED
      BY <1>1, <1>2, <2>1, BeginMap DEF GuiInv
  <1>5. CASE ReceiveCrash
    BY <1>5, EndMap DEF ReceiveCrash
  <1>6. CASE ReceiveError
    BY <1>2, <1>6, ClosedMap DEF ReceiveError, Disconnect
  <1>7. CASE onKbdTimeout
    <2>1. /\ cursor = line_text /\ pressed \in Values
          /\ UNCHANGED <<text, doubt, handle, cursor, line_text>>
          /\ UNCHANGED <<read_vars, device_vars>>
      BY <1>7, Typed DEF onKbdTimeout, Ready, text_vars, place_vars,
                         GuiInv, Types, TypeOK
    <2>2. CASE todo' = todo
      BY <1>1, <1>2, <2>1, <2>2, BeginMap DEF GuiInv
    <2>3. CASE todo' = SetKey(line_text, pressed) \o SetByRemote(line_text)
                       \o <<Do("rearm")>>
      <3>1. Shape'
        BY <1>1, <2>1, <2>3, KeyboardShaped DEF Shape
      <3> QED
        BY <1>1, <2>1, <3>1, BeginMap DEF GuiInv
    <2> QED
      BY <1>7, <2>2, <2>3 DEF onKbdTimeout
  <1>8. CASE onSetByRemoteIrdataTimeout
    <2>1. /\ cursor = line_text /\ todo' = SetByRemote(line_text)
          /\ UNCHANGED <<text, doubt, handle, cursor, line_text>>
          /\ UNCHANGED <<read_vars, device_vars>>
      BY <1>8 DEF onSetByRemoteIrdataTimeout, Ready, text_vars, place_vars
    <2>2. Shape'
      BY <1>1, <2>1, LineShaped DEF Shape
    <2> QED
      BY <1>1, <2>1, <2>2, BeginMap DEF GuiInv
  <1> QED
    BY <1>3, <1>4, <1>5, <1>6, <1>7, <1>8 DEF Modes, InModes

LEMMA StartMap ==
  ASSUME GuiInv, Start
  PROVE  Shape' /\ MapInv'
  <1>1. /\ handle' = "none" /\ todo' = <<Do("rescan"), Do("connect")>>
    BY DEF Start, GuiInv, Sync, Placing
  <1> QED
    BY <1>1, OpeningShaped, ClosedMap DEF Shape

\* A step without an exchange that leaves text and device alone.
LEMMA DoingMap ==
  ASSUME GuiInv, NEW what \in Whats, Doing(what), what # "get_eeprom",
         todo' = Tail(todo), UNCHANGED <<text, handle, doubt, sent, crossed, device_vars>>
  PROVE  MapInv'
  <1>1. /\ todo # <<>> /\ Head(todo).cmd = what /\ ~Reads(Head(todo))
        /\ todo \in Seq(Steps)
    BY DoingRests DEF GuiInv, Shape, Shaped
  <1>2. ASSUME NEW p \in Parts, Mended(todo, p)
        PROVE  Mended(Tail(todo), p)
    BY <1>1, <1>2, TailMended DEF Mends
  <1>3. UNCHANGED <<cells, buffer, serving>> /\ sent' = sent
    BY DEF device_vars
  <1>4. \A p : Pending(p)' = Pending(p)
    BY <1>3 DEF Pending
  <1> QED
    BY <1>2, <1>3, <1>4 DEF GuiInv, MapInv, Mended

\* The whole table is read behind get_eeprom.
LEMMA GetEepromMap ==
  ASSUME GuiInv, GetEeprom
  PROVE  Shape' /\ MapInv'
  <1> DEFINE r == Tail(todo)
  <1>1. /\ todo # <<>> /\ Head(todo).cmd = "get_eeprom"
        /\ Moves(Head(todo)) /\ Rewrites(Head(todo))
        /\ UNCHANGED <<text, cells, handle, cursor, line_text>>
    BY DEF GetEeprom, Doing, Step, Moves, Rewrites, place_vars, device_vars
  <1>2. Shaped(r, cursor, line_text, text, handle)
    BY <1>1, TailShaped DEF GuiInv, Shape
  <1>3. CASE todo' = LoadAll \o r
    <2>1. /\ Len(todo) \in Nat /\ Head(todo) = todo[1] /\ Len(r) = Len(todo) - 1
          /\ \A j \in 1 .. Len(r) : r[j] = todo[j + 1]
      BY <1>1, HeadTailProperties DEF GuiInv, Shape, Shaped
    <2>2. \A j \in 1 .. Len(r) :
             /\ 1 \in 1 .. Len(todo) /\ j + 1 \in 1 .. Len(todo) /\ 1 < j + 1
             /\ j + 1 # 1 /\ (j + 1) - 1 = j
      BY <2>1
    <2>3. \A j \in 1 .. Len(r) : ~Puts(r[j]) /\ r[j].use # "wrote"
      <3> SUFFICES ASSUME NEW j \in 1 .. Len(r)
                   PROVE  ~Puts(r[j]) /\ r[j].use # "wrote"
        OBVIOUS
      <3>1. Before(todo[1], todo[j + 1])
        BY <2>2 DEF GuiInv, Shape, Shaped, Ordered
      <3> QED
        BY <1>1, <2>1, <3>1 DEF Before
    <2>4. r # <<>> => r[1].cmd # "flash"
      <3> SUFFICES ASSUME r # <<>>
                   PROVE  r[1].cmd # "flash"
        OBVIOUS
      <3>1. 1 \in 1 .. Len(r)
        BY <1>2, EmptySeq DEF Shaped
      <3>2. r[1] = todo[2] /\ 2 \in 1 .. Len(todo) /\ todo[1].cmd = "get_eeprom"
        BY <1>1, <2>1, <2>2, <3>1
      <3> QED
        BY <3>2 DEF GuiInv, Shape, Shaped, Opened
    <2>5. /\ Shaped(LoadAll \o r, cursor, line_text, text, handle)
          /\ \A p \in Parts : Mended(LoadAll \o r, p)
      BY <1>2, <2>3, <2>4, LoadAllShaped
    <2> QED
      BY <1>1, <1>3, <2>5 DEF Shape, MapInv
  <1>4. CASE todo' = r /\ doubt' = Parts
    BY <1>1, <1>2, <1>4 DEF Shape, MapInv
  <1> QED
    BY <1>3, <1>4 DEF GetEeprom

\* A device that was opened is read.
LEMMA ConnectMap ==
  ASSUME GuiInv, Connect
  PROVE  Shape' /\ MapInv'
  <1>1. /\ todo # <<>> /\ Head(todo).cmd = "connect"
        /\ UNCHANGED <<text, cells, doubt, cursor, line_text>>
    BY DEF Connect, Doing, Step, text_vars, place_vars, device_vars
  <1>2. CASE handle' = "open" /\ todo' = AfterOpening \o Tail(todo)
    <2>1. todo \in Seq(Steps) /\ 1 \in 1 .. Len(todo) /\ todo[1] = Head(todo)
      BY <1>1, HeadFormed DEF GuiInv, Shape, Shaped
    <2>2. Len(todo) = 1
      BY <1>1, <2>1 DEF GuiInv, Shape, Shaped, Opened
    <2>3. Tail(todo) = <<>>
      <3>1. Tail(todo) \in Seq(Steps) /\ Len(Tail(todo)) = Len(todo) - 1
        BY <1>1, <2>1, HeadTailProperties
      <3>2. \A q \in Seq(Steps) : Len(q) = 0 => q = <<>>
        BY EmptySeq
      <3>3. Len(Tail(todo)) = 0
        BY <2>2, <3>1
      <3> QED
        BY <3>1, <3>2, <3>3
    <2>4. AfterOpening \in Seq(Steps)
      BY AfterOpeningShaped DEF Shaped
    <2>5. todo' = AfterOpening
      BY <1>2, <2>3, <2>4, ConcatEmptySeq
    <2>6. Shape'
      BY <2>5, AfterOpeningShaped DEF Shape
    <2>7. \A p \in Parts : Mended(AfterOpening, p)
      <3>1. 3 \in 1 .. Len(AfterOpening) /\ AfterOpening[3].cmd = "get_eeprom"
        BY DEF AfterOpening, Do, Ask
      <3> QED
        BY <3>1 DEF Mended, Mends
    <2> QED
      BY <2>5, <2>6, <2>7 DEF MapInv
  <1>3. CASE handle' = handle /\ todo' = Tail(todo)
    <2>1. Shape'
      BY <1>1, <1>3, NextStepShaped DEF GuiInv
    <2>2. MapInv'
      BY <1>1, <1>3, DoingMap DEF Connect, Whats
    <2> QED
      BY <2>1, <2>2
  <1> QED
    BY <1>2, <1>3 DEF Connect

\* The firmware is replaced while the device is not open.
LEMMA FlashMap ==
  ASSUME GuiInv, Flash
  PROVE  Shape' /\ MapInv'
  <1>1. /\ todo # <<>> /\ Head(todo).cmd = "flash" /\ todo' = Tail(todo)
        /\ UNCHANGED <<text, handle, cursor, line_text>>
    BY DEF Flash, Doing, Step, text_vars, place_vars
  <1>2. handle = "none"
    <2>1. 1 \in 1 .. Len(todo) /\ todo[1] = Head(todo)
      BY <1>1, HeadFormed DEF GuiInv
    <2> QED
      BY <1>1, <2>1 DEF GuiInv, Shape, Shaped, Opened
  <1> QED
    BY <1>1, <1>2, NextStepShaped, ClosedMap DEF GuiInv

LEMMA DoingStepsMap ==
  ASSUME GuiInv, Loaded \/ Enable \/ Rearm \/ StepDisconnect \/ Rescan
  PROVE  Shape' /\ MapInv'
  <1>1. todo # <<>> /\ todo' = Tail(todo) /\ UNCHANGED text
    BY DEF Loaded, Enable, Rearm, StepDisconnect, Rescan, Disconnect, Doing, Step,
           text_vars
  <1>2. CASE Loaded
    <2>1. /\ Doing("loaded") /\ Moves(Head(todo)) /\ Head(todo).cmd # "disconnect"
          /\ UNCHANGED <<handle, doubt, sent, crossed, device_vars>>
      BY <1>2 DEF Loaded, Doing, Moves, read_vars
    <2> QED
      BY <1>1, <2>1, NextStepShaped, DoingMap DEF GuiInv, Whats
  <1>3. CASE Enable \/ Rearm
    <2>1. /\ Head(todo).cmd # "disconnect" /\ (Doing("enable") \/ Doing("rearm"))
          /\ UNCHANGED <<handle, doubt, cursor, line_text, sent, crossed, device_vars>>
      BY <1>3 DEF Enable, Rearm, Doing, text_vars, place_vars, read_vars
    <2> QED
      BY <1>1, <2>1, NextStepShaped, DoingMap DEF GuiInv, Whats
  <1>4. CASE StepDisconnect \/ Rescan
    <2>1. handle' = "none" /\ UNCHANGED <<cursor, line_text>>
      BY <1>4 DEF StepDisconnect, Rescan, Disconnect, place_vars
    <2> QED
      BY <1>1, <2>1, NextStepShaped, ClosedMap DEF GuiInv
  <1> QED
    BY <1>2, <1>3, <1>4

LEMMA ReadAnswerMap ==
  ASSUME GuiInv, ReadAnswer
  PROVE  Shape' /\ MapInv'
  <1> DEFINE a == Head(reports)
  <1>1. PICK ok \in BOOLEAN :
           ok <=> a.ok /\ a.acc = Head(todo).acc /\ a.cmd = Head(todo).cmd
    OBVIOUS
  <1>2. /\ Exchange /\ UNCHANGED <<handle, crossed, cells, buffer, serving>>
        /\ After(a.ok /\ a.acc = Head(todo).acc /\ a.cmd = Head(todo).cmd,
                 a.value, enabled, timers)
    BY DEF ReadAnswer, Waits, device_vars
  <1>3. (a.ok /\ a.acc = Head(todo).acc /\ a.cmd = Head(todo).cmd) = ok
    BY <1>1
  <1>4. After(ok, a.value, enabled, timers)
    BY <1>2, <1>3
  <1>5. Shape'
    BY <1>2, <1>4, AfterShape DEF GuiInv
  <1>6. ASSUME handle = "open", ~crossed, NEW p \in Parts, p \notin doubt'
        PROVE  (text'[p] = cells[p] /\ ~Pending(p)') \/ Mended(todo, p)'
    <2>1. Answers(a, Head(todo)) /\ ~Owes
      BY <1>6, AnswerAlone DEF GuiInv
    <2>2. ~Pending(p)'
      BY <1>2, <2>1, NothingChanges DEF Pending, Owes, GuiInv, Sync, Placing
    <2>3. text'[p] = cells[p] \/ Mended(todo, p)'
      BY <1>1, <1>2, <1>4, <1>6, <2>1, AfterMap DEF Answers
    <2> QED
      BY <2>2, <2>3
  <1>7. MapInv'
    BY <1>2, <1>6 DEF MapInv
  <1> QED
    BY <1>5, <1>7

LEMMA NoAnswerMap ==
  ASSUME GuiInv, WriteError \/ ReadError \/ ReadLog \/ GiveUp
  PROVE  Shape' /\ MapInv'
  <1>1. CASE WriteError \/ ReadError
    <2>1. Exchange /\ Failed /\ handle' = "none"
      BY <1>1 DEF WriteError, ReadError, Waits, Failed
    <2> QED
      BY <2>1, AfterShape, ClosedMap DEF Failed, GuiInv
  <1>2. CASE GiveUp
    <2>1. /\ Exchange /\ sent /\ UNCHANGED <<handle, crossed, device_vars>>
          /\ After(FALSE, NoAnswer, enabled, timers)
      BY <1>2 DEF GiveUp
    <2> QED
      BY <2>1, AfterShape, NothingMap DEF GuiInv
  <1>3. CASE ReadLog
    <2>1. /\ Exchange /\ sent /\ UNCHANGED <<handle, crossed, device_vars>>
          /\ After(FALSE, Noise, enabled, timers)
      BY <1>3 DEF ReadLog, Waits
    <2> QED
      BY <2>1, AfterShape, NothingMap DEF GuiInv
  <1> QED
    BY <1>1, <1>2, <1>3

LEMMA StillMap ==
  ASSUME GuiInv, UNCHANGED <<todo, cursor, line_text, text, doubt, handle, cells>>,
         crossed => crossed',
         ~crossed' /\ ~sent' =>
            ~sent /\ buffer' \in {buffer, NoCommand} /\ serving' \in {serving, buffer, NoCommand}
  PROVE  Shape' /\ MapInv'
  <1>1. Shape'
    BY DEF GuiInv, Shape
  <1>2. ASSUME NEW p, ~crossed', Pending(p)'
        PROVE  Pending(p)
    BY <1>2, NothingChanges DEF Pending
  <1>3. MapInv'
    BY <1>2 DEF GuiInv, MapInv, Mended
  <1> QED
    BY <1>1, <1>3

LEMMA HandlerMap ==
  ASSUME GuiInv, Handler
  PROVE  Shape' /\ MapInv'
  <1>1. CASE Write
    <2>1. sent' /\ (crossed => crossed')
      BY <1>1 DEF Write
    <2> QED
      BY <1>1, <2>1, StillMap DEF Write, text_vars, place_vars
  <1>3. CASE ReadOther
    <2>1. sent' /\ crossed' = crossed
      BY <1>3 DEF ReadOther, Waits
    <2> QED
      BY <1>3, <2>1, StillMap DEF ReadOther, text_vars, place_vars, device_vars
  <1>2. CASE Crash \/ Exit
    BY <1>2, EndMap DEF Crash, Exit
  <1> QED
    BY <1>1, <1>2, <1>3, ReadAnswerMap, NoAnswerMap, GetEepromMap, ConnectMap, FlashMap,
       DoingStepsMap DEF Handler

(***************************************************************************)
(* The device.                                                             *)
(***************************************************************************)
\* A command that the program waits for changes what is written, or read back.
LEMMA ServeMap ==
  ASSUME GuiInv, Serve
  PROVE  Shape' /\ MapInv'
  <1> DEFINE s == Head(todo)
  <1>1. /\ buffer # NoCommand /\ buffer' = NoCommand /\ serving' = NoCommand
        /\ cells' = Stored /\ cells \in [Parts -> Values]
        /\ UNCHANGED <<todo, cursor, line_text, text, doubt, crossed>>
        /\ sent' = sent
        /\ handle' = handle \/ handle' = Abandoned
    BY DEF Serve, program_vars, read_vars, text_vars, place_vars, GuiInv, Types, TypeOK
  <1>2. Shape'
    <2>1. handle = "none" => handle' = "none"
      BY <1>1 DEF Abandoned
    <2> QED
      BY <1>1, <2>1, StillShaped DEF GuiInv, Shape
  <1>3. ASSUME handle' = "open", ~crossed, NEW p \in Parts, p \notin doubt
        PROVE  text[p] = cells'[p] \/ Mended(todo, p)
    <2>1. handle = "open"
      BY <1>1, <1>3 DEF Abandoned
    <2>2. CASE cells'[p] = cells[p]
      BY <1>3, <2>1, <2>2 DEF GuiInv, MapInv
    <2>3. CASE cells'[p] # cells[p]
      <3>1. buffer.cmd = "eeprom"
            \/ (p = Part(buffer) /\ buffer.acc = "set" /\ cells'[p] = buffer.value)
            \/ (p = Part(buffer) /\ buffer.acc = "reset")
        BY <1>1, <2>3 DEF Stored, Part
      <3>2. Changes(buffer, p)
        BY <3>1 DEF Changes
      <3>3. CASE ~sent
        BY <1>3, <2>1, <3>2, <3>3 DEF Pending, GuiInv, MapInv
      <3>4. CASE sent
        <4>1. buffer = s /\ todo # <<>>
          BY <1>1, <1>3, <3>4 DEF GuiInv, Sync, Placing, Uncrossed, Served, Owes
        <4>2. Formed(s) /\ todo[1] = s /\ 1 \in 1 .. Len(todo)
          BY <4>1, HeadFormed DEF GuiInv
        <4>3. CASE s.use = "wrote"
          <5>1. s.acc = "set" /\ s.cmd # "eeprom"
            BY <4>2, <4>3 DEF Formed, Part, Parts
          <5>2. cells'[p] = s.value /\ p = Part(s)
            BY <3>1, <4>1, <5>1
          <5> QED
            BY <4>2, <4>3, <5>2 DEF GuiInv, Shape, Shaped, AsText
        <4>4. CASE s.use # "wrote"
          BY <3>2, <4>1, <4>4, HeadMended DEF GuiInv, Shape
        <4> QED
          BY <4>3, <4>4
      <3> QED
        BY <3>3, <3>4
    <2> QED
      BY <2>2, <2>3
  <1>4. \A p : ~Pending(p)'
    BY <1>1, NothingChanges DEF Pending
  <1>5. MapInv'
    BY <1>1, <1>3, <1>4 DEF MapInv, Mended
  <1> QED
    BY <1>2, <1>5

LEMMA LearnMap ==
  ASSUME GuiInv, Learn \/ LearnTimeout
  PROVE  Shape' /\ MapInv'
  <1> DEFINE s == Head(todo)
  <1>1. /\ serving # NoCommand /\ buffer' = NoCommand /\ serving' = NoCommand
        /\ UNCHANGED <<todo, cursor, line_text, text, doubt, handle, crossed>>
        /\ sent' = sent /\ cells \in [Parts -> Values]
    BY DEF Learn, LearnTimeout, EndLearn, program_vars, read_vars, text_vars, place_vars,
           GuiInv, Types, TypeOK
  <1>2. Shape'
    BY <1>1 DEF GuiInv, Shape
  <1>3. ASSUME handle = "open", ~crossed, NEW p \in Parts, p \notin doubt
        PROVE  text[p] = cells'[p] \/ Mended(todo, p)
    <2>1. CASE cells'[p] = cells[p]
      BY <1>3, <2>1 DEF GuiInv, MapInv
    <2>2. CASE cells'[p] # cells[p]
      <3>1. serving.cmd = "irdata_remote" /\ p = <<serving.line, "irdata">>
        BY <1>1, <2>2 DEF Learn, LearnTimeout
      <3>2. Changes(serving, p)
        BY <3>1 DEF Changes
      <3>3. CASE ~sent
        BY <1>3, <3>2, <3>3 DEF Pending, GuiInv, MapInv
      <3>4. CASE sent
        <4>1. serving = s /\ todo # <<>>
          BY <1>1, <1>3, <3>4 DEF GuiInv, Sync, Placing, Uncrossed, Served
        <4>2. s.use = "learnt"
          BY <3>1, <4>1, HeadFormed DEF GuiInv, Formed
        <4> QED
          BY <3>2, <4>1, <4>2, HeadMended DEF GuiInv, Shape
      <3> QED
        BY <3>3, <3>4
    <2> QED
      BY <2>1, <2>2
  <1>4. \A p : ~Pending(p)'
    BY <1>1, NothingChanges DEF Pending
  <1>5. MapInv'
    BY <1>1, <1>3, <1>4 DEF MapInv, Mended
  <1> QED
    BY <1>2, <1>5

LEMMA PlugMap ==
  ASSUME GuiInv, Unplug \/ Plug
  PROVE  Shape' /\ MapInv'
  <1>1. UNCHANGED <<todo, cursor, line_text, text, doubt>>
    BY DEF Unplug, Plug, program_vars, text_vars, place_vars
  <1>2. handle' # "open" /\ (handle = "none" => handle' = "none")
    BY DEF Unplug, Plug, Abandoned, GuiInv, Sync, Placing, Types, TypeOK
  <1> QED
    BY <1>1, <1>2, StillShaped, ClosedMap DEF GuiInv, Shape

LEMMA DeviceMap ==
  ASSUME GuiInv, Device \/ LogReport \/ Tick
  PROVE  Shape' /\ MapInv'
  <1>1. CASE BeginLearn \/ RemoteReport \/ LogReport \/ Tick
    <2>1. /\ UNCHANGED <<todo, cursor, line_text, text, doubt, handle, cells, buffer>>
          /\ sent' = sent /\ crossed' = crossed /\ serving' \in {serving, buffer}
      BY <1>1 DEF BeginLearn, RemoteReport, LogReport, FromRemote, Tick, program_vars,
                  read_vars, text_vars, place_vars, device_vars
    <2> QED
      BY <2>1, StillMap
  <1> QED
    BY <1>1, ServeMap, LearnMap, PlugMap DEF Device

(***************************************************************************)
(* The theorems.                                                           *)
(***************************************************************************)
LEMMA InitGui == Init => GuiInv
  <1> SUFFICES ASSUME Init
               PROVE  GuiInv
    OBVIOUS
  <1>1. Shape /\ MapInv
    BY OpeningShaped DEF Init, Shape, MapInv
  <1> QED
    BY <1>1, InitTypes, InitSync DEF GuiInv

LEMMA NextGui == ~Hasty /\ GuiInv /\ [Next]_vars => GuiInv'
  <1> SUFFICES ASSUME ~Hasty, GuiInv, [Next]_vars
               PROVE  GuiInv'
    OBVIOUS
  <1>1. Types' /\ Sync'
    BY NextTypes, NextSync DEF GuiInv
  <1>2. Shape' /\ MapInv'
    <2>1. CASE UNCHANGED vars
      <3>1. /\ UNCHANGED <<todo, cursor, line_text, text, doubt, handle, cells, buffer>>
            /\ sent' = sent /\ crossed' = crossed /\ serving' = serving
        BY <2>1 DEF vars, read_vars, text_vars, place_vars, device_vars
      <3> QED
        BY <3>1, StillMap
    <2>2. CASE (Buttons \/ TextActions \/ Modes \/ LogReport) /\ Clicked
      BY <2>2, ButtonsMap, TextMap, ModesMap, DeviceMap
    <2>3. CASE Unaided(Start \/ Handler \/ Display \/ InModes \/ Device \/ Tick)
      BY <2>3, StartMap, HandlerMap, TextMap, ModesMap, DeviceMap DEF Unaided
    <2> QED
      BY <2>1, <2>2, <2>3 DEF Next
  <1> QED
    BY <1>1, <1>2 DEF GuiInv

LEMMA AlwaysGui == ~Hasty => (Spec => []GuiInv)
  <1> SUFFICES ASSUME ~Hasty
               PROVE  Spec => []GuiInv
    OBVIOUS
  <1>1. Init => GuiInv
    BY InitGui
  <1>2. GuiInv /\ [Next]_vars => GuiInv'
    BY NextGui
  <1> QED
    BY <1>1, <1>2, PTL DEF Spec

\* TypeOK of IrmpGui: the cursor stays in the table, the driver holds at most
\* QueueSize reports, the program reads at most Patience times before it gives up,
\* and the device learns at most LearnTime.
THEOREM TypeCorrect == ~Hasty => (Spec => []TypeOK)
  <1>1. GuiInv => TypeOK
    BY DEF GuiInv, Types
  <1> QED
    BY <1>1, AlwaysGui, PTL

\* onSetIrdata, onSetKey, onReset, onSetByRemoteIrdata, onGetEeprom, onSetEeprom,
\* onConnect and the timers: until Write_and_Check writes a command while the
\* answer to an earlier one is still to come, a user who waits for the display
\* never looks at a line of the map that differs from what the device holds, unless
\* the line was edited or the user was told so, whatever was clicked, learnt, reset,
\* loaded or flashed before, whatever was read instead of an answer, and whenever
\* answers were lost or the device was unplugged.
THEOREM UncrossedMap == ~Hasty => (Spec => []UncrossedInStep)
  <1>1. GuiInv => UncrossedInStep
    BY EmptySeq DEF GuiInv, MapInv, UncrossedInStep, MapInStep, Idle, Mended
  <1> QED
    BY <1>1, AlwaysGui, PTL

\* The same handlers, with a firmware that is built without IRMP_LOGGING: no command
\* ever crosses an answer, so the map is always in step.
THEOREM MapKept == ~Hasty /\ ~Logging => (Spec => []MapInStep)
  <1> SUFFICES ASSUME ~Hasty, ~Logging
               PROVE  Spec => []MapInStep
    OBVIOUS
  <1>1. GuiInv => MapInStep
    <2>1. GuiInv => ~crossed
      BY DEF GuiInv, Sync, Quiet
    <2> QED
      BY <2>1, EmptySeq DEF GuiInv, MapInv, MapInStep, Idle, Mended
  <1> QED
    BY <1>1, AlwaysGui, PTL
=============================================================================
