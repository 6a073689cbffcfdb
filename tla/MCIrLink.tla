-------------------------------- MODULE MCIrLink --------------------------------
(***************************************************************************)
(* Instances of the infrared link for TLC.                                 *)
(***************************************************************************)
EXTENDS IrLink

Code(p, a, c, n) == [protocol |-> p, address |-> a, command |-> c, repeats |-> n]

\* A code of every protocol that irsnd.c sends and irmp.c receives.  Addresses
\* and commands have ones and zeros at both ends of their fields.
AllCodes ==
    {Code("SIRCS", 2069, 16469, 1),     Code("NEC", 165, 90, 2),
     Code("APPLE", 35, 90, 1) ,         Code("ONKYO", 37034, 22221, 0),
     Code("NEC16", 165, 90, 1),         Code("NEC42", 5461, 165, 1),
     Code("MELINERA", 0, 165, 0),       Code("LGAIR", 165, 23130, 0),
     Code("SAMSUNG", 42330, 2725, 0),   Code("SAMSUNG32", 42330, 23205, 0),
     Code("SAMSUNG48", 42330, 23205, 0), Code("MATSUSHITA", 2646, 1445, 0),
     Code("TECHNICS", 0, 1445, 0),      Code("KASEIKYO", 8194, 42330, 0),
     Code("RECS80", 5, 42, 0),          Code("RECS80EXT", 9, 42, 0),
     Code("RC5", 21, 106, 1),           Code("RC5", 10, 21, 0),
     Code("RC6", 85, 165, 1),           Code("RC6A", 10922, 21930, 0),
     Code("DENON", 21, 682, 1),         Code("THOMSON", 9, 85, 0),
     Code("BOSE", 0, 165, 0),           Code("NUBERT", 0, 677, 1),
     Code("SPEAKER", 0, 346, 1),        Code("TELEFUNKEN", 0, 21845, 0),
     Code("GRUNDIG", 0, 346, 1),        Code("IR60", 0, 37, 1),
     Code("NOKIA", 165, 90, 1),         Code("SIEMENS", 597, 341, 0),
     Code("RUWIDO", 149, 42, 0),        Code("FDC", 0, 0, 0),
     Code("RCCAR", 2, 1450, 0),         Code("JVC", 9, 2646, 2),
     Code("NIKON", 0, 2, 0),            Code("PENTAX", 0, 37, 0)}

\* After JVC these are not received.
NotAfterJvc == {"NEC16", "NEC42", "MELINERA"}

\* Another code of the second set has the start bit and the coding of each of
\* these: what the first command leaves behind does to them what it does to it.
AlikeToOthers == {"APPLE", "ONKYO", "SAMSUNG48", "TECHNICS", "RECS80EXT",
                  "RC6A", "SPEAKER", "IR60", "NOKIA", "THOMSON"}

SecondCodes == {c \in AllCodes : c.protocol \notin NotAfterJvc \cup AlikeToOthers}

\* Every code, with the end of each pulse a tick early or late, then one of
\* each kind to see what the first one left behind.  NEC, GRUNDIG, RUWIDO and
\* those that begin like them are decoded by waiting for the rest: their frames
\* are not cut off.
AllPairs ==
    <<[codes |-> AllCodes, jitter |-> {-1, 0, 1},
       blockable |-> {"DENON", "RC5"}],
      [codes |-> SecondCodes, jitter |-> {0}, blockable |-> {}]>>

\* One code once, with whatever may come between.
Single(c, blockable) ==
    <<[codes |-> {c}, jitter |-> {0}, blockable |-> blockable]>>

\* Bits 16 and 17 of the frame are one long pulse.
SiemensCode  == Code("SIEMENS", 291, 40, 0)
SiemensCodes == {SiemensCode}
OneSiemens   == Single(SiemensCode, {})

=============================================================================
