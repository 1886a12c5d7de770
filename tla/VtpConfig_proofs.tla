-------------------------- MODULE VtpConfig_proofs --------------------------
(***************************************************************************)
(* Proofs about VtpConfig, for every firmware, every number of rows and    *)
(* every list of files.                                                    *)
(*                                                                         *)
(* vtpReadConfigFile is a fold of Step over the lines of the file, and     *)
(* vtpDownloadAll a fold of Apply over the setters.  What a fold computes  *)
(* is recovered by an induction over sets of naturals (SetInduction): the  *)
(* recursive function of FoldLeft exists, and so its value on a prefix is  *)
(* that of one more step on the prefix before (ReadAllSteps, LoadSteps).   *)
(*                                                                         *)
(* OnlyThisFile compares the parser with one that starts from the defaults *)
(* (FileInv).  SettingsHeld has three parts: a field reads back what was   *)
(* put into it (GetFit); a setter that follows spares the fields of the    *)
(* setters before it, or writes them again, so that a field keeps what it  *)
(* was given (LoadPuts); and the setters of every firmware are so          *)
(* (CallsAreOK), shown for each setter of TriggerRegs and each loop.       *)
(***************************************************************************)
EXTENDS VtpConfig, WellFoundedInduction, FiniteSetTheorems, TLAPS

-----------------------------------------------------------------------------
(* Induction *)

LEMMA LeastOf ==
    ASSUME NEW T \in SUBSET Nat, T # {}
    PROVE  \E x \in T : \A y \in T : x <= y
<1> DEFINE R == {ss \in Nat \X Nat : ss[1] < ss[2]}
<1>1. IsWellFoundedOn(R, Nat)
  BY NatLessThanWellFounded DEF OpToRel
<1> HIDE DEF R
<1>2. PICK x \in T : \A y \in T : ~(<<y, x>> \in R)
  BY <1>1, WFMin
<1>3. ASSUME NEW y \in T PROVE x <= y
  <2>1. x \in Nat /\ y \in Nat /\ <<y, x>> \notin R
    BY <1>2
  <2> QED BY <2>1 DEF R
<1> QED BY <1>3

LEMMA SetInduction ==
    ASSUME NEW n \in Nat, NEW T, 0 \in T, \A k \in 0 .. n - 1 : k \in T => k + 1 \in T
    PROVE  \A k \in 0 .. n : k \in T
<1> DEFINE U == {k \in 0 .. n : k \notin T}
<1>1. SUFFICES ASSUME U # {} PROVE FALSE
  OBVIOUS
<1> HIDE DEF U
<1>2. PICK x \in U : \A y \in U : x <= y
  <2>1. U \in SUBSET Nat
    BY DEF U
  <2> QED BY <1>1, <2>1, LeastOf
<1> USE DEF U
<1>3. x # 0 /\ x - 1 \in 0 .. n - 1 /\ x - 1 \in T
  BY <1>2
<1> QED BY <1>2, <1>3

-----------------------------------------------------------------------------
(* Folds *)

LEMMA MaxNew ==
    ASSUME NEW k \in Nat, NEW s \in SUBSET (1 .. k + 1), k + 1 \in s
    PROVE  Max(s) = k + 1
<1>1. \A y \in s : k + 1 >= y
  OBVIOUS
<1>2. Max(s) \in s /\ \A y \in s : Max(s) >= y
  BY <1>1, Zenon DEF Max
<1>3. ASSUME NEW m \in s, \A y \in s : m >= y PROVE m = k + 1
  <2>1. m \in Int /\ m <= k + 1 /\ m >= k + 1
    BY <1>3
  <2> QED BY <2>1
<1> QED BY <1>2, <1>3, Zenon

After(q, l) == IF q.res # 0 THEN q ELSE Step(q, l)
ReadIter(p, lines, n) ==
    CHOOSE it : it = [s \in SUBSET (1 .. n) |->
                        IF s = {} THEN p ELSE After(it[s \ {Max(s)}], lines[Max(s)])]

IsReadIter(it, p, lines, n) ==
    it = [s \in SUBSET (1 .. n) |->
            IF s = {} THEN p ELSE After(it[s \ {Max(s)}], lines[Max(s)])]

LEMMA ReadIterIs ==
    ASSUME NEW p, NEW lines, NEW n, DOMAIN lines = 1 .. n
    PROVE  ReadAll(p, lines) = ReadIter(p, lines, n)[1 .. n]
BY Zenon DEF ReadAll, FoldLeft, MapThenFoldSet, After, ReadIter

LEMMA ReadIterFn ==
    ASSUME NEW p, NEW lines, NEW n \in Nat
    PROVE  \E it : IsReadIter(it, p, lines, n)
<1> DEFINE Fn(it, k) == IsReadIter(it, p, lines, k)
           T == {k \in Nat : \E it : Fn(it, k)}
<1> USE DEF IsReadIter
<1>1. 0 \in T
  <2>1. Fn([s \in SUBSET (1 .. 0) |-> p], 0)
    OBVIOUS
  <2> QED BY <2>1
<1>2. ASSUME NEW k \in 0 .. n - 1, k \in T PROVE k + 1 \in T
  <2>1. PICK g : Fn(g, k)
    BY <1>2
  <2> DEFINE h == [s \in SUBSET (1 .. k + 1) |->
                    IF s \in SUBSET (1 .. k) THEN g[s] ELSE After(g[s \ {k + 1}], lines[k + 1])]
  <2>2. ASSUME NEW s \in SUBSET (1 .. k + 1)
        PROVE  h[s] = IF s = {} THEN p ELSE After(h[s \ {Max(s)}], lines[Max(s)])
    <3>1. CASE s \in SUBSET (1 .. k)
      <4>1. s # {} => s \ {Max(s)} \in SUBSET (1 .. k)
        BY <3>1
      <4>2. h[s] = g[s] /\ h[s \ {Max(s)}] = g[s \ {Max(s)}]
        BY <3>1
      <4> QED BY <2>1, <3>1, <4>2, Zenon
    <3>2. CASE s \notin SUBSET (1 .. k)
      <4>1. k + 1 \in s /\ Max(s) = k + 1
        BY <3>2, MaxNew
      <4>2. s \ {Max(s)} \in SUBSET (1 .. k)
        BY <4>1
      <4>3. s \ {Max(s)} \in SUBSET (1 .. k + 1)
        OBVIOUS
      <4> QED BY <3>2, <4>1, <4>2, <4>3
    <3> QED BY <3>1, <3>2
  <2>3. Fn(h, k + 1)
    BY <2>2
  <2> HIDE DEF h
  <2> QED BY <2>3
<1> HIDE DEF T
<1>3. n \in T
  BY <1>1, <1>2, SetInduction
<1> QED BY <1>3 DEF T

\* What the parser makes of each prefix of a file.
Reading(g, p, lines) ==
    /\ g[0] = p /\ g[Len(lines)] = ReadAll(p, lines)
    /\ \A k \in 1 .. Len(lines) : g[k] = After(g[k - 1], lines[k])

LEMMA ReadAllSteps ==
    ASSUME NEW p, NEW lines, Len(lines) \in Nat, DOMAIN lines = 1 .. Len(lines)
    PROVE  \E g : Reading(g, p, lines)
<1> DEFINE n == Len(lines)
<1>a. n \in Nat /\ DOMAIN lines = 1 .. n
  OBVIOUS
<1> HIDE DEF n
<1>0. IsReadIter(ReadIter(p, lines, n), p, lines, n)
  <2>1. \E it : IsReadIter(it, p, lines, n)
    BY <1>a, ReadIterFn
  <2>2. ReadIter(p, lines, n) = CHOOSE it : IsReadIter(it, p, lines, n)
    BY Zenon DEF ReadIter, IsReadIter
  <2> QED BY <2>1, <2>2, Zenon
<1> DEFINE it == ReadIter(p, lines, n)
           f == [k \in 0 .. n |-> it[1 .. k]]
<1>1. it = [s \in SUBSET (1 .. n) |->
                        IF s = {} THEN p ELSE After(it[s \ {Max(s)}], lines[Max(s)])]
  BY <1>0, Zenon DEF IsReadIter
<1> HIDE DEF it
<1> USE <1>a
<1>2. f[0] = p
  <2>1. 1 .. 0 = {} /\ {} \in SUBSET (1 .. n)
    OBVIOUS
  <2> QED BY <1>1, <2>1
<1>3. ASSUME NEW k \in 1 .. n PROVE f[k] = After(f[k - 1], lines[k])
  <2>1. 1 .. k \in SUBSET (1 .. n) /\ 1 .. k # {} /\ k - 1 \in Nat /\ k \in 1 .. k
    OBVIOUS
  <2>2. Max(1 .. k) = k
    <3>1. 1 .. k \in SUBSET (1 .. (k - 1) + 1) /\ (k - 1) + 1 \in 1 .. k /\ (k - 1) + 1 = k
      OBVIOUS
    <3> QED BY <2>1, <3>1, MaxNew
  <2>3. (1 .. k) \ {k} = 1 .. k - 1
    OBVIOUS
  <2>4. it[1 .. k] = After(it[(1 .. k) \ {Max(1 .. k)}], lines[Max(1 .. k)])
    BY <1>1, <2>1
  <2>5. it[1 .. k] = After(it[1 .. k - 1], lines[k])
    BY <2>2, <2>3, <2>4
  <2>6. f[k] = it[1 .. k] /\ f[k - 1] = it[1 .. k - 1]
    OBVIOUS
  <2> QED BY <2>5, <2>6
<1>4. f[n] = ReadAll(p, lines)
  BY <1>a, ReadIterIs DEF it
<1> HIDE DEF f
<1>5. Reading(f, p, lines)
  BY <1>2, <1>3, <1>4 DEF Reading, n
<1> QED BY <1>5

-----------------------------------------------------------------------------
(* Parsing does not look at the settings of NotReset but to set them *)

ParseFields == {"fw", "conf", "active", "trgBit", "streamEb", "res"}

\* Two states of the parser that differ in the settings of NotReset only.
Alike(f, p, q) ==
    /\ DOMAIN p = ParseFields /\ DOMAIN q = ParseFields
    /\ p.fw = f /\ q.fw = f /\ p.active = q.active /\ p.trgBit = q.trgBit
    /\ p.streamEb = q.streamEb /\ p.res = q.res
    /\ DOMAIN p.conf = Slots[f] /\ DOMAIN q.conf = Slots[f]
    /\ \A s \in Slots[f] \ NotReset : p.conf[s] = q.conf[s]

LEMMA AlikeError ==
    ASSUME NEW f, NEW p, NEW q, NEW l, Alike(f, p, q)
    PROVE  /\ Error(p, l) = Error(q, l) /\ Target(p, l) = Target(q, l)
           /\ Selected(p, l) = Selected(q, l)
<1>1. p.fw = q.fw /\ p.trgBit = q.trgBit /\ p.streamEb = q.streamEb
  BY DEF Alike
<1> QED BY <1>1 DEF Error, Target, Selected

LEMMA FamilyTypes ==
    ASSUME NEW f \in Firmwares, NEW s \in Slots[f]
    PROVE  \E fam \in DOMAIN Keys : \E k \in Keys[fam] : \E i \in 0 .. k[2] - 1 :
                fam \in Families(f) /\ s = <<fam, k[1], i>>
<1>1. PICK fam \in Families(f) : s \in OfFamily(fam)
  BY DEF Slots
<1>2. fam \in DOMAIN Keys
  BY <1>1, FirmwaresAssumption DEF Families, Keys, HpsFamilies
<1>3. PICK k \in Keys[fam] : s \in {<<fam, k[1], i>> : i \in 0 .. k[2] - 1}
  BY <1>1 DEF OfFamily
<1> QED BY <1>1, <1>2, <1>3

LEMMA SelectNotKnown ==
    ASSUME NEW f \in Firmwares
    PROVE  /\ TrgSelect \notin Known[f] /\ EbSelect \notin Known[f]
           /\ \A key \in TrgLines : key \notin Known[f]
<1> SUFFICES ASSUME NEW s \in Slots[f], KeyOf(s) \in TrgLines \union {TrgSelect, EbSelect}
             PROVE  FALSE
  BY DEF Known
<1>1. PICK fam \in DOMAIN Keys : \E k \in Keys[fam] : \E i \in 0 .. k[2] - 1 : s = <<fam, k[1], i>>
  BY FamilyTypes
<1>1a. PICK k \in Keys[fam] : \E i \in 0 .. k[2] - 1 : s = <<fam, k[1], i>>
  BY <1>1
<1>2. KeyOf(s) = <<fam, k[1]>>
  BY <1>1a DEF KeyOf
<1>3. CASE fam = "GT"
  <2>1. k \in GtKeys /\ k[1] \in {"TRG", "TRGBIT", "TRGBIT2"}
    BY <1>2, <1>3 DEF Keys, TrgLines, TrgSelect, EbSelect
  <2> QED BY <2>1 DEF GtKeys, GtRowKeys
<1>4. CASE fam = "STREAMING"
  <2>1. k \in StreamingKeys /\ k[1] = "EB"
    BY <1>2, <1>4 DEF Keys, TrgLines, TrgSelect, EbSelect
  <2> QED BY <2>1 DEF StreamingKeys, StreamRowKeys
<1> QED BY <1>2, <1>3, <1>4 DEF TrgLines, TrgSelect, EbSelect

LEMMA AlikeSetting ==
    ASSUME NEW f \in Firmwares, NEW p, NEW q, NEW l, Alike(f, p, q)
    PROVE  Alike(f, Setting(p, l), Setting(q, l))
<1>1. /\ Error(p, l) = Error(q, l) /\ Target(p, l) = Target(q, l)
      /\ Selected(p, l) = Selected(q, l) /\ p.fw = f /\ q.fw = f
  BY AlikeError DEF Alike
<1> USE SelectNotKnown DEF TrgSelect, EbSelect, TrgLines
<1>2. CASE l.key = TrgSelect
  <2>1. /\ Setting(p, l) = [p EXCEPT !.trgBit = Selected(p, l)]
        /\ Setting(q, l) = [q EXCEPT !.trgBit = Selected(q, l)]
    BY <1>1, <1>2 DEF Setting
  <2> QED BY <1>1, <2>1 DEF Alike, ParseFields
<1>3. CASE l.key = EbSelect /\ Error(p, l) = 0 /\ l.key # TrgSelect
  <2>1. /\ Setting(p, l) = [p EXCEPT !.streamEb = Given(l, 1)]
        /\ Setting(q, l) = [q EXCEPT !.streamEb = Given(l, 1)]
    BY <1>1, <1>3 DEF Setting
  <2> QED BY <2>1 DEF Alike, ParseFields
<1>4. CASE l.key \in TrgLines /\ Error(p, l) = 0 /\ l.key # TrgSelect /\ l.key # EbSelect
  <2>1. /\ Setting(p, l) = [p EXCEPT !.conf = TrgBitLine(l, p.conf)]
        /\ Setting(q, l) = [q EXCEPT !.conf = TrgBitLine(l, q.conf)]
    BY <1>1, <1>4 DEF Setting
  <2>2. /\ DOMAIN TrgBitLine(l, p.conf) = Slots[f] /\ DOMAIN TrgBitLine(l, q.conf) = Slots[f]
        /\ \A s \in Slots[f] \ NotReset : TrgBitLine(l, p.conf)[s] = TrgBitLine(l, q.conf)[s]
    BY DEF TrgBitLine, Alike
  <2> QED BY <2>1, <2>2 DEF Alike, ParseFields
<1>5. CASE /\ l.key \in Known[f] /\ Error(p, l) = 0
           /\ l.key # TrgSelect /\ l.key # EbSelect /\ l.key \notin TrgLines
  <2> DEFINE s == Target(p, l)
  <2>1. /\ Setting(p, l) = [p EXCEPT !.conf[s] = Stored(l, @)]
        /\ Setting(q, l) = [q EXCEPT !.conf[s] = Stored(l, @)]
    BY <1>1, <1>5 DEF Setting
  <2> HIDE DEF s
  <2> QED BY <2>1 DEF Alike, ParseFields
<1>6. CASE Setting(p, l) = p /\ Setting(q, l) = q
  BY <1>6
<1>7. \/ l.key = TrgSelect
      \/ l.key = EbSelect /\ Error(p, l) = 0 /\ l.key # TrgSelect
      \/ l.key \in TrgLines /\ Error(p, l) = 0 /\ l.key # TrgSelect /\ l.key # EbSelect
      \/ /\ l.key \in Known[f] /\ Error(p, l) = 0
         /\ l.key # TrgSelect /\ l.key # EbSelect /\ l.key \notin TrgLines
      \/ Setting(p, l) = p /\ Setting(q, l) = q
  BY <1>1 DEF Setting
<1> QED BY <1>2, <1>3, <1>4, <1>5, <1>6, <1>7

LEMMA AlikeStep ==
    ASSUME NEW f \in Firmwares, NEW p, NEW q, NEW l, Alike(f, p, q)
    PROVE  Alike(f, Step(p, l), Step(q, l))
<1>1. Alike(f, Setting(p, l), Setting(q, l)) /\ Error(p, l) = Error(q, l)
  BY AlikeSetting, AlikeError
<1>2. p.active = q.active
  BY DEF Alike
<1>3. CASE l.key = <<"VTP", "CRATE">>
  <2>1. /\ Step(p, l) = [p EXCEPT !.active = l.vals[1] \in {"host", "all"}]
        /\ Step(q, l) = [q EXCEPT !.active = l.vals[1] \in {"host", "all"}]
    BY <1>3 DEF Step
  <2> QED BY <2>1 DEF Alike, ParseFields
<1>4. CASE p.active /\ l.key # <<"VTP", "CRATE">>
  <2>1. /\ Step(p, l) = [Setting(p, l) EXCEPT !.res = Error(p, l)]
        /\ Step(q, l) = [Setting(q, l) EXCEPT !.res = Error(q, l)]
    BY <1>2, <1>4 DEF Step
  <2> QED BY <1>1, <2>1 DEF Alike, ParseFields
<1>5. CASE ~p.active /\ l.key # <<"VTP", "CRATE">>
  <2>1. Step(p, l) = p /\ Step(q, l) = q
    BY <1>2, <1>5 DEF Step
  <2> QED BY <2>1
<1> QED BY <1>3, <1>4, <1>5

LEMMA ReadingStops ==
    ASSUME NEW g, NEW p, NEW lines, Len(lines) \in Nat, Reading(g, p, lines),
           NEW k \in 0 .. Len(lines), g[k].res # 0
    PROVE  ReadAll(p, lines) = g[k]
<1> DEFINE T == {j \in Nat : j >= k => g[j] = g[k]}
<1>1. 0 \in T
  OBVIOUS
<1>2. ASSUME NEW j \in 0 .. Len(lines) - 1, j \in T PROVE j + 1 \in T
  <2>1. j + 1 \in 1 .. Len(lines) /\ (j + 1) - 1 = j
    OBVIOUS
  <2>2. g[j + 1] = After(g[j], lines[j + 1])
    BY <2>1 DEF Reading
  <2>3. CASE j >= k
    <3>1. g[j] = g[k]
      BY <1>2, <2>3
    <3>2. g[j + 1] = g[k]
      BY <2>2, <3>1 DEF After
    <3> QED BY <3>2
  <2>4. CASE ~(j >= k)
    BY <2>4
  <2> QED BY <2>3, <2>4
<1> HIDE DEF T
<1>3. \A j \in 0 .. Len(lines) : j \in T
  BY <1>1, <1>2, SetInduction, Zenon
<1>4. Len(lines) \in T
  BY <1>3
<1> QED BY <1>4 DEF T, Reading

LEMMA FileType ==
    ASSUME case \in Scenarios, run \in 1 .. Len(case.files)
    PROVE  /\ fw \in Firmwares /\ Len(case.files) \in Nat \ {0}
           /\ Len(File) \in Nat /\ DOMAIN File = 1 .. Len(File)
           /\ File \in Seq({File[j] : j \in 1 .. Len(File)})
           /\ \A j \in 1 .. Len(File) : LineOK(fw, File[j])
<1>1. /\ Len(File) \in Nat /\ File = [j \in 1 .. Len(File) |-> File[j]]
      /\ \A j \in 1 .. Len(File) : LineOK(fw, File[j])
  BY ScenariosAssumption DEF File, fw
<1>2. fw \in Firmwares /\ Len(case.files) \in Nat \ {0}
  BY ScenariosAssumption DEF fw
<1> DEFINE S == {File[j] : j \in 1 .. Len(File)}
           n == Len(File)
<1>3. [j \in 1 .. n |-> File[j]] \in Seq(S)
  <2>1. n \in Nat /\ \A j \in 1 .. n : File[j] \in S
    BY <1>1
  <2> HIDE DEF S, n
  <2> QED BY <2>1
<1> QED BY <1>1, <1>2, <1>3

LEMMA TailOf ==
    ASSUME NEW S, NEW q \in Seq(S), NEW k \in 0 .. Len(q), SubSeq(q, k + 1, Len(q)) # <<>>
    PROVE  /\ k + 1 \in 1 .. Len(q) /\ Head(SubSeq(q, k + 1, Len(q))) = q[k + 1]
           /\ Tail(SubSeq(q, k + 1, Len(q))) = SubSeq(q, k + 2, Len(q))
<1>1. k + 1 \in 1 .. Len(q)
  OBVIOUS
<1>2. Head(SubSeq(q, k + 1, Len(q))) = q[k + 1]
  BY <1>1
<1>3. Tail(SubSeq(q, k + 1, Len(q))) = SubSeq(q, k + 2, Len(q))
  BY <1>1
<1> QED BY <1>1, <1>2, <1>3

LEMMA WholeOf == ASSUME NEW S, NEW q \in Seq(S) PROVE q = SubSeq(q, 1, Len(q))
OBVIOUS

LEMMA EmptyOf ==
    ASSUME NEW S, NEW q \in Seq(S), NEW k \in 0 .. Len(q), SubSeq(q, k + 1, Len(q)) = <<>>
    PROVE  k = Len(q)
OBVIOUS

-----------------------------------------------------------------------------
(* OnlyThisFile *)

PcOK == pc \in {"idle", "read", "download", "upload", "done"}
CaseOK ==
    /\ case \in Scenarios /\ run \in 1 .. Len(case.files)
    /\ DOMAIN parse = ParseFields /\ parse.fw = fw /\ DOMAIN parse.conf = Slots[fw]
\* While the file is read, the parser is where it would be had it started from
\* the defaults.
ReadInv ==
    pc = "read" =>
        /\ parse.res = 0
        /\ \E t \in Garbage, k \in 0 .. Len(File) : \E g :
            /\ Reading(g, Start(fw, Defaults[fw], t), File)
            /\ rest = SubSeq(File, k + 1, Len(File)) /\ Alike(fw, parse, g[k])
FileInv == PcOK /\ CaseOK /\ ReadInv /\ OnlyThisFile

LEMMA FileInit == Init => FileInv
<1> SUFFICES ASSUME Init PROVE FileInv
  OBVIOUS
<1>1. case \in Scenarios /\ run = 1 /\ Len(case.files) \in Nat \ {0}
  BY ScenariosAssumption DEF Init
<1>2. CaseOK
  BY <1>1 DEF Init, CaseOK, Start, ParseFields
<1> QED BY <1>2 DEF Init, FileInv, PcOK, ReadInv, OnlyThisFile

LEMMA StartAlike ==
    ASSUME NEW f \in Firmwares, NEW conf, NEW t
    PROVE  Alike(f, Start(f, InitGlobals(f, conf), t), Start(f, Defaults[f], t))
BY DEF Alike, Start, ParseFields, InitGlobals, Defaults

\* A line that is read takes the parser from one prefix of the file to the next.
LEMMA FileReadLine == ASSUME FileInv, ReadLine PROVE FileInv'
<1> USE DEF FileInv
<1>1. /\ fw' = fw /\ File' = File /\ case' = case /\ run' = run
  BY DEF ReadLine, fw, File
<1>2. PICK t \in Garbage, k \in 0 .. Len(File) : \E g :
            /\ Reading(g, Start(fw, Defaults[fw], t), File)
            /\ rest = SubSeq(File, k + 1, Len(File)) /\ Alike(fw, parse, g[k])
  BY DEF ReadInv, ReadLine
<1>3. PICK g : /\ Reading(g, Start(fw, Defaults[fw], t), File)
               /\ rest = SubSeq(File, k + 1, Len(File)) /\ Alike(fw, parse, g[k])
  BY <1>2
<1>4. /\ fw \in Firmwares /\ Len(File) \in Nat
      /\ File \in Seq({File[j] : j \in 1 .. Len(File)})
  BY FileType DEF CaseOK
<1>5. /\ k + 1 \in 1 .. Len(File) /\ Head(rest) = File[k + 1]
      /\ Tail(rest) = SubSeq(File, k + 2, Len(File))
  BY <1>3, <1>4, TailOf DEF ReadLine
<1>6. parse' = Step(parse, File[k + 1]) /\ rest' = Tail(rest)
      /\ pc' = IF parse'.res = 0 THEN "read" ELSE "download"
  BY <1>5 DEF ReadLine
<1>7. g[k + 1] = Step(g[k], File[k + 1])
  <2>1. g[k].res = 0
    BY <1>3 DEF Alike, ReadInv, ReadLine
  <2>2. (k + 1) - 1 = k
    OBVIOUS
  <2> QED BY <1>3, <1>5, <2>1, <2>2 DEF Reading, After
<1>8. Alike(fw, parse', g[k + 1])
  BY <1>3, <1>4, <1>6, <1>7, AlikeStep
<1>9. CaseOK'
  BY <1>1, <1>8 DEF CaseOK, Alike
<1>10. ReadInv'
  <2>1. k + 1 \in 0 .. Len(File) /\ (k + 1) + 1 = k + 2
    BY <1>5
  <2>2. rest' = SubSeq(File, (k + 1) + 1, Len(File))
    BY <1>5, <1>6, <2>1
  <2>3. pc' = "read" => parse'.res = 0
    BY <1>6
  <2> QED BY <1>1, <1>3, <1>8, <2>1, <2>2, <2>3, Zenon DEF ReadInv
<1>11. OnlyThisFile'
  <2>1. SUFFICES ASSUME parse'.res # 0
                 PROVE  \A s \in Slots[fw] \ NotReset :
                            parse'.conf[s] = ReadAll(Start(fw, Defaults[fw], t), File).conf[s]
    BY <1>1, <1>6, Zenon DEF OnlyThisFile
  <2>2. g[k + 1].res # 0
    BY <1>8, <2>1 DEF Alike
  <2>3. ReadAll(Start(fw, Defaults[fw], t), File) = g[k + 1]
    <3>1. k + 1 \in 0 .. Len(File) /\ Len(File) \in Nat
      BY <1>4, <1>5
    <3>2. Reading(g, Start(fw, Defaults[fw], t), File)
      BY <1>3
    <3> QED BY <2>2, <3>1, <3>2, ReadingStops
  <2> QED BY <1>8, <2>3 DEF Alike
<1>12. PcOK'
  BY <1>6 DEF PcOK
<1> QED BY <1>9, <1>10, <1>11, <1>12

LEMMA FileNext == ASSUME FileInv, [Next]_vars PROVE FileInv'
<1> USE DEF FileInv
<1>0. fw \in Firmwares /\ Len(File) \in Nat /\ DOMAIN File = 1 .. Len(File)
      /\ File \in Seq({File[j] : j \in 1 .. Len(File)}) /\ Len(case.files) \in Nat
  BY FileType DEF CaseOK
<1>1. CASE Prestart
  <2>1. PICK t \in Garbage : parse' = Start(fw, InitGlobals(fw, parse.conf), t)
    BY <1>1 DEF Prestart
  <2>2. /\ fw' = fw /\ File' = File /\ case' = case /\ run' = run /\ pc' = "read" /\ rest' = File
    BY <1>1 DEF Prestart, fw, File
  <2>3. Alike(fw, parse', Start(fw, Defaults[fw], t))
    BY <1>0, <2>1, StartAlike
  <2>4. CaseOK'
    BY <2>2, <2>3 DEF CaseOK, Alike
  <2>5. PICK g : Reading(g, Start(fw, Defaults[fw], t), File)
    BY <1>0, ReadAllSteps
  <2>6. Alike(fw, parse', g[0]) /\ parse'.res = 0
    BY <2>1, <2>3, <2>5 DEF Reading, Start
  <2>7. 0 \in 0 .. Len(File) /\ rest' = SubSeq(File, 0 + 1, Len(File))
    BY <1>0, <2>2, WholeOf
  <2>8. ReadInv'
    BY <2>2, <2>5, <2>6, <2>7, Zenon DEF ReadInv
  <2> QED BY <2>2, <2>4, <2>8 DEF PcOK, OnlyThisFile
<1>2. CASE NoFile
  <2>1. PICK e \in {-1, -2} : parse' = [Start(fw, InitGlobals(fw, parse.conf), -1) EXCEPT !.res = e]
    BY <1>2 DEF NoFile
  <2>2. /\ fw' = fw /\ File' = File /\ case' = case /\ run' = run /\ pc' = "download"
    BY <1>2 DEF NoFile, fw, File
  <2>3. Alike(fw, Start(fw, InitGlobals(fw, parse.conf), -1), Start(fw, Defaults[fw], -1))
    BY <1>0, StartAlike
  <2>4. /\ DOMAIN parse' = ParseFields /\ parse'.fw = fw /\ DOMAIN parse'.conf = Slots[fw]
        /\ parse'.res = e /\ \A s \in Slots[fw] \ NotReset : parse'.conf[s] = Defaults[fw][s]
    BY <2>1, <2>3 DEF Alike, Start, ParseFields
  <2> QED BY <2>2, <2>4 DEF CaseOK, PcOK, ReadInv, OnlyThisFile
<1>3. CASE ReadLine
  BY <1>3, FileReadLine
<1>4. CASE EndOfFile
  <2>1. PICK t \in Garbage, k \in 0 .. Len(File) : \E g :
            /\ Reading(g, Start(fw, Defaults[fw], t), File)
            /\ rest = SubSeq(File, k + 1, Len(File)) /\ Alike(fw, parse, g[k])
    BY <1>4 DEF ReadInv, EndOfFile
  <2>2. PICK g : /\ Reading(g, Start(fw, Defaults[fw], t), File)
                 /\ rest = SubSeq(File, k + 1, Len(File)) /\ Alike(fw, parse, g[k])
    BY <2>1
  <2>3. k = Len(File)
    BY <1>0, <1>4, <2>2, EmptyOf DEF EndOfFile
  <2>4. ReadAll(Start(fw, Defaults[fw], t), File) = g[k]
    BY <2>2, <2>3 DEF Reading
  <2>5. /\ fw' = fw /\ File' = File /\ case' = case /\ run' = run /\ parse' = parse
        /\ pc' = "download"
    BY <1>4 DEF EndOfFile, fw, File
  <2>6. \A s \in Slots[fw] \ NotReset :
            parse.conf[s] = ReadAll(Start(fw, Defaults[fw], t), File).conf[s]
    BY <2>2, <2>4 DEF Alike
  <2> QED BY <2>5, <2>6 DEF CaseOK, PcOK, ReadInv, OnlyThisFile
<1>5. CASE Download
  BY <1>5 DEF Download, CaseOK, PcOK, ReadInv, OnlyThisFile, fw
<1>6. CASE Upload
  <2>1. /\ parse' = [parse EXCEPT !.conf = UploadTo(fw, regs, parse.conf)]
        /\ fw' = fw /\ case' = case /\ run' = run /\ pc' = "done"
    BY <1>6 DEF Upload, fw
  <2>2. DOMAIN UploadTo(fw, regs, parse.conf) = Slots[fw]
    BY DEF UploadTo
  <2> QED BY <2>1, <2>2 DEF CaseOK, ParseFields, PcOK, ReadInv, OnlyThisFile
<1>7. CASE NextRun
  <2>1. /\ fw' = fw /\ case' = case /\ run' = run + 1 /\ pc' = "idle" /\ parse' = parse
        /\ run < Len(case.files)
    BY <1>7 DEF NextRun, fw
  <2> QED BY <1>0, <2>1 DEF CaseOK, PcOK, ReadInv, OnlyThisFile
<1>8. CASE SkipForEver \/ Done \/ UNCHANGED vars
  <2>1. UNCHANGED vars
    BY <1>8 DEF SkipForEver, Done
  <2> QED BY <2>1 DEF vars, CaseOK, PcOK, ReadInv, OnlyThisFile, fw, File
<1> QED BY <1>1, <1>2, <1>3, <1>4, <1>5, <1>6, <1>7, <1>8 DEF Next

\* vtpDownloadAll writes what this file says: the settings are those that
\* vtpReadConfigFile makes of the defaults, whatever an earlier file set or
\* vtpUploadAll read back.
THEOREM OnlyThisFileCorrect == Spec => []OnlyThisFile
<1>1. Init => FileInv
  BY FileInit
<1>2. FileInv /\ [Next]_vars => FileInv'
  BY FileNext
<1>3. FileInv => OnlyThisFile
  BY DEF FileInv
<1> QED BY <1>1, <1>2, <1>3, PTL DEF Spec

-----------------------------------------------------------------------------
(* Numbers and their bits *)

LEMMA Power ==
    ASSUME NEW i \in 0 .. 31
    PROVE  2^i \in Nat \ {0} /\ 2^(i + 1) = 2 * 2^i
<1>0. CASE i = 0  BY <1>0
<1>1. CASE i = 1  BY <1>1
<1>2. CASE i = 2  BY <1>2
<1>3. CASE i = 3  BY <1>3
<1>4. CASE i = 4  BY <1>4
<1>5. CASE i = 5  BY <1>5
<1>6. CASE i = 6  BY <1>6
<1>7. CASE i = 7  BY <1>7
<1>8. CASE i = 8  BY <1>8
<1>9. CASE i = 9  BY <1>9
<1>10. CASE i = 10  BY <1>10
<1>11. CASE i = 11  BY <1>11
<1>12. CASE i = 12  BY <1>12
<1>13. CASE i = 13  BY <1>13
<1>14. CASE i = 14  BY <1>14
<1>15. CASE i = 15  BY <1>15
<1>16. CASE i = 16  BY <1>16
<1>17. CASE i = 17  BY <1>17
<1>18. CASE i = 18  BY <1>18
<1>19. CASE i = 19  BY <1>19
<1>20. CASE i = 20  BY <1>20
<1>21. CASE i = 21  BY <1>21
<1>22. CASE i = 22  BY <1>22
<1>23. CASE i = 23  BY <1>23
<1>24. CASE i = 24  BY <1>24
<1>25. CASE i = 25  BY <1>25
<1>26. CASE i = 26  BY <1>26
<1>27. CASE i = 27  BY <1>27
<1>28. CASE i = 28  BY <1>28
<1>29. CASE i = 29  BY <1>29
<1>30. CASE i = 30  BY <1>30
<1>31. CASE i = 31  BY <1>31
<1> QED BY <1>0, <1>1, <1>2, <1>3, <1>4, <1>5, <1>6, <1>7, <1>8, <1>9, <1>10, <1>11, <1>12, <1>13, <1>14, <1>15, <1>16, <1>17, <1>18, <1>19, <1>20, <1>21, <1>22, <1>23, <1>24, <1>25, <1>26, <1>27, <1>28, <1>29, <1>30, <1>31

LEMMA WordFinite == ASSUME NEW S \in SUBSET Word
                    PROVE  IsFiniteSet(S) /\ Cardinality(S) \in 0 .. 32
<1>1. IsFiniteSet(0 .. 31) /\ Cardinality(0 .. 31) = IF 0 > 31 THEN 0 ELSE 31 - 0 + 1
  <2>1. 0 \in Int /\ 31 \in Int
    OBVIOUS
  <2> QED BY <2>1, FS_Interval, Zenon
<1>2. Cardinality(0 .. 31) = 32
  BY <1>1
<1>3. Word = 0 .. 31
  BY DEF Word
<1>4. IsFiniteSet(S) /\ Cardinality(S) <= Cardinality(Word)
  BY <1>1, <1>3, FS_Subset, Zenon
<1>5. Cardinality(S) \in Nat
  BY <1>4, FS_CardinalityType, Zenon
<1> QED BY <1>2, <1>3, <1>4, <1>5

LEMMA WithoutOne ==
    ASSUME NEW S \in SUBSET Word, NEW x \in S
    PROVE  /\ S \ {x} \in SUBSET Word /\ Cardinality(S) \in Nat \ {0}
           /\ Cardinality(S \ {x}) = Cardinality(S) - 1
<1>1. IsFiniteSet(S) /\ Cardinality(S) \in Nat
  BY WordFinite
<1>2. IsFiniteSet(S \ {x}) /\ Cardinality(S \ {x}) = Cardinality(S) - 1
  BY <1>1, FS_RemoveElement
<1>3. Cardinality(S \ {x}) \in Nat
  BY <1>2, FS_CardinalityType
<1> QED BY <1>1, <1>2, <1>3

OneOf(s) == CHOOSE x \in s : TRUE
IsSum(it, C) ==
    it = [s \in C |-> IF s = {} THEN 0 ELSE 2^OneOf(s) + it[s \ {OneOf(s)}]]
Sum(S) == CHOOSE it : IsSum(it, SUBSET S)
Small(S, k) == {s \in SUBSET S : Cardinality(s) <= k}

LEMMA OneOfIn == ASSUME NEW s, s # {} PROVE OneOf(s) \in s
BY Zenon DEF OneOf

LEMMA NumIs == ASSUME NEW S PROVE Num(S) = Sum(S)[S]
BY Zenon DEF Num, MapThenSumSet, MapThenFoldSet, IsSum, Sum, OneOf

LEMMA SmallSets ==
    ASSUME NEW S \in SUBSET Word, NEW s \in SUBSET S
    PROVE  /\ Cardinality(s) \in 0 .. 32 /\ (Cardinality(s) <= 0 => s = {})
           /\ Cardinality({}) = 0 /\ {} \in SUBSET S
           /\ s # {} => /\ OneOf(s) \in s /\ s \ {OneOf(s)} \in SUBSET S
                        /\ Cardinality(s \ {OneOf(s)}) = Cardinality(s) - 1
<1>1. IsFiniteSet(s) /\ Cardinality(s) \in 0 .. 32
  BY WordFinite
<1>2. s # {} => OneOf(s) \in s
  BY OneOfIn
<1>3. s # {} => Cardinality(s \ {OneOf(s)}) = Cardinality(s) - 1
  BY <1>2, WithoutOne
<1>4. Cardinality(s) = 0 => s = {}
  BY <1>1, FS_EmptySet
<1>5. Cardinality({}) = 0
  BY FS_EmptySet
<1> QED BY <1>1, <1>2, <1>3, <1>4, <1>5

LEMMA SmallAll == ASSUME NEW S \in SUBSET Word PROVE Small(S, 32) = SUBSET S
<1>1. \A s \in SUBSET S : Cardinality(s) <= 32
  <2>1. SUFFICES ASSUME NEW s \in SUBSET S PROVE Cardinality(s) <= 32
    OBVIOUS
  <2>2. Cardinality(s) \in 0 .. 32
    BY WordFinite
  <2> QED BY <2>2
<1> QED BY <1>1 DEF Small

\* The recursive function of the sum exists.
LEMMA SumExists == ASSUME NEW S \in SUBSET Word PROVE \E it : IsSum(it, SUBSET S)
<1> DEFINE T == {k \in Nat : \E it : IsSum(it, Small(S, k))}
<1>1. 0 \in T
  <2>1. \A s \in Small(S, 0) : s = {}
    BY SmallSets DEF Small
  <2>2. IsSum([s \in Small(S, 0) |-> 0], Small(S, 0))
    BY <2>1 DEF IsSum
  <2> QED BY <2>2
<1>2. ASSUME NEW k \in 0 .. 32 - 1, k \in T PROVE k + 1 \in T
  <2>1. PICK g : IsSum(g, Small(S, k))
    BY <1>2
  <2> DEFINE h == [s \in Small(S, k + 1) |->
                    IF s \in Small(S, k) THEN g[s] ELSE 2^OneOf(s) + g[s \ {OneOf(s)}]]
  <2>2. ASSUME NEW s \in Small(S, k + 1)
        PROVE  h[s] = IF s = {} THEN 0 ELSE 2^OneOf(s) + h[s \ {OneOf(s)}]
    <3>0. s \in SUBSET S /\ Cardinality(s) <= k + 1
      BY DEF Small
    <3>1. s # {} => s \ {OneOf(s)} \in Small(S, k) /\ s \ {OneOf(s)} \in Small(S, k + 1)
      BY <3>0, SmallSets DEF Small
    <3>2. s # {} => h[s \ {OneOf(s)}] = g[s \ {OneOf(s)}]
      BY <3>1
    <3>3. CASE s \in Small(S, k)
      <4>1. h[s] = g[s]
        BY <3>3
      <4>2. g[s] = IF s = {} THEN 0 ELSE 2^OneOf(s) + g[s \ {OneOf(s)}]
        BY <2>1, <3>3 DEF IsSum
      <4> HIDE DEF h
      <4> QED BY <3>2, <4>1, <4>2
    <3>4. CASE s \notin Small(S, k)
      <4>1. s # {}
        <5>1. Cardinality({}) = 0 /\ {} \in SUBSET S
          BY <3>0, SmallSets
        <5> QED BY <3>0, <3>4, <5>1 DEF Small
      <4>2. h[s] = 2^OneOf(s) + g[s \ {OneOf(s)}]
        BY <3>4
      <4> HIDE DEF h
      <4> QED BY <3>2, <4>1, <4>2
    <3> QED BY <3>3, <3>4
  <2>3. IsSum(h, Small(S, k + 1))
    BY <2>2 DEF IsSum
  <2> HIDE DEF h
  <2> QED BY <2>3
<1> HIDE DEF T
<1>3. 32 \in T
  BY <1>1, <1>2, SetInduction
<1>4. Small(S, 32) = SUBSET S
  BY SmallAll
<1> QED BY <1>3, <1>4 DEF T

LEMMA SumIs ==
    ASSUME NEW S \in SUBSET Word, NEW s \in SUBSET S
    PROVE  Sum(S)[s] = IF s = {} THEN 0 ELSE 2^OneOf(s) + Sum(S)[s \ {OneOf(s)}]
<1>1. IsSum(Sum(S), SUBSET S)
  BY SumExists, Zenon DEF Sum
<1> HIDE DEF Sum
<1> QED BY <1>1 DEF IsSum

LEMMA SumEmpty == ASSUME NEW S \in SUBSET Word PROVE Sum(S)[{}] = 0
<1>1. {} \in SUBSET S
  OBVIOUS
<1> QED BY <1>1, SumIs

\* One function for all sets of bits.
LEMMA SumAgrees ==
    ASSUME NEW S \in SUBSET Word
    PROVE  Num(S) = Sum(Word)[S] /\ Num(S) \in Nat
<1> DEFINE T == {k \in Nat : \A s \in Small(S, k) : Sum(S)[s] = Sum(Word)[s] /\ Sum(S)[s] \in Nat}
<1>1. 0 \in T
  <2>1. \A s \in Small(S, 0) : s = {}
    BY SmallSets DEF Small
  <2>2. Sum(S)[{}] = 0 /\ Sum(Word)[{}] = 0
    BY SumEmpty
  <2>3. \A s \in Small(S, 0) : Sum(S)[s] = Sum(Word)[s] /\ Sum(S)[s] \in Nat
    <3>1. SUFFICES ASSUME NEW s \in Small(S, 0)
                   PROVE  Sum(S)[s] = Sum(Word)[s] /\ Sum(S)[s] \in Nat
      OBVIOUS
    <3>2. s = {}
      BY <2>1
    <3>3. Sum(S)[s] = 0 /\ Sum(Word)[s] = 0
      BY <2>2, <3>2, Zenon
    <3> QED BY <3>3
  <2> QED BY <2>3
<1>2. ASSUME NEW k \in 0 .. 32 - 1, k \in T PROVE k + 1 \in T
  <2>1. SUFFICES ASSUME NEW s \in Small(S, k + 1), s # {}
                 PROVE  Sum(S)[s] = Sum(Word)[s] /\ Sum(S)[s] \in Nat
    <3>1. Sum(S)[{}] = 0 /\ Sum(Word)[{}] = 0
      BY SumEmpty
    <3> QED BY <3>1
  <2>2. s \in SUBSET S /\ s \ {OneOf(s)} \in Small(S, k) /\ OneOf(s) \in Word
    <3>1. s \in SUBSET S /\ Cardinality(s) <= k + 1
      BY DEF Small
    <3>2. /\ OneOf(s) \in s /\ s \ {OneOf(s)} \in SUBSET S
          /\ Cardinality(s) \in 0 .. 32 /\ Cardinality(s \ {OneOf(s)}) = Cardinality(s) - 1
      BY <2>1, <3>1, SmallSets, Zenon
    <3>3. Cardinality(s \ {OneOf(s)}) <= k
      BY <3>1, <3>2
    <3>4. s \ {OneOf(s)} \in Small(S, k)
      BY <3>2, <3>3, Zenon DEF Small
    <3>5. OneOf(s) \in Word
      BY <3>1, <3>2, Zenon
    <3> QED BY <3>1, <3>4, <3>5, Zenon
  <2>3. /\ Sum(S)[s] = 2^OneOf(s) + Sum(S)[s \ {OneOf(s)}]
        /\ Sum(Word)[s] = 2^OneOf(s) + Sum(Word)[s \ {OneOf(s)}]
    BY <2>1, <2>2, SumIs
  <2>4. 2^OneOf(s) \in Nat
    BY <2>2, Power DEF Word
  <2> QED BY <1>2, <2>2, <2>3, <2>4
<1> HIDE DEF T
<1>3. 32 \in T
  BY <1>1, <1>2, SetInduction
<1>4. S \in Small(S, 32)
  BY SmallAll
<1> QED BY <1>3, <1>4, NumIs DEF T

LEMMA NumEmpty == Num({}) = 0
BY SumAgrees, SumIs

\* A bit may be taken out of a sum in any order.
LEMMA NumTake ==
    ASSUME NEW S \in SUBSET Word, NEW x \in S
    PROVE  Num(S) = 2^x + Num(S \ {x})
<1> DEFINE N(s) == Sum(Word)[s]
           T == {k \in Nat : \A s \in Small(Word, k) : \A y \in s : N(s) = 2^y + N(s \ {y})}
<1> HIDE DEF N
<1>1. 0 \in T
  BY SmallSets DEF Small
<1>2. ASSUME NEW k \in 0 .. 32 - 1, k \in T PROVE k + 1 \in T
  <2>1. SUFFICES ASSUME NEW s \in Small(Word, k + 1), NEW y \in s PROVE N(s) = 2^y + N(s \ {y})
    OBVIOUS
  <2>2. /\ s \in SUBSET Word /\ s # {} /\ OneOf(s) \in s
        /\ Cardinality(s \ {OneOf(s)}) = Cardinality(s) - 1 /\ Cardinality(s \ {y}) = Cardinality(s) - 1
        /\ s \ {OneOf(s)} \in SUBSET Word /\ s \ {y} \in SUBSET Word /\ Cardinality(s) \in Nat
    BY OneOfIn, WithoutOne DEF Small
  <2>3. s \ {OneOf(s)} \in Small(Word, k) /\ s \ {y} \in Small(Word, k)
    BY <2>2 DEF Small
  <2>4. N(s) = 2^OneOf(s) + N(s \ {OneOf(s)})
    BY <2>2, SumIs DEF N
  <2>5. CASE y = OneOf(s)
    BY <2>4, <2>5
  <2>6. CASE y # OneOf(s)
    <3>1. N(s \ {OneOf(s)}) = 2^y + N((s \ {OneOf(s)}) \ {y})
      BY <1>2, <2>3, <2>6
    <3>2. N(s \ {y}) = 2^OneOf(s) + N((s \ {y}) \ {OneOf(s)})
      BY <1>2, <2>2, <2>3, <2>6
    <3>3. (s \ {OneOf(s)}) \ {y} = (s \ {y}) \ {OneOf(s)}
      OBVIOUS
    <3> DEFINE w == (s \ {y}) \ {OneOf(s)}
    <3>4. N(w) \in Nat /\ 2^y \in Nat /\ 2^OneOf(s) \in Nat
      <4>1. w \in SUBSET Word
        BY <2>2
      <4>2. N(w) \in Nat
        BY <4>1, SumAgrees DEF N
      <4>3. y \in 0 .. 31 /\ OneOf(s) \in 0 .. 31
        BY <2>2 DEF Word
      <4> QED BY <4>2, <4>3, Power
    <3>5. N(s) = 2^OneOf(s) + (2^y + N(w)) /\ N(s \ {y}) = 2^OneOf(s) + N(w)
      BY <2>4, <3>1, <3>2, <3>3
    <3> HIDE DEF w
    <3> QED BY <3>4, <3>5
  <2> QED BY <2>5, <2>6
<1> HIDE DEF T
<1>3. 32 \in T
  BY <1>1, <1>2, SetInduction
<1>4. S \in Small(Word, 32) /\ S \ {x} \in SUBSET Word
  BY SmallAll
<1>5. N(S) = 2^x + N(S \ {x})
  BY <1>3, <1>4 DEF T
<1> QED BY <1>4, <1>5, SumAgrees DEF N

LEMMA Halve ==
    ASSUME NEW v \in Nat, NEW i \in 0 .. 30
    PROVE  v \div 2^(i + 1) = (v \div 2^i) \div 2 /\ v \div 2^i \in Nat
<1>0. CASE i = 0
  BY <1>0
<1>1. CASE i = 1
  BY <1>1
<1>2. CASE i = 2
  BY <1>2
<1>3. CASE i = 3
  BY <1>3
<1>4. CASE i = 4
  BY <1>4
<1>5. CASE i = 5
  BY <1>5
<1>6. CASE i = 6
  BY <1>6
<1>7. CASE i = 7
  BY <1>7
<1>8. CASE i = 8
  BY <1>8
<1>9. CASE i = 9
  BY <1>9
<1>10. CASE i = 10
  BY <1>10
<1>11. CASE i = 11
  BY <1>11
<1>12. CASE i = 12
  BY <1>12
<1>13. CASE i = 13
  BY <1>13
<1>14. CASE i = 14
  BY <1>14
<1>15. CASE i = 15
  BY <1>15
<1>16. CASE i = 16
  BY <1>16
<1>17. CASE i = 17
  BY <1>17
<1>18. CASE i = 18
  BY <1>18
<1>19. CASE i = 19
  BY <1>19
<1>20. CASE i = 20
  BY <1>20
<1>21. CASE i = 21
  BY <1>21
<1>22. CASE i = 22
  BY <1>22
<1>23. CASE i = 23
  BY <1>23
<1>24. CASE i = 24
  BY <1>24
<1>25. CASE i = 25
  BY <1>25
<1>26. CASE i = 26
  BY <1>26
<1>27. CASE i = 27
  BY <1>27
<1>28. CASE i = 28
  BY <1>28
<1>29. CASE i = 29
  BY <1>29
<1>30. CASE i = 30
  BY <1>30
<1> QED BY <1>0, <1>1, <1>2, <1>3, <1>4, <1>5, <1>6, <1>7, <1>8, <1>9, <1>10, <1>11, <1>12, <1>13, <1>14, <1>15, <1>16, <1>17, <1>18, <1>19, <1>20, <1>21, <1>22, <1>23, <1>24, <1>25, <1>26, <1>27, <1>28, <1>29, <1>30

LEMMA Twice ==
    ASSUME NEW p \in Nat, NEW q \in Nat, NEW b \in 0 .. 1, NEW h \in Nat, q = 2 * h + b
    PROVE  p * q = (2 * p) * h + b * p
<1>1. CASE b = 0
  BY <1>1
<1>2. CASE b = 1
  BY <1>2
<1> QED BY <1>1, <1>2

BitsBelow(v, k) == {i \in 0 .. k - 1 : (v \div 2^i) % 2 = 1}

LEMMA BitsBelowNext ==
    ASSUME NEW v \in Nat, NEW k \in 0 .. 30
    PROVE  Num(BitsBelow(v, k + 1)) =
                Num(BitsBelow(v, k)) + (IF (v \div 2^k) % 2 = 1 THEN 2^k ELSE 0)
<1>1. BitsBelow(v, k) \in SUBSET Word /\ BitsBelow(v, k + 1) \in SUBSET Word
  BY DEF BitsBelow, Word
<1>2. 2^k \in Nat /\ Num(BitsBelow(v, k)) \in Nat
  <2>1. k \in 0 .. 31
    OBVIOUS
  <2>2. 2^k \in Nat
    BY <2>1, Power
  <2>3. Num(BitsBelow(v, k)) \in Nat
    BY <1>1, SumAgrees
  <2> QED BY <2>2, <2>3
<1>3. CASE (v \div 2^k) % 2 = 1
  <2>1. k \in BitsBelow(v, k + 1)
    BY <1>3 DEF BitsBelow
  <2>2. BitsBelow(v, k + 1) \ {k} = BitsBelow(v, k)
    BY DEF BitsBelow
  <2> QED BY <1>1, <1>2, <1>3, <2>1, <2>2, NumTake
<1>4. CASE (v \div 2^k) % 2 # 1
  <2>1. ASSUME NEW i \in BitsBelow(v, k + 1) PROVE i \in BitsBelow(v, k)
    <3>1. i \in 0 .. k /\ (v \div 2^i) % 2 = 1
      BY DEF BitsBelow
    <3>2. i # k
      BY <1>4, <3>1, Zenon
    <3> QED BY <3>1, <3>2 DEF BitsBelow
  <2>2. BitsBelow(v, k) \subseteq BitsBelow(v, k + 1)
    BY DEF BitsBelow
  <2>3. BitsBelow(v, k + 1) = BitsBelow(v, k)
    BY <2>1, <2>2
  <2> QED BY <1>2, <1>4, <2>3
<1> QED BY <1>3, <1>4

\* The number made of the low bits of v.
LEMMA NumBelow ==
    ASSUME NEW v \in Nat, NEW k \in 0 .. 31
    PROVE  Num(BitsBelow(v, k)) = v - 2^k * (v \div 2^k)
<1> DEFINE T == {j \in Nat : Num(BitsBelow(v, j)) = v - 2^j * (v \div 2^j)}
<1>1. 0 \in T
  <2>1. BitsBelow(v, 0) = {} /\ 2^0 = 1 /\ v \div 1 = v
    BY DEF BitsBelow
  <2> QED BY <2>1, NumEmpty
<1>2. ASSUME NEW j \in 0 .. 31 - 1, j \in T PROVE j + 1 \in T
  <2> DEFINE q == v \div 2^j
             h == v \div 2^(j + 1)
             b == q % 2
             p == 2^j
  <2>0. j \in 0 .. 30 /\ j \in 0 .. 31
    OBVIOUS
  <2>a. p \in Nat \ {0} /\ 2^(j + 1) = 2 * p
    BY <2>0, Power
  <2>b. h = q \div 2 /\ q \in Nat
    BY <2>0, Halve
  <2>1. j \in 0 .. 30 /\ p \in Nat \ {0} /\ 2^(j + 1) = 2 * p /\ h = q \div 2 /\ q \in Nat
    BY <2>0, <2>a, <2>b
  <2>2. Num(BitsBelow(v, j)) = v - p * q
    BY <1>2
  <2>3. Num(BitsBelow(v, j + 1)) = Num(BitsBelow(v, j)) + (IF b = 1 THEN p ELSE 0)
    BY <2>1, BitsBelowNext
  <2> HIDE DEF q, h, p
  <2>4. b \in 0 .. 1 /\ h \in Nat /\ q = 2 * h + b
    BY <2>1
  <2> HIDE DEF b
  <2>5. p * q = (2 * p) * h + b * p
    BY <2>1, <2>4, Twice
  <2>6. Num(BitsBelow(v, j + 1)) = v - (2 * p) * h
    <3> DEFINE pq == p * q
               ph == (2 * p) * h
    <3>1. pq \in Nat /\ ph \in Nat
      BY <2>1, <2>4
    <3>2. Num(BitsBelow(v, j + 1)) = v - pq + (IF b = 1 THEN p ELSE 0)
      BY <2>2, <2>3
    <3>3. pq = ph + (IF b = 1 THEN p ELSE 0)
      BY <2>1, <2>4, <2>5
    <3> HIDE DEF pq, ph
    <3>4. Num(BitsBelow(v, j + 1)) = v - ph
      BY <2>1, <3>1, <3>2, <3>3
    <3> QED BY <3>4 DEF ph
  <2>7. Num(BitsBelow(v, j + 1)) = v - 2^(j + 1) * (v \div 2^(j + 1))
    BY <2>1, <2>6 DEF h
  <2> QED BY <2>1, <2>7
<1> HIDE DEF T
<1>3. \A j \in 0 .. 31 : j \in T
  BY <1>1, <1>2, SetInduction, Zenon
<1> QED BY <1>3 DEF T

LEMMA Fitting ==
    ASSUME NEW i \in 0 .. 31, NEW v \in Nat, v < 2^i, NEW j \in 0 .. 30, j >= i
    PROVE  v \div 2^i = 0 /\ v \div 2^j = 0
<1>0. j \in 0 .. 31
  OBVIOUS
<1>1. 2^i \in Nat \ {0} /\ 2^j \in Nat \ {0}
  BY <1>0, Power
<1>2. 2^i <= 2^j
  <2> DEFINE T == {k \in Nat : k >= i => 2^i <= 2^k}
  <2>1. 0 \in T
    <3>1. 0 >= i => 2^i <= 2^0
      <4>1. CASE i = 0
        BY <4>1
      <4> QED BY <4>1
    <3> QED BY <3>1
  <2>2. ASSUME NEW k \in 0 .. 31 - 1, k \in T PROVE k + 1 \in T
    <3>0. k \in 0 .. 31
      OBVIOUS
    <3>1. 2^k \in Nat /\ 2^(k + 1) = 2 * 2^k
      BY <3>0, Power
    <3>2. CASE k + 1 = i
      BY <3>1, <3>2
    <3>3. CASE k >= i
      BY <1>1, <2>2, <3>1, <3>3
    <3> QED BY <3>2, <3>3
  <2> HIDE DEF T
  <2>3. \A k \in 0 .. 31 : k \in T
    BY <2>1, <2>2, SetInduction, Zenon
  <2>4. j \in 0 .. 31
    OBVIOUS
  <2> QED BY <2>3, <2>4 DEF T
<1> DEFINE a == 2^i
           b == 2^j
<1>3. v < a /\ v < b
  BY <1>1, <1>2
<1> HIDE DEF a, b
<1>4. a \in Nat \ {0} /\ b \in Nat \ {0}
  BY <1>1 DEF a, b
<1>5. v \div a = 0 /\ v \div b = 0
  BY <1>3, <1>4
<1> QED BY <1>5 DEF a, b

\* A number of n bits is what its bits make.
LEMMA NumNatBits ==
    ASSUME NEW n \in 0 .. 31, NEW v \in Nat, v < 2^n
    PROVE  NatBits(v) \subseteq 0 .. n - 1 /\ Num(NatBits(v)) = v
<1>1. \A j \in 0 .. 30 : j >= n => v \div 2^j = 0
  BY Fitting
<1>2. NatBits(v) = BitsBelow(v, n)
  <2>1. ASSUME NEW i \in NatBits(v) PROVE i \in BitsBelow(v, n)
    <3>1. i \in 0 .. 30 /\ (v \div 2^i) % 2 = 1
      BY DEF NatBits
    <3>2. ~(i >= n)
      <4>1. SUFFICES ASSUME i >= n PROVE FALSE
        OBVIOUS
      <4>2. v \div 2^i = 0
        BY <1>1, <3>1, <4>1
      <4>3. 0 % 2 = 1
        BY <3>1, <4>2, Zenon
      <4> QED BY <4>3
    <3> QED BY <3>1, <3>2 DEF BitsBelow
  <2>2. BitsBelow(v, n) \subseteq NatBits(v)
    BY DEF NatBits, BitsBelow
  <2> QED BY <2>1, <2>2
<1>3. 2^n \in Nat
  BY Power
<1>4. v \div 2^n = 0
  <2> DEFINE a == 2^n
  <2>1. a \in Nat /\ v < a
    BY <1>3
  <2> HIDE DEF a
  <2>2. v \div a = 0
    BY <2>1
  <2> QED BY <2>2 DEF a
<1>5. 2^n * (v \div 2^n) = 0
  BY <1>3, <1>4
<1>6. BitsBelow(v, n) \subseteq 0 .. n - 1
  BY DEF BitsBelow
<1>7. Num(BitsBelow(v, n)) = v - 2^n * (v \div 2^n)
  BY NumBelow
<1>8. v - 0 = v
  OBVIOUS
<1> QED BY <1>2, <1>5, <1>6, <1>7, <1>8, Zenon

LEMMA Six ==
    ASSUME NEW S \in SUBSET (0 .. 5)
    PROVE  Num(S) = (IF 0 \in S THEN 1 ELSE 0) + (IF 1 \in S THEN 2 ELSE 0)
                    + (IF 2 \in S THEN 4 ELSE 0) + (IF 3 \in S THEN 8 ELSE 0)
                    + (IF 4 \in S THEN 16 ELSE 0) + (IF 5 \in S THEN 32 ELSE 0)
<1> DEFINE B(i) == S \ (0 .. i - 1)
           W(i) == IF i \in S THEN 2^i ELSE 0
<1>1. ASSUME NEW i \in 0 .. 5 PROVE Num(B(i)) = W(i) + Num(B(i + 1)) /\ Num(B(i + 1)) \in Nat
  <2>1. B(i) \in SUBSET Word /\ B(i + 1) \in SUBSET Word
    BY DEF Word
  <2>2. CASE i \in S
    <3>1. i \in B(i) /\ B(i) \ {i} = B(i + 1)
      BY <2>2
    <3>2. Num(B(i)) = 2^i + Num(B(i) \ {i})
      BY <2>1, <3>1, NumTake, Zenon
    <3>3. Num(B(i + 1)) \in Nat
      BY <2>1, SumAgrees, Zenon
    <3>4. W(i) = 2^i
      BY <2>2, Zenon
    <3> HIDE DEF B, W
    <3> QED BY <3>1, <3>2, <3>3, <3>4, Zenon
  <2>3. CASE i \notin S
    <3>1. B(i) = B(i + 1)
      <4>1. ASSUME NEW x \in B(i) PROVE x \in B(i + 1)
        <5>1. x # i /\ x \in 0 .. 5
          BY <2>3
        <5> QED BY <5>1
      <4> QED BY <4>1
    <3>2. Num(B(i + 1)) \in Nat
      BY <2>1, SumAgrees
    <3> HIDE DEF B
    <3> QED BY <2>3, <3>1, <3>2
  <2> QED BY <2>2, <2>3
<1>2. B(0) = S /\ B(6) = {}
  OBVIOUS
<1>3. W(0) = (IF 0 \in S THEN 1 ELSE 0) /\ W(1) = (IF 1 \in S THEN 2 ELSE 0)
      /\ W(2) = (IF 2 \in S THEN 4 ELSE 0) /\ W(3) = (IF 3 \in S THEN 8 ELSE 0)
      /\ W(4) = (IF 4 \in S THEN 16 ELSE 0) /\ W(5) = (IF 5 \in S THEN 32 ELSE 0)
  OBVIOUS
<1> HIDE DEF W
<1>4. /\ Num(B(0)) = W(0) + Num(B(1)) /\ Num(B(1)) = W(1) + Num(B(2))
      /\ Num(B(2)) = W(2) + Num(B(3)) /\ Num(B(3)) = W(3) + Num(B(4))
      /\ Num(B(4)) = W(4) + Num(B(5)) /\ Num(B(5)) = W(5) + Num(B(6))
  BY <1>1
<1> HIDE DEF B
<1> QED BY <1>2, <1>3, <1>4, NumEmpty

-----------------------------------------------------------------------------
(* Fields *)

\* A field is within its register.  Its limit before the division, where it
\* has one, is that of its width or range.
FieldOK(x) ==
    /\ x.lo \in 0 .. 31 /\ x.n \in 1 .. 31 /\ x.lo + x.n <= 32
    /\ x.unit \in Nat \ {0} /\ x.bias \in Int /\ x.zero \in Int /\ x.top \in Int
    /\ x.min \in Int /\ x.max \in Int /\ x.max <= Huge
    /\ x.cut \in BOOLEAN /\ x.flag \in BOOLEAN /\ x.signed \in BOOLEAN
    /\ x.flag => x.n = 1 /\ x.unit = 1 /\ ~x.signed
    /\ x.signed => x.n = 6
TopOK(x) ==
    x.top # 0 =>
        /\ x.bias = 0 /\ ~x.signed
        /\ \/ x.unit = 1 /\ x.n = 13 /\ x.top = 8191
           \/ x.unit = 4 /\ x.n = 8 /\ x.top = 1020 /\ x.max = 255

LEMMA QuotientInt == ASSUME NEW v \in Int, NEW u \in Nat \ {0} PROVE Quotient(v, u) \in Int
BY DEF Quotient

LEMMA TicksFit ==
    ASSUME NEW x, FieldOK(x), TopOK(x), NEW v \in Int, Fits(x, v)
    PROVE  /\ Ticks(x, v) \in Int /\ x.unit * Ticks(x, v) = Held(x, v)
           /\ ~x.signed => Ticks(x, v) >= 0 /\ Ticks(x, v) < 2^x.n
           /\ x.signed => Ticks(x, v) \in -32 .. 31
<1> DEFINE q == Quotient(v - x.bias, x.unit)
<1>1. CASE x.flag
  <2>1. Ticks(x, v) = (IF v # 0 THEN 1 ELSE 0) /\ Held(x, v) = (IF v # 0 THEN 1 ELSE 0)
    BY <1>1 DEF Ticks, Held
  <2>2. x.n = 1 /\ x.unit = 1 /\ ~x.signed /\ 2^1 = 2
    BY <1>1 DEF FieldOK
  <2> QED BY <2>1, <2>2
<1>2. CASE ~x.flag
  <2>1. /\ q >= x.min /\ q <= x.max /\ (x.zero # 0 => v > 0)
        /\ IF x.signed THEN q \in -(2^(x.n - 1)) .. 2^(x.n - 1) - 1
           ELSE q >= 0 /\ (x.n < 31 => q < 2^x.n)
    BY <1>2 DEF Fits
  <2>2. q \in Int
    BY QuotientInt DEF FieldOK
  <2>3. Held(x, v) = x.unit * q
    BY <1>2 DEF Held
  <2>4. Ticks(x, v) = q
    <3>1. CASE x.top = 0
      <4>1. Ticks(x, v) = IF q > x.max THEN x.max ELSE IF q < x.min THEN x.min ELSE q
        BY <1>2, <2>1, <3>1 DEF Ticks, FieldOK
      <4> HIDE DEF q
      <4> QED BY <2>1, <2>2, <4>1 DEF FieldOK
    <3>2. CASE x.top # 0
      <4>1. /\ x.bias = 0 /\ ~x.signed
            /\ \/ x.unit = 1 /\ x.n = 13 /\ x.top = 8191
               \/ x.unit = 4 /\ x.n = 8 /\ x.top = 1020 /\ x.max = 255
        BY <3>2 DEF TopOK
      <4>2. Quotient(IF v > x.top THEN x.top ELSE v, x.unit) = q
        <5>1. CASE x.unit = 1 /\ x.n = 13 /\ x.top = 8191
          <6>1. 2^13 = 8192 /\ q < 2^13
            BY <2>1, <5>1, <4>1
          <6>2. ~(v > x.top)
            BY <4>1, <5>1, <6>1 DEF Quotient
          <6> QED BY <4>1, <6>2
        <5>2. CASE x.unit = 4 /\ x.n = 8 /\ x.top = 1020 /\ x.max = 255
          <6>1. q <= 255
            BY <2>1, <5>2
          <6> QED BY <4>1, <5>2, <6>1 DEF Quotient
        <5> QED BY <4>1, <5>1, <5>2
      <4>3. Ticks(x, v) = LET t == Quotient(IF v > x.top THEN x.top ELSE v, x.unit)
                          IN IF t > x.max THEN x.max ELSE IF t < x.min THEN x.min ELSE t
        <5>1. \A w \in Int : w - 0 = w
          OBVIOUS
        <5>2. x.top \in Int
          BY DEF FieldOK
        <5> QED BY <1>2, <2>1, <3>2, <4>1, <5>1, <5>2 DEF Ticks
      <4> HIDE DEF q
      <4> QED BY <2>1, <2>2, <4>2, <4>3 DEF FieldOK
    <3> QED BY <3>1, <3>2
  <2>5. ~x.signed => q >= 0 /\ q < 2^x.n
    <3>1. CASE x.n = 31
      <4>1. 2^31 = 2147483648
        OBVIOUS
      <4> HIDE DEF q
      <4> QED BY <2>1, <2>2, <3>1, <4>1 DEF FieldOK, Huge
    <3>2. CASE x.n # 31
      BY <2>1, <3>2 DEF FieldOK
    <3> QED BY <3>1, <3>2
  <2>6. x.signed => q \in -32 .. 31
    <3>1. x.signed => x.n = 6 /\ x.n - 1 = 5
      BY DEF FieldOK
    <3>2. 2^5 = 32
      OBVIOUS
    <3> HIDE DEF q
    <3>3. x.signed => q \in -(2^5) .. 2^5 - 1
      BY <2>1, <3>1, Zenon
    <3> QED BY <3>2, <3>3
  <2> HIDE DEF q
  <2> QED BY <2>2, <2>3, <2>4, <2>5, <2>6
<1> QED BY <1>1, <1>2 DEF FieldOK

LEMMA NatBitsIn == ASSUME NEW v PROVE NatBits(v) \subseteq 0 .. 30
BY DEF NatBits

\* Six bits in two's complement.
LEMMA SignedBits ==
    ASSUME NEW t \in -32 .. 31
    PROVE  LET B == Bits(t) \cap 0 .. 5
           IN (IF 5 \in B THEN Num(B) - 2^6 ELSE Num(B)) = t
<1> DEFINE B == Bits(t) \cap 0 .. 5
<1>0. 2^5 = 32 /\ 2^6 = 64
  OBVIOUS
<1>1. CASE t >= 0
  <2>1. Bits(t) = NatBits(t) /\ t \in Nat /\ t < 2^5 /\ 5 \in 0 .. 31
    BY <1>0, <1>1 DEF Bits
  <2>2. NatBits(t) \subseteq 0 .. 5 - 1 /\ Num(NatBits(t)) = t
    BY <2>1, NumNatBits
  <2>3. B = NatBits(t) /\ 5 \notin B
    BY <2>1, <2>2
  <2> QED BY <2>2, <2>3
<1>2. CASE t < 0
  <2> DEFINE u == -t - 1
             N == NatBits(u)
  <2>1. Bits(t) = Word \ N /\ u \in Nat /\ u < 2^5 /\ 5 \in 0 .. 31 /\ ~(t >= 0)
    BY <1>0, <1>2 DEF Bits
  <2>2. N \subseteq 0 .. 5 - 1 /\ Num(N) = u
    BY <2>1, NumNatBits
  <2>3. B = (0 .. 5) \ N /\ 5 \in B /\ N \in SUBSET (0 .. 5) /\ B \in SUBSET (0 .. 5)
    BY <2>1, <2>2 DEF Word
  <2> HIDE DEF N, B
  <2>4. /\ 0 \in B <=> 0 \notin N
        /\ 1 \in B <=> 1 \notin N
        /\ 2 \in B <=> 2 \notin N
        /\ 3 \in B <=> 3 \notin N
        /\ 4 \in B <=> 4 \notin N
        /\ 5 \notin N
    BY <2>2, <2>3
  <2>5. Num(B) = 63 - Num(N)
    <3>1. Num(B) = (IF 0 \in B THEN 1 ELSE 0) + (IF 1 \in B THEN 2 ELSE 0)
                    + (IF 2 \in B THEN 4 ELSE 0) + (IF 3 \in B THEN 8 ELSE 0)
                    + (IF 4 \in B THEN 16 ELSE 0) + (IF 5 \in B THEN 32 ELSE 0)
      BY <2>3, Six
    <3>2. Num(N) = (IF 0 \in N THEN 1 ELSE 0) + (IF 1 \in N THEN 2 ELSE 0)
                    + (IF 2 \in N THEN 4 ELSE 0) + (IF 3 \in N THEN 8 ELSE 0)
                    + (IF 4 \in N THEN 16 ELSE 0) + (IF 5 \in N THEN 32 ELSE 0)
      BY <2>3, Six
    <3> QED BY <2>3, <2>4, <3>1, <3>2
  <2> QED BY <1>0, <2>2, <2>3, <2>5 DEF B
<1> QED BY <1>1, <1>2

\* What a setter puts in is in the field, unless it is signed and not masked.
LEMMA PutFit ==
    ASSUME NEW x, FieldOK(x), TopOK(x), NEW v \in Int, Fits(x, v), x.signed => x.cut
    PROVE  Put(x, v) \subseteq Span(x)
<1> DEFINE t == Ticks(x, v)
<1>1. CASE ~x.signed
  <2>1. t \in Nat /\ t < 2^x.n /\ x.n \in 0 .. 31 /\ x.lo \in Int
    BY <1>1, TicksFit DEF FieldOK
  <2> HIDE DEF t
  <2>2. NatBits(t) \subseteq 0 .. x.n - 1
    BY <2>1, NumNatBits, Zenon
  <2>3. Bits(t) = NatBits(t)
    BY <2>1 DEF Bits
  <2> QED BY <2>1, <2>2, <2>3 DEF Put, Span, t
<1>2. CASE x.signed
  <2>1. x.cut /\ x.n \in 0 .. 31 /\ x.lo \in Int
    BY <1>2 DEF FieldOK
  <2> QED BY <2>1 DEF Put, Span
<1> QED BY <1>1, <1>2

\* A field that holds what its setter puts in reads back as the setting.
LEMMA GetFit ==
    ASSUME NEW x, FieldOK(x), TopOK(x), NEW v \in Int, Fits(x, v),
           NEW r, r[x.reg] \cap Span(x) = Put(x, v) \cap Span(x)
    PROVE  Get(x, r) = Held(x, v)
<1> DEFINE t == Ticks(x, v)
           B == {i - x.lo : i \in r[x.reg] \cap Span(x)}
           C == Bits(t) \cap 0 .. x.n - 1
<1>0. x.n \in 1 .. 31 /\ x.lo \in 0 .. 31 /\ x.lo + x.n <= 32 /\ x.unit \in Nat
  BY DEF FieldOK
<1>1. t \in Int /\ x.unit * t = Held(x, v)
  BY TicksFit
<1>2. B = C
  <2>1. B = {i - x.lo : i \in Put(x, v) \cap Span(x)}
    OBVIOUS
  <2>2. Put(x, v) \cap Span(x) = {i + x.lo : i \in C}
    <3> HIDE DEF t
    <3>1. ASSUME NEW j \in Put(x, v) \cap Span(x) PROVE j \in {i + x.lo : i \in C}
      <4>1. PICK i \in Bits(t) : j = i + x.lo
        BY <3>1 DEF Put, t
      <4>2. i \in Int
        BY NatBitsIn DEF Bits, Word
      <4>3. i \in 0 .. x.n - 1
        BY <1>0, <3>1, <4>1, <4>2 DEF Span
      <4> QED BY <4>1, <4>3
    <3>2. ASSUME NEW i \in C PROVE i + x.lo \in Put(x, v) \cap Span(x)
      BY <1>0 DEF Put, Span, Word, t
    <3> QED BY <3>1, <3>2
  <2>3. {i - x.lo : i \in {i + x.lo : i \in C}} = C
    <3>1. \A i \in C : i \in Int /\ (i + x.lo) - x.lo = i
      BY <1>0
    <3> HIDE DEF C
    <3> QED BY <3>1
  <2> QED BY <2>1, <2>2, <2>3
<1>3. Get(x, r) = (IF x.signed /\ x.n - 1 \in B THEN Num(B) - 2^x.n ELSE Num(B)) * x.unit
  BY DEF Get
<1>4. CASE ~x.signed
  <2>1. t \in Nat /\ t < 2^x.n /\ x.n \in 0 .. 31
    BY <1>0, <1>4, TicksFit
  <2> HIDE DEF t
  <2>2. NatBits(t) \subseteq 0 .. x.n - 1 /\ Num(NatBits(t)) = t
    BY <2>1, NumNatBits, Zenon
  <2>3. C = NatBits(t)
    <3>1. Bits(t) = NatBits(t)
      BY <2>1 DEF Bits
    <3> QED BY <2>2, <3>1
  <2>4. Get(x, r) = t * x.unit
    BY <1>2, <1>3, <1>4, <2>2, <2>3
  <2> QED BY <1>0, <1>1, <2>4
<1>5. CASE x.signed
  <2>1. t \in -32 .. 31 /\ x.n = 6
    BY <1>5, TicksFit DEF FieldOK
  <2> HIDE DEF t
  <2>2. (IF 5 \in C THEN Num(C) - 2^6 ELSE Num(C)) = t
    <3>1. C = Bits(t) \cap 0 .. 5
      BY <2>1
    <3> QED BY <2>1, <3>1, SignedBits
  <2>3. x.n - 1 = 5
    BY <2>1
  <2> HIDE DEF B, C
  <2>4. Get(x, r) = t * x.unit
    BY <1>2, <1>3, <1>5, <2>1, <2>2, <2>3, Zenon
  <2> QED BY <1>0, <1>1, <2>4
<1> QED BY <1>4, <1>5

-----------------------------------------------------------------------------
(* Calls in a row *)

IsSeq(q) == Len(q) \in Nat /\ q = [i \in 1 .. Len(q) |-> q[i]]

LEMMA SeqIn ==
    ASSUME NEW q, IsSeq(q), NEW S, \A i \in 1 .. Len(q) : q[i] \in S
    PROVE  q \in Seq(S) /\ DOMAIN q = 1 .. Len(q)
<1> DEFINE n == Len(q)
<1>1. n \in Nat /\ q = [i \in 1 .. n |-> q[i]] /\ \A i \in 1 .. n : q[i] \in S
  BY DEF IsSeq
<1> HIDE DEF n
<1>2. [i \in 1 .. n |-> q[i]] \in Seq(S) /\ DOMAIN [i \in 1 .. n |-> q[i]] = 1 .. n
  BY <1>1
<1>3. q \in Seq(S) /\ DOMAIN q = 1 .. n
  BY <1>1, <1>2, Zenon
<1> QED BY <1>3 DEF n

LEMMA IsSeqOf == ASSUME NEW S, NEW q \in Seq(S) PROVE IsSeq(q)
BY DEF IsSeq

LEMMA Joined ==
    ASSUME NEW p, NEW q, IsSeq(p), IsSeq(q)
    PROVE  /\ IsSeq(p \o q) /\ Len(p \o q) = Len(p) + Len(q)
           /\ \A i \in 1 .. Len(p) : (p \o q)[i] = p[i]
           /\ \A i \in 1 .. Len(q) : (p \o q)[Len(p) + i] = q[i]
<1> DEFINE S == {p[i] : i \in 1 .. Len(p)} \union {q[i] : i \in 1 .. Len(q)}
<1>1. p \in Seq(S) /\ q \in Seq(S)
  <2>1. (\A i \in 1 .. Len(p) : p[i] \in S) /\ (\A i \in 1 .. Len(q) : q[i] \in S)
    OBVIOUS
  <2> HIDE DEF S
  <2> QED BY <2>1, SeqIn
<1> HIDE DEF S
<1>2. p \o q \in Seq(S) /\ Len(p) \in Nat /\ Len(q) \in Nat
  BY <1>1
<1>3. Len(p \o q) = Len(p) + Len(q)
  BY <1>1
<1>4. \A i \in 1 .. Len(p) : (p \o q)[i] = p[i]
  BY <1>1
<1>5. \A i \in 1 .. Len(q) : (p \o q)[Len(p) + i] = q[i]
  BY <1>1, <1>2
<1> QED BY <1>2, <1>3, <1>4, <1>5, IsSeqOf

Kept(x) == KeyOf(x.slot) \notin Lost
\* The setting of a field is one of vtpConf, of the families fams.
SlotIn(x, fams) ==
    \E fam \in fams : \E k \in Keys[fam] : \E i \in 0 .. k[2] - 1 :
        fam \in DOMAIN Keys /\ x.slot = <<fam, k[1], i>> /\ x.col \in 1 .. k[3]
\* y puts nothing into the bits of x.
Beside(y, x) == Kept(y) /\ (y.signed => y.cut) /\ Span(y) \cap Span(x) = {}
\* A setter clears the field of a setting it writes, and what it writes to the
\* same register is beside it.
CallOK(c, rs, fams) ==
    /\ DOMAIN c.clear \subseteq rs
    /\ \A x \in c.fields :
        /\ FieldOK(x) /\ SlotIn(x, fams) /\ x.reg \in DOMAIN c.clear
        /\ Kept(x) =>
            /\ TopOK(x) /\ Span(x) \subseteq c.clear[x.reg]
            /\ \A y \in c.fields : y.reg = x.reg /\ y # x => Beside(y, x)
\* A later setter leaves the field x alone, or writes it again.
Spares(c, x) ==
    \/ x \in c.fields
    \/ x.reg \notin DOMAIN c.clear
    \/ /\ c.clear[x.reg] \cap Span(x) = {}
       /\ \A y \in c.fields : y.reg = x.reg => Beside(y, x)
Cross(c, d) == \A x \in c.fields : Kept(x) => Spares(d, x)
CallsOK(q, rs, fams) ==
    /\ IsSeq(q) /\ \A i \in 1 .. Len(q) : CallOK(q[i], rs, fams)
    /\ \A i, j \in 1 .. Len(q) : i < j => Cross(q[i], q[j])

LEMMA Apart ==
    ASSUME NEW c, NEW d, NEW rs, NEW ss, NEW fams, NEW gams, CallOK(c, rs, fams), CallOK(d, ss, gams),
           rs \cap ss = {}
    PROVE  Cross(c, d)
BY DEF CallOK, Cross, Spares

LEMMA JoinCross ==
    ASSUME NEW p, NEW q, NEW rs, NEW ss, NEW fams, NEW gams, CallsOK(p, rs, fams), CallsOK(q, ss, gams),
           \A i \in 1 .. Len(p), j \in 1 .. Len(q) : Cross(p[i], q[j])
    PROVE  CallsOK(p \o q, rs \union ss, fams \union gams)
<1>1. /\ IsSeq(p \o q) /\ Len(p \o q) = Len(p) + Len(q)
      /\ \A i \in 1 .. Len(p) : (p \o q)[i] = p[i]
      /\ \A i \in 1 .. Len(q) : (p \o q)[Len(p) + i] = q[i]
  BY Joined DEF CallsOK
<1> DEFINE m == Len(p)
           n == Len(q)
           w == p \o q
<1>2. m \in Nat /\ n \in Nat /\ Len(w) = m + n
  BY <1>1 DEF CallsOK, IsSeq
<1> HIDE DEF m, n, w
<1>3. \A i \in 1 .. m + n : (i \in 1 .. m /\ w[i] = p[i]) \/ (i - m \in 1 .. n /\ w[i] = q[i - m])
  <2>1. SUFFICES ASSUME NEW i \in 1 .. m + n
                 PROVE  (i \in 1 .. m /\ w[i] = p[i]) \/ (i - m \in 1 .. n /\ w[i] = q[i - m])
    OBVIOUS
  <2>2. CASE i <= m
    <3>1. i \in 1 .. m
      BY <1>2, <2>2
    <3> QED BY <1>1, <3>1 DEF m, w
  <2>3. CASE i > m
    <3>1. i - m \in 1 .. n /\ m + (i - m) = i
      BY <1>2, <2>3
    <3>2. w[m + (i - m)] = q[i - m]
      BY <1>1, <3>1 DEF m, n, w
    <3> QED BY <3>1, <3>2
  <2> QED BY <1>2, <2>2, <2>3
<1>4. \A c : CallOK(c, rs, fams) \/ CallOK(c, ss, gams) => CallOK(c, rs \union ss, fams \union gams)
  BY DEF CallOK, SlotIn
<1>5. \A i \in 1 .. m + n : CallOK(w[i], rs \union ss, fams \union gams)
  BY <1>3, <1>4 DEF CallsOK, m, n
<1>6. ASSUME NEW i \in 1 .. m + n, NEW j \in 1 .. m + n, i < j PROVE Cross(w[i], w[j])
  <2>1. CASE j \in 1 .. m /\ w[j] = p[j]
    <3>1. i \in 1 .. m /\ w[i] = p[i]
      BY <1>2, <1>3, <1>6, <2>1
    <3> QED BY <1>6, <2>1, <3>1 DEF CallsOK, m
  <2>2. CASE j - m \in 1 .. n /\ w[j] = q[j - m]
    <3>1. CASE i \in 1 .. m /\ w[i] = p[i]
      BY <2>2, <3>1 DEF m, n
    <3>2. CASE i - m \in 1 .. n /\ w[i] = q[i - m]
      <4>1. i - m < j - m
        BY <1>2, <1>6
      <4> QED BY <2>2, <3>2, <4>1 DEF CallsOK, n
    <3> QED BY <1>3, <3>1, <3>2
  <2> QED BY <1>3, <2>1, <2>2
<1> QED BY <1>1, <1>2, <1>5, <1>6 DEF CallsOK, w

LEMMA Join ==
    ASSUME NEW p, NEW q, NEW rs, NEW ss, NEW fams, NEW gams, CallsOK(p, rs, fams), CallsOK(q, ss, gams),
           rs \cap ss = {}
    PROVE  CallsOK(p \o q, rs \union ss, fams \union gams)
<1>1. \A i \in 1 .. Len(p), j \in 1 .. Len(q) : Cross(p[i], q[j])
  <2>1. SUFFICES ASSUME NEW i \in 1 .. Len(p), NEW j \in 1 .. Len(q) PROVE Cross(p[i], q[j])
    OBVIOUS
  <2>2. CallOK(p[i], rs, fams) /\ CallOK(q[j], ss, gams)
    BY DEF CallsOK
  <2> QED BY <2>2, Apart
<1> QED BY <1>1, JoinCross

LEMMA OneCall ==
    ASSUME NEW c, NEW rs, NEW fams, CallOK(c, rs, fams)
    PROVE  CallsOK(<<c>>, rs, fams)
BY DEF CallsOK, IsSeq

LEMMA NoCall == ASSUME NEW rs, NEW fams PROVE CallsOK(<<>>, rs, fams)
BY DEF CallsOK, IsSeq

LEMMA TwoCalls ==
    ASSUME NEW c, NEW d, NEW rs, NEW fams, CallOK(c, rs, fams), CallOK(d, rs, fams), Cross(c, d)
    PROVE  CallsOK(<<c, d>>, rs, fams)
<1>1. IsSeq(<<c, d>>) /\ Len(<<c, d>>) = 2 /\ <<c, d>>[1] = c /\ <<c, d>>[2] = d
  BY DEF IsSeq
<1>2. \A i \in 1 .. 2 : i = 1 \/ i = 2
  OBVIOUS
<1>3. \A i, j \in 1 .. 2 : i < j => i = 1 /\ j = 2
  OBVIOUS
<1> QED BY <1>1, <1>2, <1>3 DEF CallsOK

LEMMA Weaken ==
    ASSUME NEW q, NEW rs, NEW ss, NEW fams, NEW gams, CallsOK(q, rs, fams), rs \subseteq ss, fams \subseteq gams
    PROVE  CallsOK(q, ss, gams)
<1>1. \A c : CallOK(c, rs, fams) => CallOK(c, ss, gams)
  BY DEF CallOK, SlotIn
<1> QED BY <1>1 DEF CallsOK

-----------------------------------------------------------------------------
(* Loops over rows *)

IsFlatten(it, seqs, n) == it = [i \in 1 .. n |-> IF i = 1 THEN seqs[i] ELSE it[i - 1] \o seqs[i]]
Flatten(seqs, n) == CHOOSE it : IsFlatten(it, seqs, n)

LEMMA FlattenIs ==
    ASSUME NEW seqs, NEW n, Len(seqs) = n, n # 0
    PROVE  FlattenSeq(seqs) = Flatten(seqs, n)[n]
BY Zenon DEF FlattenSeq, Flatten, IsFlatten

LEMMA FlattenFn ==
    ASSUME NEW seqs, NEW n \in Nat
    PROVE  IsFlatten(Flatten(seqs, n), seqs, n)
<1> DEFINE T == {k \in Nat : \E it : IsFlatten(it, seqs, k)}
<1>1. 0 \in T
  <2>1. IsFlatten([i \in 1 .. 0 |-> seqs], seqs, 0)
    BY DEF IsFlatten
  <2> QED BY <2>1
<1>2. ASSUME NEW k \in 0 .. n - 1, k \in T PROVE k + 1 \in T
  <2>1. PICK g : IsFlatten(g, seqs, k)
    BY <1>2
  <2> DEFINE h == [i \in 1 .. k + 1 |-> IF i \in 1 .. k THEN g[i]
                                        ELSE IF i = 1 THEN seqs[i] ELSE g[i - 1] \o seqs[i]]
  <2>2. ASSUME NEW i \in 1 .. k + 1
        PROVE  h[i] = IF i = 1 THEN seqs[i] ELSE h[i - 1] \o seqs[i]
    <3>1. i # 1 => i - 1 \in 1 .. k /\ i - 1 \in 1 .. k + 1
      OBVIOUS
    <3>2. i # 1 => h[i - 1] = g[i - 1]
      BY <3>1
    <3>3. CASE i \in 1 .. k
      <4>1. h[i] = g[i] /\ g[i] = IF i = 1 THEN seqs[i] ELSE g[i - 1] \o seqs[i]
        BY <2>1, <3>3 DEF IsFlatten
      <4> HIDE DEF h
      <4> QED BY <3>2, <4>1
    <3>4. CASE i \notin 1 .. k
      <4>1. h[i] = IF i = 1 THEN seqs[i] ELSE g[i - 1] \o seqs[i]
        BY <3>4
      <4> HIDE DEF h
      <4> QED BY <3>2, <4>1
    <3> QED BY <3>3, <3>4
  <2>3. IsFlatten(h, seqs, k + 1)
    BY <2>2 DEF IsFlatten
  <2> HIDE DEF h
  <2> QED BY <2>3
<1> HIDE DEF T
<1>3. n \in T
  BY <1>1, <1>2, SetInduction
<1> QED BY <1>3, Zenon DEF T, Flatten

\* The elements of q are those of the first n sequences of seqs.
FromRows(q, seqs, n) == \A a \in 1 .. Len(q) : \E i \in 1 .. n : \E b \in 1 .. Len(seqs[i]) : q[a] = seqs[i][b]

LEMMA FlattenOK ==
    ASSUME NEW n \in Nat \ {0}, NEW seqs, Len(seqs) = n, NEW rs, NEW fams,
           \A i \in 1 .. n : CallsOK(seqs[i], rs, fams),
           \A i, j \in 1 .. n : i < j =>
                \A a \in 1 .. Len(seqs[i]), b \in 1 .. Len(seqs[j]) : Cross(seqs[i][a], seqs[j][b])
    PROVE  CallsOK(FlattenSeq(seqs), rs, fams) /\ FromRows(FlattenSeq(seqs), seqs, n)
<1> DEFINE g == Flatten(seqs, n)
           From(q, k) == FromRows(q, seqs, k)
           T == {k \in Nat : k # 0 => CallsOK(g[k], rs, fams) /\ From(g[k], k)}
<1>1. \A k \in 1 .. n : g[k] = IF k = 1 THEN seqs[k] ELSE g[k - 1] \o seqs[k]
  <2>1. IsFlatten(g, seqs, n)
    BY FlattenFn
  <2> HIDE DEF g
  <2> QED BY <2>1 DEF IsFlatten
<1> HIDE DEF g
<1>2. 0 \in T
  OBVIOUS
<1>3. ASSUME NEW k \in 0 .. n - 1, k \in T PROVE k + 1 \in T
  <2>1. k + 1 \in 1 .. n /\ (k + 1) - 1 = k /\ k \in Nat /\ k + 1 \in 1 .. k + 1
    OBVIOUS
  <2>2. CASE k = 0
    <3>1. g[k + 1] = seqs[k + 1]
      BY <1>1, <2>1, <2>2
    <3>2. From(g[k + 1], k + 1)
      BY <2>1, <3>1 DEF FromRows
    <3> HIDE DEF From
    <3> QED BY <2>1, <3>1, <3>2
  <2>3. CASE k # 0
    <3>0. k + 1 # 1
      BY <2>3
    <3>1. g[k + 1] = g[k] \o seqs[k + 1]
      BY <1>1, <2>1, <3>0
    <3>2. CallsOK(g[k], rs, fams) /\ From(g[k], k) /\ CallsOK(seqs[k + 1], rs, fams)
      BY <1>3, <2>1, <2>3
    <3>3. \A a \in 1 .. Len(g[k]), b \in 1 .. Len(seqs[k + 1]) : Cross(g[k][a], seqs[k + 1][b])
      <4>1. SUFFICES ASSUME NEW a \in 1 .. Len(g[k]), NEW b \in 1 .. Len(seqs[k + 1])
                     PROVE  Cross(g[k][a], seqs[k + 1][b])
        OBVIOUS
      <4>2. PICK i \in 1 .. k : \E c \in 1 .. Len(seqs[i]) : g[k][a] = seqs[i][c]
        BY <3>2 DEF FromRows
      <4>3. i \in 1 .. n /\ i < k + 1
        BY <2>1
      <4> QED BY <2>1, <4>2, <4>3
    <3>4. CallsOK(g[k + 1], rs, fams)
      <4>1. CallsOK(g[k] \o seqs[k + 1], rs \union rs, fams \union fams)
        <5> HIDE DEF From
        <5> QED BY <3>2, <3>3, JoinCross
      <4> QED BY <3>1, <4>1
    <3>5. From(g[k + 1], k + 1)
      <4> DEFINE m == Len(g[k])
                 w == Len(seqs[k + 1])
      <4>1. /\ Len(g[k + 1]) = m + w /\ m \in Nat /\ w \in Nat
            /\ \A a \in 1 .. m : g[k + 1][a] = g[k][a]
            /\ \A a \in 1 .. w : g[k + 1][m + a] = seqs[k + 1][a]
        <5>1. IsSeq(g[k]) /\ IsSeq(seqs[k + 1])
          BY <3>2 DEF CallsOK
        <5>2. m \in Nat /\ w \in Nat
          BY <5>1 DEF IsSeq
        <5> DEFINE p == g[k]
                   q == seqs[k + 1]
        <5> HIDE DEF p, q
        <5>3. IsSeq(p) /\ IsSeq(q)
          BY <5>1 DEF p, q
        <5>4. /\ Len(p \o q) = Len(p) + Len(q)
              /\ \A a \in 1 .. Len(p) : (p \o q)[a] = p[a]
              /\ \A a \in 1 .. Len(q) : (p \o q)[Len(p) + a] = q[a]
          BY <5>3, Joined
        <5> QED BY <3>1, <5>2, <5>4 DEF p, q
      <4> HIDE DEF m, w
      <4>2. SUFFICES ASSUME NEW a \in 1 .. m + w
                     PROVE  \E i \in 1 .. k + 1 : \E b \in 1 .. Len(seqs[i]) : g[k + 1][a] = seqs[i][b]
        BY <4>1 DEF FromRows
      <4>3. CASE a \in 1 .. m
        <5>1. PICK i \in 1 .. k : \E b \in 1 .. Len(seqs[i]) : g[k][a] = seqs[i][b]
          BY <3>2, <4>3 DEF m, FromRows
        <5>2. i \in 1 .. k + 1
          OBVIOUS
        <5> QED BY <4>1, <4>3, <5>1, <5>2
      <4>4. CASE a \notin 1 .. m
        <5>1. a - m \in 1 .. w /\ m + (a - m) = a
          BY <4>1, <4>4
        <5>2. g[k + 1][m + (a - m)] = seqs[k + 1][a - m]
          BY <4>1, <5>1
        <5>3. g[k + 1][a] = seqs[k + 1][a - m]
          BY <5>1, <5>2
        <5> QED BY <2>1, <5>1, <5>3 DEF w
      <4> QED BY <4>3, <4>4
    <3> HIDE DEF From
    <3> QED BY <2>1, <3>4, <3>5
  <2> QED BY <2>2, <2>3
<1> HIDE DEF T
<1>4. n \in T
  <2>1. n \in Nat /\ n \in 0 .. n
    OBVIOUS
  <2>2. \A k \in 0 .. n : k \in T
    BY <1>2, <1>3, <2>1, SetInduction, Zenon
  <2> QED BY <2>1, <2>2
<1>5. CallsOK(g[n], rs, fams) /\ From(g[n], n)
  BY <1>4 DEF T
<1>6. FlattenSeq(seqs) = g[n]
  BY FlattenIs DEF g
<1> QED BY <1>5, <1>6

\* A loop over rows that have registers of their own.
LEMMA RowsOK ==
    ASSUME NEW n \in Nat \ {0}, NEW seqs, Len(seqs) = n, NEW R, NEW fams,
           \A i \in 1 .. n : CallsOK(seqs[i], R[i], fams),
           \A i, j \in 1 .. n : i # j => R[i] \cap R[j] = {}
    PROVE  CallsOK(FlattenSeq(seqs), UNION {R[i] : i \in 1 .. n}, fams) /\ FromRows(FlattenSeq(seqs), seqs, n)
<1> DEFINE rs == UNION {R[i] : i \in 1 .. n}
<1>1. \A i \in 1 .. n : CallsOK(seqs[i], rs, fams)
  <2>1. SUFFICES ASSUME NEW i \in 1 .. n PROVE CallsOK(seqs[i], rs, fams)
    OBVIOUS
  <2>2. R[i] \subseteq rs /\ CallsOK(seqs[i], R[i], fams)
    OBVIOUS
  <2> HIDE DEF rs
  <2> QED BY <2>2, Weaken
<1>2. ASSUME NEW i \in 1 .. n, NEW j \in 1 .. n, i < j,
             NEW a \in 1 .. Len(seqs[i]), NEW b \in 1 .. Len(seqs[j])
      PROVE  Cross(seqs[i][a], seqs[j][b])
  <2>1. CallOK(seqs[i][a], R[i], fams) /\ CallOK(seqs[j][b], R[j], fams)
    BY DEF CallsOK
  <2>2. R[i] \cap R[j] = {}
    BY <1>2
  <2> QED BY <2>1, <2>2, Apart
<1> HIDE DEF rs
<1>3. CallsOK(FlattenSeq(seqs), rs, fams) /\ FromRows(FlattenSeq(seqs), seqs, n)
  BY <1>1, <1>2, FlattenOK
<1> QED BY <1>3 DEF rs

-----------------------------------------------------------------------------
(* vtpDownloadAll: a fold of the setters *)

LoadIs(it, q, conf, r, n) ==
    it = [s \in SUBSET (1 .. n) |->
            IF s = {} THEN r ELSE Apply(q[Max(s)], conf, it[s \ {Max(s)}])]
LoadIter(q, conf, r, n) == CHOOSE it : LoadIs(it, q, conf, r, n)
Load(q, conf, r) == FoldLeft(LAMBDA acc, call : Apply(call, conf, acc), r, q)

LEMMA DownloadIs ==
    ASSUME NEW f, NEW conf, NEW r
    PROVE  DownloadTo(f, conf, r) = Load(Calls[f], conf, r)
BY DEF DownloadTo, Load

LEMMA LoadIterIs ==
    ASSUME NEW q, NEW conf, NEW r, NEW n, DOMAIN q = 1 .. n
    PROVE  Load(q, conf, r) = LoadIter(q, conf, r, n)[1 .. n]
BY Zenon DEF Load, FoldLeft, MapThenFoldSet, LoadIter, LoadIs

LEMMA LoadIterFn ==
    ASSUME NEW q, NEW conf, NEW r, NEW n \in Nat
    PROVE  LoadIs(LoadIter(q, conf, r, n), q, conf, r, n)
<1> DEFINE T == {k \in Nat : \E it : LoadIs(it, q, conf, r, k)}
<1>1. 0 \in T
  <2>1. LoadIs([s \in SUBSET (1 .. 0) |-> r], q, conf, r, 0)
    BY DEF LoadIs
  <2> QED BY <2>1
<1>2. ASSUME NEW k \in 0 .. n - 1, k \in T PROVE k + 1 \in T
  <2>1. PICK g : LoadIs(g, q, conf, r, k)
    BY <1>2
  <2> DEFINE h == [s \in SUBSET (1 .. k + 1) |->
                    IF s \in SUBSET (1 .. k) THEN g[s]
                    ELSE Apply(q[k + 1], conf, g[s \ {k + 1}])]
  <2>2. ASSUME NEW s \in SUBSET (1 .. k + 1)
        PROVE  h[s] = IF s = {} THEN r ELSE Apply(q[Max(s)], conf, h[s \ {Max(s)}])
    <3>1. CASE s \in SUBSET (1 .. k)
      <4>1. s # {} => s \ {Max(s)} \in SUBSET (1 .. k)
        BY <3>1
      <4>2. h[s] = g[s] /\ h[s \ {Max(s)}] = g[s \ {Max(s)}]
        BY <3>1
      <4> QED BY <2>1, <3>1, <4>2, Zenon DEF LoadIs
    <3>2. CASE s \notin SUBSET (1 .. k)
      <4>1. k + 1 \in s /\ Max(s) = k + 1
        BY <3>2, MaxNew
      <4>2. s \ {k + 1} \in SUBSET (1 .. k) /\ s \ {k + 1} \in SUBSET (1 .. k + 1)
        BY <4>1
      <4>3. h[s] = Apply(q[k + 1], conf, g[s \ {k + 1}]) /\ h[s \ {k + 1}] = g[s \ {k + 1}]
        BY <3>2, <4>2
      <4> HIDE DEF h
      <4> QED BY <4>1, <4>3
    <3> QED BY <3>1, <3>2
  <2>3. LoadIs(h, q, conf, r, k + 1)
    BY <2>2 DEF LoadIs
  <2> HIDE DEF h
  <2> QED BY <2>3
<1> HIDE DEF T
<1>3. n \in T
  BY <1>1, <1>2, SetInduction
<1> QED BY <1>3, Zenon DEF T, LoadIter

\* The registers after each of the setters.
Loading(g, q, conf, r) ==
    /\ g[0] = r /\ g[Len(q)] = Load(q, conf, r)
    /\ \A k \in 1 .. Len(q) : g[k] = Apply(q[k], conf, g[k - 1])

LEMMA LoadSteps ==
    ASSUME NEW q, IsSeq(q), NEW conf, NEW r
    PROVE  \E g : Loading(g, q, conf, r)
<1> DEFINE n == Len(q)
<1>a. n \in Nat /\ DOMAIN q = 1 .. n
  BY DEF IsSeq
<1> HIDE DEF n
<1>0. LoadIs(LoadIter(q, conf, r, n), q, conf, r, n)
  BY <1>a, LoadIterFn
<1> DEFINE it == LoadIter(q, conf, r, n)
           f == [k \in 0 .. n |-> it[1 .. k]]
<1>1. it = [s \in SUBSET (1 .. n) |->
                IF s = {} THEN r ELSE Apply(q[Max(s)], conf, it[s \ {Max(s)}])]
  BY <1>0, Zenon DEF LoadIs
<1> HIDE DEF it
<1> USE <1>a
<1>2. f[0] = r
  <2>1. 1 .. 0 = {} /\ {} \in SUBSET (1 .. n)
    OBVIOUS
  <2> QED BY <1>1, <2>1
<1>3. ASSUME NEW k \in 1 .. n PROVE f[k] = Apply(q[k], conf, f[k - 1])
  <2>1. 1 .. k \in SUBSET (1 .. n) /\ 1 .. k # {} /\ k - 1 \in Nat /\ k \in 1 .. k
    OBVIOUS
  <2>2. Max(1 .. k) = k
    <3>1. 1 .. k \in SUBSET (1 .. (k - 1) + 1) /\ (k - 1) + 1 \in 1 .. k /\ (k - 1) + 1 = k
      OBVIOUS
    <3> QED BY <2>1, <3>1, MaxNew
  <2>3. (1 .. k) \ {k} = 1 .. k - 1
    OBVIOUS
  <2>4. it[1 .. k] = Apply(q[Max(1 .. k)], conf, it[(1 .. k) \ {Max(1 .. k)}])
    BY <1>1, <2>1
  <2>5. it[1 .. k] = Apply(q[k], conf, it[1 .. k - 1])
    BY <2>2, <2>3, <2>4
  <2>6. f[k] = it[1 .. k] /\ f[k - 1] = it[1 .. k - 1]
    OBVIOUS
  <2> QED BY <2>5, <2>6
<1>4. f[n] = Load(q, conf, r)
  BY <1>a, LoadIterIs DEF it
<1> HIDE DEF f
<1>5. Loading(f, q, conf, r)
  BY <1>2, <1>3, <1>4 DEF Loading, n
<1> QED BY <1>5

RegsType(rs, g) == DOMAIN g = rs /\ \A r \in rs : g[r] \subseteq Word

LEMMA ApplyType ==
    ASSUME NEW c, NEW conf, NEW rs, NEW g, RegsType(rs, g)
    PROVE  RegsType(rs, Apply(c, conf, g))
<1>1. DOMAIN Apply(c, conf, g) = rs
  BY DEF Apply, RegsType
<1>2. ASSUME NEW r \in rs PROVE Apply(c, conf, g)[r] \subseteq Word
  <2>1. \A x, v : Put(x, v) \subseteq Word
    BY DEF Put
  <2> QED BY <2>1 DEF Apply, RegsType
<1> QED BY <1>1, <1>2 DEF RegsType

LEMMA LoadType ==
    ASSUME NEW q, IsSeq(q), NEW conf, NEW rs, NEW r, RegsType(rs, r)
    PROVE  RegsType(rs, Load(q, conf, r))
<1>1. PICK g : Loading(g, q, conf, r)
  BY LoadSteps
<1> DEFINE n == Len(q)
           T == {k \in Nat : RegsType(rs, g[k])}
<1>2. n \in Nat /\ n \in 0 .. n
  BY DEF IsSeq
<1>3. 0 \in T
  BY <1>1 DEF Loading
<1>4. ASSUME NEW k \in 0 .. n - 1, k \in T PROVE k + 1 \in T
  <2>1. k + 1 \in 1 .. Len(q) /\ (k + 1) - 1 = k
    BY <1>2
  <2>2. g[k + 1] = Apply(q[k + 1], conf, g[k])
    BY <1>1, <2>1 DEF Loading
  <2> QED BY <1>4, <2>2, ApplyType
<1> HIDE DEF T
<1>5. n \in T
  BY <1>2, <1>3, <1>4, SetInduction
<1> QED BY <1>1, <1>5 DEF T, Loading

-----------------------------------------------------------------------------
(* What a field holds after the download *)

\* The setting of x and those it shares a register with fit their fields.
FitsIn(fs, x, conf) ==
    \A y \in fs : y.reg = x.reg /\ Kept(y) => conf[y.slot][y.col] \in Int /\ Fits(y, conf[y.slot][y.col])
InPlace(x, conf, g) == g[x.reg] \cap Span(x) = Put(x, conf[x.slot][x.col]) \cap Span(x)

LEMMA BesidePut ==
    ASSUME NEW fs, NEW x, NEW y \in fs, NEW conf, FitsIn(fs, x, conf),
           y.reg = x.reg, Beside(y, x), FieldOK(y), TopOK(y)
    PROVE  Put(y, conf[y.slot][y.col]) \cap Span(x) = {}
<1> DEFINE v == conf[y.slot][y.col]
<1>1. v \in Int /\ Fits(y, v) /\ (y.signed => y.cut)
  BY DEF FitsIn, Beside
<1> HIDE DEF v
<1>2. Put(y, v) \subseteq Span(y)
  BY <1>1, PutFit
<1> QED BY <1>2 DEF Beside, v

\* The setter of a field puts its setting there.
LEMMA ApplyPuts ==
    ASSUME NEW c, NEW rs, NEW fams, CallOK(c, rs, fams), NEW fs, c.fields \subseteq fs,
           NEW x \in c.fields, Kept(x), NEW conf, FitsIn(fs, x, conf),
           NEW g, rs \subseteq DOMAIN g
    PROVE  InPlace(x, conf, Apply(c, conf, g))
<1> DEFINE P(y) == Put(y, conf[y.slot][y.col])
           r == x.reg
<1>1. r \in DOMAIN g /\ r \in DOMAIN c.clear /\ Span(x) \subseteq c.clear[r]
  BY DEF CallOK
<1>2. Apply(c, conf, g)[r] = (g[r] \ c.clear[r]) \union UNION {P(y) : y \in {z \in c.fields : z.reg = r}}
  BY <1>1 DEF Apply
<1>3. ASSUME NEW y \in c.fields, y.reg = r, y # x PROVE P(y) \cap Span(x) = {}
  <2>1. Beside(y, x) /\ FieldOK(y) /\ y \in fs
    BY <1>3 DEF CallOK
  <2>2. TopOK(y)
    BY <2>1 DEF CallOK, Beside
  <2> QED BY <1>3, <2>1, <2>2, BesidePut
<1> HIDE DEF P
<1>4. Apply(c, conf, g)[r] \cap Span(x) = P(x) \cap Span(x)
  BY <1>1, <1>2, <1>3
<1> QED BY <1>4 DEF InPlace, P

\* A setter that spares a field leaves it as it was, or puts the setting there.
LEMMA ApplySpares ==
    ASSUME NEW c, NEW rs, NEW fams, CallOK(c, rs, fams), NEW fs, c.fields \subseteq fs,
           NEW x, Kept(x), Spares(c, x), NEW conf, FitsIn(fs, x, conf),
           NEW g, rs \subseteq DOMAIN g, x.reg \in DOMAIN g, InPlace(x, conf, g)
    PROVE  InPlace(x, conf, Apply(c, conf, g))
<1> DEFINE P(y) == Put(y, conf[y.slot][y.col])
           r == x.reg
<1>1. CASE x \in c.fields
  BY <1>1, ApplyPuts
<1>2. CASE r \notin DOMAIN c.clear
  <2>1. Apply(c, conf, g)[r] = g[r]
    BY <1>2 DEF Apply
  <2> QED BY <2>1 DEF InPlace
<1>3. CASE /\ r \in DOMAIN c.clear /\ c.clear[r] \cap Span(x) = {}
           /\ \A y \in c.fields : y.reg = r => Beside(y, x)
  <2>1. Apply(c, conf, g)[r] =
            (g[r] \ c.clear[r]) \union UNION {P(y) : y \in {z \in c.fields : z.reg = r}}
    BY <1>3 DEF Apply
  <2>2. ASSUME NEW y \in c.fields, y.reg = r PROVE P(y) \cap Span(x) = {}
    <3>1. Beside(y, x) /\ FieldOK(y) /\ y \in fs
      BY <1>3, <2>2 DEF CallOK
    <3>2. TopOK(y)
      BY <3>1 DEF CallOK, Beside
    <3> QED BY <2>2, <3>1, <3>2, BesidePut
  <2> HIDE DEF P
  <2>3. Apply(c, conf, g)[r] \cap Span(x) = g[r] \cap Span(x)
    BY <1>3, <2>1, <2>2
  <2> QED BY <2>3 DEF InPlace
<1> QED BY <1>1, <1>2, <1>3 DEF Spares

LEMMA LoadPuts ==
    ASSUME NEW q, NEW rs, NEW fams, CallsOK(q, rs, fams), NEW conf, NEW r, RegsType(rs, r),
           NEW x \in FieldsIn(q), Kept(x), FitsIn(FieldsIn(q), x, conf)
    PROVE  InPlace(x, conf, Load(q, conf, r))
<1> DEFINE n == Len(q)
<1>1. n \in Nat /\ n \in 0 .. n /\ DOMAIN q = 1 .. n /\ IsSeq(q)
  BY DEF CallsOK, IsSeq
<1>2. PICK g : Loading(g, q, conf, r)
  BY <1>1, LoadSteps
<1>3. PICK i \in 1 .. n : x \in q[i].fields
  BY <1>1 DEF FieldsIn
<1> DEFINE T == {k \in Nat : RegsType(rs, g[k]) /\ (k >= i => InPlace(x, conf, g[k]))}
<1>4. 0 \in T
  BY <1>2 DEF Loading
<1>5. ASSUME NEW k \in 0 .. n - 1, k \in T PROVE k + 1 \in T
  <2>1. k + 1 \in 1 .. n /\ (k + 1) - 1 = k
    BY <1>1
  <2> DEFINE c == q[k + 1]
  <2>2. g[k + 1] = Apply(c, conf, g[k])
    BY <1>2, <2>1 DEF Loading
  <2>3. CallOK(c, rs, fams) /\ CallOK(q[i], rs, fams)
    BY <2>1 DEF CallsOK
  <2>4. c.fields \subseteq FieldsIn(q)
    BY <1>1, <2>1 DEF FieldsIn
  <2>5. RegsType(rs, g[k + 1])
    BY <1>5, <2>2, ApplyType
  <2>6. DOMAIN g[k] = rs
    BY <1>5 DEF RegsType
  <2>7. CASE k + 1 = i
    <3>1. x \in c.fields
      BY <1>3, <2>7
    <3>2. InPlace(x, conf, Apply(c, conf, g[k]))
      <4> HIDE DEF c
      <4> QED BY <2>3, <2>4, <2>6, <3>1, ApplyPuts
    <3> QED BY <2>1, <2>2, <2>5, <3>2
  <2>8. CASE k >= i
    <3>1. Cross(q[i], c)
      BY <2>1, <2>8 DEF CallsOK
    <3>2. Spares(c, x)
      BY <1>3, <3>1 DEF Cross
    <3>3. InPlace(x, conf, g[k]) /\ x.reg \in rs
      BY <1>3, <1>5, <2>3, <2>8 DEF CallOK
    <3>4. InPlace(x, conf, Apply(c, conf, g[k]))
      <4> HIDE DEF c
      <4> QED BY <2>3, <2>4, <2>6, <3>2, <3>3, ApplySpares
    <3> QED BY <2>1, <2>2, <2>5, <3>4
  <2>9. CASE k + 1 < i
    BY <2>1, <2>5, <2>9
  <2> QED BY <1>3, <2>7, <2>8, <2>9
<1> HIDE DEF T
<1>6. n \in T
  BY <1>1, <1>4, <1>5, SetInduction
<1>7. InPlace(x, conf, g[n])
  BY <1>3, <1>6 DEF T
<1> QED BY <1>2, <1>7 DEF Loading

-----------------------------------------------------------------------------
(* What the setters write *)

FieldNames == {"slot", "col", "reg", "lo", "n", "unit", "bias", "zero", "top", "min", "max",
               "cut", "flag", "signed"}
\* n bits from bit lo of register r, for column c of slot s.
At(x, s, c, r, lo, n) ==
    /\ DOMAIN x = FieldNames /\ FieldOK(x) /\ TopOK(x) /\ (x.signed => x.cut)
    /\ x.slot = s /\ x.col = c /\ x.reg = r /\ x.lo = lo /\ x.n = n
\* A number, that the setter may limit, divide and mask.
NumAt(x, s, c, r, lo, n) == At(x, s, c, r, lo, n) /\ ~x.flag /\ ~x.signed /\ x.top = 0

LEMMA FAt ==
    ASSUME NEW s, NEW c, NEW r, NEW lo \in 0 .. 31, NEW n \in 1 .. 31, lo + n <= 32
    PROVE  NumAt(F(s, c, r, lo, n), s, c, r, lo, n)
BY DEF NumAt, At, F, FieldNames, FieldOK, TopOK, Huge
LEMMA PlainAt == ASSUME NEW s, NEW c, NEW r PROVE NumAt(Plain(s, c, r), s, c, r, 0, 31)
BY FAt DEF Plain
LEMMA ClampAt ==
    ASSUME NEW f, NEW s, NEW c, NEW r, NEW lo, NEW n, NumAt(f, s, c, r, lo, n),
           NEW a \in Int, NEW b \in Int, b <= Huge
    PROVE  NumAt(Clamp(f, a, b), s, c, r, lo, n)
<1>1. FieldOK(Clamp(f, a, b))
  BY DEF NumAt, At, Clamp, FieldNames, FieldOK
<1> QED BY <1>1 DEF NumAt, At, Clamp, FieldNames, TopOK
LEMMA PerAt ==
    ASSUME NEW f, NEW s, NEW c, NEW r, NEW lo, NEW n, NumAt(f, s, c, r, lo, n), NEW u \in Nat \ {0}
    PROVE  NumAt(Per(f, u), s, c, r, lo, n)
<1>1. FieldOK(Per(f, u))
  BY DEF NumAt, At, Per, FieldNames, FieldOK
<1> QED BY <1>1 DEF NumAt, At, Per, FieldNames, TopOK
LEMMA CutAt ==
    ASSUME NEW f, NEW s, NEW c, NEW r, NEW lo, NEW n, NumAt(f, s, c, r, lo, n)
    PROVE  NumAt(Cut(f), s, c, r, lo, n)
<1>1. FieldOK(Cut(f))
  BY DEF NumAt, At, Cut, FieldNames, FieldOK
<1> QED BY <1>1 DEF NumAt, At, Cut, FieldNames, TopOK
LEMMA FlagAt ==
    ASSUME NEW s, NEW c, NEW r, NEW b \in 0 .. 31
    PROVE  At(Flag(F(s, c, r, b, 1)), s, c, r, b, 1)
<1> DEFINE f == F(s, c, r, b, 1)
<1>1. NumAt(f, s, c, r, b, 1) /\ f.unit = 1
  <2>1. f.unit = 1
    BY DEF F
  <2>2. 1 \in 1 .. 31 /\ b + 1 <= 32
    OBVIOUS
  <2> QED BY <2>1, <2>2, FAt
<1> HIDE DEF f
<1>2. FieldOK(Flag(f))
  BY <1>1 DEF NumAt, At, Flag, FieldNames, FieldOK
<1> QED BY <1>1, <1>2 DEF NumAt, At, Flag, FieldNames, TopOK, f
LEMMA EnableAt ==
    ASSUME NEW kind, NEW key, NEW i, NEW c, NEW r, NEW b \in 0 .. 31
    PROVE  At(Enable(kind, key, i, c, r, b), <<kind, key, i>>, c, <<"Ctrl", r>>, b, 1)
BY FlagAt DEF Enable

LEMMA SlotOf ==
    ASSUME NEW fam \in DOMAIN Keys, NEW key, NEW n, NEW m, <<key, n, m>> \in Keys[fam],
           NEW i \in 0 .. n - 1, NEW c \in 1 .. m, NEW x, x.slot = <<fam, key, i>>, x.col = c
    PROVE  SlotIn(x, {fam})
<1> DEFINE k == <<key, n, m>>
<1>1. k \in Keys[fam] /\ i \in 0 .. k[2] - 1 /\ k[1] = key /\ k[3] = m
  OBVIOUS
<1> HIDE DEF k
<1> QED BY <1>1 DEF SlotIn

\* The families.
LEMMA KeysOf ==
    /\ DOMAIN Keys = {"VTP", "EC", "PC", "HTCC", "FTOF", "CND", "PCS", "ECS", "GT", "DC", "HCAL", "FTCAL",
                      "FTHODO", "HPS", "CALIB", "SINGLE", "PAIR", "MULT", "FEE", "COMPTON", "STREAMING", "ROC"}
    /\ Keys["VTP"] = CommonKeys /\ Keys["EC"] = EcKeys /\ Keys["PC"] = PcKeys /\ Keys["HTCC"] = HtccKeys
    /\ Keys["FTOF"] = CounterKeys /\ Keys["CND"] = CounterKeys /\ Keys["PCS"] = PcsKeys
    /\ Keys["ECS"] = EcsKeys /\ Keys["GT"] = GtKeys /\ Keys["DC"] = DcKeys /\ Keys["HCAL"] = HcalKeys
    /\ Keys["FTCAL"] = FtcalKeys /\ Keys["FTHODO"] = FthodoKeys /\ Keys["HPS"] = HpsKeys
    /\ Keys["CALIB"] = CalibKeys /\ Keys["SINGLE"] = SingleKeys /\ Keys["PAIR"] = PairKeys
    /\ Keys["MULT"] = MultKeys /\ Keys["FEE"] = FeeKeys /\ Keys["COMPTON"] = ComptonKeys
    /\ Keys["STREAMING"] = StreamingKeys /\ Keys["ROC"] = RocKeys
BY DEF Keys

-----------------------------------------------------------------------------
(* Fields as the setters make them *)

Within(lo, n) == lo \in 0 .. 31 /\ n \in 1 .. 31 /\ lo + n <= 32
Limits(a, b) == a \in Int /\ b \in Int /\ b <= Huge
Unit(u) == u \in Nat \ {0}
\* The family has a setting with this key, with n rows and m columns; row i
\* and column c are among them.
Has(fam, key, n, m) == fam \in DOMAIN Keys /\ <<key, n, m>> \in Keys[fam]
SlotAt(fam, key, i, c) == \E n, m : Has(fam, key, n, m) /\ i \in 0 .. n - 1 /\ c \in 1 .. m
LEMMA SlotAtIn ==
    ASSUME NEW fam, NEW key, NEW i, NEW c, SlotAt(fam, key, i, c),
           NEW x, x.slot = <<fam, key, i>>, x.col = c
    PROVE  SlotIn(x, {fam})
<1>1. PICK n, m : fam \in DOMAIN Keys /\ <<key, n, m>> \in Keys[fam] /\ i \in 0 .. n - 1 /\ c \in 1 .. m
  BY DEF SlotAt, Has
<1> QED BY <1>1, SlotOf

\* n bits from bit lo of register r, for column c of slot <<fam, key, i>>.
AtIn(x, fam, key, i, c, r, lo, n) == At(x, <<fam, key, i>>, c, r, lo, n) /\ SlotAt(fam, key, i, c)
LEMMA Field1 ==
    ASSUME NEW fam, NEW key, NEW i, NEW c, NEW r, NEW lo, NEW n, Within(lo, n), SlotAt(fam, key, i, c)
    PROVE  AtIn(F(<<fam, key, i>>, c, r, lo, n), fam, key, i, c, r, lo, n)
BY FAt DEF AtIn, NumAt, Within
LEMMA FieldCut ==
    ASSUME NEW fam, NEW key, NEW i, NEW c, NEW r, NEW lo, NEW n, Within(lo, n), SlotAt(fam, key, i, c)
    PROVE  AtIn(Cut(F(<<fam, key, i>>, c, r, lo, n)), fam, key, i, c, r, lo, n)
BY FAt, CutAt DEF AtIn, NumAt, Within
LEMMA FieldPlain ==
    ASSUME NEW fam, NEW key, NEW i, NEW c, NEW r, SlotAt(fam, key, i, c)
    PROVE  AtIn(Plain(<<fam, key, i>>, c, r), fam, key, i, c, r, 0, 31)
BY PlainAt DEF AtIn, NumAt
LEMMA FieldPlainPer ==
    ASSUME NEW fam, NEW key, NEW i, NEW c, NEW r, NEW u, Unit(u), SlotAt(fam, key, i, c)
    PROVE  AtIn(Per(Plain(<<fam, key, i>>, c, r), u), fam, key, i, c, r, 0, 31)
BY PlainAt, PerAt DEF AtIn, NumAt, Unit
LEMMA FieldPlainClamp ==
    ASSUME NEW fam, NEW key, NEW i, NEW c, NEW r, NEW a, NEW b, Limits(a, b), SlotAt(fam, key, i, c)
    PROVE  AtIn(Clamp(Plain(<<fam, key, i>>, c, r), a, b), fam, key, i, c, r, 0, 31)
BY PlainAt, ClampAt DEF AtIn, NumAt, Limits
LEMMA FieldClamp ==
    ASSUME NEW fam, NEW key, NEW i, NEW c, NEW r, NEW lo, NEW n, Within(lo, n), SlotAt(fam, key, i, c),
           NEW a, NEW b, Limits(a, b)
    PROVE  AtIn(Clamp(F(<<fam, key, i>>, c, r, lo, n), a, b), fam, key, i, c, r, lo, n)
BY FAt, ClampAt DEF AtIn, NumAt, Within, Limits
LEMMA NumPer ==
    ASSUME NEW s, NEW c, NEW r, NEW lo, NEW n, Within(lo, n), NEW u, Unit(u)
    PROVE  NumAt(Per(F(s, c, r, lo, n), u), s, c, r, lo, n)
BY FAt, PerAt DEF Within, Unit
LEMMA FieldCutPer ==
    ASSUME NEW fam, NEW key, NEW i, NEW c, NEW r, NEW lo, NEW n, Within(lo, n), SlotAt(fam, key, i, c),
           NEW u, Unit(u)
    PROVE  AtIn(Cut(Per(F(<<fam, key, i>>, c, r, lo, n), u)), fam, key, i, c, r, lo, n)
<1> DEFINE f == Per(F(<<fam, key, i>>, c, r, lo, n), u)
           s == <<fam, key, i>>
<1>1. NumAt(f, s, c, r, lo, n)
  BY NumPer
<1> HIDE DEF f, s
<1>2. NumAt(Cut(f), s, c, r, lo, n)
  BY <1>1, CutAt
<1> QED BY <1>2 DEF f, s, AtIn, NumAt
LEMMA FieldClampPer ==
    ASSUME NEW fam, NEW key, NEW i, NEW c, NEW r, NEW lo, NEW n, Within(lo, n), SlotAt(fam, key, i, c),
           NEW u, Unit(u), NEW a, NEW b, Limits(a, b)
    PROVE  AtIn(Clamp(Per(F(<<fam, key, i>>, c, r, lo, n), u), a, b), fam, key, i, c, r, lo, n)
<1> DEFINE f == Per(F(<<fam, key, i>>, c, r, lo, n), u)
           s == <<fam, key, i>>
<1>1. NumAt(f, s, c, r, lo, n)
  BY NumPer
<1> HIDE DEF f, s
<1>2. NumAt(Clamp(f, a, b), s, c, r, lo, n)
  BY <1>1, ClampAt DEF Limits
<1> QED BY <1>2 DEF f, s, AtIn, NumAt
LEMMA FieldEnable ==
    ASSUME NEW fam, NEW key, NEW i, NEW c, NEW r, NEW b, Within(b, 1), SlotAt(fam, key, i, c)
    PROVE  AtIn(Enable(fam, key, i, c, r, b), fam, key, i, c, <<"Ctrl", r>>, b, 1)
BY EnableAt DEF AtIn, Within
LEMMA FieldFlag ==
    ASSUME NEW fam, NEW key, NEW i, NEW c, NEW r, NEW b, Within(b, 1), SlotAt(fam, key, i, c)
    PROVE  AtIn(Flag(F(<<fam, key, i>>, c, r, b, 1)), fam, key, i, c, r, b, 1)
BY FlagAt DEF AtIn, Within

-----------------------------------------------------------------------------
(* Fields of some registers *)

\* Fields that one setter writes, in whole registers.
Group(fs, rs, fams) ==
    \A x \in fs :
        /\ FieldOK(x) /\ SlotIn(x, fams) /\ x.reg \in rs
        /\ Kept(x) => TopOK(x) /\ \A y \in fs : y.reg = x.reg /\ y # x => Beside(y, x)

LEMMA WholeOK ==
    ASSUME NEW fs, NEW rs, NEW fams, Group(fs, rs, fams)
    PROVE  CallOK(Whole(fs), rs, fams)
<1>1. DOMAIN Whole(fs).clear = {x.reg : x \in fs} /\ Whole(fs).fields = fs
  BY DEF Whole
<1>2. \A r \in {x.reg : x \in fs} : Whole(fs).clear[r] = Word
  BY DEF Whole
<1>3. \A x \in fs : Span(x) \subseteq Word
  BY DEF Group, FieldOK, Span, Word
<1> QED BY <1>1, <1>2, <1>3 DEF CallOK, Group

LEMMA RmwOK ==
    ASSUME NEW f, NEW rs, NEW fams, Group({f}, rs, fams)
    PROVE  CallOK(Rmw(f), rs, fams)
<1>1. DOMAIN Rmw(f).clear = {f.reg} /\ Rmw(f).clear[f.reg] = Span(f) /\ Rmw(f).fields = {f}
  BY DEF Rmw, Only
<1> QED BY <1>1 DEF CallOK, Group

\* One field, or one field in each register.
LEMMA GroupOne ==
    ASSUME NEW x, NEW fam, NEW key, NEW i, NEW c, NEW r, NEW lo, NEW n, AtIn(x, fam, key, i, c, r, lo, n),
           NEW fams, fam \in fams
    PROVE  Group({x}, {r}, fams)
<1>1. SlotIn(x, {fam})
  BY SlotAtIn DEF AtIn, At
<1>2. SlotIn(x, fams)
  BY <1>1 DEF SlotIn
<1> QED BY <1>2 DEF Group, AtIn, At

LEMMA GroupJoin ==
    ASSUME NEW fs, NEW gs, NEW rs, NEW ss, NEW fams, Group(fs, rs, fams), Group(gs, ss, fams), rs \cap ss = {}
    PROVE  Group(fs \union gs, rs \union ss, fams)
BY DEF Group

\* Fields beside each other.
LEMMA GroupBeside ==
    ASSUME NEW fs, NEW rs, NEW fams,
           \A x \in fs : \E fam \in fams : \E key, i, c, lo, n : \E r \in rs : AtIn(x, fam, key, i, c, r, lo, n),
           \A x, y \in fs : y.reg = x.reg /\ y # x => Kept(y) /\ Span(y) \cap Span(x) = {}
    PROVE  Group(fs, rs, fams)
<1>1. \A x \in fs : FieldOK(x) /\ TopOK(x) /\ (x.signed => x.cut) /\ SlotIn(x, fams) /\ x.reg \in rs
  <2>1. SUFFICES ASSUME NEW x \in fs
                 PROVE  FieldOK(x) /\ TopOK(x) /\ (x.signed => x.cut) /\ SlotIn(x, fams) /\ x.reg \in rs
    OBVIOUS
  <2>1a. PICK fam \in fams : \E key, i, c, lo, n : \E r \in rs : AtIn(x, fam, key, i, c, r, lo, n)
    OBVIOUS
  <2>1b. PICK key, i, c, lo, n : \E r \in rs : AtIn(x, fam, key, i, c, r, lo, n)
    BY <2>1a
  <2>2. PICK r \in rs : AtIn(x, fam, key, i, c, r, lo, n)
    BY <2>1b
  <2>3. SlotIn(x, {fam})
    BY <2>2, SlotAtIn DEF AtIn, At
  <2>4. SlotIn(x, fams)
    BY <2>3 DEF SlotIn
  <2> QED BY <2>2, <2>4 DEF AtIn, At
<1> QED BY <1>1 DEF Group, Beside

\* Setters that keep the rest of a register.
LEMMA RmwCross ==
    ASSUME NEW f, NEW g, f.reg = g.reg => Beside(g, f)
    PROVE  Cross(Rmw(f), Rmw(g))
<1>1. \A h : DOMAIN Rmw(h).clear = {h.reg} /\ Rmw(h).clear[h.reg] = Span(h) /\ Rmw(h).fields = {h}
  BY DEF Rmw, Only
<1> QED BY <1>1 DEF Cross, Spares, Beside

LEMMA HasSlot ==
    ASSUME NEW fam, NEW key, NEW n, NEW m, Has(fam, key, n, m), NEW i \in 0 .. n - 1, NEW c \in 1 .. m
    PROVE  SlotAt(fam, key, i, c)
BY DEF SlotAt
LEMMA WholeOne ==
    ASSUME NEW x, NEW fam, NEW key, NEW i, NEW c, NEW r, NEW lo, NEW n, AtIn(x, fam, key, i, c, r, lo, n),
           NEW fams, fam \in fams
    PROVE  CallOK(Whole({x}), {r}, fams)
BY GroupOne, WholeOK
LEMMA RmwOne ==
    ASSUME NEW x, NEW fam, NEW key, NEW i, NEW c, NEW r, NEW lo, NEW n, AtIn(x, fam, key, i, c, r, lo, n),
           NEW fams, fam \in fams
    PROVE  CallOK(Rmw(x), {r}, fams)
BY GroupOne, RmwOK
\* Two fields beside each other in a register.
Safe(fam, key) == <<fam, key>> \notin Lost
Before(lo1, n1, lo2, n2) == lo1 \in Int /\ n1 \in Int /\ lo2 \in Int /\ n2 \in Int /\ lo1 + n1 <= lo2
LEMMA AllSafe == \A fam, key : fam \notin {"FTCAL", "HCAL", "COMPTON"} => Safe(fam, key)
BY DEF Safe, Lost
LEMMA TwoBeside ==
    ASSUME NEW x, NEW y, NEW fam, NEW key1, NEW key2, NEW i, NEW c1, NEW c2, NEW r,
           NEW lo1, NEW n1, NEW lo2, NEW n2, Before(lo1, n1, lo2, n2),
           AtIn(x, fam, key1, i, c1, r, lo1, n1), AtIn(y, fam, key2, i, c2, r, lo2, n2),
           Safe(fam, key1), Safe(fam, key2)
    PROVE  /\ Beside(x, y) /\ Beside(y, x)
           /\ \A fams : fam \in fams => Group({x, y}, {r}, fams)
<1>1. Kept(x) /\ Kept(y)
  BY DEF Kept, KeyOf, AtIn, At, Safe
<1>2. Span(x) \cap Span(y) = {}
  BY DEF Span, AtIn, At, Before
<1>3. (x.signed => x.cut) /\ (y.signed => y.cut)
  BY DEF AtIn, At
<1>4. Beside(x, y) /\ Beside(y, x)
  BY <1>1, <1>2, <1>3 DEF Beside
<1>5. ASSUME NEW fams, fam \in fams PROVE Group({x, y}, {r}, fams)
  <2>1. Group({x}, {r}, fams) /\ Group({y}, {r}, fams)
    BY <1>5, GroupOne
  <2> QED BY <1>4, <2>1 DEF Group
<1> QED BY <1>4, <1>5
LEMMA TwoWhole ==
    ASSUME NEW x, NEW y, NEW fam, NEW key1, NEW key2, NEW i, NEW c1, NEW c2, NEW r,
           NEW lo1, NEW n1, NEW lo2, NEW n2, Before(lo1, n1, lo2, n2),
           AtIn(x, fam, key1, i, c1, r, lo1, n1), AtIn(y, fam, key2, i, c2, r, lo2, n2),
           Safe(fam, key1), Safe(fam, key2), NEW fams, fam \in fams
    PROVE  CallOK(Whole({x, y}), {r}, fams)
BY TwoBeside, WholeOK
LEMMA TwoRmw ==
    ASSUME NEW x, NEW y, NEW fam, NEW key1, NEW key2, NEW i, NEW c1, NEW c2, NEW r,
           NEW lo1, NEW n1, NEW lo2, NEW n2, Before(lo1, n1, lo2, n2),
           AtIn(x, fam, key1, i, c1, r, lo1, n1), AtIn(y, fam, key2, i, c2, r, lo2, n2),
           Safe(fam, key1), Safe(fam, key2), NEW fams, fam \in fams
    PROVE  CallsOK(<<Rmw(x), Rmw(y)>>, {r}, fams)
<1>1. Beside(y, x)
  BY TwoBeside
<1>2. CallOK(Rmw(x), {r}, fams) /\ CallOK(Rmw(y), {r}, fams)
  BY RmwOne
<1> QED BY <1>1, <1>2, RmwCross, TwoCalls

\* Two fields in registers of their own.
LEMMA TwoApart ==
    ASSUME NEW x, NEW y, NEW fam, NEW key1, NEW key2, NEW i1, NEW i2, NEW c1, NEW c2, NEW r1, NEW r2,
           NEW lo1, NEW n1, NEW lo2, NEW n2,
           AtIn(x, fam, key1, i1, c1, r1, lo1, n1), AtIn(y, fam, key2, i2, c2, r2, lo2, n2), r1 # r2,
           NEW fams, fam \in fams
    PROVE  CallOK(Whole({x, y}), {r1, r2}, fams)
<1>1. Group({x}, {r1}, fams) /\ Group({y}, {r2}, fams) /\ {r1} \cap {r2} = {}
  BY GroupOne
<1>2. Group({x} \union {y}, {r1} \union {r2}, fams)
  BY <1>1, GroupJoin
<1>3. {x} \union {y} = {x, y} /\ {r1} \union {r2} = {r1, r2}
  OBVIOUS
<1> QED BY <1>2, <1>3, WholeOK
\* A field for each column, in registers of their own.
EachAt(fs, S, f, R, rs, fam, key, i, lo, n) ==
    /\ \A c \in S : AtIn(f[c], fam, key, i, c, R[c], lo, n)
    /\ \A c, d \in S : R[c] = R[d] => c = d
    /\ \A x \in fs : \E c \in S : x = f[c]
    /\ \A c \in S : R[c] \in rs
LEMMA EachColumn ==
    ASSUME NEW fs, NEW S, NEW f, NEW R, NEW rs, NEW fam, NEW key, NEW i, NEW lo, NEW n,
           EachAt(fs, S, f, R, rs, fam, key, i, lo, n), NEW fams, fam \in fams
    PROVE  CallOK(Whole(fs), rs, fams)
<1> USE DEF EachAt
<1>1. \A c \in S : Group({f[c]}, {R[c]}, fams)
  BY GroupOne
<1>2. \A c \in S : f[c].reg = R[c]
  BY DEF AtIn, At
<1>3. \A x \in fs : \A y \in fs : y.reg = x.reg => y = x
  BY <1>2
<1>4. \A x \in fs : Group({x}, rs, fams)
  BY <1>1 DEF Group
<1>5. Group(fs, rs, fams)
  BY <1>3, <1>4 DEF Group
<1> QED BY <1>5, WholeOK

-----------------------------------------------------------------------------
(* Every firmware *)

LEMMA CommonSlots ==
    /\ SlotAt("VTP", "W_OFFSET", 0, 1) /\ SlotAt("VTP", "W_WIDTH", 0, 1)
    /\ SlotAt("VTP", "PAYLOAD_EN", 0, 1) /\ SlotAt("VTP", "FIBER_EN", 0, 1)
<1>1. /\ Has("VTP", "W_OFFSET", 1, 1) /\ Has("VTP", "W_WIDTH", 1, 1)
      /\ Has("VTP", "PAYLOAD_EN", 1, 1) /\ Has("VTP", "FIBER_EN", 1, 1)
  BY KeysOf DEF Has, CommonKeys
<1> QED BY <1>1, HasSlot

LEMMA WindowOK ==
    ASSUME NEW h
    PROVE  CallOK(Window(h), {The("ebLookback"), The("ebWidth")}, {"VTP"})
<1> DEFINE u == IF h = "DC" THEN 8 ELSE 4
           r1 == The("ebLookback")
           r2 == The("ebWidth")
           e1 == Per(Plain(<<"VTP", "W_OFFSET", 0>>, 1, r1), u)
           e2 == Per(Plain(<<"VTP", "W_WIDTH", 0>>, 1, r2), u)
<1>1. Unit(u) /\ r1 # r2
  BY DEF Unit, The
<1>2. Window(h) = Whole({e1, e2})
  BY DEF Window
<1> HIDE DEF u, r1, r2
<1>3. AtIn(e1, "VTP", "W_OFFSET", 0, 1, r1, 0, 31) /\ AtIn(e2, "VTP", "W_WIDTH", 0, 1, r2, 0, 31)
  BY <1>1, CommonSlots, FieldPlainPer
<1> HIDE DEF e1, e2
<1>4. CallOK(Whole({e1, e2}), {r1, r2}, {"VTP"})
  BY <1>1, <1>3, TwoApart
<1> QED BY <1>2, <1>4 DEF r1, r2

LEMMA PayloadOK ==
    ASSUME NEW h
    PROVE  CallsOK(PayloadMask(h), {The("decoder")}, {"VTP"})
<1> DEFINE e == F(<<"VTP", "PAYLOAD_EN", 0>>, 1, The("decoder"), 0, 16)
           r == The("decoder")
<1>1. Within(0, 16)
  BY DEF Within
<1>2. AtIn(e, "VTP", "PAYLOAD_EN", 0, 1, r, 0, 16)
  BY <1>1, CommonSlots, Field1
<1>3. PayloadMask(h) = IF h = "FADCSTREAM" THEN <<>> ELSE <<Whole({e})>>
  BY DEF PayloadMask
<1> HIDE DEF e, r
<1>4. CallOK(Whole({e}), {r}, {"VTP"})
  BY <1>2, WholeOne
<1>5. CallsOK(<<>>, {r}, {"VTP"}) /\ CallsOK(<<Whole({e})>>, {r}, {"VTP"})
  BY <1>4, NoCall, OneCall
<1> QED BY <1>3, <1>5 DEF r

LEMMA FadcSumOK ==
    ASSUME NEW fam \in {"EC", "PC", "ECS", "FTCAL"}
    PROVE  CallOK(FadcSum(fam), {<<"fadcSum", k>> : k \in 0 .. 7}, {fam})
<1> DEFINE f(c) == Cut(F(<<fam, "FADCSUM_CH", 0>>, c, <<"fadcSum", (c - 1) \div 2>>, 16 * ((c - 1) % 2), 16))
           R(c) == <<"fadcSum", (c - 1) \div 2>>
           lo(c) == 16 * ((c - 1) % 2)
           fs == {f(c) : c \in 1 .. 16}
<1>1. \A c \in 1 .. 16 : Within(lo(c), 16)
  BY DEF Within
<1>2. \A c \in 1 .. 16 : SlotAt(fam, "FADCSUM_CH", 0, c)
  <2>1. Has(fam, "FADCSUM_CH", 1, 16)
    BY KeysOf DEF Has, EcKeys, PcKeys, EcsKeys, FtcalKeys
  <2> QED BY <2>1, HasSlot
<1>3. \A c \in 1 .. 16 : AtIn(f(c), fam, "FADCSUM_CH", 0, c, R(c), lo(c), 16)
  <2> HIDE DEF R, lo
  <2>1. \A c \in 1 .. 16 : f(c) = Cut(F(<<fam, "FADCSUM_CH", 0>>, c, R(c), lo(c), 16))
    BY DEF R, lo
  <2> HIDE DEF f
  <2> QED BY <1>1, <1>2, <2>1, FieldCut
<1>4. \A c \in 1 .. 16 : R(c) \in {<<"fadcSum", k>> : k \in 0 .. 7}
  OBVIOUS
<1>5. \A c, d \in 1 .. 16 : R(c) = R(d) /\ c # d => (lo(c) = 0 /\ lo(d) = 16) \/ (lo(c) = 16 /\ lo(d) = 0)
  OBVIOUS
<1>6. FadcSum(fam) = Whole(fs)
  BY DEF FadcSum
<1> HIDE DEF f, R, lo
<1>7. Group(fs, {<<"fadcSum", k>> : k \in 0 .. 7}, {fam})
  <2> DEFINE rs == {<<"fadcSum", k>> : k \in 0 .. 7}
  <2> HIDE DEF rs
  <2>1. \A x \in fs : \E c \in 1 .. 16 : x = f(c) /\ AtIn(x, fam, "FADCSUM_CH", 0, c, R(c), lo(c), 16) /\ R(c) \in rs
    BY <1>3, <1>4 DEF rs
  <2>2. ASSUME NEW x \in fs
        PROVE  \E gam \in {fam} : \E key, i, c, l, n : \E r \in rs : AtIn(x, gam, key, i, c, r, l, n)
    BY <2>1
  <2>3. ASSUME NEW x \in fs, NEW y \in fs, y.reg = x.reg, y # x
        PROVE  Kept(y) /\ Span(y) \cap Span(x) = {}
    <3>1. PICK c \in 1 .. 16 : x = f(c) /\ AtIn(x, fam, "FADCSUM_CH", 0, c, R(c), lo(c), 16)
      BY <2>1
    <3>2. PICK d \in 1 .. 16 : y = f(d) /\ AtIn(y, fam, "FADCSUM_CH", 0, d, R(d), lo(d), 16)
      BY <2>1
    <3>3. Kept(y)
      BY <3>2 DEF Kept, KeyOf, Lost, AtIn, At
    <3>4. R(c) = R(d) /\ c # d
      BY <2>3, <3>1, <3>2 DEF AtIn, At
    <3>5. (lo(c) = 0 /\ lo(d) = 16) \/ (lo(c) = 16 /\ lo(d) = 0)
      BY <1>5, <3>4
    <3>6. x.lo = lo(c) /\ y.lo = lo(d) /\ x.n = 16 /\ y.n = 16
      BY <3>1, <3>2 DEF AtIn, At
    <3> QED BY <3>3, <3>5, <3>6 DEF Span
  <2> HIDE DEF fs
  <2>4. Group(fs, rs, {fam})
    BY <2>2, <2>3, GroupBeside
  <2> QED BY <2>4 DEF rs
<1> QED BY <1>6, <1>7, WholeOK

LEMMA GtSlots0 ==
    \A fam \in {"GT", "COMPTON"} : SlotAt(fam, "LATENCY", 0, 1) /\ SlotAt(fam, "WIDTH", 0, 1)
<1>1. \A fam \in {"GT", "COMPTON"} : Has(fam, "LATENCY", 1, 1) /\ Has(fam, "WIDTH", 1, 1)
  BY KeysOf DEF Has, GtKeys, ComptonKeys
<1> QED BY <1>1, HasSlot
LEMMA LatencyOK ==
    ASSUME NEW fam \in {"GT", "COMPTON"}
    PROVE  CallOK(Latency(fam), {The("trigLatency")}, {fam})
<1> DEFINE r == The("trigLatency")
           e == Per(Plain(<<fam, "LATENCY", 0>>, 1, r), 4)
<1>1. Unit(4)
  BY DEF Within, Unit, Limits, Huge
<1>2. SlotAt(fam, "LATENCY", 0, 1)
  BY GtSlots0
<1>3. AtIn(e, fam, "LATENCY", 0, 1, r, 0, 31)
  BY <1>1, <1>2, FieldPlainPer
<1>4. Latency(fam) = Whole({e})
  BY DEF Latency
<1> HIDE DEF e, r
<1>5. CallOK(Whole({e}), {r}, {fam})
  BY <1>3, WholeOne
<1> QED BY <1>4, <1>5 DEF r

LEMMA WidthOK ==
    ASSUME NEW fam \in {"GT", "COMPTON"}
    PROVE  CallOK(Width(fam), {The("trigWidth")}, {fam})
<1> DEFINE r == The("trigWidth")
           e == Plain(<<fam, "WIDTH", 0>>, 1, r)
<1>2. SlotAt(fam, "WIDTH", 0, 1)
  BY GtSlots0
<1>3. AtIn(e, fam, "WIDTH", 0, 1, r, 0, 31)
  BY <1>2, FieldPlain
<1>4. Width(fam) = Whole({e})
  BY DEF Width
<1> HIDE DEF e, r
<1>5. CallOK(Whole({e}), {r}, {fam})
  BY <1>3, WholeOne
<1> QED BY <1>4, <1>5 DEF r

-----------------------------------------------------------------------------
(* Calorimeters *)

LEMMA EcSlots ==
    /\ \A i \in 0 .. 1 :
        /\ SlotAt("EC", "HIT_EMIN", i, 1) /\ SlotAt("EC", "HIT_DT", i, 1)
        /\ SlotAt("EC", "HIT_DALITZ", i, 1) /\ SlotAt("EC", "HIT_DALITZ", i, 2)
        /\ \A fam \in {"EC", "ECS"} :
            /\ SlotAt(fam, "COSMIC_EMIN", i, 1) /\ SlotAt(fam, "COSMIC_MULTMAX", i, 1)
            /\ SlotAt(fam, "COSMIC_HITWIDTH", i, 1) /\ SlotAt(fam, "COSMIC_EVALDELAY", i, 1)
    /\ \A fam \in {"PC", "PCS"} :
        /\ SlotAt(fam, "COSMIC_EMIN", 0, 1) /\ SlotAt(fam, "COSMIC_MULTMAX", 0, 1)
        /\ SlotAt(fam, "COSMIC_HITWIDTH", 0, 1) /\ SlotAt(fam, "COSMIC_EVALDELAY", 0, 1)
        /\ SlotAt(fam, "COSMIC_PIXELEN", 0, 1)
<1>1. /\ Has("EC", "HIT_EMIN", 2, 1) /\ Has("EC", "HIT_DT", 2, 1) /\ Has("EC", "HIT_DALITZ", 2, 2)
      /\ Has("EC", "COSMIC_EMIN", 2, 1) /\ Has("EC", "COSMIC_MULTMAX", 2, 1)
      /\ Has("EC", "COSMIC_HITWIDTH", 2, 1) /\ Has("EC", "COSMIC_EVALDELAY", 2, 1)
  BY KeysOf DEF Has, EcKeys
<1>2. /\ Has("ECS", "COSMIC_EMIN", 2, 1) /\ Has("ECS", "COSMIC_MULTMAX", 2, 1)
      /\ Has("ECS", "COSMIC_HITWIDTH", 2, 1) /\ Has("ECS", "COSMIC_EVALDELAY", 2, 1)
  BY KeysOf DEF Has, EcsKeys
<1>3. /\ Has("PC", "COSMIC_EMIN", 1, 1) /\ Has("PC", "COSMIC_MULTMAX", 1, 1)
      /\ Has("PC", "COSMIC_HITWIDTH", 1, 1) /\ Has("PC", "COSMIC_EVALDELAY", 1, 1)
      /\ Has("PC", "COSMIC_PIXELEN", 1, 1)
  BY KeysOf DEF Has, PcKeys, CosmicKeys
<1>4. /\ Has("PCS", "COSMIC_EMIN", 1, 1) /\ Has("PCS", "COSMIC_MULTMAX", 1, 1)
      /\ Has("PCS", "COSMIC_HITWIDTH", 1, 1) /\ Has("PCS", "COSMIC_EVALDELAY", 1, 1)
      /\ Has("PCS", "COSMIC_PIXELEN", 1, 1)
  BY KeysOf DEF Has, PcsKeys, CosmicKeys
<1>5. \A i \in 0 .. 1 :
        /\ SlotAt("EC", "HIT_EMIN", i, 1) /\ SlotAt("EC", "HIT_DT", i, 1)
        /\ SlotAt("EC", "HIT_DALITZ", i, 1) /\ SlotAt("EC", "HIT_DALITZ", i, 2)
        /\ SlotAt("EC", "COSMIC_EMIN", i, 1) /\ SlotAt("EC", "COSMIC_MULTMAX", i, 1)
        /\ SlotAt("EC", "COSMIC_HITWIDTH", i, 1) /\ SlotAt("EC", "COSMIC_EVALDELAY", i, 1)
  BY <1>1, HasSlot
<1>6. \A i \in 0 .. 1 :
        /\ SlotAt("ECS", "COSMIC_EMIN", i, 1) /\ SlotAt("ECS", "COSMIC_MULTMAX", i, 1)
        /\ SlotAt("ECS", "COSMIC_HITWIDTH", i, 1) /\ SlotAt("ECS", "COSMIC_EVALDELAY", i, 1)
  BY <1>2, HasSlot
<1>7. /\ SlotAt("PC", "COSMIC_EMIN", 0, 1) /\ SlotAt("PC", "COSMIC_MULTMAX", 0, 1)
      /\ SlotAt("PC", "COSMIC_HITWIDTH", 0, 1) /\ SlotAt("PC", "COSMIC_EVALDELAY", 0, 1)
      /\ SlotAt("PC", "COSMIC_PIXELEN", 0, 1)
  BY <1>3, HasSlot
<1>8. /\ SlotAt("PCS", "COSMIC_EMIN", 0, 1) /\ SlotAt("PCS", "COSMIC_MULTMAX", 0, 1)
      /\ SlotAt("PCS", "COSMIC_HITWIDTH", 0, 1) /\ SlotAt("PCS", "COSMIC_EVALDELAY", 0, 1)
      /\ SlotAt("PCS", "COSMIC_PIXELEN", 0, 1)
  BY <1>4, HasSlot
<1> QED BY <1>5, <1>6, <1>7, <1>8

LEMMA EcDalitzOK ==
    ASSUME NEW i \in 0 .. 1
    PROVE  CallOK(EcDalitz(i), {<<"ecDalitz", i>>}, {"EC"})
<1> DEFINE r == <<"ecDalitz", i>>
           e1 == F(<<"EC", "HIT_DALITZ", i>>, 1, r, 0, 10)
           e2 == F(<<"EC", "HIT_DALITZ", i>>, 2, r, 16, 10)
<1>1. Within(0, 10) /\ Within(16, 10) /\ Before(0, 10, 16, 10)
  BY DEF Within, Before
<1>2. SlotAt("EC", "HIT_DALITZ", i, 1) /\ SlotAt("EC", "HIT_DALITZ", i, 2)
  BY EcSlots
<1>3. AtIn(e1, "EC", "HIT_DALITZ", i, 1, r, 0, 10) /\ AtIn(e2, "EC", "HIT_DALITZ", i, 2, r, 16, 10)
  BY <1>1, <1>2, Field1
<1>4. EcDalitz(i) = Whole({e1, e2})
  BY DEF EcDalitz
<1> HIDE DEF e1, e2, r
<1>5. CallOK(Whole({e1, e2}), {r}, {"EC"})
  BY <1>1, <1>3, TwoWhole, AllSafe
<1> QED BY <1>4, <1>5 DEF r

LEMMA EcHitOK ==
    ASSUME NEW i \in 0 .. 1
    PROVE  CallsOK(EcHit(i), {<<"ecHit", i>>}, {"EC"})
<1> DEFINE r == <<"ecHit", i>>
           e1 == F(<<"EC", "HIT_EMIN", i>>, 1, r, 0, 13)
           e2 == Clamp(Per(F(<<"EC", "HIT_DT", i>>, 1, r, 16, 4), 4), 0, 8)
<1>1. Within(0, 13) /\ Within(16, 4) /\ Before(0, 13, 16, 4) /\ Unit(4) /\ Limits(0, 8)
  BY DEF Within, Before, Unit, Limits, Huge
<1>2. SlotAt("EC", "HIT_EMIN", i, 1) /\ SlotAt("EC", "HIT_DT", i, 1)
  BY EcSlots
<1>3. AtIn(e1, "EC", "HIT_EMIN", i, 1, r, 0, 13) /\ AtIn(e2, "EC", "HIT_DT", i, 1, r, 16, 4)
  BY <1>1, <1>2, Field1, FieldClampPer
<1>4. EcHit(i) = <<Rmw(e1), Rmw(e2)>>
  BY DEF EcHit
<1> HIDE DEF e1, e2, r
<1>5. CallsOK(<<Rmw(e1), Rmw(e2)>>, {r}, {"EC"})
  BY <1>1, <1>3, TwoRmw, AllSafe
<1> QED BY <1>4, <1>5 DEF r

LEMMA EcCosmicCtrlOK ==
    ASSUME NEW fam \in {"EC", "ECS"}, NEW i \in 0 .. 1
    PROVE  CallsOK(EcCosmicCtrl(fam, i), {<<"ecCosmicCtrl", i>>}, {fam})
<1> DEFINE r == <<"ecCosmicCtrl", i>>
           e1 == F(<<fam, "COSMIC_EMIN", i>>, 1, r, 0, 13)
           e2 == F(<<fam, "COSMIC_MULTMAX", i>>, 1, r, 24, 6)
<1>1. Within(0, 13) /\ Within(24, 6) /\ Before(0, 13, 24, 6)
  BY DEF Within, Before
<1>2. SlotAt(fam, "COSMIC_EMIN", i, 1) /\ SlotAt(fam, "COSMIC_MULTMAX", i, 1)
  BY EcSlots
<1>3. AtIn(e1, fam, "COSMIC_EMIN", i, 1, r, 0, 13) /\ AtIn(e2, fam, "COSMIC_MULTMAX", i, 1, r, 24, 6)
  BY <1>1, <1>2, Field1
<1>4. EcCosmicCtrl(fam, i) = <<Rmw(e1), Rmw(e2)>>
  BY DEF EcCosmicCtrl
<1> HIDE DEF e1, e2, r
<1>5. CallsOK(<<Rmw(e1), Rmw(e2)>>, {r}, {fam})
  BY <1>1, <1>3, TwoRmw, AllSafe
<1> QED BY <1>4, <1>5 DEF r

LEMMA EcCosmicDelayOK ==
    ASSUME NEW fam \in {"EC", "ECS"}, NEW i \in 0 .. 1
    PROVE  CallsOK(EcCosmicDelay(fam, i), {<<"ecCosmicDelay", i>>}, {fam})
<1> DEFINE r == <<"ecCosmicDelay", i>>
           e1 == F(<<fam, "COSMIC_HITWIDTH", i>>, 1, r, 0, 8)
           e2 == F(<<fam, "COSMIC_EVALDELAY", i>>, 1, r, 16, 8)
<1>1. Within(0, 8) /\ Within(16, 8) /\ Before(0, 8, 16, 8)
  BY DEF Within, Before
<1>2. SlotAt(fam, "COSMIC_HITWIDTH", i, 1) /\ SlotAt(fam, "COSMIC_EVALDELAY", i, 1)
  BY EcSlots
<1>3. /\ AtIn(e1, fam, "COSMIC_HITWIDTH", i, 1, r, 0, 8)
      /\ AtIn(e2, fam, "COSMIC_EVALDELAY", i, 1, r, 16, 8)
  BY <1>1, <1>2, Field1
<1>4. EcCosmicDelay(fam, i) = <<Rmw(e1), Rmw(e2)>>
  BY DEF EcCosmicDelay
<1> HIDE DEF e1, e2, r
<1>5. CallsOK(<<Rmw(e1), Rmw(e2)>>, {r}, {fam})
  BY <1>1, <1>3, TwoRmw, AllSafe
<1> QED BY <1>4, <1>5 DEF r

LEMMA PcCosmicCtrlOK ==
    ASSUME NEW fam \in {"PC", "PCS"}
    PROVE  CallsOK(PcCosmicCtrl(fam), {The("pcCosmicCtrl")}, {fam})
<1> DEFINE r == The("pcCosmicCtrl")
           e1 == F(<<fam, "COSMIC_EMIN", 0>>, 1, r, 0, 13)
           e2 == F(<<fam, "COSMIC_MULTMAX", 0>>, 1, r, 24, 6)
<1>1. Within(0, 13) /\ Within(24, 6) /\ Before(0, 13, 24, 6)
  BY DEF Within, Before
<1>2. SlotAt(fam, "COSMIC_EMIN", 0, 1) /\ SlotAt(fam, "COSMIC_MULTMAX", 0, 1)
  BY EcSlots
<1>3. AtIn(e1, fam, "COSMIC_EMIN", 0, 1, r, 0, 13) /\ AtIn(e2, fam, "COSMIC_MULTMAX", 0, 1, r, 24, 6)
  BY <1>1, <1>2, Field1
<1>4. PcCosmicCtrl(fam) = <<Rmw(e1), Rmw(e2)>>
  BY DEF PcCosmicCtrl
<1> HIDE DEF e1, e2, r
<1>5. CallsOK(<<Rmw(e1), Rmw(e2)>>, {r}, {fam})
  BY <1>1, <1>3, TwoRmw, AllSafe
<1> QED BY <1>4, <1>5 DEF r

LEMMA PcCosmicDelayOK ==
    ASSUME NEW fam \in {"PC", "PCS"}
    PROVE  CallsOK(PcCosmicDelay(fam), {The("pcCosmicDelay")}, {fam})
<1> DEFINE r == The("pcCosmicDelay")
           e1 == F(<<fam, "COSMIC_HITWIDTH", 0>>, 1, r, 0, 8)
           e2 == F(<<fam, "COSMIC_EVALDELAY", 0>>, 1, r, 16, 8)
<1>1. Within(0, 8) /\ Within(16, 8) /\ Before(0, 8, 16, 8)
  BY DEF Within, Before
<1>2. SlotAt(fam, "COSMIC_HITWIDTH", 0, 1) /\ SlotAt(fam, "COSMIC_EVALDELAY", 0, 1)
  BY EcSlots
<1>3. /\ AtIn(e1, fam, "COSMIC_HITWIDTH", 0, 1, r, 0, 8)
      /\ AtIn(e2, fam, "COSMIC_EVALDELAY", 0, 1, r, 16, 8)
  BY <1>1, <1>2, Field1
<1>4. PcCosmicDelay(fam) = <<Rmw(e1), Rmw(e2)>>
  BY DEF PcCosmicDelay
<1> HIDE DEF e1, e2, r
<1>5. CallsOK(<<Rmw(e1), Rmw(e2)>>, {r}, {fam})
  BY <1>1, <1>3, TwoRmw, AllSafe
<1> QED BY <1>4, <1>5 DEF r

\* A field of a register, that may be beside others.
Good(x, fams) == FieldOK(x) /\ TopOK(x) /\ (x.signed => x.cut) /\ SlotIn(x, fams) /\ Kept(x)
Placed(x, fams, r, lo, n) == Good(x, fams) /\ x.reg = r /\ x.lo = lo /\ x.n = n
LEMMA PlacedOf ==
    ASSUME NEW x, NEW fam, NEW key, NEW i, NEW c, NEW r, NEW lo, NEW n, AtIn(x, fam, key, i, c, r, lo, n),
           Safe(fam, key)
    PROVE  Placed(x, {fam}, r, lo, n)
<1>1. SlotIn(x, {fam})
  BY SlotAtIn DEF AtIn, At
<1> QED BY <1>1 DEF Placed, Good, AtIn, At, Kept, KeyOf, Safe
LEMMA PlacedAll ==
    ASSUME NEW fs, NEW rs, NEW fams, \A x \in fs : Good(x, fams) /\ x.reg \in rs,
           \A x \in fs : \A y \in fs : y.reg = x.reg /\ y # x => Span(y) \cap Span(x) = {}
    PROVE  Group(fs, rs, fams)
BY DEF Group, Good, Beside

-----------------------------------------------------------------------------
(* Counters, strips and cosmics *)

LEMMA ThresholdsOK ==
    ASSUME NEW fam, NEW key, \A c \in 1 .. 3 : SlotAt(fam, key, 0, c)
    PROVE  CallOK(Thresholds(fam, key), {<<key, c>> : c \in 1 .. 3}, {fam})
<1> DEFINE f == [c \in 1 .. 3 |-> Plain(<<fam, key, 0>>, c, <<key, c>>)]
           R == [c \in 1 .. 3 |-> <<key, c>>]
<1>1. \A c \in 1 .. 3 : AtIn(f[c], fam, key, 0, c, R[c], 0, 31)
  BY FieldPlain
<1>2. \A c, d \in 1 .. 3 : R[c] = R[d] => c = d
  OBVIOUS
<1>3. Thresholds(fam, key) = Whole({f[c] : c \in 1 .. 3})
  BY DEF Thresholds
<1> DEFINE fs == {f[c] : c \in 1 .. 3}
           rs == {<<key, c>> : c \in 1 .. 3}
<1>4. (\A x \in fs : \E c \in 1 .. 3 : x = f[c]) /\ \A c \in 1 .. 3 : R[c] \in rs
  OBVIOUS
<1> HIDE DEF f, R, fs, rs
<1>5. CallOK(Whole(fs), rs, {fam})
  <2>1. EachAt(fs, 1 .. 3, f, R, rs, fam, key, 0, 0, 31)
    BY <1>1, <1>2, <1>4 DEF EachAt
  <2> QED BY <2>1, EachColumn
<1> QED BY <1>3, <1>5 DEF fs, rs

LEMMA NFramesOK ==
    ASSUME NEW fam, NEW key, SlotAt(fam, key, 0, 1)
    PROVE  CallOK(NFrames(fam, key), {The(key)}, {fam})
<1> DEFINE r == The(key)
           e == Plain(<<fam, key, 0>>, 1, r)
<1>1. AtIn(e, fam, key, 0, 1, r, 0, 31)
  BY FieldPlain
<1>2. NFrames(fam, key) = Whole({e})
  BY DEF NFrames
<1> HIDE DEF e, r
<1>3. CallOK(Whole({e}), {r}, {fam})
  BY <1>1, WholeOne
<1> QED BY <1>2, <1>3 DEF r

LEMMA CounterSlots ==
    ASSUME NEW fam \in {"HTCC", "FTOF", "CND", "PCS", "ECS"}
    PROVE  (\A c \in 1 .. 3 : SlotAt(fam, "THRESHOLDS", 0, c)) /\ SlotAt(fam, "NFRAMES", 0, 1)
<1>1. Has(fam, "THRESHOLDS", 1, 3) /\ Has(fam, "NFRAMES", 1, 1)
  <2>1. CounterKeys \subseteq Keys[fam] /\ fam \in DOMAIN Keys
    BY KeysOf DEF HtccKeys, PcsKeys, EcsKeys, StripKeys
  <2> QED BY <2>1 DEF Has, CounterKeys
<1> QED BY <1>1, HasSlot

CounterRegs == {<<"THRESHOLDS", c>> : c \in 1 .. 3} \union {The("NFRAMES")}
LEMMA CountersOK ==
    ASSUME NEW fam \in {"HTCC", "FTOF", "CND", "PCS", "ECS"}
    PROVE  CallsOK(CounterCalls(fam), CounterRegs, {fam})
<1> DEFINE c1 == Thresholds(fam, "THRESHOLDS")
           c2 == NFrames(fam, "NFRAMES")
           r1 == {<<"THRESHOLDS", c>> : c \in 1 .. 3}
           r2 == {The("NFRAMES")}
<1>1. CallOK(c1, r1, {fam}) /\ CallOK(c2, r2, {fam})
  BY CounterSlots, ThresholdsOK, NFramesOK
<1>2. r1 \cap r2 = {}
  BY DEF The
<1>3. CounterCalls(fam) = <<c1>> \o <<c2>>
  BY DEF CounterCalls
<1> HIDE DEF c1, c2, r1, r2
<1>4. CallsOK(<<c1>>, r1, {fam}) /\ CallsOK(<<c2>>, r2, {fam})
  BY <1>1, OneCall
<1>5. CallsOK(<<c1>> \o <<c2>>, r1 \union r2, {fam} \union {fam})
  BY <1>2, <1>4, Join
<1> QED BY <1>3, <1>5 DEF CounterRegs, r1, r2

LEMMA HtccSlots ==
    (\A c \in 1 .. 3 : SlotAt("HTCC", "CTOF_THRESHOLDS", 0, c)) /\ SlotAt("HTCC", "CTOF_NFRAMES", 0, 1)
<1>1. Has("HTCC", "CTOF_THRESHOLDS", 1, 3) /\ Has("HTCC", "CTOF_NFRAMES", 1, 1)
  BY KeysOf DEF Has, HtccKeys
<1> QED BY <1>1, HasSlot

HtccRegs == CounterRegs \union ({<<"CTOF_THRESHOLDS", c>> : c \in 1 .. 3} \union {The("CTOF_NFRAMES")})
LEMMA HtccOK == CallsOK(HtccCalls, HtccRegs, {"HTCC"})
<1> DEFINE c1 == Thresholds("HTCC", "CTOF_THRESHOLDS")
           c2 == NFrames("HTCC", "CTOF_NFRAMES")
           r1 == {<<"CTOF_THRESHOLDS", c>> : c \in 1 .. 3}
           r2 == {The("CTOF_NFRAMES")}
           p == CounterCalls("HTCC")
<1>1. CallOK(c1, r1, {"HTCC"}) /\ CallOK(c2, r2, {"HTCC"})
  BY HtccSlots, ThresholdsOK, NFramesOK
<1>2. r1 \cap r2 = {} /\ CounterRegs \cap (r1 \union r2) = {}
  BY DEF The, CounterRegs
<1>3. HtccCalls = p \o (<<c1>> \o <<c2>>)
  BY DEF HtccCalls, CounterCalls
<1>4. CallsOK(p, CounterRegs, {"HTCC"})
  BY CountersOK
<1> HIDE DEF c1, c2, r1, r2, p
<1>5. CallsOK(<<c1>>, r1, {"HTCC"}) /\ CallsOK(<<c2>>, r2, {"HTCC"})
  BY <1>1, OneCall
<1>6. CallsOK(<<c1>> \o <<c2>>, r1 \union r2, {"HTCC"} \union {"HTCC"})
  BY <1>2, <1>5, Join
<1>7. CallsOK(p \o (<<c1>> \o <<c2>>), CounterRegs \union (r1 \union r2), {"HTCC"} \union ({"HTCC"} \union {"HTCC"}))
  BY <1>2, <1>4, <1>6, Join
<1> QED BY <1>3, <1>7 DEF HtccRegs, r1, r2

LEMMA StripSlots ==
    ASSUME NEW fam \in {"PCS", "ECS"}
    PROVE  SlotAt(fam, "DIPFACTOR", 0, 1) /\ SlotAt(fam, "NSTRIP", 0, 2)
           /\ \A c \in 1 .. 2 : SlotAt(fam, "DALITZ", 0, c)
<1>1. Has(fam, "DIPFACTOR", 1, 1) /\ Has(fam, "NSTRIP", 1, 2) /\ Has(fam, "DALITZ", 1, 2)
  <2>1. StripKeys \subseteq Keys[fam] /\ fam \in DOMAIN Keys
    BY KeysOf DEF PcsKeys, EcsKeys
  <2> QED BY <2>1 DEF Has, StripKeys
<1> QED BY <1>1, HasSlot

PcsStripRegs == ({The("pcsDip")} \union {The("pcsNstripMax")}) \union {<<"pcsDalitz", c>> : c \in 1 .. 2}
LEMMA PcsStripsOK == CallsOK(PcsStrips, PcsStripRegs, {"PCS"})
<1> DEFINE e1 == Plain(<<"PCS", "DIPFACTOR", 0>>, 1, The("pcsDip"))
           e2 == Plain(<<"PCS", "NSTRIP", 0>>, 2, The("pcsNstripMax"))
           f == [c \in 1 .. 2 |-> Plain(<<"PCS", "DALITZ", 0>>, c, <<"pcsDalitz", c>>)]
           R == [c \in 1 .. 2 |-> <<"pcsDalitz", c>>]
           r1 == The("pcsDip")
           r2 == The("pcsNstripMax")
           r3 == {<<"pcsDalitz", c>> : c \in 1 .. 2}
<1>1. AtIn(e1, "PCS", "DIPFACTOR", 0, 1, r1, 0, 31) /\ AtIn(e2, "PCS", "NSTRIP", 0, 2, r2, 0, 31)
  BY StripSlots, FieldPlain
<1>2. \A c \in 1 .. 2 : AtIn(f[c], "PCS", "DALITZ", 0, c, R[c], 0, 31)
  BY StripSlots, FieldPlain
<1> DEFINE fs == {f[c] : c \in 1 .. 2}
<1>3. /\ \A c, d \in 1 .. 2 : R[c] = R[d] => c = d
      /\ (\A x \in fs : \E c \in 1 .. 2 : x = f[c]) /\ \A c \in 1 .. 2 : R[c] \in r3
  OBVIOUS
<1>4. PcsStrips = (<<Whole({e1})>> \o <<Whole({e2})>>) \o <<Whole(fs)>>
  <2>1. fs = {Plain(<<"PCS", "DALITZ", 0>>, c, <<"pcsDalitz", c>>) : c \in 1 .. 2}
    OBVIOUS
  <2>2. PcsStrips = <<Whole({e1}), Whole({e2}), Whole(fs)>>
    BY <2>1, Zenon DEF PcsStrips
  <2> HIDE DEF e1, e2, fs
  <2> QED BY <2>2
<1>5. {r1} \cap {r2} = {} /\ ({r1} \union {r2}) \cap r3 = {}
  BY DEF The
<1> HIDE DEF e1, e2, f, R, r1, r2, r3, fs
<1>6. CallOK(Whole({e1}), {r1}, {"PCS"}) /\ CallOK(Whole({e2}), {r2}, {"PCS"})
  BY <1>1, WholeOne
<1>7. CallOK(Whole(fs), r3, {"PCS"})
  <2>1. EachAt(fs, 1 .. 2, f, R, r3, "PCS", "DALITZ", 0, 0, 31)
    BY <1>2, <1>3 DEF EachAt
  <2> QED BY <2>1, EachColumn
<1> DEFINE c1 == Whole({e1})
           c2 == Whole({e2})
           c3 == Whole(fs)
<1> HIDE DEF c1, c2, c3
<1>8. CallsOK(<<c1>>, {r1}, {"PCS"}) /\ CallsOK(<<c2>>, {r2}, {"PCS"}) /\ CallsOK(<<c3>>, r3, {"PCS"})
  BY <1>6, <1>7, OneCall DEF c1, c2, c3
<1>9. CallsOK(<<c1>> \o <<c2>>, {r1} \union {r2}, {"PCS"} \union {"PCS"})
  BY <1>5, <1>8, Join
<1>10. CallsOK((<<c1>> \o <<c2>>) \o <<c3>>, ({r1} \union {r2}) \union r3, ({"PCS"} \union {"PCS"}) \union {"PCS"})
  BY <1>5, <1>8, <1>9, Join
<1> QED BY <1>4, <1>10 DEF PcsStripRegs, r1, r2, r3, c1, c2, c3

EcsStripRegs == ({The("ecsDip")} \union {The("ecsNstripMax")}) \union {<<"ecsDalitz", c>> : c \in 1 .. 2}
LEMMA EcsStripsOK == CallsOK(EcsStrips, EcsStripRegs, {"ECS"})
<1> DEFINE e1 == Plain(<<"ECS", "DIPFACTOR", 0>>, 1, The("ecsDip"))
           e2 == Plain(<<"ECS", "NSTRIP", 0>>, 2, The("ecsNstripMax"))
           f == [c \in 1 .. 2 |-> F(<<"ECS", "DALITZ", 0>>, c, <<"ecsDalitz", c>>, 3, 28)]
           R == [c \in 1 .. 2 |-> <<"ecsDalitz", c>>]
           r1 == The("ecsDip")
           r2 == The("ecsNstripMax")
           r3 == {<<"ecsDalitz", c>> : c \in 1 .. 2}
<1>1. AtIn(e1, "ECS", "DIPFACTOR", 0, 1, r1, 0, 31) /\ AtIn(e2, "ECS", "NSTRIP", 0, 2, r2, 0, 31)
  BY StripSlots, FieldPlain
<1>2. \A c \in 1 .. 2 : AtIn(f[c], "ECS", "DALITZ", 0, c, R[c], 3, 28)
  <2>1. Within(3, 28)
    BY DEF Within
  <2> QED BY <2>1, StripSlots, Field1
<1> DEFINE fs == {f[c] : c \in 1 .. 2}
<1>3. /\ \A c, d \in 1 .. 2 : R[c] = R[d] => c = d
      /\ (\A x \in fs : \E c \in 1 .. 2 : x = f[c]) /\ \A c \in 1 .. 2 : R[c] \in r3
  OBVIOUS
<1>4. EcsStrips = (<<Whole({e1})>> \o <<Whole({e2})>>) \o <<Whole(fs)>>
  <2>1. fs = {F(<<"ECS", "DALITZ", 0>>, c, <<"ecsDalitz", c>>, 3, 28) : c \in 1 .. 2}
    OBVIOUS
  <2>2. EcsStrips = <<Whole({e1}), Whole({e2}), Whole(fs)>>
    BY <2>1, Zenon DEF EcsStrips
  <2> HIDE DEF e1, e2, fs
  <2> QED BY <2>2
<1>5. {r1} \cap {r2} = {} /\ ({r1} \union {r2}) \cap r3 = {}
  BY DEF The
<1> HIDE DEF e1, e2, f, R, r1, r2, r3, fs
<1>6. CallOK(Whole({e1}), {r1}, {"ECS"}) /\ CallOK(Whole({e2}), {r2}, {"ECS"})
  BY <1>1, WholeOne
<1>7. CallOK(Whole(fs), r3, {"ECS"})
  <2>1. EachAt(fs, 1 .. 2, f, R, r3, "ECS", "DALITZ", 0, 3, 28)
    BY <1>2, <1>3 DEF EachAt
  <2> QED BY <2>1, EachColumn
<1> DEFINE c1 == Whole({e1})
           c2 == Whole({e2})
           c3 == Whole(fs)
<1> HIDE DEF c1, c2, c3
<1>8. CallsOK(<<c1>>, {r1}, {"ECS"}) /\ CallsOK(<<c2>>, {r2}, {"ECS"}) /\ CallsOK(<<c3>>, r3, {"ECS"})
  BY <1>6, <1>7, OneCall DEF c1, c2, c3
<1>9. CallsOK(<<c1>> \o <<c2>>, {r1} \union {r2}, {"ECS"} \union {"ECS"})
  BY <1>5, <1>8, Join
<1>10. CallsOK((<<c1>> \o <<c2>>) \o <<c3>>, ({r1} \union {r2}) \union r3, ({"ECS"} \union {"ECS"}) \union {"ECS"})
  BY <1>5, <1>8, <1>9, Join
<1> QED BY <1>4, <1>10 DEF EcsStripRegs, r1, r2, r3, c1, c2, c3

PcCosmicRegs == {The("pcCosmicCtrl")} \union {The("pcCosmicDelay")}
LEMMA PcCosmicOK ==
    ASSUME NEW fam \in {"PC", "PCS"}
    PROVE  CallsOK(PcCosmic(fam), PcCosmicRegs, {fam})
<1> DEFINE r == The("pcCosmicCtrl")
           d == The("pcCosmicDelay")
           e1 == F(<<fam, "COSMIC_EMIN", 0>>, 1, r, 0, 13)
           e2 == F(<<fam, "COSMIC_MULTMAX", 0>>, 1, r, 24, 6)
           x == Flag(F(<<fam, "COSMIC_PIXELEN", 0>>, 1, r, 16, 1))
           p == PcCosmicCtrl(fam)
           q == PcCosmicDelay(fam)
<1>1. CallsOK(p, {r}, {fam}) /\ CallsOK(q, {d}, {fam}) /\ {r} \cap {d} = {}
  BY PcCosmicCtrlOK, PcCosmicDelayOK DEF The
<1>2. Within(0, 13) /\ Within(24, 6) /\ Within(16, 1) /\ Before(0, 13, 16, 1) /\ Before(16, 1, 24, 6)
  BY DEF Within, Before
<1>3. AtIn(e1, fam, "COSMIC_EMIN", 0, 1, r, 0, 13) /\ AtIn(e2, fam, "COSMIC_MULTMAX", 0, 1, r, 24, 6)
  BY <1>2, EcSlots, Field1
<1>4. AtIn(x, fam, "COSMIC_PIXELEN", 0, 1, r, 16, 1)
  BY <1>2, EcSlots, FieldFlag
<1>5. p = <<Rmw(e1), Rmw(e2)>> /\ PcCosmic(fam) = (p \o q) \o <<Rmw(x)>>
  BY DEF PcCosmicCtrl, PcCosmic, PcCosmicPixel
<1> HIDE DEF e1, e2, x, r, d, p, q
<1>6. CallOK(Rmw(x), {r}, {fam})
  BY <1>4, RmwOne
<1>7. Cross(Rmw(e1), Rmw(x)) /\ Cross(Rmw(e2), Rmw(x))
  <2>1. Beside(x, e1) /\ Beside(x, e2)
    BY <1>2, <1>3, <1>4, TwoBeside, AllSafe
  <2> QED BY <2>1, RmwCross
<1>8. \A j \in 1 .. Len(q) : Cross(q[j], Rmw(x))
  <2>1. SUFFICES ASSUME NEW j \in 1 .. Len(q) PROVE Cross(q[j], Rmw(x))
    OBVIOUS
  <2>2. CallOK(q[j], {d}, {fam})
    BY <1>1 DEF CallsOK
  <2> QED BY <1>1, <1>6, <2>2, Apart
<1>9. CallsOK(p \o q, {r} \union {d}, {fam} \union {fam})
  BY <1>1, Join
<1>10. \A j \in 1 .. Len(p \o q) : Cross((p \o q)[j], Rmw(x))
  <2>1. IsSeq(p) /\ IsSeq(q)
    BY <1>1 DEF CallsOK
  <2>2. /\ Len(p \o q) = Len(p) + Len(q) /\ \A j \in 1 .. Len(p) : (p \o q)[j] = p[j]
        /\ \A j \in 1 .. Len(q) : (p \o q)[Len(p) + j] = q[j]
    BY <2>1, Joined
  <2>3. Len(p) = 2 /\ p[1] = Rmw(e1) /\ p[2] = Rmw(e2) /\ Len(q) \in Nat
    BY <1>5, <2>1 DEF IsSeq
  <2> SUFFICES ASSUME NEW j \in 1 .. Len(p \o q) PROVE Cross((p \o q)[j], Rmw(x))
    OBVIOUS
  <2> DEFINE w == p \o q
             n == Len(q)
  <2> HIDE DEF w, n
  <2>4. CASE j \in 1 .. 2
    BY <1>7, <2>2, <2>3, <2>4
  <2>5. CASE j - 2 \in 1 .. Len(q)
    <3>1. (p \o q)[2 + (j - 2)] = q[j - 2] /\ 2 + (j - 2) = j
      BY <2>2, <2>3, <2>5
    <3> QED BY <1>8, <2>5, <3>1
  <2> QED BY <2>2, <2>3, <2>4, <2>5
<1> DEFINE w == p \o q
           z == <<Rmw(x)>>
<1>11. CallsOK(z, {r}, {fam}) /\ Len(z) = 1 /\ z[1] = Rmw(x)
  BY <1>6, OneCall
<1> HIDE DEF w, z
<1>12. CallsOK(w \o z, ({r} \union {d}) \union {r}, ({fam} \union {fam}) \union {fam})
  <2>1. CallsOK(w, {r} \union {d}, {fam} \union {fam})
    BY <1>9 DEF w
  <2>2. \A i \in 1 .. Len(w), j \in 1 .. Len(z) : Cross(w[i], z[j])
    <3>1. \A j \in 1 .. Len(z) : z[j] = Rmw(x)
      BY <1>11
    <3> QED BY <1>10, <3>1 DEF w
  <2> QED BY <1>11, <2>1, <2>2, JoinCross
<1>13. ({r} \union {d}) \union {r} = {r} \union {d} /\ ({fam} \union {fam}) \union {fam} = {fam}
  OBVIOUS
<1> QED BY <1>5, <1>12, <1>13 DEF PcCosmicRegs, w, z, r, d

-----------------------------------------------------------------------------
(* GT, DC, HCAL, FTCAL, FTHODO *)

LEMMA GtSlots ==
    ASSUME NEW i \in 0 .. NumTrg - 1
    PROVE  /\ \A c \in 1 .. 2 :
                SlotAt("GT", "STRIGGER_MASK", i, c) /\ SlotAt("GT", "SECTOR_MASK", i, c) /\ SlotAt("GT", "MULT_MIN", i, c)
           /\ SlotAt("GT", "CTRIGGER_MASK", i, 1) /\ SlotAt("GT", "SECTOR_WIDTH", i, 1) /\ SlotAt("GT", "DELAY", i, 1)
           /\ SlotAt("GT", "PULSER_FREQ", i, 1) /\ SlotAt("GT", "PRESCALE", i, 1)
<1>1. /\ Has("GT", "STRIGGER_MASK", NumTrg, 2) /\ Has("GT", "SECTOR_MASK", NumTrg, 2) /\ Has("GT", "MULT_MIN", NumTrg, 2)
      /\ Has("GT", "CTRIGGER_MASK", NumTrg, 1) /\ Has("GT", "SECTOR_WIDTH", NumTrg, 1) /\ Has("GT", "DELAY", NumTrg, 1)
      /\ Has("GT", "PULSER_FREQ", NumTrg, 1) /\ Has("GT", "PRESCALE", NumTrg, 1)
  BY KeysOf DEF Has, GtKeys, GtRowKeys
<1> QED BY <1>1, HasSlot

GtBitRegs(i) == {<<n, i>> : n \in {"gtStrigMask", "gtStrig1Mask", "gtStrig", "gtStrig1", "gtCtrig", "gtPulser",
                                  "trigPrescaler"}}
LEMMA GtTriggerBitOK ==
    ASSUME NEW i \in 0 .. NumTrg - 1
    PROVE  CallOK(GtTriggerBit(i), GtBitRegs(i), {"GT"})
<1> DEFINE e1 == Cut(F(<<"GT", "STRIGGER_MASK", i>>, 1, <<"gtStrigMask", i>>, 0, 16))
           e2 == Cut(F(<<"GT", "STRIGGER_MASK", i>>, 2, <<"gtStrig1Mask", i>>, 0, 16))
           e3 == Cut(F(<<"GT", "SECTOR_MASK", i>>, 1, <<"gtStrig", i>>, 8, 6))
           e4 == Cut(F(<<"GT", "SECTOR_MASK", i>>, 2, <<"gtStrig1", i>>, 8, 6))
           e5 == Cut(F(<<"GT", "MULT_MIN", i>>, 1, <<"gtStrig", i>>, 4, 3))
           e6 == Cut(F(<<"GT", "MULT_MIN", i>>, 2, <<"gtStrig1", i>>, 4, 3))
           e7 == Cut(F(<<"GT", "SECTOR_WIDTH", i>>, 1, <<"gtStrig", i>>, 16, 8))
           e8 == Cut(F(<<"GT", "CTRIGGER_MASK", i>>, 1, <<"gtCtrig", i>>, 0, 4))
           e9 == Cut(F(<<"GT", "DELAY", i>>, 1, <<"gtStrig", i>>, 24, 8))
           e10 == Plain(<<"GT", "PULSER_FREQ", i>>, 1, <<"gtPulser", i>>)
           e11 == Plain(<<"GT", "PRESCALE", i>>, 1, <<"trigPrescaler", i>>)
           fs == {e1, e2, e3, e4, e5, e6, e7, e8, e9, e10, e11}
           rs == GtBitRegs(i)
<1>1. GtTriggerBit(i) = Whole(fs)
  BY DEF GtTriggerBit
<1>2. Within(0, 16) /\ Within(8, 6) /\ Within(4, 3) /\ Within(16, 8) /\ Within(0, 4) /\ Within(24, 8)
  BY DEF Within, Unit, Limits, Huge
<1>3. /\ SlotAt("GT", "STRIGGER_MASK", i, 1) /\ SlotAt("GT", "STRIGGER_MASK", i, 2)
      /\ SlotAt("GT", "SECTOR_MASK", i, 1) /\ SlotAt("GT", "SECTOR_MASK", i, 2)
      /\ SlotAt("GT", "MULT_MIN", i, 1) /\ SlotAt("GT", "MULT_MIN", i, 2)
      /\ SlotAt("GT", "SECTOR_WIDTH", i, 1) /\ SlotAt("GT", "CTRIGGER_MASK", i, 1)
      /\ SlotAt("GT", "DELAY", i, 1) /\ SlotAt("GT", "PULSER_FREQ", i, 1) /\ SlotAt("GT", "PRESCALE", i, 1)
  BY GtSlots
<1>a1. AtIn(e1, "GT", "STRIGGER_MASK", i, 1, <<"gtStrigMask", i>>, 0, 16)
  BY <1>2, <1>3, FieldCut
<1>a2. AtIn(e2, "GT", "STRIGGER_MASK", i, 2, <<"gtStrig1Mask", i>>, 0, 16)
  BY <1>2, <1>3, FieldCut
<1>a3. AtIn(e3, "GT", "SECTOR_MASK", i, 1, <<"gtStrig", i>>, 8, 6)
  BY <1>2, <1>3, FieldCut
<1>a4. AtIn(e4, "GT", "SECTOR_MASK", i, 2, <<"gtStrig1", i>>, 8, 6)
  BY <1>2, <1>3, FieldCut
<1>a5. AtIn(e5, "GT", "MULT_MIN", i, 1, <<"gtStrig", i>>, 4, 3)
  BY <1>2, <1>3, FieldCut
<1>a6. AtIn(e6, "GT", "MULT_MIN", i, 2, <<"gtStrig1", i>>, 4, 3)
  BY <1>2, <1>3, FieldCut
<1>a7. AtIn(e7, "GT", "SECTOR_WIDTH", i, 1, <<"gtStrig", i>>, 16, 8)
  BY <1>2, <1>3, FieldCut
<1>a8. AtIn(e8, "GT", "CTRIGGER_MASK", i, 1, <<"gtCtrig", i>>, 0, 4)
  BY <1>2, <1>3, FieldCut
<1>a9. AtIn(e9, "GT", "DELAY", i, 1, <<"gtStrig", i>>, 24, 8)
  BY <1>2, <1>3, FieldCut
<1>a10. AtIn(e10, "GT", "PULSER_FREQ", i, 1, <<"gtPulser", i>>, 0, 31)
  BY <1>2, <1>3, FieldPlain
<1>a11. AtIn(e11, "GT", "PRESCALE", i, 1, <<"trigPrescaler", i>>, 0, 31)
  BY <1>2, <1>3, FieldPlain
<1> HIDE DEF e1, e2, e3, e4, e5, e6, e7, e8, e9, e10, e11
<1>4. /\ Placed(e1, {"GT"}, <<"gtStrigMask", i>>, 0, 16)
      /\ Placed(e2, {"GT"}, <<"gtStrig1Mask", i>>, 0, 16)
      /\ Placed(e3, {"GT"}, <<"gtStrig", i>>, 8, 6)
      /\ Placed(e4, {"GT"}, <<"gtStrig1", i>>, 8, 6)
      /\ Placed(e5, {"GT"}, <<"gtStrig", i>>, 4, 3)
      /\ Placed(e6, {"GT"}, <<"gtStrig1", i>>, 4, 3)
      /\ Placed(e7, {"GT"}, <<"gtStrig", i>>, 16, 8)
      /\ Placed(e8, {"GT"}, <<"gtCtrig", i>>, 0, 4)
      /\ Placed(e9, {"GT"}, <<"gtStrig", i>>, 24, 8)
      /\ Placed(e10, {"GT"}, <<"gtPulser", i>>, 0, 31)
      /\ Placed(e11, {"GT"}, <<"trigPrescaler", i>>, 0, 31)
  BY <1>a1, <1>a2, <1>a3, <1>a4, <1>a5, <1>a6, <1>a7, <1>a8, <1>a9, <1>a10, <1>a11, PlacedOf, AllSafe
<1>5. \A x \in fs : Good(x, {"GT"}) /\ x.reg \in rs
  BY <1>4 DEF Placed, GtBitRegs
<1>6. \A x \in fs : \A y \in fs : y.reg = x.reg /\ y # x => Span(y) \cap Span(x) = {}
  BY <1>4 DEF Placed, Span
<1> HIDE DEF fs, rs
<1>7. CallOK(Whole(fs), rs, {"GT"})
  BY <1>5, <1>6, PlacedAll, WholeOK
<1> QED BY <1>1, <1>7 DEF rs

\* The pulser is switched on beside its period.
LEMMA GtBitOK ==
    ASSUME NEW i \in 0 .. NumTrg - 1
    PROVE  CallsOK(<<GtTriggerBit(i), GtPulserOn(i)>>, GtBitRegs(i), {"GT"})
<1> DEFINE r == <<"gtPulser", i>>
           e == Flag(F(<<"GT", "PULSER_FREQ", i>>, 1, r, 31, 1))
           c == GtTriggerBit(i)
           d == GtPulserOn(i)
<1>1. AtIn(e, "GT", "PULSER_FREQ", i, 1, r, 31, 1)
  <2>1. Within(31, 1)
    BY DEF Within
  <2> QED BY <2>1, GtSlots, FieldFlag
<1>2. Group({e}, {r}, {"GT"})
  BY <1>1, GroupOne
<1>3. DOMAIN d.clear = {r} /\ d.clear[r] = {31} /\ d.fields = {e}
  BY DEF GtPulserOn, Only
<1>4. r \in GtBitRegs(i)
  BY DEF GtBitRegs
<1>5. CallOK(c, GtBitRegs(i), {"GT"})
  BY GtTriggerBitOK
<1>6. \A x \in c.fields : x.reg = r => Span(x) \cap {31} = {}
  <2> DEFINE p == Plain(<<"GT", "PULSER_FREQ", i>>, 1, <<"gtPulser", i>>)
  <2>1. \A x \in c.fields : x.reg = r => x = p
    <3>1. c.fields =
            {Cut(F(<<"GT", "STRIGGER_MASK", i>>, 1, <<"gtStrigMask", i>>, 0, 16)),
             Cut(F(<<"GT", "STRIGGER_MASK", i>>, 2, <<"gtStrig1Mask", i>>, 0, 16)),
             Cut(F(<<"GT", "SECTOR_MASK", i>>, 1, <<"gtStrig", i>>, 8, 6)),
             Cut(F(<<"GT", "SECTOR_MASK", i>>, 2, <<"gtStrig1", i>>, 8, 6)),
             Cut(F(<<"GT", "MULT_MIN", i>>, 1, <<"gtStrig", i>>, 4, 3)),
             Cut(F(<<"GT", "MULT_MIN", i>>, 2, <<"gtStrig1", i>>, 4, 3)),
             Cut(F(<<"GT", "SECTOR_WIDTH", i>>, 1, <<"gtStrig", i>>, 16, 8)),
             Cut(F(<<"GT", "CTRIGGER_MASK", i>>, 1, <<"gtCtrig", i>>, 0, 4)),
             Cut(F(<<"GT", "DELAY", i>>, 1, <<"gtStrig", i>>, 24, 8)),
             p, Plain(<<"GT", "PRESCALE", i>>, 1, <<"trigPrescaler", i>>)}
      BY DEF GtTriggerBit, Whole
    <3>2. \A k1, j1, q, l, m : F(k1, j1, q, l, m).reg = q /\ Plain(k1, j1, q).reg = q /\ Cut(F(k1, j1, q, l, m)).reg = q
      BY DEF F, Plain, Cut
    <3> HIDE DEF p, c
    <3> QED BY <3>1, <3>2
  <2>2. p.lo = 0 /\ p.n = 31
    BY DEF Plain, F
  <2> HIDE DEF p, c
  <2> QED BY <2>1, <2>2 DEF Span
<1> HIDE DEF c, d, e
<1>7. e.lo = 31 /\ e.n = 1 /\ ~(e.signed /\ ~e.cut) /\ Kept(e) /\ e.reg = r /\ Span(e) = {31}
  <2>1. e.lo = 31 /\ e.n = 1 /\ ~(e.signed /\ ~e.cut) /\ e.reg = r
    BY <1>1 DEF AtIn, At
  <2>2. Kept(e)
    BY <1>1 DEF AtIn, At, Kept, KeyOf, Lost
  <2> QED BY <2>1, <2>2 DEF Span
<1>8. CallOK(d, GtBitRegs(i), {"GT"})
  BY <1>2, <1>3, <1>4, <1>7 DEF CallOK, Group
<1>9. Cross(c, d)
  BY <1>3, <1>6, <1>7 DEF Cross, Spares, Beside
<1> QED BY <1>5, <1>8, <1>9, TwoCalls DEF c, d

LEMMA DcSlots == \A i \in 0 .. 1 : SlotAt("DC", "SEGTHR", i, 1)
<1>1. Has("DC", "SEGTHR", 2, 1)
  BY KeysOf DEF Has, DcKeys
<1> QED BY <1>1, HasSlot

LEMMA DcThresholdOK ==
    ASSUME NEW i \in 0 .. 1
    PROVE  CallOK(DcThreshold(i), {<<"dcThreshold", i>>}, {"DC"})
<1> DEFINE r == <<"dcThreshold", i>>
           e == Plain(<<"DC", "SEGTHR", i>>, 1, r)
<1>2. SlotAt("DC", "SEGTHR", i, 1)
  BY DcSlots
<1>3. AtIn(e, "DC", "SEGTHR", i, 1, r, 0, 31)
  BY <1>2, FieldPlain
<1>4. DcThreshold(i) = Whole({e})
  BY DEF DcThreshold
<1> HIDE DEF e, r
<1>5. CallOK(Whole({e}), {r}, {"DC"})
  BY <1>3, WholeOne
<1> QED BY <1>4, <1>5 DEF r

DcRegs == {<<"dcThreshold", 0>>} \union {<<"dcThreshold", 1>>}
LEMMA DcOK == CallsOK(DcCalls, DcRegs, {"DC"})
<1> DEFINE c1 == DcThreshold(0)
           c2 == DcThreshold(1)
           r1 == {<<"dcThreshold", 0>>}
           r2 == {<<"dcThreshold", 1>>}
<1>1. CallOK(c1, r1, {"DC"}) /\ CallOK(c2, r2, {"DC"})
  BY DcThresholdOK
<1>2. r1 \cap r2 = {} /\ DcCalls = <<c1>> \o <<c2>>
  BY DEF DcCalls
<1> HIDE DEF c1, c2, r1, r2
<1>3. CallsOK(<<c1>>, r1, {"DC"}) /\ CallsOK(<<c2>>, r2, {"DC"})
  BY <1>1, OneCall
<1>4. CallsOK(<<c1>> \o <<c2>>, r1 \union r2, {"DC"} \union {"DC"})
  BY <1>2, <1>3, Join
<1> QED BY <1>2, <1>4 DEF DcRegs, r1, r2

LEMMA HcalSlots == SlotAt("HCAL", "HIT_DT", 0, 1) /\ SlotAt("HCAL", "HIT_EMIN", 0, 1)
<1>1. Has("HCAL", "HIT_DT", 1, 1) /\ Has("HCAL", "HIT_EMIN", 1, 1)
  BY KeysOf DEF Has, HcalKeys
<1> QED BY <1>1, HasSlot

\* A number that is limited before it is divided.
TopAt(f, b, s, c, r, lo, n) ==
    LET x == Top(f, b)
    IN /\ DOMAIN x = FieldNames /\ FieldOK(x) /\ x.slot = s /\ x.col = c /\ x.reg = r /\ x.lo = lo /\ x.n = n
       /\ ~x.flag /\ ~x.signed /\ x.top = b /\ x.unit = f.unit /\ x.bias = f.bias
LEMMA TopOf ==
    ASSUME NEW f, NEW s, NEW c, NEW r, NEW lo, NEW n, NumAt(f, s, c, r, lo, n), NEW b \in Int
    PROVE  TopAt(f, b, s, c, r, lo, n)
<1>1. FieldOK(Top(f, b))
  BY DEF NumAt, At, Top, FieldNames, FieldOK
<1> QED BY <1>1 DEF NumAt, At, Top, FieldNames, TopAt

HcalRegs == {The("hcalCoin")} \union {The("hcalThr")}
LEMMA HcalOK == CallsOK(HcalCluster, HcalRegs, {"HCAL"})
<1> DEFINE r1 == The("hcalCoin")
           r2 == The("hcalThr")
           s1 == <<"HCAL", "HIT_DT", 0>>
           s2 == <<"HCAL", "HIT_EMIN", 0>>
           f1 == Per(F(s1, 1, r1, 0, 3), 4)
           f2 == F(s2, 1, r2, 0, 13)
           e1 == Top(f1, 7)
           e2 == Top(f2, 8191)
<1>1. Within(0, 3) /\ Within(0, 13) /\ Unit(4) /\ {r1} \cap {r2} = {} /\ 0 \in 0 .. 31 /\ 13 \in 1 .. 31 /\ 0 + 13 <= 32
  BY DEF Within, Unit, The
<1>2. HcalCluster = <<Whole({e1})>> \o <<Whole({e2})>>
  BY DEF HcalCluster
<1>3. f2.unit = 1 /\ f2.bias = 0
  BY DEF F
<1>4. KeyOf(s1) \in Lost /\ KeyOf(s2) \notin Lost
  BY DEF KeyOf, Lost
<1>5. \A x : (x.slot = s1 /\ x.col = 1 => SlotIn(x, {"HCAL"})) /\ (x.slot = s2 /\ x.col = 1 => SlotIn(x, {"HCAL"}))
  BY HcalSlots, SlotAtIn
<1> HIDE DEF r1, r2, s1, s2
<1>6. NumAt(f1, s1, 1, r1, 0, 3)
  BY <1>1, NumPer
<1>7. NumAt(f2, s2, 1, r2, 0, 13)
  BY <1>1, FAt
<1> HIDE DEF f1, f2
<1>8. TopAt(f1, 7, s1, 1, r1, 0, 3) /\ TopAt(f2, 8191, s2, 1, r2, 0, 13)
  BY <1>6, <1>7, TopOf
<1>9. Group({e1}, {r1}, {"HCAL"})
  BY <1>4, <1>5, <1>8 DEF Group, TopAt, Kept
<1>10. Group({e2}, {r2}, {"HCAL"})
  BY <1>3, <1>4, <1>5, <1>8 DEF Group, TopAt, Kept, TopOK
<1> DEFINE c1 == Whole({e1})
           c2 == Whole({e2})
<1>11. CallOK(c1, {r1}, {"HCAL"}) /\ CallOK(c2, {r2}, {"HCAL"})
  BY <1>9, <1>10, WholeOK
<1> HIDE DEF c1, c2
<1>12. CallsOK(<<c1>>, {r1}, {"HCAL"}) /\ CallsOK(<<c2>>, {r2}, {"HCAL"})
  BY <1>11, OneCall
<1>13. CallsOK(<<c1>> \o <<c2>>, {r1} \union {r2}, {"HCAL"} \union {"HCAL"})
  BY <1>1, <1>12, Join
<1> QED BY <1>2, <1>13 DEF HcalRegs, c1, c2, r1, r2

LEMMA FtcalSlots ==
    /\ SlotAt("FTCAL", "SEED_EMIN", 0, 1) /\ SlotAt("FTCAL", "SEED_DT", 0, 1) /\ SlotAt("FTCAL", "HODO_DT", 0, 1)
    /\ SlotAt("FTCAL", "CLUSTER_DEADTIME", 0, 1) /\ SlotAt("FTCAL", "CLUSTER_DEADTIME_EMIN", 0, 1)
<1>1. /\ Has("FTCAL", "SEED_EMIN", 1, 1) /\ Has("FTCAL", "SEED_DT", 1, 1) /\ Has("FTCAL", "HODO_DT", 1, 1)
      /\ Has("FTCAL", "CLUSTER_DEADTIME", 1, 1) /\ Has("FTCAL", "CLUSTER_DEADTIME_EMIN", 1, 1)
  BY KeysOf DEF Has, FtcalKeys
<1> QED BY <1>1, HasSlot

LEMMA ThreeCalls ==
    ASSUME NEW c, NEW d, NEW e, NEW rs, NEW fams, CallOK(c, rs, fams), CallOK(d, rs, fams), CallOK(e, rs, fams),
           Cross(c, d), Cross(c, e), Cross(d, e)
    PROVE  CallsOK(<<c, d, e>>, rs, fams)
<1>1. /\ IsSeq(<<c, d, e>>) /\ Len(<<c, d, e>>) = 3
      /\ <<c, d, e>>[1] = c /\ <<c, d, e>>[2] = d /\ <<c, d, e>>[3] = e
  BY DEF IsSeq
<1>2. \A i \in 1 .. 3 : i = 1 \/ i = 2 \/ i = 3
  OBVIOUS
<1>3. \A i, j \in 1 .. 3 : i < j => (i = 1 /\ j = 2) \/ (i = 1 /\ j = 3) \/ (i = 2 /\ j = 3)
  OBVIOUS
<1> DEFINE q == <<c, d, e>>
<1> HIDE DEF q
<1>4. \A i \in 1 .. 3 : CallOK(q[i], rs, fams)
  BY <1>1, <1>2 DEF q
<1>5. \A i, j \in 1 .. 3 : i < j => Cross(q[i], q[j])
  BY <1>1, <1>3 DEF q
<1>6. CallsOK(q, rs, fams)
  BY <1>1, <1>4, <1>5 DEF CallsOK, q
<1> QED BY <1>6 DEF q

LEMMA FtcalSeedOK == CallsOK(FtcalSeed, {The("ftcalCtrl")}, {"FTCAL"})
<1> DEFINE r == The("ftcalCtrl")
           e1 == F(<<"FTCAL", "SEED_EMIN", 0>>, 1, r, 0, 13)
           e2 == Cut(Per(F(<<"FTCAL", "SEED_DT", 0>>, 1, r, 16, 3), 4))
           e3 == Cut(Per(F(<<"FTCAL", "HODO_DT", 0>>, 1, r, 24, 3), 4))
<1>1. /\ Within(0, 13) /\ Within(16, 3) /\ Within(24, 3) /\ Unit(4)
      /\ Before(0, 13, 16, 3) /\ Before(0, 13, 24, 3) /\ Before(16, 3, 24, 3)
  BY DEF Within, Unit, Before
<1>2. /\ AtIn(e1, "FTCAL", "SEED_EMIN", 0, 1, r, 0, 13) /\ AtIn(e2, "FTCAL", "SEED_DT", 0, 1, r, 16, 3)
      /\ AtIn(e3, "FTCAL", "HODO_DT", 0, 1, r, 24, 3)
  BY <1>1, FtcalSlots, Field1, FieldCutPer
<1>3. Safe("FTCAL", "SEED_EMIN") /\ Safe("FTCAL", "SEED_DT") /\ Safe("FTCAL", "HODO_DT")
  BY DEF Safe, Lost
<1>4. FtcalSeed = <<Rmw(e1), Rmw(e2), Rmw(e3)>>
  BY DEF FtcalSeed
<1> HIDE DEF e1, e2, e3, r
<1>5. Beside(e2, e1) /\ Beside(e3, e1) /\ Beside(e3, e2)
  BY <1>1, <1>2, <1>3, TwoBeside
<1>6. CallOK(Rmw(e1), {r}, {"FTCAL"}) /\ CallOK(Rmw(e2), {r}, {"FTCAL"}) /\ CallOK(Rmw(e3), {r}, {"FTCAL"})
  BY <1>2, RmwOne
<1>7. Cross(Rmw(e1), Rmw(e2)) /\ Cross(Rmw(e1), Rmw(e3)) /\ Cross(Rmw(e2), Rmw(e3))
  BY <1>5, RmwCross
<1>8. CallsOK(<<Rmw(e1), Rmw(e2), Rmw(e3)>>, {r}, {"FTCAL"})
  BY <1>6, <1>7, ThreeCalls
<1> QED BY <1>4, <1>8 DEF r

\* The dead time is one of the settings that are lost.
LEMMA FtcalDeadtimeOK == CallsOK(FtcalDeadtime, {The("ftcalDeadtime")}, {"FTCAL"})
<1> DEFINE r == The("ftcalDeadtime")
           e1 == Cut(Per(F(<<"FTCAL", "CLUSTER_DEADTIME", 0>>, 1, r, 16, 6), 4))
           e2 == Cut(F(<<"FTCAL", "CLUSTER_DEADTIME_EMIN", 0>>, 1, r, 0, 14))
<1>1. Within(16, 6) /\ Within(0, 14) /\ Unit(4)
  BY DEF Within, Unit
<1>2. /\ AtIn(e1, "FTCAL", "CLUSTER_DEADTIME", 0, 1, r, 16, 6)
      /\ AtIn(e2, "FTCAL", "CLUSTER_DEADTIME_EMIN", 0, 1, r, 0, 14)
  BY <1>1, FtcalSlots, FieldCut, FieldCutPer
<1>3. FtcalDeadtime = <<Rmw(e1), Whole({e2})>>
  BY DEF FtcalDeadtime
<1> HIDE DEF e1, e2, r
<1>4. CallOK(Rmw(e1), {r}, {"FTCAL"}) /\ CallOK(Whole({e2}), {r}, {"FTCAL"})
  BY <1>2, RmwOne, WholeOne
<1>5. ~Kept(e1)
  BY <1>2 DEF AtIn, At, Kept, KeyOf, Lost
<1>6. Cross(Rmw(e1), Whole({e2}))
  BY <1>5 DEF Cross, Rmw
<1>7. CallsOK(<<Rmw(e1), Whole({e2})>>, {r}, {"FTCAL"})
  BY <1>4, <1>6, TwoCalls
<1> QED BY <1>3, <1>7 DEF r

FtcalRegs == ({<<"fadcSum", k>> : k \in 0 .. 7} \union {The("ftcalCtrl")}) \union {The("ftcalDeadtime")}
LEMMA FtcalOK == CallsOK(FtcalCalls, FtcalRegs, {"FTCAL"})
<1> DEFINE c == FadcSum("FTCAL")
           p == FtcalSeed
           q == FtcalDeadtime
           r1 == {<<"fadcSum", k>> : k \in 0 .. 7}
           r2 == {The("ftcalCtrl")}
           r3 == {The("ftcalDeadtime")}
<1>1. CallOK(c, r1, {"FTCAL"}) /\ CallsOK(p, r2, {"FTCAL"}) /\ CallsOK(q, r3, {"FTCAL"})
  BY FadcSumOK, FtcalSeedOK, FtcalDeadtimeOK
<1>2. r1 \cap r2 = {} /\ (r1 \union r2) \cap r3 = {}
  BY DEF The
<1>3. FtcalCalls = (<<c>> \o p) \o q
  BY DEF FtcalCalls
<1> HIDE DEF c, p, q, r1, r2, r3
<1>4. CallsOK(<<c>>, r1, {"FTCAL"})
  BY <1>1, OneCall
<1>5. CallsOK(<<c>> \o p, r1 \union r2, {"FTCAL"} \union {"FTCAL"})
  BY <1>1, <1>2, <1>4, Join
<1>6. CallsOK((<<c>> \o p) \o q, (r1 \union r2) \union r3, ({"FTCAL"} \union {"FTCAL"}) \union {"FTCAL"})
  BY <1>1, <1>2, <1>5, Join
<1> QED BY <1>3, <1>6 DEF FtcalRegs, r1, r2, r3

LEMMA FthodoSlots == SlotAt("FTHODO", "EMIN", 0, 1)
<1>1. Has("FTHODO", "EMIN", 1, 1)
  BY KeysOf DEF Has, FthodoKeys
<1> QED BY <1>1, HasSlot

LEMMA FthodoOK ==
    CallOK(FthodoEmin, {The("fthodoCtrl")}, {"FTHODO"})
<1> DEFINE r == The("fthodoCtrl")
           e == Cut(F(<<"FTHODO", "EMIN", 0>>, 1, r, 0, 13))
<1>1. Within(0, 13)
  BY DEF Within
<1>2. SlotAt("FTHODO", "EMIN", 0, 1)
  BY FthodoSlots
<1>3. AtIn(e, "FTHODO", "EMIN", 0, 1, r, 0, 13)
  BY <1>1, <1>2, FieldCut
<1>4. FthodoEmin = Whole({e})
  BY DEF FthodoEmin
<1> HIDE DEF e, r
<1>5. CallOK(Whole({e}), {r}, {"FTHODO"})
  BY <1>3, WholeOne
<1> QED BY <1>4, <1>5 DEF r

-----------------------------------------------------------------------------
(* HPS *)

\* The registers of a trigger.
HpsRegs(r) ==
    {<<n, r>> : n \in {"Eminmax", "Nmin", "Ctrl", "Esum", "Ediff", "Ed", "Coplanar", "Emin", "Emax", "Xmin"}}
    \union {<<n, r, k>> : n \in {"Pde", "FeeXmin", "FeeXmax", "FeePrescale"}, k \in Int}
LEMMA HpsApart == \A r, t : r # t => HpsRegs(r) \cap HpsRegs(t) = {}
BY DEF HpsRegs

LEMMA HpsSlots ==
    /\ SlotAt("HPS", "ECAL", 0, 1) /\ SlotAt("HPS", "HIT_DT", 0, 1) /\ SlotAt("HPS", "SEED_THR", 0, 1)
    /\ SlotAt("HPS", "HODO_DT", 0, 1) /\ SlotAt("HPS", "HODO_THR", 0, 1) /\ SlotAt("HPS", "FADCHIT_THR", 0, 1)
<1>1. /\ Has("HPS", "ECAL", 1, 1) /\ Has("HPS", "HIT_DT", 1, 1) /\ Has("HPS", "SEED_THR", 1, 1)
      /\ Has("HPS", "HODO_DT", 1, 1) /\ Has("HPS", "HODO_THR", 1, 1) /\ Has("HPS", "FADCHIT_THR", 1, 1)
  BY KeysOf DEF Has, HpsKeys
<1> QED BY <1>1, HasSlot

LEMMA SingleSlots ==
    ASSUME NEW i \in 0 .. NumHps - 1
    PROVE  /\ \A c \in 1 .. 2 : /\ SlotAt("SINGLE", "EMIN", i, c) /\ SlotAt("SINGLE", "EMAX", i, c)
                               /\ SlotAt("SINGLE", "NMIN", i, c) /\ SlotAt("SINGLE", "XMIN", i, c)
           /\ \A c \in 1 .. 5 : SlotAt("SINGLE", "PDE", i, c)
           /\ \A c \in 1 .. 4 : SlotAt("SINGLE", "HODO", i, c)
           /\ SlotAt("SINGLE", "EN", i, 1)
<1>1. /\ Has("SINGLE", "EMIN", NumHps, 2) /\ Has("SINGLE", "EMAX", NumHps, 2)
      /\ Has("SINGLE", "NMIN", NumHps, 2) /\ Has("SINGLE", "XMIN", NumHps, 2)
      /\ Has("SINGLE", "PDE", NumHps, 5) /\ Has("SINGLE", "HODO", NumHps, 4) /\ Has("SINGLE", "EN", NumHps, 1)
  BY KeysOf DEF Has, SingleKeys
<1> QED BY <1>1, HasSlot

LEMMA PairSlots ==
    ASSUME NEW i \in 0 .. NumHps - 1
    PROVE  /\ SlotAt("PAIR", "EMIN", i, 1) /\ SlotAt("PAIR", "EMAX", i, 1) /\ SlotAt("PAIR", "NMIN", i, 1)
           /\ SlotAt("PAIR", "TIMECOINCIDENCE", i, 1) /\ SlotAt("PAIR", "EN", i, 1)
           /\ \A c \in 1 .. 3 : SlotAt("PAIR", "SUMMAX_MIN", i, c) /\ SlotAt("PAIR", "ENERGYDIST", i, c)
           /\ \A c \in 1 .. 2 : SlotAt("PAIR", "DIFFMAX", i, c) /\ SlotAt("PAIR", "COPLANARITY", i, c)
           /\ \A c \in 1 .. 4 : SlotAt("PAIR", "HODO", i, c)
<1>1. /\ Has("PAIR", "EMIN", NumHps, 1) /\ Has("PAIR", "EMAX", NumHps, 1) /\ Has("PAIR", "NMIN", NumHps, 1)
      /\ Has("PAIR", "TIMECOINCIDENCE", NumHps, 1) /\ Has("PAIR", "EN", NumHps, 1)
      /\ Has("PAIR", "SUMMAX_MIN", NumHps, 3) /\ Has("PAIR", "ENERGYDIST", NumHps, 3)
      /\ Has("PAIR", "DIFFMAX", NumHps, 2) /\ Has("PAIR", "COPLANARITY", NumHps, 2) /\ Has("PAIR", "HODO", NumHps, 4)
  BY KeysOf DEF Has, PairKeys
<1> QED BY <1>1, HasSlot

LEMMA MultSlots ==
    ASSUME NEW i \in 0 .. NumMult - 1
    PROVE  /\ SlotAt("MULT", "EMIN", i, 1) /\ SlotAt("MULT", "EMAX", i, 1) /\ SlotAt("MULT", "NMIN", i, 1)
           /\ SlotAt("MULT", "DT", i, 1) /\ SlotAt("MULT", "EN", i, 1)
           /\ \A c \in 1 .. 3 : SlotAt("MULT", "MIN", i, c)
<1>1. /\ Has("MULT", "EMIN", NumMult, 1) /\ Has("MULT", "EMAX", NumMult, 1) /\ Has("MULT", "NMIN", NumMult, 1)
      /\ Has("MULT", "DT", NumMult, 1) /\ Has("MULT", "EN", NumMult, 1) /\ Has("MULT", "MIN", NumMult, 3)
  BY KeysOf DEF Has, MultKeys
<1> QED BY <1>1, HasSlot

LEMMA FeeSlots ==
    /\ SlotAt("FEE", "EMIN", 0, 1) /\ SlotAt("FEE", "EMAX", 0, 1) /\ SlotAt("FEE", "NMIN", 0, 1) /\ SlotAt("FEE", "EN", 0, 1)
    /\ \A i \in 0 .. NumFee - 1 : \A c \in 1 .. 3 : SlotAt("FEE", "PRESCALE", i, c)
<1>1. /\ Has("FEE", "EMIN", 1, 1) /\ Has("FEE", "EMAX", 1, 1) /\ Has("FEE", "NMIN", 1, 1) /\ Has("FEE", "EN", 1, 1)
      /\ Has("FEE", "PRESCALE", NumFee, 3)
  BY KeysOf DEF Has, FeeKeys
<1> QED BY <1>1, HasSlot

LEMMA HpsClusterOK ==
    CallOK(HpsCluster, {The("hpsCluster")}, {"HPS"})
<1> DEFINE r == The("hpsCluster")
           e1 == Clamp(F(<<"HPS", "ECAL", 0>>, 1, r, 31, 1), 0, 1)
           e2 == Clamp(Per(F(<<"HPS", "HIT_DT", 0>>, 1, r, 16, 3), 4), 0, 4)
           e3 == Clamp(F(<<"HPS", "SEED_THR", 0>>, 1, r, 0, 13), 1, 8191)
           fs == {e1, e2, e3}
           rs == {r}
<1>1. HpsCluster = Whole(fs)
  BY DEF HpsCluster, H
<1> HIDE DEF r
<1>2. /\ Within(31, 1) /\ Within(16, 3) /\ Within(0, 13) /\ Limits(0, 1) /\ Limits(0, 4) /\ Limits(1, 8191)
      /\ Unit(4)
  BY DEF Within, Unit, Limits, Huge
<1>3. SlotAt("HPS", "ECAL", 0, 1) /\ SlotAt("HPS", "HIT_DT", 0, 1) /\ SlotAt("HPS", "SEED_THR", 0, 1)
  BY HpsSlots
<1>a1. AtIn(e1, "HPS", "ECAL", 0, 1, r, 31, 1)
  BY <1>2, <1>3, FieldClamp
<1>a2. AtIn(e2, "HPS", "HIT_DT", 0, 1, r, 16, 3)
  BY <1>2, <1>3, FieldClampPer
<1>a3. AtIn(e3, "HPS", "SEED_THR", 0, 1, r, 0, 13)
  BY <1>2, <1>3, FieldClamp
<1> HIDE DEF e1, e2, e3
<1>4. /\ Placed(e1, {"HPS"}, r, 31, 1)
      /\ Placed(e2, {"HPS"}, r, 16, 3)
      /\ Placed(e3, {"HPS"}, r, 0, 13)
  BY <1>a1, <1>a2, <1>a3, PlacedOf, AllSafe
<1>5. \A x \in fs : Good(x, {"HPS"}) /\ x.reg \in rs
  BY <1>4 DEF Placed, HpsRegs
<1>6. \A x \in fs : \A y \in fs : y.reg = x.reg /\ y # x => Span(y) \cap Span(x) = {}
  BY <1>4 DEF Placed, Span
<1> HIDE DEF fs, rs
<1>7. Group(fs, rs, {"HPS"})
  BY <1>5, <1>6, PlacedAll
<1>8. CallOK(Whole(fs), rs, {"HPS"})
  BY <1>7, WholeOK
<1> QED BY <1>1, <1>8 DEF rs, r

LEMMA HpsHodoscopeOK ==
    CallOK(HpsHodoscope, {The("hpsHodo")}, {"HPS"})
<1> DEFINE r == The("hpsHodo")
           e1 == Clamp(Per(F(<<"HPS", "HODO_DT", 0>>, 1, r, 26, 4), 4), 0, 15)
           e2 == Clamp(F(<<"HPS", "HODO_THR", 0>>, 1, r, 13, 13), 1, 8191)
           e3 == Clamp(F(<<"HPS", "FADCHIT_THR", 0>>, 1, r, 0, 13), 1, 8191)
           fs == {e1, e2, e3}
           rs == {r}
<1>1. HpsHodoscope = Whole(fs)
  BY DEF HpsHodoscope, H
<1> HIDE DEF r
<1>2. Within(26, 4) /\ Within(13, 13) /\ Within(0, 13) /\ Limits(0, 15) /\ Limits(1, 8191) /\ Unit(4)
  BY DEF Within, Unit, Limits, Huge
<1>3. /\ SlotAt("HPS", "HODO_DT", 0, 1) /\ SlotAt("HPS", "HODO_THR", 0, 1)
      /\ SlotAt("HPS", "FADCHIT_THR", 0, 1)
  BY HpsSlots
<1>a1. AtIn(e1, "HPS", "HODO_DT", 0, 1, r, 26, 4)
  BY <1>2, <1>3, FieldClampPer
<1>a2. AtIn(e2, "HPS", "HODO_THR", 0, 1, r, 13, 13)
  BY <1>2, <1>3, FieldClamp
<1>a3. AtIn(e3, "HPS", "FADCHIT_THR", 0, 1, r, 0, 13)
  BY <1>2, <1>3, FieldClamp
<1> HIDE DEF e1, e2, e3
<1>4. /\ Placed(e1, {"HPS"}, r, 26, 4)
      /\ Placed(e2, {"HPS"}, r, 13, 13)
      /\ Placed(e3, {"HPS"}, r, 0, 13)
  BY <1>a1, <1>a2, <1>a3, PlacedOf, AllSafe
<1>5. \A x \in fs : Good(x, {"HPS"}) /\ x.reg \in rs
  BY <1>4 DEF Placed, HpsRegs
<1>6. \A x \in fs : \A y \in fs : y.reg = x.reg /\ y # x => Span(y) \cap Span(x) = {}
  BY <1>4 DEF Placed, Span
<1> HIDE DEF fs, rs
<1>7. Group(fs, rs, {"HPS"})
  BY <1>5, <1>6, PlacedAll
<1>8. CallOK(Whole(fs), rs, {"HPS"})
  BY <1>7, WholeOK
<1> QED BY <1>1, <1>8 DEF rs, r

LEMMA PairOK ==
    ASSUME NEW i \in 0 .. NumHps - 1
    PROVE  CallOK(HpsPair(i), HpsRegs(<<"pair", i>>), {"PAIR"})
<1> DEFINE r == <<"pair", i>>
           e1 == Clamp(F(<<"PAIR", "EMIN", i>>, 1, <<"Eminmax", r>>, 0, 13), 0, 8191)
           e2 == Clamp(F(<<"PAIR", "EMAX", i>>, 1, <<"Eminmax", r>>, 16, 13), 0, 8191)
           e3 == Clamp(Plain(<<"PAIR", "NMIN", i>>, 1, <<"Nmin", r>>), 0, 9)
           e4 == Clamp(Per(F(<<"PAIR", "TIMECOINCIDENCE", i>>, 1, <<"Ctrl", r>>, 16, 4), 4), 0, 15)
           e5 == Clamp(F(<<"PAIR", "SUMMAX_MIN", i>>, 1, <<"Esum", r>>, 16, 14), 0, 16383)
           e6 == Clamp(F(<<"PAIR", "SUMMAX_MIN", i>>, 2, <<"Esum", r>>, 0, 14), 0, 8191)
           e7 == Clamp(Plain(<<"PAIR", "DIFFMAX", i>>, 1, <<"Ediff", r>>), 0, 8191)
           e8 == Clamp(F(<<"PAIR", "ENERGYDIST", i>>, 1, <<"Ed", r>>, 0, 8), 0, 255)
           e9 == Clamp(F(<<"PAIR", "ENERGYDIST", i>>, 2, <<"Ed", r>>, 16, 13), 0, 8191)
           e10 == Clamp(Plain(<<"PAIR", "COPLANARITY", i>>, 1, <<"Coplanar", r>>), 0, 255)
           e11 == Enable("PAIR", "SUMMAX_MIN", i, 3, r, 0)
           e12 == Enable("PAIR", "DIFFMAX", i, 2, r, 1)
           e13 == Enable("PAIR", "COPLANARITY", i, 2, r, 2)
           e14 == Enable("PAIR", "ENERGYDIST", i, 3, r, 3)
           e15 == Enable("PAIR", "EN", i, 1, r, 31)
           e16 == Enable("PAIR", "HODO", i, 1, r, 4)
           e17 == Enable("PAIR", "HODO", i, 2, r, 5)
           e18 == Enable("PAIR", "HODO", i, 3, r, 6)
           e19 == Enable("PAIR", "HODO", i, 4, r, 7)
           fs == {e1, e2, e3, e4, e5, e6, e7, e8, e9, e10, e11, e12, e13, e14, e15, e16, e17, e18, e19}
           rs == HpsRegs(<<"pair", i>>)
<1>0. {Enable("PAIR", "HODO", i, c, r, 3 + c) : c \in 1 .. 4} = {e16, e17, e18, e19}
  OBVIOUS
<1>1. HpsPair(i) = Whole(fs)
  <2>1. HpsPair(i) = Whole({e1, e2, e3, e4, e5, e6, e7, e8, e9, e10, e11, e12, e13, e14, e15} \union {Enable("PAIR", "HODO", i, c, r, 3 + c) : c \in 1 .. 4})
    BY DEF HpsPair
  <2> HIDE DEF e1, e2, e3, e4, e5, e6, e7, e8, e9, e10, e11, e12, e13, e14, e15, e16, e17, e18, e19
  <2>2. {e1, e2, e3, e4, e5, e6, e7, e8, e9, e10, e11, e12, e13, e14, e15} \union {e16, e17, e18, e19} = fs
    OBVIOUS
  <2> QED BY <1>0, <2>1, <2>2
<1>2. /\ Within(0, 13) /\ Within(16, 13) /\ Within(16, 4) /\ Within(16, 14) /\ Within(0, 14)
      /\ Within(0, 8) /\ Within(0, 1) /\ Within(1, 1) /\ Within(2, 1) /\ Within(3, 1) /\ Within(31, 1)
      /\ Within(4, 1) /\ Within(5, 1) /\ Within(6, 1) /\ Within(7, 1) /\ Limits(0, 8191) /\ Limits(0, 9)
      /\ Limits(0, 15) /\ Limits(0, 16383) /\ Limits(0, 255) /\ Unit(4)
  BY DEF Within, Unit, Limits, Huge
<1>3. /\ SlotAt("PAIR", "EMIN", i, 1) /\ SlotAt("PAIR", "EMAX", i, 1) /\ SlotAt("PAIR", "NMIN", i, 1)
      /\ SlotAt("PAIR", "TIMECOINCIDENCE", i, 1) /\ SlotAt("PAIR", "SUMMAX_MIN", i, 1)
      /\ SlotAt("PAIR", "SUMMAX_MIN", i, 2) /\ SlotAt("PAIR", "DIFFMAX", i, 1)
      /\ SlotAt("PAIR", "ENERGYDIST", i, 1) /\ SlotAt("PAIR", "ENERGYDIST", i, 2)
      /\ SlotAt("PAIR", "COPLANARITY", i, 1) /\ SlotAt("PAIR", "SUMMAX_MIN", i, 3)
      /\ SlotAt("PAIR", "DIFFMAX", i, 2) /\ SlotAt("PAIR", "COPLANARITY", i, 2)
      /\ SlotAt("PAIR", "ENERGYDIST", i, 3) /\ SlotAt("PAIR", "EN", i, 1) /\ SlotAt("PAIR", "HODO", i, 1)
      /\ SlotAt("PAIR", "HODO", i, 2) /\ SlotAt("PAIR", "HODO", i, 3) /\ SlotAt("PAIR", "HODO", i, 4)
  BY PairSlots
<1>a1. AtIn(e1, "PAIR", "EMIN", i, 1, <<"Eminmax", r>>, 0, 13)
  BY <1>2, <1>3, FieldClamp
<1>a2. AtIn(e2, "PAIR", "EMAX", i, 1, <<"Eminmax", r>>, 16, 13)
  BY <1>2, <1>3, FieldClamp
<1>a3. AtIn(e3, "PAIR", "NMIN", i, 1, <<"Nmin", r>>, 0, 31)
  BY <1>2, <1>3, FieldPlainClamp
<1>a4. AtIn(e4, "PAIR", "TIMECOINCIDENCE", i, 1, <<"Ctrl", r>>, 16, 4)
  BY <1>2, <1>3, FieldClampPer
<1>a5. AtIn(e5, "PAIR", "SUMMAX_MIN", i, 1, <<"Esum", r>>, 16, 14)
  BY <1>2, <1>3, FieldClamp
<1>a6. AtIn(e6, "PAIR", "SUMMAX_MIN", i, 2, <<"Esum", r>>, 0, 14)
  BY <1>2, <1>3, FieldClamp
<1>a7. AtIn(e7, "PAIR", "DIFFMAX", i, 1, <<"Ediff", r>>, 0, 31)
  BY <1>2, <1>3, FieldPlainClamp
<1>a8. AtIn(e8, "PAIR", "ENERGYDIST", i, 1, <<"Ed", r>>, 0, 8)
  BY <1>2, <1>3, FieldClamp
<1>a9. AtIn(e9, "PAIR", "ENERGYDIST", i, 2, <<"Ed", r>>, 16, 13)
  BY <1>2, <1>3, FieldClamp
<1>a10. AtIn(e10, "PAIR", "COPLANARITY", i, 1, <<"Coplanar", r>>, 0, 31)
  BY <1>2, <1>3, FieldPlainClamp
<1>a11. AtIn(e11, "PAIR", "SUMMAX_MIN", i, 3, <<"Ctrl", r>>, 0, 1)
  BY <1>2, <1>3, FieldEnable
<1>a12. AtIn(e12, "PAIR", "DIFFMAX", i, 2, <<"Ctrl", r>>, 1, 1)
  BY <1>2, <1>3, FieldEnable
<1>a13. AtIn(e13, "PAIR", "COPLANARITY", i, 2, <<"Ctrl", r>>, 2, 1)
  BY <1>2, <1>3, FieldEnable
<1>a14. AtIn(e14, "PAIR", "ENERGYDIST", i, 3, <<"Ctrl", r>>, 3, 1)
  BY <1>2, <1>3, FieldEnable
<1>a15. AtIn(e15, "PAIR", "EN", i, 1, <<"Ctrl", r>>, 31, 1)
  BY <1>2, <1>3, FieldEnable
<1>a16. AtIn(e16, "PAIR", "HODO", i, 1, <<"Ctrl", r>>, 4, 1)
  BY <1>2, <1>3, FieldEnable
<1>a17. AtIn(e17, "PAIR", "HODO", i, 2, <<"Ctrl", r>>, 5, 1)
  BY <1>2, <1>3, FieldEnable
<1>a18. AtIn(e18, "PAIR", "HODO", i, 3, <<"Ctrl", r>>, 6, 1)
  BY <1>2, <1>3, FieldEnable
<1>a19. AtIn(e19, "PAIR", "HODO", i, 4, <<"Ctrl", r>>, 7, 1)
  BY <1>2, <1>3, FieldEnable
<1> HIDE DEF e1, e2, e3, e4, e5, e6, e7, e8, e9, e10, e11, e12, e13, e14, e15, e16, e17, e18, e19
<1>4. /\ Placed(e1, {"PAIR"}, <<"Eminmax", r>>, 0, 13)
      /\ Placed(e2, {"PAIR"}, <<"Eminmax", r>>, 16, 13)
      /\ Placed(e3, {"PAIR"}, <<"Nmin", r>>, 0, 31)
      /\ Placed(e4, {"PAIR"}, <<"Ctrl", r>>, 16, 4)
      /\ Placed(e5, {"PAIR"}, <<"Esum", r>>, 16, 14)
      /\ Placed(e6, {"PAIR"}, <<"Esum", r>>, 0, 14)
      /\ Placed(e7, {"PAIR"}, <<"Ediff", r>>, 0, 31)
      /\ Placed(e8, {"PAIR"}, <<"Ed", r>>, 0, 8)
      /\ Placed(e9, {"PAIR"}, <<"Ed", r>>, 16, 13)
      /\ Placed(e10, {"PAIR"}, <<"Coplanar", r>>, 0, 31)
      /\ Placed(e11, {"PAIR"}, <<"Ctrl", r>>, 0, 1)
      /\ Placed(e12, {"PAIR"}, <<"Ctrl", r>>, 1, 1)
      /\ Placed(e13, {"PAIR"}, <<"Ctrl", r>>, 2, 1)
      /\ Placed(e14, {"PAIR"}, <<"Ctrl", r>>, 3, 1)
      /\ Placed(e15, {"PAIR"}, <<"Ctrl", r>>, 31, 1)
      /\ Placed(e16, {"PAIR"}, <<"Ctrl", r>>, 4, 1)
      /\ Placed(e17, {"PAIR"}, <<"Ctrl", r>>, 5, 1)
      /\ Placed(e18, {"PAIR"}, <<"Ctrl", r>>, 6, 1)
      /\ Placed(e19, {"PAIR"}, <<"Ctrl", r>>, 7, 1)
  BY <1>a1, <1>a2, <1>a3, <1>a4, <1>a5, <1>a6, <1>a7, <1>a8, <1>a9, <1>a10, <1>a11, <1>a12, <1>a13, <1>a14, <1>a15, <1>a16, <1>a17, <1>a18, <1>a19, PlacedOf, AllSafe
<1>5. \A x \in fs : Good(x, {"PAIR"}) /\ x.reg \in rs
  BY <1>4 DEF Placed, HpsRegs
<1>6. \A x \in fs : \A y \in fs : y.reg = x.reg /\ y # x => Span(y) \cap Span(x) = {}
  BY <1>4 DEF Placed, Span
<1> HIDE DEF fs, rs
<1>7. Group(fs, rs, {"PAIR"})
  BY <1>5, <1>6, PlacedAll
<1>8. CallOK(Whole(fs), rs, {"PAIR"})
  BY <1>7, WholeOK
<1> QED BY <1>1, <1>8 DEF rs

LEMMA MultOK ==
    ASSUME NEW i \in 0 .. NumMult - 1
    PROVE  CallOK(HpsMultiplicity(i), HpsRegs(<<"mult", i>>), {"MULT"})
<1> DEFINE r == <<"mult", i>>
           e1 == Clamp(Plain(<<"MULT", "EMIN", i>>, 1, <<"Emin", r>>), 0, 8191)
           e2 == Clamp(Plain(<<"MULT", "EMAX", i>>, 1, <<"Emax", r>>), 0, 8191)
           e3 == Clamp(Plain(<<"MULT", "NMIN", i>>, 1, <<"Nmin", r>>), 0, 9)
           e4 == Clamp(F(<<"MULT", "MIN", i>>, 1, <<"Ctrl", r>>, 0, 4), 0, 15)
           e5 == Clamp(F(<<"MULT", "MIN", i>>, 2, <<"Ctrl", r>>, 4, 4), 0, 15)
           e6 == Clamp(F(<<"MULT", "MIN", i>>, 3, <<"Ctrl", r>>, 8, 4), 0, 15)
           e7 == Clamp(Per(F(<<"MULT", "DT", i>>, 1, <<"Ctrl", r>>, 12, 4), 4), 0, 15)
           e8 == Enable("MULT", "EN", i, 1, r, 31)
           fs == {e1, e2, e3, e4, e5, e6, e7, e8}
           rs == HpsRegs(<<"mult", i>>)
<1>1. HpsMultiplicity(i) = Whole(fs)
  <2>1. HpsMultiplicity(i) = Whole({e1, e2, e3} \union {e4, e5, e6, e7, e8})
    BY DEF HpsMultiplicity, HpsWindow
  <2> HIDE DEF e1, e2, e3, e4, e5, e6, e7, e8
  <2>2. {e1, e2, e3} \union {e4, e5, e6, e7, e8} = fs
    OBVIOUS
  <2> QED BY <2>1, <2>2
<1>2. /\ Within(0, 4) /\ Within(4, 4) /\ Within(8, 4) /\ Within(12, 4) /\ Within(31, 1) /\ Limits(0, 8191)
      /\ Limits(0, 9) /\ Limits(0, 15) /\ Unit(4)
  BY DEF Within, Unit, Limits, Huge
<1>3. /\ SlotAt("MULT", "EMIN", i, 1) /\ SlotAt("MULT", "EMAX", i, 1) /\ SlotAt("MULT", "NMIN", i, 1)
      /\ SlotAt("MULT", "MIN", i, 1) /\ SlotAt("MULT", "MIN", i, 2) /\ SlotAt("MULT", "MIN", i, 3)
      /\ SlotAt("MULT", "DT", i, 1) /\ SlotAt("MULT", "EN", i, 1)
  BY MultSlots
<1>a1. AtIn(e1, "MULT", "EMIN", i, 1, <<"Emin", r>>, 0, 31)
  BY <1>2, <1>3, FieldPlainClamp
<1>a2. AtIn(e2, "MULT", "EMAX", i, 1, <<"Emax", r>>, 0, 31)
  BY <1>2, <1>3, FieldPlainClamp
<1>a3. AtIn(e3, "MULT", "NMIN", i, 1, <<"Nmin", r>>, 0, 31)
  BY <1>2, <1>3, FieldPlainClamp
<1>a4. AtIn(e4, "MULT", "MIN", i, 1, <<"Ctrl", r>>, 0, 4)
  BY <1>2, <1>3, FieldClamp
<1>a5. AtIn(e5, "MULT", "MIN", i, 2, <<"Ctrl", r>>, 4, 4)
  BY <1>2, <1>3, FieldClamp
<1>a6. AtIn(e6, "MULT", "MIN", i, 3, <<"Ctrl", r>>, 8, 4)
  BY <1>2, <1>3, FieldClamp
<1>a7. AtIn(e7, "MULT", "DT", i, 1, <<"Ctrl", r>>, 12, 4)
  BY <1>2, <1>3, FieldClampPer
<1>a8. AtIn(e8, "MULT", "EN", i, 1, <<"Ctrl", r>>, 31, 1)
  BY <1>2, <1>3, FieldEnable
<1> HIDE DEF e1, e2, e3, e4, e5, e6, e7, e8
<1>4. /\ Placed(e1, {"MULT"}, <<"Emin", r>>, 0, 31)
      /\ Placed(e2, {"MULT"}, <<"Emax", r>>, 0, 31)
      /\ Placed(e3, {"MULT"}, <<"Nmin", r>>, 0, 31)
      /\ Placed(e4, {"MULT"}, <<"Ctrl", r>>, 0, 4)
      /\ Placed(e5, {"MULT"}, <<"Ctrl", r>>, 4, 4)
      /\ Placed(e6, {"MULT"}, <<"Ctrl", r>>, 8, 4)
      /\ Placed(e7, {"MULT"}, <<"Ctrl", r>>, 12, 4)
      /\ Placed(e8, {"MULT"}, <<"Ctrl", r>>, 31, 1)
  BY <1>a1, <1>a2, <1>a3, <1>a4, <1>a5, <1>a6, <1>a7, <1>a8, PlacedOf, AllSafe
<1>5. \A x \in fs : Good(x, {"MULT"}) /\ x.reg \in rs
  BY <1>4 DEF Placed, HpsRegs
<1>6. \A x \in fs : \A y \in fs : y.reg = x.reg /\ y # x => Span(y) \cap Span(x) = {}
  BY <1>4 DEF Placed, Span
<1> HIDE DEF fs, rs
<1>7. Group(fs, rs, {"MULT"})
  BY <1>5, <1>6, PlacedAll
<1>8. CallOK(Whole(fs), rs, {"MULT"})
  BY <1>7, WholeOK
<1> QED BY <1>1, <1>8 DEF rs

LEMMA SingleOK ==
    ASSUME NEW i \in 0 .. NumHps - 1, NEW side
    PROVE  CallOK(HpsSingle(i, side), HpsRegs(<<side, i>>), {"SINGLE"})
<1> DEFINE r == <<side, i>>
           x == Signed(Clamp(F(<<"SINGLE", "XMIN", i>>, 1, <<"Xmin", r>>, 0, 6), -31, 31))
           e1 == Clamp(Plain(<<"SINGLE", "EMIN", i>>, 1, <<"Emin", r>>), 0, 8191)
           e2 == Clamp(Plain(<<"SINGLE", "EMAX", i>>, 1, <<"Emax", r>>), 0, 8191)
           e3 == Clamp(Plain(<<"SINGLE", "NMIN", i>>, 1, <<"Nmin", r>>), 0, 9)
           e4 == Plain(<<"SINGLE", "PDE", i>>, 1, <<"Pde", r, 1>>)
           e5 == Plain(<<"SINGLE", "PDE", i>>, 2, <<"Pde", r, 2>>)
           e6 == Plain(<<"SINGLE", "PDE", i>>, 3, <<"Pde", r, 3>>)
           e7 == Plain(<<"SINGLE", "PDE", i>>, 4, <<"Pde", r, 4>>)
           e8 == Enable("SINGLE", "EMIN", i, 2, r, 0)
           e9 == Enable("SINGLE", "EMAX", i, 2, r, 1)
           e10 == Enable("SINGLE", "NMIN", i, 2, r, 2)
           e11 == Enable("SINGLE", "XMIN", i, 2, r, 3)
           e12 == Enable("SINGLE", "PDE", i, 5, r, 4)
           e13 == Enable("SINGLE", "EN", i, 1, r, 31)
           e14 == Enable("SINGLE", "HODO", i, 1, r, 5)
           e15 == Enable("SINGLE", "HODO", i, 2, r, 6)
           e16 == Enable("SINGLE", "HODO", i, 3, r, 7)
           e17 == Enable("SINGLE", "HODO", i, 4, r, 8)
           fs == {e1, e2, e3, e4, e5, e6, e7, e8, e9, e10, e11, e12, e13, e14, e15, e16, e17}
           rs == HpsRegs(r) \ {<<"Xmin", r>>}
<1>0. /\ {Plain(<<"SINGLE", "PDE", i>>, c, <<"Pde", r, c>>) : c \in 1 .. 4} = {e4, e5, e6, e7}
      /\ {Enable("SINGLE", "HODO", i, c, r, 4 + c) : c \in 1 .. 4} = {e14, e15, e16, e17}
  OBVIOUS
<1>1. HpsSingle(i, side) = Whole(fs \union {x})
  <2>1. HpsSingle(i, side) = Whole({e1, e2, e3} \union {x}
            \union {Plain(<<"SINGLE", "PDE", i>>, c, <<"Pde", r, c>>) : c \in 1 .. 4}
            \union {e8, e9, e10, e11, e12, e13}
            \union {Enable("SINGLE", "HODO", i, c, r, 4 + c) : c \in 1 .. 4})
    BY DEF HpsSingle, HpsWindow
  <2> HIDE DEF e1, e2, e3, e4, e5, e6, e7, e8, e9, e10, e11, e12, e13, e14, e15, e16, e17, x
  <2>2. {e1, e2, e3} \union {x} \union {e4, e5, e6, e7} \union {e8, e9, e10, e11, e12, e13} \union {e14, e15, e16, e17} = fs \union {x}
    OBVIOUS
  <2> QED BY <1>0, <2>1, <2>2
<1>2. /\ Within(0, 1) /\ Within(1, 1) /\ Within(2, 1) /\ Within(3, 1) /\ Within(4, 1) /\ Within(31, 1)
      /\ Within(5, 1) /\ Within(6, 1) /\ Within(7, 1) /\ Within(8, 1) /\ Limits(0, 8191) /\ Limits(0, 9)
  BY DEF Within, Unit, Limits, Huge
<1>3. /\ SlotAt("SINGLE", "EMIN", i, 1) /\ SlotAt("SINGLE", "EMAX", i, 1) /\ SlotAt("SINGLE", "NMIN", i, 1)
      /\ SlotAt("SINGLE", "PDE", i, 1) /\ SlotAt("SINGLE", "PDE", i, 2) /\ SlotAt("SINGLE", "PDE", i, 3)
      /\ SlotAt("SINGLE", "PDE", i, 4) /\ SlotAt("SINGLE", "EMIN", i, 2) /\ SlotAt("SINGLE", "EMAX", i, 2)
      /\ SlotAt("SINGLE", "NMIN", i, 2) /\ SlotAt("SINGLE", "XMIN", i, 2) /\ SlotAt("SINGLE", "PDE", i, 5)
      /\ SlotAt("SINGLE", "EN", i, 1) /\ SlotAt("SINGLE", "HODO", i, 1) /\ SlotAt("SINGLE", "HODO", i, 2)
      /\ SlotAt("SINGLE", "HODO", i, 3) /\ SlotAt("SINGLE", "HODO", i, 4)
  BY SingleSlots
<1>a1. AtIn(e1, "SINGLE", "EMIN", i, 1, <<"Emin", r>>, 0, 31)
  BY <1>2, <1>3, FieldPlainClamp
<1>a2. AtIn(e2, "SINGLE", "EMAX", i, 1, <<"Emax", r>>, 0, 31)
  BY <1>2, <1>3, FieldPlainClamp
<1>a3. AtIn(e3, "SINGLE", "NMIN", i, 1, <<"Nmin", r>>, 0, 31)
  BY <1>2, <1>3, FieldPlainClamp
<1>a4. AtIn(e4, "SINGLE", "PDE", i, 1, <<"Pde", r, 1>>, 0, 31)
  BY <1>2, <1>3, FieldPlain
<1>a5. AtIn(e5, "SINGLE", "PDE", i, 2, <<"Pde", r, 2>>, 0, 31)
  BY <1>2, <1>3, FieldPlain
<1>a6. AtIn(e6, "SINGLE", "PDE", i, 3, <<"Pde", r, 3>>, 0, 31)
  BY <1>2, <1>3, FieldPlain
<1>a7. AtIn(e7, "SINGLE", "PDE", i, 4, <<"Pde", r, 4>>, 0, 31)
  BY <1>2, <1>3, FieldPlain
<1>a8. AtIn(e8, "SINGLE", "EMIN", i, 2, <<"Ctrl", r>>, 0, 1)
  BY <1>2, <1>3, FieldEnable
<1>a9. AtIn(e9, "SINGLE", "EMAX", i, 2, <<"Ctrl", r>>, 1, 1)
  BY <1>2, <1>3, FieldEnable
<1>a10. AtIn(e10, "SINGLE", "NMIN", i, 2, <<"Ctrl", r>>, 2, 1)
  BY <1>2, <1>3, FieldEnable
<1>a11. AtIn(e11, "SINGLE", "XMIN", i, 2, <<"Ctrl", r>>, 3, 1)
  BY <1>2, <1>3, FieldEnable
<1>a12. AtIn(e12, "SINGLE", "PDE", i, 5, <<"Ctrl", r>>, 4, 1)
  BY <1>2, <1>3, FieldEnable
<1>a13. AtIn(e13, "SINGLE", "EN", i, 1, <<"Ctrl", r>>, 31, 1)
  BY <1>2, <1>3, FieldEnable
<1>a14. AtIn(e14, "SINGLE", "HODO", i, 1, <<"Ctrl", r>>, 5, 1)
  BY <1>2, <1>3, FieldEnable
<1>a15. AtIn(e15, "SINGLE", "HODO", i, 2, <<"Ctrl", r>>, 6, 1)
  BY <1>2, <1>3, FieldEnable
<1>a16. AtIn(e16, "SINGLE", "HODO", i, 3, <<"Ctrl", r>>, 7, 1)
  BY <1>2, <1>3, FieldEnable
<1>a17. AtIn(e17, "SINGLE", "HODO", i, 4, <<"Ctrl", r>>, 8, 1)
  BY <1>2, <1>3, FieldEnable
<1> HIDE DEF e1, e2, e3, e4, e5, e6, e7, e8, e9, e10, e11, e12, e13, e14, e15, e16, e17
<1>4. /\ Placed(e1, {"SINGLE"}, <<"Emin", r>>, 0, 31)
      /\ Placed(e2, {"SINGLE"}, <<"Emax", r>>, 0, 31)
      /\ Placed(e3, {"SINGLE"}, <<"Nmin", r>>, 0, 31)
      /\ Placed(e4, {"SINGLE"}, <<"Pde", r, 1>>, 0, 31)
      /\ Placed(e5, {"SINGLE"}, <<"Pde", r, 2>>, 0, 31)
      /\ Placed(e6, {"SINGLE"}, <<"Pde", r, 3>>, 0, 31)
      /\ Placed(e7, {"SINGLE"}, <<"Pde", r, 4>>, 0, 31)
      /\ Placed(e8, {"SINGLE"}, <<"Ctrl", r>>, 0, 1)
      /\ Placed(e9, {"SINGLE"}, <<"Ctrl", r>>, 1, 1)
      /\ Placed(e10, {"SINGLE"}, <<"Ctrl", r>>, 2, 1)
      /\ Placed(e11, {"SINGLE"}, <<"Ctrl", r>>, 3, 1)
      /\ Placed(e12, {"SINGLE"}, <<"Ctrl", r>>, 4, 1)
      /\ Placed(e13, {"SINGLE"}, <<"Ctrl", r>>, 31, 1)
      /\ Placed(e14, {"SINGLE"}, <<"Ctrl", r>>, 5, 1)
      /\ Placed(e15, {"SINGLE"}, <<"Ctrl", r>>, 6, 1)
      /\ Placed(e16, {"SINGLE"}, <<"Ctrl", r>>, 7, 1)
      /\ Placed(e17, {"SINGLE"}, <<"Ctrl", r>>, 8, 1)
  BY <1>a1, <1>a2, <1>a3, <1>a4, <1>a5, <1>a6, <1>a7, <1>a8, <1>a9, <1>a10, <1>a11, <1>a12, <1>a13, <1>a14, <1>a15, <1>a16, <1>a17, PlacedOf, AllSafe
<1>m. /\ <<"Emin", r>> \in rs
      /\ <<"Emax", r>> \in rs
      /\ <<"Nmin", r>> \in rs
      /\ <<"Pde", r, 1>> \in rs
      /\ <<"Pde", r, 2>> \in rs
      /\ <<"Pde", r, 3>> \in rs
      /\ <<"Pde", r, 4>> \in rs
      /\ <<"Ctrl", r>> \in rs
  BY DEF HpsRegs
<1>5. \A z \in fs : Good(z, {"SINGLE"}) /\ z.reg \in rs
  <2> HIDE DEF rs
  <2>1. ASSUME NEW z, NEW q \in rs, NEW a, NEW n, Placed(z, {"SINGLE"}, q, a, n)
        PROVE  Good(z, {"SINGLE"}) /\ z.reg \in rs
    BY <2>1, Zenon DEF Placed
  <2> QED BY <1>4, <1>m, <2>1
<1>6. \A z \in fs : \A y \in fs : y.reg = z.reg /\ y # z => Span(y) \cap Span(z) = {}
  BY <1>4 DEF Placed, Span
<1> HIDE DEF fs, rs
<1>7. Group(fs, rs, {"SINGLE"})
  BY <1>5, <1>6, PlacedAll
<1>8. Group({x}, {<<"Xmin", r>>}, {"SINGLE"})
  <2> DEFINE t == <<"SINGLE", "XMIN", i>>
             xr == <<"Xmin", r>>
             f == Clamp(F(t, 1, xr, 0, 6), -31, 31)
  <2>1. NumAt(f, t, 1, xr, 0, 6)
    <3>1. Within(0, 6) /\ Limits(-31, 31)
      BY DEF Within, Limits, Huge
    <3> HIDE DEF t, xr
    <3> QED BY <3>1, FAt, ClampAt DEF Within, Limits
  <2>2. \A y : y.slot = t /\ y.col = 1 => SlotIn(y, {"SINGLE"})
    BY SingleSlots, SlotAtIn
  <2>3. x = Signed(f)
    OBVIOUS
  <2> HIDE DEF t, xr, f, x
  <2>4. FieldOK(x) /\ TopOK(x) /\ x.slot = t /\ x.col = 1 /\ x.reg = xr
    <3>1. FieldOK(Signed(f))
      BY <2>1 DEF NumAt, At, Signed, FieldNames, FieldOK
    <3> QED BY <2>1, <2>3, <3>1 DEF NumAt, At, Signed, FieldNames, TopOK
  <2>5. Group({x}, {xr}, {"SINGLE"})
    BY <2>2, <2>4 DEF Group
  <2> QED BY <2>5 DEF xr
<1>9. rs \cap {<<"Xmin", r>>} = {} /\ rs \union {<<"Xmin", r>>} = HpsRegs(<<side, i>>)
  BY DEF rs, HpsRegs
<1> HIDE DEF x
<1>10. Group(fs \union {x}, rs \union {<<"Xmin", r>>}, {"SINGLE"})
  BY <1>7, <1>8, <1>9, GroupJoin
<1>11. CallOK(Whole(fs \union {x}), rs \union {<<"Xmin", r>>}, {"SINGLE"})
  BY <1>10, WholeOK
<1> QED BY <1>1, <1>9, <1>11

-----------------------------------------------------------------------------
(* The FEE trigger of HPS, and all of its setters *)

LEMMA FieldSigned ==
    ASSUME NEW fam, NEW key, NEW i, NEW c, NEW r, NEW lo, Within(lo, 6), SlotAt(fam, key, i, c),
           NEW a, NEW b, Limits(a, b)
    PROVE  AtIn(Signed(Cut(Clamp(F(<<fam, key, i>>, c, r, lo, 6), a, b))), fam, key, i, c, r, lo, 6)
<1> DEFINE s == <<fam, key, i>>
           f == Cut(Clamp(F(s, c, r, lo, 6), a, b))
<1>1. NumAt(f, s, c, r, lo, 6) /\ f.cut
  <2>1. NumAt(F(s, c, r, lo, 6), s, c, r, lo, 6)
    BY FAt DEF Within
  <2> DEFINE g == Clamp(F(s, c, r, lo, 6), a, b)
  <2>2. NumAt(g, s, c, r, lo, 6)
    BY <2>1, ClampAt DEF Limits
  <2> HIDE DEF g, s
  <2>3. NumAt(Cut(g), s, c, r, lo, 6)
    BY <2>2, CutAt
  <2>4. Cut(g).cut
    BY <2>2 DEF Cut, NumAt, At, FieldNames
  <2> QED BY <2>3, <2>4 DEF g
<1> HIDE DEF f, s
<1>2. FieldOK(Signed(f))
  BY <1>1 DEF NumAt, At, Signed, FieldNames, FieldOK
<1>3. At(Signed(f), s, c, r, lo, 6)
  BY <1>1, <1>2 DEF NumAt, At, Signed, FieldNames, TopOK
<1> QED BY <1>3 DEF AtIn, f, s

\* The limits and the prescale of region i.
FeeField(r, i, c) ==
    CASE c = 1 -> Signed(Cut(Clamp(F(<<"FEE", "PRESCALE", i>>, 1, <<"FeeXmin", r, i \div 5>>, 6 * (i % 5), 6), -31, 31)))
      [] c = 2 -> Signed(Cut(Clamp(F(<<"FEE", "PRESCALE", i>>, 2, <<"FeeXmax", r, i \div 5>>, 6 * (i % 5), 6), -31, 31)))
      [] c = 3 -> Clamp(F(<<"FEE", "PRESCALE", i>>, 3, <<"FeePrescale", r, i \div 2>>, 16 * (i % 2), 16), 0, 65535)
FeeName(c) == CASE c = 1 -> "FeeXmin" [] c = 2 -> "FeeXmax" [] c = 3 -> "FeePrescale"
FeeRows(c) == IF c = 3 THEN 2 ELSE 5
FeeWide(c) == IF c = 3 THEN 16 ELSE 6

LEMMA FeeAt ==
    ASSUME NEW r, NEW i \in 0 .. NumFee - 1, NEW c \in 1 .. 3
    PROVE  Placed(FeeField(r, i, c), {"FEE"}, <<FeeName(c), r, i \div FeeRows(c)>>,
                  FeeWide(c) * (i % FeeRows(c)), FeeWide(c))
<1>1. i \in Nat /\ i % 5 \in 0 .. 4 /\ i % 2 \in 0 .. 1
  OBVIOUS
<1>2. Within(6 * (i % 5), 6) /\ Within(16 * (i % 2), 16) /\ Limits(-31, 31) /\ Limits(0, 65535)
  BY <1>1 DEF Within, Limits, Huge
<1>3. SlotAt("FEE", "PRESCALE", i, 1) /\ SlotAt("FEE", "PRESCALE", i, 2) /\ SlotAt("FEE", "PRESCALE", i, 3)
  BY FeeSlots
<1>4. CASE c = 1
  <2> DEFINE lo == 6 * (i % 5)
             g == <<"FeeXmin", r, i \div 5>>
             x == Signed(Cut(Clamp(F(<<"FEE", "PRESCALE", i>>, 1, g, lo, 6), -31, 31)))
  <2>1. FeeField(r, i, c) = x /\ FeeName(c) = "FeeXmin" /\ FeeRows(c) = 5 /\ FeeWide(c) = 6
    BY <1>4 DEF FeeField, FeeName, FeeRows, FeeWide
  <2> HIDE DEF g
  <2>2. AtIn(x, "FEE", "PRESCALE", i, 1, g, lo, 6)
    BY <1>2, <1>3, FieldSigned
  <2> HIDE DEF x
  <2>3. Placed(x, {"FEE"}, g, lo, 6)
    BY <2>2, PlacedOf, AllSafe
  <2> QED BY <2>1, <2>3 DEF g
<1>5. CASE c = 2
  <2> DEFINE lo == 6 * (i % 5)
             g == <<"FeeXmax", r, i \div 5>>
             x == Signed(Cut(Clamp(F(<<"FEE", "PRESCALE", i>>, 2, g, lo, 6), -31, 31)))
  <2>1. FeeField(r, i, c) = x /\ FeeName(c) = "FeeXmax" /\ FeeRows(c) = 5 /\ FeeWide(c) = 6
    BY <1>5 DEF FeeField, FeeName, FeeRows, FeeWide
  <2> HIDE DEF g
  <2>2. AtIn(x, "FEE", "PRESCALE", i, 2, g, lo, 6)
    BY <1>2, <1>3, FieldSigned
  <2> HIDE DEF x
  <2>3. Placed(x, {"FEE"}, g, lo, 6)
    BY <2>2, PlacedOf, AllSafe
  <2> QED BY <2>1, <2>3 DEF g
<1>6. CASE c = 3
  <2> DEFINE lo == 16 * (i % 2)
             g == <<"FeePrescale", r, i \div 2>>
             x == Clamp(F(<<"FEE", "PRESCALE", i>>, 3, g, lo, 16), 0, 65535)
  <2>1. FeeField(r, i, c) = x /\ FeeName(c) = "FeePrescale" /\ FeeRows(c) = 2 /\ FeeWide(c) = 16
    BY <1>6 DEF FeeField, FeeName, FeeRows, FeeWide
  <2> HIDE DEF g
  <2>2. AtIn(x, "FEE", "PRESCALE", i, 3, g, lo, 16)
    BY <1>2, <1>3, FieldClamp
  <2> HIDE DEF x
  <2>3. Placed(x, {"FEE"}, g, lo, 16)
    BY <2>2, PlacedOf, AllSafe
  <2> QED BY <2>1, <2>3 DEF g
<1> QED BY <1>4, <1>5, <1>6

LEMMA FeeRegions ==
    ASSUME NEW r
    PROVE  LET rs == {<<n, r, k>> : n \in {"FeeXmin", "FeeXmax", "FeePrescale"}, k \in Int}
               fs == UNION {{FeeField(r, i, 1), FeeField(r, i, 2), FeeField(r, i, 3)} : i \in 0 .. NumFee - 1}
           IN Group(fs, rs, {"FEE"})
<1> DEFINE rs == {<<n, r, k>> : n \in {"FeeXmin", "FeeXmax", "FeePrescale"}, k \in Int}
           fs == UNION {{FeeField(r, i, 1), FeeField(r, i, 2), FeeField(r, i, 3)} : i \in 0 .. NumFee - 1}
           e(i, c) == FeeField(r, i, c)
           g(i, c) == <<FeeName(c), r, i \div FeeRows(c)>>
<1>1. \A x \in fs : \E i \in 0 .. NumFee - 1 : \E c \in 1 .. 3 : x = e(i, c)
  OBVIOUS
<1>2. \A i \in 0 .. NumFee - 1 : \A c \in 1 .. 3 :
        Placed(e(i, c), {"FEE"}, g(i, c), FeeWide(c) * (i % FeeRows(c)), FeeWide(c))
  BY FeeAt
<1>3. \A i \in 0 .. NumFee - 1 : \A c \in 1 .. 3 : g(i, c) \in rs
  <2>1. SUFFICES ASSUME NEW i \in 0 .. NumFee - 1, NEW c \in 1 .. 3 PROVE g(i, c) \in rs
    OBVIOUS
  <2>2. FeeName(c) \in {"FeeXmin", "FeeXmax", "FeePrescale"} /\ FeeRows(c) \in {2, 5}
    BY DEF FeeName, FeeRows
  <2>3. i \div FeeRows(c) \in Int
    BY <2>2
  <2> QED BY <2>2, <2>3
<1>4. \A c \in 1 .. 3 : \A d \in 1 .. 3 : FeeName(c) = FeeName(d) => c = d
  BY DEF FeeName
<1>5. \A i \in 0 .. NumFee - 1 : \A j \in 0 .. NumFee - 1 : \A c \in 1 .. 3 :
        i # j /\ i \div FeeRows(c) = j \div FeeRows(c) =>
            \/ FeeWide(c) * (i % FeeRows(c)) + FeeWide(c) <= FeeWide(c) * (j % FeeRows(c))
            \/ FeeWide(c) * (j % FeeRows(c)) + FeeWide(c) <= FeeWide(c) * (i % FeeRows(c))
  <2>1. \A i \in Nat : \A j \in Nat : i # j /\ i \div 5 = j \div 5 =>
            6 * (i % 5) + 6 <= 6 * (j % 5) \/ 6 * (j % 5) + 6 <= 6 * (i % 5)
    OBVIOUS
  <2>2. \A i \in Nat : \A j \in Nat : i # j /\ i \div 2 = j \div 2 =>
            16 * (i % 2) + 16 <= 16 * (j % 2) \/ 16 * (j % 2) + 16 <= 16 * (i % 2)
    OBVIOUS
  <2> QED BY <2>1, <2>2 DEF FeeRows, FeeWide
<1>6. \A x \in fs : Good(x, {"FEE"}) /\ x.reg \in rs
  <2> HIDE DEF e, g, fs, rs
  <2> QED BY <1>1, <1>2, <1>3 DEF Placed
<1>7. ASSUME NEW x \in fs, NEW y \in fs, y.reg = x.reg, y # x PROVE Span(y) \cap Span(x) = {}
  <2>1. PICK i \in 0 .. NumFee - 1 : \E c \in 1 .. 3 : x = e(i, c)
    BY <1>1
  <2>2. PICK c \in 1 .. 3 : x = e(i, c)
    BY <2>1
  <2>3. PICK j \in 0 .. NumFee - 1 : \E d \in 1 .. 3 : y = e(j, d)
    BY <1>1
  <2>4. PICK d \in 1 .. 3 : y = e(j, d)
    BY <2>3
  <2> HIDE DEF e, fs
  <2>5. x.reg = g(i, c) /\ y.reg = g(j, d)
    BY <1>2, <2>2, <2>4 DEF Placed
  <2>6. FeeName(c) = FeeName(d) /\ i \div FeeRows(c) = j \div FeeRows(d)
    BY <1>7, <2>5
  <2>7. c = d
    BY <1>4, <2>6
  <2>8. i # j
    BY <1>7, <2>2, <2>4, <2>7
  <2>9. /\ x.lo = FeeWide(c) * (i % FeeRows(c)) /\ x.n = FeeWide(c)
        /\ y.lo = FeeWide(c) * (j % FeeRows(c)) /\ y.n = FeeWide(c)
    BY <1>2, <2>2, <2>4, <2>7 DEF Placed
  <2>10. FeeWide(c) * (i % FeeRows(c)) \in Int /\ FeeWide(c) * (j % FeeRows(c)) \in Int /\ FeeWide(c) \in Int
    BY DEF FeeWide, FeeRows
  <2>11. x.lo + x.n <= y.lo \/ y.lo + y.n <= x.lo
    BY <1>5, <2>6, <2>7, <2>8, <2>9
  <2>12. x.lo \in Int /\ x.n \in Int /\ y.lo \in Int /\ y.n \in Int
    BY <2>9, <2>10
  <2> QED BY <2>11, <2>12 DEF Span
<1> HIDE DEF fs, rs
<1>8. Group(fs, rs, {"FEE"})
  BY <1>6, <1>7, PlacedAll
<1> QED BY <1>8 DEF fs, rs

LEMMA FeeWindow ==
    ASSUME NEW r
    PROVE  Group(HpsWindow("FEE", 0, r) \union {Enable("FEE", "EN", 0, 1, r, 31)},
                 {<<"Emin", r>>, <<"Emax", r>>, <<"Nmin", r>>, <<"Ctrl", r>>}, {"FEE"})
<1> DEFINE e1 == Clamp(Plain(<<"FEE", "EMIN", 0>>, 1, <<"Emin", r>>), 0, 8191)
           e2 == Clamp(Plain(<<"FEE", "EMAX", 0>>, 1, <<"Emax", r>>), 0, 8191)
           e3 == Clamp(Plain(<<"FEE", "NMIN", 0>>, 1, <<"Nmin", r>>), 0, 9)
           e4 == Enable("FEE", "EN", 0, 1, r, 31)
           rs == {<<"Emin", r>>, <<"Emax", r>>, <<"Nmin", r>>, <<"Ctrl", r>>}
           fs == {e1, e2, e3, e4}
<1>1. HpsWindow("FEE", 0, r) \union {e4} = {e1, e2, e3} \union {e4}
  BY DEF HpsWindow
<1>2. Within(31, 1) /\ Limits(0, 8191) /\ Limits(0, 9)
  BY DEF Within, Limits, Huge
<1>3. /\ SlotAt("FEE", "EMIN", 0, 1) /\ SlotAt("FEE", "EMAX", 0, 1)
      /\ SlotAt("FEE", "NMIN", 0, 1) /\ SlotAt("FEE", "EN", 0, 1)
  BY FeeSlots
<1>4. AtIn(e1, "FEE", "EMIN", 0, 1, <<"Emin", r>>, 0, 31)
  BY <1>2, <1>3, FieldPlainClamp
<1>5. AtIn(e2, "FEE", "EMAX", 0, 1, <<"Emax", r>>, 0, 31)
  BY <1>2, <1>3, FieldPlainClamp
<1>6. AtIn(e3, "FEE", "NMIN", 0, 1, <<"Nmin", r>>, 0, 31)
  BY <1>2, <1>3, FieldPlainClamp
<1>7. AtIn(e4, "FEE", "EN", 0, 1, <<"Ctrl", r>>, 31, 1)
  BY <1>2, <1>3, FieldEnable
<1> HIDE DEF e1, e2, e3, e4
<1>8. /\ Placed(e1, {"FEE"}, <<"Emin", r>>, 0, 31) /\ Placed(e2, {"FEE"}, <<"Emax", r>>, 0, 31)
      /\ Placed(e3, {"FEE"}, <<"Nmin", r>>, 0, 31) /\ Placed(e4, {"FEE"}, <<"Ctrl", r>>, 31, 1)
  BY <1>4, <1>5, <1>6, <1>7, PlacedOf, AllSafe
<1>9. \A x \in fs : Good(x, {"FEE"}) /\ x.reg \in rs
  BY <1>8 DEF Placed
<1>10. \A x \in fs : \A y \in fs : y.reg = x.reg /\ y # x => Span(y) \cap Span(x) = {}
  BY <1>8 DEF Placed
<1>11. {e1, e2, e3} \union {e4} = fs
  OBVIOUS
<1> HIDE DEF fs, rs
<1>12. Group(fs, rs, {"FEE"})
  BY <1>9, <1>10, PlacedAll
<1> QED BY <1>1, <1>11, <1>12 DEF rs, e4

\* What one half of the calorimeter gets.
FeeHalf(r) ==
    (UNION {{FeeField(r, i, 1), FeeField(r, i, 2), FeeField(r, i, 3)} : i \in 0 .. NumFee - 1})
    \union (HpsWindow("FEE", 0, r) \union {Enable("FEE", "EN", 0, 1, r, 31)})
LEMMA FeeHalfOK == ASSUME NEW r PROVE Group(FeeHalf(r), HpsRegs(r), {"FEE"})
<1> DEFINE rs == {<<n, r, k>> : n \in {"FeeXmin", "FeeXmax", "FeePrescale"}, k \in Int}
           ss == {<<"Emin", r>>, <<"Emax", r>>, <<"Nmin", r>>, <<"Ctrl", r>>}
           fs == UNION {{FeeField(r, i, 1), FeeField(r, i, 2), FeeField(r, i, 3)} : i \in 0 .. NumFee - 1}
           gs == HpsWindow("FEE", 0, r) \union {Enable("FEE", "EN", 0, 1, r, 31)}
<1>1. Group(fs, rs, {"FEE"}) /\ Group(gs, ss, {"FEE"})
  BY FeeRegions, FeeWindow
<1>2. rs \cap ss = {}
  OBVIOUS
<1>3. rs \union ss \subseteq HpsRegs(r)
  BY DEF HpsRegs
<1>4. FeeHalf(r) = fs \union gs
  BY Zenon DEF FeeHalf
<1> HIDE DEF fs, gs, rs, ss
<1>5. Group(fs \union gs, rs \union ss, {"FEE"})
  BY <1>1, <1>2, GroupJoin
<1> QED BY <1>3, <1>4, <1>5 DEF Group

LEMMA FeeOK == CallOK(HpsFee, HpsRegs(<<"feeTop", 0>>) \union HpsRegs(<<"feeBot", 0>>), {"FEE"})
<1> DEFINE t == <<"feeTop", 0>>
           b == <<"feeBot", 0>>
<1>1. HpsFee = Whole(FeeHalf(t) \union FeeHalf(b))
  <2> DEFINE e1(r, i) == Signed(Cut(Clamp(F(<<"FEE", "PRESCALE", i>>, 1, <<"FeeXmin", r, i \div 5>>, 6 * (i % 5), 6), -31, 31)))
             e2(r, i) == Signed(Cut(Clamp(F(<<"FEE", "PRESCALE", i>>, 2, <<"FeeXmax", r, i \div 5>>, 6 * (i % 5), 6), -31, 31)))
             e3(r, i) == Clamp(F(<<"FEE", "PRESCALE", i>>, 3, <<"FeePrescale", r, i \div 2>>, 16 * (i % 2), 16), 0, 65535)
             Regions(r) == UNION {{e1(r, i), e2(r, i), e3(r, i)} : i \in 0 .. NumFee - 1}
             W(r) == HpsWindow("FEE", 0, r)
             En(r) == {Enable("FEE", "EN", 0, 1, r, 31)}
             Half(r) == W(r) \union Regions(r) \union En(r)
  <2>1. \A r : FeeHalf(r) = Regions(r) \union (W(r) \union En(r))
    <3>1. \A r, i : FeeField(r, i, 1) = e1(r, i) /\ FeeField(r, i, 2) = e2(r, i) /\ FeeField(r, i, 3) = e3(r, i)
      BY DEF FeeField
    <3> HIDE DEF e1, e2, e3
    <3>2. \A r : UNION {{FeeField(r, i, 1), FeeField(r, i, 2), FeeField(r, i, 3)} : i \in 0 .. NumFee - 1} = Regions(r)
      <4>1. SUFFICES ASSUME NEW r
                     PROVE  UNION {{FeeField(r, i, 1), FeeField(r, i, 2), FeeField(r, i, 3)} : i \in 0 .. NumFee - 1} = Regions(r)
        OBVIOUS
      <4>2. {{FeeField(r, i, 1), FeeField(r, i, 2), FeeField(r, i, 3)} : i \in 0 .. NumFee - 1}
            = {{e1(r, i), e2(r, i), e3(r, i)} : i \in 0 .. NumFee - 1}
        BY <3>1
      <4> QED BY <4>2
    <3> HIDE DEF Regions
    <3> QED BY <3>2 DEF FeeHalf
  <2>2. HpsFee = Whole(Half(t) \union Half(b))
    BY DEF HpsFee
  <2> HIDE DEF Regions, W, En
  <2>3. \A r : Half(r) = FeeHalf(r)
    BY <2>1
  <2> HIDE DEF Half
  <2> QED BY <2>2, <2>3
<1>2. t # b
  OBVIOUS
<1> HIDE DEF t, b
<1>3. Group(FeeHalf(t) \union FeeHalf(b), HpsRegs(t) \union HpsRegs(b), {"FEE"})
  BY <1>2, FeeHalfOK, HpsApart, GroupJoin
<1> QED BY <1>1, <1>3, WholeOK DEF t, b

\* The setters before d leave a setting of theirs as d needs it.
Clear(q, d) == \A i \in 1 .. Len(q) : Cross(q[i], d)
LEMMA ClearApart ==
    ASSUME NEW q, NEW d, NEW rs, NEW ss, NEW fams, NEW gams, CallsOK(q, rs, fams), CallOK(d, ss, gams),
           rs \cap ss = {}
    PROVE  Clear(q, d)
<1>1. SUFFICES ASSUME NEW i \in 1 .. Len(q) PROVE Cross(q[i], d)
  BY DEF Clear
<1>2. CallOK(q[i], rs, fams)
  BY DEF CallsOK
<1> QED BY <1>2, Apart
LEMMA ClearJoin ==
    ASSUME NEW p, NEW q, NEW d, IsSeq(p), IsSeq(q), Clear(p, d), Clear(q, d)
    PROVE  Clear(p \o q, d) /\ IsSeq(p \o q)
<1> DEFINE m == Len(p)
           n == Len(q)
           w == p \o q
<1>1. /\ IsSeq(w) /\ Len(w) = m + n /\ m \in Nat /\ n \in Nat
      /\ \A i \in 1 .. m : w[i] = p[i]
      /\ \A i \in 1 .. n : w[m + i] = q[i]
  BY Joined DEF IsSeq
<1> HIDE DEF w
<1>2. ASSUME NEW i \in 1 .. m + n PROVE Cross(w[i], d)
  <2>1. CASE i <= m
    <3>1. i \in 1 .. m
      BY <1>1, <2>1
    <3> QED BY <1>1, <3>1 DEF Clear
  <2>2. CASE i > m
    <3>1. i - m \in 1 .. n /\ m + (i - m) = i
      BY <1>1, <2>2
    <3>2. w[m + (i - m)] = q[i - m]
      BY <1>1, <3>1
    <3> QED BY <3>1, <3>2 DEF Clear
  <2> QED BY <1>1, <2>1, <2>2
<1> QED BY <1>1, <1>2 DEF Clear, w
LEMMA JoinOne ==
    ASSUME NEW q, NEW d, NEW rs, NEW ss, NEW fams, NEW gams, CallsOK(q, rs, fams), CallOK(d, ss, gams),
           Clear(q, d)
    PROVE  CallsOK(q \o <<d>>, rs \union ss, fams \union gams)
<1>1. CallsOK(<<d>>, ss, gams)
  BY OneCall
<1>2. Len(<<d>>) = 1 /\ <<d>>[1] = d /\ \A j \in 1 .. 1 : j = 1
  OBVIOUS
<1>3. \A i \in 1 .. Len(q), j \in 1 .. Len(<<d>>) : Cross(q[i], <<d>>[j])
  BY <1>2 DEF Clear
<1> QED BY <1>1, <1>3, JoinCross

LEMMA LenFn == ASSUME NEW n \in Nat, NEW f, f = [i \in 1 .. n |-> f[i]] PROVE Len(f) = n
<1> DEFINE S == {f[i] : i \in 1 .. n}
<1>1. \A i \in 1 .. n : f[i] \in S
  OBVIOUS
<1> HIDE DEF S
<1>2. [i \in 1 .. n |-> f[i]] \in Seq(S) /\ DOMAIN [i \in 1 .. n |-> f[i]] = 1 .. n
  BY <1>1
<1>3. f \in Seq(S) /\ DOMAIN f = 1 .. n
  BY <1>2, Zenon
<1> QED BY <1>3

LEMMA LoopRows ==
    ASSUME NEW n \in Nat \ {0}, NEW seqs, seqs = [i \in 1 .. n |-> seqs[i]], NEW R, NEW fams,
           \A i \in 1 .. n : CallsOK(seqs[i], R[i], fams),
           \A i, j \in 1 .. n : i # j => R[i] \cap R[j] = {},
           NEW rs, \A i \in 1 .. n : R[i] \subseteq rs
    PROVE  CallsOK(FlattenSeq(seqs), rs, fams) /\ FromRows(FlattenSeq(seqs), seqs, n)
<1>1. Len(seqs) = n
  BY LenFn
<1>2. CallsOK(FlattenSeq(seqs), UNION {R[i] : i \in 1 .. n}, fams) /\ FromRows(FlattenSeq(seqs), seqs, n)
  <2>1. \A i \in 1 .. n : CallsOK(seqs[i], R[i], fams)
    OBVIOUS
  <2>2. \A i, j \in 1 .. n : i # j => R[i] \cap R[j] = {}
    OBVIOUS
  <2> QED BY ONLY n \in Nat \ {0}, <1>1, <2>1, <2>2, RowsOK
<1> DEFINE ss == UNION {R[i] : i \in 1 .. n}
<1>3. ss \subseteq rs
  OBVIOUS
<1> HIDE DEF ss
<1> QED BY <1>2, <1>3, Weaken

-----------------------------------------------------------------------------
(* The loops of HPS over its triggers *)

RowRegs(kind) == UNION {HpsRegs(<<kind, k>>) : k \in Int}
LEMMA RowRegsApart ==
    ASSUME NEW a, NEW b, a # b
    PROVE  RowRegs(a) \cap RowRegs(b) = {}
<1>1. \A x \in RowRegs(a) : \E j \in Int : x \in HpsRegs(<<a, j>>)
  BY DEF RowRegs
<1>2. \A x \in RowRegs(b) : \E k \in Int : x \in HpsRegs(<<b, k>>)
  BY DEF RowRegs
<1>3. ASSUME NEW j \in Int, NEW k \in Int PROVE HpsRegs(<<a, j>>) \cap HpsRegs(<<b, k>>) = {}
  <2>1. <<a, j>> # <<b, k>>
    OBVIOUS
  <2> QED BY <2>1, HpsApart
<1> QED BY <1>1, <1>2, <1>3
LEMMA RowRegsWords == \A a, name : The(name) \notin RowRegs(a)
<1>1. \A r, name : The(name) \notin HpsRegs(r)
  BY DEF The, HpsRegs
<1> QED BY <1>1 DEF RowRegs

LEMMA SinglesOK ==
    ASSUME NEW seqs, seqs = [i \in 1 .. NumHps |-> <<HpsSingle(i - 1, "bot"), HpsSingle(i - 1, "top")>>]
    PROVE  CallsOK(FlattenSeq(seqs), RowRegs("bot") \union RowRegs("top"), {"SINGLE"})
<1> DEFINE R == [i \in 1 .. NumHps |-> HpsRegs(<<"bot", i - 1>>) \union HpsRegs(<<"top", i - 1>>)]
           rs == RowRegs("bot") \union RowRegs("top")
<1>1. NumHps \in Nat \ {0}
  BY RowsAssumption
<1>2. \A i \in 1 .. NumHps : i - 1 \in 0 .. NumHps - 1 /\ i - 1 \in Int
  BY <1>1
<1>3. ASSUME NEW i \in 1 .. NumHps PROVE CallsOK(seqs[i], R[i], {"SINGLE"}) /\ R[i] \subseteq rs
  <2> DEFINE b == HpsSingle(i - 1, "bot")
             t == HpsSingle(i - 1, "top")
             rb == HpsRegs(<<"bot", i - 1>>)
             rt == HpsRegs(<<"top", i - 1>>)
  <2>1. CallOK(b, rb, {"SINGLE"}) /\ CallOK(t, rt, {"SINGLE"})
    BY <1>2, SingleOK
  <2>2. rb \cap rt = {}
    BY HpsApart
  <2>3. rb \subseteq rs /\ rt \subseteq rs
    BY <1>2 DEF RowRegs
  <2>4. seqs[i] = <<b, t>> /\ R[i] = rb \union rt
    OBVIOUS
  <2> HIDE DEF b, t, rb, rt, rs, R
  <2>5. Cross(b, t)
    BY <2>1, <2>2, Apart
  <2>6. CallOK(b, rb \union rt, {"SINGLE"}) /\ CallOK(t, rb \union rt, {"SINGLE"})
    BY <2>1 DEF CallOK
  <2> QED BY <2>3, <2>4, <2>5, <2>6, TwoCalls
<1>4. ASSUME NEW i \in 1 .. NumHps, NEW j \in 1 .. NumHps, i # j PROVE R[i] \cap R[j] = {}
  <2>1. \A s1, s2 : <<s1, i - 1>> # <<s2, j - 1>>
    BY <1>1, <1>4
  <2>2. \A s1, s2 : HpsRegs(<<s1, i - 1>>) \cap HpsRegs(<<s2, j - 1>>) = {}
    BY <2>1, HpsApart
  <2> QED BY <2>2
<1>5. seqs = [i \in 1 .. NumHps |-> seqs[i]]
  OBVIOUS
<1> HIDE DEF R, rs
<1>6. CallsOK(FlattenSeq(seqs), rs, {"SINGLE"})
  BY <1>1, <1>3, <1>4, <1>5, LoopRows
<1> QED BY <1>6 DEF rs

\* A loop of one setter over the rows of a kind.
FromRow(q, c, n) == \A a \in 1 .. Len(q) : \E i \in 0 .. n - 1 : q[a] = c[i]
LEMMA KindOK ==
    ASSUME NEW n \in Nat \ {0}, NEW kind, NEW fam, NEW c,
           \A i \in 0 .. n - 1 : CallOK(c[i], HpsRegs(<<kind, i>>), {fam}),
           NEW seqs, seqs = [i \in 1 .. n |-> <<c[i - 1]>>]
    PROVE  CallsOK(FlattenSeq(seqs), RowRegs(kind), {fam}) /\ FromRow(FlattenSeq(seqs), c, n)
<1> DEFINE R == [i \in 1 .. n |-> HpsRegs(<<kind, i - 1>>)]
           rs == RowRegs(kind)
<1>1. \A i \in 1 .. n : i - 1 \in 0 .. n - 1 /\ i - 1 \in Int
  OBVIOUS
<1>2. ASSUME NEW i \in 1 .. n PROVE CallsOK(seqs[i], R[i], {fam}) /\ R[i] \subseteq rs
  <2>1. CallOK(c[i - 1], HpsRegs(<<kind, i - 1>>), {fam})
    BY <1>1
  <2>2. HpsRegs(<<kind, i - 1>>) \subseteq rs
    BY <1>1 DEF RowRegs
  <2>3. seqs[i] = <<c[i - 1]>> /\ R[i] = HpsRegs(<<kind, i - 1>>)
    OBVIOUS
  <2> QED BY <2>1, <2>2, <2>3, OneCall
<1>3. ASSUME NEW i \in 1 .. n, NEW j \in 1 .. n, i # j PROVE R[i] \cap R[j] = {}
  <2>1. <<kind, i - 1>> # <<kind, j - 1>>
    BY <1>3
  <2> QED BY <2>1, HpsApart
<1>4. seqs = [i \in 1 .. n |-> seqs[i]]
  OBVIOUS
<1>5. \A i \in 1 .. n : seqs[i] = <<c[i - 1]>> /\ Len(seqs[i]) = 1 /\ \A b \in 1 .. 1 : seqs[i][b] = c[i - 1]
  OBVIOUS
<1> HIDE DEF R, rs
<1>6. CallsOK(FlattenSeq(seqs), rs, {fam}) /\ FromRows(FlattenSeq(seqs), seqs, n)
  BY <1>2, <1>3, <1>4, LoopRows
<1> DEFINE q == FlattenSeq(seqs)
<1> HIDE DEF q
<1>7. ASSUME NEW a \in 1 .. Len(q) PROVE \E i \in 0 .. n - 1 : q[a] = c[i]
  <2>0. FromRows(q, seqs, n)
    BY <1>6 DEF q
  <2>1. PICK i \in 1 .. n : \E b \in 1 .. Len(seqs[i]) : q[a] = seqs[i][b]
    BY <2>0 DEF FromRows
  <2>2. q[a] = c[i - 1]
    BY <1>5, <2>1
  <2> QED BY <1>1, <2>2
<1>8. CallsOK(q, RowRegs(kind), {fam})
  BY <1>6 DEF rs, q
<1> QED BY <1>7, <1>8 DEF FromRow, q

\* The setters before the FEE trigger, and the pair trigger that is written again.
LEMMA PairAgain ==
    ASSUME NEW i \in 0 .. NumHps - 1, NEW j \in 0 .. NumHps - 1
    PROVE  Cross(HpsPair(i), HpsPair(j))
<1>1. CASE i = j
  BY <1>1 DEF Cross, Spares
<1>2. CASE i # j
  <2>1. <<"pair", i>> # <<"pair", j>>
    BY <1>2
  <2>2. HpsRegs(<<"pair", i>>) \cap HpsRegs(<<"pair", j>>) = {}
    BY <2>1, HpsApart
  <2> QED BY <2>2, PairOK, Apart
<1> QED BY <1>1, <1>2

HpsAll ==
    {The("hpsCluster"), The("hpsHodo")} \union RowRegs("bot") \union RowRegs("top") \union RowRegs("pair")
    \union RowRegs("mult") \union RowRegs("feeTop") \union RowRegs("feeBot")
LEMMA HpsOK == CallsOK(HpsCalls, HpsAll, HpsFamilies)
<1> DEFINE a == <<HpsCluster, HpsHodoscope>>
           s == FlattenSeq([i \in 1 .. NumHps |-> <<HpsSingle(i - 1, "bot"), HpsSingle(i - 1, "top")>>])
           p == FlattenSeq([i \in 1 .. NumHps |-> <<HpsPair(i - 1)>>])
           m == FlattenSeq([i \in 1 .. NumMult |-> <<HpsMultiplicity(i - 1)>>])
           f == <<HpsFee>>
           l == IF NumHps > 2 THEN <<HpsPair(2)>> ELSE <<>>
           ra == {The("hpsCluster"), The("hpsHodo")}
           rs == RowRegs("bot") \union RowRegs("top")
           rp == RowRegs("pair")
           rm == RowRegs("mult")
           rf == RowRegs("feeTop") \union RowRegs("feeBot")
<1>1. HpsCalls = a \o s \o p \o m \o f \o l
  BY DEF HpsCalls, Loop
<1>2. CallsOK(a, ra, {"HPS"})
  <2>1. The("hpsCluster") # The("hpsHodo")
    BY DEF The
  <2>2. CallOK(HpsCluster, ra, {"HPS"}) /\ CallOK(HpsHodoscope, ra, {"HPS"})
    BY HpsClusterOK, HpsHodoscopeOK DEF CallOK
  <2>3. Cross(HpsCluster, HpsHodoscope)
    BY <2>1, HpsClusterOK, HpsHodoscopeOK, Apart
  <2> QED BY <2>2, <2>3, TwoCalls
<1>3. CallsOK(s, rs, {"SINGLE"})
  BY SinglesOK
<1>4. NumHps \in Nat \ {0} /\ NumMult \in Nat \ {0}
  BY RowsAssumption
<1>5. CallsOK(p, rp, {"PAIR"}) /\ \A k \in 1 .. Len(p) : \E i \in 0 .. NumHps - 1 : p[k] = HpsPair(i)
  <2> DEFINE c == [i \in 0 .. NumHps - 1 |-> HpsPair(i)]
             seqs == [i \in 1 .. NumHps |-> <<c[i - 1]>>]
  <2>1. seqs = [i \in 1 .. NumHps |-> <<HpsPair(i - 1)>>]
    <3>1. \A i \in 1 .. NumHps : i - 1 \in 0 .. NumHps - 1
      BY <1>4
    <3> QED BY <3>1
  <2>2. \A i \in 0 .. NumHps - 1 : c[i] = HpsPair(i) /\ CallOK(c[i], HpsRegs(<<"pair", i>>), {"PAIR"})
    BY PairOK
  <2> DEFINE fl == FlattenSeq(seqs)
  <2>0. fl = p
    BY <2>1
  <2> HIDE DEF c, p
  <2>3. CallsOK(FlattenSeq(seqs), RowRegs("pair"), {"PAIR"}) /\ FromRow(FlattenSeq(seqs), c, NumHps)
    BY <1>4, <2>2, KindOK
  <2> QED BY <2>0, <2>2, <2>3 DEF FromRow
<1>6. CallsOK(m, rm, {"MULT"})
  <2> DEFINE c == [i \in 0 .. NumMult - 1 |-> HpsMultiplicity(i)]
             seqs == [i \in 1 .. NumMult |-> <<c[i - 1]>>]
             fl == FlattenSeq(seqs)
  <2>1. seqs = [i \in 1 .. NumMult |-> <<HpsMultiplicity(i - 1)>>]
    <3>1. \A i \in 1 .. NumMult : i - 1 \in 0 .. NumMult - 1
      BY <1>4
    <3> QED BY <3>1
  <2>2. \A i \in 0 .. NumMult - 1 : CallOK(c[i], HpsRegs(<<"mult", i>>), {"MULT"})
    BY MultOK
  <2>0. fl = m
    BY <2>1
  <2> HIDE DEF c, m
  <2>3. CallsOK(FlattenSeq(seqs), RowRegs("mult"), {"MULT"})
    BY <1>4, <2>2, KindOK
  <2> QED BY <2>0, <2>3
<1>7. CallsOK(f, rf, {"FEE"})
  <2>1. HpsRegs(<<"feeTop", 0>>) \union HpsRegs(<<"feeBot", 0>>) \subseteq rf
    BY DEF RowRegs
  <2> HIDE DEF rf
  <2>2. CallOK(HpsFee, rf, {"FEE"})
    BY <2>1, FeeOK DEF CallOK
  <2> QED BY <2>2, OneCall
<1>8. /\ ra \cap rs = {} /\ (ra \union rs) \cap rp = {} /\ (ra \union rs \union rp) \cap rm = {}
      /\ (ra \union rs \union rp \union rm) \cap rf = {}
  <2>1. ra \cap rs = {} /\ ra \cap rp = {} /\ ra \cap rm = {} /\ ra \cap rf = {}
    BY RowRegsWords
  <2>2. \A x, y : x # y => RowRegs(x) \cap RowRegs(y) = {}
    BY RowRegsApart
  <2>3. rs \cap rp = {} /\ rs \cap rm = {} /\ rp \cap rm = {}
    BY <2>2
  <2>4. rs \cap rf = {} /\ rp \cap rf = {} /\ rm \cap rf = {}
    BY <2>2
  <2> HIDE DEF ra, rs, rp, rm, rf
  <2> QED BY <2>1, <2>3, <2>4
<1>9. l # <<>> => l = <<HpsPair(2)>> /\ 2 \in 0 .. NumHps - 1
  BY <1>4
<1>10. HpsAll = ra \union rs \union rp \union rm \union rf
  BY DEF HpsAll
<1>11. RowRegs("pair") = rp /\ HpsRegs(<<"pair", 2>>) \subseteq rp
  BY DEF RowRegs
<1> HIDE DEF a, s, p, m, f, l, ra, rs, rp, rm, rf
<1>12. CallsOK(a \o s, ra \union rs, {"HPS"} \union {"SINGLE"})
  BY <1>2, <1>3, <1>8, Join
<1>13. CallsOK(a \o s \o p, ra \union rs \union rp, {"HPS"} \union {"SINGLE"} \union {"PAIR"})
  BY <1>5, <1>8, <1>12, Join
<1>14. CallsOK(a \o s \o p \o m, ra \union rs \union rp \union rm, {"HPS"} \union {"SINGLE"} \union {"PAIR"} \union {"MULT"})
  BY <1>6, <1>8, <1>13, Join
<1> DEFINE w == a \o s \o p \o m \o f
<1>15. CallsOK(w, HpsAll, HpsFamilies)
  <2>1. CallsOK(w, ra \union rs \union rp \union rm \union rf,
                {"HPS"} \union {"SINGLE"} \union {"PAIR"} \union {"MULT"} \union {"FEE"})
    BY <1>7, <1>8, <1>14, Join
  <2>2. {"HPS"} \union {"SINGLE"} \union {"PAIR"} \union {"MULT"} \union {"FEE"} \subseteq HpsFamilies
    BY DEF HpsFamilies
  <2> HIDE DEF w
  <2> QED BY <1>10, <2>1, <2>2, Weaken
<1>16. CASE l = <<>>
  <2>1. w \o <<>> = w
    <3>1. IsSeq(w)
      BY <1>15 DEF CallsOK
    <3> HIDE DEF w
    <3>2. w \in Seq({w[i] : i \in 1 .. Len(w)})
      <4> DEFINE S == {w[i] : i \in 1 .. Len(w)}
      <4>1. \A i \in 1 .. Len(w) : w[i] \in S
        OBVIOUS
      <4> HIDE DEF S
      <4>2. w \in Seq(S)
        BY <3>1, <4>1, SeqIn
      <4> QED BY <4>2 DEF S
    <3> QED BY <3>2
  <2> QED BY <1>1, <1>15, <1>16, <2>1
<1>17. CASE l # <<>>
  <2> DEFINE d == HpsPair(2)
  <2>1. l = <<d>> /\ CallOK(d, HpsRegs(<<"pair", 2>>), {"PAIR"})
    BY <1>9, <1>17, PairOK
  <2>2. Clear(p, d)
    BY <1>5, <1>9, <1>17, PairAgain DEF Clear
  <2> HIDE DEF d
  <2>3. CallOK(d, rp, {"PAIR"})
    BY <1>11, <2>1 DEF CallOK
  <2>4. Clear(a \o s, d) /\ IsSeq(a \o s)
    BY <1>8, <1>12, <2>3, ClearApart DEF CallsOK
  <2>5. Clear(m, d) /\ Clear(f, d) /\ IsSeq(m) /\ IsSeq(f) /\ IsSeq(p)
    <3>1. rm \cap rp = {} /\ rf \cap rp = {}
      BY <1>8
    <3> QED BY <1>5, <1>6, <1>7, <2>3, <3>1, ClearApart DEF CallsOK
  <2> DEFINE as == a \o s
  <2> HIDE DEF as
  <2>6. Clear(as \o p, d) /\ IsSeq(as \o p)
    BY <2>2, <2>4, <2>5, ClearJoin DEF as
  <2>7. Clear(as \o p \o m, d) /\ IsSeq(as \o p \o m)
    BY <2>5, <2>6, ClearJoin
  <2>8. Clear(as \o p \o m \o f, d)
    BY <2>5, <2>7, ClearJoin
  <2>9. Clear(w, d)
    BY <2>8 DEF as
  <2> HIDE DEF w
  <2>10. CallsOK(w \o <<d>>, HpsAll \union rp, HpsFamilies \union {"PAIR"})
    BY <1>15, <2>3, <2>9, JoinOne
  <2>11. HpsAll \union rp = HpsAll /\ HpsFamilies \union {"PAIR"} = HpsFamilies
    BY <1>10 DEF HpsFamilies
  <2> QED BY <1>1, <2>1, <2>10, <2>11 DEF w
<1> QED BY <1>16, <1>17

-----------------------------------------------------------------------------
(* The setters of a calorimeter, and of the global trigger *)

\* The registers of a row.
RowOf(names, i) == {<<n, i>> : n \in names}
RowsOf(names) == {<<n, i>> : n \in names, i \in Int}
LEMMA RowsApart == \A names, i, j : i # j => RowOf(names, i) \cap RowOf(names, j) = {}
BY DEF RowOf
LEMMA RowIn == \A names : \A i \in Int : RowOf(names, i) \subseteq RowsOf(names)
BY DEF RowOf, RowsOf
LEMMA LoopNames ==
    ASSUME NEW n \in Nat \ {0}, NEW names, NEW fams, NEW seqs, seqs = [i \in 1 .. n |-> seqs[i]],
           \A i \in 1 .. n : CallsOK(seqs[i], RowOf(names, i - 1), fams)
    PROVE  CallsOK(FlattenSeq(seqs), RowsOf(names), fams)
<1> DEFINE R == [i \in 1 .. n |-> RowOf(names, i - 1)]
           rs == RowsOf(names)
<1>1. \A i \in 1 .. n : R[i] = RowOf(names, i - 1) /\ i - 1 \in Int
  OBVIOUS
<1> HIDE DEF R
<1>2. \A i \in 1 .. n : CallsOK(seqs[i], R[i], fams) /\ R[i] \subseteq rs
  BY <1>1, RowIn
<1>3. ASSUME NEW i \in 1 .. n, NEW j \in 1 .. n, i # j PROVE R[i] \cap R[j] = {}
  <2>1. i - 1 # j - 1
    BY <1>3
  <2> QED BY <1>1, <2>1, RowsApart
<1> HIDE DEF rs
<1>4. CallsOK(FlattenSeq(seqs), rs, fams)
  BY <1>2, <1>3, LoopRows
<1> QED BY <1>4 DEF rs

EcNames == {"ecHit", "ecDalitz", "ecCosmicCtrl", "ecCosmicDelay"}
SumRegs == {<<"fadcSum", k>> : k \in 0 .. 7}
EcAll == SumRegs \union RowsOf(EcNames)
LEMMA EcHalfOK ==
    ASSUME NEW i \in 0 .. 1
    PROVE  CallsOK(EcHit(i) \o <<EcDalitz(i)>> \o EcCosmicCtrl("EC", i) \o EcCosmicDelay("EC", i),
                   RowOf(EcNames, i), {"EC"})
<1> DEFINE a == EcHit(i)
           b == <<EcDalitz(i)>>
           c == EcCosmicCtrl("EC", i)
           d == EcCosmicDelay("EC", i)
           ra == {<<"ecHit", i>>}
           rb == {<<"ecDalitz", i>>}
           rc == {<<"ecCosmicCtrl", i>>}
           rd == {<<"ecCosmicDelay", i>>}
<1>1. CallsOK(a, ra, {"EC"}) /\ CallsOK(b, rb, {"EC"}) /\ CallsOK(c, rc, {"EC"}) /\ CallsOK(d, rd, {"EC"})
  BY EcHitOK, EcDalitzOK, OneCall, EcCosmicCtrlOK, EcCosmicDelayOK
<1>2. ra \cap rb = {} /\ (ra \union rb) \cap rc = {} /\ (ra \union rb \union rc) \cap rd = {}
  OBVIOUS
<1>3. ra \union rb \union rc \union rd \subseteq RowOf(EcNames, i)
  BY DEF RowOf, EcNames
<1> HIDE DEF a, b, c, d, ra, rb, rc, rd
<1>4. CallsOK(a \o b, ra \union rb, {"EC"} \union {"EC"})
  BY <1>1, <1>2, Join
<1>5. CallsOK(a \o b \o c, ra \union rb \union rc, {"EC"} \union {"EC"} \union {"EC"})
  BY <1>1, <1>2, <1>4, Join
<1>6. CallsOK(a \o b \o c \o d, ra \union rb \union rc \union rd, {"EC"} \union {"EC"} \union {"EC"} \union {"EC"})
  BY <1>1, <1>2, <1>5, Join
<1>7. CallsOK(a \o b \o c \o d, RowOf(EcNames, i), {"EC"})
  BY <1>3, <1>6, Weaken
<1> QED BY <1>7 DEF a, b, c, d
LEMMA EcOK == CallsOK(EcCalls, EcAll, {"EC"})
<1> DEFINE seqs == [i \in 1 .. 2 |-> EcHit(i - 1) \o <<EcDalitz(i - 1)>> \o EcCosmicCtrl("EC", i - 1)
                                     \o EcCosmicDelay("EC", i - 1)]
           q == <<FadcSum("EC")>>
<1>1. EcCalls = q \o FlattenSeq(seqs)
  BY DEF EcCalls, Loop
<1>2. \A i \in 1 .. 2 : CallsOK(seqs[i], RowOf(EcNames, i - 1), {"EC"})
  <2>1. \A i \in 1 .. 2 : i - 1 \in 0 .. 1
    OBVIOUS
  <2> QED BY <2>1, EcHalfOK
<1>3. seqs = [i \in 1 .. 2 |-> seqs[i]] /\ 2 \in Nat \ {0}
  OBVIOUS
<1> HIDE DEF seqs
<1>4. CallsOK(FlattenSeq(seqs), RowsOf(EcNames), {"EC"})
  BY <1>2, <1>3, LoopNames
<1>5. CallsOK(q, SumRegs, {"EC"})
  BY FadcSumOK, OneCall DEF SumRegs
<1>6. SumRegs \cap RowsOf(EcNames) = {}
  BY DEF SumRegs, RowsOf, EcNames
<1> HIDE DEF q
<1>7. CallsOK(q \o FlattenSeq(seqs), SumRegs \union RowsOf(EcNames), {"EC"} \union {"EC"})
  BY <1>4, <1>5, <1>6, Join
<1>8. {"EC"} \union {"EC"} = {"EC"}
  OBVIOUS
<1> QED BY <1>1, <1>7, <1>8 DEF EcAll

PcAll == SumRegs \union PcCosmicRegs
LEMMA PcCallsOK == CallsOK(PcCalls, PcAll, {"PC"})
<1>1. CallsOK(<<FadcSum("PC")>>, SumRegs, {"PC"})
  BY FadcSumOK, OneCall DEF SumRegs
<1>2. CallsOK(PcCosmic("PC"), PcCosmicRegs, {"PC"})
  BY PcCosmicOK
<1>3. SumRegs \cap PcCosmicRegs = {}
  BY DEF SumRegs, PcCosmicRegs, The
<1>4. CallsOK(<<FadcSum("PC")>> \o PcCosmic("PC"), SumRegs \union PcCosmicRegs, {"PC"} \union {"PC"})
  BY <1>1, <1>2, <1>3, Join
<1>5. {"PC"} \union {"PC"} = {"PC"}
  OBVIOUS
<1>6. PcCalls = <<FadcSum("PC")>> \o PcCosmic("PC") /\ PcAll = SumRegs \union PcCosmicRegs
  BY DEF PcCalls, PcAll
<1> QED BY <1>4, <1>5, <1>6

PcuRegs == {<<"PCU_THRESHOLDS", c>> : c \in 1 .. 3}
PcsAll == CounterRegs \union PcsStripRegs \union PcuRegs \union PcCosmicRegs
LEMMA PcsOK == CallsOK(PcsCalls, PcsAll, {"PCS"})
<1> DEFINE a == CounterCalls("PCS")
           b == PcsStrips
           c == <<Thresholds("PCS", "PCU_THRESHOLDS")>>
           d == PcCosmic("PCS")
<1>1. CallsOK(a, CounterRegs, {"PCS"}) /\ CallsOK(b, PcsStripRegs, {"PCS"}) /\ CallsOK(d, PcCosmicRegs, {"PCS"})
  BY CountersOK, PcsStripsOK, PcCosmicOK
<1>2. CallsOK(c, PcuRegs, {"PCS"})
  <2>1. Has("PCS", "PCU_THRESHOLDS", 1, 3)
    BY KeysOf DEF Has, PcsKeys
  <2>2. \A k \in 1 .. 3 : SlotAt("PCS", "PCU_THRESHOLDS", 0, k)
    BY <2>1, HasSlot
  <2> QED BY <2>2, ThresholdsOK, OneCall DEF PcuRegs
<1>3. /\ CounterRegs \cap PcsStripRegs = {} /\ (CounterRegs \union PcsStripRegs) \cap PcuRegs = {}
      /\ (CounterRegs \union PcsStripRegs \union PcuRegs) \cap PcCosmicRegs = {}
  BY DEF CounterRegs, PcsStripRegs, PcuRegs, PcCosmicRegs, The
<1>4. PcsCalls = a \o b \o c \o d
  BY DEF PcsCalls
<1> HIDE DEF a, b, c, d
<1>5. CallsOK(a \o b, CounterRegs \union PcsStripRegs, {"PCS"} \union {"PCS"})
  BY <1>1, <1>3, Join
<1>6. CallsOK(a \o b \o c, CounterRegs \union PcsStripRegs \union PcuRegs, {"PCS"} \union {"PCS"} \union {"PCS"})
  BY <1>2, <1>3, <1>5, Join
<1>7. CallsOK(a \o b \o c \o d, PcsAll, {"PCS"} \union {"PCS"} \union {"PCS"} \union {"PCS"})
  BY <1>1, <1>3, <1>6, Join DEF PcsAll
<1>8. {"PCS"} \union {"PCS"} \union {"PCS"} \union {"PCS"} = {"PCS"}
  OBVIOUS
<1> QED BY <1>4, <1>7, <1>8

EcsNames == {"ecCosmicCtrl", "ecCosmicDelay"}
EcsAll == SumRegs \union CounterRegs \union EcsStripRegs \union RowsOf(EcsNames)
LEMMA EcsHalfOK ==
    ASSUME NEW i \in 0 .. 1
    PROVE  CallsOK(EcCosmicCtrl("ECS", i) \o EcCosmicDelay("ECS", i), RowOf(EcsNames, i), {"ECS"})
<1> DEFINE c == EcCosmicCtrl("ECS", i)
           d == EcCosmicDelay("ECS", i)
           rc == {<<"ecCosmicCtrl", i>>}
           rd == {<<"ecCosmicDelay", i>>}
<1>1. CallsOK(c, rc, {"ECS"}) /\ CallsOK(d, rd, {"ECS"})
  BY EcCosmicCtrlOK, EcCosmicDelayOK
<1>2. rc \cap rd = {} /\ rc \union rd \subseteq RowOf(EcsNames, i)
  BY DEF RowOf, EcsNames
<1> HIDE DEF c, d, rc, rd
<1>3. CallsOK(c \o d, rc \union rd, {"ECS"} \union {"ECS"})
  BY <1>1, <1>2, Join
<1>4. CallsOK(c \o d, RowOf(EcsNames, i), {"ECS"})
  BY <1>2, <1>3, Weaken
<1> QED BY <1>4 DEF c, d
LEMMA EcsOK == CallsOK(EcsCalls, EcsAll, {"ECS"})
<1> DEFINE seqs == [i \in 1 .. 2 |-> EcCosmicCtrl("ECS", i - 1) \o EcCosmicDelay("ECS", i - 1)]
           a == <<FadcSum("ECS")>>
           b == CounterCalls("ECS")
           c == EcsStrips
           d == FlattenSeq(seqs)
<1>1. EcsCalls = a \o b \o c \o d
  BY DEF EcsCalls, Loop
<1>2. \A i \in 1 .. 2 : CallsOK(seqs[i], RowOf(EcsNames, i - 1), {"ECS"})
  <2>1. \A i \in 1 .. 2 : i - 1 \in 0 .. 1
    OBVIOUS
  <2> QED BY <2>1, EcsHalfOK
<1>3. seqs = [i \in 1 .. 2 |-> seqs[i]] /\ 2 \in Nat \ {0}
  OBVIOUS
<1> HIDE DEF seqs
<1>4. CallsOK(d, RowsOf(EcsNames), {"ECS"})
  BY <1>2, <1>3, LoopNames
<1>5. CallsOK(a, SumRegs, {"ECS"})
  BY FadcSumOK, OneCall DEF SumRegs
<1>6. CallsOK(b, CounterRegs, {"ECS"}) /\ CallsOK(c, EcsStripRegs, {"ECS"})
  BY CountersOK, EcsStripsOK
<1>7. /\ SumRegs \cap CounterRegs = {} /\ (SumRegs \union CounterRegs) \cap EcsStripRegs = {}
      /\ (SumRegs \union CounterRegs \union EcsStripRegs) \cap RowsOf(EcsNames) = {}
  BY DEF SumRegs, CounterRegs, EcsStripRegs, RowsOf, EcsNames, The
<1> HIDE DEF a, b, c, d
<1>8. CallsOK(a \o b, SumRegs \union CounterRegs, {"ECS"} \union {"ECS"})
  BY <1>5, <1>6, <1>7, Join
<1>9. CallsOK(a \o b \o c, SumRegs \union CounterRegs \union EcsStripRegs, {"ECS"} \union {"ECS"} \union {"ECS"})
  BY <1>6, <1>7, <1>8, Join
<1>10. CallsOK(a \o b \o c \o d, EcsAll, {"ECS"} \union {"ECS"} \union {"ECS"} \union {"ECS"})
  BY <1>4, <1>7, <1>9, Join DEF EcsAll
<1>11. {"ECS"} \union {"ECS"} \union {"ECS"} \union {"ECS"} = {"ECS"}
  OBVIOUS
<1> QED BY <1>1, <1>10, <1>11

GtNames == {"gtStrigMask", "gtStrig1Mask", "gtStrig", "gtStrig1", "gtCtrig", "gtPulser", "trigPrescaler"}
TrigRegs == {The("trigLatency")} \union {The("trigWidth")}
LEMMA TrigOK ==
    ASSUME NEW fam \in {"GT", "COMPTON"}
    PROVE  CallsOK(<<Latency(fam), Width(fam)>>, TrigRegs, {fam})
<1> DEFINE c == Latency(fam)
           d == Width(fam)
           rc == {The("trigLatency")}
           rd == {The("trigWidth")}
<1>1. CallOK(c, rc, {fam}) /\ CallOK(d, rd, {fam})
  BY LatencyOK, WidthOK
<1>2. rc \cap rd = {}
  BY DEF The
<1>3. TrigRegs = rc \union rd
  BY DEF TrigRegs
<1> HIDE DEF c, d, rc, rd
<1>4. Cross(c, d)
  BY <1>1, <1>2, Apart
<1>5. CallOK(c, TrigRegs, {fam}) /\ CallOK(d, TrigRegs, {fam})
  BY <1>1, <1>3 DEF CallOK
<1>6. CallsOK(<<c, d>>, TrigRegs, {fam})
  BY <1>4, <1>5, TwoCalls
<1> QED BY <1>6 DEF c, d
GtAll == TrigRegs \union RowsOf(GtNames)
LEMMA GtOK == CallsOK(GtCalls, GtAll, {"GT"})
<1> DEFINE seqs == [i \in 1 .. NumTrg |-> <<GtTriggerBit(i - 1), GtPulserOn(i - 1)>>]
           q == <<Latency("GT"), Width("GT")>>
<1>1. GtCalls = q \o FlattenSeq(seqs)
  BY DEF GtCalls, Loop
<1>0. NumTrg \in Nat \ {0}
  BY RowsAssumption
<1>2. \A i \in 1 .. NumTrg : CallsOK(seqs[i], RowOf(GtNames, i - 1), {"GT"})
  <2>1. \A i \in 1 .. NumTrg : i - 1 \in 0 .. NumTrg - 1
    BY <1>0
  <2>2. \A i : RowOf(GtNames, i) = GtBitRegs(i)
    BY DEF RowOf, GtNames, GtBitRegs
  <2> QED BY <2>1, <2>2, GtBitOK
<1>3. seqs = [i \in 1 .. NumTrg |-> seqs[i]]
  OBVIOUS
<1> HIDE DEF seqs
<1>4. CallsOK(FlattenSeq(seqs), RowsOf(GtNames), {"GT"})
  BY <1>0, <1>2, <1>3, LoopNames
<1>5. CallsOK(q, TrigRegs, {"GT"})
  BY TrigOK
<1>6. TrigRegs \cap RowsOf(GtNames) = {}
  BY DEF TrigRegs, RowsOf, GtNames, The
<1> HIDE DEF q
<1>7. CallsOK(q \o FlattenSeq(seqs), TrigRegs \union RowsOf(GtNames), {"GT"} \union {"GT"})
  BY <1>4, <1>5, <1>6, Join
<1>8. {"GT"} \union {"GT"} = {"GT"}
  OBVIOUS
<1> QED BY <1>1, <1>7, <1>8 DEF GtAll

-----------------------------------------------------------------------------
(* Compton *)

LEMMA ComptonSlots ==
    /\ \A i \in 0 .. NumCompton - 1 :
        /\ SlotAt("COMPTON", "PRESCALE", i, 1) /\ SlotAt("COMPTON", "DELAY", i, 1)
        /\ SlotAt("COMPTON", "FADC_THRESHOLD", i, 1) /\ SlotAt("COMPTON", "FADC_EN_MASK", i, 1)
        /\ SlotAt("COMPTON", "EPLANE_MULT_MIN", i, 1) /\ SlotAt("COMPTON", "EPLANE_MASK", i, 1)
    /\ SlotAt("COMPTON", "SCALER_READOUT_EN", 0, 1) /\ SlotAt("COMPTON", "VETROC_WIDTH", 0, 1)
<1>1. /\ Has("COMPTON", "PRESCALE", NumTrg, 1) /\ Has("COMPTON", "DELAY", NumTrg, 1)
      /\ Has("COMPTON", "FADC_THRESHOLD", NumCompton, 1) /\ Has("COMPTON", "FADC_EN_MASK", NumCompton, 1)
      /\ Has("COMPTON", "EPLANE_MULT_MIN", NumCompton, 1) /\ Has("COMPTON", "EPLANE_MASK", NumCompton, 1)
      /\ Has("COMPTON", "SCALER_READOUT_EN", 1, 1) /\ Has("COMPTON", "VETROC_WIDTH", 1, 1)
  BY KeysOf DEF Has, ComptonKeys
<1>2. \A i \in 0 .. NumCompton - 1 : i \in 0 .. NumTrg - 1
  BY RowsAssumption
<1>3. 1 \in 1 .. 1 /\ 0 \in 0 .. 1 - 1
  OBVIOUS
<1>4. SlotAt("COMPTON", "SCALER_READOUT_EN", 0, 1) /\ SlotAt("COMPTON", "VETROC_WIDTH", 0, 1)
  BY <1>1, <1>3, HasSlot
<1>5. SUFFICES ASSUME NEW i \in 0 .. NumCompton - 1
               PROVE  /\ SlotAt("COMPTON", "PRESCALE", i, 1) /\ SlotAt("COMPTON", "DELAY", i, 1)
                      /\ SlotAt("COMPTON", "FADC_THRESHOLD", i, 1) /\ SlotAt("COMPTON", "FADC_EN_MASK", i, 1)
                      /\ SlotAt("COMPTON", "EPLANE_MULT_MIN", i, 1) /\ SlotAt("COMPTON", "EPLANE_MASK", i, 1)
  BY <1>4
<1>6. i \in 0 .. NumTrg - 1
  BY <1>2
<1> QED BY <1>1, <1>3, <1>6, HasSlot

LEMMA ComptonSafe ==
    /\ Safe("COMPTON", "PRESCALE") /\ Safe("COMPTON", "DELAY") /\ Safe("COMPTON", "FADC_EN_MASK")
    /\ Safe("COMPTON", "SCALER_READOUT_EN") /\ Safe("COMPTON", "VETROC_WIDTH")
BY DEF Safe, Lost

\* A delay, limited in nanoseconds to what fits in ticks.
LEMMA FieldDelay ==
    ASSUME NEW fam, NEW key, NEW i, NEW r, SlotAt(fam, key, i, 1)
    PROVE  AtIn(Clamp(Top(Per(F(<<fam, key, i>>, 1, r, 16, 8), 4), 1020), 0, 255), fam, key, i, 1, r, 16, 8)
<1> DEFINE t == <<fam, key, i>>
           f == Per(F(t, 1, r, 16, 8), 4)
           g == Top(f, 1020)
           x == Clamp(g, 0, 255)
<1>1. NumAt(f, t, 1, r, 16, 8) /\ f.unit = 4 /\ f.bias = 0
  <2>1. Within(16, 8) /\ Unit(4)
    BY DEF Within, Unit
  <2>2. NumAt(f, t, 1, r, 16, 8)
    BY <2>1, NumPer
  <2>3. f.unit = 4 /\ f.bias = 0
    BY DEF F, Per
  <2> QED BY <2>2, <2>3
<1> HIDE DEF f, t
<1>2. /\ DOMAIN x = FieldNames /\ FieldOK(x) /\ x.slot = t /\ x.col = 1 /\ x.reg = r /\ x.lo = 16 /\ x.n = 8
      /\ x.unit = 4 /\ x.bias = 0 /\ x.top = 1020 /\ x.max = 255 /\ ~x.signed
  <2>1. /\ DOMAIN g = FieldNames /\ FieldOK(g) /\ g.slot = t /\ g.col = 1 /\ g.reg = r /\ g.lo = 16 /\ g.n = 8
        /\ g.unit = 4 /\ g.bias = 0 /\ g.top = 1020 /\ ~g.signed
    BY <1>1 DEF NumAt, At, Top, FieldNames, FieldOK
  <2> HIDE DEF g
  <2> QED BY <2>1 DEF Clamp, FieldNames, FieldOK, Huge
<1> HIDE DEF x
<1>3. At(x, t, 1, r, 16, 8)
  BY <1>2 DEF At, TopOK
<1>4. AtIn(x, fam, key, i, 1, r, 16, 8)
  BY <1>3 DEF AtIn, t
<1> QED BY <1>4 DEF x, f, t

LEMMA TriggerBitOK ==
    ASSUME NEW i \in 0 .. NumCompton - 1
    PROVE  CallsOK(TriggerBit(i), {<<"trigPrescaler", i>>}, {"COMPTON"}) /\ Len(TriggerBit(i)) = 2
<1> DEFINE r == <<"trigPrescaler", i>>
           e1 == Clamp(F(<<"COMPTON", "PRESCALE", i>>, 1, r, 0, 16), 0, 65535)
           e2 == Clamp(Top(Per(F(<<"COMPTON", "DELAY", i>>, 1, r, 16, 8), 4), 1020), 0, 255)
<1>1. Within(0, 16) /\ Limits(0, 65535) /\ Before(0, 16, 16, 8)
  BY DEF Within, Limits, Before, Huge
<1>2. SlotAt("COMPTON", "PRESCALE", i, 1) /\ SlotAt("COMPTON", "DELAY", i, 1)
  BY ComptonSlots
<1>3. AtIn(e1, "COMPTON", "PRESCALE", i, 1, r, 0, 16) /\ AtIn(e2, "COMPTON", "DELAY", i, 1, r, 16, 8)
  BY <1>1, <1>2, FieldClamp, FieldDelay
<1>4. TriggerBit(i) = <<Rmw(e1), Rmw(e2)>>
  BY DEF TriggerBit
<1> HIDE DEF e1, e2, r
<1>5. CallsOK(<<Rmw(e1), Rmw(e2)>>, {r}, {"COMPTON"})
  BY <1>1, <1>3, ComptonSafe, TwoRmw
<1>6. Len(TriggerBit(i)) = 2
  BY <1>4
<1> QED BY <1>4, <1>5, <1>6 DEF r

\* The mask of a Compton trigger is in a register of its own, or beside that
\* of its neighbour; its other settings are lost.
LEMMA ComptonTriggerIs ==
    ASSUME NEW i \in 0 .. NumCompton - 1
    PROVE  LET c == ComptonTrigger(i)
               m == <<"comptonMask", i \div 2>>
           IN \E x :
                /\ Placed(x, {"COMPTON"}, m, 16 * (i % 2), 16)
                /\ DOMAIN c.clear = {<<"comptonCtrl", i>>, m} /\ c.clear[m] = Span(x) /\ x \in c.fields
                /\ \A y \in c.fields : y # x => y.reg = <<"comptonCtrl", i>> /\ ~Kept(y) /\ FieldOK(y) /\ SlotIn(y, {"COMPTON"})
<1> DEFINE t == <<"comptonCtrl", i>>
           m == <<"comptonMask", i \div 2>>
           lo == 16 * (i % 2)
           x == F(<<"COMPTON", "FADC_EN_MASK", i>>, 1, m, lo, 16)
           e1 == Clamp(F(<<"COMPTON", "FADC_THRESHOLD", i>>, 1, t, 0, 13), 0, 8191)
           e2 == Clamp(F(<<"COMPTON", "EPLANE_MULT_MIN", i>>, 1, t, 24, 3), 0, 4)
           e3 == Cut(F(<<"COMPTON", "EPLANE_MASK", i>>, 1, t, 28, 4))
           c == ComptonTrigger(i)
<1>1. c = [clear |-> [r \in {t, x.reg} |-> IF r = t THEN 16 .. 23 ELSE Span(x)], fields |-> {e1, e2, e3, x}]
  BY DEF ComptonTrigger
<1>2. Within(lo, 16) /\ Within(0, 13) /\ Within(24, 3) /\ Within(28, 4) /\ Limits(0, 8191) /\ Limits(0, 4)
  <2>1. i % 2 \in 0 .. 1
    OBVIOUS
  <2> QED BY <2>1 DEF Within, Limits, Huge
<1>3. /\ SlotAt("COMPTON", "FADC_THRESHOLD", i, 1) /\ SlotAt("COMPTON", "FADC_EN_MASK", i, 1)
      /\ SlotAt("COMPTON", "EPLANE_MULT_MIN", i, 1) /\ SlotAt("COMPTON", "EPLANE_MASK", i, 1)
  BY ComptonSlots
<1> HIDE DEF lo
<1>4. AtIn(x, "COMPTON", "FADC_EN_MASK", i, 1, m, lo, 16)
  <2> HIDE DEF m
  <2> QED BY <1>2, <1>3, Field1
<1>5. AtIn(e1, "COMPTON", "FADC_THRESHOLD", i, 1, t, 0, 13)
  <2> HIDE DEF t
  <2> QED BY <1>2, <1>3, FieldClamp
<1>6. AtIn(e2, "COMPTON", "EPLANE_MULT_MIN", i, 1, t, 24, 3)
  <2> HIDE DEF t
  <2> QED BY <1>2, <1>3, FieldClamp
<1>7. AtIn(e3, "COMPTON", "EPLANE_MASK", i, 1, t, 28, 4)
  <2> HIDE DEF t
  <2> QED BY <1>2, <1>3, FieldCut
<1>8. t # m
  OBVIOUS
<1> HIDE DEF x, e1, e2, e3, c
<1>9. Placed(x, {"COMPTON"}, m, lo, 16)
  <2> HIDE DEF m
  <2> QED BY <1>4, ComptonSafe, PlacedOf
<1> HIDE DEF t, m
<1>10. x.reg = m
  BY <1>9 DEF Placed
<1>11. DOMAIN c.clear = {t, m} /\ c.clear[m] = Span(x) /\ c.fields = {e1, e2, e3, x}
  BY <1>1, <1>8, <1>10
<1>12. \A y \in {e1, e2, e3} : y.reg = t /\ ~Kept(y) /\ FieldOK(y) /\ SlotIn(y, {"COMPTON"})
  <2>1. /\ e1.slot = <<"COMPTON", "FADC_THRESHOLD", i>> /\ e2.slot = <<"COMPTON", "EPLANE_MULT_MIN", i>>
        /\ e3.slot = <<"COMPTON", "EPLANE_MASK", i>> /\ e1.reg = t /\ e2.reg = t /\ e3.reg = t
        /\ FieldOK(e1) /\ FieldOK(e2) /\ FieldOK(e3) /\ e1.col = 1 /\ e2.col = 1 /\ e3.col = 1
    BY <1>5, <1>6, <1>7 DEF AtIn, At
  <2>2. SlotIn(e1, {"COMPTON"}) /\ SlotIn(e2, {"COMPTON"}) /\ SlotIn(e3, {"COMPTON"})
    BY <1>3, <2>1, SlotAtIn
  <2>3. ~Kept(e1) /\ ~Kept(e2) /\ ~Kept(e3)
    BY <2>1 DEF Kept, KeyOf, Lost
  <2> QED BY <2>1, <2>2, <2>3
<1> QED BY <1>9, <1>11, <1>12 DEF t, m, lo, c

LEMMA ComptonTriggerOK ==
    ASSUME NEW i \in 0 .. NumCompton - 1
    PROVE  CallOK(ComptonTrigger(i), {<<"comptonCtrl", i>>, <<"comptonMask", i \div 2>>}, {"COMPTON"})
<1> DEFINE c == ComptonTrigger(i)
           m == <<"comptonMask", i \div 2>>
           t == <<"comptonCtrl", i>>
<1>1. PICK x :
        /\ Placed(x, {"COMPTON"}, m, 16 * (i % 2), 16)
        /\ DOMAIN c.clear = {t, m} /\ c.clear[m] = Span(x) /\ x \in c.fields
        /\ \A y \in c.fields : y # x => y.reg = t /\ ~Kept(y) /\ FieldOK(y) /\ SlotIn(y, {"COMPTON"})
  BY ComptonTriggerIs
<1>2. t # m
  OBVIOUS
<1> HIDE DEF t, m, c
<1>3. FieldOK(x) /\ TopOK(x) /\ SlotIn(x, {"COMPTON"}) /\ x.reg = m
  BY <1>1 DEF Placed, Good
<1>4. CallOK(c, {t, m}, {"COMPTON"})
  BY <1>1, <1>2, <1>3 DEF CallOK
<1> QED BY <1>4 DEF c, t, m

\* A setter that does not write the mask's register leaves the mask.
LEMMA MaskClear ==
    ASSUME NEW i \in 0 .. NumCompton - 1, NEW d, NEW ss, NEW gams, CallOK(d, ss, gams),
           <<"comptonMask", i \div 2>> \notin ss
    PROVE  Cross(ComptonTrigger(i), d)
<1> DEFINE c == ComptonTrigger(i)
           m == <<"comptonMask", i \div 2>>
           t == <<"comptonCtrl", i>>
<1>1. PICK x :
        /\ Placed(x, {"COMPTON"}, m, 16 * (i % 2), 16)
        /\ DOMAIN c.clear = {t, m} /\ c.clear[m] = Span(x) /\ x \in c.fields
        /\ \A y \in c.fields : y # x => y.reg = t /\ ~Kept(y) /\ FieldOK(y) /\ SlotIn(y, {"COMPTON"})
  BY ComptonTriggerIs
<1>2. m \notin DOMAIN d.clear
  BY DEF CallOK
<1> HIDE DEF c, t, m
<1> QED BY <1>1, <1>2 DEF Cross, Spares, Placed, c

LEMMA MaskCross ==
    ASSUME NEW i \in 0 .. NumCompton - 1, NEW j \in 0 .. NumCompton - 1, i # j
    PROVE  Cross(ComptonTrigger(i), ComptonTrigger(j))
<1> DEFINE c == ComptonTrigger(i)
           d == ComptonTrigger(j)
           m == <<"comptonMask", i \div 2>>
           n == <<"comptonMask", j \div 2>>
           t == <<"comptonCtrl", i>>
           u == <<"comptonCtrl", j>>
<1>1. PICK x :
        /\ Placed(x, {"COMPTON"}, m, 16 * (i % 2), 16)
        /\ DOMAIN c.clear = {t, m} /\ c.clear[m] = Span(x) /\ x \in c.fields
        /\ \A y \in c.fields : y # x => y.reg = t /\ ~Kept(y) /\ FieldOK(y) /\ SlotIn(y, {"COMPTON"})
  BY ComptonTriggerIs
<1>2. PICK z :
        /\ Placed(z, {"COMPTON"}, n, 16 * (j % 2), 16)
        /\ DOMAIN d.clear = {u, n} /\ d.clear[n] = Span(z) /\ z \in d.fields
        /\ \A y \in d.fields : y # z => y.reg = u /\ ~Kept(y) /\ FieldOK(y) /\ SlotIn(y, {"COMPTON"})
  BY ComptonTriggerIs
<1>3. m # u /\ n # u
  OBVIOUS
<1>4. CASE i \div 2 # j \div 2
  <2>1. m \notin {u, n}
    BY <1>4
  <2> QED BY <2>1, MaskClear, ComptonTriggerOK
<1>5. CASE i \div 2 = j \div 2
  <2>1. m = n
    BY <1>5
  <2>2. i % 2 # j % 2 /\ i % 2 \in 0 .. 1 /\ j % 2 \in 0 .. 1
    <3>1. \A a, b \in Nat : a # b /\ a \div 2 = b \div 2 => a % 2 # b % 2
      OBVIOUS
    <3>2. i \in Nat /\ j \in Nat
      OBVIOUS
    <3> QED BY <1>5, <3>1, <3>2
  <2>3. Span(x) \cap Span(z) = {} /\ Good(z, {"COMPTON"})
    BY <1>1, <1>2, <2>2 DEF Placed, Span
  <2>4. Beside(z, x)
    BY <2>3 DEF Beside, Good
  <2>5. x.reg = m
    BY <1>1 DEF Placed
  <2> HIDE DEF c, d, m, n, t, u
  <2>6. d.clear[x.reg] \cap Span(x) = {} /\ \A y \in d.fields : y.reg = x.reg => Beside(y, x)
    BY <1>2, <1>3, <2>1, <2>3, <2>4, <2>5
  <2>7. Spares(d, x)
    BY <2>6 DEF Spares
  <2> QED BY <1>1, <2>7 DEF Cross, c, d
<1> QED BY <1>4, <1>5

LEMMA ComptonCommonOK == CallsOK(ComptonCommon, {<<"comptonCtrl", 0>>}, {"COMPTON"})
<1> DEFINE r == <<"comptonCtrl", 0>>
           e1 == Clamp(F(<<"COMPTON", "SCALER_READOUT_EN", 0>>, 1, r, 15, 1), 0, 1)
           e2 == Clamp(F(<<"COMPTON", "VETROC_WIDTH", 0>>, 1, r, 16, 8), 0, 255)
<1>1. Within(15, 1) /\ Within(16, 8) /\ Limits(0, 1) /\ Limits(0, 255) /\ Before(15, 1, 16, 8)
  BY DEF Within, Limits, Before, Huge
<1>2. SlotAt("COMPTON", "SCALER_READOUT_EN", 0, 1) /\ SlotAt("COMPTON", "VETROC_WIDTH", 0, 1)
  BY ComptonSlots
<1>4. ComptonCommon = <<Rmw(e1), Rmw(e2)>>
  BY DEF ComptonCommon
<1> HIDE DEF r
<1>3. AtIn(e1, "COMPTON", "SCALER_READOUT_EN", 0, 1, r, 15, 1) /\ AtIn(e2, "COMPTON", "VETROC_WIDTH", 0, 1, r, 16, 8)
  BY <1>1, <1>2, FieldClamp
<1> HIDE DEF e1, e2
<1>5. CallsOK(<<Rmw(e1), Rmw(e2)>>, {r}, {"COMPTON"})
  BY <1>1, <1>3, ComptonSafe, TwoRmw
<1> QED BY <1>4, <1>5 DEF r

LoopRegs == RowsOf({"trigPrescaler", "comptonCtrl", "comptonMask"})
LEMMA ComptonLoop ==
    ASSUME NEW seqs, seqs = [i \in 1 .. NumCompton |-> TriggerBit(i - 1) \o <<ComptonTrigger(i - 1)>>]
    PROVE  /\ CallsOK(FlattenSeq(seqs), LoopRegs, {"COMPTON"})
           /\ \A d : CallOK(d, {<<"comptonCtrl", 0>>}, {"COMPTON"}) => Clear(FlattenSeq(seqs), d)
<1> DEFINE n == NumCompton
           P(i) == {<<"trigPrescaler", i>>}
           C(i) == {<<"comptonCtrl", i>>, <<"comptonMask", i \div 2>>}
<1>1. n \in Nat \ {0} /\ \A i \in 1 .. n : i - 1 \in 0 .. n - 1 /\ i - 1 \in Int
  BY RowsAssumption
<1>2. \A i \in 0 .. n - 1 : CallsOK(TriggerBit(i), P(i), {"COMPTON"}) /\ Len(TriggerBit(i)) = 2
  BY TriggerBitOK
<1>3. \A i \in 0 .. n - 1 : CallOK(ComptonTrigger(i), C(i), {"COMPTON"})
  BY ComptonTriggerOK
<1>4. \A i, j : P(i) \cap C(j) = {}
  OBVIOUS
<1>5. \A i, j : i # j => P(i) \cap P(j) = {}
  OBVIOUS
<1>6. \A i \in Int : P(i) \subseteq LoopRegs /\ C(i) \subseteq LoopRegs
  BY DEF LoopRegs, RowsOf
<1>7. \A i \in 1 .. n : seqs[i] = TriggerBit(i - 1) \o <<ComptonTrigger(i - 1)>>
  OBVIOUS
<1> HIDE DEF P, C
\* One pass of the loop.
<1>8. ASSUME NEW i \in 0 .. n - 1
      PROVE  /\ CallsOK(TriggerBit(i) \o <<ComptonTrigger(i)>>, LoopRegs, {"COMPTON"})
             /\ Len(TriggerBit(i) \o <<ComptonTrigger(i)>>) = 3
             /\ \A a \in 1 .. 3 :
                    \/ CallOK((TriggerBit(i) \o <<ComptonTrigger(i)>>)[a], P(i), {"COMPTON"})
                    \/ (TriggerBit(i) \o <<ComptonTrigger(i)>>)[a] = ComptonTrigger(i)
  <2> DEFINE p == TriggerBit(i)
             q == <<ComptonTrigger(i)>>
             w == p \o q
  <2>1. CallsOK(p, P(i), {"COMPTON"}) /\ CallsOK(q, C(i), {"COMPTON"}) /\ Len(p) = 2 /\ Len(q) = 1
        /\ q[1] = ComptonTrigger(i)
    BY <1>2, <1>3, OneCall
  <2> HIDE DEF p, q
  <2>2. CallsOK(w, P(i) \union C(i), {"COMPTON"} \union {"COMPTON"})
    BY <1>4, <2>1, Join
  <2>3. P(i) \union C(i) \subseteq LoopRegs /\ {"COMPTON"} \union {"COMPTON"} \subseteq {"COMPTON"}
    BY <1>6
  <2>4. CallsOK(w, LoopRegs, {"COMPTON"})
    <3> HIDE DEF w
    <3> QED BY <2>2, <2>3, Weaken
  <2>5. /\ Len(w) = 3 /\ (\A a \in 1 .. 2 : w[a] = p[a]) /\ w[3] = q[1]
    <3>1. IsSeq(p) /\ IsSeq(q)
      BY <2>1 DEF CallsOK
    <3>2. /\ Len(w) = Len(p) + Len(q) /\ (\A k \in 1 .. Len(p) : w[k] = p[k])
          /\ \A k \in 1 .. Len(q) : w[Len(p) + k] = q[k]
      BY <3>1, Joined
    <3> HIDE DEF w
    <3>3. w[2 + 1] = q[1]
      BY <2>1, <3>2
    <3> QED BY <2>1, <3>2, <3>3
  <2> HIDE DEF w
  <2>6. \A a \in 1 .. 3 : CallOK(w[a], P(i), {"COMPTON"}) \/ w[a] = ComptonTrigger(i)
    <3>1. \A a \in 1 .. 3 : a \in 1 .. 2 \/ a = 3
      OBVIOUS
    <3>2. \A a \in 1 .. 2 : CallOK(p[a], P(i), {"COMPTON"})
      BY <2>1 DEF CallsOK
    <3> QED BY <2>1, <2>5, <3>1, <3>2
  <2> QED BY <2>4, <2>5, <2>6 DEF w, p, q
<1> HIDE DEF n
<1>9. \A i \in 1 .. n : /\ CallsOK(seqs[i], LoopRegs, {"COMPTON"}) /\ Len(seqs[i]) = 3
                        /\ \A a \in 1 .. 3 : CallOK(seqs[i][a], P(i - 1), {"COMPTON"}) \/ seqs[i][a] = ComptonTrigger(i - 1)
  BY <1>1, <1>7, <1>8
<1>10. ASSUME NEW i \in 1 .. n, NEW j \in 1 .. n, i < j,
              NEW a \in 1 .. Len(seqs[i]), NEW b \in 1 .. Len(seqs[j])
       PROVE  Cross(seqs[i][a], seqs[j][b])
  <2> DEFINE c == seqs[i][a]
             d == seqs[j][b]
             k == i - 1
             l == j - 1
  <2>1. CallOK(c, P(k), {"COMPTON"}) \/ c = ComptonTrigger(k)
    BY <1>9
  <2>2. CallOK(d, P(l), {"COMPTON"}) \/ d = ComptonTrigger(l)
    BY <1>9
  <2>3. k \in 0 .. n - 1 /\ l \in 0 .. n - 1 /\ k # l
    BY <1>1, <1>10
  <2>4. P(k) \cap P(l) = {} /\ P(k) \cap C(l) = {} /\ C(k) \cap P(l) = {}
    BY <1>4, <1>5, <2>3
  <2>5. CallOK(ComptonTrigger(k), C(k), {"COMPTON"}) /\ CallOK(ComptonTrigger(l), C(l), {"COMPTON"})
    BY <1>3, <2>3
  <2> HIDE DEF c, d, k, l
  <2>6. CASE CallOK(c, P(k), {"COMPTON"})
    BY <2>2, <2>4, <2>5, <2>6, Apart DEF c, d
  <2>7. CASE c = ComptonTrigger(k)
    <3>1. CASE CallOK(d, P(l), {"COMPTON"})
      BY <2>4, <2>5, <2>7, <3>1, Apart DEF c, d
    <3>2. CASE d = ComptonTrigger(l)
      BY <2>3, <2>7, <3>2, MaskCross DEF c, d, n
    <3> QED BY <2>2, <3>1, <3>2
  <2> QED BY <2>1, <2>6, <2>7
<1>11. Len(seqs) = n
  <2>1. n \in Nat /\ seqs = [i \in 1 .. n |-> seqs[i]]
    BY <1>1 DEF n
  <2> QED BY <2>1, LenFn
<1>12. CallsOK(FlattenSeq(seqs), LoopRegs, {"COMPTON"}) /\ FromRows(FlattenSeq(seqs), seqs, n)
  <2>1. \A i \in 1 .. n : CallsOK(seqs[i], LoopRegs, {"COMPTON"})
    BY <1>9
  <2>2. \A i, j \in 1 .. n : i < j =>
            \A a \in 1 .. Len(seqs[i]), b \in 1 .. Len(seqs[j]) : Cross(seqs[i][a], seqs[j][b])
    BY <1>10
  <2>3. n \in Nat \ {0}
    BY <1>1
  <2> DEFINE fams == {"COMPTON"}
             rs == LoopRegs
             sq == seqs
  <2>4. /\ Len(sq) = n /\ \A i \in 1 .. n : CallsOK(sq[i], rs, fams)
        /\ \A i, j \in 1 .. n : i < j => \A a \in 1 .. Len(sq[i]), b \in 1 .. Len(sq[j]) : Cross(sq[i][a], sq[j][b])
    BY <1>11, <2>1, <2>2
  <2> HIDE DEF fams, rs, sq
  <2>5. CallsOK(FlattenSeq(sq), rs, fams) /\ FromRows(FlattenSeq(sq), sq, n)
    BY <2>3, <2>4, FlattenOK
  <2> QED BY <2>5 DEF fams, rs, sq
<1>13. ASSUME NEW d, CallOK(d, {<<"comptonCtrl", 0>>}, {"COMPTON"}) PROVE Clear(FlattenSeq(seqs), d)
  <2> DEFINE q == FlattenSeq(seqs)
             ss == {<<"comptonCtrl", 0>>}
  <2> HIDE DEF q
  <2>1. FromRows(q, seqs, n)
    BY <1>12 DEF q
  <2>2. SUFFICES ASSUME NEW x \in 1 .. Len(q) PROVE Cross(q[x], d)
    BY DEF Clear, q
  <2>3. PICK i \in 1 .. n : \E a \in 1 .. Len(seqs[i]) : q[x] = seqs[i][a]
    BY <2>1 DEF FromRows
  <2>4. PICK a \in 1 .. Len(seqs[i]) : q[x] = seqs[i][a]
    BY <2>3
  <2> DEFINE k == i - 1
  <2>5. CallOK(q[x], P(k), {"COMPTON"}) \/ q[x] = ComptonTrigger(k)
    BY <1>9, <2>4
  <2>6. k \in 0 .. n - 1
    BY <1>1
  <2>7. P(k) \cap ss = {} /\ <<"comptonMask", k \div 2>> \notin ss
    BY DEF P
  <2> HIDE DEF k, ss
  <2>8. CASE CallOK(q[x], P(k), {"COMPTON"})
    BY <1>13, <2>7, <2>8, Apart DEF ss
  <2>9. CASE q[x] = ComptonTrigger(k)
    BY <1>13, <2>6, <2>7, <2>9, MaskClear DEF ss, n
  <2> QED BY <2>5, <2>8, <2>9
<1> QED BY <1>12, <1>13

ComptonAll == LoopRegs \union TrigRegs
LEMMA ComptonOK == CallsOK(ComptonCalls, ComptonAll, {"COMPTON"})
<1> DEFINE seqs == [i \in 1 .. NumCompton |-> TriggerBit(i - 1) \o <<ComptonTrigger(i - 1)>>]
           p == FlattenSeq(seqs)
           q == ComptonCommon
           w == <<Latency("COMPTON"), Width("COMPTON")>>
           rc == {<<"comptonCtrl", 0>>}
<1>1. ComptonCalls = p \o q \o w
  BY DEF ComptonCalls, Loop
<1>2. CallsOK(p, LoopRegs, {"COMPTON"}) /\ \A d : CallOK(d, rc, {"COMPTON"}) => Clear(p, d)
  <2> HIDE DEF seqs
  <2>1. seqs = [i \in 1 .. NumCompton |-> TriggerBit(i - 1) \o <<ComptonTrigger(i - 1)>>]
    BY DEF seqs
  <2> QED BY <2>1, ComptonLoop
<1>3. CallsOK(q, rc, {"COMPTON"})
  BY ComptonCommonOK
<1>4. CallsOK(w, TrigRegs, {"COMPTON"})
  BY TrigOK
<1>5. LoopRegs \union rc = LoopRegs /\ LoopRegs \cap TrigRegs = {}
  BY DEF LoopRegs, RowsOf, TrigRegs, The
<1> HIDE DEF p, q, w, rc, seqs
<1>6. \A i \in 1 .. Len(p), j \in 1 .. Len(q) : Cross(p[i], q[j])
  BY <1>2, <1>3 DEF CallsOK, Clear
<1>7. CallsOK(p \o q, LoopRegs \union rc, {"COMPTON"} \union {"COMPTON"})
  BY <1>2, <1>3, <1>6, JoinCross
<1>8. CallsOK(p \o q, LoopRegs, {"COMPTON"} \union {"COMPTON"})
  BY <1>5, <1>7
<1>9. CallsOK(p \o q \o w, ComptonAll, {"COMPTON"} \union {"COMPTON"} \union {"COMPTON"})
  BY <1>4, <1>5, <1>8, Join DEF ComptonAll
<1>10. {"COMPTON"} \union {"COMPTON"} \union {"COMPTON"} = {"COMPTON"}
  OBVIOUS
<1> QED BY <1>1, <1>9, <1>10

-----------------------------------------------------------------------------
(* Streaming *)

LEMMA BiasAt ==
    ASSUME NEW f, NEW s, NEW c, NEW r, NEW lo, NEW n, NumAt(f, s, c, r, lo, n), NEW b \in Int
    PROVE  NumAt([f EXCEPT !.bias = b], s, c, r, lo, n)
<1> DEFINE g == [f EXCEPT !.bias = b]
<1>1. FieldOK(g)
  BY DEF NumAt, At, FieldNames, FieldOK
<1> QED BY <1>1 DEF NumAt, At, FieldNames, TopOK
LEMMA ZeroAt ==
    ASSUME NEW f, NEW s, NEW c, NEW r, NEW lo, NEW n, NumAt(f, s, c, r, lo, n), NEW b \in Int
    PROVE  NumAt([f EXCEPT !.zero = b], s, c, r, lo, n)
<1> DEFINE g == [f EXCEPT !.zero = b]
<1>1. FieldOK(g)
  BY DEF NumAt, At, FieldNames, FieldOK
<1> QED BY <1>1 DEF NumAt, At, FieldNames, TopOK
LEMMA NumIn ==
    ASSUME NEW x, NEW fam, NEW key, NEW i, NEW c, NEW r, NEW lo, NEW n, NumAt(x, <<fam, key, i>>, c, r, lo, n),
           SlotAt(fam, key, i, c)
    PROVE  AtIn(x, fam, key, i, c, r, lo, n)
BY DEF NumAt, AtIn

LEMMA StreamSlots ==
    /\ SlotAt("STREAMING", "FRAMELEN", 0, 1) /\ SlotAt("STREAMING", "ROCID", 0, 1)
    /\ SlotAt("STREAMING", "NSTREAMS", 0, 1)
    /\ SlotAt("STREAMING", "DESTIPPORT", 0, 1) /\ SlotAt("STREAMING", "LOCALPORT", 0, 1)
    /\ \A c \in 1 .. 4 : /\ SlotAt("STREAMING", "IPADDR", 0, c) /\ SlotAt("STREAMING", "SUBNET", 0, c)
                         /\ SlotAt("STREAMING", "GATEWAY", 0, c) /\ SlotAt("STREAMING", "DESTIP", 0, c)
    /\ \A c \in 1 .. 6 : SlotAt("STREAMING", "MAC", 0, c)
<1>1. /\ Has("STREAMING", "FRAMELEN", 1, 1) /\ Has("STREAMING", "ROCID", 1, 1)
      /\ Has("STREAMING", "NSTREAMS", 2, 1)
      /\ Has("STREAMING", "DESTIPPORT", 2, 1) /\ Has("STREAMING", "LOCALPORT", 2, 1)
      /\ Has("STREAMING", "IPADDR", 2, 4) /\ Has("STREAMING", "SUBNET", 2, 4)
      /\ Has("STREAMING", "GATEWAY", 2, 4) /\ Has("STREAMING", "DESTIP", 2, 4) /\ Has("STREAMING", "MAC", 2, 6)
  BY KeysOf DEF Has, StreamingKeys, StreamRowKeys
<1>2. 0 \in 0 .. 1 - 1 /\ 0 \in 0 .. 2 - 1 /\ 1 \in 1 .. 1
  OBVIOUS
<1> QED BY <1>1, <1>2, HasSlot

LEMMA StreamSafe == \A key : Safe("STREAMING", key) /\ Safe("VTP", key)
BY DEF Safe, Lost
LEMMA GoodWeaken == ASSUME NEW x, NEW fams, NEW gams, Good(x, fams), fams \subseteq gams PROVE Good(x, gams)
BY DEF Good, SlotIn

EbRegs == {The("ebCtrl"), The("ebRocid"), The("ebCtrl3")}
LEMMA StreamEbOK == CallOK(StreamEbCfg, EbRegs, {"VTP", "STREAMING"})
<1> DEFINE r1 == The("ebCtrl")
           r2 == The("ebRocid")
           r3 == The("ebCtrl3")
           e1 == Cut(F(<<"VTP", "PAYLOAD_EN", 0>>, 1, r1, 0, 16))
           g2 == Per(F(<<"STREAMING", "FRAMELEN", 0>>, 1, r1, 16, 11), 32)
           e2 == Clamp([g2 EXCEPT !.bias = 1], 32, 2047)
           e3 == Clamp(F(<<"STREAMING", "ROCID", 0>>, 1, r2, 0, 7), 0, 127)
           g4 == Clamp(F(<<"STREAMING", "NSTREAMS", 0>>, 1, r3, 0, 3), 1, 4)
           e4 == [g4 EXCEPT !.zero = 1]
           fs == {e1, e2, e3, e4}
<1>1. StreamEbCfg = Whole(fs)
  BY DEF StreamEbCfg
<1>2. r1 # r2 /\ r1 # r3 /\ r2 # r3 /\ EbRegs = {r1, r2, r3}
  BY DEF The, EbRegs
<1>3. /\ Within(0, 16) /\ Within(16, 11) /\ Within(0, 7) /\ Within(0, 3) /\ Unit(32)
      /\ Limits(32, 2047) /\ Limits(0, 127) /\ Limits(1, 4)
  BY DEF Within, Unit, Limits, Huge
<1> HIDE DEF r1, r2, r3
<1>4. AtIn(e1, "VTP", "PAYLOAD_EN", 0, 1, r1, 0, 16)
  BY <1>3, CommonSlots, FieldCut
<1>5. AtIn(e2, "STREAMING", "FRAMELEN", 0, 1, r1, 16, 11)
  <2> DEFINE t == <<"STREAMING", "FRAMELEN", 0>>
             h == [g2 EXCEPT !.bias = 1]
  <2>1. NumAt(g2, t, 1, r1, 16, 11)
    BY <1>3, NumPer
  <2> HIDE DEF g2
  <2>2. NumAt(h, t, 1, r1, 16, 11)
    BY <2>1, BiasAt
  <2> HIDE DEF h
  <2>3. NumAt(Clamp(h, 32, 2047), t, 1, r1, 16, 11)
    BY <1>3, <2>2, ClampAt DEF Limits
  <2>4. NumAt(e2, t, 1, r1, 16, 11)
    BY <2>3 DEF h
  <2> HIDE DEF e2
  <2> QED BY <2>4, StreamSlots, NumIn
<1>6. AtIn(e3, "STREAMING", "ROCID", 0, 1, r2, 0, 7)
  BY <1>3, StreamSlots, FieldClamp
<1>7. AtIn(e4, "STREAMING", "NSTREAMS", 0, 1, r3, 0, 3)
  <2> DEFINE t == <<"STREAMING", "NSTREAMS", 0>>
             h == F(t, 1, r3, 0, 3)
  <2>1. NumAt(h, t, 1, r3, 0, 3)
    BY <1>3, FAt DEF Within
  <2> HIDE DEF h
  <2>2. NumAt(Clamp(h, 1, 4), t, 1, r3, 0, 3)
    BY <1>3, <2>1, ClampAt DEF Limits
  <2>3. NumAt(g4, t, 1, r3, 0, 3)
    BY <2>2 DEF h
  <2> HIDE DEF g4
  <2>4. NumAt(e4, t, 1, r3, 0, 3)
    BY <2>3, ZeroAt
  <2> HIDE DEF e4
  <2> QED BY <2>4, StreamSlots, NumIn
<1> HIDE DEF e1, e2, e3, e4
<1>8. /\ Placed(e1, {"VTP"}, r1, 0, 16) /\ Placed(e2, {"STREAMING"}, r1, 16, 11)
      /\ Placed(e3, {"STREAMING"}, r2, 0, 7) /\ Placed(e4, {"STREAMING"}, r3, 0, 3)
  BY <1>4, <1>5, <1>6, <1>7, PlacedOf, StreamSafe
<1> DEFINE fams == {"VTP", "STREAMING"}
           rs == {r1, r2, r3}
<1>9. \A x \in fs : Good(x, fams) /\ x.reg \in rs
  <2>1. {"VTP"} \subseteq fams /\ {"STREAMING"} \subseteq fams
    OBVIOUS
  <2> HIDE DEF fams
  <2> QED BY <1>8, <2>1, GoodWeaken DEF Placed
<1>10. \A x \in fs : \A y \in fs : y.reg = x.reg /\ y # x => Span(y) \cap Span(x) = {}
  BY <1>2, <1>8 DEF Placed, Span
<1> HIDE DEF fs, rs, fams
<1>11. CallOK(Whole(fs), rs, fams)
  BY <1>9, <1>10, PlacedAll, WholeOK
<1> QED BY <1>1, <1>2, <1>11 DEF rs, fams

\* Fields for the columns 1 .. n of a setting, of 8 bits each.
LEMMA AddressOK ==
    ASSUME NEW key, \A c \in 1 .. 4 : SlotAt("STREAMING", key, 0, c)
    PROVE  Group({F(<<"STREAMING", key, 0>>, c, <<key, 0>>, 32 - 8 * c, 8) : c \in 1 .. 4}, {<<key, 0>>}, {"STREAMING"})
<1> DEFINE r == <<key, 0>>
           f == [c \in 1 .. 4 |-> F(<<"STREAMING", key, 0>>, c, r, 32 - 8 * c, 8)]
           fs == {f[c] : c \in 1 .. 4}
<1>1. \A c \in 1 .. 4 : Within(32 - 8 * c, 8)
  BY DEF Within
<1> HIDE DEF r
<1>2. \A c \in 1 .. 4 : AtIn(f[c], "STREAMING", key, 0, c, r, 32 - 8 * c, 8)
  BY <1>1, Field1
<1>3. {F(<<"STREAMING", key, 0>>, c, r, 32 - 8 * c, 8) : c \in 1 .. 4} = fs
  OBVIOUS
<1> HIDE DEF f
<1>4. \A c \in 1 .. 4 : Placed(f[c], {"STREAMING"}, r, 32 - 8 * c, 8)
  <2>1. SUFFICES ASSUME NEW c \in 1 .. 4 PROVE Placed(f[c], {"STREAMING"}, r, 32 - 8 * c, 8)
    OBVIOUS
  <2> DEFINE lo == 32 - 8 * c
  <2>2. AtIn(f[c], "STREAMING", key, 0, c, r, lo, 8)
    BY <1>2
  <2> HIDE DEF lo
  <2>3. Placed(f[c], {"STREAMING"}, r, lo, 8)
    BY <2>2, StreamSafe, PlacedOf
  <2> QED BY <2>3 DEF lo
<1>5. \A x \in fs : Good(x, {"STREAMING"}) /\ x.reg \in {r}
  BY <1>4 DEF Placed
<1>6. ASSUME NEW c \in 1 .. 4, NEW d \in 1 .. 4, f[c] # f[d] PROVE Span(f[d]) \cap Span(f[c]) = {}
  <2>1. c # d
    BY <1>6
  <2>2. f[c].lo = 32 - 8 * c /\ f[c].n = 8 /\ f[d].lo = 32 - 8 * d /\ f[d].n = 8
    BY <1>4 DEF Placed
  <2> QED BY <2>1, <2>2 DEF Span
<1>7. \A x \in fs : \A y \in fs : y.reg = x.reg /\ y # x => Span(y) \cap Span(x) = {}
  BY <1>6
<1> HIDE DEF fs
<1>8. Group(fs, {r}, {"STREAMING"})
  <2> DEFINE rs == {r}
  <2> HIDE DEF rs
  <2> QED BY <1>5, <1>7, PlacedAll DEF rs
<1> QED BY <1>3, <1>8 DEF r

MacRegs == {<<"MAC", 1, 0>>, <<"MAC", 0, 0>>}
MacField(c) == F(<<"STREAMING", "MAC", 0>>, c, <<"MAC", IF c <= 2 THEN 1 ELSE 0, 0>>, 8 * ((6 - c) % 4), 8)
LEMMA MacOK == Group({MacField(c) : c \in 1 .. 6}, MacRegs, {"STREAMING"})
<1> DEFINE f == [c \in 1 .. 6 |-> MacField(c)]
           R == [c \in 1 .. 6 |-> <<"MAC", IF c <= 2 THEN 1 ELSE 0, 0>>]
           L == [c \in 1 .. 6 |-> 8 * ((6 - c) % 4)]
           fs == {f[c] : c \in 1 .. 6}
<1>1. \A c \in 1 .. 6 : Within(L[c], 8) /\ L[c] \in Int
  BY DEF Within
<1>2. \A c \in 1 .. 6 : f[c] = F(<<"STREAMING", "MAC", 0>>, c, R[c], L[c], 8)
  BY DEF MacField
<1>3. \A c, d \in 1 .. 6 : c # d /\ R[c] = R[d] => L[c] + 8 <= L[d] \/ L[d] + 8 <= L[c]
  OBVIOUS
<1>4. \A c \in 1 .. 6 : R[c] \in MacRegs
  BY DEF MacRegs
<1>5. {MacField(c) : c \in 1 .. 6} = fs
  OBVIOUS
<1> HIDE DEF f, R, L
<1>6. \A c \in 1 .. 6 : AtIn(f[c], "STREAMING", "MAC", 0, c, R[c], L[c], 8)
  BY <1>1, <1>2, StreamSlots, Field1
<1>7. \A c \in 1 .. 6 : Placed(f[c], {"STREAMING"}, R[c], L[c], 8)
  BY <1>6, StreamSafe, PlacedOf
<1>8. \A x \in fs : Good(x, {"STREAMING"}) /\ x.reg \in MacRegs
  BY <1>4, <1>7 DEF Placed
<1>9. ASSUME NEW c \in 1 .. 6, NEW d \in 1 .. 6, f[d].reg = f[c].reg, f[d] # f[c] PROVE Span(f[d]) \cap Span(f[c]) = {}
  <2>1. f[c].reg = R[c] /\ f[d].reg = R[d] /\ f[c].lo = L[c] /\ f[d].lo = L[d] /\ f[c].n = 8 /\ f[d].n = 8
    BY <1>7 DEF Placed
  <2>2. L[c] + 8 <= L[d] \/ L[d] + 8 <= L[c]
    BY <1>3, <1>9, <2>1
  <2> QED BY <1>1, <2>1, <2>2 DEF Span
<1>10. \A x \in fs : \A y \in fs : y.reg = x.reg /\ y # x => Span(y) \cap Span(x) = {}
  BY <1>9
<1> HIDE DEF fs
<1>11. Group(fs, MacRegs, {"STREAMING"})
  BY <1>8, <1>10, PlacedAll
<1> QED BY <1>5, <1>11

LEMMA PortsOK ==
    Group({F(<<"STREAMING", "DESTIPPORT", 0>>, 1, <<"PORT", 0>>, 0, 16),
           [F(<<"STREAMING", "LOCALPORT", 0>>, 1, <<"PORT", 0>>, 16, 16) EXCEPT !.zero = 10001]},
          {<<"PORT", 0>>}, {"STREAMING"})
<1> DEFINE r == <<"PORT", 0>>
           e1 == F(<<"STREAMING", "DESTIPPORT", 0>>, 1, r, 0, 16)
           g == F(<<"STREAMING", "LOCALPORT", 0>>, 1, r, 16, 16)
           e2 == [g EXCEPT !.zero = 10001]
<1>1. Within(0, 16) /\ Within(16, 16) /\ Before(0, 16, 16, 16)
  BY DEF Within, Before
<1> HIDE DEF r
<1>2. AtIn(e1, "STREAMING", "DESTIPPORT", 0, 1, r, 0, 16)
  BY <1>1, StreamSlots, Field1
<1>3. AtIn(e2, "STREAMING", "LOCALPORT", 0, 1, r, 16, 16)
  <2> DEFINE t == <<"STREAMING", "LOCALPORT", 0>>
  <2>1. NumAt(g, t, 1, r, 16, 16)
    BY <1>1, FAt DEF Within
  <2> HIDE DEF g
  <2>2. NumAt(e2, t, 1, r, 16, 16)
    BY <2>1, ZeroAt
  <2> HIDE DEF e2
  <2> QED BY <2>2, StreamSlots, NumIn
<1> HIDE DEF e1, e2
<1>4. Group({e1, e2}, {r}, {"STREAMING"})
  BY <1>1, <1>2, <1>3, StreamSafe, TwoBeside
<1> QED BY <1>4 DEF e1, e2, g, r

TcpRegs ==
    {<<"IPADDR", 0>>} \union {<<"SUBNET", 0>>} \union {<<"GATEWAY", 0>>} \union {<<"DESTIP", 0>>}
    \union MacRegs \union {<<"PORT", 0>>}
LEMMA StreamTcpOK == CallOK(StreamTcpCfg(0), TcpRegs, {"STREAMING"})
<1> DEFINE Address(key) == {F(<<"STREAMING", key, 0>>, c, <<key, 0>>, 32 - 8 * c, 8) : c \in 1 .. 4}
           a == Address("IPADDR")
           b == Address("SUBNET")
           c == Address("GATEWAY")
           d == Address("DESTIP")
           m == {MacField(k) : k \in 1 .. 6}
           p == {F(<<"STREAMING", "DESTIPPORT", 0>>, 1, <<"PORT", 0>>, 0, 16),
                 [F(<<"STREAMING", "LOCALPORT", 0>>, 1, <<"PORT", 0>>, 16, 16) EXCEPT !.zero = 10001]}
           fams == {"STREAMING"}
           ra == {<<"IPADDR", 0>>}
           rb == {<<"SUBNET", 0>>}
           rc == {<<"GATEWAY", 0>>}
           rd == {<<"DESTIP", 0>>}
           rp == {<<"PORT", 0>>}
<1>1. StreamTcpCfg(0) = Whole(a \union b \union c \union d \union m \union p)
  BY DEF StreamTcpCfg, MacField
<1>2. Group(a, ra, fams) /\ Group(b, rb, fams) /\ Group(c, rc, fams) /\ Group(d, rd, fams)
  BY StreamSlots, AddressOK
<1>3. Group(m, MacRegs, fams) /\ Group(p, rp, fams)
  BY MacOK, PortsOK
<1>4. /\ ra \cap rb = {} /\ (ra \union rb) \cap rc = {} /\ (ra \union rb \union rc) \cap rd = {}
      /\ (ra \union rb \union rc \union rd) \cap MacRegs = {}
      /\ (ra \union rb \union rc \union rd \union MacRegs) \cap rp = {}
  BY DEF MacRegs
<1>5. TcpRegs = ra \union rb \union rc \union rd \union MacRegs \union rp
  BY DEF TcpRegs
<1> HIDE DEF a, b, c, d, m, p, ra, rb, rc, rd, rp, fams
<1>6. Group(a \union b, ra \union rb, fams)
  BY <1>2, <1>4, GroupJoin
<1>7. Group(a \union b \union c, ra \union rb \union rc, fams)
  BY <1>2, <1>4, <1>6, GroupJoin
<1>8. Group(a \union b \union c \union d, ra \union rb \union rc \union rd, fams)
  BY <1>2, <1>4, <1>7, GroupJoin
<1>9. Group(a \union b \union c \union d \union m, ra \union rb \union rc \union rd \union MacRegs, fams)
  BY <1>3, <1>4, <1>8, GroupJoin
<1>10. Group(a \union b \union c \union d \union m \union p, TcpRegs, fams)
  BY <1>3, <1>4, <1>5, <1>9, GroupJoin
<1> QED BY <1>1, <1>10, WholeOK DEF fams

StreamAll == EbRegs \union TcpRegs
LEMMA StreamOK == CallsOK(StreamCalls, StreamAll, {"VTP", "STREAMING"})
<1>1. CallOK(StreamEbCfg, EbRegs, {"VTP", "STREAMING"}) /\ CallOK(StreamTcpCfg(0), TcpRegs, {"STREAMING"})
  BY StreamEbOK, StreamTcpOK
<1>2. EbRegs \cap TcpRegs = {}
  BY DEF EbRegs, TcpRegs, MacRegs, The
<1>3. Cross(StreamEbCfg, StreamTcpCfg(0))
  BY <1>1, <1>2, Apart
<1>4. CallOK(StreamEbCfg, StreamAll, {"VTP", "STREAMING"}) /\ CallOK(StreamTcpCfg(0), StreamAll, {"VTP", "STREAMING"})
  BY <1>1 DEF CallOK, SlotIn, StreamAll
<1>5. StreamCalls = <<StreamEbCfg, StreamTcpCfg(0)>>
  BY DEF StreamCalls
<1> QED BY <1>3, <1>4, <1>5, TwoCalls

-----------------------------------------------------------------------------
(* All the setters of a firmware *)

DecoderRegs == {The("decoder")}
RoadRegs == {The("roadCtrl")}
WindowRegs == {The("ebLookback"), The("ebWidth")}
CommonRegs == WindowRegs \union DecoderRegs \union RoadRegs

LEMMA IsSeqOne == ASSUME NEW h PROVE IsSeq(<<h>>)
BY DEF IsSeq
LEMMA IsSeqNone == IsSeq(<<>>)
BY DEF IsSeq
LEMMA Appended == ASSUME NEW h, NEW c PROVE <<h>> \o <<c>> = <<h, c>>
<1> DEFINE s == <<h>>
           t == <<c>>
           u == <<h, c>>
<1>1. IsSeq(s) /\ IsSeq(t)
  BY IsSeqOne
<1>2. Len(s) = 1 /\ Len(t) = 1 /\ s[1] = h /\ t[1] = c
  OBVIOUS
<1>3. u = [i \in 1 .. 2 |-> IF i = 1 THEN h ELSE c]
  OBVIOUS
<1> HIDE DEF s, t
<1>4. IsSeq(s \o t) /\ Len(s \o t) = 1 + 1 /\ (s \o t)[1] = h /\ (s \o t)[1 + 1] = c
  <2>1. /\ IsSeq(s \o t) /\ Len(s \o t) = Len(s) + Len(t)
        /\ \A i \in 1 .. Len(s) : (s \o t)[i] = s[i]
        /\ \A i \in 1 .. Len(t) : (s \o t)[Len(s) + i] = t[i]
    BY <1>1, Joined
  <2> DEFINE v == s \o t
  <2> HIDE DEF v
  <2>2. (\A i \in 1 .. Len(s) : v[i] = s[i]) /\ (\A i \in 1 .. Len(t) : v[Len(s) + i] = t[i])
    BY <2>1 DEF v
  <2>3. v[1] = h /\ v[1 + 1] = c
    BY <1>2, <2>2
  <2> QED BY <1>2, <2>1, <2>3 DEF v
<1> DEFINE v == s \o t
<1>5. v = [i \in 1 .. Len(v) |-> v[i]]
  BY <1>4 DEF IsSeq
<1>6. Len(v) = 2 /\ v[1] = h /\ v[2] = c
  BY <1>4
<1> HIDE DEF u, v
<1>7. u = v
  BY <1>3, <1>5, <1>6
<1> QED BY <1>7 DEF u, v, s, t

LEMMA MasksOK == ASSUME NEW f PROVE CallsOK(PayloadMask(f) \o FiberMask(f), DecoderRegs \union RoadRegs, {"VTP"})
<1> DEFINE r == The("decoder")
           p == PayloadMask(f)
           q == FiberMask(f)
           x == F(<<"VTP", "PAYLOAD_EN", 0>>, 1, r, 0, 16)
           e == F(<<"VTP", "FIBER_EN", 0>>, 1, r, 16, 4)
           c == [clear |-> Only(r, 16 .. 31), fields |-> {e}]
<1>1. CallsOK(p, {r}, {"VTP"})
  BY PayloadOK
<1>2. DecoderRegs = {r} /\ RoadRegs = {The("roadCtrl")} /\ r # The("roadCtrl")
  BY DEF DecoderRegs, RoadRegs, The
<1>3. Within(0, 16) /\ Within(16, 4) /\ Within(0, 2) /\ Unit(2) /\ Before(0, 16, 16, 4) /\ Safe("VTP", "PAYLOAD_EN") /\ Safe("VTP", "FIBER_EN")
  BY StreamSafe DEF Within, Unit, Before
<1>4. CASE f = "FTCAL"
  <2>1. q = <<c>> /\ p = <<Whole({x})>>
    BY <1>4 DEF PayloadMask, FiberMask
  <2> HIDE DEF r
  <2>2. AtIn(x, "VTP", "PAYLOAD_EN", 0, 1, r, 0, 16) /\ AtIn(e, "VTP", "FIBER_EN", 0, 1, r, 16, 4)
    BY <1>3, CommonSlots, Field1
  <2> HIDE DEF x, e
  <2>3. Group({e}, {r}, {"VTP"}) /\ Span(e) = 16 .. 19 /\ e.reg = r
    BY <2>2, GroupOne DEF AtIn, At, Span
  <2>4. Beside(e, x) /\ Span(x) = 0 .. 15 /\ x.reg = r
    <3>1. Beside(e, x)
      BY <1>3, <2>2, TwoBeside
    <3> QED BY <2>2, <3>1 DEF AtIn, At, Span
  <2>5. DOMAIN c.clear = {r} /\ c.clear[r] = 16 .. 31 /\ c.fields = {e}
    BY DEF Only
  <2> HIDE DEF c
  <2>6. CallOK(c, {r}, {"VTP"})
    BY <2>3, <2>5 DEF CallOK, Group
  <2>7. Cross(Whole({x}), c)
    <3>1. Whole({x}).fields = {x}
      BY DEF Whole
    <3>2. Spares(c, x)
      BY <2>3, <2>4, <2>5 DEF Spares
    <3> QED BY <3>1, <3>2 DEF Cross
  <2>8. CallOK(Whole({x}), {r}, {"VTP"})
    BY <2>2, WholeOne
  <2>9. CallsOK(<<Whole({x}), c>>, {r}, {"VTP"})
    BY <2>6, <2>7, <2>8, TwoCalls
  <2>10. p \o q = <<Whole({x}), c>>
    <3>1. <<Whole({x})>> \o <<c>> = <<Whole({x}), c>>
      BY Appended
    <3>2. p = <<Whole({x})>> /\ q = <<c>>
      BY <2>1
    <3> HIDE DEF p, q
    <3> QED BY <3>1, <3>2
  <2>11. CallsOK(p \o q, {r}, {"VTP"})
    BY <2>9, <2>10
  <2> HIDE DEF p, q
  <2>12. {r} \subseteq DecoderRegs \union RoadRegs
    BY <1>2
  <2>13. CallsOK(p \o q, DecoderRegs \union RoadRegs, {"VTP"})
    BY <2>11, <2>12, Weaken
  <2> QED BY <2>13 DEF p, q
<1>5. CASE f # "FTCAL"
  <2>1. CallsOK(q, RoadRegs, {"VTP"})
    <3>1. CASE f = "DC"
      <4> DEFINE t == The("roadCtrl")
                 d == Cut(Per(F(<<"VTP", "FIBER_EN", 0>>, 1, t, 0, 2), 2))
      <4>1. q = <<Whole({d})>>
        BY <3>1 DEF FiberMask
      <4> HIDE DEF t, q
      <4>2. AtIn(d, "VTP", "FIBER_EN", 0, 1, t, 0, 2)
        BY <1>3, CommonSlots, FieldCutPer
      <4> HIDE DEF d
      <4>3. CallOK(Whole({d}), {t}, {"VTP"})
        BY <4>2, WholeOne
      <4>4. CallsOK(<<Whole({d})>>, {t}, {"VTP"})
        BY <4>3, OneCall
      <4> QED BY <1>2, <4>1, <4>4 DEF t
    <3>2. CASE f # "DC"
      <4>1. q = <<>>
        BY <1>5, <3>2 DEF FiberMask
      <4> QED BY <4>1, NoCall
    <3> QED BY <3>1, <3>2
  <2>2. DecoderRegs \cap RoadRegs = {}
    BY <1>2
  <2> HIDE DEF p, q
  <2>3. CallsOK(p \o q, DecoderRegs \union RoadRegs, {"VTP"} \union {"VTP"})
    BY <1>1, <1>2, <2>1, <2>2, Join
  <2>4. {"VTP"} \union {"VTP"} = {"VTP"}
    OBVIOUS
  <2> QED BY <2>3, <2>4 DEF p, q
<1> QED BY <1>4, <1>5

LEMMA CommonOK == ASSUME NEW f PROVE CallsOK(Common(f), CommonRegs, {"VTP"})
<1> DEFINE w == <<Window(f)>>
           p == PayloadMask(f)
           q == FiberMask(f)
<1>1. CallsOK(w, WindowRegs, {"VTP"})
  BY WindowOK, OneCall DEF WindowRegs
<1>2. CallsOK(p \o q, DecoderRegs \union RoadRegs, {"VTP"})
  BY MasksOK
<1>3. WindowRegs \cap (DecoderRegs \union RoadRegs) = {}
  BY DEF WindowRegs, DecoderRegs, RoadRegs, The
<1>4. Common(f) = w \o (p \o q)
  <2>1. IsSeq(p) /\ IsSeq(q)
    <3>1. CallsOK(p, {The("decoder")}, {"VTP"})
      BY PayloadOK
    <3>2. q = <<>> \/ \E h : q = <<h>>
      BY DEF FiberMask
    <3> HIDE DEF q
    <3>3. IsSeq(q)
      BY <3>2, IsSeqOne, IsSeqNone
    <3> QED BY <3>1, <3>3 DEF CallsOK
  <2>2. Common(f) = w \o p \o q
    BY DEF Common
  <2> DEFINE S == {w[1]} \union {p[i] : i \in 1 .. Len(p)} \union {q[i] : i \in 1 .. Len(q)}
  <2>3. w \in Seq(S)
    OBVIOUS
  <2>4. (\A i \in 1 .. Len(p) : p[i] \in S) /\ (\A i \in 1 .. Len(q) : q[i] \in S)
    OBVIOUS
  <2> HIDE DEF w, p, q, S
  <2>5. p \in Seq(S) /\ q \in Seq(S)
    BY <2>1, <2>4, SeqIn
  <2>6. w \o p \o q = w \o (p \o q)
    BY <2>3, <2>5
  <2> QED BY <2>2, <2>6
<1> HIDE DEF w, p, q
<1>5. CallsOK(w \o (p \o q), WindowRegs \union (DecoderRegs \union RoadRegs), {"VTP"} \union {"VTP"})
  BY <1>1, <1>2, <1>3, Join
<1>6. {"VTP"} \union {"VTP"} = {"VTP"} /\ WindowRegs \union (DecoderRegs \union RoadRegs) = CommonRegs
  BY DEF CommonRegs
<1> QED BY <1>4, <1>5, <1>6

\* The setters of firmware f after those that all of them have.
Own(f) ==
    CASE f = "EC" -> EcCalls [] f = "PC" -> PcCalls [] f = "HTCC" -> HtccCalls
      [] f \in {"FTOF", "CND"} -> CounterCalls(f) [] f = "PCS" -> PcsCalls
      [] f = "ECS" -> EcsCalls [] f = "GT" -> GtCalls [] f = "DC" -> DcCalls
      [] f = "HCAL" -> HcalCluster [] f = "FTCAL" -> FtcalCalls
      [] f = "FTHODO" -> <<FthodoEmin>> [] f = "HPS" -> HpsCalls
      [] f = "COMPTON" -> ComptonCalls [] f = "FADCSTREAM" -> StreamCalls
      [] OTHER -> <<>>
\* They share no register with those, and their settings are of f's families.
OwnOK(f, rs) == CallsOK(Own(f), rs, Families(f)) /\ rs \cap CommonRegs = {}
LEMMA OwnFrom ==
    ASSUME NEW f, NEW q, Own(f) = q, NEW rs, NEW fams, CallsOK(q, rs, fams), fams \subseteq Families(f),
           rs \cap CommonRegs = {}
    PROVE  OwnOK(f, rs)
BY Weaken DEF OwnOK

LEMMA OwnEC == OwnOK("EC", EcAll)
<1>1. Own("EC") = EcCalls
  BY DEF Own
<1>2. CallsOK(EcCalls, EcAll, {"EC"})
  BY EcOK
<1>3. {"EC"} \subseteq Families("EC")
  BY DEF Families
<1>4. EcAll \cap CommonRegs = {}
  BY DEF EcAll, SumRegs, RowsOf, CommonRegs, WindowRegs, DecoderRegs, RoadRegs, The
<1> QED BY <1>1, <1>2, <1>3, <1>4, OwnFrom
LEMMA OwnPC == OwnOK("PC", PcAll)
<1>1. Own("PC") = PcCalls
  BY DEF Own
<1>2. CallsOK(PcCalls, PcAll, {"PC"})
  BY PcCallsOK
<1>3. {"PC"} \subseteq Families("PC")
  BY DEF Families
<1>4. PcAll \cap CommonRegs = {}
  BY DEF PcAll, SumRegs, PcCosmicRegs, CommonRegs, WindowRegs, DecoderRegs, RoadRegs, The
<1> QED BY <1>1, <1>2, <1>3, <1>4, OwnFrom
LEMMA OwnHTCC == OwnOK("HTCC", HtccRegs)
<1>1. Own("HTCC") = HtccCalls
  BY DEF Own
<1>2. CallsOK(HtccCalls, HtccRegs, {"HTCC"})
  BY HtccOK
<1>3. {"HTCC"} \subseteq Families("HTCC")
  BY DEF Families
<1>4. HtccRegs \cap CommonRegs = {}
  BY DEF HtccRegs, CounterRegs, CommonRegs, WindowRegs, DecoderRegs, RoadRegs, The
<1> QED BY <1>1, <1>2, <1>3, <1>4, OwnFrom
LEMMA OwnFTOF == OwnOK("FTOF", CounterRegs)
<1>1. Own("FTOF") = CounterCalls("FTOF")
  BY DEF Own
<1>2. CallsOK(CounterCalls("FTOF"), CounterRegs, {"FTOF"})
  BY CountersOK
<1>3. {"FTOF"} \subseteq Families("FTOF")
  BY DEF Families
<1>4. CounterRegs \cap CommonRegs = {}
  BY DEF CounterRegs, CommonRegs, WindowRegs, DecoderRegs, RoadRegs, The
<1> QED BY <1>1, <1>2, <1>3, <1>4, OwnFrom
LEMMA OwnCND == OwnOK("CND", CounterRegs)
<1>1. Own("CND") = CounterCalls("CND")
  BY DEF Own
<1>2. CallsOK(CounterCalls("CND"), CounterRegs, {"CND"})
  BY CountersOK
<1>3. {"CND"} \subseteq Families("CND")
  BY DEF Families
<1>4. CounterRegs \cap CommonRegs = {}
  BY DEF CounterRegs, CommonRegs, WindowRegs, DecoderRegs, RoadRegs, The
<1> QED BY <1>1, <1>2, <1>3, <1>4, OwnFrom
LEMMA OwnPCS == OwnOK("PCS", PcsAll)
<1>1. Own("PCS") = PcsCalls
  BY DEF Own
<1>2. CallsOK(PcsCalls, PcsAll, {"PCS"})
  BY PcsOK
<1>3. {"PCS"} \subseteq Families("PCS")
  BY DEF Families
<1>4. PcsAll \cap CommonRegs = {}
  BY DEF PcsAll, CounterRegs, PcsStripRegs, PcuRegs, PcCosmicRegs, CommonRegs, WindowRegs, DecoderRegs, RoadRegs, The
<1> QED BY <1>1, <1>2, <1>3, <1>4, OwnFrom
LEMMA OwnECS == OwnOK("ECS", EcsAll)
<1>1. Own("ECS") = EcsCalls
  BY DEF Own
<1>2. CallsOK(EcsCalls, EcsAll, {"ECS"})
  BY EcsOK
<1>3. {"ECS"} \subseteq Families("ECS")
  BY DEF Families
<1>4. EcsAll \cap CommonRegs = {}
  BY DEF EcsAll, SumRegs, CounterRegs, EcsStripRegs, RowsOf, CommonRegs, WindowRegs, DecoderRegs, RoadRegs, The
<1> QED BY <1>1, <1>2, <1>3, <1>4, OwnFrom
LEMMA OwnGT == OwnOK("GT", GtAll)
<1>1. Own("GT") = GtCalls
  BY DEF Own
<1>2. CallsOK(GtCalls, GtAll, {"GT"})
  BY GtOK
<1>3. {"GT"} \subseteq Families("GT")
  BY DEF Families
<1>4. GtAll \cap CommonRegs = {}
  BY DEF GtAll, TrigRegs, RowsOf, CommonRegs, WindowRegs, DecoderRegs, RoadRegs, The
<1> QED BY <1>1, <1>2, <1>3, <1>4, OwnFrom
LEMMA OwnDC == OwnOK("DC", DcRegs)
<1>1. Own("DC") = DcCalls
  BY DEF Own
<1>2. CallsOK(DcCalls, DcRegs, {"DC"})
  BY DcOK
<1>3. {"DC"} \subseteq Families("DC")
  BY DEF Families
<1>4. DcRegs \cap CommonRegs = {}
  BY DEF DcRegs, CommonRegs, WindowRegs, DecoderRegs, RoadRegs, The
<1> QED BY <1>1, <1>2, <1>3, <1>4, OwnFrom
LEMMA OwnHCAL == OwnOK("HCAL", HcalRegs)
<1>1. Own("HCAL") = HcalCluster
  BY DEF Own
<1>2. CallsOK(HcalCluster, HcalRegs, {"HCAL"})
  BY HcalOK
<1>3. {"HCAL"} \subseteq Families("HCAL")
  BY DEF Families
<1>4. HcalRegs \cap CommonRegs = {}
  BY DEF HcalRegs, CommonRegs, WindowRegs, DecoderRegs, RoadRegs, The
<1> QED BY <1>1, <1>2, <1>3, <1>4, OwnFrom
LEMMA OwnFTCAL == OwnOK("FTCAL", FtcalRegs)
<1>1. Own("FTCAL") = FtcalCalls
  BY DEF Own
<1>2. CallsOK(FtcalCalls, FtcalRegs, {"FTCAL"})
  BY FtcalOK
<1>3. {"FTCAL"} \subseteq Families("FTCAL")
  BY DEF Families
<1>4. FtcalRegs \cap CommonRegs = {}
  BY DEF FtcalRegs, CommonRegs, WindowRegs, DecoderRegs, RoadRegs, The
<1> QED BY <1>1, <1>2, <1>3, <1>4, OwnFrom
LEMMA OwnFTHODO == OwnOK("FTHODO", {The("fthodoCtrl")})
<1>1. Own("FTHODO") = <<FthodoEmin>>
  BY DEF Own
<1>2. CallsOK(<<FthodoEmin>>, {The("fthodoCtrl")}, {"FTHODO"})
  BY FthodoOK, OneCall
<1>3. {"FTHODO"} \subseteq Families("FTHODO")
  BY DEF Families
<1>4. {The("fthodoCtrl")} \cap CommonRegs = {}
  BY DEF CommonRegs, WindowRegs, DecoderRegs, RoadRegs, The
<1> QED BY <1>1, <1>2, <1>3, <1>4, OwnFrom
LEMMA OwnHPS == OwnOK("HPS", HpsAll)
<1>1. Own("HPS") = HpsCalls
  BY DEF Own
<1>2. CallsOK(HpsCalls, HpsAll, HpsFamilies)
  BY HpsOK
<1>3. HpsFamilies \subseteq Families("HPS")
  BY DEF Families
<1>4. HpsAll \cap CommonRegs = {}
  <2>1. \A x \in CommonRegs : \E name \in {"ebLookback", "ebWidth", "decoder", "roadCtrl"} : x = The(name)
    BY DEF CommonRegs, WindowRegs, DecoderRegs, RoadRegs
  <2>2. \A name \in {"ebLookback", "ebWidth", "decoder", "roadCtrl"} : The(name) \notin {The("hpsCluster"), The("hpsHodo")}
    BY DEF The
  <2> QED BY <2>1, <2>2, RowRegsWords DEF HpsAll
<1> QED BY <1>1, <1>2, <1>3, <1>4, OwnFrom
LEMMA OwnCOMPTON == OwnOK("COMPTON", ComptonAll)
<1>1. Own("COMPTON") = ComptonCalls
  BY DEF Own
<1>2. CallsOK(ComptonCalls, ComptonAll, {"COMPTON"})
  BY ComptonOK
<1>3. {"COMPTON"} \subseteq Families("COMPTON")
  BY DEF Families
<1>4. ComptonAll \cap CommonRegs = {}
  BY DEF ComptonAll, LoopRegs, TrigRegs, RowsOf, CommonRegs, WindowRegs, DecoderRegs, RoadRegs, The
<1> QED BY <1>1, <1>2, <1>3, <1>4, OwnFrom
LEMMA OwnFADCSTREAM == OwnOK("FADCSTREAM", StreamAll)
<1>1. Own("FADCSTREAM") = StreamCalls
  BY DEF Own
<1>2. CallsOK(StreamCalls, StreamAll, {"VTP", "STREAMING"})
  BY StreamOK
<1>3. {"VTP", "STREAMING"} \subseteq Families("FADCSTREAM")
  BY DEF Families
<1>4. StreamAll \cap CommonRegs = {}
  BY DEF StreamAll, EbRegs, TcpRegs, MacRegs, CommonRegs, WindowRegs, DecoderRegs, RoadRegs, The
<1> QED BY <1>1, <1>2, <1>3, <1>4, OwnFrom

LEMMA OwnAny == ASSUME NEW f \in Firmwares PROVE \E rs : OwnOK(f, rs)
<1>1. CASE f = "VCODAROC"
  <2>1. Own(f) = <<>>
    BY <1>1 DEF Own
  <2>2. CallsOK(<<>>, {}, {})
    BY NoCall
  <2>3. OwnOK(f, {})
    BY <2>1, <2>2, OwnFrom
  <2> QED BY <2>3
<1>2. CASE f # "VCODAROC"
  <2>1. f \in {"EC", "PC", "HTCC", "FTOF", "CND", "PCS", "ECS", "GT", "DC", "HCAL", "FTCAL", "FTHODO", "HPS", "COMPTON", "FADCSTREAM"}
    BY <1>2, FirmwaresAssumption
  <2> QED BY <2>1, OwnEC, OwnPC, OwnHTCC, OwnFTOF, OwnCND, OwnPCS, OwnECS, OwnGT, OwnDC, OwnHCAL, OwnFTCAL, OwnFTHODO, OwnHPS, OwnCOMPTON, OwnFADCSTREAM
<1> QED BY <1>1, <1>2

\* No setter of a firmware undoes what another put into a register.
LEMMA CallsAreOK == ASSUME NEW f \in Firmwares PROVE CallsOK(Calls[f], Regs[f], Families(f))
<1>1. PICK rs : OwnOK(f, rs)
  BY OwnAny
<1>2. Calls[f] = Common(f) \o Own(f)
  BY DEF Calls, Own
<1>3. CallsOK(Common(f), CommonRegs, {"VTP"}) /\ CallsOK(Own(f), rs, Families(f)) /\ CommonRegs \cap rs = {}
  BY <1>1, CommonOK DEF OwnOK
<1>4. CallsOK(Common(f) \o Own(f), CommonRegs \union rs, {"VTP"} \union Families(f))
  BY <1>3, Join
<1>5. {"VTP"} \union Families(f) = Families(f)
  BY DEF Families
<1>6. CallsOK(Calls[f], CommonRegs \union rs, Families(f))
  BY <1>2, <1>4, <1>5
<1> DEFINE q == Calls[f]
           ss == CommonRegs \union rs
<1>7. \A i \in 1 .. Len(q) : DOMAIN q[i].clear \subseteq Regs[f]
  <2>1. DOMAIN q = 1 .. Len(q)
    <3>1. IsSeq(q)
      BY <1>6 DEF CallsOK
    <3> HIDE DEF q
    <3> QED BY <3>1 DEF IsSeq
  <2>2. RegsIn(q) \subseteq Regs[f]
    BY DEF Regs
  <2> HIDE DEF q
  <2> QED BY <2>1, <2>2 DEF RegsIn
<1> HIDE DEF q, ss
<1>8. CallsOK(q, ss, Families(f))
  BY <1>6 DEF q, ss
<1>9. CallsOK(q, Regs[f], Families(f))
  BY <1>7, <1>8 DEF CallsOK, CallOK
<1> QED BY <1>9 DEF q

-----------------------------------------------------------------------------
(* A keyword has one entry in the table of its family *)

Named(k) == k = <<k[1], k[2], k[3]>> /\ k[2] \in Nat /\ k[3] \in Nat
OnceEach(S) == (\A k \in S : Named(k)) /\ \A k, m \in S : k[1] = m[1] => k = m
LEMMA OnceCommonKeys == OnceEach(CommonKeys)
BY RowsAssumption DEF OnceEach, Named, CommonKeys
LEMMA OnceEcKeys == OnceEach(EcKeys)
BY RowsAssumption DEF OnceEach, Named, EcKeys
LEMMA OncePcKeys == OnceEach(PcKeys)
BY RowsAssumption DEF OnceEach, Named, PcKeys, CosmicKeys
LEMMA OnceHtccKeys == OnceEach(HtccKeys)
BY RowsAssumption DEF OnceEach, Named, HtccKeys, CounterKeys
LEMMA OnceCounterKeys == OnceEach(CounterKeys)
BY RowsAssumption DEF OnceEach, Named, CounterKeys
LEMMA OncePcsKeys == OnceEach(PcsKeys)
BY RowsAssumption DEF OnceEach, Named, PcsKeys, StripKeys, CounterKeys, CosmicKeys
LEMMA OnceEcsKeys == OnceEach(EcsKeys)
BY RowsAssumption DEF OnceEach, Named, EcsKeys, StripKeys, CounterKeys
LEMMA OnceGtKeys == OnceEach(GtKeys)
BY RowsAssumption DEF OnceEach, Named, GtKeys, GtRowKeys
LEMMA OnceDcKeys == OnceEach(DcKeys)
BY RowsAssumption DEF OnceEach, Named, DcKeys
LEMMA OnceHcalKeys == OnceEach(HcalKeys)
BY RowsAssumption DEF OnceEach, Named, HcalKeys
LEMMA OnceFtcalKeys == OnceEach(FtcalKeys)
BY RowsAssumption DEF OnceEach, Named, FtcalKeys
LEMMA OnceFthodoKeys == OnceEach(FthodoKeys)
BY RowsAssumption DEF OnceEach, Named, FthodoKeys
LEMMA OnceHpsKeys == OnceEach(HpsKeys)
BY RowsAssumption DEF OnceEach, Named, HpsKeys
LEMMA OnceCalibKeys == OnceEach(CalibKeys)
BY RowsAssumption DEF OnceEach, Named, CalibKeys
LEMMA OnceSingleKeys == OnceEach(SingleKeys)
BY RowsAssumption DEF OnceEach, Named, SingleKeys
LEMMA OncePairKeys == OnceEach(PairKeys)
BY RowsAssumption DEF OnceEach, Named, PairKeys
LEMMA OnceMultKeys == OnceEach(MultKeys)
BY RowsAssumption DEF OnceEach, Named, MultKeys
LEMMA OnceFeeKeys == OnceEach(FeeKeys)
BY RowsAssumption DEF OnceEach, Named, FeeKeys
LEMMA OnceComptonKeys == OnceEach(ComptonKeys)
BY RowsAssumption DEF OnceEach, Named, ComptonKeys
LEMMA OnceStreamingKeys == OnceEach(StreamingKeys)
BY RowsAssumption DEF OnceEach, Named, StreamingKeys, StreamRowKeys
LEMMA OnceRocKeys == OnceEach(RocKeys)
BY RowsAssumption DEF OnceEach, Named, RocKeys
LEMMA Once == ASSUME NEW fam \in DOMAIN Keys PROVE OnceEach(Keys[fam])
BY KeysOf, OnceCommonKeys, OnceEcKeys, OncePcKeys, OnceHtccKeys, OnceCounterKeys, OncePcsKeys, OnceEcsKeys, OnceGtKeys, OnceDcKeys, OnceHcalKeys, OnceFtcalKeys, OnceFthodoKeys, OnceHpsKeys, OnceCalibKeys, OnceSingleKeys, OncePairKeys, OnceMultKeys, OnceFeeKeys, OnceComptonKeys, OnceStreamingKeys, OnceRocKeys

LEMMA EntryIs ==
    ASSUME NEW fam \in DOMAIN Keys, NEW k \in Keys[fam], NEW i
    PROVE  /\ Entry(KeyOf(<<fam, k[1], i>>)) = k
           /\ Columns(<<fam, k[1], i>>) = k[3] /\ k[2] \in Nat /\ k[3] \in Nat
<1> DEFINE s == <<fam, k[1], i>>
<1>1. KeyOf(s)[1] = fam /\ KeyOf(s)[2] = k[1]
  BY DEF KeyOf
<1>2. OnceEach(Keys[fam])
  BY Once
<1> HIDE DEF s
<1>3. Entry(KeyOf(s)) = CHOOSE m \in Keys[fam] : m[1] = k[1]
  BY <1>1, Zenon DEF Entry
<1>4. Entry(KeyOf(s)) = k
  BY <1>2, <1>3 DEF OnceEach
<1>5. Columns(s) = k[3]
  BY <1>4 DEF Columns
<1> QED BY <1>2, <1>4, <1>5 DEF OnceEach, Named, s

\* A setting of the families of a firmware is in its vtpConf.
LEMMA SlotTyped ==
    ASSUME NEW f \in Firmwares, NEW x, SlotIn(x, Families(f))
    PROVE  x.slot \in Slots[f] /\ x.col \in 1 .. Columns(x.slot)
<1>1. PICK fam \in Families(f) : \E k \in Keys[fam] : \E i \in 0 .. k[2] - 1 :
        fam \in DOMAIN Keys /\ x.slot = <<fam, k[1], i>> /\ x.col \in 1 .. k[3]
  BY DEF SlotIn
<1>2. PICK k \in Keys[fam] : \E i \in 0 .. k[2] - 1 :
        fam \in DOMAIN Keys /\ x.slot = <<fam, k[1], i>> /\ x.col \in 1 .. k[3]
  BY <1>1
<1>3. PICK i \in 0 .. k[2] - 1 : fam \in DOMAIN Keys /\ x.slot = <<fam, k[1], i>> /\ x.col \in 1 .. k[3]
  BY <1>2
<1>4. Columns(x.slot) = k[3]
  BY <1>3, EntryIs
<1>5. x.slot \in OfFamily(fam)
  BY <1>3 DEF OfFamily
<1>6. x.slot \in Slots[f]
  BY <1>5 DEF Slots
<1> QED BY <1>3, <1>4, <1>6

LEMMA SlotParts ==
    ASSUME NEW f \in Firmwares, NEW s \in Slots[f]
    PROVE  /\ s = <<s[1], s[2], s[3]>> /\ s[1] \in Families(f) /\ s[3] \in 0 .. Rows(KeyOf(s)) - 1
           /\ Columns(s) \in Nat /\ \E k \in Keys[s[1]] : k[1] = s[2] /\ k[2] = Rows(KeyOf(s))
<1>1. PICK fam \in DOMAIN Keys : \E k \in Keys[fam] : \E i \in 0 .. k[2] - 1 :
                fam \in Families(f) /\ s = <<fam, k[1], i>>
  BY FamilyTypes
<1>2. PICK k \in Keys[fam] : \E i \in 0 .. k[2] - 1 : fam \in Families(f) /\ s = <<fam, k[1], i>>
  BY <1>1
<1>3. PICK i \in 0 .. k[2] - 1 : fam \in Families(f) /\ s = <<fam, k[1], i>>
  BY <1>2
<1>4. Entry(KeyOf(s)) = k /\ Columns(s) = k[3] /\ k[3] \in Nat
  BY <1>3, EntryIs
<1>5. Rows(KeyOf(s)) = k[2]
  BY <1>4 DEF Rows
<1> QED BY <1>3, <1>4, <1>5

-----------------------------------------------------------------------------
(* The types of vtpConf *)

Ints(q, n) == DOMAIN q = 1 .. n /\ \A c \in 1 .. n : q[c] \in Int
ConfType(f, conf) == DOMAIN conf = Slots[f] /\ \A s \in Slots[f] : Ints(conf[s], Columns(s))

LEMMA FirstInts == ASSUME NEW s, NEW q \in Seq(Int) PROVE Ints(First(s, q), Columns(s))
BY DEF First, Ints

LEMMA SomeSeqs ==
    ASSUME NEW v \in Int, NEW w \in Int PROVE <<>> \in Seq(Int) /\ <<v>> \in Seq(Int) /\ <<v, w>> \in Seq(Int)
OBVIOUS

Short(q) == q = <<>> \/ (\E v \in Int : q = <<v>>) \/ \E v, w \in Int : q = <<v, w>>
LEMMA ShortSeq == ASSUME NEW q, Short(q) PROVE q \in Seq(Int)
<1>1. CASE q = <<>>
  BY <1>1
<1>2. CASE \E v \in Int : q = <<v>>
  BY <1>2
<1>3. CASE \E v, w \in Int : q = <<v, w>>
  BY <1>3
<1> QED BY <1>1, <1>2, <1>3 DEF Short

LEMMA HpsDefaultsSeq == ASSUME NEW key PROVE HpsDefaults(key) \in Seq(Int)
<1> DEFINE q == HpsDefaults(key)
<1>1. q = <<>> \/ q = <<1>> \/ q = <<8191>> \/ q = <<-31>> \/ q = <<16383>> \/ q = <<-31, -31>>
  BY DEF HpsDefaults
<1> HIDE DEF q
<1>2. Short(q)
  BY <1>1 DEF Short
<1> QED BY <1>2, ShortSeq DEF q

LEMMA DefaultInts == ASSUME NEW s PROVE Ints(Default(s), Columns(s))
<1>1. \A k \in DOMAIN StreamingDefaults : StreamingDefaults[k] \in Int
  BY DEF StreamingDefaults
<1>2. \E q \in Seq(Int) : Default(s) = First(s, q)
  <2>1. CASE s[1] = "VTP" /\ s[2] \in DOMAIN StreamingDefaults
    <3>1. Default(s) = First(s, <<StreamingDefaults[s[2]]>>)
      BY <2>1 DEF Default, KeyOf
    <3>2. <<StreamingDefaults[s[2]]>> \in Seq(Int)
      BY <1>1, <2>1
    <3> QED BY <3>1, <3>2
  <2>2. CASE ~(s[1] = "VTP" /\ s[2] \in DOMAIN StreamingDefaults)
    <3>1. \/ \E v \in Int : Default(s) = First(s, <<v>>)
          \/ Default(s) = First(s, HpsDefaults(KeyOf(s)))
      BY <2>2 DEF Default
    <3> QED BY <3>1, SomeSeqs, HpsDefaultsSeq
  <2> QED BY <2>1, <2>2
<1> QED BY <1>2, FirstInts

LEMMA InitGlobalsType ==
    ASSUME NEW f \in Firmwares, NEW conf, ConfType(f, conf)
    PROVE  ConfType(f, InitGlobals(f, conf))
BY DefaultInts DEF ConfType, InitGlobals, Defaults

LEMMA ZerosType == ASSUME NEW f \in Firmwares PROVE ConfType(f, [s \in Slots[f] |-> Zeros(s)])
<1>1. \A s : Ints(Zeros(s), Columns(s))
  <2>1. <<>> \in Seq(Int)
    OBVIOUS
  <2> QED BY <2>1, FirstInts DEF Zeros
<1> QED BY <1>1 DEF ConfType

-----------------------------------------------------------------------------
(* The types of vtpReadConfigFile *)

ParseOK(f, p) ==
    /\ DOMAIN p = ParseFields /\ p.fw = f /\ ConfType(f, p.conf)
    /\ p.active \in BOOLEAN /\ p.trgBit \in Int /\ p.streamEb \in 0 .. 1
    /\ p.res \in {0, -1, -2, -4, -6}

LEMMA GivenInt == ASSUME NEW l, l.vals \in Seq(Int), NEW i \in Nat \ {0} PROVE Given(l, i) \in Int
BY DEF Given

LEMMA SelectedInt ==
    ASSUME NEW f, NEW p, ParseOK(f, p), NEW l, l.vals \in Seq(Int)
    PROVE  Selected(p, l) \in Int
BY DEF Selected, ParseOK

LEMMA ErrorIn == ASSUME NEW p, NEW l PROVE Error(p, l) \in {0, -1, -4, -6}
BY DEF Error

LEMMA StoredInts ==
    ASSUME NEW l, l.vals \in Seq(Int), NEW old, NEW n \in Nat, Ints(old, n)
    PROVE  Ints(Stored(l, old), n)
<1>1. \A key : \A v \in Int : Converted(key, v) \in Int
  BY DEF Converted
<1>2. CASE l.key \in Ranged /\ Given(l, 1) \notin Allowed(l.key)
  BY <1>2 DEF Stored
<1>3. CASE ~(l.key \in Ranged /\ Given(l, 1) \notin Allowed(l.key))
  <2>1. Stored(l, old) = [c \in DOMAIN old |->
            IF c <= Len(l.vals) THEN Converted(l.key, l.vals[c])
            ELSE IF Keeps(l.key, c) THEN old[c] ELSE Converted(l.key, 0)]
    BY <1>3 DEF Stored
  <2>2. ASSUME NEW c \in 1 .. n PROVE Stored(l, old)[c] \in Int
    BY <1>1, <2>1 DEF Ints
  <2> QED BY <2>1, <2>2 DEF Ints
<1> QED BY <1>2, <1>3

LEMMA TrgBitSeq ==
    ASSUME NEW l, l.vals \in Seq(Int), NEW key
    PROVE  TrgBit(l, key) \in Seq(Int) /\ TrgBit2(l, key) \in Seq(Int)
<1>1. \A i \in Nat \ {0} : Given(l, i) \in Int
  BY GivenInt
<1>2. Short(TrgBit(l, key))
  <2> DEFINE V(i) == Given(l, i)
             q == TrgBit(l, key)
  <2>1. V(1) \in Int /\ V(2) \in Int /\ V(3) \in Int /\ V(4) \in Int /\ V(5) \in Int /\ V(6) \in Int /\ V(7) \in Int
    <3>1. \A i \in 1 .. 7 : V(i) \in Int
      BY <1>1
    <3> HIDE DEF V
    <3> QED BY <3>1
  <2>2. q \in {<<V(1), 0>>, <<V(2), 0>>, <<V(3), 0>>, <<V(4)>>, <<V(5)>>, <<V(6)>>, <<V(7)>>, <<>>}
    BY DEF TrgBit
  <2> HIDE DEF V, q
  <2>3. Short(q)
    BY <2>1, <2>2 DEF Short
  <2> QED BY <2>3 DEF q
<1>3. Short(TrgBit2(l, key))
  <2> DEFINE V(i) == Given(l, i)
             q == TrgBit2(l, key)
  <2>1. V(1) \in Int /\ V(2) \in Int /\ V(3) \in Int /\ V(4) \in Int /\ V(5) \in Int /\ V(6) \in Int /\ V(7) \in Int
        /\ V(8) \in Int /\ V(9) \in Int /\ V(10) \in Int
    <3>1. \A i \in 1 .. 10 : V(i) \in Int
      BY <1>1
    <3> HIDE DEF V
    <3> QED BY <3>1
  <2>2. q \in {<<V(1), V(4)>>, <<V(2), V(5)>>, <<V(3), V(6)>>, <<V(7)>>, <<V(8)>>, <<V(9)>>, <<V(10)>>, <<>>}
    BY DEF TrgBit2
  <2> HIDE DEF V, q
  <2>3. Short(q)
    BY <2>1, <2>2 DEF Short
  <2> QED BY <2>3 DEF q
<1> QED BY <1>2, <1>3, ShortSeq

LEMMA SlotColumns == ASSUME NEW f \in Firmwares, NEW s \in Slots[f] PROVE Columns(s) \in Nat
BY SlotParts

LEMMA TrgBitLineType ==
    ASSUME NEW f \in Firmwares, NEW conf, ConfType(f, conf), NEW l, l.vals \in Seq(Int)
    PROVE  ConfType(f, TrgBitLine(l, conf))
<1>1. DOMAIN TrgBitLine(l, conf) = Slots[f]
  BY DEF TrgBitLine, ConfType
<1>2. ASSUME NEW s \in Slots[f] PROVE Ints(TrgBitLine(l, conf)[s], Columns(s))
  <2>1. Ints(conf[s], Columns(s)) /\ Columns(s) \in Nat /\ s \in DOMAIN conf
    BY SlotColumns DEF ConfType
  <2>2. CASE s[1] = "GT" /\ s[3] = l.row
    <3>1. PICK q \in Seq(Int) :
            TrgBitLine(l, conf)[s] = [c \in DOMAIN conf[s] |-> IF c <= Len(q) THEN q[c] ELSE conf[s][c]]
      <4>1. CASE l.key[2] = "TRGBIT2"
        <5>1. TrgBitLine(l, conf)[s] = [c \in DOMAIN conf[s] |->
                IF c <= Len(TrgBit2(l, s[2])) THEN TrgBit2(l, s[2])[c] ELSE conf[s][c]]
          BY <2>1, <2>2, <4>1 DEF TrgBitLine
        <5>2. TrgBit2(l, s[2]) \in Seq(Int)
          BY TrgBitSeq
        <5> QED BY <5>1, <5>2
      <4>2. CASE l.key[2] # "TRGBIT2"
        <5>1. TrgBitLine(l, conf)[s] = [c \in DOMAIN conf[s] |->
                IF c <= Len(TrgBit(l, s[2])) THEN TrgBit(l, s[2])[c] ELSE conf[s][c]]
          BY <2>1, <2>2, <4>2 DEF TrgBitLine
        <5>2. TrgBit(l, s[2]) \in Seq(Int)
          BY TrgBitSeq
        <5> QED BY <5>1, <5>2
      <4> QED BY <4>1, <4>2
    <3> DEFINE n == Columns(s)
               old == conf[s]
    <3> HIDE DEF n, old
    <3>2. Ints([c \in DOMAIN old |-> IF c <= Len(q) THEN q[c] ELSE old[c]], n)
      BY <2>1 DEF Ints, n, old
    <3> QED BY <3>1, <3>2 DEF n, old
  <2>3. CASE ~(s[1] = "GT" /\ s[3] = l.row)
    <3>1. TrgBitLine(l, conf)[s] = conf[s]
      BY <2>1, <2>3 DEF TrgBitLine
    <3> QED BY <2>1, <3>1
  <2> QED BY <2>2, <2>3
<1> QED BY <1>1, <1>2 DEF ConfType

LEMMA SettingType ==
    ASSUME NEW f \in Firmwares, NEW p, ParseOK(f, p), NEW l, LineOK(f, l)
    PROVE  ParseOK(f, Setting(p, l))
<1>0. p.fw = f
  BY DEF ParseOK
<1> USE SelectNotKnown DEF TrgSelect, EbSelect, TrgLines
<1>1. CASE l.key = TrgSelect
  <2>1. l.vals \in Seq(Int)
    BY <1>1 DEF LineOK, Parsed
  <2>2. Setting(p, l) = [p EXCEPT !.trgBit = Selected(p, l)]
    BY <1>0, <1>1 DEF Setting
  <2>3. Selected(p, l) \in Int
    BY <2>1, SelectedInt
  <2> QED BY <2>2, <2>3 DEF ParseOK, ParseFields
<1>2. CASE l.key = EbSelect /\ Error(p, l) = 0 /\ l.key # TrgSelect
  <2>1. Setting(p, l) = [p EXCEPT !.streamEb = Given(l, 1)]
    BY <1>0, <1>2 DEF Setting
  <2>2. Given(l, 1) \in 0 .. 1
    BY <1>0, <1>2 DEF Error, ByTrgBit, Masks
  <2> QED BY <2>1, <2>2 DEF ParseOK, ParseFields
<1>3. CASE l.key \in TrgLines /\ Error(p, l) = 0 /\ l.key # TrgSelect /\ l.key # EbSelect
  <2>1. Setting(p, l) = [p EXCEPT !.conf = TrgBitLine(l, p.conf)]
    BY <1>0, <1>3 DEF Setting
  <2>2. l.vals \in Seq(Int)
    BY <1>3 DEF LineOK, Parsed
  <2>3. ConfType(f, TrgBitLine(l, p.conf))
    BY <2>2, TrgBitLineType DEF ParseOK
  <2> QED BY <2>1, <2>3 DEF ParseOK, ParseFields
<1>4. CASE /\ l.key \in Known[f] /\ Error(p, l) = 0
           /\ l.key # TrgSelect /\ l.key # EbSelect /\ l.key \notin TrgLines
  <2> DEFINE s == Target(p, l)
  <2>1. Setting(p, l) = [p EXCEPT !.conf[s] = Stored(l, @)]
    BY <1>0, <1>4 DEF Setting
  <2>2. l.vals \in Seq(Int)
    BY <1>4 DEF LineOK, Parsed
  <2> HIDE DEF s
  <2>3. \A t \in Slots[f] : Ints(Stored(l, p.conf[t]), Columns(t))
    BY <2>2, StoredInts, SlotColumns DEF ParseOK, ConfType
  <2>4. ConfType(f, [p.conf EXCEPT ![s] = Stored(l, @)])
    BY <2>3 DEF ParseOK, ConfType
  <2>5. Setting(p, l) = [p EXCEPT !.conf = [p.conf EXCEPT ![s] = Stored(l, @)]]
    BY <2>1
  <2> QED BY <2>4, <2>5 DEF ParseOK, ParseFields
<1>5. CASE Setting(p, l) = p
  BY <1>5
<1>6. \/ l.key = TrgSelect
      \/ l.key = EbSelect /\ Error(p, l) = 0 /\ l.key # TrgSelect
      \/ l.key \in TrgLines /\ Error(p, l) = 0 /\ l.key # TrgSelect /\ l.key # EbSelect
      \/ /\ l.key \in Known[f] /\ Error(p, l) = 0
         /\ l.key # TrgSelect /\ l.key # EbSelect /\ l.key \notin TrgLines
      \/ Setting(p, l) = p
  BY <1>0 DEF Setting
<1> QED BY <1>1, <1>2, <1>3, <1>4, <1>5, <1>6

LEMMA StepType ==
    ASSUME NEW f \in Firmwares, NEW p, ParseOK(f, p), NEW l, LineOK(f, l)
    PROVE  ParseOK(f, Step(p, l))
<1>1. CASE l.key = <<"VTP", "CRATE">>
  <2>1. Step(p, l) = [p EXCEPT !.active = l.vals[1] \in {"host", "all"}]
    BY <1>1 DEF Step
  <2> QED BY <2>1 DEF ParseOK, ParseFields
<1>2. CASE p.active /\ l.key # <<"VTP", "CRATE">>
  <2>1. Step(p, l) = [Setting(p, l) EXCEPT !.res = Error(p, l)]
    BY <1>2 DEF Step
  <2>2. ParseOK(f, Setting(p, l)) /\ Error(p, l) \in {0, -1, -4, -6}
    BY SettingType, ErrorIn
  <2> QED BY <2>1, <2>2 DEF ParseOK, ParseFields
<1>3. CASE ~p.active /\ l.key # <<"VTP", "CRATE">>
  <2>1. Step(p, l) = p
    BY <1>3 DEF Step
  <2> QED BY <2>1
<1> QED BY <1>1, <1>2, <1>3

-----------------------------------------------------------------------------
(* The types of vtpUploadAll *)

\* What CallsAreOK says of each field of a firmware.
LEMMA FieldsAreOK ==
    ASSUME NEW f \in Firmwares, NEW x \in Fields[f]
    PROVE  FieldOK(x) /\ SlotIn(x, Families(f)) /\ (Kept(x) => TopOK(x))
<1> DEFINE q == Calls[f]
<1>1. CallsOK(q, Regs[f], Families(f))
  BY CallsAreOK
<1>2. x \in FieldsIn(q)
  BY DEF Fields
<1> HIDE DEF q
<1>3. PICK i \in DOMAIN q : x \in q[i].fields
  BY <1>2 DEF FieldsIn
<1>4. CallOK(q[i], Regs[f], Families(f))
  <2>1. DOMAIN q = 1 .. Len(q)
    BY <1>1 DEF CallsOK, IsSeq
  <2> QED BY <1>1, <1>3, <2>1 DEF CallsOK
<1> QED BY <1>3, <1>4 DEF CallOK

LEMMA GetInt == ASSUME NEW x, FieldOK(x), NEW r PROVE Get(x, r) \in Int
<1> DEFINE B == {i - x.lo : i \in r[x.reg] \cap Span(x)}
<1>1. B \in SUBSET Word
  BY DEF FieldOK, Span, Word
<1>2. Get(x, r) = (IF x.signed /\ x.n - 1 \in B THEN Num(B) - 2^x.n ELSE Num(B)) * x.unit
  BY DEF Get
<1> HIDE DEF B
<1>3. Num(B) \in Nat
  BY <1>1, SumAgrees
<1>4. x.n \in 0 .. 31 /\ x.unit \in Int
  BY DEF FieldOK
<1>5. 2^x.n \in Nat
  BY <1>4, Power
<1> QED BY <1>2, <1>3, <1>4, <1>5

LEMMA ReadsIn == ASSUME NEW f, NEW fs PROVE ReadsOf(f, fs) \subseteq fs
BY DEF ReadsOf, CommonReads, CalorimeterReads, TrackerReads, HpsReads, ComptonReads

LEMMA ReadBackInts ==
    ASSUME NEW mine, \A x \in mine : FieldOK(x), NEW s, NEW r, NEW old, NEW n \in Nat, Ints(old, n)
    PROVE  Ints(ReadBack(mine, s, r, old), n)
<1>1. ASSUME NEW c \in 1 .. n PROVE ReadBack(mine, s, r, old)[c] \in Int
  <2>1. CASE \E x \in mine : x.col = c
    <3> DEFINE v == Get(CHOOSE x \in mine : x.col = c, r)
    <3>1. (CHOOSE x \in mine : x.col = c) \in mine
      BY <2>1
    <3>2. v \in Int
      BY <3>1, GetInt
    <3>3. ReadBack(mine, s, r, old)[c] = IF s[2] = "HIT_DALITZ" THEN v \div 8 ELSE v
      BY <2>1 DEF ReadBack, Ints
    <3> HIDE DEF v
    <3> QED BY <3>2, <3>3
  <2>2. CASE ~\E x \in mine : x.col = c
    <3>1. ReadBack(mine, s, r, old)[c] = old[c]
      BY <2>2 DEF ReadBack, Ints
    <3> QED BY <3>1 DEF Ints
  <2> QED BY <2>1, <2>2
<1>2. DOMAIN ReadBack(mine, s, r, old) = 1 .. n
  BY DEF ReadBack, Ints
<1> QED BY <1>1, <1>2 DEF Ints

LEMMA UploadType ==
    ASSUME NEW f \in Firmwares, NEW r, NEW conf, ConfType(f, conf)
    PROVE  ConfType(f, UploadTo(f, r, conf))
<1>1. \A x \in Reads[f] : FieldOK(x)
  <2>1. Reads[f] = ReadsOf(f, Fields[f])
    BY DEF Reads
  <2> QED BY <2>1, ReadsIn, FieldsAreOK
<1>2. ASSUME NEW s \in Slots[f] PROVE Ints(UploadTo(f, r, conf)[s], Columns(s))
  <2> DEFINE mine == {x \in Reads[f] : x.slot = s}
  <2>1. UploadTo(f, r, conf)[s] = ReadBack(mine, s, r, conf[s])
    BY DEF UploadTo
  <2>2. \A x \in mine : FieldOK(x)
    BY <1>1
  <2> HIDE DEF mine
  <2>3. Ints(conf[s], Columns(s)) /\ Columns(s) \in Nat
    BY SlotColumns DEF ConfType
  <2> QED BY <2>1, <2>2, <2>3, ReadBackInts
<1>3. DOMAIN UploadTo(f, r, conf) = Slots[f]
  BY DEF UploadTo
<1> QED BY <1>2, <1>3 DEF ConfType

LEMMA ClearedType == ASSUME NEW f \in Firmwares PROVE RegsType(Regs[f], Cleared(f))
BY DEF RegsType, Cleared, Word

-----------------------------------------------------------------------------
(* vtpDownloadAll leaves every setting in its register *)

SettledAt(f, conf, g, r) ==
    LET kept == {x \in FieldsOf[f][r] : KeyOf(x.slot) \notin Lost}
    IN (\A x \in kept : Fits(x, conf[x.slot][x.col])) =>
            \A x \in kept : Get(x, g) = Held(x, conf[x.slot][x.col])

LEMMA DownloadSettles ==
    ASSUME NEW f \in Firmwares, NEW conf, ConfType(f, conf), NEW r0, RegsType(Regs[f], r0),
           NEW r \in Regs[f]
    PROVE  SettledAt(f, conf, DownloadTo(f, conf, r0), r)
<1> DEFINE q == Calls[f]
           g == DownloadTo(f, conf, r0)
           fs == Fields[f]
           kept == {x \in FieldsOf[f][r] : KeyOf(x.slot) \notin Lost}
<1>1. CallsOK(q, Regs[f], Families(f)) /\ fs = FieldsIn(q) /\ g = Load(q, conf, r0)
  BY CallsAreOK, DownloadIs DEF Fields
<1>2. kept = {x \in fs : x.reg = r /\ Kept(x)}
  BY DEF FieldsOf, ByReg, Kept
<1>3. \A x \in fs : FieldOK(x) /\ SlotIn(x, Families(f)) /\ (Kept(x) => TopOK(x))
  BY FieldsAreOK
<1> HIDE DEF q, g, fs, kept
<1>4. SUFFICES ASSUME \A x \in kept : Fits(x, conf[x.slot][x.col]), NEW x \in kept
               PROVE  Get(x, g) = Held(x, conf[x.slot][x.col])
  BY Zenon DEF SettledAt, kept, g
<1>5. \A y \in fs : conf[y.slot][y.col] \in Int
  <2>1. ASSUME NEW y \in fs PROVE conf[y.slot][y.col] \in Int
    <3>1. y.slot \in Slots[f] /\ y.col \in 1 .. Columns(y.slot)
      BY <1>3, SlotTyped
    <3> QED BY <3>1 DEF ConfType, Ints
  <2> QED BY <2>1
<1>6. x \in fs /\ x.reg = r /\ Kept(x) /\ FieldOK(x) /\ TopOK(x)
  BY <1>2, <1>3
<1>7. FitsIn(fs, x, conf)
  BY <1>2, <1>4, <1>5, <1>6 DEF FitsIn
<1>8. InPlace(x, conf, g)
  BY <1>1, <1>6, <1>7, LoadPuts
<1> DEFINE v == conf[x.slot][x.col]
<1>9. v \in Int /\ Fits(x, v) /\ g[x.reg] \cap Span(x) = Put(x, v) \cap Span(x)
  BY <1>4, <1>5, <1>6, <1>8 DEF InPlace
<1> HIDE DEF v
<1>10. Get(x, g) = Held(x, v)
  BY <1>6, <1>9, GetFit
<1> QED BY <1>10 DEF v

-----------------------------------------------------------------------------
(* TypeOK and SettingsHeld *)

ConfInv == FileInv /\ ParseOK(fw, parse) /\ RegsType(Regs[fw], regs) /\ SettingsHeld

LEMMA ConfInit == Init => ConfInv
<1> SUFFICES ASSUME Init PROVE ConfInv
  OBVIOUS
<1>1. fw \in Firmwares
  BY ScenariosAssumption DEF Init, fw
<1>2. FileInv
  BY FileInit
<1>3. parse = Start(fw, [s \in Slots[fw] |-> Zeros(s)], -1) /\ regs = Cleared(fw) /\ pc = "idle"
  BY DEF Init, fw
<1> DEFINE z == [s \in Slots[fw] |-> Zeros(s)]
<1>4. ConfType(fw, z)
  BY <1>1, ZerosType
<1> HIDE DEF z
<1>5. ParseOK(fw, parse)
  BY <1>3, <1>4 DEF ParseOK, Start, ParseFields, z
<1>6. RegsType(Regs[fw], regs)
  BY <1>1, <1>3, ClearedType
<1> QED BY <1>2, <1>3, <1>5, <1>6 DEF ConfInv, SettingsHeld

LEMMA StartType ==
    ASSUME NEW f \in Firmwares, NEW conf, ConfType(f, conf), NEW t \in Int
    PROVE  ParseOK(f, Start(f, InitGlobals(f, conf), t))
<1> DEFINE z == InitGlobals(f, conf)
<1>1. ConfType(f, z)
  BY InitGlobalsType
<1> HIDE DEF z
<1>2. ParseOK(f, Start(f, z, t))
  BY <1>1 DEF ParseOK, Start, ParseFields
<1> QED BY <1>2 DEF z

LEMMA ConfNext == ASSUME ConfInv, [Next]_vars PROVE ConfInv'
<1>1. FileInv /\ FileInv' /\ ParseOK(fw, parse) /\ RegsType(Regs[fw], regs) /\ SettingsHeld
  BY FileNext DEF ConfInv
<1>2. fw \in Firmwares /\ fw' = fw /\ ConfType(fw, parse.conf)
  <2>1. fw \in Firmwares
    BY <1>1, FileType DEF FileInv, CaseOK
  <2>2. case' = case
    BY DEF Next, vars, Prestart, NoFile, ReadLine, SkipForEver, EndOfFile, Download, Upload, NextRun, Done
  <2> QED BY <1>1, <2>1, <2>2 DEF fw, ParseOK
<1> DEFINE P == ParseOK(fw, parse')
           R == RegsType(Regs[fw], regs')
<1>3. SUFFICES P /\ R /\ SettingsHeld'
  BY <1>1, <1>2 DEF ConfInv
<1>4. CASE Prestart
  <2>1. PICK t \in Garbage : parse' = Start(fw, InitGlobals(fw, parse.conf), t)
    BY <1>4 DEF Prestart
  <2>2. t \in Int /\ regs' = regs /\ pc' = "read"
    BY <1>4 DEF Prestart, Garbage
  <2>3. P
    BY <1>2, <2>1, <2>2, StartType
  <2> QED BY <1>1, <2>2, <2>3 DEF SettingsHeld
<1>5. CASE NoFile
  <2>1. PICK e \in {-1, -2} : parse' = [Start(fw, InitGlobals(fw, parse.conf), -1) EXCEPT !.res = e]
    BY <1>5 DEF NoFile
  <2>2. regs' = regs /\ pc' = "download"
    BY <1>5 DEF NoFile
  <2> DEFINE p == Start(fw, InitGlobals(fw, parse.conf), -1)
  <2>3. ParseOK(fw, p)
    BY <1>2, StartType
  <2> HIDE DEF p
  <2>4. P
    BY <2>1, <2>3 DEF ParseOK, ParseFields, p
  <2> QED BY <1>1, <2>2, <2>4 DEF SettingsHeld
<1>6. CASE ReadLine
  <2>1. parse' = Step(parse, Head(rest)) /\ regs' = regs /\ pc' # "upload"
    BY <1>6 DEF ReadLine
  <2>2. LineOK(fw, Head(rest))
    <3>1. PICK t \in Garbage, k \in 0 .. Len(File) : \E g :
            /\ Reading(g, Start(fw, Defaults[fw], t), File)
            /\ rest = SubSeq(File, k + 1, Len(File)) /\ Alike(fw, parse, g[k])
      BY <1>1, <1>6 DEF FileInv, ReadInv, ReadLine
    <3>2. File \in Seq({File[j] : j \in 1 .. Len(File)}) /\ \A j \in 1 .. Len(File) : LineOK(fw, File[j])
      BY <1>1, FileType DEF FileInv, CaseOK
    <3>3. k + 1 \in 1 .. Len(File) /\ Head(rest) = File[k + 1]
      BY <1>6, <3>1, <3>2, TailOf DEF ReadLine
    <3> QED BY <3>2, <3>3
  <2>3. P
    BY <1>1, <1>2, <2>1, <2>2, StepType
  <2> QED BY <1>1, <2>1, <2>3 DEF SettingsHeld
<1>7. CASE EndOfFile
  BY <1>1, <1>7 DEF EndOfFile, SettingsHeld
<1>8. CASE Download
  <2>1. regs' = DownloadTo(fw, parse.conf, regs) /\ parse' = parse /\ pc' = "upload"
    BY <1>8 DEF Download
  <2>2. R
    <3>1. CallsOK(Calls[fw], Regs[fw], Families(fw))
      BY <1>2, CallsAreOK
    <3>2. regs' = Load(Calls[fw], parse.conf, regs)
      BY <2>1, DownloadIs
    <3>3. IsSeq(Calls[fw])
      BY <3>1 DEF CallsOK
    <3> QED BY <1>1, <3>2, <3>3, LoadType
  <2>3. \A r \in Regs[fw] : SettledAt(fw, parse.conf, regs', r)
    BY <1>1, <1>2, <2>1, DownloadSettles
  <2>4. SettingsHeld'
    <3>1. \A r \in Regs[fw] :
            LET kept == {x \in FieldsOf[fw][r] : KeyOf(x.slot) \notin Lost}
            IN (\A x \in kept : Fits(x, parse'.conf[x.slot][x.col])) =>
                    \A x \in kept : Get(x, regs') = Held(x, parse'.conf[x.slot][x.col])
      BY <2>1, <2>3, Zenon DEF SettledAt
    <3> QED BY <1>2, <3>1, Zenon DEF SettingsHeld, Value, Holds
  <2> QED BY <1>1, <2>1, <2>2, <2>4
<1>9. CASE Upload
  <2>1. parse' = [parse EXCEPT !.conf = UploadTo(fw, regs, parse.conf)] /\ regs' = regs /\ pc' = "done"
    BY <1>9 DEF Upload
  <2>2. ConfType(fw, UploadTo(fw, regs, parse.conf))
    BY <1>2, UploadType
  <2>3. P
    BY <1>1, <2>1, <2>2 DEF ParseOK, ParseFields
  <2> QED BY <1>1, <2>1, <2>3 DEF SettingsHeld
<1>10. CASE NextRun
  <2>1. regs' \in {regs, Cleared(fw)} /\ parse' = parse /\ pc' = "idle"
    BY <1>10 DEF NextRun
  <2>2. R
    BY <1>1, <1>2, <2>1, ClearedType
  <2> QED BY <1>1, <2>1, <2>2 DEF SettingsHeld
<1>11. CASE SkipForEver \/ Done \/ UNCHANGED vars
  <2>1. UNCHANGED vars
    BY <1>11 DEF SkipForEver, Done
  <2>2. parse' = parse /\ regs' = regs /\ pc' = pc
    BY <2>1 DEF vars
  <2>3. SettingsHeld'
    BY <1>1, <1>2, <2>2 DEF SettingsHeld, Value, Holds
  <2> QED BY <1>1, <2>2, <2>3
<1> QED BY <1>4, <1>5, <1>6, <1>7, <1>8, <1>9, <1>10, <1>11 DEF Next

LEMMA ConfSpec == Spec => []ConfInv
<1>1. Init => ConfInv
  BY ConfInit
<1>2. ConfInv /\ [Next]_vars => ConfInv'
  BY ConfNext
<1> QED BY <1>1, <1>2, PTL DEF Spec

\* The types of vtpConf, of the parser and of the registers: a row that the
\* file selects for an event builder is one there is, and no setter or getter
\* leaves anything but bits of a word or integers behind.
THEOREM TypeOKCorrect == Spec => []TypeOK
<1>1. ConfInv => TypeOK
  <2> SUFFICES ASSUME ConfInv PROVE TypeOK
    OBVIOUS
  <2>1. fw \in Firmwares /\ run \in 1 .. Len(case.files) /\ PcOK
    BY FileType DEF ConfInv, FileInv, CaseOK
  <2>2. ParseOK(fw, parse) /\ RegsType(Regs[fw], regs)
    BY DEF ConfInv
  <2>3. DOMAIN parse.conf = Slots[fw]
        /\ \A s \in Slots[fw] : DOMAIN parse.conf[s] = 1 .. Columns(s)
                                /\ \A c \in DOMAIN parse.conf[s] : parse.conf[s][c] \in Int
    BY <2>2 DEF ParseOK, ConfType, Ints
  <2> QED BY <2>1, <2>2, <2>3 DEF TypeOK, PcOK, ParseOK, RegsType
<1> QED BY <1>1, ConfSpec, PTL

\* After vtpDownloadAll every setting that its register can hold is there: no
\* setter of vtpLib.c overwrites what another put beside it, and no field
\* keeps anything of the run before, for every firmware and every file.
THEOREM SettingsHeldCorrect == Spec => []SettingsHeld
<1>1. ConfInv => SettingsHeld
  BY DEF ConfInv
<1> QED BY <1>1, ConfSpec, PTL
=============================================================================
