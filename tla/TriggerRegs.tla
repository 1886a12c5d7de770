---------------------------- MODULE TriggerRegs -----------------------------
(***************************************************************************)
(* The configuration registers of the trigger firmware and the vtpSet* /   *)
(* vtpGet* functions of vtpLib.c that write and read them.                 *)
(*                                                                         *)
(* A register is the set of its bits that are 1.  A setting is one value   *)
(* of vtpConf, named by a slot <<family, key, row>> and a column.  A field *)
(* says where a setter puts a setting; a call is what one setter does: it  *)
(* clears bits of some registers and ORs its fields in.  The getter of a   *)
(* setter reads n bits of each field back.                                 *)
(*                                                                         *)
(* Floating-point settings stand for what the register holds: a pulser for *)
(* its period, a factor for its fixed-point number.                        *)
(***************************************************************************)
EXTENDS Integers, Sequences, FiniteSets, FiniteSetsExt

CONSTANTS
    NumTrg,     \* rows of a table of trigger bits: 32 in vtpConfig.h
    NumHps,     \* single and pair triggers: 4
    NumMult,    \* multiplicity triggers: 2
    NumFee,     \* FEE regions: 7
    NumCompton  \* Compton triggers: 5, that use the first trigger bits

ASSUME RowsAssumption ==
    /\ NumTrg \in Nat \ {0} /\ NumHps \in Nat \ {0} /\ NumMult \in Nat \ {0}
    /\ NumFee \in Nat \ {0} /\ NumCompton \in 1 .. NumTrg

Word == 0 .. 31
The(name) == <<name>>  \* a register there is one of
Huge == 2147483647
\* int arithmetic of C: division truncates, a word is in two's complement.
Quotient(v, u) == IF v >= 0 THEN v \div u ELSE -((-v) \div u)
NatBits(v) == {i \in 0 .. 30 : (v \div 2^i) % 2 = 1}
Bits(v) == IF v >= 0 THEN NatBits(v) ELSE Word \ NatBits(-v - 1)
Num(B) == MapThenSumSet(LAMBDA i : 2^i, B)

-----------------------------------------------------------------------------
(* Fields, setters and getters *)

\* n bits from bit lo of register r, for column c of slot s.
F(s, c, r, lo, n) ==
    [slot |-> s, col |-> c, reg |-> r, lo |-> lo, n |-> n, unit |-> 1, bias |-> 0,
     zero |-> 0, top |-> 0, min |-> -Huge, max |-> Huge,
     cut |-> FALSE, flag |-> FALSE, signed |-> FALSE]
Plain(s, c, r) == F(s, c, r, 0, 31)
Per(f, u) == [f EXCEPT !.unit = u]                \* stored in units of u
Clamp(f, a, b) == [f EXCEPT !.min = a, !.max = b] \* CHECKRANGE_INT
Top(f, b) == [f EXCEPT !.top = b]                 \* limited before the division
Cut(f) == [f EXCEPT !.cut = TRUE]                 \* masked to n bits
Flag(f) == [f EXCEPT !.flag = TRUE]               \* value ? 1 : 0
Signed(f) == [f EXCEPT !.signed = TRUE]           \* the getter extends the sign

\* The number a setter puts into the register for the setting v.
Ticks(f, v) ==
    LET given == IF v <= 0 /\ f.zero # 0 THEN f.zero ELSE v
        low == IF f.top # 0 /\ given > f.top THEN f.top ELSE given
        t == Quotient(low - f.bias, f.unit)
    IN IF f.flag THEN (IF v # 0 THEN 1 ELSE 0)
       ELSE IF t > f.max THEN f.max ELSE IF t < f.min THEN f.min ELSE t

Span(f) == f.lo .. f.lo + f.n - 1
\* The bits a setter ORs in: those beyond the field too, unless it masks them.
Put(f, v) ==
    LET B == Bits(Ticks(f, v))
    IN {i + f.lo : i \in (IF f.cut THEN B \cap 0 .. f.n - 1 ELSE B)} \cap Word

\* Read-modify-write of one field; write of whole registers.
Only(reg, bits) == [r \in {reg} |-> bits]
Rmw(f) == [clear |-> Only(f.reg, Span(f)), fields |-> {f}]
Whole(fs) == [clear |-> [r \in {f.reg : f \in fs} |-> Word], fields |-> fs]

\* The registers after one setter, with the settings conf.
Apply(call, conf, regs) ==
    [r \in DOMAIN regs |->
        IF r \notin DOMAIN call.clear THEN regs[r]
        ELSE (regs[r] \ call.clear[r])
             \union UNION {Put(f, conf[f.slot][f.col]) : f \in {g \in call.fields : g.reg = r}}]

\* What the getter of a field returns.
Get(f, regs) ==
    LET B == {i - f.lo : i \in regs[f.reg] \cap Span(f)}
    IN (IF f.signed /\ f.n - 1 \in B THEN Num(B) - 2^f.n ELSE Num(B)) * f.unit

\* What a field should hold for the setting v.
Held(f, v) == IF f.flag THEN (IF v # 0 THEN 1 ELSE 0) ELSE f.unit * Quotient(v - f.bias, f.unit)
\* The setting can be held: it is in the setter's range and its field's width.
Fits(f, v) ==
    LET t == Quotient(v - f.bias, f.unit)
    IN \/ f.flag
       \/ /\ t >= f.min /\ t <= f.max /\ (f.zero # 0 => v > 0)
          /\ IF f.signed THEN t \in -(2^(f.n - 1)) .. 2^(f.n - 1) - 1
             ELSE t >= 0 /\ (f.n < 31 => t < 2^f.n)

-----------------------------------------------------------------------------
(* Every firmware *)

\* vtpSetWindow: DC counts in ticks of 8 ns, the others in 4.
Window(fw) ==
    LET u == IF fw = "DC" THEN 8 ELSE 4
    IN Whole({Per(Plain(<<"VTP", "W_OFFSET", 0>>, 1, The("ebLookback")), u),
              Per(Plain(<<"VTP", "W_WIDTH", 0>>, 1, The("ebWidth")), u)})
\* vtpEnableTriggerPayloadMask writes the whole decoder register; streaming
\* firmware has none.
PayloadMask(fw) ==
    IF fw = "FADCSTREAM" THEN <<>>
    ELSE <<Whole({F(<<"VTP", "PAYLOAD_EN", 0>>, 1, The("decoder"), 0, 16)})>>
\* vtpEnableTriggerFiberMask shares that register on FTCAL; DC drops fiber 0.
FiberMask(fw) ==
    LET s == <<"VTP", "FIBER_EN", 0>>
    IN CASE fw = "FTCAL" -> <<[clear |-> Only(The("decoder"), 16 .. 31),
                               fields |-> {F(s, 1, The("decoder"), 16, 4)}]>>
         [] fw = "DC" -> <<Whole({Cut(Per(F(s, 1, The("roadCtrl"), 0, 2), 2))})>>
         [] OTHER -> <<>>
\* vtpSetFadcSum_MaskEn: two 16-bit masks in each of eight registers.
FadcSum(fam) ==
    Whole({Cut(F(<<fam, "FADCSUM_CH", 0>>, c, <<"fadcSum", (c - 1) \div 2>>, 16 * ((c - 1) % 2), 16)) :
           c \in 1 .. 16})
\* vtpSetGt_latency, vtpSetGt_width.
Latency(fam) == Whole({Per(Plain(<<fam, "LATENCY", 0>>, 1, The("trigLatency")), 4)})
Width(fam) == Whole({Plain(<<fam, "WIDTH", 0>>, 1, The("trigWidth"))})

-----------------------------------------------------------------------------
(* EC, PC, ECS, PCS: calorimeters.  Row 0 is the inner half, 1 the outer. *)

EcHit(i) ==
    <<Rmw(F(<<"EC", "HIT_EMIN", i>>, 1, <<"ecHit", i>>, 0, 13)),
      Rmw(Clamp(Per(F(<<"EC", "HIT_DT", i>>, 1, <<"ecHit", i>>, 16, 4), 4), 0, 8))>>
EcDalitz(i) == Whole({F(<<"EC", "HIT_DALITZ", i>>, 1, <<"ecDalitz", i>>, 0, 10),
                      F(<<"EC", "HIT_DALITZ", i>>, 2, <<"ecDalitz", i>>, 16, 10)})
EcCosmicCtrl(fam, i) ==
    <<Rmw(F(<<fam, "COSMIC_EMIN", i>>, 1, <<"ecCosmicCtrl", i>>, 0, 13)),
      Rmw(F(<<fam, "COSMIC_MULTMAX", i>>, 1, <<"ecCosmicCtrl", i>>, 24, 6))>>
EcCosmicDelay(fam, i) ==
    <<Rmw(F(<<fam, "COSMIC_HITWIDTH", i>>, 1, <<"ecCosmicDelay", i>>, 0, 8)),
      Rmw(F(<<fam, "COSMIC_EVALDELAY", i>>, 1, <<"ecCosmicDelay", i>>, 16, 8))>>
PcCosmicCtrl(fam) ==
    <<Rmw(F(<<fam, "COSMIC_EMIN", 0>>, 1, The("pcCosmicCtrl"), 0, 13)),
      Rmw(F(<<fam, "COSMIC_MULTMAX", 0>>, 1, The("pcCosmicCtrl"), 24, 6))>>
PcCosmicDelay(fam) ==
    <<Rmw(F(<<fam, "COSMIC_HITWIDTH", 0>>, 1, The("pcCosmicDelay"), 0, 8)),
      Rmw(F(<<fam, "COSMIC_EVALDELAY", 0>>, 1, The("pcCosmicDelay"), 16, 8))>>
PcCosmicPixel(fam) == Rmw(Flag(F(<<fam, "COSMIC_PIXELEN", 0>>, 1, The("pcCosmicCtrl"), 16, 1)))

\* Three thresholds and a number of frames: HTCC, CTOF, FTOF, CND, PCS, PCU, ECS.
Thresholds(fam, key) ==
    Whole({Plain(<<fam, key, 0>>, c, <<key, c>>) : c \in 1 .. 3})
NFrames(fam, key) == Whole({Plain(<<fam, key, 0>>, 1, The(key))})
\* vtpSetPCS_nstrip and vtpSetECS_nstrip take a minimum and drop it.
PcsStrips ==
    <<Whole({Plain(<<"PCS", "DIPFACTOR", 0>>, 1, The("pcsDip"))}),
      Whole({Plain(<<"PCS", "NSTRIP", 0>>, 2, The("pcsNstripMax"))}),
      Whole({Plain(<<"PCS", "DALITZ", 0>>, c, <<"pcsDalitz", c>>) : c \in 1 .. 2})>>
EcsStrips ==
    <<Whole({Plain(<<"ECS", "DIPFACTOR", 0>>, 1, The("ecsDip"))}),
      Whole({Plain(<<"ECS", "NSTRIP", 0>>, 2, The("ecsNstripMax"))}),
      Whole({F(<<"ECS", "DALITZ", 0>>, c, <<"ecsDalitz", c>>, 3, 28) : c \in 1 .. 2})>>

-----------------------------------------------------------------------------
(* GT, DC, HCAL, FTCAL, FTHODO *)

\* vtpSetGtTriggerBit: every register of trigger bit i, each field masked.
GtTriggerBit(i) ==
    LET S(key) == <<"GT", key, i>>
        R(reg) == <<reg, i>>
    IN Whole({Cut(F(S("STRIGGER_MASK"), 1, R("gtStrigMask"), 0, 16)),
              Cut(F(S("STRIGGER_MASK"), 2, R("gtStrig1Mask"), 0, 16)),
              Cut(F(S("SECTOR_MASK"), 1, R("gtStrig"), 8, 6)),
              Cut(F(S("SECTOR_MASK"), 2, R("gtStrig1"), 8, 6)),
              Cut(F(S("MULT_MIN"), 1, R("gtStrig"), 4, 3)),
              Cut(F(S("MULT_MIN"), 2, R("gtStrig1"), 4, 3)),
              Cut(F(S("SECTOR_WIDTH"), 1, R("gtStrig"), 16, 8)),
              Cut(F(S("CTRIGGER_MASK"), 1, R("gtCtrig"), 0, 4)),
              Cut(F(S("DELAY"), 1, R("gtStrig"), 24, 8)),
              Plain(S("PULSER_FREQ"), 1, R("gtPulser")),
              Plain(S("PRESCALE"), 1, R("trigPrescaler"))})
\* Bit 31 of the pulser register: on when the frequency is above zero.
GtPulserOn(i) == [clear |-> Only(<<"gtPulser", i>>, {31}),
                  fields |-> {Flag(F(<<"GT", "PULSER_FREQ", i>>, 1, <<"gtPulser", i>>, 31, 1))}]
DcThreshold(i) == Whole({Plain(<<"DC", "SEGTHR", i>>, 1, <<"dcThreshold", i>>)})
\* vtpSetHcal_ClusterCoincidence limits the nanoseconds to 7 and then divides.
HcalCluster ==
    <<Whole({Top(Per(F(<<"HCAL", "HIT_DT", 0>>, 1, The("hcalCoin"), 0, 3), 4), 7)}),
      Whole({Top(F(<<"HCAL", "HIT_EMIN", 0>>, 1, The("hcalThr"), 0, 13), 8191)})>>
FtcalSeed ==
    <<Rmw(F(<<"FTCAL", "SEED_EMIN", 0>>, 1, The("ftcalCtrl"), 0, 13)),
      Rmw(Cut(Per(F(<<"FTCAL", "SEED_DT", 0>>, 1, The("ftcalCtrl"), 16, 3), 4))),
      Rmw(Cut(Per(F(<<"FTCAL", "HODO_DT", 0>>, 1, The("ftcalCtrl"), 24, 3), 4)))>>
\* vtpSetFTCALcluster_deadtime keeps the threshold beside it;
\* vtpSetFTCALcluster_deadtime_emin writes the threshold over the whole register.
FtcalDeadtime ==
    <<Rmw(Cut(Per(F(<<"FTCAL", "CLUSTER_DEADTIME", 0>>, 1, The("ftcalDeadtime"), 16, 6), 4))),
      Whole({Cut(F(<<"FTCAL", "CLUSTER_DEADTIME_EMIN", 0>>, 1, The("ftcalDeadtime"), 0, 14))})>>
FthodoEmin == Whole({Cut(F(<<"FTHODO", "EMIN", 0>>, 1, The("fthodoCtrl"), 0, 13))})

-----------------------------------------------------------------------------
(* HPS *)

H(key, i) == <<"HPS", key, i>>
HpsCluster ==
    Whole({Clamp(F(H("ECAL", 0), 1, The("hpsCluster"), 31, 1), 0, 1),
           Clamp(Per(F(H("HIT_DT", 0), 1, The("hpsCluster"), 16, 3), 4), 0, 4),
           Clamp(F(H("SEED_THR", 0), 1, The("hpsCluster"), 0, 13), 1, 8191)})
HpsHodoscope ==
    Whole({Clamp(Per(F(H("HODO_DT", 0), 1, The("hpsHodo"), 26, 4), 4), 0, 15),
           Clamp(F(H("HODO_THR", 0), 1, The("hpsHodo"), 13, 13), 1, 8191),
           Clamp(F(H("FADCHIT_THR", 0), 1, The("hpsHodo"), 0, 13), 1, 8191)})
\* The energy window and hit count the cluster triggers share.
HpsWindow(kind, i, r) ==
    {Clamp(Plain(<<kind, "EMIN", i>>, 1, <<"Emin", r>>), 0, 8191),
     Clamp(Plain(<<kind, "EMAX", i>>, 1, <<"Emax", r>>), 0, 8191),
     Clamp(Plain(<<kind, "NMIN", i>>, 1, <<"Nmin", r>>), 0, 9)}
\* Enable flag: column c of a setting is bit b of the trigger's Ctrl register.
Enable(kind, key, i, c, r, b) == Flag(F(<<kind, key, i>>, c, <<"Ctrl", r>>, b, 1))
HpsSingle(i, side) ==
    LET r == <<side, i>>
        En(key, c, b) == Enable("SINGLE", key, i, c, r, b)
    IN Whole(HpsWindow("SINGLE", i, r)
        \union {Signed(Clamp(F(<<"SINGLE", "XMIN", i>>, 1, <<"Xmin", r>>, 0, 6), -31, 31))}
        \union {Plain(<<"SINGLE", "PDE", i>>, c, <<"Pde", r, c>>) : c \in 1 .. 4}
        \union {En("EMIN", 2, 0), En("EMAX", 2, 1), En("NMIN", 2, 2), En("XMIN", 2, 3),
                En("PDE", 5, 4), En("EN", 1, 31)}
        \union {En("HODO", c, 4 + c) : c \in 1 .. 4})
HpsPair(i) ==
    LET r == <<"pair", i>>
        P(key) == <<"PAIR", key, i>>
        En(key, c, b) == Enable("PAIR", key, i, c, r, b)
    IN Whole({Clamp(F(P("EMIN"), 1, <<"Eminmax", r>>, 0, 13), 0, 8191),
              Clamp(F(P("EMAX"), 1, <<"Eminmax", r>>, 16, 13), 0, 8191),
              Clamp(Plain(P("NMIN"), 1, <<"Nmin", r>>), 0, 9),
              Clamp(Per(F(P("TIMECOINCIDENCE"), 1, <<"Ctrl", r>>, 16, 4), 4), 0, 15),
              Clamp(F(P("SUMMAX_MIN"), 1, <<"Esum", r>>, 16, 14), 0, 16383),
              Clamp(F(P("SUMMAX_MIN"), 2, <<"Esum", r>>, 0, 14), 0, 8191),
              Clamp(Plain(P("DIFFMAX"), 1, <<"Ediff", r>>), 0, 8191),
              Clamp(F(P("ENERGYDIST"), 1, <<"Ed", r>>, 0, 8), 0, 255),
              Clamp(F(P("ENERGYDIST"), 2, <<"Ed", r>>, 16, 13), 0, 8191),
              Clamp(Plain(P("COPLANARITY"), 1, <<"Coplanar", r>>), 0, 255),
              En("SUMMAX_MIN", 3, 0), En("DIFFMAX", 2, 1), En("COPLANARITY", 2, 2),
              En("ENERGYDIST", 3, 3), En("EN", 1, 31)}
        \union {En("HODO", c, 3 + c) : c \in 1 .. 4})
HpsMultiplicity(i) ==
    LET r == <<"mult", i>>
        Nibble(key, c, lo) == Clamp(F(<<"MULT", key, i>>, c, <<"Ctrl", r>>, lo, 4), 0, 15)
    IN Whole(HpsWindow("MULT", i, r)
        \union {Nibble("MIN", 1, 0), Nibble("MIN", 2, 4), Nibble("MIN", 3, 8),
                Clamp(Per(F(<<"MULT", "DT", i>>, 1, <<"Ctrl", r>>, 12, 4), 4), 0, 15),
                Enable("MULT", "EN", i, 1, r, 31)})
\* Five 6-bit limits or two 16-bit prescales to a register, for both halves.
HpsFee ==
    LET Regions(r) == UNION {
            {Signed(Cut(Clamp(F(<<"FEE", "PRESCALE", i>>, 1, <<"FeeXmin", r, i \div 5>>, 6 * (i % 5), 6), -31, 31))),
             Signed(Cut(Clamp(F(<<"FEE", "PRESCALE", i>>, 2, <<"FeeXmax", r, i \div 5>>, 6 * (i % 5), 6), -31, 31))),
             Clamp(F(<<"FEE", "PRESCALE", i>>, 3, <<"FeePrescale", r, i \div 2>>, 16 * (i % 2), 16), 0, 65535)} :
            i \in 0 .. NumFee - 1}
        Half(r) == HpsWindow("FEE", 0, r) \union Regions(r) \union {Enable("FEE", "EN", 0, 1, r, 31)}
    IN Whole(Half(<<"feeTop", 0>>) \union Half(<<"feeBot", 0>>))

-----------------------------------------------------------------------------
(* Compton and streaming *)

\* vtpSetTriggerBitPrescaler, vtpSetTriggerBitDelay (limited in nanoseconds).
TriggerBit(i) ==
    <<Rmw(Clamp(F(<<"COMPTON", "PRESCALE", i>>, 1, <<"trigPrescaler", i>>, 0, 16), 0, 65535)),
      Rmw(Clamp(Top(Per(F(<<"COMPTON", "DELAY", i>>, 1, <<"trigPrescaler", i>>, 16, 8), 4), 1020), 0, 255))>>
\* vtpSetCompton_Trigger clears bits 23-16, where the VETROC width is, and ORs
\* its own fields into whatever they held.
ComptonTrigger(i) ==
    LET ctrl == <<"comptonCtrl", i>>
        mask == F(<<"COMPTON", "FADC_EN_MASK", i>>, 1, <<"comptonMask", i \div 2>>, 16 * (i % 2), 16)
    IN [clear |-> [r \in {ctrl, mask.reg} |-> IF r = ctrl THEN 16 .. 23 ELSE Span(mask)],
        fields |-> {Clamp(F(<<"COMPTON", "FADC_THRESHOLD", i>>, 1, ctrl, 0, 13), 0, 8191),
                    Clamp(F(<<"COMPTON", "EPLANE_MULT_MIN", i>>, 1, ctrl, 24, 3), 0, 4),
                    Cut(F(<<"COMPTON", "EPLANE_MASK", i>>, 1, ctrl, 28, 4)), mask}]
ComptonCommon ==
    <<Rmw(Clamp(F(<<"COMPTON", "SCALER_READOUT_EN", 0>>, 1, <<"comptonCtrl", 0>>, 15, 1), 0, 1)),
      Rmw(Clamp(F(<<"COMPTON", "VETROC_WIDTH", 0>>, 1, <<"comptonCtrl", 0>>, 16, 8), 0, 255))>>
\* vtpStreamingSetEbCfg without payload information.
StreamEbCfg ==
    LET S(key, i) == <<"STREAMING", key, i>>
    IN Whole({Cut(F(<<"VTP", "PAYLOAD_EN", 0>>, 1, The("ebCtrl"), 0, 16)),
              Clamp([Per(F(S("FRAMELEN", 0), 1, The("ebCtrl"), 16, 11), 32) EXCEPT !.bias = 1], 32, 2047),
              Clamp(F(S("ROCID", 0), 1, The("ebRocid"), 0, 7), 0, 127),
              [Clamp(F(S("NSTREAMS", 0), 1, The("ebCtrl3"), 0, 3), 1, 4) EXCEPT !.zero = 1]})
\* vtpStreamingSetTcpCfg: addresses byte by byte, ports in the halves of a word.
StreamTcpCfg(i) ==
    LET S(key) == <<"STREAMING", key, i>>
        Address(key) == {F(S(key), c, <<key, i>>, 32 - 8 * c, 8) : c \in 1 .. 4}
    IN Whole(Address("IPADDR") \union Address("SUBNET") \union Address("GATEWAY") \union Address("DESTIP")
        \union {F(S("MAC"), c, <<"MAC", IF c <= 2 THEN 1 ELSE 0, i>>, 8 * ((6 - c) % 4), 8) : c \in 1 .. 6}
        \union {F(S("DESTIPPORT"), 1, <<"PORT", i>>, 0, 16),
                [F(S("LOCALPORT"), 1, <<"PORT", i>>, 16, 16) EXCEPT !.zero = 10001]})
=============================================================================
