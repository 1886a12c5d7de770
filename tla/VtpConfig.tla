------------------------------ MODULE VtpConfig -----------------------------
(***************************************************************************)
(* The configuration file of a VTP (vtpConfig.c): vtpInitGlobals sets      *)
(* vtpConf to its defaults, vtpReadConfigFile applies the file to it one   *)
(* line at a time, vtpDownloadAll writes it to the registers of the        *)
(* firmware that is loaded, and vtpUploadAll reads the registers back into *)
(* vtpConf and prints a report that goes into the data as the first event. *)
(*                                                                         *)
(* A line is a keyword <<family, key>>, the row its index argument or its  *)
(* keyword names, and its values.  A mask is one value, Bad when a digit   *)
(* is not 0 or 1.  vtpConf is kept for the loaded firmware: the settings   *)
(* of the others are parsed alike and not used.  A run is one Prestart;    *)
(* between two runs an operator may edit the file, and the V7 may be       *)
(* loaded again, which clears its registers.                               *)
(***************************************************************************)
EXTENDS TriggerRegs, SequencesExt

CONSTANTS
    Firmwares,  \* types of V7 firmware
    Scenarios   \* [fw, files]: a firmware and the configuration files of its runs

VARIABLES
    case,    \* the scenario
    rest,    \* lines of the file not read yet
    parse,   \* locals of vtpReadConfigFile, with vtpConf
    regs,    \* configuration registers of the V7
    report,  \* lines vtpUploadAll printed
    pc,      \* where vtpConfig is
    run      \* number of the run

vars == <<case, rest, parse, regs, report, pc, run>>

Line(key, row, vals) == [key |-> key, row |-> row, vals |-> vals]
Bad == -1
\* Lines without a setting.
Crate(c) == Line(<<"VTP", "CRATE">>, 0, <<c>>)
Comment == Line(<<"#", "text">>, 0, <<>>)
CommentAtEof == Line(<<"#", "eof">>, 0, <<>>)

-----------------------------------------------------------------------------
(* The settings: <<key, rows, columns>> of each family *)

CommonKeys ==
    {<<"W_WIDTH", 1, 1>>, <<"W_OFFSET", 1, 1>>, <<"FIRMWARE_V7", 1, 1>>,
     <<"FIRMWARE_Z7", 1, 1>>, <<"STATS_HOST", 1, 1>>, <<"STATS_PORT", 1, 1>>,
     <<"STATS_INST", 1, 1>>, <<"SYNC_PKT_LEN", 1, 1>>, <<"NUM_CONNECTIONS", 1, 1>>,
     <<"NET_MODE", 1, 1>>, <<"ENABLE_EJFAT", 1, 1>>, <<"LOCAL_PORT", 1, 1>>,
     <<"REFCLK", 1, 1>>, <<"PAYLOAD_EN", 1, 1>>, <<"FIBER_EN", 1, 1>>}
\* VTP_EC_INNER_* are row 0, VTP_EC_OUTER_* row 1.
EcKeys ==
    {<<"FADCSUM_CH", 1, 16>>, <<"HIT_EMIN", 2, 1>>, <<"HIT_DT", 2, 1>>, <<"HIT_DALITZ", 2, 2>>,
     <<"COSMIC_EMIN", 2, 1>>, <<"COSMIC_MULTMAX", 2, 1>>, <<"COSMIC_HITWIDTH", 2, 1>>,
     <<"COSMIC_EVALDELAY", 2, 1>>}
CosmicKeys == {<<"COSMIC_EMIN", 1, 1>>, <<"COSMIC_MULTMAX", 1, 1>>, <<"COSMIC_HITWIDTH", 1, 1>>,
               <<"COSMIC_EVALDELAY", 1, 1>>, <<"COSMIC_PIXELEN", 1, 1>>}
PcKeys == {<<"FADCSUM_CH", 1, 16>>} \union CosmicKeys
CounterKeys == {<<"THRESHOLDS", 1, 3>>, <<"NFRAMES", 1, 1>>}
HtccKeys == CounterKeys \union {<<"CTOF_THRESHOLDS", 1, 3>>, <<"CTOF_NFRAMES", 1, 1>>}
StripKeys == CounterKeys \union {<<"DIPFACTOR", 1, 1>>, <<"NSTRIP", 1, 2>>, <<"DALITZ", 1, 2>>}
PcsKeys == StripKeys \union CosmicKeys \union {<<"PCU_THRESHOLDS", 1, 3>>}
EcsKeys ==
    StripKeys \union {<<"FADCSUM_CH", 1, 16>>, <<"COSMIC_EMIN", 2, 1>>, <<"COSMIC_MULTMAX", 2, 1>>,
                      <<"COSMIC_HITWIDTH", 2, 1>>, <<"COSMIC_EVALDELAY", 2, 1>>}
\* Keys that act on the trigger bit the last VTP_GT_TRG selected.
GtRowKeys ==
    {<<"STRIGGER_MASK", NumTrg, 2>>, <<"CTRIGGER_MASK", NumTrg, 1>>, <<"SECTOR_MASK", NumTrg, 2>>,
     <<"MULT_MIN", NumTrg, 2>>, <<"SECTOR_WIDTH", NumTrg, 1>>, <<"PULSER_FREQ", NumTrg, 1>>,
     <<"DELAY", NumTrg, 1>>, <<"PRESCALE", NumTrg, 1>>}
GtKeys == GtRowKeys \union {<<"LATENCY", 1, 1>>, <<"WIDTH", 1, 1>>}
\* roadid follows the two thresholds in vtpConf.dc and has no keyword.
DcKeys == {<<"SEGTHR", 2, 1>>, <<"ROADID", 1, 1>>}
HcalKeys == {<<"HIT_DT", 1, 1>>, <<"HIT_EMIN", 1, 1>>}
FtcalKeys ==
    {<<"FADCSUM_CH", 1, 16>>, <<"SEED_EMIN", 1, 1>>, <<"SEED_DT", 1, 1>>, <<"HODO_DT", 1, 1>>,
     <<"CLUSTER_DEADTIME_EMIN", 1, 1>>, <<"CLUSTER_DEADTIME", 1, 1>>}
FthodoKeys == {<<"EMIN", 1, 1>>}
\* VTP_HPS_ECAL_TOP and VTP_HPS_ECAL_BOTTOM set ECAL.
HpsKeys ==
    {<<"ECAL", 1, 1>>, <<"HIT_DT", 1, 1>>, <<"SEED_THR", 1, 1>>, <<"FADCHIT_THR", 1, 1>>,
     <<"HODO_THR", 1, 1>>, <<"HODO_DT", 1, 1>>, <<"LATENCY", 1, 1>>, <<"PRESCALE", NumTrg, 1>>}
CalibKeys ==
    {<<k, 1, 1>> : k \in {"HODOSCOPE_TOP_EN", "HODOSCOPE_BOT_EN", "COSMIC_DT", "COSMIC_TOP_EN",
                         "COSMIC_BOT_EN", "PULSER_EN", "PULSER_FREQ"}}
SingleKeys ==
    {<<k, NumHps, 2>> : k \in {"EMIN", "EMAX", "NMIN", "XMIN"}}
    \union {<<"PDE", NumHps, 5>>, <<"HODO", NumHps, 4>>, <<"EN", NumHps, 1>>}
PairKeys ==
    {<<k, NumHps, 1>> : k \in {"EMIN", "EMAX", "NMIN", "TIMECOINCIDENCE", "EN"}}
    \union {<<"SUMMAX_MIN", NumHps, 3>>, <<"DIFFMAX", NumHps, 2>>, <<"ENERGYDIST", NumHps, 3>>,
            <<"COPLANARITY", NumHps, 2>>, <<"HODO", NumHps, 4>>}
MultKeys ==
    {<<k, NumMult, 1>> : k \in {"EMIN", "EMAX", "NMIN", "DT", "EN"}} \union {<<"MIN", NumMult, 3>>}
FeeKeys ==
    {<<k, 1, 1>> : k \in {"EN", "EMIN", "EMAX", "NMIN"}} \union {<<"PRESCALE", NumFee, 3>>}
\* Keys that act on the event builder the last VTP_STREAMING selected.
StreamRowKeys ==
    {<<"SLOT_EN", 2, 1>>, <<"NSTREAMS", 2, 1>>, <<"CONNECT", 2, 1>>, <<"IPADDR", 2, 4>>,
     <<"SUBNET", 2, 4>>, <<"GATEWAY", 2, 4>>, <<"MAC", 2, 6>>, <<"DESTIP", 2, 4>>,
     <<"DESTIPPORT", 2, 1>>, <<"LOCALPORT", 2, 1>>}
StreamingKeys ==
    StreamRowKeys \union {<<"ROCID", 1, 1>>, <<"NFRAME_BUF", 1, 1>>, <<"FRAMELEN", 1, 1>>}
RocKeys == {<<"ROCID", 1, 1>>, <<"DEST_IP", 1, 1>>, <<"DEST_PORT", 1, 1>>}
ComptonKeys ==
    {<<"VETROC_WIDTH", 1, 1>>, <<"LATENCY", 1, 1>>, <<"WIDTH", 1, 1>>, <<"SCALER_READOUT_EN", 1, 1>>,
     <<"PRESCALE", NumTrg, 1>>, <<"DELAY", NumTrg, 1>>}
    \union {<<k, NumCompton, 1>> :
            k \in {"FADC_THRESHOLD", "FADC_EN_MASK", "EPLANE_MULT_MIN", "EPLANE_MASK"}}

Keys ==
    [VTP |-> CommonKeys, EC |-> EcKeys, PC |-> PcKeys, HTCC |-> HtccKeys, FTOF |-> CounterKeys,
     CND |-> CounterKeys, PCS |-> PcsKeys, ECS |-> EcsKeys, GT |-> GtKeys, DC |-> DcKeys,
     HCAL |-> HcalKeys, FTCAL |-> FtcalKeys, FTHODO |-> FthodoKeys,
     HPS |-> HpsKeys, CALIB |-> CalibKeys, SINGLE |-> SingleKeys, PAIR |-> PairKeys,
     MULT |-> MultKeys, FEE |-> FeeKeys,
     COMPTON |-> ComptonKeys, STREAMING |-> StreamingKeys, ROC |-> RocKeys]

\* vtpDownloadAll and vtpUploadAll know these.
ASSUME FirmwaresAssumption ==
    Firmwares \subseteq {"EC", "PC", "HTCC", "FTOF", "CND", "PCS", "ECS", "GT", "DC", "HCAL", "FTCAL",
                        "FTHODO", "HPS", "COMPTON", "FADCSTREAM", "VCODAROC"}

HpsFamilies == {"HPS", "CALIB", "SINGLE", "PAIR", "MULT", "FEE"}
\* The families of a firmware; the report of HPS prints FTHODO's threshold.
Families(f) ==
    {"VTP"} \union (CASE f = "FADCSTREAM" -> {"STREAMING"} [] f = "VCODAROC" -> {"ROC"}
                      [] f = "HPS" -> HpsFamilies \union {"FTHODO"} [] OTHER -> {f})
OfFamily(fam) == UNION {{<<fam, k[1], i>> : i \in 0 .. k[2] - 1} : k \in Keys[fam]}
Slots == [f \in Firmwares |-> UNION {OfFamily(fam) : fam \in Families(f)}]
KeyOf(s) == <<s[1], s[2]>>
Known == [f \in Firmwares |-> {KeyOf(s) : s \in Slots[f]}]
Entry(key) == CHOOSE k \in Keys[key[1]] : k[1] = key[2]
Rows(key) == Entry(key)[2]
Columns(s) == Entry(KeyOf(s))[3]

-----------------------------------------------------------------------------
(* vtpInitGlobals *)

\* The first columns of a slot, and 0 in the others.
First(s, q) == [c \in 1 .. Columns(s) |-> IF c <= Len(q) THEN q[c] ELSE 0]
Zeros(s) == First(s, <<>>)
\* The defaults that are not zero.
HpsDefaults(key) ==
    CASE key \in {<<fam, k>> : fam \in {"SINGLE", "PAIR", "FEE"}, k \in {"EMIN", "NMIN"}} -> <<1>>
      [] key \in {<<fam, "EMAX">> : fam \in {"SINGLE", "PAIR", "FEE"}} -> <<8191>>
      [] key = <<"SINGLE", "XMIN">> -> <<-31>>
      [] key = <<"PAIR", "SUMMAX_MIN">> -> <<16383>>
      [] key = <<"PAIR", "DIFFMAX">> -> <<8191>>
      [] key = <<"FEE", "PRESCALE">> -> <<-31, -31>>
      [] key = <<"HPS", "PRESCALE">> -> <<1>>
      [] OTHER -> <<>>
StreamingDefaults ==
    [STATS_PORT |-> 19531, SYNC_PKT_LEN |-> 28, NUM_CONNECTIONS |-> 1, NET_MODE |-> 1,
     ENABLE_EJFAT |-> 1, LOCAL_PORT |-> 10001, REFCLK |-> 250]
Default(s) ==
    CASE s[1] = "VTP" /\ s[2] \in DOMAIN StreamingDefaults -> First(s, <<StreamingDefaults[s[2]]>>)
      [] s[1] \in {"GT", "COMPTON"} /\ s[2] = "LATENCY" -> First(s, <<1000>>)
      [] s[1] \in {"GT", "COMPTON"} /\ s[2] = "WIDTH" -> First(s, <<100>>)
      [] KeyOf(s) = <<"GT", "PRESCALE">> -> First(s, <<1>>)
      [] KeyOf(s) = <<"FTCAL", "CLUSTER_DEADTIME_EMIN">> -> First(s, <<16383>>)
      [] KeyOf(s) = <<"COMPTON", "VETROC_WIDTH">> -> First(s, <<2>>)
      [] KeyOf(s) = <<"STREAMING", "NFRAME_BUF">> -> First(s, <<1000>>)
      [] KeyOf(s) = <<"STREAMING", "FRAMELEN">> -> First(s, <<65536>>)
      [] OTHER -> First(s, HpsDefaults(KeyOf(s)))
Defaults == [f \in Firmwares |-> [s \in Slots[f] |-> Default(s)]]
\* Settings vtpInitGlobals leaves as they are.
NotReset == {<<"FTCAL", "HODO_DT", 0>>, <<"FTHODO", "EMIN", 0>>,
             <<"STREAMING", "LOCALPORT", 0>>, <<"STREAMING", "LOCALPORT", 1>>}
\* Mutant: the coincidence window of EC is left as it is too.
InitGlobalsShort(f, conf) ==
    [s \in Slots[f] |->
        IF s \in NotReset \/ s = <<"EC", "HIT_DT", 1>> THEN conf[s] ELSE Defaults[f][s]]
InitGlobals(f, conf) ==
    [s \in Slots[f] |-> IF s \in NotReset THEN conf[s] ELSE Defaults[f][s]]

-----------------------------------------------------------------------------
(* vtpReadConfigFile: one line *)

TrgSelect == <<"GT", "TRG">>
EbSelect == <<"STREAMING", "EB">>
TrgLines == {<<"GT", "TRGBIT">>, <<"GT", "TRGBIT2">>}
Masks == {<<"VTP", "PAYLOAD_EN">>, <<"VTP", "FIBER_EN">>, <<"STREAMING", "SLOT_EN">>,
          <<"COMPTON", "FADC_EN_MASK">>}
\* The lines that are parsed have numbers, as many as an operator wrote; a mask
\* has all of its digits.
Parsed(f) == Known[f] \union TrgLines \union {TrgSelect, EbSelect}
LineOK(f, l) ==
    l.key \in Parsed(f) =>
        l.row \in Int /\ l.vals \in Seq(Int) /\ (l.key \in Masks => l.vals # <<>>)
ASSUME ScenariosAssumption ==
    \A c \in Scenarios :
        /\ c.fw \in Firmwares /\ Len(c.files) \in Nat \ {0}
        /\ \A i \in 1 .. Len(c.files) :
            LET file == c.files[i]
            IN /\ Len(file) \in Nat /\ file = [j \in 1 .. Len(file) |-> file[j]]
               /\ \A j \in 1 .. Len(file) : LineOK(c.fw, file[j])

\* Settings kept when the new value is outside this range.
Allowed(key) ==
    CASE key \in {<<"VTP", "STATS_PORT">>, <<"VTP", "LOCAL_PORT">>} -> 1 .. 65535
      [] key = <<"VTP", "STATS_INST">> -> 0 .. 3
      [] key = <<"VTP", "SYNC_PKT_LEN">> -> 1 .. 1499
      [] key = <<"VTP", "NUM_CONNECTIONS">> -> 1 .. 4
      [] key \in {<<"VTP", "NET_MODE">>, <<"VTP", "ENABLE_EJFAT">>} -> 0 .. 1
Ranged == {<<"VTP", k>> : k \in {"STATS_PORT", "STATS_INST", "SYNC_PKT_LEN", "NUM_CONNECTIONS",
                                 "NET_MODE", "ENABLE_EJFAT", "LOCAL_PORT"}}
\* Missing values of FADCSUM, and the second of a pair of GT, keep the old ones.
Partial == {<<fam, "FADCSUM_CH">> : fam \in {"EC", "PC", "ECS", "FTCAL"}}
           \union {<<"GT", k>> : k \in {"STRIGGER_MASK", "SECTOR_MASK", "MULT_MIN"}}
Keeps(key, c) == key \in Partial /\ (key[1] = "GT" => c = 2)
ByTrgBit(key) == key[1] = "GT" /\ \E k \in GtRowKeys : k[1] = key[2]
ByEb(key) == key[1] = "STREAMING" /\ \E k \in StreamRowKeys : k[1] = key[2]
\* Rows a line may name: one too many for the two thresholds of DC.
Accepted(key) == IF key = <<"DC", "SEGTHR">> THEN 0 .. 2 ELSE 0 .. Rows(key) - 1

\* argi is zero where the line has no value; trg_bit keeps its own.
Given(l, i) == IF i <= Len(l.vals) THEN l.vals[i] ELSE 0
Selected(p, l) == IF l.vals = <<>> THEN p.trgBit ELSE l.vals[1]
\* What vtpReadConfigFile returns at a line, 0 when it reads on.
Error(p, l) ==
    CASE l.key = TrgSelect /\ Selected(p, l) \notin 0 .. NumTrg - 1 -> -4
      [] l.key = EbSelect /\ Given(l, 1) \notin 0 .. 1 -> -4
      [] l.key \in TrgLines /\ l.row \notin 0 .. NumTrg - 1 -> -4
      [] ByTrgBit(l.key) /\ p.trgBit \notin 0 .. NumTrg - 1 -> -4
      [] l.key = <<"DC", "SEGTHR">> /\ l.row \notin Accepted(l.key) -> -1
      [] l.key \in Known[p.fw] /\ ~ByTrgBit(l.key) /\ l.row \notin Accepted(l.key) -> -4
      [] l.key \in Masks /\ l.vals[1] = Bad -> -6
      [] OTHER -> 0

\* VTP_GT_TRGBIT and VTP_GT_TRGBIT2 set a whole trigger bit.
TrgBit(l, key) ==
    LET V(i) == Given(l, i)
    IN CASE key = "STRIGGER_MASK" -> <<V(1), 0>> [] key = "SECTOR_MASK" -> <<V(2), 0>>
         [] key = "MULT_MIN" -> <<V(3), 0>> [] key = "SECTOR_WIDTH" -> <<V(4)>>
         [] key = "CTRIGGER_MASK" -> <<V(5)>>
         [] key = "DELAY" /\ Len(l.vals) >= 6 -> <<V(6)>>
         [] key = "PRESCALE" /\ Len(l.vals) >= 7 -> <<V(7)>> [] OTHER -> <<>>
TrgBit2(l, key) ==
    LET V(i) == Given(l, i)
    IN CASE key = "STRIGGER_MASK" -> <<V(1), V(4)>> [] key = "SECTOR_MASK" -> <<V(2), V(5)>>
         [] key = "MULT_MIN" -> <<V(3), V(6)>> [] key = "SECTOR_WIDTH" -> <<V(7)>>
         [] key = "CTRIGGER_MASK" -> <<V(8)>> [] key = "DELAY" -> <<V(9)>>
         [] key = "PRESCALE" -> <<V(10)>> [] OTHER -> <<>>
TrgBitLine(l, conf) ==
    LET Vals(key) == IF l.key[2] = "TRGBIT2" THEN TrgBit2(l, key) ELSE TrgBit(l, key)
        Set(q, old) == [c \in DOMAIN old |-> IF c <= Len(q) THEN q[c] ELSE old[c]]
    IN [s \in DOMAIN conf |->
            IF s[1] = "GT" /\ s[3] = l.row THEN Set(Vals(s[2]), conf[s]) ELSE conf[s]]

\* The slot a line sets.
Target(p, l) ==
    CASE ByTrgBit(l.key) -> <<"GT", l.key[2], p.trgBit>>
      [] ByEb(l.key) -> <<"STREAMING", l.key[2], p.streamEb>>
      [] l.key = <<"DC", "SEGTHR">> /\ l.row = 2 -> <<"DC", "ROADID", 0>>
      [] OTHER -> <<l.key[1], l.key[2], l.row>>
\* The value the parser makes of one written in the file.
Converted(key, v) ==
    CASE key = <<"EC", "HIT_DALITZ">> -> v * 8
      [] key = <<"STREAMING", "CONNECT">> -> IF v > 0 THEN 0 ELSE 1
      [] key = <<"COMPTON", "SCALER_READOUT_EN">> -> IF v > 0 THEN 1 ELSE 0
      [] OTHER -> v
Stored(l, old) ==
    IF l.key \in Ranged /\ Given(l, 1) \notin Allowed(l.key) THEN old
    ELSE [c \in DOMAIN old |->
            IF c <= Len(l.vals) THEN Converted(l.key, l.vals[c])
            ELSE IF Keeps(l.key, c) THEN old[c] ELSE Converted(l.key, 0)]

\* Mutant: the index of an event builder is not checked.
SettingUnchecked(p, l) ==
    CASE l.key = TrgSelect -> [p EXCEPT !.trgBit = Selected(p, l)]
      [] l.key = EbSelect -> [p EXCEPT !.streamEb = Given(l, 1)]
      [] l.key \in TrgLines /\ Error(p, l) = 0 -> [p EXCEPT !.conf = TrgBitLine(l, @)]
      [] l.key \in Known[p.fw] /\ Error(p, l) = 0 ->
            LET s == Target(p, l) IN [p EXCEPT !.conf[s] = Stored(l, @)]
      [] OTHER -> p
\* A line inside the part of the file that is for this crate.
Setting(p, l) ==
    CASE l.key = TrgSelect -> [p EXCEPT !.trgBit = Selected(p, l)]
      [] l.key = EbSelect /\ Error(p, l) = 0 -> [p EXCEPT !.streamEb = Given(l, 1)]
      [] l.key \in TrgLines /\ Error(p, l) = 0 -> [p EXCEPT !.conf = TrgBitLine(l, @)]
      [] l.key \in Known[p.fw] /\ Error(p, l) = 0 ->
            LET s == Target(p, l) IN [p EXCEPT !.conf[s] = Stored(l, @)]
      [] OTHER -> p
Step(p, l) ==
    CASE l.key = <<"VTP", "CRATE">> -> [p EXCEPT !.active = l.vals[1] \in {"host", "all"}]
      [] p.active /\ l.key # <<"VTP", "CRATE">> -> [Setting(p, l) EXCEPT !.res = Error(p, l)]
      [] OTHER -> p

-----------------------------------------------------------------------------
(* vtpDownloadAll: the setters it calls, in order *)

\* seq(0) \o ... \o seq(n - 1), for a loop over rows.
Loop(n, seq(_)) == FlattenSeq([i \in 1 .. n |-> seq(i - 1)])

\* Mutant: the payload mask is written after the fiber mask.
CommonSwapped(f) == <<Window(f)>> \o FiberMask(f) \o PayloadMask(f)
Common(f) == <<Window(f)>> \o PayloadMask(f) \o FiberMask(f)
EcCalls ==
    LET Half(i) == EcHit(i) \o <<EcDalitz(i)>> \o EcCosmicCtrl("EC", i) \o EcCosmicDelay("EC", i)
    IN <<FadcSum("EC")>> \o Loop(2, Half)
PcCosmic(fam) == PcCosmicCtrl(fam) \o PcCosmicDelay(fam) \o <<PcCosmicPixel(fam)>>
PcCalls == <<FadcSum("PC")>> \o PcCosmic("PC")
HtccCalls == <<Thresholds("HTCC", "THRESHOLDS"), NFrames("HTCC", "NFRAMES"),
               Thresholds("HTCC", "CTOF_THRESHOLDS"), NFrames("HTCC", "CTOF_NFRAMES")>>
CounterCalls(fam) == <<Thresholds(fam, "THRESHOLDS"), NFrames(fam, "NFRAMES")>>
PcsCalls ==
    CounterCalls("PCS") \o PcsStrips \o <<Thresholds("PCS", "PCU_THRESHOLDS")>> \o PcCosmic("PCS")
EcsCalls ==
    LET Half(i) == EcCosmicCtrl("ECS", i) \o EcCosmicDelay("ECS", i)
    IN <<FadcSum("ECS")>> \o CounterCalls("ECS") \o EcsStrips \o Loop(2, Half)
GtCalls ==
    LET Bit(i) == <<GtTriggerBit(i), GtPulserOn(i)>>
    IN <<Latency("GT"), Width("GT")>> \o Loop(NumTrg, Bit)
DcCalls == <<DcThreshold(0), DcThreshold(1)>>
FtcalCalls == <<FadcSum("FTCAL")>> \o FtcalSeed \o FtcalDeadtime
\* After the FEE trigger the pair trigger the loop counter stopped at is
\* written once more: pair 2.
HpsCalls ==
    LET Single(i) == <<HpsSingle(i, "bot"), HpsSingle(i, "top")>>
        Pair(i) == <<HpsPair(i)>>
        Mult(i) == <<HpsMultiplicity(i)>>
    IN <<HpsCluster, HpsHodoscope>> \o Loop(NumHps, Single) \o Loop(NumHps, Pair)
       \o Loop(NumMult, Mult) \o <<HpsFee>> \o (IF NumHps > 2 THEN Pair(2) ELSE <<>>)
ComptonCalls ==
    LET Trigger(i) == TriggerBit(i) \o <<ComptonTrigger(i)>>
    IN Loop(NumCompton, Trigger) \o ComptonCommon \o <<Latency("COMPTON"), Width("COMPTON")>>
\* for(inst=0; inst<1; inst++)
StreamCalls == <<StreamEbCfg, StreamTcpCfg(0)>>

Calls == [f \in Firmwares |->
    Common(f) \o (CASE f = "EC" -> EcCalls [] f = "PC" -> PcCalls [] f = "HTCC" -> HtccCalls
                    [] f \in {"FTOF", "CND"} -> CounterCalls(f) [] f = "PCS" -> PcsCalls
                    [] f = "ECS" -> EcsCalls [] f = "GT" -> GtCalls [] f = "DC" -> DcCalls
                    [] f = "HCAL" -> HcalCluster [] f = "FTCAL" -> FtcalCalls
                    [] f = "FTHODO" -> <<FthodoEmin>> [] f = "HPS" -> HpsCalls
                    [] f = "COMPTON" -> ComptonCalls [] f = "FADCSTREAM" -> StreamCalls
                    [] OTHER -> <<>>)]
FieldsIn(calls) == UNION {calls[i].fields : i \in DOMAIN calls}
RegsIn(calls) == UNION {DOMAIN calls[i].clear : i \in DOMAIN calls}
Fields == [f \in Firmwares |-> FieldsIn(Calls[f])]
\* The registers of a firmware: those of both event builders when streaming.
Regs == [f \in Firmwares |->
    RegsIn(Calls[f]) \union (IF f = "FADCSTREAM" THEN DOMAIN StreamTcpCfg(1).clear ELSE {})]
ByReg(fields, rs) == [r \in rs |-> {x \in fields : x.reg = r}]
FieldsOf == [f \in Firmwares |-> ByReg(Fields[f], Regs[f])]
Cleared(f) == [r \in Regs[f] |-> {}]
DownloadTo(f, conf, r) == FoldLeft(LAMBDA acc, call : Apply(call, conf, acc), r, Calls[f])

-----------------------------------------------------------------------------
(* vtpUploadAll: what is read back, and what is printed *)

\* Fields vtpUploadAll reads back, of those a firmware has.  The payload mask
\* is left to vtpStreamingGetEbCfg, whose block is inside the one for HPS.
CommonReads(fs) ==
    {x \in fs : x.slot \in {<<"VTP", k, 0>> : k \in {"W_OFFSET", "W_WIDTH", "FIBER_EN"}}}
\* ECS reads the inner half into the outer settings, then the outer half.
CalorimeterReads(f, fs) ==
    {x \in fs : x.slot[1] = f
        /\ (f = "ECS" => ~(x.slot[3] = 0 /\ x.slot[2] \in
            {"COSMIC_EMIN", "COSMIC_MULTMAX", "COSMIC_HITWIDTH", "COSMIC_EVALDELAY"}))}
TrackerReads(f, fs) == {x \in fs : x.slot[1] = f /\ ~x.flag}
\* FTCAL reads none of its own settings.
HpsReads(fs) ==
    {x \in fs : x.slot[1] \in HpsFamilies /\ (Len(x.reg) = 1 \/ x.reg[2][1] \notin {"top", "feeTop"})}
ComptonReads(fs) == {x \in fs : x.slot[1] = "COMPTON"}
ReadsOf(f, fs) ==
    CommonReads(fs) \union
    (CASE f \in {"EC", "PC", "HTCC", "FTOF", "CND", "PCS", "ECS"} -> CalorimeterReads(f, fs)
       [] f \in {"GT", "DC", "HCAL", "FTHODO"} -> TrackerReads(f, fs)
       [] f = "HPS" -> HpsReads(fs) [] f = "COMPTON" -> ComptonReads(fs) [] OTHER -> {})
Reads == [f \in Firmwares |-> ReadsOf(f, Fields[f])]
\* Mutant: the ratio of EC is not divided by 8 again.
ReadBackUnscaled(mine, s, r, old) ==
    [c \in DOMAIN old |->
        IF \E x \in mine : x.col = c THEN Get(CHOOSE x \in mine : x.col = c, r) ELSE old[c]]
ReadBack(mine, s, r, old) ==
    [c \in DOMAIN old |->
        IF \E x \in mine : x.col = c
        THEN LET v == Get(CHOOSE x \in mine : x.col = c, r)
             IN IF s[2] = "HIT_DALITZ" THEN v \div 8 ELSE v
        ELSE old[c]]
\* (FTCAL also puts flags from an unset word into a pair trigger of HPS.)
UploadTo(f, r, conf) ==
    [s \in Slots[f] |-> ReadBack({x \in Reads[f] : x.slot = s}, s, r, conf[s])]

Listed(S) == FoldSet(LAMBDA x, q : Append(q, x), <<>>, S)
\* Keywords of the report that the parser does not know.
Misspelt == {<<"COMPTON", "VETROC_WIDTH">>, <<"COMPTON", "FADC_THRESHOLD">>, <<"DC", "ROADID">>}
Printed(s, conf) ==
    LET k == KeyOf(s)
        v == IF k \in {<<"STREAMING", "MAC">>} THEN [c \in 1 .. 6 |-> 0] ELSE conf[s]
        bottom == k = <<"HPS", "ECAL">> /\ v[1] = 0
    IN Line(IF k \in Misspelt \/ bottom THEN <<"unknown", k[2]>> ELSE k, s[3], v)
PrintSet(S, conf) == LET q == Listed(S) IN [i \in DOMAIN q |-> Printed(q[i], conf)]
CommonReport == {<<"VTP", k, 0>> : k \in {"W_WIDTH", "W_OFFSET", "PAYLOAD_EN", "FIBER_EN"}}
GtReport(conf) ==
    LET Bit(i) == <<Line(TrgSelect, 0, <<i>>)>>
                  \o PrintSet({s \in OfFamily("GT") : ByTrgBit(KeyOf(s)) /\ s[3] = i}, conf)
    IN PrintSet({<<"GT", "LATENCY", 0>>, <<"GT", "WIDTH", 0>>}, conf) \o Loop(NumTrg, Bit)
HpsReport == (UNION {OfFamily(fam) : fam \in HpsFamilies}) \union {<<"FTHODO", "EMIN", 0>>}
ComptonReport ==
    {s \in OfFamily("COMPTON") : s[2] \in {"PRESCALE", "DELAY"} => s[3] < NumCompton}
\* "VTP_STREAMING Link <n>:" has no number where the parser looks for one.
StreamReport(conf) ==
    LET Link(i) == <<Line(EbSelect, 0, <<0>>)>>
                   \o PrintSet({s \in OfFamily("STREAMING") : ByEb(KeyOf(s)) /\ s[3] = i}, conf)
    IN PrintSet({s \in OfFamily("STREAMING") : ~ByEb(KeyOf(s))}, conf) \o Loop(2, Link)
FamilyReport(f, conf) ==
    CASE f \in {"EC", "PC", "HTCC", "FTOF", "CND", "PCS", "ECS", "DC", "HCAL", "FTCAL"} ->
            PrintSet(OfFamily(f), conf)
      [] f = "GT" -> GtReport(conf) [] f = "HPS" -> PrintSet(HpsReport, conf)
      [] f = "COMPTON" -> PrintSet(ComptonReport, conf)
      [] f = "FADCSTREAM" -> StreamReport(conf) [] OTHER -> <<>>
Report(f, conf) == PrintSet(CommonReport, conf) \o FamilyReport(f, conf)

-----------------------------------------------------------------------------
(* The program *)

\* The locals of vtpReadConfigFile; trg_bit is not initialised.
Start(f, conf, t) == [fw |-> f, conf |-> conf, active |-> FALSE, trgBit |-> t, streamEb |-> 0, res |-> 0]
ReadAll(p, lines) == FoldLeft(LAMBDA q, l : IF q.res # 0 THEN q ELSE Step(q, l), p, lines)
Garbage == {-1, 0}
fw == case.fw
File == case.files[run]

Init ==
    /\ case \in Scenarios
    /\ rest = <<>> /\ report = <<>> /\ pc = "idle" /\ run = 1
    /\ parse = Start(fw, [s \in Slots[fw] |-> Zeros(s)], -1)
    /\ regs = Cleared(case.fw)

\* vtpInitGlobals, and fopen of the configuration file.
Prestart ==
    /\ pc = "idle" /\ pc' = "read" /\ rest' = File
    /\ \E t \in Garbage : parse' = Start(fw, InitGlobals(fw, parse.conf), t)
    /\ UNCHANGED <<case, regs, report, run>>
\* fopen fails: -1, or -2 without a file name in the environment either.
NoFile ==
    /\ pc = "idle" /\ pc' = "download"
    /\ \E e \in {-1, -2} : parse' = [Start(fw, InitGlobals(fw, parse.conf), -1) EXCEPT !.res = e]
    /\ UNCHANGED <<case, rest, regs, report, run>>

\* Mutant: a comment is pushed back.
ReadLineStuck ==
    /\ pc = "read" /\ rest # <<>> /\ Head(rest) # CommentAtEof
    /\ parse' = Step(parse, Head(rest))
    /\ rest' = IF Head(rest) = Comment THEN rest ELSE Tail(rest)
    /\ pc' = IF parse'.res = 0 THEN "read" ELSE "download"
    /\ UNCHANGED <<case, regs, report, run>>
\* One pass of while((ch = getc(fd)) != EOF): a comment, a line, or a line at
\* which the function returns an error.
ReadLine ==
    /\ pc = "read" /\ rest # <<>> /\ Head(rest) # CommentAtEof
    /\ parse' = Step(parse, Head(rest)) /\ rest' = Tail(rest)
    /\ pc' = IF parse'.res = 0 THEN "read" ELSE "download"
    /\ UNCHANGED <<case, regs, report, run>>
\* while(getc(fd) != '\n') does not look for the end of the file.
SkipForEver ==
    /\ pc = "read" /\ rest # <<>> /\ Head(rest) = CommentAtEof
    /\ UNCHANGED vars
EndOfFile ==
    /\ pc = "read" /\ rest = <<>> /\ pc' = "download"
    /\ UNCHANGED <<case, rest, parse, regs, report, run>>

\* vtpConfig downloads whatever vtpReadConfigFile returned.
Download ==
    /\ pc = "download" /\ pc' = "upload"
    /\ regs' = DownloadTo(fw, parse.conf, regs)
    /\ UNCHANGED <<case, rest, parse, report, run>>
\* vtpUploadAllPrint at the end of vtpDownloadAll.
Upload ==
    /\ pc = "upload" /\ pc' = "done"
    /\ parse' = [parse EXCEPT !.conf = UploadTo(fw, regs, @)]
    /\ report' = Report(fw, parse'.conf)
    /\ UNCHANGED <<case, rest, regs, run>>

\* Another run, with the file as it is by then; rocDownload may have loaded
\* the V7 again.
NextRun ==
    /\ pc = "done" /\ run < Len(case.files) /\ run' = run + 1 /\ pc' = "idle"
    /\ regs' \in {regs, Cleared(fw)}
    /\ UNCHANGED <<case, rest, parse, report>>
Done == pc = "done" /\ run = Len(case.files) /\ UNCHANGED vars

Next ==
    \/ Prestart \/ NoFile \/ ReadLine \/ SkipForEver \/ EndOfFile
    \/ Download \/ Upload \/ NextRun \/ Done
Spec == Init /\ [][Next]_vars
FairSpec == Spec /\ WF_vars(ReadLine \/ EndOfFile)

-----------------------------------------------------------------------------
(* Properties *)

\* Types.  The row selected for GT keys is unknown until a line selects it.
TypeOK ==
    /\ fw \in Firmwares /\ run \in 1 .. Len(case.files)
    /\ pc \in {"idle", "read", "download", "upload", "done"}
    /\ parse.fw = fw /\ DOMAIN parse.conf = Slots[fw]
    /\ \A s \in Slots[fw] : DOMAIN parse.conf[s] = 1 .. Columns(s)
                            /\ \A c \in DOMAIN parse.conf[s] : parse.conf[s][c] \in Int
    /\ parse.active \in BOOLEAN /\ parse.trgBit \in Int /\ parse.streamEb \in 0 .. 1
    /\ parse.res \in {0, -1, -2, -4, -6}
    /\ DOMAIN regs = Regs[fw] /\ \A r \in Regs[fw] : regs[r] \subseteq Word

\* A setting follows the file of this run alone: nothing an earlier file set
\* and nothing an earlier report read back survives vtpInitGlobals.  The
\* settings of NotReset are not among those it assigns.
OnlyThisFile ==
    LET Same(conf) == \A s \in Slots[fw] \ NotReset : parse.conf[s] = conf[s]
    IN pc = "download" =>
        \/ \E t \in Garbage : Same(ReadAll(Start(fw, Defaults[fw], t), File).conf)
        \/ parse.res \in {-1, -2} /\ Same(Defaults[fw])

\* The settings that a register loses: FTCAL's dead time is overwritten by its
\* threshold, HCAL's is limited in nanoseconds to what fits in ticks, and the
\* Compton fields are ORed into those of the run before.
Lost == {<<"FTCAL", "CLUSTER_DEADTIME">>, <<"HCAL", "HIT_DT">>, <<"COMPTON", "FADC_THRESHOLD">>,
         <<"COMPTON", "EPLANE_MULT_MIN">>, <<"COMPTON", "EPLANE_MASK">>}
Value(x) == parse.conf[x.slot][x.col]
Holds(x) == Get(x, regs) = Held(x, Value(x))
\* Every setting is in its register after the download: no setter undoes what
\* another put beside it, and nothing of the run before is left in a field.
\* A register is held to this when all of its settings fit their fields.
SettingsHeld ==
    pc = "upload" => \A r \in Regs[fw] :
        LET kept == {x \in FieldsOf[fw][r] : KeyOf(x.slot) \notin Lost}
        IN (\A x \in kept : Fits(x, Value(x))) => \A x \in kept : Holds(x)

\* Settings whose report the parser does not read as it was printed: misspelt
\* keywords, FTHODO's threshold (printed for HPS only), and the two event
\* builders of the streaming firmware, both read as number 0.
Unreported(x) ==
    KeyOf(x.slot) \in Misspelt \/ x.slot[1] \in {"FTHODO", "STREAMING"} \/ KeyOf(x.slot) \in Lost
\* The report is a configuration file: a crate configured from it, after the
\* firmware is loaded, has the registers this crate has.
ReportRestores ==
    pc = "done" =>
        LET p == ReadAll([Start(fw, Defaults[fw], -1) EXCEPT !.active = TRUE], report)
            r == DownloadTo(fw, p.conf, Cleared(fw))
        IN p.res = 0 /\ \A x \in Fields[fw] :
                Unreported(x) \/ r[x.reg] \cap Span(x) = regs[x.reg] \cap Span(x)

\* Reading ends, unless the file ends in a comment without a newline.
ReadEnds ==
    (pc = "read" /\ \A i \in DOMAIN rest : rest[i] # CommentAtEof) ~> pc = "download"
=============================================================================
