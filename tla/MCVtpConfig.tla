---------------------------- MODULE MCVtpConfig -----------------------------
(* Instances of VtpConfig for TLC. *)
EXTENDS VtpConfig

AllFirmwares == {"EC", "PC", "HTCC", "FTOF", "CND", "PCS", "ECS", "GT", "DC", "HCAL", "FTCAL",
                 "FTHODO", "HPS", "COMPTON", "FADCSTREAM", "VCODAROC"}

\* The largest setting that fits a field, or one that does not.
AtMost(v, top) == IF v > top THEN top ELSE v
Limit(x) ==
    IF x.max < Huge THEN x.max
    ELSE IF x.n > 20 THEN 1000 ELSE IF x.signed THEN 2^(x.n - 1) - 1 ELSE 2^x.n - 1
InField(x, m) == IF x.n < 20 THEN AtMost(m, 2^x.n - 1) ELSE m
LargestIn(x) ==
    IF x.flag THEN 1
    ELSE AtMost(x.unit * InField(x, Limit(x)), IF x.top = 0 THEN Huge ELSE x.top)
         \div (IF x.slot[2] = "HIT_DALITZ" THEN 8 ELSE 1)
\* What column c of a slot gets, of the fields of the slot.
Largest(fs, c) ==
    IF \E x \in fs : x.col = c THEN LargestIn(CHOOSE x \in fs : x.col = c) ELSE 1
High(f, s) ==
    LET Of(fs) == [c \in 1 .. Columns(s) |-> Largest(fs, c)]
    IN Of({x \in Fields[f] : x.slot = s})
Low(s) == [c \in 1 .. Columns(s) |-> IF c = 1 THEN 1 ELSE 0]
Over(f, s) == LET Beyond(q) == [c \in DOMAIN q |-> q[c] + 1] IN Beyond(High(f, s))

\* The lines that set a slot: its selection first where it has one.
Lines(s, v) ==
    (IF ByTrgBit(KeyOf(s)) THEN <<Line(TrgSelect, 0, <<s[3]>>)>>
     ELSE IF ByEb(KeyOf(s)) THEN <<Line(EbSelect, 0, <<s[3]>>)>> ELSE <<>>)
    \o <<Line(KeyOf(s), s[3], v)>>
One(s, v) == <<Crate("host")>> \o Lines(s, v)
Full(f, v(_, _)) ==
    LET q == Listed(Slots[f])
    IN <<Crate("all"), Comment>> \o FlattenSeq([i \in DOMAIN q |-> Lines(q[i], v(f, q[i]))])
LowOf(f, s) == Low(s)

\* Files with parts for other crates, lines outside them and lines in error.
Host(lines) == <<Crate("host")>> \o lines
Wide(w) == Line(<<"VTP", "W_WIDTH">>, 0, <<w>>)
Odd(f) ==
    {<<Crate("other"), Wide(400)>> \o Host(<<Wide(80)>>), <<Wide(400)>>,
     Host(<<Wide(400), Line(<<"VTP", "PAYLOAD_EN">>, 0, <<Bad>>)>>),
     Host(<<Line(<<"VTP", "STATS_PORT">>, 0, <<70000>>), Line(<<"unknown", "X">>, 0, <<1>>)>>),
     Host(<<Wide(400), CommentAtEof>>)}
    \union (CASE f = "DC" ->
                {Host(<<Line(<<"DC", "SEGTHR">>, 2, <<7>>), Line(<<"DC", "SEGTHR">>, 3, <<7>>)>>)}
              [] f = "GT" ->
                {Host(<<Line(<<"GT", "DELAY">>, 0, <<5>>)>>),
                 Host(<<Line(TrgSelect, 0, <<>>), Line(<<"GT", "TRGBIT">>, 0, <<3>>)>>),
                 Host(<<Line(TrgSelect, 0, <<NumTrg>>), Line(<<"GT", "DELAY">>, 0, <<5>>)>>),
                 Host(<<Line(TrgSelect, 0, <<1>>), Line(<<"GT", "SECTOR_MASK">>, 0, <<9>>)>>),
                 Host(<<Line(<<"GT", "TRGBIT">>, 1, <<3, 1, 2, 4, 1>>),
                        Line(<<"GT", "TRGBIT">>, 0, <<3, 1, 2, 4, 1, 5, 6>>)>>),
                 Host(<<Line(<<"GT", "TRGBIT2">>, 1, <<3, 1, 2, 3, 1, 2, 4, 1, 5, 6>>),
                        Line(<<"GT", "TRGBIT2">>, NumTrg, <<>>)>>)}
              [] f = "FADCSTREAM" -> {Host(<<Line(EbSelect, 0, <<2>>)>>)}
              [] f = "HPS" -> {Host(<<Line(<<"SINGLE", "EN">>, NumHps, <<1>>)>>)}
              [] OTHER -> {})

\* Two runs: a file, and the same file with a setting changed or removed.
AllScenarios ==
    UNION {
        {[fw |-> f, files |-> <<One(s, High(f, s)), One(s, Low(s))>>] : s \in Slots[f]}
        \union {[fw |-> f, files |-> <<One(s, Over(f, s)), <<Crate("host")>>>>] : s \in Slots[f]}
        \union {[fw |-> f, files |-> <<Full(f, High), Full(f, LowOf)>>]}
        \union {[fw |-> f, files |-> <<q, <<>>>>] : q \in Odd(f)} : f \in Firmwares}
=============================================================================
