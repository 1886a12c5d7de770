-------------------------- MODULE RocReadout_proofs --------------------------
(***************************************************************************)
(* Proofs about RocReadout: types, the event builder of a run, the order   *)
(* of the events on a connection, and that each is made of its own words.  *)
(***************************************************************************)
EXTENDS RocReadout, WellFoundedInduction, TLAPS

-----------------------------------------------------------------------------
(* The words of a FIFO *)

EventType == {"HELLO", "PRESTART", "USER", "GO", "END"}
Run == [of : EventType, n : Nat \ {0}]

\* Induction over the naturals, from the minimum of the counterexamples.
LEMMA Induction == ASSUME NEW S \in SUBSET Nat, 0 \in S, \A n \in S : n + 1 \in S PROVE S = Nat
<1> SUFFICES ASSUME Nat \ S # {} PROVE FALSE
  OBVIOUS
<1> DEFINE R == {ss \in Nat \X Nat : ss[1] < ss[2]}
<1>1. IsWellFoundedOn(R, Nat)
  BY NatLessThanWellFounded DEF OpToRel
<1> HIDE DEF R
<1>2. PICK x \in Nat \ S : \A y \in Nat \ S : ~ (<<y, x>> \in R)
  BY <1>1, WFMin
<1>3. x - 1 \in Nat /\ x - 1 < x /\ (x - 1) + 1 = x
  OBVIOUS
<1>4. x - 1 \in S
  <2>1. <<x - 1, x>> \in R
    BY <1>3 DEF R
  <2> QED BY <1>2, <1>3, <2>1
<1> QED BY <1>3, <1>4

\* The sums of the first n runs of q.
SumsOf(q, s) ==
    /\ s \in [0 .. Len(q) -> Nat] /\ s[0] = 0
    /\ \A n \in 0 .. Len(q) - 1 : s[n + 1] = s[n] + q[n + 1].n
IterOf(q, k, f) == f = [S \in SUBSET (1 .. k) |-> IF S = {} THEN 0 ELSE f[S \ {Max(S)}] + q[Max(S)].n]
LEMMA MaxOf == ASSUME NEW k \in Nat, NEW S \in SUBSET (1 .. k+1), k+1 \in S PROVE Max(S) = k+1
<1>1. k + 1 \in S /\ \A y \in S : k + 1 >= y
  OBVIOUS
<1>2. /\ (CHOOSE x \in S : \A y \in S : x >= y) \in S
      /\ \A y \in S : (CHOOSE x \in S : \A z \in S : x >= z) >= y
  BY <1>1
<1>3. Max(S) \in S /\ \A y \in S : Max(S) >= y
  BY <1>2 DEF Max
<1>4. \A y \in S : y \in Nat /\ y <= k + 1
  OBVIOUS
<1>5. Max(S) \in Nat /\ Max(S) <= k + 1
  BY <1>3, <1>4
<1>6. Max(S) >= k + 1
  BY <1>1, <1>3
<1> QED BY <1>5, <1>6

LEMMA IterExists == ASSUME NEW q, NEW k \in Nat PROVE \E f : IterOf(q, k, f)
<1> DEFINE T == {n \in Nat : \E f : IterOf(q, n, f)}
<1>1. 0 \in T
  <2> DEFINE f == [S \in SUBSET (1 .. 0) |-> 0]
  <2>1. IterOf(q, 0, f)
    BY DEF IterOf
  <2> QED BY <2>1
<1>2. \A n \in T : n + 1 \in T
  <2> SUFFICES ASSUME NEW n \in Nat, NEW f, IterOf(q, n, f) PROVE \E g : IterOf(q, n+1, g)
    OBVIOUS
  <2> DEFINE g == [S \in SUBSET (1 .. n+1) |-> IF n+1 \in S THEN f[S \ {n+1}] + q[n+1].n ELSE f[S]]
  <2>1. ASSUME NEW S \in SUBSET (1 .. n+1), n + 1 \in S PROVE g[S] = g[S \ {Max(S)}] + q[Max(S)].n
    <3>1. Max(S) = n + 1
      BY <2>1, MaxOf
    <3>2. S \ {n + 1} \in SUBSET (1 .. n + 1) /\ n + 1 \notin S \ {n + 1}
      OBVIOUS
    <3>3. g[S \ {n + 1}] = f[S \ {n + 1}]
      BY <3>2
    <3>4. g[S] = f[S \ {n + 1}] + q[n + 1].n
      BY <2>1
    <3> HIDE DEF g
    <3> QED BY <3>1, <3>3, <3>4
  <2>2. ASSUME NEW S \in SUBSET (1 .. n+1), n + 1 \notin S, S # {}
               PROVE  g[S] = g[S \ {Max(S)}] + q[Max(S)].n
    <3>1. S \in SUBSET (1 .. n) /\ S \ {Max(S)} \in SUBSET (1 .. n)
      <4>1. \A i \in S : i \in 1 .. n
        BY <2>2
      <4> QED BY <4>1
    <3>2. f[S] = f[S \ {Max(S)}] + q[Max(S)].n
      BY <2>2, <3>1 DEF IterOf
    <3> QED BY <2>2, <3>1, <3>2
  <2>3. g[{}] = 0
    BY DEF IterOf
  <2>4. g = [S \in SUBSET (1 .. n+1) |-> g[S]]
    OBVIOUS
  <2> HIDE DEF g
  <2>5. \A S \in SUBSET (1 .. n+1) : g[S] = IF S = {} THEN 0 ELSE g[S \ {Max(S)}] + q[Max(S)].n
    BY <2>1, <2>2, <2>3
  <2>6. IterOf(q, n+1, g)
    BY <2>4, <2>5 DEF IterOf
  <2> QED BY <2>6
<1> HIDE DEF T
<1>3. T = Nat
  BY <1>1, <1>2, Induction DEF T
<1> QED BY <1>3 DEF T

LEMMA FillIter == ASSUME NEW q \in Seq(Run) PROVE \E f : IterOf(q, Len(q), f) /\ Fill(q) = f[1 .. Len(q)]
<1>1. DOMAIN q = 1 .. Len(q) /\ Len(q) \in Nat
  OBVIOUS
<1> DEFINE It(f) == f = [S \in SUBSET (1 .. Len(q)) |->
                IF S = {} THEN 0 ELSE f[S \ {Max(S)}] + q[Max(S)].n]
<1>2. Fill(q) = (CHOOSE f : It(f))[1 .. Len(q)]
  BY <1>1 DEF Fill, FoldLeft, MapThenFoldSet
<1>3. \E f : It(f)
  BY <1>1, IterExists DEF IterOf
<1>4. It(CHOOSE f : It(f))
  BY <1>3
<1> QED BY <1>2, <1>4 DEF IterOf

LEMMA FillSums ==
    ASSUME NEW q \in Seq(Run) PROVE \E s : SumsOf(q, s) /\ Fill(q) = s[Len(q)]
<1>a. \A n \in 1 .. Len(q) : q[n] \in Run
  OBVIOUS
<1>0. Len(q) \in Nat /\ \A n \in 1 .. Len(q) : q[n].n \in Nat
  BY <1>a DEF Run
<1>1. PICK f : IterOf(q, Len(q), f) /\ Fill(q) = f[1 .. Len(q)]
  BY FillIter
<1> DEFINE s == [n \in 0 .. Len(q) |-> f[1 .. n]]
<1>2. s[0] = 0
  <2>1. (1 .. 0) \in SUBSET (1 .. Len(q)) /\ (1 .. 0) = {}
    BY <1>0
  <2> QED BY <1>0, <1>1, <2>1 DEF IterOf
<1>3. ASSUME NEW n \in 0 .. Len(q) - 1 PROVE s[n + 1] = s[n] + q[n + 1].n
  <2>0. n \in Nat /\ n + 1 <= Len(q) /\ n + 1 \in 1 .. n + 1
    BY <1>0
  <2>a. \A i \in 1 .. n + 1 : i \in 1 .. Len(q)
    BY <1>0, <2>0
  <2>b. n \in 0 .. Len(q) /\ n + 1 \in 0 .. Len(q)
    BY <1>0, <2>0
  <2>1. /\ n \in 0 .. Len(q) /\ n + 1 \in 0 .. Len(q) /\ n \in Nat
        /\ (1 .. n + 1) \in SUBSET (1 .. Len(q)) /\ (1 .. n + 1) # {}
        /\ n + 1 \in 1 .. n + 1
    BY <2>0, <2>a, <2>b, Zenon
  <2>2. Max(1 .. n + 1) = n + 1
    BY <2>1, MaxOf
  <2>3. (1 .. n + 1) \ {n + 1} = 1 .. n
    BY <2>1
  <2>4. f[1 .. n + 1] = f[(1 .. n + 1) \ {Max(1 .. n + 1)}] + q[Max(1 .. n + 1)].n
    BY <1>1, <2>1 DEF IterOf
  <2>5. f[1 .. n + 1] = f[1 .. n] + q[n + 1].n
    BY <2>2, <2>3, <2>4
  <2> QED BY <2>1, <2>5
<1>4. s = [n \in 0 .. Len(q) |-> s[n]] /\ s[Len(q)] = f[1 .. Len(q)]
  BY <1>0
<1> HIDE DEF s
<1> DEFINE T == {n \in Nat : n <= Len(q) => s[n] \in Nat}
<1>5. 0 \in T
  BY <1>2
<1>6. ASSUME NEW n \in T PROVE n + 1 \in T
  <2>1. SUFFICES ASSUME n + 1 <= Len(q) PROVE s[n + 1] \in Nat
    OBVIOUS
  <2>2. n \in 0 .. Len(q) - 1 /\ n + 1 \in 1 .. Len(q) /\ s[n] \in Nat
    BY <1>0, <2>1
  <2>3. s[n + 1] = s[n] + q[n + 1].n
    BY <1>3, <2>2
  <2> QED BY <1>0, <2>2, <2>3
<1> HIDE DEF T
<1>7. T = Nat
  BY <1>5, <1>6, Induction DEF T
<1>8. \A n \in 0 .. Len(q) : s[n] \in Nat
  BY <1>0, <1>7 DEF T
<1>9. SumsOf(q, s)
  BY <1>2, <1>3, <1>4, <1>8 DEF SumsOf
<1> QED BY <1>1, <1>4, <1>9

\* p comes in q after d runs.
PartOf(p, q, d) ==
    /\ p \in Seq(Run) /\ q \in Seq(Run) /\ d \in Nat /\ d + Len(p) <= Len(q)
    /\ \A j \in 1 .. Len(p) : p[j] = q[d + j]
\* The sums over a part of q that starts after d runs.
LEMMA SumsOfPart ==
    ASSUME NEW q, NEW p, NEW d, PartOf(p, q, d),
           NEW s, SumsOf(q, s), NEW t, SumsOf(p, t)
    PROVE  \A n \in 0 .. Len(p) : s[d + n] = s[d] + t[n]
<1> p \in Seq(Run) /\ q \in Seq(Run) /\ d \in Nat /\ d + Len(p) <= Len(q)
  BY DEF PartOf
<1>b. \A j \in 1 .. Len(p) : p[j] = q[d + j]
  BY DEF PartOf
<1>a. \A n \in 1 .. Len(p) : p[n] \in Run
  OBVIOUS
<1>0. Len(p) \in Nat /\ Len(q) \in Nat /\ \A j \in 1 .. Len(p) : p[j].n \in Nat
  BY <1>a DEF Run
<1> DEFINE T == {n \in Nat : n <= Len(p) => s[d + n] = s[d] + t[n]}
<1>1. 0 \in T
  <2>1. t[0] = 0
    BY DEF SumsOf
  <2>2. d \in 0 .. Len(q) /\ d + 0 = d
    BY <1>0
  <2>3. s[d] \in Nat
    BY <2>2 DEF SumsOf
  <2> QED BY <2>1, <2>2, <2>3
<1>2. ASSUME NEW n \in T PROVE n + 1 \in T
  <2>1. SUFFICES ASSUME n + 1 <= Len(p) PROVE s[d + (n + 1)] = s[d] + t[n + 1]
    OBVIOUS
  <2>2. /\ n \in 0 .. Len(p) - 1 /\ n + 1 \in 1 .. Len(p) /\ n \in 0 .. Len(p)
        /\ d + n \in 0 .. Len(q) - 1 /\ d + n + 1 = d + (n + 1) /\ d \in 0 .. Len(q)
        /\ s[d + n] = s[d] + t[n]
    BY <1>0, <2>1
  <2>3. t[n + 1] = t[n] + p[n + 1].n /\ t[n] \in Nat /\ s[d] \in Nat
    BY <2>2 DEF SumsOf
  <2>4. s[d + n + 1] = s[d + n] + q[d + n + 1].n
    BY <2>2 DEF SumsOf
  <2>5. q[d + n + 1].n = p[n + 1].n /\ p[n + 1].n \in Nat
    BY <1>0, <1>b, <2>2
  <2> QED BY <2>2, <2>3, <2>4, <2>5
<1> HIDE DEF T
<1>3. T = Nat
  BY <1>1, <1>2, Induction DEF T
<1> QED BY <1>0, <1>3 DEF T

LEMMA FillType == ASSUME NEW q \in Seq(Run) PROVE Fill(q) \in Nat
<1>1. PICK s : SumsOf(q, s) /\ Fill(q) = s[Len(q)]
  BY FillSums
<1>2. Len(q) \in 0 .. Len(q)
  OBVIOUS
<1> QED BY <1>1, <1>2 DEF SumsOf

LEMMA FillEmpty == Fill(<<>>) = 0
<1>0. <<>> \in Seq(Run) /\ Len(<<>>) = 0
  OBVIOUS
<1>1. PICK s : SumsOf(<<>>, s) /\ Fill(<<>>) = s[0]
  BY <1>0, FillSums
<1> QED BY <1>1 DEF SumsOf

LEMMA FillAppend ==
    ASSUME NEW q \in Seq(Run), NEW r \in Run PROVE Fill(Append(q, r)) = Fill(q) + r.n
<1>0. /\ Append(q, r) \in Seq(Run) /\ Len(q) \in Nat /\ Len(Append(q, r)) = Len(q) + 1
      /\ Append(q, r)[Len(q) + 1] = r /\ \A j \in 1 .. Len(q) : q[j] = Append(q, r)[0 + j]
  OBVIOUS
<1>1. PICK t : SumsOf(q, t) /\ Fill(q) = t[Len(q)]
  BY FillSums
<1>2. PICK s : SumsOf(Append(q, r), s) /\ Fill(Append(q, r)) = s[Len(q) + 1]
  BY <1>0, FillSums
<1>a. 0 \in Nat /\ 0 + Len(q) <= Len(Append(q, r)) /\ Len(q) \in 0 .. Len(q)
  BY <1>0
<1>b. \A n \in 0 .. Len(q) : s[0 + n] = s[0] + t[n]
  <2>1. PartOf(q, Append(q, r), 0)
    BY <1>0, <1>a DEF PartOf
  <2> QED BY <1>1, <1>2, <2>1, SumsOfPart
<1>3. s[0 + Len(q)] = s[0] + t[Len(q)]
  BY <1>a, <1>b
<1>4. s[0] = 0 /\ t[Len(q)] \in Nat
  BY <1>1, <1>2, <1>a, Zenon DEF SumsOf
<1>5. s[Len(q) + 1] = s[Len(q)] + r.n
  <2>1. Len(q) \in 0 .. Len(Append(q, r)) - 1
    BY <1>0
  <2>2. s[Len(q) + 1] = s[Len(q)] + Append(q, r)[Len(q) + 1].n
    BY <1>2, <2>1, Zenon DEF SumsOf
  <2> QED BY <1>0, <2>2, Zenon
<1> QED BY <1>0, <1>1, <1>2, <1>3, <1>4, <1>5

LEMMA FillHead ==
    ASSUME NEW q \in Seq(Run), q # <<>> PROVE Fill(q) = Head(q).n + Fill(Tail(q))
<1>0. PICK p : p = Tail(q)
  OBVIOUS
<1>1. /\ p \in Seq(Run) /\ Len(p) \in Nat /\ 1 + Len(p) = Len(q)
      /\ Head(q) = q[1] /\ q[1] \in Run /\ \A j \in 1 .. Len(p) : p[j] = q[1 + j]
  BY <1>0
<1>2. PICK s : SumsOf(q, s) /\ Fill(q) = s[Len(q)]
  BY FillSums
<1>3. PICK t : SumsOf(p, t) /\ Fill(p) = t[Len(p)]
  BY <1>1, FillSums
<1>4. PartOf(p, q, 1)
  BY <1>1 DEF PartOf
<1>5. \A n \in 0 .. Len(p) : s[1 + n] = s[1] + t[n]
  BY <1>2, <1>3, <1>4, SumsOfPart
<1>6. s[1 + Len(p)] = s[1] + t[Len(p)]
  BY <1>1, <1>5
<1>7. s[0] = 0 /\ s[0 + 1] = s[0] + q[0 + 1].n
  BY <1>1, <1>2 DEF SumsOf
<1>8. s[1] = q[1].n
  BY <1>1, <1>7 DEF Run
<1> QED BY <1>0, <1>1, <1>2, <1>3, <1>6, <1>8

LEMMA FillCons ==
    ASSUME NEW q \in Seq(Run), NEW r \in Run PROVE Fill(<<r>> \o q) = r.n + Fill(q)
<1>1. /\ <<r>> \o q \in Seq(Run) /\ <<r>> \o q # <<>>
      /\ Head(<<r>> \o q) = r /\ Tail(<<r>> \o q) = q
  OBVIOUS
<1> QED BY <1>1, FillHead

-----------------------------------------------------------------------------
(* Where the handlers stand *)

Op == {"open", "z7", "v7", "init", "netfile", "rocreset", "rocconfig", "unflag", "tcpcfg",
       "connect", "wait", "greet", "ebstop", "ebinit", "ebconfig", "hardware", "PRESTART", "file",
       "user", "disable", "blocklevel", "ebstart", "GO", "enable", "count", "END", "close",
       "force", "vtpclose"}
Running == {"prestarted", "active", "paused"}

Rest == {"booted", "downloaded"}
\* The handler that runs, from the states it goes from and to.
Handler ==
    CASE to = "downloaded" -> IF coda \in Rest THEN Download ELSE End
      [] to = "prestarted" -> Prestart
      [] to = "active" -> Go
      [] to = "paused" -> Pause
      [] OTHER -> Reset

\* prog is the end of handler h.
EndOf(h) ==
    /\ Len(prog) <= Len(h)
    /\ \A j \in 1 .. Len(prog) : prog[j] = h[Len(h) - Len(prog) + j]

Runs(state) == prog # <<>> /\ to = state
Left == Len(prog)

FlowInv ==
    /\ coda \in Rest \union Running \union {"error"}
    /\ to \in Rest \union Running
    /\ prog \in Seq(Op)
    /\ err \in BOOLEAN
    /\ dev \in {"closed", "mapped", "stale"}
    /\ prog # <<>> => EndOf(Handler)
    /\ Runs("downloaded") => coda # "error"
    /\ Runs("prestarted") => coda = "downloaded"
    /\ Runs("active") => coda \in {"prestarted", "paused"}
    /\ Runs("paused") => coda = "active"
    /\ Runs("booted") => coda # "booted" /\ ~err
    /\ coda # "booted" => dev = "mapped"
    /\ Runs("downloaded") /\ coda \in Rest /\ Left < 5 => dev = "mapped"

-----------------------------------------------------------------------------
(* The event builder *)

EbType == [ctrl : {"idle", "reset", "run"}, tags : BOOLEAN, pp : SUBSET Ports, level : 0 .. 254]
Configured == eb.tags /\ eb.pp = Ports /\ LevelOk(eb.level)

EbInv ==
    /\ eb \in EbType
    /\ coda \in Running => Configured
    /\ Runs("prestarted") /\ Left < 7 => eb.ctrl = "reset"
    /\ Runs("prestarted") /\ Left < 6 => eb.tags /\ LevelOk(eb.level)
    /\ Runs("prestarted") /\ Left < 5 => eb.pp = Ports

\* No block is read out from the end of a run to the next Go, and the counter
\* of the blocks that wait starts with rocPrestart.
TrigInv ==
    /\ ntrig \in 0 .. MaxTrig /\ trig \in 0 .. MaxTrig /\ tilevel \in Levels \union {0}
    /\ coda = "downloaded" => 0 \notin enable \/ eb.ctrl # "run"
    /\ Runs("downloaded") /\ coda \in Rest /\ Left < 2 => 0 \notin enable
    /\ Runs("downloaded") /\ coda \notin Rest /\ Left < 2 => eb.ctrl # "run"
    /\ Runs("prestarted") /\ Left < 12 => trig = 0
    /\ trig <= ntrig \/ Runs("prestarted")

-----------------------------------------------------------------------------
(* The FIFO of asynchronous events *)

Fits == Fill(data) <= Depth
DataTypeOK ==
    /\ data \in Seq(Run) /\ Fits /\ lens \in Seq(Run)
    /\ need \in [of : EventType \union {"NONE"}, n : Nat, ok : BOOLEAN]
    /\ need.n > 0 => need.of \in EventType
Client == [net : SUBSET Keys, port : 0 .. MaxPort]
LinkTypeOK ==
    /\ got \in [last : EventType \union {"NONE"}, ok : BOOLEAN]
    /\ tcp \in {"down", "asked", "up"}
    /\ net \in SUBSET Keys /\ client \in Client
    /\ emuport \in EmuPorts \union {0}
\* A user event of which words are left is written by the last call of rocPrestart.
UserTypeOK ==
    /\ ubuf \in BankLens \union {0}
    /\ long \in BOOLEAN /\ rem \in Nat
    /\ rem > 0 => Runs("prestarted") /\ Left = 1 /\ long
FifoTypeOK == DataTypeOK /\ LinkTypeOK /\ UserTypeOK

\* What the firmware still has to send.
Due == IF need.n > 0 THEN <<[of |-> need.of, n |-> need.n]>> \o lens ELSE lens
\* The events of the connection: the last one received, then those due.
Line == [k \in 1 .. Len(Due) + 1 |-> IF k = 1 THEN got.last ELSE Due[k - 1].of]
LastDue == Line[Len(Line)]

\* rocPrestart clears the FIFO before it connects.
ClearInv ==
    /\ Runs("prestarted") /\ Left \in 8 .. 11 => data = <<>> /\ lens = <<>> /\ need.n = 0
    /\ Runs("prestarted") /\ Left \in 8 .. 9 => got = Nothing

\* Until a user event finds no room, the words in the FIFO are those of the
\* lengths: what is due.
WholeInv == ~long => data = Due /\ got.ok /\ (need.n > 0 => need.ok)

\* A run whose Prestart was refused goes no further.
Excused == coda = "error" \/ (Runs("prestarted") /\ err) \/ tcp = "down"
MayFollow(a, b) ==
    \/ a = "NONE" /\ b = "HELLO"
    \/ a = "HELLO" /\ b = "PRESTART"
    \/ a \in EventType \ {"HELLO"} /\ Rank[a] <= Rank[b]
Ordered ==
    \A k \in 1 .. Len(Line) - 1 :
        MayFollow(Line[k], Line[k + 1]) \/ (Line[k] = "HELLO" /\ Excused)

OrderInv ==
    /\ Ordered
    /\ Runs("prestarted") /\ Left \in 3 .. 7 => LastDue = "HELLO"
    /\ Runs("prestarted") /\ Left < 3 =>
          \/ LastDue = "PRESTART"
          \/ LastDue = "HELLO" /\ err
          \/ LastDue = "USER" /\ rem > 0
    /\ coda \in Running /\ ~(Runs("downloaded") /\ Left < 3) =>
          LastDue \in {"PRESTART", "USER", "GO"}
    /\ coda = "booted" \/ (Runs("booted") /\ Left < 2) => tcp = "down"

-----------------------------------------------------------------------------
(* The calls of a handler *)

\* The call a handler stands at says how many it has still to make.
InDownload ==
    \/ (At("open") /\ Left = 7) \/ (At("z7") /\ Left = 6) \/ (At("v7") /\ Left = 5)
    \/ (At("init") /\ Left = 4) \/ (At("netfile") /\ Left = 3) \/ (At("rocreset") /\ Left = 2)
    \/ (At("rocconfig") /\ Left = 1)
InPrestart ==
    \/ (At("unflag") /\ Left = 15) \/ (At("rocreset") /\ Left = 14) \/ (At("unflag") /\ Left = 13)
    \/ (At("rocreset") /\ Left = 12) \/ (At("tcpcfg") /\ Left = 11) \/ (At("connect") /\ Left = 10)
    \/ (At("wait") /\ Left = 9) \/ (At("greet") /\ Left = 8) \/ (At("ebstop") /\ Left = 7)
    \/ (At("ebinit") /\ Left = 6) \/ (At("ebconfig") /\ Left = 5) \/ (At("hardware") /\ Left = 4)
    \/ (At("PRESTART") /\ Left = 3) \/ (At("file") /\ Left = 2) \/ (At("user") /\ Left = 1)
InGo ==
    \/ (At("blocklevel") /\ Left = 4) \/ (At("ebstart") /\ Left = 3) \/ (At("GO") /\ Left = 2)
    \/ (At("enable") /\ Left = 1)
InPause ==
    \/ (At("disable") /\ Left = 1)
InEnd ==
    \/ (At("disable") /\ Left = 5) \/ (At("count") /\ Left = 4) \/ (At("END") /\ Left = 3)
    \/ (At("ebstop") /\ Left = 2) \/ (At("close") /\ Left = 1)
InReset ==
    \/ (At("force") /\ Left = 2) \/ (At("vtpclose") /\ Left = 1)
Where ==
    CASE to = "downloaded" -> IF coda \in Rest THEN InDownload ELSE InEnd
      [] to = "prestarted" -> InPrestart
      [] to = "active" -> InGo
      [] to = "paused" -> InPause
      [] OTHER -> InReset

LEMMA Concatenated ==
    ASSUME NEW p \in Seq(Op), NEW q \in Seq(Op)
    PROVE  /\ p \o q \in Seq(Op) /\ Len(p \o q) = Len(p) + Len(q)
           /\ \A i \in 1 .. Len(p) + Len(q) :
                 (p \o q)[i] = IF i <= Len(p) THEN p[i] ELSE q[i - Len(p)]
OBVIOUS

LEMMA PrestartCalls ==
    /\ Len(Prestart) = 15
    /\ Prestart[1] = "unflag" /\ Prestart[2] = "rocreset" /\ Prestart[3] = "unflag"
    /\ Prestart[4] = "rocreset" /\ Prestart[5] = "tcpcfg" /\ Prestart[6] = "connect"
    /\ Prestart[7] = "wait" /\ Prestart[8] = "greet" /\ Prestart[9] = "ebstop"
    /\ Prestart[10] = "ebinit" /\ Prestart[11] = "ebconfig" /\ Prestart[12] = "hardware"
    /\ Prestart[13] = "PRESTART" /\ Prestart[14] = "file" /\ Prestart[15] = "user"
<1> DEFINE most == PrestartNet \o PrestartEb
<1>1. /\ PrestartNet \in Seq(Op) /\ PrestartEb \in Seq(Op) /\ PrestartEvents \in Seq(Op)
      /\ Len(PrestartNet) = 8 /\ Len(PrestartEb) = 4 /\ Len(PrestartEvents) = 3
  BY DEF PrestartNet, PrestartEb, PrestartEvents, Op
<1>2. /\ most \in Seq(Op) /\ Len(most) = 12
      /\ \A i \in 1 .. 12 : most[i] = IF i <= 8 THEN PrestartNet[i] ELSE PrestartEb[i - 8]
  <2>1. /\ most \in Seq(Op) /\ Len(most) = Len(PrestartNet) + Len(PrestartEb)
        /\ \A i \in 1 .. Len(PrestartNet) + Len(PrestartEb) :
              most[i] = IF i <= Len(PrestartNet) THEN PrestartNet[i]
                        ELSE PrestartEb[i - Len(PrestartNet)]
    BY <1>1, Concatenated
  <2> HIDE DEF most
  <2> QED BY <1>1, <2>1
<1> HIDE DEF most
<1>3. /\ Len(Prestart) = 15
      /\ \A i \in 1 .. 15 : Prestart[i] = IF i <= 12 THEN most[i] ELSE PrestartEvents[i - 12]
  <2>1. /\ Len(Prestart) = Len(most) + Len(PrestartEvents)
        /\ \A i \in 1 .. Len(most) + Len(PrestartEvents) :
              Prestart[i] = IF i <= Len(most) THEN most[i] ELSE PrestartEvents[i - Len(most)]
    BY <1>1, <1>2, Concatenated DEF Prestart, most
  <2> QED BY <1>1, <1>2, <2>1
<1>4. \A i \in 1 .. 8 : Prestart[i] = PrestartNet[i]
  BY <1>2, <1>3
<1>5. \A i \in 1 .. 4 : Prestart[i + 8] = PrestartEb[i]
  BY <1>2, <1>3
<1>6. \A i \in 1 .. 3 : Prestart[i + 12] = PrestartEvents[i]
  BY <1>3
<1> QED BY <1>3, <1>4, <1>5, <1>6 DEF PrestartNet, PrestartEb, PrestartEvents

LEMMA Place == ASSUME FlowInv, prog # <<>> PROVE Where
<1>1. prog \in Seq(Op) /\ Left \in Nat /\ Left >= 1 /\ Head(prog) = prog[1] /\ EndOf(Handler)
  BY DEF FlowInv, Left
<1>2. Left <= Len(Handler) /\ Head(prog) = Handler[Len(Handler) - Left + 1]
  BY <1>1 DEF EndOf, Left
<1>3. CASE to = "downloaded" /\ coda \in Rest
  <2>1. Handler = Download
    BY <1>3 DEF Handler
  <2> QED BY <1>1, <1>2, <1>3, <2>1 DEF Where, InDownload, Download, At
<1>4. CASE to = "downloaded" /\ coda \notin Rest
  <2>1. Handler = End
    BY <1>4 DEF Handler
  <2> QED BY <1>1, <1>2, <1>4, <2>1 DEF Where, InEnd, End, At
<1>5. CASE to = "prestarted"
  <2>1. Handler = Prestart
    BY <1>5 DEF Handler
  <2>2. PICK k \in 1 .. 15 : k = 16 - Left /\ Head(prog) = Prestart[k]
    BY <1>1, <1>2, <2>1, PrestartCalls
  <2>3. \A op : At(op) <=> op = Prestart[k]
    BY <2>2, <1>1 DEF At
  <2>4. Left = 16 - k
    BY <1>1, <2>2
  <2>5. InPrestart
    <3>1. CASE k <= 5
      BY <2>3, <2>4, <3>1, PrestartCalls DEF InPrestart
    <3>2. CASE k > 5 /\ k <= 10
      BY <2>3, <2>4, <3>2, PrestartCalls DEF InPrestart
    <3>3. CASE k > 10
      BY <2>3, <2>4, <3>3, PrestartCalls DEF InPrestart
    <3> QED BY <3>1, <3>2, <3>3
  <2> QED BY <1>5, <2>5 DEF Where
<1>6. CASE to = "active"
  <2>1. Handler = Go
    BY <1>6 DEF Handler
  <2> QED BY <1>1, <1>2, <1>6, <2>1 DEF Where, InGo, Go, At
<1>7. CASE to = "paused"
  <2>1. Handler = Pause
    BY <1>7 DEF Handler
  <2> QED BY <1>1, <1>2, <1>7, <2>1 DEF Where, InPause, Pause, At
<1>8. CASE /\ to # "downloaded" /\ to # "prestarted"
          /\ to # "active" /\ to # "paused"
  <2>1. Handler = Reset
    BY <1>8 DEF Handler
  <2> QED BY <1>1, <1>2, <1>8, <2>1 DEF Where, InReset, Reset, At
<1> QED BY <1>3, <1>4, <1>5, <1>6, <1>7, <1>8

\* A call returns to the handler, or to the ROC if it was its last.
Returns ==
    /\ prog # <<>> /\ prog' = Tail(prog) /\ to' = to /\ err' \in BOOLEAN /\ (err => err')
    /\ coda' = IF prog' # <<>> THEN coda ELSE IF err' THEN "error" ELSE to
    /\ err' = err \/ At("netfile") \/ At("PRESTART")
\* What calls do to the handler and the mapping.
CallStep ==
    \/ Returns /\ dev' = dev /\ ~At("open") /\ ~At("vtpclose") /\ (At("v7") => dev = "mapped")
    \/ Returns /\ At("open") /\ dev' \in IF dev = "closed" THEN {"closed", "mapped"} ELSE {dev}
    \/ Returns /\ At("vtpclose") /\ dev' \in {dev, "stale"}
    \/ /\ At("init") /\ prog' = <<>> /\ to' = to /\ err' = TRUE /\ coda' = "error" /\ dev' = dev
    \/ LoadUnmapped
    \/ At("user") /\ UNCHANGED <<coda, prog, to, err, dev>>

LEMMA CallCases == ASSUME FlowInv, Calls PROVE CallStep
<1>0. err \in BOOLEAN
  BY DEF FlowInv
<1>1. ASSUME NEW rest, rest = Tail(prog), prog # <<>>, NEW failed \in BOOLEAN, Then(rest, failed),
             failed = err \/ (failed /\ (At("netfile") \/ At("PRESTART")))
      PROVE Returns
  BY <1>0, <1>1 DEF Then, Returns
<1>2. ASSUME prog # <<>>, Advance PROVE Returns
  BY <1>0, <1>1, <1>2 DEF Advance
<1>3. ASSUME NEW op, op \notin {"open", "vtpclose"}, At(op), Advance, UNCHANGED dev,
             op = "v7" => dev = "mapped"
      PROVE CallStep
  <2>1. Returns /\ ~At("open") /\ ~At("vtpclose") /\ (At("v7") => dev = "mapped")
    BY <1>2, <1>3 DEF At
  <2> QED BY <1>3, <2>1 DEF CallStep
<1>4. CASE Open
  BY <1>2, <1>4 DEF Open, CallStep, At
<1>5. CASE CloseVtp
  BY <1>2, <1>5 DEF CloseVtp, CallStep, At
<1>6. CASE LoadZ7 \/ LoadV7 \/ ConfigRoc \/ ResetRoc \/ Unflag \/ SetTcpCfg \/ Connect
  BY <1>3, <1>6 DEF LoadZ7, LoadV7, ConfigRoc, ResetRoc, Unflag, SetTcpCfg, Connect, Call
<1>7. CASE WaitConnection \/ Greet \/ StopEb \/ InitEb \/ ConfigEb \/ Hardware \/ SetLevel \/ StartEb
  BY <1>3, <1>7 DEF WaitConnection, Greet, StopEb, InitEb, ConfigEb, Hardware, SetLevel, StartEb,
                    Call
<1>8. CASE File2Event \/ Enable \/ Disable \/ Count \/ Close \/ ForceClose
  BY <1>3, <1>8 DEF File2Event, Enable, Disable, Count, Close, ForceClose, Call
<1>9. CASE LoadUnmapped
  BY <1>9 DEF CallStep
<1>10. CASE InitVtp
  <2>1. CASE Advance
    BY <1>3, <1>10, <2>1 DEF InitVtp
  <2>2. CASE Then(<<>>, TRUE)
    BY <1>10, <2>2 DEF InitVtp, CallStep, Then
  <2> QED BY <1>10, <2>1, <2>2 DEF InitVtp
<1>11. CASE ReadNetFile
  <2>1. CASE Advance
    BY <1>3, <1>11, <2>1 DEF ReadNetFile
  <2>2. CASE Then(Tail(prog), TRUE)
    <3>1. Returns
      BY <1>1, <1>11, <2>2 DEF ReadNetFile, At
    <3> QED BY <1>11, <3>1 DEF ReadNetFile, CallStep, At
  <2> QED BY <1>11, <2>1, <2>2 DEF ReadNetFile
<1>12. ASSUME NEW type, NEW failed \in BOOLEAN, Control(type, failed),
              type \in {"PRESTART", "GO", "END"}, failed => type = "PRESTART"
       PROVE CallStep
  <2>1. CASE Advance
    BY <1>3, <1>12, <2>1 DEF Control
  <2>2. CASE Then(Tail(prog), err \/ failed)
    <3>1. Returns
      BY <1>0, <1>1, <1>12, <2>2 DEF Control, At
    <3> QED BY <1>12, <3>1 DEF Control, CallStep, At
  <2> QED BY <1>12, <2>1, <2>2 DEF Control
<1>13. CASE WritePrestart \/ WriteGo \/ WriteEnd
  BY <1>12, <1>13 DEF WritePrestart, WriteGo, WriteEnd
<1>14. CASE WriteUser \/ WriteUserLoop
  <2>1. CASE Advance
    BY <1>3, <1>14, <2>1 DEF WriteUser, WriteUserLoop
  <2>2. CASE UNCHANGED <<coda, prog, to, err>>
    BY <1>14, <2>2 DEF WriteUser, WriteUserLoop, CallStep
  <2> QED BY <1>14, <2>1, <2>2 DEF WriteUser, WriteUserLoop
<1> QED BY <1>4, <1>5, <1>6, <1>7, <1>8, <1>9, <1>10, <1>11, <1>13, <1>14 DEF Calls

-----------------------------------------------------------------------------
(* The handlers, step by step *)

LEMMA FlowInit == Init => FlowInv
<1> SUFFICES ASSUME Init PROVE FlowInv
  OBVIOUS
<1>1. prog = <<>> /\ coda = "booted" /\ to = "booted" /\ err = FALSE /\ dev = "closed"
  BY DEF Init
<1>2. prog \in Seq(Op) /\ \A state : ~Runs(state)
  BY <1>1 DEF Runs
<1> QED BY <1>1, <1>2 DEF FlowInv, Rest, Running

LEMMA OneLess ==
    ASSUME NEW p \in Seq(Op), p # <<>>
    PROVE  /\ Tail(p) \in Seq(Op) /\ Len(p) \in Nat /\ Len(p) > 0
           /\ Len(Tail(p)) = Len(p) - 1 /\ (Tail(p) = <<>> <=> Len(p) = 1)
           /\ \A j \in 1 .. Len(Tail(p)) : Tail(p)[j] = p[j + 1] /\ j + 1 \in 1 .. Len(p)
<1>1. Tail(p) \in Seq(Op) /\ Len(p) \in Nat /\ Len(p) > 0 /\ Len(Tail(p)) = Len(p) - 1
  OBVIOUS
<1>2. Len(p) - 1 = 0 <=> Len(p) = 1
  BY <1>1
<1>3. Tail(p) = <<>> <=> Len(Tail(p)) = 0
  <2>1. \A q \in Seq(Op) : q = <<>> <=> Len(q) = 0
    OBVIOUS
  <2> QED BY <1>1, <2>1, Zenon
<1>4. \A j \in 1 .. Len(Tail(p)) : Tail(p)[j] = p[j + 1] /\ j + 1 \in 1 .. Len(p)
  OBVIOUS
<1> QED BY <1>1, <1>2, <1>3, <1>4

\* Nothing happens to the handler and the mapping.
LEMMA FlowStays == ASSUME FlowInv, UNCHANGED <<coda, prog, to, err, dev>> PROVE FlowInv'
BY DEF FlowInv, Runs, EndOf, Handler, Left

LEMMA FlowCommand ==
    ASSUME FlowInv, Commands PROVE FlowInv'
<1>1. ASSUME NEW h, h \in Seq(Op), h # <<>>, Handler' = h, prog' = h PROVE EndOf(Handler)'
  BY <1>1 DEF EndOf
<1>2. /\ Download \in Seq(Op) /\ Go \in Seq(Op) /\ Pause \in Seq(Op) /\ End \in Seq(Op)
      /\ Reset \in Seq(Op) /\ Download # <<>> /\ Go # <<>> /\ Pause # <<>> /\ End # <<>>
      /\ Reset # <<>> /\ Len(Download) = 7
  BY DEF Download, Go, Pause, End, Reset, Op
<1>3. Prestart \in Seq(Op) /\ Prestart # <<>>
  <2>1. PrestartNet \in Seq(Op) /\ PrestartEb \in Seq(Op) /\ PrestartEvents \in Seq(Op)
    BY DEF PrestartNet, PrestartEb, PrestartEvents, Op
  <2> QED BY <2>1, PrestartCalls DEF Prestart
<1>4. CASE Command({"booted", "downloaded"}, Download, "downloaded")
  <2>1. /\ coda \in {"booted", "downloaded"} /\ prog' = Download /\ to' = "downloaded"
        /\ err' = FALSE /\ coda' = coda /\ dev' = dev
    BY <1>4 DEF Command
  <2>2. Handler' = Download
    BY <2>1 DEF Handler, Rest
  <2>3. EndOf(Handler)'
    BY <1>1, <1>2, <2>1, <2>2
  <2>4. ~(Left < 5)'
    <3>1. prog' = Download /\ Len(Download) = 7
      BY <1>2, <2>1
    <3>2. Len(prog') = 7
      BY <3>1, Zenon
    <3> QED BY <3>2 DEF Left
  <2> QED BY <1>2, <2>1, <2>3, <2>4 DEF FlowInv, Runs, Rest, Running
<1>5. CASE Command({"downloaded"}, Prestart, "prestarted")
  <2>1. /\ coda \in {"downloaded"} /\ prog' = Prestart /\ to' = "prestarted"
        /\ err' = FALSE /\ coda' = coda /\ dev' = dev
    BY <1>5 DEF Command
  <2>2. Handler' = Prestart
    BY <2>1 DEF Handler, Rest
  <2>3. EndOf(Handler)'
    BY <1>1, <1>3, <2>1, <2>2
  <2> QED BY <1>3, <2>1, <2>3 DEF FlowInv, Runs, Rest, Running, Left
<1>6. CASE Command({"prestarted", "paused"}, Go, "active")
  <2>1. /\ coda \in {"prestarted", "paused"} /\ prog' = Go /\ to' = "active"
        /\ err' = FALSE /\ coda' = coda /\ dev' = dev
    BY <1>6 DEF Command
  <2>2. Handler' = Go
    BY <2>1 DEF Handler, Rest
  <2>3. EndOf(Handler)'
    BY <1>1, <1>2, <2>1, <2>2
  <2> QED BY <1>2, <2>1, <2>3 DEF FlowInv, Runs, Rest, Running, Left
<1>7. CASE Command({"active"}, Pause, "paused")
  <2>1. /\ coda \in {"active"} /\ prog' = Pause /\ to' = "paused"
        /\ err' = FALSE /\ coda' = coda /\ dev' = dev
    BY <1>7 DEF Command
  <2>2. Handler' = Pause
    BY <2>1 DEF Handler, Rest
  <2>3. EndOf(Handler)'
    BY <1>1, <1>2, <2>1, <2>2
  <2> QED BY <1>2, <2>1, <2>3 DEF FlowInv, Runs, Rest, Running, Left
<1>8. CASE Command({"prestarted", "active", "paused"}, End, "downloaded")
  <2>1. /\ coda \in {"prestarted", "active", "paused"} /\ prog' = End /\ to' = "downloaded"
        /\ err' = FALSE /\ coda' = coda /\ dev' = dev
    BY <1>8 DEF Command
  <2>2. Handler' = End
    BY <2>1 DEF Handler, Rest
  <2>3. EndOf(Handler)'
    BY <1>1, <1>2, <2>1, <2>2
  <2> QED BY <1>2, <2>1, <2>3 DEF FlowInv, Runs, Rest, Running, Left
<1>9. CASE Command({"downloaded", "prestarted", "active", "paused", "error"}, Reset, "booted")
  <2>1. /\ coda \in {"downloaded", "prestarted", "active", "paused", "error"}
        /\ prog' = Reset /\ to' = "booted"
        /\ err' = FALSE /\ coda' = coda /\ dev' = dev
    BY <1>9 DEF Command
  <2>2. Handler' = Reset
    BY <2>1 DEF Handler, Rest
  <2>3. EndOf(Handler)'
    BY <1>1, <1>2, <2>1, <2>2
  <2> QED BY <1>2, <2>1, <2>3 DEF FlowInv, Runs, Rest, Running, Left
<1> QED BY <1>4, <1>5, <1>6, <1>7, <1>8, <1>9 DEF Commands

LEMMA FlowCall ==
    ASSUME FlowInv, CallStep PROVE FlowInv'
<1>1. ASSUME Returns,
             dev' = dev \/ At("open") \/ At("vtpclose"),
             At("open") => dev' = dev \/ dev' = "mapped" \/ dev = "closed",
             At("v7") => dev = "mapped", dev' \in {"closed", "mapped", "stale"}
      PROVE  FlowInv'
  <2>1. Where /\ prog # <<>> /\ prog \in Seq(Op)
    BY <1>1, Place DEF Returns, FlowInv
  <2>2. /\ prog' = Tail(prog) /\ to' = to /\ err' \in BOOLEAN
        /\ coda' = IF prog' # <<>> THEN coda ELSE IF err' THEN "error" ELSE to
    BY <1>1 DEF Returns
  <2>3. /\ prog' \in Seq(Op) /\ Left' = Left - 1 /\ Left \in Nat /\ Left > 0
        /\ (prog' = <<>> <=> Left = 1)
    BY <2>1, <2>2, OneLess DEF Left
  <2>4. /\ coda' \in Rest \union Running \union {"error"} /\ to' \in Rest \union Running
        /\ err' \in BOOLEAN
    BY <2>2 DEF FlowInv
  <2>5. /\ dev' \in {"closed", "mapped", "stale"}
        /\ dev' = dev \/ At("open") \/ At("vtpclose")
        /\ At("open") => dev' = dev \/ dev' = "mapped" \/ dev = "closed"
        /\ At("v7") => dev = "mapped"
    BY <1>1
  <2>6. prog' # <<>> => EndOf(Handler)'
    <3> SUFFICES ASSUME prog' # <<>> PROVE EndOf(Handler)'
      OBVIOUS
    <3>1. Handler' = Handler /\ EndOf(Handler)
      BY <2>1, <2>2 DEF Handler, FlowInv
    <3>2. PICK h : h = Handler
      OBVIOUS
    <3>3. Len(prog') = Len(prog) - 1 /\ Len(prog) \in Nat
      BY <2>1, <2>2, OneLess
    <3>4. \A j \in 1 .. Len(prog') : prog'[j] = prog[j + 1] /\ j + 1 \in 1 .. Len(prog)
      BY <2>1, <2>2, OneLess
    <3> QED BY <3>1, <3>2, <3>3, <3>4 DEF EndOf
  <2>7. /\ (Runs("downloaded") => coda # "error")'
        /\ (Runs("prestarted") => coda = "downloaded")'
        /\ (Runs("active") => coda \in {"prestarted", "paused"})'
        /\ (Runs("paused") => coda = "active")'
    BY <2>1, <2>2 DEF FlowInv, Runs
  <2>8. (Runs("booted") => coda # "booted" /\ ~err)'
    <3> SUFFICES ASSUME to = "booted", prog' # <<>> PROVE coda' # "booted" /\ ~err'
      BY <2>2 DEF Runs
    <3>1. ~At("netfile") /\ ~At("PRESTART")
      BY <2>1 DEF Where, InReset, At
    <3> QED BY <1>1, <2>1, <3>1 DEF FlowInv, Runs, Returns
  <2>9. (coda # "booted" => dev = "mapped")'
    <3>1. CASE prog' # <<>>
      <4>1. coda # "booted" => dev = "mapped" /\ ~At("vtpclose")
        BY <2>1, <2>3, <3>1
           DEF FlowInv, Where, InDownload, InEnd, InPrestart, InGo, InPause, InReset, At
      <4> QED BY <2>2, <2>5, <3>1, <4>1 DEF At
    <3>2. CASE prog' = <<>>
      <4>1. Left = 1
        BY <2>3, <3>2
      <4>2. CASE to = "booted"
        <5>1. ~At("netfile") /\ ~At("PRESTART")
          BY <2>1, <4>2 DEF Where, InReset, At
        <5>2. ~err'
          BY <1>1, <2>1, <4>2, <5>1 DEF FlowInv, Runs, Returns
        <5> QED BY <2>2, <3>2, <4>2, <5>2
      <4>3. CASE to # "booted"
        <5>1. dev = "mapped"
          BY <2>1, <4>1, <4>3 DEF FlowInv, Runs, Rest, Running
        <5>2. ~At("open") /\ ~At("vtpclose")
          BY <2>1, <4>1, <4>3
             DEF FlowInv, Rest, Running, Where, InDownload, InEnd, InPrestart, InGo, InPause, At
        <5> QED BY <2>5, <5>1, <5>2
      <4> QED BY <4>2, <4>3
    <3> QED BY <3>1, <3>2
  <2>10. (Runs("downloaded") /\ coda \in Rest /\ Left < 5 => dev = "mapped")'
    BY <2>1, <2>2, <2>3, <2>5
       DEF FlowInv, Runs, Where, InDownload, At
  <2> QED BY <2>3, <2>4, <2>5, <2>6, <2>7, <2>8, <2>9, <2>10 DEF FlowInv
<1>2. CASE /\ At("init") /\ prog' = <<>> /\ to' = to /\ err' = TRUE /\ coda' = "error" /\ dev' = dev
  <2>1. dev = "mapped"
    BY <1>2, Place DEF At, Where, InDownload, InEnd, InPrestart, InGo, InPause, InReset, FlowInv,
                       Runs
  <2> QED BY <1>2, <2>1 DEF FlowInv, Runs
<1>3. CASE LoadUnmapped
  BY <1>3 DEF LoadUnmapped, FlowInv, Runs, Rest
<1>4. CASE UNCHANGED <<coda, prog, to, err, dev>>
  BY <1>4, FlowStays
<1>5. CASE Returns /\ dev' = dev /\ ~At("open") /\ ~At("vtpclose") /\ (At("v7") => dev = "mapped")
  BY <1>1, <1>5 DEF FlowInv
<1>6. CASE Returns /\ At("open") /\ dev' \in IF dev = "closed" THEN {"closed", "mapped"} ELSE {dev}
  BY <1>1, <1>6 DEF FlowInv, At
<1>7. CASE Returns /\ At("vtpclose") /\ dev' \in {dev, "stale"}
  BY <1>1, <1>7 DEF FlowInv, At
<1> QED BY <1>2, <1>3, <1>4, <1>5, <1>6, <1>7 DEF CallStep

LEMMA FlowNext == ASSUME FlowInv, [Next]_vars PROVE FlowInv'
<1>1. CASE Commands
  BY <1>1, FlowCommand
<1>2. CASE Calls
  BY <1>2, CallCases, FlowCall
<1>3. CASE rocTrigger \/ Blocks \/ Firmware \/ UNCHANGED vars
  BY <1>3, FlowStays DEF rocTrigger, Blocks, Firmware, listVars, vars
<1> QED BY <1>1, <1>2, <1>3 DEF Next

\* After the FPGAs are programmed there is a mapping.
LEMMA Mapped ==
    ASSUME FlowInv, prog # <<>>, ~At("open"), ~At("z7"), ~At("v7") PROVE dev = "mapped"
<1>1. Where
  BY Place
<1>2. CASE to = "downloaded" /\ coda \in Rest
  BY <1>1, <1>2 DEF FlowInv, Runs, Where, InDownload
<1>3. CASE ~(to = "downloaded" /\ coda \in Rest)
  BY <1>3 DEF FlowInv, Runs, Rest, Running
<1> QED BY <1>2, <1>3

LEMMA Returned ==
    ASSUME FlowInv, Returns
    PROVE  /\ prog # <<>> /\ Left \in Nat /\ Left >= 1 /\ Left' = Left - 1 /\ to' = to
           /\ prog' = <<>> <=> Left = 1
           /\ coda' = IF Left = 1 THEN IF err' THEN "error" ELSE to ELSE coda
<1>1. prog # <<>> /\ prog \in Seq(Op) /\ prog' = Tail(prog) /\ to' = to
  BY DEF Returns, FlowInv
<1>2. Left \in Nat /\ Left >= 1 /\ Left' = Left - 1 /\ (prog' = <<>> <=> Left = 1)
  BY <1>1, OneLess DEF Left
<1> QED BY <1>1, <1>2 DEF Returns

-----------------------------------------------------------------------------
(* The event builder and the triggers *)

\* What calls do to the registers of the V7 and to the sources.
RegStep ==
    \/ UNCHANGED <<enable, eb, trig>> /\ ~At("rocreset") /\ ~At("ebstop") /\ ~At("ebinit")
       /\ ~At("ebconfig")
    \/ At("z7") /\ enable' = {} /\ trig' = 0 /\ UNCHANGED eb
    \/ /\ At("v7") /\ UNCHANGED <<enable, trig>>
       /\ eb' = [ctrl |-> "idle", tags |-> FALSE, pp |-> {}, level |-> 0]
    \/ At("rocreset") /\ enable' = {} /\ trig' = 0 /\ UNCHANGED eb
    \/ (At("hardware") \/ At("enable") \/ At("disable")) /\ UNCHANGED <<eb, trig>>
    \/ At("ebstop") /\ eb' = [eb EXCEPT !.ctrl = "reset"] /\ UNCHANGED <<enable, trig>>
    \/ /\ At("ebinit") /\ UNCHANGED <<enable, trig>>
       /\ eb' = IF eb.ctrl = "reset"
                THEN [eb EXCEPT !.tags = TRUE, !.pp = {}, !.level = 1] ELSE eb
    \/ /\ At("ebconfig") /\ UNCHANGED <<enable, trig>>
       /\ eb' = IF eb.ctrl = "reset" THEN [eb EXCEPT !.pp = eb.pp \union Ports] ELSE eb
    \/ /\ At("blocklevel") /\ UNCHANGED <<enable, trig>>
       /\ eb' = IF LevelOk(tilevel) THEN [eb EXCEPT !.level = tilevel] ELSE eb
    \/ At("ebstart") /\ eb' = [eb EXCEPT !.ctrl = "run"] /\ UNCHANGED <<enable, trig>>

LEMMA RegCases == ASSUME FlowInv, Calls PROVE RegStep /\ UNCHANGED <<ntrig, tilevel>>
<1>1. UNCHANGED tilevel
  BY DEF Calls, Open, LoadZ7, LoadV7, LoadUnmapped, InitVtp, ReadNetFile, ConfigRoc, ResetRoc,
         Unflag, SetTcpCfg, Connect, WaitConnection, Greet, StopEb, InitEb, ConfigEb, Hardware,
         SetLevel, StartEb, WritePrestart, WriteGo, WriteEnd, Control, File2Event, WriteUser,
         WriteUserLoop, Enable, Disable, Count, Close, ForceClose, CloseVtp, Call, Advance, Then
<1>2. UNCHANGED ntrig
  BY DEF Calls, Open, LoadZ7, LoadV7, LoadUnmapped, InitVtp, ReadNetFile, ConfigRoc, ResetRoc,
         Unflag, SetTcpCfg, Connect, WaitConnection, Greet, StopEb, InitEb, ConfigEb, Hardware,
         SetLevel, StartEb, WritePrestart, WriteGo, WriteEnd, Control, File2Event, WriteUser,
         WriteUserLoop, Enable, Disable, Count, Close, ForceClose, CloseVtp, Call
<1> SUFFICES RegStep
  BY <1>1, <1>2
<1>3. CASE LoadZ7
  <2>1. /\ At("z7")
        /\ (enable' = {} /\ trig' = 0 /\ UNCHANGED eb) \/ UNCHANGED <<enable, eb, trig>>
    BY <1>3 DEF LoadZ7, Z7Load, rocVars
  <2> QED BY <2>1 DEF RegStep, At
<1>4. CASE LoadV7
  BY <1>4 DEF LoadV7, Call, V7Load, Untold, RegStep, rocVars, At
<1>5. ASSUME NEW op, At(op), op \notin {"rocreset", "ebstop", "ebinit", "ebconfig"},
             UNCHANGED <<enable, eb, trig>>
      PROVE RegStep
  BY <1>5 DEF RegStep, At
<1>6. CASE Open \/ LoadUnmapped \/ InitVtp \/ ReadNetFile \/ ConfigRoc \/ Unflag \/ CloseVtp
  BY <1>5, <1>6 DEF Open, LoadUnmapped, InitVtp, ReadNetFile, ConfigRoc, Call, Unflag, CloseVtp,
                    rocVars
<1>7. CASE File2Event \/ Count \/ Close \/ ForceClose \/ WaitConnection
  BY <1>5, <1>7 DEF File2Event, Count, Close, ForceClose, WaitConnection, Call, Disconnect, rocVars
<1>8. CASE SetTcpCfg \/ Connect \/ Greet
  BY <1>5, <1>8 DEF SetTcpCfg, Connect, Greet, Call, SetTcpCfg2, AskConnection, SendGreeting,
                    rocVars
<1>9. CASE WritePrestart \/ WriteGo \/ WriteEnd
  BY <1>5, <1>9 DEF WritePrestart, WriteGo, WriteEnd, Control, EvioWriteControl, rocVars
<1>10. CASE WriteUser \/ WriteUserLoop
  BY <1>5, <1>10 DEF WriteUser, WriteUserLoop, UserHeader, UserWordsNext, rocVars
<1>11. CASE ResetRoc \/ Hardware \/ Enable \/ Disable
  <2>1. dev = "mapped"
    BY <1>11, Mapped DEF ResetRoc, Hardware, Enable, Disable, Call, At
  <2> QED BY <1>11, <2>1
             DEF ResetRoc, Hardware, Enable, Disable, Call, RocReset, RocEnable, RegStep
<1>12. CASE StopEb \/ InitEb \/ ConfigEb \/ SetLevel \/ StartEb
  <2>1. dev = "mapped"
    BY <1>12, Mapped DEF StopEb, InitEb, ConfigEb, SetLevel, StartEb, Call, At
  <2>2. CASE StopEb
    BY <2>1, <2>2 DEF StopEb, Call, EbStop, RegStep
  <2>3. CASE InitEb
    BY <2>1, <2>3 DEF InitEb, Call, EbInit, RegStep
  <2>4. CASE ConfigEb
    <3>1. ~LevelOk(0)
      BY DEF LevelOk
    <3>2. [eb EXCEPT !.pp = eb.pp \union Ports, !.level = eb.level]
          = [eb EXCEPT !.pp = eb.pp \union Ports]
      OBVIOUS
    <3> QED BY <2>1, <2>4, <3>1, <3>2 DEF ConfigEb, Call, EbConfig, RegStep
  <2>5. CASE SetLevel
    BY <2>1, <2>5 DEF SetLevel, Call, EbSetBlockLevel, RegStep
  <2>6. CASE StartEb
    BY <2>1, <2>6 DEF StartEb, Call, EbStart, RegStep
  <2> QED BY <1>12, <2>2, <2>3, <2>4, <2>5, <2>6
<1> QED BY <1>3, <1>4, <1>6, <1>7, <1>8, <1>9, <1>10, <1>11, <1>12 DEF Calls

LEMMA EbInit0 == Init => EbInv /\ TrigInv
<1> SUFFICES ASSUME Init PROVE EbInv /\ TrigInv
  OBVIOUS
<1>1. eb = [ctrl |-> "idle", tags |-> FALSE, pp |-> {}, level |-> 0]
  BY DEF Init, RocInit, Untold
<1>2. eb \in EbType
  BY <1>1 DEF EbType
<1>3. prog = <<>> /\ coda = "booted" /\ ntrig = 0 /\ trig = 0 /\ tilevel = 0
  BY DEF Init, RocInit
<1>4. 0 \in 0 .. MaxTrig
  BY MaxTrigAssumption
<1> QED BY <1>2, <1>3, <1>4 DEF EbInv, TrigInv, Runs, Running

\* What each call leaves of the event builder.
LEMMA EbStep ==
    ASSUME eb \in EbType, tilevel \in Nat, RegStep
    PROVE  /\ eb' \in EbType
           /\ At("ebstop") => eb'.ctrl = "reset"
           /\ At("ebinit") /\ eb.ctrl = "reset" => eb'.tags /\ eb'.level = 1
           /\ At("ebconfig") /\ eb.ctrl = "reset" => eb'.pp = eb.pp \union Ports
           /\ ~At("v7") /\ ~At("ebstart") /\ ~At("ebstop") => eb'.ctrl = eb.ctrl
           /\ ~At("v7") /\ ~At("ebinit") /\ ~At("blocklevel") =>
                 eb'.tags = eb.tags /\ eb'.level = eb.level
           /\ ~At("v7") /\ ~At("ebinit") /\ ~At("ebconfig") => eb'.pp = eb.pp
           /\ At("blocklevel") =>
                 eb'.tags = eb.tags /\ (eb'.level = eb.level \/ LevelOk(eb'.level))
<1> USE DEF EbType
<1>1. CASE eb' = eb /\ ~At("ebstop") /\ ~At("ebinit") /\ ~At("ebconfig")
  BY <1>1
<1>2. CASE At("v7") /\ eb' = [ctrl |-> "idle", tags |-> FALSE, pp |-> {}, level |-> 0]
  <2>1. eb' \in EbType
    BY <1>2
  <2> QED BY <1>2, <2>1 DEF At
<1>3. CASE At("ebstop") /\ eb' = [eb EXCEPT !.ctrl = "reset"]
  BY <1>3 DEF At
<1>4. CASE /\ At("ebinit")
             /\ eb' = IF eb.ctrl = "reset"
                      THEN [eb EXCEPT !.tags = TRUE, !.pp = {}, !.level = 1] ELSE eb
  <2>1. eb' \in EbType /\ eb'.ctrl = eb.ctrl
    <3>1. CASE eb.ctrl = "reset"
      <4>1. eb' = [ctrl |-> "reset", tags |-> TRUE, pp |-> {}, level |-> 1]
        BY <1>4, <3>1
      <4> QED BY <3>1, <4>1
    <3>2. CASE eb.ctrl # "reset"
      BY <1>4, <3>2
    <3> QED BY <3>1, <3>2
  <2>2. eb.ctrl = "reset" => eb'.tags /\ eb'.level = 1
    BY <1>4
  <2> QED BY <1>4, <2>1, <2>2 DEF At
<1>5. CASE /\ At("ebconfig")
             /\ eb' = IF eb.ctrl = "reset" THEN [eb EXCEPT !.pp = eb.pp \union Ports] ELSE eb
  <2>1. /\ eb' \in EbType /\ eb'.ctrl = eb.ctrl /\ eb'.tags = eb.tags /\ eb'.level = eb.level
        /\ eb.ctrl = "reset" => eb'.pp = eb.pp \union Ports
    BY <1>5
  <2> QED BY <1>5, <2>1 DEF At
<1>6. CASE /\ At("blocklevel")
             /\ eb' = IF LevelOk(tilevel) THEN [eb EXCEPT !.level = tilevel] ELSE eb
  <2>1. eb' \in EbType /\ eb'.ctrl = eb.ctrl /\ eb'.tags = eb.tags /\ eb'.pp = eb.pp
    BY <1>6 DEF LevelOk
  <2>2. eb'.level = eb.level \/ LevelOk(eb'.level)
    BY <1>6
  <2> QED BY <1>6, <2>1, <2>2 DEF At
<1>7. CASE At("ebstart") /\ eb' = [eb EXCEPT !.ctrl = "run"]
  BY <1>7 DEF At
<1> QED BY <1>1, <1>2, <1>3, <1>4, <1>5, <1>6, <1>7 DEF RegStep, At

LEMMA EbCall ==
    ASSUME FlowInv, EbInv, tilevel \in Nat, CallStep, RegStep PROVE EbInv'
<1>1. prog # <<>> /\ Where
  BY Place DEF CallStep, Returns, LoadUnmapped, At
<1>2. eb \in EbType /\ eb' \in EbType
  BY EbStep DEF EbInv
<1>3. CASE Returns
  <2>1. /\ Left \in Nat /\ Left >= 1 /\ Left' = Left - 1 /\ to' = to
        /\ prog' = <<>> <=> Left = 1
        /\ coda' = IF Left = 1 THEN IF err' THEN "error" ELSE to ELSE coda
    BY <1>3, Returned
  <2>2. CASE to = "downloaded" /\ coda \in Rest
    BY <1>2, <2>1, <2>2 DEF EbInv, Runs, Rest, Running
  <2>3. CASE to = "downloaded" /\ coda \notin Rest
    <3>1. /\ ~At("v7") /\ ~At("ebinit") /\ ~At("ebconfig") /\ ~At("blocklevel")
      BY <1>1, <2>3 DEF Where, InEnd, At
    <3>2. Configured => Configured'
      BY <1>2, <3>1, EbStep DEF Configured
    <3> QED BY <1>2, <2>1, <2>3, <3>2 DEF EbInv, Runs, Running
  <2>4. CASE to = "prestarted"
    <3>1. coda \notin Running /\ InPrestart /\ Runs("prestarted")
      BY <1>1, <2>4 DEF FlowInv, Runs, Running, Where
    <3>2. ~At("v7") /\ ~At("ebstart") /\ ~At("blocklevel")
      BY <3>1 DEF InPrestart, At
    <3>3. Left' < 7 => eb'.ctrl = "reset"
      <4>1. Left = 7 => At("ebstop")
        BY <3>1 DEF InPrestart
      <4>2. Left < 7 => ~At("ebstop") /\ eb.ctrl = "reset"
        BY <3>1 DEF InPrestart, At, EbInv
      <4> QED BY <1>2, <2>1, <3>2, <4>1, <4>2, EbStep
    <3>4. Left' < 6 => eb'.tags /\ LevelOk(eb'.level)
      <4>1. Left = 6 => At("ebinit") /\ eb.ctrl = "reset"
        BY <3>1 DEF InPrestart, EbInv
      <4>2. Left < 6 => ~At("ebinit") /\ eb.tags /\ LevelOk(eb.level)
        BY <3>1 DEF InPrestart, At, EbInv
      <4> QED BY <1>2, <2>1, <3>2, <4>1, <4>2, EbStep DEF LevelOk
    <3>5. Left' < 5 => eb'.pp = Ports
      <4>1. Left = 5 => At("ebconfig") /\ eb.ctrl = "reset"
        BY <3>1 DEF InPrestart, EbInv
      <4>2. Left < 5 => ~At("ebinit") /\ ~At("ebconfig") /\ eb.pp = Ports
        BY <3>1 DEF InPrestart, At, EbInv
      <4>3. eb.pp \union Ports = Ports
        BY <1>2 DEF EbType
      <4>4. CASE Left = 5
        <5>1. eb'.pp = eb.pp \union Ports
          BY <1>2, <4>1, <4>4, EbStep
        <5> QED BY <4>3, <5>1
      <4>5. CASE Left < 5
        <5>1. eb'.pp = eb.pp
          BY <1>2, <3>2, <4>2, <4>5, EbStep
        <5> QED BY <4>2, <4>5, <5>1
      <4> QED BY <2>1, <4>4, <4>5
    <3>6. coda' \in Running => Configured'
      BY <2>1, <3>1, <3>4, <3>5 DEF Configured
    <3> QED BY <1>2, <2>1, <3>3, <3>4, <3>5, <3>6 DEF EbInv
  <2>5. CASE to \notin {"downloaded", "prestarted"}
    <3>1. ~At("v7") /\ ~At("ebinit") /\ ~At("ebconfig")
      BY <1>1, <2>5 DEF Where, InGo, InPause, InReset, At
    <3>2. Configured => Configured'
      BY <1>2, <3>1, EbStep DEF Configured
    <3>3. coda' \in Running => coda \in Running
      BY <1>1, <2>1, <2>5 DEF FlowInv, Runs, Running, Rest
    <3> QED BY <1>2, <2>1, <2>5, <3>2, <3>3 DEF EbInv, Runs
  <2> QED BY <2>2, <2>3, <2>4, <2>5
<1>4. CASE prog' = <<>> /\ coda' \in {"error", "booted"}
  BY <1>2, <1>4 DEF EbInv, Runs, Running
<1>5. CASE At("user") /\ UNCHANGED <<coda, prog, to>>
  <2>1. eb' = eb
    BY <1>5 DEF RegStep, At
  <2> QED BY <1>5, <2>1 DEF EbInv, Configured, Runs, Left
<1> QED BY <1>3, <1>4, <1>5 DEF CallStep, LoadUnmapped

LEMMA EbNext ==
    ASSUME FlowInv, EbInv, TrigInv, [Next]_vars PROVE EbInv'
<1>1. CASE Calls
  <2>1. tilevel \in Nat
    BY LevelsAssumption DEF TrigInv
  <2> QED BY <1>1, <2>1, CallCases, RegCases, EbCall
<1>2. CASE Commands
  <2>1. eb' = eb /\ coda' = coda /\ prog = <<>>
    BY <1>2 DEF Commands, Command, rocVars
  <2>2. prog' # <<>> /\ to' = "prestarted" => Left' = 15
    BY <1>2, PrestartCalls DEF Commands, Command, Left
  <2> QED BY <2>1, <2>2 DEF EbInv, Configured, Runs
<1>3. CASE rocTrigger \/ Blocks \/ Firmware \/ UNCHANGED vars
  <2>1. UNCHANGED <<coda, prog, to>>
    BY <1>3 DEF rocTrigger, Blocks, Firmware, listVars, vars
  <2>2. eb' = eb
    BY <1>3 DEF rocTrigger, Acknowledge, Blocks, Trigger, Firmware, TakeLength, TakeWords, LinkUp,
                LinkDown, Disconnect, vars, rocVars
  <2> QED BY <2>1, <2>2 DEF EbInv, Configured, Runs, Left
<1> QED BY <1>1, <1>2, <1>3 DEF Next

\* No block is read out between two runs.
Still == 0 \notin enable \/ eb.ctrl # "run"

LEMMA TrigCall ==
    ASSUME FlowInv, EbInv, TrigInv, CallStep, RegStep, UNCHANGED <<ntrig, tilevel>>
    PROVE  TrigInv'
<1>0. /\ tilevel \in Nat /\ MaxTrig \in Nat
  BY LevelsAssumption, MaxTrigAssumption DEF TrigInv
<1>1. prog # <<>> /\ Where
  BY Place DEF CallStep, Returns, LoadUnmapped, At
<1>2. /\ trig' = trig \/ trig' = 0
      /\ At("rocreset") => enable' = {} /\ trig' = 0
      /\ At("rocconfig") \/ At("close") \/ At("force") \/ At("vtpclose") =>
            UNCHANGED <<enable, eb>>
      /\ At("ebstop") => eb'.ctrl = "reset"
      /\ At("hardware") => UNCHANGED eb
      /\ ~At("ebstart") /\ ~At("hardware") /\ ~At("enable") /\ ~At("disable") => (Still => Still')
  <2>1. eb \in EbType
    BY DEF EbInv
  <2>2. trig' = trig \/ trig' = 0
    BY DEF RegStep
  <2>3. /\ At("rocreset") => enable' = {} /\ trig' = 0
        /\ At("rocconfig") \/ At("close") \/ At("force") \/ At("vtpclose") =>
              UNCHANGED <<enable, eb>>
        /\ At("hardware") => UNCHANGED eb
    BY DEF RegStep, At
  <2>4. At("ebstop") => eb'.ctrl = "reset"
    BY <1>0, <2>1, EbStep
  <2>5. ASSUME ~At("ebstart"), ~At("hardware"), ~At("enable"), ~At("disable"), Still PROVE Still'
    <3>1. CASE enable' = {}
      BY <3>1 DEF Still
    <3>2. CASE enable' = enable /\ ~At("v7") /\ ~At("ebstop")
      BY <1>0, <2>1, <2>5, <3>2, EbStep DEF Still
    <3>3. CASE At("ebstop")
      BY <2>4, <3>3 DEF Still
    <3>4. CASE At("v7")
      <4>1. \/ UNCHANGED <<enable, eb>>
            \/ eb' = [ctrl |-> "idle", tags |-> FALSE, pp |-> {}, level |-> 0]
        BY <3>4 DEF RegStep, At
      <4> QED BY <2>5, <4>1 DEF Still
    <3> QED BY <2>5, <3>1, <3>2, <3>3, <3>4 DEF RegStep
  <2> QED BY <2>2, <2>3, <2>4, <2>5
<1>3. ntrig' \in 0 .. MaxTrig /\ trig' \in 0 .. MaxTrig /\ tilevel' \in Levels \union {0}
  BY <1>0, <1>2 DEF TrigInv
<1>4. CASE Returns
  <2>1. /\ Left \in Nat /\ Left >= 1 /\ Left' = Left - 1 /\ to' = to
        /\ prog' = <<>> <=> Left = 1
        /\ coda' = IF Left = 1 THEN IF err' THEN "error" ELSE to ELSE coda
    BY <1>4, Returned
  <2>2. CASE to = "downloaded" /\ coda \in Rest
    <3>1. InDownload
      BY <1>1, <2>2 DEF Where
    <3>2. ~At("ebstart") /\ ~At("hardware") /\ ~At("enable") /\ ~At("disable")
      BY <3>1 DEF InDownload, At
    <3>3. coda' = "downloaded" => Still'
      <4>1. CASE Left = 1
        BY <1>1, <1>2, <2>2, <3>1, <4>1 DEF InDownload, At, TrigInv, Runs, Still
      <4>2. CASE Left > 1
        BY <1>2, <2>1, <3>2, <4>2 DEF TrigInv, Still
      <4> QED BY <2>1, <4>1, <4>2
    <3>4. Left' < 2 /\ prog' # <<>> => 0 \notin enable'
      BY <1>2, <2>1, <3>1 DEF InDownload
    <3>5. trig' <= ntrig'
      BY <1>0, <1>2, <1>3, <2>2 DEF TrigInv, Runs
    <3> QED BY <1>3, <2>1, <2>2, <3>3, <3>4, <3>5 DEF TrigInv, Runs, Rest, Still
  <2>3. CASE to = "downloaded" /\ coda \notin Rest
    <3>1. InEnd
      BY <1>1, <2>3 DEF Where
    <3>2. coda' = "downloaded" => Still'
      <4>1. SUFFICES ASSUME Left = 1 PROVE Still'
        BY <2>1, <2>3 DEF Rest
      <4> QED BY <1>1, <1>2, <2>3, <3>1, <4>1 DEF InEnd, At, TrigInv, Runs, Still
    <3>3. Left' < 2 /\ prog' # <<>> => eb'.ctrl # "run"
      BY <1>2, <2>1, <3>1 DEF InEnd
    <3>4. trig' <= ntrig'
      BY <1>0, <1>2, <1>3, <2>3 DEF TrigInv, Runs
    <3> QED BY <1>3, <2>1, <2>3, <3>2, <3>3, <3>4 DEF TrigInv, Runs, Rest, Still
  <2>4. CASE to = "prestarted"
    <3>1. InPrestart /\ coda = "downloaded" /\ Runs("prestarted")
      BY <1>1, <2>4 DEF Where, FlowInv, Runs
    <3>2. Still'
      <4>1. Still
        BY <3>1 DEF TrigInv, Still
      <4>2. At("hardware") => Left = 4
        BY <3>1 DEF InPrestart, At
      <4>3. CASE At("hardware")
        BY <1>2, <3>1, <4>2, <4>3 DEF EbInv, Still
      <4>4. CASE ~At("hardware")
        <5>1. ~At("ebstart") /\ ~At("enable") /\ ~At("disable")
          BY <3>1 DEF InPrestart, At
        <5> QED BY <1>2, <4>1, <4>4, <5>1
      <4> QED BY <4>3, <4>4
    <3>3. Left' < 12 => trig' = 0
      <4>1. CASE Left = 12
        BY <1>2, <3>1, <4>1 DEF InPrestart
      <4>2. CASE Left < 12
        BY <1>2, <3>1, <4>2 DEF TrigInv
      <4> QED BY <2>1, <4>1, <4>2
    <3>4. trig' <= ntrig' \/ Runs("prestarted")'
      BY <1>0, <1>3, <2>1, <2>4, <3>3 DEF Runs
    <3> QED BY <1>3, <2>1, <2>4, <3>2, <3>3, <3>4 DEF TrigInv, Runs, Still
  <2>5. CASE to \notin {"downloaded", "prestarted"}
    <3>1. coda' = "downloaded" => Still'
      <4>1. SUFFICES ASSUME coda' = "downloaded" PROVE Still'
        OBVIOUS
      <4>2. coda = "downloaded" /\ to = "booted"
        BY <1>1, <2>1, <2>5, <4>1 DEF FlowInv, Runs, Rest, Running
      <4> QED BY <1>1, <1>2, <4>2 DEF Where, InReset, At, TrigInv, Still
    <3>2. trig' <= ntrig'
      BY <1>0, <1>2, <1>3, <2>5 DEF TrigInv, Runs
    <3> QED BY <1>3, <2>1, <2>5, <3>1, <3>2 DEF TrigInv, Runs, Still
  <2> QED BY <2>2, <2>3, <2>4, <2>5
<1>5. CASE prog' = <<>> /\ coda' \in {"error", "booted"} /\ (At("init") \/ At("v7"))
  <2>1. ~Runs("prestarted")
    BY <1>1, <1>5 DEF Where, InPrestart, At, Runs
  <2>2. trig' <= ntrig'
    BY <1>0, <1>2, <1>3, <2>1 DEF TrigInv
  <2> QED BY <1>3, <1>5, <2>2 DEF TrigInv, Runs
<1>6. CASE At("user") /\ UNCHANGED <<coda, prog, to>>
  <2>1. UNCHANGED <<enable, eb, trig>>
    BY <1>6 DEF RegStep, At
  <2> QED BY <1>6, <2>1 DEF TrigInv, Runs, Left
<1> QED BY <1>4, <1>5, <1>6 DEF CallStep, LoadUnmapped, At

LEMMA TrigNext ==
    ASSUME FlowInv, EbInv, TrigInv, [Next]_vars PROVE TrigInv'
<1>0. MaxTrig \in Nat
  BY MaxTrigAssumption
<1>1. CASE Calls
  BY <1>1, CallCases, RegCases, TrigCall
<1>2. CASE Commands
  <2>1. UNCHANGED <<enable, eb, trig, coda>> /\ prog = <<>>
    BY <1>2 DEF Commands, Command, rocVars
  <2>2. /\ prog' # <<>> /\ to' = "prestarted" => Left' = 15
        /\ prog' # <<>> /\ to' = "downloaded" => Left' \in {5, 7}
    BY <1>2, PrestartCalls DEF Commands, Command, Left, Download, End
  <2>3. ntrig' = ntrig \/ (ntrig' = 0 /\ prog' # <<>> /\ to' = "prestarted")
    <3>1. Prestart # <<>>
      BY PrestartCalls
    <3> QED BY <1>2, <3>1 DEF Commands, Command, Stay
  <2>4. tilevel' \in Levels \union {tilevel}
    BY <1>2 DEF Commands, Command, Stay
  <2> QED BY <1>0, <2>1, <2>2, <2>3, <2>4 DEF TrigInv, Runs
<1>3. CASE rocTrigger
  <2>1. UNCHANGED <<enable, eb, listVars>> /\ trig' = trig - RocPoll
    BY <1>3 DEF rocTrigger, Acknowledge
  <2>2. trig' \in 0 .. MaxTrig /\ trig' <= trig
    BY <1>0, <2>1 DEF TrigInv, RocPoll
  <2> QED BY <1>0, <2>1, <2>2 DEF TrigInv, Runs, Left, listVars
<1>4. CASE Blocks
  <2>1. /\ 0 \in enable /\ eb.ctrl = "run" /\ trig' \in {trig, trig + 1} /\ ntrig < MaxTrig
        /\ ntrig' = ntrig + 1 /\ UNCHANGED <<enable, eb, coda, prog, to, tilevel>>
    BY <1>4 DEF Blocks, Trigger
  <2>2. coda # "downloaded"
    BY <2>1 DEF TrigInv
  <2>3. trig <= ntrig
    BY <2>2 DEF TrigInv, FlowInv
  <2> QED BY <1>0, <2>1, <2>2, <2>3 DEF TrigInv, FlowInv, Runs, Left
<1>5. CASE Firmware \/ UNCHANGED vars
  <2>1. UNCHANGED <<enable, eb, trig, coda, prog, to, ntrig, tilevel>>
    BY <1>5 DEF Firmware, TakeLength, TakeWords, LinkUp, LinkDown, Disconnect, vars, rocVars,
                listVars
  <2> QED BY <2>1 DEF TrigInv, Runs, Left
<1> QED BY <1>1, <1>2, <1>3, <1>4, <1>5 DEF Next

-----------------------------------------------------------------------------
(* What is written to the data FIFO *)

Written(q, ev, n) ==
    LET fit == Least(n, Depth - Fill(q))
    IN  IF fit = 0 THEN q ELSE Append(q, [of |-> ev, n |-> fit])

\* The FIFO never holds more than it can, and takes the words it has room for.
LEMMA WrittenFits ==
    ASSUME NEW q \in Seq(Run), Fill(q) <= Depth, NEW ev \in EventType, NEW n \in Nat
    PROVE  /\ Written(q, ev, n) \in Seq(Run) /\ Fill(Written(q, ev, n)) <= Depth
           /\ n > 0 /\ n <= Depth - Fill(q) =>
                 Written(q, ev, n) = Append(q, [of |-> ev, n |-> n])
<1>0. Fill(q) \in Nat /\ Depth \in Nat
  BY FillType, DepthAssumption
<1> DEFINE fit == Least(n, Depth - Fill(q))
<1>1. fit \in Nat /\ fit <= n /\ fit <= Depth - Fill(q) /\ (n <= Depth - Fill(q) => fit = n)
  BY <1>0 DEF Least
<1>2. Written(q, ev, n) = IF fit = 0 THEN q ELSE Append(q, [of |-> ev, n |-> fit])
  BY DEF Written
<1> HIDE DEF fit
<1>3. CASE fit = 0
  BY <1>0, <1>1, <1>2, <1>3
<1>4. CASE fit > 0
  <2>1. [of |-> ev, n |-> fit] \in Run /\ [of |-> ev, n |-> fit].n = fit
    BY <1>1, <1>4 DEF Run
  <2>2. Written(q, ev, n) = Append(q, [of |-> ev, n |-> fit])
    BY <1>2, <1>4
  <2>3. Fill(Written(q, ev, n)) = Fill(q) + fit
    BY <2>1, <2>2, FillAppend
  <2>4. Append(q, [of |-> ev, n |-> fit]) \in Seq(Run)
    BY <2>1
  <2> QED BY <1>0, <1>1, <2>2, <2>3, <2>4
<1> QED BY <1>1, <1>3, <1>4

\* The level the library reads: a FIFO that seems empty has room for a control event.
LEMMA LevelRead ==
    ASSUME NEW q \in Seq(Run), Fill(q) <= Depth
    PROVE  /\ Level(q) \in Nat /\ Level(q) <= Fill(q)
           /\ Level(q) = 0 => ControlWords <= Depth - Fill(q)
           /\ Fill(q) # Depth => Level(q) < Depth
<1>1. Fill(q) \in Nat /\ Depth \in Nat /\ Depth >= 30 /\ Depth % 2 = 0
  BY FillType, DepthAssumption
<1>2. Depth \div 2 \in Nat /\ 2 * (Depth \div 2) = Depth
  BY <1>1
<1> QED BY <1>1, <1>2 DEF Level, ControlWords

\* A user event that fits what is left is written whole.
LEMMA UserFits ==
    ASSUME NEW n \in Nat, NEW q \in Seq(Run), Fill(q) <= Depth, UserWords(n) <= Depth - Fill(q)
    PROVE  ~FlowControl(n)
BY FillType, DepthAssumption DEF FlowControl, UserWords, HeaderWords

-----------------------------------------------------------------------------
(* What is due *)

LEMMA DueAppended ==
    ASSUME lens \in Seq(Run), need \in [of : EventType \union {"NONE"}, n : Nat, ok : BOOLEAN],
           need.n > 0 => need.of \in EventType
    PROVE  /\ Due \in Seq(Run)
           /\ \A run \in Run : lens' = Append(lens, run) /\ need' = need =>
                 Due' = Append(Due, run)
<1>1. CASE need.n = 0
  BY <1>1 DEF Due
<1>2. CASE need.n > 0
  <2>1. PICK first \in Run : first = [of |-> need.of, n |-> need.n]
    <3>1. need.n \in Nat \ {0} /\ need.of \in EventType
      BY <1>2
    <3>2. [of |-> need.of, n |-> need.n] \in Run
      BY <3>1 DEF Run
    <3> QED BY <3>2
  <2>2. Due = <<first>> \o lens
    BY <1>2, <2>1 DEF Due
  <2>3. ASSUME NEW run \in Run, lens' = Append(lens, run), need' = need
        PROVE  Due' = Append(Due, run)
    <3>1. Due' = <<first>> \o Append(lens, run)
      BY <1>2, <2>1, <2>3 DEF Due
    <3>2. <<first>> \o Append(lens, run) = Append(<<first>> \o lens, run)
      OBVIOUS
    <3> QED BY <2>2, <3>1, <3>2
  <2> QED BY <2>2, <2>3
<1> QED BY <1>1, <1>2

-----------------------------------------------------------------------------
(* What calls do to the FIFO and the connection *)

QuietStep ==
    /\ UNCHANGED <<data, lens, need, got, tcp, client, long, rem>>
    /\ ~At("rocreset") /\ ~At("connect") /\ ~At("greet") /\ ~At("force") /\ ~At("user")
    /\ At("PRESTART") => err'
ClearStep ==
    /\ At("z7") \/ At("rocreset")
    /\ data' = <<>> /\ lens' = <<>> /\ need' = None /\ UNCHANGED <<got, long, rem>>
    /\ (UNCHANGED <<tcp, client>> \/ (tcp' = "down" /\ client' = Unset))
Told == emuport <= MaxPort /\ client' = [net |-> net, port |-> emuport]
\* The connection is closed, by the new registers of the client or for good.
DownStep ==
    /\ At("tcpcfg") \/ At("close") \/ At("force")
    /\ UNCHANGED <<data, lens, need, got, long, rem>>
    /\ tcp' = "down"
    /\ client' = client \/ Told
ConnectStep ==
    /\ At("connect") /\ UNCHANGED <<data, lens, need, client, rem>>
    /\ tcp' = "asked" /\ got' = Nothing /\ long' = FALSE
SayStep(type, words) ==
    /\ At(IF type = "HELLO" THEN "greet" ELSE type)
    /\ type # "HELLO" => ControlFits
    /\ data' = Written(data, type, words) /\ lens' = Append(lens, [of |-> type, n |-> words])
    /\ UNCHANGED <<need, got, tcp, client, long, rem>>
\* The first words of a user event, the next ones, and a call that ends without them.
UserStep(n) ==
    /\ At("user") /\ rem = 0 /\ n = UserWords(blen)
    /\ lens' = Append(lens, [of |-> "USER", n |-> n])
    /\ long' = (long \/ n > Depth - Fill(data))
    /\ \/ FlowControl(blen) /\ data' = Written(data, "USER", HeaderWords + 1) /\ rem' = blen - 1
       \/ ~FlowControl(blen) /\ data' = Written(data, "USER", n) /\ rem' = 0
    /\ UNCHANGED <<need, got, tcp, client>>
LoopStep(n) ==
    /\ At("user") /\ rem > 0 /\ n = Free(rem) /\ Fill(data) # Depth
    /\ data' = Written(data, "USER", n) /\ rem' = rem - n
    /\ UNCHANGED <<lens, need, got, tcp, client, long>>
LeaveStep ==
    At("user") /\ rem' = 0 /\ UNCHANGED <<data, lens, need, got, tcp, client, long>>

FifoStep ==
    \/ QuietStep
    \/ ClearStep
    \/ DownStep
    \/ ConnectStep
    \/ \E type \in {"HELLO", "PRESTART", "GO", "END"} :
          SayStep(type, IF type = "HELLO" THEN 8 ELSE ControlWords)
    \/ \E n : UserStep(n)
    \/ \E n : LoopStep(n)
    \/ LeaveStep

LEMMA FifoCases == ASSUME FlowInv, FifoTypeOK, Calls PROVE FifoStep
<1>1. ASSUME NEW op, At(op), UNCHANGED <<data, lens, need, got, tcp, client, long, rem>>,
             op \notin {"rocreset", "connect", "greet", "force", "user", "PRESTART"}
      PROVE  FifoStep
  <2>1. QuietStep
    BY <1>1 DEF QuietStep, At
  <2> QED BY <2>1 DEF FifoStep
<1>2. CASE Open \/ LoadUnmapped \/ InitVtp \/ ReadNetFile \/ ConfigRoc \/ Unflag \/ CloseVtp
  <2> USE DEF rocVars, fifoVars, netVars
  <2> QED BY <1>1, <1>2 DEF Open, LoadUnmapped, InitVtp, ReadNetFile, ConfigRoc, Call, Unflag,
                            CloseVtp
<1>3. CASE LoadV7 \/ WaitConnection \/ StopEb \/ InitEb \/ ConfigEb \/ Hardware
  BY <1>1, <1>3 DEF LoadV7, WaitConnection, StopEb, InitEb, ConfigEb, Hardware, Call, V7Load,
                    EbStop, EbInit, EbConfig, RocEnable, rocVars, fifoVars, netVars
<1>4. CASE SetLevel \/ StartEb \/ File2Event \/ Enable \/ Disable \/ Count
  BY <1>1, <1>4 DEF SetLevel, StartEb, File2Event, Enable, Disable, Count, Call,
                    EbSetBlockLevel, EbStart, RocEnable, rocVars, fifoVars, netVars
<1>5. CASE LoadZ7 \/ ResetRoc
  <2>1. CASE LoadZ7 /\ UNCHANGED rocVars
    BY <1>1, <2>1 DEF LoadZ7, rocVars, fifoVars, netVars
  <2>2. CASE LoadZ7 /\ Z7Load
    BY <2>2 DEF LoadZ7, Z7Load, ClearFifo, ClearStep, FifoStep
  <2>3. CASE ResetRoc
    <3>1. dev = "mapped"
      BY <2>3, Mapped DEF ResetRoc, Call, At
    <3> QED BY <2>3, <3>1 DEF ResetRoc, Call, RocReset, ClearFifo, ClearStep, FifoStep, netVars
  <2> QED BY <1>5, <2>1, <2>2, <2>3 DEF LoadZ7
<1>6. CASE SetTcpCfg \/ Close \/ ForceClose \/ Connect
  <2>1. dev = "mapped"
    BY <1>6, Mapped DEF SetTcpCfg, Close, ForceClose, Connect, Call, At
  <2>2. CASE SetTcpCfg
    <3>1. CASE UNCHANGED <<tcp, client>>
      BY <1>1, <2>1, <2>2, <3>1 DEF SetTcpCfg, Call, SetTcpCfg2, fifoVars
    <3>2. CASE tcp' = "down" /\ emuport <= MaxPort /\ client' = [net |-> net, port |-> emuport]
      BY <2>1, <2>2, <3>2 DEF SetTcpCfg, Call, SetTcpCfg2, DownStep, Told, FifoStep, fifoVars
    <3>3. emuport \in Int /\ MaxPort \in Int
      <4>1. emuport \in EmuPorts \union {0}
        BY DEF FifoTypeOK, LinkTypeOK
      <4>2. MaxPort \in Int
        BY DEF MaxPort
      <4> QED BY <4>1, <4>2, EmuPortsAssumption
    <3> QED BY <2>1, <2>2, <3>1, <3>2, <3>3 DEF SetTcpCfg, Call, SetTcpCfg2
  <2>3. CASE Close
    <3>1. CASE UNCHANGED rocVars
      BY <1>1, <2>3, <3>1 DEF Close, Call, rocVars, fifoVars, netVars
    <3>2. CASE Disconnect
      BY <2>3, <3>2 DEF Close, Call, Disconnect, DownStep, FifoStep, fifoVars
    <3> QED BY <2>1, <2>3, <3>1, <3>2 DEF Close, Call
  <2>4. CASE ForceClose
    BY <2>1, <2>4 DEF ForceClose, Call, Disconnect, DownStep, FifoStep, fifoVars
  <2>5. CASE Connect
    BY <2>1, <2>5 DEF Connect, AskConnection, ConnectStep, FifoStep, fifoVars
  <2> QED BY <1>6, <2>2, <2>3, <2>4, <2>5
<1>7. CASE Greet
  <2>1. dev = "mapped"
    BY <1>7, Mapped DEF Greet, Call, At
  <2>2. SayStep("HELLO", 8)
    BY <1>7, <2>1 DEF Greet, Call, SendGreeting, WriteData, Written, Announce, SayStep, netVars
  <2> QED BY <2>2 DEF FifoStep
<1>8. ASSUME NEW type \in {"PRESTART", "GO", "END"}, At(type), EvioWriteControl(type), ControlFits,
             UNCHANGED <<long, rem>>
      PROVE  FifoStep
  <2>1. SayStep(type, ControlWords)
    BY <1>8 DEF EvioWriteControl, WriteData, Written, Announce, SayStep, netVars
  <2> QED BY <2>1 DEF FifoStep
<1>9. CASE WritePrestart \/ WriteGo \/ WriteEnd
  <2>1. CASE UNCHANGED rocVars /\ (At("PRESTART") => err')
    <3>1. At("PRESTART") => QuietStep
      BY <1>9, <2>1 DEF WritePrestart, WriteGo, WriteEnd, Control, QuietStep, At, rocVars,
                        fifoVars, netVars
    <3> QED BY <1>1, <1>9, <2>1, <3>1 DEF FifoStep, WritePrestart, WriteGo, WriteEnd, Control,
                                          rocVars, fifoVars, netVars
  <2>2. CASE WritePrestart /\ ~(UNCHANGED rocVars /\ err')
    BY <1>8, <2>2 DEF WritePrestart, Control, Then
  <2>3. CASE WriteGo /\ ~UNCHANGED rocVars
    BY <1>8, <2>3 DEF WriteGo, Control
  <2>4. CASE WriteEnd /\ ~UNCHANGED rocVars
    BY <1>8, <2>4 DEF WriteEnd, Control
  <2> QED BY <1>9, <2>1, <2>2, <2>3, <2>4 DEF WriteGo, WriteEnd, Control, At
<1>10. CASE WriteUser
  <2>1. CASE UNCHANGED <<rocVars, rem, long>>
    BY <1>10, <2>1 DEF WriteUser, LeaveStep, FifoStep, rocVars, fifoVars, netVars
  <2>2. CASE ~UNCHANGED <<rocVars, rem, long>>
    <3>1. PICK n : n = UserWords(blen)
      OBVIOUS
    <3>2. /\ At("user") /\ rem = 0 /\ long' = (long \/ n > Depth - Fill(data))
          /\ IF FlowControl(blen) THEN UserHeader(blen, HeaderWords + 1) /\ rem' = blen - 1
             ELSE UserHeader(blen, n) /\ rem' = 0
      BY <1>10, <2>2, <3>1 DEF WriteUser
    <3>3. UserStep(n)
      BY <3>1, <3>2 DEF UserHeader, WriteData, Written, Announce, UserStep, netVars
    <3> QED BY <3>3 DEF FifoStep
  <2> QED BY <2>1, <2>2
<1>11. CASE WriteUserLoop
  <2>1. CASE UNCHANGED rocVars /\ rem' = 0
    BY <1>11, <2>1 DEF WriteUserLoop, LeaveStep, FifoStep, rocVars, fifoVars, netVars
  <2>2. CASE Fill(data) # Depth
    <3>1. LoopStep(Free(rem))
      BY <1>11, <2>2 DEF WriteUserLoop, UserWordsNext, WriteData, Written, LoopStep, netVars
    <3> QED BY <3>1 DEF FifoStep
  <2> QED BY <1>11, <2>1, <2>2 DEF WriteUserLoop
<1> QED BY <1>2, <1>3, <1>4, <1>5, <1>6, <1>7, <1>9, <1>10, <1>11 DEF Calls

-----------------------------------------------------------------------------
(* The types of the FIFO and the connection *)

LEMMA BankLength == ASSUME FifoTypeOK PROVE blen \in Nat \ {0} /\ UserWords(blen) \in Nat
<1>1. ubuf \in BankLens \union {0}
  BY DEF FifoTypeOK, UserTypeOK
<1>2. blen \in Nat \ {0}
  BY <1>1, BankLensAssumption DEF blen
<1> QED BY <1>2 DEF UserWords, HeaderWords

\* The loop of a user event takes at least a word a round, and not too many.
LEMMA LoopTakes ==
    ASSUME FifoTypeOK, rem > 0, Fill(data) # Depth
    PROVE  Free(rem) \in Nat \ {0} /\ Free(rem) <= rem
<1>1. rem \in Nat /\ data \in Seq(Run) /\ Fits
  BY DEF FifoTypeOK, DataTypeOK, UserTypeOK
<1>2. Level(data) \in Nat /\ Level(data) < Depth /\ Depth \in Nat
  BY <1>1, LevelRead, DepthAssumption DEF Fits
<1>3. PICK room \in Nat \ {0} : room = Depth - Level(data)
  BY <1>2
<1> QED BY <1>1, <1>3 DEF Free, Least

\* A call of vtpRocEvioWriteUserEvent that has words left has not returned.
LEMMA UserCases ==
    ASSUME FlowInv, FifoTypeOK, Calls
    PROVE  /\ rem' \in Nat
           /\ IF rem' > 0 THEN At("user") /\ UNCHANGED <<coda, prog, to, err>>
                          ELSE At("user") => Returns
<1>0. /\ rem \in Nat /\ prog \in Seq(Op) /\ err \in BOOLEAN
      /\ (rem > 0 => Runs("prestarted") /\ Left = 1)
  BY DEF FifoTypeOK, UserTypeOK, FlowInv
<1>1. blen \in Nat \ {0}
  BY BankLength
<1>2. rem > 0 => At("user")
  BY <1>0, Place DEF Runs, Where, InPrestart
<1>3. ASSUME Advance, At("user") PROVE Returns
  BY <1>0, <1>3 DEF Advance, Then, Returns, At
<1>4. CASE WriteUser
  <2>1. At("user") /\ rem = 0
    BY <1>4 DEF WriteUser
  <2>2. CASE UNCHANGED <<rocVars, rem, long>> /\ Advance
    BY <1>3, <2>1, <2>2
  <2>3. CASE FlowControl(blen) /\ rem' = blen - 1 /\ UNCHANGED <<coda, prog, to, err>>
    <3>1. rem' \in Nat /\ rem' > 0
      BY <1>1, <2>3, DepthAssumption DEF FlowControl, UserWords, HeaderWords
    <3> QED BY <2>1, <2>3, <3>1
  <2>4. CASE rem' = 0 /\ Advance
    BY <1>3, <2>1, <2>4
  <2> QED BY <1>4, <2>2, <2>3, <2>4 DEF WriteUser
<1>5. CASE WriteUserLoop
  <2>1. At("user") /\ rem > 0
    BY <1>5 DEF WriteUserLoop
  <2>2. CASE rem' = 0 /\ Advance
    BY <1>3, <2>1, <2>2
  <2>3. CASE Fill(data) # Depth /\ rem' = rem - Free(rem)
    <3>1. rem' \in Nat
      BY <1>0, <2>1, <2>3, LoopTakes
    <3>2. CASE rem' = 0
      <4>1. Advance
        BY <1>5, <2>3, <3>2 DEF WriteUserLoop
      <4> QED BY <1>3, <2>1, <3>2, <4>1
    <3>3. CASE rem' > 0
      <4>1. UNCHANGED <<coda, prog, to, err>>
        BY <1>5, <2>3, <3>3 DEF WriteUserLoop
      <4> QED BY <2>1, <3>1, <3>3, <4>1
    <3> QED BY <3>1, <3>2, <3>3
  <2> QED BY <1>5, <2>2, <2>3 DEF WriteUserLoop
<1>6. CASE UNCHANGED rem /\ ~At("user")
  BY <1>0, <1>2, <1>6
<1>7. (UNCHANGED rem /\ ~At("user")) \/ WriteUser \/ WriteUserLoop
  BY DEF Calls, Open, LoadZ7, LoadV7, LoadUnmapped, InitVtp, ReadNetFile, ConfigRoc, ResetRoc,
         Unflag, SetTcpCfg, Connect, WaitConnection, Greet, StopEb, InitEb, ConfigEb, Hardware,
         SetLevel, StartEb, WritePrestart, WriteGo, WriteEnd, Control, File2Event,
         Enable, Disable, Count, Close, ForceClose, CloseVtp, Call, At
<1> QED BY <1>4, <1>5, <1>6, <1>7

\* The firmware takes k words.
TakeStep(k) ==
    /\ tcp = "up" /\ need.n > 0 /\ data # <<>>
    /\ k \in Nat \ {0} /\ k <= need.n /\ k <= Head(data).n
    /\ data' = IF k = Head(data).n THEN Tail(data)
               ELSE <<[of |-> Head(data).of, n |-> Head(data).n - k]>> \o Tail(data)
    /\ need' \in [of : EventType \union {"NONE"}, n : Nat, ok : BOOLEAN]
    /\ need'.of = need.of /\ need'.n = need.n - k
    /\ need'.ok <=> need.ok /\ Head(data).of = need.of
    /\ got' \in [last : EventType \union {"NONE"}, ok : BOOLEAN]
    /\ IF need'.n = 0 THEN got'.last = need.of /\ (got'.ok <=> got.ok /\ need'.ok) ELSE got' = got
    /\ UNCHANGED <<lens, tcp, client>>

LEMMA TakeCases ==
    ASSUME DataTypeOK, LinkTypeOK, TakeWords PROVE \E k : TakeStep(k)
<1>1. /\ need \in [of : EventType \union {"NONE"}, n : Nat, ok : BOOLEAN]
      /\ got \in [last : EventType \union {"NONE"}, ok : BOOLEAN]
      /\ need.n > 0 /\ need.of \in EventType /\ data # <<>> /\ data \in Seq(Run) /\ tcp = "up"
      /\ UNCHANGED <<lens, tcp, client>>
  <2>1. /\ need \in [of : EventType \union {"NONE"}, n : Nat, ok : BOOLEAN]
        /\ need.n > 0 => need.of \in EventType
        /\ data \in Seq(Run)
    BY DEF DataTypeOK
  <2>2. got \in [last : EventType \union {"NONE"}, ok : BOOLEAN]
    BY DEF LinkTypeOK
  <2>3. need.n > 0 /\ data # <<>> /\ tcp = "up" /\ UNCHANGED <<lens, tcp, client>>
    BY DEF TakeWords
  <2> QED BY <2>1, <2>2, <2>3
<1>2. PICK run \in Run : run = Head(data)
  BY <1>1
<1>3. run = [of |-> run.of, n |-> run.n] /\ run.n \in Nat \ {0}
  BY <1>2 DEF Run
<1>4. PICK k :
        /\ k = Least(run.n, need.n) \/ (k \in Chunks /\ k < Least(run.n, need.n))
        /\ data' = IF k = run.n THEN Tail(data) ELSE <<[run EXCEPT !.n = @ - k]>> \o Tail(data)
        /\ need' = [need EXCEPT !.n = @ - k, !.ok = @ /\ run.of = need.of]
        /\ got' = IF need'.n = 0 THEN [last |-> need'.of, ok |-> got.ok /\ need'.ok] ELSE got
  BY <1>2 DEF TakeWords
<1>5. k \in Nat \ {0} /\ k <= run.n /\ k <= need.n
  BY <1>1, <1>3, <1>4, ChunksAssumption DEF Least
<1>6. [run EXCEPT !.n = @ - k] = [of |-> run.of, n |-> run.n - k]
  BY <1>3
<1>7. /\ need' \in [of : EventType \union {"NONE"}, n : Nat, ok : BOOLEAN]
      /\ need'.of = need.of /\ need'.n = need.n - k
  <2>1. PICK ok \in BOOLEAN : ok = (need.ok /\ run.of = need.of)
    OBVIOUS
  <2>2. need' = [need EXCEPT !.n = need.n - k, !.ok = ok]
    BY <1>4, <2>1
  <2>3. PICK n \in Nat : n = need.n - k
    BY <1>1, <1>5
  <2>4. need' = [of |-> need.of, n |-> n, ok |-> ok]
    BY <1>1, <2>2, <2>3
  <2> QED BY <1>1, <2>3, <2>4
<1>8. need'.ok <=> need.ok /\ run.of = need.of
  BY <1>1, <1>4
<1>9. got' \in [last : EventType \union {"NONE"}, ok : BOOLEAN]
  BY <1>1, <1>4, <1>7
<1>10. IF need'.n = 0 THEN got'.last = need.of /\ (got'.ok <=> got.ok /\ need'.ok) ELSE got' = got
  BY <1>1, <1>4, <1>7
<1> QED BY <1>1, <1>2, <1>4, <1>5, <1>6, <1>7, <1>8, <1>9, <1>10 DEF TakeStep

LEMMA DataTake ==
    ASSUME DataTypeOK, NEW k, TakeStep(k) PROVE DataTypeOK'
<1>1. /\ data \in Seq(Run) /\ data # <<>> /\ Fill(data) <= Depth /\ need.of \in EventType
      /\ lens' \in Seq(Run)
  BY DEF DataTypeOK, Fits, TakeStep
<1>a. /\ need' \in [of : EventType \union {"NONE"}, n : Nat, ok : BOOLEAN]
      /\ need'.of \in EventType
  BY <1>1 DEF TakeStep
<1>2. PICK run \in Run : run = Head(data)
  BY <1>1
<1>3. PICK rest \in Seq(Run) : rest = Tail(data)
  <2>1. Tail(data) \in Seq(Run)
    BY <1>1
  <2> QED BY <2>1
<1>4. Fill(data) = run.n + Fill(rest) /\ Fill(rest) \in Nat /\ Fill(data) \in Nat /\ Depth \in Nat
  BY <1>1, <1>2, <1>3, FillHead, FillType, DepthAssumption
<1>5. run.of \in EventType /\ run.n \in Nat \ {0} /\ k \in Nat \ {0} /\ k <= run.n
  BY <1>2 DEF Run, TakeStep
<1>6. CASE k = run.n
  <2>1. data' = rest
    BY <1>2, <1>3, <1>6 DEF TakeStep
  <2>2. Fill(data') <= Depth
    BY <1>1, <1>4, <1>5, <2>1
  <2> QED BY <1>1, <1>a, <2>1, <2>2 DEF DataTypeOK, Fits
<1>7. CASE k # run.n
  <2>1. PICK left \in Run : left = [of |-> run.of, n |-> run.n - k]
    <3>1. run.n - k \in Nat \ {0}
      BY <1>5, <1>7
    <3> QED BY <1>5, <3>1 DEF Run
  <2>2. data' = <<left>> \o rest
    BY <1>2, <1>3, <1>7, <2>1 DEF TakeStep
  <2>3. left.n = run.n - k
    BY <2>1
  <2>4. Fill(data') = left.n + Fill(rest) /\ data' \in Seq(Run)
    BY <2>2, FillCons
  <2>5. Fill(data') <= Depth
    BY <1>1, <1>4, <1>5, <2>3, <2>4
  <2> QED BY <1>1, <1>a, <2>4, <2>5 DEF DataTypeOK, Fits
<1> QED BY <1>6, <1>7

LEMMA DataWritten ==
    ASSUME DataTypeOK, NEW ev \in EventType, NEW w \in Nat, NEW n \in Nat \ {0}, need' = need,
           data' = Written(data, ev, w), lens' \in {lens, Append(lens, [of |-> ev, n |-> n])}
    PROVE  DataTypeOK'
<1>1. data \in Seq(Run) /\ Fill(data) <= Depth /\ lens \in Seq(Run)
  BY DEF DataTypeOK, Fits
<1>2. data' \in Seq(Run) /\ Fits'
  BY <1>1, WrittenFits DEF Fits
<1>3. PICK run \in Run : run = [of |-> ev, n |-> n]
  BY DEF Run
<1>4. lens' \in Seq(Run)
  <2>1. Append(lens, run) \in Seq(Run)
    BY <1>1
  <2> QED BY <1>1, <1>3, <2>1, Zenon
<1>5. /\ need' \in [of : EventType \union {"NONE"}, n : Nat, ok : BOOLEAN]
      /\ need'.n > 0 => need'.of \in EventType
  BY DEF DataTypeOK
<1> QED BY <1>2, <1>4, <1>5 DEF DataTypeOK

LEMMA DataCleared ==
    ASSUME data' = <<>>, lens' = <<>>, need' = None PROVE DataTypeOK'
<1>1. <<>> \in Seq(Run) /\ Fits'
  BY FillEmpty, DepthAssumption DEF Fits
<1>2. /\ None \in [of : EventType \union {"NONE"}, n : Nat, ok : BOOLEAN] /\ None.n = 0
  BY DEF None
<1> QED BY <1>1, <1>2 DEF DataTypeOK

LEMMA DataCall == ASSUME FifoTypeOK, FifoStep PROVE DataTypeOK'
<1>1. DataTypeOK
  BY DEF FifoTypeOK
<1>2. CASE UNCHANGED <<data, lens, need>>
  BY <1>1, <1>2 DEF DataTypeOK, Fits
<1>3. CASE ClearStep
  BY <1>3, DataCleared DEF ClearStep
<1>4. ASSUME NEW type \in {"HELLO", "PRESTART", "GO", "END"}, NEW w, w \in {8, ControlWords},
             SayStep(type, w)
      PROVE  DataTypeOK'
  <2>1. type \in EventType /\ w \in Nat \ {0} /\ w \in Nat
    BY <1>4 DEF EventType, ControlWords
  <2>2. /\ need' = need /\ data' = Written(data, type, w)
        /\ lens' = Append(lens, [of |-> type, n |-> w])
    BY <1>4 DEF SayStep
  <2> QED BY <1>1, <2>1, <2>2, DataWritten
<1>5. ASSUME NEW n, UserStep(n) PROVE DataTypeOK'
  <2>1. n \in Nat \ {0} /\ n \in Nat
    BY <1>5, BankLength DEF UserStep, UserWords, HeaderWords
  <2>2. PICK w \in Nat : data' = Written(data, "USER", w)
    BY <1>5, <2>1 DEF UserStep, HeaderWords
  <2>3. need' = need /\ lens' = Append(lens, [of |-> "USER", n |-> n]) /\ "USER" \in EventType
    BY <1>5 DEF UserStep, EventType
  <2> QED BY <1>1, <2>1, <2>2, <2>3, DataWritten
<1>6. ASSUME NEW n, LoopStep(n) PROVE DataTypeOK'
  <2>1. n \in Nat \ {0} /\ n \in Nat
    BY <1>6, LoopTakes DEF LoopStep
  <2>2. need' = need /\ lens' = lens /\ data' = Written(data, "USER", n) /\ "USER" \in EventType
    BY <1>6 DEF LoopStep, EventType
  <2> QED BY <1>1, <2>1, <2>2, DataWritten
<1>7. CASE QuietStep \/ DownStep \/ ConnectStep \/ LeaveStep
  BY <1>2, <1>7 DEF QuietStep, DownStep, ConnectStep, LeaveStep
<1> QED BY <1>3, <1>4, <1>5, <1>6, <1>7 DEF FifoStep

LEMMA LinkEffects ==
    ASSUME long \in BOOLEAN, FifoStep
    PROVE  /\ got' = got \/ got' = Nothing
           /\ tcp' = tcp \/ tcp' = "down" \/ tcp' = "asked"
           /\ client' = client \/ client' = Unset \/ Told
           /\ long' \in BOOLEAN
<1>1. CASE QuietStep \/ LeaveStep
  BY <1>1 DEF QuietStep, LeaveStep
<1>2. CASE ClearStep
  BY <1>2 DEF ClearStep
<1>3. CASE DownStep
  BY <1>3 DEF DownStep
<1>4. CASE ConnectStep
  <2>1. long' \in BOOLEAN
    BY <1>4 DEF ConnectStep
  <2>2. got' = Nothing /\ tcp' = "asked" /\ client' = client
    BY <1>4 DEF ConnectStep
  <2> QED BY <2>1, <2>2
<1>5. ASSUME NEW type, NEW w, SayStep(type, w) PROVE UNCHANGED <<got, tcp, client, long>>
  BY <1>5 DEF SayStep
<1>6. ASSUME NEW n, UserStep(n) PROVE UNCHANGED <<got, tcp, client>> /\ long' \in BOOLEAN
  BY <1>6 DEF UserStep
<1>7. ASSUME NEW n, LoopStep(n) PROVE UNCHANGED <<got, tcp, client, long>>
  BY <1>7 DEF LoopStep
<1> QED BY <1>1, <1>2, <1>3, <1>4, <1>5, <1>6, <1>7 DEF FifoStep

LEMMA LinkCall ==
    ASSUME FifoTypeOK, FifoStep, Calls PROVE LinkTypeOK' /\ ubuf' \in BankLens \union {0}
<1>1. got \in [last : EventType \union {"NONE"}, ok : BOOLEAN] /\ tcp \in {"down", "asked", "up"}
  BY DEF FifoTypeOK, LinkTypeOK
<1>2. net \in SUBSET Keys /\ client \in Client
  BY DEF FifoTypeOK, LinkTypeOK
<1>3. emuport \in EmuPorts \union {0}
  BY DEF FifoTypeOK, LinkTypeOK
<1>4. emuport \in Nat
  BY <1>3, EmuPortsAssumption
<1>5. ubuf \in BankLens \union {0}
  BY DEF FifoTypeOK, UserTypeOK
<1>6. emuport' = emuport
  BY DEF Calls, Open, LoadZ7, LoadV7, LoadUnmapped, InitVtp, ReadNetFile, ConfigRoc, ResetRoc,
         Unflag, SetTcpCfg, Connect, WaitConnection, Greet, StopEb, InitEb, ConfigEb, Hardware,
         SetLevel, StartEb, WritePrestart, WriteGo, WriteEnd, Control, File2Event, WriteUser,
         WriteUserLoop, Enable, Disable, Count, Close, ForceClose, CloseVtp, Call, Advance, Then
<1>7. ubuf' = ubuf \/ ubuf' = 0 \/ ubuf' \in BankLens
  BY DEF Calls, Open, LoadZ7, LoadV7, LoadUnmapped, InitVtp, ReadNetFile, ConfigRoc, ResetRoc,
         Unflag, SetTcpCfg, Connect, WaitConnection, Greet, StopEb, InitEb, ConfigEb, Hardware,
         SetLevel, StartEb, WritePrestart, WriteGo, WriteEnd, Control, File2Event, WriteUser,
         WriteUserLoop, Enable, Disable, Count, Close, ForceClose, CloseVtp, Call
<1>8. net' \in SUBSET Keys
  <2>1. CASE ReadNetFile
    <3>1. net' = net \/ \E found \in SUBSET Keys : net' = net \union found
      BY <2>1 DEF ReadNetFile
    <3>2. CASE \E found \in SUBSET Keys : net' = net \union found
      BY <1>2, <3>2
    <3> QED BY <1>2, <3>1, <3>2
  <2>2. net' = net \/ net' = {} \/ ReadNetFile
    BY DEF Calls, Open, LoadZ7, LoadV7, LoadUnmapped, InitVtp, ConfigRoc, ResetRoc,
           Unflag, SetTcpCfg, Connect, WaitConnection, Greet, StopEb, InitEb, ConfigEb, Hardware,
           SetLevel, StartEb, WritePrestart, WriteGo, WriteEnd, Control, File2Event, WriteUser,
           WriteUserLoop, Enable, Disable, Count, Close, ForceClose, CloseVtp, Call
  <2> QED BY <1>2, <2>1, <2>2
<1>9. got' \in [last : EventType \union {"NONE"}, ok : BOOLEAN] /\ tcp' \in {"down", "asked", "up"}
  <2>1. Nothing \in [last : EventType \union {"NONE"}, ok : BOOLEAN]
    BY DEF Nothing
  <2>2. long \in BOOLEAN
    BY DEF FifoTypeOK, UserTypeOK
  <2> QED BY <1>1, <2>1, <2>2, LinkEffects
<1>10. client' \in Client
  <2>1. \A n \in SUBSET Keys, p \in 0 .. MaxPort : [net |-> n, port |-> p] \in Client
    BY DEF Client
  <2>2. CASE Told
    <3>1. PICK p \in Nat : p = emuport
      BY <1>4
    <3>2. p <= MaxPort /\ client' = [net |-> net, port |-> p]
      BY <2>2, <3>1 DEF Told
    <3>3. MaxPort \in Nat
      BY DEF MaxPort
    <3>4. p \in 0 .. MaxPort
      BY <3>2, <3>3
    <3> QED BY <1>2, <2>1, <3>2, <3>4
  <2>3. CASE client' = Unset
    <3>1. {} \in SUBSET Keys /\ 0 \in 0 .. MaxPort
      BY DEF MaxPort
    <3> QED BY <2>1, <2>3, <3>1 DEF Unset
  <2>4. long \in BOOLEAN
    BY DEF FifoTypeOK, UserTypeOK
  <2> QED BY <1>2, <2>2, <2>3, <2>4, LinkEffects
<1>11. emuport' \in EmuPorts \union {0}
  BY <1>3, <1>6
<1>12. ubuf' \in BankLens \union {0}
  BY <1>5, <1>7, Zenon
<1> QED BY <1>8, <1>9, <1>10, <1>11, <1>12 DEF LinkTypeOK

LEMMA UserCall ==
    ASSUME FlowInv, FifoTypeOK, FifoStep, CallStep, Calls PROVE UserTypeOK'
<1>1. ubuf' \in BankLens \union {0}
  BY LinkCall
<1>2. long \in BOOLEAN /\ rem \in Nat /\ (rem > 0 => Runs("prestarted") /\ Left = 1 /\ long)
  BY DEF FifoTypeOK, UserTypeOK
<1>3. rem' \in Nat /\ (rem' > 0 => At("user") /\ UNCHANGED <<coda, prog, to, err>>)
  BY UserCases
<1>4. long' \in BOOLEAN
  BY <1>2, LinkEffects
<1>5. ASSUME rem' > 0 PROVE Runs("prestarted")' /\ Left' = 1 /\ long'
  <2>1. Runs("prestarted") /\ Left = 1
    BY <1>3, <1>5, Place
       DEF At, Where, InDownload, InEnd, InPrestart, InGo, InPause, InReset, Runs, FlowInv
  <2>2. Runs("prestarted")' /\ Left' = 1
    BY <1>3, <1>5, <2>1 DEF Runs, Left
  <2>3. CASE \E n : UserStep(n)
    <3>1. PICK n : UserStep(n)
      BY <2>3
    <3>2. FlowControl(blen) /\ n = UserWords(blen) /\ long' = (long \/ n > Depth - Fill(data))
      BY <1>5, <3>1 DEF UserStep
    <3>3. Fill(data) \in Nat /\ n \in Nat /\ Depth \in Nat
      BY <3>2, FillType, BankLength, DepthAssumption DEF FifoTypeOK, DataTypeOK
    <3>4. n > Depth
      BY <3>2 DEF FlowControl
    <3>5. n > Depth - Fill(data)
      BY <3>3, <3>4
    <3> QED BY <2>2, <3>2, <3>5
  <2>4. CASE \E n : LoopStep(n)
    BY <1>2, <2>2, <2>4 DEF LoopStep
  <2> QED BY <1>3, <1>5, <2>3, <2>4
          DEF FifoStep, QuietStep, ClearStep, DownStep, ConnectStep, SayStep, LeaveStep, At
<1> QED BY <1>1, <1>3, <1>4, <1>5 DEF UserTypeOK

LEMMA FifoInit == Init => FifoTypeOK /\ ClearInv /\ WholeInv /\ OrderInv
<1> SUFFICES ASSUME Init PROVE FifoTypeOK /\ ClearInv /\ WholeInv /\ OrderInv
  OBVIOUS
<1>1. /\ data = <<>> /\ lens = <<>> /\ need = None /\ got = Nothing /\ tcp = "down"
      /\ client = Unset /\ prog = <<>> /\ coda = "booted" /\ net = {} /\ emuport = 0 /\ ubuf = 0
      /\ rem = 0 /\ long = FALSE
  BY DEF Init, RocInit
<1>2. <<>> \in Seq(Run) /\ Fits
  BY <1>1, FillEmpty, DepthAssumption DEF Fits
<1>3. DataTypeOK
  BY <1>1, <1>2 DEF DataTypeOK, None
<1>4. client \in Client
  <2>1. \A n \in SUBSET Keys, p \in 0 .. MaxPort : [net |-> n, port |-> p] \in Client
    BY DEF Client
  <2>2. {} \in SUBSET Keys /\ 0 \in 0 .. MaxPort
    BY DEF MaxPort
  <2> QED BY <1>1, <2>1, <2>2 DEF Unset
<1>5. LinkTypeOK
  <2>1. Nothing \in [last : EventType \union {"NONE"}, ok : BOOLEAN]
    BY DEF Nothing
  <2>2. {} \in SUBSET Keys
    OBVIOUS
  <2> QED BY <1>1, <1>4, <2>1, <2>2 DEF LinkTypeOK
<1>7. UserTypeOK
  <2>1. ubuf \in BankLens \union {0} /\ long \in BOOLEAN
    BY <1>1
  <2>2. rem \in Nat /\ ~(rem > 0)
    BY <1>1
  <2> QED BY <2>1, <2>2 DEF UserTypeOK
<1>6. Due = <<>> /\ need.n = 0 /\ got.ok /\ Len(Due) = 0
  BY <1>1 DEF Due, None, Nothing
<1>8. OrderInv
  <2>1. Line = [k \in 1 .. 1 |-> IF k = 1 THEN got.last ELSE Due[k - 1].of]
    BY <1>6 DEF Line
  <2>2. Len(Line) = 1
    BY <2>1
  <2>3. Ordered
    BY <2>2 DEF Ordered
  <2> QED BY <1>1, <2>3 DEF OrderInv, Runs, Running
<1> QED BY <1>1, <1>3, <1>5, <1>6, <1>7, <1>8 DEF FifoTypeOK, ClearInv, WholeInv, Runs

LEMMA FifoTypeNext ==
    ASSUME FlowInv, FifoTypeOK, [Next]_vars PROVE FifoTypeOK'
<1>0. DataTypeOK /\ LinkTypeOK /\ UserTypeOK
  BY DEF FifoTypeOK
<1>1. CASE Calls
  BY <1>1, CallCases, FifoCases, DataCall, LinkCall, UserCall DEF FifoTypeOK
<1>2. ASSUME UNCHANGED <<fifoVars, client, net, emuport, ubuf, long, rem, prog, to, got>>,
             tcp' \in {"down", "asked", "up"}
      PROVE  FifoTypeOK'
  <2>1. DataTypeOK'
    BY <1>0, <1>2 DEF DataTypeOK, Fits, fifoVars
  <2>2. LinkTypeOK'
    BY <1>0, <1>2 DEF LinkTypeOK
  <2>3. UserTypeOK'
    BY <1>0, <1>2 DEF UserTypeOK, Runs, Left
  <2> QED BY <2>1, <2>2, <2>3 DEF FifoTypeOK
<1>3. CASE Commands
  <2>1. UNCHANGED <<rocVars, net, ubuf, rem, long>> /\ prog = <<>>
    BY <1>3 DEF Commands, Command, Stay
  <2>2. rem = 0
    BY <1>0, <2>1 DEF UserTypeOK, Runs
  <2>3. emuport' \in EmuPorts \union {0}
    <3>1. emuport' = emuport \/ emuport' \in EmuPorts
      BY <1>3 DEF Commands, Stay
    <3>2. emuport \in EmuPorts \union {0}
      BY <1>0 DEF LinkTypeOK
    <3> QED BY <3>1, <3>2, Zenon
  <2>4. DataTypeOK'
    BY <1>0, <2>1 DEF DataTypeOK, Fits, fifoVars, rocVars
  <2>5. LinkTypeOK'
    BY <1>0, <2>1, <2>3 DEF LinkTypeOK, rocVars, netVars
  <2>6. UserTypeOK'
    BY <1>0, <2>1, <2>2 DEF UserTypeOK
  <2> QED BY <2>4, <2>5, <2>6 DEF FifoTypeOK
<1>4. CASE rocTrigger \/ Blocks \/ UNCHANGED vars
  <2>1. tcp \in {"down", "asked", "up"}
    BY <1>0 DEF LinkTypeOK
  <2> QED BY <1>2, <1>4, <2>1 DEF rocTrigger, Acknowledge, Blocks, Trigger, vars, listVars, rocVars,
                                  netVars
<1>5. CASE Firmware
  <2>1. CASE LinkUp(emuport) \/ LinkDown
    <3>1. tcp' \in {"up", "down"} /\ UNCHANGED <<fifoVars, client, got>>
      BY <2>1 DEF LinkUp, LinkDown, Disconnect
    <3> QED BY <1>2, <1>5, <3>1 DEF Firmware, listVars
  <2>2. CASE TakeLength
    <3>1. /\ lens \in Seq(Run) /\ lens # <<>> /\ lens' = Tail(lens)
          /\ need' = [of |-> Head(lens).of, n |-> Head(lens).n, ok |-> TRUE]
          /\ UNCHANGED <<data, netVars>>
      BY <1>0, <2>2 DEF TakeLength, DataTypeOK
    <3>2. Head(lens) \in Run /\ Tail(lens) \in Seq(Run)
      BY <3>1
    <3>3. Head(lens).of \in EventType /\ Head(lens).n \in Nat
      BY <3>2 DEF Run
    <3>4. DataTypeOK'
      BY <1>0, <3>1, <3>2, <3>3 DEF DataTypeOK, Fits
    <3>5. LinkTypeOK' /\ UserTypeOK'
      BY <1>0, <1>5, <3>1 DEF LinkTypeOK, UserTypeOK, Runs, Left, Firmware, listVars, netVars
    <3> QED BY <3>4, <3>5 DEF FifoTypeOK
  <2>3. CASE TakeWords
    <3>1. PICK k : TakeStep(k)
      BY <1>0, <2>3, TakeCases
    <3>2. DataTypeOK'
      BY <1>0, <3>1, DataTake
    <3>3. LinkTypeOK' /\ UserTypeOK'
      BY <1>0, <1>5, <3>1 DEF LinkTypeOK, UserTypeOK, Runs, Left, Firmware, listVars, TakeStep
    <3> QED BY <3>2, <3>3 DEF FifoTypeOK
  <2> QED BY <1>5, <2>1, <2>2, <2>3 DEF Firmware
<1> QED BY <1>1, <1>3, <1>4, <1>5 DEF Next

-----------------------------------------------------------------------------
(* What is due, step by step *)

Event == EventType \union {"NONE"}

LEMMA DueType == ASSUME DataTypeOK PROVE Due \in Seq(Run)
BY DueAppended DEF DataTypeOK

LineShape ==
    /\ Line \in Seq(Event) /\ Len(Line) \in Nat \ {0} /\ Len(Line) = Len(Due) + 1
    /\ Line[1] = got.last /\ \A k \in 1 .. Len(Due) : Line[k + 1] = Due[k].of

LEMMA LineType == DataTypeOK /\ LinkTypeOK => LineShape
<1> SUFFICES ASSUME DataTypeOK, LinkTypeOK PROVE LineShape
  OBVIOUS
<1>1. Due \in Seq(Run) /\ Len(Due) \in Nat
  BY DueType
<1>2. got.last \in Event
  BY DEF LinkTypeOK, Event
<1>3. \A k \in 1 .. Len(Due) : Due[k].of \in Event
  <2>1. \A k \in 1 .. Len(Due) : Due[k] \in Run
    BY <1>1
  <2> QED BY <2>1 DEF Run, Event
<1>4. Line = [k \in 1 .. Len(Due) + 1 |-> IF k = 1 THEN got.last ELSE Due[k - 1].of]
  BY DEF Line
<1>5. PICK n \in Nat : n = Len(Due)
  BY <1>1
<1>6. \A k \in 1 .. n + 1 : k = 1 \/ k - 1 \in 1 .. n
  OBVIOUS
<1>7. \A k \in 1 .. n + 1 : Line[k] \in Event
  BY <1>2, <1>3, <1>4, <1>5, <1>6
<1>8. Line \in [1 .. n + 1 -> Event]
  BY <1>4, <1>5, <1>7
<1>9. n + 1 \in Nat \ {0} /\ Line \in Seq(Event)
  <2>1. n + 1 \in Nat
    BY <1>5
  <2> QED BY <1>8, <2>1
<1>10. Len(Line) = n + 1
  BY <1>8, <1>9
<1>11. \A k \in 1 .. n : Line[k + 1] = Due[k].of
  <2>1. \A k \in 1 .. n : k + 1 \in 1 .. n + 1 /\ k + 1 # 1 /\ k + 1 - 1 = k
    BY <1>5
  <2> QED BY <1>4, <1>5, <2>1
<1> QED BY <1>4, <1>5, <1>9, <1>10, <1>11 DEF LineShape

LEMMA LineTypeNext == ASSUME DataTypeOK', LinkTypeOK' PROVE LineShape'
BY LineType, PTL

\* The same events due after the same event received make the same line.
LEMMA LineSame ==
    ASSUME DataTypeOK, LinkTypeOK, DataTypeOK', LinkTypeOK', got'.last = got.last,
           Len(Due') = Len(Due), \A k \in 1 .. Len(Due) : Due'[k].of = Due[k].of
    PROVE  Line' = Line
<1>1. Len(Due) \in Nat
  BY DueType
<1>2. \A k \in 1 .. Len(Due) + 1 : k = 1 \/ k - 1 \in 1 .. Len(Due)
  BY <1>1
<1> QED BY <1>2 DEF Line

LEMMA DueTakeLength == ASSUME DataTypeOK, TakeLength PROVE Due' = Due
<1>1. /\ lens \in Seq(Run) /\ lens # <<>> /\ need.n = 0 /\ lens' = Tail(lens)
      /\ need' = [of |-> Head(lens).of, n |-> Head(lens).n, ok |-> TRUE]
  BY DEF DataTypeOK, TakeLength
<1>2. PICK run \in Run : run = Head(lens)
  BY <1>1
<1>3. run = [of |-> run.of, n |-> run.n] /\ run.n > 0
  BY <1>2 DEF Run
<1>4. need'.of = run.of /\ need'.n = run.n
  BY <1>1, <1>2
<1>5. Due' = <<run>> \o Tail(lens)
  BY <1>1, <1>3, <1>4 DEF Due
<1>6. <<run>> \o Tail(lens) = lens
  BY <1>1, <1>2
<1>7. Due = lens
  BY <1>1 DEF Due
<1> QED BY <1>5, <1>6, <1>7

\* The event the firmware reads is the first one due.
LEMMA DueTaken ==
    ASSUME DataTypeOK, need.n > 0
    PROVE  /\ Due # <<>> /\ Head(Due) = [of |-> need.of, n |-> need.n] /\ Tail(Due) = lens
           /\ Due = <<[of |-> need.of, n |-> need.n]>> \o lens
<1>1. lens \in Seq(Run) /\ need.n \in Nat /\ need.of \in EventType
  BY DEF DataTypeOK
<1>2. PICK run \in Run : run = [of |-> need.of, n |-> need.n]
  <2>1. need.n \in Nat \ {0}
    BY <1>1
  <2> QED BY <1>1, <2>1 DEF Run
<1>3. Due = <<run>> \o lens
  BY <1>2 DEF Due
<1> QED BY <1>1, <1>2, <1>3

LEMMA LineTake ==
    ASSUME DataTypeOK, LinkTypeOK, DataTypeOK', LinkTypeOK', NEW k, TakeStep(k)
    PROVE  IF need'.n = 0 THEN Line' = Tail(Line) /\ Len(Line) > 1 /\ Due' = Tail(Due)
                          ELSE Line' = Line
<1>1. need.n > 0 /\ lens' = lens /\ need'.of = need.of /\ need.n \in Nat /\ need'.n \in Nat
  BY DEF TakeStep, DataTypeOK
<1>2. /\ Due # <<>> /\ Due = <<[of |-> need.of, n |-> need.n]>> \o lens /\ Tail(Due) = lens
      /\ Head(Due) = [of |-> need.of, n |-> need.n]
  BY <1>1, DueTaken
<1>3. Due \in Seq(Run) /\ Len(Due) \in Nat /\ Len(Due) > 0 /\ lens \in Seq(Run)
      /\ Len(Due) = Len(lens) + 1
  BY <1>2, DueType DEF DataTypeOK
<1>4. CASE need'.n = 0
  <2>1. Due' = lens
    BY <1>1, <1>4 DEF Due
  <2>2. got'.last = need.of
    BY <1>4 DEF TakeStep
  <2>3. /\ Line \in Seq(Event) /\ Len(Line) = Len(Due) + 1
        /\ \A j \in 1 .. Len(Due) : Line[j + 1] = Due[j].of
    BY LineType DEF LineShape
  <2>4. /\ Line' \in Seq(Event) /\ Len(Line') = Len(lens) + 1
        /\ Line'[1] = got'.last /\ \A j \in 1 .. Len(lens) : Line'[j + 1] = lens[j].of
    BY <2>1, LineTypeNext DEF LineShape
  <2>5. \A j \in 1 .. Len(lens) : Due[j + 1] = lens[j]
    BY <1>2, <1>3
  <2>6. Due[1].of = need.of
    BY <1>2, <1>3
  <2>7. \A j \in 1 .. Len(lens) + 1 : Line'[j] = Line[j + 1]
    <3>1. Line[1 + 1] = need.of
      BY <1>3, <2>3, <2>6
    <3>2. ASSUME NEW j \in 1 .. Len(lens) PROVE Line'[j + 1] = Line[j + 1 + 1]
      <4>1. j + 1 \in 1 .. Len(Due)
        BY <1>3
      <4> QED BY <2>3, <2>4, <2>5, <4>1
    <3>3. \A j \in 1 .. Len(lens) + 1 : j = 1 \/ (j - 1 \in 1 .. Len(lens) /\ (j - 1) + 1 = j)
      BY <1>3
    <3> QED BY <2>2, <2>4, <3>1, <3>2, <3>3
  <2>8. Line' = Tail(Line) /\ Len(Line) > 1
    <3>1. Tail(Line) \in Seq(Event) /\ Len(Tail(Line)) = Len(lens) + 1 /\ Len(Line) > 1
      BY <1>3, <2>3
    <3>2. \A j \in 1 .. Len(lens) + 1 : Tail(Line)[j] = Line[j + 1]
      BY <2>3, <3>1
    <3>3. Tail(Line) = Line'
      BY <2>4, <2>7, <3>1, <3>2
    <3> QED BY <3>1, <3>3
  <2> QED BY <1>2, <1>4, <2>1, <2>8
<1>5. CASE need'.n # 0
  <2>1. need'.n > 0 /\ Due' = <<[of |-> need.of, n |-> need'.n]>> \o lens
    BY <1>1, <1>5 DEF Due
  <2>2. PICK run \in Run : run = [of |-> need.of, n |-> need'.n]
    <3>1. need'.n \in Nat \ {0} /\ need.of \in EventType
      BY <1>1, <1>5 DEF DataTypeOK
    <3> QED BY <3>1 DEF Run
  <2>3. PICK first \in Run : first = [of |-> need.of, n |-> need.n]
    <3>1. need.n \in Nat \ {0} /\ need.of \in EventType
      BY <1>1 DEF DataTypeOK
    <3> QED BY <3>1 DEF Run
  <2>4. Due' = <<run>> \o lens /\ Due = <<first>> \o lens /\ run.of = first.of
    BY <1>2, <2>1, <2>2, <2>3
  <2>5. Len(Due') = Len(Due) /\ \A j \in 1 .. Len(Due) : Due'[j].of = Due[j].of
    BY <1>3, <2>4
  <2>6. got'.last = got.last
    BY <1>5 DEF TakeStep
  <2> QED BY <1>5, <2>5, <2>6, LineSame
<1> QED BY <1>4, <1>5

\* What an event that is announced, a cleared FIFO and a new connection make of it.
LEMMA LineAppended ==
    ASSUME DataTypeOK, LinkTypeOK, DataTypeOK', LinkTypeOK', NEW run \in Run,
           lens' = Append(lens, run), need' = need, got' = got
    PROVE  Line' = Append(Line, run.of)
<1>1. Due' = Append(Due, run) /\ Due \in Seq(Run)
  BY DueAppended DEF DataTypeOK
<1>2. /\ Line \in Seq(Event) /\ Len(Line) = Len(Due) + 1 /\ Line[1] = got.last
      /\ \A j \in 1 .. Len(Due) : Line[j + 1] = Due[j].of
  BY LineType DEF LineShape
<1>3. /\ Line' \in Seq(Event) /\ Len(Line') = Len(Due') + 1 /\ Line'[1] = got'.last
      /\ \A j \in 1 .. Len(Due') : Line'[j + 1] = Due'[j].of
  BY LineTypeNext DEF LineShape
<1>4. PICK of \in Event : of = run.of
  BY DEF Run, Event
<1>5. Len(Due') = Len(Due) + 1 /\ Len(Due) \in Nat /\ Due'[Len(Due) + 1] = run
      /\ \A j \in 1 .. Len(Due) : Due'[j] = Due[j]
  BY <1>1
<1>6. \A j \in 1 .. Len(Due) + 1 : j = 1 \/ (j - 1 \in 1 .. Len(Due) /\ j - 1 + 1 = j)
  BY <1>5
<1>7. \A j \in 1 .. Len(Due) + 1 : Line'[j] = Line[j]
  <2>1. \A j \in 1 .. Len(Due) : Line'[j + 1] = Line[j + 1]
    <3>1. \A j \in 1 .. Len(Due) : j \in 1 .. Len(Due')
      BY <1>5
    <3> QED BY <1>2, <1>3, <1>5, <3>1
  <2> QED BY <1>2, <1>3, <1>6, <2>1
<1>8. Line'[Len(Due) + 2] = of
  <2>1. Len(Due) + 1 \in 1 .. Len(Due')
    BY <1>5
  <2>2. Line'[Len(Due) + 1 + 1] = Due'[Len(Due) + 1].of
    BY <1>3, <2>1
  <2> QED BY <1>4, <1>5, <2>2
<1>9. Append(Line, of) \in Seq(Event) /\ Len(Append(Line, of)) = Len(Due) + 2
      /\ Append(Line, of)[Len(Due) + 2] = of
      /\ \A j \in 1 .. Len(Due) + 1 : Append(Line, of)[j] = Line[j]
  BY <1>2, <1>4, <1>5
<1>10. \A j \in 1 .. Len(Due) + 2 : j \in 1 .. Len(Due) + 1 \/ j = Len(Due) + 2
  BY <1>5
<1>11. \A j \in 1 .. Len(Due) + 2 : Line'[j] = Append(Line, of)[j]
  BY <1>7, <1>8, <1>9, <1>10
<1>12. Len(Line') = Len(Due) + 2
  BY <1>3, <1>5
<1> QED BY <1>3, <1>4, <1>9, <1>11, <1>12

LEMMA LineCleared ==
    ASSUME DataTypeOK', LinkTypeOK', lens' = <<>>, need'.n = 0
    PROVE  Len(Line') = 1 /\ Line'[1] = got'.last /\ LastDue' = got'.last
<1>1. Due' = <<>> /\ Len(Due') = 0
  BY DEF Due
<1>2. Len(Line') = Len(Due') + 1 /\ Line'[1] = got'.last
  BY LineTypeNext DEF LineShape
<1>3. LastDue' = Line'[Len(Line')]
  BY DEF LastDue
<1> QED BY <1>1, <1>2, <1>3

-----------------------------------------------------------------------------
(* rocPrestart clears the FIFO, then connects *)

\* A call from which rocPrestart goes on returns.
LEMMA PrestartGoes ==
    ASSUME FlowInv, CallStep, Runs("prestarted")'
    PROVE  /\ to = "prestarted" /\ prog # <<>> /\ InPrestart /\ coda = "downloaded"
           /\ Left \in Nat /\ Left' \in Nat
           /\ \/ Returns /\ Left >= 2 /\ Left' = Left - 1 /\ coda' = coda /\ (err => err')
              \/ At("user") /\ Left = 1 /\ UNCHANGED <<coda, prog, to, err>> /\ Left' = Left
<1>1. prog' # <<>> /\ to' = "prestarted"
  BY DEF Runs
<1>2. \/ Returns
      \/ At("user") /\ UNCHANGED <<coda, prog, to, err, dev>>
  BY <1>1 DEF CallStep, LoadUnmapped
<1>3. to = "prestarted" /\ prog # <<>>
  BY <1>1, <1>2 DEF Returns
<1>4. InPrestart /\ coda = "downloaded"
  BY <1>3, Place DEF Where, FlowInv, Runs
<1>5. CASE Returns
  <2>1. /\ Left \in Nat /\ Left >= 1 /\ Left' = Left - 1 /\ (prog' = <<>> <=> Left = 1)
        /\ coda' = IF Left = 1 THEN IF err' THEN "error" ELSE to ELSE coda
    BY <1>5, Returned
  <2> QED BY <1>1, <1>3, <1>4, <1>5, <2>1 DEF Returns
<1>6. CASE At("user") /\ UNCHANGED <<coda, prog, to, err, dev>>
  <2>1. Left = 1 /\ Left' = Left
    BY <1>4, <1>6 DEF InPrestart, At, Left
  <2> QED BY <1>3, <1>4, <1>6, <2>1
<1> QED BY <1>2, <1>5, <1>6

LEMMA ClearNext ==
    ASSUME FlowInv, FifoTypeOK, ClearInv, [Next]_vars PROVE ClearInv'
<1>1. CASE Calls
  <2>1. CallStep /\ FifoStep
    BY <1>1, CallCases, FifoCases
  <2> SUFFICES ASSUME Runs("prestarted")', Left' \in 8 .. 11
               PROVE  /\ data' = <<>> /\ lens' = <<>> /\ need'.n = 0
                      /\ Left' \in 8 .. 9 => got' = Nothing
    BY DEF ClearInv
  <2>2. Left \in 9 .. 12 /\ Left' = Left - 1 /\ InPrestart /\ Runs("prestarted")
    BY <2>1, PrestartGoes DEF Runs
  <2>3. CASE Left = 12
    <3>1. At("rocreset")
      BY <2>2, <2>3 DEF InPrestart
    <3>2. ClearStep
      BY <2>1, <3>1 DEF FifoStep, QuietStep, DownStep, ConnectStep, SayStep, UserStep, LoopStep,
                        LeaveStep, At
    <3> QED BY <2>2, <2>3, <3>2 DEF ClearStep, None
  <2>4. CASE Left \in 9 .. 11
    <3>1. data = <<>> /\ lens = <<>> /\ need.n = 0 /\ (Left = 9 => got = Nothing)
      BY <2>2, <2>4 DEF ClearInv
    <3>2. /\ At("tcpcfg") \/ At("connect") \/ At("wait")
          /\ Left = 10 => At("connect")
          /\ Left = 9 => At("wait")
      BY <2>2, <2>4 DEF InPrestart
    <3>3. /\ QuietStep \/ DownStep \/ ConnectStep
          /\ At("connect") => ConnectStep
          /\ At("wait") => QuietStep
      BY <2>1, <3>2 DEF FifoStep, QuietStep, ClearStep, DownStep, ConnectStep, SayStep, UserStep,
                        LoopStep, LeaveStep, At
    <3>4. UNCHANGED <<data, lens, need>>
      BY <3>3 DEF QuietStep, DownStep, ConnectStep
    <3>5. Left = 10 => got' = Nothing
      BY <3>2, <3>3 DEF ConnectStep
    <3>6. Left = 9 => got' = Nothing
      BY <3>1, <3>2, <3>3 DEF QuietStep
    <3> QED BY <2>2, <2>4, <3>1, <3>4, <3>5, <3>6
  <2> QED BY <2>2, <2>3, <2>4
<1>2. CASE Commands
  <2>1. prog' # <<>> /\ to' = "prestarted" => Left' = 15
    BY <1>2, PrestartCalls DEF Commands, Command, Left
  <2> QED BY <2>1 DEF ClearInv, Runs
<1>3. CASE rocTrigger \/ Blocks \/ Firmware \/ UNCHANGED vars
  <2>1. UNCHANGED <<prog, to>>
    BY <1>3 DEF rocTrigger, Blocks, Firmware, listVars, vars
  <2> SUFFICES ASSUME Runs("prestarted"), Left \in 8 .. 11
               PROVE  /\ data' = <<>> /\ lens' = <<>> /\ need'.n = 0
                      /\ Left \in 8 .. 9 => got' = Nothing
    BY <2>1 DEF ClearInv, Runs, Left
  <2>2. data = <<>> /\ lens = <<>> /\ need.n = 0 /\ (Left \in 8 .. 9 => got = Nothing)
    BY DEF ClearInv
  <2>3. UNCHANGED <<data, lens, need, got>>
    <3>1. ~TakeLength /\ ~TakeWords
      BY <2>2 DEF TakeLength, TakeWords
    <3> QED BY <1>3, <3>1 DEF rocTrigger, Acknowledge, Blocks, Trigger, Firmware, LinkUp, LinkDown,
                              Disconnect, vars, rocVars, fifoVars, netVars
  <2> QED BY <2>2, <2>3
<1> QED BY <1>1, <1>2, <1>3 DEF Next

-----------------------------------------------------------------------------
(* The words in the FIFO are those of the events due *)

LEMMA WholeSaid ==
    ASSUME FifoTypeOK, WholeInv, NEW type \in EventType, NEW n \in Nat \ {0},
           n <= Depth - Fill(data), data' = Written(data, type, n),
           lens' = Append(lens, [of |-> type, n |-> n]), UNCHANGED <<need, got>>, ~long
    PROVE  data' = Due' /\ got'.ok /\ (need'.n > 0 => need'.ok)
<1>1. /\ data \in Seq(Run) /\ Fill(data) <= Depth /\ lens \in Seq(Run)
      /\ need \in [of : EventType \union {"NONE"}, n : Nat, ok : BOOLEAN]
      /\ need.n > 0 => need.of \in EventType
  BY DEF FifoTypeOK, DataTypeOK, Fits
<1>2. PICK run \in Run : run = [of |-> type, n |-> n]
  BY DEF Run
<1>3. Due' = Append(Due, run)
  BY <1>1, <1>2, DueAppended
<1>4. data' = Append(data, run)
  <2>1. n \in Nat /\ n > 0
    OBVIOUS
  <2> QED BY <1>1, <1>2, <2>1, WrittenFits
<1>5. data = Due /\ got.ok /\ (need.n > 0 => need.ok)
  BY DEF WholeInv
<1> QED BY <1>3, <1>4, <1>5

LEMMA WholeCall ==
    ASSUME FlowInv, FifoTypeOK, ClearInv, WholeInv, FifoStep PROVE WholeInv'
<1> SUFFICES ASSUME ~long' PROVE data' = Due' /\ got'.ok /\ (need'.n > 0 => need'.ok)
  BY DEF WholeInv
<1>1. data \in Seq(Run) /\ Fill(data) <= Depth /\ Fill(data) \in Nat /\ Depth \in Nat
      /\ Depth >= 30
  BY FillType, DepthAssumption DEF FifoTypeOK, DataTypeOK, Fits
<1>2. CASE UNCHANGED <<data, lens, need, got, long>>
  BY <1>2 DEF WholeInv, Due
<1>3. CASE QuietStep \/ DownStep \/ LeaveStep
  BY <1>2, <1>3 DEF QuietStep, DownStep, LeaveStep
<1>4. CASE ClearStep
  <2>1. data' = <<>> /\ lens' = <<>> /\ need' = None /\ got' = got /\ ~long
    BY <1>4 DEF ClearStep
  <2> QED BY <2>1 DEF WholeInv, Due, None
<1>5. CASE ConnectStep
  <2>1. Runs("prestarted") /\ Left = 10
    BY <1>5, Place DEF ConnectStep, At, Where, InDownload, InEnd, InPrestart, InGo, InPause,
                       InReset, Runs, FlowInv
  <2>2. data = <<>> /\ lens = <<>> /\ need.n = 0
    BY <2>1 DEF ClearInv
  <2>3. UNCHANGED <<data, lens, need>> /\ got' = Nothing
    BY <1>5 DEF ConnectStep
  <2> QED BY <2>2, <2>3 DEF Due, Nothing
<1>6. CASE SayStep("HELLO", 8)
  <2>1. At("greet") /\ UNCHANGED <<need, got, long>> /\ "HELLO" \in EventType
        /\ data' = Written(data, "HELLO", 8) /\ lens' = Append(lens, [of |-> "HELLO", n |-> 8])
    BY <1>6 DEF SayStep, EventType
  <2>2. Runs("prestarted") /\ Left = 8
    BY <2>1, Place DEF At, Where, InDownload, InEnd, InPrestart, InGo, InPause, InReset, Runs,
                       FlowInv
  <2>3. data = <<>>
    BY <2>2 DEF ClearInv
  <2>4. 8 <= Depth - Fill(data) /\ 8 \in Nat \ {0}
    BY <1>1, <2>3, FillEmpty
  <2> QED BY <2>1, <2>4, WholeSaid
<1>7. ASSUME NEW type \in {"PRESTART", "GO", "END"}, SayStep(type, ControlWords)
      PROVE  data' = Due' /\ got'.ok /\ (need'.n > 0 => need'.ok)
  <2>1. UNCHANGED <<need, got, long>> /\ type \in EventType /\ Level(data) = 0
        /\ data' = Written(data, type, ControlWords)
        /\ lens' = Append(lens, [of |-> type, n |-> ControlWords])
    BY <1>7 DEF SayStep, EventType, ControlFits
  <2>2. ControlWords <= Depth - Fill(data)
    BY <1>1, <2>1, LevelRead
  <2>3. ControlWords \in Nat \ {0}
    BY DEF ControlWords
  <2> QED BY <2>1, <2>2, <2>3, WholeSaid
<1>8. ASSUME NEW n, UserStep(n) PROVE data' = Due' /\ got'.ok /\ (need'.n > 0 => need'.ok)
  <2>1. /\ n = UserWords(blen) /\ ~long /\ ~(n > Depth - Fill(data)) /\ UNCHANGED <<need, got>>
        /\ lens' = Append(lens, [of |-> "USER", n |-> n])
    BY <1>8 DEF UserStep
  <2>2. blen \in Nat \ {0} /\ n \in Nat \ {0}
    BY <2>1, BankLength DEF UserWords, HeaderWords
  <2>3. n <= Depth - Fill(data)
    BY <1>1, <2>1, <2>2
  <2>4. PICK b \in Nat : b = blen
    BY <2>2
  <2>5. ~FlowControl(b)
    BY <1>1, <2>1, <2>3, <2>4, UserFits
  <2>6. data' = Written(data, "USER", n)
    BY <1>8, <2>4, <2>5 DEF UserStep
  <2>7. "USER" \in EventType
    BY DEF EventType
  <2> QED BY <2>1, <2>2, <2>3, <2>6, <2>7, WholeSaid
<1>9. ASSUME NEW n, LoopStep(n) PROVE data' = Due' /\ got'.ok /\ (need'.n > 0 => need'.ok)
  BY <1>9 DEF LoopStep, FifoTypeOK, UserTypeOK
<1> QED BY <1>3, <1>4, <1>5, <1>6, <1>7, <1>8, <1>9 DEF FifoStep

LEMMA WholeTake ==
    ASSUME FifoTypeOK, WholeInv, UNCHANGED long, NEW k, TakeStep(k) PROVE WholeInv'
<1> SUFFICES ASSUME ~long PROVE data' = Due' /\ got'.ok /\ (need'.n > 0 => need'.ok)
  BY DEF WholeInv
<1>1. data = Due /\ got.ok /\ need.ok /\ DataTypeOK /\ need.n > 0 /\ lens' = lens
  BY DEF WholeInv, FifoTypeOK, TakeStep
<1>2. Head(data) = [of |-> need.of, n |-> need.n] /\ Tail(data) = lens
  BY <1>1, DueTaken
<1>3. need'.of = need.of /\ need'.n = need.n - k /\ need'.ok /\ need.n \in Nat /\ k \in Nat
  BY <1>1, <1>2 DEF TakeStep, DataTypeOK
<1>4. got'.ok
  BY <1>1, <1>3 DEF TakeStep
<1>5. CASE k = need.n
  <2>1. need'.n = 0
    BY <1>3, <1>5
  <2>2. data' = lens
    BY <1>2, <1>5 DEF TakeStep
  <2>3. Due' = lens
    BY <1>1, <2>1 DEF Due
  <2> QED BY <1>3, <1>4, <2>2, <2>3
<1>6. CASE k # need.n
  <2>1. need'.n > 0
    BY <1>3, <1>6 DEF TakeStep
  <2>2. data' = <<[of |-> need.of, n |-> need.n - k]>> \o lens
    <3>1. Head(data).of = need.of /\ Head(data).n = need.n
      BY <1>2
    <3>2. data' = <<[of |-> Head(data).of, n |-> Head(data).n - k]>> \o Tail(data)
      BY <1>6, <3>1 DEF TakeStep
    <3> QED BY <1>2, <3>1, <3>2
  <2>3. Due' = <<[of |-> need.of, n |-> need.n - k]>> \o lens
    BY <1>1, <1>3, <2>1 DEF Due
  <2> QED BY <1>3, <1>4, <2>2, <2>3
<1> QED BY <1>5, <1>6

LEMMA WholeNext ==
    ASSUME FlowInv, FifoTypeOK, ClearInv, WholeInv, [Next]_vars PROVE WholeInv'
<1>1. CASE Calls
  BY <1>1, FifoCases, WholeCall
<1>2. CASE Firmware
  <2>1. UNCHANGED long
    BY <1>2 DEF Firmware, listVars
  <2>2. CASE TakeWords
    <3>1. PICK k : TakeStep(k)
      BY <2>2, TakeCases DEF FifoTypeOK
    <3> QED BY <2>1, <3>1, WholeTake
  <2>3. CASE TakeLength
    <3>1. Due' = Due
      BY <2>3, DueTakeLength DEF FifoTypeOK
    <3>2. data' = data /\ got' = got /\ need'.ok
      BY <2>3 DEF TakeLength, netVars
    <3> QED BY <2>1, <3>1, <3>2 DEF WholeInv
  <2>4. CASE LinkUp(emuport) \/ LinkDown
    BY <2>1, <2>4 DEF LinkUp, LinkDown, Disconnect, fifoVars, WholeInv, Due
  <2> QED BY <1>2, <2>2, <2>3, <2>4 DEF Firmware
<1>3. CASE Commands \/ rocTrigger \/ Blocks \/ UNCHANGED vars
  <2>1. UNCHANGED <<data, lens, need, got, long>>
    BY <1>3 DEF Commands, Command, Stay, rocTrigger, Acknowledge, Blocks, Trigger, vars, rocVars,
                listVars, fifoVars, netVars
  <2> QED BY <2>1 DEF WholeInv, Due
<1> QED BY <1>1, <1>2, <1>3 DEF Next

-----------------------------------------------------------------------------
(* The order of the events of a connection *)

\* What a call makes of the line of events.
Adds(type) ==
    /\ At(IF type = "HELLO" THEN "greet" ELSE IF type = "USER" THEN "user" ELSE type)
    /\ Line' = Append(Line, type) /\ LastDue' = type /\ tcp' = tcp
LineStep ==
    \/ Line' = Line /\ (QuietStep \/ DownStep \/ LeaveStep \/ \E n : LoopStep(n))
    \/ Len(Line') = 1 /\ (ClearStep \/ ConnectStep)
    \/ \E type \in EventType : Adds(type)

LEMMA LineAdded ==
    ASSUME FifoTypeOK, FifoTypeOK', NEW type \in EventType, NEW n \in Nat \ {0},
           lens' = Append(lens, [of |-> type, n |-> n]), UNCHANGED <<need, got>>
    PROVE  Line' = Append(Line, type) /\ LastDue' = type
<1>1. PICK run \in Run : run = [of |-> type, n |-> n]
  BY DEF Run
<1>2. Line' = Append(Line, run.of) /\ run.of = type
  BY <1>1, LineAppended DEF FifoTypeOK
<1>3. Line \in Seq(Event) /\ type \in Event
  BY LineType DEF LineShape, FifoTypeOK, Event
<1>4. Append(Line, type)[Len(Append(Line, type))] = type
  BY <1>3
<1>5. LastDue' = Line'[Len(Line')]
  BY DEF LastDue
<1> QED BY <1>2, <1>4, <1>5

LEMMA LineCases ==
    ASSUME FlowInv, FifoTypeOK, FifoTypeOK', ClearInv, FifoStep PROVE LineStep
<1>2. CASE QuietStep \/ DownStep \/ LeaveStep \/ \E n : LoopStep(n)
  <2>1. UNCHANGED <<lens, need, got>>
    BY <1>2 DEF QuietStep, DownStep, LeaveStep, LoopStep
  <2>2. Line' = Line
    BY <2>1 DEF Line, Due
  <2> QED BY <1>2, <2>2 DEF LineStep
<1>3. CASE ClearStep
  <2>1. lens' = <<>> /\ need'.n = 0
    BY <1>3 DEF ClearStep, None
  <2> QED BY <1>3, <2>1, LineCleared DEF LineStep, FifoTypeOK
<1>4. CASE ConnectStep
  <2>1. Runs("prestarted") /\ Left = 10
    BY <1>4, Place DEF ConnectStep, At, Where, InDownload, InEnd, InPrestart, InGo, InPause,
                       InReset, Runs, FlowInv
  <2>2. lens' = <<>> /\ need'.n = 0
    BY <1>4, <2>1 DEF ClearInv, ConnectStep
  <2> QED BY <1>4, <2>2, LineCleared DEF LineStep, FifoTypeOK
<1>5. ASSUME NEW type \in {"HELLO", "PRESTART", "GO", "END"}, NEW w \in {8, ControlWords},
             SayStep(type, w)
      PROVE  LineStep
  <2>1. type \in EventType /\ w \in Nat \ {0}
    BY DEF EventType, ControlWords
  <2>2. lens' = Append(lens, [of |-> type, n |-> w]) /\ UNCHANGED <<need, got, tcp>>
        /\ At(IF type = "HELLO" THEN "greet" ELSE type)
    BY <1>5 DEF SayStep
  <2>3. Adds(type)
    BY <2>1, <2>2, LineAdded DEF Adds
  <2> QED BY <2>1, <2>3 DEF LineStep
<1>6. ASSUME NEW n, UserStep(n) PROVE LineStep
  <2>1. n \in Nat \ {0} /\ "USER" \in EventType
    BY <1>6, BankLength DEF UserStep, UserWords, HeaderWords, EventType
  <2>2. lens' = Append(lens, [of |-> "USER", n |-> n]) /\ UNCHANGED <<need, got, tcp>> /\ At("user")
    BY <1>6 DEF UserStep
  <2>3. Adds("USER")
    BY <2>1, <2>2, LineAdded DEF Adds
  <2> QED BY <2>1, <2>3 DEF LineStep
<1> QED BY <1>2, <1>3, <1>4, <1>5, <1>6 DEF FifoStep

\* An order that holds is kept by what the firmware takes and by what may follow.
LEMMA OrderedKept ==
    ASSUME LineShape, Ordered, (Excused => Excused') \/ Len(Line') = 1,
           \/ Line' = Line
           \/ Line' = Tail(Line) /\ Len(Line) > 1
           \/ Len(Line') = 1
           \/ \E type \in EventType :
                 /\ Line' = Append(Line, type)
                 /\ MayFollow(LastDue, type) \/ (LastDue = "HELLO" /\ Excused)
    PROVE  Ordered'
<1>1. PICK line \in Seq(Event) : line = Line
  BY DEF LineShape
<1>2. PICK next : next = Line'
  OBVIOUS
<1> DEFINE ok(a, b) == MayFollow(a, b) \/ (a = "HELLO" /\ Excused)
<1>3. /\ Len(line) \in Nat \ {0} /\ LastDue = line[Len(line)]
      /\ \A k \in 1 .. Len(line) - 1 : ok(line[k], line[k + 1])
  BY <1>1 DEF LineShape, LastDue, Ordered
<1>4. CASE Len(Line') = 1
  BY <1>4 DEF Ordered
<1>5. CASE Len(Line') # 1
  <2>1. SUFFICES \A k \in 1 .. Len(next) - 1 : ok(next[k], next[k + 1])
    BY <1>2, <1>5 DEF Ordered
  <2> HIDE DEF ok
  <2>2. CASE Line' = Line
    BY <1>1, <1>2, <1>3, <2>2
  <2>3. CASE Line' = Tail(Line) /\ Len(Line) > 1
    <3>1. Len(next) = Len(line) - 1 /\ \A k \in 1 .. Len(line) - 1 : next[k] = line[k + 1]
      BY <1>1, <1>2, <2>3
    <3>2. ASSUME NEW k \in 1 .. Len(next) - 1 PROVE ok(next[k], next[k + 1])
      <4>1. k \in 1 .. Len(line) - 1 /\ k + 1 \in 1 .. Len(line) - 1
        BY <1>3, <3>1
      <4>2. ok(line[k + 1], line[k + 1 + 1])
        BY <1>3, <4>1
      <4>3. next[k] = line[k + 1] /\ next[k + 1] = line[k + 1 + 1]
        BY <3>1, <4>1
      <4> QED BY <4>2, <4>3
    <3> QED BY <3>2
  <2>4. ASSUME NEW type \in EventType, Line' = Append(Line, type), ok(LastDue, type)
        PROVE \A k \in 1 .. Len(next) - 1 : ok(next[k], next[k + 1])
    <3>1. type \in Event
      BY DEF Event
    <3>2. /\ Len(next) = Len(line) + 1 /\ next[Len(line) + 1] = type
          /\ \A k \in 1 .. Len(line) : next[k] = line[k]
      BY <1>1, <1>2, <1>3, <2>4, <3>1
    <3>3. ASSUME NEW k \in 1 .. Len(next) - 1 PROVE ok(next[k], next[k + 1])
      <4>1. CASE k = Len(line)
        <5>1. next[k] = LastDue /\ next[k + 1] = type
          BY <1>3, <3>2, <4>1
        <5> QED BY <2>4, <5>1
      <4>2. CASE k # Len(line)
        <5>1. k \in 1 .. Len(line) - 1 /\ k \in 1 .. Len(line) /\ k + 1 \in 1 .. Len(line)
          BY <1>3, <3>2, <4>2
        <5>2. next[k] = line[k] /\ next[k + 1] = line[k + 1]
          BY <3>2, <5>1
        <5>3. ok(line[k], line[k + 1])
          BY <1>3, <5>1
        <5> QED BY <5>2, <5>3
      <4> QED BY <4>1, <4>2
    <3> QED BY <3>3
  <2> QED BY <1>5, <2>2, <2>3, <2>4 DEF ok
<1> QED BY <1>4, <1>5

\* A run without its Prestart stays so until the connection closes or a new one is made.
LEMMA ExcusedCall ==
    ASSUME FlowInv, OrderInv, CallStep, FifoStep, LineStep, Excused
    PROVE  Excused' \/ Len(Line') = 1
<1>1. prog # <<>> /\ Where
  BY Place DEF CallStep, Returns, LoadUnmapped, At
<1>2. CASE tcp = "down"
  <2>1. tcp' = "down" \/ ConnectStep
    BY <1>2 DEF FifoStep, QuietStep, ClearStep, DownStep, SayStep, UserStep, LoopStep, LeaveStep
  <2>2. ConnectStep => Len(Line') = 1
    BY DEF LineStep, ConnectStep, QuietStep, DownStep, LeaveStep, LoopStep, Adds, At, ClearStep,
           EventType
  <2> QED BY <2>1, <2>2 DEF Excused
<1>3. CASE coda = "error"
  <2>1. to = "booted" /\ InReset /\ ~err
    BY <1>1, <1>3 DEF FlowInv, Runs, Where, Rest, Running
  <2>2. Returns
    BY <2>1 DEF CallStep, LoadUnmapped, InReset, At
  <2>3. Left \in {1, 2} /\ coda' = IF Left = 1 THEN IF err' THEN "error" ELSE to ELSE coda
    BY <2>1, <2>2, Returned DEF InReset
  <2>4. CASE Left = 2
    BY <1>3, <2>3, <2>4 DEF Excused
  <2>5. CASE Left = 1
    <3>1. tcp = "down"
      BY <1>1, <2>1, <2>5 DEF OrderInv, Runs
    <3> QED BY <1>2, <3>1
  <2> QED BY <2>3, <2>4, <2>5
<1>4. CASE Runs("prestarted") /\ err
  <2>1. InPrestart
    BY <1>1, <1>4 DEF Where, Runs
  <2>2. Returns \/ UNCHANGED <<coda, prog, to, err, dev>>
    BY <2>1 DEF CallStep, LoadUnmapped, InPrestart, At
  <2>3. CASE Returns
    <3>1. err' /\ to' = "prestarted" /\ (prog' # <<>> \/ coda' = "error")
      BY <1>4, <2>3 DEF Returns, Runs
    <3> QED BY <3>1 DEF Excused, Runs
  <2> QED BY <1>4, <2>2, <2>3 DEF Excused, Runs
<1> QED BY <1>2, <1>3, <1>4 DEF Excused

\* Where the list stands when it announces an event.
LEMMA AddsInOrder ==
    ASSUME FlowInv, FifoTypeOK, ClearInv, OrderInv, FifoStep, NEW type \in EventType, Adds(type)
    PROVE  /\ MayFollow(LastDue, type) \/ (LastDue = "HELLO" /\ Excused)
           /\ type = "HELLO" => Runs("prestarted") /\ Left = 8
           /\ type = "PRESTART" => Runs("prestarted") /\ Left = 3
           /\ type = "USER" => Runs("prestarted") /\ Left = 1
           /\ type = "GO" => Runs("active") /\ Left = 2
           /\ type = "END" => Runs("downloaded") /\ coda \in Running /\ Left = 3
<1> USE DEF Adds
<1>1. prog # <<>> /\ Where
  BY Place DEF At
<1>2. CASE type = "HELLO"
  <2>1. At("greet")
    BY <1>2
  <2>2. Runs("prestarted") /\ Left = 8
    BY <1>1, <2>1 DEF At, Where, InDownload, InEnd, InPrestart, InGo, InPause, InReset, Runs,
                      FlowInv
  <2>3. lens = <<>> /\ need.n = 0 /\ got = Nothing
    BY <2>2 DEF ClearInv
  <2>4. Due = <<>> /\ got.last = "NONE"
    BY <2>3 DEF Due, Nothing
  <2>5. LastDue = "NONE"
    <3>1. Len(Line) = 1 /\ Line[1] = "NONE"
      BY <2>4, LineType DEF LineShape, FifoTypeOK
    <3> QED BY <3>1 DEF LastDue
  <2> QED BY <1>2, <2>2, <2>5 DEF MayFollow
<1>3. CASE type = "PRESTART"
  <2>1. At("PRESTART")
    BY <1>3
  <2>2. Runs("prestarted") /\ Left = 3
    BY <1>1, <2>1 DEF At, Where, InDownload, InEnd, InPrestart, InGo, InPause, InReset, Runs,
                      FlowInv
  <2>3. LastDue = "HELLO"
    BY <2>2 DEF OrderInv
  <2> QED BY <1>3, <2>2, <2>3 DEF MayFollow
<1>4. CASE type = "USER"
  <2>1. At("user")
    BY <1>4
  <2>2. Runs("prestarted") /\ Left = 1
    BY <1>1, <2>1 DEF At, Where, InDownload, InEnd, InPrestart, InGo, InPause, InReset, Runs,
                      FlowInv
  <2>3. LastDue = "PRESTART" \/ (LastDue = "HELLO" /\ err) \/ LastDue = "USER"
    BY <2>2 DEF OrderInv
  <2>4. CASE LastDue = "HELLO" /\ err
    BY <1>4, <2>2, <2>4 DEF Excused
  <2>5. CASE LastDue \in {"PRESTART", "USER"}
    BY <1>4, <2>2, <2>5 DEF MayFollow, EventType, Rank
  <2> QED BY <2>3, <2>4, <2>5
<1>5. CASE type = "GO"
  <2>1. At("GO")
    BY <1>5
  <2>2. Runs("active") /\ Left = 2
    BY <1>1, <2>1 DEF At, Where, InDownload, InEnd, InPrestart, InGo, InPause, InReset, Runs,
                      FlowInv
  <2>3. LastDue \in {"PRESTART", "USER", "GO"}
    BY <2>2 DEF OrderInv, FlowInv, Running, Runs
  <2> QED BY <1>5, <2>2, <2>3 DEF MayFollow, EventType, Rank
<1>6. CASE type = "END"
  <2>1. At("END")
    BY <1>6
  <2>2. Runs("downloaded") /\ Left = 3 /\ coda \notin Rest
    BY <1>1, <2>1 DEF At, Where, InDownload, InEnd, InPrestart, InGo, InPause, InReset, Runs,
                      FlowInv
  <2>3. coda \in Running
    BY <2>2 DEF FlowInv, Running
  <2>4. LastDue \in {"PRESTART", "USER", "GO"}
    BY <2>2, <2>3 DEF OrderInv
  <2> QED BY <1>6, <2>2, <2>3, <2>4 DEF MayFollow, EventType, Rank
<1> QED BY <1>2, <1>3, <1>4, <1>5, <1>6 DEF EventType

LEMMA OrderedCall ==
    ASSUME FlowInv, FifoTypeOK, ClearInv, OrderInv, CallStep, FifoStep, LineStep PROVE Ordered'
<1>1. LineShape /\ Ordered
  BY LineType DEF FifoTypeOK, OrderInv
<1>2. (Excused => Excused') \/ Len(Line') = 1
  BY ExcusedCall
<1>3. \/ Line' = Line \/ Len(Line') = 1
      \/ \E type \in EventType :
            /\ Line' = Append(Line, type)
            /\ MayFollow(LastDue, type) \/ (LastDue = "HELLO" /\ Excused)
  BY AddsInOrder DEF LineStep, Adds
<1> QED BY <1>1, <1>2, <1>3, OrderedKept

\* From the greeting to the first words of the user event.
LEMMA PrestartOrder ==
    ASSUME FlowInv, FifoTypeOK, ClearInv, OrderInv, Calls, CallStep, FifoStep, LineStep,
           Runs("prestarted")'
    PROVE  /\ Left' \in 3 .. 7 => LastDue' = "HELLO"
           /\ Left' < 3 =>
                 \/ LastDue' = "PRESTART"
                 \/ LastDue' = "HELLO" /\ err'
                 \/ LastDue' = "USER" /\ rem' > 0
<1>1. /\ Runs("prestarted") /\ InPrestart /\ Left \in Nat /\ Left' \in Nat
      /\ \/ Returns /\ Left >= 2 /\ Left' = Left - 1 /\ (err => err')
         \/ At("user") /\ Left = 1 /\ UNCHANGED err /\ Left' = Left
  BY PrestartGoes DEF Runs
<1>2. Line' = Line => LastDue' = LastDue
  BY DEF LastDue
<1>3. ASSUME Left' \in 3 .. 7 PROVE LastDue' = "HELLO"
  <2>1. Left \in 4 .. 8
    BY <1>1, <1>3
  <2>2. CASE Left = 8
    <3>1. At("greet")
      BY <1>1, <2>2 DEF InPrestart
    <3>2. \E type \in EventType : Adds(type)
      BY <3>1 DEF LineStep, QuietStep, DownStep, LeaveStep, LoopStep, ClearStep, ConnectStep, At
    <3> QED BY <3>1, <3>2 DEF Adds, EventType, At
  <2>3. CASE Left \in 4 .. 7
    <3>1. At("ebstop") \/ At("ebinit") \/ At("ebconfig") \/ At("hardware")
      BY <1>1, <2>3 DEF InPrestart
    <3>2. Line' = Line
      BY <3>1 DEF LineStep, ClearStep, ConnectStep, Adds, EventType, At
    <3>3. LastDue = "HELLO"
      BY <1>1, <2>3 DEF OrderInv
    <3> QED BY <1>2, <3>2, <3>3
  <2> QED BY <2>1, <2>2, <2>3
<1>4. ASSUME Left' < 3
      PROVE  \/ LastDue' = "PRESTART"
             \/ LastDue' = "HELLO" /\ err'
             \/ LastDue' = "USER" /\ rem' > 0
  <2>1. CASE Left = 3
    <3>1. At("PRESTART") /\ LastDue = "HELLO"
      BY <1>1, <2>1 DEF InPrestart, OrderInv
    <3>2. CASE QuietStep
      <4>1. UNCHANGED <<lens, need, got>> /\ err'
        BY <3>1, <3>2 DEF QuietStep
      <4>2. Line' = Line
        BY <4>1 DEF Line, Due
      <4> QED BY <1>2, <3>1, <4>1, <4>2
    <3>3. CASE ~QuietStep
      <4>1. \E type \in EventType : Adds(type)
        BY <3>1, <3>3 DEF LineStep, DownStep, LeaveStep, LoopStep, ClearStep, ConnectStep, At
      <4> QED BY <3>1, <4>1 DEF Adds, EventType, At
    <3> QED BY <3>2, <3>3
  <2>2. CASE Left = 2
    <3>1. At("file")
      BY <1>1, <2>2 DEF InPrestart
    <3>2. QuietStep
      BY <3>1 DEF FifoStep, DownStep, LeaveStep, LoopStep, ClearStep, ConnectStep, SayStep,
                  UserStep, At
    <3>3. UNCHANGED <<lens, need, got, rem>>
      BY <3>2 DEF QuietStep
    <3>4. Line' = Line
      BY <3>3 DEF Line, Due
    <3> QED BY <1>1, <1>2, <2>2, <3>3, <3>4 DEF OrderInv
  <2>3. CASE Left = 1
    <3>1. At("user") /\ err' = err /\ ~Returns
      <4>1. At("user") /\ err' = err
        BY <1>1, <2>3
      <4>2. ~Returns
        BY <2>3, Returned DEF Runs
      <4> QED BY <4>1, <4>2
    <3>2. rem' > 0
      BY <3>1, UserCases
    <3>3. CASE \E type \in EventType : Adds(type)
      BY <3>1, <3>2, <3>3 DEF Adds, EventType, At
    <3>4. CASE Line' = Line /\ \E n : LoopStep(n)
      BY <1>1, <1>2, <2>3, <3>1, <3>2, <3>4 DEF OrderInv
    <3>5. ~QuietStep /\ ~DownStep /\ ~LeaveStep /\ ~ClearStep /\ ~ConnectStep
      BY <3>1, <3>2 DEF QuietStep, DownStep, LeaveStep, ClearStep, ConnectStep, At
    <3> QED BY <3>3, <3>4, <3>5 DEF LineStep
  <2> QED BY <1>1, <1>4, <2>1, <2>2, <2>3
<1> QED BY <1>3, <1>4

\* A run that is under way has sent its Prestart.
LEMMA RunningOrder ==
    ASSUME FlowInv, FifoTypeOK, ClearInv, OrderInv, Calls, CallStep, FifoStep, LineStep,
           coda' \in Running, ~(Runs("downloaded") /\ Left < 3)'
    PROVE  LastDue' \in {"PRESTART", "USER", "GO"}
<1>1. prog # <<>> /\ Where
  BY Place DEF CallStep, Returns, LoadUnmapped, At
<1>2. Line' = Line => LastDue' = LastDue
  BY DEF LastDue
<1>3. Returns \/ (At("user") /\ UNCHANGED <<coda, prog, to, err, dev>>)
  BY DEF CallStep, LoadUnmapped, Running
<1>4. Returns
  <2>1. coda = "downloaded" \/ ~At("user")
    BY <1>1 DEF Where, InDownload, InEnd, InPrestart, InGo, InPause, InReset, At, FlowInv, Runs
  <2> QED BY <1>3, <2>1 DEF Running
<1>5. /\ Left \in Nat /\ Left >= 1 /\ Left' = Left - 1 /\ to' = to /\ (prog' = <<>> <=> Left = 1)
      /\ coda' = IF Left = 1 THEN IF err' THEN "error" ELSE to ELSE coda
  BY <1>4, Returned
<1>6. CASE to = "prestarted"
  <2>1. Left = 1 /\ ~err' /\ InPrestart /\ Runs("prestarted")
    BY <1>1, <1>5, <1>6 DEF FlowInv, Runs, Running, Where
  <2>2. At("user") /\ ~err
    BY <1>4, <2>1 DEF InPrestart, Returns
  <2>3. \/ \E type \in EventType : Adds(type)
        \/ Line' = Line
    BY <2>2 DEF LineStep, ClearStep, ConnectStep, At
  <2>4. LastDue = "PRESTART" \/ LastDue = "USER"
    BY <2>1, <2>2 DEF OrderInv
  <2>5. CASE \E type \in EventType : Adds(type)
    BY <2>2, <2>5 DEF Adds, EventType, At
  <2> QED BY <1>2, <2>3, <2>4, <2>5
<1>7. CASE to # "prestarted"
  <2>1. coda \in Running /\ ~(to = "downloaded" /\ Left < 4)
    BY <1>1, <1>5, <1>7 DEF FlowInv, Runs, Running, Rest
  <2>2. LastDue \in {"PRESTART", "USER", "GO"}
    BY <1>5, <2>1 DEF OrderInv, Runs
  <2>3. /\ ~At("z7") /\ ~At("rocreset") /\ ~At("connect") /\ ~At("greet") /\ ~At("PRESTART")
        /\ ~At("user") /\ ~At("END")
    BY <1>1, <1>7, <2>1 DEF Where, InEnd, InGo, InPause, InReset, At, Rest, Running
  <2>4. Line' = Line \/ Adds("GO")
    BY <2>3 DEF LineStep, ClearStep, ConnectStep, Adds, EventType
  <2> QED BY <1>2, <2>2, <2>4 DEF Adds
<1> QED BY <1>6, <1>7

\* After a reset the connection is closed.
LEMMA DownOrder ==
    ASSUME FlowInv, OrderInv, CallStep, FifoStep, coda' = "booted" \/ (Runs("booted") /\ Left < 2)'
    PROVE  tcp' = "down"
<1>1. prog # <<>> /\ Where
  BY Place DEF CallStep, Returns, LoadUnmapped, At
<1>2. ASSUME tcp = "down", ~At("connect") PROVE tcp' = "down"
  BY <1>2 DEF FifoStep, QuietStep, ClearStep, DownStep, ConnectStep, SayStep, UserStep, LoopStep,
              LeaveStep
<1>3. CASE Returns
  <2>1. /\ Left \in Nat /\ Left >= 1 /\ Left' = Left - 1 /\ to' = to
        /\ coda' = IF Left = 1 THEN IF err' THEN "error" ELSE to ELSE coda
    BY <1>3, Returned
  <2>2. CASE to = "booted"
    <3>1. InReset
      BY <1>1, <2>2 DEF Where
    <3>2. CASE Left = 2
      <4>1. At("force")
        BY <3>1, <3>2 DEF InReset
      <4>2. DownStep
        BY <4>1 DEF FifoStep, QuietStep, ClearStep, ConnectStep, SayStep, UserStep, LoopStep,
                    LeaveStep, At
      <4> QED BY <4>2 DEF DownStep
    <3>3. CASE Left = 1
      <4>1. tcp = "down" /\ ~At("connect")
        BY <1>1, <2>2, <3>1, <3>3 DEF OrderInv, Runs, InReset, At
      <4> QED BY <1>2, <4>1
    <3> QED BY <3>1, <3>2, <3>3 DEF InReset
  <2>3. CASE to # "booted"
    <3>1. coda = "booted"
      BY <2>1, <2>3 DEF Runs
    <3>2. ~At("connect")
      BY <1>1, <3>1 DEF FlowInv, Runs, Where, InDownload, InEnd, InPrestart, InGo, InPause,
                        InReset, At
    <3> QED BY <1>2, <3>1, <3>2 DEF OrderInv
  <2> QED BY <2>2, <2>3
<1>4. CASE LoadUnmapped
  <2>1. coda = "booted" /\ ~At("connect")
    BY <1>4 DEF LoadUnmapped, FlowInv, At
  <2> QED BY <1>2, <2>1 DEF OrderInv
<1>5. CASE At("init") /\ prog' = <<>> /\ coda' = "error"
  BY <1>5 DEF Runs
<1>6. CASE At("user") /\ UNCHANGED <<coda, prog, to, err, dev>>
  BY <1>1, <1>6 DEF Where, InDownload, InEnd, InPrestart, InGo, InPause, InReset, At, FlowInv, Runs
<1> QED BY <1>3, <1>4, <1>5, <1>6 DEF CallStep

LEMMA OrderCall ==
    ASSUME FlowInv, FifoTypeOK, FifoTypeOK', ClearInv, OrderInv, Calls PROVE OrderInv'
<1>1. CallStep /\ FifoStep /\ LineStep
  BY CallCases, FifoCases, LineCases
<1>2. Ordered'
  BY <1>1, OrderedCall
<1>3. (Runs("prestarted") /\ Left \in 3 .. 7 => LastDue = "HELLO")'
  BY <1>1, PrestartOrder
<1>4. (Runs("prestarted") /\ Left < 3 =>
          \/ LastDue = "PRESTART"
          \/ LastDue = "HELLO" /\ err
          \/ LastDue = "USER" /\ rem > 0)'
  BY <1>1, PrestartOrder
<1>5. (coda \in Running /\ ~(Runs("downloaded") /\ Left < 3) =>
          LastDue \in {"PRESTART", "USER", "GO"})'
  BY <1>1, RunningOrder
<1>6. (coda = "booted" \/ (Runs("booted") /\ Left < 2) => tcp = "down")'
  BY <1>1, DownOrder
<1> QED BY <1>2, <1>3, <1>4, <1>5, <1>6 DEF OrderInv

\* The firmware, the network and the triggers leave the handler where it stands.
LEMMA OrderOther ==
    ASSUME FifoTypeOK, OrderInv, UNCHANGED <<coda, prog, to, err, rem>>,
           Line' = Line \/ (Line' = Tail(Line) /\ Len(Line) > 1), tcp = "down" => tcp' = "down"
    PROVE  OrderInv'
<1>1. LineShape
  BY LineType DEF FifoTypeOK
<1>2. Excused => Excused'
  BY DEF Excused, Runs
<1>3. Ordered'
  BY <1>1, <1>2, OrderedKept DEF OrderInv
<1>4. LastDue' = LastDue
  <2>1. CASE Line' = Line
    BY <2>1 DEF LastDue
  <2>2. CASE Line' = Tail(Line) /\ Len(Line) > 1
    <3>1. PICK line \in Seq(Event) : line = Line
      BY <1>1 DEF LineShape
    <3>2. PICK next : next = Line'
      OBVIOUS
    <3>3. next[Len(next)] = line[Len(line)]
      BY <2>2, <3>1, <3>2
    <3> QED BY <3>1, <3>2, <3>3 DEF LastDue
  <2> QED BY <2>1, <2>2
<1> QED BY <1>3, <1>4 DEF OrderInv, Runs, Left

LEMMA OrderNext ==
    ASSUME FlowInv, FifoTypeOK, FifoTypeOK', ClearInv, OrderInv, [Next]_vars PROVE OrderInv'
<1>1. CASE Calls
  BY <1>1, OrderCall
<1>2. CASE Commands
  <2>1. UNCHANGED <<coda, rem, tcp, lens, need, got>> /\ prog = <<>>
    BY <1>2 DEF Commands, Command, rocVars, fifoVars, netVars
  <2>2. Line' = Line
    BY <2>1 DEF Line, Due
  <2>3. /\ prog' # <<>> /\ to' = "prestarted" => Left' = 15
        /\ prog' # <<>> /\ to' = "booted" => Left' = 2
    BY <1>2, PrestartCalls DEF Commands, Command, Left, Reset
  <2>4. Excused => Excused'
    BY <2>1 DEF Excused, Runs
  <2>5. Ordered'
    BY <2>2, <2>4, LineType, OrderedKept DEF OrderInv, FifoTypeOK
  <2>6. coda \in Running => LastDue \in {"PRESTART", "USER", "GO"}
    BY <2>1 DEF OrderInv, Runs
  <2>7. LastDue' = LastDue
    BY <2>2 DEF LastDue
  <2> QED BY <2>1, <2>3, <2>5, <2>6, <2>7 DEF OrderInv, Runs
<1>3. CASE rocTrigger \/ Blocks \/ Firmware \/ UNCHANGED vars
  <2>1. UNCHANGED <<coda, prog, to, err, rem>>
    BY <1>3 DEF rocTrigger, Blocks, Firmware, listVars, vars
  <2>2. Line' = Line \/ (Line' = Tail(Line) /\ Len(Line) > 1)
    <3>1. CASE TakeLength
      <4>1. Due' = Due /\ got' = got
        BY <3>1, DueTakeLength DEF FifoTypeOK, TakeLength, netVars
      <4> QED BY <4>1 DEF Line
    <3>2. CASE TakeWords
      <4>1. PICK k : TakeStep(k)
        BY <3>2, TakeCases DEF FifoTypeOK
      <4> QED BY <4>1, LineTake DEF FifoTypeOK
    <3>3. CASE UNCHANGED <<lens, need, got>>
      BY <3>3 DEF Line, Due
    <3> QED BY <1>3, <3>1, <3>2, <3>3
            DEF rocTrigger, Acknowledge, Blocks, Trigger, Firmware, LinkUp, LinkDown, Disconnect,
                vars, rocVars, fifoVars, netVars
  <2>3. tcp = "down" => tcp' = "down"
    BY <1>3 DEF rocTrigger, Acknowledge, Blocks, Trigger, Firmware, TakeLength, TakeWords, LinkUp,
                LinkDown, Disconnect, vars, rocVars, netVars
  <2> QED BY <2>1, <2>2, <2>3, OrderOther
<1> QED BY <1>1, <1>2, <1>3 DEF Next

-----------------------------------------------------------------------------
(* The inductive invariant and what follows from it *)

ReadoutInv == FlowInv /\ EbInv /\ TrigInv /\ FifoTypeOK /\ ClearInv /\ WholeInv /\ OrderInv

LEMMA ReadoutInit == Init => ReadoutInv
BY FlowInit, EbInit0, FifoInit DEF ReadoutInv

LEMMA ReadoutNext == ReadoutInv /\ [Next]_vars => ReadoutInv'
<1> SUFFICES ASSUME ReadoutInv, [Next]_vars PROVE ReadoutInv'
  OBVIOUS
<1>1. FlowInv /\ EbInv /\ TrigInv /\ FifoTypeOK /\ ClearInv /\ WholeInv /\ OrderInv
  BY DEF ReadoutInv
<1>2. FlowInv' /\ EbInv' /\ TrigInv'
  BY <1>1, FlowNext, EbNext, TrigNext
<1>3. FifoTypeOK'
  BY <1>1, FifoTypeNext
<1>4. ClearInv' /\ WholeInv'
  BY <1>1, ClearNext, WholeNext
<1>5. OrderInv'
  BY <1>1, <1>3, OrderNext
<1> QED BY <1>2, <1>3, <1>4, <1>5 DEF ReadoutInv

LEMMA ReadoutInvariant == Spec => []ReadoutInv
BY ReadoutInit, ReadoutNext, PTL DEF Spec

\* The state has its types whatever the network, the FIFO and the run control do: the data FIFO
\* never holds more than its 512 words, and no more blocks of triggers wait than there were, so
\* that rocTrigger acknowledges none of them twice.
THEOREM TypeOKCorrect == Spec => []TypeOK
<1>1. ReadoutInv => TypeOK
  <2> SUFFICES ASSUME ReadoutInv PROVE TypeOK
    OBVIOUS
  <2>1. FlowInv /\ EbInv /\ TrigInv /\ DataTypeOK /\ LinkTypeOK /\ UserTypeOK
    BY DEF ReadoutInv, FifoTypeOK
  <2>2. /\ coda \in {"booted", "downloaded", "prestarted", "active", "paused", "error"}
        /\ dev \in {"closed", "mapped", "stale"}
    BY <2>1 DEF FlowInv, Rest, Running
  <2>3. /\ tcp \in {"down", "asked", "up"} /\ net \subseteq Keys
        /\ client \in [net : SUBSET Keys, port : 0 .. MaxPort]
    BY <2>1 DEF LinkTypeOK, Client
  <2>4. Fill(data) \in 0 .. Depth
    BY <2>1, FillType, DepthAssumption DEF DataTypeOK, Fits
  <2>5. need.n \in Nat
    BY <2>1 DEF DataTypeOK
  <2>6. rem \in Nat
    BY <2>1 DEF UserTypeOK
  <2>7. trig \in 0 .. MaxTrig
    BY <2>1 DEF TrigInv
  <2>8. eb \in [ctrl : {"idle", "reset", "run"}, tags : BOOLEAN, pp : SUBSET Ports,
                level : 0 .. 254]
    BY <2>1 DEF EbInv, EbType
  <2> QED BY <2>2, <2>3, <2>4, <2>5, <2>6, <2>7, <2>8 DEF TypeOK
<1> QED BY <1>1, ReadoutInvariant, PTL

\* Every event the receiver got on a connection is made of its own words, as long as each user
\* event found room in the FIFO: vtpRocEvioWriteControl asks for an empty FIFO, and the greeting
\* and the first event of a run find the one that rocPrestart cleared.
THEOREM EventsWholeCorrect == Spec => []EventsWhole
<1>1. ReadoutInv => EventsWhole
  BY DEF ReadoutInv, WholeInv, EventsWhole
<1> QED BY <1>1, ReadoutInvariant, PTL

\* The event builder that runs in a run has the payload ports, banks and block level of this
\* list: rocPrestart stops it before vtpRocEbInit and vtpRocEbConfig, which refuse one that runs.
THEOREM EbAsConfiguredCorrect == Spec => []EbAsConfigured
<1>1. ReadoutInv => EbAsConfigured
  BY DEF ReadoutInv, EbInv, Configured, Running, EbAsConfigured
<1> QED BY <1>1, ReadoutInvariant, PTL

\* On a connection come its greeting, Prestart, and the other events of one run in order, unless
\* the library refused the Prestart event and rocPrestart fails.
THEOREM RunOrderCorrect == Spec => RunOrder
<1> DEFINE InOrder ==
      got'.last # got.last =>
        \/ got'.last = "NONE"
        \/ got.last = "NONE" /\ got'.last = "HELLO"
        \/ got.last = "HELLO" /\ (got'.last = "PRESTART" \/ err \/ coda = "error")
        \/ got.last \notin {"NONE", "HELLO"} /\ Rank[got.last] < Rank[got'.last]
<1>1. ReadoutInv /\ ReadoutInv' /\ [Next]_vars => [InOrder]_vars
  <2> SUFFICES ASSUME ReadoutInv, ReadoutInv', [Next]_vars, got'.last # got.last PROVE InOrder
    OBVIOUS
  <2>0. FlowInv /\ FifoTypeOK /\ FifoTypeOK' /\ OrderInv
    BY DEF ReadoutInv
  <2>1. CASE Calls
    <3>1. FifoStep /\ long \in BOOLEAN
      BY <2>0, <2>1, FifoCases DEF FifoTypeOK, UserTypeOK
    <3>2. got' = got \/ got' = Nothing
      BY <3>1, LinkEffects
    <3> QED BY <3>2 DEF Nothing
  <2>2. CASE TakeWords
    <3>1. PICK k : TakeStep(k)
      BY <2>0, <2>2, TakeCases DEF FifoTypeOK
    <3>2. /\ LineShape /\ Line[1] = got.last /\ Line'[1] = got'.last
          /\ got.last \in Event /\ got'.last \in Event
      BY <2>0, LineType, LineTypeNext DEF LineShape, FifoTypeOK, LinkTypeOK, Event
    <3>3. Line' = Tail(Line) /\ Len(Line) > 1
      <4>1. Line' # Line
        BY <3>2
      <4> QED BY <2>0, <3>1, <4>1, LineTake DEF FifoTypeOK
    <3>4. Line[1 + 1] = got'.last /\ 1 \in 1 .. Len(Line) - 1
      <4>1. PICK line \in Seq(Event) : line = Line
        BY <3>2 DEF LineShape
      <4>2. PICK next : next = Line'
        OBVIOUS
      <4>3. next[1] = line[2] /\ 1 \in 1 .. Len(line) - 1
        BY <3>3, <4>1, <4>2
      <4> QED BY <3>2, <4>1, <4>2, <4>3
    <3>5. MayFollow(Line[1], Line[1 + 1]) \/ (Line[1] = "HELLO" /\ Excused)
      BY <2>0, <3>4 DEF OrderInv, Ordered
    <3>6. PICK a \in Event, b \in Event : a = got.last /\ b = got'.last
      BY <3>2
    <3>7. a # b /\ (MayFollow(a, b) \/ (a = "HELLO" /\ (err \/ coda = "error")))
      <4>1. tcp = "up"
        BY <3>1 DEF TakeStep
      <4> QED BY <3>2, <3>4, <3>5, <3>6, <4>1 DEF Excused
    <3>8. \/ b = "NONE"
          \/ a = "NONE" /\ b = "HELLO"
          \/ a = "HELLO" /\ (b = "PRESTART" \/ err \/ coda = "error")
          \/ a \notin {"NONE", "HELLO"} /\ Rank[a] < Rank[b]
      BY <3>7 DEF MayFollow, Event, EventType, Rank
    <3> QED BY <3>6, <3>8
  <2>3. CASE Commands \/ rocTrigger \/ Blocks \/ (Firmware /\ ~TakeWords) \/ UNCHANGED vars
    <3>1. got' = got
      BY <2>3 DEF Commands, Command, rocTrigger, Acknowledge, Blocks, Trigger, Firmware, TakeLength,
                  LinkUp, LinkDown, Disconnect, vars, rocVars, netVars
    <3> QED BY <3>1
  <2> QED BY <2>1, <2>2, <2>3 DEF Next, Firmware
<1>2. RunOrder <=> [][InOrder]_vars
  BY DEF RunOrder
<1> HIDE DEF InOrder
<1> QED BY <1>1, <1>2, ReadoutInvariant, PTL DEF Spec
=============================================================================
