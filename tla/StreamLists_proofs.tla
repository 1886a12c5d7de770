------------------------- MODULE StreamLists_proofs -------------------------
(***************************************************************************)
(* Proofs about StreamLists, for each of the five lists: types, frames     *)
(* only after Go, the final count of frames, the addresses and the routes, *)
(* the order of what a receiver gets and the End event it gets at last.    *)
(*                                                                         *)
(* A handler is a list of calls in an order that Time expresses as a       *)
(* number; the invariants say what holds once the handler has passed a     *)
(* time.                                                                   *)
(***************************************************************************)
EXTENDS StreamLists, StreamEb_proofs, SequenceTheorems

-----------------------------------------------------------------------------
(* The calls of the handlers and their order *)

Slot == [z7 |-> 0, v7 |-> 1, init |-> 0, file |-> 1, address |-> 2, ebcfg |-> 10, async |-> 20,
         links |-> 21, base |-> 22, next |-> 30, port |-> 31, net |-> 32, connect |-> 33,
         greet |-> 34, PRESTART |-> 70, GO |-> 0, enable |-> 10, wait |-> 0, END |-> 30,
         flush |-> 40, ebreset |-> 41, close |-> 50]
Loop == {"next", "port", "net", "connect", "greet"}
Counted == {"PRESTART", "GO", "END", "close"}
CallType == [op : DOMAIN Slot, i : 0 .. 4]
Time == [c \in CallType |-> Slot[c.op] + (IF c.op \in Loop THEN 10 * c.i
                                          ELSE IF c.op \in Counted THEN c.i ELSE 0)]
Forever == 1000

\* The streams of the connections, and those told of Prestart.
Stream == 0 .. Connections - 1
PreTold == IF Greets THEN Stream ELSE {0}

DownloadCall(c) == c.op \in {"z7", "v7"} /\ c.i = 0
PrestartCall(c) ==
    \/ c.op \in {"init", "file", "address", "async", "links", "base"} /\ c.i = 0
    \/ c.op = "ebcfg" /\ c.i = Connections
    \/ c.op = "next" /\ c.i \in Stream \ {0}
    \/ c.op = "port" /\ c.i \in Stream \ {0} /\ list \notin {"1tcp", "2tcp"}
    \/ c.op \in {"net", "connect"} /\ c.i \in Stream
    \/ c.op = "greet" /\ c.i \in Stream /\ Greets
    \/ c.op = "PRESTART" /\ c.i \in PreTold
GoCall(c) ==
    \/ c.op = "GO" /\ c.i \in Told
    \/ c.op = "enable" /\ c.i = 0
EndCall(c) ==
    \/ c.op \in {"wait", "flush"} /\ c.i = 0
    \/ c.op = "async" /\ c.i = 0 /\ list \in {"1tcp", "2tcp"}
    \/ c.op = "END" /\ c.i \in Told
    \/ c.op = "ebreset" /\ c.i = 0 /\ list \notin {"1tcp", "2tcp"}
    \/ c.op = "close" /\ c.i \in Stream
CallsOf(h) ==
    {c \in CallType : \/ h = "download" /\ DownloadCall(c)
                      \/ h = "prestart" /\ PrestartCall(c)
                      \/ h = "go" /\ GoCall(c)
                      \/ h = "end" /\ EndCall(c)}

\* q makes the calls of C with times from lo to hi, each once and in order.
Covers(q, C, lo, hi) ==
    /\ q \in Seq(C)
    /\ \A k \in 1 .. Len(q) : lo <= Time[q[k]] /\ Time[q[k]] < hi
    /\ \A j, k \in 1 .. Len(q) : j < k => Time[q[j]] < Time[q[k]]
    /\ \A c \in C : lo <= Time[c] /\ Time[c] < hi => \E k \in 1 .. Len(q) : q[k] = c

Empty(q) == q = <<>>
Start(q) == IF Empty(q) THEN Forever ELSE Time[Head(q)]
Now == Start(prog)
Handler ==
    CASE to = "prestarted" -> "prestart"
      [] to = "active" -> "go"
      [] OTHER -> IF coda \in {"booted", "downloaded"} THEN "download" ELSE "end"
Idle == Empty(prog)
Runs(h) == ~Idle /\ Handler = h
InRun == coda \in {"prestarted", "active", "paused"}

\* A handler runs in the states its transition starts from.  A component that
\* was reset with its firmware type read has a mapping it cannot use.
FlowInv ==
    /\ list \in Lists
    /\ coda \in {"booted", "downloaded", "prestarted", "active", "paused"}
    /\ to \in {"booted", "downloaded", "prestarted", "active"}
    /\ dev \in {"closed", "mapped", "stale"} /\ sync \in BOOLEAN
    /\ Idle \/ (to # "booted" /\ Covers(prog, CallsOf(Handler), Now, Forever))
    /\ Runs("prestart") => coda = "downloaded"
    /\ Runs("go") => coda \in {"prestarted", "paused"}
    /\ coda # "booted" => dev = "mapped"
    /\ coda = "booted" /\ fwType => dev = "stale"

-----------------------------------------------------------------------------
(* The invariants *)

Type == Control \union {Greeting}
AddrTypeOK ==
    /\ late \in SUBSET Inst /\ client \in [Inst -> Address] /\ buf \in Address
    /\ ppInfo = <<>> \/ ppInfo = Ports
ListTypeOK == EbTyped(Type) /\ AddrTypeOK

\* What vtpInit and the loads leave.
ChipInv ==
    /\ Runs("prestart") /\ Now > 0 => fwType /\ v7Done
    /\ coda # "booted" /\ ~fwType => asyncFifo = <<>> /\ \A i \in Inst : posted[i] = "NONE"

Routed == {ppPort[p] : p \in ebMask} = Stream
\* Between the user's file and the list's own payloads, routes are the file's.
RouteInv ==
    /\ "PP" \in enables /\ ebMask # {} => Routed
    /\ ebMask = {} \/ Routed \/ (Runs("prestart") /\ Now \in 2 .. 10)

Unstarted == {"CFG", "PRESTART"}
GoInv ==
    /\ "PP" \in enables /\ ebMask # {} => \A i \in Told : posted[i] \notin Unstarted
    /\ Runs("prestart") /\ Now > 10 => "PP" \notin enables
    /\ Runs("go") => \A i \in Told : Now > i => ~v7Done \/ posted[i] \notin Unstarted

\* The address i places after that of client 0.
Chained(a, i) ==
    /\ a.ip = (client[0].ip + i) % 256
    /\ a.mac = (client[0].mac + i) % 256
AddrInv ==
    /\ \A i \in Inst : request[i] => i \in Stream
    /\ \A i \in Inst : request[i] => Chained(client[i], i) \/ (Runs("prestart") /\ Now > 0)
    /\ Runs("prestart") => \A i \in Stream :
          /\ Now > 32 + 10 * i => Chained(client[i], i)
          /\ Now \in (IF i = 0 THEN 23 ELSE 31 + 10 * i) .. 40 + 10 * i => Chained(buf, i)

\* Connections that are there, and those that are late.
LinkInv ==
    /\ \A i \in Inst : link[i] => request[i]
    /\ \A i \in Inst \ late : request[i] =>
          link[i] \/ (Runs("prestart") /\ Now > 10 /\ Now <= 33 + 10 * i)

Ended(i) == request[i] /\ posted[i] = "END"
EndInv ==
    /\ Runs("prestart") /\ Now > 10 => \A i \in Inst : posted[i] \notin {"GO", "END"}
    /\ Runs("end") /\ Now > 0 => sync /\ \A i \in Inst \ late : request[i] => inFlight[i] = 0
    /\ \A i \in Inst : Ended(i) =>
          /\ fwType /\ Runs("end") /\ 30 + i < Now /\ Now <= 50 + i /\ i \in Told
          /\ i \notin late => endCount[i] = framesSent[i]

\* The sockets a run opens, and the event builder behind them, which is out of
\* reset until their events have left.
NoneOpen == \A i \in Inst : ~request[i]
OpenInv ==
    /\ fwType /\ coda = "downloaded" => NoneOpen \/ (Runs("prestart") /\ Now > 0)
    /\ Runs("prestart") =>
          /\ Now > 20 => ~ebReset
          /\ \A i \in Stream : Now > 33 + 10 * i => request[i]
    /\ InRun /\ fwType => NoneOpen \/
          /\ v7Done /\ (ebReset => Runs("end") /\ Now > 40)
          /\ \A i \in Stream : request[i] <=> ~ (Runs("end") /\ Now > 50 + i)

\* Event b comes after a on a connection that needs its CODA data or not.
Follows(a, b, needs) ==
    \/ b = Greeting /\ a = "NONE"
    \/ b = "PRESTART" /\ IF needs THEN a = Greeting ELSE a \in {"NONE", Greeting}
    \/ b \in {"GO", "END"} /\ a \in {"PRESTART", "GO"}
\* q holds the events of client i, among others; seen is the last it got.
Of(q, i) == {k \in 1 .. Len(q) : q[k].inst = i}
InLine(q, i, seen, needs) ==
    /\ \A k \in Of(q, i) : (\A j \in Of(q, i) : k <= j) => Follows(seen, q[k].type, needs)
    /\ \A j, k \in Of(q, i) : j < k /\ (\A m \in Of(q, i) : m <= j \/ k <= m)
          => Follows(q[j].type, q[k].type, needs)
IsLast(q, i, seen, last) ==
    /\ Of(q, i) = {} => last = seen
    /\ \A k \in Of(q, i) : (\A j \in Of(q, i) : j <= k) => q[k].type = last
Needs(i) == Greets /\ i \notin late
LineInv ==
    /\ \A k \in 1 .. Len(asyncFifo) : asyncFifo[k].inst \in Stream
    /\ \A i \in Inst : request[i] => InLine(asyncFifo, i, delivered[i], Needs(i))

\* What client i may have heard of this run before its Prestart event.
Heard(i) ==
    IF ~Greets \/ Now <= 34 + 10 * i THEN {"NONE"}
    ELSE IF i \in late THEN {"NONE", Greeting} ELSE {Greeting}
Latest(i, last) == IsLast(asyncFifo, i, delivered[i], last)
\* While rocPrestart connects, at most the last connection's data waits.
GreetInv ==
    Runs("prestart") =>
    /\ Now > 10 /\ Now < 24 + 10 * Connections => Len(asyncFifo) <= 1
    /\ \A i \in Stream : Greets /\ Now = 34 + 10 * i =>
          asyncFifo = <<>> /\ netPort = i /\ delivered[i] = "NONE"
    /\ \A i \in Stream : Now > 33 + 10 * i /\ (i \in PreTold => Now <= 70 + i) =>
          \E last \in Heard(i) : Latest(i, last)

\* The last event written is the last of the line.
TellInv ==
    /\ Runs("prestart") => \A i \in PreTold : Now > 70 + i => posted[i] = "PRESTART" /\ Latest(i, "PRESTART")
    /\ InRun /\ fwType /\ ~ (Runs("end") /\ Now > 40) => \A i \in PreTold : request[i] =>
          posted[i] \in Control /\ Latest(i, posted[i])
    /\ Runs("end") /\ Now > 40 /\ late = {} => \A i \in Inst : Ended(i) =>
          asyncFifo = <<>> /\ delivered[i] = "END"
OrderInv == LineInv /\ GreetInv /\ TellInv

-----------------------------------------------------------------------------
(* Sequences of calls *)

LEMMA SlotType == \A op \in DOMAIN Slot : Slot[op] \in 0 .. 70
BY DEF Slot

LEMMA TimeType == ASSUME NEW c \in CallType PROVE Time[c] \in 0 .. 110
<1>1. c.op \in DOMAIN Slot /\ c.i \in 0 .. 4
  BY DEF CallType
<1>2. Slot[c.op] \in 0 .. 70
  BY <1>1, SlotType
<1> QED BY <1>1, <1>2 DEF Time

LEMMA CallIn == ASSUME NEW op \in DOMAIN Slot, NEW i \in 0 .. 4 PROVE Call(op, i) \in CallType
BY DEF CallType, Call

LEMMA Times ==
    ASSUME NEW i \in 0 .. 4
    PROVE  /\ Time[Call("z7", i)] = 0 /\ Time[Call("v7", i)] = 1
           /\ Time[Call("init", i)] = 0 /\ Time[Call("file", i)] = 1 /\ Time[Call("address", i)] = 2
           /\ Time[Call("ebcfg", i)] = 10 /\ Time[Call("async", i)] = 20
           /\ Time[Call("links", i)] = 21 /\ Time[Call("base", i)] = 22
           /\ Time[Call("next", i)] = 30 + 10 * i /\ Time[Call("port", i)] = 31 + 10 * i
           /\ Time[Call("net", i)] = 32 + 10 * i /\ Time[Call("connect", i)] = 33 + 10 * i
           /\ Time[Call("greet", i)] = 34 + 10 * i /\ Time[Call("PRESTART", i)] = 70 + i
           /\ Time[Call("GO", i)] = i /\ Time[Call("enable", i)] = 10
           /\ Time[Call("wait", i)] = 0 /\ Time[Call("END", i)] = 30 + i
           /\ Time[Call("flush", i)] = 40 /\ Time[Call("ebreset", i)] = 41
           /\ Time[Call("close", i)] = 50 + i
<1>1. \A op \in DOMAIN Slot : Time[Call(op, i)] =
        Slot[op] + (IF op \in Loop THEN 10 * i ELSE IF op \in Counted THEN i ELSE 0)
  BY CallIn DEF Time, Call
<1> QED BY <1>1 DEF Slot, Loop, Counted

LEMMA CallIs == ASSUME NEW c \in CallType PROVE c = Call(c.op, c.i)
BY DEF CallType, Call

LEMMA CoversNone ==
    ASSUME NEW C, NEW lo, NEW hi, \A c \in C : ~ (lo <= Time[c] /\ Time[c] < hi)
    PROVE  Covers(<<>>, C, lo, hi)
BY DEF Covers

LEMMA CoversOne ==
    ASSUME NEW C \in SUBSET CallType, NEW lo \in Nat, NEW hi \in Nat, NEW d \in C,
           lo <= Time[d], Time[d] < hi,
           \A c \in C : lo <= Time[c] /\ Time[c] < hi => c = d
    PROVE  Covers(<<d>>, C, lo, hi)
<1> DEFINE q == <<d>>
<1>1. q \in Seq(C) /\ Len(q) = 1 /\ q[1] = d
  OBVIOUS
<1> HIDE DEF q
<1>2. Covers(q, C, lo, hi)
  BY <1>1 DEF Covers
<1> QED BY <1>2 DEF q

LEMMA CoversConcat ==
    ASSUME NEW C \in SUBSET CallType, NEW lo \in Nat, NEW mid \in Nat, NEW hi \in Nat,
           lo <= mid, mid <= hi, NEW p, NEW q, Covers(p, C, lo, mid), Covers(q, C, mid, hi)
    PROVE  Covers(p \o q, C, lo, hi)
<1> DEFINE r == p \o q
<1>1. /\ p \in Seq(C) /\ q \in Seq(C)
      /\ \A k \in 1 .. Len(p) : lo <= Time[p[k]] /\ Time[p[k]] < mid
      /\ \A k \in 1 .. Len(q) : mid <= Time[q[k]] /\ Time[q[k]] < hi
  BY DEF Covers
<1>2. /\ r \in Seq(C) /\ Len(r) = Len(p) + Len(q) /\ Len(p) \in Nat /\ Len(q) \in Nat
      /\ \A k \in 1 .. Len(p) : r[k] = p[k] /\ k \in 1 .. Len(r)
      /\ \A k \in 1 .. Len(q) : r[Len(p) + k] = q[k] /\ Len(p) + k \in 1 .. Len(r)
      /\ \A k \in 1 .. Len(r) : k > Len(p) => r[k] = q[k - Len(p)] /\ k - Len(p) \in 1 .. Len(q)
  BY <1>1
<1>3. \A c \in C : Time[c] \in Nat
  BY TimeType
<1>4. /\ \A k \in 1 .. Len(p) : p[k] \in C
      /\ \A k \in 1 .. Len(q) : q[k] \in C
  BY <1>1
<1>5. /\ \A k \in 1 .. Len(p) : Time[p[k]] \in Nat
      /\ \A k \in 1 .. Len(q) : Time[q[k]] \in Nat
  BY <1>3, <1>4
<1> HIDE DEF r
<1>6. \A k \in 1 .. Len(r) : lo <= Time[r[k]] /\ Time[r[k]] < hi
  <2> TAKE k \in 1 .. Len(r)
  <2>1. CASE k <= Len(p)
    <3>1. r[k] = p[k] /\ k \in 1 .. Len(p)
      BY <1>2, <2>1
    <3>2. lo <= Time[p[k]] /\ Time[p[k]] < mid /\ Time[p[k]] \in Nat
      BY <1>1, <1>5, <3>1
    <3> QED BY <3>1, <3>2
  <2>2. CASE k > Len(p)
    <3>1. PICK j \in 1 .. Len(q) : r[k] = q[j]
      BY <1>2, <2>2
    <3>2. mid <= Time[q[j]] /\ Time[q[j]] < hi /\ Time[q[j]] \in Nat
      BY <1>1, <1>5
    <3> QED BY <3>1, <3>2
  <2> QED BY <1>2, <2>1, <2>2
<1>7. \A j, k \in 1 .. Len(r) : j < k => Time[r[j]] < Time[r[k]]
  <2> SUFFICES ASSUME NEW j \in 1 .. Len(r), NEW k \in 1 .. Len(r), j < k
               PROVE  Time[r[j]] < Time[r[k]]
    OBVIOUS
  <2>1. CASE k <= Len(p)
    <3>1. r[j] = p[j] /\ r[k] = p[k] /\ j \in 1 .. Len(p) /\ k \in 1 .. Len(p)
      BY <1>2, <2>1
    <3>2. Time[p[j]] < Time[p[k]]
      BY <3>1 DEF Covers
    <3> QED BY <3>1, <3>2
  <2>2. CASE j > Len(p)
    <3>1. /\ r[j] = q[j - Len(p)] /\ r[k] = q[k - Len(p)]
          /\ j - Len(p) \in 1 .. Len(q) /\ k - Len(p) \in 1 .. Len(q) /\ j - Len(p) < k - Len(p)
      BY <1>2, <2>2
    <3> QED BY <3>1 DEF Covers
  <2>3. CASE j <= Len(p) /\ k > Len(p)
    <3>1. r[j] = p[j] /\ j \in 1 .. Len(p)
      BY <1>2, <2>3
    <3>2. PICK m \in 1 .. Len(q) : r[k] = q[m]
      BY <1>2, <2>3
    <3>3. /\ Time[p[j]] < mid /\ Time[p[j]] \in Nat
          /\ mid <= Time[q[m]] /\ Time[q[m]] \in Nat
      <4>1. Time[p[j]] < mid /\ Time[p[j]] \in Nat
        BY <1>1, <1>5, <3>1
      <4>2. mid <= Time[q[m]] /\ Time[q[m]] \in Nat
        BY <1>1, <1>5
      <4> QED BY <4>1, <4>2
    <3>4. Time[p[j]] < Time[q[m]]
      BY <1>1, <3>3
    <3> QED BY <3>1, <3>2, <3>4, Zenon
  <2> QED BY <1>2, <2>1, <2>2, <2>3
<1>8. \A c \in C : lo <= Time[c] /\ Time[c] < hi => \E k \in 1 .. Len(r) : r[k] = c
  <2> SUFFICES ASSUME NEW c \in C, lo <= Time[c], Time[c] < hi PROVE \E k \in 1 .. Len(r) : r[k] = c
    OBVIOUS
  <2>1. CASE Time[c] < mid
    <3>1. PICK k \in 1 .. Len(p) : p[k] = c
      BY <2>1 DEF Covers
    <3> QED BY <1>2, <3>1
  <2>2. CASE mid <= Time[c]
    <3>1. PICK k \in 1 .. Len(q) : q[k] = c
      BY <2>2 DEF Covers
    <3> QED BY <1>2, <3>1
  <2> QED BY <1>3, <2>1, <2>2
<1>9. Covers(r, C, lo, hi)
  BY <1>2, <1>6, <1>7, <1>8 DEF Covers
<1> QED BY <1>9 DEF r

LEMMA CoversWiden ==
    ASSUME NEW C \in SUBSET CallType, NEW lo \in Nat, NEW mid \in Nat, NEW hi \in Nat,
           lo <= mid, mid <= hi, NEW q, Covers(q, C, lo, mid),
           \A c \in C : ~ (mid <= Time[c] /\ Time[c] < hi)
    PROVE  Covers(q, C, lo, hi)
<1>1. Covers(<<>>, C, mid, hi)
  BY CoversNone
<1>2. Covers(q \o <<>>, C, lo, hi)
  BY <1>1, CoversConcat
<1>3. q \o <<>> = q
  BY ConcatEmptySeq DEF Covers
<1> QED BY <1>2, <1>3

\* A call returned: no call lies between it and the next one.
LEMMA CoversTail ==
    ASSUME NEW C \in SUBSET CallType, NEW q, ~Empty(q), Covers(q, C, Start(q), Forever)
    PROVE  /\ q \in Seq(C) /\ Head(q) \in C /\ Start(q) = Time[Head(q)] /\ Start(q) \in 0 .. 110
           /\ Start(q) < Start(Tail(q)) /\ Start(Tail(q)) \in Nat
           /\ \A c \in C : Start(q) <= Time[c] /\ Time[c] < Start(Tail(q)) => c = Head(q)
           /\ Empty(Tail(q)) \/ Covers(Tail(q), C, Start(Tail(q)), Forever)
           /\ Len(q) = 1 <=> Empty(Tail(q))
<1> DEFINE t == Tail(q)
<1>1. /\ q \in Seq(C) /\ Len(q) \in Nat \ {0} /\ Head(q) = q[1] /\ 1 \in 1 .. Len(q)
  BY DEF Covers, Empty
<1>2. /\ t \in Seq(C) /\ Len(t) = Len(q) - 1 /\ Len(t) \in Nat /\ (Len(q) = 1 <=> Empty(t))
      /\ \A k \in 1 .. Len(t) : t[k] = q[k + 1] /\ k + 1 \in 1 .. Len(q)
      /\ \A k \in 1 .. Len(q) : k = 1 \/ (k - 1 \in 1 .. Len(t) /\ q[k] = t[k - 1])
      /\ Empty(t) \/ (Head(t) = t[1] /\ 1 \in 1 .. Len(t))
  <2>1. /\ t \in Seq(C) /\ Len(t) = Len(q) - 1 /\ Len(t) \in Nat
        /\ \A k \in 1 .. Len(t) : t[k] = q[k + 1]
    BY <1>1
  <2>2. Empty(t) <=> Len(t) = 0
    BY <2>1 DEF Empty
  <2>3. Empty(t) \/ Head(t) = t[1]
    BY <2>1 DEF Empty
  <2> HIDE DEF t
  <2>4. \A k \in 1 .. Len(q) : k = 1 \/ (k - 1 \in 1 .. Len(t) /\ (k - 1) + 1 = k)
    BY <1>1, <2>1
  <2>5. \A k \in 1 .. Len(q) : k = 1 \/ q[k] = t[k - 1]
    BY <2>1, <2>4
  <2>6. \A k \in 1 .. Len(t) : k + 1 \in 1 .. Len(q)
    BY <1>1, <2>1
  <2>7. PICK l \in Nat : l = Len(t) /\ l = Len(q) - 1
    BY <2>1
  <2>8. Len(q) = 1 <=> Empty(t)
    BY <1>1, <2>2, <2>7
  <2>9. Empty(t) \/ 1 \in 1 .. Len(t)
    BY <2>2, <2>7
  <2>10. \A k \in 1 .. Len(q) : k = 1 \/ (k - 1 \in 1 .. Len(t) /\ q[k] = t[k - 1])
    BY <2>4, <2>5, Zenon
  <2>11. \A k \in 1 .. Len(t) : t[k] = q[k + 1] /\ k + 1 \in 1 .. Len(q)
    BY <2>1, <2>6, Zenon
  <2> QED BY <2>1, <2>3, <2>8, <2>9, <2>10, <2>11, Zenon
<1>3. \A k \in 1 .. Len(q) : q[k] \in C /\ Time[q[k]] \in 0 .. 110
  <2>1. \A k \in 1 .. Len(q) : q[k] \in C
    BY <1>1
  <2> QED BY <2>1, TimeType
<1>4. Start(q) = Time[q[1]] /\ Start(q) \in 0 .. 110
  BY <1>1, <1>3 DEF Start
<1> HIDE DEF t
<1>5. PICK lo \in 0 .. 110 : lo = Start(q) /\ lo = Time[q[1]]
  BY <1>4
<1>6. PICK n : n = Start(t)
  OBVIOUS
<1>7. (n = Forever /\ Len(t) = 0) \/ (n = Time[q[2]] /\ 2 \in 1 .. Len(q))
  <2>1. CASE Empty(t)
    BY <1>2, <1>6, <2>1 DEF Start
  <2>2. CASE ~Empty(t)
    BY <1>2, <1>6, <2>2 DEF Start
  <2> QED BY <2>1, <2>2
<1>8. lo < n /\ n \in Nat /\ n <= 1000
  <2>1. CASE n = Forever
    BY <2>1 DEF Forever
  <2>2. CASE n = Time[q[2]] /\ 2 \in 1 .. Len(q)
    <3>1. Time[q[1]] < Time[q[2]]
      BY <1>1, <2>2 DEF Covers
    <3>2. q[2] \in C
      BY <1>3, <2>2
    <3>3. PICK m \in 0 .. 110 : m = Time[q[2]]
      BY <3>2, TimeType
    <3>4. n = m /\ lo < m
      BY <1>5, <2>2, <3>1, <3>3
    <3> QED BY <3>4
  <2> QED BY <1>7, <2>1, <2>2
<1>9. /\ \A c \in C : Time[c] \in 0 .. 110 /\ Time[c] < Forever
      /\ \A k \in 1 .. Len(t) : t[k] \in C /\ n <= Time[t[k]]
  <2>1. ASSUME NEW c \in C PROVE Time[c] \in 0 .. 110 /\ Time[c] < Forever
    <3>1. PICK m \in 0 .. 110 : m = Time[c]
      BY TimeType
    <3> QED BY <3>1 DEF Forever
  <2>2. \A k \in 1 .. Len(t) : t[k] \in C
    BY <1>2
  <2>3. ASSUME NEW k \in 1 .. Len(t) PROVE n <= Time[t[k]]
    <3>1. n = Time[q[2]] /\ 2 \in 1 .. Len(q) /\ t[k] = q[k + 1] /\ k + 1 \in 1 .. Len(q)
      BY <1>2, <1>7
    <3>2. PICK d \in C : d = t[k]
      BY <2>2
    <3>3. PICK m \in 0 .. 110 : m = Time[d]
      BY <2>1
    <3>4. CASE k = 1
      BY <1>8, <3>1, <3>2, <3>3, <3>4
    <3>5. CASE k # 1
      <4>1. 2 < k + 1
        BY <3>5
      <4>2. Time[q[2]] < Time[q[k + 1]]
        BY <3>1, <4>1 DEF Covers
      <4>3. n < m
        BY <3>1, <3>2, <3>3, <4>2
      <4> QED BY <1>8, <3>2, <3>3, <4>3
    <3> QED BY <3>4, <3>5
  <2> QED BY <2>1, <2>2, <2>3
<1>10. \A c \in C : lo <= Time[c] => \E k \in 1 .. Len(q) : q[k] = c
  <2>1. \A c \in C : Start(q) <= Time[c] /\ Time[c] < Forever => \E k \in 1 .. Len(q) : q[k] = c
    BY DEF Covers
  <2> QED BY <1>5, <1>9, <2>1
<1>11. \A c \in C : lo <= Time[c] /\ Time[c] < n => c = Head(q)
  <2> SUFFICES ASSUME NEW c \in C, lo <= Time[c], Time[c] < n PROVE c = Head(q)
    OBVIOUS
  <2>1. PICK k \in 1 .. Len(q) : q[k] = c
    BY <1>10
  <2>2. CASE k = 1
    BY <1>1, <2>1, <2>2
  <2>3. CASE k # 1
    <3>1. k - 1 \in 1 .. Len(t) /\ c = t[k - 1]
      BY <1>2, <2>1, <2>3
    <3>2. n <= Time[c]
      BY <1>9, <3>1
    <3>3. PICK m \in 0 .. 110 : m = Time[c]
      BY <1>9
    <3> QED BY <1>8, <3>2, <3>3
  <2> QED BY <2>2, <2>3
<1>12. Covers(t, C, n, Forever)
  <2>1. \A k \in 1 .. Len(t) : n <= Time[t[k]] /\ Time[t[k]] < Forever
    BY <1>9
  <2>2. \A j, k \in 1 .. Len(t) : j < k => Time[t[j]] < Time[t[k]]
    <3> TAKE j, k \in 1 .. Len(t)
    <3>1. j < k => j + 1 < k + 1
      OBVIOUS
    <3> QED BY <1>2, <3>1 DEF Covers
  <2>3. \A c \in C : n <= Time[c] /\ Time[c] < Forever => \E k \in 1 .. Len(t) : t[k] = c
    <3> SUFFICES ASSUME NEW c \in C, n <= Time[c] PROVE \E k \in 1 .. Len(t) : t[k] = c
      OBVIOUS
    <3>0. PICK m \in 0 .. 110 : m = Time[c]
      BY <1>9
    <3>1. lo < Time[c] /\ lo <= Time[c]
      BY <1>8, <3>0
    <3>2. PICK k \in 1 .. Len(q) : q[k] = c
      BY <1>10, <3>1
    <3>3. k # 1
      BY <1>5, <3>1, <3>2
    <3> QED BY <1>2, <3>2, <3>3
  <2> QED BY <1>2, <2>1, <2>2, <2>3 DEF Covers
<1>13. q \in Seq(C) /\ Head(q) \in C /\ Start(q) = Time[Head(q)] /\ Start(q) \in 0 .. 110
  BY <1>1, <1>4
<1>14. Start(q) < Start(t) /\ Start(t) \in Nat
  BY <1>5, <1>6, <1>8
<1> QED BY <1>2, <1>5, <1>6, <1>11, <1>12, <1>13, <1>14 DEF t

-----------------------------------------------------------------------------
(* What the handlers cover *)

\* FlattenSeq joins the segments of up to four connections.
LEMMA Flatten ==
    ASSUME NEW f, NEW n \in 1 .. 4, Len(f) = n
    PROVE  FlattenSeq(f) = IF n = 1 THEN f[1]
                           ELSE IF n = 2 THEN f[1] \o f[2]
                           ELSE IF n = 3 THEN (f[1] \o f[2]) \o f[3]
                           ELSE ((f[1] \o f[2]) \o f[3]) \o f[4]
<1> DEFINE p2 == f[1] \o f[2]
           p3 == p2 \o f[3]
           p4 == p3 \o f[4]
           Rec(h) == h = [i \in 1 .. Len(f) |-> IF i = 1 THEN f[i] ELSE h[i - 1] \o f[i]]
           e == CHOOSE h : Rec(h)
           g == [i \in 1 .. n |-> IF i = 1 THEN f[1] ELSE IF i = 2 THEN p2 ELSE IF i = 3 THEN p3 ELSE p4]
<1>1. FlattenSeq(f) = e[n]
  BY DEF FlattenSeq
<1>2. Rec(g)
  <2> HIDE DEF p2, p3, p4
  <2>1. /\ g[1] = f[1] /\ (n >= 2 => g[2] = p2) /\ (n >= 3 => g[3] = p3) /\ (n >= 4 => g[4] = p4)
    OBVIOUS
  <2>2. p2 = f[1] \o f[2] /\ p3 = p2 \o f[3] /\ p4 = p3 \o f[4]
    BY DEF p2, p3, p4
  <2> HIDE DEF g
  <2>3. ASSUME NEW i \in 1 .. n PROVE g[i] = IF i = 1 THEN f[i] ELSE g[i - 1] \o f[i]
    <3>1. CASE i = 1
      BY <2>1, <3>1
    <3>2. CASE i = 2
      <4>1. 2 - 1 = 1 /\ g[1] = f[1] /\ g[2] = p2
        BY <2>1, <3>2
      <4>2. g[2] = g[2 - 1] \o f[2]
        BY <2>2, <4>1, Zenon
      <4> QED BY <3>2, <4>2
    <3>3. CASE i = 3
      <4>1. 3 - 1 = 2 /\ g[2] = p2 /\ g[3] = p3
        BY <2>1, <3>3
      <4>2. g[3] = g[3 - 1] \o f[3]
        BY <2>2, <4>1, Zenon
      <4> QED BY <3>3, <4>2
    <3>4. CASE i = 4
      <4>1. 4 - 1 = 3 /\ g[3] = p3 /\ g[4] = p4
        BY <2>1, <3>4
      <4>2. g[4] = g[4 - 1] \o f[4]
        BY <2>2, <4>1, Zenon
      <4> QED BY <3>4, <4>2
    <3> QED BY <3>1, <3>2, <3>3, <3>4
  <2>4. g = [i \in 1 .. n |-> g[i]]
    BY DEF g
  <2>5. [i \in 1 .. n |-> g[i]] = [i \in 1 .. n |-> IF i = 1 THEN f[i] ELSE g[i - 1] \o f[i]]
    BY <2>3, Zenon
  <2>6. 1 .. n = 1 .. Len(f)
    OBVIOUS
  <2> QED BY <2>4, <2>5, <2>6, Zenon
<1>3. Rec(e)
  BY <1>2, Zenon
<1> HIDE DEF e
<1>4. \A i \in 1 .. n : e[i] = IF i = 1 THEN f[i] ELSE e[i - 1] \o f[i]
  BY <1>3
<1>5. e[1] = f[1]
  BY <1>4
<1>6. n >= 2 => e[2] = e[1] \o f[2]
  <2>1. n >= 2 => 2 \in 1 .. n /\ 2 # 1 /\ 2 - 1 = 1
    OBVIOUS
  <2> QED BY <1>4, <2>1
<1>7. n >= 3 => e[3] = e[2] \o f[3]
  <2>1. n >= 3 => 3 \in 1 .. n /\ 3 # 1 /\ 3 - 1 = 2
    OBVIOUS
  <2> QED BY <1>4, <2>1
<1>8. n >= 4 => e[4] = e[3] \o f[4]
  <2>1. n >= 4 => 4 \in 1 .. n /\ 4 # 1 /\ 4 - 1 = 3
    OBVIOUS
  <2> QED BY <1>4, <2>1
<1>9. /\ n >= 2 => e[2] = p2
      /\ n >= 3 => e[3] = p3
      /\ n >= 4 => e[4] = p4
  <2>1. p2 = f[1] \o f[2] /\ p3 = p2 \o f[3] /\ p4 = p3 \o f[4]
    OBVIOUS
  <2>2. n >= 3 => n >= 2
    OBVIOUS
  <2>3. n >= 4 => n >= 3
    OBVIOUS
  <2> HIDE DEF p2, p3, p4
  <2> QED BY <1>5, <1>6, <1>7, <1>8, <2>1, <2>2, <2>3, Zenon
<1> HIDE DEF p2, p3, p4
<1>10. e[n] = IF n = 1 THEN f[1] ELSE IF n = 2 THEN p2 ELSE IF n = 3 THEN p3 ELSE p4
  <2>1. CASE n = 1
    BY <1>5, <2>1
  <2>2. CASE n = 2
    BY <1>9, <2>2
  <2>3. CASE n = 3
    BY <1>9, <2>3
  <2>4. CASE n = 4
    BY <1>9, <2>4
  <2> QED BY <2>1, <2>2, <2>3, <2>4
<1> QED BY <1>1, <1>10 DEF p2, p3, p4

\* The time of a call, by its operation.
LEMMA OpTime ==
    ASSUME NEW c \in CallType
    PROVE  /\ c = Call(c.op, c.i) /\ c.i \in 0 .. 4 /\ Time[c] \in 0 .. 110
           /\ c.op \in {"z7", "init", "GO", "wait"} =>
                 Time[c] = (IF c.op = "GO" THEN c.i ELSE 0)
           /\ c.op \in {"v7", "file"} => Time[c] = 1
           /\ c.op = "address" => Time[c] = 2
           /\ c.op \in {"ebcfg", "enable"} => Time[c] = 10
           /\ c.op = "async" => Time[c] = 20
           /\ c.op = "links" => Time[c] = 21
           /\ c.op = "base" => Time[c] = 22
           /\ c.op = "next" => Time[c] = 30 + 10 * c.i
           /\ c.op = "port" => Time[c] = 31 + 10 * c.i
           /\ c.op = "net" => Time[c] = 32 + 10 * c.i
           /\ c.op = "connect" => Time[c] = 33 + 10 * c.i
           /\ c.op = "greet" => Time[c] = 34 + 10 * c.i
           /\ c.op = "PRESTART" => Time[c] = 70 + c.i
           /\ c.op = "END" => Time[c] = 30 + c.i
           /\ c.op = "flush" => Time[c] = 40
           /\ c.op = "ebreset" => Time[c] = 41
           /\ c.op = "close" => Time[c] = 50 + c.i
<1>1. c = Call(c.op, c.i) /\ c.i \in 0 .. 4
  BY CallIs DEF CallType
<1> QED BY <1>1, Times, TimeType

LEMMA Lengths ==
    ASSUME list \in Lists
    PROVE  /\ list \in {"1tcp", "2tcp", "4tcp", "2udp", "4udp"}
           /\ Connections \in {1, 2, 4} /\ Connections \in 1 .. 4 /\ Stream = 0 .. Connections - 1
           /\ Stream \subseteq Inst /\ Stream \subseteq 0 .. 3 /\ 0 \in Stream /\ Inst \subseteq Nat
           /\ Told \subseteq Stream /\ PreTold \subseteq Stream /\ 0 \in Told /\ Told \subseteq PreTold
<1>1. list \in {"1tcp", "2tcp", "4tcp", "2udp", "4udp"}
  BY ListsAssumption
<1>2. Connections \in {1, 2, 4}
  BY <1>1 DEF Connections
<1>3. PICK n \in {1, 2, 4} : n = Connections
  BY <1>2
<1>4. 0 .. n - 1 \subseteq Inst /\ 0 .. n - 1 \subseteq 0 .. 3 /\ Inst \subseteq Nat
  BY NumInstAssumption, ListsHardware DEF Inst
<1>5. Told \subseteq Stream /\ PreTold \subseteq Stream /\ Told \subseteq PreTold /\ 0 \in Told
  BY <1>1, <1>3 DEF Told, PreTold, Stream, Greets
<1> QED BY <1>1, <1>3, <1>4, <1>5 DEF Stream

\* One call, or none, in a stretch of time.
LEMMA CoversSlot ==
    ASSUME NEW C \in SUBSET CallType, NEW b \in BOOLEAN, NEW d, NEW lo \in Nat, NEW hi \in Nat,
           b => d \in C /\ Time[d] = lo, lo < hi,
           \A c \in C : lo <= Time[c] /\ Time[c] < hi => b /\ c = d
    PROVE  Covers(IF b THEN <<d>> ELSE <<>>, C, lo, hi)
<1>1. CASE b
  <2>1. lo <= Time[d] /\ Time[d] < hi /\ d \in C
    BY <1>1
  <2>2. Covers(<<d>>, C, lo, hi)
    BY <1>1, <2>1, CoversOne
  <2> QED BY <1>1, <2>2
<1>2. CASE ~b
  <2>1. \A c \in C : ~ (lo <= Time[c] /\ Time[c] < hi)
    BY <1>2
  <2>2. Covers(<<>>, C, lo, hi)
    BY <2>1, CoversNone
  <2> QED BY <1>2, <2>2
<1> QED BY <1>1, <1>2

\* for(i=0; i<n; i++) op(i)
LEMMA CoversEach ==
    ASSUME NEW C \in SUBSET CallType, NEW op, NEW n \in 1 .. 4, NEW lo \in Nat, NEW hi \in Nat,
           \A i \in 0 .. n - 1 : Call(op, i) \in C /\ Time[Call(op, i)] = lo + i,
           lo + n <= hi,
           \A c \in C : lo <= Time[c] /\ Time[c] < hi => \E i \in 0 .. n - 1 : c = Call(op, i)
    PROVE  Covers(Each(op, n), C, lo, hi)
<1> DEFINE q == Each(op, n)
<1>1. q \in Seq(C) /\ Len(q) = n /\ \A k \in 1 .. n : q[k] = Call(op, k - 1)
  <2>1. \A k \in 1 .. n : k - 1 \in 0 .. n - 1
    OBVIOUS
  <2>2. \A k \in 1 .. n : Call(op, k - 1) \in C
    BY <2>1
  <2>3. q \in [1 .. n -> C]
    BY <2>2 DEF Each
  <2>4. q \in Seq(C) /\ Len(q) = n
    BY <2>3
  <2> QED BY <2>4 DEF Each
<1> HIDE DEF q
<1>2. \A k \in 1 .. n : Time[q[k]] = lo + k - 1
  <2> TAKE k \in 1 .. n
  <2>1. k - 1 \in 0 .. n - 1 /\ lo + (k - 1) = lo + k - 1
    OBVIOUS
  <2> QED BY <1>1, <2>1
<1>3. \A k \in 1 .. n : lo <= Time[q[k]] /\ Time[q[k]] < hi
  <2> TAKE k \in 1 .. n
  <2>1. PICK m \in Nat : m = Time[q[k]] /\ m = lo + k - 1
    BY <1>2
  <2> QED BY <2>1
<1>4. \A j, k \in 1 .. n : j < k => Time[q[j]] < Time[q[k]]
  <2> TAKE j, k \in 1 .. n
  <2>1. PICK m \in Nat : m = Time[q[k]] /\ m = lo + k - 1
    BY <1>2
  <2>2. PICK l \in Nat : l = Time[q[j]] /\ l = lo + j - 1
    BY <1>2
  <2> QED BY <2>1, <2>2
<1>5. \A c \in C : lo <= Time[c] /\ Time[c] < hi => \E k \in 1 .. n : q[k] = c
  <2> SUFFICES ASSUME NEW c \in C, lo <= Time[c], Time[c] < hi PROVE \E k \in 1 .. n : q[k] = c
    OBVIOUS
  <2>1. PICK i \in 0 .. n - 1 : c = Call(op, i)
    OBVIOUS
  <2>2. i + 1 \in 1 .. n /\ (i + 1) - 1 = i
    OBVIOUS
  <2> QED BY <1>1, <2>1, <2>2
<1>6. Covers(q, C, lo, hi)
  BY <1>1, <1>3, <1>4, <1>5 DEF Covers
<1> QED BY <1>6 DEF q

LEMMA CallFields ==
    /\ DOMAIN Slot = {"z7", "v7", "init", "file", "address", "ebcfg", "async", "links", "base", "next",
                      "port", "net", "connect", "greet", "PRESTART", "GO", "enable", "wait", "END",
                      "flush", "ebreset", "close"}
    /\ \A op \in DOMAIN Slot, i \in 0 .. 4 :
          Call(op, i) \in CallType /\ Call(op, i).op = op /\ Call(op, i).i = i
<1>1. DOMAIN Slot = {"z7", "v7", "init", "file", "address", "ebcfg", "async", "links", "base", "next",
                     "port", "net", "connect", "greet", "PRESTART", "GO", "enable", "wait", "END",
                     "flush", "ebreset", "close"}
  BY DEF Slot
<1>2. \A op \in DOMAIN Slot, i \in 0 .. 4 :
          Call(op, i) \in CallType /\ Call(op, i).op = op /\ Call(op, i).i = i
  BY CallIn DEF Call
<1> QED BY <1>1, <1>2

LEMMA Join == ASSUME NEW c, NEW d PROVE <<c>> \o <<d>> = <<c, d>>
<1>1. <<c>> \in Seq({c, d}) /\ <<d>> \in Seq({c, d}) /\ <<c, d>> \in Seq({c, d})
  OBVIOUS
<1>2. Len(<<c>> \o <<d>>) = 2 /\ Len(<<c, d>>) = 2 /\ <<c>> \o <<d>> \in Seq({c, d})
  OBVIOUS
<1>3. (<<c>> \o <<d>>)[1] = c /\ (<<c>> \o <<d>>)[2] = d
  OBVIOUS
<1>4. \A k \in 1 .. 2 : (<<c>> \o <<d>>)[k] = <<c, d>>[k]
  BY <1>3
<1> QED BY <1>1, <1>2, <1>4, SeqEqual

LEMMA JoinFour ==
    ASSUME NEW a, NEW b, NEW c, NEW d PROVE ((<<a>> \o <<b>>) \o <<c>>) \o <<d>> = <<a, b, c, d>>
<1> DEFINE S == {a, b, c, d}
           l == <<a>> \o <<b>>
           m == <<a, b>> \o <<c>>
           r == <<a, b, c>> \o <<d>>
<1>1. l = <<a, b>>
  BY Join
<1>2. m = <<a, b, c>>
  <2>1. m \in Seq(S) /\ <<a, b, c>> \in Seq(S) /\ Len(m) = 3 /\ Len(<<a, b, c>>) = 3
    OBVIOUS
  <2>2. m[1] = a /\ m[2] = b /\ m[3] = c
    OBVIOUS
  <2>3. \A k \in 1 .. 3 : m[k] = <<a, b, c>>[k]
    BY <2>2
  <2> QED BY <2>1, <2>3, SeqEqual
<1>3. r = <<a, b, c, d>>
  <2>1. r \in Seq(S) /\ <<a, b, c, d>> \in Seq(S) /\ Len(r) = 4 /\ Len(<<a, b, c, d>>) = 4
    OBVIOUS
  <2>2. r[1] = a /\ r[2] = b /\ r[3] = c /\ r[4] = d
    OBVIOUS
  <2>3. \A k \in 1 .. 4 : r[k] = <<a, b, c, d>>[k]
    BY <2>2
  <2> QED BY <2>1, <2>3, SeqEqual
<1> QED BY <1>1, <1>2, <1>3, Zenon

LEMMA CoversStart ==
    ASSUME NEW C \in SUBSET CallType, NEW q, NEW lo \in Nat, NEW d \in C, Time[d] = lo,
           lo < Forever, Covers(q, C, lo, Forever)
    PROVE  ~Empty(q) /\ Start(q) = lo
<1>1. q \in Seq(C) /\ \A k \in 1 .. Len(q) : q[k] \in C
  BY DEF Covers
<1>2. PICK k \in 1 .. Len(q) : q[k] = d
  BY DEF Covers, Forever
<1>3. Len(q) \in Nat /\ 1 \in 1 .. Len(q) /\ ~Empty(q) /\ Head(q) = q[1]
  BY <1>1, <1>2 DEF Empty
<1>4. lo <= Time[q[1]] /\ Start(q) = Time[q[1]] /\ q[1] \in C
  BY <1>1, <1>3 DEF Covers, Start
<1>5. PICK m \in 0 .. 110 : m = Time[q[1]]
  BY <1>4, TimeType
<1>6. k = 1 \/ 1 < k
  OBVIOUS
<1>7. m = lo
  <2>1. CASE k = 1
    BY <1>2, <1>5, <2>1
  <2>2. CASE 1 < k
    <3>1. Time[q[1]] < Time[q[k]]
      BY <1>3, <2>2 DEF Covers
    <3>2. m < lo /\ lo <= m
      BY <1>2, <1>4, <1>5, <3>1
    <3> QED BY <3>2
  <2> QED BY <1>6, <2>1, <2>2
<1> QED BY <1>3, <1>4, <1>5, <1>7

LEMMA DownloadCovers ==
    ASSUME list \in Lists
    PROVE  Covers(Handlers.download, CallsOf("download"), 0, Forever)
<1> DEFINE C == CallsOf("download")
           a == Call("z7", 0)
           b == Call("v7", 0)
<1>1. \A c \in C : c \in CallType /\ ((c = a /\ Time[c] = 0) \/ (c = b /\ Time[c] = 1))
  BY OpTime DEF CallsOf, DownloadCall
<1>2. a \in C /\ b \in C /\ Time[a] = 0 /\ Time[b] = 1
  BY CallFields, Times DEF CallsOf, DownloadCall
<1>3. Handlers.download = <<a>> \o <<b>>
  BY Lengths DEF Handlers, Download1tcp, Download2tcp, Download4tcp, Download2udp, Download4udp, Load
<1> HIDE DEF C, a, b
<1>4. C \in SUBSET CallType
  BY <1>1
<1>5. Covers(<<a>>, C, 0, 1)
  <2>1. \A c \in C : 0 <= Time[c] /\ Time[c] < 1 => c = a
    BY <1>1
  <2> QED BY <1>2, <1>4, <2>1, CoversOne
<1>6. Covers(<<b>>, C, 1, Forever)
  <2>1. \A c \in C : 1 <= Time[c] /\ Time[c] < 1000 => c = b
    BY <1>1
  <2> QED BY <1>2, <1>4, <2>1, CoversOne DEF Forever
<1>7. Covers(<<a>> \o <<b>>, C, 0, Forever)
  BY <1>4, <1>5, <1>6, CoversConcat DEF Forever
<1> QED BY <1>3, <1>7 DEF C

LEMMA GoCovers ==
    ASSUME list \in Lists
    PROVE  Covers(Handlers.go, CallsOf("go"), 0, Forever)
<1> DEFINE C == CallsOf("go")
           n == IF list \in {"1tcp", "2tcp"} THEN Connections ELSE 1
           b == Call("enable", 0)
<1>1. n \in 1 .. 4 /\ Told = 0 .. n - 1
  <2>1. Connections \in 1 .. 4
    BY Lengths
  <2>2. 1 \in 1 .. 4 /\ 0 .. 1 - 1 = {0}
    OBVIOUS
  <2> QED BY <2>1, <2>2, Zenon DEF Told
<1>2. Each("GO", 1) = <<Call("GO", 0)>>
  BY DEF Each
<1>3. Handlers.go = Each("GO", n) \o <<b>>
  <2>1. <<Call("GO", 0)>> \o <<b>> = <<Call("GO", 0), b>>
    BY Join
  <2>2. CASE list = "2tcp"
    BY <2>2 DEF Handlers, Go2tcp, Connections
  <2>3. CASE list = "1tcp"
    BY <1>2, <2>1, <2>3 DEF Handlers, Go1tcp, Connections
  <2>4. CASE list \in {"4tcp", "2udp", "4udp"}
    BY <1>2, <2>1, <2>4 DEF Handlers, Go4tcp, Go2udp, Go4udp
  <2> QED BY <2>2, <2>3, <2>4, Lengths
<1> HIDE DEF n
<1>4. C \in SUBSET CallType
  BY DEF CallsOf
<1>5. \A c \in C : (c = b /\ Time[c] = 10)
                   \/ (\E i \in 0 .. n - 1 : c = Call("GO", i) /\ Time[c] = i)
  BY <1>1, OpTime DEF CallsOf, GoCall
<1>6. b \in C /\ Time[b] = 10
  BY CallFields, Times DEF CallsOf, GoCall
<1>7. \A i \in 0 .. n - 1 : Call("GO", i) \in C /\ Time[Call("GO", i)] = 0 + i
  <2> TAKE i \in 0 .. n - 1
  <2>1. i \in 0 .. 4 /\ i \in Told /\ 0 + i = i
    BY <1>1
  <2>2. Call("GO", i) \in C
    BY <2>1, CallFields DEF CallsOf, GoCall
  <2> QED BY <2>1, <2>2, Times
<1> HIDE DEF C, b
<1>8. Covers(Each("GO", n), C, 0, 10)
  <2>1. \A c \in C : 0 <= Time[c] /\ Time[c] < 10 => \E i \in 0 .. n - 1 : c = Call("GO", i)
    <3> SUFFICES ASSUME NEW c \in C, 0 <= Time[c], Time[c] < 10 PROVE \E i \in 0 .. n - 1 : c = Call("GO", i)
      OBVIOUS
    <3>1. Time[c] # 10
      OBVIOUS
    <3> QED BY <1>5, <3>1
  <2>2. 0 + n <= 10 /\ 0 \in Nat /\ 10 \in Nat
    BY <1>1
  <2>3. \A i \in 0 .. n - 1 : Call("GO", i) \in C /\ Time[Call("GO", i)] = 0 + i
    BY <1>7
  <2> QED BY <1>1, <1>4, <2>1, <2>2, <2>3, CoversEach
<1>9. Covers(<<b>>, C, 10, Forever)
  <2>1. \A c \in C : 10 <= Time[c] /\ Time[c] < 1000 => c = b
    BY <1>1, <1>5
  <2> QED BY <1>4, <1>6, <2>1, CoversOne DEF Forever
<1>10. Covers(Each("GO", n) \o <<b>>, C, 0, Forever)
  BY <1>4, <1>8, <1>9, CoversConcat DEF Forever
<1> QED BY <1>3, <1>10 DEF C

LEMMA EndCovers ==
    ASSUME list \in Lists
    PROVE  Covers(Handlers.end, CallsOf("end"), 0, Forever)
<1> DEFINE C == CallsOf("end")
           n == Connections
           wait == Call("wait", 0)
           async == Call("async", 0)
           flush == Call("flush", 0)
           reset == Call("ebreset", 0)
           all == list \in {"1tcp", "2tcp"}
<1>1. n \in 1 .. 4 /\ Stream = 0 .. n - 1 /\ Told = (IF all THEN Stream ELSE {0})
  BY Lengths DEF Told, Stream
<1>2. C \in SUBSET CallType
  BY DEF CallsOf
<1>3. ASSUME NEW c \in C
      PROVE  /\ Time[c] \in 0 .. 110
             /\ \/ c = wait /\ Time[c] = 0
                \/ c = async /\ Time[c] = 20 /\ all
                \/ \E i \in Told : c = Call("END", i) /\ Time[c] = 30 + i
                \/ c = flush /\ Time[c] = 40
                \/ c = reset /\ Time[c] = 41 /\ ~all
                \/ \E i \in 0 .. n - 1 : c = Call("close", i) /\ Time[c] = 50 + i
  BY <1>1, OpTime DEF CallsOf, EndCall
<1>4. /\ wait \in C /\ Time[wait] = 0 /\ flush \in C /\ Time[flush] = 40
      /\ all => async \in C /\ Time[async] = 20
      /\ ~all => reset \in C /\ Time[reset] = 41
  BY CallFields, Times DEF CallsOf, EndCall
<1>5. ASSUME NEW i \in Told PROVE Call("END", i) \in C /\ Time[Call("END", i)] = 30 + i
  <2>1. i \in 0 .. 4
    BY Lengths
  <2>2. Call("END", i) \in C
    BY <2>1, CallFields DEF CallsOf, EndCall
  <2> QED BY <2>1, <2>2, Times
<1>6. ASSUME NEW i \in 0 .. n - 1 PROVE Call("close", i) \in C /\ Time[Call("close", i)] = 50 + i
  <2>1. i \in 0 .. 4 /\ i \in Stream
    BY <1>1
  <2>2. Call("close", i) \in C
    BY <2>1, CallFields DEF CallsOf, EndCall
  <2> QED BY <2>1, <2>2, Times
<1>7. Handlers.end = IF all THEN ((<<wait, async>> \o Each("END", n)) \o <<flush>>) \o Each("close", n)
                     ELSE <<wait, Call("END", 0), flush, reset>> \o Each("close", n)
  <2>1. CASE list = "1tcp"
    BY <2>1 DEF Handlers, End1tcp, EndAll, Connections
  <2>2. CASE list = "2tcp"
    BY <2>2 DEF Handlers, End2tcp, EndAll, Connections
  <2>3. CASE list = "4tcp"
    BY <2>3 DEF Handlers, End4tcp, EndFirst, Connections
  <2>4. CASE list = "2udp"
    BY <2>4 DEF Handlers, End2udp, EndFirst, Connections
  <2>5. CASE list = "4udp"
    BY <2>5 DEF Handlers, End4udp, EndFirst, Connections
  <2> QED BY <2>1, <2>2, <2>3, <2>4, <2>5, Lengths
<1> HIDE DEF C, n, wait, async, flush, reset
<1>8. Covers(Each("close", n), C, 50, Forever)
  <2>1. ASSUME NEW c \in C, 50 <= Time[c] PROVE \E i \in 0 .. n - 1 : c = Call("close", i)
    <3>1. PICK m \in 0 .. 110 : m = Time[c]
      BY <1>3
    <3>2. m \notin {0, 20, 40, 41} /\ \A i \in 0 .. 3 : m # 30 + i
      BY <2>1, <3>1
    <3> QED BY <1>3, <3>1, <3>2, Lengths
  <2>2. 50 + n <= Forever /\ 50 \in Nat /\ Forever \in Nat
    BY <1>1 DEF Forever
  <2> QED BY <1>1, <1>2, <1>6, <2>1, <2>2, CoversEach
<1>9. CASE all
  <2>1. Covers(<<wait>>, C, 0, 20)
    <3>1. ASSUME NEW c \in C, 0 <= Time[c], Time[c] < 20 PROVE c = wait
      <4>1. PICK m \in 0 .. 110 : m = Time[c]
        BY <1>3
      <4>2. m \notin {20, 40, 41} /\ \A i \in 0 .. 3 : m # 30 + i /\ m # 50 + i
        BY <3>1, <4>1
      <4>3. Told \subseteq 0 .. 3 /\ 0 .. n - 1 \subseteq 0 .. 3
        BY <1>1, Lengths
      <4> QED BY <1>1, <1>3, <1>9, <4>1, <4>2, <4>3
    <3> QED BY <1>2, <1>4, <1>9, <3>1, CoversOne
  <2>2. Covers(<<async>>, C, 20, 30)
    <3>1. ASSUME NEW c \in C, 20 <= Time[c], Time[c] < 30 PROVE c = async
      <4>1. PICK m \in 0 .. 110 : m = Time[c]
        BY <1>3
      <4>2. m \notin {0, 40, 41} /\ \A i \in 0 .. 3 : m # 30 + i /\ m # 50 + i
        BY <3>1, <4>1
      <4>3. Told \subseteq 0 .. 3 /\ 0 .. n - 1 \subseteq 0 .. 3
        BY <1>1, Lengths
      <4> QED BY <1>1, <1>3, <1>9, <4>1, <4>2, <4>3
    <3> QED BY <1>2, <1>4, <1>9, <3>1, CoversOne
  <2>3. Covers(<<flush>>, C, 40, 50)
    <3>1. ASSUME NEW c \in C, 40 <= Time[c], Time[c] < 50 PROVE c = flush
      <4>1. PICK m \in 0 .. 110 : m = Time[c]
        BY <1>3
      <4>2. m \notin {0, 20} /\ \A i \in 0 .. 3 : m # 30 + i /\ m # 50 + i
        BY <3>1, <4>1
      <4>3. Told \subseteq 0 .. 3 /\ 0 .. n - 1 \subseteq 0 .. 3
        BY <1>1, Lengths
      <4> QED BY <1>1, <1>3, <1>9, <4>1, <4>2, <4>3
    <3> QED BY <1>2, <1>4, <1>9, <3>1, CoversOne
  <2>4. Covers(Each("END", n), C, 30, 40)
    <3>1. ASSUME NEW c \in C, 30 <= Time[c], Time[c] < 40 PROVE \E i \in 0 .. n - 1 : c = Call("END", i)
      <4>1. PICK m \in 0 .. 110 : m = Time[c]
        BY <1>3
      <4>2. m \notin {0, 20, 40, 41} /\ \A i \in 0 .. 3 : m # 50 + i
        BY <3>1, <4>1
      <4>3. Told \subseteq 0 .. 3 /\ 0 .. n - 1 \subseteq 0 .. 3
        BY <1>1, Lengths
      <4> QED BY <1>1, <1>3, <1>9, <4>1, <4>2, <4>3
    <3>2. 30 + n <= 40 /\ 30 \in Nat /\ 40 \in Nat
      BY <1>1
    <3>3. \A i \in 0 .. n - 1 : Call("END", i) \in C /\ Time[Call("END", i)] = 30 + i
      BY <1>1, <1>5, <1>9
    <3> QED BY <1>1, <1>2, <3>1, <3>2, <3>3, CoversEach
  <2>5. Covers(<<wait, async>>, C, 0, 30)
    <3>1. Covers(<<wait>> \o <<async>>, C, 0, 30)
      BY <1>2, <2>1, <2>2, CoversConcat
    <3> QED BY <3>1, Join
  <2>6. Covers(<<wait, async>> \o Each("END", n), C, 0, 40)
    BY <1>2, <2>5, <2>4, CoversConcat
  <2>7. Covers((<<wait, async>> \o Each("END", n)) \o <<flush>>, C, 0, 50)
    BY <1>2, <2>6, <2>3, CoversConcat
  <2>8. Covers(((<<wait, async>> \o Each("END", n)) \o <<flush>>) \o Each("close", n), C, 0, Forever)
    BY <1>2, <1>8, <2>7, CoversConcat DEF Forever
  <2> QED BY <1>7, <1>9, <2>8 DEF C
<1>10. CASE ~all
  <2>1. Covers(<<wait>>, C, 0, 30)
    <3>1. ASSUME NEW c \in C, 0 <= Time[c], Time[c] < 30 PROVE c = wait
      <4>1. PICK m \in 0 .. 110 : m = Time[c]
        BY <1>3
      <4>2. m \notin {40, 41} /\ \A i \in 0 .. 3 : m # 30 + i /\ m # 50 + i
        BY <3>1, <4>1
      <4>3. Told \subseteq 0 .. 3 /\ 0 .. n - 1 \subseteq 0 .. 3
        BY <1>1, Lengths
      <4> QED BY <1>1, <1>3, <1>10, <4>1, <4>2, <4>3
    <3> QED BY <1>2, <1>4, <1>10, <3>1, CoversOne
  <2>2. Covers(<<Call("END", 0)>>, C, 30, 40)
    <3>1. ASSUME NEW c \in C, 30 <= Time[c], Time[c] < 40 PROVE c = Call("END", 0)
      <4>1. PICK m \in 0 .. 110 : m = Time[c]
        BY <1>3
      <4>2. m \notin {0, 20, 40, 41} /\ \A i \in 0 .. 3 : m # 50 + i
        BY <3>1, <4>1
      <4>3. Told \subseteq 0 .. 3 /\ 0 .. n - 1 \subseteq 0 .. 3
        BY <1>1, Lengths
      <4> QED BY <1>1, <1>3, <1>10, <4>1, <4>2, <4>3
    <3>2. Call("END", 0) \in C /\ Time[Call("END", 0)] = 30
      BY <1>1, <1>5, <1>10
    <3> QED BY <1>2, <3>1, <3>2, CoversOne
  <2>3. Covers(<<flush>>, C, 40, 41)
    <3>1. ASSUME NEW c \in C, 40 <= Time[c], Time[c] < 41 PROVE c = flush
      <4>1. PICK m \in 0 .. 110 : m = Time[c]
        BY <1>3
      <4>2. m \notin {0, 20, 41} /\ \A i \in 0 .. 3 : m # 30 + i /\ m # 50 + i
        BY <3>1, <4>1
      <4>3. Told \subseteq 0 .. 3 /\ 0 .. n - 1 \subseteq 0 .. 3
        BY <1>1, Lengths
      <4> QED BY <1>1, <1>3, <1>10, <4>1, <4>2, <4>3
    <3> QED BY <1>2, <1>4, <1>10, <3>1, CoversOne
  <2>4. Covers(<<reset>>, C, 41, 50)
    <3>1. ASSUME NEW c \in C, 41 <= Time[c], Time[c] < 50 PROVE c = reset
      <4>1. PICK m \in 0 .. 110 : m = Time[c]
        BY <1>3
      <4>2. m \notin {0, 20, 40} /\ \A i \in 0 .. 3 : m # 30 + i /\ m # 50 + i
        BY <3>1, <4>1
      <4>3. Told \subseteq 0 .. 3 /\ 0 .. n - 1 \subseteq 0 .. 3
        BY <1>1, Lengths
      <4> QED BY <1>1, <1>3, <1>10, <4>1, <4>2, <4>3
    <3> QED BY <1>2, <1>4, <1>10, <3>1, CoversOne
  <2>5. Covers(<<wait>> \o <<Call("END", 0)>>, C, 0, 40)
    BY <1>2, <2>1, <2>2, CoversConcat
  <2>6. Covers((<<wait>> \o <<Call("END", 0)>>) \o <<flush>>, C, 0, 41)
    BY <1>2, <2>3, <2>5, CoversConcat
  <2>7. Covers(((<<wait>> \o <<Call("END", 0)>>) \o <<flush>>) \o <<reset>>, C, 0, 50)
    BY <1>2, <2>4, <2>6, CoversConcat
  <2>8. Covers(<<wait, Call("END", 0), flush, reset>>, C, 0, 50)
    BY <2>7, JoinFour
  <2>9. Covers(<<wait, Call("END", 0), flush, reset>> \o Each("close", n), C, 0, Forever)
    BY <1>2, <1>8, <2>8, CoversConcat DEF Forever
  <2> QED BY <1>7, <1>10, <2>9 DEF C
<1> QED BY <1>9, <1>10

\* Call c of rocPrestart stands at time m.
PrestartAt(m, c) ==
    \/ m = 0 /\ c = Call("init", 0)
    \/ m = 1 /\ c = Call("file", 0)
    \/ m = 2 /\ c = Call("address", 0)
    \/ m = 10 /\ c = Call("ebcfg", Connections)
    \/ m = 20 /\ c = Call("async", 0)
    \/ m = 21 /\ c = Call("links", 0)
    \/ m = 22 /\ c = Call("base", 0)
    \/ \E j \in Stream :
          \/ m = 30 + 10 * j /\ c = Call("next", j) /\ j # 0
          \/ m = 31 + 10 * j /\ c = Call("port", j) /\ j # 0 /\ list \notin {"1tcp", "2tcp"}
          \/ m = 32 + 10 * j /\ c = Call("net", j)
          \/ m = 33 + 10 * j /\ c = Call("connect", j)
          \/ m = 34 + 10 * j /\ c = Call("greet", j) /\ Greets
    \/ \E j \in PreTold : m = 70 + j /\ c = Call("PRESTART", j)

\* The calls of rocPrestart and their times.
LEMMA PrestartTimes ==
    ASSUME list \in Lists, NEW c \in CallsOf("prestart")
    PROVE  \E m \in 0 .. 110 : m = Time[c] /\ PrestartAt(m, c)
<1>1. c \in CallType /\ PrestartCall(c)
  BY DEF CallsOf
<1>2. PICK m \in 0 .. 110 : m = Time[c]
  BY <1>1, TimeType
<1>3. Stream \subseteq 0 .. 3 /\ PreTold \subseteq 0 .. 3
  BY Lengths
<1>4. CASE c.op \in {"init", "file", "address", "async", "links", "base"} /\ c.i = 0
  BY <1>1, <1>2, <1>3, <1>4, OpTime DEF PrestartAt
<1>5. CASE c.op = "ebcfg" /\ c.i = Connections
  BY <1>1, <1>2, <1>3, <1>5, OpTime DEF PrestartAt
<1>6. CASE c.op = "next" /\ c.i \in Stream \ {0}
  BY <1>1, <1>2, <1>3, <1>6, OpTime DEF PrestartAt
<1>7. CASE c.op = "port" /\ c.i \in Stream \ {0} /\ list \notin {"1tcp", "2tcp"}
  BY <1>1, <1>2, <1>3, <1>7, OpTime DEF PrestartAt
<1>8. CASE c.op \in {"net", "connect"} /\ c.i \in Stream
  BY <1>1, <1>2, <1>3, <1>8, OpTime DEF PrestartAt
<1>9. CASE c.op = "greet" /\ c.i \in Stream /\ Greets
  BY <1>1, <1>2, <1>3, <1>9, OpTime DEF PrestartAt
<1>10. CASE c.op = "PRESTART" /\ c.i \in PreTold
  BY <1>1, <1>2, <1>3, <1>10, OpTime DEF PrestartAt
<1> QED BY <1>1, <1>4, <1>5, <1>6, <1>7, <1>8, <1>9, <1>10 DEF PrestartCall, PrestartAt

\* and each is made.
LEMMA PrestartMade ==
    ASSUME list \in Lists
    PROVE  /\ Call("init", 0) \in CallsOf("prestart") /\ Call("file", 0) \in CallsOf("prestart")
           /\ Call("address", 0) \in CallsOf("prestart") /\ Call("async", 0) \in CallsOf("prestart")
           /\ Call("ebcfg", Connections) \in CallsOf("prestart")
           /\ Call("links", 0) \in CallsOf("prestart") /\ Call("base", 0) \in CallsOf("prestart")
           /\ \A j \in Stream :
                 /\ Call("net", j) \in CallsOf("prestart") /\ Call("connect", j) \in CallsOf("prestart")
                 /\ j # 0 => Call("next", j) \in CallsOf("prestart")
                 /\ j # 0 /\ list \notin {"1tcp", "2tcp"} => Call("port", j) \in CallsOf("prestart")
                 /\ Greets => Call("greet", j) \in CallsOf("prestart")
           /\ \A j \in PreTold : Call("PRESTART", j) \in CallsOf("prestart")
<1>1. Connections \in 0 .. 4 /\ 0 \in 0 .. 4 /\ Stream \subseteq 0 .. 4 /\ PreTold \subseteq 0 .. 4
  BY Lengths
<1>2. \A op \in DOMAIN Slot, i \in 0 .. 4 :
          Call(op, i) \in CallType /\ Call(op, i).op = op /\ Call(op, i).i = i
  BY CallFields
<1>3. \A op \in {"init", "file", "address", "async", "links", "base"} : Call(op, 0) \in CallsOf("prestart")
  BY <1>1, <1>2, CallFields DEF CallsOf, PrestartCall
<1>4. Call("ebcfg", Connections) \in CallsOf("prestart")
  BY <1>1, <1>2, CallFields DEF CallsOf, PrestartCall
<1>5. ASSUME NEW j \in Stream
      PROVE  /\ Call("net", j) \in CallsOf("prestart") /\ Call("connect", j) \in CallsOf("prestart")
             /\ j # 0 => Call("next", j) \in CallsOf("prestart")
             /\ j # 0 /\ list \notin {"1tcp", "2tcp"} => Call("port", j) \in CallsOf("prestart")
             /\ Greets => Call("greet", j) \in CallsOf("prestart")
  BY <1>1, <1>2, CallFields DEF CallsOf, PrestartCall
<1>6. ASSUME NEW j \in PreTold PROVE Call("PRESTART", j) \in CallsOf("prestart")
  BY <1>1, <1>2, CallFields DEF CallsOf, PrestartCall
<1> QED BY <1>3, <1>4, <1>5, <1>6

LEMMA SetupCovers ==
    ASSUME list \in Lists
    PROVE  Covers(Setup(Connections), CallsOf("prestart"), 0, 30)
<1> DEFINE C == CallsOf("prestart")
           init == Call("init", 0)
           file == Call("file", 0)
           address == Call("address", 0)
           ebcfg == Call("ebcfg", Connections)
           async == Call("async", 0)
           links == Call("links", 0)
           base == Call("base", 0)
<1>1. C \in SUBSET CallType
  BY DEF CallsOf
<1>2. Stream \subseteq 0 .. 3 /\ PreTold \subseteq 0 .. 3 /\ Connections \in 0 .. 4 /\ 0 \in 0 .. 4
  BY Lengths
<1>3. /\ init \in C /\ Time[init] = 0 /\ file \in C /\ Time[file] = 1
      /\ address \in C /\ Time[address] = 2 /\ ebcfg \in C /\ Time[ebcfg] = 10
      /\ async \in C /\ Time[async] = 20 /\ links \in C /\ Time[links] = 21
      /\ base \in C /\ Time[base] = 22
  BY <1>2, PrestartMade, Times
<1>4. Setup(Connections) = <<init, file, address, ebcfg, async, links, base>>
  BY DEF Setup
<1>5. ASSUME NEW c \in C, Time[c] < 30
      PROVE  \E m \in 0 .. 110 :
             /\ m = Time[c]
             /\ \/ m = 0 /\ c = init
                \/ m = 1 /\ c = file
                \/ m = 2 /\ c = address
                \/ m = 10 /\ c = ebcfg
                \/ m = 20 /\ c = async
                \/ m = 21 /\ c = links
                \/ m = 22 /\ c = base
  BY <1>2, <1>5, PrestartTimes DEF PrestartAt
<1> HIDE DEF C, init, file, address, ebcfg, async, links, base
<1>6. Covers(<<init>>, C, 0, 1)
  <2>1. ASSUME NEW c \in C, 0 <= Time[c], Time[c] < 1 PROVE c = init
    <3>1. PICK m \in 0 .. 110 : m = Time[c]
      BY <1>1, TimeType
    <3>2. m < 30 /\ m \notin {1, 2, 10, 20, 21, 22}
      BY <2>1, <3>1
    <3> QED BY <1>5, <3>1, <3>2
  <2> QED BY <1>1, <1>3, <2>1, CoversOne
<1>7. Covers(<<file>>, C, 1, 2)
  <2>1. ASSUME NEW c \in C, 1 <= Time[c], Time[c] < 2 PROVE c = file
    <3>1. PICK m \in 0 .. 110 : m = Time[c]
      BY <1>1, TimeType
    <3>2. m < 30 /\ m \notin {0, 2, 10, 20, 21, 22}
      BY <2>1, <3>1
    <3> QED BY <1>5, <3>1, <3>2
  <2> QED BY <1>1, <1>3, <2>1, CoversOne
<1>8. Covers(<<address>>, C, 2, 10)
  <2>1. ASSUME NEW c \in C, 2 <= Time[c], Time[c] < 10 PROVE c = address
    <3>1. PICK m \in 0 .. 110 : m = Time[c]
      BY <1>1, TimeType
    <3>2. m < 30 /\ m \notin {0, 1, 10, 20, 21, 22}
      BY <2>1, <3>1
    <3> QED BY <1>5, <3>1, <3>2
  <2> QED BY <1>1, <1>3, <2>1, CoversOne
<1>9. Covers(<<ebcfg>>, C, 10, 20)
  <2>1. ASSUME NEW c \in C, 10 <= Time[c], Time[c] < 20 PROVE c = ebcfg
    <3>1. PICK m \in 0 .. 110 : m = Time[c]
      BY <1>1, TimeType
    <3>2. m < 30 /\ m \notin {0, 1, 2, 20, 21, 22}
      BY <2>1, <3>1
    <3> QED BY <1>5, <3>1, <3>2
  <2> QED BY <1>1, <1>3, <2>1, CoversOne
<1>10. Covers(<<async>>, C, 20, 21)
  <2>1. ASSUME NEW c \in C, 20 <= Time[c], Time[c] < 21 PROVE c = async
    <3>1. PICK m \in 0 .. 110 : m = Time[c]
      BY <1>1, TimeType
    <3>2. m < 30 /\ m \notin {0, 1, 2, 10, 21, 22}
      BY <2>1, <3>1
    <3> QED BY <1>5, <3>1, <3>2
  <2> QED BY <1>1, <1>3, <2>1, CoversOne
<1>11. Covers(<<links>>, C, 21, 22)
  <2>1. ASSUME NEW c \in C, 21 <= Time[c], Time[c] < 22 PROVE c = links
    <3>1. PICK m \in 0 .. 110 : m = Time[c]
      BY <1>1, TimeType
    <3>2. m < 30 /\ m \notin {0, 1, 2, 10, 20, 22}
      BY <2>1, <3>1
    <3> QED BY <1>5, <3>1, <3>2
  <2> QED BY <1>1, <1>3, <2>1, CoversOne
<1>12. Covers(<<base>>, C, 22, 30)
  <2>1. ASSUME NEW c \in C, 22 <= Time[c], Time[c] < 30 PROVE c = base
    <3>1. PICK m \in 0 .. 110 : m = Time[c]
      BY <1>1, TimeType
    <3>2. m < 30 /\ m \notin {0, 1, 2, 10, 20, 21}
      BY <2>1, <3>1
    <3> QED BY <1>5, <3>1, <3>2
  <2> QED BY <1>1, <1>3, <2>1, CoversOne
<1>13. Covers(((<<init>> \o <<file>>) \o <<address>>) \o <<ebcfg>>, C, 0, 20)
  <2>1. Covers(<<init>> \o <<file>>, C, 0, 2)
    BY <1>1, <1>6, <1>7, CoversConcat
  <2>2. Covers((<<init>> \o <<file>>) \o <<address>>, C, 0, 10)
    BY <1>1, <1>8, <2>1, CoversConcat
  <2> QED BY <1>1, <1>9, <2>2, CoversConcat
<1>14. Covers((<<async>> \o <<links>>) \o <<base>>, C, 20, 30)
  <2>1. Covers(<<async>> \o <<links>>, C, 20, 22)
    BY <1>1, <1>10, <1>11, CoversConcat
  <2> QED BY <1>1, <1>12, <2>1, CoversConcat
<1>15. Covers(<<init, file, address, ebcfg>>, C, 0, 20)
  BY <1>13, JoinFour
<1>16. Covers(<<init, file, address, ebcfg>> \o ((<<async>> \o <<links>>) \o <<base>>), C, 0, 30)
  BY <1>1, <1>14, <1>15, CoversConcat
<1>17. Covers(<<init, file, address, ebcfg, async, links, base>>, C, 0, 30)
  <2> DEFINE S == {init, file, address, ebcfg, async, links, base}
             m == <<async, links>> \o <<base>>
             q == <<init, file, address, ebcfg, async, links, base>>
             r == <<init, file, address, ebcfg>> \o <<async, links, base>>
  <2>1. <<async>> \o <<links>> = <<async, links>>
    BY Join
  <2>2. m = <<async, links, base>>
    <3>1. m \in Seq(S) /\ <<async, links, base>> \in Seq(S) /\ Len(m) = 3 /\ Len(<<async, links, base>>) = 3
      OBVIOUS
    <3>2. m[1] = async /\ m[2] = links /\ m[3] = base
      OBVIOUS
    <3>3. \A k \in 1 .. 3 : m[k] = <<async, links, base>>[k]
      BY <3>2
    <3> QED BY <3>1, <3>3, SeqEqual
  <2>3. r = q
    <3>1. r \in Seq(S) /\ q \in Seq(S) /\ Len(r) = 7 /\ Len(q) = 7
      OBVIOUS
    <3>2. /\ r[1] = init /\ r[2] = file /\ r[3] = address /\ r[4] = ebcfg
          /\ r[5] = async /\ r[6] = links /\ r[7] = base
      OBVIOUS
    <3>3. \A k \in 1 .. 7 : r[k] = q[k]
      BY <3>2
    <3> QED BY <3>1, <3>3, SeqEqual
  <2>4. Covers(<<init, file, address, ebcfg>> \o m, C, 0, 30)
    BY <1>16, <2>1
  <2>5. Covers(r, C, 0, 30)
    BY <2>2, <2>4
  <2> QED BY <2>3, <2>5
<1> QED BY <1>4, <1>17 DEF C

\* The calls for one connection.
LEMMA SegmentCovers ==
    ASSUME list \in Lists, NEW i \in Stream, NEW bump \in BOOLEAN,
           bump <=> list \notin {"1tcp", "2tcp"}
    PROVE  Covers((((IF i # 0 THEN <<Call("next", i)>> ELSE <<>>)
                    \o (IF i # 0 /\ bump THEN <<Call("port", i)>> ELSE <<>>))
                   \o (<<Call("net", i)>> \o <<Call("connect", i)>>))
                  \o (IF Greets THEN <<Call("greet", i)>> ELSE <<>>),
                  CallsOf("prestart"), 30 + 10 * i, 40 + 10 * i)
<1> DEFINE C == CallsOf("prestart")
           next == Call("next", i)
           port == Call("port", i)
           net == Call("net", i)
           connect == Call("connect", i)
           greet == Call("greet", i)
<1>1. C \in SUBSET CallType
  BY DEF CallsOf
<1>2. /\ Stream \subseteq 0 .. 3 /\ PreTold \subseteq 0 .. 3
      /\ i \in 0 .. 3 /\ i \in 0 .. 4 /\ Greets \in BOOLEAN
  BY Lengths DEF Greets
<1>3. /\ i # 0 => next \in C /\ Time[next] = 30 + 10 * i
      /\ i # 0 /\ bump => port \in C /\ Time[port] = 31 + 10 * i
      /\ net \in C /\ Time[net] = 32 + 10 * i
      /\ connect \in C /\ Time[connect] = 33 + 10 * i
      /\ Greets => greet \in C /\ Time[greet] = 34 + 10 * i
  BY <1>2, PrestartMade, Times
<1>4. ASSUME NEW c \in C, 30 + 10 * i <= Time[c], Time[c] < 40 + 10 * i
      PROVE  \E m \in 0 .. 110 :
             /\ m = Time[c]
             /\ \/ m = 30 + 10 * i /\ c = next /\ i # 0
                \/ m = 31 + 10 * i /\ c = port /\ i # 0 /\ bump
                \/ m = 32 + 10 * i /\ c = net
                \/ m = 33 + 10 * i /\ c = connect
                \/ m = 34 + 10 * i /\ c = greet /\ Greets
  <2>1. PICK m \in 0 .. 110 : m = Time[c] /\ PrestartAt(m, c)
    BY PrestartTimes
  <2>2. 30 + 10 * i <= m /\ m < 40 + 10 * i
    BY <1>4, <2>1
  <2>3. m \notin {0, 1, 2, 10, 20, 21, 22} /\ \A j \in PreTold : m # 70 + j
    BY <1>2, <2>2
  <2>4. \A j \in Stream : m \in 30 + 10 * j .. 34 + 10 * j => j = i
    BY <1>2, <2>2
  <2>5. PICK j \in Stream :
                      \/ m = 30 + 10 * j /\ c = Call("next", j) /\ j # 0
                      \/ m = 31 + 10 * j /\ c = Call("port", j) /\ j # 0 /\ list \notin {"1tcp", "2tcp"}
                      \/ m = 32 + 10 * j /\ c = Call("net", j)
                      \/ m = 33 + 10 * j /\ c = Call("connect", j)
                      \/ m = 34 + 10 * j /\ c = Call("greet", j) /\ Greets
    BY <2>1, <2>3 DEF PrestartAt
  <2>6. j \in 0 .. 3
    BY <1>2
  <2>7. m \in 30 + 10 * j .. 34 + 10 * j
    BY <2>5, <2>6
  <2>8. j = i
    BY <2>4, <2>7
  <2> QED BY <2>1, <2>5, <2>8
<1> DEFINE A == IF i # 0 THEN <<next>> ELSE <<>>
           B == IF i # 0 /\ bump THEN <<port>> ELSE <<>>
           D == <<net>> \o <<connect>>
           G == IF Greets THEN <<greet>> ELSE <<>>
           t == 30 + 10 * i
<1>5. t \in Nat /\ t + 1 \in Nat /\ t + 2 \in Nat /\ t + 3 \in Nat /\ t + 4 \in Nat /\ t + 10 \in Nat
  BY <1>2
<1>6. /\ t + 1 = 31 + 10 * i /\ t + 2 = 32 + 10 * i /\ t + 3 = 33 + 10 * i /\ t + 4 = 34 + 10 * i
      /\ t + 10 = 40 + 10 * i
  BY <1>2
<1>7. /\ i # 0 => next \in C /\ Time[next] = t
      /\ i # 0 /\ bump => port \in C /\ Time[port] = t + 1
      /\ net \in C /\ Time[net] = t + 2
      /\ connect \in C /\ Time[connect] = t + 3
      /\ Greets => greet \in C /\ Time[greet] = t + 4
  BY <1>3, <1>6
<1>8. ASSUME NEW c \in C, t <= Time[c], Time[c] < t + 10
      PROVE  \E m \in 0 .. 110 :
             /\ m = Time[c]
             /\ \/ m = t /\ c = next /\ i # 0
                \/ m = t + 1 /\ c = port /\ i # 0 /\ bump
                \/ m = t + 2 /\ c = net
                \/ m = t + 3 /\ c = connect
                \/ m = t + 4 /\ c = greet /\ Greets
  BY <1>4, <1>6, <1>8
<1>9. PICK u \in Nat : u = t
  BY <1>5
<1> HIDE DEF C, next, port, net, connect, greet, t
<1>10. Covers(A, C, u, u + 1)
  <2>1. ASSUME NEW c \in C, u <= Time[c], Time[c] < u + 1 PROVE i # 0 /\ c = next
    <3>1. PICK m \in 0 .. 110 : m = Time[c]
      BY <1>1, TimeType
    <3>2. u <= m /\ m < u + 10 /\ m # u + 1 /\ m # u + 2 /\ m # u + 3 /\ m # u + 4
      BY <1>9, <2>1, <3>1
    <3> QED BY <1>8, <1>9, <3>1, <3>2
  <2>2. (i # 0) \in BOOLEAN /\ u < u + 1 /\ u \in Nat /\ u + 1 \in Nat
    BY <1>2, <1>9
  <2>3. i # 0 => next \in C /\ Time[next] = u
    BY <1>7, <1>9
  <2> QED BY <1>1, <2>1, <2>2, <2>3, CoversSlot
<1>11. Covers(B, C, u + 1, u + 2)
  <2>1. ASSUME NEW c \in C, u + 1 <= Time[c], Time[c] < u + 2 PROVE i # 0 /\ bump /\ c = port
    <3>1. PICK m \in 0 .. 110 : m = Time[c]
      BY <1>1, TimeType
    <3>2. u <= m /\ m < u + 10 /\ m # u /\ m # u + 2 /\ m # u + 3 /\ m # u + 4
      BY <1>9, <2>1, <3>1
    <3> QED BY <1>8, <1>9, <3>1, <3>2
  <2>2. (i # 0 /\ bump) \in BOOLEAN /\ u + 1 < u + 2 /\ u + 1 \in Nat /\ u + 2 \in Nat
    BY <1>2, <1>9
  <2>3. i # 0 /\ bump => port \in C /\ Time[port] = u + 1
    BY <1>7, <1>9
  <2> QED BY <1>1, <2>1, <2>2, <2>3, CoversSlot
<1>12. Covers(<<net>>, C, u + 2, u + 3)
  <2>1. ASSUME NEW c \in C, u + 2 <= Time[c], Time[c] < u + 3 PROVE c = net
    <3>1. PICK m \in 0 .. 110 : m = Time[c]
      BY <1>1, TimeType
    <3>2. u <= m /\ m < u + 10 /\ m # u /\ m # u + 1 /\ m # u + 3 /\ m # u + 4
      BY <1>9, <2>1, <3>1
    <3> QED BY <1>8, <1>9, <3>1, <3>2
  <2>2. u + 2 < u + 3 /\ u + 2 \in Nat /\ u + 3 \in Nat
    BY <1>9
  <2>3. net \in C /\ u + 2 <= Time[net] /\ Time[net] < u + 3
    BY <1>7, <1>9
  <2> QED BY <1>1, <2>1, <2>2, <2>3, CoversOne
<1>13. Covers(<<connect>>, C, u + 3, u + 4)
  <2>1. ASSUME NEW c \in C, u + 3 <= Time[c], Time[c] < u + 4 PROVE c = connect
    <3>1. PICK m \in 0 .. 110 : m = Time[c]
      BY <1>1, TimeType
    <3>2. u <= m /\ m < u + 10 /\ m # u /\ m # u + 1 /\ m # u + 2 /\ m # u + 4
      BY <1>9, <2>1, <3>1
    <3> QED BY <1>8, <1>9, <3>1, <3>2
  <2>2. u + 3 < u + 4 /\ u + 3 \in Nat /\ u + 4 \in Nat
    BY <1>9
  <2>3. connect \in C /\ u + 3 <= Time[connect] /\ Time[connect] < u + 4
    BY <1>7, <1>9
  <2> QED BY <1>1, <2>1, <2>2, <2>3, CoversOne
<1>14. Covers(G, C, u + 4, u + 10)
  <2>1. ASSUME NEW c \in C, u + 4 <= Time[c], Time[c] < u + 10 PROVE Greets /\ c = greet
    <3>1. PICK m \in 0 .. 110 : m = Time[c]
      BY <1>1, TimeType
    <3>2. u <= m /\ m < u + 10 /\ m # u /\ m # u + 1 /\ m # u + 2 /\ m # u + 3
      BY <1>9, <2>1, <3>1
    <3> QED BY <1>8, <1>9, <3>1, <3>2
  <2>2. (Greets) \in BOOLEAN /\ u + 4 < u + 10 /\ u + 4 \in Nat /\ u + 10 \in Nat
    BY <1>2, <1>9
  <2>3. Greets => greet \in C /\ Time[greet] = u + 4
    BY <1>7, <1>9
  <2> QED BY <1>1, <2>1, <2>2, <2>3, CoversSlot
<1>15. u + 1 \in Nat /\ u + 2 \in Nat /\ u + 3 \in Nat /\ u + 4 \in Nat /\ u + 10 \in Nat
  BY <1>9
<1> HIDE DEF A, B, G
<1>16. Covers(A \o B, C, u, u + 2)
  BY <1>1, <1>9, <1>10, <1>11, <1>15, CoversConcat
<1>17. Covers(D, C, u + 2, u + 4)
  BY <1>1, <1>9, <1>12, <1>13, <1>15, CoversConcat
<1> HIDE DEF D
<1>18. Covers((A \o B) \o D, C, u, u + 4)
  BY <1>1, <1>9, <1>15, <1>16, <1>17, CoversConcat
<1>19. Covers(((A \o B) \o D) \o G, C, u, u + 10)
  BY <1>1, <1>9, <1>14, <1>15, <1>18, CoversConcat
<1>20. u = 30 + 10 * i /\ u + 10 = 40 + 10 * i
  BY <1>6, <1>9 DEF t
<1> QED BY <1>19, <1>20 DEF A, B, C, D, G, next, port, net, connect, greet

\* The loop over connections.
LEMMA ConnectCovers ==
    ASSUME list \in Lists, NEW dlen \in Nat, NEW bump \in BOOLEAN, dlen > 0 <=> Greets,
           bump <=> list \notin {"1tcp", "2tcp"}
    PROVE  Covers(Connect(Connections, dlen, bump), CallsOf("prestart"), 30, 30 + 10 * Connections)
<1> DEFINE C == CallsOf("prestart")
           A(k) == IF k = 1 THEN <<>> ELSE <<Call("next", k - 1)>>
           B(k) == IF k > 1 /\ bump THEN <<Call("port", k - 1)>> ELSE <<>>
           D(k) == <<Call("net", k - 1), Call("connect", k - 1)>>
           G(k) == IF dlen > 0 THEN <<Call("greet", k - 1)>> ELSE <<>>
<1>1. PICK n \in {1, 2, 4} : n = Connections
  BY Lengths
<1> DEFINE f == [k \in 1 .. n |-> A(k) \o B(k) \o D(k) \o G(k)]
<1>2. Connect(n, dlen, bump) = FlattenSeq(f)
  BY DEF Connect
<1>3. C \in SUBSET CallType
  BY DEF CallsOf
<1>4. ASSUME NEW k \in 1 .. n PROVE Covers(f[k], C, 20 + 10 * k, 30 + 10 * k)
  <2>1. PICK i \in Stream : i = k - 1
    BY <1>1, Lengths
  <2>2. i \in Nat /\ (k = 1 <=> i = 0) /\ (k > 1 <=> i # 0) /\ 20 + 10 * k = 30 + 10 * i
        /\ 30 + 10 * k = 40 + 10 * i
    BY <2>1, <1>1
  <2> DEFINE a == IF i # 0 THEN <<Call("next", i)>> ELSE <<>>
             b == IF i # 0 /\ bump THEN <<Call("port", i)>> ELSE <<>>
             d == <<Call("net", i)>> \o <<Call("connect", i)>>
             g == IF Greets THEN <<Call("greet", i)>> ELSE <<>>
  <2>3. A(k) = a /\ B(k) = b /\ G(k) = g
    BY <2>1, <2>2
  <2>4. D(k) = d
    BY <2>1, Join
  <2>5. Covers(((a \o b) \o d) \o g, C, 30 + 10 * i, 40 + 10 * i)
    BY SegmentCovers
  <2>6. f[k] = A(k) \o B(k) \o D(k) \o G(k)
    OBVIOUS
  <2> HIDE DEF a, b, d, g, A, B, D, G, f
  <2>7. f[k] = ((a \o b) \o d) \o g
    BY <2>3, <2>4, <2>6, Zenon
  <2> HIDE DEF C
  <2> QED BY <2>2, <2>5, <2>7
<1>5. Len(f) = n
  BY <1>1
<1> HIDE DEF C, f
<1>6. FlattenSeq(f) = IF n = 1 THEN f[1]
                      ELSE IF n = 2 THEN f[1] \o f[2]
                      ELSE IF n = 3 THEN (f[1] \o f[2]) \o f[3]
                      ELSE ((f[1] \o f[2]) \o f[3]) \o f[4]
  <2>1. n \in 1 .. 4
    BY <1>1
  <2> QED BY <1>5, <2>1, Flatten
<1>7. /\ Covers(f[1], C, 30, 40)
      /\ n >= 2 => Covers(f[2], C, 40, 50)
      /\ n = 4 => Covers(f[3], C, 50, 60) /\ Covers(f[4], C, 60, 70)
  BY <1>1, <1>4
<1>8. Covers(FlattenSeq(f), C, 30, 30 + 10 * n)
  <2>1. CASE n = 1
    BY <1>6, <1>7, <2>1
  <2>2. ASSUME n >= 2 PROVE Covers(f[1] \o f[2], C, 30, 50)
    BY <1>3, <1>7, <2>2, CoversConcat
  <2>3. CASE n = 2
    BY <1>6, <2>2, <2>3
  <2>4. CASE n = 4
    <3>1. Covers((f[1] \o f[2]) \o f[3], C, 30, 60)
      BY <1>3, <1>7, <2>2, <2>4, CoversConcat
    <3>2. Covers(((f[1] \o f[2]) \o f[3]) \o f[4], C, 30, 70)
      BY <1>3, <1>7, <2>4, <3>1, CoversConcat
    <3> QED BY <1>6, <2>4, <3>2
  <2> QED BY <1>1, <2>1, <2>3, <2>4
<1> QED BY <1>1, <1>2, <1>8 DEF C

LEMMA PrestartCovers ==
    ASSUME list \in Lists
    PROVE  Covers(Handlers.prestart, CallsOf("prestart"), 0, Forever)
<1> DEFINE C == CallsOf("prestart")
           bump == list \notin {"1tcp", "2tcp"}
           dlen == IF Greets THEN 8 ELSE 0
           m == IF Greets THEN Connections ELSE 1
           con == Connect(Connections, dlen, bump)
<1>1. C \in SUBSET CallType
  BY DEF CallsOf
<1>2. m \in 1 .. 4 /\ PreTold = 0 .. m - 1 /\ Connections \in {1, 2, 4} /\ PreTold \subseteq 0 .. 3
      /\ Stream \subseteq 0 .. 3 /\ Stream = 0 .. Connections - 1
  <2>1. Connections \in 1 .. 4
    BY Lengths
  <2>2. 1 \in 1 .. 4 /\ 0 .. 1 - 1 = {0}
    OBVIOUS
  <2>3. m \in 1 .. 4 /\ PreTold = 0 .. m - 1
    BY <2>1, <2>2, Zenon DEF PreTold, Stream
  <2> QED BY <2>3, Lengths
<1>3. Handlers.prestart = (Setup(Connections) \o con) \o Each("PRESTART", m)
  <2>1. Each("PRESTART", 1) = <<Call("PRESTART", 0)>>
    BY DEF Each
  <2>2. CASE list = "1tcp"
    BY <2>2 DEF Handlers, Prestart1tcp, Connections, Greets
  <2>3. CASE list = "2tcp"
    BY <2>3 DEF Handlers, Prestart2tcp, Connections, Greets
  <2>4. CASE list = "4tcp"
    BY <2>1, <2>4 DEF Handlers, Prestart4tcp, Connections, Greets
  <2>5. CASE list = "2udp"
    BY <2>1, <2>5 DEF Handlers, Prestart2udp, Connections, Greets
  <2>6. CASE list = "4udp"
    BY <2>6 DEF Handlers, Prestart4udp, Connections, Greets
  <2> QED BY <2>2, <2>3, <2>4, <2>5, <2>6, Lengths
<1>4. Covers(Setup(Connections), C, 0, 30)
  BY SetupCovers
<1>5. Covers(con, C, 30, 30 + 10 * Connections)
  <2>1. dlen \in Nat /\ bump \in BOOLEAN /\ (dlen > 0 <=> Greets)
    OBVIOUS
  <2> QED BY <2>1, ConnectCovers
<1> HIDE DEF con, m
<1>6. PICK hi \in {40, 50, 70} : hi = 30 + 10 * Connections
  BY <1>2
<1>7. Covers(Each("PRESTART", m), C, 70, Forever)
  <2>1. ASSUME NEW c \in C, 70 <= Time[c] PROVE \E i \in 0 .. m - 1 : c = Call("PRESTART", i)
    <3>1. PICK t \in 0 .. 110 : t = Time[c]
      BY <1>1, TimeType
    <3>2. t \notin {0, 1, 2, 10, 20, 21, 22}
      BY <2>1, <3>1
    <3>3. \A j \in Stream : t \notin 30 + 10 * j .. 34 + 10 * j
      BY <1>2, <2>1, <3>1
    <3>4. \A j \in Stream : j \in 0 .. 3
      BY <1>2
    <3>5. PICK j \in PreTold : c = Call("PRESTART", j)
      <4>1. PrestartAt(t, c)
        BY <3>1, PrestartTimes
      <4> QED BY <3>2, <3>3, <3>4, <4>1 DEF PrestartAt
    <3> QED BY <1>2, <3>5
  <2>2. 70 + m <= Forever /\ 70 \in Nat /\ Forever \in Nat
    BY <1>2 DEF Forever
  <2>3. \A i \in 0 .. m - 1 : Call("PRESTART", i) \in C /\ Time[Call("PRESTART", i)] = 70 + i
    <3> TAKE i \in 0 .. m - 1
    <3>1. i \in 0 .. 4 /\ i \in PreTold
      BY <1>2
    <3> QED BY <3>1, PrestartMade, Times
  <2>4. m \in 1 .. 4
    BY <1>2
  <2>5. \A c \in C : 70 <= Time[c] /\ Time[c] < Forever => \E i \in 0 .. m - 1 : c = Call("PRESTART", i)
    BY <2>1
  <2> HIDE DEF C
  <2> QED BY <1>1, <2>2, <2>3, <2>4, <2>5, CoversEach
<1>8. Covers(con, C, 30, 70)
  <2>1. ASSUME NEW c \in C PROVE ~ (hi <= Time[c] /\ Time[c] < 70)
    <3>1. PICK t \in 0 .. 110 : t = Time[c]
      BY <1>1, TimeType
    <3>2. SUFFICES ASSUME hi <= t, t < 70 PROVE FALSE
      BY <3>1
    <3>3. t \notin {0, 1, 2, 10, 20, 21, 22} /\ \A j \in PreTold : t # 70 + j
      BY <1>2, <1>6, <3>2
    <3>4. \A j \in Stream : t \notin 30 + 10 * j .. 34 + 10 * j
      BY <1>2, <1>6, <3>2
    <3>5. \A j \in Stream : j \in 0 .. 3
      BY <1>2
    <3> QED BY <3>1, <3>3, <3>4, <3>5, PrestartTimes DEF PrestartAt
  <2>2. Covers(con, C, 30, hi) /\ 30 <= hi /\ hi <= 70 /\ hi \in Nat
    BY <1>5, <1>6
  <2> QED BY <1>1, <2>1, <2>2, CoversWiden
<1>9. Covers(Setup(Connections) \o con, C, 0, 70)
  BY <1>1, <1>4, <1>8, CoversConcat
<1>10. Covers((Setup(Connections) \o con) \o Each("PRESTART", m), C, 0, Forever)
  BY <1>1, <1>7, <1>9, CoversConcat DEF Forever
<1> QED BY <1>3, <1>10 DEF C

\* A handler starts at time 0 and makes the calls of its kind.
LEMMA HandlerCovers ==
    ASSUME list \in Lists, NEW h \in {"download", "prestart", "go", "end"}
    PROVE  /\ Covers(Handlers[h], CallsOf(h), 0, Forever)
           /\ ~Empty(Handlers[h]) /\ Start(Handlers[h]) = 0
<1>1. Covers(Handlers[h], CallsOf(h), 0, Forever)
  BY DownloadCovers, PrestartCovers, GoCovers, EndCovers
<1>2. \E d \in CallsOf(h) : Time[d] = 0
  <2>1. 0 \in 0 .. 4 /\ 0 \in Told
    BY Lengths
  <2>2. CASE h = "download"
    BY <2>1, <2>2, CallFields, Times DEF CallsOf, DownloadCall
  <2>3. CASE h = "prestart"
    BY <2>1, <2>3, CallFields, Times DEF CallsOf, PrestartCall
  <2>4. CASE h = "go"
    BY <2>1, <2>4, CallFields, Times DEF CallsOf, GoCall
  <2>5. CASE h = "end"
    BY <2>1, <2>5, CallFields, Times DEF CallsOf, EndCall
  <2> QED BY <2>2, <2>3, <2>4, <2>5
<1>3. CallsOf(h) \in SUBSET CallType
  BY DEF CallsOf
<1>4. 0 \in Nat /\ 0 < Forever
  BY DEF Forever
<1> QED BY <1>1, <1>2, <1>3, <1>4, CoversStart

-----------------------------------------------------------------------------
(* The place of a call in its handler *)

LEMMA HandlerIs ==
    /\ Handler \in {"download", "prestart", "go", "end"}
    /\ Handler = "prestart" <=> to = "prestarted"
    /\ Handler = "go" <=> to = "active"
    /\ Handler = "download" <=> to \notin {"prestarted", "active"} /\ coda \in {"booted", "downloaded"}
    /\ Handler = "end" <=> to \notin {"prestarted", "active"} /\ coda \notin {"booted", "downloaded"}
BY DEF Handler

\* The next call.
LEMMA NextCall ==
    ASSUME FlowInv, ~Idle
    PROVE  /\ list \in Lists /\ Head(prog) \in CallsOf(Handler) /\ Head(prog) \in CallType
           /\ Now = Time[Head(prog)] /\ Now \in 0 .. 110
           /\ \A c \in CallsOf(Handler) : Now <= Time[c] /\ Time[c] < Start(Tail(prog)) => c = Head(prog)
           /\ Now < Start(Tail(prog)) /\ Start(Tail(prog)) \in Nat
           /\ Empty(Tail(prog)) \/ Covers(Tail(prog), CallsOf(Handler), Start(Tail(prog)), Forever)
           /\ Len(prog) = 1 <=> Empty(Tail(prog))
<1>1. CallsOf(Handler) \in SUBSET CallType
  BY DEF CallsOf
<1>2. ~Empty(prog) /\ Covers(prog, CallsOf(Handler), Start(prog), Forever) /\ list \in Lists
  BY DEF FlowInv, Idle, Now
<1> QED BY <1>1, <1>2, CoversTail DEF Now

\* Where each call stands.
LEMMA Place ==
    ASSUME FlowInv, ~Idle
    PROVE  /\ At("z7") => Handler = "download" /\ Now = 0
           /\ At("v7") => Handler = "download" /\ Now = 1
           /\ At("init") => Handler = "prestart" /\ Now = 0
           /\ At("file") => Handler = "prestart" /\ Now = 1
           /\ At("address") => Handler = "prestart" /\ Now = 2
           /\ At("ebcfg") => Handler = "prestart" /\ Now = 10 /\ Arg = Connections
           /\ At("async") => Handler \in {"prestart", "end"} /\ Now = 20
           /\ At("links") => Handler = "prestart" /\ Now = 21
           /\ At("base") => Handler = "prestart" /\ Now = 22
           /\ At("next") => Handler = "prestart" /\ Arg \in Stream \ {0} /\ Now = 30 + 10 * Arg
           /\ At("port") => Handler = "prestart" /\ Arg \in Stream \ {0} /\ Now = 31 + 10 * Arg
           /\ At("net") => Handler = "prestart" /\ Arg \in Stream /\ Now = 32 + 10 * Arg
           /\ At("connect") => Handler = "prestart" /\ Arg \in Stream /\ Now = 33 + 10 * Arg
           /\ At("greet") => Handler = "prestart" /\ Arg \in Stream /\ Now = 34 + 10 * Arg /\ Greets
           /\ At("PRESTART") => Handler = "prestart" /\ Arg \in PreTold /\ Now = 70 + Arg
           /\ At("GO") => Handler = "go" /\ Arg \in Told /\ Now = Arg
           /\ At("enable") => Handler = "go" /\ Now = 10
           /\ At("wait") => Handler = "end" /\ Now = 0
           /\ At("END") => Handler = "end" /\ Arg \in Told /\ Now = 30 + Arg
           /\ At("flush") => Handler = "end" /\ Now = 40
           /\ At("ebreset") => Handler = "end" /\ Now = 41 /\ list \notin {"1tcp", "2tcp"}
           /\ At("close") => Handler = "end" /\ Arg \in Stream /\ Now = 50 + Arg
<1> DEFINE c == Head(prog)
<1>1. c \in CallsOf(Handler) /\ c \in CallType /\ Now = Time[c]
  BY NextCall
<1>2. Handler \in {"download", "prestart", "go", "end"}
  BY HandlerIs
<1>3. /\ Handler = "download" => DownloadCall(c)
      /\ Handler = "prestart" => PrestartCall(c)
      /\ Handler = "go" => GoCall(c)
      /\ Handler = "end" => EndCall(c)
  BY <1>1 DEF CallsOf
<1>4. Arg = c.i
  BY DEF Arg
<1>5. \A op : At(op) => c.op = op
  BY DEF At
<1> HIDE DEF c
<1>6. ASSUME At("z7") PROVE Handler = "download" /\ Now = 0
  BY <1>1, <1>2, <1>3, <1>4, <1>5, <1>6, OpTime DEF DownloadCall, PrestartCall, GoCall, EndCall
<1>7. ASSUME At("v7") PROVE Handler = "download" /\ Now = 1
  BY <1>1, <1>2, <1>3, <1>4, <1>5, <1>7, OpTime DEF DownloadCall, PrestartCall, GoCall, EndCall
<1>8. ASSUME At("init") PROVE Handler = "prestart" /\ Now = 0
  BY <1>1, <1>2, <1>3, <1>4, <1>5, <1>8, OpTime DEF DownloadCall, PrestartCall, GoCall, EndCall
<1>9. ASSUME At("file") PROVE Handler = "prestart" /\ Now = 1
  BY <1>1, <1>2, <1>3, <1>4, <1>5, <1>9, OpTime DEF DownloadCall, PrestartCall, GoCall, EndCall
<1>10. ASSUME At("address") PROVE Handler = "prestart" /\ Now = 2
  BY <1>1, <1>2, <1>3, <1>4, <1>5, <1>10, OpTime DEF DownloadCall, PrestartCall, GoCall, EndCall
<1>11. ASSUME At("ebcfg") PROVE Handler = "prestart" /\ Now = 10 /\ Arg = Connections
  BY <1>1, <1>2, <1>3, <1>4, <1>5, <1>11, OpTime DEF DownloadCall, PrestartCall, GoCall, EndCall
<1>12. ASSUME At("async") PROVE Handler \in {"prestart", "end"} /\ Now = 20
  BY <1>1, <1>2, <1>3, <1>4, <1>5, <1>12, OpTime DEF DownloadCall, PrestartCall, GoCall, EndCall
<1>13. ASSUME At("links") PROVE Handler = "prestart" /\ Now = 21
  BY <1>1, <1>2, <1>3, <1>4, <1>5, <1>13, OpTime DEF DownloadCall, PrestartCall, GoCall, EndCall
<1>14. ASSUME At("base") PROVE Handler = "prestart" /\ Now = 22
  BY <1>1, <1>2, <1>3, <1>4, <1>5, <1>14, OpTime DEF DownloadCall, PrestartCall, GoCall, EndCall
<1>15. ASSUME At("next") PROVE Handler = "prestart" /\ Arg \in Stream \ {0} /\ Now = 30 + 10 * Arg
  BY <1>1, <1>2, <1>3, <1>4, <1>5, <1>15, OpTime DEF DownloadCall, PrestartCall, GoCall, EndCall
<1>16. ASSUME At("port") PROVE Handler = "prestart" /\ Arg \in Stream \ {0} /\ Now = 31 + 10 * Arg
  BY <1>1, <1>2, <1>3, <1>4, <1>5, <1>16, OpTime DEF DownloadCall, PrestartCall, GoCall, EndCall
<1>17. ASSUME At("net") PROVE Handler = "prestart" /\ Arg \in Stream /\ Now = 32 + 10 * Arg
  BY <1>1, <1>2, <1>3, <1>4, <1>5, <1>17, OpTime DEF DownloadCall, PrestartCall, GoCall, EndCall
<1>18. ASSUME At("connect") PROVE Handler = "prestart" /\ Arg \in Stream /\ Now = 33 + 10 * Arg
  BY <1>1, <1>2, <1>3, <1>4, <1>5, <1>18, OpTime DEF DownloadCall, PrestartCall, GoCall, EndCall
<1>19. ASSUME At("greet") PROVE Handler = "prestart" /\ Arg \in Stream /\ Now = 34 + 10 * Arg /\ Greets
  BY <1>1, <1>2, <1>3, <1>4, <1>5, <1>19, OpTime DEF DownloadCall, PrestartCall, GoCall, EndCall
<1>20. ASSUME At("PRESTART") PROVE Handler = "prestart" /\ Arg \in PreTold /\ Now = 70 + Arg
  BY <1>1, <1>2, <1>3, <1>4, <1>5, <1>20, OpTime DEF DownloadCall, PrestartCall, GoCall, EndCall
<1>21. ASSUME At("GO") PROVE Handler = "go" /\ Arg \in Told /\ Now = Arg
  BY <1>1, <1>2, <1>3, <1>4, <1>5, <1>21, OpTime DEF DownloadCall, PrestartCall, GoCall, EndCall
<1>22. ASSUME At("enable") PROVE Handler = "go" /\ Now = 10
  BY <1>1, <1>2, <1>3, <1>4, <1>5, <1>22, OpTime DEF DownloadCall, PrestartCall, GoCall, EndCall
<1>23. ASSUME At("wait") PROVE Handler = "end" /\ Now = 0
  BY <1>1, <1>2, <1>3, <1>4, <1>5, <1>23, OpTime DEF DownloadCall, PrestartCall, GoCall, EndCall
<1>24. ASSUME At("END") PROVE Handler = "end" /\ Arg \in Told /\ Now = 30 + Arg
  BY <1>1, <1>2, <1>3, <1>4, <1>5, <1>24, OpTime DEF DownloadCall, PrestartCall, GoCall, EndCall
<1>25. ASSUME At("flush") PROVE Handler = "end" /\ Now = 40
  BY <1>1, <1>2, <1>3, <1>4, <1>5, <1>25, OpTime DEF DownloadCall, PrestartCall, GoCall, EndCall
<1>26. ASSUME At("ebreset") PROVE Handler = "end" /\ Now = 41 /\ list \notin {"1tcp", "2tcp"}
  BY <1>1, <1>2, <1>3, <1>4, <1>5, <1>26, OpTime DEF DownloadCall, PrestartCall, GoCall, EndCall
<1>27. ASSUME At("close") PROVE Handler = "end" /\ Arg \in Stream /\ Now = 50 + Arg
  BY <1>1, <1>2, <1>3, <1>4, <1>5, <1>27, OpTime DEF DownloadCall, PrestartCall, GoCall, EndCall
<1> QED BY <1>6, <1>7, <1>8, <1>9, <1>10, <1>11, <1>12, <1>13, <1>14, <1>15, <1>16, <1>17, <1>18, <1>19,
          <1>20, <1>21, <1>22, <1>23, <1>24, <1>25, <1>26, <1>27

\* The handler goes on to its next call: none of its calls lies in between.
Onward ==
    /\ ~Idle /\ ~Idle' /\ list' = list /\ to' = to /\ coda' = coda
    /\ Now < Now' /\ Now' \in 0 .. 110
    /\ \A c \in CallsOf(Handler) : Time[c] < Now' => Time[c] <= Now
\* It has returned.
Return == ~Idle /\ Idle' /\ list' = list /\ to' = to /\ coda' = to

LEMMA Proceed ==
    ASSUME FlowInv, ~Idle, Advance
    PROVE  /\ Onward \/ (Return /\ \A c \in CallsOf(Handler) : Time[c] <= Now)
           /\ dev' = dev /\ sync' = sync
           /\ Idle' \/ (to' # "booted" /\ Covers(prog', CallsOf(Handler)', Now', Forever))
<1> DEFINE q == Tail(prog)
<1>1. prog' = q /\ list' = list /\ to' = to /\ dev' = dev /\ sync' = sync
      /\ coda' = IF Len(prog) = 1 THEN to ELSE coda
  BY DEF Advance
<1>2. /\ Head(prog) \in CallsOf(Handler) /\ Now = Time[Head(prog)] /\ Now \in 0 .. 110
      /\ \A c \in CallsOf(Handler) : Now <= Time[c] /\ Time[c] < Start(q) => c = Head(prog)
      /\ Now < Start(q) /\ Start(q) \in Nat
      /\ Empty(q) \/ Covers(q, CallsOf(Handler), Start(q), Forever)
      /\ Len(prog) = 1 <=> Empty(q)
  BY NextCall
<1>3. CallsOf(Handler) \in SUBSET CallType
  BY DEF CallsOf
<1> HIDE DEF q
<1>4. Now' = Start(q) /\ (Idle' <=> Empty(q))
  BY <1>1 DEF Now, Idle
<1>5. ASSUME NEW c \in CallsOf(Handler), Time[c] < Start(q) PROVE Time[c] <= Now
  <2>1. PICK m \in 0 .. 110 : m = Time[c]
    BY <1>3, TimeType
  <2>2. PICK n \in 0 .. 110 : n = Now
    BY <1>2
  <2>3. CASE m < n
    BY <2>1, <2>2, <2>3
  <2>4. CASE n <= m
    <3>1. c = Head(prog)
      BY <1>2, <1>5, <2>1, <2>2, <2>4
    <3>2. m = n
      BY <1>2, <2>1, <2>2, <3>1
    <3> QED BY <2>1, <2>2, <3>2
  <2> QED BY <2>3, <2>4
<1>6. CASE Empty(q)
  <2>1. Return
    BY <1>1, <1>2, <1>4, <1>6 DEF Return
  <2>2. ASSUME NEW c \in CallsOf(Handler) PROVE Time[c] <= Now
    <3>1. PICK m \in 0 .. 110 : m = Time[c]
      BY <1>3, TimeType
    <3>2. Start(q) = 1000
      BY <1>6 DEF Start, Forever
    <3>3. Time[c] < Start(q)
      BY <3>1, <3>2
    <3> QED BY <1>5, <3>3
  <2> QED BY <1>1, <1>4, <1>6, <2>1, <2>2
<1>7. CASE ~Empty(q)
  <2>1. coda' = coda /\ ~Idle'
    BY <1>1, <1>2, <1>4, <1>7
  <2>2. Handler' = Handler
    BY <1>1, <2>1 DEF Handler
  <2>3. CallsOf(Handler)' = CallsOf(Handler)
    BY <1>1, <2>1, <2>2 DEF CallsOf, DownloadCall, PrestartCall, GoCall, EndCall, Stream, PreTold, Told,
                            Greets, Connections
  <2>4. Covers(prog', CallsOf(Handler)', Now', Forever)
    BY <1>1, <1>2, <1>4, <1>7, <2>3
  <2>5. Start(q) \in 0 .. 110
    BY <1>2, <1>3, <1>7, CoversTail
  <2>6. Onward
    BY <1>1, <1>2, <1>4, <1>5, <2>1, <2>5 DEF Onward
  <2>7. to # "booted"
    BY DEF FlowInv
  <2> QED BY <1>1, <2>1, <2>4, <2>6, <2>7
<1> QED BY <1>6, <1>7

\* Without a user's file, rocPrestart goes on with the payloads.
LEMMA Skip ==
    ASSUME FlowInv, At("file"), prog' = Tail(Tail(prog)), list' = list, to' = to, coda' = coda
    PROVE  /\ ~Idle /\ ~Idle' /\ Handler = "prestart" /\ Handler' = "prestart"
           /\ Now = 1 /\ Now' = 10 /\ Covers(prog', CallsOf(Handler)', Now', Forever)
<1> DEFINE q == Tail(prog)
           r == Tail(q)
           C == CallsOf("prestart")
<1>1. ~Idle /\ Handler = "prestart" /\ Now = 1 /\ list \in Lists
  BY Place, NextCall DEF At, Idle, Empty
<1>2. /\ Head(prog) \in C /\ Now = Time[Head(prog)]
      /\ \A c \in C : Now <= Time[c] /\ Time[c] < Start(q) => c = Head(prog)
      /\ Now < Start(q) /\ Start(q) \in Nat
      /\ Empty(q) \/ Covers(q, C, Start(q), Forever)
  BY <1>1, NextCall
<1>3. C \in SUBSET CallType
  BY DEF CallsOf
<1>4. /\ Call("address", 0) \in C /\ Time[Call("address", 0)] = 2
      /\ Call("ebcfg", Connections) \in C /\ Time[Call("ebcfg", Connections)] = 10
  <2>1. Connections \in 0 .. 4 /\ 0 \in 0 .. 4
    BY <1>1, Lengths
  <2> QED BY <1>1, <2>1, PrestartMade, Times
<1> DEFINE a == Call("address", 0)
           b == Call("ebcfg", Connections)
<1> HIDE DEF q, r, C, a, b
<1>5. Time[a] = 2 /\ a \in C /\ Time[b] = 10 /\ b \in C
  BY <1>4 DEF a, b
<1>6. Start(q) = 2 /\ ~Empty(q)
  <2>1. a # Head(prog)
    BY <1>1, <1>2, <1>5
  <2>2. ~ (Time[a] < Start(q))
    BY <1>1, <1>2, <1>5, <2>1
  <2>3. Start(q) \in 0 .. 2
    BY <1>2, <1>5, <2>2
  <2>4. Start(q) = 2
    BY <1>1, <1>2, <2>3
  <2> QED BY <2>4 DEF Start, Forever
<1>7. /\ 2 = Time[Head(q)] /\ Start(r) \in Nat /\ 2 < Start(r)
      /\ \A c \in C : 2 <= Time[c] /\ Time[c] < Start(r) => c = Head(q)
      /\ Empty(r) \/ Covers(r, C, Start(r), Forever)
  <2>1. Covers(q, C, Start(q), Forever)
    BY <1>2, <1>6
  <2>2. /\ Start(q) = Time[Head(q)] /\ Start(r) \in Nat /\ Start(q) < Start(r)
        /\ \A c \in C : Start(q) <= Time[c] /\ Time[c] < Start(r) => c = Head(q)
        /\ Empty(r) \/ Covers(r, C, Start(r), Forever)
    BY <1>3, <1>6, <2>1, CoversTail DEF r
  <2> QED BY <1>6, <2>2
<1>8. Start(r) <= 10 /\ ~Empty(r)
  <2>1. b # Head(q)
    BY <1>5, <1>7
  <2>2. ~ (Time[b] < Start(r))
    BY <1>5, <1>7, <2>1
  <2>3. Start(r) <= 10
    BY <1>5, <1>7, <2>2
  <2> QED BY <2>3 DEF Start, Forever
<1>9. Start(r) = 10
  <2>1. Head(r) \in C /\ Start(r) = Time[Head(r)]
    BY <1>3, <1>7, <1>8, CoversTail
  <2>2. PICK d \in C : d = Head(r)
    BY <2>1
  <2>3. PICK m \in 0 .. 110 : m = Time[d]
    BY <1>3, TimeType
  <2>7. m \in 3 .. 10
    <3>1. PICK t \in Nat : t = Start(r)
      BY <1>7
    <3>2. 2 < t /\ t <= 10 /\ t = m
      BY <1>7, <1>8, <2>1, <2>2, <2>3, <3>1
    <3> QED BY <3>1, <3>2
  <2>4. /\ m \notin {0, 1, 2, 20, 21, 22}
        /\ \A j \in 0 .. 3 : m < 30 + 10 * j
        /\ \A j \in 0 .. 3 : m < 70 + j
    BY <2>7
  <2>5. (\A j \in Stream : j \in 0 .. 3) /\ (\A j \in PreTold : j \in 0 .. 3)
    BY <1>1, Lengths
  <2>6. m = 10
    <3>1. d \in CallsOf("prestart")
      BY DEF C
    <3>2. PICK t \in 0 .. 110 : t = Time[d] /\ PrestartAt(t, d)
      BY <1>1, <3>1, PrestartTimes DEF PrestartAt
    <3>3. t = m
      BY <2>3, <3>2
    <3> QED BY <2>4, <2>5, <3>2, <3>3 DEF PrestartAt
  <2> QED BY <2>1, <2>2, <2>3, <2>6
<1>10. prog' = r
  BY DEF q, r
<1>11. Now' = 10 /\ ~Idle'
  BY <1>8, <1>9, <1>10 DEF Now, Idle
<1>12. Handler' = "prestart"
  BY <1>1 DEF Handler
<1>13. CallsOf(Handler)' = C
  BY <1>12 DEF CallsOf, DownloadCall, PrestartCall, GoCall, EndCall, Stream, PreTold, Told,
               Greets, Connections, C
<1> QED BY <1>1, <1>7, <1>8, <1>9, <1>10, <1>11, <1>12, <1>13

\* A transition is commanded.
LEMMA Begin ==
    ASSUME FlowInv, NEW h \in {"download", "prestart", "go", "end"}, prog' = Handlers[h], list' = list,
           Handler' = h
    PROVE  ~Idle' /\ Now' = 0 /\ Covers(prog', CallsOf(Handler)', Now', Forever)
<1>1. list \in Lists
  BY DEF FlowInv
<1>2. Covers(Handlers[h], CallsOf(h), 0, Forever) /\ ~Empty(Handlers[h]) /\ Start(Handlers[h]) = 0
  BY <1>1, HandlerCovers
<1>3. PICK q : q = Handlers[h]
  OBVIOUS
<1>4. ~Idle' /\ Now' = 0
  BY <1>2, <1>3 DEF Idle, Now
<1>5. CallsOf(Handler)' = CallsOf(h)
  BY DEF CallsOf, DownloadCall, PrestartCall, GoCall, EndCall, Stream, PreTold, Told, Greets, Connections
<1> QED BY <1>2, <1>3, <1>4, <1>5

-----------------------------------------------------------------------------
(* Flow *)

LEMMA FlowInit == Init => FlowInv
BY DEF Init, EbInit, FlowInv, Idle, Empty, Runs

\* Outside the download handler the FPGA is mapped.
LEMMA Mapped ==
    ASSUME FlowInv, ~Idle
    PROVE  /\ Handler # "download" => dev = "mapped" /\ coda # "booted"
           /\ Handler = "prestart" => coda = "downloaded" /\ to = "prestarted"
           /\ Handler = "go" => InRun /\ to = "active"
           /\ Handler = "end" => InRun /\ to = "downloaded"
           /\ Handler = "download" => ~InRun /\ to = "downloaded"
BY HandlerIs DEF FlowInv, Runs, InRun

LEMMA FlowCommands ==
    ASSUME FlowInv, Download \/ Prestart \/ Go \/ End
    PROVE  /\ FlowInv' /\ Idle /\ ~Idle' /\ Now' = 0 /\ list' = list /\ coda' = coda
           /\ Download => Handler' = "download"
           /\ Prestart => Handler' = "prestart"
           /\ Go => Handler' = "go"
           /\ End => Handler' = "end"
<1>1. /\ list \in Lists /\ coda \in {"booted", "downloaded", "prestarted", "active", "paused"}
      /\ dev \in {"closed", "mapped", "stale"} /\ sync \in BOOLEAN
      /\ coda # "booted" => dev = "mapped"
      /\ coda = "booted" /\ fwType => dev = "stale"
  BY DEF FlowInv
<1>2. ASSUME NEW h \in {"download", "prestart", "go", "end"}, NEW from, NEW state, Command(from, h, state)
      PROVE  /\ Idle /\ prog' = Handlers[h] /\ to' = state /\ coda \in from
             /\ list' = list /\ coda' = coda /\ sync' = sync /\ fwType' = fwType
             /\ Handler' = h => ~Idle' /\ Now' = 0 /\ Covers(prog', CallsOf(Handler)', Now', Forever)
  <2>1. /\ Idle /\ prog' = Handlers[h] /\ to' = state /\ coda \in from
        /\ list' = list /\ coda' = coda /\ sync' = sync /\ fwType' = fwType
    BY <1>2 DEF Command, Idle, Empty, ebVars, chipVars
  <2> QED BY <2>1, Begin
<1>3. ASSUME Download
      PROVE  /\ FlowInv' /\ Idle /\ ~Idle' /\ Now' = 0 /\ list' = list /\ coda' = coda
             /\ Handler' = "download"
  <2>1. Command({"booted", "downloaded"}, "download", "downloaded")
    BY <1>3 DEF Download
  <2>2. dev' \in {"closed", "mapped", "stale"} /\ (dev = "mapped" \/ dev = "stale" => dev' = dev)
    BY <1>1, <1>3 DEF Download
  <2>3. coda \in {"booted", "downloaded"} /\ to' = "downloaded" /\ coda' = coda
    BY <1>2, <2>1
  <2>4. Handler' = "download"
    BY <2>3 DEF Handler
  <2>5. ~Idle' /\ Now' = 0 /\ Covers(prog', CallsOf(Handler)', Now', Forever) /\ Idle
        /\ list' = list /\ sync' = sync /\ fwType' = fwType
    BY <1>2, <2>1, <2>4
  <2>6. FlowInv'
    BY <1>1, <2>2, <2>3, <2>4, <2>5 DEF FlowInv, Runs
  <2> QED BY <2>3, <2>4, <2>5, <2>6
<1>4. ASSUME Prestart
      PROVE  /\ FlowInv' /\ Idle /\ ~Idle' /\ Now' = 0 /\ list' = list /\ coda' = coda
             /\ Handler' = "prestart"
  <2>1. Command({"downloaded"}, "prestart", "prestarted") /\ dev' = dev
    BY <1>4 DEF Prestart
  <2>3. coda = "downloaded" /\ to' = "prestarted" /\ coda' = coda
    BY <1>2, <2>1
  <2>4. Handler' = "prestart"
    BY <2>3 DEF Handler
  <2>5. ~Idle' /\ Now' = 0 /\ Covers(prog', CallsOf(Handler)', Now', Forever) /\ Idle
        /\ list' = list /\ sync' = sync /\ fwType' = fwType
    BY <1>2, <2>1, <2>4
  <2>6. FlowInv'
    BY <1>1, <2>1, <2>3, <2>4, <2>5 DEF FlowInv, Runs
  <2> QED BY <2>3, <2>4, <2>5, <2>6
<1>5. ASSUME Go
      PROVE  /\ FlowInv' /\ Idle /\ ~Idle' /\ Now' = 0 /\ list' = list /\ coda' = coda
             /\ Handler' = "go"
  <2>1. Command({"prestarted", "paused"}, "go", "active") /\ dev' = dev
    BY <1>5 DEF Go
  <2>3. coda \in {"prestarted", "paused"} /\ to' = "active" /\ coda' = coda
    BY <1>2, <2>1
  <2>4. Handler' = "go"
    BY <2>3 DEF Handler
  <2>5. ~Idle' /\ Now' = 0 /\ Covers(prog', CallsOf(Handler)', Now', Forever) /\ Idle
        /\ list' = list /\ sync' = sync /\ fwType' = fwType
    BY <1>2, <2>1, <2>4
  <2>6. FlowInv'
    BY <1>1, <2>1, <2>3, <2>4, <2>5 DEF FlowInv, Runs
  <2> QED BY <2>3, <2>4, <2>5, <2>6
<1>6. ASSUME End
      PROVE  /\ FlowInv' /\ Idle /\ ~Idle' /\ Now' = 0 /\ list' = list /\ coda' = coda
             /\ Handler' = "end"
  <2>1. Command({"prestarted", "active", "paused"}, "end", "downloaded") /\ dev' = dev
    BY <1>6 DEF End
  <2>3. coda \in {"prestarted", "active", "paused"} /\ to' = "downloaded" /\ coda' = coda
    BY <1>2, <2>1
  <2>4. Handler' = "end"
    BY <2>3 DEF Handler
  <2>5. ~Idle' /\ Now' = 0 /\ Covers(prog', CallsOf(Handler)', Now', Forever) /\ Idle
        /\ list' = list /\ sync' = sync /\ fwType' = fwType
    BY <1>2, <2>1, <2>4
  <2>6. FlowInv'
    BY <1>1, <2>1, <2>3, <2>4, <2>5 DEF FlowInv, Runs
  <2> QED BY <2>3, <2>4, <2>5, <2>6
<1> QED BY <1>3, <1>4, <1>5, <1>6

\* The calls that go on whatever comes of them.
Plain ==
    \/ LoadZ7 \/ LoadV7 \/ SetAddress \/ SetPayloads \/ EnableAsync \/ ResetLinks
    \/ GetBase \/ NextAddress \/ NextPort \/ SetClient \/ ConnectStream \/ SendGreeting
    \/ WriteEvent \/ EnablePayloads \/ WaitForData \/ WaitForEvents \/ ResetEb \/ CloseStream

LEMMA PlainCalls ==
    ASSUME Plain
    PROVE  ~Idle /\ Advance /\ fwType' = fwType /\ (dev = "mapped" \/ ~At("v7"))
<1>1. CASE LoadZ7
  BY <1>1 DEF LoadZ7, At, Idle, Empty, ebVars, chipVars, Z7CfgLoad
<1>2. CASE LoadV7
  BY <1>2 DEF LoadV7, At, Idle, Empty, ebVars, chipVars, V7CfgLoad
<1>3. CASE SetAddress
  BY <1>3 DEF SetAddress, At, Idle, Empty, ebVars, chipVars, SetNetCfg
<1>4. CASE SetPayloads
  BY <1>4 DEF SetPayloads, At, Idle, Empty, ebVars, chipVars, SetEbCfg, Checked, IfV7
<1>5. CASE EnableAsync
  BY <1>5 DEF EnableAsync, At, Idle, Empty, ebVars, chipVars, EbEnable, IfV7
<1>6. CASE ResetLinks
  BY <1>6 DEF ResetLinks, At, Idle, Empty, ebVars, chipVars, ResetDataPath, IfV7
<1>7. CASE GetBase
  BY <1>7 DEF GetBase, At, Idle, Empty, ebVars, chipVars
<1>8. CASE NextAddress
  BY <1>8 DEF NextAddress, At, Idle, Empty, ebVars, chipVars
<1>9. CASE NextPort
  BY <1>9 DEF NextPort, At, Idle, Empty, ebVars, chipVars
<1>10. CASE SetClient
  BY <1>10 DEF SetClient, At, Idle, Empty, ebVars, chipVars, SetNetCfg
<1>11. CASE ConnectStream
  BY <1>11 DEF ConnectStream, At, Idle, Empty, ebVars, chipVars, TcpConnect
<1>12. CASE SendGreeting
  BY <1>12 DEF SendGreeting, At, Idle, Empty, ebVars, chipVars
<1>13. CASE WriteEvent
  BY <1>13 DEF WriteEvent, At, Idle, Empty, ebVars, chipVars, EvioWriteControl, IfV7, Control
<1>14. CASE EnablePayloads
  BY <1>14 DEF EnablePayloads, At, Idle, Empty, ebVars, chipVars, EbEnable, IfV7
<1>15. CASE WaitForData
  BY <1>15 DEF WaitForData, At, Idle, Empty, ebVars, chipVars
<1>16. CASE WaitForEvents
  BY <1>16 DEF WaitForEvents, At, Idle, Empty, ebVars, chipVars
<1>17. CASE ResetEb
  BY <1>17 DEF ResetEb, At, Idle, Empty, ebVars, chipVars, EbDisable, IfV7
<1>18. CASE CloseStream
  BY <1>18 DEF CloseStream, At, Idle, Empty, ebVars, chipVars, TcpDisconnect
<1> QED BY <1>1, <1>2, <1>3, <1>4, <1>5, <1>6, <1>7, <1>8, <1>9, <1>10, <1>11,
          <1>12, <1>13, <1>14, <1>15, <1>16, <1>17, <1>18 DEF Plain

LEMMA FlowAdvance ==
    ASSUME FlowInv, ~Idle, Advance, fwType' = fwType, dev = "mapped" \/ ~At("v7")
    PROVE  FlowInv' /\ (Onward \/ Return) /\ (Handler = "download" /\ Return => At("v7"))
<1>1. /\ Onward \/ (Return /\ \A c \in CallsOf(Handler) : Time[c] <= Now)
      /\ dev' = dev /\ sync' = sync
      /\ Idle' \/ (to' # "booted" /\ Covers(prog', CallsOf(Handler)', Now', Forever))
  BY Proceed
<1>2. ASSUME Handler = "download", Return PROVE At("v7")
  <2>1. Head(prog) \in CallsOf("download") /\ list \in Lists /\ Now = Time[Head(prog)]
    BY <1>2, NextCall
  <2>2. \A c \in CallsOf("download") : Time[c] <= Now
    BY <1>1, <1>2 DEF Return, Onward
  <2>3. Call("v7", 0) \in CallsOf("download") /\ Time[Call("v7", 0)] = 1
    BY CallFields, Times DEF CallsOf, DownloadCall
  <2>4. Head(prog).op = "z7" \/ Head(prog).op = "v7"
    BY <2>1 DEF CallsOf, DownloadCall
  <2>5. CASE Head(prog).op = "z7"
    <3>1. At("z7")
      BY <2>5 DEF At, Idle, Empty
    <3>2. Now = 0
      BY <3>1, Place
    <3> QED BY <2>2, <2>3, <3>2
  <2>6. CASE Head(prog).op = "v7"
    BY <2>6 DEF At, Idle, Empty
  <2> QED BY <2>4, <2>5, <2>6
<1>3. /\ list \in Lists /\ coda \in {"booted", "downloaded", "prestarted", "active", "paused"}
      /\ to \in {"downloaded", "prestarted", "active"}
      /\ dev \in {"closed", "mapped", "stale"} /\ sync \in BOOLEAN
      /\ coda # "booted" => dev = "mapped"
      /\ coda = "booted" /\ fwType => dev = "stale"
      /\ Runs("prestart") => coda = "downloaded"
      /\ Runs("go") => coda \in {"prestarted", "paused"}
  BY DEF FlowInv
<1>4. CASE Onward
  <2>1. Handler' = Handler /\ coda' = coda /\ to' = to /\ list' = list /\ ~Idle'
    BY <1>4 DEF Onward, Handler
  <2> QED BY <1>1, <1>2, <1>3, <1>4, <2>1 DEF FlowInv, Runs, Onward, Return
<1>5. CASE Return
  <2>1. coda' = to /\ to' = to /\ list' = list /\ Idle' /\ dev' = "mapped"
    BY <1>1, <1>2, <1>5, Mapped DEF Return
  <2>2. FlowInv'
    BY <1>1, <1>3, <2>1 DEF FlowInv, Runs
  <2> QED BY <1>2, <1>5, <2>2
<1> QED BY <1>1, <1>4, <1>5

\* Nothing happened to the handler.
Stay == prog' = prog /\ list' = list /\ to' = to /\ coda' = coda

LEMMA StayKeeps ==
    ASSUME Stay
    PROVE  /\ Idle' = Idle /\ Now' = Now /\ Handler' = Handler /\ CallsOf(Handler)' = CallsOf(Handler)
           /\ InRun' = InRun
<1>1. Idle' = Idle /\ Now' = Now /\ Handler' = Handler /\ InRun' = InRun
  BY DEF Stay, Idle, Now, Handler, InRun
<1>2. CallsOf(Handler)' = CallsOf(Handler)
  BY <1>1 DEF Stay, CallsOf, DownloadCall, PrestartCall, GoCall, EndCall, Stream, PreTold, Told,
              Greets, Connections
<1> QED BY <1>1, <1>2

LEMMA FlowStay ==
    ASSUME FlowInv, Stay, dev' = dev, sync' \in BOOLEAN, fwType' = fwType
    PROVE  FlowInv'
BY StayKeeps DEF FlowInv, Runs, Stay

LEMMA OtherCalls ==
    ASSUME HoldSync \/ ReleaseSync \/ Hardware \/ UNCHANGED vars
    PROVE  Stay /\ dev' = dev /\ (sync' = sync \/ sync' \in BOOLEAN) /\ fwType' = fwType
<1>1. CASE HoldSync
  BY <1>1 DEF HoldSync, Stay, ebVars, chipVars
<1>2. CASE ReleaseSync
  BY <1>2 DEF ReleaseSync, Stay, ebVars, chipVars
<1>3. CASE Hardware
  BY <1>3 DEF Hardware, Stay, rolVars, SendAsync, BuildFrame, SendFrame, LateConnect, chipVars
<1>4. CASE UNCHANGED vars
  BY <1>4 DEF vars, Stay, rolVars, ebVars, chipVars
<1> QED BY <1>1, <1>2, <1>3, <1>4

LEMMA FlowOthers ==
    ASSUME FlowInv, HoldSync \/ ReleaseSync \/ Hardware \/ UNCHANGED vars
    PROVE  FlowInv' /\ Stay
<1>1. sync \in BOOLEAN
  BY DEF FlowInv
<1> QED BY <1>1, OtherCalls, FlowStay

\* Between the transitions.
LEMMA FlowIdle ==
    ASSUME FlowInv, Pause \/ Reset
    PROVE  /\ FlowInv' /\ Idle /\ Idle' /\ list' = list /\ UNCHANGED ebVars
           /\ coda \in {"downloaded", "prestarted", "active", "paused"}
           /\ \/ coda = "active" /\ coda' = "paused"
              \/ coda' = "booted"
<1>1. CASE Pause
  BY <1>1 DEF Pause, FlowInv, Idle, Empty, Runs, ebVars, chipVars
<1>2. CASE Reset
  BY <1>2 DEF Reset, FlowInv, Idle, Empty, Runs, ebVars, chipVars
<1> QED BY <1>1, <1>2

\* The three calls that may end their handler.
LEMMA FlowUnmapped ==
    ASSUME FlowInv, LoadUnmapped
    PROVE  /\ FlowInv' /\ ~Idle /\ Handler = "download" /\ Idle' /\ coda' = "booted" /\ ~fwType'
           /\ list' = list /\ coda = "booted"
<1>1. ~Idle /\ At("v7") /\ dev # "mapped"
  BY DEF LoadUnmapped, At, Idle, Empty
<1>2. Handler = "download" /\ coda = "booted"
  BY <1>1, Place DEF FlowInv
<1>3. Idle' /\ coda' = "booted" /\ ~fwType' /\ list' = list /\ to' = to /\ dev' = "closed" /\ sync' = sync
  BY DEF LoadUnmapped, Idle, Empty
<1>4. FlowInv'
  BY <1>3 DEF FlowInv, Runs
<1> QED BY <1>1, <1>2, <1>3, <1>4

LEMMA FlowInitVtp ==
    ASSUME FlowInv, InitVtp
    PROVE  /\ FlowInv' /\ ~Idle /\ Handler = "prestart" /\ Now = 0
           /\ \/ Onward /\ fwType' /\ v7Done
              \/ Return /\ fwType' = fwType
<1>1. ~Idle /\ At("init")
  BY DEF InitVtp, At, Idle, Empty
<1>2. Handler = "prestart" /\ Now = 0
  BY <1>1, Place
<1>3. dev = "mapped" /\ coda = "downloaded" /\ to = "prestarted"
  BY <1>1, <1>2, Mapped
<1>4. CASE Advance /\ v7Done /\ fwType' = TRUE
  <2>1. (Onward \/ (Return /\ \A c \in CallsOf(Handler) : Time[c] <= Now))
        /\ dev' = dev /\ sync' = sync
        /\ (Idle' \/ (to' # "booted" /\ Covers(prog', CallsOf(Handler)', Now', Forever)))
    BY <1>1, <1>4, Proceed
  <2>2. Onward
    <3>1. list \in Lists
      BY DEF FlowInv
    <3>2. Call("file", 0) \in CallsOf("prestart") /\ Time[Call("file", 0)] = 1
      BY <3>1, PrestartMade, Times
    <3> QED BY <1>2, <2>1, <3>2
  <2>3. Handler' = Handler /\ coda' = coda /\ to' = to /\ list' = list /\ ~Idle'
    BY <2>2 DEF Onward, Handler
  <2>4. FlowInv'
    BY <1>2, <1>3, <2>1, <2>3 DEF FlowInv, Runs
  <2> QED BY <1>1, <1>2, <1>4, <2>2, <2>4
<1>5. CASE Abandon /\ fwType' = fwType
  <2>1. Return /\ dev' = dev /\ sync' = sync
    BY <1>1, <1>5 DEF Abandon, Return, Idle, Empty
  <2>2. FlowInv'
    BY <1>3, <2>1 DEF FlowInv, Runs, Return
  <2> QED BY <1>1, <1>2, <1>5, <2>1, <2>2
<1> QED BY <1>4, <1>5 DEF InitVtp

LEMMA FlowReadFile ==
    ASSUME FlowInv, ReadFile
    PROVE  /\ FlowInv' /\ ~Idle /\ Handler = "prestart" /\ Now = 1 /\ Handler' = "prestart" /\ ~Idle'
           /\ fwType' = fwType /\ list' = list /\ coda' = coda
           /\ \/ Onward /\ Now' = 2
              \/ Now' = 10 /\ UNCHANGED <<ebVars, buf>>
<1>1. ~Idle /\ At("file")
  BY DEF ReadFile, At, Idle, Empty
<1>2. Handler = "prestart" /\ Now = 1
  BY <1>1, Place
<1>3. dev = "mapped" /\ coda = "downloaded" /\ to = "prestarted" /\ list \in Lists
  BY <1>1, <1>2, Mapped DEF FlowInv
<1>4. CASE Advance /\ fwType' = fwType
  <2>1. Onward \/ (Return /\ \A c \in CallsOf(Handler) : Time[c] <= Now)
    BY <1>1, <1>4, Proceed
  <2>2. Call("address", 0) \in CallsOf("prestart") /\ Time[Call("address", 0)] = 2
    BY <1>3, PrestartMade, Times
  <2>3. Onward
    BY <1>2, <2>1, <2>2
  <2>4. Now' = 2
    <3>1. Now < Now' /\ Now' \in 0 .. 110 /\ ~ (2 < Now')
      BY <1>2, <2>2, <2>3 DEF Onward
    <3> QED BY <1>2, <3>1
  <2>5. FlowInv'
    BY <1>1, <1>3, <1>4, FlowAdvance
  <2>6. Handler' = Handler
    BY <2>3 DEF Onward, Handler
  <2> QED BY <1>1, <1>2, <1>4, <2>3, <2>4, <2>5, <2>6 DEF Onward
<1>5. CASE UNCHANGED <<ebVars, buf>> /\ prog' = Tail(Tail(prog)) /\ UNCHANGED <<list, coda, to, dev, sync>>
  <2>1. /\ ~Idle' /\ Handler' = "prestart" /\ Now' = 10 /\ Covers(prog', CallsOf(Handler)', Now', Forever)
        /\ fwType' = fwType /\ list' = list /\ coda' = coda /\ to' = to /\ dev' = dev /\ sync' = sync
    BY <1>1, <1>5, Skip DEF ebVars, chipVars
  <2>2. FlowInv'
    BY <1>3, <2>1 DEF FlowInv, Runs
  <2> QED BY <1>1, <1>2, <1>5, <2>1, <2>2
<1>6. ASSUME NEW f \in Files, SetEbCfg(f.mask, f.n, [p \in Payload |-> ppPort[p] + 1]) PROVE fwType' = fwType
  BY <1>6 DEF SetEbCfg, Checked, IfV7, ebVars, chipVars
<1> QED BY <1>4, <1>5, <1>6 DEF ReadFile

-----------------------------------------------------------------------------
(* Types and routes *)

LEMMA PortsOf ==
    ASSUME list \in Lists
    PROVE  /\ DOMAIN Ports \subseteq Payload /\ Ports = [p \in DOMAIN Ports |-> Ports[p]]
           /\ \A p \in DOMAIN Ports : Ports[p] \in 1 .. 4 /\ Ports[p] - 1 \in Stream
           /\ {Ports[p] - 1 : p \in DOMAIN Ports} = Stream
<1>1. 1 .. 15 \subseteq Payload
  BY NumPayloadAssumption, ListsHardware DEF Payload
<1>2. list \in {"1tcp", "2tcp", "4tcp", "2udp", "4udp"}
  BY ListsAssumption
<1>3. CASE list = "1tcp"
  <2>1. Ports = [p \in {6, 8} |-> 1] /\ Stream = 0 .. 0
    BY <1>3 DEF Ports, Ports1tcp, Stream, Connections
  <2>2. 0 .. 0 = {0} /\ 1 - 1 = 0
    OBVIOUS
  <2> QED BY <1>1, <2>1, <2>2
<1>4. CASE list \in {"2tcp", "2udp"}
  <2>1. /\ Ports = [p \in {2, 4, 5, 7, 10, 12, 13, 15} |-> IF p \in {2, 4, 5, 7} THEN 1 ELSE 2]
        /\ Stream = 0 .. 1
    BY <1>4 DEF Ports, Ports2, Stream, Connections
  <2>2. 0 .. 1 = {0, 1} /\ 1 - 1 = 0 /\ 2 - 1 = 1
    OBVIOUS
  <2>3. DOMAIN Ports = {2, 4, 5, 7, 10, 12, 13, 15} /\ DOMAIN Ports \subseteq 1 .. 15
    BY <2>1
  <2>4. \A p \in DOMAIN Ports : Ports[p] = IF p \in {2, 4, 5, 7} THEN 1 ELSE 2
    BY <2>1
  <2>5. Ports[2] = 1 /\ Ports[10] = 2
    BY <2>3, <2>4
  <2>6. \A p \in DOMAIN Ports : Ports[p] \in 1 .. 4 /\ Ports[p] - 1 \in Stream
    BY <2>1, <2>2, <2>4
  <2>7. 0 \in {Ports[p] - 1 : p \in DOMAIN Ports} /\ 1 \in {Ports[p] - 1 : p \in DOMAIN Ports}
    BY <2>2, <2>3, <2>5
  <2>8. {Ports[p] - 1 : p \in DOMAIN Ports} = Stream
    BY <2>1, <2>2, <2>6, <2>7
  <2> QED BY <1>1, <2>1, <2>3, <2>6, <2>8
<1>5. CASE list \in {"4tcp", "4udp"}
  <2>1. /\ Ports = [p \in {2, 4, 5, 7, 10, 12, 13, 15} |->
                       CASE p \in {2, 4} -> 1 [] p \in {5, 7} -> 2 [] p \in {10, 12} -> 3 [] OTHER -> 4]
        /\ Stream = 0 .. 3
    BY <1>5 DEF Ports, Ports4, Stream, Connections
  <2>2. 0 .. 3 = {0, 1, 2, 3} /\ 1 - 1 = 0 /\ 2 - 1 = 1 /\ 3 - 1 = 2 /\ 4 - 1 = 3
    OBVIOUS
  <2>3. DOMAIN Ports = {2, 4, 5, 7, 10, 12, 13, 15} /\ DOMAIN Ports \subseteq 1 .. 15
    BY <2>1
  <2>4. \A p \in DOMAIN Ports : /\ p \in {2, 4} => Ports[p] = 1
                                /\ p \in {5, 7} => Ports[p] = 2
                                /\ p \in {10, 12} => Ports[p] = 3
                                /\ p \in {13, 15} => Ports[p] = 4
    BY <2>1
  <2>5. Ports[2] = 1 /\ Ports[5] = 2 /\ Ports[10] = 3 /\ Ports[13] = 4
    BY <2>3, <2>4
  <2>6. \A p \in DOMAIN Ports : Ports[p] \in 1 .. 4 /\ Ports[p] - 1 \in Stream
    BY <2>1, <2>2, <2>3, <2>4
  <2>7. /\ 0 \in {Ports[p] - 1 : p \in DOMAIN Ports} /\ 1 \in {Ports[p] - 1 : p \in DOMAIN Ports}
        /\ 2 \in {Ports[p] - 1 : p \in DOMAIN Ports} /\ 3 \in {Ports[p] - 1 : p \in DOMAIN Ports}
    BY <2>2, <2>3, <2>5
  <2>8. {Ports[p] - 1 : p \in DOMAIN Ports} = Stream
    BY <2>1, <2>2, <2>6, <2>7
  <2> QED BY <1>1, <2>1, <2>3, <2>6, <2>8
<1> QED BY <1>2, <1>3, <1>4, <1>5

LEMMA ConfiguredIs ==
    ASSUME list \in Lists, ppInfo = <<>> \/ ppInfo = Ports
    PROVE  Configured = Ports
<1>1. Ports = [p \in DOMAIN Ports |-> Ports[p]]
  BY PortsOf
<1>2. DOMAIN ppInfo \subseteq DOMAIN Ports
  OBVIOUS
<1>3. DOMAIN Ports \union DOMAIN ppInfo = DOMAIN Ports
  BY <1>2
<1> QED BY <1>1, <1>3 DEF Configured

LEMMA FileType ==
    ASSUME NEW f \in Files
    PROVE  /\ f.mask \in SUBSET Payload /\ f.n \in Nat
           /\ [ip |-> f.ip, mac |-> f.mac, port |-> 0] \in Address
BY FilesAssumption DEF Address

LEMMA SamePorts == ASSUME list' = list PROVE Ports' = Ports /\ Stream' = Stream /\ Told' = Told
BY DEF Ports, Stream, Told, Connections

LEMMA TypeInit == Init => ListTypeOK
<1> SUFFICES ASSUME Init PROVE ListTypeOK
  OBVIOUS
<1>1. EbTyped(Type)
  BY EbInitType DEF Init
<1>2. Zero \in Address
  BY DEF Zero, Address, Octet
<1> QED BY <1>1, <1>2 DEF Init, ListTypeOK, AddrTypeOK

\* The event builder's registers, whatever call of a list drives them.
LEMMA EbTypeCalls ==
    ASSUME FlowInv, ListTypeOK, Rol
    PROVE  EbTyped(Type)'
<1> USE DEF ListTypeOK
<1> DEFINE T == Type
<1>1. EbTyped(T) /\ Control \subseteq T /\ Greeting \in T
  BY DEF Type
<1>2. ~Idle => Head(prog) \in CallType
  BY NextCall
<1>3. ~Idle => Arg \in 0 .. 4 /\ Arg \in Nat
  BY <1>2 DEF Arg, CallType
<1> HIDE DEF T
<1>4. CASE LoadZ7
  BY <1>1, <1>4, Z7CfgLoadType DEF LoadZ7, T
<1>5. CASE LoadV7
  BY <1>1, <1>5, V7CfgLoadType DEF LoadV7, T
<1>6. CASE LoadUnmapped
  BY <1>1, <1>6 DEF LoadUnmapped, EbTyped, ctrlVars, netVars, dataVars, histVars, T
<1>7. CASE InitVtp
  BY <1>1, <1>7 DEF InitVtp, EbTyped, ctrlVars, netVars, dataVars, histVars, T
<1>8. CASE ReadFile
  <2>1. CASE UNCHANGED ebVars
    BY <1>1, <2>1, EbUnchangedType DEF T
  <2>2. ASSUME NEW f \in Files, SetEbCfg(f.mask, f.n, [p \in Payload |-> ppPort[p] + 1])
        PROVE  EbTyped(T)'
    <3> DEFINE s == [p \in Payload |-> ppPort[p] + 1]
    <3>1. f.mask \in SUBSET Payload /\ f.n \in Nat
      BY FileType
    <3>2. \A p \in f.mask : s[p] \in 1 .. NumInst
      <4>1. ppPort \in [Payload -> 0 .. NumInst - 1]
        BY <1>1 DEF EbTyped, Inst
      <4> QED BY <3>1, <4>1, NumInstAssumption
    <3> HIDE DEF s
    <3>3. SetEbCfg(f.mask, f.n, s)
      BY <2>2 DEF s
    <3> QED BY <1>1, <3>1, <3>2, <3>3, SetEbCfgType
  <2> QED BY <1>8, <2>1, <2>2 DEF ReadFile, T
<1>9. CASE SetAddress
  BY <1>1, <1>9, SetNetCfgType DEF SetAddress, T
<1>10. CASE SetPayloads
  <2>1. list \in Lists /\ ppInfo' = Ports
    BY <1>10, ConfiguredIs DEF FlowInv, AddrTypeOK, SetPayloads
  <2>2. DOMAIN Ports \in SUBSET Payload /\ \A p \in DOMAIN Ports : Ports[p] \in 1 .. NumInst
    <3>1. 1 .. 4 \subseteq 1 .. NumInst
      BY NumInstAssumption, ListsHardware
    <3> QED BY <2>1, <3>1, PortsOf
  <2>3. ~Idle
    BY <1>10 DEF SetPayloads, At, Idle, Empty
  <2>4. SetEbCfg(DOMAIN Ports, Arg, Ports)
    BY <1>10, <2>1 DEF SetPayloads
  <2>5. PICK n \in Nat : SetEbCfg(DOMAIN Ports, n, Ports)
    BY <1>3, <2>3, <2>4
  <2> QED BY <1>1, <2>2, <2>5, SetEbCfgType DEF T
<1>11. CASE EnableAsync
  BY <1>1, <1>11, EbEnableType DEF EnableAsync, T, Enable
<1>12. CASE ResetLinks
  <2>1. Udp \in BOOLEAN
    BY DEF Udp
  <2>2. PICK u \in BOOLEAN : ResetDataPath(u)
    BY <1>12, <2>1 DEF ResetLinks
  <2> QED BY <1>1, <2>2, ResetDataPathType DEF T
<1>13. CASE GetBase \/ NextAddress \/ NextPort \/ WaitForData \/ WaitForEvents
  BY <1>1, <1>13, EbUnchangedType DEF GetBase, NextAddress, NextPort, WaitForData, WaitForEvents, T
<1>14. CASE SetClient
  <2>1. ~Idle /\ SetNetCfg(Arg)
    BY <1>14 DEF SetClient, At, Idle, Empty
  <2> QED BY <1>1, <1>3, <2>1, SetNetCfgType DEF T
<1>15. CASE ConnectStream
  <2>1. ~Idle /\ \E up \in BOOLEAN : TcpConnect(Arg, up)
    BY <1>15 DEF ConnectStream, At, Idle, Empty
  <2> QED BY <1>1, <1>3, <2>1, TcpConnectType DEF T
<1>16. CASE SendGreeting
  <2> DEFINE e == [inst |-> netPort, type |-> Greeting, cmsg |-> FALSE]
  <2>1. e \in EventOf(T)
    BY <1>1 DEF EventOf, EbTyped
  <2>2. asyncFifo' = (IF ~v7Done \/ ebReset THEN asyncFifo ELSE Append(asyncFifo, e))
        /\ UNCHANGED <<chipVars, ctrlVars, netVars, delivered, dataVars, histVars>>
    BY <1>16 DEF SendGreeting
  <2> HIDE DEF e
  <2>3. asyncFifo' \in Seq(EventOf(T))
    BY <1>1, <2>1, <2>2 DEF EbTyped
  <2> QED BY <1>1, <2>2, <2>3 DEF EbTyped, chipVars, ctrlVars, netVars, dataVars, histVars, T
<1>17. CASE WriteEvent
  <2>1. ~Idle
    BY <1>17 DEF WriteEvent, At, Idle, Empty
  <2>2. PICK type \in Control : EvioWriteControl(Arg, type, IF type = "END" THEN FramesSent(Arg) ELSE 0)
                                /\ At(type)
    BY <1>17 DEF WriteEvent
  <2>3. type = "END" => Arg \in Inst
    <3>1. CASE type = "END"
      <4>1. Arg \in Told /\ list \in Lists
        BY <2>1, <2>2, <3>1, Place DEF FlowInv
      <4> QED BY <4>1, Lengths
    <3> QED BY <3>1
  <2>4. (IF type = "END" THEN FramesSent(Arg) ELSE 0) \in Nat
    BY <1>1, <2>3, FramesSentType
  <2>5. PICK n \in Nat : EvioWriteControl(Arg, type, n)
    BY <2>2, <2>4
  <2> QED BY <1>1, <1>3, <2>1, <2>5, EvioWriteControlType DEF T
<1>18. CASE EnablePayloads
  BY <1>1, <1>18, EbEnableType DEF EnablePayloads, T, Enable
<1>19. CASE ResetEb
  BY <1>1, <1>19, EbDisableType DEF ResetEb, T
<1>20. CASE CloseStream
  <2>1. ~Idle /\ TcpDisconnect(Arg)
    BY <1>20 DEF CloseStream, At, Idle, Empty
  <2> QED BY <1>1, <1>3, <2>1, TcpDisconnectType DEF T
<1> QED BY <1>4, <1>5, <1>6, <1>7, <1>8, <1>9, <1>10, <1>11, <1>12, <1>13, <1>14, <1>15, <1>16, <1>17,
           <1>18, <1>19, <1>20 DEF Rol

LEMMA AddrTypeKept ==
    ASSUME AddrTypeOK, list' = list, UNCHANGED <<late, client, buf, ppInfo>> PROVE AddrTypeOK'
BY SamePorts DEF AddrTypeOK

\* The addresses: bytes, counted up modulo 256.
LEMMA AddrTypeCalls ==
    ASSUME FlowInv, ListTypeOK, Rol
    PROVE  AddrTypeOK'
<1>1. /\ late \in SUBSET Inst /\ client \in [Inst -> Address] /\ buf \in Address
      /\ ppInfo = <<>> \/ ppInfo = Ports
      /\ list \in Lists
  BY DEF ListTypeOK, AddrTypeOK, FlowInv
<1>2. Zero \in Address
  BY DEF Zero, Address, Octet
<1>3. 0 \in Inst
  BY ZeroInst
<1>4. CASE LoadZ7
  <2>1. client' \in [Inst -> Address]
    BY <1>1, <1>2, <1>4 DEF LoadZ7
  <2>2. UNCHANGED <<late, buf, ppInfo, list>>
    BY <1>4 DEF LoadZ7, Advance
  <2> QED BY <1>1, <2>1, <2>2, SamePorts DEF AddrTypeOK
<1>5. CASE LoadUnmapped
  BY <1>1, <1>5, SamePorts DEF LoadUnmapped, AddrTypeOK
<1>6. CASE ReadFile
  <2>1. UNCHANGED <<late, client, ppInfo, list>>
    BY <1>6 DEF ReadFile, Advance
  <2>2. buf' \in Address
    BY <1>1, <1>6, FileType DEF ReadFile
  <2> QED BY <1>1, <2>1, <2>2, SamePorts DEF AddrTypeOK
<1>7. CASE SetAddress
  <2>1. client' = [client EXCEPT ![0] = buf] /\ UNCHANGED <<late, buf, ppInfo, list>>
    BY <1>7 DEF SetAddress, Advance
  <2> QED BY <1>1, <2>1, SamePorts DEF AddrTypeOK
<1>8. CASE SetPayloads
  <2>1. ppInfo' = Ports /\ late' = {} /\ UNCHANGED <<client, buf, list>>
    BY <1>1, <1>8, ConfiguredIs DEF SetPayloads, Advance
  <2> QED BY <1>1, <2>1, SamePorts DEF AddrTypeOK
<1>9. CASE GetBase
  <2>1. buf' = [client[0] EXCEPT !.port = 0] /\ UNCHANGED <<late, client, ppInfo, list>>
    BY <1>9 DEF GetBase, Advance
  <2>2. client[0] \in Address
    BY <1>1, <1>3
  <2>3. buf' \in Address
    BY <2>1, <2>2 DEF Address
  <2> QED BY <1>1, <2>1, <2>3, SamePorts DEF AddrTypeOK
<1>10. CASE NextAddress
  <2>1. buf' = [buf EXCEPT !.ip = (@ + 1) % 256, !.mac = (@ + 1) % 256]
        /\ UNCHANGED <<late, client, ppInfo, list>>
    BY <1>10 DEF NextAddress, Advance
  <2>2. buf.ip \in 0 .. 255 /\ buf.mac \in 0 .. 255 /\ buf.port \in Nat
    BY <1>1 DEF Address, Octet
  <2>3. (buf.ip + 1) % 256 \in 0 .. 255 /\ (buf.mac + 1) % 256 \in 0 .. 255
    BY <2>2
  <2>4. buf' \in Address
    <3>1. buf' = [ip |-> (buf.ip + 1) % 256, mac |-> (buf.mac + 1) % 256, port |-> buf.port]
      BY <1>1, <2>1 DEF Address
    <3> QED BY <2>2, <2>3, <3>1 DEF Address, Octet
  <2> QED BY <1>1, <2>1, <2>4, SamePorts DEF AddrTypeOK
<1>11. CASE NextPort
  <2>1. buf' = [buf EXCEPT !.port = @ + 1] /\ UNCHANGED <<late, client, ppInfo, list>>
    BY <1>11 DEF NextPort, Advance
  <2>2. buf' \in Address
    BY <1>1, <2>1 DEF Address
  <2> QED BY <1>1, <2>1, <2>2, SamePorts DEF AddrTypeOK
<1>12. CASE SetClient
  <2>1. client' = [client EXCEPT ![Arg] = buf] /\ UNCHANGED <<late, buf, ppInfo, list>>
    BY <1>12 DEF SetClient, Advance
  <2> QED BY <1>1, <2>1, SamePorts DEF AddrTypeOK
<1>13. CASE ConnectStream
  <2>1. UNCHANGED <<client, buf, ppInfo, list>> /\ ~Idle /\ At("connect")
    BY <1>13 DEF ConnectStream, Advance, Idle, At, Empty
  <2>2. Arg \in Inst
    BY <1>1, <2>1, Place, Lengths
  <2>3. late' \in SUBSET Inst
    BY <1>1, <1>13, <2>2 DEF ConnectStream
  <2> QED BY <1>1, <2>1, <2>3, SamePorts DEF AddrTypeOK
<1>14. CASE LoadV7 \/ EnableAsync \/ ResetLinks \/ SendGreeting \/ WriteEvent \/ EnablePayloads
            \/ WaitForData \/ WaitForEvents \/ ResetEb \/ CloseStream
  <2>1. list' = list /\ UNCHANGED <<late, client, buf, ppInfo>>
    BY <1>14 DEF LoadV7, EnableAsync, ResetLinks, SendGreeting, WriteEvent, EnablePayloads,
                 WaitForData, WaitForEvents, ResetEb, CloseStream, Advance
  <2> QED BY <2>1, AddrTypeKept DEF ListTypeOK
<1>15. CASE InitVtp
  <2>1. list' = list /\ UNCHANGED <<late, client, buf, ppInfo>>
    BY <1>15 DEF InitVtp, Advance, Abandon
  <2> QED BY <2>1, AddrTypeKept DEF ListTypeOK
<1> QED BY <1>4, <1>5, <1>6, <1>7, <1>8, <1>9, <1>10, <1>11, <1>12, <1>13, <1>14, <1>15 DEF Rol

LEMMA HardwareType == ASSUME EbTyped(Type), Hardware PROVE EbTyped(Type)'
<1>1. CASE SendAsync
  BY <1>1, SendAsyncType
<1>2. ASSUME NEW i \in Inst, BuildFrame(i, sync) PROVE EbTyped(Type)'
  BY <1>2 DEF EbTyped, BuildFrame, chipVars, ctrlVars, netVars, histVars
<1>3. ASSUME NEW i \in Inst, SendFrame(i) PROVE EbTyped(Type)'
  BY <1>3, FrameMovesType
<1>4. ASSUME NEW i \in Inst, LateConnect(i) PROVE EbTyped(Type)'
  BY <1>4, LinkMovesType
<1> QED BY <1>1, <1>2, <1>3, <1>4 DEF Hardware

\* Every step keeps the flow of the handlers,
LEMMA FlowNext == ASSUME FlowInv, Next \/ UNCHANGED vars PROVE FlowInv'
<1>1. CASE Download \/ Prestart \/ Go \/ End
  BY <1>1, FlowCommands
<1>2. CASE Pause \/ Reset
  BY <1>2, FlowIdle
<1>3. CASE Plain
  BY <1>3, PlainCalls, FlowAdvance
<1>4. CASE LoadUnmapped \/ InitVtp \/ ReadFile
  BY <1>4, FlowUnmapped, FlowInitVtp, FlowReadFile
<1>5. CASE HoldSync \/ ReleaseSync \/ Hardware \/ UNCHANGED vars
  BY <1>5, FlowOthers
<1> QED BY <1>1, <1>2, <1>3, <1>4, <1>5 DEF Next, Rol, Plain

\* and the types.
LEMMA TypeNext == ASSUME FlowInv, ListTypeOK, Next \/ UNCHANGED vars PROVE ListTypeOK'
<1>1. CASE Rol
  BY <1>1, EbTypeCalls, AddrTypeCalls DEF ListTypeOK
<1>2. CASE Hardware
  <2>1. list' = list /\ UNCHANGED <<late, client, buf, ppInfo>>
    BY <1>2 DEF Hardware, rolVars
  <2> QED BY <1>2, <2>1, HardwareType, AddrTypeKept DEF ListTypeOK
<1>3. CASE Download
  <2>1. UNCHANGED <<ebVars, list, client, buf, late>> /\ ppInfo' = <<>>
    BY <1>3 DEF Download, Command
  <2> QED BY <2>1, EbUnchangedType DEF ListTypeOK, AddrTypeOK
<1>4. CASE Prestart \/ Go \/ End \/ Pause \/ Reset \/ HoldSync \/ ReleaseSync \/ UNCHANGED vars
  <2>1. UNCHANGED ebVars /\ list' = list /\ UNCHANGED <<late, client, buf, ppInfo>>
    BY <1>4 DEF Prestart, Go, End, Pause, Reset, HoldSync, ReleaseSync, Command, vars, rolVars
  <2> QED BY <2>1, EbUnchangedType, AddrTypeKept DEF ListTypeOK
<1> QED BY <1>1, <1>2, <1>3, <1>4 DEF Next

\* In every behaviour the list's own state has its types.
THEOREM TypeOKCorrect == Spec => []TypeOK
<1> DEFINE I == FlowInv /\ ListTypeOK
<1>1. Init => I
  BY FlowInit, TypeInit
<1>2. I /\ [Next]_vars => I'
  BY FlowNext, TypeNext
<1>3. I => TypeOK
  BY DEF FlowInv, ListTypeOK, AddrTypeOK, EbTyped, Type, TypeOK
<1> QED BY <1>1, <1>2, <1>3, PTL DEF Spec

-----------------------------------------------------------------------------
(* What frames are built from, and when *)

\* A step that gives the event builder nothing more to build and to send.
Calm ==
    /\ UNCHANGED <<v7Done, fwType, ppPort, posted>>
    /\ ebMask' = ebMask \/ ebMask' = {}
    /\ "PP" \in enables' => "PP" \in enables
    /\ asyncFifo = <<>> => asyncFifo' = <<>> \/ fwType
ConfigInv == ChipInv /\ RouteInv /\ GoInv

LEMMA ConfigInit == Init => ConfigInv
BY DEF Init, EbInit, V7PowerOn, ConfigInv, ChipInv, RouteInv, GoInv, Runs, Idle, Empty

LEMMA ConfigSame ==
    ASSUME FlowInv, ConfigInv, Calm, list' = list,
           coda' # "booted" => coda # "booted",
           \/ Stay
           \/ Idle'
           \/ ~Idle' /\ Now' = 0,
           Runs("prestart") => Stay \/ Now > 10 \/ Now < 2
    PROVE  ConfigInv'
<1>1. ebMask' = ebMask => Routed' = Routed
  BY SamePorts DEF Routed, Calm
<1>2. CASE Stay
  <2>1. Runs("prestart")' = Runs("prestart") /\ Runs("go")' = Runs("go") /\ Now' = Now /\ Told' = Told
    BY <1>2, StayKeeps, SamePorts DEF Runs
  <2>2. ChipInv'
    BY <2>1 DEF ConfigInv, ChipInv, Calm
  <2>3. RouteInv'
    BY <1>1, <2>1 DEF ConfigInv, RouteInv, Calm
  <2>4. GoInv'
    BY <2>1 DEF ConfigInv, GoInv, Calm
  <2> QED BY <2>2, <2>3, <2>4 DEF ConfigInv
<1>3. CASE ~Stay /\ (Idle' \/ (~Idle' /\ Now' = 0))
  <2>1. ~ (Runs("prestart")' /\ Now' > 0) /\ ~ (Runs("prestart")' /\ Now' > 10)
    BY <1>3 DEF Runs
  <2>2. ~ (Runs("prestart") /\ Now \in 2 .. 10)
    BY <1>3
  <2>3. ChipInv'
    BY <2>1 DEF ConfigInv, ChipInv, Calm
  <2>4. RouteInv'
    BY <1>1, <2>2 DEF ConfigInv, RouteInv, Calm
  <2>5. \A i \in Told : ~ (Runs("go")' /\ Now' > i)
    <3>1. list \in Lists
      BY DEF FlowInv
    <3>2. \A i \in Told : i \in 0 .. 3
      BY <3>1, Lengths
    <3> QED BY <1>3, <3>2 DEF Runs
  <2>6. GoInv'
    BY <2>1, <2>5, SamePorts DEF ConfigInv, GoInv, Calm
  <2> QED BY <2>3, <2>4, <2>6 DEF ConfigInv
<1> QED BY <1>2, <1>3

LEMMA SameHandler ==
    ASSUME Onward
    PROVE  /\ Handler' = Handler /\ ~Idle /\ ~Idle' /\ InRun' = InRun
           /\ \A h \in {"download", "prestart", "go", "end"} :
              (Runs(h)' <=> Runs(h)) /\ (Runs(h) <=> Handler = h)
<1>1. Handler' = Handler /\ ~Idle /\ ~Idle' /\ InRun' = InRun
  BY DEF Onward, Handler, InRun
<1> QED BY <1>1 DEF Runs

LEMMA ConfigOnward ==
    ASSUME FlowInv, ConfigInv, Calm, Onward,
           Handler # "go", Handler = "prestart" => Now > 10 \/ Now = 2
    PROVE  ConfigInv'
<1>1. (ebMask' = ebMask => Routed' = Routed) /\ Told' = Told /\ Stream' = Stream
  BY SamePorts DEF Routed, Calm, Onward
<1>2. /\ Runs("prestart")' <=> Runs("prestart")
      /\ Runs("prestart") <=> Handler = "prestart"
      /\ ~Runs("go")' /\ coda' = coda
  BY SameHandler DEF Onward
<1>3. Now < Now' /\ Now' \in 0 .. 110 /\ \A c \in CallsOf(Handler) : Time[c] < Now' => Time[c] <= Now
  BY DEF Onward
<1>4. Now \in 0 .. 110
  BY SameHandler, NextCall
<1>5. Handler = "prestart" => (Now > 10 /\ Now' > 10) \/ (Now = 2 /\ Now' <= 10 /\ Now' > 2)
  <2>1. CASE Handler = "prestart" /\ Now = 2
    <3>1. list \in Lists
      BY DEF FlowInv
    <3>2. Call("ebcfg", Connections) \in CallsOf("prestart") /\ Time[Call("ebcfg", Connections)] = 10
      <4>1. Connections \in 0 .. 4
        BY <3>1, Lengths
      <4> QED BY <3>1, <4>1, PrestartMade, Times
    <3>3. ~ (10 < Now')
      BY <1>3, <2>1, <3>2
    <3> QED BY <1>3, <2>1, <3>3
  <2>2. CASE Handler = "prestart" /\ Now > 10
    BY <1>3, <1>4, <2>2
  <2> QED BY <2>1, <2>2
<1>6. ChipInv'
  <2>1. Runs("prestart") => Now > 0
    BY <1>2, <1>4, <1>5
  <2> QED BY <1>2, <2>1 DEF ConfigInv, ChipInv, Calm
<1>7. RouteInv'
  <2>1. Runs("prestart") /\ Now \in 2 .. 10 => Runs("prestart")' /\ Now' \in 2 .. 10
    BY <1>2, <1>3, <1>5
  <2> QED BY <1>1, <2>1 DEF ConfigInv, RouteInv, Calm
<1>8. GoInv'
  <2>1. Runs("prestart")' /\ Now' > 10 => Runs("prestart") /\ Now > 10
    BY <1>2, <1>3, <1>5
  <2> QED BY <1>1, <1>2, <2>1 DEF ConfigInv, GoInv, Calm
<1> QED BY <1>6, <1>7, <1>8 DEF ConfigInv

\* The calls in which no port is enabled, routed or told.
LEMMA ConfigQuiet ==
    ASSUME FlowInv, ListTypeOK, ConfigInv,
           \/ SetAddress \/ ResetLinks \/ GetBase \/ NextAddress \/ NextPort \/ SetClient
           \/ ConnectStream \/ SendGreeting \/ WaitForData \/ WaitForEvents \/ LoadZ7
           \/ EnableAsync \/ ResetEb \/ CloseStream
    PROVE  ConfigInv'
<1>1. Plain
  BY DEF Plain
<1>2. ~Idle /\ FlowInv' /\ (Onward \/ Return) /\ (Handler = "download" /\ Return => At("v7"))
  BY <1>1, PlainCalls, FlowAdvance
<1>3. /\ Handler # "go" /\ (Handler = "prestart" => Now > 10 \/ (Now = 2 /\ SetAddress))
      /\ ~At("v7") /\ list' = list
  <2>1. \A i \in Stream : i \in 0 .. 3
    BY Lengths DEF FlowInv
  <2>2. CASE SetAddress \/ ResetLinks \/ GetBase
    <3>1. ((SetAddress /\ At("address")) \/ At("links") \/ At("base")) /\ list' = list
      BY <2>2 DEF SetAddress, ResetLinks, GetBase, Advance
    <3>2. CASE At("address")
      BY <1>2, <2>2, <3>1, <3>2, Place DEF At
    <3>3. CASE At("links") \/ At("base")
      BY <1>2, <3>1, <3>3, Place DEF At
    <3> QED BY <3>1, <3>2, <3>3
  <2>3. CASE NextAddress \/ NextPort
    <3>1. (At("next") \/ At("port")) /\ list' = list
      BY <2>3 DEF NextAddress, NextPort, Advance
    <3> QED BY <1>2, <2>1, <3>1, Place DEF At
  <2>4. CASE SetClient \/ ConnectStream \/ SendGreeting
    <3>1. (At("net") \/ At("connect") \/ At("greet")) /\ list' = list
      BY <2>4 DEF SetClient, ConnectStream, SendGreeting, Advance
    <3> QED BY <1>2, <2>1, <3>1, Place DEF At
  <2>5. CASE WaitForData \/ WaitForEvents \/ LoadZ7
    <3>1. (At("wait") \/ At("flush") \/ At("z7")) /\ list' = list
      BY <2>5 DEF WaitForData, WaitForEvents, LoadZ7, Advance
    <3> QED BY <1>2, <3>1, Place DEF At
  <2>6. CASE EnableAsync \/ ResetEb \/ CloseStream
    <3>1. (At("async") \/ At("ebreset") \/ At("close")) /\ list' = list
      BY <2>6 DEF EnableAsync, ResetEb, CloseStream, Advance
    <3> QED BY <1>2, <3>1, Place DEF At
  <2> QED BY <2>2, <2>3, <2>4, <2>5, <2>6
<1>4. Calm
  <2>1. CASE SetAddress
    BY <2>1 DEF SetAddress, SetNetCfg, Calm, ebVars, chipVars, ctrlVars, histVars
  <2>2. CASE ResetLinks
    BY <2>2 DEF ResetLinks, ResetDataPath, IfV7, Calm, ebVars, chipVars, ctrlVars, histVars
  <2>3. CASE GetBase \/ NextAddress \/ NextPort \/ WaitForData \/ WaitForEvents
    BY <2>3 DEF GetBase, NextAddress, NextPort, WaitForData, WaitForEvents, Calm, ebVars, chipVars,
                ctrlVars, histVars
  <2>4. CASE SetClient
    BY <2>4 DEF SetClient, SetNetCfg, Calm, ebVars, chipVars, ctrlVars, histVars
  <2>5. CASE ConnectStream
    BY <2>5 DEF ConnectStream, TcpConnect, Calm, ebVars, chipVars, ctrlVars, histVars
  <2>6. CASE SendGreeting
    <3>1. At("greet")
      BY <2>6 DEF SendGreeting
    <3>2. Handler = "prestart" /\ Now > 0
      <4>1. Handler = "prestart" /\ Arg \in Stream /\ Now = 34 + 10 * Arg
        BY <1>2, <3>1, Place
      <4>2. \A i \in Stream : i \in 0 .. 3
        BY Lengths DEF FlowInv
      <4> QED BY <4>1, <4>2
    <3>3. fwType
      BY <1>2, <3>2 DEF ConfigInv, ChipInv, Runs
    <3> QED BY <2>6, <3>3 DEF SendGreeting, Calm, chipVars, ctrlVars, histVars
  <2>7. CASE LoadZ7
    BY <2>7 DEF LoadZ7, Z7CfgLoad, Calm, ebVars, chipVars, ctrlVars, histVars
  <2>8. CASE EnableAsync
    BY <2>8 DEF EnableAsync, EbEnable, IfV7, Calm, ebVars, chipVars, ctrlVars, histVars
  <2>9. CASE ResetEb
    BY <2>9 DEF ResetEb, EbDisable, IfV7, Calm, ebVars, chipVars, ctrlVars, histVars
  <2>10. CASE CloseStream
    BY <2>10 DEF CloseStream, TcpDisconnect, Calm, ebVars, chipVars, ctrlVars, histVars
  <2> QED BY <2>1, <2>2, <2>3, <2>4, <2>5, <2>6, <2>7, <2>8, <2>9, <2>10
<1>5. CASE Onward
  BY <1>3, <1>4, <1>5, ConfigOnward
<1>6. CASE Return
  <2>1. Idle' /\ coda # "booted"
    BY <1>2, <1>3, <1>6, Mapped DEF Return
  <2>2. Runs("prestart") => Now > 10
    <3>1. ASSUME Handler = "prestart", Now = 2 PROVE FALSE
      <4>1. Advance
        BY <1>1, PlainCalls
      <4>2. \A c \in CallsOf("prestart") : Time[c] <= 2
        BY <1>2, <1>6, <3>1, <4>1, Proceed DEF Onward, Return
      <4>3. Call("links", 0) \in CallsOf("prestart") /\ Time[Call("links", 0)] = 21
        BY PrestartMade, Times DEF FlowInv
      <4> QED BY <4>2, <4>3
    <3> QED BY <1>3, <3>1 DEF Runs
  <2> QED BY <1>3, <1>4, <2>1, <2>2, ConfigSame
<1> QED BY <1>2, <1>5, <1>6

LEMMA ConfigLoad ==
    ASSUME FlowInv, ConfigInv, LoadV7 \/ LoadUnmapped PROVE ConfigInv'
<1>1. CASE LoadV7
  <2>1. ~Idle /\ Advance /\ At("v7") /\ dev = "mapped" /\ fwType' = fwType
    BY <1>1 DEF LoadV7, At, Idle, Empty, V7CfgLoad
  <2>2. Handler = "download" /\ (Onward \/ Return) /\ list' = list
    BY <2>1, Place, FlowAdvance DEF Advance
  <2>3. ~Runs("prestart")' /\ ~Runs("go")'
    BY <2>2, SameHandler DEF Return, Runs
  <2>4. /\ ebMask' = {} /\ enables' = {} /\ asyncFifo' = <<>>
        /\ posted' = [i \in Inst |-> "NONE"]
    BY <1>1 DEF LoadV7, V7CfgLoad
  <2>5. ChipInv'
    BY <2>3, <2>4 DEF ChipInv
  <2>6. RouteInv' /\ GoInv'
    BY <2>3, <2>4 DEF RouteInv, GoInv
  <2> QED BY <2>5, <2>6 DEF ConfigInv
<1>2. CASE LoadUnmapped
  <2>1. Idle' /\ coda' = "booted" /\ list' = list /\ ~Idle /\ Handler = "download"
    BY <1>2, FlowUnmapped
  <2>2. UNCHANGED <<v7Done, ebMask, enables, ppPort, posted, asyncFifo>>
    BY <1>2 DEF LoadUnmapped, ctrlVars, histVars
  <2>3. ~Runs("prestart")' /\ ~Runs("go")' /\ ~Runs("prestart")
    BY <2>1 DEF Runs
  <2>4. Routed' = Routed /\ Told' = Told
    BY <2>1, <2>2, SamePorts DEF Routed
  <2>5. ChipInv'
    BY <2>1, <2>3 DEF ChipInv
  <2>6. RouteInv' /\ GoInv'
    BY <2>2, <2>3, <2>4 DEF ConfigInv, RouteInv, GoInv
  <2> QED BY <2>5, <2>6 DEF ConfigInv
<1> QED BY <1>1, <1>2

LEMMA ConfigInitVtp ==
    ASSUME FlowInv, ConfigInv, InitVtp PROVE ConfigInv'
<1>1. /\ ~Idle /\ Handler = "prestart" /\ Now = 0
      /\ \/ Onward /\ fwType' /\ v7Done
         \/ Return /\ fwType' = fwType
  BY FlowInitVtp
<1>2. UNCHANGED <<v7Done, ebMask, enables, ppPort, posted, asyncFifo>>
  BY DEF InitVtp, ctrlVars, histVars
<1>3. CASE Onward /\ fwType' /\ v7Done
  <2>1. /\ Runs("prestart")' /\ ~Runs("go")' /\ list' = list /\ Now' \in 0 .. 110 /\ v7Done'
    BY <1>1, <1>2, <1>3, SameHandler DEF Onward
  <2>2. Now' <= 1
    <3>1. Call("file", 0) \in CallsOf("prestart") /\ Time[Call("file", 0)] = 1
      BY PrestartMade, Times DEF FlowInv
    <3>2. ~ (1 < Now')
      BY <1>1, <1>3, <3>1 DEF Onward
    <3> QED BY <2>1, <3>2
  <2>3. Routed' = Routed /\ Told' = Told
    BY <1>2, <2>1, SamePorts DEF Routed
  <2>4. ~ (Now' > 10) /\ ~ (Now \in 2 .. 10)
    BY <1>1, <2>1, <2>2
  <2>5. ChipInv'
    BY <1>3, <2>1 DEF ChipInv
  <2>6. RouteInv' /\ GoInv'
    BY <1>2, <2>1, <2>3, <2>4 DEF ConfigInv, RouteInv, GoInv
  <2> QED BY <2>5, <2>6 DEF ConfigInv
<1>4. CASE Return /\ fwType' = fwType
  <2>1. Calm /\ list' = list /\ Idle' /\ coda # "booted"
    BY <1>1, <1>2, <1>4, Mapped DEF Calm, Return
  <2> QED BY <1>1, <2>1, ConfigSame
<1> QED BY <1>1, <1>3, <1>4

\* Two configurations of the payload ports: the user's file, then the list's own.
LEMMA ConfigReadFile ==
    ASSUME FlowInv, ConfigInv, ReadFile PROVE ConfigInv'
<1>1. /\ ~Idle /\ Handler = "prestart" /\ Now = 1 /\ Handler' = "prestart" /\ ~Idle'
      /\ fwType' = fwType /\ list' = list /\ coda' = coda
      /\ \/ Now' = 2
         \/ Now' = 10 /\ UNCHANGED <<ebVars, buf>>
  BY FlowReadFile
<1>2. fwType /\ v7Done
  BY <1>1 DEF ConfigInv, ChipInv, Runs
<1>3. Runs("prestart")' /\ ~Runs("go")' /\ ~ (Now' > 10) /\ ~ (Now \in 2 .. 10) /\ Now' \in 2 .. 10
  BY <1>1 DEF Runs
<1>4. CASE UNCHANGED ebVars
  <2>1. UNCHANGED <<v7Done, fwType, ebMask, enables, ppPort, posted, asyncFifo>>
    BY <1>4 DEF ebVars, chipVars, ctrlVars, histVars
  <2>2. Routed' = Routed /\ Told' = Told
    BY <1>1, <2>1, SamePorts DEF Routed
  <2>3. ChipInv'
    BY <1>1, <1>2, <2>1 DEF ConfigInv, ChipInv
  <2>4. RouteInv' /\ GoInv'
    BY <1>3, <2>1, <2>2 DEF ConfigInv, RouteInv, GoInv
  <2> QED BY <2>3, <2>4 DEF ConfigInv
<1>5. ASSUME NEW f \in Files, SetEbCfg(f.mask, f.n, [p \in Payload |-> ppPort[p] + 1])
      PROVE  ConfigInv'
  <2>1. v7Done' = v7Done /\ enables' = {"CMSG"}
    BY <1>2, <1>5 DEF SetEbCfg, Checked, IfV7, chipVars
  <2>2. ChipInv'
    BY <1>1, <1>2, <2>1 DEF ChipInv
  <2>3. RouteInv' /\ GoInv'
    BY <1>3, <2>1 DEF RouteInv, GoInv
  <2> QED BY <2>2, <2>3 DEF ConfigInv
<1> QED BY <1>4, <1>5 DEF ReadFile

LEMMA ConfigPayloads ==
    ASSUME FlowInv, ListTypeOK, ConfigInv, SetPayloads PROVE ConfigInv'
<1>1. ~Idle /\ Advance /\ At("ebcfg") /\ dev = "mapped" /\ fwType' = fwType
  BY PlainCalls, Mapped, Place DEF Plain, SetPayloads
<1>2. Handler = "prestart" /\ Now = 10 /\ (Onward \/ Return) /\ list' = list /\ list \in Lists
  BY <1>1, Place, FlowAdvance DEF Advance, FlowInv
<1>3. fwType /\ v7Done
  BY <1>1, <1>2 DEF ConfigInv, ChipInv, Runs
<1>4. ppInfo' = Ports
  BY <1>2, ConfiguredIs DEF SetPayloads, ListTypeOK, AddrTypeOK
<1>5. /\ ebMask' = DOMAIN Ports /\ enables' = {"CMSG"} /\ v7Done' = v7Done
      /\ ppPort' = [p \in Payload |-> IF p \in DOMAIN Ports THEN Ports[p] - 1 ELSE ppPort[p]]
  BY <1>3, <1>4 DEF SetPayloads, SetEbCfg, Checked, IfV7, chipVars
<1>6. Routed'
  <2>1. {ppPort'[p] : p \in ebMask'} = {Ports[p] - 1 : p \in DOMAIN Ports}
    <3>1. \A p \in DOMAIN Ports : p \in Payload /\ ppPort'[p] = Ports[p] - 1
      BY <1>2, <1>5, PortsOf
    <3> QED BY <1>5, <3>1
  <2>2. Stream' = Stream
    BY <1>2, SamePorts
  <2> QED BY <1>2, <2>1, <2>2, PortsOf DEF Routed
<1>7. ~Runs("go")'
  BY <1>2, SameHandler DEF Return, Runs
<1>8. ChipInv'
  BY <1>1, <1>3, <1>5 DEF ChipInv
<1>9. RouteInv' /\ GoInv'
  BY <1>5, <1>6, <1>7 DEF RouteInv, GoInv
<1> QED BY <1>8, <1>9 DEF ConfigInv

LEMMA ConfigEvent ==
    ASSUME FlowInv, ListTypeOK, ConfigInv, WriteEvent PROVE ConfigInv'
<1>1. ~Idle /\ Advance /\ fwType' = fwType /\ FlowInv' /\ (Onward \/ Return) /\ list' = list
      /\ list \in Lists /\ (Handler # "download" => coda # "booted")
  <2>1. ~Idle /\ Advance /\ fwType' = fwType /\ ~At("v7")
    BY DEF WriteEvent, At, Idle, Empty, EvioWriteControl, IfV7, ebVars, chipVars, Control
  <2> QED BY <2>1, FlowAdvance, Mapped DEF Advance, FlowInv
<1>2. PICK type \in Control :
         /\ At(type)
         /\ EvioWriteControl(Arg, type, IF type = "END" THEN FramesSent(Arg) ELSE 0)
  BY DEF WriteEvent
<1>3. PICK i \in PreTold :
         /\ i = Arg /\ i \in Inst /\ i \in 0 .. 3
         /\ type = "PRESTART" => Handler = "prestart" /\ Now = 70 + i
         /\ type = "GO" => Handler = "go" /\ i \in Told /\ Now = i
         /\ type = "END" => Handler = "end"
  <2>1. Told \subseteq PreTold /\ PreTold \subseteq Stream /\ Stream \subseteq Inst /\ Stream \subseteq 0 .. 3
    BY <1>1, Lengths
  <2>2. CASE type = "PRESTART"
    BY <1>1, <1>2, <2>1, <2>2, Place
  <2>3. CASE type = "GO"
    BY <1>1, <1>2, <2>1, <2>3, Place
  <2>4. CASE type = "END"
    BY <1>1, <1>2, <2>1, <2>4, Place
  <2> QED BY <2>2, <2>3, <2>4 DEF Control
<1>4. /\ UNCHANGED <<v7Done, fwType, enables, ebMask, ppPort>>
      /\ posted' = IF fwType /\ v7Done THEN [posted EXCEPT ![i] = type] ELSE posted
      /\ asyncFifo' = asyncFifo \/ fwType
  <2>1. CASE fwType /\ v7Done
    BY <1>2, <1>3, <2>1 DEF EvioWriteControl, IfV7, chipVars
  <2>2. CASE ~ (fwType /\ v7Done)
    BY <1>2, <2>2 DEF EvioWriteControl, IfV7, ebVars, chipVars, ctrlVars, histVars
  <2> QED BY <2>1, <2>2
<1>5. Routed' = Routed /\ Told' = Told /\ Told \subseteq Inst /\ Told \subseteq 0 .. 3
  BY <1>1, <1>4, SamePorts, Lengths DEF Routed
<1>6. posted \in [Inst -> Posted]
  BY DEF ListTypeOK, EbTyped
<1>7. Runs("prestart") => type = "PRESTART" /\ Now > 10
  BY <1>3 DEF Runs, Control
<1>8. /\ Runs("prestart")' => Runs("prestart") /\ Now > 10
      /\ Runs("go")' => Runs("go") /\ Onward
      /\ coda' # "booted" => coda # "booted"
  BY <1>1, <1>3, <1>7, SameHandler DEF Onward, Return, Runs, Control
<1>9. ChipInv'
  <2>1. Runs("prestart") /\ Now > 10 => fwType /\ v7Done
    BY <1>3 DEF ConfigInv, ChipInv, Runs, Control
  <2>2. (Runs("prestart") /\ Now > 0 => fwType /\ v7Done)'
    BY <1>4, <1>8, <2>1
  <2>3. (coda # "booted" /\ ~fwType => asyncFifo = <<>> /\ \A j \in Inst : posted[j] = "NONE")'
    BY <1>4, <1>8 DEF ConfigInv, ChipInv
  <2> QED BY <2>2, <2>3 DEF ChipInv
<1>10. RouteInv'
  <2>1. ~ (Runs("prestart") /\ Now \in 2 .. 10)
    BY <1>7
  <2> QED BY <1>4, <1>5, <2>1 DEF ConfigInv, RouteInv
<1>11. GoInv'
  <2>1. "PP" \in enables' /\ ebMask' # {} => \A j \in Told : posted'[j] \notin Unstarted
    <3>1. SUFFICES ASSUME "PP" \in enables, ebMask # {}, NEW j \in Told PROVE posted'[j] \notin Unstarted
      BY <1>4
    <3>2. posted[j] \notin Unstarted /\ ~ (Runs("prestart") /\ Now > 10)
      BY <3>1 DEF ConfigInv, GoInv
    <3>3. type # "PRESTART"
      BY <1>1, <1>3, <3>2 DEF Runs
    <3> QED BY <1>4, <1>5, <1>6, <3>2, <3>3 DEF Unstarted, Control
  <2>2. Runs("prestart")' /\ Now' > 10 => "PP" \notin enables'
    BY <1>4, <1>8 DEF ConfigInv, GoInv
  <2>3. ASSUME Runs("go")', NEW j \in Told, Now' > j PROVE ~v7Done \/ posted'[j] \notin Unstarted
    <3>1. Handler = "go" /\ type = "GO" /\ Now = i /\ i \in Told /\ Runs("go") /\ Onward
      BY <1>3, <1>8, <2>3 DEF Runs, Control
    <3>2. Call("GO", j) \in CallsOf("go") /\ Time[Call("GO", j)] = j
      <4>1. j \in 0 .. 4
        BY <1>5
      <4> QED BY <4>1, CallFields, Times DEF CallsOf, GoCall
    <3>3. j <= i
      <4>1. j < Now'
        BY <1>5, <2>3, <3>1 DEF Onward
      <4> QED BY <3>1, <3>2, <4>1 DEF Onward
    <3>4. CASE j < i
      <4>1. Now > j
        BY <1>5, <3>1, <3>4
      <4>2. ~v7Done \/ posted[j] \notin Unstarted
        BY <3>1, <4>1 DEF ConfigInv, GoInv
      <4> QED BY <1>4, <1>5, <1>6, <3>1, <4>2 DEF Unstarted
    <3>5. CASE j = i
      <4>1. CASE fwType /\ v7Done
        BY <1>4, <1>5, <1>6, <3>1, <3>5, <4>1 DEF Unstarted
      <4>2. CASE ~fwType
        <5>1. posted[j] = "NONE"
          BY <1>1, <1>5, <3>1, <4>2 DEF ConfigInv, ChipInv
        <5> QED BY <1>4, <4>2, <5>1 DEF Unstarted
      <4>3. CASE ~v7Done
        BY <4>3
      <4> QED BY <4>1, <4>2, <4>3
    <3> QED BY <1>3, <1>5, <3>3, <3>4, <3>5
  <2> QED BY <1>4, <1>5, <2>1, <2>2, <2>3 DEF GoInv
<1> QED BY <1>9, <1>10, <1>11 DEF ConfigInv

\* The payload ports are enabled after the Go events.
LEMMA ConfigEnable ==
    ASSUME FlowInv, ListTypeOK, ConfigInv, EnablePayloads PROVE ConfigInv'
<1>1. ~Idle /\ Advance /\ fwType' = fwType /\ At("enable")
  BY PlainCalls DEF Plain, EnablePayloads
<1>2. /\ Handler = "go" /\ Now = 10 /\ (Onward \/ Return) /\ list' = list /\ coda # "booted" /\ list \in Lists
  BY <1>1, Place, FlowAdvance, Mapped DEF Advance, At, FlowInv
<1>3. UNCHANGED <<v7Done, fwType, ebMask, ppPort, posted, asyncFifo>> /\ (v7Done \/ enables' = enables)
  BY DEF EnablePayloads, EbEnable, IfV7, ebVars, chipVars, ctrlVars, histVars
<1>4. Routed' = Routed /\ Told' = Told /\ Told \subseteq 0 .. 3
  BY <1>2, <1>3, SamePorts, Lengths DEF Routed
<1>5. ~Runs("prestart") /\ ~Runs("prestart")' /\ Runs("go")
  BY <1>1, <1>2, SameHandler DEF Return, Runs
<1>6. v7Done => \A i \in Told : posted[i] \notin Unstarted
  <2>1. \A i \in Told : Now > i
    BY <1>2, <1>4
  <2> QED BY <1>5, <2>1 DEF ConfigInv, GoInv
<1>7. ChipInv'
  BY <1>2, <1>3, <1>5 DEF ConfigInv, ChipInv
<1>8. RouteInv'
  BY <1>3, <1>4, <1>5 DEF ConfigInv, RouteInv
<1>9. GoInv'
  BY <1>3, <1>4, <1>5, <1>6 DEF ConfigInv, GoInv
<1> QED BY <1>7, <1>8, <1>9 DEF ConfigInv

LEMMA ConfigNext ==
    ASSUME FlowInv, ListTypeOK, ConfigInv, Next \/ UNCHANGED vars PROVE ConfigInv'
<1>1. CASE Download \/ Prestart \/ Go \/ End
  <2>1. Idle /\ ~Idle' /\ Now' = 0 /\ list' = list /\ coda' = coda
    BY <1>1, FlowCommands
  <2>2. Calm
    BY <1>1 DEF Download, Prestart, Go, End, Command, Calm, ebVars, chipVars, ctrlVars, histVars
  <2> QED BY <2>1, <2>2, ConfigSame DEF Runs
<1>2. CASE Pause \/ Reset
  <2>1. Idle /\ Idle' /\ list' = list /\ UNCHANGED ebVars /\ coda # "booted"
    BY <1>2, FlowIdle
  <2>2. Calm
    BY <2>1 DEF Calm, ebVars, chipVars, ctrlVars, histVars
  <2> QED BY <2>1, <2>2, ConfigSame DEF Runs
<1>3. CASE HoldSync \/ ReleaseSync \/ Hardware \/ UNCHANGED vars
  <2>1. Stay /\ list' = list
    BY <1>3, FlowOthers DEF Stay
  <2>2. Calm
    <3>1. CASE HoldSync \/ ReleaseSync \/ UNCHANGED vars
      BY <3>1 DEF HoldSync, ReleaseSync, vars, Calm, ebVars, chipVars, ctrlVars, histVars
    <3>2. CASE Hardware
      BY <3>2 DEF Hardware, SendAsync, BuildFrame, SendFrame, LateConnect, Calm, ebVars, chipVars,
                  ctrlVars, histVars
    <3> QED BY <1>3, <3>1, <3>2
  <2> QED BY <2>1, <2>2, ConfigSame DEF Stay
<1>4. CASE Rol
  BY <1>4, ConfigQuiet, ConfigLoad, ConfigInitVtp, ConfigReadFile, ConfigPayloads, ConfigEvent,
     ConfigEnable DEF Rol
<1> QED BY <1>1, <1>2, <1>3, <1>4 DEF Next

\* What every behaviour keeps: the flow of the handlers, the types, and the
\* order of configuration, events and enables within them.
CoreInv == FlowInv /\ ListTypeOK /\ ConfigInv

LEMMA CoreCorrect == Spec => []CoreInv
<1>1. Init => CoreInv
  BY FlowInit, TypeInit, ConfigInit DEF CoreInv
<1>2. CoreInv /\ [Next]_vars => CoreInv'
  BY FlowNext, TypeNext, ConfigNext DEF CoreInv
<1> QED BY <1>1, <1>2, PTL DEF Spec

\* No frame is built before the streams had their Go event: rocGo writes the
\* events and only then enables the payload ports.
THEOREM FramesOnlyAfterGoCorrect == Spec => []FramesOnlyAfterGo
<1>1. CoreInv => FramesOnlyAfterGo
  BY DEF CoreInv, ConfigInv, GoInv, FramesOnlyAfterGo, Unstarted
<1> QED BY <1>1, CoreCorrect, PTL

\* The payload routes and the connections agree when frames can be built,
\* whatever mask the user's file had and the run before left.
THEOREM RoutesServedCorrect == Spec => []RoutesServed
<1>1. CoreInv => RoutesServed
  BY DEF CoreInv, ConfigInv, RouteInv, Routed, Stream, RoutesServed
<1> QED BY <1>1, CoreCorrect, PTL

-----------------------------------------------------------------------------
(* The chain of addresses *)

LEMMA AddrInit == Init => AddrInv
BY DEF Init, EbInit, AddrInv, Runs, Idle, Empty

\* rocPrestart makes its calls in order; after the last one every stream has
\* been connected.
LEMMA PrestartOrder ==
    ASSUME FlowInv, ~Idle, Handler = "prestart", Advance
    PROVE  \/ /\ Onward /\ Now' \in 0 .. 110 /\ Now < Now'
              /\ \A i \in Stream : Now' > 32 + 10 * i => Now >= 32 + 10 * i
              /\ \A i \in Stream : Now' > 33 + 10 * i => Now >= 33 + 10 * i
              /\ \A i \in Stream \ {0} : Now' > 30 + 10 * i => Now >= 30 + 10 * i
              /\ \A i \in PreTold : Now' > 70 + i => Now >= 70 + i
              /\ Greets => \A i \in Stream : Now' > 34 + 10 * i => Now >= 34 + 10 * i
              /\ Now' > 22 => Now >= 22
              /\ Now' > 20 => Now >= 20
              /\ Now' > 10 => Now >= 10
           \/ Return /\ Now >= 70 /\ \A i \in PreTold : Now >= 70 + i
<1> DEFINE C == CallsOf("prestart")
<1>1. Onward \/ (Return /\ \A c \in CallsOf(Handler) : Time[c] <= Now)
  BY Proceed
<1>2. list \in Lists
  BY DEF FlowInv
<1>3. /\ Stream \subseteq 0 .. 3 /\ PreTold \subseteq Stream /\ 0 \in PreTold /\ Connections \in 0 .. 4
  BY <1>2, Lengths
<1>4. /\ \A i \in Stream : /\ Call("net", i) \in C /\ Time[Call("net", i)] = 32 + 10 * i
                           /\ Call("connect", i) \in C /\ Time[Call("connect", i)] = 33 + 10 * i
      /\ \A i \in Stream \ {0} : Call("next", i) \in C /\ Time[Call("next", i)] = 30 + 10 * i
      /\ \A i \in PreTold : Call("PRESTART", i) \in C /\ Time[Call("PRESTART", i)] = 70 + i
      /\ Greets => \A i \in Stream : Call("greet", i) \in C /\ Time[Call("greet", i)] = 34 + 10 * i
      /\ Call("base", 0) \in C /\ Time[Call("base", 0)] = 22
      /\ Call("async", 0) \in C /\ Time[Call("async", 0)] = 20
      /\ Call("ebcfg", Connections) \in C /\ Time[Call("ebcfg", Connections)] = 10
  <2>1. Stream \subseteq 0 .. 4 /\ PreTold \subseteq 0 .. 4 /\ 0 \in 0 .. 4
    BY <1>3
  <2> QED BY <1>2, <1>3, <2>1, PrestartMade, Times
<1> HIDE DEF C
<1>5. PICK n \in 0 .. 110 : n = Now
  BY NextCall
<1>6. CASE Onward
  <2>1. PICK m \in 0 .. 110 : m = Now'
    BY <1>6 DEF Onward
  <2>2. n < m /\ \A c \in C : Time[c] < m => Time[c] <= n
    BY <1>5, <1>6, <2>1 DEF Onward, C
  <2>3. ASSUME NEW i \in Stream
        PROVE  /\ m > 32 + 10 * i => n >= 32 + 10 * i
               /\ m > 33 + 10 * i => n >= 33 + 10 * i
    <3>1. i \in 0 .. 3
      BY <1>3
    <3> QED BY <1>4, <2>2, <3>1
  <2>4. ASSUME NEW i \in Stream \ {0} PROVE m > 30 + 10 * i => n >= 30 + 10 * i
    <3>1. i \in 0 .. 3
      BY <1>3
    <3> QED BY <1>4, <2>2, <3>1
  <2>5. ASSUME NEW i \in PreTold PROVE m > 70 + i => n >= 70 + i
    <3>1. i \in 0 .. 3
      BY <1>3
    <3> QED BY <1>4, <2>2, <3>1
  <2>6. ASSUME NEW i \in Stream, Greets PROVE m > 34 + 10 * i => n >= 34 + 10 * i
    <3>1. i \in 0 .. 3
      BY <1>3
    <3> QED BY <1>4, <2>2, <2>6, <3>1
  <2>7. (m > 22 => n >= 22) /\ (m > 20 => n >= 20) /\ (m > 10 => n >= 10)
    BY <1>4, <2>2
  <2> QED BY <1>5, <1>6, <2>1, <2>2, <2>3, <2>4, <2>5, <2>6, <2>7
<1>7. CASE Return /\ \A c \in CallsOf(Handler) : Time[c] <= Now
  <2>1. ASSUME NEW i \in PreTold PROVE n >= 70 + i
    <3>1. i \in 0 .. 3 /\ Call("PRESTART", i) \in C /\ Time[Call("PRESTART", i)] = 70 + i
      BY <1>3, <1>4
    <3>2. Time[Call("PRESTART", i)] <= Now
      BY <1>7, <3>1 DEF C
    <3> QED BY <1>5, <3>1, <3>2
  <2> QED BY <1>3, <1>5, <1>7, <2>1
<1> QED BY <1>1, <1>6, <1>7

\* Outside the connections of rocPrestart the addresses stay.
LEMMA AddrKept ==
    ASSUME AddrInv, list \in Lists, list' = list, client' = client, \A i \in Inst : request'[i] => request[i],
           ~ (Runs("prestart") /\ Now > 0), ~Runs("prestart")' \/ Now' \in 0 .. 22
    PROVE  AddrInv'
<1>1. Stream' = Stream /\ Stream \subseteq 0 .. 3
  BY SamePorts, Lengths
<1>2. \A i \in Inst : request'[i] => i \in Stream /\ Chained(client[i], i)
  BY DEF AddrInv
<1>3. \A i \in Inst : request'[i] => (i \in Stream /\ Chained(client[i], i))'
  BY <1>1, <1>2 DEF Chained
<1>4. ASSUME Runs("prestart")', NEW i \in Stream
      PROVE  /\ ~ (Now' > 32 + 10 * i)
             /\ Now' \notin (IF i = 0 THEN 23 ELSE 31 + 10 * i) .. 40 + 10 * i
  <2>1. i \in 0 .. 3 /\ Now' \in 0 .. 22
    BY <1>1, <1>4
  <2> QED BY <2>1
<1> QED BY <1>1, <1>3, <1>4 DEF AddrInv

LEMMA AddrStay ==
    ASSUME AddrInv, Stay, UNCHANGED <<client, buf, request>> PROVE AddrInv'
<1>1. Stream' = Stream /\ Runs("prestart")' = Runs("prestart") /\ Now' = Now
  BY SamePorts, StayKeeps DEF Stay, Runs
<1> QED BY <1>1 DEF AddrInv, Chained

\* A call of rocPrestart after vtpInit: what it must show of the addresses.
Wrote(i) == Now' > 32 + 10 * i => Chained(client[i], i)'
Counts(i) == Now' \in (IF i = 0 THEN 23 ELSE 31 + 10 * i) .. 40 + 10 * i => Chained(buf, i)'
LEMMA AddrOnward ==
    ASSUME list' = list, Runs("prestart")', Now' > 0,
           \A i \in Inst : request'[i] => i \in Stream,
           \A i \in Stream : Wrote(i) /\ Counts(i)
    PROVE  AddrInv'
BY SamePorts DEF AddrInv, Wrote, Counts

\* Before the first connection.
LEMMA AddrEarly ==
    ASSUME AddrInv, list \in Lists, list' = list, Runs("prestart")', Now' \in 1 .. 22,
           \A i \in Inst : request'[i] => request[i]
    PROVE  AddrInv'
<1>1. ASSUME NEW i \in Stream PROVE Wrote(i) /\ Counts(i)
  <2>1. i \in 0 .. 3
    BY Lengths
  <2> QED BY <2>1 DEF Wrote, Counts
<1> QED BY <1>1, AddrOnward DEF AddrInv

\* A call of the loop that leaves the addresses.
LEMMA AddrSame ==
    ASSUME FlowInv, AddrInv, ~Idle, Handler = "prestart", Advance,
           client' = client, buf'.ip = buf.ip, buf'.mac = buf.mac,
           \A i \in Inst : request'[i] => request[i] \/ i \in Stream,
           Now > 22, \A i \in Stream : Now # 32 + 10 * i, \A i \in Stream \ {0} : Now # 30 + 10 * i
    PROVE  AddrInv'
<1>1. list \in Lists /\ list' = list /\ Stream \subseteq 0 .. 3 /\ Stream' = Stream
  BY Lengths, SamePorts DEF FlowInv, Advance
<1>2. PICK n \in 0 .. 110 : n = Now
  BY NextCall
<1>3. Runs("prestart") /\ \A i \in Inst : request'[i] => i \in Stream
  BY DEF Runs, AddrInv
<1>4. \A i \in Stream : /\ n > 32 + 10 * i => Chained(client[i], i)
                        /\ n \in (IF i = 0 THEN 23 ELSE 31 + 10 * i) .. 40 + 10 * i => Chained(buf, i)
  BY <1>2, <1>3 DEF AddrInv
<1>5. CASE Onward
  <2>1. PICK m \in 0 .. 110 : m = Now' /\ n < m
    BY <1>2, <1>5 DEF Onward
  <2>2. /\ \A i \in Stream : m > 32 + 10 * i => n >= 32 + 10 * i
        /\ \A i \in Stream \ {0} : m > 30 + 10 * i => n >= 30 + 10 * i
    BY <1>2, <1>5, <2>1, PrestartOrder DEF Onward, Return
  <2>3. ASSUME NEW i \in Stream PROVE Wrote(i) /\ Counts(i)
    <3>1. i \in 0 .. 3
      BY <1>1
    <3>2. m > 32 + 10 * i => n > 32 + 10 * i
      BY <1>2, <2>2, <3>1
    <3>3. m \in (IF i = 0 THEN 23 ELSE 31 + 10 * i) .. 40 + 10 * i
             => n \in (IF i = 0 THEN 23 ELSE 31 + 10 * i) .. 40 + 10 * i
      BY <1>2, <2>1, <2>2, <3>1
    <3>4. (Chained(client[i], i) => Chained(client[i], i)') /\ (Chained(buf, i) => Chained(buf, i)')
      BY DEF Chained
    <3> QED BY <1>4, <2>1, <3>2, <3>3, <3>4 DEF Wrote, Counts
  <2>4. Runs("prestart")' /\ Now' > 0
    BY <1>3, <1>5, <2>1, SameHandler
  <2> QED BY <1>1, <1>3, <2>3, <2>4, AddrOnward
<1>6. CASE Return /\ Now >= 70
  <2>1. \A i \in Stream : n > 32 + 10 * i
    BY <1>1, <1>2, <1>6
  <2>2. \A i \in Stream : Chained(client[i], i)'
    BY <1>4, <2>1 DEF Chained
  <2> QED BY <1>1, <1>3, <1>6, <2>2 DEF AddrInv, Return, Runs
<1> QED BY <1>5, <1>6, PrestartOrder

LEMMA Bytes == ASSUME NEW a \in 0 .. 255 PROVE (a + 0) % 256 = a
OBVIOUS

\* The calls that make the chain: the base, the next address, the client's.
LEMMA AddrChain ==
    ASSUME FlowInv, ListTypeOK, AddrInv, GetBase \/ NextAddress \/ SetClient
    PROVE  AddrInv'
<1>1. Plain
  BY DEF Plain
<1>2. ~Idle /\ Advance
  BY <1>1, PlainCalls
<1>3. list \in Lists /\ list' = list /\ Stream \subseteq 0 .. 3 /\ Stream' = Stream /\ 0 \in Stream
      /\ Stream \subseteq Inst
  BY <1>2, Lengths, SamePorts DEF FlowInv, Advance
<1>4. PICK n \in 0 .. 110 : n = Now
  BY <1>2, NextCall
<1>5. /\ client \in [Inst -> Address] /\ buf \in Address
      /\ request \in [Inst -> BOOLEAN]
  BY DEF ListTypeOK, AddrTypeOK, EbTyped
<1>6. /\ buf.ip \in 0 .. 255 /\ buf.mac \in 0 .. 255
      /\ \A i \in Inst : client[i].ip \in 0 .. 255 /\ client[i].mac \in 0 .. 255
  BY <1>5 DEF Address, Octet
<1>7. Handler = "prestart" => \A i \in Stream :
         /\ n > 32 + 10 * i => Chained(client[i], i)
         /\ n \in (IF i = 0 THEN 23 ELSE 31 + 10 * i) .. 40 + 10 * i => Chained(buf, i)
  BY <1>2, <1>4 DEF AddrInv, Runs
<1>8. ASSUME Handler = "prestart", n < 70
      PROVE  /\ Onward /\ Runs("prestart")' /\ Now' \in 0 .. 110 /\ n < Now' /\ Now' > 0
             /\ \A i \in Stream : Now' > 32 + 10 * i => n >= 32 + 10 * i
             /\ \A i \in Stream \ {0} : Now' > 30 + 10 * i => n >= 30 + 10 * i
  <2>1. Onward
    BY <1>2, <1>4, <1>8, PrestartOrder
  <2>2. ~ Return
    BY <2>1 DEF Onward, Return
  <2>3. /\ Now' \in 0 .. 110 /\ n < Now'
        /\ \A i \in Stream : Now' > 32 + 10 * i => n >= 32 + 10 * i
        /\ \A i \in Stream \ {0} : Now' > 30 + 10 * i => n >= 30 + 10 * i
    BY <1>2, <1>4, <1>8, <2>2, PrestartOrder
  <2> QED BY <1>8, <2>1, <2>3, SameHandler
<1>9. CASE GetBase
  <2>1. Handler = "prestart" /\ n = 22
    BY <1>2, <1>4, <1>9, Place DEF GetBase
  <2>2. PICK m \in 0 .. 110 : m = Now' /\ 22 < m /\ m <= 32
    BY <1>3, <1>8, <2>1
  <2>3. client' = client /\ request' = request /\ buf' = [client[0] EXCEPT !.port = 0]
    BY <1>9 DEF GetBase, ebVars, netVars
  <2>4. buf'.ip = client[0].ip /\ buf'.mac = client[0].mac
    <3>1. client[0] \in Address
      BY <1>3, <1>5
    <3> QED BY <2>3, <3>1 DEF Address
  <2>5. ASSUME NEW i \in Stream PROVE Wrote(i) /\ Counts(i)
    <3>1. i \in 0 .. 3
      BY <1>3
    <3>2. ~ (Now' > 32 + 10 * i)
      BY <2>2, <3>1
    <3>3. CASE i = 0
      <4>1. client[0].ip \in 0 .. 255 /\ client[0].mac \in 0 .. 255
        BY <1>3, <1>6
      <4>2. PICK a \in 0 .. 255, b \in 0 .. 255 : a = client[0].ip /\ b = client[0].mac
        BY <4>1, Zenon
      <4>3. (a + 0) % 256 = a /\ (b + 0) % 256 = b
        BY Bytes
      <4>4. (client[0].ip + 0) % 256 = client[0].ip
        BY <4>2, <4>3, Zenon
      <4>5. (client[0].mac + 0) % 256 = client[0].mac
        BY <4>2, <4>3, Zenon
      <4> QED BY <1>3, <1>6, <2>3, <2>4, <3>2, <3>3, <4>4, <4>5 DEF Wrote, Counts, Chained
    <3>4. CASE i # 0
      <4>1. Now' \notin 31 + 10 * i .. 40 + 10 * i
        BY <2>2, <3>1, <3>4
      <4> QED BY <3>2, <3>4, <4>1 DEF Wrote, Counts
    <3> QED BY <3>3, <3>4
  <2> QED BY <1>3, <1>8, <2>1, <2>3, <2>5, AddrOnward DEF AddrInv
<1>10. CASE NextAddress
  <2>1. PICK j \in 1 .. 3 : Handler = "prestart" /\ j \in Stream /\ n = 30 + 10 * j
    <3>1. Handler = "prestart" /\ Arg \in Stream \ {0} /\ Now = 30 + 10 * Arg
      BY <1>2, <1>10, Place DEF NextAddress
    <3>2. Arg \in 1 .. 3
      BY <1>3, <3>1
    <3> QED BY <1>4, <3>1, <3>2
  <2>2. PICK m \in 0 .. 110 : m = Now' /\ n < m /\ m <= 32 + 10 * j
    BY <1>8, <2>1
  <2>3. client' = client /\ request' = request
        /\ buf' = [buf EXCEPT !.ip = (@ + 1) % 256, !.mac = (@ + 1) % 256]
    BY <1>10 DEF NextAddress, ebVars, netVars
  <2>4. buf'.ip = (buf.ip + 1) % 256 /\ buf'.mac = (buf.mac + 1) % 256
    BY <1>5, <2>3 DEF Address
  <2>5. j - 1 \in Stream
    <3>1. PICK k \in 1 .. 4 : k = Connections
      BY <1>3, Lengths
    <3> QED BY <2>1, <3>1 DEF Stream
  <2>6. Chained(buf, j - 1)
    <3>1. n \in (IF j - 1 = 0 THEN 23 ELSE 31 + 10 * (j - 1)) .. 40 + 10 * (j - 1)
      BY <2>1
    <3> QED BY <1>7, <2>1, <2>5, <3>1
  <2>7. /\ (buf.ip + 1) % 256 = (client[0].ip + j) % 256
        /\ (buf.mac + 1) % 256 = (client[0].mac + j) % 256
    <3>1. ASSUME NEW a \in 0 .. 255, NEW k \in 0 .. 3 PROVE (((a + k) % 256) + 1) % 256 = (a + (k + 1)) % 256
      OBVIOUS
    <3>2. client[0].ip \in 0 .. 255 /\ client[0].mac \in 0 .. 255
      BY <1>3, <1>6
    <3>3. PICK k \in 0 .. 3 : k = j - 1 /\ k + 1 = j
      BY <2>1
    <3>4. PICK a \in 0 .. 255, b \in 0 .. 255 : a = client[0].ip /\ b = client[0].mac
      BY <3>2, Zenon
    <3>5. (((a + k) % 256) + 1) % 256 = (a + j) % 256 /\ (((b + k) % 256) + 1) % 256 = (b + j) % 256
      BY <3>3
    <3>6. Chained(buf, k)
      BY <2>6, <3>3, Zenon
    <3>7. buf.ip = (a + k) % 256 /\ buf.mac = (b + k) % 256
      BY <3>4, <3>6, Zenon DEF Chained
    <3>8. /\ (buf.ip + 1) % 256 = (((a + k) % 256) + 1) % 256
          /\ (buf.mac + 1) % 256 = (((b + k) % 256) + 1) % 256
      BY <3>7, Zenon
    <3>9. (buf.ip + 1) % 256 = (a + j) % 256 /\ (buf.mac + 1) % 256 = (b + j) % 256
      BY <3>5, <3>8, Zenon
    <3> QED BY <3>4, <3>9, Zenon
  <2>8. ASSUME NEW i \in Stream PROVE Wrote(i) /\ Counts(i)
    <3>1. i \in 0 .. 3
      BY <1>3
    <3>2. Now' > 32 + 10 * i => n > 32 + 10 * i
      BY <2>1, <2>2, <3>1
    <3>3. Wrote(i)
      BY <1>7, <2>1, <2>3, <3>2 DEF Wrote, Chained
    <3>4. Now' \in (IF i = 0 THEN 23 ELSE 31 + 10 * i) .. 40 + 10 * i => i = j
      BY <2>1, <2>2, <3>1
    <3>5. Chained(buf, j)'
      BY <2>3, <2>4, <2>7 DEF Chained
    <3> QED BY <3>3, <3>4, <3>5 DEF Counts
  <2> QED BY <1>3, <1>8, <2>1, <2>3, <2>8, AddrOnward DEF AddrInv
<1>11. CASE SetClient
  <2>1. PICK j \in 0 .. 3 : Handler = "prestart" /\ j \in Stream /\ n = 32 + 10 * j /\ j = Arg
    <3>1. Handler = "prestart" /\ Arg \in Stream /\ Now = 32 + 10 * Arg
      BY <1>2, <1>11, Place DEF SetClient
    <3> QED BY <1>3, <1>4, <3>1
  <2>2. PICK m \in 0 .. 110 :
           /\ m = Now' /\ n < m
           /\ \A i \in Stream : m > 32 + 10 * i => n >= 32 + 10 * i
           /\ \A i \in Stream \ {0} : m > 30 + 10 * i => n >= 30 + 10 * i
    BY <1>8, <2>1
  <2>3. client' = [client EXCEPT ![j] = buf] /\ buf' = buf
    BY <1>11, <2>1 DEF SetClient
  <2>4. \A i \in Inst : request'[i] => request[i]
    BY <1>5, <1>11 DEF SetClient, SetNetCfg, ebVars, netVars
  <2>5. Chained(buf, j)
    <3>1. n \in (IF j = 0 THEN 23 ELSE 31 + 10 * j) .. 40 + 10 * j
      BY <2>1
    <3> QED BY <1>7, <2>1, <3>1
  <2>6. client'[0].ip = client[0].ip /\ client'[0].mac = client[0].mac
    <3>1. CASE j = 0
      <4>1. client[0].ip \in 0 .. 255 /\ client[0].mac \in 0 .. 255
        BY <1>3, <1>6
      <4>2. PICK a \in 0 .. 255, b \in 0 .. 255 : a = client[0].ip /\ b = client[0].mac
        BY <4>1, Zenon
      <4>3. (a + 0) % 256 = a /\ (b + 0) % 256 = b
        BY Bytes
      <4>4. (client[0].ip + 0) % 256 = client[0].ip
        BY <4>2, <4>3, Zenon
      <4>5. (client[0].mac + 0) % 256 = client[0].mac
        BY <4>2, <4>3, Zenon
      <4>6. client'[0] = buf
        BY <1>3, <1>5, <2>3, <3>1
      <4> QED BY <2>5, <3>1, <4>4, <4>5, <4>6 DEF Chained
    <3>2. CASE j # 0
      BY <1>3, <1>5, <2>3, <3>2
    <3> QED BY <3>1, <3>2
  <2>7. ASSUME NEW i \in Stream PROVE Wrote(i) /\ Counts(i)
    <3>1. i \in 0 .. 3 /\ i \in Inst
      BY <1>3
    <3>2. Now' > 32 + 10 * i => i = j \/ (i # j /\ n > 32 + 10 * i)
      BY <2>1, <2>2, <3>1
    <3>3. CASE i = j
      <4>1. client'[i] = buf
        BY <1>5, <2>3, <3>1, <3>3
      <4>2. Chained(client[i], i)' /\ Chained(buf, i)'
        BY <2>3, <2>5, <2>6, <3>3, <4>1 DEF Chained
      <4> QED BY <4>2 DEF Wrote, Counts
    <3>4. CASE i # j
      <4>1. client'[i] = client[i]
        BY <1>5, <2>3, <3>1, <3>4
      <4>2. Wrote(i)
        BY <1>7, <2>1, <2>6, <3>2, <3>4, <4>1 DEF Wrote, Chained
      <4>3. Now' \in (IF i = 0 THEN 23 ELSE 31 + 10 * i) .. 40 + 10 * i
               => n \in (IF i = 0 THEN 23 ELSE 31 + 10 * i) .. 40 + 10 * i
        BY <2>1, <2>2, <3>1, <3>4
      <4>4. Counts(i)
        BY <1>7, <2>1, <2>3, <2>6, <4>3 DEF Counts, Chained
      <4> QED BY <4>2, <4>4
    <3> QED BY <3>3, <3>4
  <2> QED BY <1>3, <1>8, <2>1, <2>4, <2>7, AddrOnward DEF AddrInv
<1> QED BY <1>9, <1>10, <1>11

LEMMA AddrNext ==
    ASSUME FlowInv, ListTypeOK, AddrInv, Next \/ UNCHANGED vars PROVE AddrInv'
<1>1. list \in Lists
  BY DEF FlowInv
<1>2. CASE Download \/ Prestart \/ Go \/ End
  <2>1. Idle /\ ~Idle' /\ Now' = 0 /\ list' = list
    BY <1>2, FlowCommands
  <2>2. client' = client /\ request' = request
    BY <1>2 DEF Download, Prestart, Go, End, Command, ebVars, netVars
  <2> QED BY <1>1, <2>1, <2>2, AddrKept DEF Runs
<1>3. CASE Pause \/ Reset
  <2>1. Idle /\ Idle' /\ list' = list /\ UNCHANGED ebVars
    BY <1>3, FlowIdle
  <2>2. client' = client /\ request' = request
    BY <1>3, <2>1 DEF Pause, Reset, ebVars, netVars
  <2> QED BY <1>1, <2>1, <2>2, AddrKept DEF Runs
<1>4. CASE HoldSync \/ ReleaseSync \/ Hardware \/ UNCHANGED vars
  <2>1. Stay
    BY <1>4, FlowOthers
  <2>2. UNCHANGED <<client, buf, request>>
    <3>1. CASE HoldSync \/ ReleaseSync \/ UNCHANGED vars
      BY <3>1 DEF HoldSync, ReleaseSync, vars, rolVars, ebVars, netVars
    <3>2. CASE Hardware
      BY <3>2 DEF Hardware, rolVars, SendAsync, BuildFrame, SendFrame, LateConnect, netVars
    <3> QED BY <1>4, <3>1, <3>2
  <2> QED BY <2>1, <2>2, AddrStay
<1>5. CASE LoadZ7 \/ LoadV7 \/ LoadUnmapped
  <2>1. ~Idle /\ Handler = "download" /\ list' = list /\ ~Runs("prestart")'
    <3>1. CASE LoadUnmapped
      BY <3>1, FlowUnmapped DEF Runs
    <3>2. CASE LoadZ7 \/ LoadV7
      <4>1. Plain
        BY <3>2 DEF Plain
      <4>2. ~Idle /\ (Onward \/ Return) /\ (At("z7") \/ At("v7")) /\ list' = list
        BY <3>2, <4>1, PlainCalls, FlowAdvance DEF LoadZ7, LoadV7, Advance
      <4> QED BY <4>2, Place, SameHandler DEF Return, Runs
    <3> QED BY <1>5, <3>1, <3>2
  <2>2. CASE client' = client /\ request' = request
    BY <1>1, <2>1, <2>2, AddrKept DEF Runs
  <2>3. CASE \A i \in Inst : ~request'[i]
    BY <2>1, <2>3 DEF AddrInv
  <2>4. (client' = client /\ request' = request) \/ \A i \in Inst : ~request'[i]
    <3>1. CASE LoadZ7
      BY <3>1 DEF LoadZ7, Z7CfgLoad, ebVars, netVars
    <3>2. CASE LoadV7 \/ LoadUnmapped
      BY <3>2 DEF LoadV7, LoadUnmapped, V7CfgLoad, netVars
    <3> QED BY <1>5, <3>1, <3>2
  <2> QED BY <2>2, <2>3, <2>4
<1>6. CASE InitVtp
  <2>1. ~Idle /\ Handler = "prestart" /\ Now = 0 /\ (Onward \/ Return)
    BY <1>6, FlowInitVtp
  <2>2. list' = list /\ client' = client /\ request' = request
    BY <1>6, <2>1 DEF InitVtp, Onward, Return, netVars
  <2>3. ~Runs("prestart")' \/ Now' \in 0 .. 22
    <3>1. CASE Return
      BY <3>1 DEF Return, Runs
    <3>2. CASE Onward
      <4>1. Call("file", 0) \in CallsOf("prestart") /\ Time[Call("file", 0)] = 1
        BY <1>1, PrestartMade, Times
      <4>2. Now' \in 0 .. 110 /\ ~ (1 < Now')
        BY <2>1, <3>2, <4>1 DEF Onward
      <4> QED BY <4>2
    <3> QED BY <2>1, <3>1, <3>2
  <2> QED BY <1>1, <2>1, <2>2, <2>3, AddrKept
<1>7. CASE ReadFile
  <2>1. /\ Handler' = "prestart" /\ ~Idle' /\ list' = list /\ Now' \in 1 .. 22
    BY <1>7, FlowReadFile
  <2>2. request' = request
    BY <1>7 DEF ReadFile, SetEbCfg, Checked, IfV7, ebVars, netVars
  <2> QED BY <1>1, <2>1, <2>2, AddrEarly DEF Runs
<1>8. CASE Plain
  <2>1. ~Idle /\ Advance /\ list' = list
    BY <1>8, PlainCalls DEF Advance
  <2>2. PICK n \in 0 .. 110 : n = Now
    BY <2>1, NextCall
  <2>3. Stream \subseteq 0 .. 3 /\ PreTold \subseteq Stream /\ Stream \subseteq Inst
    BY <1>1, Lengths
  <2>4. request \in [Inst -> BOOLEAN] /\ buf \in Address
    BY DEF ListTypeOK, AddrTypeOK, EbTyped
  <2>5. ASSUME Handler = "prestart", Now \in 1 .. 21, \A i \in Inst : request'[i] => request[i]
        PROVE  AddrInv'
    <3>1. Onward /\ ~ (Now' > 22) /\ Now' \in 0 .. 110 /\ Now < Now'
      BY <2>1, <2>5, PrestartOrder
    <3>2. Now' \in 1 .. 22 /\ Runs("prestart")'
      BY <2>5, <3>1, SameHandler
    <3> QED BY <1>1, <2>1, <2>5, <3>2, AddrEarly
  <2>6. CASE SetAddress
    <3>1. Handler = "prestart" /\ Now = 2
      BY <2>1, <2>6, Place DEF SetAddress
    <3>2. \A i \in Inst : request'[i] => request[i]
      BY <2>4, <2>6 DEF SetAddress, SetNetCfg, ebVars, netVars
    <3> QED BY <2>5, <3>1, <3>2
  <2>7. CASE SetPayloads
    <3>1. Handler = "prestart" /\ Now = 10
      BY <2>1, <2>7, Place DEF SetPayloads
    <3>2. request' = request
      BY <2>7 DEF SetPayloads, SetEbCfg, Checked, IfV7, ebVars, netVars
    <3> QED BY <2>5, <3>1, <3>2
  <2>8. ASSUME Handler \in {"go", "end"}, client' = client, \A i \in Inst : request'[i] => request[i]
        PROVE  AddrInv'
    <3>1. FlowInv' /\ (Onward \/ Return)
      <4>1. fwType' = fwType /\ (dev = "mapped" \/ ~At("v7"))
        BY <1>8, PlainCalls
      <4> QED BY <2>1, <4>1, FlowAdvance
    <3>2. ~Runs("prestart") /\ ~Runs("prestart")'
      BY <2>8, <3>1, SameHandler DEF Return, Runs
    <3> QED BY <1>1, <2>1, <2>8, <3>2, AddrKept
  <2>9. CASE EnableAsync
    <3>1. Handler \in {"prestart", "end"} /\ Now = 20
      BY <2>1, <2>9, Place DEF EnableAsync
    <3>2. request' = request /\ client' = client
      BY <2>9 DEF EnableAsync, EbEnable, IfV7, ebVars, netVars
    <3> QED BY <2>5, <2>8, <3>1, <3>2
  <2>10. CASE ResetLinks
    <3>1. Handler = "prestart" /\ Now = 21
      BY <2>1, <2>10, Place DEF ResetLinks
    <3>2. request' = request
      BY <2>10 DEF ResetLinks, ResetDataPath, IfV7, ebVars, netVars
    <3> QED BY <2>5, <3>1, <3>2
  <2>11. CASE GetBase \/ NextAddress \/ SetClient
    BY <2>11, AddrChain
  <2>12. CASE NextPort
    <3>1. Handler = "prestart" /\ Arg \in Stream /\ Now = 31 + 10 * Arg
      BY <2>1, <2>12, Place DEF NextPort
    <3>2. request' = request /\ client' = client /\ buf' = [buf EXCEPT !.port = @ + 1]
      BY <2>12 DEF NextPort, ebVars, netVars
    <3>3. buf'.ip = buf.ip /\ buf'.mac = buf.mac
      BY <2>4, <3>2 DEF Address
    <3>4. Now > 22 /\ \A i \in Stream : Now # 32 + 10 * i /\ Now # 30 + 10 * i
      BY <2>3, <3>1
    <3> QED BY <2>1, <3>1, <3>2, <3>3, <3>4, AddrSame
  <2>13. CASE ConnectStream
    <3>1. Handler = "prestart" /\ Arg \in Stream /\ Now = 33 + 10 * Arg
      BY <2>1, <2>13, Place DEF ConnectStream
    <3>2. UNCHANGED <<client, buf>> /\ \A i \in Inst : request'[i] => request[i] \/ i = Arg
      BY <2>4, <2>13 DEF ConnectStream, TcpConnect, ebVars, netVars
    <3>3. Now > 22 /\ \A i \in Stream : Now # 32 + 10 * i /\ Now # 30 + 10 * i
      BY <2>3, <3>1
    <3> QED BY <2>1, <3>1, <3>2, <3>3, AddrSame
  <2>14. CASE SendGreeting
    <3>1. Handler = "prestart" /\ Arg \in Stream /\ Now = 34 + 10 * Arg
      BY <2>1, <2>14, Place DEF SendGreeting
    <3>2. UNCHANGED <<client, buf, request>>
      BY <2>14 DEF SendGreeting, netVars
    <3>3. Now > 22 /\ \A i \in Stream : Now # 32 + 10 * i /\ Now # 30 + 10 * i
      BY <2>3, <3>1
    <3> QED BY <2>1, <3>1, <3>2, <3>3, AddrSame
  <2>15. CASE WriteEvent
    <3>1. UNCHANGED <<client, buf, request>>
      BY <2>15 DEF WriteEvent, EvioWriteControl, IfV7, ebVars, netVars
    <3>2. CASE At("PRESTART")
      <4>1. Handler = "prestart" /\ Arg \in PreTold /\ Now = 70 + Arg
        BY <2>1, <3>2, Place
      <4>2. Now > 22 /\ \A i \in Stream : Now # 32 + 10 * i /\ Now # 30 + 10 * i
        BY <2>3, <4>1
      <4> QED BY <2>1, <3>1, <4>1, <4>2, AddrSame
    <3>3. CASE At("GO") \/ At("END")
      BY <2>1, <2>8, <3>1, <3>3, Place
    <3> QED BY <2>15, <3>2, <3>3 DEF WriteEvent, Control
  <2>16. CASE EnablePayloads \/ WaitForData \/ WaitForEvents \/ ResetEb \/ CloseStream
    <3>1. client' = client /\ \A i \in Inst : request'[i] => request[i]
      BY <2>4, <2>16 DEF EnablePayloads, WaitForData, WaitForEvents, ResetEb, CloseStream, EbEnable,
                         EbDisable, TcpDisconnect, IfV7, ebVars, netVars
    <3>2. Handler \in {"go", "end"}
      BY <2>1, <2>16, Place DEF EnablePayloads, WaitForData, WaitForEvents, ResetEb, CloseStream
    <3> QED BY <2>8, <3>1, <3>2
  <2> QED BY <1>5, <1>8, <2>6, <2>7, <2>9, <2>10, <2>11, <2>12, <2>13, <2>14, <2>15, <2>16 DEF Plain
<1> QED BY <1>2, <1>3, <1>4, <1>5, <1>6, <1>7, <1>8 DEF Next, Rol, Plain

\* No two open streams share an address, wherever the first one starts: the
\* bytes wrap at 256 and a list has at most four streams.
THEOREM DistinctAddressesCorrect == Spec => []DistinctAddresses
<1> DEFINE I == FlowInv /\ ListTypeOK /\ AddrInv
<1>1. Init => I
  BY FlowInit, TypeInit, AddrInit
<1>2. I /\ [Next]_vars => I'
  BY FlowNext, TypeNext, AddrNext
<1>3. I => DistinctAddresses
  <2> SUFFICES ASSUME I, prog = <<>> \/ to # "prestarted", NEW i \in Inst, NEW j \in Inst, i # j,
                      request[i], request[j]
               PROVE  client[i].ip # client[j].ip /\ client[i].mac # client[j].mac
    BY DEF DistinctAddresses
  <2>1. ~Runs("prestart")
    BY HandlerIs DEF Runs, Idle, Empty
  <2>2. Chained(client[i], i) /\ Chained(client[j], j)
    BY <2>1 DEF AddrInv
  <2>3. i \in 0 .. 3 /\ j \in 0 .. 3 /\ 0 \in Inst
    <3>1. i \in Stream /\ j \in Stream
      BY DEF AddrInv
    <3>2. Stream \subseteq 0 .. 3
      BY Lengths DEF FlowInv
    <3> QED BY <3>1, <3>2, ZeroInst
  <2>4. PICK b \in 0 .. 255, c \in 0 .. 255 : b = client[0].ip /\ c = client[0].mac
    <3>1. client[0] \in Address
      BY <2>3 DEF ListTypeOK, AddrTypeOK
    <3>2. client[0].ip \in 0 .. 255 /\ client[0].mac \in 0 .. 255
      BY <3>1 DEF Address, Octet
    <3> QED BY <3>2, Zenon
  <2>5. ASSUME NEW a \in 0 .. 255 PROVE (a + i) % 256 # (a + j) % 256
    BY <2>3
  <2>6. (b + i) % 256 # (b + j) % 256 /\ (c + i) % 256 # (c + j) % 256
    BY <2>5
  <2> QED BY <2>2, <2>4, <2>6 DEF Chained
<1> QED BY <1>1, <1>2, <1>3, PTL DEF Spec

-----------------------------------------------------------------------------
(* Connections that are there, and those that are late *)

LEMMA LinkInit == Init => LinkInv
BY DEF Init, EbInit, LinkInv

\* Sockets close, and none is opened.
Shuts ==
    \A i \in Inst : /\ request'[i] => request[i] /\ link'[i] = link[i]
                    /\ link'[i] => request'[i]

LEMMA LinkKept ==
    ASSUME LinkInv, late' = late, Shuts, ~ (Runs("prestart") /\ Now > 10)
    PROVE  LinkInv'
BY DEF LinkInv, Shuts

LEMMA LinkStay ==
    ASSUME LinkInv, Stay, late' = late, request' = request,
           \A i \in Inst : link'[i] => request[i], \A i \in Inst : link[i] => link'[i]
    PROVE  LinkInv'
<1>1. Runs("prestart")' = Runs("prestart") /\ Now' = Now
  BY StayKeeps DEF Runs
<1> QED BY <1>1 DEF LinkInv

\* The loop over connections.
LEMMA LinkLoop ==
    ASSUME FlowInv, AddrInv, LinkInv, ~Idle, Handler = "prestart", Advance, Now > 10, late' = late, Shuts,
           \A i \in Stream : Now # 33 + 10 * i
    PROVE  LinkInv'
<1>1. Stream \subseteq 0 .. 3 /\ Runs("prestart")
  BY Lengths DEF FlowInv, Runs
<1>2. PICK n \in 0 .. 110 : n = Now
  BY NextCall
<1>3. CASE Onward
  <2>1. ~ Return
    BY <1>3 DEF Onward, Return
  <2>2. PICK m \in 0 .. 110 : m = Now' /\ n < m /\ \A i \in Stream : m > 33 + 10 * i => n >= 33 + 10 * i
    BY <1>2, <2>1, PrestartOrder
  <2>3. Runs("prestart")'
    BY <1>1, <1>3, SameHandler
  <2>4. ASSUME NEW i \in Inst \ late, request'[i] PROVE link'[i] \/ (Now' > 10 /\ Now' <= 33 + 10 * i)
    <3>1. i \in Stream /\ i \in 0 .. 3
      BY <1>1, <2>4 DEF AddrInv, Shuts
    <3>2. link[i] \/ n <= 33 + 10 * i
      BY <1>2, <2>4 DEF LinkInv, Shuts
    <3>3. n <= 33 + 10 * i => m > 10 /\ m <= 33 + 10 * i
      BY <1>2, <2>2, <3>1
    <3> QED BY <2>2, <2>4, <3>2, <3>3 DEF Shuts
  <2> QED BY <2>3, <2>4 DEF LinkInv, Shuts
<1>4. CASE Return /\ Now >= 70
  <2>1. ASSUME NEW i \in Inst \ late, request'[i] PROVE link'[i]
    <3>1. i \in 0 .. 3
      BY <1>1, <2>1 DEF AddrInv, Shuts
    <3>2. ~ (n <= 33 + 10 * i)
      BY <1>2, <1>4, <3>1
    <3> QED BY <1>2, <2>1, <3>2 DEF LinkInv, Shuts
  <2> QED BY <2>1 DEF LinkInv, Shuts
<1> QED BY <1>3, <1>4, PrestartOrder

\* After vtpStreamingTcpConnect a connection is there or late.
LEMMA LinkConnect ==
    ASSUME FlowInv, ListTypeOK, ConfigInv, AddrInv, LinkInv, ConnectStream PROVE LinkInv'
<1>1. Plain
  BY DEF Plain
<1>2. ~Idle /\ Advance
  BY <1>1, PlainCalls
<1>3. Stream \subseteq 0 .. 3 /\ Stream \subseteq Inst
  BY Lengths DEF FlowInv
<1>4. PICK j \in Stream : j = Arg /\ Handler = "prestart" /\ Now = 33 + 10 * j
  BY <1>2, Place DEF ConnectStream
<1>5. PICK n \in 0 .. 110 : n = Now
  BY <1>2, NextCall
<1>6. Runs("prestart") /\ fwType
  <2>1. Now > 0
    BY <1>3, <1>4
  <2> QED BY <1>2, <1>4, <2>1 DEF Runs, ConfigInv, ChipInv
<1>7. PICK up \in BOOLEAN :
         /\ request' = [request EXCEPT ![j] = TRUE] /\ link' = [link EXCEPT ![j] = up]
         /\ late' = IF up THEN late ELSE late \union {j}
  <2>1. PICK up \in BOOLEAN : TcpConnect(j, up) /\ late' = IF up THEN late ELSE late \union {j}
    BY <1>4 DEF ConnectStream
  <2> QED BY <1>3, <1>6, <2>1 DEF TcpConnect
<1>8. request \in [Inst -> BOOLEAN] /\ link \in [Inst -> BOOLEAN]
  BY DEF ListTypeOK, EbTyped
<1>9. Onward /\ ~ Return
  <2>1. ~ (Now >= 70)
    BY <1>3, <1>4
  <2> QED BY <1>2, <1>4, <2>1, PrestartOrder DEF Onward, Return
<1>10. PICK m \in 0 .. 110 : m = Now' /\ n < m /\ \A i \in Stream : m > 33 + 10 * i => n >= 33 + 10 * i
  BY <1>2, <1>4, <1>5, <1>9, PrestartOrder
<1>11. Runs("prestart")'
  BY <1>6, <1>9, SameHandler
<1>12. \A i \in Inst : link'[i] => request'[i]
  BY <1>7, <1>8 DEF LinkInv
<1>13. ASSUME NEW i \in Inst \ late', request'[i] PROVE link'[i] \/ (m > 10 /\ m <= 33 + 10 * i)
  <2>1. CASE i = j
    BY <1>7, <1>8, <1>13, <2>1
  <2>2. CASE i # j
    <3>1. request[i] /\ i \notin late /\ link'[i] = link[i]
      BY <1>7, <1>8, <1>13, <2>2
    <3>2. i \in Stream /\ i \in 0 .. 3
      BY <1>3, <3>1 DEF AddrInv
    <3>3. link[i] \/ n <= 33 + 10 * i
      BY <1>5, <3>1 DEF LinkInv
    <3>4. n <= 33 + 10 * i => m > 10 /\ m <= 33 + 10 * i
      BY <1>3, <1>4, <1>5, <1>10, <2>2, <3>2
    <3> QED BY <3>1, <3>3, <3>4
  <2> QED BY <2>1, <2>2
<1> QED BY <1>10, <1>11, <1>12, <1>13 DEF LinkInv

LEMMA LinkPayloads ==
    ASSUME FlowInv, ListTypeOK, AddrInv, LinkInv, SetPayloads PROVE LinkInv'
<1>1. Plain
  BY DEF Plain
<1>2. ~Idle /\ Advance /\ Handler = "prestart" /\ Now = 10
  BY <1>1, PlainCalls, Place DEF SetPayloads
<1>3. UNCHANGED <<request, link>>
  BY DEF SetPayloads, SetEbCfg, Checked, IfV7, ebVars, netVars
<1>4. Stream \subseteq 0 .. 3 /\ 0 \in Stream
  BY Lengths DEF FlowInv
<1>5. Onward /\ ~ Return
  BY <1>2, PrestartOrder DEF Onward, Return
<1>6. PICK m \in 11 .. 20 : m = Now'
  BY <1>2, <1>5, PrestartOrder
<1>7. Runs("prestart")'
  BY <1>2, <1>5, SameHandler
<1>8. ASSUME NEW i \in Inst, request[i] PROVE m > 10 /\ m <= 33 + 10 * i
  <2>1. i \in 0 .. 3
    BY <1>4, <1>8 DEF AddrInv
  <2> QED BY <1>6, <2>1
<1> QED BY <1>3, <1>6, <1>7, <1>8 DEF LinkInv

LEMMA LinkNext ==
    ASSUME FlowInv, ListTypeOK, ConfigInv, AddrInv, LinkInv, Next \/ UNCHANGED vars PROVE LinkInv'
<1>0. request \in [Inst -> BOOLEAN] /\ link \in [Inst -> BOOLEAN] /\ Stream \subseteq 0 .. 3
  BY Lengths DEF ListTypeOK, EbTyped, FlowInv
<1>1. ASSUME UNCHANGED <<request, link>> PROVE Shuts
  BY <1>1 DEF Shuts, LinkInv
<1>2. CASE Download \/ Prestart \/ Go \/ End
  <2>1. Idle
    BY <1>2, FlowCommands
  <2>2. late' = late /\ UNCHANGED <<request, link>>
    BY <1>2 DEF Download, Prestart, Go, End, Command, ebVars, netVars
  <2> QED BY <1>1, <2>1, <2>2, LinkKept DEF Runs
<1>3. CASE Pause \/ Reset
  <2>1. Idle /\ late' = late /\ UNCHANGED <<request, link>>
    BY <1>3, FlowIdle DEF Pause, Reset, ebVars, netVars
  <2> QED BY <1>1, <2>1, LinkKept DEF Runs
<1>4. CASE HoldSync \/ ReleaseSync \/ Hardware \/ UNCHANGED vars
  <2>1. Stay
    BY <1>4, FlowOthers
  <2>2. \A i \in Inst : link[i] => request[i]
    BY DEF LinkInv
  <2>3. /\ late' = late /\ request' = request
        /\ \A i \in Inst : link'[i] => request[i]
        /\ \A i \in Inst : link[i] => link'[i]
    <3>1. CASE HoldSync \/ ReleaseSync \/ UNCHANGED vars
      BY <2>2, <3>1 DEF HoldSync, ReleaseSync, vars, rolVars, ebVars, netVars
    <3>2. CASE SendAsync /\ UNCHANGED rolVars
      BY <2>2, <3>2 DEF rolVars, SendAsync, netVars
    <3>3. ASSUME NEW i \in Inst, BuildFrame(i, sync) \/ SendFrame(i), UNCHANGED rolVars
          PROVE  late' = late /\ request' = request /\ link' = link
      BY <3>3 DEF rolVars, BuildFrame, SendFrame, netVars
    <3>4. ASSUME NEW i \in Inst, LateConnect(i), UNCHANGED rolVars
          PROVE  /\ late' = late /\ request' = request
                 /\ \A j \in Inst : link'[j] => request[j]
                 /\ \A j \in Inst : link[j] => link'[j]
      BY <1>0, <2>2, <3>4 DEF rolVars, LateConnect
    <3> QED BY <1>4, <2>2, <3>1, <3>2, <3>3, <3>4 DEF Hardware
  <2> QED BY <2>1, <2>3, LinkStay
<1>5. CASE LoadUnmapped \/ InitVtp \/ ReadFile
  <2>1. ~ (Runs("prestart") /\ Now > 10)
    BY <1>5, FlowUnmapped, FlowInitVtp, FlowReadFile DEF Runs
  <2>2. late' = late /\ UNCHANGED <<request, link>>
    BY <1>5 DEF LoadUnmapped, InitVtp, ReadFile, SetEbCfg, Checked, IfV7, ebVars, netVars
  <2> QED BY <1>1, <2>1, <2>2, LinkKept
<1>6. CASE Plain
  <2>1. ~Idle /\ Advance
    BY <1>6, PlainCalls
  <2>2. CASE LoadZ7
    <3>1. Handler = "download"
      BY <2>1, <2>2, Place DEF LoadZ7
    <3>2. late' = late /\ Shuts
      BY <1>1, <2>2 DEF LoadZ7, Z7CfgLoad, Shuts, ebVars, netVars
    <3> QED BY <3>1, <3>2, LinkKept DEF Runs
  <2>3. CASE LoadV7
    <3>1. Handler = "download"
      BY <2>1, <2>3, Place DEF LoadV7
    <3>2. late' = late /\ Shuts
      BY <1>1, <2>3 DEF LoadV7, V7CfgLoad, netVars
    <3> QED BY <3>1, <3>2, LinkKept DEF Runs
  <2>4. CASE SetAddress
    <3>1. Now = 2
      BY <2>1, <2>4, Place DEF SetAddress
    <3>2. late' = late /\ Shuts
      BY <1>0, <1>1, <2>4 DEF SetAddress, SetNetCfg, ebVars, netVars, Shuts, LinkInv
    <3> QED BY <3>1, <3>2, LinkKept
  <2>5. CASE SetPayloads
    BY <2>5, LinkPayloads
  <2>6. CASE ConnectStream
    BY <2>6, LinkConnect
  <2>7. ASSUME Handler \in {"go", "end"}, late' = late, Shuts PROVE LinkInv'
    BY <2>7, LinkKept DEF Runs
  <2>8. ASSUME Handler = "prestart", Now > 10, late' = late, Shuts, \A i \in Stream : Now # 33 + 10 * i
        PROVE  LinkInv'
    BY <2>1, <2>8, LinkLoop
  <2>9. CASE EnableAsync \/ ResetLinks \/ GetBase
    <3>1. late' = late /\ UNCHANGED <<request, link>>
      BY <2>9 DEF EnableAsync, ResetLinks, GetBase, EbEnable, ResetDataPath, IfV7, ebVars, netVars
    <3>2. Handler \in {"prestart", "end"} /\ Now \in 20 .. 22
      BY <2>1, <2>9, Place DEF EnableAsync, ResetLinks, GetBase
    <3>3. \A i \in Stream : Now # 33 + 10 * i
      BY <1>0, <3>2
    <3> QED BY <1>1, <2>7, <2>8, <3>1, <3>2, <3>3
  <2>10. CASE NextAddress \/ NextPort \/ SetClient \/ SendGreeting
    <3>1. late' = late /\ Shuts
      <4>1. CASE SetClient
        BY <1>0, <1>1, <4>1 DEF SetClient, SetNetCfg, ebVars, netVars, Shuts, LinkInv
      <4>2. CASE NextAddress \/ NextPort \/ SendGreeting
        BY <1>1, <4>2 DEF NextAddress, NextPort, SendGreeting, ebVars, netVars
      <4> QED BY <2>10, <4>1, <4>2
    <3>2. Handler = "prestart" /\ Arg \in Stream
          /\ Now \in {30 + 10 * Arg, 31 + 10 * Arg, 32 + 10 * Arg, 34 + 10 * Arg}
      BY <2>1, <2>10, Place DEF NextAddress, NextPort, SetClient, SendGreeting
    <3>3. Now > 10 /\ \A i \in Stream : Now # 33 + 10 * i
      BY <1>0, <3>2
    <3> QED BY <2>8, <3>1, <3>2, <3>3
  <2>11. CASE WriteEvent
    <3>1. late' = late /\ UNCHANGED <<request, link>>
      BY <2>11 DEF WriteEvent, EvioWriteControl, IfV7, ebVars, netVars
    <3>2. CASE At("PRESTART")
      <4>1. Handler = "prestart" /\ Arg \in 0 .. 3 /\ Now = 70 + Arg
        BY <2>1, <3>2, Place, Lengths DEF FlowInv
      <4>2. Now > 10 /\ \A i \in Stream : Now # 33 + 10 * i
        BY <1>0, <4>1
      <4> QED BY <1>1, <2>8, <3>1, <4>1, <4>2
    <3>3. CASE At("GO") \/ At("END")
      BY <1>1, <2>1, <2>7, <3>1, <3>3, Place
    <3> QED BY <2>11, <3>2, <3>3 DEF WriteEvent, Control
  <2>12. CASE EnablePayloads \/ WaitForData \/ WaitForEvents \/ ResetEb \/ CloseStream
    <3>1. Handler \in {"go", "end"}
      BY <2>1, <2>12, Place DEF EnablePayloads, WaitForData, WaitForEvents, ResetEb, CloseStream
    <3>2. late' = late /\ Shuts
      <4>1. CASE CloseStream
        BY <1>0, <1>1, <4>1 DEF CloseStream, TcpDisconnect, ebVars, netVars, Shuts, LinkInv
      <4>2. CASE EnablePayloads \/ WaitForData \/ WaitForEvents \/ ResetEb
        BY <1>1, <4>2 DEF EnablePayloads, WaitForData, WaitForEvents, ResetEb, EbEnable, EbDisable, IfV7,
                          ebVars, netVars
      <4> QED BY <2>12, <4>1, <4>2
    <3> QED BY <2>7, <3>1, <3>2
  <2> QED BY <1>6, <2>2, <2>3, <2>4, <2>5, <2>6, <2>9, <2>10, <2>11, <2>12 DEF Plain
<1> QED BY <1>2, <1>3, <1>4, <1>5, <1>6 DEF Next, Rol, Plain

-----------------------------------------------------------------------------
(* The End event and the frames it counts *)

LEMMA EndInit == Init => EndInv
BY DEF Init, EbInit, V7PowerOn, EndInv, Ended, Runs, Idle, Empty

\* rocEnd closes the streams in order, after their End events.
LEMMA EndOrder ==
    ASSUME FlowInv, ~Idle, Handler = "end", Advance
    PROVE  \/ /\ Onward /\ Now' \in 0 .. 110 /\ Now < Now'
              /\ \A i \in Stream : Now' > 50 + i => Now >= 50 + i
              /\ \A i \in Told : Now' > 30 + i => Now >= 30 + i
              /\ Now' > 40 => Now >= 40
           \/ Return /\ \A i \in Stream : Now >= 50 + i
<1> DEFINE C == CallsOf("end")
<1>1. Onward \/ (Return /\ \A c \in CallsOf(Handler) : Time[c] <= Now)
  BY Proceed
<1>2. Stream \subseteq 0 .. 3 /\ Told \subseteq 0 .. 3
  BY Lengths DEF FlowInv
<1>3. /\ \A i \in Stream : Call("close", i) \in C /\ Time[Call("close", i)] = 50 + i
      /\ \A i \in Told : Call("END", i) \in C /\ Time[Call("END", i)] = 30 + i
      /\ Call("flush", 0) \in C /\ Time[Call("flush", 0)] = 40
  <2>1. Stream \subseteq 0 .. 4 /\ Told \subseteq 0 .. 4 /\ 0 \in 0 .. 4
    BY <1>2
  <2> QED BY <2>1, CallFields, Times DEF CallsOf, EndCall
<1>4. PICK n \in 0 .. 110 : n = Now
  BY NextCall
<1> HIDE DEF C
<1>5. CASE Onward
  <2>1. PICK m \in 0 .. 110 : m = Now'
    BY <1>5 DEF Onward
  <2>2. n < m /\ \A c \in C : Time[c] < m => Time[c] <= n
    BY <1>4, <1>5, <2>1 DEF Onward, C
  <2>3. \A i \in Stream : m > 50 + i => n >= 50 + i
    BY <1>2, <1>3, <2>2
  <2>4. \A i \in Told : m > 30 + i => n >= 30 + i
    BY <1>2, <1>3, <2>2
  <2>5. m > 40 => n >= 40
    BY <1>3, <2>2
  <2> QED BY <1>4, <1>5, <2>1, <2>2, <2>3, <2>4, <2>5
<1>6. CASE Return /\ \A c \in CallsOf(Handler) : Time[c] <= Now
  <2>1. \A i \in Stream : 50 + i <= n
    BY <1>3, <1>4, <1>6 DEF C
  <2> QED BY <1>2, <1>4, <1>6, <2>1
<1> QED BY <1>1, <1>5, <1>6

\* Without an End event on an open stream.
LEMMA NoneEnded ==
    ASSUME EndInv, ~Runs("end")
    PROVE  \A i \in Inst : ~Ended(i)
BY DEF EndInv

LEMMA EndFresh ==
    ASSUME EndInv, ~ (Runs("end")' /\ Now' > 0), \A i \in Inst : ~Ended(i)',
           Runs("prestart")' /\ Now' > 10 => \A i \in Inst : posted'[i] \notin {"GO", "END"}
    PROVE  EndInv'
BY DEF EndInv

\* Outside rocEnd, no End event is written and none is on an open stream.
LEMMA EndOutside ==
    ASSUME EndInv, ~Runs("end"),
           \/ Stay
           \/ ~Runs("end")' \/ Now' = 0,
           \/ ~Runs("prestart")' \/ ~ (Now' > 10)
           \/ Runs("prestart") /\ Now > 10,
           \A i \in Inst : posted'[i] = posted[i] \/ posted'[i] \in {"PRESTART", "NONE"}
                           \/ (posted'[i] = "GO" /\ ~Runs("prestart")'),
           \A i \in Inst : request'[i] => request[i] \/ (Runs("prestart") /\ Now > 10)
    PROVE  EndInv'
<1>1. \A i \in Inst : ~Ended(i)
  BY NoneEnded
<1>2. ~ (Runs("end")' /\ Now' > 0)
  <2>1. CASE Stay
    BY <2>1, StayKeeps DEF Runs
  <2> QED BY <2>1
<1>3. ASSUME NEW i \in Inst PROVE ~Ended(i)'
  BY <1>1 DEF Ended, EndInv
<1>4. Runs("prestart")' /\ Now' > 10 => \A i \in Inst : posted'[i] \notin {"GO", "END"}
  BY DEF EndInv
<1> QED BY <1>2, <1>3, <1>4, EndFresh

LEMMA ToldTwo == ASSUME list \in Lists PROVE Told \subseteq {0, 1}
<1>1. CASE list = "1tcp"
  BY <1>1 DEF Told, Connections
<1>2. CASE list = "2tcp"
  BY <1>2 DEF Told, Connections
<1>3. CASE list \notin {"1tcp", "2tcp"}
  BY <1>3 DEF Told
<1> QED BY <1>1, <1>2, <1>3

\* A call of rocEnd.
LEMMA EndStep ==
    ASSUME FlowInv, EndInv, ~Idle, Handler = "end", Advance, late' = late, fwType' = fwType,
           sync, \A i \in Inst \ late : request'[i] => inFlight'[i] = 0,
           \A i \in Inst : Ended(i)' =>
              \/ /\ Ended(i) /\ Now # 50 + i
                 /\ i \notin late => endCount'[i] = endCount[i] /\ framesSent'[i] = framesSent[i]
              \/ /\ Now = 30 + i /\ i \in Told /\ fwType
                 /\ i \notin late => endCount'[i] = framesSent'[i]
    PROVE  EndInv'
<1>1. list' = list /\ sync' = sync /\ Told' = Told /\ Told \subseteq Stream /\ Stream \subseteq 0 .. 3
  BY SamePorts, Lengths DEF FlowInv, Advance
<1>2. PICK n \in 0 .. 110 : n = Now
  BY NextCall
<1>3. ASSUME NEW i \in Inst, Ended(i)'
      PROVE  /\ i \in Told /\ i \in 0 .. 3 /\ fwType /\ n >= 30 + i /\ n < 50 + i
             /\ i \notin late => endCount'[i] = framesSent'[i]
  <2>1. CASE Ended(i) /\ Now # 50 + i
             /\ (i \notin late => endCount'[i] = endCount[i] /\ framesSent'[i] = framesSent[i])
    <3>1. fwType /\ 30 + i < Now /\ Now <= 50 + i /\ i \in Told
      BY <2>1 DEF EndInv
    <3>2. i \notin late => endCount[i] = framesSent[i]
      BY <2>1 DEF EndInv
    <3>3. i \in 0 .. 3
      BY <1>1, <3>1
    <3>4. n >= 30 + i /\ n < 50 + i
      BY <1>2, <2>1, <3>1, <3>3
    <3> QED BY <2>1, <3>1, <3>2, <3>3, <3>4
  <2>2. CASE Now = 30 + i /\ i \in Told /\ fwType /\ (i \notin late => endCount'[i] = framesSent'[i])
    BY <1>1, <1>2, <2>2
  <2> QED BY <1>3, <2>1, <2>2
<1>4. CASE Onward
  <2>1. Runs("end")' /\ ~Runs("prestart")' /\ ~ Return
    BY <1>4, SameHandler DEF Onward, Return
  <2>2. PICK m \in 0 .. 110 : m = Now' /\ n < m /\ \A i \in Stream : m > 50 + i => n >= 50 + i
    BY <1>2, <2>1, EndOrder
  <2>3. ASSUME NEW i \in Inst, Ended(i)' PROVE 30 + i < m /\ m <= 50 + i
    <3>1. i \in Stream /\ i \in 0 .. 3 /\ n >= 30 + i /\ n < 50 + i
      BY <1>1, <1>3, <2>3
    <3> QED BY <2>2, <3>1
  <2> QED BY <1>1, <1>3, <2>1, <2>2, <2>3 DEF EndInv
<1>5. CASE Return /\ \A i \in Stream : Now >= 50 + i
  <2>1. ASSUME NEW i \in Inst, Ended(i)' PROVE FALSE
    <3>1. i \in Stream /\ i \in 0 .. 3 /\ n < 50 + i
      BY <1>1, <1>3, <2>1
    <3>2. n >= 50 + i
      BY <1>2, <1>5, <3>1
    <3> QED BY <3>1, <3>2
  <2>2. ~Runs("end")' /\ ~Runs("prestart")'
    BY <1>5 DEF Return, Runs
  <2> QED BY <2>1, <2>2 DEF EndInv
<1> QED BY <1>4, <1>5, EndOrder

\* The calls of rocEnd.
LEMMA EndCalls ==
    ASSUME FlowInv, ListTypeOK, LinkInv, EndInv, Plain, Handler = "end" PROVE EndInv'
<1>1. ~Idle /\ Advance /\ fwType' = fwType
  BY PlainCalls
<1>2. PICK n \in 0 .. 110 : n = Now
  BY <1>1, NextCall
<1>3. Told \subseteq Stream /\ Stream \subseteq 0 .. 3 /\ Stream \subseteq Inst /\ list \in Lists
  BY Lengths DEF FlowInv
<1>4. Runs("end") /\ ~Runs("prestart")
  BY <1>1 DEF Runs
<1>5. /\ request \in [Inst -> BOOLEAN] /\ link \in [Inst -> BOOLEAN] /\ posted \in [Inst -> Posted]
      /\ endCount \in [Inst -> Nat] /\ inFlight \in [Inst -> Nat]
  BY DEF ListTypeOK, EbTyped
<1>6. Now > 0 => sync /\ \A i \in Inst \ late : request[i] => inFlight[i] = 0
  BY <1>4 DEF EndInv
<1>7. ASSUME late' = late, Now > 0, UNCHANGED <<request, posted, endCount, framesSent, inFlight>>,
             \A i \in Stream : Now # 50 + i
      PROVE  EndInv'
  <2>1. \A i \in Inst : Ended(i) => i \in Stream
    BY <1>3 DEF EndInv
  <2>2. \A i \in Inst : Ended(i)' => Ended(i)
    BY <1>7 DEF Ended
  <2> QED BY <1>1, <1>6, <1>7, <2>1, <2>2, EndStep
<1>8. CASE WaitForData
  <2>1. At("wait") /\ sync /\ UNCHANGED <<late, request, posted, endCount, framesSent, inFlight>>
        /\ \A i \in Inst : link[i] => inFlight[i] = 0
    BY <1>8 DEF WaitForData, ebVars, netVars, dataVars, histVars
  <2>2. Now = 0
    BY <1>1, <2>1, Place
  <2>3. \A i \in Inst : ~Ended(i)
    <3>1. ASSUME NEW i \in Inst, Ended(i) PROVE FALSE
      <4>1. 30 + i < Now /\ i \in 0 .. 3
        BY <1>3, <3>1 DEF EndInv
      <4> QED BY <2>2, <4>1
    <3> QED BY <3>1
  <2>4. \A i \in Inst \ late : request'[i] => inFlight'[i] = 0
    BY <1>4, <2>1 DEF LinkInv
  <2>5. \A i \in Inst : ~Ended(i)'
    BY <2>1, <2>3 DEF Ended
  <2> QED BY <1>1, <2>1, <2>4, <2>5, EndStep
<1>9. CASE EnableAsync
  <2>1. Now = 20
    BY <1>1, <1>9, Place DEF EnableAsync
  <2>2. late' = late /\ UNCHANGED <<request, posted, endCount, framesSent, inFlight>>
    BY <1>9 DEF EnableAsync, EbEnable, IfV7, ebVars, netVars, dataVars, histVars
  <2> QED BY <1>3, <1>7, <2>1, <2>2
<1>10. CASE WaitForEvents
  <2>1. Now = 40
    BY <1>1, <1>10, Place DEF WaitForEvents
  <2>2. late' = late /\ UNCHANGED <<request, posted, endCount, framesSent, inFlight>>
    BY <1>10 DEF WaitForEvents, ebVars, netVars, dataVars, histVars
  <2> QED BY <1>3, <1>7, <2>1, <2>2
<1>11. CASE ResetEb
  <2>1. Now = 41
    BY <1>1, <1>11, Place DEF ResetEb
  <2>2. late' = late /\ UNCHANGED <<request, posted, endCount, framesSent, inFlight>>
    BY <1>11 DEF ResetEb, EbDisable, IfV7, ebVars, netVars, dataVars, histVars
  <2> QED BY <1>3, <1>7, <2>1, <2>2
<1>12. CASE WriteEvent
  <2>1. PICK j \in Told : At("END") /\ j = Arg /\ Now = 30 + j
    <3>1. At("END")
      BY <1>1, <1>12, Place DEF WriteEvent, Control
    <3> QED BY <1>1, <3>1, Place
  <2>2. EvioWriteControl(j, "END", framesSent[j])
    <3>1. FramesSent(j) = framesSent[j]
      BY <1>3, ToldTwo DEF FramesSent
    <3>2. \A type \in Control : At(type) => type = "END"
      BY <2>1 DEF At
    <3> QED BY <1>12, <2>1, <3>1, <3>2 DEF WriteEvent
  <2>3. late' = late /\ UNCHANGED <<request, framesSent, inFlight>>
    BY <1>12 DEF WriteEvent, EvioWriteControl, IfV7, ebVars, netVars, dataVars
  <2>4. j \in Inst /\ j \in 0 .. 3
    BY <1>3
  <2>5. Now > 0 /\ \A i \in Stream : Now # 50 + i
    BY <1>3, <2>1, <2>4
  <2>6. CASE fwType /\ v7Done
    <3>1. posted' = [posted EXCEPT ![j] = "END"] /\ endCount' = [endCount EXCEPT ![j] = framesSent[j]]
      BY <2>2, <2>4, <2>6 DEF EvioWriteControl, IfV7
    <3>2. ASSUME NEW i \in Inst, Ended(i)'
          PROVE  \/ /\ Ended(i) /\ Now # 50 + i
                    /\ i \notin late => endCount'[i] = endCount[i] /\ framesSent'[i] = framesSent[i]
                 \/ /\ Now = 30 + i /\ i \in Told /\ fwType
                    /\ i \notin late => endCount'[i] = framesSent'[i]
      <4>1. CASE i = j
        BY <1>5, <2>1, <2>3, <2>4, <2>6, <3>1, <4>1
      <4>2. CASE i # j
        <5>1. Ended(i) /\ endCount'[i] = endCount[i] /\ framesSent'[i] = framesSent[i]
          BY <1>5, <2>3, <3>1, <3>2, <4>2 DEF Ended
        <5>2. i \in Stream
          BY <1>3, <5>1 DEF EndInv
        <5> QED BY <2>5, <5>1, <5>2
      <4> QED BY <4>1, <4>2
    <3> QED BY <1>1, <1>6, <2>3, <2>5, <3>2, EndStep
  <2>7. CASE ~ (fwType /\ v7Done)
    <3>1. UNCHANGED <<posted, endCount>>
      BY <2>2, <2>7 DEF EvioWriteControl, IfV7, ebVars, histVars
    <3> QED BY <1>7, <2>3, <2>5, <3>1
  <2> QED BY <2>6, <2>7
<1>13. CASE CloseStream
  <2>1. PICK j \in Stream : j = Arg /\ Now = 50 + j
    BY <1>1, <1>13, Place DEF CloseStream
  <2>2. late' = late /\ UNCHANGED <<posted, endCount, framesSent>>
    BY <1>13 DEF CloseStream, TcpDisconnect, ebVars, dataVars, histVars
  <2>3. j \in Inst /\ j \in 0 .. 3
    BY <1>3
  <2>4. Now > 0
    BY <2>1, <2>3
  <2>5. IF fwType THEN request' = [request EXCEPT ![j] = FALSE] /\ inFlight' = [inFlight EXCEPT ![j] = 0]
        ELSE UNCHANGED <<request, inFlight>>
    BY <1>13, <2>1, <2>3 DEF CloseStream, TcpDisconnect, ebVars, netVars, dataVars
  <2>6. \A i \in Inst : request'[i] => request[i] /\ (inFlight[i] = 0 => inFlight'[i] = 0)
    BY <1>5, <2>5
  <2>7. ASSUME NEW i \in Inst, Ended(i)' PROVE Ended(i) /\ Now # 50 + i
    <3>1. Ended(i)
      BY <2>2, <2>6, <2>7 DEF Ended
    <3>2. fwType /\ i \in 0 .. 3
      BY <1>3, <3>1 DEF EndInv
    <3>3. i # j
      BY <1>5, <2>5, <2>7, <3>2 DEF Ended
    <3> QED BY <2>1, <2>3, <3>1, <3>2, <3>3
  <2>8. \A i \in Inst \ late : request'[i] => inFlight'[i] = 0
    BY <1>6, <2>4, <2>6
  <2> QED BY <1>1, <1>6, <2>2, <2>4, <2>7, <2>8, EndStep
<1>14. CASE ~ (WaitForData \/ EnableAsync \/ WaitForEvents \/ ResetEb \/ WriteEvent \/ CloseStream)
  <2>1. ~ (LoadZ7 \/ LoadV7 \/ SetAddress \/ SetPayloads \/ ResetLinks \/ GetBase)
    BY <1>1, Place DEF LoadZ7, LoadV7, SetAddress, SetPayloads, ResetLinks, GetBase
  <2>2. ~ (NextAddress \/ NextPort \/ SetClient \/ ConnectStream \/ SendGreeting \/ EnablePayloads)
    BY <1>1, Place DEF NextAddress, NextPort, SetClient, ConnectStream, SendGreeting, EnablePayloads
  <2> QED BY <1>14, <2>1, <2>2 DEF Plain
<1> QED BY <1>8, <1>9, <1>10, <1>11, <1>12, <1>13, <1>14

\* While rocEnd runs, the hardware sends and the user sync holds.
LEMMA EndStay ==
    ASSUME FlowInv, ListTypeOK, EndInv, Runs("end"), HoldSync \/ ReleaseSync \/ Hardware \/ UNCHANGED vars
    PROVE  EndInv'
<1>1. Stay /\ to = "downloaded"
  BY FlowOthers, Mapped DEF Runs
<1>2. /\ Runs("end")' /\ ~Runs("prestart")' /\ Now' = Now /\ list' = list /\ Told' = Told
      /\ late' = late /\ fwType' = fwType /\ UNCHANGED <<request, posted, endCount>>
  <2>1. Runs("end")' /\ ~Runs("prestart")' /\ Now' = Now /\ list' = list /\ Told' = Told
    BY <1>1, StayKeeps, SamePorts DEF Runs, Stay
  <2>2. CASE HoldSync \/ ReleaseSync \/ UNCHANGED vars
    BY <2>1, <2>2 DEF HoldSync, ReleaseSync, vars, rolVars, ebVars, netVars, histVars, chipVars
  <2>3. CASE Hardware
    BY <2>1, <2>3 DEF Hardware, rolVars, SendAsync, BuildFrame, SendFrame, LateConnect, netVars, histVars,
                      chipVars
  <2> QED BY <2>2, <2>3
<1>3. inFlight \in [Inst -> Nat] /\ framesSent \in [Inst -> Nat]
  BY DEF ListTypeOK, EbTyped
<1>4. ASSUME Now > 0
      PROVE  sync' /\ \A i \in Inst : inFlight[i] = 0 => inFlight'[i] = 0 /\ framesSent'[i] = framesSent[i]
  <2>1. sync
    BY <1>4 DEF EndInv
  <2>2. CASE HoldSync \/ ReleaseSync \/ UNCHANGED vars
    BY <1>1, <2>1, <2>2 DEF HoldSync, ReleaseSync, vars, rolVars, ebVars, dataVars
  <2>3. CASE SendAsync /\ UNCHANGED rolVars
    BY <2>1, <2>3 DEF SendAsync, rolVars, dataVars
  <2>4. CASE \E i \in Inst : BuildFrame(i, sync)
    BY <2>1, <2>4 DEF BuildFrame
  <2>5. ASSUME NEW i \in Inst, SendFrame(i), UNCHANGED rolVars
        PROVE  /\ sync'
               /\ \A j \in Inst : inFlight[j] = 0 => inFlight'[j] = 0 /\ framesSent'[j] = framesSent[j]
    BY <1>3, <2>1, <2>5 DEF SendFrame, rolVars
  <2>6. ASSUME NEW i \in Inst, LateConnect(i), UNCHANGED rolVars
        PROVE  sync' /\ UNCHANGED <<inFlight, framesSent>>
    BY <2>1, <2>6 DEF LateConnect, rolVars, dataVars
  <2> QED BY <2>2, <2>3, <2>4, <2>5, <2>6 DEF Hardware
<1>5. ASSUME NEW i \in Inst, Ended(i)
      PROVE  Now > 0 /\ (i \notin late => endCount'[i] = framesSent'[i])
  <2>1. Now > 0 /\ (i \notin late => endCount[i] = framesSent[i])
    <3>1. 30 + i < Now /\ i \in Told /\ (i \notin late => endCount[i] = framesSent[i])
      BY <1>5 DEF EndInv
    <3>2. i \in 0 .. 3
      BY <3>1, Lengths DEF FlowInv
    <3>3. PICK n \in 0 .. 110 : n = Now
      BY NextCall DEF Runs
    <3> QED BY <3>1, <3>2, <3>3
  <2>2. i \notin late => inFlight[i] = 0
    BY <1>5, <2>1 DEF EndInv, Ended
  <2> QED BY <1>2, <1>4, <2>1, <2>2
<1>6. \A i \in Inst : Ended(i)' => Ended(i)
  BY <1>2 DEF Ended
<1> QED BY <1>2, <1>4, <1>5, <1>6 DEF EndInv

LEMMA EndNext ==
    ASSUME FlowInv, ListTypeOK, ConfigInv, LinkInv, EndInv, Next \/ UNCHANGED vars PROVE EndInv'
<1>0. /\ request \in [Inst -> BOOLEAN] /\ posted \in [Inst -> Posted]
      /\ Stream \subseteq 0 .. 3 /\ Stream \subseteq Inst /\ PreTold \subseteq Stream
  BY Lengths DEF ListTypeOK, EbTyped, FlowInv
<1>1. CASE Download \/ Prestart \/ Go \/ End
  <2>1. Idle /\ ~Idle' /\ Now' = 0
    BY <1>1, FlowCommands
  <2>2. UNCHANGED <<request, posted>>
    BY <1>1 DEF Download, Prestart, Go, End, Command, ebVars, netVars, histVars
  <2>3. ~ (Now' > 10)
    BY <2>1
  <2> QED BY <2>1, <2>2, <2>3, EndOutside DEF Runs
<1>2. CASE Pause \/ Reset
  <2>1. Idle /\ Idle' /\ UNCHANGED ebVars
    BY <1>2, FlowIdle
  <2> QED BY <2>1, EndOutside DEF Runs, ebVars, netVars, histVars
<1>3. CASE HoldSync \/ ReleaseSync \/ Hardware \/ UNCHANGED vars
  <2>1. CASE Runs("end")
    BY <1>3, <2>1, EndStay
  <2>2. CASE ~Runs("end")
    <3>1. Stay
      BY <1>3, FlowOthers
    <3>2. UNCHANGED <<request, posted>>
      <4>1. CASE HoldSync \/ ReleaseSync \/ UNCHANGED vars
        BY <4>1 DEF HoldSync, ReleaseSync, vars, ebVars, netVars, histVars
      <4>2. CASE Hardware
        BY <4>2 DEF Hardware, SendAsync, BuildFrame, SendFrame, LateConnect, netVars, histVars
      <4> QED BY <1>3, <4>1, <4>2
    <3>3. Runs("prestart")' /\ Now' > 10 => Runs("prestart") /\ Now > 10
      BY <3>1, StayKeeps DEF Runs
    <3> QED BY <2>2, <3>1, <3>2, <3>3, EndOutside
  <2> QED BY <2>1, <2>2
<1>4. CASE LoadUnmapped
  <2>1. ~Runs("end") /\ Idle'
    BY <1>4, FlowUnmapped DEF Runs
  <2>2. UNCHANGED <<request, posted>>
    BY <1>4 DEF LoadUnmapped, netVars, histVars
  <2> QED BY <2>1, <2>2, EndOutside DEF Runs
<1>5. CASE InitVtp
  <2>1. ~Idle /\ Handler = "prestart" /\ Now = 0 /\ (Onward \/ Return)
    BY <1>5, FlowInitVtp
  <2>2. UNCHANGED <<request, posted>>
    BY <1>5 DEF InitVtp, netVars, histVars
  <2>3. ~Runs("end") /\ ~Runs("end")' /\ (~Runs("prestart")' \/ ~ (Now' > 10))
    <3>1. CASE Return
      BY <2>1, <3>1 DEF Return, Runs
    <3>2. CASE Onward
      <4>1. Call("file", 0) \in CallsOf("prestart") /\ Time[Call("file", 0)] = 1
        BY PrestartMade, Times DEF FlowInv
      <4>2. Now' \in 0 .. 110 /\ ~ (1 < Now')
        BY <2>1, <3>2, <4>1 DEF Onward
      <4>3. ~ (Now' > 10)
        BY <4>2
      <4> QED BY <2>1, <3>2, <4>3, SameHandler
    <3> QED BY <2>1, <3>1, <3>2
  <2> QED BY <2>2, <2>3, EndOutside
<1>6. CASE ReadFile
  <2>1. ~Idle /\ Handler = "prestart" /\ Now = 1 /\ Handler' = "prestart" /\ Now' \in {2, 10}
    BY <1>6, FlowReadFile
  <2>2. request' = request /\ (posted' = posted \/ \A i \in Inst : posted'[i] \in {"CFG", "NONE"})
    BY <1>6 DEF ReadFile, SetEbCfg, Checked, IfV7, ebVars, netVars, histVars
  <2>3. ~Runs("end") /\ ~Runs("end")' /\ ~ (Now' > 10)
    BY <2>1 DEF Runs
  <2>4. \A i \in Inst : ~Ended(i)'
    BY <2>2, <2>3, NoneEnded DEF Ended
  <2> QED BY <2>3, <2>4, EndFresh
<1>7. CASE Plain
  <2>1. ~Idle /\ Advance /\ FlowInv' /\ (Onward \/ Return)
    BY <1>7, PlainCalls, FlowAdvance
  <2>2. CASE Handler = "end"
    BY <1>7, <2>2, EndCalls
  <2>3. CASE LoadZ7 \/ LoadV7
    <3>1. Handler = "download"
      BY <2>1, <2>3, Place DEF LoadZ7, LoadV7
    <3>2. ~Runs("end") /\ ~Runs("end")' /\ ~Runs("prestart")'
      BY <2>1, <3>1, SameHandler DEF Return, Runs
    <3>3. /\ \A i \in Inst : posted'[i] = posted[i] \/ posted'[i] = "NONE"
          /\ \A i \in Inst : request'[i] => request[i]
      <4>1. CASE LoadZ7
        BY <4>1 DEF LoadZ7, Z7CfgLoad, ebVars, netVars, histVars
      <4>2. CASE LoadV7
        BY <4>2 DEF LoadV7, V7CfgLoad, netVars
      <4> QED BY <2>3, <4>1, <4>2
    <3> QED BY <3>2, <3>3, EndOutside
  <2>4. CASE SetPayloads
    <3>1. Handler = "prestart" /\ Now = 10
      BY <2>1, <2>4, Place DEF SetPayloads
    <3>2. fwType /\ v7Done
      BY <2>1, <3>1 DEF ConfigInv, ChipInv, Runs
    <3>3. posted' = [i \in Inst |-> IF i < ClampStreams(Arg) THEN "CFG" ELSE "NONE"]
      BY <2>4, <3>2 DEF SetPayloads, SetEbCfg, Checked, IfV7
    <3>4. \A i \in Inst : posted'[i] \notin {"GO", "END"}
      BY <3>3
    <3>5. ~Runs("end")'
      BY <2>1, <3>1, SameHandler DEF Return, Runs
    <3> QED BY <3>4, <3>5, EndFresh DEF Ended
  <2>5. CASE SetAddress
    <3>1. Handler = "prestart" /\ Now = 2
      BY <2>1, <2>5, Place DEF SetAddress
    <3>2. ~Runs("end") /\ ~Runs("end")' /\ (~Runs("prestart")' \/ ~ (Now' > 10))
      <4>1. Onward /\ ~ Return
        BY <2>1, <3>1, PrestartOrder DEF Onward, Return
      <4>2. ~ (Now' > 10)
        BY <2>1, <3>1, <4>1, PrestartOrder
      <4> QED BY <3>1, <4>1, <4>2, SameHandler
    <3>3. posted' = posted /\ \A i \in Inst : request'[i] => request[i]
      BY <1>0, <2>5 DEF SetAddress, SetNetCfg, ebVars, netVars, histVars
    <3> QED BY <3>2, <3>3, EndOutside
  <2>6. ASSUME Handler = "prestart", Now > 10, \A i \in Inst : posted'[i] = posted[i] \/ posted'[i] = "PRESTART"
        PROVE  EndInv'
    <3>1. ~Runs("end") /\ ~Runs("end")' /\ Runs("prestart")
      BY <2>1, <2>6, SameHandler DEF Return, Runs
    <3> QED BY <2>6, <3>1, EndOutside
  <2>7. CASE Handler = "prestart" /\ (EnableAsync \/ ResetLinks \/ GetBase)
    <3>1. Now \in 20 .. 22
      BY <2>1, <2>7, Place DEF EnableAsync, ResetLinks, GetBase
    <3>2. posted' = posted
      BY <2>7 DEF EnableAsync, ResetLinks, GetBase, EbEnable, ResetDataPath, IfV7, ebVars, histVars
    <3> QED BY <2>6, <2>7, <3>1, <3>2
  <2>8. CASE NextAddress \/ NextPort \/ SetClient \/ ConnectStream \/ SendGreeting
    <3>1. Handler = "prestart" /\ Arg \in Stream
          /\ Now \in {30 + 10 * Arg, 31 + 10 * Arg, 32 + 10 * Arg, 33 + 10 * Arg, 34 + 10 * Arg}
      BY <2>1, <2>8, Place DEF NextAddress, NextPort, SetClient, ConnectStream, SendGreeting
    <3>2. Now > 10
      BY <1>0, <3>1
    <3>3. posted' = posted
      BY <2>8 DEF NextAddress, NextPort, SetClient, ConnectStream, SendGreeting, SetNetCfg, TcpConnect,
                  ebVars, histVars
    <3> QED BY <2>6, <3>1, <3>2, <3>3
  <2>9. CASE WriteEvent /\ At("PRESTART")
    <3>1. Handler = "prestart" /\ Arg \in PreTold /\ Now = 70 + Arg
      BY <2>1, <2>9, Place
    <3>2. Arg \in Inst /\ Now > 10
      BY <1>0, <3>1
    <3>3. EvioWriteControl(Arg, "PRESTART", 0)
      BY <2>9 DEF WriteEvent, At, Control
    <3>4. posted' = [posted EXCEPT ![Arg] = "PRESTART"] \/ posted' = posted
      BY <3>3 DEF EvioWriteControl, IfV7, ebVars, histVars
    <3>5. \A i \in Inst : posted'[i] = posted[i] \/ posted'[i] = "PRESTART"
      BY <1>0, <3>2, <3>4
    <3> QED BY <2>6, <3>1, <3>2, <3>5
  <2>10. CASE Handler = "go" /\ (WriteEvent \/ EnablePayloads)
    <3>1. ~Runs("end") /\ ~Runs("end")' /\ ~Runs("prestart")'
      BY <2>1, <2>10, SameHandler DEF Return, Runs
    <3>2. CASE EnablePayloads
      BY <3>1, <3>2, EndOutside DEF EnablePayloads, EbEnable, IfV7, ebVars, netVars, histVars
    <3>3. CASE WriteEvent
      <4>1. At("GO")
        BY <2>1, <2>10, <3>3, Place DEF WriteEvent, Control
      <4>2. EvioWriteControl(Arg, "GO", 0)
        BY <3>3, <4>1 DEF WriteEvent, At, Control
      <4>3. Arg \in Inst
        BY <1>0, <2>1, <4>1, Place, Lengths DEF FlowInv
      <4>4. (posted' = [posted EXCEPT ![Arg] = "GO"] \/ posted' = posted) /\ request' = request
        BY <4>2 DEF EvioWriteControl, IfV7, ebVars, histVars, netVars
      <4>5. \A i \in Inst : posted'[i] = posted[i] \/ posted'[i] = "GO"
        BY <1>0, <4>3, <4>4
      <4> QED BY <3>1, <4>4, <4>5, EndOutside
    <3> QED BY <2>10, <3>2, <3>3
  <2>11. CASE WriteEvent
    <3>1. At("PRESTART") \/ (At("GO") /\ Handler = "go") \/ (At("END") /\ Handler = "end")
      BY <2>1, <2>11, Place DEF WriteEvent, Control
    <3> QED BY <2>2, <2>9, <2>10, <2>11, <3>1
  <2>12. CASE EnablePayloads \/ WaitForData \/ WaitForEvents \/ ResetEb \/ CloseStream
    <3>1. Handler = "end" \/ (Handler = "go" /\ EnablePayloads)
      BY <2>1, <2>12, Place DEF EnablePayloads, WaitForData, WaitForEvents, ResetEb, CloseStream
    <3> QED BY <2>2, <2>10, <3>1
  <2>13. CASE EnableAsync \/ ResetLinks \/ GetBase
    <3>1. Handler \in {"prestart", "end"}
      BY <2>1, <2>13, Place DEF EnableAsync, ResetLinks, GetBase
    <3> QED BY <2>2, <2>7, <2>13, <3>1
  <2> QED BY <1>7, <2>3, <2>4, <2>5, <2>8, <2>11, <2>12, <2>13 DEF Plain
<1> QED BY <1>1, <1>2, <1>3, <1>4, <1>5, <1>6, <1>7 DEF Next, Rol, Plain

\* The End event counts the frames of its stream and none follows it: rocEnd
\* waits with the user sync held until the data of a stream is gone.
THEOREM EndCountFinalCorrect == Spec => []EndCountFinal
<1> DEFINE I == CoreInv /\ AddrInv /\ LinkInv /\ EndInv
<1>1. Init => I
  BY FlowInit, TypeInit, ConfigInit, AddrInit, LinkInit, EndInit DEF CoreInv
<1>2. I /\ [Next]_vars => I'
  BY FlowNext, TypeNext, ConfigNext, AddrNext, LinkNext, EndNext DEF CoreInv
<1>3. I => EndCountFinal
  <2> SUFFICES ASSUME I, NEW i \in Told \ late, request[i], posted[i] = "END"
               PROVE  endCount[i] = framesSent[i] /\ inFlight[i] = 0
    BY DEF EndCountFinal
  <2>1. i \in Inst /\ i \in 0 .. 3
    BY Lengths DEF CoreInv, FlowInv
  <2>2. Runs("end") /\ 30 + i < Now /\ endCount[i] = framesSent[i]
    BY <2>1 DEF EndInv, Ended
  <2>3. PICK n \in 0 .. 110 : n = Now
    BY <2>2, NextCall DEF Runs, CoreInv
  <2>4. Now > 0
    BY <2>1, <2>2, <2>3
  <2> QED BY <2>1, <2>2, <2>4 DEF EndInv
<1> QED BY <1>1, <1>2, <1>3, PTL DEF Spec

-----------------------------------------------------------------------------
(* The sockets of a run *)

LEMMA OpenInit == Init => OpenInv
BY DEF Init, EbInit, OpenInv, Runs, Idle, Empty, InRun

\* What the sockets and the event builder of a run depend on.
Kept == UNCHANGED <<fwType, v7Done, ebReset, request>>

\* A handler starts.
LEMMA OpenStart ==
    ASSUME FlowInv, OpenInv, Kept, Idle, list' = list, coda' = coda, Idle' \/ Now' = 0
    PROVE  OpenInv'
<1>1. /\ ~ (Now' > 0) \/ Idle'
      /\ \A i \in Stream : i \in 0 .. 3
      /\ Stream' = Stream /\ InRun' = InRun /\ NoneOpen' = NoneOpen
  BY SamePorts, Lengths DEF FlowInv, InRun, NoneOpen, Kept
<1>2. /\ fwType /\ coda = "downloaded" => NoneOpen
      /\ InRun /\ fwType => NoneOpen \/ (v7Done /\ ~ebReset /\ \A i \in Stream : request[i])
  BY DEF OpenInv, Runs
<1>3. \A i \in Stream : ~ (Runs("prestart")' /\ Now' > 33 + 10 * i) /\ ~ (Runs("end")' /\ Now' > 50 + i)
  BY <1>1 DEF Runs
<1>4. ~ (Runs("prestart")' /\ Now' > 20)
  BY <1>1 DEF Runs
<1> QED BY <1>1, <1>2, <1>3, <1>4 DEF OpenInv, Kept

LEMMA OpenStay ==
    ASSUME OpenInv, Kept, Stay PROVE OpenInv'
<1>1. /\ Stream' = Stream /\ NoneOpen' = NoneOpen /\ Now' = Now /\ InRun' = InRun
      /\ \A h : Runs(h)' = Runs(h)
  BY SamePorts, StayKeeps DEF Stay, Runs, NoneOpen, Kept
<1> QED BY <1>1 DEF OpenInv, Kept, Stay

\* Outside a run, and before rocPrestart has connected anything.
LEMMA OpenEarly ==
    ASSUME list \in Lists, list' = list, ~InRun', ~Runs("prestart")' \/ Now' \in 0 .. 20,
           fwType' /\ coda' = "downloaded" => NoneOpen' \/ (Runs("prestart")' /\ Now' > 0)
    PROVE  OpenInv'
<1>1. Stream' = Stream /\ Stream \subseteq 0 .. 3
  BY SamePorts, Lengths
<1>2. \A i \in Stream : ~ (Runs("prestart")' /\ Now' > 33 + 10 * i)
  BY <1>1
<1>3. ~ (Runs("prestart")' /\ Now' > 20)
  OBVIOUS
<1> QED BY <1>1, <1>2, <1>3 DEF OpenInv

\* The calls of rocPrestart.
LEMMA OpenPrestart ==
    ASSUME FlowInv, ChipInv, OpenInv, ~Idle, Handler = "prestart", Advance, Now > 0,
           fwType' = fwType, v7Done' = v7Done, Now >= 20 => ~ebReset',
           \A i \in Stream : Now >= 33 + 10 * i => request'[i]
    PROVE  OpenInv'
<1>1. /\ Stream \subseteq 0 .. 3 /\ list' = list /\ Stream' = Stream
      /\ coda = "downloaded" /\ to = "prestarted"
  BY SamePorts, Lengths, Mapped DEF FlowInv, Advance
<1>2. fwType /\ v7Done
  BY DEF ChipInv, Runs
<1>3. CASE Onward
  <2>1. ~ Return /\ coda' = coda /\ Runs("prestart")' /\ ~InRun'
    BY <1>1, <1>3, SameHandler DEF Onward, Return, InRun
  <2>2. /\ Now' \in 0 .. 110 /\ Now < Now' /\ (Now' > 20 => Now >= 20)
        /\ \A i \in Stream : Now' > 33 + 10 * i => Now >= 33 + 10 * i
    BY <2>1, PrestartOrder
  <2>3. Now' > 0
    BY <2>2, NextCall
  <2> QED BY <1>1, <2>1, <2>2, <2>3 DEF OpenInv
<1>4. CASE Return /\ Now >= 70
  <2>1. coda' = "prestarted" /\ Idle'
    BY <1>1, <1>4 DEF Return
  <2>2. \A i \in Stream : Now >= 33 + 10 * i
    BY <1>1, <1>4, NextCall
  <2>3. Now >= 20
    BY <1>4, NextCall
  <2> QED BY <1>1, <1>2, <2>1, <2>2, <2>3 DEF OpenInv, Runs, InRun
<1> QED BY <1>3, <1>4, PrestartOrder

\* The calls of rocGo.
LEMMA OpenGo ==
    ASSUME FlowInv, OpenInv, ~Idle, Handler = "go", Advance, fwType' = fwType, v7Done' = v7Done,
           request' = request, ebReset' => ebReset
    PROVE  OpenInv'
<1>1. /\ list' = list /\ Stream' = Stream /\ NoneOpen' = NoneOpen /\ InRun /\ to = "active"
  BY SamePorts, Mapped DEF FlowInv, Advance, NoneOpen
<1>2. fwType => NoneOpen \/ (v7Done /\ ~ebReset /\ \A i \in Stream : request[i])
  BY <1>1 DEF OpenInv, Runs
<1>3. Onward \/ Return
  BY Proceed
<1>4. coda' # "downloaded" /\ ~Runs("prestart")' /\ ~Runs("end")'
  BY <1>1, <1>3, SameHandler DEF Onward, Return, InRun, Runs
<1> QED BY <1>1, <1>2, <1>4 DEF OpenInv

\* The calls of rocEnd: the last one closes the last socket.
LEMMA OpenEnd ==
    ASSUME FlowInv, AddrInv, OpenInv, ~Idle, Handler = "end", Advance, fwType' = fwType, v7Done' = v7Done,
           ebReset' => ebReset \/ Now > 40,
           \A i \in Inst : request'[i] => request[i],
           \A i \in Stream : fwType => (request'[i] <=> request[i] /\ Now # 50 + i)
    PROVE  OpenInv'
<1>1. /\ Stream \subseteq 0 .. 3 /\ Stream \subseteq Inst /\ list' = list /\ Stream' = Stream
      /\ InRun /\ to = "downloaded"
  BY SamePorts, Lengths, Mapped DEF FlowInv, Advance
<1>2. PICK n \in 0 .. 110 : n = Now
  BY NextCall
<1>3. ASSUME fwType, ~NoneOpen
      PROVE  v7Done /\ (ebReset => n > 40) /\ \A i \in Stream : request[i] <=> ~ (n > 50 + i)
  BY <1>1, <1>2, <1>3 DEF OpenInv, Runs
<1>4. NoneOpen => NoneOpen'
  BY DEF NoneOpen
<1>5. CASE Onward
  <2>1. ~ Return /\ coda' = coda /\ Runs("end")' /\ ~Runs("prestart")' /\ InRun'
    BY <1>1, <1>5, SameHandler DEF Onward, Return
  <2>2. PICK m \in 0 .. 110 : m = Now' /\ n < m /\ \A i \in Stream : m > 50 + i => n >= 50 + i
    BY <1>2, <2>1, EndOrder
  <2>3. ASSUME fwType, ~NoneOpen
        PROVE  (ebReset' => m > 40) /\ \A i \in Stream : request'[i] <=> ~ (m > 50 + i)
    <3>1. \A i \in Stream : i \in 0 .. 3
      BY <1>1
    <3>2. \A i \in Stream : request'[i] <=> ~ (n > 50 + i) /\ n # 50 + i
      BY <1>2, <1>3, <2>3
    <3>3. \A i \in Stream : (~ (n > 50 + i) /\ n # 50 + i) <=> ~ (m > 50 + i)
      BY <2>2, <3>1
    <3> QED BY <1>2, <1>3, <2>2, <2>3, <3>2, <3>3
  <2>4. coda' # "downloaded"
    BY <1>1, <2>1 DEF InRun
  <2> QED BY <1>1, <1>3, <1>4, <2>1, <2>2, <2>3, <2>4 DEF OpenInv
<1>6. CASE Return /\ \A i \in Stream : Now >= 50 + i
  <2>1. coda' = "downloaded" /\ ~Runs("prestart")' /\ ~InRun'
    BY <1>1, <1>6 DEF Return, Runs, InRun
  <2>2. ASSUME fwType, NEW i \in Inst, request'[i] PROVE FALSE
    <3>1. i \in Stream /\ request[i] /\ i \in 0 .. 3
      BY <1>1, <2>2 DEF AddrInv
    <3>2. ~ (n > 50 + i) /\ n >= 50 + i
      BY <1>2, <1>3, <1>6, <2>2, <3>1 DEF NoneOpen
    <3>3. n # 50 + i
      BY <1>2, <2>2, <3>1
    <3> QED BY <3>1, <3>2, <3>3
  <2>3. fwType => NoneOpen'
    BY <2>2 DEF NoneOpen
  <2> QED BY <2>1, <2>3 DEF OpenInv
<1> QED BY <1>5, <1>6, EndOrder

LEMMA OpenDownload ==
    ASSUME FlowInv, OpenInv, LoadZ7 \/ LoadV7 \/ LoadUnmapped PROVE OpenInv'
<1>1. CASE LoadUnmapped
  <2>1. Idle' /\ coda' = "booted" /\ list' = list
    BY <1>1, FlowUnmapped
  <2> QED BY <2>1, OpenEarly DEF FlowInv, Runs, InRun
<1>2. CASE LoadZ7 \/ LoadV7
  <2>1. Plain
    BY <1>2 DEF Plain
  <2>2. ~Idle /\ Advance /\ fwType' = fwType /\ (dev = "mapped" \/ ~At("v7"))
    BY <2>1, PlainCalls
  <2>3. (At("z7") \/ At("v7")) /\ Handler = "download"
    BY <1>2, <2>2, Place DEF LoadZ7, LoadV7
  <2>4. \A i \in Inst : request'[i] => request[i]
    <3>1. CASE LoadZ7
      BY <3>1 DEF LoadZ7, Z7CfgLoad, ebVars, netVars
    <3>2. CASE LoadV7
      BY <3>2 DEF LoadV7, V7CfgLoad, netVars
    <3> QED BY <1>2, <3>1, <3>2
  <2>5. fwType /\ coda = "downloaded" => NoneOpen'
    BY <2>3, <2>4 DEF OpenInv, NoneOpen, Runs
  <2>6. (Onward \/ Return) /\ (Return => At("v7"))
    BY <2>2, <2>3, FlowAdvance
  <2>7. coda \in {"booted", "downloaded"} /\ to = "downloaded"
    BY <2>2, <2>3, Mapped DEF FlowInv, InRun
  <2>8. CASE Onward
    <3>1. coda' = coda /\ list' = list /\ ~Runs("prestart")' /\ ~InRun'
      BY <2>3, <2>7, <2>8, SameHandler DEF Onward, InRun
    <3> QED BY <2>2, <2>5, <3>1, OpenEarly DEF FlowInv
  <2>9. CASE Return
    <3>1. coda' = "downloaded" /\ list' = list /\ ~Runs("prestart")' /\ ~InRun'
      BY <2>7, <2>9 DEF Return, Runs, InRun
    <3>2. fwType => coda = "downloaded"
      BY <2>2, <2>6, <2>7, <2>9 DEF FlowInv
    <3> QED BY <2>2, <2>5, <3>1, <3>2, OpenEarly DEF FlowInv
  <2> QED BY <2>6, <2>8, <2>9
<1> QED BY <1>1, <1>2

LEMMA OpenInitVtp ==
    ASSUME FlowInv, OpenInv, InitVtp PROVE OpenInv'
<1>1. /\ FlowInv' /\ ~Idle /\ Handler = "prestart" /\ Now = 0
      /\ (Onward \/ (Return /\ fwType' = fwType))
  BY FlowInitVtp
<1>2. coda = "downloaded" /\ to = "prestarted" /\ list \in Lists
  BY <1>1, Mapped DEF FlowInv
<1>3. CASE Onward
  <2>1. coda' = coda /\ list' = list /\ Runs("prestart")' /\ ~InRun'
    BY <1>1, <1>2, <1>3, SameHandler DEF Onward, InRun
  <2>2. Call("file", 0) \in CallsOf("prestart") /\ Time[Call("file", 0)] = 1
    BY <1>2, PrestartMade, Times
  <2>3. Now' \in 0 .. 110 /\ ~ (1 < Now') /\ Now < Now'
    BY <1>1, <1>3, <2>2 DEF Onward
  <2>4. Now' \in 0 .. 20 /\ Now' > 0
    BY <1>1, <2>3
  <2> QED BY <1>2, <2>1, <2>4, OpenEarly
<1>4. CASE Return /\ fwType' = fwType
  <2>1. coda' = "prestarted" /\ Idle'
    BY <1>2, <1>4 DEF Return
  <2>2. request' = request
    BY DEF InitVtp, netVars
  <2>3. fwType => NoneOpen
    BY <1>1, <1>2 DEF OpenInv
  <2>4. fwType' => NoneOpen'
    BY <1>4, <2>2, <2>3 DEF NoneOpen
  <2> QED BY <2>1, <2>4 DEF OpenInv, Runs
<1> QED BY <1>1, <1>3, <1>4

\* The calls of rocPrestart that connect no stream.
LEMMA OpenSetup ==
    ASSUME FlowInv, ListTypeOK, ConfigInv, OpenInv, Plain, Handler = "prestart" PROVE OpenInv'
<1>1. ~Idle /\ Advance /\ fwType' = fwType
  BY PlainCalls
<1>2. Stream \subseteq 0 .. 3 /\ Stream \subseteq Inst /\ ChipInv /\ PreTold \subseteq Stream
  BY Lengths DEF FlowInv, ConfigInv
<1>3. Now > 0 => fwType /\ v7Done
  BY <1>1, <1>2 DEF ChipInv, Runs
<1>4. PICK n \in 0 .. 110 : n = Now
  BY <1>1, NextCall
<1>5. /\ n > 20 => ~ebReset
      /\ \A i \in Stream : n > 33 + 10 * i => request[i]
  BY <1>1, <1>4 DEF OpenInv, Runs
<1>6. request \in [Inst -> BOOLEAN]
  BY DEF ListTypeOK, EbTyped
<1>7. ASSUME n > 0, v7Done' = v7Done, n >= 20 => ~ebReset', \A i \in Stream : n >= 33 + 10 * i => request'[i]
      PROVE  OpenInv'
  BY <1>1, <1>2, <1>4, <1>7, OpenPrestart
<1>8. CASE SetAddress \/ SetPayloads
  <2>1. n = 2 \/ n = 10
    BY <1>1, <1>4, <1>8, Place DEF SetAddress, SetPayloads
  <2>2. v7Done' = v7Done
    BY <1>8 DEF SetAddress, SetPayloads, SetNetCfg, SetEbCfg, Checked, IfV7, ebVars, chipVars
  <2>3. \A i \in Stream : ~ (n >= 33 + 10 * i)
    BY <1>2, <2>1
  <2> QED BY <1>7, <2>1, <2>2, <2>3
<1>9. CASE EnableAsync \/ ResetLinks \/ GetBase
  <2>1. n \in 20 .. 22 /\ (n = 20 => EnableAsync)
    <3>1. CASE EnableAsync
      <4>1. n = 20
        BY <1>1, <1>4, <3>1, Place DEF EnableAsync
      <4> QED BY <3>1, <4>1
    <3>2. CASE ResetLinks \/ GetBase
      <4>1. n = 21 \/ n = 22
        BY <1>1, <1>4, <3>2, Place DEF ResetLinks, GetBase
      <4> QED BY <4>1
    <3> QED BY <1>9, <3>1, <3>2
  <2>2. v7Done
    BY <1>3, <1>4, <2>1
  <2>3. v7Done' = v7Done /\ ~ebReset'
    <3>1. CASE EnableAsync
      BY <2>2, <3>1 DEF EnableAsync, EbEnable, IfV7, chipVars
    <3>2. CASE ResetLinks \/ GetBase
      <4>1. UNCHANGED <<v7Done, ebReset>>
        BY <3>2 DEF ResetLinks, GetBase, ResetDataPath, IfV7, ebVars, chipVars, ctrlVars
      <4>2. n = 21 \/ n = 22
        BY <1>1, <1>4, <3>2, Place DEF ResetLinks, GetBase
      <4> QED BY <1>5, <4>1, <4>2
    <3> QED BY <1>9, <3>1, <3>2
  <2>4. \A i \in Stream : ~ (n >= 33 + 10 * i)
    BY <1>2, <2>1
  <2> QED BY <1>7, <2>1, <2>3, <2>4
<1>10. ASSUME n >= 30, \A i \in Stream : n # 33 + 10 * i, UNCHANGED <<v7Done, ebReset, request>>
       PROVE  OpenInv'
  <2>1. \A i \in Stream : n >= 33 + 10 * i => request'[i]
    BY <1>2, <1>5, <1>10
  <2> QED BY <1>5, <1>7, <1>10, <2>1
<1>11. CASE NextAddress \/ NextPort \/ SendGreeting
  <2>1. Arg \in Stream /\ n \in {30 + 10 * Arg, 31 + 10 * Arg, 34 + 10 * Arg}
    BY <1>1, <1>4, <1>11, Place DEF NextAddress, NextPort, SendGreeting
  <2>2. n >= 30 /\ \A i \in Stream : n # 33 + 10 * i
    BY <1>2, <2>1
  <2>3. UNCHANGED <<v7Done, ebReset, request>>
    BY <1>11 DEF NextAddress, NextPort, SendGreeting, ebVars, chipVars, ctrlVars, netVars
  <2> QED BY <1>10, <2>2, <2>3
<1>12. CASE SetClient \/ ConnectStream
  <2>1. PICK j \in Stream : j = Arg /\ (SetClient => n = 32 + 10 * j) /\ (ConnectStream => n = 33 + 10 * j)
    BY <1>1, <1>4, <1>12, Place DEF SetClient, ConnectStream
  <2>2. n >= 30 /\ n > 0
    BY <1>2, <1>12, <2>1
  <2>3. fwType /\ v7Done
    BY <1>3, <1>4, <2>2
  <2>4. CASE SetClient
    <3>1. request' = [request EXCEPT ![j] = FALSE] /\ UNCHANGED <<v7Done, ebReset>>
      BY <1>2, <2>1, <2>3, <2>4 DEF SetClient, SetNetCfg, ebVars, chipVars, ctrlVars
    <3>2. ASSUME NEW i \in Stream, n >= 33 + 10 * i PROVE request'[i]
      <4>1. i # j /\ n > 33 + 10 * i
        BY <1>2, <2>1, <2>4, <3>2
      <4>2. request[i] /\ i \in Inst
        BY <1>2, <1>5, <4>1
      <4> QED BY <1>6, <3>1, <4>1, <4>2
    <3> QED BY <1>5, <1>7, <2>2, <3>1, <3>2
  <2>5. CASE ConnectStream
    <3>1. request' = [request EXCEPT ![j] = TRUE] /\ v7Done' = v7Done /\ ~ebReset'
      BY <1>2, <2>1, <2>3, <2>5 DEF ConnectStream, TcpConnect, chipVars
    <3>2. ASSUME NEW i \in Stream, n >= 33 + 10 * i PROVE request'[i]
      <4>1. i # j => n > 33 + 10 * i
        BY <1>2, <2>1, <2>5, <3>2
      <4>2. i # j => request[i]
        BY <1>5, <4>1
      <4>3. i \in Inst
        BY <1>2
      <4> QED BY <1>6, <3>1, <4>2, <4>3
    <3> QED BY <1>7, <2>2, <3>1, <3>2
  <2> QED BY <1>12, <2>4, <2>5
<1>13. CASE WriteEvent
  <2>1. At("PRESTART")
    BY <1>1, <1>13, Place DEF WriteEvent, Control
  <2>2. Arg \in Stream /\ n = 70 + Arg
    BY <1>1, <1>2, <1>4, <2>1, Place
  <2>3. n >= 30 /\ \A i \in Stream : n # 33 + 10 * i
    BY <1>2, <2>2
  <2>4. UNCHANGED <<v7Done, ebReset, request>>
    BY <1>13 DEF WriteEvent, EvioWriteControl, IfV7, ebVars, chipVars, ctrlVars, netVars
  <2> QED BY <1>10, <2>3, <2>4
<1>14. ~ (LoadZ7 \/ LoadV7 \/ EnablePayloads \/ WaitForData \/ WaitForEvents \/ ResetEb \/ CloseStream)
  BY <1>1, Place DEF LoadZ7, LoadV7, EnablePayloads, WaitForData, WaitForEvents, ResetEb, CloseStream
<1> QED BY <1>8, <1>9, <1>11, <1>12, <1>13, <1>14 DEF Plain

LEMMA OpenEndCalls ==
    ASSUME FlowInv, ListTypeOK, AddrInv, OpenInv, Plain, Handler = "end" PROVE OpenInv'
<1>1. ~Idle /\ Advance /\ fwType' = fwType
  BY PlainCalls
<1>2. Stream \subseteq 0 .. 3 /\ Stream \subseteq Inst /\ Told \subseteq Stream
  BY Lengths DEF FlowInv
<1>3. PICK n \in 0 .. 110 : n = Now
  BY <1>1, NextCall
<1>4. request \in [Inst -> BOOLEAN]
  BY DEF ListTypeOK, EbTyped
<1>5. ASSUME n < 50, v7Done' = v7Done, request' = request, ebReset' => ebReset \/ n > 40
      PROVE  OpenInv'
  <2>1. \A i \in Stream : n # 50 + i
    BY <1>2, <1>5
  <2> QED BY <1>1, <1>3, <1>5, <2>1, OpenEnd
<1>6. CASE WaitForData \/ EnableAsync \/ WaitForEvents
  <2>1. n \in {0, 20, 40}
    BY <1>1, <1>3, <1>6, Place DEF WaitForData, EnableAsync, WaitForEvents
  <2>2. v7Done' = v7Done /\ request' = request /\ (ebReset' => ebReset)
    BY <1>6 DEF WaitForData, EnableAsync, WaitForEvents, EbEnable, IfV7, ebVars, chipVars, ctrlVars, netVars
  <2> QED BY <1>5, <2>1, <2>2
<1>7. CASE WriteEvent
  <2>1. At("END")
    BY <1>1, <1>7, Place DEF WriteEvent, Control
  <2>2. n = 30 + Arg /\ Arg \in 0 .. 3
    BY <1>1, <1>2, <1>3, <2>1, Place
  <2>3. v7Done' = v7Done /\ request' = request /\ (ebReset' => ebReset)
    BY <1>7 DEF WriteEvent, EvioWriteControl, IfV7, ebVars, chipVars, ctrlVars, netVars
  <2> QED BY <1>5, <2>2, <2>3
<1>8. CASE ResetEb
  <2>1. n = 41
    BY <1>1, <1>3, <1>8, Place DEF ResetEb
  <2>2. v7Done' = v7Done /\ request' = request
    BY <1>8 DEF ResetEb, EbDisable, IfV7, ebVars, chipVars, netVars
  <2> QED BY <1>5, <2>1, <2>2
<1>9. CASE CloseStream
  <2>1. PICK j \in Stream : j = Arg /\ n = 50 + j
    BY <1>1, <1>3, <1>9, Place DEF CloseStream
  <2>2. TcpDisconnect(j) /\ j \in Inst
    BY <1>2, <1>9, <2>1 DEF CloseStream
  <2>3. v7Done' = v7Done
    BY <2>2 DEF TcpDisconnect, ebVars, chipVars
  <2>4. request' = IF fwType THEN [request EXCEPT ![j] = FALSE] ELSE request
    BY <2>2 DEF TcpDisconnect, ebVars, netVars
  <2>5. \A i \in Stream : n # 50 + i <=> i # j
    BY <1>2, <2>1
  <2>6. \A i \in Inst : request'[i] => request[i]
    BY <1>4, <2>2, <2>4
  <2>7. \A i \in Stream : fwType => (request'[i] <=> request[i] /\ n # 50 + i)
    BY <1>2, <1>4, <2>2, <2>4, <2>5
  <2>8. n > 40
    BY <1>2, <2>1
  <2> QED BY <1>1, <1>3, <2>3, <2>6, <2>7, <2>8, OpenEnd
<1>10. ~ (LoadZ7 \/ LoadV7 \/ SetAddress \/ SetPayloads \/ ResetLinks \/ GetBase \/ NextAddress \/ NextPort
          \/ SetClient \/ ConnectStream \/ SendGreeting \/ EnablePayloads)
  BY <1>1, Place DEF LoadZ7, LoadV7, SetAddress, SetPayloads, ResetLinks, GetBase, NextAddress, NextPort,
      SetClient, ConnectStream, SendGreeting, EnablePayloads
<1> QED BY <1>6, <1>7, <1>8, <1>9, <1>10 DEF Plain

LEMMA OpenNext ==
    ASSUME FlowInv, ListTypeOK, ConfigInv, AddrInv, OpenInv, Next \/ UNCHANGED vars PROVE OpenInv'
<1>1. CASE Download \/ Prestart \/ Go \/ End
  <2>1. Kept
    BY <1>1 DEF Download, Prestart, Go, End, Command, Kept, ebVars, chipVars, ctrlVars, netVars
  <2> QED BY <1>1, <2>1, FlowCommands, OpenStart
<1>2. CASE Pause \/ Reset
  <2>1. /\ Idle /\ Idle' /\ list' = list /\ Kept /\ NoneOpen' = NoneOpen
        /\ (coda = "active" /\ coda' = "paused") \/ coda' = "booted"
    BY <1>2, FlowIdle DEF ebVars, chipVars, ctrlVars, netVars, Kept, NoneOpen
  <2>2. Stream' = Stream
    BY <2>1, SamePorts
  <2> QED BY <2>1, <2>2 DEF OpenInv, Runs, InRun, Kept
<1>3. CASE HoldSync \/ ReleaseSync \/ Hardware \/ UNCHANGED vars
  <2>1. Stay
    BY <1>3, FlowOthers
  <2>2. Kept
    <3>1. CASE HoldSync \/ ReleaseSync \/ UNCHANGED vars
      BY <3>1 DEF HoldSync, ReleaseSync, vars, Kept, ebVars, chipVars, ctrlVars, netVars
    <3>2. CASE Hardware
      BY <3>2 DEF Hardware, SendAsync, BuildFrame, SendFrame, LateConnect, Kept, chipVars, ctrlVars, netVars
    <3> QED BY <1>3, <3>1, <3>2
  <2> QED BY <2>1, <2>2, OpenStay
<1>4. CASE LoadZ7 \/ LoadV7 \/ LoadUnmapped
  BY <1>4, OpenDownload
<1>5. CASE InitVtp
  BY <1>5, OpenInitVtp
<1>6. CASE ReadFile
  <2>1. /\ FlowInv' /\ Runs("prestart")' /\ fwType' = fwType /\ list' = list /\ Now' \in {2, 10}
    BY <1>6, FlowReadFile DEF Runs
  <2>2. coda' = "downloaded"
    BY <2>1 DEF FlowInv
  <2>3. Now' \in 0 .. 20 /\ Now' > 0
    BY <2>1
  <2> QED BY <2>1, <2>2, <2>3, OpenEarly DEF FlowInv, InRun
<1>7. CASE Plain
  <2>1. ~Idle /\ Advance /\ fwType' = fwType
    BY <1>7, PlainCalls
  <2>2. CASE Handler = "download"
    <3>1. LoadZ7 \/ LoadV7
      BY <1>7, <2>1, <2>2, Place DEF Plain, SetAddress, SetPayloads, EnableAsync, ResetLinks,
          GetBase, NextAddress, NextPort, SetClient, ConnectStream, SendGreeting,
          WriteEvent, EnablePayloads, WaitForData, WaitForEvents, ResetEb, CloseStream, Control
    <3> QED BY <3>1, OpenDownload
  <2>3. CASE Handler = "prestart"
    BY <1>7, <2>3, OpenSetup
  <2>4. CASE Handler = "go"
    <3>1. WriteEvent \/ EnablePayloads
      BY <1>7, <2>1, <2>4, Place DEF Plain, LoadZ7, LoadV7, SetAddress, SetPayloads, EnableAsync, ResetLinks,
          GetBase, NextAddress, NextPort, SetClient, ConnectStream, SendGreeting,
          WaitForData, WaitForEvents, ResetEb, CloseStream
    <3>2. v7Done' = v7Done /\ request' = request /\ (ebReset' => ebReset)
      BY <3>1 DEF WriteEvent, EnablePayloads, EvioWriteControl, EbEnable, IfV7, ebVars, chipVars, ctrlVars, netVars
    <3> QED BY <2>1, <2>4, <3>2, OpenGo
  <2>5. CASE Handler = "end"
    BY <1>7, <2>5, OpenEndCalls
  <2> QED BY <2>2, <2>3, <2>4, <2>5, HandlerIs
<1> QED BY <1>1, <1>2, <1>3, <1>4, <1>5, <1>6, <1>7 DEF Next, Rol, Plain

-----------------------------------------------------------------------------
(* The line of events of one client *)

\* The event builder sends the first event of the line.
LEMMA LineTail ==
    ASSUME NEW T, NEW q \in Seq(EventOf(T)), q # <<>>, NEW i, NEW seen, NEW after,
           after = IF q[1].inst = i THEN q[1].type ELSE seen
    PROVE  /\ \A needs : InLine(q, i, seen, needs) => InLine(Tail(q), i, after, needs)
           /\ \A last : IsLast(q, i, seen, last) => IsLast(Tail(q), i, after, last)
<1> DEFINE t == Tail(q)
<1>1. Len(t) = Len(q) - 1 /\ Len(q) \in Nat \ {0} /\ \A k \in 1 .. Len(t) : k + 1 \in 1 .. Len(q) /\ t[k] = q[k + 1]
  BY HeadTailProperties
<1> HIDE DEF t
<1>2. Of(t, i) \subseteq Nat /\ Of(q, i) \subseteq Nat
  BY DEF Of
<1>3. \A k \in Of(t, i) : k + 1 \in Of(q, i) /\ t[k] = q[k + 1] /\ 1 <= k
  BY <1>1 DEF Of
<1>4. \A m \in Of(q, i) : m = 1 \/ m - 1 \in Of(t, i)
  BY <1>1 DEF Of
<1>5. 1 \in Of(q, i) <=> q[1].inst = i
  BY <1>1 DEF Of
<1>6. ASSUME NEW needs, InLine(q, i, seen, needs) PROVE InLine(t, i, after, needs)
  <2>1. ASSUME NEW k \in Of(t, i), \A j \in Of(t, i) : k <= j PROVE Follows(after, t[k].type, needs)
    <3>1. k + 1 \in Of(q, i) /\ t[k] = q[k + 1] /\ k \in Nat /\ 1 <= k
      BY <1>2, <1>3
    <3>2. \A m \in Of(q, i) : m <= 1 \/ k + 1 <= m
      BY <1>2, <1>4, <2>1, <3>1
    <3>3. CASE q[1].inst = i
      <4>1. 1 \in Of(q, i) /\ 1 < k + 1
        BY <1>5, <3>1, <3>3
      <4>2. Follows(q[1].type, q[k + 1].type, needs)
        BY <1>6, <3>1, <3>2, <4>1 DEF InLine
      <4> QED BY <3>1, <3>3, <4>2
    <3>4. CASE q[1].inst # i
      <4>1. \A m \in Of(q, i) : k + 1 <= m
        BY <1>2, <1>4, <1>5, <2>1, <3>1, <3>4
      <4> QED BY <1>6, <3>1, <3>4, <4>1 DEF InLine
    <3> QED BY <3>3, <3>4
  <2>2. ASSUME NEW j \in Of(t, i), NEW k \in Of(t, i), j < k, \A m \in Of(t, i) : m <= j \/ k <= m
        PROVE  Follows(t[j].type, t[k].type, needs)
    <3>1. /\ j + 1 \in Of(q, i) /\ k + 1 \in Of(q, i) /\ t[j] = q[j + 1] /\ t[k] = q[k + 1]
          /\ j \in Nat /\ k \in Nat
      BY <1>2, <1>3
    <3>2. j + 1 < k + 1 /\ \A m \in Of(q, i) : m <= j + 1 \/ k + 1 <= m
      BY <1>2, <1>4, <2>2, <3>1
    <3> QED BY <1>6, <3>1, <3>2 DEF InLine
  <2> QED BY <2>1, <2>2 DEF InLine
<1>7. ASSUME NEW last, IsLast(q, i, seen, last) PROVE IsLast(t, i, after, last)
  <2>1. ASSUME Of(t, i) = {} PROVE last = after
    <3>1. \A m \in Of(q, i) : m = 1
      BY <1>4, <2>1
    <3>2. CASE q[1].inst = i
      BY <1>5, <1>7, <3>1, <3>2 DEF IsLast
    <3>3. CASE q[1].inst # i
      <4>1. Of(q, i) = {}
        BY <1>5, <3>1, <3>3
      <4> QED BY <1>7, <3>3, <4>1 DEF IsLast
    <3> QED BY <3>2, <3>3
  <2>2. ASSUME NEW k \in Of(t, i), \A j \in Of(t, i) : j <= k PROVE t[k].type = last
    <3>1. k + 1 \in Of(q, i) /\ t[k] = q[k + 1] /\ k \in Nat /\ 1 <= k
      BY <1>2, <1>3
    <3>2. \A m \in Of(q, i) : m <= k + 1
      BY <1>2, <1>4, <2>2, <3>1
    <3> QED BY <1>7, <3>1, <3>2 DEF IsLast
  <2> QED BY <2>1, <2>2 DEF IsLast
<1> QED BY <1>6, <1>7 DEF t

\* An event joins the line.
LEMMA LineAppend ==
    ASSUME NEW T, NEW q \in Seq(EventOf(T)), NEW e, NEW i, NEW seen
    PROVE  /\ e.inst = i => IsLast(Append(q, e), i, seen, e.type)
           /\ e.inst # i => \A last : IsLast(q, i, seen, last) => IsLast(Append(q, e), i, seen, last)
           /\ \A needs, last : InLine(q, i, seen, needs) /\ IsLast(q, i, seen, last)
                               /\ (e.inst = i => Follows(last, e.type, needs))
                               => InLine(Append(q, e), i, seen, needs)
           /\ e.inst # i => \A needs : InLine(q, i, seen, needs) => InLine(Append(q, e), i, seen, needs)
<1> DEFINE a == Append(q, e)
           n == Len(q) + 1
<1>1. /\ Len(a) = n /\ Len(q) \in Nat /\ n \in Nat
      /\ a[n] = e /\ \A k \in 1 .. Len(q) : a[k] = q[k]
  OBVIOUS
<1>2. Len(q) < n /\ n \in 1 .. n /\ 1 .. n = (1 .. Len(q)) \union {n}
  BY <1>1
<1> HIDE DEF a, n
<1>3. Of(q, i) \subseteq Nat /\ \A k \in Of(q, i) : k \in 1 .. Len(q) /\ a[k] = q[k] /\ k < n
  <2>1. \A k \in Of(q, i) : k \in 1 .. Len(q)
    BY DEF Of
  <2> QED BY <1>1, <1>2, <2>1 DEF n
<1>4. Of(a, i) = Of(q, i) \union (IF e.inst = i THEN {n} ELSE {})
  BY <1>1, <1>2 DEF Of
<1>5. e.inst = i => IsLast(a, i, seen, e.type)
  <2>1. ASSUME e.inst = i, NEW k \in Of(a, i), \A j \in Of(a, i) : j <= k PROVE a[k].type = e.type
    <3>1. n <= k /\ (k \in Of(q, i) \/ k = n)
      BY <1>4, <2>1
    <3> QED BY <1>1, <1>3, <3>1
  <2> QED BY <1>4, <2>1 DEF IsLast
<1>6. ASSUME e.inst # i, NEW last, IsLast(q, i, seen, last) PROVE IsLast(a, i, seen, last)
  BY <1>3, <1>4, <1>6 DEF IsLast
<1>7. ASSUME e.inst # i, NEW needs, InLine(q, i, seen, needs) PROVE InLine(a, i, seen, needs)
  BY <1>3, <1>4, <1>7 DEF InLine
<1>8. ASSUME e.inst = i, NEW needs, NEW last, InLine(q, i, seen, needs), IsLast(q, i, seen, last),
             Follows(last, e.type, needs)
      PROVE  InLine(a, i, seen, needs)
  <2>1. Of(a, i) = Of(q, i) \union {n}
    BY <1>4, <1>8
  <2>2. ASSUME NEW k \in Of(a, i), \A j \in Of(a, i) : k <= j PROVE Follows(seen, a[k].type, needs)
    <3>1. CASE k \in Of(q, i)
      <4>1. a[k] = q[k] /\ \A j \in Of(q, i) : k <= j
        BY <1>3, <2>1, <2>2, <3>1
      <4> QED BY <1>8, <3>1, <4>1 DEF InLine
    <3>2. CASE k = n
      <4>1. \A j \in Of(q, i) : n <= j /\ j < n /\ j \in Nat
        BY <1>3, <2>1, <2>2, <3>2
      <4>2. Of(q, i) = {}
        BY <1>1, <4>1
      <4> QED BY <1>1, <1>8, <3>2, <4>2 DEF IsLast
    <3> QED BY <2>1, <3>1, <3>2
  <2>3. ASSUME NEW j \in Of(a, i), NEW k \in Of(a, i), j < k, \A m \in Of(a, i) : m <= j \/ k <= m
        PROVE  Follows(a[j].type, a[k].type, needs)
    <3>1. j \in Of(q, i)
      <4>1. j = n => n < k /\ (k = n \/ (k \in Nat /\ k < n))
        BY <1>3, <2>1, <2>3
      <4> QED BY <1>1, <2>1, <4>1
    <3>2. a[j] = q[j] /\ j \in Nat /\ j < n
      BY <1>3, <3>1
    <3>3. CASE k \in Of(q, i)
      <4>1. a[k] = q[k] /\ \A m \in Of(q, i) : m <= j \/ k <= m
        BY <1>3, <2>1, <2>3, <3>3
      <4> QED BY <1>8, <2>3, <3>1, <3>2, <3>3, <4>1 DEF InLine
    <3>4. CASE k = n
      <4>1. \A m \in Of(q, i) : m <= j
        BY <1>1, <1>3, <2>1, <2>3, <3>4
      <4>2. q[j].type = last
        BY <1>8, <3>1, <4>1 DEF IsLast
      <4> QED BY <1>1, <1>8, <3>2, <3>4, <4>2
    <3> QED BY <2>1, <3>3, <3>4
  <2> QED BY <2>2, <2>3 DEF InLine
<1> QED BY <1>5, <1>6, <1>7, <1>8 DEF a

\* Nothing waits.
LEMMA LineNone ==
    ASSUME NEW i, NEW seen PROVE (\A needs : InLine(<<>>, i, seen, needs)) /\ IsLast(<<>>, i, seen, seen)
BY DEF Of, InLine, IsLast

\* The first event of a line follows the last one seen.
LEMMA LineFirst ==
    ASSUME NEW T, NEW q \in Seq(EventOf(T)), q # <<>>, NEW seen, NEW needs, InLine(q, q[1].inst, seen, needs)
    PROVE  Follows(seen, q[1].type, needs)
<1>1. 1 \in Of(q, q[1].inst) /\ \A j \in Of(q, q[1].inst) : 1 <= j
  BY DEF Of
<1> QED BY <1>1 DEF InLine

-----------------------------------------------------------------------------
(* The order of what a client is sent *)

LEMMA OrderInit == Init => OrderInv
<1> SUFFICES ASSUME Init PROVE OrderInv
  OBVIOUS
<1>1. Idle /\ ~InRun /\ asyncFifo = <<>> /\ \A i \in Inst : ~request[i]
  BY DEF Init, EbInit, V7PowerOn, Idle, Empty, InRun
<1>2. LineInv
  BY <1>1 DEF LineInv
<1> QED BY <1>1, <1>2 DEF OrderInv, GreetInv, TellInv, Runs

\* The data of the events is where it was.
Lines == UNCHANGED <<asyncFifo, delivered, late, list>>

LEMMA LineEmpty == ASSUME asyncFifo' = <<>> PROVE LineInv'
<1>1. 1 .. Len(asyncFifo') = {}
  OBVIOUS
<1>2. \A i : Of(asyncFifo', i) = {}
  BY <1>1 DEF Of
<1> QED BY <1>1, <1>2 DEF LineInv, InLine

LEMMA LineShut == ASSUME LineInv, NoneOpen', list' = list, asyncFifo' = asyncFifo PROVE LineInv'
BY SamePorts DEF LineInv, NoneOpen

LEMMA LatestKept == ASSUME Lines, NEW i, NEW last, Latest(i, last) PROVE Latest(i, last)'
BY DEF Lines, Latest

LEMMA LineKept ==
    ASSUME LineInv, Lines, \A i \in Inst : request'[i] => request[i] PROVE LineInv'
<1>1. Stream' = Stream /\ Greets' = Greets
  BY SamePorts DEF Lines, Greets
<1>2. \A i : Needs(i)' = Needs(i)
  BY <1>1 DEF Needs, Lines
<1> QED BY <1>1, <1>2 DEF LineInv, Lines

\* An event is sent.
LEMMA LineSend ==
    ASSUME ListTypeOK, LineInv, SendAsync, UNCHANGED rolVars
    PROVE  LineInv' /\ \A i \in Inst, last \in Type \union {"NONE"} : Latest(i, last) => Latest(i, last)'
<1>1. /\ asyncFifo \in Seq(EventOf(Type)) /\ asyncFifo # <<>> /\ asyncFifo' = Tail(asyncFifo)
      /\ delivered' = [delivered EXCEPT ![asyncFifo[1].inst] = asyncFifo[1].type]
      /\ delivered \in [Inst -> Type \union {"NONE"}] /\ request' = request
  <2>1. asyncFifo \in Seq(EventOf(Type)) /\ asyncFifo # <<>>
    BY DEF ListTypeOK, EbTyped, SendAsync
  <2>2. Head(asyncFifo) = asyncFifo[1]
    BY <2>1
  <2> QED BY <2>1, <2>2 DEF ListTypeOK, EbTyped, SendAsync, netVars
<1>2. list' = list /\ late' = late
  BY DEF rolVars
<1>3. Stream' = Stream /\ \A i : Needs(i)' = Needs(i)
  BY <1>2, SamePorts DEF Needs, Greets
<1>4. \A i \in Inst : delivered'[i] = IF asyncFifo[1].inst = i THEN asyncFifo[1].type ELSE delivered[i]
  BY <1>1
<1>5. \A i \in Inst : /\ \A needs : InLine(asyncFifo, i, delivered[i], needs)
                              => InLine(Tail(asyncFifo), i, delivered'[i], needs)
                      /\ \A last : IsLast(asyncFifo, i, delivered[i], last)
                              => IsLast(Tail(asyncFifo), i, delivered'[i], last)
  BY <1>1, <1>4, LineTail
<1>6. \A k \in 1 .. Len(asyncFifo') : k + 1 \in 1 .. Len(asyncFifo) /\ asyncFifo'[k] = asyncFifo[k + 1]
  BY <1>1, HeadTailProperties
<1>7. \A k \in 1 .. Len(asyncFifo') : asyncFifo'[k].inst \in Stream
  BY <1>6 DEF LineInv
<1>8. \A i \in Inst : request'[i] => InLine(asyncFifo', i, delivered'[i], Needs(i)')
  BY <1>1, <1>3, <1>5 DEF LineInv
<1> QED BY <1>1, <1>3, <1>5, <1>7, <1>8 DEF LineInv, Latest

\* An event for client k is written.
LEMMA LineWrite ==
    ASSUME ListTypeOK, LineInv, NEW e, asyncFifo' = Append(asyncFifo, e), e.inst \in Stream,
           NEW last, Latest(e.inst, last), Follows(last, e.type, Needs(e.inst)),
           UNCHANGED <<delivered, late, list, request>>
    PROVE  /\ LineInv' /\ Latest(e.inst, e.type)' /\ Len(asyncFifo') = Len(asyncFifo) + 1
           /\ \A i, x : i # e.inst /\ Latest(i, x) => Latest(i, x)'
<1>1. asyncFifo \in Seq(EventOf(Type))
  BY DEF ListTypeOK, EbTyped
<1>2. Stream' = Stream /\ \A i : Needs(i)' = Needs(i)
  BY SamePorts DEF Needs, Greets
<1>3. /\ Len(asyncFifo') = Len(asyncFifo) + 1
      /\ \A k \in 1 .. Len(asyncFifo') : asyncFifo'[k].inst \in Stream
  <2>1. Len(asyncFifo) \in Nat /\ Len(asyncFifo') = Len(asyncFifo) + 1
    BY <1>1
  <2>2. \A k \in 1 .. Len(asyncFifo') : asyncFifo'[k] = IF k \in 1 .. Len(asyncFifo) THEN asyncFifo[k] ELSE e
    BY <1>1
  <2> QED BY <2>1, <2>2 DEF LineInv
<1>4. ASSUME NEW i \in Inst, request[i] PROVE InLine(asyncFifo', i, delivered[i], Needs(i))
  <2>1. InLine(asyncFifo, i, delivered[i], Needs(i))
    BY <1>4 DEF LineInv
  <2> QED BY <1>1, <2>1, LineAppend DEF Latest
<1>5. LineInv'
  BY <1>2, <1>3, <1>4 DEF LineInv
<1>6. Latest(e.inst, e.type)'
  BY <1>1, LineAppend DEF Latest
<1>7. \A i, x : i # e.inst /\ Latest(i, x) => Latest(i, x)'
  BY <1>1, LineAppend DEF Latest
<1> QED BY <1>3, <1>5, <1>6, <1>7

\* Outside a run, before rocPrestart sets up the event builder.
LEMMA OrderOutside ==
    ASSUME list \in Lists, list' = list, LineInv', ~InRun', ~Runs("end")', ~Runs("prestart")' \/ Now' \in 0 .. 10
    PROVE  OrderInv'
<1>1. Stream' = Stream /\ Stream \subseteq 0 .. 3 /\ PreTold \subseteq Stream
  BY SamePorts, Lengths
<1>2. PreTold' = PreTold
  BY <1>1 DEF PreTold, Greets
<1>3. ASSUME Runs("prestart")'
      PROVE  /\ ~ (Now' > 10) /\ \A i \in PreTold : ~ (Now' > 70 + i)
             /\ \A i \in Stream : Now' # 34 + 10 * i /\ ~ (Now' > 33 + 10 * i)
  <2>1. PICK m \in 0 .. 10 : m = Now'
    BY <1>3
  <2>2. \A i \in Stream : i \in 0 .. 3
    BY <1>1
  <2>3. \A i \in PreTold : i \in 0 .. 3
    BY <1>1
  <2> QED BY <2>1, <2>2, <2>3
<1>4. GreetInv'
  BY <1>1, <1>2, <1>3 DEF GreetInv
<1>5. TellInv'
  BY <1>2, <1>3 DEF TellInv
<1> QED BY <1>4, <1>5 DEF OrderInv

\* Between the handlers, and when one starts.
LEMMA OrderStart ==
    ASSUME FlowInv, OrderInv, Idle, Idle' \/ Now' = 0, Lines, UNCHANGED <<fwType, request, posted>>, InRun' => InRun
    PROVE  OrderInv'
<1>1. Stream' = Stream /\ Stream \subseteq 0 .. 3 /\ PreTold \subseteq Stream
  BY SamePorts, Lengths DEF Lines, FlowInv
<1>2. PreTold' = PreTold
  BY <1>1 DEF PreTold, Greets, Lines
<1>3. ASSUME Runs("prestart")' \/ Runs("end")'
      PROVE  /\ ~ (Now' > 10) /\ ~ (Now' > 40) /\ \A i \in PreTold : ~ (Now' > 70 + i)
             /\ \A i \in Stream : Now' # 34 + 10 * i /\ ~ (Now' > 33 + 10 * i)
  <2>1. Now' = 0
    BY <1>3 DEF Runs
  <2>2. \A i \in Stream : i \in 0 .. 3
    BY <1>1
  <2>3. \A i \in PreTold : i \in 0 .. 3
    BY <1>1
  <2> QED BY <2>1, <2>2, <2>3
<1>4. LineInv'
  BY LineKept DEF OrderInv
<1>5. GreetInv'
  BY <1>1, <1>2, <1>3 DEF GreetInv
<1>6. ASSUME InRun', fwType, NEW i \in PreTold, request[i]
      PROVE  posted[i] \in Control /\ IsLast(asyncFifo', i, delivered'[i], posted'[i])
  BY <1>6 DEF OrderInv, TellInv, Runs, Latest, Lines
<1>8. TellInv'
  BY <1>2, <1>3, <1>6 DEF TellInv, Latest
<1> QED BY <1>4, <1>5, <1>8 DEF OrderInv

\* What a client has heard when a call at this time returns.
HeardAfter(i) ==
    IF ~Greets \/ Now < 34 + 10 * i THEN {"NONE"}
    ELSE IF i \in late' THEN {"NONE", Greeting} ELSE {Greeting}

\* A call of rocPrestart once the event builder is set up: what it must show.
LEMMA OrderPrestart ==
    ASSUME FlowInv, ~Idle, Handler = "prestart", Advance, Now > 10, LineInv',
           Now < 24 + 10 * Connections => Len(asyncFifo') <= 1,
           \A i \in Stream : Greets /\ Now = 33 + 10 * i =>
              asyncFifo' = <<>> /\ netPort' = i /\ delivered'[i] = "NONE",
           \A i \in Stream : Now >= 33 + 10 * i /\ (i \in PreTold => Now < 70 + i) =>
              \E last \in HeardAfter(i) : IsLast(asyncFifo', i, delivered'[i], last),
           \A i \in PreTold : Now >= 70 + i =>
              posted'[i] = "PRESTART" /\ IsLast(asyncFifo', i, delivered'[i], "PRESTART")
    PROVE  OrderInv'
<1>1. /\ Stream \subseteq 0 .. 3 /\ list' = list /\ Stream' = Stream /\ PreTold \subseteq Stream
      /\ Connections' = Connections /\ Connections \in 1 .. 4
      /\ coda = "downloaded" /\ to = "prestarted"
  BY SamePorts, Lengths, Mapped DEF FlowInv, Advance, Connections
<1>2. PreTold' = PreTold /\ Greets' = Greets
  BY <1>1 DEF PreTold, Greets
<1>3. PICK n \in 0 .. 110 : n = Now
  BY NextCall
<1>4. CASE Onward
  <2>1. ~ Return /\ Runs("prestart")' /\ ~Runs("end")' /\ ~InRun'
    BY <1>1, <1>4, SameHandler DEF Onward, Return, InRun
  <2>2. PICK m \in 0 .. 110 :
          /\ m = Now' /\ n < m
          /\ \A i \in Stream : m > 33 + 10 * i => n >= 33 + 10 * i
          /\ Greets => \A i \in Stream : m > 34 + 10 * i => n >= 34 + 10 * i
          /\ \A i \in PreTold : m > 70 + i => n >= 70 + i
    BY <1>3, <2>1, PrestartOrder
  <2>3. m > 10 /\ m < 24 + 10 * Connections => Len(asyncFifo') <= 1
    BY <1>1, <1>3, <2>2
  <2>4. ASSUME NEW i \in Stream, Greets, m = 34 + 10 * i
        PROVE  asyncFifo' = <<>> /\ netPort' = i /\ delivered'[i] = "NONE"
    <3>1. n = 33 + 10 * i
      BY <1>1, <2>2, <2>4
    <3> QED BY <1>3, <2>4, <3>1
  <2>5. ASSUME NEW i \in Stream, m > 33 + 10 * i, i \in PreTold => m <= 70 + i
        PROVE  \E last \in Heard(i)' : IsLast(asyncFifo', i, delivered'[i], last)
    <3>1. n >= 33 + 10 * i /\ (i \in PreTold => n < 70 + i)
      BY <1>1, <2>2, <2>5
    <3>2. Greets => (m <= 34 + 10 * i <=> n < 34 + 10 * i)
      BY <1>1, <2>2
    <3>3. HeardAfter(i) = Heard(i)'
      BY <1>2, <1>3, <2>2, <3>2 DEF HeardAfter, Heard
    <3> QED BY <1>3, <3>1, <3>3
  <2>6. GreetInv'
    BY <1>1, <1>2, <2>2, <2>3, <2>4, <2>5 DEF GreetInv, Latest
  <2>7. \A i \in PreTold : m > 70 + i =>
            posted'[i] = "PRESTART" /\ IsLast(asyncFifo', i, delivered'[i], "PRESTART")
    BY <1>3, <2>2
  <2>8. TellInv'
    BY <1>2, <2>1, <2>2, <2>7 DEF TellInv, Latest
  <2> QED BY <2>6, <2>8 DEF OrderInv
<1>5. CASE Return /\ \A i \in PreTold : Now >= 70 + i
  <2>1. ~Runs("prestart")' /\ ~Runs("end")'
    BY <1>5 DEF Return, Runs
  <2>2. \A i \in PreTold : posted'[i] = "PRESTART" /\ IsLast(asyncFifo', i, delivered'[i], "PRESTART")
    BY <1>5
  <2>3. TellInv'
    BY <1>2, <2>1, <2>2 DEF TellInv, Latest, Control
  <2> QED BY <2>1, <2>3 DEF OrderInv, GreetInv
<1> QED BY <1>4, <1>5, PrestartOrder

\* A call of rocGo.
LEMMA OrderGo ==
    ASSUME FlowInv, ~Idle, Handler = "go", Advance, LineInv', fwType' = fwType,
           fwType => \A i \in PreTold : request'[i] =>
              posted'[i] \in Control /\ IsLast(asyncFifo', i, delivered'[i], posted'[i])
    PROVE  OrderInv'
<1>1. Onward \/ Return
  BY Proceed
<1>2. ~Runs("prestart")' /\ ~Runs("end")'
  BY <1>1, SameHandler DEF Return, Runs
<1>3. PreTold' = PreTold
  BY SamePorts DEF PreTold, Greets, Advance
<1> QED BY <1>2, <1>3 DEF OrderInv, GreetInv, TellInv, Latest

\* A call of rocEnd.
LEMMA OrderEnd ==
    ASSUME FlowInv, ~Idle, Handler = "end", Advance, LineInv', fwType' = fwType,
           Now < 40 /\ fwType => \A i \in PreTold : request'[i] =>
              posted'[i] \in Control /\ IsLast(asyncFifo', i, delivered'[i], posted'[i]),
           Now >= 40 /\ late' = {} => \A i \in Inst : request'[i] /\ posted'[i] = "END" =>
              asyncFifo' = <<>> /\ delivered'[i] = "END"
    PROVE  OrderInv'
<1>1. PreTold' = PreTold /\ to = "downloaded"
  BY SamePorts, Mapped DEF PreTold, Greets, Advance
<1>2. CASE Onward
  <2>1. ~ Return /\ Runs("end")' /\ ~Runs("prestart")'
    BY <1>2, SameHandler DEF Onward, Return
  <2>2. PICK n \in 0 .. 110 : n = Now
    BY NextCall
  <2>3. PICK m \in 0 .. 110 : m = Now' /\ n < m /\ (m > 40 => n >= 40)
    BY <2>1, <2>2, EndOrder
  <2>4. ~ (m > 40) => n < 40
    <3>1. \A a, b \in 0 .. 110 : b < a /\ ~ (a > 40) => b < 40
      OBVIOUS
    <3>2. n < m
      BY <2>3
    <3> QED BY <3>1, <3>2
  <2>5. ~ (m > 40) /\ fwType => \A i \in PreTold : request'[i] =>
              posted'[i] \in Control /\ IsLast(asyncFifo', i, delivered'[i], posted'[i])
    BY <2>2, <2>4
  <2>6. m > 40 /\ late' = {} => \A i \in Inst : request'[i] /\ posted'[i] = "END" =>
              asyncFifo' = <<>> /\ delivered'[i] = "END"
    BY <2>2, <2>3
  <2> QED BY <1>1, <2>1, <2>3, <2>5, <2>6 DEF OrderInv, GreetInv, TellInv, Latest, Ended
<1>3. CASE Return
  <2>1. ~Runs("prestart")' /\ ~Runs("end")' /\ ~InRun'
    BY <1>1, <1>3 DEF Return, Runs, InRun
  <2> QED BY <2>1 DEF OrderInv, GreetInv, TellInv
<1> QED BY <1>2, <1>3, EndOrder

\* The hardware and the master move.
LEMMA OrderStay ==
    ASSUME FlowInv, ListTypeOK, OrderInv, Stay, UNCHANGED <<fwType, request, posted, netPort>>,
           Lines \/ (SendAsync /\ UNCHANGED rolVars)
    PROVE  OrderInv'
<1>1. /\ Stream' = Stream /\ Greets' = Greets /\ Now' = Now /\ InRun' = InRun /\ Connections' = Connections
      /\ \A h : Runs(h)' = Runs(h)
  BY SamePorts, StayKeeps DEF Stay, Runs, Greets, Connections
<1>2. PreTold' = PreTold
  BY <1>1 DEF PreTold
<1>3. late' = late /\ \A i : Heard(i)' = Heard(i)
  BY <1>1 DEF Heard, Lines, rolVars
<1>4. Stream \subseteq Inst /\ PreTold \subseteq Inst
  BY Lengths DEF FlowInv
<1>5. CASE Lines
  <2>1. LineInv'
    BY <1>5, LineKept DEF OrderInv
  <2>2. \A i, last : IsLast(asyncFifo', i, delivered'[i], last) <=> Latest(i, last)
    BY <1>5 DEF Latest, Lines
  <2>3. GreetInv'
    BY <1>1, <1>2, <1>3, <1>5, <2>2 DEF OrderInv, GreetInv, Latest, Lines
  <2>4. TellInv'
    BY <1>1, <1>2, <1>5, <2>2 DEF OrderInv, TellInv, Latest, Lines, Ended
  <2> QED BY <2>1, <2>3, <2>4 DEF OrderInv
<1>6. CASE SendAsync /\ UNCHANGED rolVars
  <2>1. LineInv' /\ \A i \in Inst, last \in Type \union {"NONE"} : Latest(i, last) => Latest(i, last)'
    BY <1>6, LineSend DEF OrderInv
  <2>2. \A i \in Inst, last \in Type \union {"NONE"} :
            Latest(i, last) => IsLast(asyncFifo', i, delivered'[i], last)
    BY <2>1 DEF Latest
  <2>3. asyncFifo # <<>> /\ Len(asyncFifo') = Len(asyncFifo) - 1 /\ Len(asyncFifo) \in Nat
    <3>1. asyncFifo # <<>> /\ asyncFifo' = Tail(asyncFifo) /\ asyncFifo \in Seq(EventOf(Type))
      BY <1>6 DEF SendAsync, ListTypeOK, EbTyped
    <3> QED BY <3>1, HeadTailProperties
  <2>4. \A i : Heard(i) \subseteq Type \union {"NONE"}
    BY DEF Heard, Type
  <2>5. GreetInv'
    BY <1>1, <1>2, <1>3, <1>4, <2>2, <2>3, <2>4 DEF OrderInv, GreetInv, Latest
  <2>6. ASSUME NEW i \in PreTold, InRun /\ fwType, ~ (Runs("end") /\ Now > 40), request[i]
        PROVE  posted'[i] \in Control /\ IsLast(asyncFifo', i, delivered'[i], posted'[i])
    <3>1. posted[i] \in Control /\ Latest(i, posted[i])
      BY <2>6 DEF OrderInv, TellInv
    <3> QED BY <1>4, <2>2, <3>1 DEF Type
  <2>7. \A i \in PreTold : Runs("prestart") /\ Now > 70 + i =>
          posted[i] = "PRESTART" /\ IsLast(asyncFifo', i, delivered'[i], "PRESTART")
    BY <1>4, <2>2 DEF OrderInv, TellInv, Type, Control
  <2>8. Runs("end") /\ Now > 40 /\ late = {} => \A i \in Inst : ~Ended(i)
    BY <2>3 DEF OrderInv, TellInv
  <2>9. TellInv'
    BY <1>1, <1>2, <1>3, <2>6, <2>7, <2>8 DEF TellInv, Latest, Ended
  <2> QED BY <2>1, <2>5, <2>9 DEF OrderInv
<1> QED BY <1>5, <1>6

\* The calls of rocPrestart that leave events alone.
LEMMA OrderSetup ==
    ASSUME FlowInv, ListTypeOK, ConfigInv, OrderInv, Plain, Handler = "prestart", Lines,
           Now > 10, Now < 70, \A i \in Stream : Now # 33 + 10 * i /\ (Greets => Now # 34 + 10 * i),
           \A i \in Inst : request'[i] => request[i]
    PROVE  OrderInv'
<1>1. ~Idle /\ Advance /\ Runs("prestart")
  BY PlainCalls DEF Runs
<1>2. Stream \subseteq 0 .. 3 /\ PreTold \subseteq Stream
  BY Lengths DEF FlowInv
<1>3. PICK n \in 0 .. 110 : n = Now
  BY <1>1, NextCall
<1>4. LineInv'
  BY LineKept DEF OrderInv
<1>5. n < 24 + 10 * Connections => Len(asyncFifo') <= 1
  BY <1>1, <1>3 DEF OrderInv, GreetInv, Lines
<1>6. ASSUME NEW i \in Stream, n >= 33 + 10 * i, i \in PreTold => n < 70 + i
      PROVE  \E last \in HeardAfter(i) : IsLast(asyncFifo', i, delivered'[i], last)
  <2>1. n > 33 + 10 * i /\ (i \in PreTold => n <= 70 + i) /\ (Greets => n # 34 + 10 * i)
    BY <1>2, <1>3, <1>6
  <2>2. PICK last \in Heard(i) : Latest(i, last)
    BY <1>1, <1>3, <2>1 DEF OrderInv, GreetInv
  <2>3. Greets => (n <= 34 + 10 * i <=> n < 34 + 10 * i)
    BY <1>2, <2>1
  <2>4. Heard(i) = HeardAfter(i)
    BY <1>3, <2>3 DEF Heard, HeardAfter, Lines
  <2> QED BY <2>2, <2>4 DEF Latest, Lines
<1>7. \A i \in PreTold : ~ (n >= 70 + i)
  BY <1>2, <1>3
<1> QED BY <1>1, <1>3, <1>4, <1>5, <1>6, <1>7, OrderPrestart

\* The configuration of the event builder drops what waits.
LEMMA OrderPayloads ==
    ASSUME FlowInv, ListTypeOK, ConfigInv, OrderInv, SetPayloads PROVE OrderInv'
<1>1. Plain
  BY DEF Plain
<1>2. ~Idle /\ Advance /\ Handler = "prestart" /\ Now = 10
  BY <1>1, PlainCalls, Place DEF SetPayloads
<1>3. fwType /\ v7Done
  BY <1>2 DEF ConfigInv, ChipInv, Runs
<1>4. asyncFifo' = <<>>
  BY <1>3 DEF SetPayloads, SetEbCfg, Checked, IfV7
<1>5. Stream \subseteq 0 .. 3 /\ PreTold \subseteq Stream /\ Stream' = Stream /\ coda = "downloaded"
  BY <1>2, SamePorts, Lengths, Mapped DEF FlowInv, Advance
<1>6. PreTold' = PreTold
  BY <1>2, <1>5 DEF PreTold, Greets, Advance
<1>7. Onward /\ ~ Return
  BY <1>2, PrestartOrder DEF Onward, Return
<1>8. PICK m \in 11 .. 20 : m = Now'
  BY <1>2, <1>7, PrestartOrder
<1>9. Runs("prestart")' /\ ~Runs("end")' /\ ~InRun'
  BY <1>2, <1>5, <1>7, SameHandler DEF Onward, InRun
<1>10. /\ \A i \in Stream : ~ (m > 33 + 10 * i) /\ m # 34 + 10 * i
       /\ \A i \in PreTold : ~ (m > 70 + i)
  BY <1>5
<1>11. LineInv'
  BY <1>4, LineEmpty
<1>12. Len(asyncFifo') <= 1
  BY <1>4
<1> QED BY <1>5, <1>6, <1>8, <1>9, <1>10, <1>11, <1>12 DEF OrderInv, GreetInv, TellInv

\* A connection resets the event builder, which holds nothing that could go
\* out: what a client has got is what it was sent.
LEMMA OrderConnect ==
    ASSUME FlowInv, ListTypeOK, ConfigInv, AddrInv, LinkInv, OpenInv, OrderInv, ConnectStream PROVE OrderInv'
<1>1. Plain
  BY DEF Plain
<1>2. ~Idle /\ Advance
  BY <1>1, PlainCalls
<1>3. Stream \subseteq 0 .. 3 /\ Stream \subseteq Inst /\ PreTold \subseteq Stream /\ Connections \in 1 .. 4
      /\ \A i \in Stream : i < Connections
  BY Lengths DEF FlowInv
<1>4. PICK j \in Stream : j = Arg /\ Handler = "prestart" /\ Now = 33 + 10 * j
  BY <1>2, Place DEF ConnectStream
<1>5. PICK n \in 0 .. 110 : n = Now
  BY <1>2, NextCall
<1>6. Runs("prestart") /\ fwType /\ v7Done
  <2>1. Now > 0
    BY <1>3, <1>4
  <2> QED BY <1>2, <1>4, <2>1 DEF Runs, ConfigInv, ChipInv
<1>7. PICK up \in BOOLEAN : TcpConnect(j, up) /\ late' = IF up THEN late ELSE late \union {j}
  BY <1>4 DEF ConnectStream
<1>8. /\ asyncFifo' = <<>> /\ netPort' = j
      /\ delivered' = [delivered EXCEPT ![j] = "NONE"]
  BY <1>3, <1>6, <1>7 DEF TcpConnect
<1>9. delivered \in [Inst -> Type \union {"NONE"}] /\ asyncFifo \in Seq(EventOf(Type))
  BY DEF ListTypeOK, EbTyped
<1>10. Len(asyncFifo) <= 1
  <2>1. n > 10 /\ n < 24 + 10 * Connections
    BY <1>3, <1>4, <1>5
  <2> QED BY <1>5, <1>6, <2>1 DEF OrderInv, GreetInv
<1>11. LineInv'
  BY <1>8, LineEmpty
<1>12. Len(asyncFifo') <= 1
  BY <1>8
<1>13. ASSUME NEW i \in Stream, n = 33 + 10 * i
       PROVE  asyncFifo' = <<>> /\ netPort' = i /\ delivered'[i] = "NONE"
  <2>1. i = j
    BY <1>3, <1>4, <1>5, <1>13
  <2> QED BY <1>3, <1>8, <1>9, <2>1
<1>14. ASSUME NEW i \in Stream, n >= 33 + 10 * i PROVE delivered'[i] \in HeardAfter(i)
  <2>1. CASE i = j
    <3>1. n < 34 + 10 * i
      BY <1>3, <1>4, <1>5, <2>1
    <3> QED BY <1>3, <1>5, <1>8, <1>9, <2>1, <3>1 DEF HeardAfter
  <2>2. CASE i # j
    <3>1. n > 34 + 10 * i /\ n <= 70 + i
      BY <1>3, <1>4, <1>5, <1>14, <2>2
    <3>2. n > 33 + 10 * i /\ ~ (n <= 34 + 10 * i) /\ ~ (n < 34 + 10 * i)
      BY <1>3, <3>1
    <3>3. PICK last \in Heard(i) : Latest(i, last)
      BY <1>5, <1>6, <3>1, <3>2 DEF OrderInv, GreetInv
    <3>4. i \in late' <=> i \in late
      BY <1>7, <2>2
    <3>5. Heard(i) = HeardAfter(i)
      BY <1>5, <3>2, <3>4 DEF Heard, HeardAfter
    <3>6. request[i] /\ i \in Inst /\ delivered'[i] = delivered[i]
      BY <1>3, <1>5, <1>6, <1>8, <1>9, <2>2, <3>2 DEF OpenInv
    <3>7. CASE Of(asyncFifo, i) = {}
      BY <3>3, <3>5, <3>6, <3>7 DEF Latest, IsLast
    <3>8. CASE Of(asyncFifo, i) # {}
      <4>1. Len(asyncFifo) = 1 /\ asyncFifo[1].inst = i /\ asyncFifo # <<>> /\ Of(asyncFifo, i) = {1}
        <5>1. Len(asyncFifo) \in Nat
          BY <1>9
        <5>2. Len(asyncFifo) # 0
          <6>1. Len(asyncFifo) = 0 => 1 .. Len(asyncFifo) = {}
            OBVIOUS
          <6> QED BY <3>8, <6>1 DEF Of
        <5>3. Len(asyncFifo) = 1
          BY <1>10, <5>1, <5>2
        <5> QED BY <3>8, <5>3 DEF Of
      <4>2. asyncFifo[1].type = last /\ asyncFifo[1].type \in Type
        <5>1. asyncFifo[1].type = last
          BY <3>3, <4>1 DEF Latest, IsLast
        <5>2. asyncFifo[1] \in EventOf(Type)
          BY <1>9, <4>1
        <5> QED BY <5>1, <5>2 DEF EventOf
      <4>3. ~link[i]
        <5>1. Head(asyncFifo) = asyncFifo[1]
          BY <1>9, <4>1
        <5> QED BY <4>1, <5>1 DEF ConnectStream, Drained
      <4>4. i \in late
        <5>1. ~ (Now <= 33 + 10 * i)
          BY <1>3, <1>5, <3>2
        <5> QED BY <3>6, <4>3, <5>1 DEF LinkInv
      <4>5. last \in {"NONE", Greeting} /\ Greets
        BY <1>5, <3>2, <3>3, <4>2, <4>4 DEF Heard, Type, Control, Greeting
      <4>6. last = Greeting
        BY <4>2, <4>5 DEF Type, Control, Greeting
      <4>7. InLine(asyncFifo, asyncFifo[1].inst, delivered[i], Needs(i))
        BY <3>6, <4>1 DEF OrderInv, LineInv
      <4>8. Follows(delivered[i], asyncFifo[1].type, Needs(i))
        BY <1>9, <4>1, <4>7, LineFirst
      <4>9. delivered[i] = "NONE"
        BY <4>2, <4>6, <4>8 DEF Follows, Greeting
      <4>10. HeardAfter(i) = {"NONE", Greeting}
        BY <1>5, <3>2, <3>4, <4>4, <4>5 DEF HeardAfter
      <4> QED BY <3>6, <4>9, <4>10
    <3> QED BY <3>7, <3>8
  <2> QED BY <2>1, <2>2
<1>15. \A i \in Stream : n >= 33 + 10 * i => \E last \in HeardAfter(i) : IsLast(asyncFifo', i, delivered'[i], last)
  <2>1. ASSUME NEW i \in Stream, n >= 33 + 10 * i
        PROVE  \E last \in HeardAfter(i) : IsLast(asyncFifo', i, delivered'[i], last)
    <3>1. PICK d \in HeardAfter(i) : d = delivered'[i]
      BY <1>14, <2>1
    <3>2. IsLast(<<>>, i, d, d)
      BY LineNone
    <3> QED BY <1>8, <3>1, <3>2
  <2> QED BY <2>1
<1>16. n > 10 /\ \A i \in PreTold : ~ (n >= 70 + i)
  BY <1>3, <1>4, <1>5
<1> QED BY <1>2, <1>4, <1>5, <1>11, <1>12, <1>13, <1>15, <1>16, OrderPrestart

\* The data of a connection follows nothing.
LEMMA OrderGreet ==
    ASSUME FlowInv, ListTypeOK, ConfigInv, OpenInv, OrderInv, SendGreeting PROVE OrderInv'
<1>1. Plain
  BY DEF Plain
<1>2. ~Idle /\ Advance
  BY <1>1, PlainCalls
<1>3. Stream \subseteq 0 .. 3 /\ Stream \subseteq Inst /\ PreTold \subseteq Stream
  BY Lengths DEF FlowInv
<1>4. PICK j \in Stream : Handler = "prestart" /\ Now = 34 + 10 * j /\ Greets
  BY <1>2, Place DEF SendGreeting
<1>5. PICK n \in 0 .. 110 : n = Now
  BY <1>2, NextCall
<1>6. n > 20 /\ n > 0
  BY <1>3, <1>4, <1>5
<1>7. Runs("prestart") /\ v7Done /\ ~ebReset
  BY <1>2, <1>4, <1>5, <1>6 DEF Runs, ConfigInv, ChipInv, OpenInv
<1>8. asyncFifo = <<>> /\ netPort = j /\ delivered[j] = "NONE"
  BY <1>4, <1>7 DEF OrderInv, GreetInv
<1> DEFINE e == [inst |-> j, type |-> Greeting, cmsg |-> FALSE]
<1>9. asyncFifo' = Append(asyncFifo, e) /\ UNCHANGED <<delivered, late, list, request, posted>>
  BY <1>2, <1>7, <1>8 DEF SendGreeting, Advance, netVars, histVars
<1>10. e.inst = j /\ e.type = Greeting
  OBVIOUS
<1> HIDE DEF e
<1>11. Latest(j, "NONE")
  BY <1>8, LineNone DEF Latest
<1>12. Follows("NONE", Greeting, Needs(j))
  BY DEF Follows
<1>13. LineInv
  BY DEF OrderInv
<1>14. /\ LineInv' /\ Latest(j, Greeting)' /\ Len(asyncFifo') = Len(asyncFifo) + 1
       /\ \A i, x : i # j /\ Latest(i, x) => Latest(i, x)'
  BY <1>9, <1>10, <1>11, <1>12, <1>13, LineWrite
<1>15. Len(asyncFifo') <= 1
  BY <1>8, <1>14
<1>16. \A i \in Stream : n # 33 + 10 * i
  BY <1>3, <1>4, <1>5
<1>17. ASSUME NEW i \in Stream, n >= 33 + 10 * i, i \in PreTold => n < 70 + i
       PROVE  \E last \in HeardAfter(i) : IsLast(asyncFifo', i, delivered'[i], last)
  <2>1. CASE i = j
    <3>1. Greeting \in HeardAfter(j)
      <4>1. ~ (Now < 34 + 10 * j)
        BY <1>3, <1>4
      <4> QED BY <1>4, <4>1 DEF HeardAfter
    <3> QED BY <1>14, <2>1, <3>1 DEF Latest
  <2>2. CASE i # j
    <3>1. n > 34 + 10 * i /\ n <= 70 + i
      BY <1>3, <1>4, <1>5, <1>17, <2>2
    <3>2. n > 33 + 10 * i /\ ~ (n <= 34 + 10 * i) /\ ~ (n < 34 + 10 * i)
      BY <1>3, <3>1
    <3>3. PICK last \in Heard(i) : Latest(i, last)
      BY <1>5, <1>7, <3>1, <3>2 DEF OrderInv, GreetInv
    <3>4. Heard(i) = HeardAfter(i)
      BY <1>5, <1>9, <3>2 DEF Heard, HeardAfter
    <3> QED BY <1>14, <2>2, <3>3, <3>4 DEF Latest
  <2> QED BY <2>1, <2>2
<1>18. n > 10 /\ \A i \in PreTold : ~ (n >= 70 + i)
  BY <1>3, <1>4, <1>5
<1> QED BY <1>2, <1>4, <1>5, <1>14, <1>15, <1>16, <1>17, <1>18, OrderPrestart

\* The Prestart event follows the data of the connection.
LEMMA OrderTell ==
    ASSUME FlowInv, ListTypeOK, ConfigInv, OpenInv, OrderInv, WriteEvent, At("PRESTART") PROVE OrderInv'
<1>1. Plain
  BY DEF Plain
<1>2. ~Idle /\ Advance
  BY <1>1, PlainCalls
<1>3. Stream \subseteq 0 .. 3 /\ Stream \subseteq Inst /\ PreTold \subseteq Stream /\ Connections \in 1 .. 4
  BY Lengths DEF FlowInv
<1>4. PICK j \in PreTold : j = Arg /\ Handler = "prestart" /\ Now = 70 + j
  BY <1>2, Place
<1>5. PICK n \in 0 .. 110 : n = Now
  BY <1>2, NextCall
<1>6. n > 20 /\ n > 0 /\ j \in Stream /\ j \in Inst
  BY <1>3, <1>4, <1>5
<1>7. Runs("prestart") /\ fwType /\ v7Done /\ ~ebReset
  BY <1>2, <1>4, <1>5, <1>6 DEF Runs, ConfigInv, ChipInv, OpenInv
<1>8. EvioWriteControl(j, "PRESTART", 0) /\ late' = late
  BY <1>4 DEF WriteEvent, At, Control
<1> DEFINE e == [inst |-> j, type |-> "PRESTART", cmsg |-> ~udpRx]
<1>9. /\ asyncFifo' = Append(asyncFifo, e) /\ UNCHANGED <<delivered, late, list, request>>
      /\ posted' = [posted EXCEPT ![j] = "PRESTART"]
  BY <1>2, <1>6, <1>7, <1>8 DEF EvioWriteControl, IfV7, Advance, netVars
<1>10. e.inst = j /\ e.type = "PRESTART"
  OBVIOUS
<1> HIDE DEF e
<1>11. PICK last \in Heard(j) : Latest(j, last)
  <2>1. n > 33 + 10 * j /\ n <= 70 + j
    BY <1>3, <1>4, <1>5
  <2> QED BY <1>5, <1>6, <1>7, <2>1 DEF OrderInv, GreetInv
<1>12. Follows(last, "PRESTART", Needs(j))
  <2>1. ~ (Now <= 34 + 10 * j)
    BY <1>3, <1>4
  <2> QED BY <1>11, <2>1 DEF Heard, Follows, Needs
<1>13. LineInv
  BY DEF OrderInv
<1>14. /\ LineInv' /\ Latest(j, "PRESTART")'
       /\ \A i, x : i # j /\ Latest(i, x) => Latest(i, x)'
  BY <1>6, <1>9, <1>10, <1>11, <1>12, <1>13, LineWrite
<1>15. ~ (n < 24 + 10 * Connections) /\ \A i \in Stream : n # 33 + 10 * i
  BY <1>3, <1>4, <1>5
<1>16. ASSUME NEW i \in Stream, n >= 33 + 10 * i, i \in PreTold => n < 70 + i
       PROVE  \E x \in HeardAfter(i) : IsLast(asyncFifo', i, delivered'[i], x)
  <2>1. n > 33 + 10 * i /\ ~ (n <= 34 + 10 * i) /\ ~ (n < 34 + 10 * i) /\ i # j /\ (i \in PreTold => n <= 70 + i)
    BY <1>3, <1>4, <1>5, <1>16
  <2>2. PICK x \in Heard(i) : Latest(i, x)
    BY <1>5, <1>7, <2>1 DEF OrderInv, GreetInv
  <2>3. Heard(i) = HeardAfter(i)
    BY <1>5, <1>9, <2>1 DEF Heard, HeardAfter
  <2> QED BY <1>14, <2>1, <2>2, <2>3 DEF Latest
<1>17. ASSUME NEW i \in PreTold, n >= 70 + i
       PROVE  posted'[i] = "PRESTART" /\ IsLast(asyncFifo', i, delivered'[i], "PRESTART")
  <2>1. posted \in [Inst -> Posted]
    BY DEF ListTypeOK, EbTyped
  <2>2. CASE i = j
    BY <1>6, <1>9, <1>14, <2>1, <2>2 DEF Latest
  <2>3. CASE i # j
    <3>1. n > 70 + i /\ i \in Inst
      BY <1>3, <1>4, <1>5, <1>17, <2>3
    <3>2. posted[i] = "PRESTART" /\ Latest(i, "PRESTART")
      BY <1>5, <1>7, <3>1 DEF OrderInv, TellInv
    <3> QED BY <1>9, <1>14, <2>1, <2>3, <3>1, <3>2 DEF Latest
  <2> QED BY <2>2, <2>3
<1>18. n > 10
  BY <1>6
<1> QED BY <1>2, <1>4, <1>5, <1>14, <1>15, <1>16, <1>17, <1>18, OrderPrestart

\* A Go or End event follows the event written before it.
LEMMA OrderWrite ==
    ASSUME FlowInv, ListTypeOK, ConfigInv, EndInv, OpenInv, OrderInv, WriteEvent, At("GO") \/ At("END")
    PROVE  OrderInv'
<1>1. Plain
  BY DEF Plain
<1>2. ~Idle /\ Advance /\ fwType' = fwType
  BY <1>1, PlainCalls
<1>3. /\ Stream \subseteq 0 .. 3 /\ Stream \subseteq Inst /\ PreTold \subseteq Stream /\ Told \subseteq PreTold
  BY Lengths DEF FlowInv
<1>4. PICK j \in Told : /\ j = Arg /\ (Handler = "go" \/ (Handler = "end" /\ Now = 30 + j))
                        /\ (At("END") => Handler = "end")
  BY <1>2, Place
<1>5. PICK type \in {"GO", "END"} : \E count : EvioWriteControl(j, type, count)
  BY <1>4 DEF WriteEvent, At, Control
<1>6. late' = late /\ j \in Inst /\ j \in Stream /\ j \in 0 .. 3
  BY <1>3 DEF WriteEvent
<1>7. InRun /\ list' = list
  BY <1>2, <1>4, Mapped DEF Advance
<1>8. Handler = "end" => ~ (Now > 40) /\ (\A i \in Stream : ~ (Now > 50 + i)) /\ Now < 40 /\ ~ (Now >= 40)
  BY <1>3, <1>4, <1>6
<1>9. ASSUME LineInv',
             fwType => \A i \in PreTold : request'[i] =>
                posted'[i] \in Control /\ IsLast(asyncFifo', i, delivered'[i], posted'[i])
      PROVE  OrderInv'
  BY <1>2, <1>4, <1>8, <1>9, OrderGo, OrderEnd
<1>10. CASE ~fwType
  <2>1. UNCHANGED ebVars
    BY <1>5, <1>10 DEF EvioWriteControl
  <2>2. Lines /\ request' = request
    BY <1>6, <1>7, <2>1 DEF Lines, ebVars, netVars
  <2>3. LineInv'
    BY <2>2, LineKept DEF OrderInv
  <2> QED BY <1>9, <1>10, <2>3
<1>11. CASE fwType /\ NoneOpen
  <2>1. /\ request' = request /\ delivered' = delivered
        /\ \/ asyncFifo' = asyncFifo \/ asyncFifo' = <<>>
           \/ asyncFifo' = Append(asyncFifo, [inst |-> j, type |-> type, cmsg |-> ~udpRx])
    BY <1>5, <1>6, <1>11 DEF EvioWriteControl, IfV7, ebVars, netVars
  <2>2. \A i \in Inst : ~request'[i]
    BY <1>11, <2>1 DEF NoneOpen
  <2>3. \A k \in 1 .. Len(asyncFifo') : asyncFifo'[k].inst \in Stream
    <3>1. asyncFifo \in Seq(EventOf(Type)) /\ \A k \in 1 .. Len(asyncFifo) : asyncFifo[k].inst \in Stream
      BY DEF ListTypeOK, EbTyped, OrderInv, LineInv
    <3> DEFINE e == [inst |-> j, type |-> type, cmsg |-> ~udpRx]
    <3>2. e.inst \in Stream
      BY <1>6
    <3> HIDE DEF e
    <3>3. CASE asyncFifo' = Append(asyncFifo, e)
      <4>1. Len(asyncFifo') = Len(asyncFifo) + 1 /\ Len(asyncFifo) \in Nat
        BY <3>1, <3>3
      <4>2. \A k \in 1 .. Len(asyncFifo') : asyncFifo'[k] = IF k \in 1 .. Len(asyncFifo) THEN asyncFifo[k] ELSE e
        BY <3>1, <3>3
      <4> QED BY <3>1, <3>2, <4>2
    <3>4. CASE asyncFifo' = asyncFifo \/ asyncFifo' = <<>>
      BY <3>1, <3>4
    <3> QED BY <2>1, <3>3, <3>4 DEF e
  <2>4. LineInv'
    BY <1>7, <2>2, <2>3, SamePorts DEF LineInv
  <2>5. \A i \in PreTold : ~request'[i]
    BY <1>3, <2>2
  <2> QED BY <1>9, <2>4, <2>5
<1>12. CASE fwType /\ ~NoneOpen
  <2>1. v7Done /\ ~ebReset /\ request[j] /\ \A i \in Stream : request[i]
    <3>1. Runs("end") => Handler = "end"
      BY DEF Runs
    <3> QED BY <1>6, <1>7, <1>8, <1>12, <3>1 DEF OpenInv
  <2> DEFINE e == [inst |-> j, type |-> type, cmsg |-> ~udpRx]
  <2>2. /\ asyncFifo' = Append(asyncFifo, e) /\ UNCHANGED <<delivered, late, list, request>>
        /\ posted' = [posted EXCEPT ![j] = type]
    BY <1>5, <1>6, <1>7, <1>12, <2>1 DEF EvioWriteControl, IfV7, netVars
  <2>3. e.inst = j /\ e.type = type
    OBVIOUS
  <2> HIDE DEF e
  <2>4. \A i \in PreTold : posted[i] \in Control /\ Latest(i, posted[i])
    <3>1. ~ (Runs("end") /\ Now > 40)
      BY <1>8 DEF Runs
    <3> QED BY <1>3, <1>7, <1>12, <2>1, <3>1 DEF OrderInv, TellInv
  <2>5. posted[j] # "END"
    <3>1. ~ (Runs("end") /\ 30 + j < Now)
      BY <1>4, <1>6 DEF Runs
    <3> QED BY <1>6, <2>1, <3>1 DEF EndInv, Ended
  <2>6. PICK last : last = posted[j]
    OBVIOUS
  <2>7. Latest(j, last) /\ Follows(last, type, Needs(j))
    BY <1>3, <2>4, <2>5, <2>6 DEF Follows, Control
  <2>8. LineInv
    BY DEF OrderInv
  <2>9. /\ LineInv' /\ Latest(j, type)'
        /\ \A i, x : i # j /\ Latest(i, x) => Latest(i, x)'
    BY <1>6, <2>2, <2>3, <2>7, <2>8, LineWrite
  <2>10. ASSUME NEW i \in PreTold
         PROVE  posted'[i] \in Control /\ IsLast(asyncFifo', i, delivered'[i], posted'[i])
    <3>1. posted \in [Inst -> Posted] /\ i \in Inst
      BY <1>3 DEF ListTypeOK, EbTyped
    <3>2. CASE i = j
      BY <2>2, <2>9, <3>1, <3>2 DEF Latest, Control
    <3>3. CASE i # j
      <4>1. posted'[i] = posted[i]
        BY <2>2, <3>1, <3>3
      <4>2. PICK x : x = posted[i]
        OBVIOUS
      <4>3. x \in Control /\ Latest(i, x)
        BY <2>4, <4>2
      <4>4. IsLast(asyncFifo', i, delivered'[i], x)
        BY <2>9, <3>3, <4>3 DEF Latest
      <4> QED BY <4>1, <4>2, <4>3, <4>4
    <3> QED BY <3>2, <3>3
  <2> QED BY <1>9, <2>9, <2>10
<1> QED BY <1>10, <1>11, <1>12

\* The calls of rocGo and rocEnd that write nothing.  sleep(2) lets the events
\* out, and neither the reset of the event builder nor a socket that closes
\* takes one away.
LEMMA OrderRest ==
    ASSUME FlowInv, ListTypeOK, ConfigInv, LinkInv, EndInv, OpenInv, OrderInv, Plain,
           Handler \in {"go", "end"}, ~WriteEvent
    PROVE  OrderInv'
<1>1. ~Idle /\ Advance /\ fwType' = fwType
  BY PlainCalls
<1>2. /\ Stream \subseteq 0 .. 3 /\ Stream \subseteq Inst /\ PreTold \subseteq Stream /\ Told \subseteq PreTold
  BY Lengths DEF FlowInv
<1>3. PICK n \in 0 .. 110 : n = Now
  BY <1>1, NextCall
<1>4. InRun /\ list' = list
  BY <1>1, Mapped DEF Advance
<1>5. CASE EnablePayloads \/ WaitForData \/ EnableAsync
  <2>1. Handler = "go" \/ n \in {0, 20}
    BY <1>1, <1>3, <1>5, Place DEF EnablePayloads, WaitForData, EnableAsync
  <2>2. Lines /\ UNCHANGED <<request, posted>>
    BY <1>4, <1>5 DEF EnablePayloads, WaitForData, EnableAsync, EbEnable, IfV7, Lines, ebVars, netVars, histVars
  <2>3. LineInv'
    BY <2>2, LineKept DEF OrderInv
  <2>4. ~ (Runs("end") /\ Now > 40)
    BY <1>3, <2>1 DEF Runs
  <2>5. fwType => \A i \in PreTold : request'[i] =>
            posted'[i] \in Control /\ IsLast(asyncFifo', i, delivered'[i], posted'[i])
    BY <1>4, <2>2, <2>4 DEF OrderInv, TellInv, Latest, Lines
  <2>6. Handler = "end" => ~ (Now >= 40)
    BY <1>3, <2>1
  <2> QED BY <1>1, <2>3, <2>5, <2>6, OrderGo, OrderEnd
<1>6. CASE WaitForEvents
  <2>1. n = 40 /\ Handler = "end" /\ Runs("end")
    BY <1>1, <1>3, <1>6, Place DEF WaitForEvents, Runs
  <2>2. Lines /\ UNCHANGED <<request, posted>>
    BY <1>4, <1>6 DEF WaitForEvents, Lines, ebVars, netVars, histVars
  <2>3. LineInv'
    BY <2>2, LineKept DEF OrderInv
  <2>4. ASSUME late = {}, NEW i \in Inst, Ended(i) PROVE asyncFifo = <<>> /\ delivered[i] = "END"
    <3>1. fwType /\ i \in PreTold /\ request[i] /\ posted[i] = "END"
      BY <1>2, <2>4 DEF EndInv, Ended
    <3>2. \A k \in Stream : request[k]
      <4>1. \A k \in Stream : ~ (Now > 50 + k)
        BY <1>2, <1>3, <2>1
      <4> QED BY <1>4, <2>4, <3>1, <4>1 DEF OpenInv, NoneOpen
    <3>3. \A k \in Stream : link[k]
      <4>1. ~Runs("prestart")
        BY <2>1 DEF Runs
      <4> QED BY <1>2, <2>4, <3>2, <4>1 DEF LinkInv
    <3>4. asyncFifo = <<>>
      <4>1. SUFFICES ASSUME asyncFifo # <<>> PROVE FALSE
        OBVIOUS
      <4>2. asyncFifo \in Seq(EventOf(Type))
        BY DEF ListTypeOK, EbTyped
      <4>3. Head(asyncFifo) = asyncFifo[1] /\ 1 \in 1 .. Len(asyncFifo)
        BY <4>1, <4>2
      <4>4. asyncFifo[1].inst \in Stream
        BY <4>3 DEF OrderInv, LineInv
      <4> QED BY <1>6, <3>3, <4>1, <4>3, <4>4 DEF WaitForEvents, Drained
    <3>5. Latest(i, "END")
      <4>1. ~ (Runs("end") /\ Now > 40)
        BY <1>3, <2>1
      <4> QED BY <1>4, <3>1, <4>1 DEF OrderInv, TellInv, Latest
    <3>6. Of(<<>>, i) = {}
      BY DEF Of
    <3> QED BY <3>4, <3>5, <3>6 DEF Latest, IsLast
  <2>5. late' = {} => \A i \in Inst : request'[i] /\ posted'[i] = "END" =>
            asyncFifo' = <<>> /\ delivered'[i] = "END"
    BY <2>2, <2>4 DEF Lines, Ended
  <2>6. ~ (Now < 40)
    BY <1>3, <2>1
  <2> QED BY <1>1, <2>1, <2>3, <2>5, <2>6, OrderEnd
<1>7. CASE ResetEb \/ CloseStream
  <2>1. n > 40 /\ Handler = "end" /\ Runs("end")
    <3>1. Handler = "end" /\ (n = 41 \/ (Arg \in Stream /\ n = 50 + Arg))
      BY <1>1, <1>3, <1>7, Place DEF ResetEb, CloseStream
    <3>2. \A j \in Stream : 50 + j > 40
      BY <1>2
    <3>3. n > 40
      BY <3>1, <3>2
    <3> QED BY <1>1, <3>1, <3>3 DEF Runs
  <2>2. /\ asyncFifo' \in {asyncFifo, <<>>} /\ UNCHANGED <<delivered, late, posted>>
        /\ \A i \in Inst : request'[i] => request[i]
    <3>1. CASE ResetEb
      BY <3>1 DEF ResetEb, EbDisable, IfV7, ebVars, netVars, histVars
    <3>2. CASE CloseStream
      <4>1. request \in [Inst -> BOOLEAN]
        BY DEF ListTypeOK, EbTyped
      <4> QED BY <3>2, <4>1 DEF CloseStream, TcpDisconnect, ebVars, netVars, histVars
    <3> QED BY <1>7, <3>1, <3>2
  <2>3. LineInv'
    <3>1. CASE asyncFifo' = asyncFifo
      BY <1>4, <2>2, <3>1, LineKept DEF OrderInv, Lines
    <3> QED BY <2>2, <3>1, LineEmpty
  <2>4. late' = {} => \A i \in Inst : request'[i] /\ posted'[i] = "END" =>
            asyncFifo' = <<>> /\ delivered'[i] = "END"
    <3>1. Now > 40
      BY <1>3, <2>1
    <3> QED BY <2>1, <2>2, <3>1 DEF OrderInv, TellInv, Ended
  <2>5. ~ (Now < 40)
    BY <1>3, <2>1
  <2> QED BY <1>1, <2>1, <2>3, <2>4, <2>5, OrderEnd
<1>8. ~ (LoadZ7 \/ LoadV7 \/ SetAddress \/ SetPayloads \/ ResetLinks \/ GetBase \/ NextAddress \/ NextPort
         \/ SetClient \/ ConnectStream \/ SendGreeting)
  BY <1>1, Place DEF LoadZ7, LoadV7, SetAddress, SetPayloads, ResetLinks, GetBase, NextAddress, NextPort,
      SetClient, ConnectStream, SendGreeting
<1> QED BY <1>5, <1>6, <1>7, <1>8 DEF Plain

LEMMA OrderDownload ==
    ASSUME FlowInv, ListTypeOK, OrderInv, LoadZ7 \/ LoadV7 \/ LoadUnmapped PROVE OrderInv'
<1>1. list \in Lists
  BY DEF FlowInv
<1>2. list' = list /\ ~InRun' /\ ~Runs("end")' /\ ~Runs("prestart")'
  <2>1. CASE LoadUnmapped
    BY <2>1, FlowUnmapped DEF Runs, InRun
  <2>2. CASE LoadZ7 \/ LoadV7
    <3>1. Plain
      BY <2>2 DEF Plain
    <3>2. ~Idle /\ Advance /\ fwType' = fwType /\ (dev = "mapped" \/ ~At("v7"))
      BY <3>1, PlainCalls
    <3>3. Handler = "download"
      BY <2>2, <3>2, Place DEF LoadZ7, LoadV7
    <3>4. ~InRun /\ to = "downloaded" /\ (Onward \/ Return)
      BY <3>2, <3>3, Mapped, FlowAdvance
    <3> QED BY <3>3, <3>4, SameHandler DEF Return, Runs, InRun, Onward
  <2> QED BY <2>1, <2>2
<1>3. LineInv'
  <2>1. CASE LoadZ7
    <3>1. Lines /\ \A i \in Inst : request'[i] => request[i]
      BY <1>2, <2>1 DEF LoadZ7, Z7CfgLoad, Lines, ebVars, netVars
    <3> QED BY <3>1, LineKept DEF OrderInv
  <2>2. CASE LoadV7
    <3>1. asyncFifo' = <<>>
      BY <2>2 DEF LoadV7, V7CfgLoad
    <3> QED BY <3>1, LineEmpty
  <2>3. CASE LoadUnmapped
    <3>1. Lines /\ request' = request
      BY <1>2, <2>3 DEF LoadUnmapped, Lines, netVars
    <3> QED BY <3>1, LineKept DEF OrderInv
  <2> QED BY <2>1, <2>2, <2>3
<1> QED BY <1>1, <1>2, <1>3, OrderOutside

LEMMA OrderInitVtp ==
    ASSUME FlowInv, ListTypeOK, OpenInv, OrderInv, InitVtp PROVE OrderInv'
<1>1. /\ FlowInv' /\ ~Idle /\ Handler = "prestart" /\ Now = 0
      /\ (Onward \/ (Return /\ fwType' = fwType))
  BY FlowInitVtp
<1>2. coda = "downloaded" /\ to = "prestarted" /\ list \in Lists
  BY <1>1, Mapped DEF FlowInv
<1>3. Lines /\ request' = request
  BY <1>1 DEF InitVtp, Lines, netVars, Onward, Return
<1>4. LineInv'
  BY <1>3, LineKept DEF OrderInv
<1>5. CASE Onward
  <2>1. list' = list /\ Runs("prestart")' /\ ~Runs("end")' /\ ~InRun'
    BY <1>1, <1>2, <1>5, SameHandler DEF Onward, InRun
  <2>2. Call("file", 0) \in CallsOf("prestart") /\ Time[Call("file", 0)] = 1
    BY <1>2, PrestartMade, Times
  <2>3. Now' \in 0 .. 110 /\ ~ (1 < Now')
    BY <1>1, <1>5, <2>2 DEF Onward
  <2>4. Now' \in 0 .. 10
    BY <2>3
  <2> QED BY <1>2, <1>4, <2>1, <2>4, OrderOutside
<1>6. CASE Return /\ fwType' = fwType
  <2>1. ~Runs("prestart")' /\ ~Runs("end")'
    BY <1>6 DEF Return, Runs
  <2>2. fwType' => NoneOpen
    BY <1>1, <1>2, <1>6 DEF OpenInv
  <2>3. PreTold' = PreTold /\ PreTold \subseteq Inst
    <3>1. PreTold \subseteq Inst /\ list' = list
      BY <1>2, <1>3, Lengths DEF Lines
    <3> QED BY <3>1, SamePorts DEF PreTold, Greets
  <2>4. fwType' => \A i \in PreTold' : ~request'[i]
    BY <1>3, <2>2, <2>3 DEF NoneOpen
  <2> QED BY <1>4, <2>1, <2>4 DEF OrderInv, GreetInv, TellInv
<1> QED BY <1>1, <1>5, <1>6

LEMMA OrderNext ==
    ASSUME FlowInv, ListTypeOK, ConfigInv, AddrInv, LinkInv, EndInv, OpenInv, OrderInv, Next \/ UNCHANGED vars
    PROVE  OrderInv'
<1>1. CASE Download \/ Prestart \/ Go \/ End
  <2>1. Idle /\ Now' = 0 /\ coda' = coda /\ list' = list
    BY <1>1, FlowCommands
  <2>2. Lines /\ UNCHANGED <<fwType, request, posted>>
    BY <1>1, <2>1 DEF Download, Prestart, Go, End, Command, Lines, ebVars, chipVars, netVars, histVars
  <2>3. InRun' => InRun
    BY <2>1 DEF InRun
  <2> QED BY <2>1, <2>2, <2>3, OrderStart
<1>2. CASE Pause \/ Reset
  <2>1. /\ Idle /\ Idle' /\ list' = list /\ UNCHANGED ebVars
        /\ (coda = "active" /\ coda' = "paused") \/ coda' = "booted"
    BY <1>2, FlowIdle
  <2>2. late' = late
    BY <1>2 DEF Pause, Reset
  <2>3. Lines /\ UNCHANGED <<fwType, request, posted>> /\ (InRun' => InRun)
    BY <2>1, <2>2 DEF Lines, ebVars, chipVars, netVars, histVars, InRun
  <2> QED BY <2>1, <2>3, OrderStart
<1>3. CASE HoldSync \/ ReleaseSync \/ Hardware \/ UNCHANGED vars
  <2>1. Stay
    BY <1>3, FlowOthers
  <2>2. /\ UNCHANGED <<fwType, request, posted, netPort>>
        /\ Lines \/ (SendAsync /\ UNCHANGED rolVars)
    <3>1. CASE HoldSync \/ ReleaseSync \/ UNCHANGED vars
      BY <3>1 DEF HoldSync, ReleaseSync, vars, rolVars, Lines, ebVars, chipVars, ctrlVars, netVars, histVars
    <3>2. CASE SendAsync /\ UNCHANGED rolVars
      BY <3>2 DEF SendAsync, chipVars, ctrlVars, netVars, histVars
    <3>3. ASSUME NEW i \in Inst, BuildFrame(i, sync) \/ SendFrame(i) \/ LateConnect(i), UNCHANGED rolVars
          PROVE  Lines /\ UNCHANGED <<fwType, request, posted, netPort>>
      BY <3>3 DEF BuildFrame, SendFrame, LateConnect, rolVars, Lines, chipVars, ctrlVars, netVars, histVars
    <3> QED BY <1>3, <3>1, <3>2, <3>3 DEF Hardware
  <2> QED BY <2>1, <2>2, OrderStay
<1>4. CASE LoadZ7 \/ LoadV7 \/ LoadUnmapped
  BY <1>4, OrderDownload
<1>5. CASE InitVtp
  BY <1>5, OrderInitVtp
<1>6. CASE ReadFile
  <2>1. /\ FlowInv' /\ Runs("prestart")' /\ list' = list /\ Now' \in {2, 10}
    BY <1>6, FlowReadFile DEF Runs
  <2>2. ~InRun' /\ ~Runs("end")' /\ Now' \in 0 .. 10
    BY <2>1 DEF FlowInv, InRun, Runs
  <2>3. LineInv'
    <3>1. late' = late /\ request' = request /\ delivered' = delivered /\ asyncFifo' \in {asyncFifo, <<>>}
      BY <1>6 DEF ReadFile, SetEbCfg, Checked, IfV7, ebVars, netVars
    <3>2. CASE asyncFifo' = asyncFifo
      BY <2>1, <3>1, <3>2, LineKept DEF OrderInv, Lines
    <3> QED BY <3>1, <3>2, LineEmpty
  <2> QED BY <2>1, <2>2, <2>3, OrderOutside DEF FlowInv
<1>7. CASE Plain
  <2>1. ~Idle /\ Advance /\ list' = list
    BY <1>7, PlainCalls DEF Advance
  <2>2. Stream \subseteq 0 .. 3
    BY Lengths DEF FlowInv
  <2>3. CASE LoadZ7 \/ LoadV7
    BY <2>3, OrderDownload
  <2>4. CASE SetAddress
    <3>1. Handler = "prestart" /\ Now = 2
      BY <2>1, <2>4, Place DEF SetAddress
    <3>2. Onward /\ ~ Return
      BY <2>1, <3>1, PrestartOrder DEF Onward, Return
    <3>3. Now' \in 0 .. 10
      BY <2>1, <3>1, <3>2, PrestartOrder
    <3>4. ~InRun' /\ ~Runs("end")'
      BY <2>1, <3>1, <3>2, SameHandler, Mapped DEF Onward, InRun
    <3>5. request \in [Inst -> BOOLEAN]
      BY DEF ListTypeOK, EbTyped
    <3>6. Lines /\ \A i \in Inst : request'[i] => request[i]
      BY <2>1, <2>4, <3>5 DEF SetAddress, SetNetCfg, Lines, ebVars, netVars
    <3>7. LineInv'
      BY <3>6, LineKept DEF OrderInv
    <3> QED BY <2>1, <3>3, <3>4, <3>7, OrderOutside DEF FlowInv
  <2>5. CASE SetPayloads
    BY <2>5, OrderPayloads
  <2>6. CASE ConnectStream
    BY <2>6, OrderConnect
  <2>7. CASE SendGreeting
    BY <2>7, OrderGreet
  <2>8. CASE WriteEvent
    <3>1. At("PRESTART") \/ At("GO") \/ At("END")
      BY <2>8 DEF WriteEvent, Control
    <3> QED BY <2>8, <3>1, OrderTell, OrderWrite
  <2>9. CASE Handler \in {"go", "end"}
    BY <1>7, <2>8, <2>9, OrderRest
  <2>10. CASE Handler = "prestart" /\ (EnableAsync \/ ResetLinks \/ GetBase)
    <3>1. Now \in 20 .. 22
      BY <2>1, <2>10, Place DEF EnableAsync, ResetLinks, GetBase
    <3>2. Lines /\ \A i \in Inst : request'[i] => request[i]
      BY <2>1, <2>10 DEF EnableAsync, ResetLinks, GetBase, EbEnable, ResetDataPath, IfV7, Lines, ebVars, netVars
    <3>3. Now > 10 /\ Now < 70 /\ \A i \in Stream : Now # 33 + 10 * i /\ Now # 34 + 10 * i
      BY <2>2, <3>1
    <3> QED BY <1>7, <2>10, <3>2, <3>3, OrderSetup
  <2>11. CASE NextAddress \/ NextPort \/ SetClient
    <3>1. Handler = "prestart" /\ Arg \in Stream /\ Now \in {30 + 10 * Arg, 31 + 10 * Arg, 32 + 10 * Arg}
      BY <2>1, <2>11, Place DEF NextAddress, NextPort, SetClient
    <3>2. Lines /\ \A i \in Inst : request'[i] => request[i]
      <4>1. request \in [Inst -> BOOLEAN]
        BY DEF ListTypeOK, EbTyped
      <4> QED BY <2>1, <2>11, <4>1 DEF NextAddress, NextPort, SetClient, SetNetCfg, Lines, ebVars, netVars
    <3>3. Now > 10 /\ Now < 70 /\ \A i \in Stream : Now # 33 + 10 * i /\ Now # 34 + 10 * i
      BY <2>2, <3>1
    <3> QED BY <1>7, <2>11, <3>1, <3>2, <3>3, OrderSetup
  <2>12. CASE EnablePayloads \/ WaitForData \/ WaitForEvents \/ ResetEb \/ CloseStream
    <3>1. Handler \in {"go", "end"}
      BY <2>1, <2>12, Place DEF EnablePayloads, WaitForData, WaitForEvents, ResetEb, CloseStream
    <3> QED BY <2>9, <3>1
  <2>13. CASE EnableAsync \/ ResetLinks \/ GetBase
    <3>1. Handler \in {"prestart", "end"}
      BY <2>1, <2>13, Place DEF EnableAsync, ResetLinks, GetBase
    <3> QED BY <2>9, <2>10, <2>13, <3>1
  <2> QED BY <1>7, <2>3, <2>4, <2>5, <2>6, <2>7, <2>8, <2>11, <2>12, <2>13 DEF Plain
<1> QED BY <1>1, <1>2, <1>3, <1>4, <1>5, <1>6, <1>7 DEF Next, Rol, Plain

-----------------------------------------------------------------------------
(* What a receiver gets, and when *)

ListInv == CoreInv /\ AddrInv /\ LinkInv /\ EndInv /\ OpenInv /\ OrderInv

LEMMA ListInit == Init => ListInv
BY FlowInit, TypeInit, ConfigInit, AddrInit, LinkInit, EndInit, OpenInit, OrderInit DEF CoreInv, ListInv

LEMMA ListNext == ListInv /\ [Next]_vars => ListInv'
<1> SUFFICES ASSUME ListInv, Next \/ UNCHANGED vars PROVE ListInv'
  OBVIOUS
<1>1. FlowInv /\ ListTypeOK /\ ConfigInv /\ AddrInv /\ LinkInv /\ EndInv /\ OpenInv /\ OrderInv
  BY DEF ListInv, CoreInv
<1>2. FlowInv' /\ ListTypeOK' /\ ConfigInv' /\ AddrInv'
  BY <1>1, FlowNext, TypeNext, ConfigNext, AddrNext
<1>3. LinkInv' /\ EndInv' /\ OpenInv' /\ OrderInv'
  BY <1>1, LinkNext, EndNext, OpenNext, OrderNext
<1> QED BY <1>2, <1>3 DEF ListInv, CoreInv

\* A stream that is told of End has the event before its socket closes: the
\* event builder is reset, by vtpStreamingEbReset or by the first socket that
\* closes, only after sleep(2) has let the events out.
THEOREM EndBeforeCloseCorrect == Spec => []EndBeforeClose
<1>1. ListInv => EndBeforeClose
  <2> SUFFICES ASSUME ListInv, At("close"), late = {}, posted[Arg] = "END",
                      \A i \in Arg .. Connections - 1 : link[i]
               PROVE  delivered[Arg] = "END"
    BY DEF EndBeforeClose
  <2>1. FlowInv /\ ~Idle /\ Stream \subseteq 0 .. 3 /\ Stream \subseteq Inst /\ Stream = 0 .. Connections - 1
    BY Lengths DEF ListInv, CoreInv, FlowInv, At, Idle, Empty
  <2>2. Runs("end") /\ Now = 50 + Arg /\ Arg \in Stream
    BY <2>1, Place DEF Runs
  <2>3. Now > 40
    BY <2>1, <2>2
  <2>4. Ended(Arg)
    <3>1. link[Arg]
      <4>1. Arg \in Arg .. Connections - 1
        BY <2>1, <2>2
      <4> QED BY <4>1
    <3> QED BY <2>1, <2>2, <3>1 DEF ListInv, LinkInv, Ended
  <2> QED BY <2>1, <2>2, <2>3, <2>4 DEF ListInv, OrderInv, TellInv
<1> QED BY <1>1, ListInit, ListNext, PTL DEF Spec

\* Only a connection that starts and an event that is sent change what a
\* client got last.
LEMMA DeliveredBy ==
    ASSUME Next, delivered' # delivered PROVE (ConnectStream \/ SendAsync)
<1>1. CASE Download \/ Prestart \/ Go \/ End \/ Pause \/ Reset \/ HoldSync \/ ReleaseSync
  BY <1>1 DEF Download, Prestart, Go, End, Pause, Reset, HoldSync, ReleaseSync, Command, ebVars
<1>2. CASE Hardware
  BY <1>2 DEF Hardware, BuildFrame, SendFrame, LateConnect
<1>3. CASE LoadZ7 \/ LoadV7 \/ LoadUnmapped \/ InitVtp
  BY <1>3 DEF LoadZ7, LoadV7, LoadUnmapped, InitVtp, Z7CfgLoad, V7CfgLoad, ebVars
<1>4. CASE ReadFile \/ SetAddress \/ SetPayloads \/ SetClient
  BY <1>4 DEF ReadFile, SetAddress, SetPayloads, SetClient, SetEbCfg, SetNetCfg, Checked, IfV7, ebVars
<1>5. CASE EnableAsync \/ ResetLinks \/ GetBase \/ NextAddress \/ NextPort \/ SendGreeting
  BY <1>5 DEF EnableAsync, ResetLinks, GetBase, NextAddress, NextPort, SendGreeting, EbEnable, ResetDataPath,
              IfV7, ebVars
<1>6. CASE WriteEvent \/ EnablePayloads \/ WaitForData \/ WaitForEvents \/ ResetEb \/ CloseStream
  BY <1>6 DEF WriteEvent, EnablePayloads, WaitForData, WaitForEvents, ResetEb, CloseStream, EvioWriteControl,
              EbEnable, EbDisable, TcpDisconnect, IfV7, ebVars
<1> QED BY <1>1, <1>2, <1>3, <1>4, <1>5, <1>6 DEF Next, Rol

\* What one step may give client i.
Given(i) ==
    \/ delivered'[i] = "NONE"
    \/ delivered'[i] = Greeting /\ delivered[i] = "NONE"
    \/ /\ delivered'[i] = "PRESTART"
       /\ IF Greets /\ i \notin late THEN delivered[i] = Greeting ELSE delivered[i] \in {"NONE", Greeting}
    \/ delivered'[i] = "GO" /\ delivered[i] = "PRESTART"
    \/ delivered'[i] = "END" /\ delivered[i] \in {"PRESTART", "GO"}

LEMMA GivenByNext ==
    ASSUME ListInv, Next, NEW i \in Inst, delivered'[i] # delivered[i] PROVE Given(i)
<1>1. /\ delivered \in [Inst -> Type \union {"NONE"}] /\ asyncFifo \in Seq(EventOf(Type))
      /\ LineInv /\ \A k \in Inst : link[k] => request[k]
  BY DEF ListInv, CoreInv, ListTypeOK, EbTyped, OrderInv, LinkInv
<1>2. CASE ConnectStream
  <2>1. delivered' = delivered \/ delivered' = [delivered EXCEPT ![Arg] = "NONE"]
    BY <1>2 DEF ConnectStream, TcpConnect, ebVars
  <2> QED BY <1>1, <2>1 DEF Given
<1>3. CASE SendAsync
  <2>1. asyncFifo # <<>> /\ Head(asyncFifo) = asyncFifo[1] /\ asyncFifo[1] \in EventOf(Type)
    BY <1>1, <1>3 DEF SendAsync
  <2>2. link[asyncFifo[1].inst] /\ delivered' = [delivered EXCEPT ![asyncFifo[1].inst] = asyncFifo[1].type]
    BY <1>3, <2>1 DEF SendAsync
  <2>3. i = asyncFifo[1].inst /\ delivered'[i] = asyncFifo[1].type
    BY <1>1, <2>2
  <2>4. InLine(asyncFifo, asyncFifo[1].inst, delivered[i], Needs(i))
    BY <1>1, <2>2, <2>3 DEF LineInv
  <2>5. Follows(delivered[i], delivered'[i], Needs(i))
    BY <1>1, <2>1, <2>3, <2>4, LineFirst
  <2>6. PICK a, b : a = delivered[i] /\ b = delivered'[i]
    OBVIOUS
  <2>7. Follows(a, b, Needs(i)) /\ a # b
    BY <2>5, <2>6
  <2> QED BY <2>6, <2>7 DEF Follows, Given, Needs, Greeting
<1> QED BY <1>2, <1>3, DeliveredBy

\* A receiver gets the data of its connection first, and control events in
\* the order of run control, whatever the resets of the shared event builder.
THEOREM GreetingFirstCorrect == Spec => GreetingFirst
<1>1. ListInv /\ [Next]_vars =>
        [\A i \in Inst : delivered'[i] # delivered[i] => Given(i)]_vars
  BY GivenByNext
<1>2. GreetingFirst <=> [][\A i \in Inst : delivered'[i] # delivered[i] => Given(i)]_vars
  BY DEF GreetingFirst, Given
<1> QED BY <1>1, <1>2, ListInit, ListNext, PTL DEF Spec
=============================================================================
