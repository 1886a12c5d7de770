--------------------------- MODULE SyncStats_proofs ---------------------------
(***************************************************************************)
(* Proofs about SyncStats, for every width of the counter and every bound  *)
(* on the number of frames.                                                *)
(***************************************************************************)
EXTENDS SyncStats, Integers, TLAPS

-----------------------------------------------------------------------------
(* Arithmetic of a counter of w values *)

LEMMA ModRange ==
    ASSUME NEW n \in Nat, NEW w \in Nat \ {0}
    PROVE  n % w \in 0 .. w - 1 /\ n - (n % w) \in Nat
<1>1. n % w \in 0 .. w - 1
  OBVIOUS
<1>2. n - (n % w) \in Nat
  OBVIOUS
<1> QED BY <1>1, <1>2

LEMMA ModSplit ==
    ASSUME NEW n \in Nat, NEW w \in Nat \ {0}
    PROVE  n = w * (n \div w) + (n % w) /\ n \div w \in Nat
OBVIOUS

LEMMA ModUnique ==
    ASSUME NEW w \in Nat \ {0}, NEW q \in Nat, NEW r \in 0 .. w - 1
    PROVE  (w * q + r) % w = r
OBVIOUS

\* Adding the carry leaves the low word alone.
LEMMA ModCarry ==
    ASSUME NEW n \in Nat, NEW w \in Nat \ {0}
    PROVE  (n + w) % w = n % w
<1> DEFINE q == n \div w
           r == n % w
<1>1. n = w * q + r /\ q \in Nat /\ r \in 0 .. w - 1
  BY ModSplit, ModRange
<1> HIDE DEF q, r
<1>2. n + w = w * (q + 1) + r
  BY <1>1
<1>3. (w * (q + 1) + r) % w = r
  BY <1>1, ModUnique
<1> QED BY <1>2, <1>3 DEF r

\* A count that has grown by less than w has wrapped once if its low word is
\* below the old one, and not at all otherwise.
LEMMA WrapOnce ==
    ASSUME NEW w \in Nat \ {0}, NEW s \in Nat, NEW f \in Nat, s <= f, f - s < w
    PROVE  f - (f % w) = (s - (s % w)) + (IF f % w < s % w THEN w ELSE 0)
<1> DEFINE a == s \div w
           b == f \div w
           x == s % w
           y == f % w
<1>1. s = w * a + x /\ a \in Nat /\ x \in 0 .. w - 1
  BY ModSplit, ModRange
<1>2. f = w * b + y /\ b \in Nat /\ y \in 0 .. w - 1
  BY ModSplit, ModRange
<1> HIDE DEF a, b, x, y
<1>3. b \in {a, a + 1}
  <2>1. ~(b <= a - 1)
    <3> SUFFICES ASSUME b <= a - 1 PROVE FALSE
      OBVIOUS
    <3>1. w * b <= w * (a - 1)
      BY <1>1, <1>2
    <3>2. w * (a - 1) = w * a - w
      BY <1>1
    <3> QED BY <1>1, <1>2, <3>1, <3>2
  <2>2. ~(b >= a + 2)
    <3> SUFFICES ASSUME b >= a + 2 PROVE FALSE
      OBVIOUS
    <3>1. w * b >= w * (a + 2)
      BY <1>1, <1>2
    <3>2. w * (a + 2) = w * a + w + w
      BY <1>1
    <3> QED BY <1>1, <1>2, <3>1, <3>2
  <2> QED BY <1>1, <1>2, <2>1, <2>2
<1>4. CASE b = a
  <2>1. w * b = w * a
    BY <1>4
  <2>2. ~(y < x)
    BY <1>1, <1>2, <2>1
  <2> QED BY <1>1, <1>2, <2>1, <2>2 DEF x, y
<1>5. CASE b = a + 1
  <2>1. w * b = w * a + w
    BY <1>1, <1>5
  <2>2. y < x
    BY <1>1, <1>2, <2>1
  <2> QED BY <1>1, <1>2, <2>1, <2>2 DEF x, y
<1> QED BY <1>3, <1>4, <1>5

\* A multiple of w below a count does not change its low word.
LEMMA ModShift ==
    ASSUME NEW n \in Nat, NEW b \in Nat, NEW w \in Nat \ {0}, b <= n, b % w = 0
    PROVE  (n - b) % w = n % w
<1> DEFINE q == n \div w
           r == n % w
           c == b \div w
<1>1. n = w * q + r /\ q \in Nat /\ r \in 0 .. w - 1
  BY ModSplit, ModRange
<1>2. b = w * c /\ c \in Nat
  BY ModSplit
<1> HIDE DEF q, r, c
<1>3. c <= q
  <2> SUFFICES ASSUME c >= q + 1 PROVE FALSE
    BY <1>1, <1>2
  <2>1. w * c >= w * (q + 1) /\ w * (q + 1) = w * q + w
    BY <1>1, <1>2
  <2> QED BY <1>1, <1>2, <2>1
<1>4. n - b = w * (q - c) + r
  BY <1>1, <1>2
<1>5. (w * (q - c) + r) % w = r
  BY <1>1, <1>2, <1>3, ModUnique
<1> QED BY <1>4, <1>5 DEF r

-----------------------------------------------------------------------------
(* Type correctness *)

LEMMA ExtendType ==
    ASSUME TypeOK, NEW cur \in 0 .. Word - 1, Extend(cur)
    PROVE  /\ prevLow' \in 0 .. Word - 1 /\ prevExt' \in Nat
           /\ packet' \in [evt : Nat, rate : Nat, sent : BOOLEAN]
<1> DEFINE c == Carried(cur)
           fc == (c - (c % Word)) + cur
<1>1. c \in Nat
  BY WordAssumption DEF TypeOK, Carried
<1>2. c - (c % Word) \in Nat
  BY <1>1, WordAssumption, ModRange
<1>3. fc \in Nat
  BY <1>2
<1>4. /\ prevLow' = cur /\ prevExt' = fc
      /\ packet' = [evt |-> fc, rate |-> IF fc >= c THEN fc - c ELSE 0, sent |-> TRUE]
  BY DEF Extend
<1> HIDE DEF c, fc
<1> QED BY <1>1, <1>3, <1>4

LEMMA FrameLow == ASSUME TypeOK PROVE frames % Word \in 0 .. Word - 1 /\ Lost \in Nat
BY WordAssumption, ModRange DEF TypeOK, Lost

LEMMA NoPacketType == NoPacket \in [evt : Nat, rate : Nat, sent : BOOLEAN]
BY DEF NoPacket

LEMMA InitTypeOK == Init => TypeOK
<1> SUFFICES ASSUME Init PROVE TypeOK
  OBVIOUS
<1>1. 0 \in 0 .. Word - 1
  BY WordAssumption
<1> QED BY <1>1, NoPacketType DEF Init, TypeOK

LEMMA NextTypeOK == TypeOK /\ [Next]_vars => TypeOK'
<1> SUFFICES ASSUME TypeOK, [Next]_vars PROVE TypeOK'
  OBVIOUS
<1> USE DEF rolVars, hwVars, threadVars
<1>1. CASE UNCHANGED vars
  BY <1>1 DEF vars, TypeOK
<1>2. CASE Download \/ DownloadAfterReset \/ Reset
  <2>1. CASE Download
    BY <2>1 DEF TypeOK, Download, Command
  <2>2. CASE DownloadAfterReset
    BY <2>2 DEF TypeOK, DownloadAfterReset, Gone
  <2>3. CASE Reset
    BY <2>3 DEF TypeOK, Reset
  <2> QED BY <1>2, <2>1, <2>2, <2>3
<1>3. CASE Prestart
  BY <1>3, NoPacketType DEF TypeOK, Prestart, Command
<1>4. CASE Go
  BY <1>4 DEF TypeOK, Go, Launch, Command
<1>5. CASE Pause \/ End \/ Join
  BY <1>5 DEF TypeOK, Pause, End, Join, Stop
<1>6. CASE Frame
  BY <1>6 DEF TypeOK, Frame
<1>7. CASE ThreadInit
  BY <1>7, FrameLow, WordAssumption DEF TypeOK, ThreadInit, FrameCnt, Error
<1>8. CASE ThreadTest \/ ThreadWake \/ ThreadDies
  BY <1>8 DEF TypeOK, ThreadTest, ThreadWake, ThreadDies, Gone
<1>9. ASSUME NEW cur \in 0 .. Word - 1, Send(cur) PROVE TypeOK'
  BY <1>9, ExtendType DEF TypeOK, Send
<1>10. CASE ThreadRead \/ ThreadError
  BY <1>9, <1>10, FrameLow, WordAssumption DEF ThreadRead, ThreadError, Error
<1> QED BY <1>1, <1>2, <1>3, <1>4, <1>5, <1>6, <1>7, <1>8, <1>10 DEF Next, Thread

\* In every behaviour the state has its type, however often the counter wraps
\* (_vtp_stats_sender_main, vtp_stats_sender_launch, vtp_stats_sender_stop).
THEOREM TypeCorrect == Spec => []TypeOK
<1>1. Init => TypeOK
  BY InitTypeOK
<1>2. TypeOK /\ [Next]_vars => TypeOK'
  BY NextTypeOK
<1> QED BY <1>1, <1>2, PTL DEF Spec

-----------------------------------------------------------------------------
(* The scope of the sender *)

\* Where run control stands decides the mapping and whether a sender may be
\* there: a stopped run has none, and rocReset alone leaves one behind.
ScopeInv ==
    /\ thr # "none" => sock
    /\ coda # "booted" => dev = "mapped"
    /\ coda = "booted" => pc = "idle" /\ dev # "mapped"
    /\ dev = "closed" => thr = "none" /\ ~sock /\ ~run
    /\ coda \in {"downloaded", "prestarted", "paused"} /\ pc = "idle"
           => thr = "none" /\ ~sock /\ ~run
    /\ coda = "active" /\ pc = "idle" /\ ~run => thr = "none" /\ ~sock
    /\ pc # "idle" => ~run
    /\ dev = "mapped" => thr # "error"

LEMMA InitScopeInv == Init => ScopeInv
BY DEF Init, ScopeInv

LEMMA NextScopeInv == TypeOK /\ ScopeInv /\ [Next]_vars => ScopeInv'
<1> SUFFICES ASSUME TypeOK, ScopeInv, [Next]_vars PROVE ScopeInv'
  OBVIOUS
<1> USE DEF rolVars, hwVars, threadVars, ScopeInv
<1>1. CASE UNCHANGED vars
  BY <1>1 DEF vars
<1>2. CASE Download
  BY <1>2 DEF Download, Command, TypeOK
<1>3. CASE DownloadAfterReset \/ ThreadDies
  BY <1>3 DEF DownloadAfterReset, ThreadDies, Gone
<1>4. CASE Prestart
  BY <1>4 DEF Prestart, Command
<1>5. CASE Go
  BY <1>5 DEF Go, Command, Launch
<1>6. CASE Pause
  BY <1>6 DEF Pause, Stop
<1>7. CASE End
  BY <1>7 DEF End, Stop
<1>8. CASE Join
  BY <1>8 DEF Join, TypeOK
<1>9. CASE Reset
  BY <1>9 DEF Reset
<1>10. CASE Frame
  BY <1>10 DEF Frame
<1>11. CASE ThreadInit
  BY <1>11 DEF ThreadInit
<1>12. CASE ThreadTest
  BY <1>12 DEF ThreadTest, TypeOK
<1>13. CASE ThreadWake
  BY <1>13 DEF ThreadWake, Mapped
<1>14. CASE ThreadRead \/ ThreadError
  BY <1>14 DEF ThreadRead, ThreadError, Send
<1> QED
  BY <1>1, <1>2, <1>3, <1>4, <1>5, <1>6, <1>7, <1>8, <1>9, <1>10, <1>11, <1>12, <1>13,
     <1>14 DEF Next, Thread

\* No sender and no open socket outside an active run, and no sender without
\* its socket, but for what rocReset leaves behind (vtp_stats_sender_launch,
\* vtp_stats_sender_stop, rocPause, rocEnd).
THEOREM SenderScopeCorrect == Spec => []SenderScope
<1>1. Init => TypeOK /\ ScopeInv
  BY InitTypeOK, InitScopeInv
<1>2. TypeOK /\ ScopeInv /\ [Next]_vars => TypeOK' /\ ScopeInv'
  BY NextTypeOK, NextScopeInv
<1>3. ScopeInv => SenderScope
  BY DEF ScopeInv, SenderScope
<1> QED BY <1>1, <1>2, <1>3, PTL DEF Spec

-----------------------------------------------------------------------------
(* The event number *)

\* At a sender that has read the counter of a mapped device: what it keeps is
\* the count at its last reading, less what it could not know of.
Tracks ==
    /\ base <= seen /\ seen <= frames /\ frames - seen < Word
    /\ base % Word = 0
    /\ prevExt = seen - base
    /\ prevLow = seen % Word

CountInv == dev = "mapped" /\ thr \in {"test", "sleep", "read"} => Tracks

\* The count the sender extends to is the true one, wrapped or not.
LEMMA ExtendExact ==
    ASSUME TypeOK, Tracks, Extend(frames % Word)
    PROVE  prevExt' = frames - base /\ packet'.evt = frames - base
<1> DEFINE cur == frames % Word
           wrap == IF cur < seen % Word THEN Word ELSE 0
           c == Carried(cur)
<1>1. /\ frames \in Nat /\ seen \in Nat /\ base \in Nat /\ Word \in Nat \ {0}
      /\ cur \in 0 .. Word - 1 /\ seen % Word \in 0 .. Word - 1
  BY WordAssumption, ModRange DEF TypeOK
<1>2. frames - cur = (seen - (seen % Word)) + wrap
  BY <1>1, WrapOnce DEF Tracks
<1>3. c = (seen - base) + wrap /\ seen - base \in Nat
  BY <1>1 DEF Tracks, Carried
<1>4. (seen - base) % Word = seen % Word
  BY <1>1, ModShift DEF Tracks
<1>5. ((seen - base) + Word) % Word = (seen - base) % Word
  BY <1>1, <1>3, ModCarry
<1>6. c % Word = seen % Word
  BY <1>1, <1>3, <1>4, <1>5
<1>7. prevExt' = (c - (c % Word)) + cur /\ packet'.evt = (c - (c % Word)) + cur
  BY DEF Extend
<1> HIDE DEF cur, wrap, c
<1>8. wrap \in Nat
  BY <1>1 DEF wrap
<1> QED BY <1>1, <1>2, <1>3, <1>6, <1>7, <1>8

\* A step of the sender's reading leaves the true count behind.
LEMMA ReadTracks ==
    ASSUME TypeOK, Tracks, ThreadRead
    PROVE  Tracks' /\ packet'.evt = frames - base
<1>1. /\ Extend(frames % Word) /\ seen' = frames
      /\ frames' = frames /\ base' = base
  BY DEF ThreadRead, Send, rolVars, hwVars
<1>2. prevExt' = frames - base /\ packet'.evt = frames - base
  BY <1>1, ExtendExact
<1>3. prevLow' = frames % Word
  BY <1>1 DEF Extend
<1> QED BY <1>1, <1>2, <1>3, WordAssumption DEF Tracks, TypeOK

LEMMA InitTracks ==
    ASSUME TypeOK, ThreadInit, dev = "mapped"
    PROVE  Tracks'
<1>1. /\ frames' = frames /\ seen' = frames
      /\ base' = frames - (frames % Word)
      /\ prevLow' = frames % Word /\ prevExt' = frames % Word
  BY DEF ThreadInit, FrameCnt, Mapped, Lost, rolVars, hwVars
<1>2. frames \in Nat /\ Word \in Nat \ {0} /\ frames % Word \in 0 .. Word - 1
  BY WordAssumption, ModRange DEF TypeOK
<1>3. (frames - (frames % Word)) % Word = 0
  <2> DEFINE q == frames \div Word
  <2>1. q \in Nat /\ frames - (frames % Word) = Word * q + 0
    BY <1>2, ModSplit
  <2> HIDE DEF q
  <2>2. 0 \in 0 .. Word - 1
    BY <1>2
  <2>3. (Word * q + 0) % Word = 0
    BY <1>2, <2>1, <2>2, ModUnique
  <2> QED BY <2>1, <2>3
<1> QED BY <1>1, <1>2, <1>3 DEF Tracks

LEMMA NextCountInv == TypeOK /\ ScopeInv /\ CountInv /\ [Next]_vars => CountInv'
<1> SUFFICES ASSUME TypeOK, ScopeInv, CountInv, [Next]_vars PROVE CountInv'
  OBVIOUS
<1> USE DEF rolVars, hwVars, threadVars, CountInv
<1>1. CASE UNCHANGED vars
  BY <1>1 DEF vars, Tracks
<1>2. CASE Download \/ Prestart
  BY <1>2 DEF Download, Prestart, Command, ScopeInv, TypeOK
<1>3. CASE DownloadAfterReset \/ ThreadDies
  BY <1>3 DEF DownloadAfterReset, ThreadDies, Gone
<1>4. CASE Go
  BY <1>4 DEF Go, Command, Launch, ScopeInv
<1>5. CASE Pause \/ Join \/ Reset
  BY <1>5 DEF Pause, Join, Reset, Tracks
<1>6. CASE End
  BY <1>6 DEF End, Tracks
<1>7. CASE Frame
  BY <1>7 DEF Frame, Tracks, TypeOK
<1>8. CASE ThreadInit
  BY <1>8, InitTracks DEF ThreadInit
<1>9. CASE ThreadTest
  BY <1>9 DEF ThreadTest, Tracks
<1>10. CASE ThreadWake
  BY <1>10 DEF ThreadWake, Tracks
<1>11. CASE ThreadRead
  BY <1>11, ReadTracks DEF ThreadRead, Mapped
<1>12. CASE ThreadError
  BY <1>12 DEF ThreadError, Send, ScopeInv
<1> QED
  BY <1>1, <1>2, <1>3, <1>4, <1>5, <1>6, <1>7, <1>8, <1>9, <1>10, <1>11, <1>12
  DEF Next, Thread

\* Each packet carries the frame count at its reading, less what the counter
\* had lost when the thread started, for every width of the counter and through
\* any number of wraps, pauses and late wake-ups (_vtp_stats_sender_main).
THEOREM EvtNumExactCorrect == Spec => EvtNumExact
<1> DEFINE Inv == TypeOK /\ ScopeInv /\ CountInv
<1>1. Init => Inv
  BY InitTypeOK, InitScopeInv DEF Init, CountInv
<1>2. Inv /\ [Next]_vars => Inv'
  BY NextTypeOK, NextScopeInv, NextCountInv
<1>3. Inv /\ [Next]_vars => [ThreadRead => packet'.evt = frames - base]_vars
  BY ReadTracks DEF ThreadRead, Mapped, CountInv
<1> HIDE DEF Inv
<1> QED BY <1>1, <1>2, <1>3, PTL DEF Spec, EvtNumExact
=============================================================================
