------------------------------- MODULE RocLib -------------------------------
(***************************************************************************)
(* vtp/vtpRocLib.c: the CODA ROC firmware of the VTP, seen through the     *)
(* library.  The Z7 half holds the ROC proper: the FIFO of asynchronous    *)
(* events, which is a FIFO of 512 data words and a FIFO of event lengths,  *)
(* the acknowledgements of synchronous triggers, and one TCP client.  The  *)
(* V7 half holds the event builder of the payload slots.                   *)
(*                                                                         *)
(* The library writes words; the firmware takes a length and then as many  *)
(* words as it says, whichever event they are of.                          *)
(***************************************************************************)
EXTENDS Integers, Sequences, SequencesExt

CONSTANTS
    Depth,      \* words of the asynchronous data FIFO
    Chunks,     \* words the firmware may take while more are there
    Keys        \* what the network file sets: address, gateway, mask, MAC

\* 512 in the firmware: half of it has room for a control event.
ASSUME DepthAssumption == Depth \in Nat /\ Depth % 2 = 0 /\ Depth >= 30
ASSUME ChunksAssumption == Chunks \subseteq Nat \ {0}

VARIABLES
    enable,     \* enabled sources: 0 event builder, 1 synchronous, 2 asynchronous
    data,       \* data FIFO: runs of words, each [of |-> event, n |-> words]
    lens,       \* length FIFO: announced events [of, n]
    need,       \* event the firmware reads: [of, n, ok], n words still to come
    lost,       \* words written to the full data FIFO
    trig,       \* triggers to acknowledge
    tcp,        \* TCP client: "down", "asked" or "up"
    client,     \* its registers: [net, port]
    got,        \* what the receiver has got on this connection: [last, ok]
    eb          \* event builder: [ctrl, tags, pp, level]

fifoVars == <<data, lens, need, lost>>
netVars == <<tcp, client, got>>
rocVars == <<enable, fifoVars, trig, netVars, eb>>

None == [of |-> "NONE", n |-> 0, ok |-> TRUE]
Nothing == [last |-> "NONE", ok |-> TRUE]
Unset == [net |-> {}, port |-> 0]
Untold == [ctrl |-> "run", tags |-> FALSE, pp |-> {}, level |-> 0]

RocInit ==
    /\ enable = {} /\ data = <<>> /\ lens = <<>> /\ need = None /\ lost = 0 /\ trig = 0
    /\ tcp = "down" /\ client = Unset /\ got = Nothing
    /\ eb = [Untold EXCEPT !.ctrl = "idle"]

-----------------------------------------------------------------------------
(* The data FIFO *)

Fill(q) == FoldLeft(LAMBDA sum, run : sum + run.n, 0, q)
\* CpuAsyncEventStatus & 0x2ff: bit 8 of the level is dropped.
Level(q) ==
    LET n == Fill(q) IN IF Depth \div 2 <= n /\ n < Depth THEN n - Depth \div 2 ELSE n

Least(a, b) == IF a < b THEN a ELSE b
\* Words after the last free place are lost.
WriteData(ev, n) ==
    LET fit == Least(n, Depth - Fill(data))
    IN  /\ data' = IF fit = 0 THEN data ELSE Append(data, [of |-> ev, n |-> fit])
        /\ lost' = lost + (n - fit)
Announce(ev, n) == lens' = Append(lens, [of |-> ev, n |-> n])

ClearFifo == data' = <<>> /\ lens' = <<>> /\ need' = None /\ lost' = 0

-----------------------------------------------------------------------------
(* ROC *)

\* Mutant: the reset bit is only set when sources are to be enabled.
RocResetEnables(mask) ==
    /\ enable' = mask
    /\ IF mask = {} THEN UNCHANGED <<fifoVars, trig>> ELSE ClearFifo /\ trig' = 0
    /\ UNCHANGED <<netVars, eb>>
\* vtpRocReset: what the ROC holds is gone.
RocReset(mask) == enable' = mask /\ ClearFifo /\ trig' = 0 /\ UNCHANGED <<netVars, eb>>
\* vtpRocEnable.
RocEnable(mask) == enable' = mask /\ UNCHANGED <<fifoVars, trig, netVars, eb>>
\* vtpRocPoll: bit 8 of the count is dropped as well.
RocPoll == IF 256 <= trig /\ trig < 512 THEN trig - 256 ELSE trig
\* vtpRocWriteBank(NULL), n times.
Acknowledge(n) == trig' = trig - n /\ UNCHANGED <<enable, fifoVars, netVars, eb>>

\* vtpRocEvioWriteControl: cMsg header, block header and control bank, then
\* the length.  It is refused while the FIFO seems to hold words.
ControlWords == 15
ControlFits == Level(data) = 0
EvioWriteControl(type) ==
    /\ WriteData(type, ControlWords) /\ Announce(type, ControlWords)
    /\ UNCHANGED <<enable, need, trig, netVars, eb>>

\* vtpRocEvioWriteUserEvent of a bank of blen words: cMsg and block headers.
HeaderWords == 10
UserWords(blen) == blen + HeaderWords
FlowControl(blen) == UserWords(blen) > Depth
UserRefused(blen) == FlowControl(blen) /\ Level(data) > Depth - 12
\* Mutant: the length leaves the cMsg header out, as totalLen does.
UserHeaderShort(blen, words) ==
    /\ Announce("USER", UserWords(blen) - 2) /\ WriteData("USER", words)
    /\ UNCHANGED <<enable, need, trig, netVars, eb>>
\* The length first, then the headers and the first words of the bank.
UserHeader(blen, words) ==
    /\ Announce("USER", UserWords(blen)) /\ WriteData("USER", words)
    /\ UNCHANGED <<enable, need, trig, netVars, eb>>
\* A round of the loop: as many words as seem free.
Free(left) == Least(Depth - Level(data), left)
UserWordsNext(n) ==
    WriteData("USER", n) /\ UNCHANGED <<enable, lens, need, trig, netVars, eb>>

-----------------------------------------------------------------------------
(* Event builder *)

\* vtpRocEbStop and vtpRocEbReset set the reset bit, vtpRocEbStart clears it.
EbStop == eb' = [eb EXCEPT !.ctrl = "reset"] /\ UNCHANGED <<enable, fifoVars, trig, netVars>>
EbStart == eb' = [eb EXCEPT !.ctrl = "run"] /\ UNCHANGED <<enable, fifoVars, trig, netVars>>
\* vtpRocEbInit and vtpRocEbConfig refuse an event builder out of reset.
EbInit ==
    /\ eb' = IF eb.ctrl = "reset"
             THEN [eb EXCEPT !.tags = TRUE, !.pp = {}, !.level = 1] ELSE eb
    /\ UNCHANGED <<enable, fifoVars, trig, netVars>>
LevelOk(level) == 0 < level /\ level < 255
EbConfig(ports, level) ==
    /\ eb' = IF eb.ctrl = "reset"
             THEN [eb EXCEPT !.pp = @ \union ports,
                             !.level = IF LevelOk(level) THEN level ELSE @] ELSE eb
    /\ UNCHANGED <<enable, fifoVars, trig, netVars>>
\* vtpRocEbSetBlockLevel looks at the level only.
EbSetBlockLevel(level) ==
    /\ eb' = IF LevelOk(level) THEN [eb EXCEPT !.level = level] ELSE eb
    /\ UNCHANGED <<enable, fifoVars, trig, netVars>>

-----------------------------------------------------------------------------
(* TCP client *)

\* vtpRocSetTcpCfg2: the socket closes; a port of more than 16 bits is refused.
MaxPort == 65535
SetTcpCfg2(net, port) ==
    /\ IF port > MaxPort THEN UNCHANGED <<tcp, client>>
       ELSE tcp' = "down" /\ client' = [net |-> net, port |-> port]
    /\ UNCHANGED <<enable, fifoVars, trig, got, eb>>
\* vtpRocTcpConnect(1): disconnect, reset and ask,
AskConnection == tcp' = "asked" /\ got' = Nothing /\ UNCHANGED <<enable, fifoVars, trig, client, eb>>
\* then emuData, whether the connection is there or not.
SendGreeting ==
    /\ WriteData("HELLO", 8) /\ Announce("HELLO", 8)
    /\ UNCHANGED <<enable, need, trig, netVars, eb>>
\* vtpRocTcpConnect(0) and (-1).
Disconnect == tcp' = "down" /\ UNCHANGED <<enable, fifoVars, trig, client, got, eb>>

-----------------------------------------------------------------------------
(* Firmware *)

\* vtpZ7CfgLoad and vtpV7CfgLoad: the registers of the FPGA start afresh.
Z7Load ==
    /\ enable' = {} /\ ClearFifo /\ trig' = 0
    /\ tcp' = "down" /\ client' = Unset /\ UNCHANGED <<got, eb>>
V7Load == eb' = [Untold EXCEPT !.ctrl = "idle"] /\ UNCHANGED <<enable, fifoVars, trig, netVars>>

\* The ROC turns to the next announced event,
TakeLength ==
    /\ tcp = "up" /\ need.n = 0 /\ lens # <<>>
    /\ need' = [of |-> Head(lens).of, n |-> Head(lens).n, ok |-> TRUE] /\ lens' = Tail(lens)
    /\ UNCHANGED <<enable, data, lost, trig, netVars, eb>>
\* and takes words: all it can of a run, or a chunk.
TakeWords ==
    /\ tcp = "up" /\ need.n > 0 /\ data # <<>>
    /\ LET run == Head(data)
           all == Least(run.n, need.n)
       IN  \E k \in {all} \union {c \in Chunks : c < all} :
              LET now == [need EXCEPT !.n = @ - k, !.ok = @ /\ run.of = need.of]
              IN  /\ data' = IF k = run.n THEN Tail(data)
                             ELSE <<[run EXCEPT !.n = @ - k]>> \o Tail(data)
                  /\ need' = now
                  /\ got' = IF now.n = 0 THEN [last |-> now.of, ok |-> got.ok /\ now.ok] ELSE got
    /\ UNCHANGED <<enable, lens, lost, trig, tcp, client, eb>>
LinkUp(port) ==
    /\ tcp = "asked" /\ client.port = port /\ client.net = Keys /\ tcp' = "up"
    /\ UNCHANGED <<enable, fifoVars, trig, client, got, eb>>
\* The receiver goes away; the firmware does not ask again.
LinkDown == tcp = "up" /\ Disconnect
\* A block is read out: with synchronous events it waits for the processor.
Trigger ==
    /\ 0 \in enable /\ eb.ctrl = "run"
    /\ trig' = IF 1 \in enable THEN trig + 1 ELSE trig
    /\ UNCHANGED <<enable, fifoVars, netVars, eb>>
=============================================================================
