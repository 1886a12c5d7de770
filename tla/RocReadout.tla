----------------------------- MODULE RocReadout -----------------------------
(***************************************************************************)
(* rol/vtp_list_roc.c with the macros of rol/VTP_source.h: the readout     *)
(* list of a VTP that is a CODA ROC.  The FPGAs build and send the events; *)
(* the list connects the ROC to the event builder of the DAQ, sends the    *)
(* control events and a user event, and, if Go asks for it, acknowledges   *)
(* every block of triggers.                                                *)
(*                                                                         *)
(* prog holds the library calls the running handler has still to make: the *)
(* firmware, the network and the triggers come between any two.            *)
(***************************************************************************)
EXTENDS RocLib

CONSTANTS
    GoMasks,    \* sources Go may enable: 5 or 7, as the comment in rocGo says
    BankLens,   \* words of the user banks File2Event may make
    EmuPorts,   \* ports of the event builder the list may be told
    Levels,     \* block levels the trigger interface may hold
    MaxTrig     \* bound: triggers of a run

ASSUME BankLensAssumption == BankLens \subseteq Nat \ {0}
ASSUME EmuPortsAssumption == EmuPorts \subseteq Nat
ASSUME LevelsAssumption == Levels \subseteq Nat
ASSUME MaxTrigAssumption == MaxTrig \in Nat

VARIABLES
    coda,       \* run-control state; "error" after ROL_SET_ERROR
    prog,       \* library calls the handler has still to make
    to,         \* run-control state when it returns
    err,        \* ROL_SET_ERROR in this handler, or vtpInit failed
    dev,        \* the FPGA mapping: "closed", "mapped" or "stale"
    net,        \* VTP_NET_OUT: keys that have been read
    emuport,    \* rol->rlinkP->port
    tilevel,    \* block level of the trigger interface
    ubuf,       \* words of the bank in ubuf: 0 is ubuf[0] of a cleared buffer
    rem,        \* words of the user event vtpRocEvioWriteUserEvent has to write
    VTPflag, goMask,
    ntrig,      \* triggers of the run
    long        \* history: on this connection, a user event longer than the room in the FIFO

listVars == <<coda, prog, to, err, dev, net, emuport, tilevel, ubuf, rem, VTPflag, goMask, ntrig,
              long>>
vars == <<rocVars, listVars>>

Ports == {6, 12}        \* the vtpPayloadConfig calls of rocPrestart
Rank == [HELLO |-> 0, PRESTART |-> 1, USER |-> 2, GO |-> 3, END |-> 4]

-----------------------------------------------------------------------------
(* The handlers *)

Download == <<"open", "z7", "v7", "init", "netfile", "rocreset", "rocconfig">>
\* CDOINIT, then the configuration and the ROC, the connection,
PrestartNet == <<"unflag", "rocreset", "unflag", "rocreset", "tcpcfg", "connect", "wait", "greet">>
\* Mutant: the event builder is not stopped.
EbUnstopped == <<"ebinit", "ebconfig", "hardware">>
\* the event builder of the payloads, which takes a new set only in reset,
PrestartEb == <<"ebstop", "ebinit", "ebconfig", "hardware">>
\* and the events.
PrestartEvents == <<"PRESTART", "file", "user">>
Prestart == PrestartNet \o PrestartEb \o PrestartEvents
Pause == <<"disable">>
Go == <<"blocklevel", "ebstart", "GO", "enable">>
End == <<"disable", "count", "END", "ebstop", "close">>
Reset == <<"force", "vtpclose">>

-----------------------------------------------------------------------------
(* Run control *)

Init ==
    /\ RocInit
    /\ coda = "booted" /\ prog = <<>> /\ to = "booted" /\ err = FALSE
    /\ dev = "closed" /\ net = {} /\ emuport = 0 /\ tilevel = 0 /\ ubuf = 0 /\ rem = 0
    /\ VTPflag = FALSE /\ goMask = 5 /\ ntrig = 0 /\ long = FALSE

Command(from, handler, state) ==
    /\ prog = <<>> /\ coda \in from
    /\ prog' = handler /\ to' = state /\ err' = FALSE
    /\ UNCHANGED <<rocVars, coda, dev, net, ubuf, rem, VTPflag>>
Stay == UNCHANGED <<emuport, tilevel, goMask, ntrig, long>>

Commands ==
    \/ Command({"booted", "downloaded"}, Download, "downloaded") /\ Stay
    \/ /\ Command({"downloaded"}, Prestart, "prestarted")
       /\ emuport' \in EmuPorts /\ tilevel' \in Levels /\ goMask' \in GoMasks
       /\ ntrig' = 0 /\ UNCHANGED long
    \/ Command({"prestarted", "paused"}, Go, "active") /\ Stay
    \/ Command({"active"}, Pause, "paused") /\ Stay
    \/ Command({"prestarted", "active", "paused"}, End, "downloaded") /\ Stay
    \/ Command({"downloaded", "prestarted", "active", "paused", "error"}, Reset, "booted") /\ Stay

-----------------------------------------------------------------------------
(* The calls *)

At(op) == prog # <<>> /\ Head(prog) = op
\* The handler returns after its last call.
Then(rest, failed) ==
    /\ prog' = rest /\ err' = failed
    /\ coda' = IF rest # <<>> THEN coda ELSE IF failed THEN "error" ELSE to
    /\ UNCHANGED <<to, emuport, tilevel, goMask>>
Advance == Then(Tail(prog), err)
\* A library call: without a mapping it returns ERROR, which the list ignores.
Call(op, Effect) ==
    /\ At(op) /\ (IF dev = "mapped" THEN Effect ELSE UNCHANGED rocVars)
    /\ Advance /\ UNCHANGED <<dev, net, ubuf, rem, VTPflag, ntrig, long>>

\* vtpOpen: a mapping rocReset closed is taken for open; a failure is printed.
Open ==
    /\ At("open")
    /\ dev' \in IF dev = "closed" THEN {"closed", "mapped"} ELSE {dev}
    /\ Advance /\ UNCHANGED <<rocVars, net, ubuf, rem, VTPflag, ntrig, long>>
\* The Z7 is programmed through /dev/xdevcfg, which needs no mapping.
LoadZ7 ==
    /\ At("z7") /\ (Z7Load \/ UNCHANGED rocVars)
    /\ Advance /\ UNCHANGED <<dev, net, ubuf, rem, VTPflag, ntrig, long>>
LoadV7 == dev = "mapped" /\ Call("v7", V7Load \/ UNCHANGED rocVars)
\* Without a mapping the process dies.
LoadUnmapped ==
    /\ At("v7") /\ dev # "mapped"
    /\ prog' = <<>> /\ coda' = "booted" /\ dev' = "closed"
    /\ net' = {} /\ ubuf' = 0 /\ UNCHANGED <<rocVars, err, to, rem, VTPflag, emuport, tilevel, goMask, ntrig, long>>
\* vtpInit: "User should not continue", and rocDownload returns.
InitVtp ==
    /\ At("init")
    /\ \E ok \in BOOLEAN : IF ok THEN Advance ELSE Then(<<>>, TRUE)
    /\ UNCHANGED <<rocVars, dev, net, ubuf, rem, VTPflag, ntrig, long>>
\* vtpRocReadNetFile(0): a file that lacks a key is not an error, and the rest
\* of rocDownload runs even if there is no file.
ReadNetFile ==
    /\ At("netfile")
    /\ \/ net' \in {net \union found : found \in SUBSET Keys} /\ Advance
       \/ net' = net /\ Then(Tail(prog), TRUE)
    /\ UNCHANGED <<rocVars, dev, ubuf, rem, VTPflag, ntrig, long>>
ConfigRoc == Call("rocconfig", UNCHANGED rocVars)
ResetRoc == Call("rocreset", RocReset({}))
Unflag ==
    /\ At("unflag") /\ VTPflag' = FALSE /\ Advance
    /\ UNCHANGED <<rocVars, dev, net, ubuf, rem, ntrig, long>>

SetTcpCfg == Call("tcpcfg", SetTcpCfg2(net, emuport))
Connect ==
    /\ At("connect") /\ (IF dev = "mapped" THEN AskConnection ELSE UNCHANGED rocVars)
    /\ long' = FALSE /\ Advance /\ UNCHANGED <<dev, net, ubuf, rem, VTPflag, ntrig>>
\* Mutant: no limit on the tries.
WaitForEver == At("wait") /\ tcp = "up" /\ Call("wait", UNCHANGED rocVars)
\* Until the connection is there or 100 s are over.
WaitConnection == Call("wait", UNCHANGED rocVars)
Greet == Call("greet", SendGreeting)

StopEb == Call("ebstop", EbStop)
InitEb == Call("ebinit", EbInit)
ConfigEb == Call("ebconfig", EbConfig(Ports, 0))
\* vtpTiLinkSetMode(1) and vtpRocEnable(5).
Hardware == Call("hardware", RocEnable({0, 2}))
\* vtpTiLinkGetBlockLevel; an invalid level is printed.
SetLevel == Call("blocklevel", EbSetBlockLevel(tilevel))
StartEb == Call("ebstart", EbStart)

\* A control event, and what the list makes of a refusal.
Control(type, failed) ==
    /\ At(type)
    /\ IF dev = "mapped" /\ ControlFits
       THEN EvioWriteControl(type) /\ Advance
       ELSE UNCHANGED rocVars /\ Then(Tail(prog), err \/ failed)
    /\ UNCHANGED <<dev, net, ubuf, rem, VTPflag, ntrig, long>>
WritePrestart == Control("PRESTART", TRUE)
WriteGo == Control("GO", FALSE)
WriteEnd == Control("END", FALSE)

\* vtpRocFile2Event: without the file ubuf keeps what it holds.
File2Event ==
    /\ At("file") /\ ubuf' \in BankLens \union {ubuf} /\ Advance
    /\ UNCHANGED <<rocVars, dev, net, rem, VTPflag, ntrig, long>>
\* vtpRocEvioWriteUserEvent(ubuf), whether the file was there or not.
blen == IF ubuf = 0 THEN 1 ELSE ubuf
WriteUser ==
    /\ At("user") /\ rem = 0
    /\ IF dev # "mapped" \/ UserRefused(blen) THEN UNCHANGED <<rocVars, rem, long>> /\ Advance
       ELSE /\ long' = (long \/ UserWords(blen) > Depth - Fill(data))
            /\ IF FlowControl(blen)
               THEN /\ UserHeader(blen, HeaderWords + 1) /\ rem' = blen - 1
                    /\ UNCHANGED <<coda, prog, to, err, emuport, tilevel, goMask>>
               ELSE UserHeader(blen, UserWords(blen)) /\ rem' = 0 /\ Advance
    /\ UNCHANGED <<dev, net, ubuf, VTPflag, ntrig>>
\* A round of its loop: a FIFO that says FULL ends the call.
WriteUserLoop ==
    /\ At("user") /\ rem > 0
    /\ IF Fill(data) = Depth
       THEN UNCHANGED rocVars /\ rem' = 0 /\ Advance
       ELSE /\ UserWordsNext(Free(rem)) /\ rem' = rem - Free(rem)
            /\ IF rem' = 0 THEN Advance
               ELSE UNCHANGED <<coda, prog, to, err, emuport, tilevel, goMask>>
    /\ UNCHANGED <<dev, net, ubuf, VTPflag, ntrig, long>>

\* CDOENABLE(VTP, 1, val): vtptenable polls for triggers if val has bit 1.
Sources == IF goMask = 7 THEN {0, 1, 2} ELSE {0, 2}
\* Mutant: the test of bit 1 is inverted.
EnableInverted ==
    /\ At("enable") /\ (IF dev = "mapped" THEN RocEnable(Sources) ELSE UNCHANGED rocVars)
    /\ VTPflag' = (1 \notin Sources) /\ Advance /\ UNCHANGED <<dev, net, ubuf, rem, ntrig, long>>
Enable ==
    /\ At("enable") /\ (IF dev = "mapped" THEN RocEnable(Sources) ELSE UNCHANGED rocVars)
    /\ VTPflag' = (1 \in Sources) /\ Advance /\ UNCHANGED <<dev, net, ubuf, rem, ntrig, long>>
\* CDODISABLE: vtptdisable.
Disable ==
    /\ At("disable") /\ (IF dev = "mapped" THEN RocEnable({0, 2}) ELSE UNCHANGED rocVars)
    /\ VTPflag' = FALSE /\ Advance /\ UNCHANGED <<dev, net, ubuf, rem, ntrig, long>>
\* vtpRocGetTriggerCnt goes to rol->nevents and to the End event.
Count == Call("count", UNCHANGED rocVars)

\* vtpRocTcpConnect(0): after 1000 looks at a full TCP buffer it gives up.
Close == Call("close", Disconnect \/ (tcp = "up" /\ UNCHANGED rocVars))
ForceClose == Call("force", Disconnect)
CloseVtp ==
    /\ At("vtpclose") /\ dev' = (IF dev = "mapped" THEN "stale" ELSE dev) /\ Advance
    /\ UNCHANGED <<rocVars, net, ubuf, rem, VTPflag, ntrig, long>>

\* vtpttest finds triggers between handlers and runs rocTrigger.
Polled == VTPflag /\ prog = <<>> /\ coda = "active" /\ dev = "mapped" /\ RocPoll > 0
\* Mutant: one acknowledgement too many.
rocTriggerOneMore == Polled /\ Acknowledge(RocPoll + 1) /\ UNCHANGED listVars
rocTrigger == Polled /\ Acknowledge(RocPoll) /\ UNCHANGED listVars

-----------------------------------------------------------------------------
(* The others *)

Blocks ==
    /\ ntrig < MaxTrig /\ ntrig' = ntrig + 1 /\ Trigger
    /\ UNCHANGED <<coda, prog, to, err, dev, net, emuport, tilevel, ubuf, rem, VTPflag, goMask, long>>
Firmware ==
    /\ TakeLength \/ TakeWords \/ LinkUp(emuport) \/ LinkDown
    /\ UNCHANGED listVars

Calls ==
    \/ Open \/ LoadZ7 \/ LoadV7 \/ LoadUnmapped \/ InitVtp \/ ReadNetFile \/ ConfigRoc \/ ResetRoc
    \/ Unflag \/ SetTcpCfg \/ Connect \/ WaitConnection \/ Greet
    \/ StopEb \/ InitEb \/ ConfigEb \/ Hardware \/ SetLevel \/ StartEb
    \/ WritePrestart \/ WriteGo \/ WriteEnd \/ File2Event \/ WriteUser \/ WriteUserLoop
    \/ Enable \/ Disable \/ Count \/ Close \/ ForceClose \/ CloseVtp
Next == Commands \/ Calls \/ rocTrigger \/ Blocks \/ Firmware
Spec == Init /\ [][Next]_vars
\* The handlers run in the process of the ROC, which polls between them.
FairSpec == Spec /\ WF_vars(Calls) /\ WF_vars(rocTrigger)

-----------------------------------------------------------------------------
(* Properties *)

\* Types; no block of triggers is acknowledged twice.
TypeOK ==
    /\ coda \in {"booted", "downloaded", "prestarted", "active", "paused", "error"}
    /\ dev \in {"closed", "mapped", "stale"} /\ tcp \in {"down", "asked", "up"}
    /\ net \subseteq Keys /\ client \in [net : SUBSET Keys, port : 0 .. MaxPort]
    /\ Fill(data) \in 0 .. Depth /\ need.n \in Nat /\ rem \in Nat /\ trig \in 0 .. MaxTrig
    /\ eb \in [ctrl : {"idle", "reset", "run"}, tags : BOOLEAN, pp : SUBSET Ports, level : 0 .. 254]

\* Whatever the firmware has taken since the FIFO was cleared, every event the
\* receiver got is made of its own words: lengths and words, which go through
\* different FIFOs, agree.  A user event longer than the room left is another
\* matter: only one longer than the whole FIFO is held back.  See NoWordLost.
EventsWhole == long \/ got.ok

\* On a connection come its CODA data, then Prestart, then the other events of
\* one run in order: nothing is left over from the run before, and no run goes
\* on without its Prestart event, which the library may refuse.  (The user
\* event is written all the same.)
RunOrder ==
    [][got'.last # got.last =>
        \/ got'.last = "NONE"
        \/ got.last = "NONE" /\ got'.last = "HELLO"
        \/ got.last = "HELLO" /\ (got'.last = "PRESTART" \/ err \/ coda = "error")
        \/ got.last \notin {"NONE", "HELLO"} /\ Rank[got.last] < Rank[got'.last]]_vars

\* An event builder that runs has this list's banks and payload ports and a
\* legal block level, though the calls that set them are refused out of reset
\* and their results ignored.
EbAsConfigured ==
    coda \in {"prestarted", "active", "paused"} /\ eb.ctrl = "run"
        => eb.tags /\ eb.pp = Ports /\ LevelOk(eb.level)

\* A handler returns, whatever the network and the FIFO do.
HandlersEnd == prog # <<>> ~> prog = <<>>

\* A block that waits for the processor is acknowledged, if the run goes on.
BlocksAcknowledged == trig > 0 /\ coda = "active" ~> trig = 0 \/ coda # "active" \/ prog # <<>>

\* The library looks at the level of the data FIFO before it writes, so that
\* no word is written to a full one (vtpRocLib.c:4-6).
NoWordLost == lost = 0
=============================================================================
