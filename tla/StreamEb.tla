------------------------------ MODULE StreamEb ------------------------------
(***************************************************************************)
(* The streaming event builder of the V7 FPGA, the four network clients    *)
(* behind it, and the vtpLib.c functions that drive their registers.       *)
(*                                                                         *)
(* One operator per library function; each is one register transaction     *)
(* (the function holds vtpMutex from its first access to its last).  Data  *)
(* words are abstracted: a control event is a record, a frame is a count.  *)
(*                                                                         *)
(* The hardware's own moves (an event leaves the asynchronous FIFO, a      *)
(* frame is built, a frame is sent) are not code of the repository: they   *)
(* follow the register comments of vtpLib.h and are marked external.       *)
(***************************************************************************)
EXTENDS Naturals, Sequences, FiniteSets

CONSTANTS
    NumInst,        \* network clients: 4 in the hardware
    NumPayload,     \* payload ports: 16 in the hardware
    MaxFrames,      \* bound: frames built in one run
    BytesPerFrame   \* size of a frame, as the byte counters see it

ASSUME NumInstAssumption == NumInst \in Nat \ {0}
ASSUME NumPayloadAssumption == NumPayload \in Nat \ {0}
ASSUME MaxFramesAssumption == MaxFrames \in Nat
ASSUME BytesPerFrameAssumption == BytesPerFrame \in Nat

Inst == 0 .. NumInst - 1
Payload == 1 .. NumPayload

\* The bits of Ctrl3 that VTP_STREB_ENABLE_MASK lets a caller change.
Enable == {"PP", "ASYNC", "CMSG", "EJFAT"}
Control == {"PRESTART", "GO", "END"}
\* An event of one of the types on its way: the network port written to Ctrl3
\* before it, and whether cMsg header words precede it.
EventOf(types) == [inst : Inst, type : types, cmsg : BOOLEAN]
AsyncEvent == EventOf(Control)

VARIABLES
    v7Done,     \* the V7 holds a configuration: its registers respond
    fwType,     \* VTP_FW_Type[0] is VTP_FW_TYPE_FADCSTREAM, read by vtpInit
    ebReset,    \* Ctrl bit 31
    ebMask,     \* Ctrl bits 15-0: payload ports that are built
    enables,    \* Ctrl3 enable bits
    nstreams,   \* Ctrl3 bits 2-0
    netPort,    \* Ctrl3 bits 5-4: client the next asynchronous event goes to
    ppPort,     \* pp_cfg[..] bits 31-30: client the payload's frames go to
    udpRx,      \* ebiorx[..].Ctrl bit 8: UDP packet mode
    request,    \* tcpClient[..].IP4_StateRequest
    link,       \* the client can send: UDP socket open, or TCP connected
    asyncFifo,  \* control events accepted and not yet sent
    delivered,  \* last control event sent over the connection, by client
    inFlight,   \* frames built and not yet sent, by client
    framesSent, \* ebiorx frame counters, by client
    posted,     \* history: last control event written since SetEbCfg, by client
    endCount    \* history: the frame count in the last End event, by client

ctrlVars == <<ebReset, ebMask, enables, nstreams, netPort, ppPort>>
netVars == <<udpRx, request, link>>
histVars == <<posted, endCount>>
dataVars == <<inFlight, framesSent>>
chipVars == <<v7Done, fwType>>
ebVars == <<chipVars, ctrlVars, netVars, asyncFifo, delivered, dataVars, histVars>>

\* posted[i] is "CFG" for a stream the configuration has and no event yet.
Posted == Control \union {"NONE", "CFG"}

\* Every register and queue of the event builder has its type.
EbTyped(types) ==
    /\ v7Done \in BOOLEAN
    /\ fwType \in BOOLEAN
    /\ ebReset \in BOOLEAN
    /\ ebMask \in SUBSET Payload
    /\ enables \in SUBSET Enable
    /\ nstreams \in 0 .. NumInst
    /\ netPort \in Inst
    /\ ppPort \in [Payload -> Inst]
    /\ udpRx \in BOOLEAN
    /\ request \in [Inst -> BOOLEAN]
    /\ link \in [Inst -> BOOLEAN]
    /\ asyncFifo \in Seq(EventOf(types))
    /\ delivered \in [Inst -> types \union {"NONE"}]
    /\ inFlight \in [Inst -> Nat]
    /\ framesSent \in [Inst -> Nat]
    /\ posted \in [Inst -> Posted]
    /\ endCount \in [Inst -> Nat]
EbTypeOK == EbTyped(Control)

\* The registers of a V7 that has just been configured: all zero.
V7PowerOn ==
    /\ ebReset = FALSE
    /\ ebMask = {}
    /\ enables = {}
    /\ nstreams = 0
    /\ netPort = 0
    /\ ppPort = [p \in Payload |-> 0]
    /\ asyncFifo = <<>>
    /\ posted = [i \in Inst |-> "NONE"]

EbInit ==
    /\ v7Done = FALSE
    /\ fwType = FALSE
    /\ V7PowerOn
    /\ udpRx = FALSE
    /\ request = [i \in Inst |-> FALSE]
    /\ link = [i \in Inst |-> FALSE]
    /\ delivered = [i \in Inst |-> "NONE"]
    /\ inFlight = [i \in Inst |-> 0]
    /\ framesSent = [i \in Inst |-> 0]
    /\ endCount = [i \in Inst |-> 0]

-----------------------------------------------------------------------------
(* Firmware loading *)

\* vtpZ7CfgLoad: writing /dev/xdevcfg restarts every Z7 peripheral.
Z7CfgLoad(ok) ==
    IF ok
    THEN /\ udpRx' = FALSE
         /\ request' = [i \in Inst |-> FALSE]
         /\ link' = [i \in Inst |-> FALSE]
         /\ inFlight' = [i \in Inst |-> 0]
         /\ framesSent' = [i \in Inst |-> 0]
         /\ UNCHANGED <<chipVars, ctrlVars, asyncFifo, delivered, histVars>>
    ELSE UNCHANGED ebVars

\* vtpV7CfgLoad: vtpV7CfgStart pulses PROGRAM_B, which erases the V7, before
\* the file is even opened: a load that fails leaves the V7 blank.
V7CfgLoad(ok) ==
    /\ v7Done' = ok
    /\ ebReset' = FALSE
    /\ ebMask' = {}
    /\ enables' = {}
    /\ nstreams' = 0
    /\ netPort' = 0
    /\ ppPort' = [p \in Payload |-> 0]
    /\ asyncFifo' = <<>>
    /\ posted' = [i \in Inst |-> "NONE"]
    /\ endCount' = [i \in Inst |-> 0]
    /\ inFlight' = [i \in Inst |-> 0]
    /\ UNCHANGED <<fwType, netVars, delivered, framesSent>>

-----------------------------------------------------------------------------
(* Streaming event builder registers *)

\* A write to the registers of a blank V7 does nothing.
IfV7(A) == IF v7Done THEN A ELSE UNCHANGED ebVars

\* CHECKTYPE(VTP_FW_TYPE_FADCSTREAM,0): the function returns ERROR at once
\* unless vtpInit has read the streaming firmware's type.
Checked(A) == IF fwType THEN A ELSE UNCHANGED ebVars

\* Mutant: no clamp.
ClampNothing(n) == IF n = 0 THEN 1 ELSE n

\* The clamp CHECKRANGE_INT applies to nstreams, after the test for <= 0.
ClampStreams(n) ==
    IF n = 0 THEN 1 ELSE IF n > NumInst THEN NumInst ELSE n

\* Mutant: Ctrl3 keeps the enables of the last run.
SetEbCfgKeeps(mask, n, stream) == Checked(IfV7(
    /\ ebReset' = TRUE
    /\ ebMask' = mask
    /\ enables' = enables \union {"CMSG"}
    /\ nstreams' = ClampStreams(n)
    /\ netPort' = 0
    /\ ppPort' = [p \in Payload |-> IF p \in mask THEN stream[p] - 1 ELSE ppPort[p]]
    /\ asyncFifo' = <<>>
    /\ posted' = [i \in Inst |-> IF i < ClampStreams(n) THEN "CFG" ELSE "NONE"]
    /\ endCount' = [i \in Inst |-> 0]
    /\ UNCHANGED <<chipVars, netVars, delivered, dataVars>>))

\* stream[p] is ppInfo[p].streamInfo, the stream number counted from 1.
SetEbCfg(mask, n, stream) == Checked(IfV7(
    /\ ebReset' = TRUE
    /\ ebMask' = mask
    /\ enables' = {"CMSG"}
    /\ nstreams' = ClampStreams(n)
    /\ netPort' = 0
    /\ ppPort' = [p \in Payload |-> IF p \in mask THEN stream[p] - 1 ELSE ppPort[p]]
    /\ asyncFifo' = <<>>
    /\ posted' = [i \in Inst |-> IF i < ClampStreams(n) THEN "CFG" ELSE "NONE"]
    /\ endCount' = [i \in Inst |-> 0]
    /\ UNCHANGED <<chipVars, netVars, delivered, dataVars>>))

\* Mutant: enabling pulses the reset.
EbEnablePulses(bits) == IfV7(
    /\ enables' = enables \union bits
    /\ ebReset' = FALSE
    /\ asyncFifo' = <<>>
    /\ UNCHANGED <<chipVars, ebMask, nstreams, netPort, ppPort, netVars,
                   delivered, dataVars, histVars>>)

EbEnable(bits) == IfV7(
    /\ enables' = enables \union bits
    /\ ebReset' = FALSE
    /\ UNCHANGED <<chipVars, ebMask, nstreams, netPort, ppPort, netVars,
                   asyncFifo, delivered, dataVars, histVars>>)

\* Reset stops all processing: what the asynchronous FIFO held is gone.
EbDisable(bits) == IfV7(
    /\ enables' = enables \ bits
    /\ ebReset' = TRUE
    /\ asyncFifo' = <<>>
    /\ UNCHANGED <<chipVars, ebMask, nstreams, netPort, ppPort, netVars,
                   delivered, dataVars, histVars>>)

\* Mutant: the packet mode is only ever set.
ResetDataPathSets(udp) == IfV7(
    /\ udpRx' = (udpRx \/ udp)
    /\ inFlight' = [i \in Inst |-> 0]
    /\ framesSent' = [i \in Inst |-> 0]
    /\ UNCHANGED <<chipVars, ctrlVars, request, link, asyncFifo, delivered, histVars>>)

\* vtpStreamingMigReset, then vtpStreamingEbioReset: buffered frames are
\* dropped, the frame counters restart and the packet mode is set.
ResetDataPath(udp) == IfV7(
    /\ udpRx' = udp
    /\ inFlight' = [i \in Inst |-> 0]
    /\ framesSent' = [i \in Inst |-> 0]
    /\ UNCHANGED <<chipVars, ctrlVars, request, link, asyncFifo, delivered, histVars>>)

-----------------------------------------------------------------------------
(* Network clients *)

\* vtpStreamingSetNetCfg; out-of-range clients are refused.
SetNetCfg(i) ==
    IF fwType /\ i \in Inst
    THEN /\ request' = [request EXCEPT ![i] = FALSE]
         /\ link' = [link EXCEPT ![i] = FALSE]
         /\ UNCHANGED <<chipVars, ctrlVars, udpRx, asyncFifo, delivered, dataVars, histVars>>
    ELSE UNCHANGED ebVars

\* vtpStreamingTcpConnect(i, connect > 0): the event builder's reset is
\* pulsed, the client restarts and its socket is requested.  up says whether
\* the connection is there when the wait of at most 20 s is over: the function
\* only warns when it is not.
TcpConnect(i, up) ==
    IF fwType /\ i \in Inst
    THEN /\ ebReset' = FALSE
         /\ asyncFifo' = <<>>
         /\ netPort' = IF v7Done THEN i ELSE netPort
         /\ request' = [request EXCEPT ![i] = TRUE]
         /\ link' = [link EXCEPT ![i] = up]
         /\ delivered' = [delivered EXCEPT ![i] = "NONE"]
         /\ UNCHANGED <<chipVars, ebMask, enables, nstreams, ppPort, udpRx, dataVars, histVars>>
    ELSE UNCHANGED ebVars

\* vtpStreamingTcpConnect(i, 0): Ctrl is overwritten, so the mask goes too.
TcpDisconnect(i) ==
    IF fwType /\ i \in Inst
    THEN /\ ebReset' = v7Done
         /\ ebMask' = {}
         /\ asyncFifo' = <<>>
         /\ request' = [request EXCEPT ![i] = FALSE]
         /\ link' = [link EXCEPT ![i] = FALSE]
         /\ inFlight' = [inFlight EXCEPT ![i] = 0]
         /\ UNCHANGED <<chipVars, enables, nstreams, netPort, ppPort, udpRx, delivered,
                        framesSent, histVars>>
    ELSE UNCHANGED ebVars

\* Mutant: the port is not written to Ctrl3.
EvioKeepsPort(i, type, count) ==
    IF fwType /\ i \in Inst
    THEN IfV7(
         /\ netPort' = netPort
         /\ asyncFifo' = IF ebReset THEN <<>>
                         ELSE Append(asyncFifo, [inst |-> netPort, type |-> type, cmsg |-> ~udpRx])
         /\ posted' = [posted EXCEPT ![i] = type]
         /\ endCount' = IF type = "END" THEN [endCount EXCEPT ![i] = count] ELSE endCount
         /\ UNCHANGED <<chipVars, ebReset, ebMask, enables, nstreams, ppPort, netVars,
                        delivered, dataVars>>)
    ELSE UNCHANGED ebVars

\* vtpStreamingEvioWriteControl.  The event is accepted when its length is
\* written to CpuAsyncEventInfo, with the port Ctrl3 holds at that moment.
EvioWriteControl(i, type, count) ==
    IF fwType /\ i \in Inst
    THEN IfV7(
         /\ netPort' = i
         /\ asyncFifo' = IF ebReset THEN <<>>
                         ELSE Append(asyncFifo, [inst |-> i, type |-> type, cmsg |-> ~udpRx])
         /\ posted' = [posted EXCEPT ![i] = type]
         /\ endCount' = IF type = "END" THEN [endCount EXCEPT ![i] = count] ELSE endCount
         /\ UNCHANGED <<chipVars, ebReset, ebMask, enables, nstreams, ppPort, netVars,
                        delivered, dataVars>>)
    ELSE UNCHANGED ebVars

\* vtpStreamingFramesSent.  Clients 2 and 3 belong to ebiorx[1], but are
\* indexed there as 2 and 3: one row past the frame counters, where the byte
\* counters of the same client are.
FramesSent(i) ==
    IF i \in {0, 1} THEN framesSent[i] ELSE BytesPerFrame * framesSent[i]

-----------------------------------------------------------------------------
(* The hardware's own moves *)

\* The event builder sends the event at the head of the asynchronous FIFO.
SendAsync ==
    /\ v7Done /\ ~ebReset /\ "ASYNC" \in enables
    /\ asyncFifo # <<>>
    /\ link[Head(asyncFifo).inst]
    /\ delivered' = [delivered EXCEPT ![Head(asyncFifo).inst] = Head(asyncFifo).type]
    /\ asyncFifo' = Tail(asyncFifo)
    /\ UNCHANGED <<chipVars, ctrlVars, netVars, dataVars, histVars>>

\* A frame is built from the payload ports routed to client i.  sync is the
\* trigger interface's user sync: while it is held, payload modules are silent.
BuildFrame(i, sync) ==
    /\ v7Done /\ ~ebReset /\ "PP" \in enables /\ ~sync
    /\ \E p \in ebMask : ppPort[p] = i
    /\ inFlight[i] + framesSent[i] < MaxFrames
    /\ inFlight' = [inFlight EXCEPT ![i] = @ + 1]
    /\ UNCHANGED <<chipVars, ctrlVars, netVars, asyncFifo, delivered, framesSent, histVars>>

SendFrame(i) ==
    /\ link[i] /\ inFlight[i] > 0
    /\ inFlight' = [inFlight EXCEPT ![i] = @ - 1]
    /\ framesSent' = [framesSent EXCEPT ![i] = @ + 1]
    /\ UNCHANGED <<chipVars, ctrlVars, netVars, asyncFifo, delivered, histVars>>

\* A TCP connection completes after the wait, while it is still requested.
LateConnect(i) ==
    /\ request[i] /\ ~link[i]
    /\ link' = [link EXCEPT ![i] = TRUE]
    /\ UNCHANGED <<chipVars, ctrlVars, udpRx, request, asyncFifo, delivered, dataVars, histVars>>

\* The peer drops the connection; UDP has no connection to drop.
DropLink(i) ==
    /\ link[i] /\ ~udpRx
    /\ link' = [link EXCEPT ![i] = FALSE]
    /\ UNCHANGED <<chipVars, ctrlVars, udpRx, request, asyncFifo, delivered, dataVars, histVars>>
=============================================================================
