------------------------------ MODULE StreamRol ------------------------------
(***************************************************************************)
(* The streaming readout list rol/vtp_stream3_1udp_vg.c: what rocDownload, *)
(* rocPrestart, rocPause, rocGo, rocEnd and rocReset do to the streaming   *)
(* event builder and its network clients, one step per library call, under *)
(* the run control that calls them, beside the trigger-interface master    *)
(* that holds and releases the user sync, the hardware that moves events   *)
(* and frames, and the process that writes vtp_<rocname>.cnf.              *)
(*                                                                         *)
(* Two waits of the code are timing assumptions, named EndWait and         *)
(* EndFlush: sleep(2) is long enough for what its comment says it is for.  *)
(***************************************************************************)
EXTENDS StreamEb

CONSTANTS
    Configs,    \* the contents vtp_<rocname>.cnf may have
    NoConfig,   \* there is no such file
    MaxActive,  \* 8 in the code: "limit to 8 active payloads"
    MaxPending, \* bound: events that may wait in the FIFO when Go is commanded
    Faults      \* which of the faults below may happen

FaultKind == {"load", "init", "config", "edit", "link", "crash"}

ASSUME ConfigsAssumption ==
    Configs \subseteq [conn : Nat, udp : BOOLEAN, ejfat : BOOLEAN, pps : SUBSET Payload]
ASSUME NoConfigAssumption == NoConfig \notin Configs
ASSUME MaxActiveAssumption == MaxActive \in Nat
ASSUME MaxPendingAssumption == MaxPending \in Nat
ASSUME FaultsAssumption == Faults \subseteq FaultKind

VARIABLES
    coda,       \* run-control state of this component
    pc,         \* where the handler stands; "idle" between transitions
    idx,        \* loop variable inst or ii
    conn,       \* local numConnections
    par,        \* what rocPrestart read from the file
    ppInfo,     \* payloads with a module_id in the global ppInfo
    dev,        \* the FPGA mapping: "closed", "mapped", or "stale" (see Reset)
    cfg,        \* the file $CODA_CONFIG/vtp_<rocname>.cnf
    sync        \* the trigger-interface master holds the user sync

rolVars == <<coda, pc, idx, conn, par, ppInfo, dev, cfg, sync>>
vars == <<ebVars, rolVars>>

DownloadPc == {"dl_z7", "dl_v7"}
PrestartPc == {"pr_init", "pr_file", "pr_ebcfg", "pr_cmsg", "pr_ejfat", "pr_async",
               "pr_reset", "pr_net", "pr_conn", "pr_event"}
GoPc == {"go_read", "go_event", "go_enable"}
EndPc == {"end_read", "end_wait", "end_async", "end_event", "end_flush", "end_close"}

\* The event builder and the readout list have their types.
TypeOK ==
    /\ EbTypeOK
    /\ coda \in {"booted", "downloaded", "prestarted", "active", "paused"}
    /\ pc \in {"idle"} \union DownloadPc \union PrestartPc \union GoPc \union EndPc
    /\ idx \in Nat
    /\ conn \in Nat
    /\ par \in Configs \union {NoConfig}
    /\ ppInfo \in SUBSET Payload
    /\ dev \in {"closed", "mapped", "stale"}
    /\ cfg \in Configs \union {NoConfig}
    /\ sync \in BOOLEAN

\* The results a call may have: success, and failure where the fault may happen.
Outcome(fault) == IF fault \in Faults THEN BOOLEAN ELSE {TRUE}

Goto(from, to) == pc = from /\ pc' = to

\* A handler returns: its locals are gone.
Return(state) ==
    /\ coda' = state
    /\ pc' = "idle"
    /\ idx' = 0 /\ conn' = 0 /\ par' = NoConfig

\* Mutant: idx is not incremented.
NextRoundStuck(body) ==
    /\ idx + 1 < conn
    /\ pc' = body /\ idx' = idx
    /\ UNCHANGED <<coda, conn, par>>

\* for(idx=0; idx<conn; idx++): the next round, or what comes after the last.
NextRound(body) ==
    /\ idx + 1 < conn
    /\ pc' = body /\ idx' = idx + 1
    /\ UNCHANGED <<coda, conn, par>>

LastRound(after) ==
    /\ idx + 1 >= conn
    /\ pc' = after /\ idx' = 0
    /\ UNCHANGED <<coda, conn, par>>

LastRoundReturn(state) == idx + 1 >= conn /\ Return(state)

\* The process that loaded the readout list is gone; a new one has opened
\* nothing and read no firmware type.  The hardware goes on as it was.
ProcessGone ==
    /\ Return("booted")
    /\ ppInfo' = {}
    /\ dev' = "closed"
    /\ fwType' = FALSE
    /\ UNCHANGED <<v7Done, ctrlVars, netVars, asyncFifo, delivered, dataVars, histVars>>
    /\ UNCHANGED <<cfg, sync>>

Init ==
    /\ EbInit
    /\ coda = "booted"
    /\ pc = "idle"
    /\ idx = 0 /\ conn = 0 /\ par = NoConfig
    /\ ppInfo = {}
    /\ dev = "closed"
    /\ cfg \in Configs
    /\ sync = FALSE

-----------------------------------------------------------------------------
(* Run control: a transition starts when every component has finished the last *)

Command(from, to) ==
    /\ coda \in from
    /\ Goto("idle", to)
    /\ UNCHANGED <<ebVars, coda, idx, conn, par, cfg, sync>>

\* The readout list is loaded afresh (ppInfo is its data) and vtpOpen maps the
\* FPGA, except that a mapping closed by rocReset is taken for open.
Download ==
    /\ Command({"booted", "downloaded"}, "dl_z7")
    /\ ppInfo' = {}
    /\ dev' = IF dev = "stale" THEN "stale" ELSE "mapped"

\* The master holds the user sync since its own download or end.
Prestart ==
    /\ sync
    /\ Command({"downloaded"}, "pr_init")
    /\ UNCHANGED <<ppInfo, dev>>

Go ==
    /\ Len(asyncFifo) <= MaxPending
    /\ Command({"prestarted", "paused"}, "go_read")
    /\ UNCHANGED <<ppInfo, dev>>

\* An active run has been released by the master too.
End ==
    /\ coda \in {"active", "paused"} => ~sync
    /\ Command({"prestarted", "active", "paused"}, "end_read")
    /\ UNCHANGED <<ppInfo, dev>>

\* rocPause: nothing but the statistics sender stops.
Pause ==
    /\ pc = "idle" /\ coda = "active" /\ ~sync
    /\ coda' = "paused"
    /\ UNCHANGED <<ebVars, pc, idx, conn, par, ppInfo, dev, cfg, sync>>

\* rocReset calls vtpClose, which unmaps the FPGA and keeps its descriptor:
\* the next vtpOpen believes the device open and maps nothing.
Reset ==
    /\ pc = "idle" /\ coda # "booted"
    /\ coda' = "booted"
    /\ dev' = IF dev = "mapped" THEN "stale" ELSE dev
    /\ UNCHANGED <<ebVars, pc, idx, conn, par, ppInfo, cfg, sync>>

Crash ==
    /\ "crash" \in Faults
    /\ coda # "booted" \/ pc # "idle"
    /\ ProcessGone

-----------------------------------------------------------------------------
(* rocDownload *)

DownloadZ7 ==
    /\ Goto("dl_z7", "dl_v7")
    /\ \E ok \in Outcome("load") : Z7CfgLoad(ok)
    /\ UNCHANGED <<coda, idx, conn, par, ppInfo, dev, cfg, sync>>

\* vtpV7WriteCfgData has no CHECKINIT: with no mapping it kills the process.
DownloadV7 ==
    /\ dev = "mapped"
    /\ pc = "dl_v7"
    /\ \E ok \in Outcome("load") : V7CfgLoad(ok)
    /\ Return("downloaded")
    /\ UNCHANGED <<ppInfo, dev, cfg, sync>>

DownloadV7Unmapped ==
    /\ pc = "dl_v7" /\ dev # "mapped"
    /\ ProcessGone

-----------------------------------------------------------------------------
(* rocPrestart *)

\* rocPrestart returns void: whatever it did, run control goes on.
PrestartDone == Return("prestarted")

PrestartInit ==
    /\ pc = "pr_init"
    /\ \E ok \in Outcome("init") :
          IF ok /\ v7Done
          THEN /\ pc' = "pr_file" /\ fwType' = TRUE
               /\ UNCHANGED <<coda, idx, conn, par>>
          ELSE PrestartDone /\ UNCHANGED fwType
    /\ UNCHANGED <<v7Done, ctrlVars, netVars, asyncFifo, delivered, dataVars, histVars>>
    /\ UNCHANGED <<ppInfo, dev, cfg, sync>>

\* The early returns: no file, or no number of connections in it.
PrestartFile ==
    /\ pc = "pr_file"
    /\ IF cfg = NoConfig \/ (cfg # NoConfig /\ cfg.conn = 0)
       THEN PrestartDone
       ELSE /\ pc' = "pr_ebcfg"
            /\ conn' = cfg.conn
            /\ par' = cfg
            /\ UNCHANGED <<coda, idx>>
    /\ UNCHANGED <<ebVars, ppInfo, dev, cfg, sync>>

\* The payload loop: it configures the payload first and then tests
\* active_count > 8, so MaxActive + 1 payloads are taken.
Taken(pps) == {p \in pps : Cardinality({q \in pps : q < p}) <= MaxActive}

\* vtpPayloadConfig returns a mask of every entry of ppInfo with a module.
PpMask(pps) == IF Taken(pps) = {} THEN {} ELSE ppInfo \union Taken(pps)

PrestartEbCfg ==
    /\ Goto("pr_ebcfg", "pr_cmsg")
    /\ ppInfo' = ppInfo \union Taken(par.pps)
    /\ SetEbCfg(PpMask(par.pps), conn, [p \in Payload |-> 1])
    /\ UNCHANGED <<coda, idx, conn, par, dev, cfg, sync>>

\* Mutant: UDP streams keep their cMsg headers.
PrestartKeepsCmsg ==
    /\ Goto("pr_cmsg", "pr_ejfat")
    /\ UNCHANGED <<ebVars, coda, idx, conn, par, ppInfo, dev, cfg, sync>>

PrestartCmsg ==
    /\ Goto("pr_cmsg", "pr_ejfat")
    /\ IF par.udp THEN EbDisable({"CMSG"}) ELSE UNCHANGED ebVars
    /\ UNCHANGED <<coda, idx, conn, par, ppInfo, dev, cfg, sync>>

PrestartEjfat ==
    /\ Goto("pr_ejfat", "pr_async")
    /\ IF par.udp /\ par.ejfat THEN EbEnable({"EJFAT"}) ELSE UNCHANGED ebVars
    /\ UNCHANGED <<coda, idx, conn, par, ppInfo, dev, cfg, sync>>

\* Mutant: the payload ports are enabled with the asynchronous FIFO.
PrestartEnables ==
    /\ Goto("pr_async", "pr_reset")
    /\ EbEnable({"PP", "ASYNC"})
    /\ UNCHANGED <<coda, idx, conn, par, ppInfo, dev, cfg, sync>>

PrestartAsync ==
    /\ Goto("pr_async", "pr_reset")
    /\ EbEnable({"ASYNC"})
    /\ UNCHANGED <<coda, idx, conn, par, ppInfo, dev, cfg, sync>>

PrestartReset ==
    /\ Goto("pr_reset", "pr_net")
    /\ ResetDataPath(par.udp)
    /\ idx' = 0
    /\ UNCHANGED <<coda, conn, par, ppInfo, dev, cfg, sync>>

PrestartNet ==
    /\ Goto("pr_net", "pr_conn")
    /\ SetNetCfg(idx)
    /\ UNCHANGED <<coda, idx, conn, par, ppInfo, dev, cfg, sync>>

PrestartConnect ==
    /\ pc = "pr_conn"
    /\ \E up \in IF par.udp THEN {TRUE} ELSE Outcome("link") : TcpConnect(idx, up)
    /\ NextRound("pr_net") \/ LastRound("pr_event")
    /\ UNCHANGED <<ppInfo, dev, cfg, sync>>

PrestartEvent ==
    /\ pc = "pr_event"
    /\ EvioWriteControl(idx, "PRESTART", 0)
    /\ NextRound("pr_event") \/ LastRoundReturn("prestarted")
    /\ UNCHANGED <<ppInfo, dev, cfg, sync>>

-----------------------------------------------------------------------------
(* rocGo *)

\* Mutant: rocGo and rocEnd serve one connection.
ConnOne == 1

\* rocGo and rocEnd read the number of connections again, 1 if they cannot.
ConnAgain ==
    IF cfg = NoConfig THEN 1
    ELSE IF cfg.conn = 0 THEN 1 ELSE cfg.conn

GoRead ==
    /\ Goto("go_read", "go_event")
    /\ conn' = ConnAgain
    /\ idx' = 0
    /\ UNCHANGED <<ebVars, coda, par, ppInfo, dev, cfg, sync>>

GoEvent ==
    /\ pc = "go_event"
    /\ EvioWriteControl(idx, "GO", 0)
    /\ NextRound("go_event") \/ LastRound("go_enable")
    /\ UNCHANGED <<ppInfo, dev, cfg, sync>>

GoEnable ==
    /\ pc = "go_enable"
    /\ EbEnable({"PP"})
    /\ Return("active")
    /\ UNCHANGED <<ppInfo, dev, cfg, sync>>

-----------------------------------------------------------------------------
(* rocEnd *)

EndRead ==
    /\ Goto("end_read", "end_wait")
    /\ conn' = ConnAgain
    /\ UNCHANGED <<ebVars, coda, idx, par, ppInfo, dev, cfg, sync>>

\* Mutant: no wait.
EndAtOnce ==
    /\ Goto("end_wait", "end_async")
    /\ UNCHANGED <<ebVars, coda, idx, conn, par, ppInfo, dev, cfg, sync>>

\* sleep(2): "wait a bit to make sure the VTP sends all its data".
EndWait ==
    /\ sync
    /\ \A i \in Inst : link[i] => inFlight[i] = 0
    /\ Goto("end_wait", "end_async")
    /\ UNCHANGED <<ebVars, coda, idx, conn, par, ppInfo, dev, cfg, sync>>

EndAsync ==
    /\ Goto("end_async", "end_event")
    /\ EbEnable({"ASYNC"})
    /\ idx' = 0
    /\ UNCHANGED <<coda, conn, par, ppInfo, dev, cfg, sync>>

\* Mutant: every End event carries the count of client 0.
EndEventFirst ==
    /\ pc = "end_event"
    /\ EvioWriteControl(idx, "END", FramesSent(0))
    /\ NextRound("end_event") \/ LastRound("end_flush")
    /\ UNCHANGED <<ppInfo, dev, cfg, sync>>

EndEvent ==
    /\ pc = "end_event"
    /\ EvioWriteControl(idx, "END", IF idx \in Inst THEN FramesSent(idx) ELSE 0)
    /\ NextRound("end_event") \/ LastRound("end_flush")
    /\ UNCHANGED <<ppInfo, dev, cfg, sync>>

\* Mutant: no wait.
EndFlushAtOnce ==
    /\ Goto("end_flush", "end_close")
    /\ UNCHANGED <<ebVars, coda, idx, conn, par, ppInfo, dev, cfg, sync>>

\* sleep(2) before the sockets close: what can be sent has been sent.
EndFlush ==
    /\ asyncFifo # <<>> => ~link[Head(asyncFifo).inst]
    /\ Goto("end_flush", "end_close")
    /\ UNCHANGED <<ebVars, coda, idx, conn, par, ppInfo, dev, cfg, sync>>

\* Mutant: client 0 is closed each time.
EndCloseFirst ==
    /\ pc = "end_close"
    /\ TcpDisconnect(0)
    /\ NextRound("end_close") \/ LastRoundReturn("downloaded")
    /\ UNCHANGED <<ppInfo, dev, cfg, sync>>

EndClose ==
    /\ pc = "end_close"
    /\ TcpDisconnect(idx)
    /\ NextRound("end_close") \/ LastRoundReturn("downloaded")
    /\ UNCHANGED <<ppInfo, dev, cfg, sync>>

-----------------------------------------------------------------------------
(* The others *)

\* The VME controller writes the file during its own download; "edit" lets
\* someone rewrite it at any other time.
GenerateConfig ==
    /\ pc \in DownloadPc \/ "edit" \in Faults
    /\ \E new \in Configs \union IF "config" \in Faults THEN {NoConfig} ELSE {} :
          new # cfg /\ cfg' = new
    /\ UNCHANGED <<ebVars, coda, pc, idx, conn, par, ppInfo, dev, sync>>

\* The TI master releases the user sync at the end of its __go.
ReleaseSync ==
    /\ sync
    /\ pc \in GoPc \/ (pc = "idle" /\ coda = "active")
    /\ sync' = FALSE
    /\ UNCHANGED <<ebVars, coda, pc, idx, conn, par, ppInfo, dev, cfg>>

\* It holds it at the end of its __download and at the start of its __end.
HoldSync ==
    /\ ~sync
    /\ pc \in DownloadPc \union {"end_read", "end_wait"}
       \/ (pc = "idle" /\ coda = "downloaded")
    /\ sync' = TRUE
    /\ UNCHANGED <<ebVars, coda, pc, idx, conn, par, ppInfo, dev, cfg>>

Hardware ==
    /\ \/ SendAsync
       \/ \E i \in Inst : BuildFrame(i, sync)
       \/ \E i \in Inst : SendFrame(i)
       \/ "link" \in Faults /\ \E i \in Inst : LateConnect(i)
       \/ "link" \in Faults /\ \E i \in Inst : DropLink(i)
    /\ UNCHANGED rolVars

Rol ==
    \/ DownloadZ7 \/ DownloadV7 \/ DownloadV7Unmapped
    \/ PrestartInit \/ PrestartFile \/ PrestartEbCfg \/ PrestartCmsg \/ PrestartEjfat
    \/ PrestartAsync \/ PrestartReset \/ PrestartNet \/ PrestartConnect \/ PrestartEvent
    \/ GoRead \/ GoEvent \/ GoEnable
    \/ EndRead \/ EndWait \/ EndAsync \/ EndEvent \/ EndFlush \/ EndClose

RunControl == Download \/ Prestart \/ Go \/ End \/ Pause \/ Reset

Next ==
    \/ RunControl \/ Rol \/ Crash
    \/ GenerateConfig \/ ReleaseSync \/ HoldSync
    \/ Hardware

Spec == Init /\ [][Next]_vars

\* What the schedulers promise: a handler that started runs on, the master
\* carries out its own transitions, and the hardware keeps moving.  Run
\* control, crashes and the file are the operators' business.
Fairness ==
    /\ WF_vars(Rol)
    /\ WF_vars(HoldSync) /\ WF_vars(ReleaseSync)
    /\ WF_vars(SendAsync /\ UNCHANGED rolVars)
    /\ \A i \in Inst : WF_vars(SendFrame(i) /\ UNCHANGED rolVars)

FairSpec == Spec /\ Fairness
-----------------------------------------------------------------------------
(* Properties *)

\* The event builder would build frames if payload modules sent data.
DataEnabled == v7Done /\ ~ebReset /\ "PP" \in enables /\ ebMask # {}

\* Frames can be built only once every stream of the configuration has had
\* its Go event written: no step of rocPrestart, of a download or of the end
\* of the last run leaves Ctrl, Ctrl3 and the mask enabling the stream early.
FramesOnlyAfterGo ==
    DataEnabled => \A i \in Inst : posted[i] \notin {"CFG", "PRESTART"}

\* The data path (Ctrl3 of the V7) and the control events (the mode bit of
\* ebiorx in the Z7) agree on cMsg headers, on every open connection of the
\* configuration that has had an event, and in every event waiting for one:
\* the two bits are set by different calls, in different chips.
HeaderModesAgree ==
    /\ \A i \in Inst : i < nstreams /\ link[i] /\ posted[i] \in Control
          => (udpRx <=> "CMSG" \notin enables)
    /\ \A k \in DOMAIN asyncFifo : asyncFifo[k].inst < nstreams
          => (asyncFifo[k].cmsg <=> "CMSG" \in enables)

\* The count an End event carries is the number of frames its stream has
\* sent, and stays so until the socket closes: no frame follows the End.
EndCountFinal ==
    \A i \in Inst : request[i] /\ posted[i] = "END"
        => endCount[i] = framesSent[i] /\ inFlight[i] = 0

\* Between transitions of a run every configured stream has had the same
\* control event: rocPrestart, rocGo and rocEnd count the same connections.
StreamsAgree ==
    pc = "idle" /\ coda \in {"prestarted", "active", "paused"} =>
        \A i, j \in Inst : posted[i] # "NONE" /\ posted[j] # "NONE" => posted[i] = posted[j]

\* rocEnd closes what rocPrestart opened: a component back in the downloaded
\* state holds no socket.
EndClosesAll == pc = "idle" /\ coda = "downloaded" => \A i \in Inst : ~request[i]

\* A control event leaves the asynchronous FIFO by being sent, or because the
\* connection it waits for is down, or with a new V7 configuration: no reset
\* of the event builder by EbDisable, TcpConnect or SetEbCfg throws one away.
\* Where connections may fail, one that completes between the wait of rocEnd
\* and the close of its socket does lose its events.
NoEventLost ==
    [][ asyncFifo # <<>> =>
          \/ pc = "dl_v7"
          \/ "link" \in Faults /\ pc = "end_close"
          \/ ~link[Head(asyncFifo).inst]
          \/ Len(asyncFifo') >= Len(asyncFifo)
          \/ SendAsync ]_vars

\* What the receiver of each stream sees is what RunStream promises it.
Receiver == INSTANCE RunStream WITH
    Stream <- Inst,
    open <- request,
    phase <- delivered,
    sent <- framesSent,
    reported <- [i \in Inst |-> IF request[i] /\ delivered[i] = "END"
                                THEN endCount[i] ELSE 0]

\* The readout list and the event builder implement RunStream, as long as no load
\* or connection fails and the file is not edited during a run:
\* the order of control events, and nothing but silence after End.
ImplementsRunStream == Receiver!Spec

\* Every transition that starts ends.
TransitionEnds == pc # "idle" ~> pc = "idle"

\* An End event that was written to a stream is sent on it.
EndDelivered ==
    \A i \in Inst : (posted[i] = "END" /\ request[i]) ~> delivered[i] = "END"

\* "NO fallback [..] this is a FATAL error if file is missing": no Go event
\* goes to a stream that has had no Prestart event.
GoAfterPrestart ==
    [][ \A i \in Inst : posted'[i] = "GO" => posted[i] \in {"PRESTART", "GO"} ]_vars
=============================================================================
