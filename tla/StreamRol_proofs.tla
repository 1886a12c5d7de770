-------------------------- MODULE StreamRol_proofs --------------------------
(***************************************************************************)
(* Proofs about StreamRol, for every number of clients and payload ports,  *)
(* every set of configuration files and every bound.                       *)
(***************************************************************************)
EXTENDS StreamRol, StreamEb_proofs

LEMMA ConfigType ==
    ASSUME NEW c \in Configs
    PROVE  c.conn \in Nat /\ c.udp \in BOOLEAN /\ c.ejfat \in BOOLEAN /\ c.pps \in SUBSET Payload
BY ConfigsAssumption

LEMMA OutcomeType == ASSUME NEW fault PROVE Outcome(fault) \subseteq BOOLEAN
BY DEF Outcome

-----------------------------------------------------------------------------
(* Type correctness *)

PcValue == {"idle"} \union DownloadPc \union PrestartPc \union GoPc \union EndPc
CodaState == {"booted", "downloaded", "prestarted", "active", "paused"}

\* After the file is read, par holds what it held.
SetupPc == PrestartPc \ {"pr_init", "pr_file"}
ParRead == pc \in SetupPc => par \in Configs

RolTypeOK ==
    /\ coda \in CodaState
    /\ pc \in PcValue
    /\ idx \in Nat
    /\ conn \in Nat
    /\ par \in Configs \union {NoConfig}
    /\ ppInfo \in SUBSET Payload
    /\ dev \in {"closed", "mapped", "stale"}
    /\ cfg \in Configs \union {NoConfig}
    /\ sync \in BOOLEAN

Types == EbTypeOK /\ RolTypeOK /\ ParRead

LEMMA TypeSplit == TypeOK <=> EbTypeOK /\ RolTypeOK
BY DEF TypeOK, RolTypeOK, PcValue, CodaState

LEMMA InitType == Init => EbTypeOK /\ RolTypeOK /\ ParRead
<1> SUFFICES ASSUME Init PROVE EbTypeOK /\ RolTypeOK /\ ParRead
  OBVIOUS
<1>1. EbTypeOK
  BY EbInitType DEF EbTypeOK, Init
<1>2. RolTypeOK /\ ParRead
  BY DEF Init, RolTypeOK, ParRead, SetupPc, PrestartPc, PcValue, CodaState
<1> QED BY <1>1, <1>2

\* What the operations of the event builder keep of its types.
LEMMA NextEbType ==
    ASSUME EbTypeOK, RolTypeOK, ParRead, Next PROVE EbTypeOK'
<1>1. CASE RunControl
  BY <1>1, EbUnchangedType
     DEF EbTypeOK, RunControl, Download, Prestart, Go, End, Pause, Reset, Command
<1>2. CASE Crash \/ DownloadV7Unmapped
  BY <1>2 DEF Crash, DownloadV7Unmapped, ProcessGone, EbTypeOK, EbTyped, ctrlVars, netVars, dataVars,
              histVars
<1>3. CASE DownloadZ7
  BY <1>3, OutcomeType, Z7CfgLoadType DEF EbTypeOK, DownloadZ7
<1>4. CASE DownloadV7
  BY <1>4, OutcomeType, V7CfgLoadType DEF EbTypeOK, DownloadV7
<1>5. CASE PrestartInit
  BY <1>5 DEF PrestartInit, EbTypeOK, EbTyped, ctrlVars, netVars, dataVars, histVars
<1>6. CASE PrestartFile \/ GoRead \/ EndRead \/ EndWait \/ EndFlush \/ GenerateConfig
           \/ ReleaseSync \/ HoldSync
  BY <1>6, EbUnchangedType
     DEF EbTypeOK, PrestartFile, GoRead, EndRead, EndWait, EndFlush, GenerateConfig, ReleaseSync, HoldSync
<1>7. CASE PrestartEbCfg
  <2>1. par \in Configs
    BY <1>7 DEF PrestartEbCfg, Goto, ParRead, SetupPc, PrestartPc
  <2>2. PpMask(par.pps) \in SUBSET Payload
    BY <2>1, ConfigType DEF PpMask, Taken, RolTypeOK
  <2>3. [p \in Payload |-> 1] \in [Payload -> 1 .. NumInst]
    BY NumInstAssumption
  <2> QED BY <1>7, <2>2, <2>3, SetEbCfgType DEF EbTypeOK, PrestartEbCfg, RolTypeOK
<1>8. CASE PrestartCmsg
  BY <1>8, EbDisableType, EbUnchangedType DEF EbTypeOK, PrestartCmsg, Enable
<1>9. CASE PrestartEjfat
  BY <1>9, EbEnableType, EbUnchangedType DEF EbTypeOK, PrestartEjfat, Enable
<1>10. CASE PrestartAsync \/ GoEnable \/ EndAsync
  BY <1>10, EbEnableType DEF EbTypeOK, PrestartAsync, GoEnable, EndAsync, Enable
<1>11. CASE PrestartReset
  <2>1. par \in Configs
    BY <1>11 DEF PrestartReset, Goto, ParRead, SetupPc, PrestartPc
  <2> QED BY <1>11, <2>1, ConfigType, ResetDataPathType DEF EbTypeOK, PrestartReset
<1>12. CASE PrestartNet
  BY <1>12, SetNetCfgType DEF EbTypeOK, PrestartNet, RolTypeOK
<1>13. CASE PrestartConnect
  BY <1>13, TcpConnectType, OutcomeType DEF EbTypeOK, PrestartConnect, RolTypeOK
<1>14. CASE PrestartEvent \/ GoEvent
  BY <1>14, EvioWriteControlType DEF EbTypeOK, PrestartEvent, GoEvent, Control, RolTypeOK
<1>15. CASE EndEvent
  BY <1>15, EvioWriteControlType, FramesSentType DEF EbTypeOK, EndEvent, Control, RolTypeOK
<1>16. CASE EndClose
  BY <1>16, TcpDisconnectType DEF EbTypeOK, EndClose, RolTypeOK
<1>17. CASE Hardware
  BY <1>17, SendAsyncType, FrameMovesType, LinkMovesType DEF EbTypeOK, Hardware, RolTypeOK
<1> QED BY <1>1, <1>2, <1>3, <1>4, <1>5, <1>6, <1>7, <1>8, <1>9, <1>10, <1>11, <1>12, <1>13,
           <1>14, <1>15, <1>16, <1>17 DEF Next, Rol

LEMMA NextRolType ==
    ASSUME RolTypeOK, ParRead, Next PROVE RolTypeOK' /\ ParRead'
<1> USE DEF RolTypeOK, ParRead, SetupPc, PrestartPc, PcValue, CodaState, DownloadPc, GoPc, EndPc,
            Goto, Return, NextRound, LastRound, LastRoundReturn
<1>1. CASE RunControl
  BY <1>1 DEF RunControl, Download, Prestart, Go, End, Pause, Reset, Command
<1>2. CASE Crash \/ DownloadV7Unmapped
  BY <1>2 DEF Crash, DownloadV7Unmapped, ProcessGone
<1>3. CASE DownloadZ7 \/ DownloadV7
  BY <1>3 DEF DownloadZ7, DownloadV7
<1>4. CASE PrestartInit
  BY <1>4 DEF PrestartInit, PrestartDone
<1>5. CASE PrestartFile
  <2>1. CASE cfg \in Configs /\ cfg.conn # 0
    BY <1>5, <2>1, ConfigType, NoConfigAssumption DEF PrestartFile
  <2>2. CASE ~(cfg \in Configs /\ cfg.conn # 0)
    BY <1>5, <2>2 DEF PrestartFile, PrestartDone
  <2> QED BY <2>1, <2>2
<1>6. CASE PrestartEbCfg
  <2>1. Taken(par.pps) \subseteq Payload
    BY <1>6, ConfigType DEF PrestartEbCfg, Taken
  <2> QED BY <1>6, <2>1 DEF PrestartEbCfg
<1>7. CASE PrestartCmsg \/ PrestartEjfat \/ PrestartAsync \/ PrestartReset \/ PrestartNet
  BY <1>7 DEF PrestartCmsg, PrestartEjfat, PrestartAsync, PrestartReset, PrestartNet
<1>8. CASE PrestartConnect \/ PrestartEvent
  <2>1. CASE PrestartConnect
    BY <2>1 DEF PrestartConnect
  <2>2. CASE PrestartEvent
    BY <2>2 DEF PrestartEvent
  <2> QED BY <1>8, <2>1, <2>2
<1>9. CASE GoRead \/ EndRead
  <2>1. ConnAgain \in Nat
    BY ConfigType DEF ConnAgain
  <2> QED BY <1>9, <2>1 DEF GoRead, EndRead
<1>10. CASE GoEvent \/ GoEnable
  BY <1>10 DEF GoEvent, GoEnable
<1>11. CASE EndWait \/ EndAsync \/ EndFlush
  BY <1>11 DEF EndWait, EndAsync, EndFlush
<1>12. CASE EndEvent \/ EndClose
  BY <1>12 DEF EndEvent, EndClose
<1>13. CASE GenerateConfig \/ ReleaseSync \/ HoldSync
  <2>1. CASE GenerateConfig
    BY <2>1 DEF GenerateConfig
  <2>2. CASE ReleaseSync
    BY <2>2 DEF ReleaseSync
  <2>3. CASE HoldSync
    BY <2>3 DEF HoldSync
  <2> QED BY <1>13, <2>1, <2>2, <2>3
<1>14. CASE Hardware
  BY <1>14 DEF Hardware, rolVars
<1> QED BY <1>1, <1>2, <1>3, <1>4, <1>5, <1>6, <1>7, <1>8, <1>9, <1>10, <1>11, <1>12, <1>13,
           <1>14 DEF Next, Rol

LEMMA StutterType ==
    ASSUME EbTypeOK, RolTypeOK, ParRead, UNCHANGED vars PROVE (EbTypeOK /\ RolTypeOK /\ ParRead)'
BY EbUnchangedType DEF EbTypeOK, vars, rolVars, RolTypeOK, ParRead

\* In every behaviour, whatever fails, the registers of the event builder and
\* the state of the readout list have their types (rocDownload to rocReset).
THEOREM TypeCorrect == Spec => []TypeOK
<1>1. Init => Types
  BY InitType DEF Types
<1>2. Types /\ [Next]_vars => Types'
  BY NextEbType, NextRolType, StutterType DEF Types
<1>3. Types => TypeOK
  BY TypeSplit DEF Types
<1> QED BY <1>1, <1>2, <1>3, PTL DEF Spec

-----------------------------------------------------------------------------
(* FramesOnlyAfterGo *)

\* What an operation of the event builder does to the state the proof is about.
watched == <<v7Done, fwType, enables, posted>>

LEMMA QuietSteps ==
    ASSUME \/ \E ok \in BOOLEAN : Z7CfgLoad(ok)
           \/ \E udp : ResetDataPath(udp)
           \/ \E i : SetNetCfg(i)
           \/ \E i, up : TcpConnect(i, up)
           \/ \E i : TcpDisconnect(i)
           \/ SendAsync
           \/ \E i, s : BuildFrame(i, s) \/ SendFrame(i) \/ LateConnect(i) \/ DropLink(i)
           \/ UNCHANGED ebVars
    PROVE  UNCHANGED watched
<1> USE DEF watched, ebVars, chipVars, ctrlVars, netVars, dataVars, histVars
<1>1. CASE \E ok \in BOOLEAN : Z7CfgLoad(ok)
  BY <1>1 DEF Z7CfgLoad
<1>2. CASE \E udp : ResetDataPath(udp)
  BY <1>2 DEF ResetDataPath, IfV7
<1>3. CASE \E i : SetNetCfg(i)
  BY <1>3 DEF SetNetCfg
<1>4. CASE \E i, up : TcpConnect(i, up)
  BY <1>4 DEF TcpConnect
<1>5. CASE \E i : TcpDisconnect(i)
  BY <1>5 DEF TcpDisconnect
<1>6. CASE SendAsync
  BY <1>6 DEF SendAsync
<1>7. CASE \E i, s : BuildFrame(i, s) \/ SendFrame(i) \/ LateConnect(i) \/ DropLink(i)
  BY <1>7 DEF BuildFrame, SendFrame, LateConnect, DropLink
<1>8. CASE UNCHANGED ebVars
  BY <1>8
<1> QED BY <1>1, <1>2, <1>3, <1>4, <1>5, <1>6, <1>7, <1>8

LEMMA EnableSteps ==
    ASSUME NEW bits, EbEnable(bits) \/ EbDisable(bits)
    PROVE  /\ UNCHANGED <<v7Done, fwType, posted>>
           /\ enables' \subseteq enables \union bits
BY DEF EbEnable, EbDisable, IfV7, ebVars, chipVars, ctrlVars, netVars, dataVars, histVars

\* A control event changes what was last written to its own stream only.
LEMMA EvioStep ==
    ASSUME NEW i, NEW type, NEW count, EvioWriteControl(i, type, count)
    PROVE  /\ UNCHANGED <<v7Done, fwType, enables>>
           /\ fwType /\ v7Done /\ i \in Inst => posted' = [posted EXCEPT ![i] = type]
           /\ ~(fwType /\ v7Done /\ i \in Inst) => UNCHANGED posted
           /\ \A j \in Inst : posted \in [Inst -> Posted] =>
                 posted'[j] = IF j = i /\ fwType /\ v7Done THEN type ELSE posted[j]
<1>1. CASE fwType /\ v7Done /\ i \in Inst
  BY <1>1 DEF EvioWriteControl, IfV7, chipVars
<1>2. CASE ~(fwType /\ v7Done /\ i \in Inst)
  BY <1>2 DEF EvioWriteControl, IfV7, ebVars, chipVars, ctrlVars, histVars
<1> QED BY <1>1, <1>2

\* A stream that is configured, or has had its Prestart event, and no Go.
Early == {"CFG", "PRESTART"}
Ready == v7Done /\ fwType

\* From its own file the component knows of every early stream.
Loaded == coda # "booted" /\ pc \notin DownloadPc
HandlerLoaded == pc \in PrestartPc \union GoPc \union EndPc => coda # "booted"
EarlyConfigured ==
    Loaded => \A i \in Inst : posted[i] \in Early => Ready /\ cfg \in Configs /\ i < cfg.conn

\* Between the file and the last Prestart event no payload port is enabled.
SetupLocals ==
    /\ pc \in SetupPc \union {"pr_file"} => Ready
    /\ pc \in SetupPc => cfg \in Configs /\ par = cfg /\ conn = cfg.conn /\ conn > 0
    /\ pc \in SetupPc \ {"pr_ebcfg"} => "PP" \notin enables
    /\ pc \in {"pr_net", "pr_conn", "pr_event"} => idx < conn

\* rocGo counts the streams again, and gives each its Go event.
GoLocals ==
    /\ pc \in {"go_event", "go_enable"} => conn = ConnAgain
    /\ pc = "go_event" => \A i \in Inst : i < idx => posted[i] \notin Early
    /\ pc = "go_enable" => \A i \in Inst : posted[i] \notin Early

EnabledAfterGo == "PP" \in enables => \A i \in Inst : posted[i] \notin Early

IInv == Types /\ HandlerLoaded /\ EarlyConfigured /\ SetupLocals /\ GoLocals /\ EnabledAfterGo

LEMMA InitIInv == Init => IInv
<1> SUFFICES ASSUME Init PROVE IInv
  OBVIOUS
<1>1. Types
  BY InitType DEF Types
<1>2. posted = [i \in Inst |-> "NONE"] /\ enables = {} /\ pc = "idle" /\ coda = "booted"
  BY DEF Init, EbInit, V7PowerOn
<1> QED BY <1>1, <1>2
        DEF IInv, HandlerLoaded, EarlyConfigured, SetupLocals, GoLocals, EnabledAfterGo, Early,
            Loaded, SetupPc, DownloadPc, PrestartPc, GoPc, EndPc

LEMMA NextIInv == ASSUME "edit" \notin Faults PROVE IInv /\ Next => IInv'
<1> SUFFICES ASSUME IInv, Next PROVE IInv'
  OBVIOUS
<1>0. Types'
  BY NextEbType, NextRolType DEF IInv, Types
<1> USE DEF HandlerLoaded, EarlyConfigured, SetupLocals, GoLocals, EnabledAfterGo, Loaded, Ready,
            SetupPc, DownloadPc, PrestartPc, GoPc, EndPc, Goto, Return, NextRound, LastRound,
            LastRoundReturn, watched
<1> DEFINE Rest == HandlerLoaded /\ EarlyConfigured /\ SetupLocals /\ GoLocals /\ EnabledAfterGo
<1>1. CASE RunControl
  <2>1. UNCHANGED watched
    BY <1>1, QuietSteps DEF RunControl, Download, Prestart, Go, End, Pause, Reset, Command
  <2>2. Rest'
    BY <1>1, <2>1 DEF IInv, RunControl, Download, Prestart, Go, End, Pause, Reset, Command
  <2> QED BY <1>0, <2>2 DEF IInv
<1>2. CASE Crash \/ DownloadV7Unmapped
  <2>1. Rest'
    BY <1>2 DEF IInv, Crash, DownloadV7Unmapped, ProcessGone, ctrlVars, histVars
  <2> QED BY <1>0, <2>1 DEF IInv
<1>3. CASE DownloadZ7
  <2>1. UNCHANGED watched
    BY <1>3, QuietSteps, OutcomeType DEF DownloadZ7
  <2>2. Rest'
    BY <1>3, <2>1 DEF IInv, DownloadZ7
  <2> QED BY <1>0, <2>2 DEF IInv
<1>4. CASE DownloadV7
  <2>1. enables' = {} /\ posted' = [i \in Inst |-> "NONE"]
    BY <1>4 DEF DownloadV7, V7CfgLoad
  <2>2. Rest'
    BY <1>4, <2>1 DEF IInv, DownloadV7, Early
  <2> QED BY <1>0, <2>2 DEF IInv
<1>5. CASE PrestartInit
  <2>1. UNCHANGED <<v7Done, enables, posted>> /\ (fwType => fwType')
    BY <1>5 DEF PrestartInit, ctrlVars, histVars
  <2>2. Rest'
    BY <1>5, <2>1 DEF IInv, PrestartInit, PrestartDone
  <2> QED BY <1>0, <2>2 DEF IInv
<1>6. CASE PrestartFile
  <2>1. UNCHANGED watched
    BY <1>6, QuietSteps DEF PrestartFile
  <2>2. Rest'
    BY <1>6, <2>1, ConfigType DEF IInv, PrestartFile, PrestartDone, Types, RolTypeOK
  <2> QED BY <1>0, <2>2 DEF IInv
<1>7. CASE PrestartEbCfg
  <2>1. /\ enables' = {"CMSG"}
        /\ posted' = [i \in Inst |-> IF i < ClampStreams(conn) THEN "CFG" ELSE "NONE"]
        /\ UNCHANGED <<v7Done, fwType>>
    BY <1>7 DEF IInv, PrestartEbCfg, SetEbCfg, Checked, IfV7, chipVars
  <2>2. ClampStreams(conn) <= conn
    BY <1>7, NumInstAssumption DEF IInv, Types, RolTypeOK, PrestartEbCfg, ClampStreams
  <2>3. \A i \in Inst : posted'[i] \in Early => i < conn
    BY <2>1, <2>2, ClampStreamsType DEF IInv, Types, RolTypeOK, Inst, Early
  <2>4. Rest'
    BY <1>7, <2>1, <2>3 DEF IInv, PrestartEbCfg
  <2> QED BY <1>0, <2>4 DEF IInv
<1>8. CASE PrestartCmsg \/ PrestartEjfat \/ PrestartAsync \/ EndAsync
  <2>1. UNCHANGED <<v7Done, fwType, posted>> /\ ("PP" \in enables' => "PP" \in enables)
    BY <1>8, EnableSteps, QuietSteps DEF PrestartCmsg, PrestartEjfat, PrestartAsync, EndAsync
  <2>2. Rest'
    BY <1>8, <2>1 DEF IInv, PrestartCmsg, PrestartEjfat, PrestartAsync, EndAsync
  <2> QED BY <1>0, <2>2 DEF IInv
<1>9. CASE PrestartReset \/ PrestartNet \/ PrestartConnect
  <2>1. UNCHANGED watched
    BY <1>9, QuietSteps DEF PrestartReset, PrestartNet, PrestartConnect
  <2>2. Rest'
    BY <1>9, <2>1 DEF IInv, Types, RolTypeOK, PrestartReset, PrestartNet, PrestartConnect
  <2> QED BY <1>0, <2>2 DEF IInv
<1>10. CASE PrestartEvent
  <2>0. EvioWriteControl(idx, "PRESTART", 0)
    BY <1>10 DEF PrestartEvent
  <2>1. /\ UNCHANGED <<v7Done, fwType, enables>>
        /\ \A i \in Inst : i # idx => posted'[i] = posted[i]
    <3>1. UNCHANGED <<v7Done, fwType, enables>>
      BY <2>0, EvioStep
    <3>2. \A i \in Inst :
             posted'[i] = IF i = idx /\ fwType /\ v7Done THEN "PRESTART" ELSE posted[i]
      BY <2>0, EvioStep DEF IInv, Types, EbTypeOK, EbTyped
    <3> QED BY <3>1, <3>2
  <2>2. Rest'
    BY <1>10, <2>1 DEF IInv, Types, RolTypeOK, PrestartEvent
  <2> QED BY <1>0, <2>2 DEF IInv
<1>11. CASE GoRead \/ EndRead \/ EndWait \/ EndFlush
  <2>1. UNCHANGED watched
    BY <1>11, QuietSteps DEF GoRead, EndRead, EndWait, EndFlush
  <2>2. Rest'
    BY <1>11, <2>1 DEF IInv, Types, RolTypeOK, GoRead, EndRead, EndWait, EndFlush, ConnAgain, Inst
  <2> QED BY <1>0, <2>2 DEF IInv
<1>12. CASE GoEvent
  <2>0. EvioWriteControl(idx, "GO", 0)
    BY <1>12 DEF GoEvent
  <2>1. /\ UNCHANGED <<v7Done, fwType, enables>>
        /\ \A i \in Inst : posted'[i] \in Early => posted[i] \in Early /\ i # idx
    <3>1. UNCHANGED <<v7Done, fwType, enables>>
      BY <2>0, EvioStep
    <3>2. \A i \in Inst :
             posted'[i] = IF i = idx /\ fwType /\ v7Done THEN "GO" ELSE posted[i]
      BY <2>0, EvioStep DEF IInv, Types, EbTypeOK, EbTyped
    <3> QED BY <3>1, <3>2, <1>12 DEF IInv, GoEvent, Early
  <2>2. Rest'
    BY <1>12, <2>1, NoConfigAssumption DEF IInv, Types, RolTypeOK, GoEvent, ConnAgain, Inst
  <2> QED BY <1>0, <2>2 DEF IInv
<1>13. CASE GoEnable
  <2>1. UNCHANGED <<v7Done, fwType, posted>>
    BY <1>13, EnableSteps DEF GoEnable
  <2>2. Rest'
    BY <1>13, <2>1 DEF IInv, GoEnable
  <2> QED BY <1>0, <2>2 DEF IInv
<1>14. CASE EndEvent
  <2>0. EvioWriteControl(idx, "END", IF idx \in Inst THEN FramesSent(idx) ELSE 0)
    BY <1>14 DEF EndEvent
  <2>1. /\ UNCHANGED <<v7Done, fwType, enables>>
        /\ \A i \in Inst : posted'[i] \in Early => posted[i] \in Early
    <3>1. UNCHANGED <<v7Done, fwType, enables>>
      BY <2>0, EvioStep
    <3>2. \A i \in Inst :
             posted'[i] = IF i = idx /\ fwType /\ v7Done THEN "END" ELSE posted[i]
      BY <2>0, EvioStep DEF IInv, Types, EbTypeOK, EbTyped
    <3> QED BY <3>1, <3>2 DEF Early
  <2>2. Rest'
    BY <1>14, <2>1 DEF IInv, EndEvent
  <2> QED BY <1>0, <2>2 DEF IInv
<1>15. CASE EndClose
  <2>1. UNCHANGED watched
    BY <1>15, QuietSteps DEF EndClose
  <2>2. Rest'
    BY <1>15, <2>1 DEF IInv, EndClose
  <2> QED BY <1>0, <2>2 DEF IInv
<1>16. CASE GenerateConfig \/ ReleaseSync \/ HoldSync
  <2>1. UNCHANGED watched
    BY <1>16, QuietSteps DEF GenerateConfig, ReleaseSync, HoldSync
  <2>2. Rest'
    BY <1>16, <2>1 DEF IInv, GenerateConfig, ReleaseSync, HoldSync, ConnAgain
  <2> QED BY <1>0, <2>2 DEF IInv
<1>17. CASE Hardware
  <2>1. UNCHANGED watched
    BY <1>17, QuietSteps DEF Hardware
  <2>2. Rest'
    BY <1>17, <2>1 DEF IInv, Hardware, rolVars, ConnAgain
  <2> QED BY <1>0, <2>2 DEF IInv
<1> QED BY <1>1, <1>2, <1>3, <1>4, <1>5, <1>6, <1>7, <1>8, <1>9, <1>10, <1>11, <1>12, <1>13,
           <1>14, <1>15, <1>16, <1>17 DEF Next, Rol

LEMMA StutterIInv == IInv /\ UNCHANGED vars => IInv'
<1> SUFFICES ASSUME IInv, UNCHANGED vars PROVE IInv'
  OBVIOUS
<1>1. Types'
  BY StutterType DEF IInv, Types
<1> QED BY <1>1 DEF IInv, vars, ebVars, rolVars, chipVars, ctrlVars, histVars, HandlerLoaded,
        EarlyConfigured, SetupLocals, GoLocals, EnabledAfterGo, Loaded, Ready, ConnAgain

\* When the configuration file is written only while the readout list is
\* downloaded, no frame is built before every configured stream has had its Go
\* event, whatever else fails (rocPrestart, rocGo, vtpStreamingEbEnable).
THEOREM FramesOnlyAfterGoCorrect == ASSUME "edit" \notin Faults PROVE Spec => []FramesOnlyAfterGo
<1>1. Init => IInv
  BY InitIInv
<1>2. IInv /\ [Next]_vars => IInv'
  BY NextIInv, StutterIInv
<1>3. IInv => FramesOnlyAfterGo
  BY DEF IInv, EnabledAfterGo, FramesOnlyAfterGo, DataEnabled, Early
<1> QED BY <1>1, <1>2, <1>3, PTL DEF Spec

-----------------------------------------------------------------------------
(* The asynchronous FIFO: no control event is thrown away, and the cMsg    *)
(* headers of events and frames agree.  These hold whatever fails: the set *)
(* Faults is arbitrary.                                                    *)

(* Where the handlers stand *)

\* A handler runs in the run-control states its transition starts from.
HandlerCoda ==
    /\ pc \in DownloadPc => coda \in {"booted", "downloaded"}
    /\ pc \in PrestartPc => coda = "downloaded"
    /\ pc \in GoPc => coda \in {"prestarted", "paused"}
    /\ pc \in EndPc => coda \in {"prestarted", "active", "paused"}

\* After vtpInit the V7 responds and has the streaming firmware.
ReadyInv == pc \in SetupPc \union {"pr_file"} => Ready

\* The loop of the sockets starts with the first.
FlushLocals == pc = "end_flush" => idx = 0

Flow == HandlerCoda /\ ReadyInv /\ FlushLocals

LEMMA InitFlow == Init => Flow
BY DEF Init, Flow, HandlerCoda, ReadyInv, FlushLocals, SetupPc, DownloadPc, PrestartPc, GoPc, EndPc

LEMMA NextFlow == ASSUME Types, Flow, Next PROVE Flow'
<1> USE DEF Flow, HandlerCoda, ReadyInv, FlushLocals, Ready, SetupPc, DownloadPc, PrestartPc, GoPc,
            EndPc, Goto, Return, NextRound, LastRound, LastRoundReturn, watched
<1>1. CASE RunControl
  <2>1. UNCHANGED watched
    BY <1>1, QuietSteps DEF RunControl, Download, Prestart, Go, End, Pause, Reset, Command
  <2> QED BY <1>1, <2>1 DEF RunControl, Download, Prestart, Go, End, Pause, Reset, Command
<1>2. CASE Crash \/ DownloadV7Unmapped
  BY <1>2 DEF Crash, DownloadV7Unmapped, ProcessGone
<1>3. CASE DownloadZ7 \/ DownloadV7
  BY <1>3 DEF DownloadZ7, DownloadV7
<1>4. CASE PrestartInit
  BY <1>4 DEF PrestartInit, PrestartDone
<1>5. CASE PrestartFile
  <2>1. UNCHANGED watched
    BY <1>5, QuietSteps DEF PrestartFile
  <2> QED BY <1>5, <2>1 DEF PrestartFile, PrestartDone
<1>6. CASE PrestartEbCfg
  BY <1>6 DEF PrestartEbCfg, SetEbCfg, Checked, IfV7, ebVars, chipVars
<1>7. CASE PrestartCmsg \/ PrestartEjfat \/ PrestartAsync \/ GoEnable \/ EndAsync
  <2>1. UNCHANGED <<v7Done, fwType>>
    BY <1>7, EnableSteps, QuietSteps
       DEF PrestartCmsg, PrestartEjfat, PrestartAsync, GoEnable, EndAsync
  <2> QED BY <1>7, <2>1 DEF PrestartCmsg, PrestartEjfat, PrestartAsync, GoEnable, EndAsync
<1>8. CASE PrestartReset \/ PrestartNet \/ PrestartConnect \/ EndClose
  <2>1. UNCHANGED watched
    BY <1>8, QuietSteps DEF PrestartReset, PrestartNet, PrestartConnect, EndClose
  <2> QED BY <1>8, <2>1 DEF PrestartReset, PrestartNet, PrestartConnect, EndClose
<1>9. CASE PrestartEvent \/ GoEvent \/ EndEvent
  <2>1. UNCHANGED <<v7Done, fwType>>
    BY <1>9, EvioStep DEF PrestartEvent, GoEvent, EndEvent
  <2> QED BY <1>9, <2>1 DEF PrestartEvent, GoEvent, EndEvent
<1>10. CASE GoRead \/ EndRead \/ EndWait \/ EndFlush
  <2>1. UNCHANGED watched
    BY <1>10, QuietSteps DEF GoRead, EndRead, EndWait, EndFlush
  <2> QED BY <1>10, <2>1 DEF GoRead, EndRead, EndWait, EndFlush
<1>11. CASE GenerateConfig \/ ReleaseSync \/ HoldSync
  <2>1. UNCHANGED watched
    BY <1>11, QuietSteps DEF GenerateConfig, ReleaseSync, HoldSync
  <2> QED BY <1>11, <2>1 DEF GenerateConfig, ReleaseSync, HoldSync
<1>12. CASE Hardware
  <2>1. UNCHANGED watched
    BY <1>12, QuietSteps DEF Hardware
  <2> QED BY <1>12, <2>1 DEF Hardware, rolVars
<1> QED BY <1>1, <1>2, <1>3, <1>4, <1>5, <1>6, <1>7, <1>8, <1>9, <1>10, <1>11, <1>12 DEF Next, Rol

LEMMA StutterFlow == ASSUME Flow, UNCHANGED vars PROVE Flow'
BY DEF Flow, HandlerCoda, ReadyInv, FlushLocals, Ready, vars, rolVars, ebVars, chipVars

-----------------------------------------------------------------------------
(* NoEventLost *)

\* What an operation of the event builder does to the FIFO: most leave it and
\* the reset alone; the rest empty it, or add to it while the reset is off.
fifoVars == <<ebReset, asyncFifo>>
FifoEmptied == asyncFifo' = <<>>
FifoKept == UNCHANGED asyncFifo /\ (ebReset' => ebReset)

LEMMA FifoQuietSteps ==
    ASSUME \/ \E ok \in BOOLEAN : Z7CfgLoad(ok)
           \/ \E udp : ResetDataPath(udp)
           \/ \E i : SetNetCfg(i)
           \/ \E i, s : BuildFrame(i, s) \/ SendFrame(i) \/ LateConnect(i) \/ DropLink(i)
           \/ UNCHANGED ebVars
    PROVE  UNCHANGED fifoVars
<1> USE DEF fifoVars, ebVars, ctrlVars
<1>1. CASE \E ok \in BOOLEAN : Z7CfgLoad(ok)
  BY <1>1 DEF Z7CfgLoad
<1>2. CASE \E udp : ResetDataPath(udp)
  BY <1>2 DEF ResetDataPath, IfV7
<1>3. CASE \E i : SetNetCfg(i)
  BY <1>3 DEF SetNetCfg
<1>4. CASE \E i, s : BuildFrame(i, s) \/ SendFrame(i) \/ LateConnect(i) \/ DropLink(i)
  BY <1>4 DEF BuildFrame, SendFrame, LateConnect, DropLink
<1>5. CASE UNCHANGED ebVars
  BY <1>5
<1> QED BY <1>1, <1>2, <1>3, <1>4, <1>5

LEMMA FifoSteps ==
    /\ \A ok : V7CfgLoad(ok) => FifoEmptied
    /\ \A mask, n, stream : SetEbCfg(mask, n, stream) => FifoEmptied \/ UNCHANGED fifoVars
    /\ \A bits : EbEnable(bits) => FifoKept
    /\ \A bits : EbDisable(bits) => FifoEmptied \/ UNCHANGED fifoVars
    /\ \A i, up : TcpConnect(i, up) => FifoEmptied \/ UNCHANGED fifoVars
    /\ \A i : TcpDisconnect(i) =>
          IF fwType /\ i \in Inst THEN FifoEmptied ELSE UNCHANGED <<fifoVars, link>>
BY DEF fifoVars, FifoEmptied, FifoKept, V7CfgLoad, SetEbCfg, Checked, IfV7, EbEnable, EbDisable,
       TcpConnect, TcpDisconnect, ebVars, ctrlVars, netVars

\* A control event is added at the tail, or finds the reset on.
LEMMA FifoEvioStep ==
    ASSUME Types, ebReset => asyncFifo = <<>>,
           NEW i, NEW type, NEW count, EvioWriteControl(i, type, count)
    PROVE  /\ UNCHANGED <<ebReset, link>>
           /\ ~fwType => UNCHANGED asyncFifo
           /\ \/ UNCHANGED asyncFifo
              \/ /\ ~ebReset /\ i \in Inst
                 /\ asyncFifo' = Append(asyncFifo, [inst |-> i, type |-> type, cmsg |-> ~udpRx])
BY DEF EvioWriteControl, IfV7, ebVars, ctrlVars, netVars

LEMMA FifoSendStep ==
    ASSUME Types, SendAsync
    PROVE  /\ UNCHANGED <<ebReset, link>> /\ ~ebReset
           /\ asyncFifo # <<>> /\ asyncFifo' = Tail(asyncFifo)
           /\ link[Head(asyncFifo).inst]
BY DEF SendAsync, ctrlVars, netVars

\* The FIFO is empty wherever rocPrestart or a new configuration resets the
\* event builder, and after the first socket of rocEnd is closed.  Without the
\* firmware type no event was written.  The wait of rocEnd leaves at most
\* events of a connection that is down; where connections stand, that lasts.
SetupStart == {"idle"} \union (PrestartPc \ {"pr_event"})

FifoInv ==
    /\ ebReset => asyncFifo = <<>>
    /\ Loaded /\ ~fwType => asyncFifo = <<>>
    /\ coda = "downloaded" /\ pc \in SetupStart => asyncFifo = <<>>
    /\ pc = "end_close" /\ idx > 0 => asyncFifo = <<>>
    /\ pc = "end_close" /\ "link" \notin Faults /\ asyncFifo # <<>> =>
          ~link[Head(asyncFifo).inst]

LEMMA InitFifo == Init => FifoInv
BY DEF Init, EbInit, V7PowerOn, FifoInv, SetupStart, PrestartPc

LEMMA NextFifo == ASSUME Types, Flow, FifoInv, Next PROVE FifoInv'
<1> USE DEF Flow, HandlerCoda, FlushLocals, FifoInv, SetupStart, Loaded, SetupPc, DownloadPc,
            PrestartPc, GoPc, EndPc, Goto, Return, NextRound, LastRound, LastRoundReturn, fifoVars
<1>1. CASE RunControl
  <2>1. UNCHANGED <<fifoVars, fwType, link>>
    BY <1>1 DEF RunControl, Download, Prestart, Go, End, Pause, Reset, Command, ebVars, chipVars,
                ctrlVars, netVars
  <2> QED BY <1>1, <2>1 DEF RunControl, Download, Prestart, Go, End, Pause, Reset, Command
<1>2. CASE Crash \/ DownloadV7Unmapped
  BY <1>2 DEF Crash, DownloadV7Unmapped, ProcessGone, ctrlVars
<1>3. CASE DownloadZ7
  <2>1. UNCHANGED <<fifoVars, fwType>>
    BY <1>3, FifoQuietSteps, OutcomeType, QuietSteps DEF DownloadZ7, watched
  <2> QED BY <1>3, <2>1 DEF DownloadZ7
<1>4. CASE DownloadV7
  BY <1>4, FifoSteps DEF DownloadV7, FifoEmptied
<1>5. CASE PrestartInit
  <2>1. UNCHANGED <<fifoVars, link>> /\ (fwType => fwType')
    BY <1>5 DEF PrestartInit, ctrlVars, netVars
  <2> QED BY <1>5, <2>1 DEF PrestartInit, PrestartDone
<1>6. CASE PrestartFile \/ PrestartReset \/ PrestartNet
  <2>1. UNCHANGED <<fifoVars, fwType>>
    BY <1>6, FifoQuietSteps, QuietSteps DEF PrestartFile, PrestartReset, PrestartNet, watched
  <2> QED BY <1>6, <2>1 DEF PrestartFile, PrestartDone, PrestartReset, PrestartNet
<1>7. CASE PrestartEbCfg
  <2>1. FifoEmptied \/ UNCHANGED fifoVars
    BY <1>7, FifoSteps DEF PrestartEbCfg
  <2> QED BY <1>7, <2>1 DEF PrestartEbCfg, FifoEmptied
<1>8. CASE PrestartCmsg \/ PrestartEjfat \/ PrestartAsync
  <2>1. FifoEmptied \/ FifoKept
    BY <1>8, FifoSteps, FifoQuietSteps DEF PrestartCmsg, PrestartEjfat, PrestartAsync, FifoKept
  <2>2. UNCHANGED fwType
    BY <1>8, EnableSteps, QuietSteps DEF PrestartCmsg, PrestartEjfat, PrestartAsync, watched
  <2> QED BY <1>8, <2>1, <2>2
          DEF PrestartCmsg, PrestartEjfat, PrestartAsync, FifoEmptied, FifoKept
<1>9. CASE PrestartConnect
  <2>1. FifoEmptied \/ UNCHANGED fifoVars
    BY <1>9, FifoSteps DEF PrestartConnect
  <2>2. UNCHANGED fwType
    BY <1>9, QuietSteps DEF PrestartConnect, watched
  <2> QED BY <1>9, <2>1, <2>2 DEF PrestartConnect, FifoEmptied
<1>10. CASE PrestartEvent \/ GoEvent \/ EndEvent
  <2>1. PICK i, type, count : EvioWriteControl(i, type, count)
    BY <1>10 DEF PrestartEvent, GoEvent, EndEvent
  <2>2. /\ UNCHANGED <<ebReset, link, fwType>>
        /\ ~fwType => UNCHANGED asyncFifo
        /\ ebReset => UNCHANGED asyncFifo
    BY <2>1, FifoEvioStep, EvioStep
  <2> QED BY <1>10, <2>2 DEF PrestartEvent, GoEvent, EndEvent
<1>11. CASE GoRead \/ EndRead \/ EndWait
  <2>1. UNCHANGED <<fifoVars, fwType>>
    BY <1>11, FifoQuietSteps, QuietSteps DEF GoRead, EndRead, EndWait, watched
  <2> QED BY <1>11, <2>1 DEF GoRead, EndRead, EndWait
<1>12. CASE GoEnable \/ EndAsync
  <2>1. FifoKept /\ UNCHANGED fwType
    BY <1>12, FifoSteps, EnableSteps DEF GoEnable, EndAsync
  <2> QED BY <1>12, <2>1 DEF GoEnable, EndAsync, FifoKept
<1>13. CASE EndFlush
  BY <1>13 DEF EndFlush, ebVars, ctrlVars, chipVars, netVars
<1>14. CASE EndClose
  <2>0. TcpDisconnect(idx)
    BY <1>14 DEF EndClose
  <2>1. UNCHANGED fwType
    BY <2>0, QuietSteps DEF watched
  <2>2. CASE fwType /\ idx \in Inst
    BY <1>14, <2>0, <2>1, <2>2, FifoSteps DEF EndClose, FifoEmptied
  <2>3. CASE ~(fwType /\ idx \in Inst)
    <3>1. UNCHANGED <<fifoVars, link>>
      BY <2>0, <2>3, FifoSteps
    <3>2. asyncFifo = <<>>
      BY <1>14, <2>3, NumInstAssumption DEF EndClose, Inst, Types, RolTypeOK
    <3> QED BY <1>14, <2>1, <3>1, <3>2 DEF EndClose
  <2> QED BY <2>2, <2>3
<1>15. CASE GenerateConfig \/ ReleaseSync \/ HoldSync
  <2>1. UNCHANGED <<fifoVars, fwType, link>>
    BY <1>15 DEF GenerateConfig, ReleaseSync, HoldSync, ebVars, ctrlVars, chipVars, netVars
  <2> QED BY <1>15, <2>1 DEF GenerateConfig, ReleaseSync, HoldSync
<1>16. CASE Hardware
  <2>1. UNCHANGED fwType /\ UNCHANGED <<coda, pc, idx>>
    BY <1>16, QuietSteps DEF Hardware, watched, rolVars
  <2>2. CASE SendAsync
    BY <2>1, <2>2, FifoSendStep DEF Types, EbTypeOK, EbTyped
  <2>3. CASE \E i \in Inst : BuildFrame(i, sync) \/ SendFrame(i)
    <3>1. UNCHANGED <<fifoVars, link>>
      BY <2>3, FifoQuietSteps DEF BuildFrame, SendFrame, netVars
    <3> QED BY <2>1, <3>1
  <2>4. CASE "link" \in Faults /\ \E i \in Inst : LateConnect(i) \/ DropLink(i)
    <3>1. UNCHANGED fifoVars
      BY <2>4, FifoQuietSteps
    <3> QED BY <2>1, <2>4, <3>1
  <2> QED BY <1>16, <2>2, <2>3, <2>4 DEF Hardware
<1> QED BY <1>1, <1>2, <1>3, <1>4, <1>5, <1>6, <1>7, <1>8, <1>9, <1>10, <1>11, <1>12, <1>13,
           <1>14, <1>15, <1>16 DEF Next, Rol

LEMMA StutterFifo == ASSUME FifoInv, UNCHANGED vars PROVE FifoInv'
BY DEF FifoInv, SetupStart, Loaded, vars, rolVars, ebVars, chipVars, ctrlVars, netVars

\* The step NoEventLost allows.
NoLoss ==
    asyncFifo # <<>> =>
        \/ pc = "dl_v7"
        \/ "link" \in Faults /\ pc = "end_close"
        \/ ~link[Head(asyncFifo).inst]
        \/ Len(asyncFifo') >= Len(asyncFifo)
        \/ SendAsync

LEMMA KeptNoLoss == ASSUME Types, UNCHANGED asyncFifo PROVE NoLoss
BY DEF NoLoss, Types, EbTypeOK, EbTyped

LEMMA NextNoLoss == ASSUME Types, Flow, FifoInv, Next PROVE NoLoss
<1>1. CASE RunControl \/ Crash \/ DownloadV7Unmapped
  BY <1>1, KeptNoLoss
     DEF RunControl, Download, Prestart, Go, End, Pause, Reset, Command, ebVars, Crash,
         DownloadV7Unmapped, ProcessGone
<1>2. CASE DownloadV7
  BY <1>2 DEF DownloadV7, NoLoss
<1>3. CASE DownloadZ7 \/ PrestartInit \/ PrestartFile \/ PrestartReset \/ PrestartNet
  BY <1>3, KeptNoLoss, FifoQuietSteps, OutcomeType
     DEF DownloadZ7, PrestartInit, PrestartFile, PrestartReset, PrestartNet, fifoVars
<1>4. CASE PrestartEbCfg \/ PrestartCmsg \/ PrestartEjfat \/ PrestartAsync \/ PrestartConnect
  <2>1. pc \in PrestartPc \ {"pr_event"}
    BY <1>4 DEF PrestartEbCfg, PrestartCmsg, PrestartEjfat, PrestartAsync, PrestartConnect, Goto,
                PrestartPc
  <2> QED BY <2>1 DEF Flow, HandlerCoda, FifoInv, SetupStart, NoLoss
<1>5. CASE PrestartEvent \/ GoEvent \/ EndEvent
  <2>1. PICK i, type, count : type \in Control /\ EvioWriteControl(i, type, count)
    BY <1>5 DEF PrestartEvent, GoEvent, EndEvent, Control
  <2>2. CASE UNCHANGED asyncFifo
    BY <2>2, KeptNoLoss
  <2>3. CASE i \in Inst
            /\ asyncFifo' = Append(asyncFifo, [inst |-> i, type |-> type, cmsg |-> ~udpRx])
    <3>1. Len(asyncFifo') = Len(asyncFifo) + 1 /\ Len(asyncFifo) \in Nat
      BY <2>3 DEF Types, EbTypeOK, EbTyped
    <3> QED BY <3>1 DEF NoLoss
  <2> QED BY <2>1, <2>2, <2>3, FifoEvioStep DEF FifoInv
<1>6. CASE GoRead \/ EndRead \/ EndWait \/ EndFlush \/ GenerateConfig \/ ReleaseSync \/ HoldSync
  BY <1>6, KeptNoLoss
     DEF GoRead, EndRead, EndWait, EndFlush, GenerateConfig, ReleaseSync, HoldSync, ebVars
<1>7. CASE GoEnable \/ EndAsync
  BY <1>7, KeptNoLoss, FifoSteps DEF GoEnable, EndAsync, FifoKept
<1>8. CASE EndClose
  BY <1>8 DEF EndClose, FifoInv, NoLoss
<1>9. CASE Hardware
  <2>1. CASE SendAsync
    BY <2>1 DEF NoLoss
  <2>2. CASE \E i, s : BuildFrame(i, s) \/ SendFrame(i) \/ LateConnect(i) \/ DropLink(i)
    BY <2>2, KeptNoLoss, FifoQuietSteps DEF fifoVars
  <2> QED BY <1>9, <2>1, <2>2 DEF Hardware
<1> QED BY <1>1, <1>2, <1>3, <1>4, <1>5, <1>6, <1>7, <1>8, <1>9 DEF Next, Rol

\* Whatever fails, a control event leaves the asynchronous FIFO by being sent,
\* because its connection is down, with a new V7 configuration, or, where
\* connections may fail, with the close of its socket: no EbDisable,
\* TcpConnect or SetEbCfg of rocPrestart throws one away.
THEOREM NoEventLostCorrect == Spec => NoEventLost
<1>1. Init => Types /\ Flow /\ FifoInv
  BY InitType, InitFlow, InitFifo DEF Types
<1>2. Types /\ Flow /\ FifoInv /\ [Next]_vars => (Types /\ Flow /\ FifoInv)'
  BY NextEbType, NextRolType, NextFlow, NextFifo, StutterType, StutterFlow, StutterFifo DEF Types
<1>3. Types /\ Flow /\ FifoInv /\ [Next]_vars => [NoLoss]_vars
  BY NextNoLoss
<1>4. Spec => [][NoLoss]_vars
  BY <1>1, <1>2, <1>3, PTL DEF Spec
<1> QED BY <1>4 DEF NoEventLost, NoLoss

-----------------------------------------------------------------------------
(* HeaderModesAgree *)

\* The two mode bits agree, or no stream is configured.
ModesAgree == nstreams = 0 \/ (udpRx <=> "CMSG" \notin enables)

\* From vtpStreamingSetEbCfg until vtpStreamingEbioReset has set the other bit.
SetupModes == {"pr_cmsg", "pr_ejfat", "pr_async", "pr_reset"}
NoneTold == \A i \in Inst : i < nstreams => posted[i] \notin Control
NoneOpen == \A i \in Inst : ~link[i] /\ ~request[i]

WaitingAgree ==
    \A k \in DOMAIN asyncFifo : asyncFifo[k].inst < nstreams =>
        (asyncFifo[k].cmsg <=> "CMSG" \in enables)

HeaderInv ==
    /\ WaitingAgree
    /\ Loaded /\ pc \notin SetupModes => ModesAgree
    /\ pc = "pr_cmsg" => "CMSG" \in enables
    /\ pc \in SetupModes \ {"pr_cmsg"} => ("CMSG" \notin enables <=> par.udp)
    /\ pc \in SetupModes => NoneTold
    /\ ModesAgree \/ NoneTold \/ NoneOpen

modeVars == <<udpRx, enables, nstreams>>
wireVars == <<posted, link, request>>

LEMMA HeaderKept ==
    ASSUME HeaderInv, UNCHANGED <<modeVars, wireVars>>, WaitingAgree',
           Loaded' => Loaded, pc' \in SetupModes => pc' = pc, UNCHANGED par,
           pc \in SetupModes => pc' \in SetupModes \/ ~Loaded'
    PROVE  HeaderInv'
BY DEF HeaderInv, ModesAgree, NoneTold, NoneOpen, modeVars, wireVars, SetupModes

LEMMA WaitingKept ==
    ASSUME WaitingAgree, UNCHANGED <<nstreams, enables, asyncFifo>> PROVE WaitingAgree'
BY DEF WaitingAgree

LEMMA WaitingEmptied == ASSUME FifoEmptied PROVE WaitingAgree'
BY DEF WaitingAgree, FifoEmptied

LEMMA WaitingAdded ==
    ASSUME Types, ModesAgree, WaitingAgree, UNCHANGED <<nstreams, enables>>,
           NEW i \in Inst, NEW type \in Control,
           asyncFifo' = Append(asyncFifo, [inst |-> i, type |-> type, cmsg |-> ~udpRx])
    PROVE  WaitingAgree'
<1> DEFINE event == [inst |-> i, type |-> type, cmsg |-> ~udpRx]
<1>1. event \in AsyncEvent /\ asyncFifo \in Seq(AsyncEvent) /\ nstreams \in Nat
  BY NumInstAssumption DEF AsyncEvent, EventOf, Types, EbTypeOK, EbTyped
<1>2. event.inst = i /\ event.cmsg = ~udpRx
  OBVIOUS
<1> HIDE DEF event
<1>3. asyncFifo' = Append(asyncFifo, event)
  BY DEF event
<1> SUFFICES ASSUME NEW k \in DOMAIN asyncFifo', asyncFifo'[k].inst < nstreams
             PROVE  asyncFifo'[k].cmsg <=> "CMSG" \in enables
  BY DEF WaitingAgree
<1>4. CASE k \in DOMAIN asyncFifo
  <2>1. asyncFifo'[k] = asyncFifo[k]
    BY <1>1, <1>3, <1>4
  <2> QED BY <1>4, <2>1 DEF WaitingAgree
<1>5. CASE k \notin DOMAIN asyncFifo
  <2>1. asyncFifo'[k] = event
    BY <1>1, <1>3, <1>5
  <2>2. i < nstreams
    BY <1>2, <2>1
  <2>3. nstreams # 0
    BY <1>1, <2>2 DEF Inst
  <2> QED BY <1>2, <2>1, <2>3 DEF ModesAgree, Types, EbTypeOK, EbTyped
<1> QED BY <1>4, <1>5

LEMMA WaitingSent == ASSUME Types, WaitingAgree, SendAsync PROVE WaitingAgree'
<1>1. /\ asyncFifo \in Seq(AsyncEvent) /\ asyncFifo # <<>>
      /\ asyncFifo' = Tail(asyncFifo)
      /\ UNCHANGED <<nstreams, enables>>
  BY DEF AsyncEvent, SendAsync, Types, EbTypeOK, EbTyped, ctrlVars
<1>2. \A k \in DOMAIN asyncFifo' : k + 1 \in DOMAIN asyncFifo /\ asyncFifo'[k] = asyncFifo[k + 1]
  BY <1>1
<1> QED BY <1>1, <1>2 DEF WaitingAgree

\* A control event: its stream has been told, and the flag it carries is the
\* mode of the data path.
LEMMA HeaderEvio ==
    ASSUME Types, HeaderInv, FifoInv, Loaded, pc \notin SetupModes,
           NEW i, NEW type \in Control, NEW count, EvioWriteControl(i, type, count)
    PROVE  UNCHANGED modeVars /\ ModesAgree' /\ WaitingAgree'
<1>1. ModesAgree
  BY DEF HeaderInv
<1>2. UNCHANGED modeVars
  BY DEF EvioWriteControl, IfV7, modeVars, ebVars, ctrlVars, netVars
<1>3. WaitingAgree'
  <2>1. CASE UNCHANGED asyncFifo
    BY <2>1, <1>2, WaitingKept DEF HeaderInv, modeVars
  <2>2. CASE i \in Inst
             /\ asyncFifo' = Append(asyncFifo, [inst |-> i, type |-> type, cmsg |-> ~udpRx])
    BY <2>2, <1>1, <1>2, WaitingAdded DEF HeaderInv, modeVars
  <2> QED BY <2>1, <2>2, FifoEvioStep DEF FifoInv
<1> QED BY <1>1, <1>2, <1>3 DEF ModesAgree, modeVars

LEMMA NextHeader == ASSUME Types, Flow, FifoInv, HeaderInv, Next PROVE HeaderInv'
<1> USE DEF Flow, HandlerCoda, ReadyInv, Ready, Loaded, SetupPc, DownloadPc, PrestartPc, GoPc,
            EndPc, Goto, Return, NextRound, LastRound, LastRoundReturn, SetupModes
<1>1. CASE RunControl \/ GenerateConfig \/ ReleaseSync \/ HoldSync
  <2>1. UNCHANGED ebVars
    BY <1>1 DEF RunControl, Download, Prestart, Go, End, Pause, Reset, Command,
                GenerateConfig, ReleaseSync, HoldSync
  <2>2. UNCHANGED <<modeVars, wireVars>> /\ WaitingAgree'
    BY <2>1, WaitingKept DEF HeaderInv, ebVars, ctrlVars, netVars, histVars, modeVars, wireVars
  <2>3. UNCHANGED par
    BY <1>1 DEF RunControl, Download, Prestart, Go, End, Pause, Reset, Command,
                GenerateConfig, ReleaseSync, HoldSync
  <2>4. /\ Loaded' => Loaded
        /\ pc' \in SetupModes => pc' = pc
        /\ pc \in SetupModes => pc' \in SetupModes \/ ~Loaded'
    BY <1>1 DEF RunControl, Download, Prestart, Go, End, Pause, Reset, Command,
                GenerateConfig, ReleaseSync, HoldSync
  <2> QED BY <2>2, <2>3, <2>4, HeaderKept
<1>2. CASE Crash \/ DownloadV7Unmapped
  <2>1. UNCHANGED <<modeVars, wireVars, asyncFifo>> /\ coda' = "booted" /\ pc' = "idle"
    BY <1>2 DEF Crash, DownloadV7Unmapped, ProcessGone, ctrlVars, netVars, histVars, modeVars,
                wireVars
  <2>2. WaitingAgree'
    BY <2>1, WaitingKept DEF HeaderInv, modeVars
  <2> QED BY <2>1, <2>2 DEF HeaderInv, ModesAgree, NoneTold, NoneOpen, modeVars, wireVars
<1>3. CASE DownloadZ7
  <2>1. PICK ok \in BOOLEAN : Z7CfgLoad(ok)
    BY <1>3, OutcomeType DEF DownloadZ7
  <2>2. UNCHANGED <<nstreams, enables, asyncFifo, posted>>
    BY <2>1 DEF Z7CfgLoad, ebVars, ctrlVars, histVars
  <2>3. WaitingAgree'
    BY <2>2, WaitingKept DEF HeaderInv
  <2>4. (ModesAgree \/ NoneTold \/ NoneOpen)'
    <3>1. CASE ok
      BY <2>1, <3>1 DEF Z7CfgLoad, NoneOpen
    <3>2. CASE ~ok
      BY <2>1, <3>2
         DEF Z7CfgLoad, ebVars, ctrlVars, netVars, histVars, HeaderInv, ModesAgree, NoneTold, NoneOpen
    <3> QED BY <3>1, <3>2
  <2> QED BY <1>3, <2>3, <2>4 DEF DownloadZ7, HeaderInv
<1>4. CASE DownloadV7
  <2>1. nstreams' = 0 /\ FifoEmptied
    BY <1>4 DEF DownloadV7, V7CfgLoad, FifoEmptied
  <2> QED BY <1>4, <2>1, WaitingEmptied DEF DownloadV7, HeaderInv, ModesAgree
<1>5. CASE PrestartInit \/ PrestartFile \/ PrestartNet
  <2>1. UNCHANGED modeVars /\ ModesAgree
    BY <1>5 DEF PrestartInit, PrestartFile, PrestartNet, SetNetCfg, ebVars, ctrlVars, netVars,
                modeVars, HeaderInv
  <2>2. UNCHANGED asyncFifo /\ pc' \notin SetupModes
    BY <1>5 DEF PrestartInit, PrestartFile, PrestartNet, PrestartDone, SetNetCfg, ebVars
  <2> QED BY <2>1, <2>2, WaitingKept DEF HeaderInv, ModesAgree, modeVars
<1>6. CASE PrestartEbCfg
  <2>1. /\ FifoEmptied
        /\ enables' = {"CMSG"}
        /\ nstreams' = ClampStreams(conn)
        /\ posted' = [i \in Inst |-> IF i < ClampStreams(conn) THEN "CFG" ELSE "NONE"]
    BY <1>6 DEF PrestartEbCfg, SetEbCfg, Checked, IfV7, FifoEmptied
  <2>2. NoneTold'
    BY <2>1 DEF NoneTold, Control
  <2> QED BY <1>6, <2>1, <2>2, WaitingEmptied DEF PrestartEbCfg, HeaderInv
<1>7. CASE PrestartCmsg
  <2>1. UNCHANGED <<udpRx, nstreams, posted>>
    BY <1>7 DEF PrestartCmsg, EbDisable, IfV7, ebVars, ctrlVars, netVars, histVars
  <2>2. WaitingAgree' /\ ("CMSG" \notin enables' <=> par.udp)
    <3>1. CASE par.udp
      BY <1>7, <3>1, WaitingEmptied DEF PrestartCmsg, EbDisable, IfV7, FifoEmptied
    <3>2. CASE ~par.udp
      BY <1>7, <3>2, WaitingKept DEF PrestartCmsg, ebVars, ctrlVars, HeaderInv
    <3> QED BY <3>1, <3>2
  <2> QED BY <1>7, <2>1, <2>2 DEF PrestartCmsg, HeaderInv, NoneTold
<1>8. CASE PrestartEjfat \/ PrestartAsync
  <2>1. UNCHANGED <<udpRx, nstreams, posted, asyncFifo>> /\ ("CMSG" \in enables' <=> "CMSG" \in enables)
    BY <1>8 DEF PrestartEjfat, PrestartAsync, EbEnable, IfV7, ebVars, ctrlVars, netVars, histVars
  <2>2. WaitingAgree'
    BY <2>1 DEF WaitingAgree, HeaderInv
  <2> QED BY <1>8, <2>1, <2>2 DEF PrestartEjfat, PrestartAsync, HeaderInv, NoneTold
<1>9. CASE PrestartReset
  <2>1. UNCHANGED <<enables, nstreams, asyncFifo>> /\ udpRx' = par.udp
    BY <1>9 DEF PrestartReset, ResetDataPath, IfV7, ctrlVars
  <2>2. ModesAgree'
    BY <1>9, <2>1 DEF PrestartReset, ModesAgree, HeaderInv
  <2> QED BY <1>9, <2>1, <2>2, WaitingKept DEF PrestartReset, HeaderInv
<1>10. CASE PrestartConnect
  <2>1. PICK up : TcpConnect(idx, up)
    BY <1>10 DEF PrestartConnect
  <2>2. UNCHANGED modeVars /\ (FifoEmptied \/ UNCHANGED asyncFifo)
    BY <2>1 DEF TcpConnect, ebVars, ctrlVars, netVars, modeVars, FifoEmptied
  <2>3. WaitingAgree'
    BY <2>2, WaitingKept, WaitingEmptied DEF HeaderInv, modeVars
  <2> QED BY <1>10, <2>2, <2>3 DEF PrestartConnect, HeaderInv, ModesAgree, modeVars
<1>11. CASE PrestartEvent \/ GoEvent \/ EndEvent
  <2>1. PICK i, type, count : type \in Control /\ EvioWriteControl(i, type, count)
    BY <1>11 DEF PrestartEvent, GoEvent, EndEvent, Control
  <2>2. Loaded /\ pc \notin SetupModes
    BY <1>11 DEF PrestartEvent, GoEvent, EndEvent
  <2>3. UNCHANGED modeVars /\ ModesAgree' /\ WaitingAgree'
    BY <2>1, <2>2, HeaderEvio
  <2>4. pc' \notin SetupModes
    BY <1>11 DEF PrestartEvent, GoEvent, EndEvent
  <2> QED BY <2>3, <2>4 DEF HeaderInv
<1>12. CASE GoRead \/ EndRead \/ EndWait \/ EndFlush \/ GoEnable \/ EndAsync
  <2>1. UNCHANGED <<udpRx, nstreams, asyncFifo>> /\ ("CMSG" \in enables' <=> "CMSG" \in enables)
    BY <1>12 DEF GoRead, EndRead, EndWait, EndFlush, GoEnable, EndAsync, EbEnable, IfV7, ebVars,
                 ctrlVars, netVars
  <2>2. WaitingAgree'
    BY <2>1 DEF WaitingAgree, HeaderInv
  <2>3. ModesAgree' /\ pc' \notin SetupModes
    BY <1>12, <2>1 DEF GoRead, EndRead, EndWait, EndFlush, GoEnable, EndAsync, HeaderInv, ModesAgree
  <2> QED BY <2>2, <2>3 DEF HeaderInv
<1>13. CASE EndClose
  <2>1. UNCHANGED modeVars /\ (FifoEmptied \/ UNCHANGED asyncFifo)
    BY <1>13 DEF EndClose, TcpDisconnect, ebVars, ctrlVars, netVars, modeVars, FifoEmptied
  <2>2. WaitingAgree'
    BY <2>1, WaitingKept, WaitingEmptied DEF HeaderInv, modeVars
  <2>3. ModesAgree' /\ pc' \notin SetupModes
    BY <1>13, <2>1 DEF EndClose, HeaderInv, ModesAgree, modeVars
  <2> QED BY <2>2, <2>3 DEF HeaderInv
<1>14. CASE Hardware
  <2>1. UNCHANGED rolVars
    BY <1>14 DEF Hardware
  <2>2. UNCHANGED <<modeVars, posted, request>> /\ WaitingAgree'
    BY <1>14, WaitingKept, WaitingSent
       DEF Hardware, SendAsync, BuildFrame, SendFrame, LateConnect, DropLink, modeVars, ctrlVars,
           netVars, histVars, HeaderInv
  <2>3. NoneOpen => NoneOpen'
    BY <1>14 DEF Hardware, SendAsync, BuildFrame, SendFrame, LateConnect, DropLink, NoneOpen, netVars
  <2> QED BY <2>1, <2>2, <2>3 DEF rolVars, HeaderInv, ModesAgree, NoneTold, modeVars
<1> QED BY <1>1, <1>2, <1>3, <1>4, <1>5, <1>6, <1>7, <1>8, <1>9, <1>10, <1>11, <1>12, <1>13,
           <1>14 DEF Next, Rol

LEMMA StutterHeader == ASSUME HeaderInv, UNCHANGED vars PROVE HeaderInv'
BY DEF HeaderInv, WaitingAgree, ModesAgree, NoneTold, NoneOpen, Loaded, vars, rolVars, ebVars,
       ctrlVars, netVars, histVars

LEMMA InitHeader == Init => HeaderInv
BY DEF Init, EbInit, V7PowerOn, HeaderInv, WaitingAgree, ModesAgree, Loaded, SetupModes

\* Whatever fails, the mode bit of the Z7 (vtpStreamingEbioReset) and the one
\* of the V7 (vtpStreamingEbDisable in rocPrestart) agree on cMsg headers, on
\* every open connection of the configuration that has had a control event and
\* in every event that waits for one.
THEOREM HeaderModesAgreeCorrect == Spec => []HeaderModesAgree
<1> DEFINE Inv == Types /\ Flow /\ FifoInv /\ HeaderInv
<1>1. Init => Inv
  BY InitType, InitFlow, InitFifo, InitHeader DEF Types
<1>2. Inv /\ [Next]_vars => Inv'
  <2>1. Inv /\ Next => Inv'
    BY NextEbType, NextRolType, NextFlow, NextFifo, NextHeader DEF Types
  <2>2. Inv /\ UNCHANGED vars => Inv'
    BY StutterType, StutterFlow, StutterFifo, StutterHeader DEF Types
  <2> QED BY <2>1, <2>2
<1>3. Inv => HeaderModesAgree
  BY NumInstAssumption
     DEF HeaderInv, WaitingAgree, ModesAgree, NoneTold, NoneOpen, HeaderModesAgree, Types, EbTypeOK, EbTyped, Inst
<1> QED BY <1>1, <1>2, <1>3, PTL DEF Spec
=============================================================================
