--------------------------- MODULE StreamRun_proofs ---------------------------
(***************************************************************************)
(* Proofs about a run of StreamRol from Prestart to End: the streams agree *)
(* on the last event, End carries the final frame count, rocEnd closes     *)
(* what rocPrestart opened, and the receiver sees what RunStream promises. *)
(* Each names the faults it excludes; the runs show that it needs to.      *)
(***************************************************************************)
EXTENDS StreamRol_proofs

-----------------------------------------------------------------------------
(* StreamsAgree *)

AgreeFrom(n) ==
    \A i, j \in Inst : n <= i /\ n <= j /\ posted[i] # "NONE" /\ posted[j] # "NONE"
        => posted[i] = posted[j]
Told(n, type) == \A i \in Inst : i < n => posted[i] = type

\* The loop over the streams: those before idx have the new event, and the
\* rest still agree on the last.
TellingInv(type) == AgreeFrom(idx) /\ Told(idx, type)

\* Only streams of the file have events, and rocGo and rocEnd count them all.
AgreeInv ==
    /\ Loaded => \A i \in Inst : posted[i] # "NONE" => i < ConnAgain
    /\ Loaded /\ pc \notin {"pr_event", "go_event", "end_event"} => AgreeFrom(0)
    /\ pc = "pr_event" => TellingInv("PRESTART")
    /\ pc = "go_event" => IF Ready THEN TellingInv("GO") ELSE AgreeFrom(0)
    /\ pc = "end_event" => IF Ready THEN TellingInv("END") ELSE AgreeFrom(0)
    /\ pc \in EndPc \ {"end_read"} => conn = ConnAgain
    /\ pc \in {"go_event", "end_event"} => idx < conn

LEMMA ConnAgainType == ASSUME Types PROVE ConnAgain \in Nat \ {0}
BY ConfigType DEF Types, RolTypeOK, ConnAgain

\* What a round of the loop leaves: one stream more has the new event, and the
\* streams after the last round are none.
TellStep(type, n, last) ==
    /\ \A i \in Inst : i < n + 1 => posted'[i] = type
    /\ \A i, j \in Inst : n + 1 <= i /\ n + 1 <= j /\ posted'[i] # "NONE" /\ posted'[j] # "NONE"
          => posted'[i] = posted'[j]
    /\ \A i \in Inst : posted'[i] # "NONE" => i < last
    /\ n + 1 >= last => \A i, j \in Inst : posted'[i] # "NONE" /\ posted'[j] # "NONE"
          => posted'[i] = posted'[j]

LEMMA TellOne ==
    ASSUME Types, Ready, NEW type \in Control, NEW count, TellingInv(type),
           EvioWriteControl(idx, type, count), NEW last \in Nat, idx < last,
           \A i \in Inst : posted[i] # "NONE" => i < last
    PROVE  TellStep(type, idx, last)
<1>1. \A j \in Inst : posted'[j] = IF j = idx THEN type ELSE posted[j]
  <2>1. posted \in [Inst -> Posted] /\ fwType /\ v7Done
    BY DEF Types, EbTypeOK, EbTyped, Ready
  <2> QED BY <2>1, EvioStep
<1>2. \A i \in Inst : i \in Nat
  BY DEF Inst
<1>3. idx \in Nat
  BY DEF Types, RolTypeOK
<1>4. /\ \A i \in Inst : i < idx + 1 => posted'[i] = type
      /\ \A i \in Inst : posted'[i] # "NONE" => i < last
  BY <1>1, <1>2, <1>3 DEF TellingInv, Told
<1>5. \A i, j \in Inst : idx + 1 <= i /\ idx + 1 <= j /\ posted'[i] # "NONE" /\ posted'[j] # "NONE"
          => posted'[i] = posted'[j]
  BY <1>1, <1>2, <1>3 DEF TellingInv, AgreeFrom
<1>6. idx + 1 >= last => \A i \in Inst : posted'[i] # "NONE" => posted'[i] = type
  BY <1>2, <1>3, <1>4
<1> QED BY <1>4, <1>5, <1>6 DEF TellStep

LEMMA AgreeKept ==
    ASSUME UNCHANGED posted PROVE AgreeFrom(0) => AgreeFrom(0)'
BY DEF AgreeFrom

LEMMA InitAgree == Init => AgreeInv
BY DEF Init, AgreeInv, Loaded, EndPc

LEMMA NextAgree == ASSUME "edit" \notin Faults, Types, Flow, IInv, AgreeInv, Next PROVE AgreeInv'
<1> USE DEF Flow, HandlerCoda, ReadyInv, Ready, Loaded, SetupPc, DownloadPc, PrestartPc, GoPc,
            EndPc, Goto, Return, NextRound, LastRound, LastRoundReturn, watched, AgreeInv, TellingInv
<1>1. CASE RunControl
  <2>1. UNCHANGED watched
    BY <1>1, QuietSteps DEF RunControl, Download, Prestart, Go, End, Pause, Reset, Command
  <2>2. ConnAgain' = ConnAgain
    BY <1>1 DEF RunControl, Download, Prestart, Go, End, Pause, Reset, Command, ConnAgain
  <2> QED BY <1>1, <2>1, <2>2, AgreeKept
          DEF RunControl, Download, Prestart, Go, End, Pause, Reset, Command
<1>2. CASE Crash \/ DownloadV7Unmapped
  BY <1>2 DEF Crash, DownloadV7Unmapped, ProcessGone
<1>3. CASE DownloadZ7
  BY <1>3 DEF DownloadZ7
<1>4. CASE DownloadV7
  <2>1. posted' = [i \in Inst |-> "NONE"]
    BY <1>4 DEF DownloadV7, V7CfgLoad
  <2> QED BY <1>4, <2>1 DEF DownloadV7, AgreeFrom
<1>5. CASE PrestartInit
  <2>1. UNCHANGED <<posted, cfg>>
    BY <1>5 DEF PrestartInit, histVars
  <2>2. ConnAgain' = ConnAgain
    BY <2>1 DEF ConnAgain
  <2> QED BY <1>5, <2>1, <2>2, AgreeKept DEF PrestartInit, PrestartDone
<1>6. CASE PrestartFile
  <2>1. UNCHANGED watched
    BY <1>6, QuietSteps DEF PrestartFile
  <2>2. ConnAgain' = ConnAgain
    BY <1>6 DEF PrestartFile, ConnAgain
  <2> QED BY <1>6, <2>1, <2>2, AgreeKept DEF PrestartFile, PrestartDone
<1>7. CASE PrestartEbCfg
  <2>1. posted' = [i \in Inst |-> IF i < ClampStreams(conn) THEN "CFG" ELSE "NONE"]
    BY <1>7 DEF PrestartEbCfg, SetEbCfg, Checked, IfV7
  <2>2. ClampStreams(conn) <= conn /\ ConnAgain' = conn
    <3>1. cfg \in Configs /\ conn = cfg.conn /\ conn \in Nat \ {0} /\ cfg' = cfg
      BY <1>7 DEF IInv, SetupLocals, Types, RolTypeOK, PrestartEbCfg
    <3>2. ClampStreams(conn) <= conn
      BY <3>1, NumInstAssumption DEF ClampStreams
    <3>3. ConnAgain' = conn
      BY <3>1, NoConfigAssumption DEF ConnAgain
    <3> QED BY <3>2, <3>3
  <2> QED BY <1>7, <2>1, <2>2, ClampStreamsType
          DEF PrestartEbCfg, AgreeFrom, Inst, Types, RolTypeOK
<1>8. CASE PrestartCmsg \/ PrestartEjfat \/ PrestartAsync \/ GoEnable \/ EndAsync
  <2>1. UNCHANGED <<v7Done, fwType, posted>>
    BY <1>8, EnableSteps, QuietSteps
       DEF PrestartCmsg, PrestartEjfat, PrestartAsync, GoEnable, EndAsync
  <2>2. ConnAgain' = ConnAgain
    BY <1>8 DEF PrestartCmsg, PrestartEjfat, PrestartAsync, GoEnable, EndAsync, ConnAgain
  <2>3. ConnAgain > 0 /\ AgreeFrom(0)'
    BY <1>8, <2>1, ConnAgainType, AgreeKept
       DEF PrestartCmsg, PrestartEjfat, PrestartAsync, GoEnable, EndAsync
  <2>4. Told(0, "END")'
    BY DEF Told, Inst
  <2> QED BY <1>8, <2>1, <2>2, <2>3, <2>4
          DEF PrestartCmsg, PrestartEjfat, PrestartAsync, GoEnable, EndAsync
<1>9. CASE PrestartReset \/ PrestartNet \/ PrestartConnect \/ EndClose
  <2>1. UNCHANGED watched
    BY <1>9, QuietSteps DEF PrestartReset, PrestartNet, PrestartConnect, EndClose
  <2>2. ConnAgain' = ConnAgain
    BY <1>9 DEF PrestartReset, PrestartNet, PrestartConnect, EndClose, ConnAgain
  <2>3. AgreeFrom(0)'
    BY <1>9, <2>1, AgreeKept DEF PrestartReset, PrestartNet, PrestartConnect, EndClose
  <2>4. Told(0, "PRESTART")'
    BY DEF Told, Inst
  <2> QED BY <1>9, <2>1, <2>2, <2>3, <2>4
          DEF PrestartReset, PrestartNet, PrestartConnect, EndClose
<1>10. CASE GoRead \/ EndRead \/ EndWait \/ EndFlush
  <2>1. UNCHANGED watched
    BY <1>10, QuietSteps DEF GoRead, EndRead, EndWait, EndFlush
  <2>2. ConnAgain' = ConnAgain
    BY <1>10 DEF GoRead, EndRead, EndWait, EndFlush, ConnAgain
  <2>3. AgreeFrom(0)' /\ ConnAgain > 0
    BY <1>10, <2>1, AgreeKept, ConnAgainType DEF GoRead, EndRead, EndWait, EndFlush
  <2>4. Told(0, "GO")'
    BY DEF Told, Inst
  <2> QED BY <1>10, <2>1, <2>2, <2>3, <2>4 DEF GoRead, EndRead, EndWait, EndFlush
<1>14. CASE GenerateConfig
  BY <1>14 DEF GenerateConfig
<1>15. CASE ReleaseSync \/ HoldSync \/ Hardware
  <2>1. UNCHANGED watched /\ UNCHANGED <<coda, pc, idx, conn, cfg>>
    BY <1>15, QuietSteps DEF ReleaseSync, HoldSync, Hardware, rolVars
  <2> QED BY <2>1 DEF AgreeFrom, Told, ConnAgain
<1>11. CASE PrestartEvent
  <2>0. EvioWriteControl(idx, "PRESTART", 0) /\ pc = "pr_event" /\ Ready
    BY <1>11 DEF PrestartEvent
  <2>1. UNCHANGED <<v7Done, fwType>> /\ ConnAgain' = ConnAgain
    BY <1>11, <2>0, EvioStep DEF PrestartEvent, ConnAgain
  <2>2. conn = ConnAgain /\ idx < conn
    BY <2>0, NoConfigAssumption DEF IInv, SetupLocals, ConnAgain
  <2>3. TellStep("PRESTART", idx, conn)
    BY <2>0, <2>2, TellOne DEF Control, Types, RolTypeOK
  <2> QED BY <1>11, <2>1, <2>2, <2>3
          DEF PrestartEvent, TellStep, AgreeFrom, Told, Types, RolTypeOK
<1>12. CASE GoEvent
  <2>0. EvioWriteControl(idx, "GO", 0) /\ pc = "go_event"
    BY <1>12 DEF GoEvent
  <2>1. UNCHANGED <<v7Done, fwType>> /\ ConnAgain' = ConnAgain
    BY <1>12, <2>0, EvioStep DEF GoEvent, ConnAgain
  <2>2. conn = ConnAgain /\ idx < conn
    BY <2>0 DEF IInv, GoLocals
  <2>3. CASE Ready
    <3>1. TellStep("GO", idx, conn)
      BY <2>0, <2>2, <2>3, TellOne DEF Control, Types, RolTypeOK
    <3> QED BY <1>12, <2>1, <2>2, <2>3, <3>1 DEF GoEvent, TellStep, AgreeFrom, Told, Types, RolTypeOK
  <2>4. CASE ~Ready
    <3>1. UNCHANGED posted
      BY <2>0, <2>4, EvioStep
    <3> QED BY <1>12, <2>0, <2>1, <2>2, <2>4, <3>1, AgreeKept DEF GoEvent
  <2> QED BY <2>3, <2>4
<1>13. CASE EndEvent
  <2>0. PICK count : EvioWriteControl(idx, "END", count) /\ pc = "end_event"
    BY <1>13 DEF EndEvent
  <2>1. UNCHANGED <<v7Done, fwType>> /\ ConnAgain' = ConnAgain
    BY <1>13, <2>0, EvioStep DEF EndEvent, ConnAgain
  <2>2. conn = ConnAgain /\ idx < conn
    BY <2>0
  <2>3. CASE Ready
    <3>1. TellStep("END", idx, conn)
      BY <2>0, <2>2, <2>3, TellOne DEF Control, Types, RolTypeOK
    <3> QED BY <1>13, <2>1, <2>2, <2>3, <3>1 DEF EndEvent, TellStep, AgreeFrom, Told, Types, RolTypeOK
  <2>4. CASE ~Ready
    <3>1. UNCHANGED posted
      BY <2>0, <2>4, EvioStep
    <3> QED BY <1>13, <2>0, <2>1, <2>2, <2>4, <3>1, AgreeKept DEF EndEvent
  <2> QED BY <2>3, <2>4
<1> QED BY <1>1, <1>2, <1>3, <1>4, <1>5, <1>6, <1>7, <1>8, <1>9, <1>10, <1>11, <1>12, <1>13,
           <1>14, <1>15 DEF Next, Rol

LEMMA StutterAgree == ASSUME AgreeInv, UNCHANGED vars PROVE AgreeInv'
BY DEF AgreeInv, TellingInv, AgreeFrom, Told, Ready, Loaded, ConnAgain, vars, rolVars, ebVars,
       chipVars, histVars

\* When the file is written only while the readout list is downloaded, every
\* stream has had the same control event between transitions, whatever else
\* fails: rocPrestart, rocGo and rocEnd count the same connections.
THEOREM StreamsAgreeCorrect == ASSUME "edit" \notin Faults PROVE Spec => []StreamsAgree
<1> DEFINE Inv == Types /\ Flow /\ IInv /\ AgreeInv
<1>1. Init => Inv
  BY InitType, InitFlow, InitIInv, InitAgree DEF Types
<1>2. Inv /\ [Next]_vars => Inv'
  <2>1. Inv /\ Next => Inv'
    BY NextEbType, NextRolType, NextFlow, NextIInv, NextAgree DEF Types
  <2>2. Inv /\ UNCHANGED vars => Inv'
    BY StutterType, StutterFlow, StutterIInv, StutterAgree DEF Types
  <2> QED BY <2>1, <2>2
<1>3. Inv => StreamsAgree
  BY NumInstAssumption DEF AgreeInv, AgreeFrom, StreamsAgree, Loaded, DownloadPc, Inst
<1> QED BY <1>1, <1>2, <1>3, PTL DEF Spec

-----------------------------------------------------------------------------
(* EndClosesAll *)

\* Only four operations touch the sockets.
LEMMA SocketsKept ==
    ASSUME \/ \E ok : V7CfgLoad(ok)
           \/ \E mask, n, stream : SetEbCfg(mask, n, stream)
           \/ \E bits : EbEnable(bits) \/ EbDisable(bits)
           \/ \E udp : ResetDataPath(udp)
           \/ \E i, type, count : EvioWriteControl(i, type, count)
           \/ SendAsync
           \/ \E i, s : BuildFrame(i, s) \/ SendFrame(i)
           \/ UNCHANGED ebVars
    PROVE  UNCHANGED <<request, link>>
<1> USE DEF ebVars, netVars, IfV7
<1>1. CASE \E ok : V7CfgLoad(ok)
  BY <1>1 DEF V7CfgLoad
<1>2. CASE \E mask, n, stream : SetEbCfg(mask, n, stream)
  BY <1>2 DEF SetEbCfg, Checked
<1>3. CASE \E bits : EbEnable(bits) \/ EbDisable(bits)
  BY <1>3 DEF EbEnable, EbDisable
<1>4. CASE \E udp : ResetDataPath(udp)
  BY <1>4 DEF ResetDataPath
<1>5. CASE \E i, type, count : EvioWriteControl(i, type, count)
  BY <1>5 DEF EvioWriteControl
<1>6. CASE SendAsync
  BY <1>6 DEF SendAsync
<1>7. CASE \E i, s : BuildFrame(i, s) \/ SendFrame(i)
  BY <1>7 DEF BuildFrame, SendFrame
<1>8. CASE UNCHANGED ebVars
  BY <1>8
<1> QED BY <1>1, <1>2, <1>3, <1>4, <1>5, <1>6, <1>7, <1>8

LEMMA LinkMovesKeepRequest ==
    ASSUME NEW i, LateConnect(i) \/ DropLink(i) PROVE UNCHANGED request
BY DEF LateConnect, DropLink

LEMMA SocketSteps ==
    ASSUME Types, NEW i \in Nat
    PROVE  /\ SetNetCfg(i) => \A j \in Inst :
                /\ request'[j] = (request[j] /\ ~(fwType /\ j = i))
                /\ link'[j] = (link[j] /\ ~(fwType /\ j = i))
           /\ \A up \in BOOLEAN : TcpConnect(i, up) => \A j \in Inst :
                /\ request'[j] = (request[j] \/ (fwType /\ j = i))
                /\ link'[j] = IF fwType /\ j = i THEN up ELSE link[j]
           /\ TcpDisconnect(i) => \A j \in Inst :
                /\ request'[j] = (request[j] /\ ~(fwType /\ j = i))
                /\ link'[j] = (link[j] /\ ~(fwType /\ j = i))
<1> USE DEF Types, EbTypeOK, EbTyped, ebVars, netVars
<1>1. SetNetCfg(i) => \A j \in Inst :
         /\ request'[j] = (request[j] /\ ~(fwType /\ j = i))
         /\ link'[j] = (link[j] /\ ~(fwType /\ j = i))
  BY DEF SetNetCfg
<1>2. \A up \in BOOLEAN : TcpConnect(i, up) => \A j \in Inst :
         /\ request'[j] = (request[j] \/ (fwType /\ j = i))
         /\ link'[j] = IF fwType /\ j = i THEN up ELSE link[j]
  <2>1. SUFFICES ASSUME NEW up \in BOOLEAN, TcpConnect(i, up), NEW j \in Inst
                 PROVE  /\ request'[j] = (request[j] \/ (fwType /\ j = i))
                        /\ link'[j] = IF fwType /\ j = i THEN up ELSE link[j]
    OBVIOUS
  <2>2. CASE fwType /\ i \in Inst
    <3>1. request' = [request EXCEPT ![i] = TRUE] /\ link' = [link EXCEPT ![i] = up]
      BY <2>1, <2>2, Zenon DEF TcpConnect
    <3> QED BY <2>2, <3>1
  <2>3. CASE ~(fwType /\ i \in Inst)
    <3>1. request' = request /\ link' = link
      BY <2>1, <2>3 DEF TcpConnect
    <3> QED BY <2>3, <3>1
  <2> QED BY <2>2, <2>3
<1>3. TcpDisconnect(i) => \A j \in Inst :
         /\ request'[j] = (request[j] /\ ~(fwType /\ j = i))
         /\ link'[j] = (link[j] /\ ~(fwType /\ j = i))
  BY DEF TcpDisconnect
<1> QED BY <1>1, <1>2, <1>3

NoSocket == \A i \in Inst : ~request[i]
ClosedPc == {"idle"} \union (PrestartPc \ {"pr_net", "pr_conn", "pr_event"})

\* No socket is open from the reload of the Z7, or the end of a run, until the
\* loop of rocPrestart, which opens them in order; rocEnd closes them in order,
\* and counts as many as the file has.
OpenInv ==
    /\ pc = "dl_v7" => NoSocket
    /\ coda = "downloaded" /\ pc \in ClosedPc => NoSocket
    /\ Loaded => \A i \in Inst : request[i] => fwType /\ i < ConnAgain
    /\ pc \in {"pr_net", "pr_conn"} => \A i \in Inst : request[i] => i < idx
    /\ pc = "end_close" => \A i \in Inst : request[i] => idx <= i

LEMMA InitOpen == Init => OpenInv
BY DEF Init, EbInit, OpenInv, NoSocket

LEMMA NextOpen ==
    ASSUME {"edit", "load"} \intersect Faults = {}, Types, Flow, IInv, AgreeInv, OpenInv, Next
    PROVE  OpenInv'
<1> USE DEF Flow, HandlerCoda, FlushLocals, Loaded, SetupPc, DownloadPc, PrestartPc, GoPc, EndPc,
            Goto, Return, NextRound, LastRound, LastRoundReturn, OpenInv, NoSocket, ClosedPc
<1>1. CASE RunControl
  <2>1. UNCHANGED <<request, fwType>> /\ ConnAgain' = ConnAgain
    BY <1>1 DEF RunControl, Download, Prestart, Go, End, Pause, Reset, Command, ConnAgain, ebVars,
                netVars, chipVars
  <2> QED BY <1>1, <2>1 DEF RunControl, Download, Prestart, Go, End, Pause, Reset, Command
<1>2. CASE Crash \/ DownloadV7Unmapped
  BY <1>2 DEF Crash, DownloadV7Unmapped, ProcessGone
<1>3. CASE DownloadZ7
  <2>1. Z7CfgLoad(TRUE)
    BY <1>3 DEF DownloadZ7, Outcome
  <2>2. request' = [i \in Inst |-> FALSE]
    BY <2>1 DEF Z7CfgLoad
  <2> QED BY <1>3, <2>2 DEF DownloadZ7
<1>4. CASE DownloadV7
  <2>1. UNCHANGED request
    BY <1>4, SocketsKept DEF DownloadV7
  <2> QED BY <1>4, <2>1 DEF DownloadV7
<1>5. CASE PrestartInit \/ PrestartFile
  <2>1. UNCHANGED request
    BY <1>5 DEF PrestartInit, PrestartFile, ebVars, netVars
  <2> QED BY <1>5, <2>1 DEF PrestartInit, PrestartFile, PrestartDone
<1>6. CASE PrestartEbCfg \/ PrestartCmsg \/ PrestartEjfat \/ PrestartAsync \/ PrestartReset
  <2>1. UNCHANGED request
    BY <1>6, SocketsKept
       DEF PrestartEbCfg, PrestartCmsg, PrestartEjfat, PrestartAsync, PrestartReset
  <2> QED BY <1>6, <2>1
          DEF PrestartEbCfg, PrestartCmsg, PrestartEjfat, PrestartAsync, PrestartReset
<1>7. CASE PrestartNet
  <2>1. SetNetCfg(idx) /\ idx \in Nat
    BY <1>7 DEF PrestartNet, Types, RolTypeOK
  <2>2. \A j \in Inst : request'[j] => request[j]
    BY <2>1, SocketSteps
  <2>3. UNCHANGED fwType /\ ConnAgain' = ConnAgain
    BY <1>7, <2>1, QuietSteps DEF watched, PrestartNet, ConnAgain
  <2> QED BY <1>7, <2>2, <2>3 DEF PrestartNet
<1>8. CASE PrestartConnect
  <2>1. PICK up \in BOOLEAN : TcpConnect(idx, up)
    BY <1>8, OutcomeType DEF PrestartConnect
  <2>2. idx \in Nat /\ \A j \in Inst : j \in Nat
    BY DEF Types, RolTypeOK, Inst
  <2>3. \A j \in Inst : request'[j] => request[j] \/ (fwType /\ j = idx)
    BY <2>1, <2>2, SocketSteps
  <2>4. UNCHANGED fwType /\ ConnAgain' = ConnAgain
    BY <1>8, <2>1, QuietSteps DEF watched, PrestartConnect, ConnAgain
  <2>5. idx < ConnAgain
    BY <1>8, NoConfigAssumption DEF PrestartConnect, IInv, SetupLocals, ConnAgain
  <2> QED BY <1>8, <2>2, <2>3, <2>4, <2>5 DEF PrestartConnect
<1>9. CASE PrestartEvent \/ GoEvent \/ EndEvent
  <2>1. UNCHANGED request
    BY <1>9, SocketsKept DEF PrestartEvent, GoEvent, EndEvent
  <2>2. UNCHANGED fwType /\ ConnAgain' = ConnAgain
    BY <1>9, EvioStep DEF PrestartEvent, GoEvent, EndEvent, ConnAgain
  <2> QED BY <1>9, <2>1, <2>2 DEF PrestartEvent, GoEvent, EndEvent
<1>10. CASE GoRead \/ GoEnable \/ EndRead \/ EndWait \/ EndAsync \/ EndFlush
  <2>1. UNCHANGED request
    BY <1>10, SocketsKept DEF GoRead, GoEnable, EndRead, EndWait, EndAsync, EndFlush
  <2>2. UNCHANGED fwType /\ ConnAgain' = ConnAgain
    BY <1>10, EnableSteps, QuietSteps
       DEF GoRead, GoEnable, EndRead, EndWait, EndAsync, EndFlush, ConnAgain, watched
  <2>3. pc = "end_flush" => \A i \in Inst : idx <= i
    BY DEF Inst
  <2> QED BY <1>10, <2>1, <2>2, <2>3
          DEF GoRead, GoEnable, EndRead, EndWait, EndAsync, EndFlush
<1>11. CASE EndClose
  <2>1. TcpDisconnect(idx) /\ idx \in Nat /\ conn = ConnAgain /\ ConnAgain \in Nat
    BY <1>11, ConnAgainType DEF EndClose, Types, RolTypeOK, AgreeInv
  <2>2. \A j \in Inst : j \in Nat /\ (request'[j] => request[j] /\ j # idx)
    <3>1. \A j \in Inst : request'[j] = (request[j] /\ ~(fwType /\ j = idx))
      BY <2>1, SocketSteps
    <3>2. \A j \in Inst : request[j] => fwType
      BY <1>11 DEF EndClose
    <3>3. \A j \in Inst : request'[j] => request[j] /\ j # idx
      BY <3>1, <3>2
    <3> QED BY <3>3 DEF Inst
  <2>3. UNCHANGED fwType /\ ConnAgain' = ConnAgain
    BY <1>11, <2>1, QuietSteps DEF EndClose, watched, ConnAgain
  <2>4. \A j \in Inst : request'[j] => idx + 1 <= j /\ j < conn
    BY <1>11, <2>1, <2>2 DEF EndClose
  <2> QED BY <1>11, <2>1, <2>2, <2>3, <2>4 DEF EndClose
<1>12. CASE GenerateConfig
  BY <1>12, SocketsKept DEF GenerateConfig
<1>13. CASE ReleaseSync \/ HoldSync \/ Hardware
  <2>1. UNCHANGED <<request, coda, pc, idx, cfg>>
    BY <1>13, SocketsKept, LinkMovesKeepRequest DEF ReleaseSync, HoldSync, Hardware, rolVars
  <2>2. UNCHANGED fwType
    BY <1>13, QuietSteps DEF ReleaseSync, HoldSync, Hardware, watched
  <2> QED BY <2>1, <2>2 DEF ConnAgain
<1> QED BY <1>1, <1>2, <1>3, <1>4, <1>5, <1>6, <1>7, <1>8, <1>9, <1>10, <1>11, <1>12, <1>13
        DEF Next, Rol

LEMMA StutterOpen == ASSUME OpenInv, UNCHANGED vars PROVE OpenInv'
BY DEF OpenInv, NoSocket, Loaded, ConnAgain, vars, rolVars, ebVars, chipVars, netVars

\* When the firmware loads and the file is written only while the readout list
\* is downloaded, rocEnd closes every socket rocPrestart opened: a component
\* back in the downloaded state holds none, whatever else fails.
THEOREM EndClosesAllCorrect ==
    ASSUME {"edit", "load"} \intersect Faults = {} PROVE Spec => []EndClosesAll
<1> DEFINE Inv == Types /\ Flow /\ IInv /\ AgreeInv /\ OpenInv
<1>1. Init => Inv
  BY InitType, InitFlow, InitIInv, InitAgree, InitOpen DEF Types
<1>2. Inv /\ [Next]_vars => Inv'
  <2>1. Inv /\ Next => Inv'
    BY NextEbType, NextRolType, NextFlow, NextIInv, NextAgree, NextOpen DEF Types
  <2>2. Inv /\ UNCHANGED vars => Inv'
    BY StutterType, StutterFlow, StutterIInv, StutterAgree, StutterOpen DEF Types
  <2> QED BY <2>1, <2>2
<1>3. Inv => EndClosesAll
  BY DEF OpenInv, NoSocket, ClosedPc, EndClosesAll
<1> QED BY <1>1, <1>2, <1>3, PTL DEF Spec

-----------------------------------------------------------------------------
(* EndCountFinal *)

Closing == {"end_event", "end_flush", "end_close"}
Ended(i) == request[i] /\ posted[i] = "END"

\* Where connections stand, link and request are one.
LinksStand == \A i \in Inst : link[i] = request[i]

\* The master holds the sync, so nothing more is built; the wait of rocEnd has
\* drained what was; and a stream that has its End event is open only until
\* rocEnd closes it, unless the component is reset or dies between.
EndInv ==
    /\ LinksStand
    /\ pc \in Closing \union {"end_async"} => sync /\ \A i \in Inst : request[i] => inFlight[i] = 0
    /\ \A i \in Inst : Ended(i) => endCount[i] = FramesSent(i) /\ inFlight[i] = 0
    /\ \A i \in Inst : Ended(i) => sync /\ (pc \in Closing \union DownloadPc \/ coda = "booted")
    /\ pc \in Closing => \A i \in Inst : Ended(i) => fwType /\ i < conn
    /\ pc = "end_close" => \A i \in Inst : Ended(i) => idx <= i
    /\ pc \in EndPc \ {"end_read"} => 0 < conn
    /\ pc \in Closing => idx < conn
    /\ pc \in SetupPc \ {"pr_ebcfg"} => \A i \in Inst : posted[i] # "END"

sockVars == <<request, link>>
countVars == <<posted, endCount, inFlight, framesSent>>

\* Nothing the invariant is about moves but pc, coda and sync, from where no
\* stream has its End event.
LEMMA EndKept ==
    ASSUME EndInv, UNCHANGED <<sockVars, countVars>>
    PROVE  /\ LinksStand'
           /\ \A i \in Inst : Ended(i)' <=> Ended(i)
           /\ \A i \in Inst : Ended(i)' => endCount'[i] = FramesSent(i)' /\ inFlight'[i] = 0
BY DEF EndInv, LinksStand, Ended, FramesSent, sockVars, countVars

LEMMA CountsKept ==
    ASSUME \/ UNCHANGED ebVars
           \/ \E bits : EbEnable(bits) \/ EbDisable(bits)
           \/ SendAsync
    PROVE  UNCHANGED <<sockVars, countVars>>
BY DEF EbEnable, EbDisable, IfV7, SendAsync, ebVars, netVars, dataVars, histVars, sockVars, countVars

LEMMA InitEnd == Init => EndInv
BY DEF Init, EbInit, V7PowerOn, EndInv, LinksStand, Ended, Closing, SetupPc, EndPc, PrestartPc

LEMMA NextEnd == ASSUME "link" \notin Faults, Types, Flow, EndInv, Next PROVE EndInv'
<1> USE DEF Flow, HandlerCoda, FlushLocals, SetupPc, DownloadPc, PrestartPc, GoPc, EndPc, Closing,
            Goto, Return, NextRound, LastRound, LastRoundReturn
<1>0. /\ \A i \in Inst : i \in Nat
      /\ conn \in Nat /\ idx \in Nat
  BY DEF Inst, Types, RolTypeOK
<1>1. CASE RunControl \/ GenerateConfig \/ ReleaseSync \/ HoldSync
  <2>1. UNCHANGED <<sockVars, countVars, fwType>>
    BY <1>1 DEF RunControl, Download, Prestart, Go, End, Pause, Reset, Command, GenerateConfig,
                ReleaseSync, HoldSync, ebVars, chipVars, netVars, dataVars, histVars, sockVars,
                countVars
  <2>2. CASE RunControl
    BY <2>1, <2>2, EndKept DEF RunControl, Download, Prestart, Go, End, Pause, Reset, Command,
                               EndInv, sockVars, countVars
  <2>3. CASE GenerateConfig \/ HoldSync
    BY <2>1, <2>3, EndKept DEF GenerateConfig, HoldSync, EndInv, sockVars, countVars
  <2>4. CASE ReleaseSync
    BY <2>1, <2>4, EndKept DEF ReleaseSync, EndInv, sockVars, countVars
  <2> QED BY <1>1, <2>2, <2>3, <2>4
<1>2. CASE Crash \/ DownloadV7Unmapped
  <2>1. UNCHANGED <<sockVars, countVars>>
    BY <1>2 DEF Crash, DownloadV7Unmapped, ProcessGone, netVars, dataVars, histVars, sockVars, countVars
  <2>2. \A i \in Inst : Ended(i) => sync
    BY DEF EndInv
  <2> QED BY <1>2, <2>1, <2>2, EndKept DEF Crash, DownloadV7Unmapped, ProcessGone, EndInv
<1>3. CASE DownloadZ7
  <2>1. PICK ok \in BOOLEAN : Z7CfgLoad(ok)
    BY <1>3, OutcomeType DEF DownloadZ7
  <2>2. CASE ok
    BY <1>3, <2>1, <2>2 DEF DownloadZ7, Z7CfgLoad, EndInv, LinksStand, Ended
  <2>3. CASE ~ok
    <3>1. UNCHANGED <<sockVars, countVars>>
      BY <2>1, <2>3, CountsKept DEF Z7CfgLoad
    <3> QED BY <1>3, <3>1, EndKept DEF DownloadZ7, EndInv
  <2> QED BY <2>2, <2>3
<1>4. CASE DownloadV7
  <2>1. posted' = [i \in Inst |-> "NONE"]
    BY <1>4 DEF DownloadV7, V7CfgLoad
  <2>2. UNCHANGED <<request, link>>
    BY <1>4, SocketsKept DEF DownloadV7
  <2> QED BY <1>4, <2>1, <2>2 DEF DownloadV7, EndInv, LinksStand, Ended
<1>5. CASE PrestartInit \/ PrestartFile
  <2>1. UNCHANGED <<sockVars, countVars>>
    BY <1>5 DEF PrestartInit, PrestartFile, ebVars, netVars, dataVars, histVars, sockVars, countVars
  <2> QED BY <1>5, <2>1, EndKept DEF PrestartInit, PrestartFile, PrestartDone, EndInv
<1>6. CASE PrestartEbCfg
  <2>1. UNCHANGED <<request, link>>
    BY <1>6, SocketsKept DEF PrestartEbCfg
  <2>2. \A i \in Inst : posted'[i] # "END"
    BY <1>6 DEF PrestartEbCfg, SetEbCfg, Checked, IfV7, ReadyInv, Ready
  <2> QED BY <1>6, <2>1, <2>2 DEF PrestartEbCfg, EndInv, LinksStand, Ended
<1>7. CASE PrestartCmsg \/ PrestartEjfat \/ PrestartAsync
  <2>1. UNCHANGED <<sockVars, countVars>>
    BY <1>7, CountsKept DEF PrestartCmsg, PrestartEjfat, PrestartAsync
  <2> QED BY <1>7, <2>1, EndKept DEF PrestartCmsg, PrestartEjfat, PrestartAsync, EndInv, countVars
<1>8. CASE PrestartReset \/ PrestartNet \/ PrestartConnect
  <2>1. LinksStand'
    <3>1. CASE PrestartReset
      BY <3>1, SocketsKept DEF PrestartReset, EndInv, LinksStand
    <3>2. CASE PrestartNet
      BY <1>0, <3>2, SocketSteps DEF PrestartNet, EndInv, LinksStand
    <3>3. CASE PrestartConnect
      <4>1. TcpConnect(idx, TRUE)
        BY <3>3 DEF PrestartConnect, Outcome
      <4>2. \A j \in Inst : /\ request'[j] = (request[j] \/ (fwType /\ j = idx))
                            /\ link'[j] = IF fwType /\ j = idx THEN TRUE ELSE link[j]
        BY <1>0, <4>1, SocketSteps
      <4> QED BY <4>2 DEF EndInv, LinksStand, Types, EbTypeOK, EbTyped
    <3> QED BY <1>8, <3>1, <3>2, <3>3
  <2>2. UNCHANGED posted
    BY <1>8, QuietSteps DEF PrestartReset, PrestartNet, PrestartConnect, watched
  <2>3. \A i \in Inst : posted'[i] # "END"
    BY <1>8, <2>2 DEF PrestartReset, PrestartNet, PrestartConnect, EndInv
  <2> QED BY <1>8, <2>1, <2>3 DEF PrestartReset, PrestartNet, PrestartConnect, EndInv, Ended
<1>9. CASE PrestartEvent \/ GoEvent
  <2>1. PICK type \in {"PRESTART", "GO"} : EvioWriteControl(idx, type, 0)
    BY <1>9 DEF PrestartEvent, GoEvent
  <2>2. UNCHANGED <<request, link>>
    BY <2>1, SocketsKept
  <2>3. \A i \in Inst : posted'[i] = "END" => posted[i] = "END"
    BY <2>1, EvioStep DEF Types, EbTypeOK, EbTyped
  <2>4. \A i \in Inst : ~Ended(i)
    BY <1>9 DEF PrestartEvent, GoEvent, EndInv
  <2>5. \A i \in Inst : ~Ended(i)'
    BY <2>2, <2>3, <2>4 DEF Ended
  <2>6. LinksStand'
    BY <2>2 DEF EndInv, LinksStand
  <2> QED BY <1>9, <2>3, <2>5, <2>6 DEF PrestartEvent, GoEvent, EndInv
<1>10. CASE GoRead \/ GoEnable \/ EndRead
  <2>1. UNCHANGED <<sockVars, countVars>>
    BY <1>10, CountsKept DEF GoRead, GoEnable, EndRead
  <2>2. 0 < ConnAgain
    BY ConnAgainType
  <2> QED BY <1>10, <2>1, <2>2, EndKept DEF GoRead, GoEnable, EndRead, EndInv
<1>11. CASE EndWait
  <2>1. UNCHANGED <<sockVars, countVars>>
    BY <1>11, CountsKept DEF EndWait
  <2>2. sync' /\ \A i \in Inst : request'[i] => inFlight'[i] = 0
    BY <1>11, <2>1 DEF EndWait, EndInv, LinksStand, sockVars, countVars
  <2> QED BY <1>11, <2>1, <2>2, EndKept DEF EndWait, EndInv
<1>12. CASE EndAsync \/ EndFlush
  <2>1. UNCHANGED <<sockVars, countVars>>
    BY <1>12, CountsKept DEF EndAsync, EndFlush
  <2>2. sync' /\ \A i \in Inst : request'[i] => inFlight'[i] = 0
    BY <1>12, <2>1 DEF EndAsync, EndFlush, EndInv, sockVars, countVars
  <2>3. \A i \in Inst : Ended(i)' => Ended(i) /\ pc = "end_flush"
    BY <1>12, <2>1, EndKept DEF EndAsync, EndFlush, EndInv
  <2>4. UNCHANGED fwType
    BY <1>12, EnableSteps DEF EndAsync, EndFlush, ebVars, chipVars
  <2>5. /\ LinksStand'
        /\ \A i \in Inst : Ended(i)' => endCount'[i] = FramesSent(i)' /\ inFlight'[i] = 0
    BY <2>1, EndKept
  <2>6. /\ pc' \in {"end_event", "end_close"} /\ idx' = 0 /\ conn' = conn /\ 0 < conn
        /\ pc = "end_flush" => pc' = "end_close"
    BY <1>12 DEF EndAsync, EndFlush, EndInv
  <2>7. \A i \in Inst : Ended(i)' => fwType' /\ i < conn' /\ idx' <= i
    BY <1>0, <2>3, <2>4, <2>6 DEF EndInv
  <2> QED BY <2>2, <2>5, <2>6, <2>7 DEF EndInv
<1>13. CASE EndEvent
  <2>0. pc = "end_event" /\ idx < conn
    BY <1>13 DEF EndEvent, EndInv
  <2>1. EvioWriteControl(idx, "END", IF idx \in Inst THEN FramesSent(idx) ELSE 0)
    BY <1>13 DEF EndEvent
  <2>2. UNCHANGED <<sockVars, inFlight, framesSent, fwType>>
    BY <2>1 DEF EvioWriteControl, IfV7, ebVars, chipVars, netVars, dataVars, sockVars
  <2>3. \A i \in Inst :
          /\ posted'[i] = IF i = idx /\ Ready THEN "END" ELSE posted[i]
          /\ endCount'[i] = IF i = idx /\ Ready THEN FramesSent(i) ELSE endCount[i]
    BY <2>1 DEF EvioWriteControl, IfV7, ebVars, histVars, Ready, Types, EbTypeOK, EbTyped
  <2>4. \A i \in Inst : Ended(i)' => Ended(i) \/ (request[i] /\ i = idx /\ Ready)
    BY <2>2, <2>3 DEF Ended, sockVars
  <2>5. \A i \in Inst : Ended(i)' => endCount'[i] = FramesSent(i)' /\ inFlight'[i] = 0
    BY <2>0, <2>2, <2>3, <2>4 DEF EndInv, FramesSent
  <2>6. LinksStand'
    BY <2>2 DEF EndInv, LinksStand, sockVars
  <2>7. \A i \in Inst : Ended(i)' => fwType' /\ i < conn
    BY <2>0, <2>2, <2>4 DEF EndInv, Ready
  <2>8. sync' /\ \A i \in Inst : request'[i] => inFlight'[i] = 0
    BY <1>13, <2>0, <2>2 DEF EndEvent, EndInv, sockVars
  <2>9. pc' \in {"end_event", "end_flush"} /\ idx' < conn' /\ conn' = conn
    BY <1>0, <1>13, <2>0 DEF EndEvent
  <2> QED BY <1>0, <2>0, <2>5, <2>6, <2>7, <2>8, <2>9 DEF EndInv
<1>14. CASE EndClose
  <2>0. pc = "end_close" /\ idx < conn /\ TcpDisconnect(idx)
    BY <1>14 DEF EndClose, EndInv
  <2>1. UNCHANGED <<posted, endCount, framesSent, fwType>>
        /\ \A i \in Inst : inFlight'[i] \in {inFlight[i], 0}
    BY <2>0 DEF TcpDisconnect, ebVars, chipVars, dataVars, histVars, Types, EbTypeOK, EbTyped
  <2>2. \A i \in Inst : /\ request'[i] = (request[i] /\ ~(fwType /\ i = idx))
                        /\ link'[i] = (link[i] /\ ~(fwType /\ i = idx))
    BY <1>0, <2>0, SocketSteps
  <2>3. LinksStand'
    BY <2>2 DEF EndInv, LinksStand
  <2>4. \A i \in Inst : Ended(i)' => Ended(i) /\ i # idx
    BY <2>0, <2>1, <2>2 DEF EndInv, Ended
  <2>5. \A i \in Inst : Ended(i)' => idx + 1 <= i /\ i < conn
    BY <1>0, <2>0, <2>4 DEF EndInv
  <2>6. \A i \in Inst : Ended(i)' => endCount'[i] = FramesSent(i)' /\ inFlight'[i] = 0
    BY <2>1, <2>4 DEF EndInv, FramesSent
  <2>7. sync' /\ \A i \in Inst : request'[i] => inFlight'[i] = 0
    BY <1>14, <2>0, <2>1, <2>2 DEF EndClose, EndInv
  <2>8. \A i \in Inst : Ended(i)' => fwType'
    BY <2>0, <2>1, <2>4 DEF EndInv
  <2> QED BY <1>0, <1>14, <2>3, <2>5, <2>6, <2>7, <2>8 DEF EndClose, EndInv
<1>15. CASE Hardware
  <2>1. UNCHANGED <<sockVars, posted, endCount, fwType>> /\ UNCHANGED rolVars
    BY <1>15 DEF Hardware, SendAsync, BuildFrame, SendFrame, chipVars, netVars, histVars, sockVars
  <2>2. \A i \in Inst : request[i] /\ (Ended(i) \/ pc \in Closing \union {"end_async"})
           => inFlight'[i] = 0 /\ framesSent'[i] = framesSent[i]
    <3>1. SUFFICES ASSUME NEW i \in Inst, request[i], Ended(i) \/ pc \in Closing \union {"end_async"}
                   PROVE  inFlight'[i] = 0 /\ framesSent'[i] = framesSent[i]
      OBVIOUS
    <3>2. sync /\ inFlight[i] = 0
      BY <3>1 DEF EndInv
    <3>3. CASE SendAsync
      BY <3>2, <3>3 DEF SendAsync, dataVars
    <3>4. CASE \E j \in Inst : BuildFrame(j, sync)
      BY <3>2, <3>4 DEF BuildFrame
    <3>5. CASE \E j \in Inst : SendFrame(j)
      BY <3>2, <3>5 DEF SendFrame, Types, EbTypeOK, EbTyped
    <3> QED BY <1>15, <3>3, <3>4, <3>5 DEF Hardware
  <2>3. \A i \in Inst : Ended(i)' => Ended(i) /\ endCount'[i] = FramesSent(i)' /\ inFlight'[i] = 0
    BY <2>1, <2>2 DEF EndInv, Ended, FramesSent, sockVars
  <2> QED BY <2>1, <2>2, <2>3 DEF EndInv, LinksStand, rolVars, sockVars
<1> QED BY <1>1, <1>2, <1>3, <1>4, <1>5, <1>6, <1>7, <1>8, <1>9, <1>10, <1>11, <1>12, <1>13,
           <1>14, <1>15 DEF Next, Rol

LEMMA StutterEnd == ASSUME EndInv, UNCHANGED vars PROVE EndInv'
<1>1. UNCHANGED <<sockVars, countVars, rolVars, fwType>>
  BY DEF vars, ebVars, chipVars, netVars, dataVars, histVars, sockVars, countVars
<1> QED BY <1>1, EndKept DEF EndInv, rolVars, sockVars, countVars

\* rocPrestart routes every payload port to the first stream: no other client
\* has frames.  vtpStreamingFramesSent reads the byte counters for clients 2 and
\* 3, but both are zero there.
RouteInv ==
    /\ \A p \in Payload : ppPort[p] = 0
    /\ \A i \in Inst : i # 0 => inFlight[i] = 0 /\ framesSent[i] = 0

LEMMA FramesSentCounts ==
    ASSUME Types, RouteInv, NEW i \in Inst PROVE FramesSent(i) = framesSent[i]
BY BytesPerFrameAssumption DEF FramesSent, RouteInv

LEMMA InitRoute == Init => RouteInv
BY DEF Init, EbInit, V7PowerOn, RouteInv

LEMMA NextRoute == ASSUME Types, RouteInv, Next PROVE RouteInv'
<1> USE DEF Types, EbTypeOK, EbTyped, RouteInv, ebVars, ctrlVars, dataVars, IfV7
<1>1. CASE RunControl \/ Crash \/ DownloadV7Unmapped \/ GenerateConfig \/ ReleaseSync \/ HoldSync
  BY <1>1 DEF RunControl, Download, Prestart, Go, End, Pause, Reset, Command, Crash,
              DownloadV7Unmapped, ProcessGone, GenerateConfig, ReleaseSync, HoldSync
<1>2. CASE DownloadZ7 \/ DownloadV7
  BY <1>2 DEF DownloadZ7, DownloadV7, Z7CfgLoad, V7CfgLoad
<1>3. CASE PrestartInit \/ PrestartFile \/ GoRead \/ EndRead \/ EndWait \/ EndFlush
  BY <1>3 DEF PrestartInit, PrestartFile, GoRead, EndRead, EndWait, EndFlush
<1>4. CASE PrestartEbCfg
  <2>1. SetEbCfg(PpMask(par.pps), conn, [p \in Payload |-> 1])
    BY <1>4 DEF PrestartEbCfg
  <2> QED BY <2>1 DEF SetEbCfg, Checked
<1>5. CASE PrestartCmsg \/ PrestartEjfat \/ PrestartAsync \/ GoEnable \/ EndAsync
  BY <1>5 DEF PrestartCmsg, PrestartEjfat, PrestartAsync, GoEnable, EndAsync, EbEnable, EbDisable
<1>6. CASE PrestartReset \/ PrestartNet \/ PrestartConnect
  BY <1>6 DEF PrestartReset, PrestartNet, PrestartConnect, ResetDataPath, SetNetCfg, TcpConnect
<1>7. CASE PrestartEvent \/ GoEvent \/ EndEvent
  BY <1>7 DEF PrestartEvent, GoEvent, EndEvent, EvioWriteControl
<1>8. CASE EndClose
  BY <1>8 DEF EndClose, TcpDisconnect
<1>9. CASE Hardware
  BY <1>9 DEF Hardware, SendAsync, BuildFrame, SendFrame, LateConnect, DropLink
<1> QED BY <1>1, <1>2, <1>3, <1>4, <1>5, <1>6, <1>7, <1>8, <1>9 DEF Next, Rol

LEMMA StutterRoute == ASSUME RouteInv, UNCHANGED vars PROVE RouteInv'
BY DEF RouteInv, vars, ebVars, ctrlVars, dataVars

\* While connections stand, the count in an End event is the number of frames
\* its stream has sent, until the socket closes: no frame follows End (rocEnd,
\* vtpStreamingFramesSent).  The file may change, loads may fail and the
\* component may die.
THEOREM EndCountFinalCorrect == ASSUME "link" \notin Faults PROVE Spec => []EndCountFinal
<1> DEFINE Inv == Types /\ Flow /\ EndInv /\ RouteInv
<1>1. Init => Inv
  BY InitType, InitFlow, InitEnd, InitRoute DEF Types
<1>2. Inv /\ [Next]_vars => Inv'
  <2>1. Inv /\ Next => Inv'
    BY NextEbType, NextRolType, NextFlow, NextEnd, NextRoute DEF Types
  <2>2. Inv /\ UNCHANGED vars => Inv'
    BY StutterType, StutterFlow, StutterEnd, StutterRoute DEF Types
  <2> QED BY <2>1, <2>2
<1>3. Inv => EndCountFinal
  BY FramesSentCounts DEF EndInv, EndCountFinal, Ended
<1> QED BY <1>1, <1>2, <1>3, PTL DEF Spec

-----------------------------------------------------------------------------
(* The events of one connection, in the FIFO and at the receiver *)

\* q holds the events of client i, among others; last was the last of them
\* written, and seen the last the receiver has: NONE, PRESTART, GO..., END.
Unwritten == {"NONE", "CFG"}
Of(q, i) == {k \in DOMAIN q : q[k].inst = i}
Waits(q, i, type) == \E k \in Of(q, i) : q[k].type = type

InOrder(q, i, last, seen) ==
    /\ last \in Unwritten => seen = "NONE" /\ Of(q, i) = {}
    /\ last \in {"PRESTART", "GO"} => seen # "NONE" \/ Waits(q, i, "PRESTART")
    /\ last = "END" => seen = "END" \/ Waits(q, i, "END")
    /\ seen = "END" => last = "END" /\ Of(q, i) = {}
    /\ \A k \in Of(q, i) :
          /\ q[k].type = "PRESTART" => seen = "NONE" /\ \A j \in Of(q, i) : k <= j
          /\ q[k].type = "END" => last = "END" /\ \A j \in Of(q, i) : j <= k
          /\ q[k].type # "PRESTART" =>
                \/ seen \in {"PRESTART", "GO"}
                \/ \E j \in Of(q, i) : j < k /\ q[j].type = "PRESTART"

LEMMA EmptyInOrder ==
    ASSUME NEW i, NEW last, NEW seen,
           (last \in Unwritten /\ seen = "NONE") \/ (last = "END" /\ seen = "END")
    PROVE  InOrder(<<>>, i, last, seen)
BY DEF InOrder, Of, Waits, Unwritten

\* What appending does to the places of the events.
LEMMA OfAppend ==
    ASSUME NEW q \in Seq(AsyncEvent), NEW e \in AsyncEvent, NEW i
    PROVE  /\ Of(Append(q, e), i) = Of(q, i) \union IF e.inst = i THEN {Len(q) + 1} ELSE {}
           /\ \A k \in DOMAIN q : Append(q, e)[k] = q[k] /\ k < Len(q) + 1
           /\ Append(q, e)[Len(q) + 1] = e
           /\ Len(q) + 1 \in Nat /\ DOMAIN q \subseteq Nat
<1> DEFINE r == Append(q, e)
<1>1. /\ DOMAIN r = DOMAIN q \union {Len(q) + 1}
      /\ \A k \in DOMAIN q : r[k] = q[k] /\ k < Len(q) + 1
      /\ r[Len(q) + 1] = e
      /\ Len(q) + 1 \in Nat /\ DOMAIN q \subseteq Nat
  OBVIOUS
<1>2. Of(r, i) = Of(q, i) \union IF e.inst = i THEN {Len(q) + 1} ELSE {}
  <2> HIDE DEF r
  <2> QED BY <1>1 DEF Of
<1> QED BY <1>1, <1>2

LEMMA AppendOther ==
    ASSUME NEW q \in Seq(AsyncEvent), NEW e \in AsyncEvent, NEW i, NEW last, NEW seen,
           e.inst # i, InOrder(q, i, last, seen)
    PROVE  InOrder(Append(q, e), i, last, seen)
<1> DEFINE r == Append(q, e)
<1>1. /\ Of(r, i) = Of(q, i)
      /\ \A k \in Of(q, i) : r[k] = q[k]
  BY OfAppend DEF Of
<1> HIDE DEF r
<1>2. InOrder(r, i, last, seen)
  BY <1>1 DEF InOrder, Waits
<1> QED BY <1>2 DEF r

\* The next event of client i: Prestart comes first, Go and End after it.
MayFollow(type, last) ==
    IF type = "PRESTART" THEN last \in Unwritten ELSE last \in {"PRESTART", "GO"}

LEMMA AppendOwn ==
    ASSUME NEW q \in Seq(AsyncEvent), NEW e \in AsyncEvent, NEW i, NEW type \in Control,
           e.inst = i, e.type = type,
           NEW last, NEW seen \in Control \union {"NONE"},
           MayFollow(type, last), InOrder(q, i, last, seen)
    PROVE  InOrder(Append(q, e), i, type, seen)
<1> DEFINE r == Append(q, e)
           n == Len(q) + 1
<1>1. /\ Of(r, i) = Of(q, i) \union {n}
      /\ \A k \in Of(q, i) : r[k] = q[k] /\ k < n /\ k \in Nat
      /\ r[n] = e /\ n \in Nat
  BY OfAppend DEF Of
<1> HIDE DEF r, n
<1> SUFFICES InOrder(r, i, type, seen)
  BY DEF r
<1>2. CASE type = "PRESTART"
  <2>1. Of(q, i) = {} /\ seen = "NONE"
    BY <1>2 DEF InOrder, MayFollow
  <2>2. Of(r, i) = {n} /\ r[n].type = "PRESTART"
    BY <1>1, <1>2, <2>1
  <2> QED BY <1>1, <1>2, <2>1, <2>2 DEF InOrder, Waits, Unwritten
<1>3. CASE type \in {"GO", "END"}
  <2>1. last \in {"PRESTART", "GO"} /\ seen # "END"
    BY <1>3 DEF InOrder, MayFollow
  <2>2. seen \in {"PRESTART", "GO"} \/ Waits(q, i, "PRESTART")
    BY <2>1 DEF InOrder, Control
  <2>3. \A k \in Of(q, i) : q[k].type # "END"
    BY <2>1 DEF InOrder
  <2>4. \A k \in Of(r, i) :
          /\ r[k].type = "PRESTART" => seen = "NONE" /\ \A j \in Of(r, i) : k <= j
          /\ r[k].type = "END" => type = "END" /\ \A j \in Of(r, i) : j <= k
    BY <1>1, <1>3, <2>1, <2>3 DEF InOrder
  <2>5. \A k \in Of(r, i) : r[k].type # "PRESTART" =>
            \/ seen \in {"PRESTART", "GO"}
            \/ \E j \in Of(r, i) : j < k /\ r[j].type = "PRESTART"
    BY <1>1, <2>1, <2>2 DEF InOrder, Waits
  <2>6. /\ type = "GO" => seen # "NONE" \/ Waits(r, i, "PRESTART")
        /\ type = "END" => Waits(r, i, "END")
    BY <1>1, <2>2 DEF Waits
  <2> QED BY <1>3, <2>1, <2>4, <2>5, <2>6 DEF InOrder, Unwritten
<1> QED BY <1>2, <1>3 DEF Control

\* What taking the head does to the places of the events.
LEMMA OfTail ==
    ASSUME NEW q \in Seq(AsyncEvent), q # <<>>, NEW i
    PROVE  /\ \A k \in Of(Tail(q), i) : k + 1 \in Of(q, i) /\ Tail(q)[k] = q[k + 1] /\ k \in Nat \ {0}
           /\ \A k \in Of(q, i) : k = 1 \/ k - 1 \in Of(Tail(q), i)
           /\ \A k \in Of(q, i) : k \in Nat \ {0}
           /\ Head(q) = q[1] /\ (Head(q).inst = i <=> 1 \in Of(q, i))
<1> DEFINE r == Tail(q)
<1>1. /\ \A k \in DOMAIN r : k + 1 \in DOMAIN q /\ r[k] = q[k + 1] /\ k \in Nat \ {0}
      /\ \A k \in DOMAIN q : k \in Nat \ {0}
      /\ \A k \in DOMAIN q : k = 1 \/ (k - 1 \in DOMAIN r /\ r[k - 1] = q[k])
      /\ Head(q) = q[1] /\ 1 \in DOMAIN q
  OBVIOUS
<1> HIDE DEF r
<1>2. /\ \A k \in Of(r, i) : k + 1 \in Of(q, i) /\ r[k] = q[k + 1] /\ k \in Nat \ {0}
      /\ \A k \in Of(q, i) : k = 1 \/ k - 1 \in Of(r, i)
      /\ \A k \in Of(q, i) : k \in Nat \ {0}
      /\ Head(q) = q[1] /\ (Head(q).inst = i <=> 1 \in Of(q, i))
  BY <1>1 DEF Of
<1> QED BY <1>2 DEF r

LEMMA SendOther ==
    ASSUME NEW q \in Seq(AsyncEvent), q # <<>>, NEW i, NEW last, NEW seen,
           Head(q).inst # i, InOrder(q, i, last, seen)
    PROVE  InOrder(Tail(q), i, last, seen)
<1> DEFINE r == Tail(q)
<1>1. /\ \A k \in Of(r, i) : k + 1 \in Of(q, i) /\ r[k] = q[k + 1] /\ k \in Nat \ {0}
      /\ \A k \in Of(q, i) : k # 1 /\ k - 1 \in Of(r, i) /\ k \in Nat \ {0}
  <2>1. 1 \notin Of(q, i)
    BY OfTail
  <2> QED BY <2>1, OfTail
<1>2. \A k \in Of(q, i) : (k - 1) + 1 = k
  BY <1>1
<1> HIDE DEF r
<1>3. \A type : Waits(q, i, type) => Waits(r, i, type)
  BY <1>1, <1>2 DEF Waits
<1>4. Of(q, i) = {} => Of(r, i) = {}
  BY <1>1
<1>5. \A k \in Of(r, i) :
          /\ r[k].type = "PRESTART" => seen = "NONE" /\ \A j \in Of(r, i) : k <= j
          /\ r[k].type = "END" => last = "END" /\ \A j \in Of(r, i) : j <= k
  BY <1>1 DEF InOrder
<1>6. \A k \in Of(r, i) : r[k].type # "PRESTART" =>
          \/ seen \in {"PRESTART", "GO"}
          \/ \E j \in Of(r, i) : j < k /\ r[j].type = "PRESTART"
  <2>1. SUFFICES ASSUME NEW k \in Of(r, i), r[k].type # "PRESTART", seen \notin {"PRESTART", "GO"}
                 PROVE  \E j \in Of(r, i) : j < k /\ r[j].type = "PRESTART"
    OBVIOUS
  <2>2. PICK j \in Of(q, i) : j < k + 1 /\ q[j].type = "PRESTART"
    BY <1>1, <2>1 DEF InOrder
  <2>3. j - 1 \in Of(r, i) /\ j - 1 < k /\ r[j - 1].type = "PRESTART"
    <3>1. j \in Nat /\ k \in Nat /\ j - 1 \in Of(r, i) /\ (j - 1) + 1 = j
      BY <1>1, <1>2, <2>1, <2>2
    <3>2. r[j - 1] = q[j]
      BY <1>1, <3>1
    <3>3. j - 1 < k
      BY <2>2, <3>1
    <3> QED BY <2>2, <3>1, <3>2, <3>3
  <2> QED BY <2>3
<1>7. InOrder(r, i, last, seen)
  BY <1>3, <1>4, <1>5, <1>6 DEF InOrder
<1> QED BY <1>7 DEF r

LEMMA SendOwn ==
    ASSUME NEW q \in Seq(AsyncEvent), q # <<>>, NEW i, Head(q).inst = i,
           NEW last, NEW seen \in Control \union {"NONE"}, InOrder(q, i, last, seen)
    PROVE  /\ Head(q).type \in Control
           /\ Head(q).type = "PRESTART" => seen = "NONE"
           /\ Head(q).type \in {"GO", "END"} => seen \in {"PRESTART", "GO"}
           /\ Head(q).type = "END" => last = "END"
           /\ InOrder(Tail(q), i, last, Head(q).type)
<1> DEFINE r == Tail(q)
           h == Head(q).type
<1>1. /\ \A k \in Of(r, i) : k + 1 \in Of(q, i) /\ r[k] = q[k + 1] /\ k \in Nat \ {0}
      /\ \A k \in Of(q, i) : k \in Nat \ {0} /\ (k = 1 \/ k - 1 \in Of(r, i))
      /\ 1 \in Of(q, i) /\ q[1].type = h
  BY OfTail
<1>2. \A k \in Of(q, i) : (k - 1) + 1 = k
  BY <1>1
<1>3. h \in Control
  <2>1. Head(q) \in AsyncEvent
    OBVIOUS
  <2> QED BY <2>1 DEF AsyncEvent, EventOf
<1> HIDE DEF r, h
<1>4. /\ h = "PRESTART" => seen = "NONE"
      /\ h \in {"GO", "END"} => seen \in {"PRESTART", "GO"}
      /\ h = "END" => last = "END" /\ \A j \in Of(q, i) : j = 1
  <2>1. h \in {"GO", "END"} => seen \in {"PRESTART", "GO"}
    BY <1>1 DEF InOrder
  <2>2. h = "END" => last = "END" /\ \A j \in Of(q, i) : j = 1
    BY <1>1 DEF InOrder
  <2> QED BY <1>1, <2>1, <2>2 DEF InOrder
<1>5. InOrder(r, i, last, h)
  <2>1. last \notin Unwritten
    BY <1>1 DEF InOrder
  <2>2. \A k \in Of(r, i) : r[k].type # "PRESTART"
    BY <1>1, <1>3, <1>4 DEF InOrder, Control
  <2>3. \A k \in Of(r, i) : r[k].type = "END" => last = "END" /\ \A j \in Of(r, i) : j <= k
    BY <1>1 DEF InOrder
  <2>4. h = "END" => last = "END" /\ Of(r, i) = {}
    BY <1>1, <1>4
  <2>5. last = "END" => h = "END" \/ Waits(r, i, "END")
    <3>1. SUFFICES ASSUME last = "END", h # "END" PROVE Waits(r, i, "END")
      OBVIOUS
    <3>2. seen # "END"
      BY <1>3, <1>4, <3>1 DEF Control
    <3>3. PICK k \in Of(q, i) : q[k].type = "END"
      BY <3>1, <3>2 DEF InOrder, Waits
    <3>4. k - 1 \in Of(r, i)
      BY <1>1, <3>1, <3>3
    <3>5. r[k - 1] = q[k]
      BY <1>1, <1>2, <3>3, <3>4
    <3> QED BY <3>3, <3>4, <3>5 DEF Waits
  <2> QED BY <1>3, <2>1, <2>2, <2>3, <2>4, <2>5 DEF InOrder, Control
<1> QED BY <1>3, <1>4, <1>5 DEF r, h

-----------------------------------------------------------------------------
(* The state of every open stream through a run *)

Faultless == {"edit", "load", "link"} \intersect Faults = {}

\* What is known of StreamRol from the sections above, where nothing of that
\* kind fails.
Sane == Types /\ Flow /\ FifoInv /\ IInv /\ AgreeInv /\ OpenInv /\ EndInv /\ RouteInv

OrderInv ==
    \A i \in Inst : request[i] => InOrder(asyncFifo, i, posted[i], delivered[i])

\* The last event written to an open stream, by the place of the handler.
Expected(i) ==
    CASE pc \in {"pr_net", "pr_conn"} -> Unwritten
      [] pc = "pr_event" -> IF i < idx THEN {"PRESTART"} ELSE Unwritten
      [] pc = "end_event" -> IF i < idx THEN {"END"} ELSE {"PRESTART", "GO"}
      [] pc \in {"end_flush", "end_close"} -> {"END"}
      [] OTHER -> {"PRESTART", "GO"}

PhaseInv ==
    /\ Loaded => \A i \in Inst : request[i] => Ready /\ posted[i] \in Expected(i)
    /\ Loaded /\ pc # "end_close" => \A i \in Inst : request[i] => ~ebReset
    /\ pc \in SetupPc \ {"pr_ebcfg", "pr_event"} => \A i \in Inst : posted[i] \in Unwritten
    /\ pc = "end_close" => \A i \in Inst : request[i] => delivered[i] = "END"

\* rocPrestart opens every stream of the file or, returning early, none; in a
\* run with streams no event waits for a client that is not open.
AllOpen == \A i \in Inst : i < ConnAgain => request[i]
WaitingOpen == \A k \in DOMAIN asyncFifo : request[asyncFifo[k].inst]

AllOpenInv ==
    /\ pc \in {"pr_net", "pr_conn"} => \A i \in Inst : i < idx => request[i]
    /\ pc = "pr_event" => AllOpen
    /\ Loaded /\ coda # "downloaded" /\ pc # "end_close" => NoSocket \/ AllOpen
    /\ Loaded /\ pc # "end_close" => NoSocket \/ WaitingOpen

StreamInv == OrderInv /\ PhaseInv /\ AllOpenInv

LEMMA InitStream == Init => StreamInv
BY DEF Init, EbInit, StreamInv, OrderInv, PhaseInv, AllOpenInv, Loaded, SetupPc, PrestartPc

\* With no socket open there is little to show.
LEMMA StreamNone ==
    ASSUME NoSocket', pc' \notin {"pr_net", "pr_conn", "pr_event"} \/ (pc' = "pr_net" /\ idx' = 0),
           pc' \in SetupPc \ {"pr_ebcfg", "pr_event"} => \A i \in Inst : posted'[i] \in Unwritten
    PROVE  StreamInv'
BY NumInstAssumption DEF NoSocket, StreamInv, OrderInv, PhaseInv, AllOpenInv, Inst

LEMMA OrderKept ==
    ASSUME OrderInv, UNCHANGED <<posted, delivered, asyncFifo>>,
           \A i \in Inst : request'[i] => request[i]
    PROVE  OrderInv'
BY DEF OrderInv

LEMMA EvioOrder ==
    ASSUME Types, FifoInv, OrderInv, NEW i \in Nat, NEW type \in Control, NEW count,
           EvioWriteControl(i, type, count),
           i \in Inst /\ request[i] => Ready /\ ~ebReset /\ MayFollow(type, posted[i])
    PROVE  OrderInv'
<1> DEFINE e == [inst |-> i, type |-> type, cmsg |-> ~udpRx]
<1>1. UNCHANGED <<request, delivered>>
  BY DEF EvioWriteControl, IfV7, ebVars, netVars
<1>2. \A j \in Inst : posted'[j] = IF j = i /\ Ready THEN type ELSE posted[j]
  BY EvioStep DEF Types, EbTypeOK, EbTyped, Ready
<1>3. /\ UNCHANGED asyncFifo \/ (i \in Inst /\ asyncFifo' = Append(asyncFifo, e))
      /\ i \in Inst /\ Ready /\ ~ebReset => asyncFifo' = Append(asyncFifo, e)
  BY FifoEvioStep DEF FifoInv, EvioWriteControl, IfV7, Ready
<1>4. /\ asyncFifo \in Seq(AsyncEvent)
      /\ i \in Inst => e \in AsyncEvent
      /\ e.inst = i /\ e.type = type
  BY DEF AsyncEvent, EventOf, Types, EbTypeOK, EbTyped
<1> HIDE DEF e
<1>5. SUFFICES ASSUME NEW j \in Inst, request[j]
               PROVE  InOrder(asyncFifo', j, posted'[j], delivered[j])
  BY <1>1 DEF OrderInv
<1>6. InOrder(asyncFifo, j, posted[j], delivered[j])
  BY <1>5 DEF OrderInv
<1>7. CASE j = i
  <2>1. asyncFifo' = Append(asyncFifo, e) /\ posted'[j] = type /\ MayFollow(type, posted[j])
    BY <1>2, <1>3, <1>5, <1>7
  <2>2. delivered[j] \in Control \union {"NONE"}
    BY DEF Types, EbTypeOK, EbTyped
  <2> QED BY <1>4, <1>6, <1>7, <2>1, <2>2, AppendOwn
<1>8. CASE j # i
  <2>1. posted'[j] = posted[j]
    BY <1>2, <1>8
  <2>2. CASE UNCHANGED asyncFifo
    BY <1>6, <2>1, <2>2
  <2>3. CASE i \in Inst /\ asyncFifo' = Append(asyncFifo, e)
    BY <1>4, <1>6, <1>8, <2>1, <2>3, AppendOther
  <2> QED BY <1>3, <2>2, <2>3
<1> QED BY <1>7, <1>8

LEMMA SendOrder == ASSUME Types, OrderInv, SendAsync PROVE OrderInv'
<1> DEFINE h == Head(asyncFifo)
<1>1. /\ UNCHANGED <<request, posted>> /\ asyncFifo \in Seq(AsyncEvent) /\ asyncFifo # <<>>
      /\ asyncFifo' = Tail(asyncFifo)
      /\ \A j \in Inst : /\ delivered'[j] = IF j = h.inst THEN h.type ELSE delivered[j]
                         /\ delivered[j] \in Control \union {"NONE"}
  BY DEF AsyncEvent, SendAsync, Types, EbTypeOK, EbTyped, netVars, histVars
<1>2. SUFFICES ASSUME NEW j \in Inst, request[j]
               PROVE  InOrder(Tail(asyncFifo), j, posted[j], delivered'[j])
  BY <1>1 DEF OrderInv
<1>3. InOrder(asyncFifo, j, posted[j], delivered[j])
  BY <1>2 DEF OrderInv
<1>4. CASE j = h.inst
  BY <1>1, <1>3, <1>4, SendOwn
<1>5. CASE j # h.inst
  BY <1>1, <1>3, <1>5, SendOther
<1> QED BY <1>4, <1>5

LEMMA NextStream ==
    ASSUME Faultless, Sane, FifoInv', OpenInv', StreamInv, Next PROVE StreamInv'
<1> USE DEF Flow, HandlerCoda, ReadyInv, Ready, Loaded, SetupPc, DownloadPc, PrestartPc, GoPc,
            EndPc, Goto, Return, NextRound, LastRound, LastRoundReturn, Faultless
<1>0. /\ \A i \in Inst : i \in Nat
      /\ conn \in Nat /\ idx \in Nat
  BY DEF Inst, Sane, Types, RolTypeOK
<1>1. CASE RunControl \/ GenerateConfig \/ ReleaseSync \/ HoldSync
  <2>1. UNCHANGED <<ebVars, idx>>
    BY <1>1 DEF RunControl, Download, Prestart, Go, End, Pause, Reset, Command,
                GenerateConfig, ReleaseSync, HoldSync
  <2>2. UNCHANGED <<v7Done, fwType, ebReset, request, posted, delivered, asyncFifo>>
    BY <2>1 DEF ebVars, chipVars, ctrlVars, netVars, histVars
  <2>3. OrderInv'
    BY <2>2, OrderKept DEF StreamInv
  <2>4. CASE Prestart
    <3>1. NoSocket'
      BY <2>2, <2>4 DEF Prestart, Command, Sane, OpenInv, ClosedPc, NoSocket
    <3>2. pc' = "pr_init"
      BY <2>4 DEF Prestart, Command
    <3> QED BY <3>1, <3>2, StreamNone
  <2>5. CASE ~Prestart
    <3>1. \/ ~Loaded' /\ pc' \notin PrestartPc \union {"end_close"}
          \/ Loaded' /\ Loaded /\ UNCHANGED <<cfg, pc>>
             /\ (coda' # "downloaded" => coda # "downloaded")
          \/ Loaded' /\ Loaded /\ UNCHANGED <<cfg, coda>> /\ pc = "idle" /\ coda # "downloaded"
             /\ pc' \in {"go_read", "end_read"}
      BY <1>1, <2>5 DEF Sane, RunControl, Download, Prestart, Go, End, Pause, Reset, Command,
                        GenerateConfig, ReleaseSync, HoldSync
    <3>2. CASE ~Loaded' /\ pc' \notin PrestartPc \union {"end_close"}
      BY <2>3, <3>2 DEF StreamInv, PhaseInv, AllOpenInv
    <3>3. CASE Loaded' /\ Loaded /\ UNCHANGED <<cfg, pc>>
               /\ (coda' # "downloaded" => coda # "downloaded")
      BY <2>1, <2>2, <2>3, <3>3
         DEF StreamInv, PhaseInv, Expected, AllOpenInv, AllOpen, NoSocket, WaitingOpen, ConnAgain
    <3>4. CASE Loaded' /\ Loaded /\ UNCHANGED <<cfg, coda>> /\ pc = "idle" /\ coda # "downloaded"
               /\ pc' \in {"go_read", "end_read"}
      BY <2>1, <2>2, <2>3, <3>4
         DEF StreamInv, PhaseInv, Expected, AllOpenInv, AllOpen, NoSocket, WaitingOpen, ConnAgain
    <3> QED BY <3>1, <3>2, <3>3, <3>4
  <2> QED BY <2>4, <2>5
<1>2. CASE Crash \/ DownloadV7Unmapped
  <2>1. UNCHANGED <<request, posted, delivered, asyncFifo>> /\ coda' = "booted" /\ pc' = "idle"
    BY <1>2 DEF Crash, DownloadV7Unmapped, ProcessGone, netVars, histVars
  <2>2. OrderInv'
    BY <2>1, OrderKept DEF StreamInv
  <2> QED BY <2>1, <2>2 DEF StreamInv, PhaseInv, AllOpenInv
<1>3. CASE DownloadZ7 \/ DownloadV7 \/ PrestartInit \/ PrestartFile
  <2>1. NoSocket'
    <3>1. CASE DownloadZ7
      BY <3>1 DEF OpenInv, DownloadZ7
    <3>2. CASE DownloadV7
      BY <3>2, SocketsKept DEF Sane, OpenInv, NoSocket, DownloadV7
    <3>3. CASE PrestartInit \/ PrestartFile
      BY <3>3 DEF PrestartInit, PrestartFile, ebVars, netVars, Sane, OpenInv, ClosedPc, NoSocket
    <3> QED BY <1>3, <3>1, <3>2, <3>3
  <2>2. pc' \notin SetupPc \ {"pr_ebcfg"}
    BY <1>3 DEF DownloadZ7, DownloadV7, PrestartInit, PrestartFile, PrestartDone
  <2> QED BY <2>1, <2>2, StreamNone
<1>4. CASE PrestartEbCfg \/ PrestartCmsg \/ PrestartEjfat \/ PrestartAsync \/ PrestartReset
  <2>1. NoSocket'
    BY <1>4, SocketsKept DEF PrestartEbCfg, PrestartCmsg, PrestartEjfat, PrestartAsync,
                             PrestartReset, Sane, OpenInv, ClosedPc, NoSocket
  <2>2. \A i \in Inst : posted'[i] \in Unwritten
    <3>1. CASE PrestartEbCfg
      BY <3>1 DEF PrestartEbCfg, SetEbCfg, Checked, IfV7, Sane, Unwritten
    <3>2. CASE PrestartCmsg \/ PrestartEjfat \/ PrestartAsync \/ PrestartReset
      <4>1. UNCHANGED posted
        BY <3>2, EnableSteps, QuietSteps
           DEF PrestartCmsg, PrestartEjfat, PrestartAsync, PrestartReset, watched
      <4> QED BY <3>2, <4>1
              DEF PrestartCmsg, PrestartEjfat, PrestartAsync, PrestartReset, StreamInv, PhaseInv
    <3> QED BY <1>4, <3>1, <3>2
  <2>3. pc' \in SetupPc \ {"pr_net", "pr_conn", "pr_event"} \/ (pc' = "pr_net" /\ idx' = 0)
    BY <1>4 DEF PrestartEbCfg, PrestartCmsg, PrestartEjfat, PrestartAsync, PrestartReset
  <2> QED BY <2>1, <2>2, <2>3, StreamNone
<1>5. CASE PrestartNet
  <2>1. SetNetCfg(idx) /\ pc = "pr_net" /\ pc' = "pr_conn" /\ UNCHANGED <<cfg, coda, idx>>
    BY <1>5 DEF PrestartNet
  <2>2. \A i \in Inst : request'[i] <=> request[i]
    <3>1. \A i \in Inst : request'[i] = (request[i] /\ ~(fwType /\ i = idx))
      BY <1>0, <2>1, SocketSteps DEF Sane
    <3>2. \A i \in Inst : request[i] => i # idx
      BY <1>0, <2>1 DEF Sane, OpenInv
    <3> QED BY <3>1, <3>2
  <2>3. UNCHANGED <<v7Done, fwType, ebReset, posted, delivered, asyncFifo>>
    BY <2>1 DEF SetNetCfg, ebVars, chipVars, ctrlVars, histVars
  <2>4. asyncFifo' = <<>>
    BY <2>1, <2>3 DEF Sane, FifoInv, SetupStart
  <2>5. OrderInv'
    BY <2>2, <2>3, OrderKept DEF StreamInv
  <2> QED BY <2>1, <2>2, <2>3, <2>4, <2>5
          DEF Sane, StreamInv, PhaseInv, Expected, AllOpenInv, WaitingOpen
<1>6. CASE PrestartConnect
  <2>0. pc = "pr_conn" /\ UNCHANGED <<cfg, coda>> /\ Ready /\ coda = "downloaded"
    BY <1>6 DEF PrestartConnect, Sane
  <2>1. TcpConnect(idx, TRUE)
    BY <1>6 DEF PrestartConnect, Outcome
  <2>2. \A i \in Inst : request'[i] <=> request[i] \/ i = idx
    <3>1. \A i \in Inst : request'[i] = (request[i] \/ (fwType /\ i = idx))
      BY <1>0, <2>1, SocketSteps DEF Sane
    <3> QED BY <2>0, <3>1
  <2>3. UNCHANGED <<v7Done, fwType, posted>> /\ (ebReset' => ebReset)
    BY <2>1 DEF TcpConnect, ebVars, chipVars, ctrlVars, histVars
  <2>4. asyncFifo = <<>> /\ asyncFifo' = <<>>
    BY <2>0, <2>1 DEF TcpConnect, ebVars, Sane, FifoInv, SetupStart
  <2>5. \A i \in Inst : delivered'[i] = IF i = idx THEN "NONE" ELSE delivered[i]
    BY <2>0, <2>1 DEF TcpConnect, ebVars, Sane, Types, EbTypeOK, EbTyped
  <2>6. \A i \in Inst : request[i] => i < idx /\ ~ebReset
    BY <2>0 DEF Sane, OpenInv, StreamInv, PhaseInv
  <2>7. \A i \in Inst : request'[i] => ~ebReset'
    BY <2>0, <2>1, <2>2, <2>3, <2>6 DEF TcpConnect
  <2>8. \A i \in Inst : posted'[i] \in Unwritten
    BY <2>0, <2>3 DEF StreamInv, PhaseInv
  <2>9. OrderInv'
    <3>1. SUFFICES ASSUME NEW i \in Inst, request'[i]
                   PROVE  InOrder(<<>>, i, posted'[i], delivered'[i])
      BY <2>4 DEF OrderInv
    <3>2. CASE i = idx
      <4>1. delivered'[i] = "NONE" /\ posted'[i] \in Unwritten
        BY <2>5, <2>8, <3>2
      <4> QED BY <4>1, EmptyInOrder
    <3>3. CASE i # idx
      <4>1. InOrder(<<>>, i, posted[i], delivered[i])
        BY <2>2, <2>4, <3>1, <3>3 DEF StreamInv, OrderInv
      <4> QED BY <2>3, <2>5, <3>3, <4>1
    <3> QED BY <3>2, <3>3
  <2>10. \A i \in Inst : i < idx + 1 => request'[i]
    BY <1>0, <2>0, <2>2 DEF StreamInv, AllOpenInv
  <2>11. \/ pc' = "pr_net" /\ idx' = idx + 1
         \/ pc' = "pr_event" /\ idx' = 0 /\ idx + 1 >= conn
    BY <1>6 DEF PrestartConnect
  <2>12. conn = ConnAgain'
    BY <2>0, NoConfigAssumption DEF Sane, IInv, SetupLocals, ConnAgain
  <2>13. pc' = "pr_event" => AllOpen'
    BY <1>0, <2>10, <2>11, <2>12 DEF AllOpen
  <2>14. PhaseInv'
    BY <1>0, <2>0, <2>3, <2>7, <2>8, <2>11 DEF PhaseInv, Expected
  <2>15. AllOpenInv'
    BY <2>0, <2>4, <2>10, <2>11, <2>13 DEF AllOpenInv, WaitingOpen
  <2> QED BY <2>9, <2>14, <2>15 DEF StreamInv
<1>7. CASE PrestartEvent \/ GoEvent \/ EndEvent
  <2> DEFINE type == CASE pc = "pr_event" -> "PRESTART" [] pc = "go_event" -> "GO" [] OTHER -> "END"
  <2>1. /\ pc \in {"pr_event", "go_event", "end_event"}
        /\ \E count : EvioWriteControl(idx, type, count)
        /\ type \in Control
    BY <1>7 DEF PrestartEvent, GoEvent, EndEvent, Control
  <2>2. Loaded /\ UNCHANGED cfg /\ (UNCHANGED conn \/ conn' = 0)
    BY <1>7, <2>1 DEF Sane, PrestartEvent, GoEvent, EndEvent
  <2>3. UNCHANGED <<request, delivered, ebReset, v7Done, fwType>>
    BY <2>1 DEF EvioWriteControl, IfV7, ebVars, chipVars, ctrlVars, netVars
  <2>4. \A i \in Inst : posted'[i] = IF i = idx /\ Ready THEN type ELSE posted[i]
    BY <2>1, EvioStep DEF Sane, Types, EbTypeOK, EbTyped
  <2>5. conn = ConnAgain
    BY <2>1, NoConfigAssumption DEF Sane, IInv, SetupLocals, GoLocals, AgreeInv, ConnAgain
  <2>6. idx < conn
    BY <2>1 DEF Sane, IInv, SetupLocals, AgreeInv
  <2>7. \A i \in Inst : request[i] => Ready /\ ~ebReset /\ posted[i] \in Expected(i) /\ i < conn
    BY <2>1, <2>2, <2>5 DEF StreamInv, PhaseInv, Sane, OpenInv
  <2>8. OrderInv'
    <3>1. idx \in Inst /\ request[idx] => Ready /\ ~ebReset /\ MayFollow(type, posted[idx])
      BY <1>0, <2>1, <2>7 DEF Expected, MayFollow
    <3>2. PICK count : EvioWriteControl(idx, type, count)
      BY <2>1
    <3> HIDE DEF type
    <3> QED BY <1>0, <2>1, <3>1, <3>2, EvioOrder DEF Sane, StreamInv
  <2>9. \A i \in Inst : request[i] =>
            posted'[i] \in CASE pc = "pr_event" -> IF i < idx + 1 THEN {"PRESTART"} ELSE Unwritten
                             [] pc = "go_event" -> {"PRESTART", "GO"}
                             [] OTHER -> IF i < idx + 1 THEN {"END"} ELSE {"PRESTART", "GO"}
    BY <1>0, <2>1, <2>4, <2>7 DEF Expected
  <2>10. \/ pc' = pc /\ idx' = idx + 1 /\ UNCHANGED coda
         \/ /\ idx + 1 >= conn
            /\ \/ pc = "pr_event" /\ pc' = "idle" /\ coda' = "prestarted"
               \/ pc = "go_event" /\ pc' = "go_enable" /\ UNCHANGED coda
               \/ pc = "end_event" /\ pc' = "end_flush" /\ UNCHANGED coda
    BY <1>7 DEF PrestartEvent, GoEvent, EndEvent
  <2>11. \A i \in Inst : request[i] => posted'[i] \in Expected(i)'
    BY <1>0, <2>1, <2>7, <2>9, <2>10 DEF Expected
  <2>12. PhaseInv'
    BY <2>1, <2>3, <2>7, <2>10, <2>11 DEF PhaseInv
  <2>13. NoSocket \/ AllOpen
    BY <2>1, <2>2 DEF StreamInv, AllOpenInv, Sane
  <2>14. (NoSocket \/ AllOpen)' /\ (AllOpen => AllOpen')
    BY <2>2, <2>3, <2>13 DEF NoSocket, AllOpen, ConnAgain
  <2>15. (NoSocket \/ WaitingOpen)'
    <3>1. CASE NoSocket
      BY <2>3, <3>1 DEF NoSocket
    <3>2. CASE ~NoSocket
      <4>1. AllOpen /\ WaitingOpen
        BY <2>1, <2>2, <2>13, <3>2 DEF StreamInv, AllOpenInv
      <4>2. PICK count : EvioWriteControl(idx, type, count)
        BY <2>1
      <4> DEFINE e == [inst |-> idx, type |-> type, cmsg |-> ~udpRx]
      <4> HIDE DEF type
      <4>3. \/ UNCHANGED asyncFifo
            \/ idx \in Inst /\ asyncFifo' = Append(asyncFifo, e)
        BY <4>2, FifoEvioStep DEF Sane, FifoInv
      <4>4. idx \in Inst => e \in AsyncEvent
        BY <2>1 DEF AsyncEvent, EventOf, Sane, Types, EbTypeOK, EbTyped
      <4>5. e.inst = idx
        OBVIOUS
      <4> HIDE DEF e
      <4>6. CASE UNCHANGED asyncFifo
        BY <2>3, <4>1, <4>6 DEF WaitingOpen
      <4>7. CASE idx \in Inst /\ asyncFifo' = Append(asyncFifo, e)
        <5>1. request[idx]
          BY <2>5, <2>6, <4>1, <4>7 DEF AllOpen
        <5>2. \A k \in DOMAIN asyncFifo' :
                 asyncFifo'[k] = e \/ (k \in DOMAIN asyncFifo /\ asyncFifo'[k] = asyncFifo[k])
          BY <4>4, <4>7 DEF Sane, Types, EbTypeOK, EbTyped
        <5> QED BY <2>3, <4>1, <4>5, <5>1, <5>2 DEF WaitingOpen
      <4> QED BY <4>3, <4>6, <4>7
    <3> QED BY <3>1, <3>2
  <2> QED BY <2>1, <2>8, <2>10, <2>12, <2>14, <2>15 DEF StreamInv, AllOpenInv
<1>8. CASE GoRead \/ GoEnable \/ EndRead \/ EndWait \/ EndAsync
  <2>1. UNCHANGED <<request, v7Done, fwType, posted, delivered, asyncFifo>> /\ (ebReset' => ebReset)
    BY <1>8 DEF GoRead, GoEnable, EndRead, EndWait, EndAsync, EbEnable, IfV7, ebVars, chipVars,
                ctrlVars, netVars, histVars
  <2>2. /\ Loaded /\ coda # "downloaded" /\ UNCHANGED cfg /\ coda' # "downloaded"
        /\ pc \in {"go_read", "go_enable", "end_read", "end_wait", "end_async"}
        /\ pc' \in {"go_event", "idle", "end_wait", "end_async"} \/ (pc' = "end_event" /\ idx' = 0)
    BY <1>8 DEF GoRead, GoEnable, EndRead, EndWait, EndAsync, Sane
  <2>3. OrderInv'
    BY <2>1, OrderKept DEF StreamInv
  <2>4. \A i \in Inst : request[i] => ~ebReset /\ Ready /\ posted[i] \in {"PRESTART", "GO"}
    BY <2>2 DEF StreamInv, PhaseInv, Expected
  <2>5. PhaseInv'
    BY <1>0, <2>1, <2>2, <2>4 DEF PhaseInv, Expected
  <2>6. AllOpenInv'
    BY <2>1, <2>2 DEF StreamInv, AllOpenInv, NoSocket, AllOpen, WaitingOpen, ConnAgain
  <2> QED BY <2>3, <2>5, <2>6 DEF StreamInv
<1>9. CASE EndFlush
  <2>1. /\ UNCHANGED <<ebVars, cfg, coda>> /\ pc = "end_flush" /\ pc' = "end_close"
        /\ asyncFifo # <<>> => ~link[Head(asyncFifo).inst]
    BY <1>9 DEF EndFlush
  <2>2. UNCHANGED <<request, v7Done, fwType, posted, delivered, asyncFifo>>
    BY <2>1 DEF ebVars, chipVars, netVars, histVars
  <2>3. OrderInv'
    BY <2>2, OrderKept DEF StreamInv
  <2>4. Loaded /\ \A i \in Inst : request[i] => Ready /\ posted[i] = "END"
    BY <2>1 DEF StreamInv, PhaseInv, Expected, Sane
  <2>5. NoSocket \/ asyncFifo = <<>>
    <3>1. SUFFICES ASSUME ~NoSocket, asyncFifo # <<>> PROVE FALSE
      OBVIOUS
    <3>2. 1 \in DOMAIN asyncFifo /\ Head(asyncFifo) = asyncFifo[1] /\ asyncFifo[1].inst \in Inst
      <4>1. asyncFifo \in Seq(AsyncEvent)
        BY DEF AsyncEvent, Sane, Types, EbTypeOK, EbTyped
      <4>2. 1 \in DOMAIN asyncFifo /\ Head(asyncFifo) = asyncFifo[1] /\ asyncFifo[1] \in AsyncEvent
        BY <3>1, <4>1
      <4> QED BY <4>2 DEF AsyncEvent, EventOf
    <3>3. request[asyncFifo[1].inst]
      BY <2>1, <2>4, <3>1, <3>2 DEF StreamInv, AllOpenInv, WaitingOpen
    <3> QED BY <2>1, <3>1, <3>2, <3>3 DEF Sane, EndInv, LinksStand
  <2>6. \A i \in Inst : request[i] => delivered[i] = "END"
    <3>1. SUFFICES ASSUME NEW i \in Inst, request[i] PROVE delivered[i] = "END"
      OBVIOUS
    <3>2. asyncFifo = <<>> /\ posted[i] = "END"
      BY <2>4, <2>5, <3>1 DEF NoSocket
    <3>3. InOrder(<<>>, i, "END", delivered[i])
      BY <3>1, <3>2 DEF StreamInv, OrderInv
    <3> QED BY <3>3 DEF InOrder, Waits, Of
  <2>7. PhaseInv'
    BY <2>1, <2>2, <2>4, <2>6 DEF PhaseInv, Expected
  <2> QED BY <2>1, <2>3, <2>7 DEF StreamInv, AllOpenInv
<1>10. CASE EndClose
  <2>1. TcpDisconnect(idx) /\ pc = "end_close" /\ Loaded
    BY <1>10 DEF EndClose, Sane
  <2>2. /\ UNCHANGED <<posted, delivered, v7Done, fwType>>
        /\ FifoEmptied \/ UNCHANGED asyncFifo
    BY <2>1 DEF TcpDisconnect, ebVars, chipVars, histVars, FifoEmptied
  <2>3. \A i \in Inst : request'[i] => request[i]
    <3>1. \A i \in Inst : request'[i] = (request[i] /\ ~(fwType /\ i = idx))
      BY <1>0, <2>1, SocketSteps DEF Sane
    <3> QED BY <3>1
  <2>4. \A i \in Inst : request[i] => Ready /\ posted[i] = "END" /\ delivered[i] = "END"
    BY <2>1 DEF StreamInv, PhaseInv, Expected
  <2>5. OrderInv'
    <3>1. CASE UNCHANGED asyncFifo
      BY <2>2, <2>3, <3>1, OrderKept DEF StreamInv
    <3>2. CASE FifoEmptied
      <4>1. SUFFICES ASSUME NEW i \in Inst, request'[i]
                     PROVE  InOrder(<<>>, i, posted'[i], delivered'[i])
        BY <3>2 DEF OrderInv, FifoEmptied
      <4>2. posted'[i] = "END" /\ delivered'[i] = "END"
        BY <2>2, <2>3, <2>4, <4>1
      <4> QED BY <4>2, EmptyInOrder
    <3> QED BY <2>2, <3>1, <3>2
  <2>6. pc' = "end_close" \/ (pc' = "idle" /\ coda' = "downloaded")
    BY <1>10 DEF EndClose
  <2>7. CASE pc' = "end_close"
    <3>1. PhaseInv'
      BY <2>2, <2>3, <2>4, <2>7 DEF PhaseInv, Expected
    <3> QED BY <2>5, <2>7, <3>1 DEF StreamInv, AllOpenInv
  <2>8. CASE pc' = "idle" /\ coda' = "downloaded"
    <3>1. NoSocket'
      BY <2>8 DEF OpenInv, ClosedPc
    <3> QED BY <2>8, <3>1, StreamNone
  <2> QED BY <2>6, <2>7, <2>8
<1>11. CASE Hardware
  <2>1. UNCHANGED <<rolVars, request, posted, v7Done, fwType, ebReset>>
    BY <1>11 DEF Hardware, SendAsync, BuildFrame, SendFrame, chipVars, ctrlVars, netVars, histVars
  <2>2. CASE SendAsync
    <3>1. OrderInv'
      BY <2>2, SendOrder DEF Sane, StreamInv
    <3>2. WaitingOpen => WaitingOpen'
      BY <2>1, <2>2 DEF SendAsync, WaitingOpen, Sane, Types, EbTypeOK, EbTyped
    <3>3. pc # "end_close"
      BY <2>2 DEF SendAsync, Sane, FifoInv
    <3> QED BY <2>1, <3>1, <3>2, <3>3
            DEF rolVars, StreamInv, PhaseInv, Expected, AllOpenInv, AllOpen, NoSocket, ConnAgain
  <2>3. CASE \E i \in Inst : BuildFrame(i, sync) \/ SendFrame(i)
    <3>1. UNCHANGED <<asyncFifo, delivered>>
      BY <2>3 DEF BuildFrame, SendFrame
    <3> QED BY <2>1, <3>1, OrderKept
            DEF rolVars, StreamInv, PhaseInv, Expected, AllOpenInv, AllOpen, NoSocket, WaitingOpen,
                ConnAgain
  <2> QED BY <1>11, <2>2, <2>3 DEF Hardware
<1> QED BY <1>1, <1>2, <1>3, <1>4, <1>5, <1>6, <1>7, <1>8, <1>9, <1>10, <1>11 DEF Next, Rol

LEMMA StutterStream == ASSUME StreamInv, UNCHANGED vars PROVE StreamInv'
BY DEF StreamInv, OrderInv, PhaseInv, Expected, AllOpenInv, AllOpen, NoSocket, WaitingOpen, Ready,
       Loaded, ConnAgain, vars, rolVars, ebVars, chipVars, ctrlVars, netVars, histVars

-----------------------------------------------------------------------------
(* StreamRol implements RunStream *)

LEMMA ReceiverInit == Init => Receiver!Init
BY DEF Init, EbInit, Receiver!Init

\* What the receiver sees is what is open, delivered and sent, and the count
\* of an End event it has.
LEMMA ReceiverStutter ==
    ASSUME UNCHANGED <<request, delivered, framesSent>>,
           \A i \in Inst : request[i] /\ delivered[i] = "END" => endCount'[i] = endCount[i]
    PROVE  UNCHANGED Receiver!vars
BY DEF Receiver!vars

LEMMA ReceiverRestart ==
    ASSUME request' = [i \in Inst |-> FALSE], framesSent' = [i \in Inst |-> 0], UNCHANGED delivered
    PROVE  Receiver!Restart
BY DEF Receiver!Restart

LEMMA NoSocketFunction ==
    ASSUME Types, NoSocket PROVE request = [i \in Inst |-> FALSE]
BY DEF Types, EbTypeOK, EbTyped, NoSocket

\* An event of an open stream arrives: it may follow what the stream had.
LEMMA ReceiverEvent ==
    ASSUME Sane, StreamInv, SendAsync PROVE Receiver!Next
<1>1. /\ UNCHANGED <<request, framesSent, endCount, posted>>
      /\ delivered' = [delivered EXCEPT ![Head(asyncFifo).inst] = Head(asyncFifo).type]
      /\ asyncFifo # <<>> /\ link[Head(asyncFifo).inst]
      /\ asyncFifo \in Seq(AsyncEvent) /\ Head(asyncFifo) \in AsyncEvent
  BY DEF AsyncEvent, SendAsync, netVars, dataVars, histVars, Sane, Types, EbTypeOK, EbTyped
<1>2. PICK i \in Inst, e \in Control : i = Head(asyncFifo).inst /\ e = Head(asyncFifo).type
  BY <1>1 DEF AsyncEvent, EventOf
<1>3. delivered[i] \in Control \union {"NONE"}
  BY DEF Sane, Types, EbTypeOK, EbTyped
<1>4. request[i]
  BY <1>1, <1>2 DEF Sane, EndInv, LinksStand
<1>5. InOrder(asyncFifo, i, posted[i], delivered[i])
  BY <1>4 DEF StreamInv, OrderInv
<1>6. /\ e = "PRESTART" => delivered[i] = "NONE"
      /\ e \in {"GO", "END"} => delivered[i] \in {"PRESTART", "GO"}
      /\ e = "END" => posted[i] = "END"
  <2>1. Head(asyncFifo).inst = i
    BY <1>2
  <2> QED BY <1>1, <1>2, <1>3, <1>5, <2>1, SendOwn
<1>7. e = "END" => endCount[i] = framesSent[i]
  BY <1>4, <1>6, FramesSentCounts DEF Sane, EndInv, Ended
<1>8. Receiver!Event(i, e)
  <2>1. request[i] /\ delivered[i] \in Receiver!Follows(e)
    BY <1>4, <1>6 DEF Receiver!Follows, Control
  <2>2. delivered[i] # "END"
    BY <1>6 DEF Control
  <2>3. \A j \in Inst : delivered'[j] = IF j = i THEN e ELSE delivered[j]
    BY <1>1, <1>2 DEF Sane, Types, EbTypeOK, EbTyped
  <2>4. [j \in Inst |-> IF request'[j] /\ delivered'[j] = "END" THEN endCount'[j] ELSE 0]
        = [[j \in Inst |-> IF request[j] /\ delivered[j] = "END" THEN endCount[j] ELSE 0]
            EXCEPT ![i] = IF e = "END" THEN framesSent[i] ELSE @]
    BY <1>1, <1>4, <1>7, <2>2, <2>3
  <2> QED BY <1>1, <1>2, <2>1, <2>4 DEF Receiver!Event
<1> QED BY <1>8 DEF Receiver!Next, Control

\* rocPrestart opens the streams, each once.
LEMMA ReceiverOpen ==
    ASSUME Sane, TcpConnect(idx, TRUE), idx \in Inst => ~request[idx]
    PROVE  [Receiver!Next]_(Receiver!vars)
<1>1. CASE fwType /\ idx \in Inst
  <2>1. /\ request' = [request EXCEPT ![idx] = TRUE]
        /\ delivered' = [delivered EXCEPT ![idx] = "NONE"]
        /\ UNCHANGED <<framesSent, endCount>>
        /\ idx \in Inst /\ ~request[idx] /\ request \in [Inst -> BOOLEAN]
    BY <1>1 DEF TcpConnect, dataVars, histVars, Sane, Types, EbTypeOK, EbTyped
  <2>2. \A j \in Inst :
           /\ request'[j] = IF j = idx THEN TRUE ELSE request[j]
           /\ delivered'[j] = IF j = idx THEN "NONE" ELSE delivered[j]
    BY <2>1 DEF Sane, Types, EbTypeOK, EbTyped
  <2>3. \A j \in Inst :
           (IF request'[j] /\ delivered'[j] = "END" THEN endCount'[j] ELSE 0)
           = IF request[j] /\ delivered[j] = "END" THEN endCount[j] ELSE 0
    BY <2>1, <2>2
  <2>4. [j \in Inst |-> IF request'[j] /\ delivered'[j] = "END" THEN endCount'[j] ELSE 0]
        = [j \in Inst |-> IF request[j] /\ delivered[j] = "END" THEN endCount[j] ELSE 0]
    BY <2>3
  <2>5. Receiver!Open(idx)
    BY <2>1, <2>4 DEF Receiver!Open
  <2> QED BY <2>1, <2>5 DEF Receiver!Next
<1>2. CASE ~(fwType /\ idx \in Inst)
  BY <1>2, ReceiverStutter DEF TcpConnect, ebVars, netVars, dataVars, histVars
<1> QED BY <1>1, <1>2

\* rocEnd closes each stream that is open, and has its End event.
LEMMA ReceiverClose ==
    ASSUME Sane, TcpDisconnect(idx), \A i \in Inst : request[i] => delivered[i] = "END"
    PROVE  [Receiver!Next]_(Receiver!vars)
<1>1. UNCHANGED <<delivered, framesSent, endCount>> /\ request \in [Inst -> BOOLEAN]
  BY DEF TcpDisconnect, ebVars, dataVars, histVars, Sane, Types, EbTypeOK, EbTyped
<1>2. CASE fwType /\ idx \in Inst
  <2>0. PICK i \in Inst : i = idx
    BY <1>2
  <2>1. request' = [request EXCEPT ![i] = FALSE]
    BY <1>2, <2>0 DEF TcpDisconnect
  <2>2. CASE request[i]
    <3>1. \A j \in Inst :
             (IF request'[j] /\ delivered'[j] = "END" THEN endCount'[j] ELSE 0)
             = IF j = i THEN 0
               ELSE IF request[j] /\ delivered[j] = "END" THEN endCount[j] ELSE 0
      BY <1>1, <2>1
    <3>2. [j \in Inst |-> IF request'[j] /\ delivered'[j] = "END" THEN endCount'[j] ELSE 0]
          = [[j \in Inst |-> IF request[j] /\ delivered[j] = "END" THEN endCount[j] ELSE 0]
              EXCEPT ![i] = 0]
      BY <2>1, <3>1
    <3>3. Receiver!Close(i)
      BY <1>1, <2>0, <2>1, <2>2, <3>2 DEF Receiver!Close
    <3> QED BY <3>3 DEF Receiver!Next
  <2>3. CASE ~request[i]
    <3>1. request' = request
      BY <1>1, <2>1, <2>3
    <3> QED BY <1>1, <3>1, ReceiverStutter
  <2> QED BY <2>2, <2>3
<1>3. CASE ~(fwType /\ idx \in Inst)
  BY <1>3, ReceiverStutter DEF TcpDisconnect, ebVars, netVars, dataVars, histVars
<1> QED BY <1>2, <1>3

\* No frame is sent on a stream whose receiver has its End event.
LEMMA ReceiverFrame ==
    ASSUME Sane, StreamInv, NEW i \in Inst, SendFrame(i)
    PROVE  Receiver!Next
<1>1. /\ UNCHANGED <<request, delivered, endCount>> /\ link[i] /\ inFlight[i] > 0
      /\ framesSent' = [framesSent EXCEPT ![i] = @ + 1]
  BY DEF SendFrame, netVars, histVars
<1>2. request[i]
  BY <1>1 DEF Sane, EndInv, LinksStand
<1>3. delivered[i] # "END"
  <2>1. delivered[i] = "END" => Ended(i)
    BY <1>2 DEF StreamInv, OrderInv, InOrder, Ended
  <2> QED BY <1>1, <2>1 DEF Sane, EndInv
<1>4. Receiver!Frame(i)
  BY <1>1, <1>2, <1>3 DEF Receiver!Frame
<1> QED BY <1>4 DEF Receiver!Next

\* An event is written: the receiver sees nothing, nor does the count of a
\* stream that has ended change.
LEMMA ReceiverWrite ==
    ASSUME Sane, StreamInv, NEW type, NEW count, EvioWriteControl(idx, type, count),
           type = "END" => pc = "end_event"
    PROVE  UNCHANGED Receiver!vars
<1>1. UNCHANGED <<request, delivered, framesSent>>
  BY DEF EvioWriteControl, IfV7, ebVars, netVars, dataVars
<1>2. ASSUME NEW i \in Inst, request[i], delivered[i] = "END" PROVE endCount'[i] = endCount[i]
  <2>1. type = "END" => i # idx
    <3>1. SUFFICES ASSUME pc = "end_event" PROVE i # idx
      OBVIOUS
    <3>2. Loaded
      BY <3>1 DEF Sane, Flow, HandlerCoda, EndPc, DownloadPc, Loaded
    <3>3. posted[i] = "END" /\ posted[i] \in Expected(i)
      BY <1>2, <3>2 DEF StreamInv, OrderInv, InOrder, PhaseInv
    <3> QED BY <3>1, <3>3 DEF Expected, Inst
  <2> QED BY <1>2, <2>1 DEF EvioWriteControl, IfV7, ebVars, histVars, Sane, Types, EbTypeOK, EbTyped
<1> QED BY <1>1, <1>2, ReceiverStutter

\* Every step of the readout list and its hardware is a step of RunStream, or
\* nothing the receiver sees.
LEMMA ReceiverStep ==
    ASSUME Faultless, Sane, StreamInv, Next PROVE [Receiver!Next]_(Receiver!vars)
<1> USE DEF Flow, HandlerCoda, SetupPc, DownloadPc, PrestartPc, EndPc, Goto
<1>0. Types /\ Flow /\ OpenInv /\ NoConfig \notin Configs
  BY NoConfigAssumption DEF Sane
<1>1. CASE \/ RunControl \/ GenerateConfig \/ ReleaseSync \/ HoldSync
           \/ PrestartInit \/ PrestartFile \/ GoRead \/ EndRead \/ EndWait \/ EndFlush
           \/ Crash \/ DownloadV7Unmapped
  <2>1. UNCHANGED <<request, delivered, framesSent, endCount>>
    BY <1>1 DEF RunControl, Download, Prestart, Go, End, Pause, Reset, Command, GenerateConfig,
                ReleaseSync, HoldSync, PrestartInit, PrestartFile, GoRead, EndRead, EndWait,
                EndFlush, Crash, DownloadV7Unmapped, ProcessGone, ebVars, netVars, dataVars, histVars
  <2> QED BY <2>1, ReceiverStutter
<1>2. CASE DownloadZ7
  <2>1. Z7CfgLoad(TRUE)
    BY <1>2 DEF DownloadZ7, Outcome, Faultless
  <2>2. Receiver!Restart
    BY <2>1, ReceiverRestart DEF Z7CfgLoad
  <2> QED BY <2>2 DEF Receiver!Next
<1>3. CASE DownloadV7 \/ PrestartEbCfg
  <2>1. NoSocket
    BY <1>0, <1>3 DEF DownloadV7, PrestartEbCfg, OpenInv, ClosedPc
  <2>2. UNCHANGED <<request, delivered, framesSent>>
    BY <1>3 DEF DownloadV7, V7CfgLoad, PrestartEbCfg, SetEbCfg, Checked, IfV7, ebVars, netVars,
                dataVars
  <2> QED BY <2>1, <2>2, ReceiverStutter DEF NoSocket
<1>4. CASE PrestartCmsg \/ PrestartEjfat \/ PrestartAsync \/ GoEnable \/ EndAsync
  <2>1. UNCHANGED <<request, delivered, framesSent, endCount>>
    BY <1>4 DEF PrestartCmsg, PrestartEjfat, PrestartAsync, GoEnable, EndAsync, EbEnable,
                EbDisable, IfV7, ebVars, netVars, dataVars, histVars
  <2> QED BY <2>1, ReceiverStutter
<1>5. CASE PrestartReset
  <2>1. NoSocket
    BY <1>0, <1>5 DEF PrestartReset, OpenInv, ClosedPc
  <2>2. request = [i \in Inst |-> FALSE]
    BY <1>0, <2>1, NoSocketFunction
  <2>3. CASE v7Done
    <3>1. Receiver!Restart
      BY <1>5, <2>2, <2>3, ReceiverRestart DEF PrestartReset, ResetDataPath, IfV7
    <3> QED BY <3>1 DEF Receiver!Next
  <2>4. CASE ~v7Done
    BY <1>5, <2>4, ReceiverStutter
       DEF PrestartReset, ResetDataPath, IfV7, ebVars, netVars, dataVars, histVars
  <2> QED BY <2>3, <2>4
<1>6. CASE PrestartNet
  <2>1. pc = "pr_net" /\ SetNetCfg(idx)
    BY <1>6 DEF PrestartNet
  <2>2. idx \in Inst => ~request[idx]
    BY <1>0, <2>1 DEF OpenInv, Inst
  <2>3. UNCHANGED <<request, delivered, framesSent, endCount>>
    <3>1. CASE fwType /\ idx \in Inst
      <4>1. request' = [request EXCEPT ![idx] = FALSE] /\ request \in [Inst -> BOOLEAN]
        BY <1>0, <2>1, <3>1 DEF SetNetCfg, Types, EbTypeOK, EbTyped
      <4>2. request' = request
        BY <2>2, <3>1, <4>1
      <4> QED BY <2>1, <3>1, <4>2 DEF SetNetCfg, dataVars, histVars
    <3>2. CASE ~(fwType /\ idx \in Inst)
      BY <2>1, <3>2 DEF SetNetCfg, ebVars, netVars, dataVars, histVars
    <3> QED BY <3>1, <3>2
  <2> QED BY <2>3, ReceiverStutter
<1>7. CASE PrestartConnect
  <2>1. pc = "pr_conn" /\ TcpConnect(idx, TRUE)
    BY <1>7 DEF PrestartConnect, Outcome, Faultless
  <2>2. idx \in Inst => ~request[idx]
    BY <1>0, <2>1 DEF OpenInv, Inst
  <2> QED BY <2>1, <2>2, ReceiverOpen
<1>8. CASE PrestartEvent \/ GoEvent
  <2>1. PICK type \in {"PRESTART", "GO"} : EvioWriteControl(idx, type, 0)
    BY <1>8 DEF PrestartEvent, GoEvent
  <2> QED BY <2>1, ReceiverWrite
<1>9. CASE EndEvent
  <2>1. PICK count : EvioWriteControl(idx, "END", count)
    BY <1>9 DEF EndEvent
  <2>2. pc = "end_event"
    BY <1>9 DEF EndEvent
  <2> QED BY <2>1, <2>2, ReceiverWrite
<1>10. CASE EndClose
  <2>1. TcpDisconnect(idx) /\ pc = "end_close"
    BY <1>10 DEF EndClose
  <2>2. \A i \in Inst : request[i] => delivered[i] = "END"
    BY <2>1 DEF StreamInv, PhaseInv
  <2> QED BY <2>1, <2>2, ReceiverClose
<1>11. CASE Hardware
  <2>1. SendAsync \/ \E i \in Inst : BuildFrame(i, sync) \/ SendFrame(i)
    BY <1>11 DEF Hardware, Faultless
  <2>2. CASE SendAsync
    BY <2>2, ReceiverEvent
  <2>3. CASE \E i \in Inst : BuildFrame(i, sync)
    BY <2>3, ReceiverStutter DEF BuildFrame, netVars, histVars
  <2>4. CASE \E i \in Inst : SendFrame(i)
    BY <2>4, ReceiverFrame
  <2> QED BY <2>1, <2>2, <2>3, <2>4
<1> QED BY <1>1, <1>2, <1>3, <1>4, <1>5, <1>6, <1>7, <1>8, <1>9, <1>10, <1>11 DEF Next, Rol

\* Where the firmware loads, the file is written only during a download and
\* connections stand, each receiver sees what RunStream promises: Prestart, Go
\* after each pause, one End with the number of frames, and no frame after it
\* (rocPrestart, rocGo, rocEnd).  A failed vtpInit, a missing file and a crash
\* of the component at any step are allowed.
THEOREM RunStreamImplemented == ASSUME Faultless PROVE Spec => ImplementsRunStream
<1> DEFINE Inv == Sane /\ StreamInv
<1>1. Init => Inv
  BY InitType, InitFlow, InitFifo, InitIInv, InitAgree, InitOpen, InitEnd, InitRoute, InitStream
     DEF Sane, Types
<1>2. Inv /\ [Next]_vars => Inv'
  <2>1. Inv /\ Next => Inv'
    <3>1. SUFFICES ASSUME Inv, Next PROVE Inv'
      OBVIOUS
    <3>2. "edit" \notin Faults /\ "link" \notin Faults /\ {"edit", "load"} \intersect Faults = {}
      BY DEF Faultless
    <3>3. Types /\ Flow /\ FifoInv /\ IInv /\ AgreeInv /\ OpenInv /\ EndInv /\ RouteInv
      BY <3>1 DEF Sane
    <3>4. Types' /\ Flow' /\ FifoInv' /\ IInv'
      BY <3>1, <3>2, <3>3, NextEbType, NextRolType, NextFlow, NextFifo, NextIInv DEF Types
    <3>5. AgreeInv' /\ OpenInv' /\ EndInv' /\ RouteInv'
      BY <3>1, <3>2, <3>3, NextAgree, NextOpen, NextEnd, NextRoute
    <3>6. StreamInv'
      BY <3>1, <3>4, <3>5, NextStream
    <3> QED BY <3>4, <3>5, <3>6 DEF Sane
  <2>2. Inv /\ UNCHANGED vars => Inv'
    BY StutterType, StutterFlow, StutterFifo, StutterIInv, StutterAgree, StutterOpen, StutterEnd,
       StutterRoute, StutterStream DEF Sane, Types
  <2> QED BY <2>1, <2>2
<1>3. Inv /\ [Next]_vars => [Receiver!Next]_(Receiver!vars)
  <2>1. Inv /\ Next => [Receiver!Next]_(Receiver!vars)
    BY ReceiverStep
  <2>2. Inv /\ UNCHANGED vars => UNCHANGED Receiver!vars
    BY ReceiverStutter DEF vars, ebVars, netVars, dataVars, histVars
  <2> QED BY <2>1, <2>2
<1> QED BY <1>1, <1>2, <1>3, ReceiverInit, PTL DEF Spec, ImplementsRunStream, Receiver!Spec
=============================================================================
