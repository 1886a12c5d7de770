--------------------------- MODULE StreamEb_proofs ---------------------------
(***************************************************************************)
(* What each operation of StreamEb keeps: the types of the registers, for  *)
(* every number of clients and payload ports.                              *)
(***************************************************************************)
EXTENDS StreamEb, TLAPS

LEMMA ZeroInst == 0 \in Inst
BY NumInstAssumption DEF Inst

LEMMA EmptyFifo == ASSUME NEW T PROVE <<>> \in Seq(EventOf(T))
OBVIOUS

LEMMA EbUnchangedType == ASSUME NEW T, EbTyped(T), UNCHANGED ebVars PROVE EbTyped(T)'
BY DEF EbTyped, ebVars, chipVars, ctrlVars, netVars, dataVars, histVars

LEMMA EbInitType == ASSUME NEW T, EbInit PROVE EbTyped(T)
<1>1. /\ ppPort \in [Payload -> Inst]
      /\ posted \in [Inst -> Posted]
      /\ delivered \in [Inst -> T \union {"NONE"}]
      /\ asyncFifo \in Seq(EventOf(T))
  BY ZeroInst, EmptyFifo DEF EbInit, V7PowerOn, Posted
<1>2. /\ inFlight \in [Inst -> Nat] /\ framesSent \in [Inst -> Nat] /\ endCount \in [Inst -> Nat]
      /\ nstreams \in 0 .. NumInst
  BY NumInstAssumption DEF EbInit, V7PowerOn
<1> QED BY <1>1, <1>2, ZeroInst DEF EbInit, V7PowerOn, EbTyped

-----------------------------------------------------------------------------
(* Firmware loading *)

LEMMA Z7CfgLoadType == ASSUME NEW T, EbTyped(T), NEW ok \in BOOLEAN, Z7CfgLoad(ok) PROVE EbTyped(T)'
<1>1. CASE ok
  <2>1. UNCHANGED <<chipVars, ctrlVars, asyncFifo, delivered, histVars>>
    BY <1>1 DEF Z7CfgLoad
  <2>2. /\ udpRx' = FALSE
        /\ request' = [i \in Inst |-> FALSE]
        /\ link' = [i \in Inst |-> FALSE]
        /\ inFlight' = [i \in Inst |-> 0]
        /\ framesSent' = [i \in Inst |-> 0]
    BY <1>1 DEF Z7CfgLoad
  <2> QED BY <2>1, <2>2 DEF EbTyped, chipVars, ctrlVars, histVars
<1>2. CASE ~ok
  BY <1>2, EbUnchangedType DEF Z7CfgLoad
<1> QED BY <1>1, <1>2

LEMMA V7CfgLoadType == ASSUME NEW T, EbTyped(T), NEW ok \in BOOLEAN, V7CfgLoad(ok) PROVE EbTyped(T)'
<1>1. /\ v7Done' = ok
      /\ ebReset' = FALSE /\ ebMask' = {} /\ enables' = {} /\ nstreams' = 0 /\ netPort' = 0
      /\ ppPort' = [p \in Payload |-> 0]
      /\ asyncFifo' = <<>>
      /\ posted' = [i \in Inst |-> "NONE"]
      /\ endCount' = [i \in Inst |-> 0]
      /\ inFlight' = [i \in Inst |-> 0]
      /\ UNCHANGED <<fwType, netVars, delivered, framesSent>>
  BY DEF V7CfgLoad
<1>2. asyncFifo' \in Seq(EventOf(T))
  BY <1>1, EmptyFifo
<1>3. /\ ppPort' \in [Payload -> Inst]
      /\ posted' \in [Inst -> Posted]
      /\ endCount' \in [Inst -> Nat]
      /\ inFlight' \in [Inst -> Nat]
  BY <1>1, ZeroInst DEF Posted
<1>4. nstreams' \in 0 .. NumInst
  BY <1>1, NumInstAssumption
<1> QED BY <1>1, <1>2, <1>3, <1>4, ZeroInst DEF EbTyped, netVars

-----------------------------------------------------------------------------
(* Event builder registers *)

LEMMA ClampStreamsType == ASSUME NEW n \in Nat PROVE ClampStreams(n) \in 0 .. NumInst
BY NumInstAssumption DEF ClampStreams

LEMMA SetEbCfgType ==
    ASSUME NEW T, EbTyped(T), NEW mask \in SUBSET Payload, NEW n \in Nat,
           NEW stream, \A p \in mask : stream[p] \in 1 .. NumInst, SetEbCfg(mask, n, stream)
    PROVE  EbTyped(T)'
<1>1. CASE fwType /\ v7Done
  <2>1. \A p \in mask : stream[p] - 1 \in Inst
    BY NumInstAssumption DEF Inst
  <2>2. ppPort' = [p \in Payload |-> IF p \in mask THEN stream[p] - 1 ELSE ppPort[p]]
    BY <1>1 DEF SetEbCfg, Checked, IfV7
  <2>3. ppPort' \in [Payload -> Inst]
    BY <2>1, <2>2 DEF EbTyped
  <2>4. /\ ebReset' = TRUE /\ ebMask' = mask /\ enables' = {"CMSG"}
        /\ nstreams' = ClampStreams(n)
        /\ netPort' = 0
        /\ asyncFifo' = <<>>
        /\ posted' = [i \in Inst |-> IF i < ClampStreams(n) THEN "CFG" ELSE "NONE"]
        /\ endCount' = [i \in Inst |-> 0]
        /\ UNCHANGED <<chipVars, netVars, delivered, dataVars>>
    BY <1>1 DEF SetEbCfg, Checked, IfV7
  <2>5. asyncFifo' \in Seq(EventOf(T))
    BY <2>4, EmptyFifo
  <2>6. /\ posted' \in [Inst -> Posted]
        /\ endCount' \in [Inst -> Nat]
    BY <2>4 DEF Posted
  <2>7. nstreams' \in 0 .. NumInst
    BY <2>4, ClampStreamsType
  <2> QED BY <2>3, <2>4, <2>5, <2>6, <2>7, ZeroInst
          DEF EbTyped, chipVars, netVars, dataVars, Enable
<1>2. CASE ~(fwType /\ v7Done)
  BY <1>2, EbUnchangedType DEF SetEbCfg, Checked, IfV7
<1> QED BY <1>1, <1>2

LEMMA EbEnableType == ASSUME NEW T, EbTyped(T), NEW bits \in SUBSET Enable, EbEnable(bits) PROVE EbTyped(T)'
<1>1. CASE v7Done
  BY <1>1 DEF EbTyped, EbEnable, IfV7, chipVars, netVars, dataVars, histVars
<1>2. CASE ~v7Done
  BY <1>2, EbUnchangedType DEF EbEnable, IfV7
<1> QED BY <1>1, <1>2

LEMMA EbDisableType == ASSUME NEW T, EbTyped(T), NEW bits \in SUBSET Enable, EbDisable(bits) PROVE EbTyped(T)'
<1>1. CASE v7Done
  BY <1>1, EmptyFifo DEF EbTyped, EbDisable, IfV7, chipVars, netVars, dataVars, histVars
<1>2. CASE ~v7Done
  BY <1>2, EbUnchangedType DEF EbDisable, IfV7
<1> QED BY <1>1, <1>2

LEMMA ResetDataPathType == ASSUME NEW T, EbTyped(T), NEW udp \in BOOLEAN, ResetDataPath(udp) PROVE EbTyped(T)'
<1>1. CASE v7Done
  BY <1>1 DEF EbTyped, ResetDataPath, IfV7, chipVars, ctrlVars, histVars
<1>2. CASE ~v7Done
  BY <1>2, EbUnchangedType DEF ResetDataPath, IfV7
<1> QED BY <1>1, <1>2

-----------------------------------------------------------------------------
(* Network clients *)

LEMMA SetNetCfgType == ASSUME NEW T, EbTyped(T), NEW i \in Nat, SetNetCfg(i) PROVE EbTyped(T)'
<1>1. CASE fwType /\ i \in Inst
  BY <1>1 DEF EbTyped, SetNetCfg, chipVars, ctrlVars, dataVars, histVars
<1>2. CASE ~(fwType /\ i \in Inst)
  BY <1>2, EbUnchangedType DEF SetNetCfg
<1> QED BY <1>1, <1>2

LEMMA TcpConnectType ==
    ASSUME NEW T, EbTyped(T), NEW i \in Nat, NEW up \in BOOLEAN, TcpConnect(i, up) PROVE EbTyped(T)'
<1>1. CASE fwType /\ i \in Inst
  <2>1. netPort' \in Inst
    BY <1>1 DEF TcpConnect, EbTyped
  <2>2. /\ ebReset' = FALSE
         /\ asyncFifo' = <<>>
         /\ request' = [request EXCEPT ![i] = TRUE]
         /\ link' = [link EXCEPT ![i] = up]
         /\ delivered' = [delivered EXCEPT ![i] = "NONE"]
         /\ UNCHANGED <<chipVars, ebMask, enables, nstreams, ppPort, udpRx, dataVars, histVars>>
    BY <1>1 DEF TcpConnect
  <2>3. asyncFifo' \in Seq(EventOf(T))
    BY <2>2, EmptyFifo
  <2>4. /\ request' \in [Inst -> BOOLEAN]
        /\ link' \in [Inst -> BOOLEAN]
        /\ delivered' \in [Inst -> T \union {"NONE"}]
    BY <2>2 DEF EbTyped
  <2> QED BY <2>1, <2>2, <2>3, <2>4 DEF EbTyped, chipVars, dataVars, histVars
<1>2. CASE ~(fwType /\ i \in Inst)
  BY <1>2, EbUnchangedType DEF TcpConnect
<1> QED BY <1>1, <1>2

LEMMA TcpDisconnectType == ASSUME NEW T, EbTyped(T), NEW i \in Nat, TcpDisconnect(i) PROVE EbTyped(T)'
<1>1. CASE fwType /\ i \in Inst
  <2>1. /\ ebReset' = v7Done
        /\ ebMask' = {}
        /\ asyncFifo' = <<>>
        /\ request' = [request EXCEPT ![i] = FALSE]
        /\ link' = [link EXCEPT ![i] = FALSE]
        /\ inFlight' = [inFlight EXCEPT ![i] = 0]
        /\ UNCHANGED <<chipVars, enables, nstreams, netPort, ppPort, udpRx, delivered,
                       framesSent, histVars>>
    BY <1>1 DEF TcpDisconnect
  <2>2. asyncFifo' \in Seq(EventOf(T))
    BY <2>1, EmptyFifo
  <2>3. /\ request' \in [Inst -> BOOLEAN]
        /\ link' \in [Inst -> BOOLEAN]
        /\ inFlight' \in [Inst -> Nat]
    BY <2>1 DEF EbTyped
  <2> QED BY <2>1, <2>2, <2>3 DEF EbTyped, chipVars, histVars
<1>2. CASE ~(fwType /\ i \in Inst)
  BY <1>2, EbUnchangedType DEF TcpDisconnect
<1> QED BY <1>1, <1>2

LEMMA EvioWriteControlType ==
    ASSUME NEW T, EbTyped(T), NEW i \in Nat, NEW type \in Control, type \in T, NEW count \in Nat,
           EvioWriteControl(i, type, count)
    PROVE  EbTyped(T)'
<1>1. CASE fwType /\ i \in Inst /\ v7Done
  <2> DEFINE event == [inst |-> i, type |-> type, cmsg |-> ~udpRx]
  <2>1. event \in EventOf(T)
    BY <1>1 DEF EventOf
  <2>2. asyncFifo' = IF ebReset THEN <<>> ELSE Append(asyncFifo, event)
    BY <1>1 DEF EvioWriteControl, IfV7
  <2>3. asyncFifo' \in Seq(EventOf(T))
    <3> HIDE DEF event
    <3> QED BY <2>1, <2>2 DEF EbTyped
  <2>4. /\ netPort' = i
        /\ posted' = [posted EXCEPT ![i] = type]
        /\ UNCHANGED <<chipVars, ebReset, ebMask, enables, nstreams, ppPort, netVars,
                        delivered, dataVars>>
    BY <1>1 DEF EvioWriteControl, IfV7
  <2>5. posted' \in [Inst -> Posted]
    BY <2>4 DEF EbTyped, Posted
  <2>6. endCount' \in [Inst -> Nat]
    BY <1>1 DEF EbTyped, EvioWriteControl, IfV7
  <2> QED BY <1>1, <2>3, <2>4, <2>5, <2>6 DEF EbTyped, chipVars, netVars, dataVars
<1>2. CASE ~(fwType /\ i \in Inst /\ v7Done)
  BY <1>2, EbUnchangedType DEF EvioWriteControl, IfV7
<1> QED BY <1>1, <1>2

LEMMA FramesSentType == ASSUME NEW T, EbTyped(T), NEW i \in Inst PROVE FramesSent(i) \in Nat
BY BytesPerFrameAssumption DEF EbTyped, FramesSent

-----------------------------------------------------------------------------
(* The hardware's own moves *)

LEMMA SendAsyncType == ASSUME NEW T, EbTyped(T), SendAsync PROVE EbTyped(T)'
<1>1. Head(asyncFifo) \in EventOf(T) /\ Tail(asyncFifo) \in Seq(EventOf(T))
  BY DEF EbTyped, SendAsync
<1> DEFINE h == Head(asyncFifo)
<1>2. h.inst \in Inst /\ h.type \in T
  BY <1>1 DEF EventOf
<1>3. /\ delivered' = [delivered EXCEPT ![h.inst] = h.type]
      /\ asyncFifo' = Tail(asyncFifo)
      /\ UNCHANGED <<chipVars, ctrlVars, netVars, dataVars, histVars>>
  BY DEF SendAsync
<1> HIDE DEF h
<1> QED BY <1>1, <1>2, <1>3 DEF EbTyped, chipVars, ctrlVars, netVars, dataVars, histVars

LEMMA FrameMovesType ==
    ASSUME NEW T, EbTyped(T), NEW i \in Inst, NEW s \in BOOLEAN, BuildFrame(i, s) \/ SendFrame(i)
    PROVE  EbTyped(T)'
<1>1. /\ inFlight \in [Inst -> Nat] /\ framesSent \in [Inst -> Nat]
      /\ i \in Inst
  BY DEF EbTyped
<1>2. UNCHANGED <<chipVars, ctrlVars, netVars, asyncFifo, delivered, histVars>>
  BY DEF BuildFrame, SendFrame
<1>3. inFlight' \in [Inst -> Nat] /\ framesSent' \in [Inst -> Nat]
  <2>1. CASE BuildFrame(i, s)
    <3>1. inFlight' = [inFlight EXCEPT ![i] = @ + 1] /\ framesSent' = framesSent
      BY <2>1 DEF BuildFrame
    <3> QED BY <1>1, <3>1
  <2>2. CASE SendFrame(i)
    <3>1. /\ inFlight[i] > 0
          /\ inFlight' = [inFlight EXCEPT ![i] = @ - 1]
          /\ framesSent' = [framesSent EXCEPT ![i] = @ + 1]
      BY <2>2 DEF SendFrame
    <3>2. inFlight[i] - 1 \in Nat /\ framesSent[i] + 1 \in Nat
      BY <1>1, <3>1
    <3> QED BY <1>1, <3>1, <3>2
  <2> QED BY <2>1, <2>2
<1> QED BY <1>2, <1>3 DEF EbTyped, chipVars, ctrlVars, netVars, histVars

LEMMA LinkMovesType ==
    ASSUME NEW T, EbTyped(T), NEW i \in Inst, LateConnect(i) \/ DropLink(i) PROVE EbTyped(T)'
<1>1. CASE LateConnect(i)
  BY <1>1 DEF EbTyped, LateConnect, chipVars, ctrlVars, dataVars, histVars
<1>2. CASE DropLink(i)
  BY <1>2 DEF EbTyped, DropLink, chipVars, ctrlVars, dataVars, histVars
<1> QED BY <1>1, <1>2
=============================================================================
