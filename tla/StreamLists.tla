---------------------------- MODULE StreamLists -----------------------------
(***************************************************************************)
(* The streaming readout lists with fixed payload routes: rol/vtp_stream3_ *)
(* 1tcp.c, 2tcp.c, 4tcp.c, 2udp.c and 4udp.c.  They make the same library  *)
(* calls as StreamRol's list in other orders and numbers, and pass the     *)
(* CODA connection data and a chain of addresses from stream to stream.    *)
(*                                                                         *)
(* A handler is the sequence of its library calls.  prog is what is left   *)
(* of the handler that runs: one call per step, so that the hardware, the  *)
(* network and the user sync come between any two.  VTPflag is 0 in all    *)
(* five, so rocTrigger is never called.                                    *)
(***************************************************************************)
EXTENDS StreamEb, SequencesExt

CONSTANTS
    Lists,      \* the readout lists under check
    Files,      \* what rol->usrConfig sets for client 0: [ip, mac, n, mask]
    NoFile,     \* rol->usrConfig may be null
    MaxPending  \* bound: events that may wait in the FIFO when Go is commanded

ASSUME ListsAssumption == Lists \subseteq {"1tcp", "2tcp", "4tcp", "2udp", "4udp"}
\* The lists use four clients and the payload ports up to 15.
ASSUME ListsHardware == NumInst >= 4 /\ NumPayload >= 15

VARIABLES
    list,       \* the readout list that is loaded
    coda,       \* run-control state
    prog,       \* library calls the running handler has still to make
    to,         \* run-control state when it returns
    dev,        \* the FPGA mapping: "closed", "mapped" or "stale"
    ppInfo,     \* streamInfo of the payloads with a module_id
    client,     \* address registers of each client
    buf,        \* locals ipaddr, mac and emuport of rocPrestart
    late,       \* history: clients whose connection was not there in time
    sync        \* the trigger-interface master holds the user sync

rolVars == <<list, coda, prog, to, dev, ppInfo, client, buf, late, sync>>
vars == <<ebVars, rolVars>>

Octet == 0 .. 255
Address == [ip : Octet, mac : Octet, port : Nat]
ASSUME FilesAssumption == Files \subseteq [ip : Octet, mac : Octet, n : Nat, mask : SUBSET Payload]
Zero == [ip |-> 0, mac |-> 0, port |-> 0]
Greeting == "HELLO"     \* emuData, the CODA connection data

Call(op, i) == [op |-> op, i |-> i]
\* for(i=0; i<n; i++) op(i)
Each(op, n) == [k \in 1 .. n |-> Call(op, k - 1)]

-----------------------------------------------------------------------------
(* The handlers *)

\* Payload ports and their stream, counted from 1: calls of vtpPayloadConfig.
Ports1tcp == [p \in {6, 8} |-> 1]
Ports2 == [p \in {2, 4, 5, 7, 10, 12, 13, 15} |-> IF p \in {2, 4, 5, 7} THEN 1 ELSE 2]
\* Mutant: the last two payloads stay with stream 3.
Ports4Short == [p \in {2, 4, 5, 7, 10, 12, 13, 15} |->
    CASE p \in {2, 4} -> 1 [] p \in {5, 7} -> 2 [] OTHER -> 3]
Ports4 == [p \in {2, 4, 5, 7, 10, 12, 13, 15} |->
    CASE p \in {2, 4} -> 1 [] p \in {5, 7} -> 2 [] p \in {10, 12} -> 3 [] OTHER -> 4]
Ports == CASE list = "1tcp" -> Ports1tcp [] list \in {"2tcp", "2udp"} -> Ports2 [] OTHER -> Ports4
Connections == CASE list = "1tcp" -> 1 [] list \in {"2tcp", "2udp"} -> 2 [] OTHER -> 4
Udp == list \in {"2udp", "4udp"}

\* rocDownload: a failed open, Z7 load or V7 load is printed and no more.
Load == <<Call("z7", 0), Call("v7", 0)>>
Download1tcp == Load
Download2tcp == Load
Download4tcp == Load
Download2udp == Load
Download4udp == Load

\* The part of rocPrestart up to the first connection.
Setup(n) ==
    <<Call("init", 0), Call("file", 0), Call("address", 0), Call("ebcfg", n), Call("async", 0),
      Call("links", 0), Call("base", 0)>>
\* Mutant: the data is sent after the loop.
ConnectGreetsLast(n, dlen, bump) ==
    FlattenSeq([k \in 1 .. n |->
        (IF k = 1 THEN <<>> ELSE <<Call("next", k - 1)>>)
        \o (IF k > 1 /\ bump THEN <<Call("port", k - 1)>> ELSE <<>>)
        \o <<Call("net", k - 1), Call("connect", k - 1)>>])
    \o (IF dlen > 0 THEN Each("greet", n) ELSE <<>>)
\* The loop over connections: the next address, the connection, its data.
\* "bump" counts the destination port up with the local address.
Connect(n, dlen, bump) ==
    FlattenSeq([k \in 1 .. n |->
        (IF k = 1 THEN <<>> ELSE <<Call("next", k - 1)>>)
        \o (IF k > 1 /\ bump THEN <<Call("port", k - 1)>> ELSE <<>>)
        \o <<Call("net", k - 1), Call("connect", k - 1)>>
        \o (IF dlen > 0 THEN <<Call("greet", k - 1)>> ELSE <<>>)])

Prestart1tcp == Setup(1) \o Connect(1, 8, FALSE) \o Each("PRESTART", 1)
Prestart2tcp == Setup(2) \o Connect(2, 8, FALSE) \o Each("PRESTART", 2)
Prestart4tcp == Setup(4) \o Connect(4, 0, TRUE) \o <<Call("PRESTART", 0)>>
Prestart2udp == Setup(2) \o Connect(2, 0, TRUE) \o <<Call("PRESTART", 0)>>
Prestart4udp == Setup(4) \o Connect(4, 8, TRUE) \o Each("PRESTART", 4)

Go1tcp == <<Call("GO", 0), Call("enable", 0)>>
Go2tcp == Each("GO", 2) \o <<Call("enable", 0)>>
Go4tcp == <<Call("GO", 0), Call("enable", 0)>>
Go2udp == <<Call("GO", 0), Call("enable", 0)>>
Go4udp == <<Call("GO", 0), Call("enable", 0)>>

EndAll(n) ==
    <<Call("wait", 0), Call("async", 0)>> \o Each("END", n) \o <<Call("flush", 0)>> \o Each("close", n)
\* Mutant: the event builder is reset before the events had time to go out.
EndFirstAtOnce(n) ==
    <<Call("wait", 0), Call("END", 0), Call("ebreset", 0), Call("flush", 0)>> \o Each("close", n)
\* One End event, then vtpStreamingEbReset before the sockets close.
EndFirst(n) ==
    <<Call("wait", 0), Call("END", 0), Call("flush", 0), Call("ebreset", 0)>> \o Each("close", n)
End1tcp == EndAll(1)
End2tcp == EndAll(2)
End4tcp == EndFirst(4)
End2udp == EndFirst(2)
End4udp == EndFirst(4)

Handlers ==
    [download |-> CASE list = "1tcp" -> Download1tcp [] list = "2tcp" -> Download2tcp
                    [] list = "4tcp" -> Download4tcp [] list = "2udp" -> Download2udp
                    [] OTHER -> Download4udp,
     prestart |-> CASE list = "1tcp" -> Prestart1tcp [] list = "2tcp" -> Prestart2tcp
                    [] list = "4tcp" -> Prestart4tcp [] list = "2udp" -> Prestart2udp
                    [] OTHER -> Prestart4udp,
     go |-> CASE list = "1tcp" -> Go1tcp [] list = "2tcp" -> Go2tcp [] list = "4tcp" -> Go4tcp
              [] list = "2udp" -> Go2udp [] OTHER -> Go4udp,
     end |-> CASE list = "1tcp" -> End1tcp [] list = "2tcp" -> End2tcp [] list = "4tcp" -> End4tcp
               [] list = "2udp" -> End2udp [] OTHER -> End4udp]
\* The streams that get Go and End events.
Told == IF list \in {"1tcp", "2tcp"} THEN 0 .. Connections - 1 ELSE {0}
Greets == list \in {"1tcp", "2tcp", "4udp"}

-----------------------------------------------------------------------------
(* Run control *)

Init ==
    /\ EbInit
    /\ list \in Lists
    /\ coda = "booted" /\ to = "booted" /\ prog = <<>>
    /\ dev = "closed" /\ ppInfo = <<>> /\ late = {} /\ sync = FALSE
    /\ client = [i \in Inst |-> Zero] /\ buf = Zero

Command(from, handler, state) ==
    /\ prog = <<>> /\ coda \in from
    /\ prog' = Handlers[handler] /\ to' = state
    /\ UNCHANGED <<ebVars, list, coda, client, buf, late, sync>>

\* The list is loaded afresh; vtpOpen may fail, and takes a mapping that
\* rocReset closed for open.
Download ==
    /\ Command({"booted", "downloaded"}, "download", "downloaded")
    /\ ppInfo' = <<>>
    /\ dev' \in IF dev = "closed" THEN {"closed", "mapped"} ELSE {dev}
\* The master holds the user sync since its own download or end.
Prestart ==
    sync /\ Command({"downloaded"}, "prestart", "prestarted") /\ UNCHANGED <<dev, ppInfo>>
Go ==
    /\ Len(asyncFifo) <= MaxPending
    /\ Command({"prestarted", "paused"}, "go", "active") /\ UNCHANGED <<dev, ppInfo>>
End ==
    /\ coda \in {"active", "paused"} => ~sync
    /\ Command({"prestarted", "active", "paused"}, "end", "downloaded") /\ UNCHANGED <<dev, ppInfo>>
Pause ==
    /\ prog = <<>> /\ coda = "active" /\ ~sync /\ coda' = "paused"
    /\ UNCHANGED <<ebVars, list, prog, to, dev, ppInfo, client, buf, late, sync>>
\* rocReset: vtpClose.
Reset ==
    /\ prog = <<>> /\ coda # "booted" /\ coda' = "booted"
    /\ dev' = IF dev = "mapped" THEN "stale" ELSE dev
    /\ UNCHANGED <<ebVars, list, prog, to, ppInfo, client, buf, late, sync>>

-----------------------------------------------------------------------------
(* The calls *)

At(op) == prog # <<>> /\ Head(prog).op = op
\* A call returned: the handler goes on, or returns after its last one.
Advance ==
    /\ prog' = Tail(prog)
    /\ coda' = IF Len(prog) = 1 THEN to ELSE coda
    /\ UNCHANGED <<list, to, dev, sync>>
\* The handler returns early, with void: run control goes on.
Abandon == prog' = <<>> /\ coda' = to /\ UNCHANGED <<list, to, dev, sync>>
Arg == Head(prog).i

LoadZ7 ==
    /\ At("z7")
    /\ \E ok \in BOOLEAN :
          Z7CfgLoad(ok) /\ client' = IF ok THEN [i \in Inst |-> Zero] ELSE client
    /\ Advance /\ UNCHANGED <<ppInfo, buf, late>>
LoadV7 ==
    /\ At("v7") /\ dev = "mapped"
    /\ \E ok \in BOOLEAN : V7CfgLoad(ok)
    /\ Advance /\ UNCHANGED <<ppInfo, client, buf, late>>
\* Without a mapping the process dies.
LoadUnmapped ==
    /\ At("v7") /\ dev # "mapped"
    /\ prog' = <<>> /\ coda' = "booted" /\ dev' = "closed" /\ ppInfo' = <<>> /\ fwType' = FALSE
    /\ UNCHANGED <<v7Done, ctrlVars, netVars, asyncFifo, delivered, dataVars, histVars>>
    /\ UNCHANGED <<list, to, client, buf, late, sync>>

\* vtpInit: rocPrestart returns when it fails.
InitVtp ==
    /\ At("init")
    /\ \E ok \in BOOLEAN :
          IF ok /\ v7Done THEN Advance /\ fwType' = TRUE ELSE Abandon /\ UNCHANGED fwType
    /\ UNCHANGED <<v7Done, ctrlVars, netVars, asyncFifo, delivered, dataVars, histVars>>
    /\ UNCHANGED <<ppInfo, client, buf, late>>
\* vtpConfig of the user's file: vtpStreamingSetEbCfg without routes,
ReadFile ==
    /\ At("file")
    /\ \/ \E f \in Files :
              /\ SetEbCfg(f.mask, f.n, [p \in Payload |-> ppPort[p] + 1])
              /\ buf' = [ip |-> f.ip, mac |-> f.mac, port |-> 0]
              /\ Advance
       \/ /\ NoFile /\ UNCHANGED <<ebVars, buf>>
          /\ prog' = Tail(Tail(prog)) /\ UNCHANGED <<list, coda, to, dev, sync>>
    /\ UNCHANGED <<ppInfo, client, late>>
\* and vtpStreamingSetTcpCfg of client 0.
SetAddress ==
    /\ At("address") /\ SetNetCfg(0) /\ client' = [client EXCEPT ![0] = buf]
    /\ Advance /\ UNCHANGED <<ppInfo, buf, late>>
\* vtpPayloadConfig of each payload leaves the others in ppInfo,
Configured == [p \in DOMAIN Ports \union DOMAIN ppInfo |->
                  IF p \in DOMAIN Ports THEN Ports[p] ELSE ppInfo[p]]
\* then vtpStreamingSetEbCfg with its mask.
SetPayloads ==
    /\ At("ebcfg") /\ ppInfo' = Configured
    /\ SetEbCfg(DOMAIN ppInfo', Arg, ppInfo')
    /\ late' = {} /\ Advance /\ UNCHANGED <<client, buf>>
\* Mutant: the payload ports are enabled with the asynchronous FIFO.
EnableBoth ==
    At("async") /\ EbEnable({"ASYNC", "PP"}) /\ Advance /\ UNCHANGED <<ppInfo, client, buf, late>>
EnableAsync ==
    At("async") /\ EbEnable({"ASYNC"}) /\ Advance /\ UNCHANGED <<ppInfo, client, buf, late>>
ResetLinks ==
    At("links") /\ ResetDataPath(Udp) /\ Advance /\ UNCHANGED <<ppInfo, client, buf, late>>

\* vtpStreamingGetNetCfg of client 0; emuport is the port of the link.
GetBase ==
    /\ At("base") /\ buf' = [client[0] EXCEPT !.port = 0]
    /\ Advance /\ UNCHANGED <<ebVars, ppInfo, client, late>>
\* Mutant: the address is an int.
NextUnwrapped ==
    /\ At("next") /\ buf' = [buf EXCEPT !.ip = @ + 1, !.mac = @ + 1]
    /\ Advance /\ UNCHANGED <<ebVars, ppInfo, client, late>>
\* Mutant: only the last byte of the IP address is counted up.
NextIpOnly ==
    /\ At("next") /\ buf' = [buf EXCEPT !.ip = IF @ < 255 THEN @ + 1 ELSE @]
    /\ Advance /\ UNCHANGED <<ebVars, ppInfo, client, late>>
\* ipaddr[3] and mac[4] are unsigned char.
NextAddress ==
    /\ At("next")
    /\ buf' = [buf EXCEPT !.ip = (@ + 1) % 256, !.mac = (@ + 1) % 256]
    /\ Advance /\ UNCHANGED <<ebVars, ppInfo, client, late>>
NextPort ==
    /\ At("port") /\ buf' = [buf EXCEPT !.port = @ + 1]
    /\ Advance /\ UNCHANGED <<ebVars, ppInfo, client, late>>
\* vtpStreamingSetNetCfg; GetNetCfg then reads the same values back.
SetClient ==
    /\ At("net") /\ SetNetCfg(Arg) /\ client' = [client EXCEPT ![Arg] = buf]
    /\ Advance /\ UNCHANGED <<ppInfo, buf, late>>
\* Timing assumption: what the event builder can send is gone before the next
\* connection resets it.
Drained == asyncFifo # <<>> => ~link[Head(asyncFifo).inst]
ConnectStream ==
    /\ At("connect") /\ Drained
    /\ \E up \in IF Udp THEN {TRUE} ELSE BOOLEAN :
          TcpConnect(Arg, up) /\ late' = IF up THEN late ELSE late \union {Arg}
    /\ Advance /\ UNCHANGED <<ppInfo, client, buf>>
\* The end of vtpStreamingTcpConnect with dlen > 0: emuData, whether or not
\* the connection is there.
SendGreeting ==
    /\ At("greet")
    /\ asyncFifo' = IF ~v7Done \/ ebReset THEN asyncFifo
                    ELSE Append(asyncFifo, [inst |-> netPort, type |-> Greeting, cmsg |-> FALSE])
    /\ UNCHANGED <<chipVars, ctrlVars, netVars, delivered, dataVars, histVars>>
    /\ Advance /\ UNCHANGED <<ppInfo, client, buf, late>>

\* vtpStreamingEvioWriteControl.
WriteEvent ==
    /\ \E type \in Control :
          At(type) /\ EvioWriteControl(Arg, type, IF type = "END" THEN FramesSent(Arg) ELSE 0)
    /\ Advance /\ UNCHANGED <<ppInfo, client, buf, late>>
EnablePayloads ==
    At("enable") /\ EbEnable({"PP"}) /\ Advance /\ UNCHANGED <<ppInfo, client, buf, late>>
\* Mutant: no wait.
WaitNothing ==
    At("wait") /\ Advance /\ UNCHANGED <<ebVars, ppInfo, client, buf, late>>
\* sleep(2): "wit a bit to make sure the VTP sends all its data".
WaitForData ==
    /\ At("wait") /\ sync /\ \A i \in Inst : link[i] => inFlight[i] = 0
    /\ Advance /\ UNCHANGED <<ebVars, ppInfo, client, buf, late>>
\* sleep(2) after the End events.
WaitForEvents ==
    At("flush") /\ Drained /\ Advance /\ UNCHANGED <<ebVars, ppInfo, client, buf, late>>
\* vtpStreamingEbReset: Ctrl bit 31 and no enable bit changes.
ResetEb ==
    At("ebreset") /\ EbDisable({}) /\ Advance /\ UNCHANGED <<ppInfo, client, buf, late>>
CloseStream ==
    At("close") /\ TcpDisconnect(Arg) /\ Advance /\ UNCHANGED <<ppInfo, client, buf, late>>

-----------------------------------------------------------------------------
(* The others *)

\* The master holds the user sync at its download and end, releases it at go.
HoldSync ==
    /\ ~sync /\ sync' = TRUE
    /\ to = "downloaded" /\ (prog # <<>> \/ coda = "downloaded")
    /\ UNCHANGED <<ebVars, list, coda, prog, to, dev, ppInfo, client, buf, late>>
ReleaseSync ==
    /\ sync /\ sync' = FALSE
    /\ to = "active" /\ (prog # <<>> \/ coda = "active")
    /\ UNCHANGED <<ebVars, list, coda, prog, to, dev, ppInfo, client, buf, late>>
Hardware ==
    /\ \/ SendAsync
       \/ \E i \in Inst : BuildFrame(i, sync)
       \/ \E i \in Inst : SendFrame(i)
       \/ \E i \in Inst : LateConnect(i)
    /\ UNCHANGED rolVars

Rol ==
    \/ LoadZ7 \/ LoadV7 \/ LoadUnmapped
    \/ InitVtp \/ ReadFile \/ SetAddress \/ SetPayloads \/ EnableAsync \/ ResetLinks
    \/ GetBase \/ NextAddress \/ NextPort \/ SetClient \/ ConnectStream \/ SendGreeting
    \/ WriteEvent \/ EnablePayloads
    \/ WaitForData \/ WaitForEvents \/ ResetEb \/ CloseStream
Next ==
    \/ Download \/ Prestart \/ Go \/ End \/ Pause \/ Reset
    \/ Rol \/ HoldSync \/ ReleaseSync \/ Hardware
Spec == Init /\ [][Next]_vars

-----------------------------------------------------------------------------
(* Properties *)

\* Types of the list's own state.
TypeOK ==
    /\ list \in Lists /\ coda \in {"booted", "downloaded", "prestarted", "active", "paused"}
    /\ dev \in {"closed", "mapped", "stale"} /\ sync \in BOOLEAN
    /\ ebMask \in SUBSET Payload /\ enables \in SUBSET Enable /\ nstreams \in 0 .. NumInst
    /\ netPort \in Inst /\ ppPort \in [Payload -> Inst] /\ late \in SUBSET Inst
    /\ client \in [Inst -> Address] /\ buf \in Address
    /\ delivered \in [Inst -> Control \union {"NONE", Greeting}]

\* A receiver gets the connection data before anything else, and control
\* events in the order of run control: the reset each connection pulses in
\* the event builder the streams share takes no other stream's data away.
\* The data of a connection that was not up in time is lost with the next.
GreetingFirst ==
    [][\A i \in Inst : delivered'[i] # delivered[i] =>
        \/ delivered'[i] = "NONE"
        \/ delivered'[i] = Greeting /\ delivered[i] = "NONE"
        \/ /\ delivered'[i] = "PRESTART"
           /\ IF Greets /\ i \notin late THEN delivered[i] = Greeting
              ELSE delivered[i] \in {"NONE", Greeting}
        \/ delivered'[i] = "GO" /\ delivered[i] = "PRESTART"
        \/ delivered'[i] = "END" /\ delivered[i] \in {"PRESTART", "GO"}]_vars

\* No frame can be built before every stream the list tells of Go has had its
\* Go event.
FramesOnlyAfterGo ==
    v7Done /\ ~ebReset /\ "PP" \in enables /\ ebMask # {} =>
        \A i \in Told : posted[i] \notin {"CFG", "PRESTART"}

\* The End event counts the frames of its stream, and none follows it, unless
\* its connection came up late.
EndCountFinal ==
    \A i \in Told \ late : request[i] /\ posted[i] = "END"
        => endCount[i] = framesSent[i] /\ inFlight[i] = 0

\* With every connection up, a stream that is told of End has it before its
\* socket closes: resetting the event builder comes after the events left.
EndBeforeClose ==
    (/\ At("close") /\ late = {} /\ Arg \in Told /\ posted[Arg] = "END"
     /\ \A i \in Arg .. Connections - 1 : link[i]) => delivered[Arg] = "END"

\* No two open streams of a VTP share an address, although each address is
\* made from the last by counting bytes up.  Only while rocPrestart connects
\* one stream after the other may a later one be open as the run before left
\* it: rocReset closes none, and the Z7 need not have been loaded since.
DistinctAddresses ==
    prog = <<>> \/ to # "prestarted" =>
        \A i, j \in Inst : i # j /\ request[i] /\ request[j] =>
            client[i].ip # client[j].ip /\ client[i].mac # client[j].mac

\* When frames can be built, every payload goes to a stream of this list and
\* every stream of the list has a payload: the loops over connections and the
\* routes of vtpPayloadConfig agree.
RoutesServed ==
    v7Done /\ ~ebReset /\ "PP" \in enables /\ ebMask # {} =>
        {ppPort[p] : p \in ebMask} = 0 .. Connections - 1
=============================================================================
