------------------------------ MODULE SyncStats ------------------------------
(***************************************************************************)
(* The 1 Hz status sender of rol/vtp_stream3_1udp_vg.c: the thread that    *)
(* reads the frame counter of the event builder, extends its 32 bits to 64 *)
(* and sends event number and rate to the load balancer, beside the run    *)
(* control that launches it in rocGo, stops it in rocPause and rocEnd, and *)
(* forgets it in rocReset.                                                 *)
(*                                                                         *)
(* Run control is StreamRol's, without its library calls; an interval      *)
(* between two readings is one second.  Frames is the true frame count.    *)
(***************************************************************************)
EXTENDS Naturals

CONSTANTS
    Word,       \* 2^32 in the code: the values of FrameCnt
    MaxFrames   \* bound: frames counted in one run

ASSUME WordAssumption == Word \in Nat \ {0}
ASSUME MaxFramesAssumption == MaxFrames \in Nat

VARIABLES
    coda,       \* run-control state
    pc,         \* "idle", or the state the join in vtp_stats_sender_stop is on the way to
    dev,        \* the FPGA mapping: "closed", "mapped", or "stale" (see Reset)
    building,   \* the event builder builds frames
    frames,     \* frames built: FrameCnt is frames % Word
    run,        \* g_vtp_stats_run
    sock,       \* g_vtp_stats_sock is open
    thr,        \* where the sender thread stands
    prevLow,    \* prev_fc_low32
    prevExt,    \* prev_fc_ext
    packet,     \* the last packet sent in this run
    seen,       \* history: frames at the last reading
    base        \* history: the frames the thread could not know of at its start

rolVars == <<coda, pc, dev>>
hwVars == <<building, frames>>
threadVars == <<prevLow, prevExt, packet, seen, base>>
vars == <<rolVars, hwVars, run, sock, thr, threadVars>>

NoPacket == [evt |-> 0, rate |-> 0, sent |-> FALSE]

\* Every variable has its type.
TypeOK ==
    /\ coda \in {"booted", "downloaded", "prestarted", "active", "paused"}
    /\ pc \in {"idle", "paused", "downloaded"}
    /\ dev \in {"closed", "mapped", "stale"} /\ building \in BOOLEAN /\ run \in BOOLEAN /\ sock \in BOOLEAN
    /\ thr \in {"none", "init", "test", "sleep", "read", "error"}
    /\ frames \in Nat /\ seen \in Nat /\ base \in Nat
    /\ prevLow \in 0 .. Word - 1 /\ prevExt \in Nat
    /\ packet \in [evt : Nat, rate : Nat, sent : BOOLEAN]

Init ==
    /\ coda = "booted" /\ pc = "idle"
    /\ dev = "closed" /\ building = FALSE /\ frames = 0
    /\ run = FALSE /\ sock = FALSE /\ thr = "none"
    /\ prevLow = 0 /\ prevExt = 0 /\ packet = NoPacket
    /\ seen = 0 /\ base = 0

Command(from, to) ==
    /\ pc = "idle" /\ coda \in from
    /\ coda' = to

\* vtp is not NULL.
Mapped == dev = "mapped"

\* The process dies and is started again; the hardware goes on.
Gone ==
    /\ coda' = "booted" /\ pc' = "idle" /\ dev' = "closed"
    /\ run' = FALSE /\ sock' = FALSE /\ thr' = "none"
    /\ UNCHANGED <<hwVars, threadVars>>

-----------------------------------------------------------------------------
(* Run control *)

\* The V7 is configured anew: its counters are zero.
Download ==
    /\ Command({"booted", "downloaded"}, "downloaded")
    /\ dev # "stale"
    /\ dev' = "mapped"
    /\ building' = FALSE /\ frames' = 0
    /\ UNCHANGED <<pc, run, sock, thr, threadVars>>

\* After rocReset the device cannot be mapped again (StreamRol), and loading
\* the V7 kills the process.
DownloadAfterReset ==
    /\ pc = "idle" /\ coda = "booted"
    /\ dev = "stale"
    /\ Gone

\* Whether resetting the event builder clears FrameCnt is up to its firmware.
Prestart ==
    /\ Command({"downloaded"}, "prestarted")
    /\ frames' \in {0, frames}
    /\ packet' = NoPacket
    /\ UNCHANGED <<pc, dev, building, run, sock, thr, prevLow, prevExt, seen, base>>

\* vtp_stats_sender_launch: it returns OK when the thread runs, and ERROR when
\* the name is not resolved or the thread not created, which rocGo ignores.
Launch(ok) ==
    IF run \/ ~ok
    THEN UNCHANGED <<run, sock, thr>>
    ELSE run' = TRUE /\ sock' = TRUE /\ thr' = "init"

Go ==
    /\ Command({"prestarted", "paused"}, "active")
    /\ \E ok \in BOOLEAN : Launch(ok)
    /\ building' = TRUE
    /\ UNCHANGED <<pc, dev, frames, threadVars>>

\* Mutant: the thread is not told to stop.
StopForgets(state) ==
    IF run
    THEN pc' = state /\ UNCHANGED <<coda, run>>
    ELSE coda' = state /\ UNCHANGED <<pc, run>>

\* vtp_stats_sender_stop up to pthread_join; it has nothing to do when no
\* thread runs.
Stop(state) ==
    IF run
    THEN run' = FALSE /\ pc' = state /\ UNCHANGED coda
    ELSE coda' = state /\ UNCHANGED <<pc, run>>

Pause ==
    /\ pc = "idle" /\ coda = "active"
    /\ Stop("paused")
    /\ UNCHANGED <<dev, hwVars, sock, thr, threadVars>>

\* The trigger-interface master has stopped the frames before rocEnd ends.
End ==
    /\ pc = "idle" /\ coda \in {"prestarted", "active", "paused"}
    /\ Stop("downloaded")
    /\ building' = FALSE
    /\ UNCHANGED <<dev, frames, sock, thr, threadVars>>

\* Mutant: the stop does not wait for the thread.
JoinAtOnce ==
    /\ pc # "idle"
    /\ sock' = FALSE
    /\ coda' = pc /\ pc' = "idle"
    /\ UNCHANGED <<dev, hwVars, run, thr, threadVars>>

\* pthread_join returns and the socket is closed.
Join ==
    /\ pc # "idle" /\ thr = "none"
    /\ sock' = FALSE
    /\ coda' = pc /\ pc' = "idle"
    /\ UNCHANGED <<dev, hwVars, run, thr, threadVars>>

\* rocReset unmaps the device under the thread, and keeps its descriptor.
Reset ==
    /\ pc = "idle" /\ coda # "booted"
    /\ coda' = "booted"
    /\ dev' = "stale"
    /\ UNCHANGED <<pc, hwVars, run, sock, thr, threadVars>>

\* Fewer than Word frames are built between two readings (78 hours in the code).
Frame ==
    /\ building /\ frames < MaxFrames
    /\ thr \notin {"none", "init"} => frames + 1 - seen < Word
    /\ frames' = frames + 1
    /\ UNCHANGED <<rolVars, building, run, sock, thr, threadVars>>

-----------------------------------------------------------------------------
(* _vtp_stats_sender_main *)

\* vtpStreamingGetEbFrameCnt: without a device it returns ERROR, which is -1.
Error == Word - 1
FrameCnt == IF Mapped THEN frames % Word ELSE Error

\* What FrameCnt misses of the frame count.
Lost == frames - (frames % Word)

ThreadInit ==
    /\ thr = "init"
    /\ thr' = "test"
    /\ prevLow' = FrameCnt /\ prevExt' = FrameCnt
    /\ seen' = frames /\ base' = Lost
    /\ UNCHANGED <<rolVars, hwVars, run, sock, packet>>

ThreadTest ==
    /\ thr = "test"
    /\ thr' = IF run THEN "sleep" ELSE "none"
    /\ UNCHANGED <<rolVars, hwVars, run, sock, threadVars>>

\* The sleep is over; run is not looked at again before the packet is sent.
\* CHECKINIT tests the mapping before the counter is read.
ThreadWake ==
    /\ thr = "sleep"
    /\ thr' = IF Mapped THEN "read" ELSE "error"
    /\ UNCHANGED <<rolVars, hwVars, run, sock, threadVars>>

\* Mutant: a reading equal to the last one counts as a wrap.
CarriedWhenEqual(cur) == IF cur <= prevLow THEN prevExt + Word ELSE prevExt

\* "Wrap detected - increment upper 32 bits".
Carried(cur) == IF cur < prevLow THEN prevExt + Word ELSE prevExt

\* Mutant: the low word keeps the carry.
ExtendKeepsCarry(cur) ==
    LET fc == (Carried(cur) - (Carried(cur) % Word)) + cur
    IN  /\ prevLow' = fc /\ prevExt' = fc
        /\ packet' = [evt |-> fc,
                      rate |-> IF fc >= Carried(cur) THEN fc - Carried(cur) ELSE 0,
                      sent |-> TRUE]

\* The rate is the distance to the carried count, which on a wrap is ahead.
Extend(cur) ==
    LET fc == (Carried(cur) - (Carried(cur) % Word)) + cur
    IN  /\ prevLow' = cur /\ prevExt' = fc
        /\ packet' = [evt |-> fc,
                      rate |-> IF fc >= Carried(cur) THEN fc - Carried(cur) ELSE 0,
                      sent |-> TRUE]

Send(cur) ==
    /\ thr' = "test"
    /\ Extend(cur)
    /\ seen' = frames
    /\ UNCHANGED <<rolVars, hwVars, run, sock, base>>

ThreadRead == thr = "read" /\ Mapped /\ Send(frames % Word)

ThreadError == thr = "error" /\ Send(Error)

\* rocReset unmapped the device between the test and the reading: the thread
\* takes the process with it.
ThreadDies == thr = "read" /\ ~Mapped /\ Gone

Thread ==
    ThreadInit \/ ThreadTest \/ ThreadWake \/ ThreadRead \/ ThreadError \/ ThreadDies

Next ==
    \/ Download \/ DownloadAfterReset \/ Prestart \/ Go \/ Pause \/ End \/ Join \/ Reset
    \/ Frame
    \/ Thread

Spec == Init /\ [][Next]_vars

\* The thread runs, and pthread_join returns when it has ended.
Fairness ==
    /\ WF_vars(Thread)
    /\ WF_vars(Join)

FairSpec == Spec /\ Fairness

-----------------------------------------------------------------------------
(* Properties *)

\* Between a wrap of the counter, a pause, a new start of the thread and a
\* late wake-up, the event number of a packet is the frame count at the
\* reading, less what the counter had lost when the thread started.
EvtNumExact == [][ ThreadRead => packet'.evt = frames - base ]_vars

\* Outside an active run, unless rocReset left it behind, no sender is there
\* and no socket open; and no sender is ever there without its socket.
SenderScope ==
    /\ pc = "idle" /\ coda \in {"downloaded", "prestarted", "paused"} => thr = "none" /\ ~sock
    /\ thr # "none" => sock

\* rocPause and rocEnd come back from pthread_join.
StopReturns == pc # "idle" ~> pc = "idle"

\* "64-bit event (frame) number used by the load balancer": within one run it
\* does not go back.
EvtNumNeverBack ==
    [][ ThreadRead /\ packet.sent => packet'.evt >= packet.evt ]_vars
=============================================================================
