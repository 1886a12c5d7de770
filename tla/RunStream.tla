------------------------------ MODULE RunStream ------------------------------
(***************************************************************************)
(* What a streaming readout list promises the process that receives a      *)
(* stream: over one connection it sees Prestart, then Go (again after each *)
(* pause), then End, or End straight after Prestart; no frame follows End; *)
(* and End carries the number of frames sent.  Frames may overtake the     *)
(* Prestart and Go events, which wait in a FIFO of their own.              *)
(*                                                                         *)
(* StreamRol implements this specification as long as the firmware loads,  *)
(* connections stand and the file is not edited during a run.              *)
(***************************************************************************)
EXTENDS Naturals

CONSTANT Stream

VARIABLES
    open,       \* the streams with a connection
    phase,      \* the last control event each connection carried
    sent,       \* frames sent since the data path was reset
    reported    \* the count the End event carried, while the stream is open

vars == <<open, phase, sent, reported>>

Init ==
    /\ open = [s \in Stream |-> FALSE]
    /\ phase = [s \in Stream |-> "NONE"]
    /\ sent = [s \in Stream |-> 0]
    /\ reported = [s \in Stream |-> 0]

\* The order of control events on one connection.
Follows(e) ==
    CASE e = "PRESTART" -> {"NONE"}
      [] e = "GO" -> {"PRESTART", "GO"}
      [] e = "END" -> {"PRESTART", "GO"}

Open(s) ==
    /\ ~open[s]
    /\ open' = [open EXCEPT ![s] = TRUE]
    /\ phase' = [phase EXCEPT ![s] = "NONE"]
    /\ UNCHANGED <<sent, reported>>

Event(s, e) ==
    /\ open[s] /\ phase[s] \in Follows(e)
    /\ phase' = [phase EXCEPT ![s] = e]
    /\ reported' = [reported EXCEPT ![s] = IF e = "END" THEN sent[s] ELSE @]
    /\ UNCHANGED <<open, sent>>

Frame(s) ==
    /\ open[s] /\ phase[s] # "END"
    /\ sent' = [sent EXCEPT ![s] = @ + 1]
    /\ UNCHANGED <<open, phase, reported>>

\* A run ends with its End event; only then is a connection closed alone.
Close(s) ==
    /\ open[s] /\ phase[s] = "END"
    /\ open' = [open EXCEPT ![s] = FALSE]
    /\ reported' = [reported EXCEPT ![s] = 0]
    /\ UNCHANGED <<phase, sent>>

\* The counters restart with no connection open; a reload of the firmware
\* abandons every connection with them.
Restart ==
    /\ open' = [s \in Stream |-> FALSE]
    /\ sent' = [s \in Stream |-> 0]
    /\ reported' = [s \in Stream |-> 0]
    /\ UNCHANGED phase

Next ==
    \/ \E s \in Stream : Open(s) \/ Frame(s) \/ Close(s)
    \/ \E s \in Stream, e \in {"PRESTART", "GO", "END"} : Event(s, e)
    \/ Restart

Spec == Init /\ [][Next]_vars
=============================================================================
