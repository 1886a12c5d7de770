--------------------------- MODULE MCStreamLists ----------------------------
(* Instances of StreamLists for TLC. *)
EXTENDS StreamLists

AllLists == {"1tcp", "2tcp", "4tcp", "2udp", "4udp"}
\* Files with other routes than the list: an address that wraps at 255, and the next one.
TwoFiles == {[ip |-> 254, mac |-> 255, n |-> 4, mask |-> {1, 2}],
             [ip |-> 255, mac |-> 0, n |-> 1, mask |-> {2}]}
=============================================================================
