---------------------------- MODULE MCStreamRol ----------------------------
(* Instances of StreamRol for TLC. *)
EXTENDS StreamRol

Cfg(n, u, ps) == [conn |-> n, udp |-> u, ejfat |-> u, pps |-> ps]

\* Files for one TCP connection, for a TCP connection on every client, and for
\* more UDP connections than there are clients.
RunConfigs == {Cfg(1, FALSE, {1}), Cfg(NumInst, FALSE, {1, 2}), Cfg(NumInst + 1, TRUE, {2})}

\* Files for a connection on every client, and one that lacks the key.
FaultConfigs == {Cfg(0, TRUE, {1}), Cfg(NumInst, TRUE, {1}), Cfg(NumInst, FALSE, {1})}
=============================================================================
