-------------------------- MODULE MCEventTransport --------------------------
(* Instances of EventTransport for TLC. *)
EXTENDS EventTransport

CONSTANTS p1, p2

\* The listener of p1 may be restarted while its thread is alive.
MCThreads == {<<p1, 1>>, <<p1, 2>>, <<p2, 1>>}

=============================================================================
