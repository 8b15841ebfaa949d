----------------------------- MODULE MCLifecycle -----------------------------
(* Model checking of Lifecycle with two symbols, so that a replay can fail    *)
(* halfway, two attempts per reconnect and up to four faults: enough for a    *)
(* broken connection, an exhausted reconnect and a failed replay in a row.    *)
EXTENDS Lifecycle

=============================================================================
