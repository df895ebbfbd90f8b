---------------------------- MODULE MC_ConnPool ----------------------------
(* Instantiates ConnPool for TLC: two users, two client keys, three      *)
(* backend sockets; mid/min bars 1 and 0 so both warm-up borrowing and   *)
(* steady-state borrowing happen with queues of two and one entries.     *)
EXTENDS ConnPool

MCMidIdle == 1
MCMinIdle == 0
=============================================================================
