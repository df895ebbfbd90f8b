----------------------------- MODULE MC_Binder -----------------------------
(***************************************************************************)
(* Binder instantiated for TLC: two client sessions of one username, three *)
(* backend sockets, at most one pending prepared statement per session.   *)
(* Backend 0 is read-write, backend 1 read-only: a session bound to 1     *)
(* with a prepared statement multiplexes onto 0, and bypasses back to 1.  *)
(* MCBackends3 has three read-write backends, so that a second multiplex  *)
(* can be shorter than the first.                                          *)
(***************************************************************************)
EXTENDS Binder, TLC

CONSTANTS c1, c2, u1

MCBackends == 0..1
MCBackendType == [b \in MCBackends |-> IF b = 0 THEN "RW" ELSE "RO"]
MCBackends3 == 0..2
MCBackendType3 == [b \in MCBackends3 |-> "RW"]
MCSessions == {c1, c2}
MCSessionUser == [c \in MCSessions |-> u1]
MCMaxPrep == 1
MCMaxConnected == 2
\* guint is 32 bits wide; TLC integers are 32-bit signed, so the counter
\* wraps at 2^16 here: the same wrap-around below zero, at a smaller top.
MCGuintBits == 16
\* Sessions (which are also the client keys) and sockets are interchangeable.
MCSymmetry == Permutations(MCSessions) \cup Permutations(Sockets)
=============================================================================
