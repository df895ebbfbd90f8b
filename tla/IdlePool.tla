------------------------------ MODULE IdlePool ------------------------------
(***************************************************************************)
(* What a connection pool promises, without queues, keys or warm-up.      *)
(* Every backend socket is owned by exactly one of: a client session      *)
(* (held), the idle set of one username (idle[u]), or nobody (closed).    *)
(* A fetch by a user takes a socket of its own idle set whenever that set *)
(* is not empty; it may borrow another user's socket otherwise.           *)
(***************************************************************************)
CONSTANTS Users, Requesters, Sockets

VARIABLES idle, held

vars == <<idle, held>>

Pooled == UNION {idle[u] : u \in Users}

OwnIdle(r) == IF r \in Users THEN idle[r] ELSE {}

Init ==
    /\ idle = [u \in Users |-> {}]
    /\ held = {}

\* A client session opens a fresh backend connection.
Open(s) ==
    /\ s \notin held \cup Pooled
    /\ held' = held \cup {s}
    /\ UNCHANGED idle

\* A client session closes a socket it holds.
Close(s) ==
    /\ s \in held
    /\ held' = held \ {s}
    /\ UNCHANGED idle

\* A held socket becomes idle for user u.
Admit(s, u) ==
    /\ s \in held
    /\ idle' = [idle EXCEPT ![u] = @ \cup {s}]
    /\ held' = held \ {s}

\* Requester r is handed the idle socket s of user v.
Fetch(r, s, v) ==
    /\ s \in idle[v]
    /\ OwnIdle(r) # {} => v = r
    /\ idle' = [idle EXCEPT ![v] = @ \ {s}]
    /\ held' = held \cup {s}

\* An idle socket is discarded.
Evict(s, v) ==
    /\ s \in idle[v]
    /\ idle' = [idle EXCEPT ![v] = @ \ {s}]
    /\ UNCHANGED held

Next ==
    \E s \in Sockets :
        \/ Open(s) \/ Close(s)
        \/ \E u \in Users : Admit(s, u) \/ Evict(s, u)
        \/ \E r \in Requesters, v \in Users : Fetch(r, s, v)

Spec == Init /\ [][Next]_vars
=============================================================================
