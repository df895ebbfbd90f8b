------------------------------ MODULE PoolOps ------------------------------
(***************************************************************************)
(* Pure operators over one connection pool (network-conn-pool.c).          *)
(*                                                                         *)
(* A pool is a record                                                      *)
(*   users      : a function from the usernames that have a hash entry to *)
(*                the GQueue of pool entries kept for them (the domain     *)
(*                changes: g_hash_table_insert / g_hash_table_remove),     *)
(*   init_phase : the warm-up flag,                                        *)
(*   mid_idle_connections, min_idle_connections : the borrowing bars,     *)
(*   and the fields only the Lua bridge reads and writes.                  *)
(* A pool entry is [sock, key]: the idle socket and the client key it was *)
(* returned with.  The `shared' flag of an entry is never set anywhere in *)
(* src/ (entries are g_new0'd), so its test in the affinity loop is       *)
(* always true and is not represented.                                     *)
(*                                                                         *)
(* The operators return the SET of outcomes the code can produce: the     *)
(* order in which g_hash_table_find visits the queues is not specified.   *)
(***************************************************************************)
EXTENDS Naturals, Sequences, SequencesExt, Functions

CONSTANTS
    NoUser,   \* the empty username "" (a client without an auth response)
    NoConns,  \* "no queue found" (NULL returned by get_conns)
    NoSock    \* "no socket" (NULL returned by pool_get)

PoolEntry(s, k) == [sock |-> s, key |-> k]

\* network_connection_pool_new: tunables and the warm-up flag; g_new0
\* zeroes the fields only the Lua bridge uses (init_time is the epoch).
NewPool(mid, min) ==
    [users |-> [u \in {} |-> <<>>], init_phase |-> TRUE,
     mid_idle_connections |-> mid, min_idle_connections |-> min,
     max_idle_connections |-> 100, init_time |-> 0, max_init_last_time |-> 0,
     serve_req_after_init |-> FALSE, stop_phase |-> FALSE]

\* The hash table without the entry of username u (g_hash_table_remove,
\* a no-op when u has no entry).
RemoveUser(users, u) == Restrict(users, DOMAIN users \ {u})

\* The sockets idling in the queue of u, or none when u has no entry.
IdleSocks(pool, u) ==
    IF u \in DOMAIN pool.users THEN {e.sock : e \in Range(pool.users[u])} ELSE {}

\* find_idle_conns: the queues longer than the threshold.
FindIdleConns(users, threshold) == {u \in DOMAIN users : Len(users[u]) > threshold}

(***************************************************************************)
(* network_connection_pool_get_conns: the queue of the user when its hash *)
(* entry exists (whatever its length), otherwise any queue longer than    *)
(* mid_idle (warm-up) or min_idle (after).  Finding a queue in warm-up    *)
(* ends warm-up.  Outcomes are [conns, init_phase].                       *)
(***************************************************************************)
\* Mutant: the user's own hash entry is not consulted first.
GetConnsOwnIgnored(pool, username) ==
    LET threshold == IF pool.init_phase THEN pool.mid_idle_connections
                                         ELSE pool.min_idle_connections
        found == FindIdleConns(pool.users, threshold)
    IN IF found = {}
       THEN {[conns |-> NoConns, init_phase |-> pool.init_phase]}
       ELSE {[conns |-> u, init_phase |-> FALSE] : u \in found}

GetConns(pool, username) ==
    IF username # NoUser /\ username \in DOMAIN pool.users
    THEN {[conns |-> username, init_phase |-> pool.init_phase]}
    ELSE LET threshold == IF pool.init_phase THEN pool.mid_idle_connections
                                             ELSE pool.min_idle_connections
             found == FindIdleConns(pool.users, threshold)
         IN IF found = {}
            THEN {[conns |-> NoConns, init_phase |-> pool.init_phase]}
            ELSE {[conns |-> u, init_phase |-> FALSE] : u \in found}

(***************************************************************************)
(* network_connection_pool_get: pick, in the queue get_conns chose, the   *)
(* first entry whose key is the caller's key, else the head; pop it; when *)
(* the queue is then empty remove the hash entry of the CALLER's username *)
(* (not the key of the queue that was popped).  Outcomes are [pool, sock].*)
(***************************************************************************)
PickIndex(q, key) ==
    LET i == SelectInSeq(q, LAMBDA e : e.key = key)
    IN IF i # 0 THEN i ELSE IF Len(q) > 0 THEN 1 ELSE 0

PoolGet(pool, username, key) ==
    {   LET p1 == [pool EXCEPT !.init_phase = gc.init_phase]
        IN IF gc.conns = NoConns
           THEN [pool |-> p1, sock |-> NoSock]
           ELSE LET q    == p1.users[gc.conns]
                    i    == PickIndex(q, key)
                    rest == IF i = 0 THEN q ELSE RemoveAt(q, i)
                    us1  == [p1.users EXCEPT ![gc.conns] = rest]
                    us2  == IF Len(rest) = 0 THEN RemoveUser(us1, username) ELSE us1
                IN [pool |-> [p1 EXCEPT !.users = us2],
                    sock |-> IF i = 0 THEN NoSock ELSE q[i].sock]
      : gc \in GetConns(pool, username) }

\* network_connection_pool_add: append to the queue of the socket's user,
\* creating the queue when the user has no hash entry.
\* Mutant: the entry records the username where the client key belongs.
PoolAddUserKey(pool, s, username, key) ==
    [pool EXCEPT !.users =
        IF username \in DOMAIN pool.users
        THEN [pool.users EXCEPT ![username] = Append(@, PoolEntry(s, username))]
        ELSE pool.users @@ (username :> <<PoolEntry(s, username)>>)]

PoolAdd(pool, s, username, key) ==
    [pool EXCEPT !.users =
        IF username \in DOMAIN pool.users
        THEN [pool.users EXCEPT ![username] = Append(@, PoolEntry(s, key))]
        ELSE pool.users @@ (username :> <<PoolEntry(s, key)>>)]

\* network_connection_pool_remove: drop the entry of socket s from the
\* queue of its user (g_queue_remove); a no-op when the user has no hash
\* entry.  The queue is left in the hash table even when it becomes empty.
PoolRemove(pool, s, username) ==
    IF username \in DOMAIN pool.users
    THEN [pool EXCEPT !.users[username] = RemoveFirstMatch(@, LAMBDA e : e.sock = s)]
    ELSE pool
=============================================================================
