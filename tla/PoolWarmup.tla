----------------------------- MODULE PoolWarmup -----------------------------
(***************************************************************************)
(* The warm-up of one connection pool and the Lua bridge to its fields    *)
(* (proxy_pool_get, proxy_pool_set, proxy_pool_users_get in               *)
(* network-conn-pool-lua.c), over the pool operators of PoolOps.          *)
(*                                                                         *)
(* Sessions are reduced to what they do to the pool: admit an idle       *)
(* socket for a user, fetch one.  A client key is the username of the    *)
(* session (affinity is ConnPool's subject).  The clock is time(0) in     *)
(* whole seconds.                                                          *)
(***************************************************************************)
EXTENDS PoolOps, Integers, FiniteSets

CONSTANTS
    Users,       \* usernames
    Sockets,     \* backend sockets
    Values,      \* the integers a script assigns to a tunable
    StartTime,   \* time(0) when the pool is created, in seconds
    MaxTime      \* bound on the clock

ASSUME NoUser \notin Users /\ Values \subseteq Int /\ StartTime \in Nat

Requesters == Users \cup {NoUser}
IntFields  == {"max_idle_connections", "mid_idle_connections",
               "min_idle_connections", "max_init_time", "set_init_time"}
BoolFields == {"serve_req_after_init", "init_phase", "stop_phase"}

VARIABLES
    pool,   \* the network_connection_pool
    now,    \* time(0)
    op      \* history: the last operation, [name, user, sock]

vars == <<pool, now, op>>

Idle == UNION {IdleSocks(pool, u) : u \in DOMAIN pool.users}

NoOp(name) == [name |-> name, user |-> NoUser, sock |-> NoSock]

TypeOK ==
    /\ DOMAIN pool.users \subseteq Requesters
    /\ \A u \in DOMAIN pool.users : pool.users[u] \in Seq([sock : Sockets, key : Requesters])
    /\ pool.init_phase \in BOOLEAN
    /\ pool.init_time \in {0} \cup (StartTime..MaxTime)   \* the epoch or a time(0)
    /\ now \in StartTime..MaxTime

Init ==
    /\ pool = NewPool(50, 10)
    /\ now = StartTime
    /\ op = NoOp("new")

-----------------------------------------------------------------------------
\* network_connection_pool_add (through add_connection) of an idle socket
\* authenticated as u.
Admit(s, u) ==
    /\ s \notin Idle
    /\ pool' = PoolAdd(pool, s, u, u)
    /\ op' = [name |-> "add", user |-> u, sock |-> s]
    /\ UNCHANGED now

\* network_connection_pool_get for a session of user u (NoUser: a client
\* without an auth response).
Fetch(u) ==
    \E out \in PoolGet(pool, u, u) :
        /\ pool' = out.pool
        /\ op' = [name |-> "get", user |-> u, sock |-> out.sock]
        /\ UNCHANGED now

(***************************************************************************)
(* proxy_pool_set: pool.<field> = v from Lua.  max_init_time sets         *)
(* max_init_last_time; a nonzero set_init_time, and init_phase = true,    *)
(* restart the warm-up clock and clear serve_req_after_init.              *)
(***************************************************************************)
\* Mutant: set_init_time stores the Lua value rather than time(0).
PoolSetIntStoresValue(field, v) ==
    /\ \/ field = "set_init_time" /\ v # 0
          /\ pool' = [pool EXCEPT !.init_time = v, !.serve_req_after_init = FALSE]
       \/ field # "set_init_time" /\ UNCHANGED pool
    /\ op' = NoOp("set_" \o field)
    /\ UNCHANGED now

PoolSetInt(field, v) ==
    /\ \/ field = "max_idle_connections" /\ pool' = [pool EXCEPT !.max_idle_connections = v]
       \/ field = "mid_idle_connections" /\ pool' = [pool EXCEPT !.mid_idle_connections = v]
       \/ field = "min_idle_connections" /\ pool' = [pool EXCEPT !.min_idle_connections = v]
       \/ field = "max_init_time" /\ pool' = [pool EXCEPT !.max_init_last_time = v]
       \/ field = "set_init_time" /\ v # 0
          /\ pool' = [pool EXCEPT !.init_time = now, !.serve_req_after_init = FALSE]
       \/ field = "set_init_time" /\ v = 0 /\ UNCHANGED pool
    /\ op' = NoOp("set_" \o field)
    /\ UNCHANGED now

PoolSetBool(field, b) ==
    /\ \/ field = "serve_req_after_init" /\ pool' = [pool EXCEPT !.serve_req_after_init = b]
       \/ field = "init_phase" /\ ~b /\ pool' = [pool EXCEPT !.init_phase = FALSE]
       \/ field = "init_phase" /\ b
          /\ pool' = [pool EXCEPT !.init_phase = TRUE, !.init_time = now,
                                  !.serve_req_after_init = FALSE]
       \/ field = "stop_phase" /\ pool' = [pool EXCEPT !.stop_phase = b]
    /\ op' = NoOp("set_" \o field)
    /\ UNCHANGED now

\* proxy_pool_get "init_phase": the flag is recomputed from the clock,
\* written back, and returned.
GetInitPhase ==
    /\ pool' = [pool EXCEPT !.init_phase = (now - pool.init_time <= pool.max_init_last_time)]
    /\ op' = NoOp("get_init_phase")
    /\ UNCHANGED now

\* proxy_pool_users_get: pool.users[name] calls get_conns for name (which
\* ends warm-up when it finds a queue over mid_idle) and wraps the queue.
UsersGet(u) ==
    \E gc \in GetConns(pool, u) :
        /\ pool' = [pool EXCEPT !.init_phase = gc.init_phase]
        /\ op' = [name |-> "get_users", user |-> u, sock |-> NoSock]
        /\ UNCHANGED now

Tick ==
    /\ now < MaxTime
    /\ now' = now + 1
    /\ op' = NoOp("tick")
    /\ UNCHANGED pool

Next ==
    \/ \E s \in Sockets, u \in Users : Admit(s, u)
    \/ \E u \in Requesters : Fetch(u) \/ UsersGet(u)
    \/ \E f \in IntFields, v \in Values : PoolSetInt(f, v)
    \/ \E f \in BoolFields, b \in BOOLEAN : PoolSetBool(f, b)
    \/ GetInitPhase
    \/ Tick

Spec == Init /\ [][Next]_vars

-----------------------------------------------------------------------------
\* Warm-up ends only when some queue has grown past mid_idle (spec 4.2),
\* apart from a script assigning init_phase itself.
WarmupEndsOnlyPastMid ==
    [][(pool.init_phase /\ ~pool'.init_phase /\ op'.name # "set_init_phase")
         => \E v \in DOMAIN pool.users : Len(pool.users[v]) > pool.mid_idle_connections]_vars
=============================================================================
