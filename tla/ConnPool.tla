------------------------------ MODULE ConnPool ------------------------------
(***************************************************************************)
(* One backend's connection pool (network-conn-pool.c) together with the  *)
(* reactor callback that watches its idle sockets                         *)
(* (network_mysqld_con_idle_handle in network-conn-pool-lua.c).           *)
(*                                                                         *)
(* Sessions are abstracted to the requests they make of the pool: fetch   *)
(* a socket for (username, key), return a held socket, open or close one. *)
(* The backend server may, while a socket idles in the pool, send bytes   *)
(* on it or close it; the idle watcher (a non-persistent EV_READ event)   *)
(* then fires once.                                                        *)
(***************************************************************************)
EXTENDS PoolOps, FiniteSets

CONSTANTS
    Users,      \* usernames backend connections are authenticated as
    Keys,       \* client keys (con->client->src->key)
    Sockets,    \* backend sockets
    MidIdle,    \* pool->mid_idle_connections
    MinIdle     \* pool->min_idle_connections

ASSUME NoUser \notin Users /\ MinIdle \in Nat /\ MidIdle \in Nat

Requesters == Users \cup {NoUser}

VARIABLES
    pool,      \* the network_connection_pool
    holder,    \* holder[s]: "client" (a session holds it), "pool" (an entry
               \* references it) or "closed"
    sockUser,  \* sock->response->username of an open socket
    srv,       \* what the backend left unread on s: a subset of {"data"}
               \* (unsolicited bytes) and {"eof"} (it closed its end)
    watch      \* the idle EV_READ event of s is pending in the event base

vars == <<pool, holder, sockUser, srv, watch>>

Pooled(s) == holder[s] = "pool"

TypeOK ==
    /\ DOMAIN pool.users \subseteq Users
    /\ \A u \in DOMAIN pool.users :
          pool.users[u] \in Seq([sock : Sockets, key : Keys])
    /\ pool.init_phase \in BOOLEAN
    /\ holder \in [Sockets -> {"client", "pool", "closed"}]
    /\ sockUser \in [Sockets -> Users]
    /\ srv \in [Sockets -> SUBSET {"data", "eof"}]
    /\ watch \in [Sockets -> BOOLEAN]

Init ==
    /\ pool = NewPool(MidIdle, MinIdle)
    /\ holder = [s \in Sockets |-> "closed"]
    /\ sockUser = [s \in Sockets |-> CHOOSE u \in Users : TRUE]
    /\ srv = [s \in Sockets |-> {}]
    /\ watch = [s \in Sockets |-> FALSE]

(***************************************************************************)
(* The protocol layer connects and authenticates a fresh backend socket   *)
(* for a session (outside src/).                                           *)
(***************************************************************************)
Connect(s, u) ==
    /\ holder[s] = "closed"
    /\ holder' = [holder EXCEPT ![s] = "client"]
    /\ sockUser' = [sockUser EXCEPT ![s] = u]
    /\ srv' = [srv EXCEPT ![s] = {}]
    /\ UNCHANGED <<pool, watch>>

\* A session closes a backend socket it holds (outside src/).
Disconnect(s) ==
    /\ holder[s] = "client"
    /\ holder' = [holder EXCEPT ![s] = "closed"]
    /\ UNCHANGED <<pool, sockUser, srv, watch>>

(***************************************************************************)
(* The pool half of network_connection_pool_lua_add_connection: any       *)
(* pending event is deleted, the socket is appended to the queue of its   *)
(* username with the client key, and the idle EV_READ watcher is armed.   *)
(***************************************************************************)
Return(s, k) ==
    /\ holder[s] = "client"
    /\ pool' = PoolAdd(pool, s, sockUser[s], k)
    /\ holder' = [holder EXCEPT ![s] = "pool"]
    /\ watch' = [watch EXCEPT ![s] = TRUE]
    /\ UNCHANGED <<sockUser, srv>>

(***************************************************************************)
(* network_connection_pool_get for (username, key): the chosen socket's   *)
(* idle event is deleted and the socket handed to the session.            *)
(***************************************************************************)
Get(u, k) ==
    \E out \in PoolGet(pool, u, k) :
        /\ pool' = out.pool
        /\ IF out.sock = NoSock
           THEN UNCHANGED <<holder, watch>>
           ELSE /\ holder' = [holder EXCEPT ![out.sock] = "client"]
                /\ watch' = [watch EXCEPT ![out.sock] = FALSE]
        /\ UNCHANGED <<sockUser, srv>>

\* The backend writes to an idle pooled connection (e.g. an error packet
\* announcing wait_timeout before it hangs up).
BackendSend(s) ==
    /\ Pooled(s) /\ srv[s] = {}
    /\ srv' = [srv EXCEPT ![s] = {"data"}]
    /\ UNCHANGED <<pool, holder, sockUser, watch>>

\* The backend closes an idle pooled connection; bytes it sent before and
\* nobody read stay in the receive buffer ahead of the FIN.
BackendClose(s) ==
    /\ Pooled(s) /\ "eof" \notin srv[s]
    /\ srv' = [srv EXCEPT ![s] = @ \cup {"eof"}]
    /\ UNCHANGED <<pool, holder, sockUser, watch>>

(***************************************************************************)
(* network_mysqld_con_idle_handle: the readable socket's non-persistent   *)
(* event fires once.  FIONREAD = 0 (nothing unread, so the wakeup was    *)
(* EOF) removes the entry and frees the socket                            *)
(* (network_connection_pool_remove, which does nothing when the user has  *)
(* no hash entry); unread bytes, with or without a FIN behind them, are   *)
(* only logged and the entry stays in the pool, the event not re-armed.   *)
(***************************************************************************)
IdleHandle(s) ==
    /\ watch[s] /\ srv[s] # {}
    /\ watch' = [watch EXCEPT ![s] = FALSE]
    /\ IF srv[s] = {"eof"} /\ sockUser[s] \in DOMAIN pool.users
       THEN /\ pool' = PoolRemove(pool, s, sockUser[s])
            /\ holder' = [holder EXCEPT ![s] = "closed"]
       ELSE UNCHANGED <<pool, holder>>
    /\ UNCHANGED <<sockUser, srv>>

Next ==
    \/ \E s \in Sockets, u \in Users : Connect(s, u)
    \/ \E s \in Sockets : Disconnect(s) \/ BackendSend(s) \/ BackendClose(s) \/ IdleHandle(s)
    \/ \E s \in Sockets, k \in Keys : Return(s, k)
    \/ \E u \in Requesters, k \in Keys : Get(u, k)

\* The reactor dispatches every pending event whose socket is readable.
Fairness == \A s \in Sockets : WF_vars(IdleHandle(s))

Spec == Init /\ [][Next]_vars /\ Fairness

-----------------------------------------------------------------------------
(***************************************************************************)
(* Refinement: the queues implement the ownership promise of IdlePool.    *)
(***************************************************************************)
Abs == INSTANCE IdlePool WITH
         idle <- [u \in Users |-> IdleSocks(pool, u)],
         held <- {s \in Sockets : holder[s] = "client"}

\* Fetch, return and eviction move each socket between one session and
\* one user's idle queue exactly as IdlePool allows: no socket is handed
\* out twice or while another session holds it, and a user with idle
\* sockets of its own is never given another user's.
IdlePoolRefined == Abs!Spec

\* Every pooled socket the backend has closed is eventually gone from the
\* pool, whatever the backend sent before closing (spec 4.2 evict: "data
\* or EOF arrives on a pooled, supposedly-idle socket").
EofEvicted ==
    \A s \in Sockets : (Pooled(s) /\ "eof" \in srv[s]) ~> ~Pooled(s)

\* A fetch comes back empty only when the requester has no idle socket of
\* its own and no queue is above the borrowing bar (spec 4.2 lookup: "an
\* exact identity match if present and non-empty", then selectQueue).
GetMiss(u, k) ==
    /\ \E out \in PoolGet(pool, u, k) : out.sock = NoSock /\ pool' = out.pool
    /\ UNCHANGED <<holder, watch>>

NothingEligible(u) ==
    LET threshold == IF pool.init_phase THEN pool.mid_idle_connections
                                        ELSE pool.min_idle_connections
    IN /\ u \in Users => IdleSocks(pool, u) = {}
       /\ FindIdleConns(pool.users, threshold) = {}

MissOnlyWhenNothingEligible ==
    [][\A u \in Requesters, k \in Keys : GetMiss(u, k) => NothingEligible(u)]_vars
=============================================================================
