------------------------------ MODULE Binder ------------------------------
(***************************************************************************)
(* The session binder of network-conn-pool-lua.c: how client sessions     *)
(* take backend sockets out of the per-backend pools                      *)
(* (network_connection_pool_lua_swap), multiplex one session over several *)
(* backends while prepared statements are pending (server_list,           *)
(* backend_ndx_array), and give sockets back                              *)
(* (network_connection_pool_lua_add_connection).                          *)
(*                                                                         *)
(* Each backend owns one pool (PoolOps).  The protocol layer that drives  *)
(* a session through its phases, opens fresh backend connections and     *)
(* calls swap / add_connection lives outside src/ and is modelled from    *)
(* the spec: a session authenticates, sends queries, reads their results  *)
(* and eventually closes or quits.                                         *)
(***************************************************************************)
EXTENDS PoolOps, Integers, FiniteSets

CONSTANTS
    Backends,     \* backend indices 0..n-1 of the registry
    BackendType,  \* BackendType[b] \in {"RW", "RO"}
    Sessions,     \* client connections; a session's client key is itself
    SessionUser,  \* SessionUser[c]: the username the client authenticated as
    Sockets,      \* backend sockets
    MaxPrep,      \* bound on valid_prepare_stmt_cnt
    GuintBits,    \* width of connected_clients (a guint: 32 bits)
    MaxConnected  \* bound on connected_clients for the steps that raise it

Users == {SessionUser[c] : c \in Sessions}

\* con->state values the binder reads, with their rank in the protocol
\* layer's enum (network-mysqld.h, outside src/).
Rank == [ReadAuth |-> 4, ReadAuthResult |-> 6, ReadQuery |-> 10,
         ReadQueryResult |-> 12, CloseClient |-> 14, ClientQuit |-> 18]
Phases == DOMAIN Rank \cup {"Closed"}

UInt == 2^GuintBits   \* connected_clients wraps modulo 2^width
Inc(x) == (x + 1) % UInt
Dec(x) == (x + UInt - 1) % UInt

NoBackend == -1

\* add_connection does not return: it dereferences a NULL server_list member.
Crash == -2

VARIABLES
    pool,        \* pool[b]: backend b's network_connection_pool
    connected,   \* connected[b]: backend->connected_clients
    sockBackend, \* the backend a socket is connected to, NoBackend if closed
    sockUser,    \* sock->response->username
    sockClean,   \* the socket's backend conversation is at a command boundary
    sockResp,    \* sock->response is set: the client's auth went through the socket
    con,         \* con[c]: the session's network_mysqld_con and its lua state
    crashed      \* the proxy dereferenced a NULL server_list member

vars == <<pool, connected, sockBackend, sockUser, sockClean, sockResp, con, crashed>>

ZeroArray == [b \in Backends |-> 0]

ClosedSession ==
    [key |-> NoSock, phase |-> "Closed", bef |-> "ReadQuery", server |-> NoSock,
     backend |-> NoBackend, ndx |-> NoBackend, list |-> <<>>,
     arrAlloc |-> FALSE, arr |-> ZeroArray, prep |-> 0,
     poolUsed |-> FALSE, closeAfter |-> FALSE]

TypeOK ==
    /\ \A b \in Backends : \A u \in DOMAIN pool[b].users :
          pool[b].users[u] \in Seq([sock : Sockets, key : Sessions])
    /\ connected \in [Backends -> 0..(UInt - 1)]
    /\ sockBackend \in [Sockets -> Backends \cup {NoBackend}]
    /\ sockUser \in [Sockets -> Users]
    /\ sockClean \in [Sockets -> BOOLEAN]
    /\ sockResp \in [Sockets -> BOOLEAN]
    /\ \A c \in Sessions :
         /\ con[c].phase \in Phases /\ con[c].bef \in Phases
         /\ con[c].server \in Sockets \cup {NoSock}
         /\ con[c].backend \in Backends \cup {NoBackend}
         /\ con[c].ndx \in Backends \cup {NoBackend}
         /\ con[c].list \in Seq(Sockets \cup {NoSock})
         /\ con[c].arr \in [Backends -> Nat]
         /\ con[c].prep \in 0..MaxPrep
         /\ con[c].poolUsed \in BOOLEAN
         /\ con[c].closeAfter \in BOOLEAN

Init ==
    /\ pool = [b \in Backends |-> NewPool(50, 10)]
    /\ connected = [b \in Backends |-> 0]
    /\ sockBackend = [s \in Sockets |-> NoBackend]
    /\ sockUser = [s \in Sockets |-> CHOOSE u \in Users : TRUE]
    /\ sockClean = [s \in Sockets |-> TRUE]
    /\ sockResp = [s \in Sockets |-> FALSE]
    /\ con = [c \in Sessions |-> ClosedSession]
    /\ crashed = FALSE

-----------------------------------------------------------------------------
(***************************************************************************)
(* network_connection_pool_lua_add_connection(con, is_swap) as a function *)
(* of the session cs and the pools and counters it updates.  Returns      *)
(* [ret, pool, connected, cs].                                             *)
(*                                                                         *)
(* A non-swap return from a phase other than ClientQuit, ReadQuery and    *)
(* ReadAuthResult is refused unless the pool connection was used and the  *)
(* client closed at or before ReadQuery, or the connection was not from   *)
(* the pool and the client closed in ReadQuery / ReadAuthResult; a refused *)
(* socket is left on the session to be closed (server_is_closed).         *)
(* A multiplexing session returns, in backend index order, the member     *)
(* backend_ndx_array[i] - 1 of server_list for every backend i whose      *)
(* array entry is non-zero, stopping after server_list->num of them; the  *)
(* array itself is kept.                                                  *)
(***************************************************************************)
\* Mutant: a used pool connection is pooled whatever the client was doing.
SafeToPoolNoBef(cs, isSwap) ==
    \/ isSwap
    \/ cs.phase \in {"ClientQuit", "ReadQuery", "ReadAuthResult"}
    \/ cs.poolUsed
    \/ cs.phase = "CloseClient" /\ cs.bef \in {"ReadQuery", "ReadAuthResult"}

SafeToPool(cs, isSwap) ==
    \/ isSwap
    \/ cs.phase \in {"ClientQuit", "ReadQuery", "ReadAuthResult"}
    \/ IF cs.poolUsed
       THEN Rank[cs.bef] <= Rank["ReadQuery"]
       ELSE cs.phase = "CloseClient" /\ cs.bef \in {"ReadQuery", "ReadAuthResult"}

\* The backends the server_list loop visits: non-zero array entries, in
\* index order, at most server_list->num of them.
Visited(cs) ==
    LET nz == {b \in Backends : cs.arr[b] # 0}
    IN {b \in nz : Cardinality({a \in nz : a <= b}) <= Len(cs.list)}

Member(cs, b) == IF cs.arr[b] <= Len(cs.list) THEN cs.list[cs.arr[b]] ELSE NoSock

\* con->server_list = NULL after the members are pooled.
ReleaseList(cs) == [cs EXCEPT !.list = <<>>]

\* st->to_be_closed_after_serve_req on a session bound to a RW backend.
Retiring(cs) ==
    cs.backend # NoBackend /\ BackendType[cs.backend] = "RW" /\ cs.closeAfter

AddConn(cs, pl, cnt, isSwap) ==
    IF Retiring(cs) \/ cs.server = NoSock \/ ~sockResp[cs.server] \/ ~SafeToPool(cs, isSwap)
    THEN [ret |-> 0, pool |-> pl, connected |-> cnt, cs |-> cs]
    ELSE IF cs.list # <<>> /\ \E b \in Visited(cs) : Member(cs, b) = NoSock
    THEN [ret |-> Crash, pool |-> pl, connected |-> cnt, cs |-> cs]
    ELSE LET released == [cs EXCEPT !.backend = NoBackend, !.ndx = NoBackend,
                                    !.server = NoSock]
         IN IF cs.list # <<>>
            THEN [ret |-> 1,
                  pool |-> [b \in Backends |->
                              IF b \in Visited(cs)
                              THEN PoolAdd(pl[b], Member(cs, b), sockUser[Member(cs, b)], cs.key)
                              ELSE pl[b]],
                  connected |-> [b \in Backends |->
                                   IF b \in Visited(cs) THEN Dec(cnt[b]) ELSE cnt[b]],
                  cs |-> ReleaseList(released)]
            ELSE [ret |-> 1,
                  pool |-> [pl EXCEPT ![cs.backend] =
                               PoolAdd(@, cs.server, sockUser[cs.server], cs.key)],
                  connected |-> [cnt EXCEPT ![cs.backend] = Dec(@)],
                  cs |-> [released EXCEPT !.prep = 0]]

\* The part of the state add_connection / swap write, from their result.
Apply(c, r) ==
    /\ pool' = r.pool
    /\ connected' = r.connected
    /\ crashed' = (r.ret = Crash)

-----------------------------------------------------------------------------
(***************************************************************************)
(* network_connection_pool_lua_swap(con, backend_ndx), with the caller    *)
(* binding the returned socket as con->server and recording that a pool   *)
(* connection is in use.                                                   *)
(*   - A session with a backend, pending prepared statements and another  *)
(*     target switches servers; to a RW target it adds a multiplex       *)
(*     member, and when server_list already has a member for the target  *)
(*     (backend_ndx_array[target] > 0) that member is returned at once.  *)
(*   - Otherwise a socket is taken from the target's pool (username,     *)
(*     client key); none: backend_ndx = -1 and NULL.                      *)
(*   - Multiplex: allocate the array (current backend -> 1) if absent,   *)
(*     start server_list {con->server, new} or append, record the new    *)
(*     position for the target.  Plain: add_connection(con, 1) on the    *)
(*     current server first.                                               *)
(*   - Bind: st->backend, connected_clients++, backend_ndx.                *)
(***************************************************************************)
Switching(cs, b) == cs.ndx # NoBackend /\ cs.prep > 0 /\ cs.ndx # b

Bypass(cs, b) == Switching(cs, b) /\ cs.list # <<>> /\ cs.arr[b] > 0

\* The username swap asks the pool for: con->client->response->username,
\* or the empty username while the client's auth response is not yet
\* parsed (the handshake, phase ReadAuth).
AskedUser(c) == IF con[c].phase = "ReadAuth" THEN NoUser ELSE SessionUser[c]

Swap(c, b) ==
    LET cs == con[c] IN
    /\ ~crashed
    /\ cs.phase \in {"ReadAuth", "ReadQuery"}
    /\ connected[b] < MaxConnected
    /\ IF Bypass(cs, b)
       THEN \* a NULL member (position past server_list->num) binds nothing
            /\ Member(cs, b) # NoSock
            /\ con' = [con EXCEPT ![c].server = Member(cs, b)]
            /\ UNCHANGED <<pool, connected, sockBackend, sockUser, sockClean, sockResp, crashed>>
       ELSE
         \E out \in PoolGet(pool[b], AskedUser(c), cs.key) :
           LET pl == [pool EXCEPT ![b] = out.pool] IN
           IF out.sock = NoSock
           THEN /\ pool' = pl
                /\ con' = [con EXCEPT ![c].ndx = NoBackend]
                /\ UNCHANGED <<connected, sockBackend, sockUser, sockClean, sockResp, crashed>>
           ELSE
             LET r == IF Switching(cs, b) /\ BackendType[b] = "RW"
                      THEN LET arr0  == IF cs.arrAlloc THEN cs.arr
                                        ELSE [ZeroArray EXCEPT ![cs.ndx] = 1]
                               list1 == IF cs.list = <<>> THEN <<cs.server, out.sock>>
                                        ELSE Append(cs.list, out.sock)
                           IN [ret |-> 1, pool |-> pl, connected |-> connected,
                               cs |-> [cs EXCEPT !.arrAlloc = TRUE, !.list = list1,
                                                 !.arr = [arr0 EXCEPT ![b] = Len(list1)]]]
                      ELSE AddConn(cs, pl, connected, TRUE)
             IN /\ Apply(c, [r EXCEPT !.connected = [@ EXCEPT ![b] = Inc(@)]])
                /\ con' = [con EXCEPT ![c] = [r.cs EXCEPT !.backend = b, !.ndx = b,
                                                          !.server = out.sock,
                                                          !.poolUsed = TRUE]]
                /\ UNCHANGED <<sockBackend, sockUser, sockClean, sockResp>>

(***************************************************************************)
(* add_connection(con, 0) after a query, while the client stays connected *)
(* (connection-pool mode of the protocol layer).                           *)
(***************************************************************************)
ReturnToPool(c) ==
    LET r == AddConn(con[c], pool, connected, FALSE) IN
    /\ ~crashed
    /\ con[c].phase = "ReadQuery" /\ con[c].server # NoSock
    /\ Apply(c, r)
    /\ con' = [con EXCEPT ![c] = r.cs]
    /\ UNCHANGED <<sockBackend, sockUser, sockClean, sockResp>>

(***************************************************************************)
(* The session ends: add_connection(con, 0), then the connection object   *)
(* is freed and a server socket still attached to it is closed.           *)
(***************************************************************************)
SessionEnd(c) ==
    LET r == AddConn(con[c], pool, connected, FALSE) IN
    /\ ~crashed
    /\ con[c].phase \in {"CloseClient", "ClientQuit"}
    /\ Apply(c, r)
    /\ con' = [con EXCEPT ![c] = ClosedSession]
    /\ sockBackend' = IF r.cs.server # NoSock
                      THEN [sockBackend EXCEPT ![r.cs.server] = NoBackend]
                      ELSE sockBackend
    /\ UNCHANGED <<sockUser, sockClean, sockResp>>

-----------------------------------------------------------------------------
(* The protocol layer (outside src/), modelled from the spec.              *)

\* A client connects; its key is the session itself.
ClientConnect(c) ==
    /\ ~crashed /\ con[c].phase = "Closed"
    /\ con' = [con EXCEPT ![c] = [ClosedSession EXCEPT !.key = c, !.phase = "ReadAuth"]]
    /\ UNCHANGED <<pool, connected, sockBackend, sockUser, sockClean, sockResp, crashed>>

\* No pooled socket: open a fresh connection to b.  For a client still in
\* its handshake the socket has no auth response until the client's auth
\* is forwarded on it; for an authenticated client the protocol layer
\* authenticates the new connection before binding it.
ConnectFresh(c, b, s) ==
    /\ ~crashed
    /\ con[c].phase \in {"ReadAuth", "ReadQuery"} /\ con[c].server = NoSock
    /\ sockBackend[s] = NoBackend /\ connected[b] < MaxConnected
    /\ sockBackend' = [sockBackend EXCEPT ![s] = b]
    /\ sockUser' = [sockUser EXCEPT ![s] = SessionUser[c]]
    /\ sockClean' = [sockClean EXCEPT ![s] = TRUE]
    /\ sockResp' = [sockResp EXCEPT ![s] = (con[c].phase = "ReadQuery")]
    /\ connected' = [connected EXCEPT ![b] = Inc(@)]
    /\ con' = [con EXCEPT ![c].server = s, ![c].backend = b, ![c].ndx = b]
    /\ UNCHANGED <<pool, crashed>>

\* The client's auth is forwarded on its backend socket (which records it
\* as sock->response) and the authentication completes.
AuthDone(c) ==
    /\ ~crashed /\ con[c].phase = "ReadAuth" /\ con[c].server # NoSock
    /\ con' = [con EXCEPT ![c].phase = "ReadQuery"]
    /\ sockResp' = [sockResp EXCEPT ![con[c].server] = TRUE]
    /\ UNCHANGED <<pool, connected, sockBackend, sockUser, sockClean, crashed>>

\* A query is forwarded on con->server.
SendQuery(c) ==
    /\ ~crashed /\ con[c].phase = "ReadQuery" /\ con[c].server # NoSock
    /\ con' = [con EXCEPT ![c].phase = "ReadQueryResult"]
    /\ sockClean' = [sockClean EXCEPT ![con[c].server] = FALSE]
    /\ UNCHANGED <<pool, connected, sockBackend, sockUser, sockResp, crashed>>

\* Its result has been read; a successful prepare counts a statement.
QueryDone(c) ==
    /\ ~crashed /\ con[c].phase = "ReadQueryResult"
    /\ \E p \in {0, 1} :
          con' = [con EXCEPT ![c].phase = "ReadQuery",
                             ![c].prep = IF @ + p > MaxPrep THEN @ ELSE @ + p]
    /\ sockClean' = [sockClean EXCEPT ![con[c].server] = TRUE]
    /\ UNCHANGED <<pool, connected, sockBackend, sockUser, sockResp, crashed>>

\* The client hangs up; the phase it was in is kept (state_bef_clt_close).
ClientClose(c) ==
    /\ ~crashed /\ con[c].phase \in {"ReadAuth", "ReadQuery", "ReadQueryResult"}
    /\ con' = [con EXCEPT ![c].phase = "CloseClient", ![c].bef = con[c].phase]
    /\ UNCHANGED <<pool, connected, sockBackend, sockUser, sockClean, sockResp, crashed>>

\* While a request is being served, the protocol layer may flag the
\* session's backend connection to be closed once it is served
\* (to_be_closed_after_serve_req).
RetireAfterRequest(c) ==
    /\ ~crashed /\ con[c].phase = "ReadQueryResult" /\ ~con[c].closeAfter
    /\ con' = [con EXCEPT ![c].closeAfter = TRUE]
    /\ UNCHANGED <<pool, connected, sockBackend, sockUser, sockClean, sockResp, crashed>>

\* The client sends COM_QUIT.
ClientQuit(c) ==
    /\ ~crashed /\ con[c].phase = "ReadQuery"
    /\ con' = [con EXCEPT ![c].phase = "ClientQuit"]
    /\ UNCHANGED <<pool, connected, sockBackend, sockUser, sockClean, sockResp, crashed>>

Next ==
    \/ \E c \in Sessions :
          \/ ClientConnect(c) \/ AuthDone(c) \/ SendQuery(c) \/ QueryDone(c)
          \/ ClientClose(c) \/ ClientQuit(c) \/ ReturnToPool(c) \/ SessionEnd(c)
          \/ RetireAfterRequest(c)
          \/ \E b \in Backends : Swap(c, b)
          \/ \E b \in Backends, s \in Sockets : ConnectFresh(c, b, s)

Spec == Init /\ [][Next]_vars

-----------------------------------------------------------------------------
\* The sockets a pool entry of some backend refers to, one per entry.
PoolSlots(s) ==
    UNION { { <<b, u, i>> : i \in {j \in DOMAIN pool[b].users[u] :
                                       pool[b].users[u][j].sock = s} }
            : <<b, u>> \in {bu \in Backends \X Users : bu[2] \in DOMAIN pool[bu[1]].users} }

SessionSlots(s) == {c \in Sessions : s = con[c].server \/ s \in Range(con[c].list)}

\* No pool ever holds a socket whose backend conversation is in the middle
\* of a command: add_connection's phase rules, the multiplex return and
\* the swap return only pool sockets at a command boundary (spec 4.3).
PooledSocketsClean ==
    \A b \in Backends : \A u \in DOMAIN pool[b].users :
        \A i \in DOMAIN pool[b].users[u] : sockClean[pool[b].users[u][i].sock]

\* add_connection never dereferences a NULL server_list member: every
\* non-zero backend_ndx_array slot it visits names a position inside
\* server_list, however the array was left by an earlier multiplex.
NoNullMember == ~crashed

\* Every open backend socket is owned by a session (as con->server or a
\* server_list member) or by a pool entry (spec 5: exactly one of them).
\* A refused add_connection returns without pooling or closing the
\* server_list members (spec 4.3: each member is judged on its own), and a
\* swap overwrites con->server whether add_connection pooled it or not.
SocketOwned ==
    \A s \in Sockets :
        sockBackend[s] # NoBackend =>
            Cardinality(PoolSlots(s)) + Cardinality(SessionSlots(s)) >= 1

=============================================================================
