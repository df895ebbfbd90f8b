# TLA+ models of resurgence's backend-connection core

These modules model the backend registry, the per-backend connection pools
and their Lua bridge, the session binder/multiplexer, and the event layer and
main loop, and the configuration loading of resurgence (`src/src/`). TLC checks
them. Each module translates the C code named in `PROJECT.json` ("map").

## 1. The system

| Part | Code | State | Operations |
|---|---|---|---|
| Backend registry | `network-backend.c`, `network-backend-lua.c` | `bs->backends` (a GPtrArray of address, type, state, `state_since`), `backend_last_check` | add, remove (soft), modify, check (promotion of Down backends), the Lua `backend_add/backend_remove/backend_replace` and `backends[n].state =` |
| Connection pool, one per backend | `network-conn-pool.c` | `users`: username -> GQueue of entries `[sock, key]`; `init_phase`, `mid/min_idle_connections` | get_conns, get, add, remove |
| Idle watcher | `network_mysqld_con_idle_handle` in `network-conn-pool-lua.c` | one non-persistent EV_READ event per pooled socket | evict when FIONREAD reports nothing unread (EOF); only log when bytes are pending, even with a FIN behind them |
| Session binder | `network_connection_pool_lua_add_connection`, `network_connection_pool_lua_swap` | per session: `con->server`, `st->backend`, `st->backend_ndx`, `con->server_list`, `st->backend_ndx_array`, `valid_prepare_stmt_cnt`, `pool_conn_used`, `state`, `state_bef_clt_close`; per backend `connected_clients` | pooling decision, return (single or every multiplex member), swap (bypass, multiplex, plain, miss) |
| Pool Lua bridge | `proxy_pool_get/set`, `proxy_pool_users_get` | tunables, `init_phase`, `init_time`, `max_init_last_time`, `serve_req_after_init`, `stop_phase` | set any field; read `init_phase` (recomputed from the clock and written back); read `users[name]` (runs `get_conns`) |
| Event layer / main loop | `chassis-event.c`, `chassis-mainloop.c` | op queue, non-blocking notify socketpair, event base, `signal_shutdown` | queue an event add and ping, add locally, drain the queue, startup with its failures, signal callbacks, poll for shutdown once a second, free |
| Configuration | `chassis-keyfile.c`, `chassis-path.c` | the option table's `arg_data`, `base_dir` | derive the base directory from argv[0]; map the config file's group onto the options; resolve relative file names against the base directory; compare path strings |
| Not part of the core | `network-socket-lua.c`, `network-asn1.h`, `network-spnego.h`, `lib/sql-tokenizer-gen.c` | socket field accessors, codecs, a build-time generator | — |

How the parts interact:
- A session asks the binder to `swap` to a backend index. The binder calls the pool's `get`. It binds the returned socket and increments `connected_clients`.
- When the session finishes with a socket, `add_connection` decides whether the socket may be pooled. If so, it calls the pool's `add` and arms the idle watcher. The watcher runs on the reactor thread and calls the pool's `remove` when the backend closes the socket.
- The registry's `check` runs from connection setup. The Lua scripts change the registry and the pool tunables.
- Handlers register their next socket event with the reactor through `chassis_event_add` (queued, then a byte pings the notify pipe) or `chassis_event_add_local` (immediate). `chassis_event_handle` drains the queue when the pipe is readable. `chassis_event_loop` polls `signal_shutdown` each time the 1 s loopexit timer ends a dispatch.
- Configuration runs once at startup, before `chassis_mainloop`: the command line is parsed first (outside `src/`), then the config file is mapped and the file names resolved.
- Everything runs on one event-loop thread (`chassis_mainloop` runs a single `chassis_event_loop`). So every handler is an atomic step, and concurrency is the interleaving of sessions, the backend server and timers.

## 2. Modules

| Module | Models | Actions |
|---|---|---|
| `PoolOps` | `network-conn-pool.c` as pure operators | `NewPool`, `GetConns`, `PickIndex`, `PoolGet`, `PoolAdd`, `PoolRemove` (each returns the set of outcomes; the visit order of `g_hash_table_find` is left open) |
| `IdlePool` | the abstract promise of a pool: each socket is held by a session, idle for one user, or closed; a fetch takes an own socket whenever there is one | `Open`, `Close`, `Admit`, `Fetch`, `Evict` |
| `ConnPool` | one pool with users, client keys, sockets and the backend server's side of each socket, plus the idle watcher | `Connect`, `Disconnect` (protocol layer), `Return` (the pool half of add_connection), `Get`, `BackendSend`, `BackendClose`, `IdleHandle` |
| `Binder` | sessions over several backends, each with its own pool (`PoolOps`) | `Swap`, `ReturnToPool`, `SessionEnd`, and the protocol layer: `ClientConnect`, `ConnectFresh`, `AuthDone`, `SendQuery`, `QueryDone`, `ClientClose`, `ClientQuit`, `RetireAfterRequest` (sets `to_be_closed_after_serve_req`) |
| `Registry` | the backend array and the wall clock in half-second ticks | `Add`, `Modify`, `Remove`, `SetState`, `Check`, `Tick`, `StepBack` |
| `PoolWarmup` | one pool's warm-up and the Lua bridge to its fields, over `PoolOps` | `Admit`, `Fetch` (the pool's callers), `PoolSetInt`, `PoolSetBool` (`proxy_pool_set`), `GetInitPhase`, `UsersGet`, `Tick` |
| `Reactor` | the event layer and the main loop: phase, op queue, bytes in the notify pipe, registered events, shutdown flag, caught signals | `EventInit`, `ApplyConfig`, `AddAsync`, `AddLocal`, `Handle`, `Fire`, `Signal`, `SignalHandler`, `RequestShutdown`, `LoopCheck`, `LoopError`, `Free` |
| `Config` | startup configuration: the option table (a sequence of arg kinds, each with or without storage), each entry's value abstracted to its source and whether its path strings are absolute | `GetBasedir`, `StartMapping`, `MapEntry` (one pass of the loop), `Resolve`; `IsParentOf` as an operator checked against the reference `InSubtree` |
| `MC_*` | constants for TLC | — |

How the modules relate:
- `ConnPool` refines `IdlePool`: `Abs == INSTANCE IdlePool WITH idle <- ..., held <- ...`, checked as the property `IdlePoolRefined`.
- `Binder` composes `PoolOps` once per backend. The protocol layer that calls `swap` and `add_connection` lives outside `src/`. It is modelled from the spec and marked `spec_modelled` in the map.
- `PoolWarmup` uses the `PoolOps` operators (and `NewPool`, which carries every field `g_new0` zeroes) to model the Lua bridge. `Reactor` stands alone: the other modules treat each handler as one atomic reactor step, and `Reactor` models how those steps are scheduled.
- The phase ranks in `Rank` are taken from mysql-proxy's `network_mysqld_con_state_t`, which is also outside `src/`.

The modelling choices:
- Usernames, client keys, sockets and addresses are model values.
- A session's client key is the session itself.
- `connected_clients` wraps modulo `2^GuintBits`. TLC cannot represent 2^32, so the MC module uses 16 bits; the wrap below zero is the same.
- `add_connection` runs as a function (`AddConn`) that returns the new pools, counters and session. The callers apply it in the same step as the rest of their handler.
- A NULL `server_list` member that would be dereferenced sets `crashed`, and the model stops there.
- A bypass whose member is NULL returns NULL from swap without changing any state under `src/`; the model leaves that step out, which is the same stutter for every safety property.
- `Swap` asks the pool for the empty username (`NoUser`) while the client is in its handshake and `client->response` is NULL (line 444).
- `sockResp` records whether `sock->response` is set. A fresh socket opened for a client still in its handshake has none until `AuthDone` forwards the client's auth on it, and `add_connection` refuses such a socket (line 256). A fresh socket for an authenticated client is authenticated by the protocol layer before it is bound.

## 3. Runs

| Run | Config | Expect | What it shows |
|---|---|---|---|
| connpool | `MC_ConnPool.cfg` | pass | The queues refine `IdlePool`: no socket is handed out twice, and a user with idle sockets of its own never gets another's. |
| connpool_eof | `MC_ConnPool_EofEvicted.cfg` | violation | Bytes and then EOF on an idle socket: the watcher fires on the bytes, is not re-armed, and the dead socket stays pooled forever. |
| connpool_miss | `MC_ConnPool_MissOnlyWhenNothingEligible.cfg` | violation | An empty own queue left by an eviction makes `get` miss, although another queue is over the bar. |
| binder | `MC_Binder.cfg` | pass | With backends RW (0) and RO (1), swap, multiplexing, bypass and `add_connection` only pool sockets whose backend conversation is at a command boundary (`PooledSocketsClean`). |
| binder_null_member | `MC_Binder_NoNullMember.cfg` | violation | With three RW backends, one session is enough. It multiplexes over three backends, returns, then multiplexes over two. The stale array slot 3 names a NULL member of the new two-member `server_list`, and `add_connection` dereferences it. |
| registry | `MC_Registry.cfg` | pass | No backend moves to another index under any sequence of Lua calls and check passes (`IndexStable`). |
| registry_early | `MC_Registry_NoEarlyPromotion.cfg` | violation | A backend added Down (`state_since` at the epoch) is promoted at the first pass. |
| warmup | `MC_PoolWarmup.cfg` | pass | Every `PoolWarmup` action keeps the pool well-formed (`TypeOK`); the run exists to drive the actions whose defect warmup_read_ends shows. |
| warmup_read_ends | `MC_PoolWarmup_WarmupEndsOnlyPastMid.cfg` | violation | Reading `pool.init_phase` recomputes it as `time(0) - init_time <= max_init_last_time`. Both fields are zero by default, so the first read ends warm-up on an empty pool (spec 4.2: only a queue past `midIdle` ends it). |
| reactor | `MC_Reactor.cfg` | pass | `NoLostWakeup`: EAGAIN on a full pipe never strands an op, because `chassis_event_handle` drains every op per byte; only an outright send failure can. `PingedApplied`: an op queued behind a ping is registered. `TermSignalStops`: a caught SIGTERM or SIGINT always ends the loop. |
| config | `MC_Config.cfg` | pass | `FilenamesAbsolute`: once a base directory was found, every FILENAME option and every member of a FILENAME_ARRAY option is absolute, whether the command line or the file set it. `ParentOfSound`: `chassis_path_string_is_parent_of` never names a parent outside the child's subtree, for paths of the same kind. `"/"` is taken as the parent of relative strings too. |
| binder_orphan | `MC_Binder_SocketOwned.cfg` | violation | A socket `add_connection` refuses stays open and owned by nobody (`SocketOwned`, spec 5: exactly one owner). TLC's trace: a RW session flagged `to_be_closed_after_serve_req` swaps to a pooled socket. `add_connection(con, 1)` returns early at line 248, swap ignores that, and the new socket replaces the old one, which is neither pooled nor closed. The early return for a socket without an auth response (line 256) does the same; it needs a client in its handshake to borrow under the empty username from a queue longer than `mid_idle`, which the bounds do not reach. The multiplex refusal strands `server_list` members the same way. |

Each property of a passing run has a mutant in `PROJECT.json` that breaks it.

## 4. Bounds

**ConnPool** uses 2 users, 2 keys and 3 sockets, with `mid_idle = 1` and `min_idle = 0`:
- warm-up borrowing needs a queue of 2;
- after warm-up a queue of 1 can be borrowed from;
- a third socket lets one user hold while the other two idle.

**Binder** uses 2 sessions of one user, 3 sockets, `MaxPrep = 1` and `MaxConnected = 2`. Two sessions bind at most two sockets to one backend at a time, so the bound only stops counts inflated by sockets that were never decremented. Sessions and sockets are symmetric.
- One user is enough here, because borrowing across users is ConnPool's subject.
- One prepared statement is enough to start multiplexing.
- Three sockets allow a two-member multiplex plus another session's socket.
- Two backends reach the bypass. With one RW and one RO backend the kept `backend_ndx_array` is always [RW -> 2, RO -> 1], so a stale array is harmless here; its consequences need more backends (below).
- The binder_null_member run uses three RW backends, the fewest that leave a NULL slot in a shorter `server_list`. The wrong-backend return and the underflow need RW, RO, RO; no run checks them (section 6).

**Registry** uses 2 addresses, and the process starts 5 s after the epoch. The clock is bounded for each run:
- 1 s for the index run;
- 6 s for the registry_early run, enough for a backend set Down after start to pass 4 s.

**PoolWarmup** uses 2 users (and the empty username), 3 sockets, the values {0, 1} for every integer field, and a clock from 5 s to 7 s. The pool starts with the code's defaults (`mid_idle = 50`, `min_idle = 10`); a script must lower them before any borrowing. With bars of 0 and 1, three sockets give queues below, at and above each bar. Two seconds let a `max_init_time` window of 0 or 1 s both hold and lapse. Users and sockets are symmetric.

**Config** uses four option tables that between them reach every arm of the mapping switch and of the resolver: a file name, a file list and a double with storage; a string and a flag without storage; an integer followed by a kind the switch does not handle; a string list followed by a file list without storage. Lists hold at most 2 strings, so "every member" is more than one. Each entry starts with every value the command line can leave, and the file may give each key any value, no value, or an unparsable one. `ParentOfSound` ranges over every string of up to three characters over `/` and one letter. That covers `/a` against `/aa` (the case the code's comment names), trailing and doubled separators, and `/`.

**Reactor** uses 2 events and a notify pipe of one byte, so the second add before a drain meets EAGAIN. An add requires its event not to be pending (callers re-add an event after it fired), which bounds the queue by the number of events.

## 5. Fairness

**ConnPool.** Only `IdleHandle` is weakly fair. The reactor dispatches every pending, ready event, and the loop never blocks elsewhere. Sessions, the backend server and the Lua layer get no fairness: they may never act.

**Reactor.** These steps are weakly fair:
- `EventInit` and `ApplyConfig`: the startup code runs straight through.
- `Handle` and `SignalHandler`: libevent calls the callback of a readable fd and of a caught signal.
- `LoopCheck`: the 1 s `event_base_loopexit` timer always fires.

Callers, arriving signals, loop errors and `chassis_free` get no fairness.

**Binder, Registry, PoolWarmup and Config.** These check safety only.

## 6. Not modelled, and the plan

Not checked yet:
1. **Binder with backends RW, RO, RO**: a stale `backend_ndx_array` that returns a member into the wrong backend's pool, pools a socket twice, or decrements `connected_clients` of a backend the session never incremented (a wrap below zero). The model contains these paths, but the two-backend run never reaches them, and a RW, RO, RO run is beyond the five-minute budget, so no property about them is checked. The NULL-member crash is checked by binder_null_member.
2. **The promotion delay.** Because the check truncates to whole seconds and compares strictly (`> 4`), a Down backend is promoted between just over 4 s and 5 s after it went Down. The model has this arithmetic, but no run checks it: a passing run over a clock longer than 5 s is beyond TLC's reach here.
3. **Registry**: a rate-limit property across a backward clock step, and a Lua-call layer for the 0-based vs 1-based index mismatch.
4. **Signals outside the loop.** Before `signal_add` and after `signal_del`, a signal takes the disposition the process had. That disposition is set outside `src/`, so `Signal` is enabled only inside the loop.
5. **Configuration hazards without a property.** These behaviours are in `Config`, and `PROJECT.json` lists them as hazards:
   - a config-file value overrides the command line for flags, integers and doubles, but not for strings;
   - a double is stored through a `gint *`;
   - an invalid value leaves a half-mapped table;
   - a NULL `arg_data` is dereferenced;
   - a relative PATH entry yields the wrong base directory.

   A property about any of them would be violated by the code as written. None is a run.
6. **A failed ping's consequence.** `Reactor` has send() failing with an errno other than EAGAIN (history variable `lost`), and `NoLostWakeup` shows that only such a failure leaves an op unpinged. No run checks that the op may then wait forever.
7. **`chassis_check_version`** compares two `sscanf`-parsed version strings and holds no state.

Left out for good: the GKeyFile syntax and whitespace trimming (values are abstracted to their source), the socket field accessors (`network-socket-lua.c`: `default_db`, the charset strings, `charset_code`, `sql_mode` and `is_server_conn_reserved` are written from Lua and read by no code under `src/`; its two hazards, a `charset_code` that goes stale and a `sql_mode` that only grows, are listed in `PROJECT.json`), the SPNEGO/ASN.1 declarations and the tokenizer generator. None of them holds state the core reads.
