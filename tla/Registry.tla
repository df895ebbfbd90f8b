------------------------------ MODULE Registry ------------------------------
(***************************************************************************)
(* The backend registry (network-backend.c) and the Lua entry points that *)
(* change it (network-backend-lua.c): proxy.global.backends.backend_add,  *)
(* .backend_remove, .backend_replace, and proxy.global.backends[n].state. *)
(*                                                                         *)
(* Time is the wall clock g_get_current_time reads, in ticks of half a    *)
(* second, so that whole-second truncation (tv_sec) is visible: tick t is *)
(* second t \div 2.  Tick 0 is the epoch; the process starts at           *)
(* StartTime.  The clock may step backwards.                              *)
(***************************************************************************)
EXTENDS Integers, Sequences, FiniteSets

CONSTANTS
    Addresses,   \* backend addresses (all resolvable)
    StartTime,   \* the clock when the process starts, in ticks after the epoch
    MaxTime      \* bound on the clock, in ticks

TicksPerSec == 2
Sec(t) == t \div TicksPerSec                \* GTimeVal.tv_sec

Types  == {"Unknown", "RW", "RO"}
States == {"Unknown", "Up", "Down", "Maintaining", "Deleted"}

VARIABLES
    backends,   \* bs->backends: a sequence of [addr, type, state, since]
    lastCheck,  \* bs->backend_last_check
    now,        \* the wall clock
    downAt      \* history: downAt[addr], when that backend last became Down

vars == <<backends, lastCheck, now, downAt>>

TypeOK ==
    /\ backends \in Seq([addr : Addresses, type : Types, state : States,
                         since : 0..MaxTime])
    /\ lastCheck \in 0..MaxTime /\ now \in 0..MaxTime
    /\ downAt \in [Addresses -> 0..MaxTime]

Init ==
    /\ backends = <<>>
    /\ lastCheck = 0
    /\ now = StartTime
    /\ downAt = [a \in Addresses |-> 0]

\* The history variable follows every transition into Down.
NoteDown(new) ==
    downAt' = [a \in Addresses |->
                 IF \E i \in DOMAIN new :
                      /\ new[i].addr = a /\ new[i].state = "Down"
                      /\ ~(i \in DOMAIN backends /\ backends[i].state = "Down")
                 THEN now ELSE downAt[a]]

SetBackends(new) == backends' = new /\ NoteDown(new)

-----------------------------------------------------------------------------
(***************************************************************************)
(* network_backends_add: a new backend (state_since zeroed by g_new0, the *)
(* epoch) is appended unless one with the same address is known.         *)
(***************************************************************************)
Add(addr, type, state) ==
    /\ IF \E i \in DOMAIN backends : backends[i].addr = addr
       THEN UNCHANGED <<backends, downAt>>
       ELSE SetBackends(Append(backends,
                [addr |-> addr, type |-> type, state |-> state, since |-> 0]))
    /\ UNCHANGED <<lastCheck, now>>

(***************************************************************************)
(* network_backends_modify: out-of-range indices are refused; the type is *)
(* set; state_since is stamped only when the state changes.               *)
(***************************************************************************)
ModifyResult(ndx, type, state) ==
    IF ndx >= Len(backends) THEN backends
    ELSE LET i == ndx + 1 IN
         [backends EXCEPT ![i].type = type,
                          ![i].state = state,
                          ![i].since = IF backends[i].state # state THEN now ELSE @]

\* backends_set("backend_replace", {backend_ndx = ndx, ...}): the raw
\* (0-based) Lua number goes to modify.
Modify(ndx, type, state) ==
    /\ SetBackends(ModifyResult(ndx, type, state))
    /\ UNCHANGED <<lastCheck, now>>

(***************************************************************************)
(* backends_set("backend_remove", ndx) -> network_backends_remove: a soft *)
(* delete through modify.  pdata[index] is read without a bounds check;   *)
(* whatever that read yields, modify refuses the out-of-range index.      *)
(***************************************************************************)
\* Mutants: the type and state arguments swapped; a real removal (the
\* g_ptr_array_remove_index left commented out in the code).
RemoveSwapped(ndx) ==
    /\ SetBackends(ModifyResult(ndx, "Deleted", "Unknown"))
    /\ UNCHANGED <<lastCheck, now>>

RemoveCompact(ndx) ==
    /\ ndx < Len(backends)
    /\ SetBackends([i \in 1..(Len(backends) - 1) |->
                      IF i <= ndx THEN backends[i] ELSE backends[i + 1]])
    /\ UNCHANGED <<lastCheck, now>>

Remove(ndx) ==
    /\ SetBackends(ModifyResult(ndx, "Unknown", "Deleted"))
    /\ UNCHANGED <<lastCheck, now>>

(***************************************************************************)
(* proxy_backend_set "state" on proxy.global.backends[ndx + 1]: the state *)
(* is overwritten, state_since is not touched.                            *)
(***************************************************************************)
SetState(ndx, state) ==
    /\ ndx < Len(backends)
    /\ SetBackends([backends EXCEPT ![ndx + 1].state = state])
    /\ UNCHANGED <<lastCheck, now>>

(***************************************************************************)
(* network_backends_check: at most once a second (t_diff in microseconds *)
(* below G_USEC_PER_SEC returns 0; a negative t_diff resets last_check to *)
(* the epoch).  Otherwise every Down backend whose state_since is more    *)
(* than 4 whole seconds before now becomes Unknown, stamped now.          *)
(***************************************************************************)
Promotable(b) == b.state = "Down" /\ Sec(now) - Sec(b.since) > 4

Check ==
    LET t_diff == now - lastCheck IN
    /\ IF t_diff < TicksPerSec
       THEN /\ lastCheck' = IF t_diff < 0 THEN 0 ELSE lastCheck
            /\ UNCHANGED <<backends, downAt>>
       ELSE /\ lastCheck' = now
            /\ backends' = [i \in DOMAIN backends |->
                              IF Promotable(backends[i])
                              THEN [backends[i] EXCEPT !.state = "Unknown", !.since = now]
                              ELSE backends[i]]
            /\ UNCHANGED downAt
    /\ UNCHANGED now

\* The wall clock advances half a second, or is stepped back.
Tick ==
    /\ now < MaxTime
    /\ now' = now + 1
    /\ UNCHANGED <<backends, lastCheck, downAt>>

StepBack ==
    /\ \E t \in StartTime..(now - 1) : now' = t
    /\ UNCHANGED <<backends, lastCheck, downAt>>

Indices == 0..Cardinality(Addresses)   \* includes one past the end

Next ==
    \/ \E a \in Addresses, ty \in {"RW", "RO"}, st \in {"Up", "Down", "Maintaining"} :
          Add(a, ty, st)
    \/ \E n \in Indices, ty \in {"RW", "RO"}, st \in {"Up", "Down", "Maintaining"} :
          Modify(n, ty, st)
    \/ \E n \in Indices : Remove(n)
    \/ \E n \in Indices, st \in {"Up", "Down"} : SetState(n, st)
    \/ Check
    \/ Tick
    \/ StepBack

Spec == Init /\ [][Next]_vars

-----------------------------------------------------------------------------
\* Index stability (spec 3, 4.1): whatever the Lua layer does, an index
\* that names a backend keeps naming the same address; remove is a soft
\* delete that never compacts bs->backends.
IndexStable ==
    [][\A i \in DOMAIN backends : i \in DOMAIN backends' /\ backends'[i].addr = backends[i].addr]_vars

\* A check pass promotes a backend only when it has been Down for at least
\* 4 seconds since it last became Down (spec 8).
NoEarlyPromotion ==
    [][\A i \in DOMAIN backends :
          (backends[i].state = "Down" /\ i \in DOMAIN backends'
           /\ backends'[i].state = "Unknown" /\ lastCheck' = now)
          => now - downAt[backends[i].addr] >= 4 * TicksPerSec]_vars
=============================================================================
