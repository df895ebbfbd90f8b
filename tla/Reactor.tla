------------------------------ MODULE Reactor ------------------------------
(***************************************************************************)
(* The event layer (chassis-event.c) and the main loop around it          *)
(* (chassis-mainloop.c): one reactor thread with a libevent base, a queue *)
(* of "event add" operations fed through a non-blocking socketpair that   *)
(* wakes the reactor, the signal handlers, and the shutdown poll.         *)
(*                                                                         *)
(* Everything runs on the one reactor thread, so each handler is an       *)
(* atomic step.  An event is a model value; an operation in the queue is  *)
(* the event it adds (the timeout it carries is left out).                *)
(***************************************************************************)
EXTENDS Integers, Sequences, FiniteSets

CONSTANTS
    Events,     \* the struct event's handed to chassis_event_add*
    PipeCap     \* bytes the notify socketpair buffers before send() says EAGAIN

ASSUME PipeCap \in Nat \ {0}

Signals  == {"TERM", "INT", "HUP"}
Phases   == {"init", "config", "loop", "exited", "failed", "freed"}
Started  == {"config", "loop"}          \* the event base exists
Stopped  == {"exited", "failed", "freed"}

VARIABLES
    phase,      \* where chassis_mainloop (or chassis_free) is
    queue,      \* chas->event_queue: the operations not yet applied
    pipe,       \* bytes waiting in event_notify_fds
    base,       \* events registered (pending) in the event base
    shutdown,   \* signal_shutdown
    sigPending, \* signals caught by libevent whose callback has not run
    lost        \* history: a queued op's send() failed with an errno other
                \* than EAGAIN

vars == <<phase, queue, pipe, base, shutdown, sigPending, lost>>

Pending == {queue[i] : i \in DOMAIN queue} \cup base

TypeOK ==
    /\ phase \in Phases
    /\ queue \in Seq(Events) /\ Len(queue) <= Cardinality(Events)
    /\ pipe \in 0..PipeCap
    /\ base \subseteq Events
    /\ shutdown \in BOOLEAN
    /\ sigPending \subseteq Signals
    /\ lost \in BOOLEAN

\* chassis_new: an empty queue, an empty notify pipe, signal_shutdown = 0.
Init ==
    /\ phase = "init"
    /\ queue = <<>>
    /\ pipe = 0
    /\ base = {}
    /\ shutdown = FALSE
    /\ sigPending = {}
    /\ lost = FALSE

-----------------------------------------------------------------------------
\* chassis_event_op_apply: event_base_set + event_add.
ApplyOp(b, ev) == b \cup {ev}

(***************************************************************************)
(* chassis_event_add_with_timeout: the op is queued first, then one byte  *)
(* is sent to wake the reactor.  A full pipe (EAGAIN) or another error is *)
(* only logged.  A caller adds an event that is not pending.              *)
(***************************************************************************)
AddAsync(ev) ==
    /\ phase \in Started
    /\ ev \notin Pending
    /\ queue' = Append(queue, ev)
    /\ \/ pipe < PipeCap /\ pipe' = pipe + 1 /\ UNCHANGED lost   \* sent
       \/ pipe = PipeCap /\ UNCHANGED <<pipe, lost>>             \* EAGAIN
       \/ pipe' = pipe /\ lost' = TRUE                         \* another errno
    /\ UNCHANGED <<phase, base, shutdown, sigPending>>

\* chassis_event_add_local_with_timeout: applied at once on the event base
\* (g_assert(event_base): only once chassis_event_init has run).
AddLocal(ev) ==
    /\ phase \in Started
    /\ ev \notin Pending
    /\ base' = ApplyOp(base, ev)
    /\ UNCHANGED <<phase, queue, pipe, shutdown, sigPending, lost>>

(***************************************************************************)
(* chassis_event_handle, the EV_READ|EV_PERSIST callback of the notify fd *)
(* (it runs while dispatching, when the fd is readable): the do-while pops *)
(* every queued op, applies it, and recv()s one byte per op; a recv that  *)
(* finds the pipe empty is only logged.                                    *)
(***************************************************************************)
\* Mutant: one op per callback, without the do-while.
HandleOnce ==
    /\ phase = "loop" /\ pipe > 0 /\ queue # <<>>
    /\ base' = ApplyOp(base, Head(queue))
    /\ queue' = Tail(queue)
    /\ pipe' = pipe - 1
    /\ UNCHANGED <<phase, shutdown, sigPending, lost>>

\* Mutant: one byte taken per op whether or not recv() found one.
HandleUnchecked ==
    /\ phase = "loop" /\ pipe > 0
    /\ base' = base \cup {queue[i] : i \in DOMAIN queue}
    /\ queue' = <<>>
    /\ pipe' = pipe - Len(queue)
    /\ UNCHANGED <<phase, shutdown, sigPending>>
    /\ lost' = FALSE

Handle ==
    /\ phase = "loop" /\ pipe > 0
    /\ base' = base \cup {queue[i] : i \in DOMAIN queue}
    /\ queue' = <<>>
    /\ pipe' = IF pipe > Len(queue) THEN pipe - Len(queue) ELSE 0
    /\ UNCHANGED <<phase, shutdown, sigPending>>
    /\ lost' = FALSE

\* libevent dispatches a ready, non-persistent event: it is no longer
\* pending, and its callback may add it again.
Fire(ev) ==
    /\ phase = "loop" /\ ev \in base
    /\ base' = base \ {ev}
    /\ UNCHANGED <<phase, queue, pipe, shutdown, sigPending, lost>>

-----------------------------------------------------------------------------
\* chassis_mainloop, first part: chassis_event_init dups the notify fd
\* (failure: return -1) and registers chassis_event_handle on it.
EventInit ==
    /\ phase = "init"
    /\ phase' \in {"config", "failed"}
    /\ UNCHANGED <<queue, pipe, base, shutdown, sigPending, lost>>

(***************************************************************************)
(* chassis_mainloop, second part: every plugin's apply_config, the --user *)
(* switch (not root, unknown user, chown failure: return -1), the signal  *)
(* events for SIGTERM, SIGINT and SIGHUP, then chassis_event_loop, whose  *)
(* while first tests the shutdown flag.                                    *)
(***************************************************************************)
ApplyConfig ==
    /\ phase = "config"
    /\ \/ phase' = "failed"
       \/ phase' = IF shutdown THEN "exited" ELSE "loop"
    /\ UNCHANGED <<queue, pipe, base, shutdown, sigPending, lost>>

\* A signal arrives while its libevent signal event is installed (between
\* signal_add and signal_del, that is inside chassis_event_loop).
Signal(sg) ==
    /\ phase = "loop"
    /\ sigPending' = sigPending \cup {sg}
    /\ UNCHANGED <<phase, queue, pipe, base, shutdown, lost>>

\* chassis_set_shutdown_location, called from outside the signal handlers.
RequestShutdown ==
    /\ phase \in Started
    /\ shutdown' = TRUE
    /\ UNCHANGED <<phase, queue, pipe, base, sigPending, lost>>

\* The signal callbacks, run from dispatch: SIGTERM and SIGINT both go to
\* sigterm_handler (chassis_set_shutdown_location(NULL)); sighup_handler
\* only reopens the log.
\* Mutant: SIGINT wired to sighup_handler.
SignalHandlerIntAsHup(sg) ==
    /\ phase = "loop" /\ sg \in sigPending
    /\ sigPending' = sigPending \ {sg}
    /\ shutdown' = (shutdown \/ sg = "TERM")
    /\ UNCHANGED <<phase, queue, pipe, base, lost>>

SignalHandler(sg) ==
    /\ phase = "loop" /\ sg \in sigPending
    /\ sigPending' = sigPending \ {sg}
    /\ shutdown' = (shutdown \/ sg \in {"TERM", "INT"})
    /\ UNCHANGED <<phase, queue, pipe, base, lost>>

(***************************************************************************)
(* chassis_event_loop: dispatch returns when the 1 s loopexit timeout     *)
(* fires (or with EINTR); the while tests the flag again and either       *)
(* leaves (then chassis_mainloop does signal_del) or re-arms the timeout. *)
(***************************************************************************)
LoopCheck ==
    /\ phase = "loop"
    /\ phase' = IF shutdown THEN "exited" ELSE "loop"
    /\ UNCHANGED <<queue, pipe, base, shutdown, sigPending, lost>>

\* event_base_loopexit fails, or dispatch fails with errno other than
\* EINTR: the loop is left although no shutdown was asked for.
LoopError ==
    /\ phase = "loop"
    /\ phase' = "exited"
    /\ UNCHANGED <<queue, pipe, base, shutdown, sigPending, lost>>

\* chassis_free: queued ops are popped and freed, never applied.
Free ==
    /\ phase \in {"exited", "failed"}
    /\ phase' = "freed"
    /\ queue' = <<>>
    /\ UNCHANGED <<pipe, base, shutdown, sigPending>>
    /\ lost' = FALSE

Next ==
    \/ \E ev \in Events : AddAsync(ev) \/ AddLocal(ev) \/ Fire(ev)
    \/ Handle
    \/ EventInit \/ ApplyConfig
    \/ \E sg \in Signals : Signal(sg) \/ SignalHandler(sg)
    \/ RequestShutdown
    \/ LoopCheck \/ LoopError
    \/ Free

(***************************************************************************)
(* Fairness.  The startup code runs straight through; libevent calls the  *)
(* callback of a readable notify fd and of a caught signal; the 1 s       *)
(* loopexit timer always fires.  Callers, signals, errors and the final   *)
(* free get none.                                                          *)
(***************************************************************************)
Fairness ==
    /\ WF_vars(EventInit) /\ WF_vars(ApplyConfig)
    /\ WF_vars(Handle) /\ WF_vars(LoopCheck)
    /\ \A sg \in Signals : WF_vars(SignalHandler(sg))

Spec == Init /\ [][Next]_vars /\ Fairness

-----------------------------------------------------------------------------
\* No lost wake-up from a full pipe: while the reactor can still apply
\* ops, a queued op has a byte in the notify pipe behind it unless some
\* send() failed with an errno other than EAGAIN.  EAGAIN drops pings; the
\* do-while in chassis_event_handle, draining every op per byte, is what
\* makes up for it.
NoLostWakeup ==
    phase \in Started /\ queue # <<>> /\ ~lost => pipe > 0

\* Every event queued while a ping is in the pipe is eventually registered
\* with the event base, unless the process stops first.
PingedApplied ==
    \A ev \in Events :
        ((\E i \in DOMAIN queue : queue[i] = ev) /\ pipe > 0)
            ~> (ev \in base \/ phase \in Stopped)

\* A SIGTERM or SIGINT caught by the reactor always ends chassis_event_loop:
\* the handler sets signal_shutdown and the once-a-second poll sees it.
TermSignalStops ==
    \A sg \in {"TERM", "INT"} : sg \in sigPending ~> phase \in Stopped
=============================================================================
