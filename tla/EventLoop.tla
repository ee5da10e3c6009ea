------------------------------- MODULE EventLoop -------------------------------
(***************************************************************************)
(* EventLoop (event.cpp) over libev: I/O watchers and timers, and the      *)
(* callbacks that one turn of the loop has collected and not called yet.   *)
(* A loop is a record, so that a handler which makes several calls is one  *)
(* expression.  ev_io_stop and ev_timer_stop also drop the watcher's       *)
(* pending callback; that is what lets a callback delete other watchers.   *)
(***************************************************************************)
EXTENDS Naturals

CONSTANTS
    IoWatchers,     \* names of the IOWatcher objects
    Timers,         \* names of the TimerWatcher objects
    Repeating       \* the timers created with repeat = true

\* A name is an address, so it may be used again after a delete.
NoIo == [alive |-> FALSE, active |-> FALSE, events |-> {}]
NoTimer == [alive |-> FALSE, active |-> FALSE]

NewLoop ==
    [io |-> [w \in IoWatchers |-> NoIo], timer |-> [t \in Timers |-> NoTimer],
     pending |-> {}, running |-> TRUE]

IoCallback(w, revents) == [kind |-> "io", watcher |-> w, revents |-> revents]
TimerCallback(t) == [kind |-> "timer", watcher |-> t, revents |-> {}]

WithoutPending(l, kind, w) ==
    {p \in l.pending : p.kind # kind \/ p.watcher # w}

EvIoStart(l, w, events) ==
    [l EXCEPT !.io[w].active = TRUE, !.io[w].events = events]

EvIoStop(l, w) ==
    [l EXCEPT !.io[w].active = FALSE, !.pending = WithoutPending(l, "io", w)]

EvTimerStart(l, t) == [l EXCEPT !.timer[t].active = TRUE]

EvTimerStop(l, t) ==
    [l EXCEPT !.timer[t].active = FALSE,
              !.pending = WithoutPending(l, "timer", t)]

-----------------------------------------------------------------------------

\* create_io_event() and create_timer(): ev_init leaves the watcher inactive.
CreateIoEvent(l, w) == [l EXCEPT !.io[w] = [NoIo EXCEPT !.alive = TRUE]]

CreateTimer(l, t) == [l EXCEPT !.timer[t] = [NoTimer EXCEPT !.alive = TRUE]]

\* start_io_event(): adds to the events of an active watcher.
StartIoEvent(l, w, mask) ==
    LET events == l.io[w].events \cup mask
    IN  CASE ~l.io[w].active -> EvIoStart(l, w, mask)
          [] l.io[w].active /\ events = l.io[w].events -> l
          [] OTHER -> EvIoStart(EvIoStop(l, w), w, events)

\* stop_io_event(): looks at the events only, also when the watcher is inactive.
StopIoEvent(l, w, mask) ==
    LET events == l.io[w].events \ mask
    IN  CASE events = l.io[w].events -> l
          [] events = {} -> EvIoStop(l, w)
          [] OTHER -> EvIoStart(EvIoStop(l, w), w, events)

\* delete_io_event(): stop, then free.
DeleteIoEvent(l, w) == [EvIoStop(l, w) EXCEPT !.io[w] = NoIo]

\* start_timer(): a repeating timer is restarted by ev_timer_again(), which
\* stops it if the time is 0.
StartTimer(l, t, usec) ==
    IF t \in Repeating /\ usec = 0 THEN EvTimerStop(l, t)
    ELSE EvTimerStart(EvTimerStop(l, t), t)

StopTimer(l, t) == EvTimerStop(l, t)

DeleteTimer(l, t) == [StopTimer(l, t) EXCEPT !.timer[t] = NoTimer]

\* EventLoop::stop(): ev_break; the callbacks collected already are still made.
StopLoop(l) == [l EXCEPT !.running = FALSE]

\* One turn of ev_run(): `ready' gives the events of each descriptor, `expired'
\* the timers that are due.  A timer that does not repeat becomes inactive.
PollLoop(l, ready, expired) ==
    LET Events(w) == l.io[w].events \cap ready[w]
        due == {t \in expired : l.timer[t].active}
    IN  [l EXCEPT
           !.pending = {IoCallback(w, Events(w)) :
                           w \in {v \in IoWatchers : l.io[v].active
                                                     /\ Events(v) # {}}}
                       \cup {TimerCallback(t) : t \in due},
           !.timer = [t \in Timers |->
                        IF t \in due \ Repeating THEN [@[t] EXCEPT !.active = FALSE]
                        ELSE @[t]]]

\* The loop takes a callback off the list before it makes the call.
TakePending(l, p) == [l EXCEPT !.pending = @ \ {p}]

\* ev_run() returns when it was told to, or when nothing is active.
LoopEnds(l) ==
    /\ l.pending = {}
    /\ \/ ~l.running
       \/ /\ \A w \in IoWatchers : ~l.io[w].active
          /\ \A t \in Timers : ~l.timer[t].active

=============================================================================
