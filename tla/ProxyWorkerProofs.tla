--------------------------- MODULE ProxyWorkerProofs ---------------------------
(***************************************************************************)
(* Proofs about the worker with the proxy's handlers (ProxyWorker): its    *)
(* watchers and its objects agree whatever a callback closes, and an       *)
(* answer goes to the client that asked.                                   *)
(***************************************************************************)
EXTENDS ProxyWorker, TLAPS

USE ProxyConstants

Io == Conns \cup Brs \cup {Pipe}
Tm == Conns \cup Brs
Masks == SUBSET {"READ", "WRITE"}

IoState == [alive : BOOLEAN, active : BOOLEAN, events : Masks]
TimerState == [alive : BOOLEAN, active : BOOLEAN]
Callbacks == [kind : {"io", "timer"}, watcher : Io, revents : Masks]

Loops ==
    [io : [Io -> IoState], timer : [Tm -> TimerState],
     pending : SUBSET Callbacks, running : BOOLEAN]

-----------------------------------------------------------------------------
(* The event loop: what a call does to the watchers, and that no call leaves *)
(* a callback behind for a watcher it has stopped.                           *)

\* An active watcher exists, a collected I/O callback is about an active watcher
\* and a collected timer callback about a timer that exists.
Good(l) ==
    /\ l \in Loops
    /\ \A w \in Io : l.io[w].active => l.io[w].alive
    /\ \A t \in Tm : l.timer[t].active => l.timer[t].alive
    /\ \A p \in l.pending :
          IF p.kind = "io" THEN l.io[p.watcher].active
          ELSE p.watcher \in Tm /\ l.timer[p.watcher].alive

IoSet(l, m, w, state) == m.io = [l.io EXCEPT ![w] = state] /\ m.timer = l.timer
TimerSet(l, m, t, state) == m.timer = [l.timer EXCEPT ![t] = state] /\ m.io = l.io

\* What a loop holds.
LEMMA LoopFields ==
    ASSUME NEW l \in Loops
    PROVE  /\ l.io \in [Io -> IoState] /\ l.timer \in [Tm -> TimerState]
           /\ l.pending \subseteq Callbacks
           /\ l.running \in BOOLEAN
           /\ \A w \in Io : /\ l.io[w].alive \in BOOLEAN /\ l.io[w].active \in BOOLEAN
                            /\ l.io[w].events \in Masks
           /\ \A t \in Tm : /\ l.timer[t].alive \in BOOLEAN
                            /\ l.timer[t].active \in BOOLEAN
           /\ \A p \in l.pending : /\ p.kind \in {"io", "timer"}
                                   /\ p.watcher \in Io /\ p.revents \in Masks
BY DEF Loops, IoState, TimerState, Callbacks

\* Taking a callback off the list.
LEMMA TakeFacts ==
    ASSUME NEW l, Good(l), NEW p
    PROVE  LET m == LOOP!TakePending(l, p)
           IN  Good(m) /\ m.io = l.io /\ m.timer = l.timer
BY DEF Good, Loops, LOOP!TakePending

\* A watcher that was created,
LEMMA IoNew ==
    ASSUME NEW r, r = [LOOP!NoIo EXCEPT !.alive = TRUE]
    PROVE  r = [alive |-> TRUE, active |-> FALSE, events |-> {}]
BY Zenon DEF LOOP!NoIo

\* started,
LEMMA IoStarted ==
    ASSUME NEW s \in IoState, s.alive, NEW e \in Masks, NEW r,
           r = [[s EXCEPT !.active = TRUE] EXCEPT !.events = e]
    PROVE  r = [alive |-> TRUE, active |-> TRUE, events |-> e]
BY Zenon DEF IoState

\* and stopped.
LEMMA IoStopped ==
    ASSUME NEW s \in IoState, NEW r, r = [s EXCEPT !.active = FALSE]
    PROVE  r = [alive |-> s.alive, active |-> FALSE, events |-> s.events]
BY Zenon DEF IoState

\* A timer that was created,
LEMMA TimerNew ==
    ASSUME NEW r, r = [LOOP!NoTimer EXCEPT !.alive = TRUE]
    PROVE  r = [alive |-> TRUE, active |-> FALSE]
BY Zenon DEF LOOP!NoTimer

\* and started.
LEMMA TimerStarted ==
    ASSUME NEW s \in TimerState, s.alive, NEW r, r = [s EXCEPT !.active = TRUE]
    PROVE  r = [alive |-> TRUE, active |-> TRUE]
BY Zenon DEF TimerState

\* ev_io_start().
LEMMA EvIoStartFacts ==
    ASSUME NEW l \in Loops, NEW w \in Io, l.io[w].alive, NEW e \in Masks,
           NEW m, m = LOOP!EvIoStart(l, w, e)
    PROVE  /\ m.io = [l.io EXCEPT ![w] = [alive |-> TRUE, active |-> TRUE,
                                          events |-> e]]
           /\ m.timer = l.timer /\ m.pending = l.pending /\ m \in Loops
<1>1. m.io = [l.io EXCEPT ![w] = [[l.io[w] EXCEPT !.active = TRUE]
                                    EXCEPT !.events = e]]
  BY Zenon DEF LOOP!EvIoStart, Loops
<1>2. m.io = [l.io EXCEPT ![w] = [alive |-> TRUE, active |-> TRUE, events |-> e]]
  <2>1. l.io[w] \in IoState
    BY DEF Loops
  <2>2. \A r : r = [[l.io[w] EXCEPT !.active = TRUE] EXCEPT !.events = e]
                 => r = [alive |-> TRUE, active |-> TRUE, events |-> e]
    BY <2>1, IoStarted, Zenon
  <2> QED
    BY <1>1, <2>2, Zenon
<1>3. m.timer = l.timer /\ m.pending = l.pending
  BY DEF LOOP!EvIoStart, Loops
<1>4. m \in Loops
  BY ZenonT(60) DEF LOOP!EvIoStart, Loops, IoState
<1> QED
  BY <1>2, <1>3, <1>4

\* ev_io_stop(), which drops a collected callback.
LEMMA EvIoStopFacts ==
    ASSUME NEW l \in Loops, NEW w \in Io, NEW m, m = LOOP!EvIoStop(l, w)
    PROVE  /\ m.io = [l.io EXCEPT ![w] = [alive |-> l.io[w].alive,
                                          active |-> FALSE,
                                          events |-> l.io[w].events]]
           /\ m.timer = l.timer /\ m.running = l.running
           /\ m.pending = LOOP!WithoutPending(l, "io", w)
           /\ m \in Loops
<1>1. m.io = [l.io EXCEPT ![w] = [l.io[w] EXCEPT !.active = FALSE]]
  BY DEF LOOP!EvIoStop, Loops
<1>2. m.io = [l.io EXCEPT ![w] = [alive |-> l.io[w].alive, active |-> FALSE,
                                  events |-> l.io[w].events]]
  BY <1>1, IoStopped, Zenon DEF Loops
<1>3. /\ m.timer = l.timer /\ m.running = l.running
      /\ m.pending = LOOP!WithoutPending(l, "io", w)
  BY DEF LOOP!EvIoStop, Loops
<1>4. m \in Loops
  BY ZenonT(60) DEF LOOP!EvIoStop, Loops, IoState, LOOP!WithoutPending
<1> QED
  BY <1>2, <1>3, <1>4

\* create_io_event().
LEMMA CreateIoFacts ==
    ASSUME NEW l, Good(l), NEW w \in Io, ~l.io[w].active,
           NEW m, m = LOOP!CreateIoEvent(l, w)
    PROVE  /\ Good(m)
           /\ IoSet(l, m, w, [alive |-> TRUE, active |-> FALSE, events |-> {}])
<1> DEFINE new == [alive |-> TRUE, active |-> FALSE, events |-> {}]
<1>1. new \in IoState
  BY DEF IoState, Masks
<1>2. [LOOP!NoIo EXCEPT !.alive = TRUE] = new
  BY IoNew, Zenon
<1>3. /\ m.io = [l.io EXCEPT ![w] = new] /\ m.timer = l.timer
      /\ m.pending = l.pending /\ m.running = l.running
  BY <1>2, Zenon DEF LOOP!CreateIoEvent, Good, Loops
<1>4. m \in Loops
  BY <1>1, <1>2, Zenon DEF LOOP!CreateIoEvent, Good, Loops
<1>5. Good(m)
  BY <1>3, <1>4, LoopFields DEF Good
<1> QED
  BY <1>3, <1>5 DEF IoSet

\* A watcher is stopped and started with another mask.
LEMMA RestartIoFacts ==
    ASSUME NEW l, Good(l), NEW w \in Io, l.io[w].alive, NEW e \in Masks,
           NEW m, m = LOOP!EvIoStart(LOOP!EvIoStop(l, w), w, e)
    PROVE  /\ Good(m)
           /\ IoSet(l, m, w, [alive |-> TRUE, active |-> TRUE, events |-> e])
<1> DEFINE s == LOOP!EvIoStop(l, w)
           off == [alive |-> l.io[w].alive, active |-> FALSE,
                   events |-> l.io[w].events]
           on == [alive |-> TRUE, active |-> TRUE, events |-> e]
<1>1. /\ s.io = [l.io EXCEPT ![w] = off] /\ s.timer = l.timer
      /\ s.pending = LOOP!WithoutPending(l, "io", w) /\ s \in Loops
  <2>1. l \in Loops
    BY DEF Good
  <2> HIDE DEF s
  <2> QED
    BY <2>1, EvIoStopFacts, ZenonT(60) DEF s
<1>2. l.io \in [Io -> IoState]
  BY LoopFields DEF Good
<1>3. s.io[w].alive
  BY <1>1, <1>2
<1>4. /\ m.io = [s.io EXCEPT ![w] = on] /\ m.timer = s.timer
      /\ m.pending = s.pending /\ m \in Loops
  <2>1. s \in Loops /\ m = LOOP!EvIoStart(s, w, e)
    BY <1>1
  <2> HIDE DEF s
  <2> QED
    BY <2>1, <1>3, EvIoStartFacts
<1>5. m.io = [l.io EXCEPT ![w] = on]
  BY <1>1, <1>2, <1>4
<1>6. Good(m)
  BY <1>1, <1>2, <1>4, <1>5, LoopFields DEF Good, LOOP!WithoutPending
<1> QED
  BY <1>1, <1>4, <1>5, <1>6 DEF IoSet

\* A watcher is started for the first time.
LEMMA FirstStartIoFacts ==
    ASSUME NEW l, Good(l), NEW w \in Io, l.io[w].alive, ~l.io[w].active,
           NEW e \in Masks, NEW m, m = LOOP!EvIoStart(l, w, e)
    PROVE  /\ Good(m)
           /\ IoSet(l, m, w, [alive |-> TRUE, active |-> TRUE, events |-> e])
<1> DEFINE on == [alive |-> TRUE, active |-> TRUE, events |-> e]
<1>1. l \in Loops
  BY DEF Good
<1>2. /\ m.io = [l.io EXCEPT ![w] = on] /\ m.timer = l.timer
      /\ m.pending = l.pending /\ m \in Loops
  BY <1>1, EvIoStartFacts
<1>3. Good(m)
  BY <1>1, <1>2, LoopFields DEF Good
<1> QED
  BY <1>2, <1>3 DEF IoSet

\* start_io_event() adds to the mask.
LEMMA StartIoFacts ==
    ASSUME NEW l, Good(l), NEW w \in Io, l.io[w].alive, NEW mask \in Masks,
           NEW m, m = LOOP!StartIoEvent(l, w, mask)
    PROVE  /\ Good(m)
           /\ IoSet(l, m, w,
                    [alive |-> TRUE, active |-> TRUE,
                     events |-> IF l.io[w].active THEN l.io[w].events \cup mask
                                ELSE mask])
<1> DEFINE all == l.io[w].events \cup mask
           new(e) == [alive |-> TRUE, active |-> TRUE, events |-> e]
<1>1. /\ all \in Masks /\ l.io \in [Io -> IoState] /\ l.io[w].alive = TRUE
      /\ l.io[w].active \in BOOLEAN
  BY LoopFields DEF Good, Masks
<1>2. CASE ~l.io[w].active
  <2>1. m = LOOP!EvIoStart(l, w, mask)
    BY <1>2 DEF LOOP!StartIoEvent
  <2>2. Good(m) /\ IoSet(l, m, w, new(mask))
    BY <1>2, <2>1, FirstStartIoFacts
  <2> QED
    BY <1>2, <2>2
<1>3. CASE l.io[w].active /\ all = l.io[w].events
  <2>1. m = l
    BY <1>3 DEF LOOP!StartIoEvent
  <2>2. l.io[w] = new(all)
    BY <1>1, <1>3, Zenon DEF IoState
  <2>3. l.io = [l.io EXCEPT ![w] = new(all)]
    BY <1>1, <2>2, Zenon
  <2> QED
    BY <1>3, <2>1, <2>3 DEF IoSet
<1>4. CASE l.io[w].active /\ all # l.io[w].events
  <2>1. m = LOOP!EvIoStart(LOOP!EvIoStop(l, w), w, all)
    BY <1>4 DEF LOOP!StartIoEvent
  <2>2. Good(m) /\ IoSet(l, m, w, new(all))
    BY <1>1, <2>1, RestartIoFacts, Zenon
  <2> QED
    BY <1>4, <2>2
<1> QED
  BY <1>2, <1>3, <1>4

\* stop_io_event() of WRITE leaves READ.
LEMMA StopIoFacts ==
    ASSUME NEW l, Good(l), NEW w \in Io, l.io[w].active, "READ" \in l.io[w].events,
           NEW m, m = LOOP!StopIoEvent(l, w, {"WRITE"})
    PROVE  /\ Good(m)
           /\ IoSet(l, m, w, [alive |-> TRUE, active |-> TRUE, events |-> {"READ"}])
<1> DEFINE rest == l.io[w].events \ {"WRITE"}
           new == [alive |-> TRUE, active |-> TRUE, events |-> {"READ"}]
<1>1. /\ rest = {"READ"} /\ l.io \in [Io -> IoState] /\ l.io[w].alive = TRUE
      /\ l.io[w].active = TRUE /\ {"READ"} \in Masks
  BY LoopFields DEF Good, Masks
<1>2. CASE rest = l.io[w].events
  <2>1. m = l
    BY <1>2 DEF LOOP!StopIoEvent
  <2>2. l.io[w] = new
    BY <1>1, <1>2, Zenon DEF IoState
  <2>3. l.io = [l.io EXCEPT ![w] = new]
    BY <1>1, <2>2, Zenon
  <2> QED
    BY <2>1, <2>3 DEF IoSet
<1>3. CASE rest # l.io[w].events
  <2>1. m = LOOP!EvIoStart(LOOP!EvIoStop(l, w), w, {"READ"})
    BY <1>1, <1>3 DEF LOOP!StopIoEvent
  <2> QED
    BY <1>1, <2>1, RestartIoFacts, Zenon
<1> QED
  BY <1>2, <1>3

\* delete_io_event() leaves no watcher and no callback.
LEMMA DeleteIoFacts ==
    ASSUME NEW l, Good(l), NEW w \in Io, NEW m, m = LOOP!DeleteIoEvent(l, w)
    PROVE  /\ Good(m) /\ IoSet(l, m, w, LOOP!NoIo)
           /\ \A p \in m.pending : p \in l.pending
<1> DEFINE s == LOOP!EvIoStop(l, w)
<1>1. /\ s.io = [l.io EXCEPT ![w] = [alive |-> l.io[w].alive, active |-> FALSE,
                                     events |-> l.io[w].events]]
      /\ s.timer = l.timer
      /\ s.pending = LOOP!WithoutPending(l, "io", w) /\ s \in Loops
  <2>1. l \in Loops
    BY DEF Good
  <2> HIDE DEF s
  <2> QED
    BY <2>1, EvIoStopFacts, ZenonT(60) DEF s
<1>2. l.io \in [Io -> IoState] /\ LOOP!NoIo \in IoState
  BY LoopFields DEF Good, IoState, LOOP!NoIo, Masks
<1>3. /\ m.io = [s.io EXCEPT ![w] = LOOP!NoIo] /\ m.timer = s.timer
      /\ m.pending = s.pending
  BY <1>1 DEF LOOP!DeleteIoEvent, Loops
<1>4. m \in Loops
  BY <1>1, <1>2 DEF LOOP!DeleteIoEvent, Loops
<1>5. m.io = [l.io EXCEPT ![w] = LOOP!NoIo]
  BY <1>1, <1>2, <1>3
<1>6. Good(m)
  BY <1>1, <1>2, <1>3, <1>4, <1>5, LoopFields
  DEF Good, LOOP!WithoutPending, LOOP!NoIo
<1> QED
  BY <1>1, <1>3, <1>5, <1>6 DEF IoSet, LOOP!WithoutPending

\* create_timer().
LEMMA CreateTimerFacts ==
    ASSUME NEW l, Good(l), NEW t \in Tm, NEW m, m = LOOP!CreateTimer(l, t)
    PROVE  /\ Good(m)
           /\ TimerSet(l, m, t, [alive |-> TRUE, active |-> FALSE])
<1> DEFINE new == [alive |-> TRUE, active |-> FALSE]
<1>1. new \in TimerState
  BY DEF TimerState
<1>2. [LOOP!NoTimer EXCEPT !.alive = TRUE] = new
  BY TimerNew, Zenon
<1>3. /\ m.timer = [l.timer EXCEPT ![t] = new] /\ m.io = l.io
      /\ m.pending = l.pending
  BY <1>2, Zenon DEF LOOP!CreateTimer, Good, Loops
<1>4. m \in Loops
  BY <1>1, <1>2, Zenon DEF LOOP!CreateTimer, Good, Loops
<1>5. Good(m)
  BY <1>3, <1>4, LoopFields DEF Good
<1> QED
  BY <1>3, <1>5 DEF TimerSet

\* ev_timer_stop().
LEMMA EvTimerStopFacts ==
    ASSUME NEW l \in Loops, NEW t \in Tm, NEW m, m = LOOP!EvTimerStop(l, t)
    PROVE  /\ \A u \in Tm \ {t} : m.timer[u] = l.timer[u]
           /\ l.timer[t].alive => m.timer[t].alive
           /\ m.io = l.io /\ m.pending = LOOP!WithoutPending(l, "timer", t)
           /\ m \in Loops
BY Zenon DEF LOOP!EvTimerStop, Loops, TimerState, LOOP!WithoutPending

\* ev_timer_start().
LEMMA EvTimerStartFacts ==
    ASSUME NEW l \in Loops, NEW t \in Tm, l.timer[t].alive,
           NEW m, m = LOOP!EvTimerStart(l, t)
    PROVE  /\ m.timer = [l.timer EXCEPT ![t] = [alive |-> TRUE, active |-> TRUE]]
           /\ m.io = l.io /\ m.pending = l.pending /\ m \in Loops
<1>1. m.timer = [l.timer EXCEPT ![t] = [l.timer[t] EXCEPT !.active = TRUE]]
  BY DEF LOOP!EvTimerStart, Loops
<1>2. m.timer = [l.timer EXCEPT ![t] = [alive |-> TRUE, active |-> TRUE]]
  <2>1. l.timer[t] \in TimerState
    BY DEF Loops
  <2>2. \A r : r = [l.timer[t] EXCEPT !.active = TRUE]
                 => r = [alive |-> TRUE, active |-> TRUE]
    BY <2>1, TimerStarted, Zenon
  <2> QED
    BY <1>1, <2>2, Zenon
<1>3. m.io = l.io /\ m.pending = l.pending
  BY DEF LOOP!EvTimerStart, Loops
<1>4. m \in Loops
  BY Zenon DEF LOOP!EvTimerStart, Loops, TimerState
<1> QED
  BY <1>2, <1>3, <1>4

\* start_timer().
LEMMA StartTimerFacts ==
    ASSUME NEW l, Good(l), NEW t \in Tm, l.timer[t].alive,
           NEW m, m = LOOP!StartTimer(l, t, 1)
    PROVE  Good(m) /\ TimerSet(l, m, t, [alive |-> TRUE, active |-> TRUE])
<1> DEFINE s == LOOP!EvTimerStop(l, t)
           on == [alive |-> TRUE, active |-> TRUE]
<1>1. /\ \A u \in Tm \ {t} : s.timer[u] = l.timer[u]
      /\ l.timer[t].alive => s.timer[t].alive
      /\ s.io = l.io
      /\ s.pending = LOOP!WithoutPending(l, "timer", t) /\ s \in Loops
  <2>1. l \in Loops
    BY DEF Good
  <2> HIDE DEF s
  <2> QED
    BY <2>1, EvTimerStopFacts DEF s
<1>2. l.timer \in [Tm -> TimerState] /\ s.timer \in [Tm -> TimerState]
  BY <1>1, LoopFields DEF Good
<1>3. s.timer[t].alive
  BY <1>1, <1>2
<1>4. /\ m.timer = [s.timer EXCEPT ![t] = on] /\ m.io = s.io
      /\ m.pending = s.pending /\ m \in Loops
  <2>1. s \in Loops /\ m = LOOP!EvTimerStart(s, t)
    BY <1>1 DEF LOOP!StartTimer
  <2> HIDE DEF s
  <2> QED
    BY <2>1, <1>3, EvTimerStartFacts
<1>5. m.timer = [l.timer EXCEPT ![t] = on]
  BY <1>1, <1>2, <1>4, Zenon
<1>6. Good(m)
  BY <1>1, <1>2, <1>4, <1>5, LoopFields DEF Good, LOOP!WithoutPending
<1> QED
  BY <1>1, <1>4, <1>5, <1>6 DEF TimerSet

\* delete_timer() leaves no timer and no callback.
LEMMA DeleteTimerFacts ==
    ASSUME NEW l, Good(l), NEW t \in Tm, NEW m, m = LOOP!DeleteTimer(l, t)
    PROVE  Good(m) /\ TimerSet(l, m, t, LOOP!NoTimer)
<1> DEFINE s == LOOP!EvTimerStop(l, t)
<1>1. /\ \A u \in Tm \ {t} : s.timer[u] = l.timer[u]
      /\ l.timer[t].alive => s.timer[t].alive
      /\ s.io = l.io
      /\ s.pending = LOOP!WithoutPending(l, "timer", t) /\ s \in Loops
  <2>1. l \in Loops
    BY DEF Good
  <2> HIDE DEF s
  <2> QED
    BY <2>1, EvTimerStopFacts DEF s
<1>2. /\ l.timer \in [Tm -> TimerState] /\ s.timer \in [Tm -> TimerState]
      /\ LOOP!NoTimer \in TimerState
  BY <1>1, LoopFields DEF Good, TimerState, LOOP!NoTimer
<1>3. /\ m.timer = [s.timer EXCEPT ![t] = LOOP!NoTimer] /\ m.io = s.io
      /\ m.pending = s.pending
  BY <1>1 DEF LOOP!DeleteTimer, LOOP!StopTimer, Loops
<1>4. m \in Loops
  BY <1>1, <1>2 DEF LOOP!DeleteTimer, LOOP!StopTimer, Loops
<1>5. m.timer = [l.timer EXCEPT ![t] = LOOP!NoTimer]
  BY <1>1, <1>2, <1>3
<1>6. Good(m)
  BY <1>1, <1>2, <1>3, <1>4, <1>5, LoopFields
  DEF Good, LOOP!WithoutPending, LOOP!NoTimer
<1> QED
  BY <1>1, <1>3, <1>5, <1>6 DEF TimerSet

\* Starting a watcher that is not active only starts it.
LEMMA StartIoEventFirst ==
    ASSUME NEW l, NEW w, NEW mask, ~l.io[w].active
    PROVE  LOOP!StartIoEvent(l, w, mask) = LOOP!EvIoStart(l, w, mask)
BY DEF LOOP!StartIoEvent

\* create_connection() and HttpClient::get(): a watcher for READ and a timer.
LEMMA NewWatchersFacts ==
    ASSUME NEW l, Good(l), NEW x \in Tm, ~l.io[x].active, NEW m,
           m = LET n == LOOP!CreateTimer(LOOP!CreateIoEvent(l, x), x)
               IN  LOOP!StartTimer(LOOP!StartIoEvent(n, x, {"READ"}), x, 1)
    PROVE  /\ Good(m)
           /\ m.io = [l.io EXCEPT ![x] = [alive |-> TRUE, active |-> TRUE,
                                          events |-> {"READ"}]]
           /\ m.timer = [l.timer EXCEPT ![x] = [alive |-> TRUE, active |-> TRUE]]
<1> DEFINE io1 == [alive |-> TRUE, active |-> FALSE, events |-> {}]
           io2 == [alive |-> TRUE, active |-> TRUE, events |-> {"READ"}]
           tm1 == [alive |-> TRUE, active |-> FALSE]
           tm2 == [alive |-> TRUE, active |-> TRUE]
           l1 == LOOP!CreateIoEvent(l, x)
           l2 == LOOP!CreateTimer(l1, x)
           l3 == LOOP!StartIoEvent(l2, x, {"READ"})
<1>0. /\ x \in Io /\ {"READ"} \in Masks
      /\ l.io \in [Io -> IoState] /\ l.timer \in [Tm -> TimerState]
  BY LoopFields, Zenon DEF Good, Io, Tm, Masks
<1>1. Good(l1) /\ l1.io = [l.io EXCEPT ![x] = io1] /\ l1.timer = l.timer
  BY <1>0, CreateIoFacts DEF IoSet
<1>2. Good(l2) /\ l2.io = l1.io /\ l2.timer = [l1.timer EXCEPT ![x] = tm1]
  BY <1>1, CreateTimerFacts DEF TimerSet
<1>3. l2.io[x] = io1 /\ l2.timer[x] = tm1
  BY <1>0, <1>1, <1>2
<1>4. Good(l3) /\ l3.io = [l2.io EXCEPT ![x] = io2] /\ l3.timer = l2.timer
  <2>1. l2.io[x].alive /\ ~l2.io[x].active
    BY <1>3
  <2> HIDE DEF l2
  <2>2. l3 = LOOP!EvIoStart(l2, x, {"READ"})
    BY <2>1, StartIoEventFirst
  <2> HIDE DEF l3
  <2>3. Good(l3) /\ IoSet(l2, l3, x, io2)
    BY <1>0, <1>2, <2>1, <2>2, FirstStartIoFacts, Zenon
  <2> QED
    BY <2>3 DEF IoSet
<1>5. Good(m) /\ m.io = l3.io /\ m.timer = [l3.timer EXCEPT ![x] = tm2]
  <2>1. l3.timer[x].alive
    BY <1>3, <1>4
  <2>2. m = LOOP!StartTimer(l3, x, 1)
    OBVIOUS
  <2> HIDE DEF l3
  <2>3. Good(l3)
    BY <1>4
  <2>4. Good(m) /\ TimerSet(l3, m, x, tm2)
    BY <2>1, <2>2, <2>3, StartTimerFacts
  <2> QED
    BY <2>4 DEF TimerSet
<1> HIDE DEF l1, l2, l3
<1> QED
  BY <1>0, <1>1, <1>2, <1>4, <1>5

\* remove_conn() and the HTTP client when it is done with a request.
LEMMA ForgetFacts ==
    ASSUME NEW l, Good(l), NEW x \in Tm, NEW m,
           m = LOOP!DeleteTimer(LOOP!DeleteIoEvent(l, x), x)
    PROVE  /\ Good(m)
           /\ m.io = [l.io EXCEPT ![x] = LOOP!NoIo]
           /\ m.timer = [l.timer EXCEPT ![x] = LOOP!NoTimer]
<1> DEFINE l1 == LOOP!DeleteIoEvent(l, x)
<1>1. x \in Io
  BY DEF Io, Tm
<1>2. Good(l1) /\ l1.io = [l.io EXCEPT ![x] = LOOP!NoIo] /\ l1.timer = l.timer
  BY <1>1, DeleteIoFacts DEF IoSet
<1> HIDE DEF l1
<1>3. m = LOOP!DeleteTimer(l1, x)
  BY DEF l1
<1> QED
  BY <1>2, <1>3, DeleteTimerFacts DEF TimerSet

\* One turn of ev_run(): a timer of a request becomes inactive when it is due.
LEMMA PollFacts ==
    ASSUME NEW l, Good(l), NEW ready \in [Io -> Masks], NEW expired \in SUBSET Tm,
           NEW m, m = LOOP!PollLoop(l, ready, expired)
    PROVE  /\ Good(m) /\ m.io = l.io
           /\ m.timer \in [Tm -> TimerState]
           /\ \A t \in Tm : m.timer[t].alive = l.timer[t].alive
           /\ \A c \in Conns : m.timer[c] = l.timer[c]
<1> DEFINE Ready(w) == l.io[w].events \cap ready[w]
           due == {t \in expired : l.timer[t].active}
           timer == [t \in Tm |-> IF t \in due \ Conns
                                  THEN [l.timer[t] EXCEPT !.active = FALSE]
                                  ELSE l.timer[t]]
           pending == {LOOP!IoCallback(w, Ready(w)) :
                         w \in {v \in Io : l.io[v].active /\ Ready(v) # {}}}
                      \cup {LOOP!TimerCallback(t) : t \in due}
<1> USE LoopFields
<1>1. l \in Loops /\ l.timer \in [Tm -> TimerState]
  BY DEF Good
<1>2. m.io = l.io /\ m.running = l.running /\ m.pending = pending
  BY <1>1 DEF LOOP!PollLoop, Loops, Io
<1>3. m.timer = timer
  BY <1>1 DEF LOOP!PollLoop, Loops, Tm
<1>4. timer \in [Tm -> TimerState]
  BY <1>1, Zenon DEF TimerState
<1>5. /\ \A t \in Tm : timer[t].alive = l.timer[t].alive
      /\ \A t \in Tm : timer[t].active => l.timer[t].active
      /\ \A c \in Conns : timer[c] = l.timer[c]
  BY <1>1 DEF TimerState, Tm
<1>6. \A p \in pending :
         /\ p \in Callbacks
         /\ IF p.kind = "io" THEN l.io[p.watcher].active
            ELSE p.watcher \in Tm /\ l.timer[p.watcher].alive
  <2>1. \A w \in Io : Ready(w) \in Masks
    BY <1>1 DEF Masks
  <2> QED
    BY <1>1, <2>1 DEF LOOP!IoCallback, LOOP!TimerCallback, Callbacks, Good, Io, Tm, Masks
<1>7. m \in Loops
  BY <1>1, <1>2, <1>3, <1>4, <1>6, Zenon DEF LOOP!PollLoop, Loops
<1> HIDE DEF timer, pending
<1>8. Good(m)
  BY <1>1, <1>2, <1>3, <1>5, <1>6, <1>7, Zenon DEF Good
<1> QED
  BY <1>2, <1>3, <1>4, <1>5, <1>8

-----------------------------------------------------------------------------
(* The inductive invariant.                                                *)

TypeOK ==
    /\ client \in [Conns -> {0} \cup Clients]
    /\ priv \in [Conns -> Brs \cup {NULL}]
    /\ replies \in [Conns -> Seq(Nat)]
    /\ br \in [Brs -> [conn : Conns \cup {NULL}, req : Nat]]
    /\ flag \in [Brs -> {TRUE, FALSE, NULL}]
    /\ dispatched \in 0 .. MaxClients /\ taken \in 0 .. dispatched
    /\ unread \in [Clients -> Seq(Nat)]
    /\ sent \in Seq(Clients)
    /\ pipelined \in BOOLEAN

\* The requests the worker holds have been sent, and what a client sent and the
\* worker has not read is that client's.
Known ==
    /\ \A c \in Conns : \A i \in 1 .. Len(replies[c]) :
          replies[c][i] \in 1 .. Len(sent)
    /\ \A b \in Brs : br[b].req \in 0 .. Len(sent)
    /\ \A k \in Clients : \A i \in 1 .. Len(unread[k]) :
          unread[k][i] \in 1 .. Len(sent) /\ sent[unread[k][i]] = k

\* The callback being made is about a connection, which is open until read_io()
\* has run.
Inside ==
    current # NULL =>
        /\ current \in Callbacks /\ current.watcher \in Conns
        /\ "READ" \in current.revents => Open(current.watcher)

\* A closed connection has no replies, and br_flag_map says TRUE of exactly the
\* requests with a connection.
Marked ==
    /\ \A c \in Conns : ~Open(c) => replies[c] = <<>>
    /\ \A b \in Brs : flag[b] = TRUE <=> br[b].conn \in Conns
    /\ \A b \in Brs : flag[b] = TRUE => br[b].req # 0

\* Without pipelining, a marked request is the one its connection points to,
\* and the connection is still that of the client that asked.
Owned ==
    ~pipelined =>
        \A b \in Brs : flag[b] = TRUE =>
            /\ Open(br[b].conn) /\ priv[br[b].conn] = b
            /\ sent[br[b].req] = client[br[b].conn]

ConnsWatched ==
    \A c \in Conns :
        IF Open(c)
        THEN /\ el.io[c] = [alive |-> TRUE, active |-> TRUE, events |-> Watched(c)]
             /\ el.timer[c].active
        ELSE el.io[c] = LOOP!NoIo /\ el.timer[c] = LOOP!NoTimer

BrsWatched ==
    \A b \in Brs : /\ Live(b) <=> el.timer[b].alive
                   /\ Live(b) <=> el.io[b].alive

PrivMatches ==
    \A c \in Conns :
        priv[c] # NULL => flag[priv[c]] = TRUE /\ br[priv[c]].conn = c

IInv ==
    /\ Good(el) /\ TypeOK /\ Known /\ Inside /\ Marked /\ Owned
    /\ ConnsWatched /\ BrsWatched /\ PrivMatches /\ AnswersOwnClient

\* The invariant implies the properties about watchers and requests.
LEMMA Implied == IInv => WatchersMatch /\ RequestsMatch
<1> SUFFICES ASSUME IInv PROVE WatchersMatch /\ RequestsMatch
  OBVIOUS
<1>1. WatchersMatch
  BY DEF IInv, Good, ConnsWatched, WatchersMatch
<1>2. \A b \in Brs : el.timer[b].alive \in BOOLEAN /\ el.io[b].alive \in BOOLEAN
  BY LoopFields DEF IInv, Good, Io, Tm
<1>3. \A b \in Brs : Live(b) = el.timer[b].alive /\ Live(b) = el.io[b].alive
  BY <1>2 DEF IInv, BrsWatched, Live
<1> QED
  BY <1>1, <1>3 DEF IInv, PrivMatches, RequestsMatch

\* The invariant holds initially.
LEMMA InitIInv == Init => IInv
<1> SUFFICES ASSUME Init PROVE IInv
  OBVIOUS
<1> USE DEF Init
<1>1. LOOP!NewLoop \in Loops /\ Good(LOOP!NewLoop)
  BY Zenon DEF LOOP!NewLoop, Good, Loops, LOOP!NoIo, LOOP!NoTimer, IoState, TimerState,
         Masks, Io, Tm
<1> DEFINE l == LOOP!CreateIoEvent(LOOP!NewLoop, Pipe)
           off == [alive |-> TRUE, active |-> FALSE, events |-> {}]
           on == [alive |-> TRUE, active |-> TRUE, events |-> {"READ"}]
<1>2. Good(l) /\ IoSet(LOOP!NewLoop, l, Pipe, off)
  <2>1. Pipe \in Io /\ ~LOOP!NewLoop.io[Pipe].active
    BY DEF LOOP!NewLoop, LOOP!NoIo, Io
  <2> QED
    BY <1>1, <2>1, CreateIoFacts
<1>3. l.io[Pipe].alive /\ ~l.io[Pipe].active
  BY <1>1, <1>2 DEF IoSet, Loops, Io
<1> HIDE DEF l
<1>4. el = LOOP!EvIoStart(l, Pipe, {"READ"})
  BY <1>3, StartIoEventFirst DEF Initialized, l
<1>5. Good(el) /\ IoSet(l, el, Pipe, on)
  <2>1. Pipe \in Io /\ {"READ"} \in Masks
    BY DEF Io, Masks
  <2> QED
    BY <1>2, <1>3, <1>4, <2>1, FirstStartIoFacts, Zenon
<1>6. \A x \in Tm : el.io[x] = LOOP!NoIo /\ el.timer[x] = LOOP!NoTimer
  <2>1. /\ LOOP!NewLoop.io = [w \in Io |-> LOOP!NoIo]
        /\ LOOP!NewLoop.timer = [t \in Tm |-> LOOP!NoTimer]
    BY DEF LOOP!NewLoop, Io, Tm
  <2> QED
    BY <1>2, <1>5, <2>1 DEF IoSet, Io, Tm
<1>7. ConnsWatched
  BY <1>6 DEF ConnsWatched, Open, Tm
<1>8. BrsWatched
  BY <1>6 DEF BrsWatched, Live, LOOP!NoIo, LOOP!NoTimer, Tm
<1>9. TypeOK
  <2>1. flag \in [Brs -> {TRUE, FALSE, NULL}]
    OBVIOUS
  <2>2. br \in [Brs -> [conn : Conns \cup {NULL}, req : Nat]]
    BY DEF NoBr
  <2>3. pipelined \in BOOLEAN
    BY Zenon
  <2>4. sent \in Seq(Clients) /\ unread \in [Clients -> Seq(Nat)]
    OBVIOUS
  <2>5. replies \in [Conns -> Seq(Nat)]
    OBVIOUS
  <2> QED
    BY <2>1, <2>2, <2>3, <2>4, <2>5 DEF TypeOK
<1> QED
  <2>1. Known /\ Inside /\ PrivMatches
    BY DEF Known, Inside, PrivMatches, NoBr
  <2>2. Marked /\ Owned
    BY Zenon DEF Marked, Owned, NoBr
  <2>3. AnswersOwnClient
    BY DEF AnswersOwnClient
  <2> QED
    BY <1>5, <1>7, <1>8, <1>9, <2>1, <2>2, <2>3 DEF IInv

-----------------------------------------------------------------------------
(* What a handler does to the invariant.                                   *)

\* All of the invariant but the callback being made.
Core ==
    /\ Good(el) /\ TypeOK /\ Known /\ Marked /\ Owned
    /\ ConnsWatched /\ BrsWatched /\ PrivMatches /\ AnswersOwnClient

\* Before a handler, with the callback taken off the list.
Taken(l) == Good(l) /\ l.io = el.io /\ l.timer = el.timer

\* What is left of a callback of which one half is done.
LEMMA DidFacts ==
    ASSUME Inside, NEW c \in Conns, NEW e \in {"READ", "WRITE"}, InCallback(c, e),
           e = "READ" \/ "READ" \notin current.revents, Did(e)
    PROVE  Inside'
BY DEF Inside, InCallback, Did, Callbacks, Masks

\* remove_conn(): the watcher, the timer, the replies and the mark go together.
LEMMA RemoveConnStep ==
    ASSUME Core, NEW c \in Conns, NEW l, Taken(l), RemoveConn(l, c),
           UNCHANGED outside
    PROVE  Core'
<1> USE DEF Core, RemoveConn, outside
<1>1. /\ Good(el') /\ el'.io = [el.io EXCEPT ![c] = LOOP!NoIo]
      /\ el'.timer = [el.timer EXCEPT ![c] = LOOP!NoTimer]
  <2>1. Good(l) /\ l.io = el.io /\ l.timer = el.timer /\ c \in Tm
    BY DEF Taken, Tm
  <2> QED
    BY <2>1, ForgetFacts, SMTT(30)
<1>2. el.io \in [Io -> IoState] /\ el.timer \in [Tm -> TimerState]
  BY LoopFields DEF Good
<1>3. ConnsWatched'
  <2>1. \A d \in Conns \ {c} : /\ el'.io[d] = el.io[d] /\ el'.timer[d] = el.timer[d]
                               /\ client'[d] = client[d] /\ replies'[d] = replies[d]
    BY <1>1, <1>2 DEF TypeOK, Io, Tm
  <2>2. el'.io[c] = LOOP!NoIo /\ el'.timer[c] = LOOP!NoTimer /\ client'[c] = 0
    BY <1>1, <1>2 DEF TypeOK, Io, Tm
  <2> SUFFICES ASSUME NEW d \in Conns
               PROVE  (IF Open(d)
                       THEN /\ el.io[d] = [alive |-> TRUE, active |-> TRUE,
                                           events |-> Watched(d)]
                            /\ el.timer[d].active
                       ELSE el.io[d] = LOOP!NoIo /\ el.timer[d] = LOOP!NoTimer)'
    BY Zenon DEF ConnsWatched
  <2>3. CASE d = c
    BY <2>2, <2>3 DEF Open
  <2>4. CASE d # c
    <3>1. Watched(d)' = Watched(d)
      BY <2>1, <2>4 DEF Watched
    <3> QED
      BY <2>1, <2>4, <3>1 DEF ConnsWatched, Open
  <2> QED
    BY <2>3, <2>4
<1>4. \A b \in Brs : Live(b)' <=> Live(b)
  BY ZenonT(60) DEF BeforeRemoveConn, Live, TypeOK, PrivMatches
<1>5. BrsWatched'
  BY <1>1, <1>2, <1>4 DEF BrsWatched, Io, Tm
<1>6. TypeOK'
  <2>1. priv' \in [Conns -> Brs \cup {NULL}]
    BY Zenon DEF BeforeRemoveConn, TypeOK
  <2>2. br' \in [Brs -> [conn : Conns \cup {NULL}, req : Nat]]
    <3>1. CASE priv[c] = NULL
      BY <3>1 DEF BeforeRemoveConn, TypeOK
    <3>2. CASE priv[c] \in Brs
      <4>1. br' = [br EXCEPT ![priv[c]] = [br[priv[c]] EXCEPT !.conn = NULL]]
        BY <3>2 DEF BeforeRemoveConn
      <4> QED
        BY <3>2, <4>1, ZenonT(60) DEF TypeOK
    <3> QED
      BY <3>1, <3>2 DEF TypeOK
  <2>3. flag' \in [Brs -> {TRUE, FALSE, NULL}]
    BY Zenon DEF BeforeRemoveConn, TypeOK
  <2>4. replies' \in [Conns -> Seq(Nat)]
    BY DEF TypeOK
  <2> QED
    BY <2>1, <2>2, <2>3, <2>4, Zenon DEF TypeOK
<1>7. /\ \A d \in Conns : priv'[d] = IF d = c THEN NULL ELSE priv[d]
      /\ \A b \in Brs : /\ flag'[b] = IF priv[c] = b THEN FALSE ELSE flag[b]
                        /\ br'[b].conn = IF priv[c] = b THEN NULL ELSE br[b].conn
                        /\ br'[b].req = br[b].req
  <2>1. CASE priv[c] = NULL
    BY <2>1, Zenon DEF BeforeRemoveConn, TypeOK
  <2>2. CASE priv[c] \in Brs
    <3>1. br' = [br EXCEPT ![priv[c]] = [br[priv[c]] EXCEPT !.conn = NULL]]
      BY <2>2 DEF BeforeRemoveConn
    <3>2. /\ priv' = [priv EXCEPT ![c] = NULL]
          /\ flag' = [flag EXCEPT ![priv[c]] = FALSE]
      BY <2>2 DEF BeforeRemoveConn
    <3>3. \A b \in Brs : /\ br'[b].conn = IF priv[c] = b THEN NULL ELSE br[b].conn
                         /\ br'[b].req = br[b].req
      BY <2>2, <3>1 DEF TypeOK
    <3>4. \A b \in Brs : flag'[b] = IF priv[c] = b THEN FALSE ELSE flag[b]
      BY <2>2, <3>2, Zenon DEF TypeOK
    <3>5. \A d \in Conns : priv'[d] = IF d = c THEN NULL ELSE priv[d]
      BY <2>2, <3>2 DEF TypeOK
    <3> QED
      BY <3>3, <3>4, <3>5, Zenon
  <2> QED
    BY <2>1, <2>2, Zenon DEF TypeOK
<1>8. \A d \in Conns : /\ client'[d] = IF d = c THEN 0 ELSE client[d]
                       /\ replies'[d] = IF d = c THEN <<>> ELSE replies[d]
  BY DEF TypeOK
<1>9. Known'
  <2>1. \A d \in Conns : \A i \in 1 .. Len(replies'[d]) :
           replies'[d][i] \in 1 .. Len(sent)
    BY <1>8 DEF Known
  <2>2. \A b \in Brs : br'[b].req \in 0 .. Len(sent)
    BY <1>7, Zenon DEF Known
  <2> QED
    BY <2>1, <2>2 DEF Known
<1>10. AnswersOwnClient'
  BY <1>8 DEF AnswersOwnClient
<1>11. Marked'
  BY <1>7, Zenon DEF Marked, TypeOK, Open
<1>12. PrivMatches'
  <2> SUFFICES ASSUME NEW d \in Conns, priv'[d] # NULL
               PROVE  flag'[priv'[d]] = TRUE /\ br'[priv'[d]].conn = d
    BY Zenon DEF PrivMatches
  <2>1. d # c /\ priv'[d] = priv[d] /\ priv[d] \in Brs
    BY <1>7 DEF TypeOK
  <2>2. flag[priv[d]] = TRUE /\ br[priv[d]].conn = d
    BY <2>1, Zenon DEF PrivMatches
  <2>3. priv[c] # priv[d]
    BY <2>1, <2>2 DEF PrivMatches
  <2> QED
    BY <1>7, <2>1, <2>2, <2>3, Zenon
<1>13. Owned'
  <2> SUFFICES ASSUME ~pipelined, NEW b \in Brs, flag'[b] = TRUE
               PROVE  /\ client'[br'[b].conn] # 0 /\ priv'[br'[b].conn] = b
                      /\ sent[br'[b].req] = client'[br'[b].conn]
    BY Zenon DEF Owned, Open
  <2>1. priv[c] # b /\ flag[b] = TRUE /\ br'[b].conn = br[b].conn
        /\ br'[b].req = br[b].req
    BY <1>7, Zenon
  <2>2. /\ br[b].conn \in Conns /\ client[br[b].conn] # 0
        /\ priv[br[b].conn] = b /\ sent[br[b].req] = client[br[b].conn]
    BY <2>1, Zenon DEF Owned, Marked, Open
  <2> QED
    BY <1>7, <1>8, <2>1, <2>2
<1> QED
  BY <1>1, <1>3, <1>5, <1>6, <1>9, <1>10, <1>11, <1>12, <1>13

\* The connections' part of the loop is as before.
SameForConns(m) ==
    \A d \in Conns : m.io[d] = el.io[d] /\ m.timer[d] = el.timer[d]

\* A step that changes nothing about connections keeps their watchers.
LEMMA UnrepliedFacts ==
    ASSUME ConnsWatched, NEW m, Good(m), SameForConns(m), el' = m,
           UNCHANGED <<client, replies>>
    PROVE  ConnsWatched'
BY Zenon DEF ConnsWatched, SameForConns, Open, Watched

\* add_reply() starts watching for WRITE.
LEMMA AddReplyFacts ==
    ASSUME TypeOK, Marked, ConnsWatched, NEW c \in Conns, NEW r \in Nat,
           NEW m, Good(m), SameForConns(m), AddReply(m, c, r), UNCHANGED client
    PROVE  /\ Good(el') /\ el'.timer = m.timer
           /\ \A b \in Brs : el'.io[b] = m.io[b]
           /\ ConnsWatched'
           /\ replies' \in [Conns -> Seq(Nat)]
           /\ \A d \in Conns :
                 \/ replies'[d] = replies[d]
                 \/ d = c /\ Open(c) /\ replies'[d] = Append(replies[d], r)
           /\ Open(c) => stray' = stray
<1>1. CASE ~Open(c)
  <2>1. el' = m /\ UNCHANGED replies
    BY <1>1 DEF AddReply
  <2>2. ConnsWatched'
    BY <2>1, UnrepliedFacts
  <2> QED
    BY <1>1, <2>1, <2>2 DEF TypeOK
<1>2. CASE Open(c)
  <2> DEFINE all == {"READ", "WRITE"}
             new == [alive |-> TRUE, active |-> TRUE, events |-> all]
  <2>1. /\ el' = LOOP!StartIoEvent(m, c, {"WRITE"}) /\ stray' = stray
        /\ replies' = [replies EXCEPT ![c] = Append(@, r)]
    BY <1>2 DEF AddReply
  <2>2. m.io[c] = [alive |-> TRUE, active |-> TRUE, events |-> Watched(c)]
    BY <1>2 DEF ConnsWatched, SameForConns
  <2>3. Good(el') /\ IoSet(m, el', c, new)
    <3>1. c \in Io /\ {"WRITE"} \in Masks
      BY DEF Io, Masks
    <3>2. /\ m.io[c].alive /\ m.io[c].active
          /\ m.io[c].events \cup {"WRITE"} = all
      BY <2>2 DEF Watched
    <3> QED
      BY <2>1, <3>1, <3>2, StartIoFacts, Zenon
  <2>4. m.io \in [Io -> IoState]
    BY LoopFields, Zenon DEF Good
  <2>5. /\ el'.timer = m.timer /\ el'.io[c] = new
        /\ \A w \in Io \ {c} : el'.io[w] = m.io[w]
    BY <2>3, <2>4, Zenon DEF IoSet, Io
  <2>6. \A b \in Brs : el'.io[b] = m.io[b]
    BY <2>5, Zenon DEF Io
  <2>7. replies' \in [Conns -> Seq(Nat)]
    BY <2>1 DEF TypeOK
  <2>8. \A d \in Conns : replies'[d] = IF d = c THEN Append(replies[d], r)
                                       ELSE replies[d]
    BY <2>1 DEF TypeOK
  <2>9. replies'[c] # <<>>
    <3>1. replies[c] \in Seq(Nat)
      BY DEF TypeOK
    <3>2. Len(Append(replies[c], r)) = Len(replies[c]) + 1
      BY <3>1
    <3>3. replies'[c] = Append(replies[c], r)
      BY <2>8, Zenon
    <3> QED
      BY <3>1, <3>2, <3>3
  <2>10. Watched(c)' = all
    BY <2>9 DEF Watched
  <2>11. ConnsWatched'
    <3> SUFFICES ASSUME NEW d \in Conns
                 PROVE  (IF Open(d)
                         THEN /\ el.io[d] = [alive |-> TRUE, active |-> TRUE,
                                             events |-> Watched(d)]
                              /\ el.timer[d].active
                         ELSE el.io[d] = LOOP!NoIo /\ el.timer[d] = LOOP!NoTimer)'
      BY Zenon DEF ConnsWatched
    <3>1. el'.timer[d] = el.timer[d]
      BY <2>5 DEF SameForConns
    <3>2. CASE d = c
      <4>1. el.timer[c].active
        BY <1>2, Zenon DEF ConnsWatched
      <4> QED
        BY <1>2, <2>5, <2>10, <3>1, <3>2, <4>1, Zenon DEF Open
    <3>3. CASE d # c
      <4>1. el'.io[d] = el.io[d] /\ Watched(d)' = Watched(d)
        BY <2>5, <2>8, <3>3 DEF SameForConns, Watched, Io
      <4> QED
        BY <3>1, <4>1, Zenon DEF ConnsWatched, Open
    <3> QED
      BY <3>2, <3>3
  <2> QED
    BY <1>2, <2>1, <2>3, <2>5, <2>6, <2>7, <2>8, <2>11, Zenon
<1> QED
  BY <1>1, <1>2, Zenon

\* A list with one item more.
LEMMA AppendedItems ==
    ASSUME NEW s \in Seq(Nat), NEW r \in Nat, NEW i \in 1 .. Len(Append(s, r))
    PROVE  \/ i \in 1 .. Len(s) /\ Append(s, r)[i] = s[i]
           \/ i = Len(s) + 1 /\ Append(s, r)[i] = r
OBVIOUS

\* backend_req_free().
LEMMA FreeFacts ==
    ASSUME TypeOK, Marked, PrivMatches, NEW b \in Brs, BackendReqFree(b)
    PROVE  /\ priv' \in [Conns -> Brs \cup {NULL}]
           /\ br' \in [Brs -> [conn : Conns \cup {NULL}, req : Nat]]
           /\ flag' \in [Brs -> {TRUE, FALSE, NULL}]
           /\ \A x \in Brs \ {b} : flag'[x] = flag[x] /\ br'[x] = br[x]
           /\ flag'[b] = NULL /\ br'[b] = NoBr
           /\ \A c \in Conns : priv'[c] = IF c = br[b].conn THEN NULL ELSE priv[c]
<1>1. br' \in [Brs -> [conn : Conns \cup {NULL}, req : Nat]]
  BY DEF BackendReqFree, TypeOK, NoBr
<1>2. flag' \in [Brs -> {TRUE, FALSE, NULL}]
  BY Zenon DEF BackendReqFree, TypeOK
<1>3. /\ \A x \in Brs \ {b} : flag'[x] = flag[x] /\ br'[x] = br[x]
      /\ flag'[b] = NULL /\ br'[b] = NoBr
  BY DEF BackendReqFree, TypeOK
<1>4. \A c \in Conns : priv'[c] = IF c = br[b].conn THEN NULL ELSE priv[c]
  BY DEF BackendReqFree, TypeOK
<1>5. priv' \in [Conns -> Brs \cup {NULL}]
  BY DEF BackendReqFree, TypeOK
<1> QED
  BY <1>1, <1>2, <1>3, <1>4, <1>5, Zenon

\* The request b ends, whether or not its client gets an answer.
LEMMA FreeStep ==
    ASSUME Core, NEW b \in Brs, NEW l, Taken(l), UNCHANGED outside,
           \/ CallbackReplies(BackendForgets(l, b), b)
           \/ /\ el' = BackendForgets(l, b) /\ BackendReqFree(b)
              /\ UNCHANGED <<client, replies, stray, pipelined>>
    PROVE  Core'
<1> USE DEF Core
<1> DEFINE m == BackendForgets(l, b)
<1>1. /\ Good(m) /\ m.io = [el.io EXCEPT ![b] = LOOP!NoIo]
      /\ m.timer = [el.timer EXCEPT ![b] = LOOP!NoTimer]
  <2>1. Good(l) /\ l.io = el.io /\ l.timer = el.timer /\ b \in Tm
    BY DEF Taken, Tm
  <2> QED
    BY <2>1, ForgetFacts, SMTT(30) DEF BackendForgets
<1>2. el.io \in [Io -> IoState] /\ el.timer \in [Tm -> TimerState]
  BY LoopFields, Zenon DEF Good
<1>3. SameForConns(m)
  BY <1>1, <1>2, Zenon DEF SameForConns, Io, Tm
<1>4. /\ \A x \in Brs \ {b} : m.io[x] = el.io[x] /\ m.timer[x] = el.timer[x]
      /\ m.io[b] = LOOP!NoIo /\ m.timer[b] = LOOP!NoTimer
  BY <1>1, <1>2, Zenon DEF Io, Tm
<1>5. /\ BackendReqFree(b) /\ UNCHANGED <<client, pipelined>>
      /\ \/ flag[b] = TRUE /\ AddReply(m, br[b].conn, br[b].req)
         \/ el' = m /\ UNCHANGED <<replies, stray>>
  BY DEF CallbackReplies
<1> DEFINE c == br[b].conn
           r == br[b].req
<1> HIDE DEF m
<1>6. /\ Good(el') /\ el'.timer = m.timer
      /\ \A x \in Brs : el'.io[x] = m.io[x]
      /\ ConnsWatched'
      /\ replies' \in [Conns -> Seq(Nat)]
      /\ \A d \in Conns :
            \/ replies'[d] = replies[d]
            \/ /\ flag[b] = TRUE /\ d = c /\ Open(c)
               /\ replies'[d] = Append(replies[d], r)
      /\ ~(flag[b] = TRUE /\ ~Open(c)) => stray' = stray
  <2>1. CASE flag[b] = TRUE /\ AddReply(m, c, r)
    <3>1. c \in Conns /\ r \in Nat
      BY <2>1 DEF Marked, TypeOK
    <3> HIDE DEF c, r
    <3>2. /\ Good(el') /\ el'.timer = m.timer
          /\ \A x \in Brs : el'.io[x] = m.io[x]
          /\ ConnsWatched'
          /\ replies' \in [Conns -> Seq(Nat)]
          /\ \A d \in Conns :
                \/ replies'[d] = replies[d]
                \/ d = c /\ Open(c) /\ replies'[d] = Append(replies[d], r)
          /\ Open(c) => stray' = stray
      BY <1>1, <1>3, <1>5, <2>1, <3>1, AddReplyFacts, Zenon
    <3> QED
      BY <2>1, <3>2, Zenon
  <2>2. CASE el' = m /\ UNCHANGED <<replies, stray>>
    <3>1. ConnsWatched'
      BY <1>1, <1>3, <1>5, <2>2, UnrepliedFacts, Zenon
    <3> QED
      BY <1>1, <2>2, <3>1, Zenon DEF TypeOK
  <2> QED
    BY <1>5, <2>1, <2>2, Zenon
<1>7. /\ priv' \in [Conns -> Brs \cup {NULL}]
      /\ br' \in [Brs -> [conn : Conns \cup {NULL}, req : Nat]]
      /\ flag' \in [Brs -> {TRUE, FALSE, NULL}]
      /\ \A x \in Brs \ {b} : flag'[x] = flag[x] /\ br'[x] = br[x]
      /\ flag'[b] = NULL /\ br'[b] = NoBr
      /\ \A d \in Conns : priv'[d] = IF d = br[b].conn THEN NULL ELSE priv[d]
  BY <1>5, FreeFacts, Zenon
<1>8. TypeOK'
  BY <1>5, <1>6, <1>7, Zenon DEF TypeOK, outside
<1>9. BrsWatched'
  <2> SUFFICES ASSUME NEW x \in Brs
               PROVE  /\ flag'[x] # NULL <=> el'.timer[x].alive
                      /\ flag'[x] # NULL <=> el'.io[x].alive
    BY Zenon DEF BrsWatched, Live
  <2>1. CASE x = b
    <3>1. ~LOOP!NoIo.alive /\ ~LOOP!NoTimer.alive
      BY DEF LOOP!NoIo, LOOP!NoTimer
    <3> QED
      BY <1>4, <1>6, <1>7, <2>1, <3>1, Zenon
  <2>2. CASE x # b
    <3>1. flag'[x] = flag[x] /\ el'.timer[x] = el.timer[x] /\ el'.io[x] = el.io[x]
      BY <1>4, <1>6, <1>7, <2>2, Zenon
    <3> QED
      BY <3>1, Zenon DEF BrsWatched, Live
  <2> QED
    BY <2>1, <2>2, Zenon
<1>10. PrivMatches'
  <2> SUFFICES ASSUME NEW d \in Conns, priv'[d] # NULL
               PROVE  flag'[priv'[d]] = TRUE /\ br'[priv'[d]].conn = d
    BY Zenon DEF PrivMatches
  <2>1. d # br[b].conn /\ priv'[d] = priv[d] /\ priv[d] \in Brs
    BY <1>7 DEF TypeOK
  <2>2. flag[priv[d]] = TRUE /\ br[priv[d]].conn = d
    BY <2>1, Zenon DEF PrivMatches
  <2> QED
    BY <1>7, <2>1, <2>2, Zenon
<1>11. Marked'
  <2>1. \A d \in Conns : client[d] = 0 => replies'[d] = <<>>
    BY <1>6, Zenon DEF Marked, Open
  <2>2. \A x \in Brs : /\ flag'[x] = TRUE <=> br'[x].conn \in Conns
                       /\ flag'[x] = TRUE => br'[x].req # 0
    <3>1. NoBr.conn \notin Conns /\ NULL # TRUE
      BY Zenon DEF NoBr
    <3> QED
      BY <1>7, <3>1, Zenon DEF Marked
  <2> QED
    BY <1>5, <2>1, <2>2, Zenon DEF Marked, Open
<1>12. Owned'
  <2> SUFFICES ASSUME ~pipelined, NEW x \in Brs, flag'[x] = TRUE
               PROVE  /\ client[br'[x].conn] # 0 /\ priv'[br'[x].conn] = x
                      /\ sent[br'[x].req] = client[br'[x].conn]
    BY <1>5, Zenon DEF Owned, Open, outside
  <2>1. x # b /\ flag[x] = TRUE /\ br'[x] = br[x]
    BY <1>7, Zenon
  <2>2. /\ br[x].conn \in Conns /\ client[br[x].conn] # 0
        /\ priv[br[x].conn] = x /\ sent[br[x].req] = client[br[x].conn]
    BY <2>1, Zenon DEF Owned, Marked, Open
  <2>3. br[x].conn # br[b].conn
    <3> SUFFICES ASSUME br[x].conn = br[b].conn PROVE FALSE
      OBVIOUS
    <3>1. flag[b] = TRUE
      BY <2>2, Zenon DEF Marked
    <3>2. priv[br[b].conn] = b
      BY <3>1, Zenon DEF Owned
    <3> QED
      BY <2>1, <2>2, <3>2, Zenon
  <2> QED
    BY <1>7, <2>1, <2>2, <2>3, Zenon
<1> HIDE DEF c, r
<1>13. flag[b] = TRUE => /\ c \in Conns /\ r \in 1 .. Len(sent)
                         /\ ~pipelined => Open(c) /\ sent[r] = client[c]
  BY DEF Marked, Owned, Known, TypeOK, c, r
<1>14. Known'
  <2>1. \A d \in Conns : \A i \in 1 .. Len(replies'[d]) :
           replies'[d][i] \in 1 .. Len(sent)
    <3> SUFFICES ASSUME NEW d \in Conns, NEW i \in 1 .. Len(replies'[d])
                 PROVE  replies'[d][i] \in 1 .. Len(sent)
      BY Zenon
    <3>1. CASE replies'[d] = replies[d]
      BY <3>1, Zenon DEF Known
    <3>2. CASE flag[b] = TRUE /\ d = c /\ replies'[d] = Append(replies[d], r)
      BY <1>13, <3>2, AppendedItems DEF Known, TypeOK
    <3> QED
      BY <1>6, <3>1, <3>2, Zenon
  <2>2. \A x \in Brs : br'[x].req \in 0 .. Len(sent)
    BY <1>7 DEF Known, NoBr, TypeOK
  <2> QED
    BY <2>1, <2>2, Zenon DEF Known, outside
<1>15. AnswersOwnClient'
  <2> SUFFICES ASSUME ~pipelined
               PROVE  /\ stray' = {}
                      /\ \A d \in Conns : \A i \in 1 .. Len(replies'[d]) :
                            sent[replies'[d][i]] = client[d]
    BY <1>5, Zenon DEF AnswersOwnClient, outside
  <2>1. stray' = {}
    BY <1>6, <1>13, Zenon DEF AnswersOwnClient
  <2>2. \A d \in Conns : \A i \in 1 .. Len(replies'[d]) :
           sent[replies'[d][i]] = client[d]
    <3> SUFFICES ASSUME NEW d \in Conns, NEW i \in 1 .. Len(replies'[d])
                 PROVE  sent[replies'[d][i]] = client[d]
      BY Zenon
    <3>1. CASE replies'[d] = replies[d]
      BY <3>1, Zenon DEF AnswersOwnClient
    <3>2. CASE flag[b] = TRUE /\ d = c /\ replies'[d] = Append(replies[d], r)
      <4>1. replies[d] \in Seq(Nat) /\ r \in Nat
        BY <1>13, <3>2 DEF TypeOK
      <4>2. CASE i \in 1 .. Len(replies[d]) /\ replies'[d][i] = replies[d][i]
        BY <4>2, Zenon DEF AnswersOwnClient
      <4>3. CASE replies'[d][i] = r
        BY <1>13, <3>2, <4>3, Zenon
      <4> QED
        BY <3>2, <4>1, <4>2, <4>3, AppendedItems
    <3> QED
      BY <1>6, <3>1, <3>2, Zenon
  <2> QED
    BY <2>1, <2>2, Zenon
<1> QED
  BY <1>6, <1>8, <1>9, <1>10, <1>11, <1>12, <1>14, <1>15, Zenon

\* A step of the loop alone.
LEMMA LoopOnlyStep ==
    ASSUME Core, Good(el'), el'.io = el.io,
           \A b \in Brs : el'.timer[b].alive = el.timer[b].alive,
           \A c \in Conns : el'.timer[c] = el.timer[c],
           UNCHANGED <<objects, outside>>
    PROVE  Core'
<1> USE DEF Core, objects, outside
<1>1. TypeOK' /\ Known'
  BY Zenon DEF TypeOK, Known
<1>2. Marked' /\ Owned'
  BY Zenon DEF Marked, Owned, Open
<1>3. ConnsWatched'
  BY Zenon DEF ConnsWatched, Open, Watched
<1>4. BrsWatched'
  BY Zenon DEF BrsWatched, Live
<1>5. PrivMatches' /\ AnswersOwnClient'
  BY Zenon DEF PrivMatches, AnswersOwnClient
<1> QED
  BY <1>1, <1>2, <1>3, <1>4, <1>5, Zenon

\* Taking a callback changes no watcher.
LEMMA TakenFacts ==
    ASSUME Core, NEW p
    PROVE  Taken(LOOP!TakePending(el, p))
BY TakeFacts DEF Core, Taken

\* A callback that does nothing else.
LEMMA TakeStep ==
    ASSUME Core, NEW l, Taken(l), el' = l, UNCHANGED <<objects, outside>>
    PROVE  Core'
BY LoopOnlyStep DEF Taken

\* The invariant and its part about the callback being made.
LEMMA IInvIsCore == IInv <=> Core /\ Inside
BY DEF IInv, Core

\* While no callback is being made there is nothing to keep about it.
LEMMA OutsideCallback ==
    ASSUME current = NULL, UNCHANGED current
    PROVE  Inside'
BY DEF Inside

\* A turn of the loop collects callbacks for active watchers.
LEMMA StepPoll ==
    ASSUME IInv, SomePoll
    PROVE  IInv'
<1> PICK writable \in SUBSET {c \in Conns : "WRITE" \in el.io[c].events},
         answering \in SUBSET {b \in Brs : el.io[b].active},
         expired \in SUBSET {t \in Conns \cup Brs : el.timer[t].active} :
            Poll(writable, answering, expired)
  BY DEF SomePoll
<1> DEFINE ready == [w \in Conns \cup Brs \cup {Pipe} |->
                       {e \in {"READ"} : Readable(w) \/ w \in answering}
                       \cup {e \in {"WRITE"} : w \in writable}]
<1>1. ready \in [Io -> Masks]
  BY DEF Io, Masks
<1>2. expired \in SUBSET Tm
  BY DEF Tm
<1>3. el' = LOOP!PollLoop(el, ready, expired)
  BY Zenon DEF Poll
<1> HIDE DEF ready
<1>4. /\ Good(el') /\ el'.io = el.io
      /\ \A t \in Tm : el'.timer[t].alive = el.timer[t].alive
      /\ \A c \in Conns : el'.timer[c] = el.timer[c]
  BY <1>1, <1>2, <1>3, PollFacts DEF IInv
<1>5. Core'
  BY <1>4, LoopOnlyStep, IInvIsCore, Zenon DEF Poll, Tm
<1>6. Inside'
  BY OutsideCallback, Zenon DEF Poll
<1> QED
  BY <1>5, <1>6, Zenon DEF IInv, Core

\* The idle timer.
LEMMA StepTimeout ==
    ASSUME IInv, NEW c \in Conns, TimeoutCallback(c)
    PROVE  IInv'
<1> PICK p \in el.pending :
         /\ Due("timer", c, p)
         /\ \/ RemoveConn(LOOP!TakePending(el, p), c)
            \/ el' = LOOP!TakePending(el, p) /\ UNCHANGED objects
         /\ UNCHANGED <<current, outside, ended>>
  BY Zenon DEF TimeoutCallback
<1>1. Core /\ Taken(LOOP!TakePending(el, p))
  BY IInvIsCore, TakenFacts, Zenon
<1>2. Core'
  BY <1>1, RemoveConnStep, TakeStep
<1>3. Inside'
  BY OutsideCallback DEF Due
<1> QED
  BY <1>2, <1>3, Zenon DEF IInv, Core

\* Here a callback begins: its watcher is active, so the connection is open.
LEMMA StepConnCallback ==
    ASSUME IInv, NEW c \in Conns, ConnCallback(c)
    PROVE  IInv'
<1> PICK p \in el.pending :
         /\ Due("io", c, p) /\ current' = p /\ el' = LOOP!TakePending(el, p)
         /\ UNCHANGED <<objects, outside, ended>>
  BY DEF ConnCallback
<1>1. Core /\ Taken(LOOP!TakePending(el, p))
  BY IInvIsCore, TakenFacts, Zenon
<1>2. Core'
  BY <1>1, TakeStep
<1>3. el.io[c].active /\ p \in Callbacks /\ p.watcher = c
  BY LoopFields, Zenon DEF IInv, Good, Due
<1>4. Open(c)
  <2>1. ~LOOP!NoIo.active
    BY Zenon DEF LOOP!NoIo
  <2> QED
    BY <1>3, <2>1, Zenon DEF IInv, ConnsWatched
<1>5. Inside'
  BY <1>3, <1>4, Zenon DEF Inside, Open, objects
<1> QED
  BY <1>2, <1>5, Zenon DEF IInv, Core

\* The three ways a request to the backend ends.
LEMMA StepBackend ==
    ASSUME IInv, NEW b \in Brs,
           BackendAnswers(b) \/ BackendTimesOut(b) \/ BackendFails(b)
    PROVE  IInv'
<1> PICK p \in el.pending :
         LET l == LOOP!TakePending(el, p)
         IN  /\ current = NULL
             /\ \/ CallbackReplies(BackendForgets(l, b), b)
                \/ /\ el' = BackendForgets(l, b) /\ BackendReqFree(b)
                   /\ UNCHANGED <<client, replies, stray, pipelined>>
             /\ UNCHANGED <<current, outside>>
  BY Zenon DEF BackendAnswers, BackendTimesOut, BackendFails, Due
<1>1. Core /\ Taken(LOOP!TakePending(el, p))
  BY IInvIsCore, TakenFacts, Zenon
<1>2. Core'
  BY <1>1, FreeStep, Zenon
<1>3. Inside'
  BY OutsideCallback, Zenon
<1> QED
  BY <1>2, <1>3, Zenon DEF IInv, Core

\* read_io() takes a request of the client the connection belongs to.
LEMMA ReadFacts ==
    ASSUME IInv, NEW c \in Conns, InCallback(c, "READ"), unread[client[c]] # <<>>,
           unread' = [unread EXCEPT ![client[c]] = Tail(@)]
    PROVE  /\ Open(c) /\ client[c] \in Clients
           /\ Head(unread[client[c]]) \in 1 .. Len(sent)
           /\ sent[Head(unread[client[c]])] = client[c]
           /\ unread' \in [Clients -> Seq(Nat)]
           /\ \A k \in Clients : \A i \in 1 .. Len(unread'[k]) :
                 unread'[k][i] \in 1 .. Len(sent) /\ sent[unread'[k][i]] = k
<1>1. Open(c)
  BY DEF IInv, Inside, InCallback
<1>2. client[c] \in Clients
  BY <1>1 DEF IInv, TypeOK, Open
<1> DEFINE k == client[c]
           u == unread[k]
<1>3. u \in Seq(Nat) /\ u # <<>> /\ Len(u) \in Nat \ {0}
  BY <1>2 DEF IInv, TypeOK
<1>4. Head(u) = u[1] /\ 1 \in 1 .. Len(u)
  BY <1>3
<1>5. Head(u) \in 1 .. Len(sent) /\ sent[Head(u)] = k
  BY <1>2, <1>4 DEF IInv, Known
<1>6. unread' \in [Clients -> Seq(Nat)]
  BY <1>2, <1>3 DEF IInv, TypeOK
<1>7. \A j \in Clients : unread'[j] = IF j = k THEN Tail(u) ELSE unread[j]
  BY <1>2, Zenon DEF IInv, TypeOK
<1>8. \A i \in 1 .. Len(Tail(u)) : i + 1 \in 1 .. Len(u) /\ Tail(u)[i] = u[i + 1]
  BY <1>3
<1>9. ASSUME NEW j \in Clients, NEW i \in 1 .. Len(unread'[j])
      PROVE  unread'[j][i] \in 1 .. Len(sent) /\ sent[unread'[j][i]] = j
  <2>1. CASE j = k
    BY <1>2, <1>7, <1>8, <2>1 DEF IInv, Known
  <2>2. CASE j # k
    BY <1>7, <2>2, Zenon DEF IInv, Known
  <2> QED
    BY <2>1, <2>2, Zenon
<1> QED
  BY <1>1, <1>2, <1>5, <1>6, <1>9, Zenon

\* A request comes and goes to the backend.
LEMMA StepReadRequest ==
    ASSUME IInv, NEW c \in Conns, NEW b \in Brs, ReadRequest(c, b)
    PROVE  IInv'
<1> DEFINE r == Head(unread[client[c]])
           new == [conn |-> c, req |-> r]
<1> USE DEF IInv
<1>1. /\ InCallback(c, "READ") /\ ~Live(b) /\ el' = HttpGet(el, b)
      /\ br' = [br EXCEPT ![b] = new] /\ flag' = [flag EXCEPT ![b] = TRUE]
      /\ priv' = [priv EXCEPT ![c] = b]
      /\ pipelined' = (pipelined \/ HasInFlight(c))
      /\ UNCHANGED <<client, replies, stray, dispatched, taken, sent>>
      /\ Did("READ")
  BY Zenon DEF ReadRequest
<1>2. /\ Open(c) /\ client[c] \in Clients
      /\ r \in 1 .. Len(sent) /\ sent[r] = client[c]
      /\ unread' \in [Clients -> Seq(Nat)]
      /\ \A k \in Clients : \A i \in 1 .. Len(unread'[k]) :
            unread'[k][i] \in 1 .. Len(sent) /\ sent[unread'[k][i]] = k
  BY ReadFacts, Zenon DEF ReadRequest
<1> HIDE DEF r
<1> DEFINE io == [alive |-> TRUE, active |-> TRUE, events |-> {"READ"}]
           tm == [alive |-> TRUE, active |-> TRUE]
<1>3. /\ Good(el') /\ el'.io = [el.io EXCEPT ![b] = io]
      /\ el'.timer = [el.timer EXCEPT ![b] = tm]
  <2>1. b \in Tm /\ b \in Io
    BY DEF Tm, Io
  <2>2. ~el.io[b].active
    BY <1>1, <2>1, Zenon DEF BrsWatched, Good
  <2> QED
    BY <1>1, <2>1, <2>2, NewWatchersFacts, Zenon DEF HttpGet
<1>4. el.io \in [Io -> IoState] /\ el.timer \in [Tm -> TimerState]
  BY LoopFields, Zenon DEF Good
<1>5. /\ \A x \in Tm \ {b} : el'.io[x] = el.io[x] /\ el'.timer[x] = el.timer[x]
      /\ el'.io[b] = io /\ el'.timer[b] = tm
  BY <1>3, <1>4, Zenon DEF Io, Tm
<1>6. ConnsWatched'
  <2>1. \A d \in Conns : el'.io[d] = el.io[d] /\ el'.timer[d] = el.timer[d]
    BY <1>5, Zenon DEF Tm
  <2> QED
    BY <1>1, <2>1, Zenon DEF ConnsWatched, Open, Watched
<1>7. /\ \A x \in Brs \ {b} : flag'[x] = flag[x] /\ br'[x] = br[x]
      /\ flag'[b] = TRUE /\ br'[b] = new
      /\ \A d \in Conns : priv'[d] = IF d = c THEN b ELSE priv[d]
  BY <1>1, Zenon DEF TypeOK
<1>8. BrsWatched'
  <2> SUFFICES ASSUME NEW x \in Brs
               PROVE  /\ flag'[x] # NULL <=> el'.timer[x].alive
                      /\ flag'[x] # NULL <=> el'.io[x].alive
    BY DEF BrsWatched, Live
  <2>1. CASE x = b
    <3>1. flag'[b] # NULL
      BY <1>7, Zenon
    <3>2. el'.timer[b].alive /\ el'.io[b].alive
      BY <1>5
    <3> QED
      BY <2>1, <3>1, <3>2
  <2>2. CASE x # b
    BY <1>5, <1>7, <2>2, Zenon DEF BrsWatched, Live, Tm
  <2> QED
    BY <2>1, <2>2, Zenon
<1>9. TypeOK'
  <2>1. br' \in [Brs -> [conn : Conns \cup {NULL}, req : Nat]]
    <3>1. new \in [conn : Conns \cup {NULL}, req : Nat]
      BY <1>2 DEF TypeOK
    <3> QED
      BY <1>1, <3>1, Zenon DEF TypeOK
  <2>2. flag' \in [Brs -> {TRUE, FALSE, NULL}]
    BY <1>1, Zenon DEF TypeOK
  <2>3. priv' \in [Conns -> Brs \cup {NULL}]
    BY <1>1, Zenon DEF TypeOK
  <2>4. pipelined' \in BOOLEAN
    BY <1>1
  <2> QED
    BY <1>1, <1>2, <2>1, <2>2, <2>3, <2>4, Zenon DEF TypeOK
<1>10. Known'
  <2>1. \A x \in Brs : br[x].req \in 0 .. Len(sent)
    BY Zenon DEF Known
  <2> HIDE DEF IInv
  <2>2. \A x \in Brs : br'[x].req \in 0 .. Len(sent)
    <3>1. r \in 0 .. Len(sent) /\ new.req = r
      BY <1>2
    <3> HIDE DEF new
    <3> QED
      BY <1>7, <2>1, <3>1, Zenon
  <2> USE DEF IInv
  <2> QED
    BY <1>1, <1>2, <2>2, Zenon DEF Known
<1>11. Marked'
  <2>1. \A x \in Brs : /\ flag'[x] = TRUE <=> br'[x].conn \in Conns
                       /\ flag'[x] = TRUE => br'[x].req # 0
    <3>1. \A x \in Brs : /\ flag[x] = TRUE <=> br[x].conn \in Conns
                         /\ flag[x] = TRUE => br[x].req # 0
      BY Zenon DEF Marked
    <3> HIDE DEF IInv
    <3> QED
      BY <1>2, <1>7, <3>1
  <2> QED
    BY <1>1, <2>1, Zenon DEF Marked, Open
<1>12. PrivMatches'
  <2> SUFFICES ASSUME NEW d \in Conns, priv'[d] # NULL
               PROVE  flag'[priv'[d]] = TRUE /\ br'[priv'[d]].conn = d
    BY Zenon DEF PrivMatches
  <2>1. CASE d = c
    BY <1>7, <2>1
  <2>2. CASE d # c
    <3>1. /\ priv'[d] = priv[d] /\ priv[d] \in Brs
          /\ flag[priv[d]] = TRUE /\ br[priv[d]].conn = d
      BY <1>7, <2>2 DEF PrivMatches, TypeOK
    <3>2. priv[d] # b
      BY <1>1, <3>1, Zenon DEF Live
    <3> HIDE DEF IInv
    <3> QED
      BY <1>7, <3>1, <3>2
  <2> QED
    BY <2>1, <2>2, Zenon
<1>13. Owned'
  <2> SUFFICES ASSUME ~pipelined', NEW x \in Brs, flag'[x] = TRUE
               PROVE  /\ client[br'[x].conn] # 0 /\ priv'[br'[x].conn] = x
                      /\ sent[br'[x].req] = client[br'[x].conn]
    BY <1>1, ZenonT(60) DEF Owned, Open
  <2>1. CASE x = b
    BY <1>2, <1>7, <2>1 DEF Open
  <2>2. CASE x # b
    <3>1. ~pipelined /\ ~HasInFlight(c)
      BY <1>1, Zenon
    <3>2. flag[x] = TRUE /\ br'[x] = br[x] /\ br[x].conn # c
      BY <1>7, <2>2, <3>1, Zenon DEF HasInFlight, Live
    <3>3. /\ br[x].conn \in Conns /\ client[br[x].conn] # 0
          /\ priv[br[x].conn] = x /\ sent[br[x].req] = client[br[x].conn]
      BY <3>1, <3>2, Zenon DEF Owned, Marked, Open
    <3> QED
      BY <1>7, <3>2, <3>3
  <2> QED
    BY <2>1, <2>2, Zenon
<1>14. AnswersOwnClient'
  BY <1>1, Zenon DEF AnswersOwnClient
<1>15. Inside'
  BY <1>1, DidFacts, Zenon
<1> QED
  BY <1>3, <1>6, <1>8, <1>9, <1>10, <1>11, <1>12, <1>13, <1>14, <1>15, Zenon

\* A request that the HTTP client refuses is answered at once.
LEMMA StepReadRequestFails ==
    ASSUME IInv, NEW c \in Conns, ReadRequestFails(c)
    PROVE  IInv'
<1> DEFINE r == Head(unread[client[c]])
<1> USE DEF IInv
<1>1. /\ InCallback(c, "READ") /\ AddReply(el, c, r)
      /\ priv' = [priv EXCEPT ![c] = NULL]
      /\ pipelined' = (pipelined \/ HasInFlight(c))
      /\ UNCHANGED <<client, br, flag, dispatched, taken, sent>>
      /\ Did("READ")
  BY DEF ReadRequestFails
<1>2. /\ Open(c) /\ client[c] \in Clients
      /\ r \in 1 .. Len(sent) /\ sent[r] = client[c]
      /\ unread' \in [Clients -> Seq(Nat)]
      /\ \A k \in Clients : \A i \in 1 .. Len(unread'[k]) :
            unread'[k][i] \in 1 .. Len(sent) /\ sent[unread'[k][i]] = k
  BY ReadFacts, Zenon DEF ReadRequestFails
<1> HIDE DEF r
<1>3. r \in Nat
  BY <1>2 DEF TypeOK
<1>4. /\ Good(el') /\ el'.timer = el.timer
      /\ \A b \in Brs : el'.io[b] = el.io[b]
      /\ ConnsWatched'
      /\ replies' \in [Conns -> Seq(Nat)]
      /\ \A d \in Conns :
            \/ replies'[d] = replies[d]
            \/ d = c /\ Open(c) /\ replies'[d] = Append(replies[d], r)
      /\ stray' = stray
  <2>1. SameForConns(el)
    BY Zenon DEF SameForConns
  <2>2. /\ TypeOK /\ Marked /\ ConnsWatched /\ Good(el)
        /\ AddReply(el, c, r) /\ UNCHANGED client
    BY <1>1, Zenon
  <2> HIDE DEF IInv
  <2>3. /\ Good(el') /\ el'.timer = el.timer
        /\ \A b \in Brs : el'.io[b] = el.io[b]
        /\ ConnsWatched'
        /\ replies' \in [Conns -> Seq(Nat)]
        /\ \A d \in Conns :
              \/ replies'[d] = replies[d]
              \/ d = c /\ Open(c) /\ replies'[d] = Append(replies[d], r)
        /\ Open(c) => stray' = stray
    BY <1>3, <2>1, <2>2, AddReplyFacts, Zenon
  <2> QED
    BY <1>2, <2>3, Zenon
<1>5. \A d \in Conns : priv'[d] = IF d = c THEN NULL ELSE priv[d]
  BY <1>1 DEF TypeOK
<1>6. BrsWatched'
  BY <1>1, <1>4, Zenon DEF BrsWatched, Live
<1>7. TypeOK'
  <2>1. priv' \in [Conns -> Brs \cup {NULL}]
    BY <1>1, Zenon DEF TypeOK
  <2>2. pipelined' \in BOOLEAN
    BY <1>1
  <2> QED
    BY <1>1, <1>2, <1>4, <2>1, <2>2, Zenon DEF TypeOK
<1>8. ASSUME NEW d \in Conns, NEW i \in 1 .. Len(replies'[d])
      PROVE  \/ i \in 1 .. Len(replies[d]) /\ replies'[d][i] = replies[d][i]
             \/ d = c /\ replies'[d][i] = r
  <2>1. CASE replies'[d] = replies[d]
    BY <2>1
  <2>2. CASE d = c /\ replies'[d] = Append(replies[d], r)
    <3>1. replies[d] \in Seq(Nat)
      BY DEF TypeOK
    <3> QED
      BY <1>3, <2>2, <3>1, AppendedItems
  <2> QED
    BY <1>4, <2>1, <2>2, Zenon
<1>9. Known'
  <2>1. \A d \in Conns : \A i \in 1 .. Len(replies'[d]) :
           replies'[d][i] \in 1 .. Len(sent)
    <3> SUFFICES ASSUME NEW d \in Conns, NEW i \in 1 .. Len(replies'[d])
                 PROVE  replies'[d][i] \in 1 .. Len(sent)
      OBVIOUS
    <3>1. CASE i \in 1 .. Len(replies[d]) /\ replies'[d][i] = replies[d][i]
      BY <3>1, Zenon DEF Known
    <3> QED
      BY <1>2, <1>8, <3>1, Zenon
  <2> QED
    BY <1>1, <1>2, <2>1, Zenon DEF Known
<1>10. Marked'
  BY <1>1, <1>4, Zenon DEF Marked, Open
<1>11. PrivMatches'
  BY <1>1, <1>5 DEF PrivMatches
<1>12. Owned'
  <2> SUFFICES ASSUME ~pipelined', NEW x \in Brs, flag[x] = TRUE
               PROVE  /\ client[br[x].conn] # 0 /\ priv'[br[x].conn] = x
                      /\ sent[br[x].req] = client[br[x].conn]
    BY <1>1, Zenon DEF Owned, Open
  <2>1. ~pipelined /\ ~HasInFlight(c)
    BY <1>1, Zenon
  <2>2. br[x].conn # c
    BY <2>1, Zenon DEF HasInFlight, Live
  <2>3. /\ br[x].conn \in Conns /\ client[br[x].conn] # 0
        /\ priv[br[x].conn] = x /\ sent[br[x].req] = client[br[x].conn]
    BY <2>1, Zenon DEF Owned, Marked, Open
  <2> QED
    BY <1>5, <2>2, <2>3
<1>13. AnswersOwnClient'
  <2> SUFFICES ASSUME ~pipelined
               PROVE  /\ stray' = {}
                      /\ \A d \in Conns : \A i \in 1 .. Len(replies'[d]) :
                            sent[replies'[d][i]] = client[d]
    BY <1>1, Zenon DEF AnswersOwnClient
  <2>1. stray' = {}
    BY <1>4, Zenon DEF AnswersOwnClient
  <2>2. \A d \in Conns : \A i \in 1 .. Len(replies'[d]) :
           sent[replies'[d][i]] = client[d]
    <3> SUFFICES ASSUME NEW d \in Conns, NEW i \in 1 .. Len(replies'[d])
                 PROVE  sent[replies'[d][i]] = client[d]
      OBVIOUS
    <3>1. CASE i \in 1 .. Len(replies[d]) /\ replies'[d][i] = replies[d][i]
      BY <3>1, Zenon DEF AnswersOwnClient
    <3> QED
      BY <1>2, <1>8, <3>1, Zenon
  <2> QED
    BY <2>1, <2>2
<1>14. Inside'
  BY <1>1, DidFacts, Zenon
<1> QED
  BY <1>4, <1>6, <1>7, <1>9, <1>10, <1>11, <1>12, <1>13, <1>14, Zenon

\* A callback that closes its connection, or finds it closed.
LEMMA StepCloses ==
    ASSUME IInv, NEW c \in Conns, ReadCloses(c) \/ WriteCloses(c) \/ WriteNobody(c)
    PROVE  IInv'
<1>1. Core /\ Taken(el)
  BY DEF IInv, Core, Taken
<1>2. Core'
  <2>1. CASE RemoveConn(el, c) /\ UNCHANGED outside
    BY <1>1, <2>1, RemoveConnStep
  <2>2. CASE UNCHANGED <<el, objects, outside>>
    BY <1>1, <2>2, LoopOnlyStep, Zenon DEF Core
  <2> QED
    BY <2>1, <2>2, Zenon DEF ReadCloses, WriteCloses, WriteNobody
<1>3. Inside'
  BY DidFacts, Zenon DEF IInv, ReadCloses, WriteCloses, WriteNobody
<1> QED
  BY <1>2, <1>3 DEF IInv, Core

\* Replies are written.
LEMMA StepWriteIo ==
    ASSUME IInv, NEW c \in Conns, WriteIo(c)
    PROVE  IInv'
<1> USE DEF IInv
<1>0. PICK n \in {i \in 0 .. Len(replies[c]) : i > 0 \/ replies[c] = <<>>} :
           /\ replies' = [replies EXCEPT ![c] = SubSeq(@, n + 1, Len(@))]
           /\ el' = IF n = Len(replies[c]) THEN LOOP!StopIoEvent(el, c, {"WRITE"})
                    ELSE el
  BY Zenon DEF WriteIo
<1>1. /\ InCallback(c, "WRITE") /\ "READ" \notin current.revents /\ Open(c)
      /\ Did("WRITE")
      /\ UNCHANGED <<client, priv, br, flag, stray, pipelined, outside>>
  BY Zenon DEF WriteIo
<1> DEFINE q == replies[c]
           rest == SubSeq(q, n + 1, Len(q))
<1>2. q \in Seq(Nat) /\ Len(q) \in Nat /\ n \in 0 .. Len(q)
  <2>1. q \in Seq(Nat)
    BY Zenon DEF TypeOK
  <2> HIDE DEF IInv
  <2> QED
    BY <2>1
<1>3. /\ rest \in Seq(Nat) /\ Len(rest) = Len(q) - n
      /\ \A i \in 1 .. Len(rest) : i + n \in 1 .. Len(q) /\ rest[i] = q[i + n]
  <2> HIDE DEF IInv, q
  <2> QED
    BY <1>2
<1>4. /\ replies' \in [Conns -> Seq(Nat)]
      /\ \A d \in Conns : replies'[d] = IF d = c THEN rest ELSE replies[d]
  BY <1>0, <1>3, Zenon DEF TypeOK
<1>5. \A d \in Conns : \A i \in 1 .. Len(replies'[d]) :
         \E j \in 1 .. Len(replies[d]) : replies'[d][i] = replies[d][j]
  <2> HIDE DEF IInv, rest
  <2> TAKE d \in Conns
  <2> TAKE i \in 1 .. Len(replies'[d])
  <2>1. CASE d = c
    <3>1. i + n \in 1 .. Len(replies[d]) /\ replies'[d][i] = replies[d][i + n]
      BY <1>3, <1>4, <2>1, Zenon
    <3> QED
      BY <3>1, Zenon
  <2>2. CASE d # c
    BY <1>4, <2>2, Zenon
  <2> QED
    BY <2>1, <2>2, Zenon
<1> HIDE DEF q, rest
<1>6. el.io[c] = [alive |-> TRUE, active |-> TRUE, events |-> Watched(c)]
      /\ el.timer[c].active
  BY <1>1, Zenon DEF ConnsWatched
<1>7. /\ Good(el') /\ el'.timer = el.timer
      /\ \A w \in Io \ {c} : el'.io[w] = el.io[w]
      /\ el'.io[c] = [alive |-> TRUE, active |-> TRUE, events |-> Watched(c)']
  <2>1. el.io \in [Io -> IoState] /\ c \in Io
    BY LoopFields, Zenon DEF Good, Io
  <2>2. CASE n = Len(replies[c])
    <3>1. el.io[c].active /\ "READ" \in el.io[c].events
      BY <1>6 DEF Watched
    <3>2. /\ Good(el')
          /\ IoSet(el, el', c, [alive |-> TRUE, active |-> TRUE, events |-> {"READ"}])
      BY <1>0, <2>1, <2>2, <3>1, StopIoFacts, Zenon
    <3>3. replies'[c] = <<>>
      BY <1>2, <1>3, <1>4, <2>2 DEF q
    <3>4. Watched(c)' = {"READ"}
      BY <3>3 DEF Watched
    <3> QED
      BY <2>1, <3>2, <3>4, Zenon DEF IoSet
  <2>3. CASE n # Len(replies[c])
    <3>1. replies'[c] # <<>> /\ replies[c] # <<>>
      <4>1. n < Len(q) /\ Len(rest) > 0
        BY <1>2, <1>3, <2>3 DEF q
      <4>2. q # <<>> /\ rest # <<>>
        BY <1>2, <1>3, <4>1
      <4> QED
        BY <1>4, <4>2, Zenon DEF q
    <3>2. Watched(c)' = Watched(c)
      BY <3>1 DEF Watched
    <3> QED
      BY <1>0, <1>6, <2>3, <3>2, Zenon
  <2> QED
    BY <2>2, <2>3, Zenon
<1>8. ConnsWatched'
  <2> SUFFICES ASSUME NEW d \in Conns
               PROVE  (IF Open(d)
                       THEN /\ el.io[d] = [alive |-> TRUE, active |-> TRUE,
                                           events |-> Watched(d)]
                            /\ el.timer[d].active
                       ELSE el.io[d] = LOOP!NoIo /\ el.timer[d] = LOOP!NoTimer)'
    BY Zenon DEF ConnsWatched
  <2>1. CASE d = c
    BY <1>1, <1>6, <1>7, <2>1, Zenon DEF Open
  <2>2. CASE d # c
    <3>1. el'.io[d] = el.io[d] /\ Watched(d)' = Watched(d)
      BY <1>4, <1>7, <2>2, Zenon DEF Watched, Io
    <3> QED
      BY <1>1, <1>7, <3>1, Zenon DEF ConnsWatched, Open
  <2> QED
    BY <2>1, <2>2, Zenon
<1>9. BrsWatched'
  BY <1>1, <1>7, Zenon DEF BrsWatched, Live, Io
<1>10. TypeOK'
  BY <1>1, <1>4, Zenon DEF TypeOK, outside
<1>11. Known'
  <2>1. \A d \in Conns : \A i \in 1 .. Len(replies'[d]) :
           replies'[d][i] \in 1 .. Len(sent)
    <3>1. \A d \in Conns : \A i \in 1 .. Len(replies[d]) :
             replies[d][i] \in 1 .. Len(sent)
      BY Zenon DEF Known
    <3> HIDE DEF IInv
    <3> SUFFICES ASSUME NEW d \in Conns, NEW i \in 1 .. Len(replies'[d])
                 PROVE  replies'[d][i] \in 1 .. Len(sent)
      BY Zenon
    <3>2. PICK j \in 1 .. Len(replies[d]) : replies'[d][i] = replies[d][j]
      BY <1>5, Zenon
    <3> QED
      BY <3>1, <3>2, Zenon
  <2> QED
    BY <1>1, <2>1, Zenon DEF Known, outside
<1>12. Marked'
  BY <1>1, <1>4, Zenon DEF Marked, Open
<1>13. PrivMatches' /\ Owned'
  BY <1>1, Zenon DEF PrivMatches, Owned, Open, outside
<1>14. AnswersOwnClient'
  <2>1. UNCHANGED <<client, stray, pipelined, sent>> /\ AnswersOwnClient
    BY <1>1, Zenon DEF outside
  <2> HIDE DEF IInv
  <2> SUFFICES ASSUME ~pipelined, NEW d \in Conns, NEW i \in 1 .. Len(replies'[d])
               PROVE  sent[replies'[d][i]] = client[d]
    BY <2>1, Zenon DEF AnswersOwnClient
  <2>2. PICK j \in 1 .. Len(replies[d]) : replies'[d][i] = replies[d][j]
    BY <1>5, Zenon
  <2>3. sent[replies[d][j]] = client[d]
    BY <2>1, Zenon DEF AnswersOwnClient
  <2> QED
    BY <2>2, <2>3, Zenon
<1>15. Inside'
  BY <1>1, DidFacts, Zenon
<1> QED
  BY <1>7, <1>8, <1>9, <1>10, <1>11, <1>12, <1>13, <1>14, <1>15, Zenon

\* A connection is made, at an address that may have been used.
LEMMA StepRecvNewConnection ==
    ASSUME IInv, NEW c \in Conns, RecvNewConnection(c)
    PROVE  IInv'
<1> USE DEF IInv
<1>0. PICK p \in el.pending :
           el' = LET l == LOOP!TakePending(el, p)
                     m == LOOP!CreateTimer(LOOP!CreateIoEvent(l, c), c)
                 IN  LOOP!StartTimer(LOOP!StartIoEvent(m, c, {"READ"}), c, 1)
  BY Zenon DEF RecvNewConnection
<1>1. /\ current = NULL /\ taken < dispatched /\ ~Open(c)
      /\ taken' = taken + 1
      /\ client' = [client EXCEPT ![c] = taken + 1]
      /\ priv' = [priv EXCEPT ![c] = NULL]
      /\ UNCHANGED <<current, replies, br, flag, stray, pipelined, dispatched,
                     unread, sent>>
  BY Zenon DEF RecvNewConnection, Due
<1> DEFINE io == [alive |-> TRUE, active |-> TRUE, events |-> {"READ"}]
           tm == [alive |-> TRUE, active |-> TRUE]
           l == LOOP!TakePending(el, p)
<1>2. Good(l) /\ l.io = el.io /\ l.timer = el.timer
  BY TakeFacts, Zenon
<1> HIDE DEF l
<1>3. /\ Good(el') /\ el'.io = [el.io EXCEPT ![c] = io]
      /\ el'.timer = [el.timer EXCEPT ![c] = tm]
  <2>1. c \in Tm
    BY Zenon DEF Tm
  <2>2. ~el.io[c].active
    <3>1. ~LOOP!NoIo.active
      BY Zenon DEF LOOP!NoIo
    <3> QED
      BY <1>1, <3>1, Zenon DEF ConnsWatched
  <2>3. /\ Good(el') /\ el'.io = [l.io EXCEPT ![c] = io]
        /\ el'.timer = [l.timer EXCEPT ![c] = tm]
    BY <1>0, <1>2, <2>1, <2>2, NewWatchersFacts, Zenon DEF l
  <2> QED
    BY <1>2, <2>3, Zenon
<1>4. el.io \in [Io -> IoState] /\ el.timer \in [Tm -> TimerState]
  BY LoopFields, Zenon DEF Good
<1>5. /\ \A x \in Tm \ {c} : el'.io[x] = el.io[x] /\ el'.timer[x] = el.timer[x]
      /\ el'.io[c] = io /\ el'.timer[c] = tm
  BY <1>3, <1>4, Zenon DEF Io, Tm
<1>6. taken + 1 \in Clients /\ taken + 1 # 0 /\ taken + 1 \in 0 .. dispatched
  <2>1. taken \in 0 .. dispatched /\ taken < dispatched /\ dispatched \in 0 .. MaxClients
    BY <1>1, Zenon DEF TypeOK
  <2> HIDE DEF IInv
  <2> QED
    BY <2>1 DEF Clients
<1>7. \A d \in Conns : /\ client'[d] = IF d = c THEN taken + 1 ELSE client[d]
                       /\ priv'[d] = IF d = c THEN NULL ELSE priv[d]
  BY <1>1, Zenon DEF TypeOK
<1>8. replies[c] = <<>>
  BY <1>1, Zenon DEF Marked
<1>9. ConnsWatched'
  <2> SUFFICES ASSUME NEW d \in Conns
               PROVE  (IF Open(d)
                       THEN /\ el.io[d] = [alive |-> TRUE, active |-> TRUE,
                                           events |-> Watched(d)]
                            /\ el.timer[d].active
                       ELSE el.io[d] = LOOP!NoIo /\ el.timer[d] = LOOP!NoTimer)'
    BY Zenon DEF ConnsWatched
  <2>1. CASE d = c
    <3>1. Watched(c)' = {"READ"} /\ client'[c] # 0
      <4>1. replies'[c] = <<>> /\ client'[c] = taken + 1
        BY <1>1, <1>7, <1>8, Zenon
      <4> HIDE DEF IInv
      <4> QED
        BY <1>6, <4>1, Zenon DEF Watched
    <3>2. Open(c)' /\ el'.io[c] = io /\ el'.timer[c] = tm /\ tm.active
      BY <1>5, <3>1, Zenon DEF Open
    <3> HIDE DEF IInv, tm
    <3> QED
      BY <2>1, <3>1, <3>2, Zenon
  <2>2. CASE d # c
    <3>1. /\ el'.io[d] = el.io[d] /\ el'.timer[d] = el.timer[d]
          /\ Watched(d)' = Watched(d)
      BY <1>1, <1>5, <2>2, Zenon DEF Watched, Tm
    <3> QED
      BY <1>7, <2>2, <3>1, Zenon DEF ConnsWatched, Open
  <2> QED
    BY <2>1, <2>2, Zenon
<1>10. BrsWatched'
  <2>1. \A b \in Brs : el'.io[b] = el.io[b] /\ el'.timer[b] = el.timer[b]
    BY <1>5, Zenon DEF Tm
  <2> QED
    BY <1>1, <2>1, Zenon DEF BrsWatched, Live
<1>11. TypeOK'
  <2>1. client' \in [Conns -> {0} \cup Clients]
    BY <1>1, <1>6, Zenon DEF TypeOK
  <2>2. priv' \in [Conns -> Brs \cup {NULL}]
    BY <1>1, Zenon DEF TypeOK
  <2>3. taken' \in 0 .. dispatched'
    BY <1>1, <1>6, Zenon
  <2> QED
    BY <1>1, <2>1, <2>2, <2>3, Zenon DEF TypeOK
<1>12. Known'
  BY <1>1, Zenon DEF Known
<1>13. Marked'
  BY <1>1, <1>7, <1>8, Zenon DEF Marked, Open
<1>14. PrivMatches'
  BY <1>1, <1>7, ZenonT(60) DEF PrivMatches
<1>15. Owned'
  <2> SUFFICES ASSUME ~pipelined, NEW x \in Brs, flag[x] = TRUE
               PROVE  /\ client'[br[x].conn] # 0 /\ priv'[br[x].conn] = x
                      /\ sent[br[x].req] = client'[br[x].conn]
    BY <1>1, ZenonT(60) DEF Owned, Open
  <2>1. /\ br[x].conn \in Conns /\ client[br[x].conn] # 0
        /\ priv[br[x].conn] = x /\ sent[br[x].req] = client[br[x].conn]
    BY Zenon DEF Owned, Marked, Open
  <2>2. br[x].conn # c
    BY <1>1, <2>1, Zenon DEF Open
  <2> QED
    BY <1>7, <2>1, <2>2, Zenon
<1>16. AnswersOwnClient'
  <2>1. /\ UNCHANGED <<replies, stray, pipelined, sent>> /\ AnswersOwnClient
        /\ \A d \in Conns : d # c => client'[d] = client[d]
    BY <1>1, <1>7, Zenon
  <2> HIDE DEF IInv
  <2> SUFFICES ASSUME ~pipelined, NEW d \in Conns, NEW i \in 1 .. Len(replies[d])
               PROVE  sent[replies[d][i]] = client'[d]
    BY <2>1, Zenon DEF AnswersOwnClient
  <2>2. d # c
    BY <1>8
  <2> QED
    BY <2>1, <2>2, Zenon DEF AnswersOwnClient
<1>17. Inside'
  BY <1>1, OutsideCallback, Zenon
<1> QED
  BY <1>3, <1>9, <1>10, <1>11, <1>12, <1>13, <1>14, <1>15, <1>16, <1>17, Zenon

\* QUIT closes all connections.
LEMMA StepRecvQuit ==
    ASSUME IInv, RecvQuit
    PROVE  IInv'
<1> USE DEF IInv
<1> DEFINE Pointed(b) == \E c \in Conns : priv[c] = b
           io == [w \in Io |-> IF w \in Brs THEN el.io[w] ELSE LOOP!NoIo]
           tm == [t \in Tm |-> IF t \in Brs THEN el.timer[t] ELSE LOOP!NoTimer]
           pd == {q \in el.pending : q.watcher \in Brs}
<1>1. /\ current = NULL
      /\ client' = [c \in Conns |-> 0] /\ replies' = [c \in Conns |-> <<>>]
      /\ flag' = [b \in Brs |-> IF Pointed(b) THEN FALSE ELSE flag[b]]
      /\ br' = [b \in Brs |-> IF Pointed(b) THEN [br[b] EXCEPT !.conn = NULL]
                              ELSE br[b]]
      /\ priv' = [c \in Conns |-> NULL]
      /\ UNCHANGED <<current, stray, pipelined, outside>>
  BY DEF RecvQuit, Due
<1>2. /\ el \in Loops /\ el.io \in [Io -> IoState]
      /\ el.timer \in [Tm -> TimerState] /\ el.pending \subseteq Callbacks
  BY LoopFields, Zenon DEF Good
<1>3. /\ el'.io = io /\ el'.timer = tm /\ el'.pending = pd /\ el' \in Loops
  <2> DEFINE s == LOOP!StopLoop(el)
  <2>0. /\ s.io = el.io /\ s.timer = el.timer /\ s.pending = el.pending
        /\ s \in Loops /\ DOMAIN el.io = Io /\ DOMAIN el.timer = Tm
    BY <1>2, Zenon DEF LOOP!StopLoop, Loops
  <2>1. el' = [s EXCEPT !.io = io, !.timer = tm, !.pending = pd]
    <3> HIDE DEF s
    <3>1. el' = [s EXCEPT
                   !.io = [w \in DOMAIN s.io |-> IF w \in Brs THEN s.io[w]
                                                 ELSE LOOP!NoIo],
                   !.timer = [t \in DOMAIN s.timer |->
                                IF t \in Brs THEN s.timer[t] ELSE LOOP!NoTimer],
                   !.pending = {q \in s.pending : q.watcher \in Brs}]
      BY <2>0 DEF RecvQuit, s, Loops
    <3> QED
      BY <2>0, <3>1, Zenon
  <2> HIDE DEF s
  <2>2. io \in [Io -> IoState]
    BY <1>2, Zenon DEF IoState, LOOP!NoIo, Masks
  <2>3. tm \in [Tm -> TimerState]
    BY <1>2 DEF TimerState, LOOP!NoTimer
  <2>4. pd \in SUBSET Callbacks
    BY <1>2
  <2> HIDE DEF io, tm, pd
  <2> QED
    BY <2>0, <2>1, <2>2, <2>3, <2>4, Zenon DEF Loops
<1>4. Good(el')
  <2>1. ~LOOP!NoIo.active /\ ~LOOP!NoTimer.active
    BY Zenon DEF LOOP!NoIo, LOOP!NoTimer
  <2>2. \A w \in Io : el'.io[w].active => el'.io[w].alive
    BY <1>3, <2>1, Zenon DEF Good
  <2>3. \A t \in Tm : el'.timer[t].active => el'.timer[t].alive
    BY <1>3, <2>1, Zenon DEF Good
  <2>4. \A q \in el'.pending : /\ q \in el.pending /\ q.watcher \in Brs
                               /\ el'.io[q.watcher] = el.io[q.watcher]
                               /\ el'.timer[q.watcher] = el.timer[q.watcher]
    BY <1>3, Zenon DEF Io, Tm
  <2>5. \A q \in el'.pending :
           IF q.kind = "io" THEN el'.io[q.watcher].active
           ELSE q.watcher \in Tm /\ el'.timer[q.watcher].alive
    BY <2>4, Zenon DEF Good
  <2> QED
    BY <1>3, <2>2, <2>3, <2>5, Zenon DEF Good
<1>5. ConnsWatched'
  <2>1. \A c \in Conns : /\ el'.io[c] = LOOP!NoIo /\ el'.timer[c] = LOOP!NoTimer
                         /\ client'[c] = 0
    BY <1>1, <1>3 DEF Io, Tm
  <2> QED
    BY <2>1, Zenon DEF ConnsWatched, Open
<1>6. \A b \in Brs : Pointed(b) => flag[b] = TRUE
  BY DEF PrivMatches
<1>7. /\ \A b \in Brs : /\ flag'[b] = IF Pointed(b) THEN FALSE ELSE flag[b]
                        /\ br'[b].conn = IF Pointed(b) THEN NULL ELSE br[b].conn
                        /\ br'[b].req = br[b].req
      /\ \A c \in Conns : priv'[c] = NULL /\ client'[c] = 0 /\ replies'[c] = <<>>
  BY <1>1 DEF TypeOK
<1>8. BrsWatched'
  <2>1. \A b \in Brs : el'.io[b] = el.io[b] /\ el'.timer[b] = el.timer[b]
    BY <1>3, Zenon DEF Io, Tm
  <2>2. \A b \in Brs : flag'[b] # NULL <=> flag[b] # NULL
    BY <1>6, <1>7, Zenon
  <2> QED
    BY <2>1, <2>2, Zenon DEF BrsWatched, Live
<1>9. TypeOK'
  <2>1. br' \in [Brs -> [conn : Conns \cup {NULL}, req : Nat]]
    BY <1>1, ZenonT(60) DEF TypeOK
  <2>2. flag' \in [Brs -> {TRUE, FALSE, NULL}]
    BY <1>1, Zenon DEF TypeOK
  <2>3. /\ client' \in [Conns -> {0} \cup Clients]
        /\ priv' \in [Conns -> Brs \cup {NULL}]
        /\ replies' \in [Conns -> Seq(Nat)]
    BY <1>1
  <2> QED
    BY <1>1, <2>1, <2>2, <2>3, Zenon DEF TypeOK, outside
<1> HIDE DEF Pointed
<1>10. Known'
  <2>1. \A b \in Brs : br'[b].req \in 0 .. Len(sent)
    BY <1>7, Zenon DEF Known
  <2> QED
    BY <1>1, <1>7, <2>1 DEF Known, outside
<1>11. Marked'
  BY <1>6, <1>7, Zenon DEF Marked
<1>12. PrivMatches'
  BY <1>7, Zenon DEF PrivMatches
<1>13. Owned'
  <2> SUFFICES ASSUME ~pipelined, NEW x \in Brs, flag'[x] = TRUE
               PROVE  FALSE
    BY <1>1, Zenon DEF Owned
  <2>1. flag[x] = TRUE /\ ~Pointed(x)
    BY <1>7, Zenon
  <2>2. br[x].conn \in Conns /\ priv[br[x].conn] = x
    BY <2>1, Zenon DEF Owned, Marked
  <2> QED
    BY <2>1, <2>2 DEF Pointed
<1>14. AnswersOwnClient'
  BY <1>1, <1>7 DEF AnswersOwnClient
<1>15. Inside'
  BY <1>1, OutsideCallback
<1> QED
  BY <1>4, <1>5, <1>8, <1>9, <1>10, <1>11, <1>12, <1>13, <1>14, <1>15

\* A client writes a request.
LEMMA StepSend ==
    ASSUME IInv, NEW k \in Clients, Send(k)
    PROVE  IInv'
<1> USE DEF IInv
<1>1. /\ sent' = Append(sent, k)
      /\ unread' = [unread EXCEPT ![k] = Append(@, Len(sent) + 1)]
      /\ UNCHANGED <<el, current, objects, dispatched, taken>>
  BY DEF Send
<1>2. /\ sent \in Seq(Clients) /\ Len(sent) \in Nat /\ sent' \in Seq(Clients)
      /\ Len(sent') = Len(sent) + 1 /\ sent'[Len(sent) + 1] = k
      /\ \A r \in 1 .. Len(sent) : sent'[r] = sent[r]
  BY <1>1 DEF TypeOK
<1>3. /\ unread' \in [Clients -> Seq(Nat)]
      /\ \A j \in Clients : unread'[j] = IF j = k THEN Append(unread[j], Len(sent) + 1)
                                         ELSE unread[j]
  BY <1>1, <1>2 DEF TypeOK
<1>4. TypeOK'
  BY <1>1, <1>2, <1>3, Zenon DEF TypeOK, objects
<1>5. ASSUME NEW j \in Clients, NEW i \in 1 .. Len(unread'[j])
      PROVE  unread'[j][i] \in 1 .. Len(sent') /\ sent'[unread'[j][i]] = j
  <2>1. CASE i \in 1 .. Len(unread[j]) /\ unread'[j][i] = unread[j][i]
    <3>1. unread[j][i] \in 1 .. Len(sent) /\ sent[unread[j][i]] = j
      BY <2>1, Zenon DEF Known
    <3> HIDE DEF IInv
    <3> QED
      BY <1>2, <2>1, <3>1
  <2>2. CASE j = k /\ unread'[j][i] = Len(sent) + 1
    BY <1>2, <2>2
  <2>3. unread[j] \in Seq(Nat) /\ Len(sent) + 1 \in Nat
    BY <1>2 DEF TypeOK
  <2>4. CASE j # k
    BY <1>3, <2>1, <2>4, Zenon
  <2>5. CASE j = k
    <3>1. unread'[j] = Append(unread[j], Len(sent) + 1)
      BY <1>3, <2>5, Zenon
    <3> HIDE DEF IInv
    <3> QED
      BY <2>1, <2>2, <2>3, <2>5, <3>1, AppendedItems, ZenonT(60)
  <2> QED
    BY <2>4, <2>5, Zenon
<1>6. Known'
  <2>1. \A c \in Conns : \A i \in 1 .. Len(replies[c]) :
           replies[c][i] \in 1 .. Len(sent')
    BY <1>2 DEF Known
  <2>2. \A b \in Brs : br[b].req \in 0 .. Len(sent')
    BY <1>2 DEF Known
  <2> QED
    BY <1>1, <1>5, <2>1, <2>2, Zenon DEF Known, objects
<1>7. Owned'
  <2> SUFFICES ASSUME ~pipelined, NEW x \in Brs, flag[x] = TRUE
               PROVE  /\ Open(br[x].conn) /\ priv[br[x].conn] = x
                      /\ sent'[br[x].req] = client[br[x].conn]
    BY <1>1, Zenon DEF Owned, Open, objects
  <2>1. br[x].req \in 1 .. Len(sent)
    BY <1>2 DEF Known, Marked
  <2> QED
    BY <1>2, <2>1, Zenon DEF Owned
<1>8. AnswersOwnClient'
  <2> SUFFICES ASSUME ~pipelined, NEW c \in Conns, NEW i \in 1 .. Len(replies[c])
               PROVE  sent'[replies[c][i]] = client[c]
    BY <1>1, Zenon DEF AnswersOwnClient, objects
  <2>1. replies[c][i] \in 1 .. Len(sent)
    BY Zenon DEF Known
  <2> QED
    BY <1>2, <2>1, Zenon DEF AnswersOwnClient
<1>9. Marked' /\ PrivMatches' /\ BrsWatched' /\ Inside'
  BY <1>1, Zenon DEF Marked, PrivMatches, BrsWatched, Live, Inside, Open, objects
<1>10. ConnsWatched'
  BY <1>1, Zenon DEF ConnsWatched, Open, Watched, objects
<1> QED
  BY <1>1, <1>4, <1>6, <1>7, <1>8, <1>9, <1>10, Zenon

\* Steps of the dispatcher and of clients that the worker has not noticed yet,
\* and stuttering.
LEMMA StepOutside ==
    ASSUME IInv, UNCHANGED <<el, current, objects, taken, unread, sent>>,
           \/ UNCHANGED dispatched
           \/ dispatched < MaxClients /\ dispatched' = dispatched + 1
    PROVE  IInv'
<1> USE DEF IInv
<1>1. TypeOK' /\ Known'
  <2>1. dispatched' \in 0 .. MaxClients /\ taken' \in 0 .. dispatched'
    BY DEF TypeOK
  <2> QED
    BY <2>1, Zenon DEF TypeOK, Known, objects
<1>2. Marked' /\ Owned' /\ PrivMatches' /\ AnswersOwnClient' /\ BrsWatched'
  BY Zenon DEF Marked, Owned, PrivMatches, AnswersOwnClient, BrsWatched, Live, Open, objects
<1>3. ConnsWatched' /\ Inside'
  BY Zenon DEF ConnsWatched, Open, Watched, Inside, objects
<1> QED
  BY <1>1, <1>2, <1>3, Zenon

\* Every step keeps the invariant.
LEMMA NextIInv == IInv /\ [Next]_vars => IInv'
<1> SUFFICES ASSUME IInv, [Next]_vars PROVE IInv'
  OBVIOUS
<1>1. CASE SomePoll
  BY <1>1, StepPoll
<1>2. CASE Callback
  BY <1>2, StepRecvNewConnection, StepTimeout, StepConnCallback, StepRecvQuit
  DEF Callback
<1>3. CASE InsideCallback
  BY <1>3, StepReadRequest, StepReadRequestFails, StepCloses, StepWriteIo
  DEF InsideCallback
<1>4. CASE BackendCallback
  BY <1>4, StepBackend DEF BackendCallback
<1>5. CASE Environment
  <2>1. CASE \E k \in Clients : Send(k)
    BY <2>1, StepSend
  <2>2. CASE Dispatch
    BY <2>2, StepOutside DEF Dispatch
  <2>3. CASE Quit
    BY <2>3, StepOutside DEF Quit
  <2>4. CASE \E k \in Clients : Leave(k)
    BY <2>4, StepOutside DEF Leave
  <2> QED
    BY <1>5, <2>1, <2>2, <2>3, <2>4 DEF Environment
<1>6. CASE UNCHANGED vars
  BY <1>6, StepOutside DEF vars, outside
<1> QED
  BY <1>1, <1>2, <1>3, <1>4, <1>5, <1>6 DEF Next

\* The invariant holds always.
LEMMA Invariance == Spec => []IInv
BY InitIInv, NextIInv, PTL DEF Spec

\* Whatever remove_conn(), write_io(), add_reply() and the HTTP client do in one
\* callback, the loop watches exactly the open connections, for WRITE exactly
\* while replies wait, and no collected callback is about a deleted watcher.
THEOREM Safety_WatchersMatch == Spec => []WatchersMatch
BY Invariance, Implied, PTL

\* A backend_req_t lives as long as the HTTP client may call back with it, and no
\* connection's priv_data is a freed one.
THEOREM Safety_RequestsMatch == Spec => []RequestsMatch
BY Invariance, Implied, PTL

\* Until some connection has two requests in flight, every answer is queued for
\* the client that asked, also when addresses of connections and of requests are
\* used again.
THEOREM Safety_AnswersOwnClient == Spec => []AnswersOwnClient
<1>1. IInv => AnswersOwnClient
  BY DEF IInv
<1> QED
  BY <1>1, Invariance, PTL

=============================================================================
