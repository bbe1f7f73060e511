----------------------------- MODULE ThreadClients -----------------------------
(***************************************************************************)
(* The loop of a program on a thread master: thread_fetch() of lib/thread.c *)
(* with select() and the signals of lib/sigevent.c, and clients that add    *)
(* and cancel threads from their callbacks the way zclient, vty and the     *)
(* work queues do: a callback forgets its thread, THREAD_OFF cancels one    *)
(* that is still known.  Handlers of signals do so as well, in the middle   *)
(* of thread_fetch().                                                       *)
(***************************************************************************)
EXTENDS ThreadMaster

CONSTANTS
    Owners,     \* the args of the threads
    Fd,         \* [Owners -> descriptor]
    Kinds,      \* the kinds of threads the clients add
    Delays,     \* of timers
    MaxTime,
    MaxSignals

VARIABLES
    m,          \* the master
    mine,       \* the threads each owner waits for
    clock,
    loop,       \* "out" in a callback, "ended" when there was no thread to call; in
                \* thread_fetch() "top", "handlers", "prepare" or "select"
    deadline,   \* timer_wait, as the time select() gives up: <<>> is NULL
    fetch,      \* the copy of the thread that is run
    caught,     \* sigmaster.caught
    signals,    \* how many came
    woken       \* a handler has added an event in this call of thread_fetch()

vars == <<m, mine, clock, loop, deadline, fetch, caught, signals, woken>>

NoFetch == [arg |-> "none", add_type |-> "none", u |-> 0]

Init ==
    /\ m = thread_master_create
    /\ mine = [o \in Owners |-> {}]
    /\ clock = 0
    /\ loop = "out"
    /\ deadline = <<0>>
    /\ fetch = NoFetch
    /\ caught = FALSE
    /\ signals = 0
    /\ woken = FALSE

-------------------------------------------------------------------------------
(* In a callback, or in the handler of a signal. *)
InClient == loop \in {"out", "handlers"}

Added(o, master) ==
    /\ InClient /\ CanGet(m)
    /\ m' = master
    /\ mine' = [mine EXCEPT ![o] = @ \cup {FreeThread(m)}]
    /\ UNCHANGED <<clock, loop, deadline, fetch, caught, signals>>

AddRead(o) ==
    /\ "read" \in Kinds /\ Fd[o] \notin m.readfd
    /\ Added(o, funcname_thread_add_read(m, o, Fd[o])) /\ UNCHANGED woken
AddWrite(o) ==
    /\ "write" \in Kinds /\ Fd[o] \notin m.writefd
    /\ Added(o, funcname_thread_add_write(m, o, Fd[o])) /\ UNCHANGED woken
AddTimer(o, type, d) ==
    /\ type \in Kinds
    /\ Added(o, funcname_thread_add_timer_timeval(m, type, o, clock + d)) /\ UNCHANGED woken
AddEvent(o) ==
    /\ "event" \in Kinds
    /\ Added(o, funcname_thread_add_event(m, o))
    /\ woken' = (woken \/ loop = "handlers")

THREAD_OFF(o, t) ==
    /\ InClient
    /\ m' = thread_cancel(m, t)
    /\ mine' = [mine EXCEPT ![o] = @ \ {t}]
    /\ UNCHANGED <<clock, loop, deadline, fetch, caught, signals, woken>>

(* The owner forgets what thread_cancel_event() takes away: its events, and any of  *)
(* its threads that is ready.                                                       *)
CancelEvents(o) ==
    /\ InClient /\ "event" \in Kinds
    /\ m' = thread_cancel_event(m, o)
    /\ mine' = [mine EXCEPT ![o] = {t \in @ : m.thread[t].type \notin {"event", "ready"}}]
    /\ UNCHANGED <<clock, loop, deadline, fetch, caught, signals, woken>>

-------------------------------------------------------------------------------
(* The callback returns and the program calls thread_fetch(). *)
Return ==
    /\ loop = "out"
    /\ loop' = "top"
    /\ deadline' = <<clock>>
    /\ fetch' = NoFetch
    /\ woken' = FALSE
    /\ UNCHANGED <<m, mine, clock, caught, signals>>

(* quagga_sigevent_process() calls the handlers of the signals that were caught. *)
Sigevent ==
    /\ loop = "top" /\ caught
    /\ caught' = FALSE
    /\ loop' = "handlers"
    /\ UNCHANGED <<m, mine, clock, deadline, fetch, signals, woken>>

SignalsDone == loop = "handlers" \/ (loop = "top" /\ ~caught)

(* The first of the ready threads is handed to thread_call(). *)
Run(master) ==
    LET t == Head(master.ready)
        r == master.thread[t]
    IN /\ m' = thread_run(master)
       /\ fetch' = [arg |-> r.arg, add_type |-> r.add_type, u |-> r.u]
       /\ mine' = [mine EXCEPT ![r.arg] = @ \ {t}]
       /\ loop' = "out"

(* Fault: the wait is computed although events became ready. *)
AlwaysComputed ==
    /\ SignalsDone
    /\ IF m.ready # <<>> THEN Run(m) /\ UNCHANGED deadline
       ELSE /\ m' = thread_process(m)
            /\ deadline' = thread_timer_wait(m')
            /\ loop' = "prepare"
            /\ UNCHANGED <<mine, fetch>>
    /\ UNCHANGED <<clock, caught, signals, woken>>

(* After the signals the ready list; then events become ready and, if there was none, *)
(* the wait is computed.                                                              *)
Top ==
    /\ SignalsDone
    /\ IF m.ready # <<>> THEN Run(m) /\ UNCHANGED deadline
       ELSE /\ m' = thread_process(m)
            /\ deadline' = IF m'.ready = <<>> THEN thread_timer_wait(m') ELSE deadline
            /\ loop' = "prepare"
            /\ UNCHANGED <<mine, fetch>>
    /\ UNCHANGED <<clock, caught, signals, woken>>

EnterSelect ==
    /\ loop = "prepare"
    /\ loop' = "select"
    /\ UNCHANGED <<m, mine, clock, deadline, fetch, caught, signals, woken>>

SelectReturns(rd, wr) ==
    LET n == Selected(m, clock, rd, wr)
    IN /\ loop = "select"
       /\ IF n.ready # <<>> THEN Run(n)
          ELSE m' = n /\ loop' = "top" /\ UNCHANGED <<mine, fetch>>
       /\ UNCHANGED <<clock, deadline, caught, signals, woken>>

SelectExpires ==
    /\ deadline # <<>> /\ deadline[1] <= clock
    /\ SelectReturns({}, {})
SelectFinds(rd, wr) ==
    /\ rd \cup wr # {}
    /\ SelectReturns(rd, wr)

(* Any other error: thread_fetch() answers NULL and the program's loop is left. *)
SelectFails ==
    /\ loop = "select"
    /\ loop' = "ended"
    /\ UNCHANGED <<m, mine, clock, deadline, fetch, caught, signals, woken>>

(* quagga_signal_handler() notes the signal; select() returns EINTR. *)
Signal ==
    /\ signals < MaxSignals
    /\ signals' = signals + 1
    /\ caught' = TRUE
    /\ loop' = IF loop = "select" THEN "top" ELSE loop
    /\ UNCHANGED <<m, mine, clock, deadline, fetch, woken>>

Tick ==
    /\ clock < MaxTime
    /\ clock' = clock + 1
    /\ UNCHANGED <<m, mine, loop, deadline, fetch, caught, signals, woken>>

(* The program's own steps. *)
Step == Return \/ Sigevent \/ Top \/ EnterSelect \/ SelectExpires

Next ==
    \/ \E o \in Owners : \/ AddRead(o) \/ AddWrite(o) \/ AddEvent(o) \/ CancelEvents(o)
                         \/ \E type \in Heaps, d \in Delays : AddTimer(o, type, d)
                         \/ \E t \in mine[o] : THREAD_OFF(o, t)
    \/ Step \/ SelectFails
    \/ \E rd \in SUBSET m.readfd, wr \in SUBSET m.writefd : SelectFinds(rd, wr)
    \/ Signal \/ Tick

(* The program runs: callbacks and handlers return, and the loop is not stopped       *)
(* between its statements nor when the time select() waits for has come.  Descriptors *)
(* may stay silent for ever.                                                          *)
Fairness == WF_vars(Step)
Spec == Init /\ [][Next]_vars
FairSpec == Spec /\ Fairness

-------------------------------------------------------------------------------
(* The state's shape; every structure that was allocated is in one list or heap, the *)
(* one its type names, and there once.                                               *)
TypeOK ==
    /\ loop \in {"out", "top", "handlers", "prepare", "select", "ended"}
    /\ clock \in 0 .. MaxTime
    /\ m.alloc \in 0 .. MaxThreads
    /\ InOnePlace(m)

(* select() is asked for the descriptors of the threads that wait for one, each once. *)
OnlyListedDescriptors == DescriptorsListed(m)

(* Through every insertion, removal from the middle and expiry, the heaps keep their  *)
(* order and each thread its place in it, which thread_cancel() asserts.              *)
TimersInHeapOrder == HeapsOrdered(m)

(* The threads an owner waits for are exactly those of its threads that are           *)
(* scheduled: what is cancelled, ready or not, never runs, and nothing is lost.       *)
ScheduledIsWanted ==
    \A o \in Owners : mine[o] = {t \in 1 .. m.alloc : m.thread[t].type # "unused" /\ m.thread[t].arg = o}

(* A batch runs in the order thread_fetch() promises: events, foreground timers in    *)
(* the order they are due, descriptors, background timers.                            *)
Rank == [event |-> 1, timer |-> 2, read |-> 3, write |-> 4, background |-> 5]
BatchInOrder ==
    \A i, j \in DOMAIN m.ready :
      LET a == m.thread[m.ready[i]]
          b == m.thread[m.ready[j]]
      IN i < j => \/ Rank[a.add_type] < Rank[b.add_type]
                  \/ a.add_type = b.add_type /\ (a.add_type \in Heaps => a.u <= b.u)

(* No timer is run before its time. *)
NotEarly == fetch.add_type \in Heaps => fetch.u <= clock

(* The loop never sleeps without an end while a thread is ready to run, but for an    *)
(* event that a handler has added after the wait was computed: thread_fetch() computes *)
(* it again only when no thread is ready.                                             *)
SleepsOver == loop = "select" /\ m.ready # <<>> /\ deadline = <<>>
ReadyNotSlept == SleepsOver => woken

(* An event, and a timer whose time has come, is run (or cancelled), whatever else is *)
(* added all the time, unless select() fails or sleeps over what a handler added.     *)
Pending(t) == t \in ToSet(m.event) \cup ToSet(m.ready) \/ (t \in ToSet(m.timer) \cup ToSet(m.background) /\ m.thread[t].u <= clock)
NoStarvation ==
    \A t \in Threads :
        Pending(t) ~> \/ t \in ToSet(m.unuse)
                      \/ loop = "ended"
                      \/ loop = "select" /\ woken /\ m.ready # <<>>

(* "To be fair to all kinds of threads, and avoid starvation, we need to be careful   *)
(* to consider all thread types for scheduling in each quanta": with no exception.    *)
NeverSleepsOver == ~SleepsOver

(* "Signals pre-empt everything": the loop does not wait in select() while a signal   *)
(* has been caught and not handled.                                                   *)
SignalsPreempt == ~(loop = "select" /\ caught)
===============================================================================
