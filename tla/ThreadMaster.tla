----------------------------- MODULE ThreadMaster -----------------------------
(***************************************************************************)
(* The event loop of the library (lib/thread.c) and the heap its timers are *)
(* kept in (lib/pqueue.c), as operators on the state m of a master:         *)
(*                                                                          *)
(*   m.thread[t]   the thread structure t: type, what it was added as, the  *)
(*                 owner (arg), u (a descriptor, a value or the time it is  *)
(*                 due) and its index in a heap                             *)
(*   m.read, m.write, m.event, m.ready, m.unuse   lists of threads          *)
(*   m.timer, m.background                        heaps of threads          *)
(*   m.readfd, m.writefd                          the descriptors asked for *)
(*   m.alloc       the number of structures allocated                       *)
(*                                                                          *)
(* Time is a number.  The loop itself is in the modules that have clients.  *)
(***************************************************************************)
EXTENDS Integers, Sequences, FiniteSets, SequencesExt

CONSTANT MaxThreads     \* structures the model has room for

Threads == 1 .. MaxThreads
Lists == {"read", "write", "event", "ready", "unuse"}
Heaps == {"timer", "background"}

thread_master_create ==
    [thread |-> [t \in Threads |-> [type |-> "none", add_type |-> "none", arg |-> "none", u |-> 0, index |-> -1]],
     read |-> <<>>, write |-> <<>>, event |-> <<>>, ready |-> <<>>, unuse |-> <<>>,
     timer |-> <<>>, background |-> <<>>, readfd |-> {}, writefd |-> {}, alloc |-> 0]

-------------------------------------------------------------------------------
(* The heap of lib/pqueue.c: a node is not due before its parent.  update() notes   *)
(* the place of a node in the thread.                                               *)
PARENT_OF(x) == (x - 1) \div 2
LEFT_OF(x) == 2 * x + 1
RIGHT_OF(x) == 2 * x + 2
HAVE_CHILD(x, q) == x < Len(q) \div 2

thread_timer_cmp(m, a, b) == m.thread[a].u - m.thread[b].u
thread_timer_update(m, t, position) == [m EXCEPT !.thread[t].index = position]

Put(m, h, x, t) == thread_timer_update([m EXCEPT ![h][x + 1] = t], t, x)
Swap(m, h, x, y) == Put(Put(m, h, x, m[h][y + 1]), h, y, m[h][x + 1])

RECURSIVE trickle_up(_, _, _)
trickle_up(m, h, x) ==
    IF x > 0 /\ thread_timer_cmp(m, m[h][x + 1], m[h][PARENT_OF(x) + 1]) < 0
    THEN trickle_up(Swap(m, h, x, PARENT_OF(x)), h, PARENT_OF(x))
    ELSE Put(m, h, x, m[h][x + 1])

RECURSIVE trickle_down(_, _, _)
trickle_down(m, h, x) ==
    LET which == IF /\ RIGHT_OF(x) < Len(m[h])
                    /\ thread_timer_cmp(m, m[h][LEFT_OF(x) + 1], m[h][RIGHT_OF(x) + 1]) > 0
                 THEN RIGHT_OF(x) ELSE LEFT_OF(x)
    IN IF HAVE_CHILD(x, m[h]) /\ thread_timer_cmp(m, m[h][which + 1], m[h][x + 1]) <= 0
       THEN trickle_down(Swap(m, h, x, which), h, which)
       ELSE Put(m, h, x, m[h][x + 1])

pqueue_enqueue(m, h, t) ==
    LET added == [m EXCEPT ![h] = Append(@, t)] IN trickle_up(added, h, Len(m[h]))

(* The last node takes the place that becomes free.  Where it is the last itself    *)
(* that is freed, the comparisons that follow change nothing.                       *)
MoveLast(m, h, x) == [m EXCEPT ![h] = Front([@ EXCEPT ![x + 1] = Last(m[h])])]

pqueue_dequeue(m, h) ==
    LET moved == MoveLast(m, h, 0) IN IF moved[h] = <<>> THEN moved ELSE trickle_down(moved, h, 0)

(* Fault: the node that is moved only ever sinks. *)
OnlyDown(x, h, m) ==
    LET moved == MoveLast(m, h, x) IN IF x = Len(moved[h]) THEN moved ELSE trickle_down(moved, h, x)

pqueue_remove_at(x, h, m) ==
    LET moved == MoveLast(m, h, x)
    IN IF x = Len(moved[h]) THEN moved
       ELSE IF x > 0 /\ thread_timer_cmp(m, moved[h][x + 1], moved[h][PARENT_OF(x) + 1]) < 0
            THEN trickle_up(moved, h, x)
       ELSE trickle_down(moved, h, x)

-------------------------------------------------------------------------------
thread_list_add(m, l, t) == [m EXCEPT ![l] = Append(@, t)]
(* Fault: the thread stays in the list it was in. *)
StaysListed(m, l, t) == m

thread_list_delete(m, l, t) == [m EXCEPT ![l] = SelectSeq(@, LAMBDA s : s # t)]

(* What is left in a structure that is given back is not looked at any more. *)
Unused == [type |-> "unused", add_type |-> "none", arg |-> "none", u |-> 0, index |-> -1]
thread_add_unuse(m, t) == thread_list_add([m EXCEPT !.thread[t] = Unused], "unuse", t)

(* A structure out of the unused ones, or a new one. *)
CanGet(m) == m.unuse # <<>> \/ m.alloc < MaxThreads
FreeThread(m) == IF m.unuse # <<>> THEN Head(m.unuse) ELSE m.alloc + 1
thread_get(m, type, arg) ==
    [m EXCEPT !.unuse = IF @ = <<>> THEN @ ELSE Tail(@),
              !.alloc = IF m.unuse = <<>> THEN @ + 1 ELSE @,
              !.thread[FreeThread(m)] = [type |-> type, add_type |-> type, arg |-> arg, u |-> 0, index |-> -1]]

Bits(type) == IF type = "read" THEN "readfd" ELSE "writefd"

(* thread_add_read() and thread_add_write(): at most one of a kind for a descriptor, *)
(* a second one is answered with NULL.                                               *)
funcname_thread_add_read(m, arg, fd) ==
    IF fd \in m.readfd THEN m
    ELSE thread_list_add([thread_get(m, "read", arg) EXCEPT !.thread[FreeThread(m)].u = fd, !.readfd = @ \cup {fd}],
                         "read", FreeThread(m))
funcname_thread_add_write(m, arg, fd) ==
    IF fd \in m.writefd THEN m
    ELSE thread_list_add([thread_get(m, "write", arg) EXCEPT !.thread[FreeThread(m)].u = fd, !.writefd = @ \cup {fd}],
                         "write", FreeThread(m))

(* Foreground and background timers, in seconds or milliseconds. *)
funcname_thread_add_timer_timeval(m, type, arg, due) ==
    pqueue_enqueue([thread_get(m, type, arg) EXCEPT !.thread[FreeThread(m)].u = due], type, FreeThread(m))

funcname_thread_add_event(m, arg) == thread_list_add(thread_get(m, "event", arg), "event", FreeThread(m))

(* Fault: the bit of the descriptor is left set. *)
BitKept(m, t) ==
    LET type == m.thread[t].type
    IN CASE type \in {"read", "write", "event", "ready"} -> thread_add_unuse(thread_list_delete(m, type, t), t)
         [] type \in Heaps -> thread_add_unuse(pqueue_remove_at(m.thread[t].index, type, m), t)
         [] OTHER -> m

(* Fault: a thread that is ready is let be. *)
ReadyLetBe(m, t) ==
    LET type == m.thread[t].type
    IN CASE type \in {"read", "write"} ->
              thread_add_unuse(thread_list_delete([m EXCEPT ![Bits(type)] = @ \ {m.thread[t].u}], type, t), t)
         [] type = "event" -> thread_add_unuse(thread_list_delete(m, type, t), t)
         [] type \in Heaps -> thread_add_unuse(pqueue_remove_at(m.thread[t].index, type, m), t)
         [] OTHER -> m

thread_cancel(m, t) ==
    LET type == m.thread[t].type
    IN CASE type \in {"read", "write"} ->
              thread_add_unuse(thread_list_delete([m EXCEPT ![Bits(type)] = @ \ {m.thread[t].u}], type, t), t)
         [] type \in {"event", "ready"} -> thread_add_unuse(thread_list_delete(m, type, t), t)
         [] type \in Heaps -> thread_add_unuse(pqueue_remove_at(m.thread[t].index, type, m), t)
         [] OTHER -> m

(* Events of an owner, and whatever of the owner is ready. *)
thread_cancel_event(m, arg) ==
    LET Of(l) == SelectSeq(m[l], LAMBDA t : m.thread[t].arg = arg)
        Drop(n, l) == FoldLeft(LAMBDA k, t : thread_add_unuse(thread_list_delete(k, l, t), t), n, Of(l))
    IN Drop(Drop(m, "event"), "ready")

-------------------------------------------------------------------------------
MakeReady(m, t) == thread_list_add([m EXCEPT !.thread[t].type = "ready", !.thread[t].index = -1], "ready", t)

thread_process(m) == FoldLeft(LAMBDA n, t : MakeReady(thread_list_delete(n, "event", t), t), m, m.event)

thread_process_fd(m, type, fds) ==
    FoldLeft(LAMBDA n, t : MakeReady(thread_list_delete([n EXCEPT ![Bits(type)] = @ \ {n.thread[t].u}], type, t), t),
             m, SelectSeq(m[type], LAMBDA t : m.thread[t].u \in fds))

RECURSIVE Popped(_, _, _)
Popped(m, h, now) ==
    IF m[h] = <<>> \/ now < m.thread[m[h][1]].u THEN m
    ELSE Popped(MakeReady(pqueue_dequeue(m, h), m[h][1]), h, now)

(* Fault: what is due in the next second is taken already. *)
EarlyBySecond(m, h, now) == Popped(m, h, now + 1)

thread_timer_process(m, h, now) == Popped(m, h, now)


(* Fault: background timers do not end the wait. *)
ForegroundOnly(m) == IF m.timer = <<>> THEN <<>> ELSE <<m.thread[m.timer[1]].u>>

(* When select() is to give up, <<>> for never.  (A time that has passed: at once.)  *)
thread_timer_wait(m) ==
    LET due == {m.thread[m[h][1]].u : h \in {g \in Heaps : m[g] # <<>>}}
    IN IF due = {} THEN <<>> ELSE <<CHOOSE d \in due : \A e \in due : d <= e>>

(* The head of the ready list is copied for the caller and its structure given back. *)
thread_run(m) == thread_add_unuse([m EXCEPT !.ready = Tail(@)], Head(m.ready))

(* Fault: descriptors come before the timers that are due. *)
DescriptorsFirst(m, now, rd, wr) ==
    LET io == thread_process_fd(thread_process_fd(m, "read", rd), "write", wr)
    IN thread_timer_process(thread_timer_process(io, "timer", now), "background", now)

(* What a return of select() at a time brings: foreground timers, then descriptors,   *)
(* then background timers.                                                            *)
Selected(m, now, rd, wr) ==
    LET timers == thread_timer_process(m, "timer", now)
        io == thread_process_fd(thread_process_fd(timers, "read", rd), "write", wr)
    IN thread_timer_process(io, "background", now)

-------------------------------------------------------------------------------
(* The master as the assertions of thread.c and pqueue.c have it.  A structure is in  *)
(* the one list or heap its type names; the descriptors asked for are those of the    *)
(* lists; a thread in a heap knows its place there; no child is due before its parent.*)
PlacesOf(m, t) == {l \in Lists \cup Heaps : t \in ToSet(m[l])}
InOnePlace(m) ==
    \A t \in 1 .. m.alloc :
      /\ PlacesOf(m, t) = {IF m.thread[t].type = "unused" THEN "unuse" ELSE m.thread[t].type}
      /\ \A l \in PlacesOf(m, t) : Cardinality({i \in DOMAIN m[l] : m[l][i] = t}) = 1
DescriptorsListed(m) ==
    /\ m.readfd = {m.thread[t].u : t \in ToSet(m.read)} /\ Cardinality(m.readfd) = Len(m.read)
    /\ m.writefd = {m.thread[t].u : t \in ToSet(m.write)} /\ Cardinality(m.writefd) = Len(m.write)
HeapsOrdered(m) ==
    \A h \in Heaps : \A x \in 0 .. Len(m[h]) - 1 :
      /\ m.thread[m[h][x + 1]].index = x
      /\ x > 0 => m.thread[m[h][PARENT_OF(x) + 1]].u <= m.thread[m[h][x + 1]].u
===============================================================================
