------------------------------- MODULE VtyServer -------------------------------
(***************************************************************************)
(* The sessions a program of the library serves (lib/vty.c): terminals over *)
(* TCP and vtysh over a UNIX socket, as the callbacks of the loop of        *)
(* lib/thread.c.  A callback runs to its end; between two of them the       *)
(* clients, the network, the clock and the log act.                         *)
(*                                                                          *)
(* A thread is a record of the function and the descriptor it is for.  The  *)
(* order of the lists of threads that wait for a descriptor is not kept:    *)
(* those that become ready together come in any order, timers first.        *)
(***************************************************************************)
EXTENDS Integers, Sequences, FiniteSets, SequencesExt

CONSTANTS
    Fds,                \* descriptors sessions can have
    Timeouts,           \* exec-timeout values, 0 for none
    Words,              \* what is typed, of AllWords
    MaxInputs,          \* keys and lines in one read()
    NoPasswordCheck,    \* no_password_check
    Advanced,           \* host.advanced
    EnablePassword,     \* host.enable is set
    HostPassword,       \* host.password is set
    HostLines           \* host.lines, -1 when "service terminal-length" is not configured

AllWords == {"right", "wrong", "exit", "enable", "disable", "configure terminal", "line vty", "end",
             "terminal length", "exec-timeout", "anonymous restricted", "^C", "^D", "^Z"}

VARIABLE s      \* the program: see Init

None == "none"
Thread(fn, fd) == [fn |-> fn, fd |-> fd]
Listening == {Thread("vty_accept", 1), Thread("vtysh_accept", 2)}
VTY_TIMEOUT_DEFAULT == CHOOSE t \in Timeouts : \A u \in Timeouts : u <= t

Init ==
    s = [vty |-> [f \in Fds |-> [type |-> None]],
         waiting |-> Listening,                 \* threads in the read and write lists
         timer |-> [f \in Fds |-> -1],          \* seconds left of a thread in the heap, or -1
         ready |-> <<>>,                        \* the ready list
         vty_config |-> FALSE,
         restricted_mode |-> FALSE,
         vty_timeout_val |-> VTY_TIMEOUT_DEFAULT]

Live(S) == {f \in Fds : S.vty[f].type # None}
Terms(S) == {f \in Live(S) : S.vty[f].type = "VTY_TERM"}

-------------------------------------------------------------------------------
(* The threads of a session.                                                        *)
ReadOf(S, f) == IF S.vty[f].type = "VTY_TERM" THEN "vty_read" ELSE "vtysh_read"
WriteOf(S, f) == IF S.vty[f].type = "VTY_TERM" THEN "vty_flush" ELSE "vtysh_write"

(* thread_cancel(): in a list, in the heap or ready. *)
Cancel(S, t) ==
    [S EXCEPT !.waiting = @ \ {t},
              !.ready = SelectSeq(@, LAMBDA r : r # t),
              !.timer = IF t.fn = "vty_timeout" THEN [@ EXCEPT ![t.fd] = -1] ELSE @]
CancelKnown(S, f, handle, fn) == IF S.vty[f][handle] THEN Cancel(S, Thread(fn, f)) ELSE S

(* A descriptor asked for already is answered with NULL. *)
AddIo(S, f, handle, fn) ==
    [S EXCEPT !.waiting = @ \cup {Thread(fn, f)}, !.vty[f][handle] = Thread(fn, f) \notin S.waiting]
AddTimeout(S, f) == [S EXCEPT !.timer[f] = S.vty[f].v_timeout, !.vty[f].t_timeout = TRUE]

vty_event(S, event, f) ==
    CASE event = "VTYSH_READ" -> AddIo(S, f, "t_read", "vtysh_read")
      [] event = "VTYSH_WRITE" -> AddIo(S, f, "t_write", "vtysh_write")
      [] event = "VTY_READ" ->
           LET added == AddIo(S, f, "t_read", "vty_read")
           IN IF S.vty[f].v_timeout # 0
              THEN AddTimeout(CancelKnown(added, f, "t_timeout", "vty_timeout"), f) ELSE added
      [] event = "VTY_WRITE" -> IF S.vty[f].t_write THEN S ELSE AddIo(S, f, "t_write", "vty_flush")
      [] event = "VTY_TIMEOUT_RESET" ->
           LET off == [CancelKnown(S, f, "t_timeout", "vty_timeout") EXCEPT !.vty[f].t_timeout = FALSE]
           IN IF S.vty[f].v_timeout # 0 THEN AddTimeout(off, f) ELSE off

-------------------------------------------------------------------------------
vty_config_lock(S, f) ==
    IF S.vty_config THEN S ELSE [S EXCEPT !.vty_config = TRUE, !.vty[f].config = TRUE]
vty_config_unlock(S, f) ==
    IF S.vty_config /\ S.vty[f].config THEN [S EXCEPT !.vty_config = FALSE, !.vty[f].config = FALSE] ELSE S

(* Fault: the lock dies with the session. *)
LockKept(S, f) ==
    LET read == CancelKnown(S, f, "t_read", ReadOf(S, f))
        write == CancelKnown(read, f, "t_write", WriteOf(S, f))
        timeout == CancelKnown(write, f, "t_timeout", "vty_timeout")
    IN [timeout EXCEPT !.vty[f] = [type |-> None]]

vty_close(S, f) ==
    LET read == CancelKnown(S, f, "t_read", ReadOf(S, f))
        write == CancelKnown(read, f, "t_write", WriteOf(S, f))
        timeout == CancelKnown(write, f, "t_timeout", "vty_timeout")
    IN [vty_config_unlock(timeout, f) EXCEPT !.vty[f] = [type |-> None]]

-------------------------------------------------------------------------------
(* What a line or a key does to the session.  VTY stands for every node below CONFIG. *)
ToNode(S, f, node) == [S EXCEPT !.vty[f].node = node]

(* Where a terminal is that has given no password. *)
Anonymous(S) == IF S.restricted_mode THEN "RESTRICTED" ELSE "VIEW"

(* Fault: one password too many. *)
OneMore(S, f, right) ==
    LET node == S.vty[f].node
        fail == S.vty[f].fail + 1
        next == IF node = "AUTH" /\ ~(Advanced /\ ~EnablePassword) THEN "VIEW" ELSE "ENABLE"
    IN IF right THEN [S EXCEPT !.vty[f].fail = 0, !.vty[f].node = next]
       ELSE IF fail <= 3 THEN [S EXCEPT !.vty[f].fail = fail]
       ELSE IF node = "AUTH" THEN [S EXCEPT !.vty[f].fail = fail, !.vty[f].status = "VTY_CLOSE"]
       ELSE [S EXCEPT !.vty[f].fail = 0, !.vty[f].node = Anonymous(S)]

vty_auth(S, f, right) ==
    LET node == S.vty[f].node
        fail == S.vty[f].fail + 1
        next == IF node = "AUTH" /\ ~(Advanced /\ ~EnablePassword) THEN "VIEW" ELSE "ENABLE"
    IN IF right THEN [S EXCEPT !.vty[f].fail = 0, !.vty[f].node = next]
       ELSE IF fail < 3 THEN [S EXCEPT !.vty[f].fail = fail]
       ELSE IF node = "AUTH" THEN [S EXCEPT !.vty[f].fail = fail, !.vty[f].status = "VTY_CLOSE"]
       ELSE [S EXCEPT !.vty[f].fail = 0, !.vty[f].node = Anonymous(S)]

enable(S, f) ==
    ToNode(S, f, IF ~EnablePassword \/ S.vty[f].type = "VTY_SHELL_SERV" THEN "ENABLE" ELSE "AUTH_ENABLE")
disable(S, f) == ToNode(S, f, "VIEW")
config_terminal(S, f) ==
    LET locked == vty_config_lock(S, f)
    IN IF locked.vty[f].config THEN ToNode(locked, f, "CONFIG") ELSE locked
line_vty(S, f) == ToNode(S, f, "VTY")

config_exit(S, f) ==
    CASE S.vty[f].node \in {"VIEW", "RESTRICTED", "ENABLE"} -> [S EXCEPT !.vty[f].status = "VTY_CLOSE"]
      [] S.vty[f].node = "CONFIG" -> vty_config_unlock(ToNode(S, f, "ENABLE"), f)
      [] S.vty[f].node = "VTY" -> ToNode(S, f, "CONFIG")
      [] OTHER -> S

(* `end`, and ^Z and ^C on a terminal. *)
config_end(S, f) ==
    IF S.vty[f].node \in {"CONFIG", "VTY"} THEN ToNode(vty_config_unlock(S, f), f, "ENABLE") ELSE S
vty_end_config(S, f) == config_end(S, f)
vty_stop_input(S, f) == config_end(S, f)
vty_down_level(S, f) == config_exit(S, f)

(* Fault: a new value waits for the next key before it counts. *)
NotRestarted(S, f, t) == [S EXCEPT !.vty_timeout_val = t, !.vty[f].v_timeout = t]

exec_timeout(S, f, t) ==
    vty_event([S EXCEPT !.vty_timeout_val = t, !.vty[f].v_timeout = t], "VTY_TIMEOUT_RESET", f)

vty_restricted_mode(S, on) == [S EXCEPT !.restricted_mode = on]

config_terminal_length(S, f, n) == [S EXCEPT !.vty[f].lines = n]

(* A line is a password where one is asked for, else a command if the node has it;    *)
(* ^C, ^D (on an empty line) and ^Z are keys of a terminal.                           *)
Input(word, n) == [word |-> word, n |-> n]
KeyWords == {"^C", "^D", "^Z"}
Values(w) ==
    CASE w = "terminal length" -> {0, 24}
      [] w = "exec-timeout" -> Timeouts
      [] w = "anonymous restricted" -> {0, 1}      \* 0 with "no" before it
      [] OTHER -> {0}
Inputs == UNION {{Input(w, n) : n \in Values(w)} : w \in Words}
Lines == {i \in Inputs : i.word \notin KeyWords}

Command(S, f, i) ==
    LET node == S.vty[f].node
        w == i.word
    IN CASE w = "exit" -> config_exit(S, f)
         [] w = "end" -> config_end(S, f)
         [] w = "enable" /\ node \in {"VIEW", "RESTRICTED"} -> enable(S, f)
         [] w = "disable" /\ node = "ENABLE" -> disable(S, f)
         [] w = "configure terminal" /\ node = "ENABLE" -> config_terminal(S, f)
         [] w = "line vty" /\ node \in {"CONFIG", "VTY"} -> line_vty(S, f)
         [] w = "terminal length" /\ node \in {"VIEW", "RESTRICTED", "ENABLE"} -> config_terminal_length(S, f, i.n)
         [] w = "exec-timeout" /\ node = "VTY" -> exec_timeout(S, f, i.n)
         [] w = "anonymous restricted" /\ node = "VTY" -> vty_restricted_mode(S, i.n = 1)
         [] OTHER -> S

vty_execute(S, f, i) ==
    IF S.vty[f].node \in {"AUTH", "AUTH_ENABLE"} THEN vty_auth(S, f, i.word = "right") ELSE Command(S, f, i)

Typed(S, f, i) ==
    CASE S.vty[f].status = "VTY_MORE" -> S
      [] i.word = "^C" -> vty_stop_input(S, f)
      [] i.word = "^D" -> vty_down_level(S, f)
      [] i.word = "^Z" -> vty_end_config(S, f)
      [] OTHER -> vty_execute(S, f, i)

-------------------------------------------------------------------------------
(* The callbacks, as the states they may leave.  What read() and write() answer is up *)
(* to the client; a connection that is down ends the first and refuses the second,    *)
(* unless nothing is left to be written.                                              *)
ReadAnswers(S, f) == IF S.vty[f].down THEN {"end"} ELSE {"retry", "end", "data"}
FlushAnswers(S, f) == {"BUFFER_ERROR", "BUFFER_EMPTY"} \cup (IF S.vty[f].down THEN {} ELSE {"BUFFER_PENDING"})

(* vty_new() with what vty_create() and vtysh_accept() set. *)
vty_new(type, node, timeout, lines) ==
    [type |-> type, node |-> node, fail |-> 0, status |-> "VTY_NORMAL", lines |-> lines, v_timeout |-> timeout,
     t_read |-> FALSE, t_write |-> FALSE, t_timeout |-> FALSE, config |-> FALSE, down |-> FALSE]
vty_create(S, f) ==
    LET node == IF ~NoPasswordCheck THEN "AUTH"
                ELSE IF Advanced /\ ~S.restricted_mode THEN "ENABLE" ELSE Anonymous(S)
        new == [S EXCEPT !.vty[f] = vty_new("VTY_TERM", node, S.vty_timeout_val, IF HostLines >= 0 THEN HostLines ELSE -1)]
    IN IF ~NoPasswordCheck /\ ~HostPassword THEN vty_close(new, f)
       ELSE vty_event(vty_event(new, "VTY_WRITE", f), "VTY_READ", f)

(* The listening thread is added again first.  accept() gives the lowest descriptor   *)
(* that is free, or fails.                                                            *)
Lowest(S) == CHOOSE f \in Fds \ Live(S) : \A g \in Fds \ Live(S) : f <= g
Hear(S, t) == [S EXCEPT !.waiting = @ \cup {t}]
vty_accept(S) ==
    LET heard == Hear(S, Thread("vty_accept", 1))
    IN {heard} \cup (IF Live(S) = Fds THEN {} ELSE {vty_create(heard, Lowest(S))})
vtysh_accept(S) ==
    LET heard == Hear(S, Thread("vtysh_accept", 2))
        new == [heard EXCEPT !.vty[Lowest(S)] = vty_new("VTY_SHELL_SERV", "VIEW", 0, 0)]
    IN {heard} \cup (IF Live(S) = Fds THEN {} ELSE {vty_event(new, "VTYSH_READ", Lowest(S))})

(* Fault: the end of the input is taken for a read to be tried again. *)
EndIsRetry(S, f) ==
    LET known == [S EXCEPT !.vty[f].t_read = FALSE]
        After(data) == LET n == FoldLeft(LAMBDA k, i : Typed(k, f, i), known, data)
                       IN IF n.vty[f].status = "VTY_CLOSE" THEN vty_close(n, f)
                          ELSE vty_event(vty_event(n, "VTY_WRITE", f), "VTY_READ", f)
    IN UNION {IF a = "data" THEN {After(d) : d \in BoundedSeq(Inputs, MaxInputs)} ELSE {vty_event(known, "VTY_READ", f)}
              : a \in ReadAnswers(S, f)}

vty_read(S, f) ==
    LET known == [S EXCEPT !.vty[f].t_read = FALSE]
        After(data) == LET n == FoldLeft(LAMBDA k, i : Typed(k, f, i), known, data)
                       IN IF n.vty[f].status = "VTY_CLOSE" THEN vty_close(n, f)
                          ELSE vty_event(vty_event(n, "VTY_WRITE", f), "VTY_READ", f)
    IN UNION {CASE a = "retry" -> {vty_event(known, "VTY_READ", f)}
                [] a = "end" -> {vty_close(known, f)}
                [] a = "data" -> {After(d) : d \in BoundedSeq(Inputs, MaxInputs)}
              : a \in ReadAnswers(S, f)}

(* Fault: a terminal without pages is not read again once all is written. *)
NotReadAgain(S, f) ==
    LET known == [S EXCEPT !.vty[f].t_write = FALSE]
        nopage == S.vty[f].lines = 0
        off == IF nopage THEN [CancelKnown(known, f, "t_read", "vty_read") EXCEPT !.vty[f].t_read = FALSE] ELSE known
        more == [off EXCEPT !.vty[f].status = "VTY_MORE"]
    IN {CASE a = "BUFFER_ERROR" -> vty_close(off, f)
          [] a = "BUFFER_EMPTY" -> IF off.vty[f].status = "VTY_CLOSE" THEN vty_close(off, f)
                                   ELSE [off EXCEPT !.vty[f].status = "VTY_NORMAL"]
          [] a = "BUFFER_PENDING" -> IF nopage THEN vty_event(more, "VTY_WRITE", f) ELSE more
        : a \in FlushAnswers(S, f)}

(* Fault: the thread that reads is not cancelled. *)
ReaderKept(S, f) ==
    LET off == [S EXCEPT !.vty[f].t_write = FALSE]
        nopage == S.vty[f].lines = 0
        empty == [off EXCEPT !.vty[f].status = "VTY_NORMAL"]
        more == [off EXCEPT !.vty[f].status = "VTY_MORE"]
    IN {CASE a = "BUFFER_ERROR" -> vty_close(off, f)
          [] a = "BUFFER_EMPTY" -> IF off.vty[f].status = "VTY_CLOSE" THEN vty_close(off, f)
                                   ELSE IF nopage THEN vty_event(empty, "VTY_READ", f) ELSE empty
          [] a = "BUFFER_PENDING" -> IF nopage THEN vty_event(more, "VTY_WRITE", f) ELSE more
        : a \in FlushAnswers(S, f)}

vty_flush(S, f) ==
    LET known == [S EXCEPT !.vty[f].t_write = FALSE]
        nopage == S.vty[f].lines = 0
        off == IF nopage THEN [CancelKnown(known, f, "t_read", "vty_read") EXCEPT !.vty[f].t_read = FALSE] ELSE known
        empty == [off EXCEPT !.vty[f].status = "VTY_NORMAL"]
        more == [off EXCEPT !.vty[f].status = "VTY_MORE"]
    IN {CASE a = "BUFFER_ERROR" -> vty_close(off, f)
          [] a = "BUFFER_EMPTY" -> IF off.vty[f].status = "VTY_CLOSE" THEN vty_close(off, f)
                                   ELSE IF nopage THEN vty_event(empty, "VTY_READ", f) ELSE empty
          [] a = "BUFFER_PENDING" -> IF nopage THEN vty_event(more, "VTY_WRITE", f) ELSE more
        : a \in FlushAnswers(S, f)}

(* What is written to vtysh at once, later, or not at all: the session is closed. *)
vtysh_flush(S, f) ==
    {CASE a = "BUFFER_PENDING" -> vty_event(S, "VTYSH_WRITE", f)
       [] a = "BUFFER_ERROR" -> vty_close(S, f)
       [] a = "BUFFER_EMPTY" -> S
     : a \in FlushAnswers(S, f)}

(* Each line of what was read is executed and answered; the rest is dropped with the  *)
(* session.                                                                           *)
Answered(S, f, i) ==
    LET n == vty_execute(S, f, i) IN IF n.vty[f].t_write THEN {n} ELSE vtysh_flush(n, f)
vtysh_read(S, f) ==
    LET known == [S EXCEPT !.vty[f].t_read = FALSE]
        Step(states, i) == UNION {IF f \in Live(n) THEN Answered(n, f, i) ELSE {n} : n \in states}
        Again(n) == IF f \in Live(n) THEN vty_event(n, "VTYSH_READ", f) ELSE n
        After(data) == {Again(n) : n \in FoldLeft(Step, {known}, data)}
    IN UNION {CASE a = "retry" -> {vty_event(known, "VTYSH_READ", f)}
                [] a = "end" -> {vty_close(known, f)}
                [] a = "data" -> UNION {After(d) : d \in BoundedSeq(Lines, MaxInputs)}
              : a \in ReadAnswers(S, f)}

vtysh_write(S, f) == vtysh_flush([S EXCEPT !.vty[f].t_write = FALSE], f)

vty_timeout(S, f) == {vty_close([S EXCEPT !.vty[f].t_timeout = FALSE, !.vty[f].v_timeout = 0], f)}

-------------------------------------------------------------------------------
(* thread_fetch(): with nothing ready, timers that are due, then descriptors; those   *)
(* of a connection that is down are always found.                                     *)
Writer(t) == t.fn \in {"vty_flush", "vtysh_write"}
Down == {f \in Live(s) : s.vty[f].down}
Select(found) ==
    LET due == {Thread("vty_timeout", f) : f \in {g \in Fds : s.timer[g] = 0}}
    IN /\ s.ready = <<>>
       /\ found \subseteq s.waiting
       /\ \A t \in s.waiting \ found : t.fd \notin Down
       /\ due \cup found # {}
       /\ \E timers \in SetToAllKPermutations(due), rd \in SetToAllKPermutations({t \in found : ~Writer(t)}),
             wr \in SetToAllKPermutations({t \in found : Writer(t)}) :
            /\ Len(timers) = Cardinality(due) /\ Len(rd) + Len(wr) = Cardinality(found)
            /\ s' = [s EXCEPT !.ready = timers \o rd \o wr, !.waiting = @ \ found,
                              !.timer = [f \in Fds |-> IF @[f] = 0 THEN -1 ELSE @[f]]]

(* thread_call() of the first thread that is ready. *)
Call ==
    /\ s.ready # <<>>
    /\ LET t == Head(s.ready)
           S == [s EXCEPT !.ready = Tail(@)]
       IN s' \in CASE t.fn = "vty_accept" -> vty_accept(S)
                   [] t.fn = "vtysh_accept" -> vtysh_accept(S)
                   [] t.fn = "vty_read" -> vty_read(S, t.fd)
                   [] t.fn = "vty_flush" -> vty_flush(S, t.fd)
                   [] t.fn = "vtysh_read" -> vtysh_read(S, t.fd)
                   [] t.fn = "vtysh_write" -> vtysh_write(S, t.fd)
                   [] t.fn = "vty_timeout" -> vty_timeout(S, t.fd)

(* vty_log_out(): the log cannot be written to a terminal that monitors it. *)
vty_log_out(f) ==
    /\ f \in Terms(s) /\ ~s.vty[f].down
    /\ s' = [s EXCEPT !.vty[f].status = "VTY_CLOSE", !.vty[f].down = TRUE]

(* The client goes away. *)
HangUp(f) ==
    /\ f \in Live(s) /\ ~s.vty[f].down
    /\ s' = [s EXCEPT !.vty[f].down = TRUE]

(* At the top of the loop a signal resets the terminals: sessions of vtysh are not in *)
(* vtyvec and stay.  The program then listens again (vty_serv_sock()).                *)
vty_reset ==
    LET closed == FoldSet(LAMBDA f, S : vty_close(S, f), s, Terms(s))
        deaf == FoldSet(LAMBDA t, S : Cancel(S, t), closed, Listening)
    IN s' = [deaf EXCEPT !.vty_timeout_val = VTY_TIMEOUT_DEFAULT]
vty_serv_sock ==
    /\ \A t \in Listening : t \notin s.waiting \cup ToSet(s.ready)
    /\ s' = FoldSet(LAMBDA t, S : Hear(S, t), s, Listening)

Tick ==
    /\ \E f \in Fds : s.timer[f] > 0
    /\ s' = [s EXCEPT !.timer = [f \in Fds |-> IF @[f] > 0 THEN @[f] - 1 ELSE @[f]]]

Next ==
    \/ \E found \in SUBSET s.waiting : Select(found)
    \/ Call
    \/ \E f \in Fds : vty_log_out(f) \/ HangUp(f)
    \/ vty_reset \/ vty_serv_sock \/ Tick

(* The loop runs on. *)
Spec == Init /\ [][Next]_s
FairSpec == Spec /\ WF_s(Call) /\ WF_s(\E found \in SUBSET s.waiting : Select(found))

-------------------------------------------------------------------------------
Scheduled(t) == Cardinality({i \in DOMAIN s.ready : s.ready[i] = t}) + (IF t \in s.waiting THEN 1 ELSE 0)
TimeoutScheduled(f) == Scheduled(Thread("vty_timeout", f)) + (IF s.timer[f] >= 0 THEN 1 ELSE 0)
Count(known) == IF known THEN 1 ELSE 0

(* The state's shape.  After a read, three wrong passwords have closed a terminal or  *)
(* ended the question for the enable password.                                        *)
TypeOK ==
    /\ \A f \in Live(s) :
         /\ s.vty[f].node \in {"AUTH", "AUTH_ENABLE", "RESTRICTED", "VIEW", "ENABLE", "CONFIG", "VTY"}
         /\ s.vty[f].status \in {"VTY_NORMAL", "VTY_MORE", "VTY_CLOSE"}
         /\ s.vty[f].fail \in 0 .. 2
         /\ s.vty[f].v_timeout \in Timeouts
    /\ s.vty_config \in BOOLEAN /\ s.vty_timeout_val \in Timeouts

(* A session's t_read, t_write and t_timeout say exactly what is scheduled for it, no *)
(* thread twice, and when it is closed nothing of it is left: no callback meets freed *)
(* memory, or the session that was given the same descriptor.                         *)
HandlesExact ==
    \A f \in Fds :
      IF f \in Live(s)
      THEN /\ Scheduled(Thread(ReadOf(s, f), f)) = Count(s.vty[f].t_read)
           /\ Scheduled(Thread(WriteOf(s, f), f)) = Count(s.vty[f].t_write)
           /\ TimeoutScheduled(f) = Count(s.vty[f].t_timeout)
      ELSE /\ \A t \in s.waiting \cup ToSet(s.ready) : t.fd # f
           /\ s.timer[f] = -1

(* However reads, full buffers and `terminal length` follow each other, a session     *)
(* that is open is read or written again.                                             *)
NeverStranded == \A f \in Live(s) : s.vty[f].t_read \/ s.vty[f].t_write

(* A terminal with an exec-timeout has the clock running, and at most that long; one  *)
(* without has no clock left from before.                                             *)
IdleEnds ==
    \A f \in Terms(s) :
      /\ TimeoutScheduled(f) = Count(s.vty[f].v_timeout # 0)
      /\ s.timer[f] <= s.vty[f].v_timeout

(* The configuration is locked while one session that is open holds it, and whoever   *)
(* is in a configuration node is that one; every way out of it gives it back.         *)
LockExact ==
    LET holders == {f \in Live(s) : s.vty[f].config}
    IN /\ Cardinality(holders) = Count(s.vty_config)
       /\ \A f \in Live(s) : s.vty[f].node \in {"CONFIG", "VTY"} <=> f \in holders

(* A session whose connection is down is closed in the end. *)
GoneIsClosed == \A f \in Fds : (f \in Live(s) /\ s.vty[f].down) ~> (f \notin Live(s) \/ ~s.vty[f].down)
===============================================================================
