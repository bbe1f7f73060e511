------------------------------- MODULE MCShell --------------------------------
(***************************************************************************)
(* The library's shell, each part explored by itself: what a typed line     *)
(* matches, one terminal session with all that can be typed, two sessions   *)
(* and the configuration lock, the keys that edit a line, a buffer that is  *)
(* outgrown, the history; and of the loop that serves the sessions the heap *)
(* of timers, the order of a batch of threads, and two clients.             *)
(***************************************************************************)
EXTENDS MCCommandMatch, TLC

CONSTANTS
    SessionWords,              \* what is typed in a session, AllWords of VtyServer
    EnablePassword      \* of VtyServer

MCSessionWords ==
    {"right", "wrong", "exit", "enable", "disable", "configure terminal", "line vty",
     "end", "terminal length", "exec-timeout", "anonymous restricted", "^C", "^D", "^Z"}

VARIABLES part, s, v, did, past, m, mine, clock, loop, deadline, fetch, caught, signals, woken

match == vars
edited == <<v, did, past>>
master == <<m, mine, clock, loop, deadline, fetch, caught, signals, woken>>
all == <<part, match, s, edited, master>>

One == INSTANCE VtyServer WITH Fds <- {3}, Timeouts <- {0, 1}, MaxInputs <- 2, NoPasswordCheck <- FALSE,
                               Advanced <- FALSE, Words <- SessionWords, HostPassword <- TRUE, HostLines <- -1
Two == INSTANCE VtyServer WITH Fds <- {3, 4}, Timeouts <- {0}, Words <- {"configure terminal", "exit"},
                               MaxInputs <- 1, NoPasswordCheck <- TRUE, Advanced <- TRUE, HostPassword <- FALSE,
                               HostLines <- 0

Letter == {"a", "b", " "}
EditKeys == {"^A", "^B", "^C", "^D", "^E", "^F", "^H", "^K", "^T", "^U", "^W", "?", "ESC"}
Edit == INSTANCE VtyLine WITH Letters <- Letter, VTY_BUFSIZ <- 16, VTY_MAXHIST <- 2, MaxLine <- 4, MaxCommand <- 0,
                              Keys <- EditKeys \cup {"TAB"}
Grow == INSTANCE VtyLine WITH Letters <- {"a", " "}, VTY_BUFSIZ <- 2, VTY_MAXHIST <- 1, MaxLine <- 4, MaxCommand <- 2,
                              Keys <- EditKeys \cup {"^Z", "TAB", "RET", "^P"}
History == INSTANCE VtyLine WITH Letters <- Letter, VTY_BUFSIZ <- 8, VTY_MAXHIST <- 3, MaxLine <- 1, MaxCommand <- 1,
                                 Keys <- {"RET", "^P", "^N", "^C", "^H"}

Heap == INSTANCE ThreadClients WITH Owners <- {"o1"}, Fd <- [o \in {"o1"} |-> 1], Kinds <- {"timer"}, Delays <- {0, 1},
                                    MaxTime <- 0, MaxSignals <- 0, MaxThreads <- 6

Batch == INSTANCE ThreadClients WITH Owners <- {"o1"}, Fd <- [o \in {"o1"} |-> 1],
                                     Kinds <- {"read", "write", "event", "timer", "background"}, Delays <- {0, 1},
                                     MaxTime <- 1, MaxSignals <- 1, MaxThreads <- 3

Clients == INSTANCE ThreadClients WITH Owners <- {"o1", "o2"}, Fd <- [o \in {"o1", "o2"} |-> 1],
                                       Kinds <- {"read", "write", "event", "timer", "background"}, Delays <- {0, 1},
                                       MaxTime <- 1, MaxSignals <- 1, MaxThreads <- 2

NoLine == v = "none" /\ did = "none" /\ past = <<>>
NoMaster ==
    /\ m = "none" /\ mine = "none" /\ clock = 0 /\ loop = "none" /\ deadline = <<>> /\ fetch = "none"
    /\ caught = FALSE /\ signals = 0 /\ woken = FALSE
NoSession == s = "none"
NoMatch == commands = <<>> /\ vline = <<>> /\ szToken = "none" /\ reply = "none"

MCInit ==
    \/ part = "match" /\ Init /\ NoSession /\ NoLine /\ NoMaster
    \/ /\ NoMatch
       /\ \/ part = "session" /\ One!Init /\ NoLine /\ NoMaster
          \/ part = "two" /\ Two!Init /\ NoLine /\ NoMaster
          \/ part = "edit" /\ Edit!Init /\ NoSession /\ NoMaster
          \/ part = "grow" /\ Grow!Init /\ NoSession /\ NoMaster
          \/ part = "history" /\ History!Init /\ NoSession /\ NoMaster
          \/ part = "heap" /\ Heap!Init /\ NoSession /\ NoLine
          \/ part = "batch" /\ Batch!Init /\ NoSession /\ NoLine
          \/ part = "clients" /\ Clients!Init /\ NoSession /\ NoLine

MCNext ==
    \/ part = "match" /\ Next /\ UNCHANGED <<part, s, edited, master>>
    \/ part = "session" /\ One!Next /\ UNCHANGED <<part, match, edited, master>>
    \/ part = "two" /\ Two!Next /\ UNCHANGED <<part, match, edited, master>>
    \/ part = "edit" /\ Edit!Next /\ UNCHANGED <<part, match, s, master>>
    \/ part = "grow" /\ Grow!Next /\ UNCHANGED <<part, match, s, master>>
    \/ part = "history" /\ History!Next /\ UNCHANGED <<part, match, s, master>>
    \/ part = "heap" /\ Heap!Next /\ UNCHANGED <<part, match, s, edited>>
    \/ part = "batch" /\ Batch!Next /\ UNCHANGED <<part, match, s, edited>>
    \/ part = "clients" /\ Clients!Next /\ UNCHANGED <<part, match, s, edited>>

MCSpec == MCInit /\ [][MCNext]_all

-------------------------------------------------------------------------------
(* The properties of each part, as stated in its module. *)

(* A line that runs is a line of its command's grammar with each argument at its place,
   a command typed in full words runs whatever else the node holds, and an abbreviation
   of two commands runs neither (ExecutedDerives, ArgvFixed, FullWordsRun and
   AbbreviationUnique of CommandMatch). *)
MatchSound ==
    part = "match" => TypeOK /\ ExecutedDerives /\ ArgvFixed /\ FullWordsRun /\ AbbreviationUnique

(* The keys agree about a line where every command of the node is enabled: where "?"
   offers <cr>, RETURN runs a command, or two commands derive the line; and the word TAB
   completes to never spoils it.  For a command whose tokens are all terminals and not
   optional, the line written to the audit log runs it again (CrRuns, CompletionSound and
   LoggedRunsAgain of CommandMatch). *)
KeysAgree == part = "match" => CrRuns /\ CompletionSound /\ LoggedRunsAgain

(* An open session is served: its threads are those it knows, it is read or written
   again, its idle clock runs, and only an open session holds the configuration lock
   (HandlesExact, NeverStranded, IdleEnds and LockExact of VtyServer). *)
SessionServed ==
    /\ part = "session" => One!TypeOK /\ One!HandlesExact /\ One!NeverStranded
                             /\ One!IdleEnds /\ One!LockExact
    /\ part = "two" => Two!HandlesExact /\ Two!NeverStranded /\ Two!LockExact

(* The line is in its memory with nothing behind it unless it outgrew VTY_BUFSIZ, a line
   that did not is never read or written past its end, the terminal shows the line, and
   the ring holds the last commands (TypeOK, CleanTail, ShortLinesSafe, ScreenIsLine and
   HistoryIsRecent of VtyLine). *)
LineShown ==
    /\ part = "edit" => Edit!TypeOK /\ Edit!CleanTail /\ Edit!ScreenIsLine /\ Edit!ShortLinesSafe
    /\ part = "grow" => Grow!TypeOK /\ Grow!CleanTail /\ Grow!ScreenIsLine /\ Grow!ShortLinesSafe
    /\ part = "history" => History!TypeOK /\ History!CleanTail /\ History!ScreenIsLine
                             /\ History!HistoryIsRecent

(* The heap of timers stays in order wherever a timer is removed, threads that are
   ready together run in their order and no timer before its time, and of the threads
   of two clients none is lost and none runs that was cancelled (TimersInHeapOrder,
   BatchInOrder, NotEarly and ScheduledIsWanted of ThreadClients). *)
LoopInOrder ==
    /\ part = "heap" => Heap!TimersInHeapOrder
    /\ part = "batch" => Batch!BatchInOrder /\ Batch!NotEarly
    /\ part = "clients" => Clients!ScheduledIsWanted /\ Clients!OnlyListedDescriptors

(* Each key changes the line only where it says (KeysEdit of VtyLine). *)
LineEdited ==
    [][/\ part = "edit" => Edit!Edited
       /\ part = "grow" /\ v'.fault = "none" => Grow!Edited]_all
===============================================================================
