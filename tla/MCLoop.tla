-------------------------------- MODULE MCLoop --------------------------------
(***************************************************************************)
(* The loop of a program of the library with one client, and the sessions   *)
(* it serves with one descriptor for them; each explored by itself.         *)
(***************************************************************************)
EXTENDS ThreadClients

CONSTANTS SessionFds, Timeouts, MaxInputs, NoPasswordCheck, Advanced, EnablePassword

VARIABLES part, s

all == <<vars, part, s>>

Sessions == INSTANCE VtyServer WITH Fds <- SessionFds, Words <- {"exit", "terminal length"},
                                    HostPassword <- FALSE, HostLines <- -1

(* Owners who ask for the same descriptor. *)
MCFd == [o \in Owners |-> 1]

MCInit == Init /\ Sessions!Init /\ part \in {"threads", "sessions"}

MCNext ==
    \/ part = "threads" /\ Next /\ UNCHANGED <<part, s>>
    \/ part = "sessions" /\ Sessions!Next /\ UNCHANGED <<vars, part>>

InThreads(A) == part = "threads" /\ A /\ UNCHANGED <<part, s>>
InSessions(A) == part = "sessions" /\ A /\ UNCHANGED <<vars, part>>

MCFairness ==
    /\ WF_all(InThreads(Step))
    /\ WF_all(InSessions(Sessions!Call))
    /\ WF_all(InSessions(\E found \in SUBSET s.waiting : Sessions!Select(found)))

MCSafety == MCInit /\ [][MCNext]_all
MCSpec == MCSafety /\ MCFairness

-------------------------------------------------------------------------------
(* What is cancelled never runs and nothing that is scheduled is lost, and select() is
   asked for the descriptors of the threads that wait for one, each once
   (ScheduledIsWanted and OnlyListedDescriptors of ThreadClients). *)
NothingLost == TypeOK /\ ScheduledIsWanted /\ OnlyListedDescriptors

(* No timer runs before its time, and the loop never sleeps without an end while a
   thread is ready to run (NotEarly and ReadyNotSlept of ThreadClients). *)
TimersOnTime == NotEarly /\ ReadyNotSlept

(* A session whose connection is down is closed in the end (GoneIsClosed). *)
SessionGoneIsClosed == Sessions!GoneIsClosed
===============================================================================
