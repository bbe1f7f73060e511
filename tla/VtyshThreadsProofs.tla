------------------------- MODULE VtyshThreadsProofs -------------------------
(* Proofs of the safety invariants of VtyshThreads, for every set of       *)
(* commands and every bound.                                               *)
EXTENDS VtyshThreads, TLAPS

(* "exit" puts "configure terminal" before what is still to be executed.   *)
LEMMA OneMore ==
  ASSUME NEW S, NEW x \in S, NEW n \in Nat, NEW s \in Seq(S), Len(s) < n
  PROVE  <<x>> \o s \in Seq(S) /\ Len(<<x>> \o s) <= n
OBVIOUS

(* Every variable keeps its type; in particular the loop over              *)
(* vty->index_list never counts below zero and the nesting of aliases      *)
(* stays within its bound.                                                 *)
THEOREM TypeCorrect == Spec => []TypeOK
<1>1. Init => TypeOK /\ EntryLeft
  <2> SUFFICES ASSUME Init PROVE TypeOK /\ EntryLeft
    OBVIOUS
  <2>1. /\ latch \in BOOLEAN /\ due \in BOOLEAN /\ ready \in BOOLEAN
        /\ cfgNo \in BOOLEAN /\ txn \in {"none", "open", "left"}
    BY DEF Init
  <2>2. /\ cli \in CliLabels \ Dispatched /\ poll \in PollLabels
        /\ owner \in {"none", "cli", "poll"}
    BY DEF Init, CliLabels, PollLabels, Dispatched
  <2>3. /\ cmd \in Cmds /\ up \in 0..MaxUp /\ left \in 0..MaxRange
        /\ todo \in Seq(Cmds) /\ Len(todo) <= MaxTodo
        /\ downs \in 0..MaxDown /\ sigs \in 0..MaxSignals
    BY CmdsAssumption, BoundsAssumption DEF Init
  <2>4. /\ idl \in [live : BOOLEAN, loaded : BOOLEAN, cfg : BOOLEAN]
        /\ db \in [up : BOOLEAN, cfg : BOOLEAN, pending : BOOLEAN]
    BY DEF Init
  <2>. QED BY <2>1, <2>2, <2>3, <2>4 DEF TypeOK, EntryLeft
<1>2. TypeOK /\ EntryLeft /\ [Next]_vars => (TypeOK /\ EntryLeft)'
  <2> SUFFICES ASSUME TypeOK /\ EntryLeft, [Next]_vars PROVE (TypeOK /\
      EntryLeft)'
    OBVIOUS
  <2> USE CmdsAssumption, BoundsAssumption
      DEF vars, wake, job, store, Cli, CliLock, Func, Poll, Server, Signal,
          LOCK, UNLOCK, TypeOK, CliLabels, PollLabels, EntryLeft, Dispatched
  <2>1. CASE CliStep
    <3>1. CASE EnableUnlock
      BY <3>1 DEF EnableUnlock, DbReady
    <3>2. CASE Boot
      BY <3>2 DEF Boot
    <3>3. CASE PromptUnlock
      BY <3>3 DEF PromptUnlock
    <3>4. CASE MatchWords
      BY <3>4 DEF MatchWords, Lookup, NotFound, Return, Found
    <3>5. CASE MatchIfnameUnlock
      BY <3>5 DEF MatchIfnameUnlock, Lookup, NotFound, Return, Found
    <3>6. CASE ReadyUnlock
      BY <3>6 DEF ReadyUnlock, DbReady
    <3>7. CASE Authorize
      BY <3>7 DEF Authorize, Lookup, NotFound, Return
    <3>8. CASE DispatchDaemon
      BY <3>8 DEF DispatchDaemon, Dispatch
    <3>9. CASE DispatchLocked
      BY <3>9 DEF DispatchLocked, Dispatch
    <3>10. CASE DispatchNolock
      BY <3>10 DEF DispatchNolock, Dispatch
    <3>11. CASE Gate
      BY <3>11 DEF Gate, DbReady
    <3>12. CASE FuncShow
      BY <3>12 DEF FuncShow
    <3>13. CASE FuncShell
      BY <3>13 DEF FuncShell
    <3>14. CASE FuncMode
      BY <3>14 DEF FuncMode
    <3>15. CASE TxnStart
      BY <3>15 DEF TxnStart, CfgInitialized
    <3>16. CASE TxnAbort
      BY <3>16 DEF TxnAbort, TxnEnd
    <3>28. CASE TxnReturn
      BY <3>28 DEF TxnReturn, TxnEnd
    <3>17. CASE TxnCommit
      BY <3>17 DEF TxnCommit, TxnEnd, IdlRun
    <3>18. CASE CmdUnlock
      BY <3>18 DEF CmdUnlock, EndRound, Return
    <3>19. CASE NolockSkip
      BY <3>19 DEF NolockSkip
    <3>20. CASE NolockUnlock
      BY <3>20 DEF NolockUnlock, DbReady, EndRound, Return
    <3>21. CASE NolockShell
      BY <3>21 DEF NolockShell
    <3>22. CASE \E body \in Bodies : NolockAlias(body)
      BY <3>22 DEF NolockAlias, Bodies
    <3>23. CASE RunNested
      BY <3>23 DEF RunNested
    <3>24. CASE DaemonExit
      <4>1. todo' \in Seq(Cmds) /\ Len(todo') <= MaxTodo
        <5>1. todo' = todo \/ (Len(todo) < MaxTodo /\ todo' = <<ConfTerm>> \o todo)
          BY <3>24 DEF DaemonExit
        <5>2. todo \in Seq(Cmds) /\ Len(todo) <= MaxTodo /\ MaxTodo \in Nat /\ ConfTerm \in Cmds
          OBVIOUS
        <5>3. Len(todo) < MaxTodo =>
                <<ConfTerm>> \o todo \in Seq(Cmds) /\ Len(<<ConfTerm>> \o todo) <= MaxTodo
          BY <5>2, OneMore, Zenon
        <5>. QED BY <5>1, <5>2, <5>3, Zenon
      <4>2. cli' \in {"prompt", "nested", "gone"}
        BY <3>24 DEF DaemonExit, Return
      <4>3. UNCHANGED <<poll, sigs, owner, wake, cmd, up, left, store>>
        BY <3>24 DEF DaemonExit
      <4>. QED BY <4>1, <4>2, <4>3
    <3>25. CASE DaemonMode
      BY <3>25 DEF DaemonMode, Return
    <3>26. CASE ExitDestroy
      BY <3>26 DEF ExitDestroy
    <3>27. CASE Exit
      BY <3>27 DEF Exit
    <3>. QED BY <2>1, <3>1, <3>2, <3>3, <3>4, <3>5, <3>6, <3>7, <3>8, <3>9,
        <3>10, <3>11, <3>12, <3>13, <3>14, <3>15, <3>16, <3>17, <3>18, <3>19,
        <3>20, <3>21, <3>22, <3>23, <3>24, <3>25, <3>26, <3>27, <3>28
        DEF CliStep
  <2>2. CASE CliLocks
    <3>1. CASE EnableLock
      BY <3>1 DEF EnableLock
    <3>2. CASE PromptLock
      BY <3>2 DEF PromptLock
    <3>3. CASE MatchIfnameLock
      BY <3>3 DEF MatchIfnameLock
    <3>4. CASE ReadyLock
      BY <3>4 DEF ReadyLock
    <3>5. CASE CmdLock
      BY <3>5 DEF CmdLock
    <3>6. CASE NolockLock
      BY <3>6 DEF NolockLock
    <3>7. CASE ExitLock
      BY <3>7 DEF ExitLock
    <3>. QED BY <2>2, <3>1, <3>2, <3>3, <3>4, <3>5, <3>6, <3>7 DEF CliLocks
  <2>3. CASE UserStep
    <3>1. CASE \E c \in Cmds : ReadLine(c)
      BY <3>1 DEF ReadLine
    <3>2. CASE ReadEof
      BY <3>2 DEF ReadEof
    <3>3. CASE MoreKey
      BY <3>3 DEF MoreKey
    <3>4. CASE ChildExit
      BY <3>4 DEF ChildExit
    <3>5. CASE NolockChildExit
      BY <3>5 DEF NolockChildExit, EndRound, Return
    <3>6. CASE SigInt
      BY <3>6 DEF SigInt
    <3>7. CASE SigTstp
      BY <3>7 DEF SigTstp
    <3>. QED BY <2>3, <3>1, <3>2, <3>3, <3>4, <3>5, <3>6, <3>7 DEF UserStep
  <2>4. CASE PollStep
    <3>1. CASE PollRun
      <4>1. due' \in BOOLEAN /\ UNCHANGED <<cli, owner, latch, job, ready,
          cfgNo, txn, downs, sigs>>
        BY <3>1 DEF PollRun
      <4>2. poll' \in PollLabels
        BY <3>1 DEF PollRun
      <4>3. /\ idl' \in [live : BOOLEAN, loaded : BOOLEAN, cfg : BOOLEAN]
            /\ db' \in [up : BOOLEAN, cfg : BOOLEAN, pending : BOOLEAN]
        BY <3>1 DEF PollRun, IdlRun
      <4>. QED BY <4>1, <4>2, <4>3
    <3>2. CASE PollRefresh
      BY <3>2 DEF PollRefresh
    <3>3. CASE PollUnlock
      BY <3>3 DEF PollUnlock
    <3>4. CASE PollWake
      BY <3>4 DEF PollWake
    <3>5. CASE LatchPoll
      <4>1. latch' \in BOOLEAN
        BY <3>5 DEF LatchPoll
      <4>2. poll' \in PollLabels /\ UNCHANGED <<cli, owner, due, job, store,
          sigs>>
        BY <3>5 DEF LatchPoll
      <4>. QED BY <4>1, <4>2
    <3>6. CASE PollAssert
      BY <3>6 DEF PollAssert
    <3>. QED BY <2>4, <3>1, <3>2, <3>3, <3>4, <3>5, <3>6 DEF PollStep
  <2>5. CASE PollLock
    BY <2>5 DEF PollLock
  <2>6. CASE PollExit
    BY <2>6 DEF PollExit
  <2>7. CASE PollTimer
    BY <2>7 DEF PollTimer
  <2>8. CASE DbChange
    <3>1. db' \in [up : BOOLEAN, cfg : BOOLEAN, pending : BOOLEAN]
      <4>1. db.cfg \in BOOLEAN
        OBVIOUS
      <4>2. PICK cfg \in BOOLEAN : db' = [up |-> TRUE, cfg |-> cfg, pending
          |-> TRUE]
        BY <2>8, <4>1 DEF DbChange
      <4>. QED BY <4>2
    <3>2. UNCHANGED <<cli, poll, owner, wake, job, ready, cfgNo, txn, idl,
        downs, sigs>>
      BY <2>8 DEF DbChange
    <3>. QED BY <3>1, <3>2
  <2>9. CASE DbDown
    BY <2>9 DEF DbDown
  <2>10. CASE DbUp
    <3>1. db' \in [up : BOOLEAN, cfg : BOOLEAN, pending : BOOLEAN]
      <4>1. db.cfg \in BOOLEAN
        OBVIOUS
      <4>2. PICK cfg \in BOOLEAN : db' = [up |-> TRUE, cfg |-> cfg, pending
          |-> TRUE]
        BY <2>10, <4>1 DEF DbUp
      <4>. QED BY <4>2
    <3>2. UNCHANGED <<cli, poll, owner, wake, job, ready, cfgNo, txn, idl,
        downs, sigs>>
      BY <2>10 DEF DbUp
    <3>. QED BY <3>1, <3>2
  <2>11. CASE Terminated
    BY <2>11 DEF Terminated
  <2>12. CASE UNCHANGED vars
    BY <2>12
  <2>. QED BY <2>1, <2>2, <2>3, <2>4, <2>5, <2>6, <2>7, <2>8, <2>9, <2>10,
      <2>11, <2>12 DEF Next
<1>. QED BY <1>1, <1>2, PTL DEF Spec

(* Until a signal is handled, the mutex is owned by the thread whose       *)
(* critical section it is, and a transaction is open only in its handler.  *)
(* On every path of cmd_execute_command_real the two macros are paired.       *)
THEOREM LockDiscipline == Spec => []LockOwned
<1>1. Init => LockOwned
  BY DEF Init, LockOwned, CliCS, PollCS
<1>2. TypeOK => sigs \in Nat
  BY BoundsAssumption DEF TypeOK
<1>3. LockOwned /\ TypeOK /\ [Next]_vars => (LockOwned)'
  <2> SUFFICES ASSUME LockOwned, TypeOK, [Next]_vars PROVE (LockOwned)'
    OBVIOUS
  <2> USE DEF vars, wake, job, store, Cli, CliLock, Func, Poll, Server,
      Signal, LOCK, UNLOCK, LockOwned, CliCS, PollCS
  <2>1. CASE CliStep
    <3>1. CASE EnableUnlock
      BY <3>1 DEF EnableUnlock, DbReady
    <3>2. CASE Boot
      BY <3>2 DEF Boot
    <3>3. CASE PromptUnlock
      BY <3>3 DEF PromptUnlock
    <3>4. CASE MatchWords
      BY <3>4 DEF MatchWords, Lookup, NotFound, Return, Found
    <3>5. CASE MatchIfnameUnlock
      BY <3>5 DEF MatchIfnameUnlock, Lookup, NotFound, Return, Found
    <3>6. CASE ReadyUnlock
      BY <3>6 DEF ReadyUnlock, DbReady
    <3>7. CASE Authorize
      BY <3>7 DEF Authorize, Lookup, NotFound, Return
    <3>8. CASE DispatchDaemon
      BY <3>8 DEF DispatchDaemon, Dispatch
    <3>9. CASE DispatchLocked
      BY <3>9 DEF DispatchLocked, Dispatch
    <3>10. CASE DispatchNolock
      BY <3>10 DEF DispatchNolock, Dispatch
    <3>11. CASE Gate
      BY <3>11 DEF Gate, DbReady
    <3>12. CASE FuncShow
      BY <3>12 DEF FuncShow
    <3>13. CASE FuncShell
      BY <3>13 DEF FuncShell
    <3>14. CASE FuncMode
      BY <3>14 DEF FuncMode
    <3>15. CASE TxnStart
      BY <3>15 DEF TxnStart
    <3>16. CASE TxnAbort
      BY <3>16 DEF TxnAbort, TxnEnd
    <3>28. CASE TxnReturn
      BY <3>28 DEF TxnReturn, TxnEnd
    <3>17. CASE TxnCommit
      BY <3>17 DEF TxnCommit, TxnEnd, IdlRun
    <3>18. CASE CmdUnlock
      BY <3>18 DEF CmdUnlock, EndRound, Return
    <3>19. CASE NolockSkip
      BY <3>19 DEF NolockSkip
    <3>20. CASE NolockUnlock
      BY <3>20 DEF NolockUnlock, DbReady, EndRound, Return
    <3>21. CASE NolockShell
      BY <3>21 DEF NolockShell
    <3>22. CASE \E body \in Bodies : NolockAlias(body)
      BY <3>22 DEF NolockAlias, Bodies
    <3>23. CASE RunNested
      BY <3>23 DEF RunNested
    <3>24. CASE DaemonExit
      BY <3>24 DEF DaemonExit, Return
    <3>25. CASE DaemonMode
      BY <3>25 DEF DaemonMode, Return
    <3>26. CASE ExitDestroy
      BY <3>26 DEF ExitDestroy
    <3>27. CASE Exit
      BY <3>27 DEF Exit
    <3>. QED BY <2>1, <3>1, <3>2, <3>3, <3>4, <3>5, <3>6, <3>7, <3>8, <3>9,
        <3>10, <3>11, <3>12, <3>13, <3>14, <3>15, <3>16, <3>17, <3>18, <3>19,
        <3>20, <3>21, <3>22, <3>23, <3>24, <3>25, <3>26, <3>27, <3>28
        DEF CliStep
  <2>2. CASE CliLocks
    <3>1. CASE EnableLock
      BY <3>1 DEF EnableLock
    <3>2. CASE PromptLock
      BY <3>2 DEF PromptLock
    <3>3. CASE MatchIfnameLock
      BY <3>3 DEF MatchIfnameLock
    <3>4. CASE ReadyLock
      BY <3>4 DEF ReadyLock
    <3>5. CASE CmdLock
      BY <3>5 DEF CmdLock
    <3>6. CASE NolockLock
      BY <3>6 DEF NolockLock
    <3>7. CASE ExitLock
      BY <3>7 DEF ExitLock
    <3>. QED BY <2>2, <3>1, <3>2, <3>3, <3>4, <3>5, <3>6, <3>7 DEF CliLocks
  <2>3. CASE UserStep
    <3>1. CASE \E c \in Cmds : ReadLine(c)
      BY <3>1 DEF ReadLine
    <3>2. CASE ReadEof
      BY <3>2 DEF ReadEof
    <3>3. CASE MoreKey
      BY <3>3 DEF MoreKey
    <3>4. CASE ChildExit
      BY <3>4 DEF ChildExit
    <3>5. CASE NolockChildExit
      BY <3>5 DEF NolockChildExit, EndRound, Return
    <3>6. CASE SigInt
      BY <3>6, <1>2 DEF SigInt
    <3>7. CASE SigTstp
      BY <3>7, <1>2 DEF SigTstp
    <3>. QED BY <2>3, <3>1, <3>2, <3>3, <3>4, <3>5, <3>6, <3>7 DEF UserStep
  <2>4. CASE PollStep
    <3>1. CASE PollRun
      BY <3>1 DEF PollRun, IdlRun
    <3>2. CASE PollRefresh
      BY <3>2 DEF PollRefresh
    <3>3. CASE PollUnlock
      BY <3>3 DEF PollUnlock
    <3>4. CASE PollWake
      BY <3>4 DEF PollWake
    <3>5. CASE LatchPoll
      BY <3>5 DEF LatchPoll
    <3>6. CASE PollAssert
      BY <3>6 DEF PollAssert
    <3>. QED BY <2>4, <3>1, <3>2, <3>3, <3>4, <3>5, <3>6 DEF PollStep
  <2>5. CASE PollLock
    BY <2>5 DEF PollLock
  <2>6. CASE PollExit
    BY <2>6 DEF PollExit
  <2>7. CASE PollTimer
    BY <2>7 DEF PollTimer
  <2>8. CASE DbChange
    BY <2>8 DEF DbChange
  <2>9. CASE DbDown
    BY <2>9 DEF DbDown
  <2>10. CASE DbUp
    BY <2>10 DEF DbUp
  <2>11. CASE Terminated
    BY <2>11 DEF Terminated
  <2>12. CASE UNCHANGED vars
    BY <2>12
  <2>. QED BY <2>1, <2>2, <2>3, <2>4, <2>5, <2>6, <2>7, <2>8, <2>9, <2>10,
      <2>11, <2>12 DEF Next
<1>. QED BY <1>1, <1>3, TypeCorrect, PTL DEF Spec

(* The two threads are never both between a VTYSH_OVSDB_LOCK and its       *)
(* VTYSH_OVSDB_UNLOCK before a signal is handled.                          *)
THEOREM ThreadsExclude == Spec => []MutualExclusion
<1>1. LockOwned => MutualExclusion
  BY DEF LockOwned, MutualExclusion, CliCS
<1>. QED BY <1>1, LockDiscipline, PTL

(* Before a signal is handled, a transaction is open only inside its       *)
(* handler, which holds the mutex; the ones that handlers leave behind are *)
(* the subject of LeftStaysLeft.                                           *)
THEOREM TxnIsLocked == Spec => []TxnUnderLock
<1>1. LockOwned => TxnUnderLock
  BY DEF LockOwned, TxnUnderLock, CliCS
<1>. QED BY <1>1, LockDiscipline, PTL

(* The latch that a locked command sets is still set when the poll thread  *)
(* goes to sleep without having run idl in between.                        *)
THEOREM WakeupIsKept == Spec => []NoLostWakeup
<1>1. Init => NoLostWakeup
  BY DEF Init, NoLostWakeup
<1>2. NoLostWakeup /\ [Next]_vars => (NoLostWakeup)'
  <2> SUFFICES ASSUME NoLostWakeup, [Next]_vars PROVE (NoLostWakeup)'
    OBVIOUS
  <2> USE DEF vars, wake, job, store, Cli, CliLock, Func, Poll, Server,
      Signal, LOCK, UNLOCK, NoLostWakeup
  <2>1. CASE CliStep
    <3>1. CASE EnableUnlock
      BY <3>1 DEF EnableUnlock, DbReady
    <3>2. CASE Boot
      BY <3>2 DEF Boot
    <3>3. CASE PromptUnlock
      BY <3>3 DEF PromptUnlock
    <3>4. CASE MatchWords
      BY <3>4 DEF MatchWords, Lookup, NotFound, Return, Found
    <3>5. CASE MatchIfnameUnlock
      BY <3>5 DEF MatchIfnameUnlock, Lookup, NotFound, Return, Found
    <3>6. CASE ReadyUnlock
      BY <3>6 DEF ReadyUnlock, DbReady
    <3>7. CASE Authorize
      BY <3>7 DEF Authorize, Lookup, NotFound, Return
    <3>8. CASE DispatchDaemon
      BY <3>8 DEF DispatchDaemon, Dispatch
    <3>9. CASE DispatchLocked
      BY <3>9 DEF DispatchLocked, Dispatch
    <3>10. CASE DispatchNolock
      BY <3>10 DEF DispatchNolock, Dispatch
    <3>11. CASE Gate
      BY <3>11 DEF Gate, DbReady
    <3>12. CASE FuncShow
      BY <3>12 DEF FuncShow
    <3>13. CASE FuncShell
      BY <3>13 DEF FuncShell
    <3>14. CASE FuncMode
      BY <3>14 DEF FuncMode
    <3>15. CASE TxnStart
      BY <3>15 DEF TxnStart
    <3>16. CASE TxnAbort
      BY <3>16 DEF TxnAbort, TxnEnd
    <3>28. CASE TxnReturn
      BY <3>28 DEF TxnReturn, TxnEnd
    <3>17. CASE TxnCommit
      BY <3>17 DEF TxnCommit, TxnEnd, IdlRun
    <3>18. CASE CmdUnlock
      BY <3>18 DEF CmdUnlock, EndRound, Return
    <3>19. CASE NolockSkip
      BY <3>19 DEF NolockSkip
    <3>20. CASE NolockUnlock
      BY <3>20 DEF NolockUnlock, DbReady, EndRound, Return
    <3>21. CASE NolockShell
      BY <3>21 DEF NolockShell
    <3>22. CASE \E body \in Bodies : NolockAlias(body)
      BY <3>22 DEF NolockAlias, Bodies
    <3>23. CASE RunNested
      BY <3>23 DEF RunNested
    <3>24. CASE DaemonExit
      BY <3>24 DEF DaemonExit, Return
    <3>25. CASE DaemonMode
      BY <3>25 DEF DaemonMode, Return
    <3>26. CASE ExitDestroy
      BY <3>26 DEF ExitDestroy
    <3>27. CASE Exit
      BY <3>27 DEF Exit
    <3>. QED BY <2>1, <3>1, <3>2, <3>3, <3>4, <3>5, <3>6, <3>7, <3>8, <3>9,
        <3>10, <3>11, <3>12, <3>13, <3>14, <3>15, <3>16, <3>17, <3>18, <3>19,
        <3>20, <3>21, <3>22, <3>23, <3>24, <3>25, <3>26, <3>27, <3>28
        DEF CliStep
  <2>2. CASE CliLocks
    <3>1. CASE EnableLock
      BY <3>1 DEF EnableLock
    <3>2. CASE PromptLock
      BY <3>2 DEF PromptLock
    <3>3. CASE MatchIfnameLock
      BY <3>3 DEF MatchIfnameLock
    <3>4. CASE ReadyLock
      BY <3>4 DEF ReadyLock
    <3>5. CASE CmdLock
      BY <3>5 DEF CmdLock
    <3>6. CASE NolockLock
      BY <3>6 DEF NolockLock
    <3>7. CASE ExitLock
      BY <3>7 DEF ExitLock
    <3>. QED BY <2>2, <3>1, <3>2, <3>3, <3>4, <3>5, <3>6, <3>7 DEF CliLocks
  <2>3. CASE UserStep
    <3>1. CASE \E c \in Cmds : ReadLine(c)
      BY <3>1 DEF ReadLine
    <3>2. CASE ReadEof
      BY <3>2 DEF ReadEof
    <3>3. CASE MoreKey
      BY <3>3 DEF MoreKey
    <3>4. CASE ChildExit
      BY <3>4 DEF ChildExit
    <3>5. CASE NolockChildExit
      BY <3>5 DEF NolockChildExit, EndRound, Return
    <3>6. CASE SigInt
      BY <3>6 DEF SigInt
    <3>7. CASE SigTstp
      BY <3>7 DEF SigTstp
    <3>. QED BY <2>3, <3>1, <3>2, <3>3, <3>4, <3>5, <3>6, <3>7 DEF UserStep
  <2>4. CASE PollStep
    <3>1. CASE PollRun
      BY <3>1 DEF PollRun, IdlRun
    <3>2. CASE PollRefresh
      BY <3>2 DEF PollRefresh
    <3>3. CASE PollUnlock
      BY <3>3 DEF PollUnlock
    <3>4. CASE PollWake
      BY <3>4 DEF PollWake
    <3>5. CASE LatchPoll
      BY <3>5 DEF LatchPoll
    <3>6. CASE PollAssert
      BY <3>6 DEF PollAssert
    <3>. QED BY <2>4, <3>1, <3>2, <3>3, <3>4, <3>5, <3>6 DEF PollStep
  <2>5. CASE PollLock
    BY <2>5 DEF PollLock
  <2>6. CASE PollExit
    BY <2>6 DEF PollExit
  <2>7. CASE PollTimer
    BY <2>7 DEF PollTimer
  <2>8. CASE DbChange
    BY <2>8 DEF DbChange
  <2>9. CASE DbDown
    BY <2>9 DEF DbDown
  <2>10. CASE DbUp
    BY <2>10 DEF DbUp
  <2>11. CASE Terminated
    BY <2>11 DEF Terminated
  <2>12. CASE UNCHANGED vars
    BY <2>12
  <2>. QED BY <2>1, <2>2, <2>3, <2>4, <2>5, <2>6, <2>7, <2>8, <2>9, <2>10,
      <2>11, <2>12 DEF Next
<1>. QED BY <1>1, <1>2, PTL DEF Spec

(* A handler that is past cli_do_config_start has the transaction it       *)
(* started, whatever commands and signals left one behind before it.       *)
THEOREM HandlersHaveTheirTxn == Spec => []HandlerHasTxn
<1>1. Init => HandlerHasTxn
  BY DEF Init, HandlerHasTxn
<1>2. HandlerHasTxn /\ [Next]_vars => (HandlerHasTxn)'
  <2> SUFFICES ASSUME HandlerHasTxn, [Next]_vars PROVE (HandlerHasTxn)'
    OBVIOUS
  <2> USE DEF vars, wake, job, store, Cli, CliLock, Func, Poll, Server,
      Signal, LOCK, UNLOCK, HandlerHasTxn
  <2>1. CASE CliStep
    <3>1. CASE EnableUnlock
      BY <3>1 DEF EnableUnlock, DbReady
    <3>2. CASE Boot
      BY <3>2 DEF Boot
    <3>3. CASE PromptUnlock
      BY <3>3 DEF PromptUnlock
    <3>4. CASE MatchWords
      BY <3>4 DEF MatchWords, Lookup, NotFound, Return, Found
    <3>5. CASE MatchIfnameUnlock
      BY <3>5 DEF MatchIfnameUnlock, Lookup, NotFound, Return, Found
    <3>6. CASE ReadyUnlock
      BY <3>6 DEF ReadyUnlock, DbReady
    <3>7. CASE Authorize
      BY <3>7 DEF Authorize, Lookup, NotFound, Return
    <3>8. CASE DispatchDaemon
      BY <3>8 DEF DispatchDaemon, Dispatch
    <3>9. CASE DispatchLocked
      BY <3>9 DEF DispatchLocked, Dispatch
    <3>10. CASE DispatchNolock
      BY <3>10 DEF DispatchNolock, Dispatch
    <3>11. CASE Gate
      BY <3>11 DEF Gate, DbReady
    <3>12. CASE FuncShow
      BY <3>12 DEF FuncShow
    <3>13. CASE FuncShell
      BY <3>13 DEF FuncShell
    <3>14. CASE FuncMode
      BY <3>14 DEF FuncMode
    <3>15. CASE TxnStart
      BY <3>15 DEF TxnStart
    <3>16. CASE TxnAbort
      BY <3>16 DEF TxnAbort, TxnEnd
    <3>28. CASE TxnReturn
      BY <3>28 DEF TxnReturn, TxnEnd
    <3>17. CASE TxnCommit
      BY <3>17 DEF TxnCommit, TxnEnd, IdlRun
    <3>18. CASE CmdUnlock
      BY <3>18 DEF CmdUnlock, EndRound, Return
    <3>19. CASE NolockSkip
      BY <3>19 DEF NolockSkip
    <3>20. CASE NolockUnlock
      BY <3>20 DEF NolockUnlock, DbReady, EndRound, Return
    <3>21. CASE NolockShell
      BY <3>21 DEF NolockShell
    <3>22. CASE \E body \in Bodies : NolockAlias(body)
      BY <3>22 DEF NolockAlias, Bodies
    <3>23. CASE RunNested
      BY <3>23 DEF RunNested
    <3>24. CASE DaemonExit
      BY <3>24 DEF DaemonExit, Return
    <3>25. CASE DaemonMode
      BY <3>25 DEF DaemonMode, Return
    <3>26. CASE ExitDestroy
      BY <3>26 DEF ExitDestroy
    <3>27. CASE Exit
      BY <3>27 DEF Exit
    <3>. QED BY <2>1, <3>1, <3>2, <3>3, <3>4, <3>5, <3>6, <3>7, <3>8, <3>9,
        <3>10, <3>11, <3>12, <3>13, <3>14, <3>15, <3>16, <3>17, <3>18, <3>19,
        <3>20, <3>21, <3>22, <3>23, <3>24, <3>25, <3>26, <3>27, <3>28
        DEF CliStep
  <2>2. CASE CliLocks
    <3>1. CASE EnableLock
      BY <3>1 DEF EnableLock
    <3>2. CASE PromptLock
      BY <3>2 DEF PromptLock
    <3>3. CASE MatchIfnameLock
      BY <3>3 DEF MatchIfnameLock
    <3>4. CASE ReadyLock
      BY <3>4 DEF ReadyLock
    <3>5. CASE CmdLock
      BY <3>5 DEF CmdLock
    <3>6. CASE NolockLock
      BY <3>6 DEF NolockLock
    <3>7. CASE ExitLock
      BY <3>7 DEF ExitLock
    <3>. QED BY <2>2, <3>1, <3>2, <3>3, <3>4, <3>5, <3>6, <3>7 DEF CliLocks
  <2>3. CASE UserStep
    <3>1. CASE \E c \in Cmds : ReadLine(c)
      BY <3>1 DEF ReadLine
    <3>2. CASE ReadEof
      BY <3>2 DEF ReadEof
    <3>3. CASE MoreKey
      BY <3>3 DEF MoreKey
    <3>4. CASE ChildExit
      BY <3>4 DEF ChildExit
    <3>5. CASE NolockChildExit
      BY <3>5 DEF NolockChildExit, EndRound, Return
    <3>6. CASE SigInt
      BY <3>6 DEF SigInt
    <3>7. CASE SigTstp
      BY <3>7 DEF SigTstp
    <3>. QED BY <2>3, <3>1, <3>2, <3>3, <3>4, <3>5, <3>6, <3>7 DEF UserStep
  <2>4. CASE PollStep
    <3>1. CASE PollRun
      BY <3>1 DEF PollRun, IdlRun
    <3>2. CASE PollRefresh
      BY <3>2 DEF PollRefresh
    <3>3. CASE PollUnlock
      BY <3>3 DEF PollUnlock
    <3>4. CASE PollWake
      BY <3>4 DEF PollWake
    <3>5. CASE LatchPoll
      BY <3>5 DEF LatchPoll
    <3>6. CASE PollAssert
      BY <3>6 DEF PollAssert
    <3>. QED BY <2>4, <3>1, <3>2, <3>3, <3>4, <3>5, <3>6 DEF PollStep
  <2>5. CASE PollLock
    BY <2>5 DEF PollLock
  <2>6. CASE PollExit
    BY <2>6 DEF PollExit
  <2>7. CASE PollTimer
    BY <2>7 DEF PollTimer
  <2>8. CASE DbChange
    BY <2>8 DEF DbChange
  <2>9. CASE DbDown
    BY <2>9 DEF DbDown
  <2>10. CASE DbUp
    BY <2>10 DEF DbUp
  <2>11. CASE Terminated
    BY <2>11 DEF Terminated
  <2>12. CASE UNCHANGED vars
    BY <2>12
  <2>. QED BY <2>1, <2>2, <2>3, <2>4, <2>5, <2>6, <2>7, <2>8, <2>9, <2>10,
      <2>11, <2>12 DEF Next
<1>. QED BY <1>1, <1>2, PTL DEF Spec

(* What a handler wrote before it left its transaction is never committed  *)
(* by a later command: cli_do_config_start ends the process instead of     *)
(* handing the transaction out again.                                      *)
THEOREM LeftStaysLeft == Spec => LeftTxnIsKept
<1>1. HandlerHasTxn /\ [Next]_vars => (txn = "left" => txn' = "left")
  <2> SUFFICES ASSUME HandlerHasTxn, [Next]_vars, txn = "left"
               PROVE  txn' = "left"
    OBVIOUS
  <2> USE DEF vars, wake, job, store, Cli, CliLock, Func, Poll, Server,
      Signal, LOCK, UNLOCK, HandlerHasTxn
  <2>1. CASE CliStep
    <3>1. CASE EnableUnlock
      BY <3>1 DEF EnableUnlock, DbReady
    <3>2. CASE Boot
      BY <3>2 DEF Boot
    <3>3. CASE PromptUnlock
      BY <3>3 DEF PromptUnlock
    <3>4. CASE MatchWords
      BY <3>4 DEF MatchWords, Lookup, NotFound, Return, Found
    <3>5. CASE MatchIfnameUnlock
      BY <3>5 DEF MatchIfnameUnlock, Lookup, NotFound, Return, Found
    <3>6. CASE ReadyUnlock
      BY <3>6 DEF ReadyUnlock, DbReady
    <3>7. CASE Authorize
      BY <3>7 DEF Authorize, Lookup, NotFound, Return
    <3>8. CASE DispatchDaemon
      BY <3>8 DEF DispatchDaemon, Dispatch
    <3>9. CASE DispatchLocked
      BY <3>9 DEF DispatchLocked, Dispatch
    <3>10. CASE DispatchNolock
      BY <3>10 DEF DispatchNolock, Dispatch
    <3>11. CASE Gate
      BY <3>11 DEF Gate, DbReady
    <3>12. CASE FuncShow
      BY <3>12 DEF FuncShow
    <3>13. CASE FuncShell
      BY <3>13 DEF FuncShell
    <3>14. CASE FuncMode
      BY <3>14 DEF FuncMode
    <3>15. CASE TxnStart
      BY <3>15 DEF TxnStart
    <3>16. CASE TxnAbort
      BY <3>16 DEF TxnAbort, TxnEnd
    <3>28. CASE TxnReturn
      BY <3>28 DEF TxnReturn, TxnEnd
    <3>17. CASE TxnCommit
      BY <3>17 DEF TxnCommit, TxnEnd, IdlRun
    <3>18. CASE CmdUnlock
      BY <3>18 DEF CmdUnlock, EndRound, Return
    <3>19. CASE NolockSkip
      BY <3>19 DEF NolockSkip
    <3>20. CASE NolockUnlock
      BY <3>20 DEF NolockUnlock, DbReady, EndRound, Return
    <3>21. CASE NolockShell
      BY <3>21 DEF NolockShell
    <3>22. CASE \E body \in Bodies : NolockAlias(body)
      BY <3>22 DEF NolockAlias, Bodies
    <3>23. CASE RunNested
      BY <3>23 DEF RunNested
    <3>24. CASE DaemonExit
      BY <3>24 DEF DaemonExit, Return
    <3>25. CASE DaemonMode
      BY <3>25 DEF DaemonMode, Return
    <3>26. CASE ExitDestroy
      BY <3>26 DEF ExitDestroy
    <3>27. CASE Exit
      BY <3>27 DEF Exit
    <3>. QED BY <2>1, <3>1, <3>2, <3>3, <3>4, <3>5, <3>6, <3>7, <3>8, <3>9,
        <3>10, <3>11, <3>12, <3>13, <3>14, <3>15, <3>16, <3>17, <3>18, <3>19,
        <3>20, <3>21, <3>22, <3>23, <3>24, <3>25, <3>26, <3>27, <3>28
        DEF CliStep
  <2>2. CASE CliLocks
    <3>1. CASE EnableLock
      BY <3>1 DEF EnableLock
    <3>2. CASE PromptLock
      BY <3>2 DEF PromptLock
    <3>3. CASE MatchIfnameLock
      BY <3>3 DEF MatchIfnameLock
    <3>4. CASE ReadyLock
      BY <3>4 DEF ReadyLock
    <3>5. CASE CmdLock
      BY <3>5 DEF CmdLock
    <3>6. CASE NolockLock
      BY <3>6 DEF NolockLock
    <3>7. CASE ExitLock
      BY <3>7 DEF ExitLock
    <3>. QED BY <2>2, <3>1, <3>2, <3>3, <3>4, <3>5, <3>6, <3>7 DEF CliLocks
  <2>3. CASE UserStep
    <3>1. CASE \E c \in Cmds : ReadLine(c)
      BY <3>1 DEF ReadLine
    <3>2. CASE ReadEof
      BY <3>2 DEF ReadEof
    <3>3. CASE MoreKey
      BY <3>3 DEF MoreKey
    <3>4. CASE ChildExit
      BY <3>4 DEF ChildExit
    <3>5. CASE NolockChildExit
      BY <3>5 DEF NolockChildExit, EndRound, Return
    <3>6. CASE SigInt
      BY <3>6 DEF SigInt
    <3>7. CASE SigTstp
      BY <3>7 DEF SigTstp
    <3>. QED BY <2>3, <3>1, <3>2, <3>3, <3>4, <3>5, <3>6, <3>7 DEF UserStep
  <2>4. CASE PollStep
    <3>1. CASE PollRun
      BY <3>1 DEF PollRun, IdlRun
    <3>2. CASE PollRefresh
      BY <3>2 DEF PollRefresh
    <3>3. CASE PollUnlock
      BY <3>3 DEF PollUnlock
    <3>4. CASE PollWake
      BY <3>4 DEF PollWake
    <3>5. CASE LatchPoll
      BY <3>5 DEF LatchPoll
    <3>6. CASE PollAssert
      BY <3>6 DEF PollAssert
    <3>. QED BY <2>4, <3>1, <3>2, <3>3, <3>4, <3>5, <3>6 DEF PollStep
  <2>5. CASE PollLock
    BY <2>5 DEF PollLock
  <2>6. CASE PollExit
    BY <2>6 DEF PollExit
  <2>7. CASE PollTimer
    BY <2>7 DEF PollTimer
  <2>8. CASE DbChange
    BY <2>8 DEF DbChange
  <2>9. CASE DbDown
    BY <2>9 DEF DbDown
  <2>10. CASE DbUp
    BY <2>10 DEF DbUp
  <2>11. CASE Terminated
    BY <2>11 DEF Terminated
  <2>12. CASE UNCHANGED vars
    BY <2>12
  <2>. QED BY <2>1, <2>2, <2>3, <2>4, <2>5, <2>6, <2>7, <2>8, <2>9, <2>10,
      <2>11, <2>12 DEF Next
<1>. QED BY <1>1, HandlersHaveTheirTxn, PTL DEF Spec, LeftTxnIsKept

=============================================================================
