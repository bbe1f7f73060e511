---------------------------- MODULE VtyshThreads ----------------------------
(***************************************************************************)
(* The two threads of a vtysh process and what they share.                 *)
(*                                                                         *)
(* The command thread (vtysh/vtysh_main.c:main) prompts, reads a line and  *)
(* executes it (lib/command.c:cmd_execute_command_real).  The poll thread  *)
(* (vtysh/vtysh_ovsdb_if.c:vtysh_ovsdb_main_thread) keeps the replica idl  *)
(* of the configuration database up to date.  They share idl, the mutex    *)
(* vtysh_ovsdb_mutex and the latch ovsdb_latch; the handlers of SIGINT and *)
(* SIGTSTP release the mutex whoever holds it.                             *)
(***************************************************************************)
EXTENDS Naturals, Sequences

CONSTANTS
  Cmds,       \* the commands a user can type, records of Command
  ConfTerm,   \* the command "configure terminal", run again by "exit"
  MaxRange,   \* bound on the interfaces of a range context
  MaxUp,      \* bound on the parents of a node
  MaxTodo,    \* bound on the commands that aliases still have to run
  MaxDown,    \* bound on the disconnections of the database
  MaxSignals, \* bound on the signals delivered
  Signals     \* the signals the user sends: a subset of SignalSet

SignalSet == {"SIGINT", "SIGTSTP"}

(* What cmd_execute_command_real looks at in a matched element: its        *)
(* attributes (lib/command.h), whether it is a DEFUNSH (daemon), whether   *)
(* it is "exit" or "end" (exempt from authorization), whether one of its   *)
(* tokens is matched against idl, and what its handler does.               *)
Command ==
  [nolock : BOOLEAN, nonidl : BOOLEAN, daemon : BOOLEAN, exempt : BOOLEAN,
   tok : {"plain", "ifname", "port"},
   kind : {"config", "show", "shell", "alias", "exit", "mode"}]

ASSUME CmdsAssumption ==
  /\ Cmds \subseteq Command /\ ConfTerm \in Cmds
  /\ \A c \in Cmds :
       c.kind \in IF c.daemon THEN {"exit", "mode"}
                 ELSE IF c.nolock THEN {"shell", "alias"}
                 ELSE {"config", "show", "shell", "mode"}

ASSUME BoundsAssumption ==
  /\ MaxRange \in Nat \ {0} /\ MaxUp \in Nat /\ MaxTodo \in Nat /\ MaxDown \in Nat
  /\ MaxSignals \in Nat /\ Signals \subseteq SignalSet

VARIABLES
  cli,    \* where the command thread is
  poll,   \* where the poll thread is
  owner,  \* vtysh_ovsdb_mutex: "none" when unlocked, else the last locker
  latch,  \* ovsdb_latch
  due,    \* a locked command was started and no idl run began since then
  cmd,    \* the command being executed
  up,     \* parent nodes in which it can still be looked for
  left,   \* entries of vty->index_list it still has to be executed for
  todo,   \* commands that enclosing handlers still have to execute
  ready,  \* the static flag of vtysh_chk_for_system_configured_db_is_ready
  cfgNo,  \* cur_cfg_no > 0: that of ovsdb_cfg_initialized
  txn,    \* the transaction on idl: "none", "open" in its handler, or "left"
  idl,    \* the replica: not destroyed, ever connected, cur_cfg > 0
  db,     \* the server: reachable, cur_cfg > 0, changes not yet replicated
  downs,  \* disconnections so far
  sigs    \* signals so far

wake  == <<latch, due>>
job   == <<cmd, up, left, todo>>
store == <<ready, cfgNo, txn, idl, db, downs>>
vars  == <<cli, poll, owner, wake, job, store, sigs>>

CliLabels ==
  {"enable", "enableCS", "boot", "prompt", "promptCS", "readline", "match",
   "matchCS", "readyLock", "readyCS", "author", "dispatch", "lock", "gate",
   "func", "txn", "more", "child", "unlock", "nlReady", "nlCS", "nlFunc",
   "nlChild", "daemon", "nested", "exitLock", "exitCS", "exiting", "gone"}

PollLabels == {"lock", "run", "refresh", "unlock", "block", "latchPoll"}

Init ==
  /\ cli = "enable" /\ poll = "lock"
  /\ owner = "none" /\ latch = FALSE /\ due = FALSE
  /\ cmd = ConfTerm /\ up = 0 /\ left = 0 /\ todo = <<>>
  /\ ready = FALSE /\ cfgNo = FALSE /\ txn = "none"
  /\ idl = [live |-> TRUE, loaded |-> FALSE, cfg |-> FALSE]
  /\ db \in [up : BOOLEAN, cfg : BOOLEAN, pending : {TRUE}]
  /\ downs = 0 /\ sigs = 0
-----------------------------------------------------------------------------
(* VTYSH_OVSDB_LOCK and VTYSH_OVSDB_UNLOCK: a mutex that is not recursive  *)
(* and whose unlock does not look at the owner.                            *)
LOCK_Recursive(t) == owner \in {"none", "poll"} /\ owner' = t

LOCK(t) == owner = "none" /\ owner' = t

UNLOCK == owner' = "none"

(* ovsdb_idl_run: the replica takes over what the server has sent.         *)
IdlRun ==
  /\ idl' = IF db.up THEN [idl EXCEPT !.loaded = TRUE, !.cfg = db.cfg] ELSE idl
  /\ db' = IF db.up THEN [db EXCEPT !.pending = FALSE] ELSE db

(* vtysh_chk_for_system_configured_db_is_ready: the flag is static, so the *)
(* answer stays TRUE once it was.                                          *)
DbReady == ready \/ (idl.loaded /\ idl.cfg)

(* Where the thread goes when a command is over: the next command of an    *)
(* alias, or the main loop.                                                *)
Return == IF todo = <<>> THEN "prompt" ELSE "nested"

(* A step of the command thread.                                           *)
Cli(from, to) == cli = from /\ cli' = to /\ UNCHANGED <<poll, sigs>>

(* A step of the command thread that takes the mutex.                      *)
CliLock(from, to) == Cli(from, to) /\ LOCK("cli") /\ UNCHANGED <<wake, job, store>>
-----------------------------------------------------------------------------
(* main executes "enable" (whose authorization is left out here), and then *)
(* waits until idl was ever connected, or until that wait times out.       *)
EnableLock == CliLock("enable", "enableCS")

EnableUnlock ==
  /\ Cli("enableCS", "boot") /\ ready' = DbReady /\ UNLOCK
  /\ UNCHANGED <<wake, job, cfgNo, txn, idl, db, downs>>

Boot == Cli("boot", "prompt") /\ UNCHANGED <<owner, wake, job, store>>

(* vtysh_rl_gets calls vtysh_prompt, which reads the host name under the   *)
(* mutex, and then readline.                                               *)
PromptLock == CliLock("prompt", "promptCS")

PromptUnlock ==
  Cli("promptCS", "readline") /\ UNLOCK /\ UNCHANGED <<wake, job, store>>

ReadLine(c) ==
  /\ Cli("readline", "match") /\ cmd' = c /\ up' \in 0..MaxUp
  /\ UNCHANGED <<owner, wake, left, todo, store>>

(* End of file: main leaves its loop and calls vtysh_ovsdb_exit.           *)
ReadEof == Cli("readline", "exitLock") /\ UNCHANGED <<owner, wake, job, store>>

(* The words of the line are matched against the commands of the node.  An *)
(* IFNAME token is looked up in idl under the mutex, a PORT or VLAN token  *)
(* without it.  A command that is not found, or not authorized, is looked  *)
(* for in the parent node.                                                 *)
Found == IF cmd.exempt THEN "dispatch" ELSE "readyLock"

NotFound == IF up > 0 THEN "match" ELSE Return

Lookup(from, to, yes) ==
  /\ Cli(from, IF yes THEN to ELSE NotFound)
  /\ up' = IF yes \/ up = 0 THEN up ELSE up - 1

MatchWords ==
  /\ cmd.tok # "ifname" /\ \E yes \in BOOLEAN : Lookup("match", Found, yes)
  /\ UNCHANGED <<owner, wake, cmd, left, todo, store>>

MatchIfnameLock == cmd.tok = "ifname" /\ CliLock("match", "matchCS")

MatchIfnameUnlock_EarlyReturn ==
  /\ \E yes \in BOOLEAN : Lookup("matchCS", Found, yes)
  /\ UNCHANGED <<owner, wake, cmd, left, todo, store>>

MatchIfnameUnlock ==
  /\ \E yes \in BOOLEAN : Lookup("matchCS", Found, yes)
  /\ UNLOCK /\ UNCHANGED <<wake, cmd, left, todo, store>>

(* Before anything but "exit" and "end": is the database ready, and if so  *)
(* do the TACACS+ servers authorize the command.                           *)
ReadyLock == CliLock("readyLock", "readyCS")

ReadyUnlock ==
  /\ ready' = DbReady
  /\ Cli("readyCS", IF DbReady THEN "author" ELSE "dispatch")
  /\ UNLOCK /\ UNCHANGED <<wake, job, cfgNo, txn, idl, db, downs>>

Authorize ==
  /\ \E yes \in BOOLEAN : Lookup("author", "dispatch", yes)
  /\ UNCHANGED <<owner, wake, cmd, left, todo, store>>
-----------------------------------------------------------------------------
(* The handler is called once, or for the entries of vty->index_list until *)
(* a call clears vty->index.                                               *)
Dispatch(to) == Cli("dispatch", to) /\ UNCHANGED <<owner, cmd, up, todo, store>>

DispatchDaemon ==
  cmd.daemon /\ Dispatch("daemon") /\ UNCHANGED <<wake, left>>

DispatchLocked_EmptyList ==
  /\ ~cmd.daemon /\ ~cmd.nolock /\ Dispatch("lock")
  /\ latch' = TRUE /\ due' = TRUE /\ left' \in 0..MaxRange

DispatchLocked ==
  /\ ~cmd.daemon /\ ~cmd.nolock /\ Dispatch("lock")
  /\ latch' = TRUE /\ due' = TRUE /\ left' \in 1..MaxRange

DispatchNolock ==
  /\ ~cmd.daemon /\ cmd.nolock /\ Dispatch("nlReady")
  /\ left' \in 1..MaxRange /\ UNCHANGED wake

(* A command that takes the lock, and tests again whether the database is  *)
(* ready.                                                                  *)
CmdLock == CliLock("lock", "gate")

Gate ==
  /\ ready' = IF cmd.nonidl THEN ready ELSE DbReady
  /\ Cli("gate", IF cmd.nonidl \/ DbReady THEN "func" ELSE "unlock")
  /\ UNCHANGED <<owner, wake, job, cfgNo, txn, idl, db, downs>>

(* What a handler does while it holds the lock: return, wait for a key at  *)
(* the -- MORE -- of a long output, or wait for a child process.           *)
Func(from, to) == Cli(from, to) /\ UNCHANGED <<owner, wake, job, store>>

FuncShow ==
  cmd.kind = "show" /\ \E to \in {"more", "unlock"} : Func("func", to)

FuncShell == cmd.kind = "shell" /\ Func("func", "child")

FuncMode == cmd.kind = "mode" /\ Func("func", "unlock")

MoreKey == Func("more", "unlock")

ChildExit == Func("child", "unlock")

(* Handlers that write the configuration: cli_do_config_start fails while  *)
(* the system is not configured, and else creates a transaction.  It asks  *)
(* the replica only until the answer was yes once.  Creating a transaction *)
(* inside another fails an assertion of the library.                       *)
CfgInitialized == cfgNo \/ idl.cfg

(* Mutant: the mutex is given back when the transaction exists.            *)
TxnStart_Unlocks ==
  /\ cmd.kind = "config"
  /\ Cli("func", IF ~CfgInitialized THEN "unlock" ELSE IF txn # "none" THEN "gone" ELSE "txn")
  /\ txn' = IF CfgInitialized /\ txn = "none" THEN "open" ELSE txn
  /\ cfgNo' = CfgInitialized
  /\ UNLOCK /\ UNCHANGED <<wake, job, ready, idl, db, downs>>

(* Mutant: an open transaction is used again.                              *)
TxnStart_Joins ==
  /\ cmd.kind = "config"
  /\ Cli("func", IF ~CfgInitialized THEN "unlock" ELSE "txn")
  /\ txn' = IF CfgInitialized THEN "open" ELSE txn
  /\ cfgNo' = CfgInitialized
  /\ UNCHANGED <<owner, wake, job, ready, idl, db, downs>>

TxnStart ==
  /\ cmd.kind = "config"
  /\ Cli("func", IF ~CfgInitialized THEN "unlock" ELSE IF txn # "none" THEN "gone" ELSE "txn")
  /\ txn' = IF CfgInitialized /\ txn = "none" THEN "open" ELSE txn
  /\ cfgNo' = CfgInitialized
  /\ UNCHANGED <<owner, wake, job, ready, idl, db, downs>>

TxnEnd(how) ==
  /\ Cli("txn", "unlock") /\ txn' = how
  /\ UNCHANGED <<owner, wake, job, ready, cfgNo, downs>>

TxnAbort == TxnEnd("none") /\ UNCHANGED <<idl, db>>

(* Some handlers of bgp_vty.c and ospf_vty.c return on an error, and do    *)
(* not destroy the transaction.                                            *)
TxnReturn == TxnEnd("left") /\ UNCHANGED <<idl, db>>

(* cli_do_config_finish blocks, running idl itself, until the server has   *)
(* answered.                                                               *)
TxnCommit == db.up /\ TxnEnd("none") /\ IdlRun

(* The end of one round of the loop over vty->index_list.                  *)
EndRound(from, to) ==
  /\ Cli(from, IF left > 1 THEN to ELSE Return)
  /\ left' = left - 1 /\ UNCHANGED <<wake, cmd, up, todo>>

CmdUnlock == EndRound("unlock", "lock") /\ UNLOCK /\ UNCHANGED store

(* A command that does not take the lock: the test of readiness does.      *)
NolockSkip == cmd.nonidl /\ Func("nlReady", "nlFunc")

NolockLock == ~cmd.nonidl /\ CliLock("nlReady", "nlCS")

NolockUnlock ==
  /\ \/ DbReady /\ Cli("nlCS", "nlFunc") /\ UNCHANGED <<wake, job>>
     \/ ~DbReady /\ EndRound("nlCS", "nlReady")
  /\ ready' = DbReady /\ UNLOCK /\ UNCHANGED <<cfgNo, txn, idl, db, downs>>

(* start-shell and erase startup-config.                                   *)
NolockShell == cmd.kind = "shell" /\ Func("nlFunc", "nlChild")

NolockChildExit ==
  EndRound("nlChild", "nlReady") /\ UNCHANGED <<owner, store>>

(* vtysh_alias_callback looks its definition up in idl and executes the    *)
(* commands it finds there one by one.  Calls for further entries of       *)
(* vty->index_list only append to those commands.                          *)
NolockAlias(body) ==
  /\ cmd.kind = "alias" /\ Len(body) + Len(todo) <= MaxTodo
  /\ todo' = body \o todo
  /\ Cli("nlFunc", IF body \o todo = <<>> THEN "prompt" ELSE "nested")
  /\ left' = 0 /\ UNCHANGED <<owner, wake, cmd, up, store>>

RunNested ==
  /\ todo # <<>> /\ Cli("nested", "match")
  /\ cmd' = Head(todo) /\ todo' = Tail(todo) /\ up' \in 0..MaxUp
  /\ UNCHANGED <<owner, wake, left, store>>

(* The handler of a DEFUNSH runs in vtysh_execute_func, without the lock.  *)
(* vtysh_exit ends the process in the top nodes, and in a feature node     *)
(* executes "end", which takes no lock, and "configure terminal".          *)
DaemonExit ==
  /\ cmd.kind = "exit"
  /\ \/ \E to \in {Return, "gone"} : Cli("daemon", to) /\ UNCHANGED todo
     \/ /\ Len(todo) < MaxTodo /\ Cli("daemon", "nested")
        /\ todo' = <<ConfTerm>> \o todo
  /\ UNCHANGED <<owner, wake, cmd, up, left, store>>

DaemonMode == cmd.kind = "mode" /\ Func("daemon", Return)

(* vtysh_ovsdb_exit, and then exit(0).                                     *)
ExitLock == CliLock("exitLock", "exitCS")

ExitDestroy ==
  /\ Cli("exitCS", "exiting") /\ UNLOCK /\ idl' = [idl EXCEPT !.live = FALSE]
  /\ UNCHANGED <<wake, job, ready, cfgNo, txn, db, downs>>

Exit == Func("exiting", "gone")
-----------------------------------------------------------------------------
(* A step of the poll thread; exit(0) ends it with the process.            *)
Poll(from, to) ==
  /\ cli # "gone" /\ poll = from /\ poll' = to
  /\ UNCHANGED <<job, ready, cfgNo, txn, downs, sigs>>

PollLock ==
  Poll("lock", "run") /\ LOCK("poll") /\ UNCHANGED <<cli, wake, idl, db>>

(* vtysh_run and vtysh_wait: from here on the latch is waited for.  The    *)
(* assertion in ovsdb_idl_run that no transaction is open ends the process *)
(* when one is.                                                            *)
PollRun ==
  /\ Poll("run", "refresh") /\ txn = "none" /\ IdlRun /\ due' = FALSE
  /\ UNCHANGED <<cli, owner, latch>>

PollAssert ==
  /\ Poll("run", "run") /\ txn # "none" /\ cli' = "gone"
  /\ UNCHANGED <<owner, wake, idl, db>>

(* The idle timeout calls exit(0) on this thread.  So may end, as well,    *)
(* running a destroyed idl.                                                *)
PollExit ==
  Poll("run", "run") /\ cli' = "gone" /\ UNCHANGED <<owner, wake, idl, db>>

(* vtysh_periodic_refresh reads the alias table of idl.                    *)
PollRefresh_EarlyReturn ==
  Poll("refresh", "block") /\ UNCHANGED <<cli, owner, wake, idl, db>>

PollRefresh ==
  Poll("refresh", "unlock") /\ UNCHANGED <<cli, owner, wake, idl, db>>

PollUnlock_ResetsLatch ==
  /\ Poll("unlock", "block") /\ UNLOCK /\ latch' = FALSE
  /\ UNCHANGED <<cli, due, idl, db>>

PollUnlock ==
  Poll("unlock", "block") /\ UNLOCK /\ UNCHANGED <<cli, wake, idl, db>>

(* poll_block returns for the latch, for the server or for the timer.      *)
PollWake ==
  /\ latch \/ (db.up /\ db.pending)
  /\ Poll("block", "latchPoll") /\ UNCHANGED <<cli, owner, wake, idl, db>>

(* Mutant: poll_timer_wait_until is called before the loop, not in it.     *)
PollTimer_NotArmed == FALSE /\ UNCHANGED vars

PollTimer ==
  Poll("block", "latchPoll") /\ UNCHANGED <<cli, owner, wake, idl, db>>

LatchPoll ==
  /\ Poll("latchPoll", "lock") /\ latch' = FALSE
  /\ UNCHANGED <<cli, owner, due, idl, db>>
-----------------------------------------------------------------------------
(* The database server and its other clients.                              *)
Server(on, cfg, pending) ==
  /\ cli # "gone"
  /\ db' = [up |-> on, cfg |-> cfg, pending |-> pending]
  /\ UNCHANGED <<cli, poll, owner, wake, job, ready, cfgNo, txn, idl, sigs>>

DbChange ==
  /\ db.up /\ \E cfg \in {db.cfg, TRUE} : Server(TRUE, cfg, TRUE)
  /\ UNCHANGED downs

DbDown ==
  /\ db.up /\ downs < MaxDown /\ downs' = downs + 1
  /\ Server(FALSE, db.cfg, db.pending)

(* The server comes back with what it had, or was started again: cur_cfg   *)
(* is zero until the system is configured.                                 *)
DbUp ==
  /\ ~db.up /\ \E cfg \in {db.cfg, FALSE} : Server(TRUE, cfg, TRUE)
  /\ UNCHANGED downs

(* The signal handlers run on the command thread.  Both unlock the mutex.  *)
Signal(s) ==
  /\ s \in Signals /\ sigs < MaxSignals /\ sigs' = sigs + 1 /\ cli # "gone"
  /\ UNLOCK /\ UNCHANGED <<poll, wake, cmd, ready, cfgNo, idl, db, downs>>

SigInt == Signal("SIGINT") /\ UNCHANGED <<cli, up, left, todo, txn>>

(* sigtstp executes "end", which takes no lock, and jumps back to the      *)
(* sigsetjmp of main: what was running is not finished, and its            *)
(* transaction is left.  Before the sigsetjmp it returns.                  *)
SigTstp ==
  /\ Signal("SIGTSTP")
  /\ cli' = IF cli \in {"enable", "enableCS"} THEN cli ELSE "boot"
  /\ todo' = <<>> /\ left' = 0 /\ up' = 0
  /\ txn' = IF cli = "txn" THEN "left" ELSE txn

Terminated == cli = "gone" /\ UNCHANGED vars
-----------------------------------------------------------------------------
Bodies == UNION {[1..n -> Cmds] : n \in 0..MaxTodo}

(* Steps the command thread takes by itself.                               *)
CliStep ==
  \/ EnableUnlock \/ Boot \/ PromptUnlock
  \/ MatchWords \/ MatchIfnameUnlock \/ ReadyUnlock \/ Authorize
  \/ DispatchDaemon \/ DispatchLocked \/ DispatchNolock
  \/ Gate \/ FuncShow \/ FuncShell \/ FuncMode
  \/ TxnStart \/ TxnAbort \/ TxnReturn \/ TxnCommit \/ CmdUnlock
  \/ NolockSkip \/ NolockUnlock \/ NolockShell
  \/ (\E body \in Bodies : NolockAlias(body)) \/ RunNested
  \/ DaemonExit \/ DaemonMode \/ ExitDestroy \/ Exit

(* Steps in which it obtains the mutex.                                    *)
CliLocks ==
  \/ EnableLock \/ PromptLock \/ MatchIfnameLock \/ ReadyLock
  \/ CmdLock \/ NolockLock \/ ExitLock

(* Steps it takes when the user does something.                            *)
UserStep ==
  \/ (\E c \in Cmds : ReadLine(c)) \/ ReadEof
  \/ MoreKey \/ ChildExit \/ NolockChildExit
  \/ SigInt \/ SigTstp

PollStep == PollRun \/ PollAssert \/ PollRefresh \/ PollUnlock \/ PollWake \/ LatchPoll

Next ==
  \/ CliStep \/ CliLocks \/ UserStep
  \/ PollLock \/ PollStep \/ PollExit \/ PollTimer
  \/ DbChange \/ DbDown \/ DbUp
  \/ Terminated

Spec == Init /\ [][Next]_vars

(* Each thread is scheduled; a mutex that is free again and again is       *)
(* obtained in the end; the server comes back.  Nothing is assumed of the  *)
(* user, of the timer and of the other clients.                            *)
Fairness ==
  /\ WF_vars(CliStep) /\ SF_vars(CliLocks)
  /\ WF_vars(PollStep) /\ SF_vars(PollLock) /\ WF_vars(DbUp)

FairSpec == Spec /\ Fairness
-----------------------------------------------------------------------------
TypeOK ==
  /\ cli \in CliLabels /\ poll \in PollLabels
  /\ owner \in {"none", "cli", "poll"}
  /\ latch \in BOOLEAN /\ due \in BOOLEAN
  /\ cmd \in Cmds /\ up \in 0..MaxUp /\ left \in 0..MaxRange
  /\ todo \in Seq(Cmds) /\ Len(todo) <= MaxTodo
  /\ ready \in BOOLEAN /\ cfgNo \in BOOLEAN /\ txn \in {"none", "open", "left"}
  /\ idl \in [live : BOOLEAN, loaded : BOOLEAN, cfg : BOOLEAN]
  /\ db \in [up : BOOLEAN, cfg : BOOLEAN, pending : BOOLEAN]
  /\ downs \in 0..MaxDown /\ sigs \in 0..MaxSignals

CliCS ==
  {"enableCS", "promptCS", "matchCS", "readyCS", "gate", "func", "txn",
   "more", "child", "unlock", "nlCS", "exitCS"}

PollCS == {"run", "refresh", "unlock"}

(* Until a signal is handled, the two threads are never both between a     *)
(* VTYSH_OVSDB_LOCK and its VTYSH_OVSDB_UNLOCK, on whatever path a command *)
(* takes between them.                                                     *)
MutualExclusion == sigs = 0 => ~(cli \in CliCS /\ poll \in PollCS)

(* Until a signal is handled, a transaction is open only inside its        *)
(* handler, after cli_do_config_start and with the mutex held: neither     *)
(* ovsdb_idl_run nor another ovsdb_idl_txn_create meets it, and the idle   *)
(* timeout does not cut it.  One that a handler leaves without ending it   *)
(* is not open but left: see LeftTxnIsKept and LeftTxnEnds.                *)
TxnUnderLock == sigs = 0 /\ txn = "open" => cli = "txn" /\ owner = "cli"

(* What a handler wrote before it left its transaction, by an early return *)
(* or because of SIGTSTP, is never committed: no later command takes the   *)
(* transaction over, commits or destroys it.                               *)
LeftTxnIsKept == [][txn = "left" => txn' = "left"]_vars

(* latch_set in the command thread is not lost: a poll thread that goes to *)
(* sleep without having run idl since then finds the latch set.            *)
NoLostWakeup == poll \in {"refresh", "unlock", "block"} /\ due => latch

(* What makes these invariants inductive: a command that was dispatched    *)
(* has an entry to work on; until the first signal the mutex is owned by   *)
(* the thread whose critical section it is; a handler that has started its *)
(* transaction finds it open.                                              *)
Dispatched ==
  {"lock", "gate", "func", "txn", "more", "child", "unlock", "nlReady",
   "nlCS", "nlFunc", "nlChild"}

EntryLeft == cli \in Dispatched => left > 0

LockOwned ==
  sigs = 0 =>
    /\ cli # "gone" => (cli \in CliCS <=> owner = "cli")
    /\ poll \in PollCS <=> owner = "poll"
    /\ txn = "open" => cli = "txn"

HandlerHasTxn == cli = "txn" => txn = "open"

AtUser == cli \in {"readline", "more", "child", "nlChild", "gone"}

(* Every command ends, or waits for the user: no path through the locks    *)
(* blocks it for ever.                                                     *)
CommandEnds == (cli = "match") ~> (AtUser \/ cli \in {"prompt", "nested"})

(* What other clients write reaches the replica, unless the user keeps a   *)
(* handler waiting that holds the lock, or leaves.                         *)
ChangesArrive == db.pending ~> (~db.pending \/ cli \in {"more", "child", "gone"})

(* A transaction that was left ends the process: the next run of idl, or   *)
(* the next handler that writes, fails an assertion.  Until then only the  *)
(* user can keep it alive, in a handler that waits with the lock held.     *)
(* The latch of its own command may have been served before the handler    *)
(* ran, so this needs the timer that the poll thread arms in every round.  *)
LeftTxnEnds ==
  WF_vars(PollTimer) => (txn = "left" ~> cli \in {"more", "child", "gone"})

(* Every command that sets the latch is followed by a run of idl.          *)
LatchServed == due ~> (~due \/ cli \in {"more", "child", "gone"})

(* "Routines which fork into other processes or wait for user input must   *)
(* use this so that the OVSDB thread is not blocked for a long time."      *)
PollNotBlocked == (poll = "lock") ~> (poll # "lock" \/ cli = "gone")

(* "Configuration completed: return True else: return False"               *)
(* (vtysh_ovsdb_if.c:733) is what the answer of                            *)
(* vtysh_chk_for_system_configured_db_is_ready should say of the replica.  *)
ReadyMeansConfigured ==
  cli \in {"readyCS", "gate", "nlCS"} /\ DbReady => idl.loaded /\ idl.cfg

(* Where the command thread reads or writes idl, from the first prompt on. *)
IdlReaders ==
  {"enableCS", "promptCS", "matchCS", "readyCS", "author", "gate",
   "func", "txn", "nlCS", "exitCS"}

(* "Always access idl with lock VTYSH_OVSDB_LOCK."                         *)
IdlOnlyWithLock ==
  /\ cli \in IdlReaders => owner = "cli"
  /\ cli = "match" /\ cmd.tok = "port" => owner = "cli"
  /\ poll \in {"run", "refresh"} => owner = "poll"

(* "Release the lock, if command execution thread has taken it."           *)
SignalReleasesOwnLock == [][sigs' # sigs => owner # "poll"]_vars
=============================================================================
