--------------------------- MODULE SessionTimeout ---------------------------
(***************************************************************************)
(* The idle timeout of a vtysh session.                                    *)
(*                                                                         *)
(* The command thread notes the time at every prompt                       *)
(* (vtysh_main.c:vtysh_rl_gets).  The poll thread compares it with the     *)
(* clock at most once per polling interval, whenever it gets the lock      *)
(* (vtysh_ovsdb_if.c:vtysh_session_timeout_run), and ends the process.     *)
(***************************************************************************)
EXTENDS Integers

CONSTANTS
  Minute,    \* ticks of the clock per minute
  Interval,  \* TMOUT_POLL_INTERVAL, in ticks
  Default,   \* DEFAULT_SESSION_TIMEOUT_PERIOD, in minutes
  Timeouts,  \* values of session-timeout that users configure, in minutes
  MaxTime    \* bound on the clock

(* What the constants are.                                                 *)
TimeoutConstants ==
  /\ Minute \in Nat \ {0} /\ Interval \in Nat \ {0} /\ Default \in Nat
  /\ Timeouts \subseteq Nat /\ MaxTime \in Nat

NoRow == -1    \* vtysh_ovsdb_session_timeout_get without a System row

VARIABLES
  cli,      \* "typing", "running" a command, running it "locked", or "gone"
  now,      \* the clock
  start,    \* timeout_start
  check,    \* next_poll_msec
  conf,     \* the timeout in the replica: minutes, or NoRow
  confAt,   \* when it was last changed
  changed,  \* idl_seqno differs from that of the replica
  period    \* session_timeout_period

timeoutVars == <<cli, now, start, check, conf, confAt, changed, period>>

TimeoutInit ==
  /\ cli = "typing" /\ now = 0 /\ start = 0 /\ check = Interval
  /\ conf = NoRow /\ confAt = 0 /\ changed = FALSE /\ period = Minute * Default
-----------------------------------------------------------------------------
(* A line was read; its command runs with or without the lock.             *)
Execute ==
  /\ cli = "typing" /\ cli' \in {"running", "locked"}
  /\ UNCHANGED <<now, start, check, conf, confAt, changed, period>>

(* Back at the prompt: vtysh_rl_gets starts the timer.                     *)
Prompt ==
  /\ cli \in {"running", "locked"} /\ cli' = "typing" /\ start' = now
  /\ UNCHANGED <<now, check, conf, confAt, changed, period>>

(* The replica changes: someone configures session-timeout, removes it, or *)
(* changes something else.  While a command holds the lock its own commit  *)
(* does that.                                                              *)
Configure ==
  /\ cli # "gone" /\ changed' = TRUE
  /\ conf' \in Timeouts \union {Default, conf}
  /\ confAt' = IF conf' = conf THEN confAt ELSE now
  /\ UNCHANGED <<cli, now, start, check, period>>

(* vtysh_session_timeout_run: a changed replica is read again, and when    *)
(* the interval is over the time since the last prompt is looked at.       *)
NewPeriod == IF changed THEN Minute * conf ELSE period

Expired_Zero(p) == p >= 0 /\ now - start > p

Expired(p) == p > 0 /\ now - start > p

Run_CheckDrifts ==
  /\ cli \in {"typing", "running"}
  /\ changed' = FALSE /\ period' = NewPeriod
  /\ check' = now + Interval
  /\ cli' = IF now > check /\ Expired(NewPeriod) THEN "gone" ELSE cli
  /\ UNCHANGED <<now, start, conf, confAt>>

Run ==
  /\ cli \in {"typing", "running"}
  /\ changed' = FALSE /\ period' = NewPeriod
  /\ IF now > check
     THEN /\ check' = now + Interval
          /\ cli' = IF Expired(NewPeriod) THEN "gone" ELSE cli
     ELSE UNCHANGED <<check, cli>>
  /\ UNCHANGED <<now, start, conf, confAt>>

(* Time passes.  poll_timer_wait_until wakes the poll thread when the      *)
(* interval is over, so it only passes further while the lock is held; a   *)
(* change of the replica wakes it as well.                                 *)
Tick ==
  /\ cli # "gone" /\ now < MaxTime /\ now' = now + 1
  /\ cli = "locked" \/ (now <= check /\ ~changed)
  /\ UNCHANGED <<cli, start, check, conf, confAt, changed, period>>

TimeoutDone == (cli = "gone" \/ now = MaxTime) /\ UNCHANGED timeoutVars

TimeoutNext == Execute \/ Prompt \/ Configure \/ Run \/ Tick \/ TimeoutDone

TimeoutSpec == TimeoutInit /\ [][TimeoutNext]_timeoutVars
-----------------------------------------------------------------------------
(* Types; the cached period is always a whole number of minutes.           *)
TimeoutTypeOK ==
  /\ cli \in {"typing", "running", "locked", "gone"}
  /\ now \in 0..MaxTime /\ start \in 0..MaxTime /\ check \in 0..(MaxTime + Interval)
  /\ conf \in Timeouts \union {Default, NoRow} /\ confAt \in 0..MaxTime /\ changed \in BOOLEAN
  /\ period \in {Minute * t : t \in Timeouts \union {Default, NoRow}}

(* Nobody is logged out before the timeout that is configured now has      *)
(* passed since the last prompt, and nobody at all when it is 0: the       *)
(* cached period is never one that was configured earlier.                 *)
NotTooEarly ==
  cli = "gone" =>
    IF conf = NoRow THEN now - start > Minute * Default
    ELSE conf > 0 /\ now - start > Minute * conf

(* Whoever types nothing is logged out within an interval after the        *)
(* timeout, or after the change that shortened it, also when a command     *)
(* kept the lock over several intervals.                                   *)
NotTooLate ==
  cli = "typing" /\ ~changed /\ conf > 0
    => \/ now <= start + Minute * conf + Interval + 1
       \/ now <= confAt + Interval + 1

(* A logout comes neither before the configured time nor more than an      *)
(* interval after it (vtysh_session_timeout_run).                          *)
LogoutOnTime == NotTooEarly /\ NotTooLate

(* "Configures the idle session timeout in minutes": a session that        *)
(* executes a command is not idle.                                         *)
LogoutOnlyWhenIdle == [][cli' = "gone" => cli = "typing"]_timeoutVars
=============================================================================
