----------------------------- MODULE SessionProofs -----------------------------
(***************************************************************************)
(* What several parties share in time: the idle timeout, for every clock,   *)
(* interval and configuration, and the counters of "clear bgp", for any     *)
(* number of sessions, neighbors and groups.                                *)
(*                                                                         *)
(* LogoutOnTime is not inductive.  What carries it is what the last look   *)
(* at the time said: next_poll_msec - TMOUT_POLL_INTERVAL is when the poll *)
(* thread last looked, and the session was not due then, or the timeout    *)
(* was changed since; and time passes beyond the next look only while a    *)
(* command keeps the lock, at whose end the timer starts again.            *)
(***************************************************************************)
EXTENDS SessionTimeout, BgpClear, TLAPS

(* The cached period is that of the replica, unless the replica changed.   *)
(* Without a System row it is the default, or minus one minute.            *)
PeriodCurrent ==
  /\ conf = NoRow => period \in {Minute * Default, Minute * NoRow}
  /\ conf # NoRow /\ ~changed => period = Minute * conf

(* The session was not due at the last look.                               *)
LastLook ==
  cli # "gone" /\ conf > 0
    => check - Interval <= start + Minute * conf \/ check - Interval <= confAt

(* Time has not passed beyond the next look, or the timer just started.    *)
LookIsNear == cli \in {"typing", "running"} => now <= check + 1 \/ now = start

TimesInOrder == start <= now /\ confAt <= now /\ check <= now + Interval

IInv == TimeoutTypeOK /\ TimesInOrder /\ PeriodCurrent /\ LastLook /\ LookIsNear /\ NotTooEarly

(* What the arithmetic of minutes needs.                                   *)
LEMMA Minutes ==
  ASSUME TimeoutConstants, NEW t \in Nat
  PROVE  Minute * t \in Nat /\ (Minute * t > 0 <=> t > 0) /\ Minute * NoRow < 0 /\ Minute * NoRow \in Int
BY DEF TimeoutConstants, NoRow

(* The type invariant in parts: what the provers treat separately.         *)
Periods == {Minute * t : t \in Timeouts \union {Default, NoRow}}

Ranges ==
  /\ cli \in {"typing", "running", "locked", "gone"}
  /\ now \in 0..MaxTime /\ start \in 0..MaxTime /\ check \in 0..(MaxTime + Interval)
  /\ conf \in Timeouts \union {Default, NoRow} /\ confAt \in 0..MaxTime

(* The type invariant is the three together.                                 *)
LEMMA TypeParts == TimeoutTypeOK <=> Ranges /\ period \in Periods /\ changed \in BOOLEAN
BY DEF TimeoutTypeOK, Ranges, Periods

(* The constants and variables as numbers.                                 *)
LEMMA Numbers ==
  ASSUME TimeoutConstants, TimeoutTypeOK
  PROVE  /\ now \in Nat /\ start \in Nat /\ check \in Nat /\ confAt \in Nat /\ Interval \in Nat
         /\ conf \in Nat \/ conf = NoRow
         /\ period \in Int
<1>1. \E t \in Timeouts \union {Default, NoRow} : period = Minute * t
  BY DEF TimeoutTypeOK
<1>2. \A t \in Timeouts \union {Default, NoRow} : t \in Int
  BY DEF TimeoutConstants, NoRow
<1>. QED BY <1>1, <1>2 DEF TimeoutTypeOK, TimeoutConstants

(* The strengthened invariant holds at the start.                          *)
LEMMA InitIInv == ASSUME TimeoutConstants, TimeoutInit PROVE IInv
<1>1. TimeoutTypeOK
  <2>1. period \in Periods
    BY DEF TimeoutInit, Periods
  <2>2. Ranges
    BY DEF TimeoutConstants, TimeoutInit, Ranges
  <2>3. changed \in BOOLEAN
    BY Zenon DEF TimeoutInit
  <2>. QED BY <2>1, <2>2, <2>3, TypeParts
<1>. QED BY <1>1 DEF TimeoutConstants, TimeoutInit, IInv, TimesInOrder, PeriodCurrent, LastLook, LookIsNear, NotTooEarly, NoRow

(* Reading a line, the prompt, the clock: nothing about the period.        *)
LEMMA CommandThreadKeepsIInv ==
  ASSUME TimeoutConstants, IInv, Execute \/ Prompt \/ Tick
  PROVE  IInv'
<1>1. TimeoutTypeOK' /\ cli # "gone" /\ cli' # "gone" /\ period' = period /\ changed' = changed
      /\ conf' = conf /\ confAt' = confAt /\ check' = check
  <2>1. period \in Periods /\ Ranges
    BY TypeParts DEF IInv
  <2>2. Ranges' /\ period' = period
    BY <2>1 DEF TimeoutConstants, Ranges, Execute, Prompt, Tick
  <2>3. changed' \in BOOLEAN
    BY Zenon DEF IInv, TimeoutTypeOK, Execute, Prompt, Tick
  <2>4. TimeoutTypeOK'
    BY <2>1, <2>2, <2>3 DEF TimeoutTypeOK, Ranges, Periods
  <2>. QED BY <2>4 DEF Execute, Prompt, Tick
<1>2. PeriodCurrent' /\ NotTooEarly'
  BY <1>1 DEF IInv, PeriodCurrent, NotTooEarly
<1>3. TimesInOrder'
  BY Numbers DEF IInv, TimesInOrder, Execute, Prompt, Tick
<1>4. LookIsNear'
  BY Numbers DEF IInv, LookIsNear, Execute, Prompt, Tick
<1>5. LastLook'
  <2>1. start <= start'
    BY Numbers DEF IInv, TimesInOrder, Execute, Prompt, Tick
  <2>2. start \in Nat /\ start' \in Nat /\ check \in Nat /\ Interval \in Nat
    BY Numbers, <1>1 DEF IInv, TimeoutTypeOK
  <2>3. SUFFICES ASSUME conf > 0, check - Interval <= start + Minute * conf
                 PROVE  check - Interval <= start' + Minute * conf
    BY <1>1 DEF IInv, LastLook
  <2>4. Minute * conf \in Int
    BY <2>3, Numbers, Minutes DEF IInv, NoRow
  <2>. QED BY <2>1, <2>2, <2>3, <2>4
<1>. QED BY <1>1, <1>2, <1>3, <1>4, <1>5 DEF IInv

(* A change of the replica: the cached period is stale from here to the    *)
(* next run, and a new timeout counts from now.                            *)
LEMMA ConfigureKeepsIInv ==
  ASSUME TimeoutConstants, IInv, Configure
  PROVE  IInv'
<1>1. TimeoutTypeOK' /\ cli # "gone" /\ cli' = cli /\ period' = period /\ changed'
  <2>1. period \in Periods /\ Ranges
    BY TypeParts DEF IInv
  <2>2. Ranges' /\ period' = period
    BY <2>1 DEF TimeoutConstants, Ranges, Configure
  <2>3. changed' \in BOOLEAN
    BY Zenon DEF Configure
  <2>4. TimeoutTypeOK'
    BY <2>1, <2>2, <2>3 DEF TimeoutTypeOK, Ranges, Periods
  <2>. QED BY <2>4 DEF Configure
<1>2. TimesInOrder' /\ LookIsNear'
  BY Numbers DEF IInv, TimesInOrder, LookIsNear, Configure
<1>3. PeriodCurrent'
  BY <1>1 DEF IInv, PeriodCurrent, Configure, TimeoutConstants, NoRow
<1>4. LastLook'
  <2>1. CASE conf' = conf
    BY <2>1, <1>1 DEF IInv, LastLook, Configure
  <2>2. CASE conf' # conf
    <3>1. check' = check /\ confAt' = now
      BY <2>2 DEF Configure
    <3>2. check - Interval <= now
      BY Numbers DEF IInv, TimesInOrder
    <3>. QED BY <3>1, <3>2 DEF LastLook
  <2>. QED BY <2>1, <2>2
<1>. QED BY <1>1, <1>2, <1>3, <1>4 DEF IInv, NotTooEarly

(* vtysh_session_timeout_run compares with the period that is configured.  *)
LEMMA RunKeepsIInv ==
  ASSUME TimeoutConstants, IInv, Run
  PROVE  IInv'
<1>1. /\ cli # "gone" /\ conf' = conf /\ confAt' = confAt /\ start' = start /\ now' = now
      /\ period' = NewPeriod /\ ~changed'
  BY DEF Run
<1>2. /\ conf = NoRow => NewPeriod \in {Minute * Default, Minute * NoRow}
      /\ conf # NoRow => NewPeriod = Minute * conf
  BY DEF IInv, PeriodCurrent, NewPeriod
<1>3. PeriodCurrent'
  BY <1>1, <1>2 DEF PeriodCurrent
<1>4. NewPeriod \in Periods /\ Ranges
  <2>1. period \in Periods /\ Ranges
    BY TypeParts DEF IInv
  <2>2. Minute * conf \in Periods
    BY <2>1 DEF Ranges, Periods
  <2>. QED BY <2>1, <2>2 DEF NewPeriod
<1>5. TimeoutTypeOK'
  <2>1. Ranges'
    BY <1>4 DEF TimeoutConstants, Ranges, Run
  <2>2. changed' \in BOOLEAN
    BY Zenon DEF Run
  <2>. QED BY <1>1, <1>4, <2>1, <2>2 DEF TimeoutTypeOK, Ranges, Periods
<1>6. TimesInOrder' /\ LookIsNear'
  BY Numbers DEF IInv, TimesInOrder, LookIsNear, Run
<1>7. LastLook'
  <2>1. CASE now > check
    <3>1. check' - Interval = now
      BY <2>1, Numbers DEF IInv, Run
    <3>2. SUFFICES ASSUME cli' # "gone", conf > 0 PROVE now <= start + Minute * conf
      BY <1>1, <3>1 DEF LastLook
    <3>3. ~Expired(NewPeriod)
      BY <2>1, <3>2 DEF Run
    <3>4. conf \in Nat /\ conf # NoRow
      BY <3>2, Numbers DEF IInv, NoRow
    <3>. QED BY <1>2, <3>2, <3>3, <3>4, Minutes, Numbers DEF IInv, Expired
  <2>2. CASE ~(now > check)
    BY <1>1, <2>2 DEF IInv, LastLook, Run
  <2>. QED BY <2>1, <2>2
<1>8. NotTooEarly'
  <2>1. SUFFICES ASSUME cli' = "gone" PROVE NotTooEarly'
    BY DEF NotTooEarly
  <2>2. NewPeriod > 0 /\ now - start > NewPeriod
    BY <1>1, <2>1 DEF Run, Expired
  <2>3. CASE conf = NoRow
    <3>1. NewPeriod = Minute * Default
      BY <1>2, <2>2, <2>3, Minutes DEF TimeoutConstants
    <3>. QED BY <1>1, <2>2, <2>3, <3>1 DEF NotTooEarly
  <2>4. CASE conf # NoRow
    BY <1>1, <1>2, <2>2, <2>4, Minutes, Numbers DEF IInv, NotTooEarly
  <2>. QED BY <2>3, <2>4
<1>. QED BY <1>3, <1>5, <1>6, <1>7, <1>8 DEF IInv

(* The strengthened invariant gives both halves of the property.           *)
LEMMA IInvIsOnTime == ASSUME TimeoutConstants, IInv PROVE LogoutOnTime
<1>1. SUFFICES ASSUME cli = "typing", conf > 0
               PROVE  now <= start + Minute * conf + Interval + 1 \/ now <= confAt + Interval + 1
  BY DEF IInv, LogoutOnTime, NotTooLate
<1>2. conf \in Nat /\ Minute * conf \in Nat
  BY <1>1, Numbers, Minutes DEF IInv, NoRow
<1>3. now <= check + 1 \/ now = start
  BY <1>1 DEF IInv, LookIsNear
<1>4. check - Interval <= start + Minute * conf \/ check - Interval <= confAt
  BY <1>1 DEF IInv, LastLook
<1>. QED BY <1>2, <1>3, <1>4, Numbers DEF IInv

(* No session is logged out before the timeout that is configured now has  *)
(* passed since its last prompt, nor, once it types nothing, later than an *)
(* interval after it or after the change that shortened it: for every      *)
(* interval, timeout and length of the run, and with commands that hold    *)
(* the lock for any time (vtysh_session_timeout_run).                      *)
THEOREM TimeoutKept == ASSUME TimeoutConstants PROVE TimeoutSpec => []LogoutOnTime
<1>1. IInv /\ [TimeoutNext]_timeoutVars => IInv'
  <2>1. SUFFICES ASSUME IInv, [TimeoutNext]_timeoutVars PROVE IInv'
    OBVIOUS
  <2>2. CASE UNCHANGED timeoutVars
    BY <2>1, <2>2 DEF timeoutVars, IInv, TimeoutTypeOK, TimesInOrder, PeriodCurrent, LastLook, LookIsNear, NotTooEarly
  <2>. QED BY <2>1, <2>2, CommandThreadKeepsIInv, ConfigureKeepsIInv, RunKeepsIInv DEF TimeoutNext, TimeoutDone
<1>. QED BY <1>1, InitIInv, IInvIsOnTime, PTL DEF TimeoutSpec

-------------------------------------------------------------------------------
(* The counters of "clear bgp" stay in step although every party writes whole
   columns from a copy that trails the server.  The invariant is inductive
   because it speaks of every copy: what is written is computed from one of
   them. *)

Column == [Directions -> Counters]

(* The columns a table or a copy may hold. *)
Sound(column) == column \in Column /\ \A d \in Directions : InStep(column[d])

Inv ==
    /\ ClearTypeOK
    /\ \A n \in Neighbors : Sound(status[n])
    /\ \A a \in Sessions \cup {Daemon}, n \in Neighbors : Sound(copy[a][n])

(* What a clear command writes for one of its targets is in step again: it
   counts up only counters that validate_bgp_clear_counters found equal. *)
LEMMA RequestedInStep ==
    ASSUME ClearConstants, NEW column, Sound(column), NEW d \in Directions,
           validate_bgp_clear_counters(column[d]), column[d].requested < MaxRequests
    PROVE  Sound([column EXCEPT ![d].requested = @ + 1])
<1> DEFINE new == [column EXCEPT ![d].requested = @ + 1]
<1>1. column[d] \in Counters /\ column[d].requested \in Nat /\ column[d].performed \in Nat
  BY DEF Sound, Column, Counters
<1>2. new[d] = [column[d] EXCEPT !.requested = @ + 1] /\ \A e \in Directions : e # d => new[e] = column[e]
  BY DEF Sound, Column
<1>3. new[d] \in Counters /\ InStep(new[d])
  <2>1. new[d].requested = column[d].requested + 1 /\ new[d].performed = column[d].performed
    BY <1>1, <1>2 DEF Counters
  <2>2. new[d] \in Counters
    BY <1>1, <1>2, <2>1 DEF ClearConstants, Counters
  <2>. QED BY <1>1, <2>1, <2>2 DEF InStep, validate_bgp_clear_counters
<1>4. new \in Column
  BY <1>2, <1>3 DEF Sound, Column
<1>. QED BY <1>2, <1>3, <1>4 DEF Sound

(* What the daemon writes back is in step: "performed" is set to the
   "requested" of the same copy. *)
LEMMA DoneInStep ==
    ASSUME ClearConstants, NEW seen, Sound(seen)
    PROVE  Sound([d \in Directions |-> [seen[d] EXCEPT !.performed = seen[d].requested]])
<1> DEFINE done == [d \in Directions |-> [seen[d] EXCEPT !.performed = seen[d].requested]]
<1>1. SUFFICES ASSUME NEW d \in Directions PROVE done[d] \in Counters /\ InStep(done[d])
  BY DEF Sound, Column
<1>2. seen[d] \in Counters /\ seen[d].requested \in Nat
  BY DEF Sound, Column, Counters
<1>3. done[d].requested = seen[d].requested /\ done[d].performed = seen[d].requested
  BY <1>2 DEF Counters
<1>. QED BY <1>2, <1>3 DEF Counters, InStep

(* A clear command, accepted or refused, keeps the invariant. *)
LEMMA ClearKeepsInv ==
    ASSUME ClearConstants, Inv, NEW s \in Sessions, NEW targets \in SUBSET Neighbors,
           NEW d \in Directions, Clear(s, targets, d)
    PROVE  Inv'
<1>1. CASE ClearRefuse
  BY <1>1 DEF ClearRefuse, clearVars, Inv, ClearTypeOK, Sound, InStep
<1>2. CASE /\ \A n \in targets : validate_bgp_clear_counters(copy[s][n][d])
           /\ Request(s, targets, d)
  <2> DEFINE column(n) == [copy[s][n] EXCEPT ![d].requested = @ + 1]
             written == [n \in Neighbors |-> IF n \in targets THEN column(n) ELSE status[n]]
  <2>1. /\ \A n \in targets : copy[s][n][d].requested < MaxRequests
        /\ status' = written /\ copy' = [copy EXCEPT ![s] = written]
        /\ owed' = owed \cup (targets \X {d})
    BY <1>2 DEF Request
  <2>2. \A n \in targets : Sound(column(n))
    BY <1>2, <2>1, RequestedInStep DEF Inv
  <2>3. \A n \in Neighbors : Sound(written[n])
    BY <2>2 DEF Inv
  <2> HIDE DEF written
  <2>4. written \in [Neighbors -> Column]
    BY <2>3 DEF Sound, written
  <2>5. ClearTypeOK'
    <3>1. owed' \subseteq Neighbors \X Directions
      BY <2>1 DEF Inv, ClearTypeOK
    <3>2. copy' \in [Sessions \cup {Daemon} -> [Neighbors -> Column]]
      BY <2>1, <2>4 DEF Inv, ClearTypeOK, Column
    <3>. QED BY <2>1, <2>4, <3>1, <3>2 DEF ClearTypeOK, Column
  <2>6. \A a \in Sessions \cup {Daemon}, n \in Neighbors : Sound(copy'[a][n])
    BY <2>1, <2>3 DEF Inv, ClearTypeOK
  <2>7. \A n \in Neighbors : Sound(status'[n])
    BY <2>1, <2>3
  <2>. QED BY <2>5, <2>6, <2>7 DEF Inv, Sound, InStep
<1>. QED BY <1>1, <1>2 DEF Clear

(* Every clear command is a clear of some set of neighbors, or is refused. *)
LEMMA CommandIsClear ==
    ASSUME ClearConstants, NEW s \in Sessions, ClearCommand(s)
    PROVE  \E targets \in SUBSET Neighbors, d \in Directions : Clear(s, targets, d)
<1>1. ASSUME NEW d \in Directions, NEW n, ClearPeer(s, n, d) \/ ClearGroup(s, n, d)
      PROVE  \E targets \in SUBSET Neighbors : Clear(s, targets, d)
  <2>1. CASE n \in Neighbors /\ Clear(s, {n}, d)
    BY <2>1
  <2>2. CASE ClearRefuse
    BY <2>2 DEF Clear
  <2>. QED BY <1>1, <2>1, <2>2 DEF ClearPeer, ClearGroup
<1>2. ASSUME NEW d \in Directions, ClearAll(s, d)
      PROVE  \E targets \in SUBSET Neighbors : Clear(s, targets, d)
  BY <1>2 DEF ClearAll
<1>3. ASSUME NEW d \in Directions, NEW as, ClearAs(s, as, d)
      PROVE  \E targets \in SUBSET Neighbors : Clear(s, targets, d)
  <2>1. CASE ClearRefuse
    BY <2>1 DEF Clear
  <2>2. CASE ClearPeer(s, Order[FirstOfAs(as)], d)
    BY <2>2, <1>1
  <2>. QED BY <1>3, <2>1, <2>2 DEF ClearAs
<1>4. \E d \in Directions :
          \/ ClearAll(s, d)
          \/ \E n : ClearPeer(s, n, d) \/ ClearGroup(s, n, d)
          \/ \E as : ClearAs(s, as, d)
  BY Zenon DEF ClearCommand, Directions, clear_bgp_all_soft_out, clear_bgp_all_soft_in,
     clear_bgp_peer_soft_out, clear_bgp_peer_soft_in, clear_bgp_peer_group_soft_out,
     clear_bgp_peer_group_soft_in, clear_bgp_as_soft_out, clear_bgp_as_soft_in
<1>. QED BY <1>1, <1>2, <1>3, <1>4

(* An update that reaches a copy brings columns the server holds. *)
LEMMA UpdateKeepsInv ==
    ASSUME Inv, NEW a \in Sessions \cup {Daemon}, Update(a)
    PROVE  Inv'
<1>1. ClearTypeOK'
  BY DEF Inv, ClearTypeOK, Update
<1>2. \A n \in Neighbors : Sound(status'[n])
  BY DEF Inv, Update
<1>3. \A b \in Sessions \cup {Daemon}, n \in Neighbors : Sound(copy'[b][n])
  BY DEF Inv, ClearTypeOK, Update
<1>. QED BY <1>1, <1>2, <1>3 DEF Inv, Sound, InStep

(* The daemon's write keeps the invariant, however old its copy is. *)
LEMMA PerformKeepsInv ==
    ASSUME ClearConstants, Inv, NEW n \in Neighbors, Perform(n)
    PROVE  Inv'
<1> DEFINE seen == copy[Daemon][n]
           done == [d \in Directions |-> [seen[d] EXCEPT !.performed = seen[d].requested]]
<1>1. /\ status' = [status EXCEPT ![n] = done]
      /\ copy' = [copy EXCEPT ![Daemon] = status']
      /\ owed' \subseteq owed
  BY DEF Perform
<1>2. Sound(done)
  BY DoneInStep DEF Inv
<1> HIDE DEF done
<1>3. \A m \in Neighbors : Sound(status'[m])
  BY <1>1, <1>2 DEF Inv, ClearTypeOK
<1>4. status' \in [Neighbors -> Column]
  BY <1>1, <1>2 DEF Inv, ClearTypeOK, Sound, Column
<1>5. ClearTypeOK'
  BY <1>1, <1>4 DEF Inv, ClearTypeOK, Column
<1>6. \A a \in Sessions \cup {Daemon}, m \in Neighbors : Sound(copy'[a][m])
  BY <1>1, <1>3 DEF Inv, ClearTypeOK
<1>. QED BY <1>3, <1>5, <1>6 DEF Inv, Sound, InStep

(* The strengthened invariant holds in every reachable state. *)
THEOREM ClearInvariant == ASSUME ClearConstants PROVE ClearSpec => []Inv
<1>1. ClearInit => Inv
  <2>1. SUFFICES ASSUME ClearInit PROVE Inv
    OBVIOUS
  <2> DEFINE zero == [requested |-> 0, performed |-> 0]
  <2>2. zero \in Counters /\ InStep(zero)
    BY DEF ClearConstants, Counters, InStep
  <2> HIDE DEF zero
  <2>3. status = [n \in Neighbors |-> [d \in Directions |-> zero]]
    BY <2>1 DEF ClearInit, zero
  <2>4. \A n \in Neighbors : Sound(status[n])
    BY <2>2, <2>3 DEF Sound, Column
  <2>5. ClearTypeOK
    BY <2>1, <2>2, <2>3 DEF ClearInit, ClearTypeOK
  <2>6. \A a \in Sessions \cup {Daemon}, n \in Neighbors : Sound(copy[a][n])
    BY <2>1, <2>4 DEF ClearInit
  <2>. QED BY <2>4, <2>5, <2>6 DEF Inv
<1>2. Inv /\ [ClearNext]_clearVars => Inv'
  <2>1. SUFFICES ASSUME Inv, [ClearNext]_clearVars PROVE Inv'
    OBVIOUS
  <2>2. CASE UNCHANGED clearVars
    BY <2>1, <2>2 DEF clearVars, Inv, ClearTypeOK, Sound, InStep
  <2>3. ASSUME NEW s \in Sessions, ClearCommand(s) PROVE Inv'
    BY <2>1, <2>3, CommandIsClear, ClearKeepsInv
  <2>4. ASSUME NEW a \in Sessions \cup {Daemon}, Update(a) PROVE Inv'
    BY <2>1, <2>4, UpdateKeepsInv
  <2>5. ASSUME NEW n \in Neighbors, Perform(n) PROVE Inv'
    BY <2>1, <2>5, PerformKeepsInv
  <2>. QED BY <2>1, <2>2, <2>3, <2>4, <2>5 DEF ClearNext
<1>. QED BY <1>1, <1>2, PTL DEF ClearSpec

(* However many sessions clear, however old their copies and the daemon's are,
   and in whatever order the whole-column writes cross: no column, on the
   server or in a copy, has "performed" ahead of "requested" or two clears of
   one direction pending. *)
THEOREM OnePendingHolds == ASSUME ClearConstants PROVE ClearSpec => []OnePending
<1>1. Inv => OnePending
  BY DEF Inv, ClearTypeOK, Sound, OnePending
<1>. QED BY <1>1, ClearInvariant, PTL
================================================================================
