# Verification of the OpenSwitch CLI

`vtysh` is the command line of an OpenSwitch switch. It is derived from the
Quagga `vtysh`, but instead of talking to routing daemons it reads and writes
the configuration database (OVSDB). This directory holds TLA+ models of it, the
configurations with which TLC checks them, and proofs checked by TLAPS. Paths
below are relative to the root of the repository.

## 1. The system

### 1.1 Parts and state

| Part | Source | State | Operations |
|---|---|---|---|
| Command thread | `vtysh/vtysh_main.c`, `lib/command.c` | position, the command being executed, nested commands of aliases | prompt, read, match, authorize, execute, exit |
| Poll thread | `vtysh/vtysh_ovsdb_if.c` | position, `next_poll_msec`, `vtysh_exit_flag` | run `idl`, check the timeout, refresh aliases, block |
| Shared by both | `lib/vty_utils.h`, `vtysh_ovsdb_if.c` | `vtysh_ovsdb_mutex`, `ovsdb_latch`, the replica `idl`, the cached `ready` | lock, unlock, set and poll the latch, transactions |
| Matching | `lib/command.c` | the vectors of commands, the typed line | match, filter, judge ambiguity, describe, complete, run |
| Contexts | `vtysh/vtysh.c`, `lib/command.c` | `vty->node`, `vty->index`, `vty->index_list` | walk up, "do", ranges, exit, end, ^Z |
| Aliases | `vtysh/vtysh.c` | `vtysh_aliases`, `vtysh_alias_count`, `refresh_count` | create, delete, periodic refresh |
| Session timeout | `vtysh_ovsdb_if.c`, `vtysh_main.c` | `timeout_start`, `session_timeout_period`, `idl_seqno` | configure, check |
| Authorization | `lib/command.c`, `vtysh/utils/tacacs_vtysh_utils.c` | priorities of groups and servers, `passkey` | choose, sort and ask servers |
| Configuration commands | `vtysh/*_vty.c` | rows of the database | BGP, routing policy, OSPF, VRF, sub-interfaces, loopbacks |
| Library | `lib/` | event loop, sessions, lines, prefix lists, route maps, key chains | callbacks and commands |

### 1.2 How the parts interact

The poll thread takes the mutex, runs `idl`, looks at the session timeout,
refreshes the alias table, releases the mutex and blocks until the server, the
latch or a timer wakes it. The command thread takes the mutex for the prompt,
for some token matchers, for the readiness test and around most handlers; it
sets the latch before a handler that takes the lock. Commands marked `NOLOCK`
run without it, and an alias, which is one, executes further lines from inside
its handler. The handlers of SIGINT and SIGTSTP unlock the mutex whoever holds
it, and SIGTSTP also executes "end" and jumps back to the prompt.

A line is matched against the commands of its node, authorized, and its handler
called; a configuration handler reads the replica and commits one transaction.
Other sessions and the daemons write the same database. The programs of the
library (`lib/`) have no such threads: one event loop calls the callbacks of
the sessions, of timers and of descriptors.

### 1.3 What makes it hard

* Two threads and two signal handlers share one mutex, and paths through
  `cmd_execute_command_real` lock and unlock in different places.
* Executing a line changes `node`, `index` and `index_list` temporarily, and a
  status code decides whether a command is tried again elsewhere.
* Aliases, clear counters, routers and route map entries are shared with other
  sessions; commits fail and replicas trail.
* Settings that exclude one another are tested by different commands, and what
  `show running-config` prints has to be what would restore the rows.
* Callbacks add, cancel and free what the loop is walking over.

`hazards` in `PROJECT.json` lists these at the line where they bite, with the
properties that would notice.

## 2. Modules

A module's state and actions carry the names of the variables and functions of
the code; `map` in `PROJECT.json` gives the lines of each definition. Names of
the form `Action_Something` are mutated variants of the definition after them:
plausible mistakes that the properties are shown to catch.

### The shell process

* **VtyshThreads**: the command thread, the poll thread, the signal handlers and
  the server, one action per stretch of code between two points where the other
  thread can interfere. `cli` and `poll` are the positions, `owner` the mutex,
  `latch` the latch, `idl` and `db` what matters of replica and server, `ready`
  and `cfgNo` the two answers that are cached once they were yes, `left` the
  members of a range still to be served, `todo` the lines that enclosing aliases
  still have to run. `txn` is a transaction: open in its handler, or left behind
  by one that returned from an error path or was abandoned by SIGTSTP; a run of
  `idl` or the next handler that writes then fails an assertion. A command is a
  record of what the code looks at. The owner is the last locker, because the mutex is neither
  recursive nor error-checking. `due` is a history variable: a locked command
  has started and `idl` has not been run since.
* **CommandMatch**: the matcher that walks a command's tokens along the line,
  the filter and the ambiguity check that narrow the vector word by word, and
  what "?", TAB and RETURN make of the line. Tokens are of every kind that
  `cmd_word_match` tells apart. Characters are left out: `Abbrev`
  says which words begin which literals and `Shape` what the scanners say of a
  word.
* **CommandContext** and **CliModes**: `vtysh_execute_func`,
  `cmd_execute_command` and the loop over a range: look the line up, call its
  handler for every member, walk up to the parents with index and range set
  aside, undo, call the `func` of a DEFUNSH command. Commands are records with
  the nodes they are installed in and what they do to the context; `eager` ones
  (`router bgp`, `route-map`) set the node before they commit. `before` and
  `runs` are history variables. `CliModes` is the abstract specification: a line
  takes one step between modes, and a failed one stays. The refinement mapping
  shows the node at the last prompt while a line is executed.
* **AliasTable**: `vtysh_aliases` as a sequence of names and generation counts,
  the alias rows on the server and in the replica. `Refresh` is the whole of
  `vty_refresh_aliases`: marking, appending and the sweep that swaps the last
  entry in and does not look at it again.
* **SessionTimeout**: the clock in ticks, `timeout_start`, the cached period and
  the next check. `confAt` is a history variable, the time of the last change of
  the setting. Time stands still while the poll thread has work and can have the
  lock, and passes freely while a command holds it.
* **CmdAuthorization**: `check_cmd_authorization`: groups in order, servers of a
  group by priority, one question per server. `AuthorInit` ranges over all
  configurations; the poll thread may delete a row between any two steps.
  `asked` is a history variable.

### Configuration commands

* **OvsdbCommand**: the frame of a command: one transaction, closed by a commit
  that may fail or by an abort; returning with it open makes the next command
  end the process. The modules below extend it; `db` holds their tables.
* **BgpRouter**, **BgpNeighbor**: `router bgp` and the row it enters, networks,
  redistribution, peers and peer groups. Peers and groups share one map under
  the typed text, and a word typed for a group may be an address. Code that
  reads uninitialized memory (deleting a group, `no neighbor X route-map`) or
  frees a key of the replica (`neighbor X remote-as` of a bound peer) is a
  choice over what it can leave, a crash included. The server drops references to deleted rows (external: the schema is
  not in the repository).
* **BgpClear**: `clear bgp ... soft`, and the counters that sessions and daemon
  share in one column, each with a replica that trails the server.
* **BgpTables**: the tables that the BGP and the policy commands share.
* **RoutePolicy**: prefix lists, AS path filters, community lists and route maps
  of `bgp_vty.c`, their show commands and their lines of the running
  configuration, and another session that removes the entry of the context.
  Sequence numbers are unsigned in the table and an `int` in the look-up
  (`AsInt`).
* **OspfRouter**, **OspfInterface**, **OspfVlink**, **OspfText**: the OSPF
  commands. Virtual links have names from a table that each process keeps for
  itself. **OspfConfig** adds the lines they print in the running configuration
  and types them into an empty router, port or list of links to compare.
  **OspfShow**: the displays are functions of the tables.
* **L3Ports**: which ports are in the bridge and which in a VRF, addresses,
  sub-interfaces, loopbacks, split interfaces, in both builds of `vrf_vty.c`. A
  walk over rows that stops early is a choice, since rows are ordered by random
  identifiers. **L3Config** adds the lines of the running configuration and the
  displays, and types the lines again.

### The library

* **ThreadMaster**, **ThreadClients**: the lists and heaps of `lib/thread.c` and
  `lib/pqueue.c` as operators, and the loop (`thread_fetch`, `select`, signals)
  with clients that add and cancel threads from their callbacks, and from the
  handlers of signals. `select` may find descriptors, expire, be interrupted or
  fail.
* **VtyServer**: terminal and `vtysh` sessions as callbacks: passwords, the
  restricted mode, reading, paging, idle timeout, the configuration lock,
  closing.
* **VtyLine**: the buffer, the point, the history, the escape sequences, and
  what the terminal shows. Memory that `realloc` adds is not cleared, and a line
  that is read or written past its end is a `fault`.
* **PrefixList**, **RouteMap**, **KeyChain**: the policy objects of the library,
  their commands, filters and writers. They are checked against reference
  definitions (the filter by numbers, the matrix in the comment of
  `routemap.c:713`, the least valid key), and what they write is typed again. Of
  two comments on "goto" the code follows the one at `routemap.c:748` ("the nth
  clause, or the first clause greater than this") and not the one at
  `routemap.c:731` ("the first clause where pref > nextpref").

The `MC...` modules give constants and put parts into one run. The parts of a
run are explored each by itself: `part` says which, and the others stay in an
initial state. A run extends the modules that theorems are about, so that it
checks the very definitions the proofs use: MCSessions extends CommandContext,
SessionTimeout, CmdAuthorization and BgpClear; MCInterfaces extends L3Ports (and
has an instance of the OSPF modules on tables of their own, `odb`); MCPolicies
extends BgpNeighbor and RoutePolicy, which share `db`, and has instances of the
library's modules. MCInterfaces explores the two builds of the L3 commands each
by itself. In the build with VRFs the LAG and the sub-interfaces are in different
behaviours; in the other they are together.

## 3. Runs

| Run | Properties | What it shows |
|---|---|---|
| `threads_safety` | MutualExclusion, TxnUnderLock, NoLostWakeup, LeftTxnIsKept | every sort of command, a range of two, one disconnection, one signal: locks pair, a transaction is open only in its handler and under the lock, one that was left behind is never committed, no wakeup is lost |
| `threads_live` | CommandEnds, ChangesArrive, LeftTxnEnds | commands end and the replica follows, unless the user makes a handler wait; a transaction left behind ends the process |
| `sessions` | ContextKept, EveryMember, LineEnds, ModesRefined; RefreshCovers, Converges; LogoutOnTime; AllowedForAReason, GroupsExhausted; OnePending, ClearNotBlocked | failing lines keep the context, ranges are visited completely, walks end and are not seen; aliases follow the database; the logout is on time; why a command is allowed; clears are not blocked |
| `loop` | NothingLost, TimersOnTime, NoStarvation, SessionGoneIsClosed | nothing that is scheduled is lost, run early or starved; sessions whose connection is down are closed |
| `shell` | MatchSound, KeysAgree, SessionServed, LineShown, LoopInOrder, LineEdited | what runs is what was typed and the keys agree; sessions are served; the terminal shows the line; the heap and batches keep their order |
| `interfaces` | PortsConsistent, OspfConsistent, ConfigurationRestores, ShowsAgree, SettingsStay | references and exclusive settings hold, printed configuration restores what it prints, displays agree |
| `policies` | ListsFilter, MapsApply, KeysValid, LibraryRestores, BgpConsistent, PolicyConsistent, PolicyRestores | policy objects of library and database filter as their reference says, stay consistent and are restored by what is printed |

The following runs end in a counterexample. Each checks one sentence of a
comment, message or document against the code; `findings` quotes it.

| Run | Property | What the counterexample shows |
|---|---|---|
| `threads_idl_lock` | IdlOnlyWithLock | authorization and some matchers read `idl` without the lock |
| `threads_signal` | SignalReleasesOwnLock | a signal releases the lock of the poll thread |
| `alias_fits` | TableFits | a refresh appends past the limit of the command |
| `context_end` | EndForgetsRange | "end" leaves the range set |
| `author_passkey` | PasskeyUsable | the passkey buffer is used after it was freed |

More disagreements were met while modelling. They are stated in the modules and
are violated too, but are not among the runs; a cfg that names the property
reproduces the counterexample.

| Property | Module | What the text says, and what the code does |
|---|---|---|
| PollNotBlocked | VtyshThreads | `DESIGN.md:48`: routines that fork or wait for the user do not take the lock; the pager and `start-shell bash` do |
| ReadyMeansConfigured | VtyshThreads | `vtysh/vtysh_ovsdb_if.c:733`: "Configuration completed: return True else: return False"; the answer is cached and survives a new connection |
| AliasNamesDiffer | AliasTable | `vtysh/vtysh.h:64`: an alias is not named like an existing token; a refresh whose count wraps to 0 appends a new alias twice |
| LogoutOnlyWhenIdle | SessionTimeout | `vtysh/vtysh.c:4008`: the timeout is for idle sessions; a running command without the lock is ended too |
| AppliedOnce | CommandContext | `lib/command.c:3650`: a parent is tried if the command does not apply; a "do" whose handler failed is called again |
| SuccessMeansExecuted | CommandContext | `lib/command.c:3660`: the status is that of the executed command; one skipped as not ready counts as successful |
| SortedByGroup | CmdAuthorization | `lib/command.c:3312`: groups other than the default are sorted by group priority; not after a default group |
| ArgumentsWhole | CommandMatch | arguments keep their text; `lib/command.c:1717` keeps the word of an optional token in a static buffer |
| TxnClosed | BgpNeighbor | `vtysh/bgp_vty.h`: a command that stops early still terminates its transaction; `bgp_vty.c:1532` returns with it open |
| GroupDeleteKeepsOthers | BgpNeighbor | `vtysh/bgp_vty.c:2926`: the group and its members are deleted; the map written back keeps the member and loses others |
| EveryGroupPrimary | BgpNeighbor | the AS number of a group is that of its members; under an address "neighbor X remote-as N" takes the row for a peer and changes no other |
| EntriesFound | RoutePolicy | the grammar's "<1-4294967295>" for a sequence number; the look-up of the entry to remove has an `int` (`vtysh/bgp_vty.c:11256`) |
| SuccessIsPerformed | BgpClear | `vtysh/bgp_vty.c:6835`: a successful clear is performed; a later write of another replica undoes it |
| DepthLimited | RouteMap | `lib/routemap.h:73`: the depth of calls is limited; the counter is reset at every return (`routemap.c:797`) |
| SignalsPreempt | ThreadClients | `lib/thread.c:1061`: "Signals pre-empt everything"; one that comes before `select` waits |
| NeverSleepsOver | ThreadClients | `lib/thread.c`: "consider all thread types for scheduling in each quanta"; after an interrupted `select` the old `timer_wait` is used with threads ready |
| AlwaysEnsured | VtyLine | `lib/vty.c:678`: "Is buffer is short, double it."; keys that write without asking for memory |
| PointersLive, StringsNeverMissing | KeyChain | "no key chain" leaves the session in the node of what it freed; `key_match_for_accept` compares the string of a key that has none |
| SwitchedHasNoSubs | L3Ports | `vtysh/sub_intf_vty.c:1133`: "Subinterface is not supported on LAG."; a member of a LAG keeps those it had, or loses another's |
| DeletesOwnRow | L3Ports | `vtysh/sub_intf_vty.c:1308`: "Find the port table entry and delete it."; the row the walk ended at is deleted |
| DeadNotBelowHello | OspfInterface | `vtysh/ospf_vty.c:2092`: "Dead interval cannot be less than hello interval."; it is compared when dead is set, not when hello is |
| FullOnlyWhenReached | OspfVlink | `vtysh/ospf_vty.c:9154`: "Maximum vlink count(%d) reached"; the table of the process may be stale |
| ShowIpOspfAgrees | OspfConfig | "show ip ospf" says "configured administratively" of a new router, whose flag is "false" (`vtysh/ospf_vty.c:1771`) |
| UnsetIdDisplayed | OspfShow | `vtysh/ospf_vty.c:3284` has a text for a neighbor without an id; the table reads the id first (3213, 3664) |
| LabelsMatch | OspfShow | the groups of "show ip ospf database" take the labels in turn, not by their type |
| SelfOriginateComplete | OspfShow | the self-originated display leaves out rows of areas after the first |

### Bounds

The cfg files name every bound. They are chosen so that the cases the
properties speak of happen:

* Threads: two members of a range, one parent, one nested line, one
  disconnection, one signal. A second member makes the unlock and lock between
  members visible; one nested line makes a handler inside a handler; a second
  signal adds nothing once the first made the owner wrong. The liveness run uses
  fewer commands and no signals, since a signal may abandon any command.
* Contexts: two objects and ranges of up to two; one command of every kind and
  place. Walks are as long as the node tree is deep. Ranges are left out where
  CliModes is checked: in a range one member may succeed and the next fail.
* Aliases: three names, three entries and a count that wraps at 4 (in the code
  at 100): every entry meets a wrap. `MaxOps` bounds what users do, so that the
  pause which Converges speaks of comes.
* Timeout: a minute of three ticks and an interval of two, so that neither
  divides the other; timeouts of 0, 1 and 2 minutes beside the default.
* Authorization: two servers, one user group beside "default" and "none", up to
  three groups, one deletion. Clear: two sessions, a daemon, two requests.
* Loop: in `loop` a client with every kind of thread, two at a time, and one
  signal, whose handlers may do what the client does; in `shell` also two clients
  on one descriptor, three threads of one, and for the heap six timers. Sessions: one with all that can be typed, two for the
  lock. Lines of four characters in buffers that are outgrown, rings of two and
  three lines.
* Matching: nodes of two commands with every kind of token, lines of three
  words.
* Configuration: `Few` and `Bounded` limit how many columns are away from their
  defaults at a time (two or three), because a command reads few of them; two
  AS numbers, two peers and a group, and the words typed for a group may be
  those of the peers; sub-interfaces of two interfaces, a LAG, a VLAN and a
  loopback. AS numbers and peers are symmetric: no command orders them. An `int`
  ends at 7 in the look-up of entries, and sequence numbers are below and above
  it.
  Views leave out what the last command returned, which no command reads.

### Fairness

Weak fairness of the steps of each thread: the operating system schedules them.
Strong fairness of acquiring the mutex: the other thread gives it up between
any two rounds. Weak fairness of the return of the server. A line once read is
worked on (`Step`). The poll thread refreshes aliases again and again, since
its poll has a timer. Replicas are updated, and the daemon performs what its
replica shows (`Update`, `Perform`). The event loop runs: callbacks return
(`Return`), its top is reached, `select` is entered and expires; a session's
callbacks are called and `select` finds what is there. Nothing is assumed of
users or of other clients. LeftTxnEnds alone relies on the timer of the poll
thread, which `poll_timer_wait_until` arms in every round (`PollTimer`): the
latch of the command may have been served before its handler ran.

## 4. Proofs

A theorem holds for every value of the constants that satisfies the named
condition on them (`...Constants`, which TLC evaluates on the run's values). The
state predicates are those of the runs, and their inductive strengthenings are
in the proof modules. Each proof has one step or one lemma per action, and the
lemmas about maps, rows and helpers come first.

| Module | Theorem | Property | For every |
|---|---|---|---|
| VtyshThreadsProofs | TypeCorrect, ThreadsExclude, TxnIsLocked, WakeupIsKept, LeftStaysLeft, HandlersHaveTheirTxn | TypeOK, MutualExclusion, TxnUnderLock, NoLostWakeup, LeftTxnIsKept, HandlerHasTxn | set of commands, range, depth of aliases, number of disconnections and signals |
| SessionProofs | TimeoutKept | LogoutOnTime | interval, timeout, clock |
| CmdAuthorizationProofs | AllowedHolds, GroupsExhaustedHolds | AllowedForAReason, GroupsExhausted | finite set of servers, groups, deletions |
| CommandContextProofs | ContextKeptHolds, EveryMemberHolds | ContextKept, EveryMember | set of commands and their nodes, length of ranges |
| CommandContextProofs | ModesShown | refinement of CliModes | the same, outside of ranges |
| SessionProofs | OnePendingHolds | OnePending | number of sessions, neighbors, requests |
| BgpProofs | BgpStaysConsistent | BgpConsistent | set of AS numbers, peers, groups, networks, times |
| L3PortsProofs | PortsStayConsistent | PortsConsistent | set of interfaces, VRFs, addresses, tags, both builds |
| RoutePolicyProofs | PolicyStaysConsistent, PolicyIsRestored | PolicyConsistent, PolicyRestores | set of names, numbers, prefixes, lengths, lines, arguments |
| OspfProofs | RouterStaysConsistent, RangesKeepTheirArea | BackboneTransit and StubAdvExclusive, NetworkAreaFixed | set of areas, ranges, router ids, numbers, protocols, without a condition |
| OspfProofs | OnlyWithoutHello, KeysAreKept | DiesOnlyWithoutHello, Md5KeyFixed | set of intervals without zero, priorities, ids, keys |
| OspfProofs | OpenOnlyFull | OpenOnlyWhenFull | set of areas, peers, times, size of the table of names, without a condition |

The theorems of OspfProofs are about the three OSPF modules each by itself; the
run checks the same definitions through an instance, as parts of OspfConsistent
and SettingsStay.

### The arguments

* **Threads.** `TypeOK` is inductive together with `EntryLeft`: at the entry of
  the handler loop there is a member left, so `left` never falls below zero.
  `LockOwned` says for each position of each thread whether it is the owner; it
  is inductive until the first signal, because the handlers of signals unlock
  whoever owns the mutex. Mutual exclusion and locked transactions follow from
  it, and are stated until the first signal for the same reason. The lost wakeup
  is inductive by itself, and so is `HandlerHasTxn`: a handler past
  `cli_do_config_start` has the transaction it created. With it no step changes
  a transaction that was left: only a handler that has one commits or destroys
  it. Both hold after signals too.
* **Timeout.** The invariant says what the last look at the time found: the
  session was not due then, or the setting was changed since; and time passes
  the next look only while a command keeps the lock, at whose end the timer
  starts again.
* **Authorization.** The invariant says which servers a position in the two
  nested walks has asked and what they answered. A row that is deleted meanwhile
  only shrinks the set the walk still owes.
* **Contexts.** The invariant is a conjunction: what a phase has set aside
  (`Phases`), that it is what the line was read with (`Kept`), that the visited
  members are a prefix of the range (`Visited`). The refinement has its own,
  `RInv`: the node is the node at the prompt or a parent of it. ModesShown
  assumes `PlainCommands`: no ranges, `configure` is not installed in
  `VIEW_NODE`, and a command that only changes the node not in `ENABLE_NODE`.
* **Clear.** Counters are compared in every replica as well as on the server, as
  any of them may be written back as a whole column.
* **BGP.** A new AS number of a group is written to the peers bound to it, and
  peers and groups are rows of one map whose kind the lookup ignores. That their
  AS numbers agree is kept only because, as `BgpInv` adds, rows are bound to
  rows that are in the map, and have the columns of their table. A row under an
  address is taken for a peer even if it is a group, so agreement is stated of
  peers bound to groups under a name; nothing is assumed of the words that are
  typed.
* **Ports.** `OK(X, I, P, B, V)` is stated of four tables and a set `X` of
  interfaces whose ports are gone, so that it can be kept from one call inside a
  command to the next: lemmas say what adding a port in a VRF or in the bridge,
  removing ports, and making a port again do to it, and a command is a chain of
  them. It adds to the property that a port carries the interface of its name,
  that members of the LAG have no ports, and that interfaces other than hardware
  have ports. That the parents of sub-interfaces are routed excepts interfaces
  that may be members of a LAG: create a sub-interface under a member, join two
  interfaces to the LAG, and "no routing" of the second takes the LAG's port for
  the interface's own and removes the sub-interfaces of whatever interface is
  first in it (`vrf_vty.c:823`).
* **Policy.** `TablesOK` says what the commands can have stored: ranges of an
  entry as PrefixEntry normalises them, one row per name of a filter, rows of AS
  path filters that are never empty, clauses only under keys that the running
  configuration can print. The last two are needed for PolicyRestores and not
  mentioned by any property. That a printed line stores the entry it was printed
  for is by cases on the family the printer guesses and on `ge` and `le`; that a
  printed clause sets its key is that the two tables of words and keys are
  inverse to each other.
* **OSPF.** For the router, `RouterInv` adds to the property that areas are
  rows with the columns the commands give them. What a command may do to a row is
  one relation, `Follows`, which each helper is shown to satisfy: areas stay
  well-formed, ranges stay where they are, the two keys of a stub router replace
  each other. Both theorems follow from it, so that a command is examined once.
  For an interface, `PortInv` says which columns a port has; that zero is not an
  interval is needed because the remainder is by the stored hello interval, and
  only a port without one has zero for it. For virtual links the property is
  inductive by itself: only the path with a full table leaves the transaction
  open, and what comes next leaves the table as it is until the process starts
  again.

### Only model-checked

* Liveness (CommandEnds, ChangesArrive, LeftTxnEnds, LineEnds, Converges, ClearNotBlocked,
  NoStarvation, SessionGoneIsClosed): the prover has neither fairness nor
  ENABLED.
* ModesRefined with ranges cut off by a constraint is the run's form of
  ModesShown; the fairness of lines is part of neither.
* RefreshCovers, MatchSound, KeysAgree, LineShown, LineEdited, NothingLost,
  LoopInOrder, TimersOnTime, ListsFilter, MapsApply, LibraryRestores: the sweep
  of the alias table, the matcher, the heap, the line and the filters of the
  library are recursive, and what a recursive definition computes for every input
  needs an induction over data that the provers cannot instantiate.
* ConfigurationRestores of L3 and OSPF folds over the printed lines, for the same
  reason.
* Of SettingsStay, that a command changes one virtual link only: the rows are a
  sequence that is filtered, which needs the induction above. That an L3 command
  changes the ports of one interface only was not attempted.
* KeysValid, SessionServed and ShowsAgree are finite in kind, and no proof of them
  was attempted.

## 5. Not modelled

| Part | Why |
|---|---|
| ECMP, banner, logrotate, audit log | updates of single columns in the frame of OvsdbCommand, and external programs |
| password server client | a thin wrapper of library and PAM calls; the answers come from another process |
| plugins | shared objects loaded in one pass at the start |
| expansion of `$n` in aliases, reading of configuration files | text; the executed lines are those of CommandContext and VtyshThreads |
| work queues | they adapt to measured CPU time, and nothing in `vtysh` uses them |
| buffers, streams, containers | sequential code; taken as sequences, sets and functions |
| distribute lists, interface route maps, zebra client | used by daemons only |
| logging, SNMP, privileges, sockets, memory accounting | no protocol between callers |
| MD5, regular expressions, getopt, checksums | third-party algorithms |

The server of the database is external: a commit succeeds or fails as a whole,
and references to deleted rows disappear. Within modelled parts, formatting and
wording of displays are left out, and scanners of addresses and ranges are
tables.
