--------------------------- MODULE CommandContext ---------------------------
(***************************************************************************)
(* How a command line finds its handler and what it leaves behind in the   *)
(* context: vtysh.c:vtysh_execute_func, command.c:cmd_execute_command and  *)
(* cmd_execute_command_real, and the commands that change the node.        *)
(*                                                                         *)
(* A command that cannot be executed in the current node is tried in the   *)
(* parent nodes, for which vty->node is changed and vty->index and         *)
(* vty->index_list are set aside.  "do" tries a command in ENABLE_NODE the *)
(* same way.  In the context of a range of interfaces a handler is called  *)
(* once per member.  Only one thread is involved, but SIGTSTP (^Z) may     *)
(* interrupt it anywhere and returns to the prompt.                        *)
(***************************************************************************)
EXTENDS Naturals, Sequences

CONSTANTS
  Commands,  \* what is installed: [kind, at, to], see Command
  Objects,   \* interfaces and other things that vty->index points to
  MaxRange   \* members of the largest range

NULL == "NULL"

(* enum node_type: a node for every case of the switch statements below.   *)
Above == {"BGP", "BGP_IPV4", "KEYCHAIN", "KEYCHAIN_KEY", "INTERFACE", "VRRP_IF"}

Nodes == {"VIEW", "ENABLE", "CONFIG"} \union Above

(* Kinds: DEFUNSH commands are run by vtysh_execute_func and only change   *)
(* the node ("goto" covers key, key chain, address-family and              *)
(* exit-address-family); others are run by cmd_execute_command_real.       *)
DaemonKinds == {"exit", "end", "configure", "enable", "disable", "goto"}

Command ==
  [kind : DaemonKinds \union {"enter", "eager", "range", "plain"}, at : SUBSET Nodes, to : Nodes]

(* What the constants are.                                                 *)
ContextConstants ==
  /\ Commands \subseteq Command /\ Commands # {} /\ MaxRange \in Nat /\ NULL \notin Objects
  /\ \A c \in Commands : c.kind \in {"enter", "eager", "range", "goto"} => c.to \in Above

Ranges == UNION {[1..n -> Objects] : n \in 0..MaxRange}

VARIABLES
  node, index, list,  \* vty->node, vty->index, vty->index_list
  pc,                 \* "idle" at the prompt; "match", "round", "tried", "func"; "gone"
  line,               \* the line executed: [cmd, do]
  hold,               \* <<>>, or onode and temp of the "do" shortcut
  rest,               \* members of the range still to be visited
  aside,              \* <<>>, or what vtysh_execute_func saves to walk up
  ret,                \* status of the command
  before,             \* the context and status when the line was read
  runs                \* calls of handlers for this line, and skipped ones

contextVars == <<node, index, list, pc, line, hold, rest, aside, ret, before, runs>>

context == <<node, index, list>>

(* "ERR" stands for CMD_ERR_NOTHING_TODO, _INCOMPLETE and _AMBIGUOUS.      *)
Status == {"SUCCESS", "DAEMON", "WARNING", "OVSDB_FAILURE", "NO_MATCH", "ERR", "STOPPED"}

HandlerStatus == {"SUCCESS", "WARNING", "OVSDB_FAILURE", "ERR"}

ContextInit ==
  /\ node \in {"VIEW", "ENABLE"} /\ index = NULL /\ list = <<>>
  /\ pc = "idle" /\ line \in [cmd : {CHOOSE c \in Commands : TRUE}, do : {FALSE}]
  /\ hold = <<>> /\ rest = <<>> /\ aside = <<>> /\ ret = "SUCCESS"
  /\ before = [node |-> node, list |-> <<>>, ret |-> "SUCCESS"] /\ runs = <<>>
-----------------------------------------------------------------------------
(* node_parent *)
node_parent(n) ==
  CASE n = "BGP_IPV4"     -> "BGP"
    [] n = "KEYCHAIN_KEY" -> "KEYCHAIN"
    [] OTHER              -> "CONFIG"

(* The next line.                                                          *)
Read(c, d) ==
  /\ pc = "idle" /\ pc' = "match"
  /\ line' = [cmd |-> c, do |-> d]
  /\ before' = [node |-> node, list |-> list, ret |-> ret]
  /\ runs' = <<>>
  /\ UNCHANGED <<context, hold, rest, aside, ret>>

(* cmd_try_do_shortcut *)
Shortcut == line.do /\ node \notin {"VIEW", "ENABLE"}

Found == IF Shortcut THEN "ENABLE" \in line.cmd.at
         ELSE ~line.do /\ node \in line.cmd.at

(* cmd_execute_command up to the call of a handler: the command is not     *)
(* found, is refused (by the authorization, which exit and end are spared, *)
(* or as ambiguous), is left to vtysh_execute_func, or is going to run.    *)
Refuse ==
  /\ pc = "match"
  /\ \/ ~Found /\ ret' = "NO_MATCH"
     \/ Found /\ line.cmd.kind \notin {"exit", "end"} /\ ret' = "ERR"
     \/ Found /\ line.cmd.kind \in DaemonKinds /\ ret' = "DAEMON"
  /\ pc' = "tried"
  /\ UNCHANGED <<context, line, hold, rest, aside, before, runs>>

Accept ==
  /\ pc = "match" /\ Found /\ line.cmd.kind \notin DaemonKinds
  /\ IF Shortcut
     THEN /\ hold' = <<[node |-> node, list |-> list]>>
          /\ node' = "ENABLE" /\ list' = <<>>
     ELSE UNCHANGED <<hold, node, list>>
  /\ rest' = list' /\ ret' = "SUCCESS" /\ pc' = "round"
  /\ UNCHANGED <<index, line, aside, before, runs>>

(* The effect of a handler on the context: a command that enters a mode    *)
(* points index to what it configures, and one for ranges stores them.     *)
(* "eager" ones (router bgp, route-map) do so before they commit.          *)
Enters(r) ==
  \/ line.cmd.kind \in {"enter", "range"} /\ r = "SUCCESS"
  \/ line.cmd.kind = "eager" /\ r \in {"SUCCESS", "WARNING"}

Effect(r) ==
  \/ /\ Enters(r)
     /\ node' = line.cmd.to /\ index' \in Objects
     /\ IF line.cmd.kind = "range" THEN list' \in Ranges ELSE UNCHANGED list
  \/ /\ index' = IF rest = <<>> THEN index ELSE rest[1]
     /\ UNCHANGED <<node, list>>

(* One call of the handler, for a range with index set to a member; it is  *)
(* skipped when the system is not ready, and ret keeps its value then.     *)
(* The loop breaks if index is NULL afterwards: no handler of vtysh clears *)
(* it (config_exit does, which vtysh does not install).                    *)
Advance_FirstOnly(d) ==
  /\ runs' = Append(runs, [node |-> node, member |-> IF rest = <<>> THEN NULL ELSE rest[1], done |-> d])
  /\ rest' = <<>> /\ pc' = "tried"

Advance(d) ==
  /\ runs' = Append(runs, [node |-> node, member |-> IF rest = <<>> THEN NULL ELSE rest[1], done |-> d])
  /\ rest' = IF rest = <<>> \/ index' = NULL THEN <<>> ELSE Tail(rest)
  /\ pc' = IF Len(rest) <= 1 \/ index' = NULL THEN "tried" ELSE "round"

Call ==
  /\ pc = "round"
  /\ \E r \in HandlerStatus : ret' = r /\ Effect(r)
  /\ Advance(TRUE)
  /\ UNCHANGED <<line, hold, aside, before>>

NotReady ==
  /\ pc = "round"
  /\ index' = IF rest = <<>> THEN index ELSE rest[1]
  /\ Advance(FALSE)
  /\ UNCHANGED <<node, list, ret, line, hold, aside, before>>

(* The return of cmd_execute_command undoes "do".                          *)
AfterDo_LosesRange == IF hold = <<>> THEN [node |-> node, list |-> list]
                      ELSE [node |-> hold[1].node, list |-> <<>>]

AfterDo == IF hold = <<>> THEN [node |-> node, list |-> list] ELSE hold[1]

Final(r) == r \in {"SUCCESS", "DAEMON", "WARNING", "OVSDB_FAILURE"}

(* vtysh_execute_func: the walk to the parent nodes.                       *)
WalkUp_Stays ==
  /\ pc = "tried" /\ ~Final(ret) /\ AfterDo.node \in Above
  /\ aside' = IF aside # <<>> THEN aside
              ELSE <<[node |-> AfterDo.node, index |-> index,
                      list |-> AfterDo.list, ret |-> ret]>>
  /\ IF ret = "NO_MATCH"
     THEN node' = AfterDo.node /\ list' = AfterDo.list /\ UNCHANGED index
     ELSE node' = node_parent(AfterDo.node) /\ index' = NULL /\ list' = <<>>
  /\ hold' = <<>> /\ pc' = "match"
  /\ UNCHANGED <<line, rest, ret, before, runs>>

WalkUp ==
  /\ pc = "tried" /\ ~Final(ret) /\ AfterDo.node \in Above
  /\ aside' = IF aside # <<>> THEN aside
              ELSE <<[node |-> AfterDo.node, index |-> index,
                      list |-> AfterDo.list, ret |-> ret]>>
  /\ node' = node_parent(AfterDo.node) /\ index' = NULL /\ list' = <<>>
  /\ hold' = <<>> /\ pc' = "match"
  /\ UNCHANGED <<line, rest, ret, before, runs>>

(* Only success ends a walk elsewhere than where it began.                 *)
EndWalk_RunsDaemon ==
  IF ret \notin {"SUCCESS", "DAEMON"} /\ aside # <<>>
  THEN /\ node' = aside[1].node /\ index' = aside[1].index /\ list' = aside[1].list
       /\ ret' = aside[1].ret /\ pc' = "idle"
  ELSE /\ node' = AfterDo.node /\ list' = AfterDo.list
       /\ pc' = IF ret = "DAEMON" THEN "func" ELSE "idle"
       /\ UNCHANGED <<index, ret>>

EndWalk ==
  IF ret # "SUCCESS" /\ aside # <<>>
  THEN /\ node' = aside[1].node /\ index' = aside[1].index /\ list' = aside[1].list
       /\ ret' = aside[1].ret /\ pc' = "idle"
  ELSE /\ node' = AfterDo.node /\ list' = AfterDo.list
       /\ pc' = IF ret = "DAEMON" THEN "func" ELSE "idle"
       /\ UNCHANGED <<index, ret>>

Finish_KeepsAside ==
  /\ pc = "tried" /\ (Final(ret) \/ AfterDo.node \notin Above)
  /\ EndWalk
  /\ hold' = <<>>
  /\ UNCHANGED <<line, rest, aside, before, runs>>

Finish ==
  /\ pc = "tried" /\ (Final(ret) \/ AfterDo.node \notin Above)
  /\ EndWalk
  /\ hold' = <<>> /\ aside' = <<>>
  /\ UNCHANGED <<line, rest, before, runs>>
-----------------------------------------------------------------------------
(* vtysh_end, also for ^Z *)
vtysh_end(n) == IF n \in {"VIEW", "ENABLE"} THEN n ELSE "ENABLE"

(* vtysh_exit; for most nodes it executes "end" and "configure terminal",  *)
(* which ends in CONFIG_NODE as well.                                      *)
vtysh_exit(n) ==
  CASE n = "CONFIG"  -> "ENABLE"
    [] n = "VRRP_IF" -> "INTERFACE"
    [] OTHER         -> node_parent(n)

(* The func of a DEFUNSH command, after the (absent) daemons were told.    *)
Func ==
  /\ pc = "func"
  /\ LET k == line.cmd.kind
     IN  \/ /\ k = "exit" /\ node \in {"VIEW", "ENABLE"} /\ pc' = "gone"
            /\ UNCHANGED <<node, list>>
         \/ /\ k = "exit" /\ node \notin {"VIEW", "ENABLE"} /\ pc' = "idle"
            /\ node' = vtysh_exit(node) /\ list' = <<>>
         \/ /\ k # "exit" /\ pc' = "idle" /\ UNCHANGED list
            /\ node' = CASE k = "end"       -> vtysh_end(node)
                         [] k = "configure" -> "CONFIG"
                         [] k = "enable"    -> "ENABLE"
                         [] k = "disable"   -> IF node = "ENABLE" THEN "VIEW" ELSE node
                         [] k = "goto"      -> line.cmd.to
  /\ UNCHANGED <<index, line, hold, rest, aside, ret, before, runs>>

(* sigtstp: "end" is executed in whatever node is set, and siglongjmp      *)
(* returns to the prompt.                                                  *)
Sigtstp ==
  /\ pc # "gone" /\ pc' = "idle"
  /\ node' = vtysh_end(node)
  /\ ret' = "STOPPED" /\ hold' = <<>> /\ rest' = <<>> /\ aside' = <<>>
  /\ UNCHANGED <<index, list, line, before, runs>>

Gone == pc = "gone" /\ UNCHANGED contextVars

Step == Refuse \/ Accept \/ Call \/ NotReady \/ WalkUp \/ Finish \/ Func

ContextNext ==
  \/ \E c \in Commands, d \in BOOLEAN : Read(c, d)
  \/ Step \/ Sigtstp \/ Gone

ContextSpec == ContextInit /\ [][ContextNext]_contextVars

(* A line, once read, is worked on.                                        *)
ContextFairSpec == ContextSpec /\ WF_contextVars(Step)
-----------------------------------------------------------------------------
(* Types; what is set aside is there exactly while a line is executed.     *)
Idle == pc \in {"idle", "gone"}

ContextTypeOK ==
  /\ node \in Nodes /\ index \in Objects \union {NULL} /\ list \in Ranges
  /\ pc \in {"idle", "match", "round", "tried", "func", "gone"}
  /\ line \in [cmd : Commands, do : BOOLEAN]
  /\ hold # <<>> => hold[1] \in [node : Nodes, list : Ranges] /\ pc \in {"round", "tried"}
  /\ rest \in Ranges
  /\ aside # <<>> => /\ aside[1] \in [node : Above, index : Objects \union {NULL},
                                   list : Ranges, ret : Status]
                     /\ ~Idle
  /\ ret \in Status /\ before \in [node : Nodes, list : Ranges, ret : Status]

(* A line that fails, in the current node, in all parents or under "do",   *)
(* leaves node and range as they were; and a "do" that does not move the   *)
(* user up leaves the range.  (A command that enters a mode while a range  *)
(* is set may succeed for one member and fail for the next, and "router    *)
(* bgp" enters its mode also when its commit fails.)                       *)
Failed == ret \notin {"SUCCESS", "DAEMON", "STOPPED"}

ContextKept ==
  pc = "idle" /\ ret # "STOPPED" /\ (line.cmd.kind = "plain" \/ before.list = <<>>)
    /\ line.cmd.kind # "eager"
  => /\ Failed => node = before.node /\ list = before.list
     /\ line.cmd.kind = "plain" /\ node = before.node => list = before.list

(* A handler that runs in the node of a range runs for every member, in    *)
(* order, whatever it returns for the earlier ones.                        *)
EveryMember ==
  pc = "idle" /\ ret # "STOPPED" /\ (\E i \in DOMAIN runs : runs[i].member # NULL)
    => /\ Len(before.list) <= Len(runs)
       /\ \A i \in DOMAIN runs :
            runs[i].member = IF i <= Len(before.list) THEN before.list[i] ELSE NULL

(* "MUST eventually converge on CONFIG_NODE": the walk ends, and every     *)
(* line with it.                                                           *)
LineEnds == ~Idle ~> Idle

(* The tree of modes, as a user sees it.                                   *)
parentOf ==
  [n \in Above |-> IF n = "BGP_IPV4" THEN "BGP" ELSE IF n = "KEYCHAIN_KEY" THEN "KEYCHAIN" ELSE "CONFIG"]

(* The temporary changes of vty->node are never seen from outside.         *)
Shown == INSTANCE CliModes WITH
  Modes <- Nodes, Parent <- parentOf,
  mode <- IF Idle THEN node ELSE before.node,
  status <- LET r == IF Idle THEN ret ELSE before.ret
            IN  IF r \in {"SUCCESS", "DAEMON", "STOPPED"} THEN "ok" ELSE "error"

RefinesModes == Shown!Spec

(* "End current mode and change to enable mode": the range belongs to the  *)
(* mode that is left.                                                      *)
EndForgetsRange ==
  pc = "idle" /\ ret = "DAEMON" /\ line.cmd.kind = "end" => list = <<>>

(* "checking whether the given command might apply at a parent node if     *)
(* doesn't apply for the current node": outside a range a line calls a     *)
(* handler at most once.                                                   *)
AppliedOnce ==
  before.list = <<>> => Len(SelectSeq(runs, LAMBDA r : r.done)) <= 1

(* "The status of the command that has been executed or an error code as   *)
(* to why no command could be executed"                                    *)
SuccessMeansExecuted ==
  pc = "tried" /\ ret = "SUCCESS" => \E i \in DOMAIN runs : runs[i].done
=============================================================================
