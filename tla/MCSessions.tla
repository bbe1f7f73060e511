------------------------------ MODULE MCSessions ------------------------------
(***************************************************************************)
(* What a session shares with other sessions and with the daemons, each    *)
(* explored by itself: the context of its command lines (once with ranges  *)
(* of interfaces and once without, where it has an abstract specification),*)
(* its aliases, its idle timeout, the authorization of a command, and the  *)
(* counters of "clear bgp".                                                *)
(***************************************************************************)
EXTENDS CommandContext, SessionTimeout, CmdAuthorization, BgpClear

CONSTANTS Names, MaxAliases, Wrap, MaxOps    \* of AliasTable

VARIABLES
  part,                             \* which one is explored
  table, refresh, db, rows, ops     \* of AliasTable

aliasVars == <<table, refresh, db, rows, ops>>

all == <<part, contextVars, aliasVars, timeoutVars, authorVars, clearVars>>

Alias == INSTANCE AliasTable

(* One neighbor, in no group.                                              *)
MCOrder == <<"p">>
MCGroupOf == [n \in {"p"} |-> None]
MCRemoteAs == [n \in {"p"} |-> 7]

(* Commands of the code, at the nodes where it installs them.              *)
Below == {"BGP", "BGP_IPV4", "KEYCHAIN", "KEYCHAIN_KEY", "INTERFACE", "VRRP_IF", "CONFIG"}

Plain(s) == [kind |-> "plain", at |-> s, to |-> "ENABLE"]

Shell ==
  {[kind |-> "exit", at |-> Below \union {"VIEW", "ENABLE"}, to |-> "ENABLE"],
   [kind |-> "end", at |-> Below \union {"ENABLE"}, to |-> "ENABLE"],
   [kind |-> "configure", at |-> {"ENABLE"}, to |-> "CONFIG"],
   [kind |-> "disable", at |-> {"ENABLE"}, to |-> "VIEW"],
   [kind |-> "enable", at |-> {"VIEW"}, to |-> "ENABLE"]}

(* address-family, key chain, key and exit-address-family *)
Gotos ==
  {[kind |-> "goto", at |-> {"BGP"}, to |-> "BGP_IPV4"],
   [kind |-> "goto", at |-> {"BGP_IPV4"}, to |-> "BGP"],
   [kind |-> "goto", at |-> {"CONFIG", "KEYCHAIN", "KEYCHAIN_KEY"}, to |-> "KEYCHAIN"],
   [kind |-> "goto", at |-> {"KEYCHAIN"}, to |-> "KEYCHAIN_KEY"]}

(* router bgp, vrrp, and a show, a config, a BGP and an interface command  *)
Others ==
  {[kind |-> "eager", at |-> {"CONFIG"}, to |-> "BGP"],
   [kind |-> "enter", at |-> {"INTERFACE"}, to |-> "VRRP_IF"],
   Plain({"ENABLE"}), Plain({"CONFIG"}), Plain({"BGP", "BGP_IPV4"}), Plain({"INTERFACE"})}

AllCommands ==
  Shell \union Gotos \union Others \union {[kind |-> "range", at |-> {"CONFIG"}, to |-> "INTERFACE"]}

NoRanges ==
  Shell \union Gotos \union Others \union {[kind |-> "enter", at |-> {"CONFIG"}, to |-> "INTERFACE"]}

Single == INSTANCE CommandContext WITH Commands <- NoRanges, MaxRange <- 0

ASSUME SessionConstants ==
  /\ ContextConstants /\ Single!ContextConstants
  /\ Alias!AliasConstants /\ TimeoutConstants /\ AuthorizationConstants /\ ClearConstants
-------------------------------------------------------------------------------
(* A part that is not explored stays in one of its initial states.         *)
NoContext == ContextInit /\ node = "ENABLE"
NoAlias == Alias!Init /\ db = {}
NoAuthor ==
  /\ AuthorInit /\ prios = <<>> /\ group = [s \in Servers |-> TAC_DEFAULT_GROUP]
  /\ byGroup = [s \in Servers |-> 1] /\ byDef = byGroup

MCInit ==
  /\ TimeoutInit /\ ClearInit
  /\ \/ part = "context" /\ ContextInit /\ NoAlias /\ NoAuthor
     \/ part = "modes" /\ Single!ContextInit /\ NoAlias /\ NoAuthor
     \/ part = "alias" /\ Alias!Init /\ NoContext /\ NoAuthor
     \/ part = "author" /\ AuthorInit /\ NoContext /\ NoAlias
     \/ part \in {"timeout", "clear"} /\ NoContext /\ NoAlias /\ NoAuthor

InContext(A) == part = "context" /\ A /\ UNCHANGED <<part, aliasVars, timeoutVars, authorVars, clearVars>>
InModes(A) == part = "modes" /\ A /\ UNCHANGED <<part, aliasVars, timeoutVars, authorVars, clearVars>>
InAlias(A) == part = "alias" /\ A /\ UNCHANGED <<part, contextVars, timeoutVars, authorVars, clearVars>>
InTimeout(A) == part = "timeout" /\ A /\ UNCHANGED <<part, contextVars, aliasVars, authorVars, clearVars>>
InAuthor(A) == part = "author" /\ A /\ UNCHANGED <<part, contextVars, aliasVars, timeoutVars, clearVars>>
InClear(A) == part = "clear" /\ A /\ UNCHANGED <<part, contextVars, aliasVars, timeoutVars, authorVars>>

MCNext ==
  \/ InContext(ContextNext) \/ InModes(Single!ContextNext) \/ InAlias(Alias!Next)
  \/ InTimeout(TimeoutNext) \/ InAuthor(AuthorNext) \/ InClear(ClearNext)

(* The fairness of each part's own specification.                          *)
MCSpec ==
  /\ MCInit /\ [][MCNext]_all
  /\ WF_all(InContext(Step)) /\ WF_all(InModes(Single!Step)) /\ WF_all(InAlias(Alias!Refresh))
  /\ \A a \in Sessions \union {Daemon} : WF_all(InClear(Update(a)))
  /\ \A n \in Neighbors : WF_all(InClear(Perform(n)))
-------------------------------------------------------------------------------
(* The properties of CommandContext, SessionTimeout, CmdAuthorization and  *)
(* BgpClear are stated there: what they speak of is always in a state that *)
(* their module reaches.                                                   *)

(* Outside of ranges the prompt shows what CliModes allows: the temporary  *)
(* changes of vty->node are never seen.                                    *)
Prompted == INSTANCE CliModes WITH
  Modes <- Single!Nodes, Above <- Single!Above, Parent <- Single!parentOf, Commands <- NoRanges,
  mode <- IF part # "modes" THEN "ENABLE" ELSE IF Single!Idle THEN node ELSE before.node,
  status <- IF part # "modes" THEN "ok"
            ELSE LET r == IF Single!Idle THEN ret ELSE before.ret
                 IN  IF r \in {"SUCCESS", "DAEMON", "STOPPED"} THEN "ok" ELSE "error"

ModesRefined == Prompted!Spec

(* After a refresh every alias of the database can be executed, whatever   *)
(* the count of the refresh wraps to (vty_refresh_aliases).                *)
RefreshCovers ==
  [][part = "alias" /\ refresh' # refresh => rows' \subseteq Alias!NamesOf(table')]_all

(* When users pause, the aliases come in line with the database and stay   *)
(* so, failed commits and other sessions notwithstanding.                  *)
Converges == <>[](part = "alias" => Alias!InLine)
===============================================================================
