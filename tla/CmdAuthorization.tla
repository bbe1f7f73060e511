-------------------------- MODULE CmdAuthorization --------------------------
(***************************************************************************)
(* The authorization of one command (command.c:check_cmd_authorization).   *)
(*                                                                         *)
(* The groups configured for authorization are tried in order.  The        *)
(* servers of a group are asked in the order of their priorities until one *)
(* answers; the group "none" allows everything.  The rows of the servers   *)
(* are read from the replica without the lock, and each question waits for *)
(* the network, so the poll thread may delete rows in between.             *)
(***************************************************************************)
EXTENDS Naturals, Sequences, FiniteSets, SequencesExt

CONSTANTS
  Servers,     \* TACACS+ servers
  UserGroups,  \* groups defined by users
  MaxGroups,   \* bound on the groups configured for authorization
  MaxDeletes   \* bound on server rows deleted meanwhile

TAC_DEFAULT_GROUP == "tacacs_plus"    \* all servers belong to it
TAC_NONE_GROUP == "none"

(* What the constants are.                                                 *)
AuthorizationConstants ==
  /\ IsFiniteSet(Servers) /\ MaxGroups \in Nat /\ MaxDeletes \in Nat
  /\ UserGroups \cap {TAC_DEFAULT_GROUP, TAC_NONE_GROUP} = {}

Priorities == 1..Cardinality(Servers)

VARIABLES
  prios,      \* value_authorization_group_prios
  serverRows, \* servers that have a row in the replica
  group,      \* the second group of a server, or TAC_DEFAULT_GROUP when it has one only
  byGroup,    \* user_group_priority of the servers
  byDef,      \* default_group_priority of the servers
  step,       \* "start", "group", "ask", "done"
  iter,       \* the group tried, from 1
  bydef,      \* by_default_priority
  nodes,      \* the sorted servers of the group that are still to be asked
  passkey,    \* what passkey points to: "allocated" or "freed" memory
  asked,      \* the questions so far: [iter, server, reply]
  result      \* "EXIT_OK", "EXIT_FAIL", "EXIT_CONN_ERR"

config == <<prios, group, byGroup, byDef>>
authorVars == <<config, serverRows, step, iter, bydef, nodes, passkey, asked, result>>

AuthorInit ==
  /\ prios \in {p \in UNION {[1..n -> UserGroups \union {TAC_DEFAULT_GROUP, TAC_NONE_GROUP}] : n \in 0..MaxGroups} :
                IsInjective(p)}
  /\ group \in [Servers -> UserGroups \union {TAC_DEFAULT_GROUP}]
  /\ byGroup \in [Servers -> Priorities] /\ byDef \in [Servers -> Priorities]
  /\ serverRows = Servers /\ step = "start" /\ iter = 1 /\ bydef = FALSE /\ nodes = <<>>
  /\ passkey = "allocated" /\ asked = <<>> /\ result = "EXIT_OK"
-----------------------------------------------------------------------------
Return(r) == step' = "done" /\ result' = r

(* Without groups, or when the first one is "none", nobody is asked; the   *)
(* table of priorities may not even have a row yet.                        *)
Start ==
  /\ step = "start"
  /\ \/ Return("EXIT_FAIL") /\ passkey' = "freed"
     \/ /\ IF prios # <<>> /\ prios[1] # TAC_NONE_GROUP
           THEN step' = "group" /\ UNCHANGED result
           ELSE Return("EXIT_OK")
        /\ UNCHANGED passkey
  /\ UNCHANGED <<config, serverRows, iter, bydef, nodes, asked>>

InGroup(g) == {s \in serverRows : g = TAC_DEFAULT_GROUP \/ group[s] = g}

(* sort_servers: qsort by one of the two priorities.                       *)
Sorted(ss, prio) ==
  {q \in SetToSeqs(ss) : \A i, j \in DOMAIN q : i < j => prio[q[i]] <= prio[q[j]]}

(* The head of the loop over the groups: once a group was the default one, *)
(* all later ones are sorted by the default priority as well.              *)
Group ==
  /\ step = "group" /\ iter <= Len(prios)
  /\ LET g == prios[iter]
     IN  \/ /\ g = TAC_NONE_GROUP /\ Return("EXIT_OK") /\ passkey' = "freed"
            /\ UNCHANGED <<bydef, nodes>>
         \/ /\ g # TAC_NONE_GROUP /\ InGroup(g) = {} /\ Return("EXIT_FAIL")
            /\ bydef' = (bydef \/ g = TAC_DEFAULT_GROUP) /\ UNCHANGED <<nodes, passkey>>
         \/ /\ g # TAC_NONE_GROUP /\ InGroup(g) # {} /\ step' = "ask"
            /\ bydef' = (bydef \/ g = TAC_DEFAULT_GROUP)
            /\ nodes' \in Sorted(InGroup(g), IF bydef' THEN byDef ELSE byGroup)
            /\ UNCHANGED <<passkey, result>>
  /\ UNCHANGED <<config, serverRows, iter, asked>>

(* One question; EXIT_CONN_ERR leads to the next server.                   *)
Ask_Once ==
  /\ step = "ask" /\ nodes # <<>>
  /\ \E r \in {"EXIT_OK", "EXIT_FAIL", "EXIT_CONN_ERR"} :
       /\ asked' = Append(asked, [iter |-> iter, server |-> nodes[1], reply |-> r])
       /\ IF r = "EXIT_CONN_ERR"
          THEN nodes' = <<>> /\ UNCHANGED <<step, result, passkey>>
          ELSE Return(r) /\ passkey' = "freed" /\ UNCHANGED nodes
  /\ UNCHANGED <<config, serverRows, iter, bydef>>

Ask ==
  /\ step = "ask" /\ nodes # <<>>
  /\ \E r \in {"EXIT_OK", "EXIT_FAIL", "EXIT_CONN_ERR"} :
       /\ asked' = Append(asked, [iter |-> iter, server |-> nodes[1], reply |-> r])
       /\ IF r = "EXIT_CONN_ERR"
          THEN nodes' = Tail(nodes) /\ UNCHANGED <<step, result, passkey>>
          ELSE Return(r) /\ passkey' = "freed" /\ UNCHANGED nodes
  /\ UNCHANGED <<config, serverRows, iter, bydef>>

(* No server of the group answered.                                        *)
NextGroup ==
  /\ step = "ask" /\ nodes = <<>>
  /\ passkey' = "freed" /\ iter' = iter + 1 /\ step' = "group"
  /\ UNCHANGED <<config, serverRows, bydef, nodes, asked, result>>

(* No group answered, and the last of them is not "none".                  *)
NoAnswer_Allow ==
  /\ step = "group" /\ iter > Len(prios) /\ Return("EXIT_OK")
  /\ UNCHANGED <<config, serverRows, iter, bydef, nodes, passkey, asked>>

NoAnswer ==
  /\ step = "group" /\ iter > Len(prios) /\ Return("EXIT_CONN_ERR")
  /\ UNCHANGED <<config, serverRows, iter, bydef, nodes, passkey, asked>>

(* The poll thread learns that a server was removed from the database.     *)
Delete(s) ==
  /\ s \in serverRows /\ Cardinality(Servers \ serverRows) < MaxDeletes
  /\ serverRows' = serverRows \ {s}
  /\ UNCHANGED <<config, step, iter, bydef, nodes, passkey, asked, result>>

AuthorDone == step = "done" /\ UNCHANGED authorVars

AuthorNext ==
  \/ Start \/ Group \/ Ask \/ NextGroup \/ NoAnswer
  \/ \E s \in Servers : Delete(s)
  \/ AuthorDone

AuthorSpec == AuthorInit /\ [][AuthorNext]_authorVars
-----------------------------------------------------------------------------
(* Types; at most one group beyond the last is looked at.                  *)
AuthorTypeOK ==
  /\ serverRows \subseteq Servers /\ step \in {"start", "group", "ask", "done"}
  /\ iter \in 1..(Len(prios) + 1) /\ bydef \in BOOLEAN /\ nodes \in Seq(Servers)
  /\ passkey \in {"allocated", "freed"}
  /\ asked \in Seq([iter : 1..MaxGroups, server : Servers,
                    reply : {"EXIT_OK", "EXIT_FAIL", "EXIT_CONN_ERR"}])
  /\ result \in {"EXIT_OK", "EXIT_FAIL", "EXIT_CONN_ERR"}

AskedIn(i) == {asked[k].server : k \in {j \in DOMAIN asked : asked[j].iter = i}}

Unanswered == \A k \in DOMAIN asked : asked[k].reply = "EXIT_CONN_ERR"

(* The command is allowed only because the first server that answered      *)
(* said so, or because "none" was reached with nobody answering; in        *)
(* particular an unreachable server never allows anything.                 *)
AllowedForAReason ==
  step = "done" /\ result = "EXIT_OK" =>
    \/ Unanswered /\ (prios = <<>> \/ (iter <= Len(prios) /\ prios[iter] = TAC_NONE_GROUP))
    \/ /\ asked # <<>> /\ asked[Len(asked)].reply = "EXIT_OK"
       /\ \A k \in 1..(Len(asked) - 1) : asked[k].reply = "EXIT_CONN_ERR"

(* A group is given up only when each of its servers was asked, and none   *)
(* is asked twice, whatever rows disappear meanwhile.                      *)
GroupsExhausted ==
  /\ \A i \in 1..(iter - 1) : InGroup(prios[i]) \subseteq AskedIn(i)
  /\ \A j, k \in DOMAIN asked :
       asked[j].iter = asked[k].iter /\ asked[j].server = asked[k].server => j = k

(* "so that it can be initialized for different group": what is used for   *)
(* the questions of a group has been set up for it.                        *)
PasskeyUsable == step = "ask" /\ nodes # <<>> => passkey = "allocated"

(* "if the groups is default sort by default priority else by group        *)
(* priority"                                                               *)
SortedByGroup ==
  step = "ask" /\ prios[iter] # TAC_DEFAULT_GROUP
    => \A i, j \in DOMAIN nodes : i < j => byGroup[nodes[i]] <= byGroup[nodes[j]]
=============================================================================
