------------------------ MODULE CmdAuthorizationProofs ------------------------
(***************************************************************************)
(* check_cmd_authorization allows a command only for a reason and gives a  *)
(* group up only when its servers have all been asked: for any servers,    *)
(* groups, priorities and any number of rows deleted meanwhile.            *)
(*                                                                         *)
(* Both properties speak of the questions of the past; the invariant adds  *)
(* where the question under way stands: nobody has answered yet, nothing   *)
(* of a later group was asked, and the servers of the group are those      *)
(* asked and those still in the sorted list, each once.                    *)
(***************************************************************************)
EXTENDS CmdAuthorization, FiniteSetTheorems, SequenceTheorems, TLAPS

Groups == UserGroups \union {TAC_DEFAULT_GROUP, TAC_NONE_GROUP}

Question == [iter : 1..MaxGroups, server : Servers,
             reply : {"EXIT_OK", "EXIT_FAIL", "EXIT_CONN_ERR"}]

ConfigOK == prios \in Seq(Groups) /\ Len(prios) <= MaxGroups

(* Where the loops stand.                                                  *)
Position ==
  /\ step = "start" => iter = 1 /\ asked = <<>>
  /\ step = "ask" => iter <= Len(prios)
  /\ step # "done" => Unanswered
  /\ \A k \in DOMAIN asked : asked[k].iter <= iter
  /\ step = "group" => \A k \in DOMAIN asked : asked[k].iter < iter

(* The list of the group that is asked now.                                *)
ListOK ==
  step = "ask" =>
    /\ \A i, j \in DOMAIN nodes : i # j => nodes[i] # nodes[j]
    /\ \A i \in DOMAIN nodes : nodes[i] \notin AskedIn(iter)
    /\ \A s \in InGroup(prios[iter]) : s \in AskedIn(iter) \/ \E i \in DOMAIN nodes : s = nodes[i]

IInv == AuthorTypeOK /\ ConfigOK /\ Position /\ ListOK /\ AllowedForAReason /\ GroupsExhausted

(* sort_servers returns every server of the group, and each one once.      *)
LEMMA SortedServers ==
  ASSUME NEW ss, IsFiniteSet(ss), NEW prio, NEW q \in Sorted(ss, prio)
  PROVE  /\ q \in Seq(ss)
         /\ \A i, j \in DOMAIN q : i # j => q[i] # q[j]
         /\ \A s \in ss : \E i \in DOMAIN q : s = q[i]
<1> DEFINE n == Cardinality(ss)
<1>1. n \in Nat
  BY FS_CardinalityType
<1>2. q \in [1..n -> ss] /\ \A i, j \in 1..n : i # j => q[i] # q[j]
  BY DEF Sorted, SetToSeqs
<1>3. q \in Injection(1..n, ss)
  BY <1>2 DEF Injection, IsInjective
<1>4. Cardinality(1..n) = n
  BY <1>1, FS_Interval
<1>5. q \in Surjection(1..n, ss)
  BY <1>3, <1>4, FS_Injection
<1>6. \A s \in ss : \E i \in 1..n : s = q[i]
  BY <1>5 DEF Surjection
<1>7. q \in Seq(ss) /\ DOMAIN q = 1..n
  BY <1>1, <1>2, SeqDef
<1>. QED BY <1>2, <1>6, <1>7

(* The facts used below about the sequences.                               *)
LEMMA Types ==
  ASSUME AuthorizationConstants, IInv
  PROVE  /\ Len(prios) \in Nat /\ iter \in Nat /\ MaxGroups \in Nat /\ 1 <= iter /\ iter <= Len(prios) + 1
         /\ DOMAIN prios = 1..Len(prios)
         /\ asked \in Seq(Question) /\ Len(asked) \in Nat /\ DOMAIN asked = 1..Len(asked)
         /\ \A k \in DOMAIN asked : asked[k] \in Question /\ asked[k].iter \in Nat
         /\ nodes \in Seq(Servers) /\ Len(nodes) \in Nat /\ DOMAIN nodes = 1..Len(nodes)
         /\ serverRows \subseteq Servers
<1>1. prios \in Seq(Groups) /\ Len(prios) \in Nat /\ DOMAIN prios = 1..Len(prios)
  BY LenProperties DEF IInv, ConfigOK
<1>2. asked \in Seq(Question) /\ Len(asked) \in Nat /\ DOMAIN asked = 1..Len(asked)
  BY LenProperties DEF IInv, AuthorTypeOK, Question
<1>3. nodes \in Seq(Servers) /\ Len(nodes) \in Nat /\ DOMAIN nodes = 1..Len(nodes)
  BY LenProperties DEF IInv, AuthorTypeOK
<1>4. \A k \in DOMAIN asked : asked[k] \in Question
  BY <1>2, ElementOfSeq
<1>5. \A k \in DOMAIN asked : asked[k].iter \in Nat
  BY <1>4 DEF Question, AuthorizationConstants
<1>. QED BY <1>1, <1>2, <1>3, <1>4, <1>5 DEF IInv, AuthorTypeOK, AuthorizationConstants

(* The invariant holds at the start.                                       *)
LEMMA InitIInv == ASSUME AuthorizationConstants, AuthorInit PROVE IInv
<1>1. PICK n \in 0..MaxGroups : prios \in [1..n -> Groups]
  BY DEF AuthorInit, Groups
<1>2. n \in Nat /\ prios \in Seq(Groups) /\ Len(prios) = n
  BY <1>1, SeqDef DEF AuthorizationConstants
<1>3. ConfigOK
  BY <1>1, <1>2 DEF ConfigOK, AuthorizationConstants
<1>4. asked = <<>> /\ nodes = <<>> /\ iter = 1 /\ step = "start" /\ serverRows = Servers
  BY DEF AuthorInit
<1>5. bydef \in BOOLEAN
  BY Zenon DEF AuthorInit
<1>6. AuthorTypeOK
  BY <1>2, <1>4, <1>5, EmptySeq DEF AuthorInit, AuthorTypeOK
<1>7. Position /\ ListOK /\ AllowedForAReason
  BY <1>4 DEF Position, ListOK, AllowedForAReason, Unanswered
<1>8. GroupsExhausted
  BY <1>4 DEF GroupsExhausted
<1>. QED BY <1>3, <1>6, <1>7, <1>8 DEF IInv

(* Steps that ask nobody and add no row keep what is said of the past.     *)
LEMMA PastKept ==
  ASSUME AuthorizationConstants, IInv, UNCHANGED <<config, asked, iter>>, serverRows' \subseteq serverRows
  PROVE  /\ ConfigOK' /\ GroupsExhausted' /\ (Unanswered <=> Unanswered')
         /\ \A i : AskedIn(i)' = AskedIn(i) /\ \A g : InGroup(g)' \subseteq InGroup(g)
<1>1. prios' = prios /\ group' = group /\ asked' = asked /\ iter' = iter
  BY DEF config
<1>2. \A g : InGroup(g)' \subseteq InGroup(g)
  BY <1>1 DEF InGroup
<1>3. \A i : AskedIn(i)' = AskedIn(i)
  BY <1>1 DEF AskedIn
<1>4. GroupsExhausted'
  BY <1>1, <1>2, <1>3 DEF IInv, GroupsExhausted
<1>. QED BY <1>1, <1>2, <1>3, <1>4 DEF IInv, ConfigOK, Unanswered

(* The entry of the function.                                              *)
LEMMA StartKeepsIInv == ASSUME AuthorizationConstants, IInv, Start PROVE IInv'
<1>1. /\ UNCHANGED <<config, asked, iter>> /\ serverRows' = serverRows /\ prios' = prios /\ asked' = asked /\ iter' = iter
      /\ nodes' = nodes /\ bydef' = bydef /\ step = "start" /\ iter = 1 /\ asked = <<>>
      /\ step' \in {"group", "done"}
      /\ step' = "done" /\ result' = "EXIT_OK" => prios = <<>> \/ prios[1] = TAC_NONE_GROUP
  BY DEF Start, Return, config, IInv, Position
<1>2. AuthorTypeOK'
  BY <1>1 DEF IInv, AuthorTypeOK, Start, Return
<1>3. Position' /\ ListOK'
  BY <1>1 DEF Position, ListOK, Unanswered
<1>4. AllowedForAReason'
  <2>1. Len(prios) \in Nat /\ (prios = <<>> \/ Len(prios) >= 1)
    BY EmptySeq, Types DEF IInv, ConfigOK
  <2>. QED BY <1>1, <2>1 DEF AllowedForAReason, Unanswered
<1>. QED BY <1>1, <1>2, <1>3, <1>4, PastKept DEF IInv

(* The head of the loop over the groups: the list is sorted for the group, *)
(* of which nobody has been asked so far.                                  *)
LEMMA GroupKeepsIInv == ASSUME AuthorizationConstants, IInv, Group PROVE IInv'
<1>1. /\ UNCHANGED <<config, asked, iter>> /\ serverRows' = serverRows /\ prios' = prios /\ asked' = asked
      /\ iter' = iter /\ group' = group /\ step = "group" /\ iter <= Len(prios)
  BY DEF Group, config
<1>2. ConfigOK' /\ GroupsExhausted' /\ (Unanswered <=> Unanswered')
      /\ \A i : AskedIn(i)' = AskedIn(i) /\ \A g : InGroup(g)' \subseteq InGroup(g)
  BY <1>1, PastKept
<1>3. Unanswered'
  BY <1>1, <1>2 DEF IInv, Position
<1>4. Position'
  BY <1>1, <1>3, Types DEF IInv, Position, Group, Return
<1>5. bydef' \in BOOLEAN
  BY Zenon DEF Group, IInv, AuthorTypeOK
<1>6. CASE step' = "ask"
  <2> DEFINE ss == InGroup(prios[iter])
  <2>1. PICK prio : nodes' \in Sorted(ss, prio) /\ passkey' = passkey /\ result' = result
    BY <1>6 DEF Group, Return
  <2>2. IsFiniteSet(ss) /\ ss \subseteq Servers
    BY FS_Subset, Types DEF InGroup, AuthorizationConstants
  <2> HIDE DEF ss
  <2>3. /\ nodes' \in Seq(ss)
        /\ \A i, j \in DOMAIN nodes' : i # j => nodes'[i] # nodes'[j]
        /\ \A s \in ss : \E i \in DOMAIN nodes' : s = nodes'[i]
    BY <2>1, <2>2, SortedServers
  <2>4. nodes' \in Seq(Servers)
    BY <2>2, <2>3, SeqMonotonic
  <2>5. AuthorTypeOK'
    BY <1>1, <1>5, <1>6, <2>1, <2>4 DEF IInv, AuthorTypeOK
  <2>6. AskedIn(iter) = {}
    BY <1>1, Types DEF IInv, Position, AskedIn
  <2>7. ListOK'
    BY <1>1, <1>2, <2>3, <2>6 DEF ListOK, ss
  <2>8. AllowedForAReason'
    BY <1>6 DEF AllowedForAReason
  <2>. QED BY <1>2, <1>4, <2>5, <2>7, <2>8 DEF IInv
<1>7. CASE step' # "ask"
  <2>1. step' = "done" /\ nodes' = nodes /\ result' \in {"EXIT_OK", "EXIT_FAIL"}
        /\ (result' = "EXIT_OK" => prios[iter] = TAC_NONE_GROUP)
    BY <1>7 DEF Group, Return
  <2>2. passkey' \in {"allocated", "freed"}
    BY <1>7 DEF Group, Return, IInv, AuthorTypeOK
  <2>3. AuthorTypeOK'
    BY <1>1, <1>5, <2>1, <2>2 DEF IInv, AuthorTypeOK
  <2>4. ListOK' /\ AllowedForAReason'
    BY <1>1, <1>3, <2>1 DEF ListOK, AllowedForAReason
  <2>. QED BY <1>2, <1>4, <2>3, <2>4 DEF IInv
<1>. QED BY <1>6, <1>7

(* The end of a group, reached with an empty list.                         *)
LEMMA NextGroupKeepsIInv == ASSUME AuthorizationConstants, IInv, NextGroup PROVE IInv'
<1>1. /\ prios' = prios /\ serverRows' = serverRows /\ asked' = asked /\ group' = group /\ nodes' = nodes
      /\ iter' = iter + 1 /\ step = "ask" /\ nodes = <<>> /\ step' = "group" /\ iter <= Len(prios)
      /\ bydef' = bydef /\ passkey' = "freed" /\ result' = result
  BY DEF NextGroup, config, IInv, Position
<1>2. AuthorTypeOK' /\ ConfigOK'
  BY <1>1, Types DEF IInv, AuthorTypeOK, ConfigOK
<1>3. \A i : AskedIn(i)' = AskedIn(i) /\ \A g : InGroup(g)' = InGroup(g)
  BY <1>1 DEF AskedIn, InGroup
<1>4. Position'
  BY <1>1, Types DEF IInv, Position, Unanswered
<1>5. ListOK' /\ AllowedForAReason'
  BY <1>1 DEF ListOK, AllowedForAReason
<1>6. InGroup(prios[iter]) \subseteq AskedIn(iter)
  BY <1>1 DEF IInv, ListOK
<1>7. GroupsExhausted'
  BY <1>1, <1>3, <1>6, Types DEF IInv, GroupsExhausted
<1>. QED BY <1>2, <1>4, <1>5, <1>7 DEF IInv

(* No group answered: nothing is allowed.                                  *)
LEMMA NoAnswerKeepsIInv == ASSUME AuthorizationConstants, IInv, NoAnswer PROVE IInv'
<1>1. /\ UNCHANGED <<config, asked, iter>> /\ serverRows' = serverRows /\ nodes' = nodes /\ bydef' = bydef
      /\ passkey' = passkey /\ step' = "done" /\ result' = "EXIT_CONN_ERR" /\ prios' = prios
      /\ asked' = asked /\ iter' = iter
  BY DEF NoAnswer, Return, config
<1>2. AuthorTypeOK'
  BY <1>1 DEF IInv, AuthorTypeOK
<1>3. Position' /\ ListOK' /\ AllowedForAReason'
  BY <1>1 DEF IInv, Position, ListOK, AllowedForAReason
<1>. QED BY <1>1, <1>2, <1>3, PastKept DEF IInv

(* A row that goes away meanwhile.                                         *)
LEMMA DeleteKeepsIInv == ASSUME AuthorizationConstants, IInv, NEW s \in Servers, Delete(s) PROVE IInv'
<1>1. /\ UNCHANGED <<config, asked, iter>> /\ serverRows' \subseteq serverRows /\ nodes' = nodes /\ bydef' = bydef
      /\ passkey' = passkey /\ step' = step /\ result' = result /\ prios' = prios
      /\ asked' = asked /\ iter' = iter
  BY DEF Delete, config
<1>2. AuthorTypeOK'
  BY <1>1 DEF IInv, AuthorTypeOK
<1>3. Position' /\ AllowedForAReason'
  BY <1>1 DEF IInv, Position, AllowedForAReason, Unanswered
<1>4. ListOK'
  BY <1>1, PastKept DEF IInv, ListOK
<1>. QED BY <1>1, <1>2, <1>3, <1>4, PastKept DEF IInv

(* One question: the head of the list moves from the list to the questions *)
(* of the group.                                                           *)
LEMMA AskKeepsIInv == ASSUME AuthorizationConstants, IInv, Ask PROVE IInv'
<1>1. PICK r \in {"EXIT_OK", "EXIT_FAIL", "EXIT_CONN_ERR"} :
        /\ asked' = Append(asked, [iter |-> iter, server |-> nodes[1], reply |-> r])
        /\ IF r = "EXIT_CONN_ERR"
           THEN nodes' = Tail(nodes) /\ UNCHANGED <<step, result, passkey>>
           ELSE step' = "done" /\ result' = r /\ passkey' = "freed" /\ UNCHANGED nodes
  BY DEF Ask, Return
<1>2. /\ step = "ask" /\ nodes # <<>> /\ prios' = prios /\ group' = group /\ serverRows' = serverRows
      /\ iter' = iter /\ bydef' = bydef /\ iter <= Len(prios) /\ Unanswered
  BY DEF Ask, config, IInv, Position
<1> DEFINE e == [iter |-> iter, server |-> nodes[1], reply |-> r]
           n == Len(asked)
<1>3. n \in Nat /\ Len(nodes) \in Nat /\ Len(nodes) >= 1 /\ nodes[1] \in Servers
  BY <1>2, Types, EmptySeq, ElementOfSeq
<1>4. e \in Question
  BY <1>2, <1>3, Types DEF Question, IInv, ConfigOK
<1>5. /\ asked' \in Seq(Question) /\ Len(asked') = n + 1 /\ DOMAIN asked' = 1..(n + 1)
      /\ asked'[n + 1] = e /\ \A k \in 1..n : asked'[k] = asked[k]
  BY <1>1, <1>3, <1>4, Types, AppendProperties
<1>6. DOMAIN asked = 1..n
  BY Types
<1>7. nodes' \in Seq(Servers)
  BY <1>1, <1>2, Types, HeadTailProperties
<1> HIDE DEF n
<1>8. AuthorTypeOK'
  BY <1>1, <1>2, <1>5, <1>7 DEF IInv, AuthorTypeOK, Question
<1>9. ConfigOK'
  BY <1>2 DEF IInv, ConfigOK
<1>10. \A g : InGroup(g)' = InGroup(g)
  BY <1>2 DEF InGroup
<1>11. AskedIn(iter)' = AskedIn(iter) \union {nodes[1]} /\ \A i : i # iter => AskedIn(i)' = AskedIn(i)
  BY <1>2, <1>3, <1>5, <1>6 DEF AskedIn
<1>12. nodes[1] \notin AskedIn(iter)
  BY <1>2, <1>3, Types DEF IInv, ListOK
<1>13. Position'
  <2>1. \A k \in DOMAIN asked' : asked'[k].iter <= iter'
    BY <1>2, <1>3, <1>5, <1>6, Types DEF IInv, Position
  <2>2. step' # "done" => Unanswered'
    BY <1>1, <1>2, <1>3, <1>5, <1>6 DEF Unanswered
  <2>. QED BY <1>1, <1>2, <2>1, <2>2 DEF Position
<1>14. AllowedForAReason'
  <2>1. SUFFICES ASSUME step' = "done", result' = "EXIT_OK" PROVE asked' # <<>> /\ asked'[Len(asked')].reply = "EXIT_OK"
          /\ \A k \in 1..(Len(asked') - 1) : asked'[k].reply = "EXIT_CONN_ERR"
    BY DEF AllowedForAReason
  <2>2. r = "EXIT_OK"
    BY <1>1, <1>2, <2>1
  <2>3. asked' # <<>>
    BY <1>3, <1>5, EmptySeq
  <2>4. \A k \in 1..n : asked[k].reply = "EXIT_CONN_ERR"
    BY <1>2, <1>6 DEF Unanswered
  <2>. QED BY <1>3, <1>5, <2>2, <2>3, <2>4
<1>15. GroupsExhausted'
  <2>1. \A i \in 1..(iter - 1) : InGroup(prios[i]) \subseteq AskedIn(i)
    BY DEF IInv, GroupsExhausted
  <2>2. \A i \in 1..(iter' - 1) : InGroup(prios[i])' \subseteq AskedIn(i)'
    BY <1>2, <1>10, <1>11, <2>1
  <2>3. ASSUME NEW j \in 1..n, asked[j].iter = iter PROVE asked[j].server # nodes[1]
    BY <1>6, <1>12, <2>3 DEF AskedIn
  <2>4. ASSUME NEW j \in 1..(n + 1), NEW k \in 1..(n + 1),
               asked'[j].iter = asked'[k].iter, asked'[j].server = asked'[k].server
        PROVE  j = k
    <3>1. CASE j \in 1..n /\ k \in 1..n
      BY <1>5, <1>6, <2>4, <3>1 DEF IInv, GroupsExhausted
    <3>2. CASE j = n + 1 /\ k \in 1..n
      BY <1>5, <2>3, <2>4, <3>2
    <3>3. CASE j \in 1..n /\ k = n + 1
      BY <1>5, <2>3, <2>4, <3>3
    <3>. QED BY <1>3, <3>1, <3>2, <3>3
  <2>. QED BY <1>2, <1>5, <1>10, <2>2, <2>4 DEF GroupsExhausted
<1>16. ListOK'
  <2>1. CASE r # "EXIT_CONN_ERR"
    BY <1>1, <2>1 DEF ListOK
  <2>2. CASE r = "EXIT_CONN_ERR"
    <3>1. /\ nodes' = Tail(nodes) /\ DOMAIN nodes' = 1..(Len(nodes) - 1)
          /\ \A i \in 1..(Len(nodes) - 1) : nodes'[i] = nodes[i + 1]
      BY <1>1, <1>2, <1>3, <2>2, Types, HeadTailProperties, LenProperties
    <3>2. DOMAIN nodes = 1..Len(nodes)
      BY Types
    <3>3. /\ \A i, j \in DOMAIN nodes : i # j => nodes[i] # nodes[j]
          /\ \A i \in DOMAIN nodes : nodes[i] \notin AskedIn(iter)
          /\ \A s \in InGroup(prios[iter]) : s \in AskedIn(iter) \/ \E i \in DOMAIN nodes : s = nodes[i]
      BY <1>2 DEF IInv, ListOK
    <3>4. \A i, j \in DOMAIN nodes' : i # j => nodes'[i] # nodes'[j]
      BY <1>3, <3>1, <3>2, <3>3
    <3>5. \A i \in DOMAIN nodes' : nodes'[i] \notin AskedIn(iter)'
      BY <1>3, <1>11, <3>1, <3>2, <3>3
    <3>6. ASSUME NEW s \in InGroup(prios[iter]) PROVE s \in AskedIn(iter)' \/ \E i \in DOMAIN nodes' : s = nodes'[i]
      <4>1. CASE s \in AskedIn(iter)
        BY <1>11, <4>1
      <4>2. CASE \E i \in DOMAIN nodes : s = nodes[i]
        <5>1. PICK i \in 1..Len(nodes) : s = nodes[i]
          BY <3>2, <4>2
        <5>2. CASE i = 1
          BY <1>11, <5>1, <5>2
        <5>3. CASE i # 1
          <6>1. i - 1 \in DOMAIN nodes' /\ nodes'[i - 1] = nodes[i]
            BY <1>3, <3>1, <5>1, <5>3
          <6>. QED BY <5>1, <6>1
        <5>. QED BY <5>2, <5>3
      <4>. QED BY <3>3, <4>1, <4>2
    <3>. QED BY <1>2, <1>10, <3>4, <3>5, <3>6 DEF ListOK
  <2>. QED BY <2>1, <2>2
<1>. QED BY <1>8, <1>9, <1>13, <1>14, <1>15, <1>16 DEF IInv

(* The questions keep their types, a group is given up only when each of   *)
(* its servers was asked, and so on: the invariant of the whole function.  *)
THEOREM AuthorizationInvariant == ASSUME AuthorizationConstants PROVE AuthorSpec => []IInv
<1>1. AuthorInit => IInv
  BY InitIInv
<1>2. IInv /\ [AuthorNext]_authorVars => IInv'
  <2> SUFFICES ASSUME IInv, [AuthorNext]_authorVars PROVE IInv'
    OBVIOUS
  <2>1. CASE UNCHANGED authorVars
    <3>1. UNCHANGED <<prios, group, serverRows, step, iter, nodes, passkey, asked, result>>
      BY <2>1 DEF authorVars, config
    <3>2. bydef' \in BOOLEAN
      BY <2>1, Zenon DEF authorVars, IInv, AuthorTypeOK
    <3>3. AuthorTypeOK' /\ ConfigOK' /\ Position' /\ AllowedForAReason'
      BY <3>1, <3>2 DEF IInv, AuthorTypeOK, ConfigOK, Position, AllowedForAReason, Unanswered
    <3>4. ListOK' /\ GroupsExhausted'
      BY <3>1 DEF IInv, ListOK, GroupsExhausted, InGroup, AskedIn
    <3>. QED BY <3>3, <3>4 DEF IInv
  <2>2. CASE \E s \in Servers : Delete(s)
    BY <2>2, DeleteKeepsIInv
  <2>. QED BY <2>1, <2>2, StartKeepsIInv, GroupKeepsIInv, AskKeepsIInv, NextGroupKeepsIInv, NoAnswerKeepsIInv DEF AuthorNext, AuthorDone
<1>. QED BY <1>1, <1>2, PTL DEF AuthorSpec

(* check_cmd_authorization allows a command only because the first server  *)
(* that answered said so, or because "none" was reached unanswered.        *)
THEOREM AllowedHolds == ASSUME AuthorizationConstants PROVE AuthorSpec => []AllowedForAReason
<1>1. IInv => AllowedForAReason
  BY DEF IInv
<1>. QED BY <1>1, AuthorizationInvariant, PTL

(* A group is given up only when every server that still has a row was     *)
(* asked, and no server of a group is asked twice.                         *)
THEOREM GroupsExhaustedHolds == ASSUME AuthorizationConstants PROVE AuthorSpec => []GroupsExhausted
<1>1. IInv => GroupsExhausted
  BY DEF IInv
<1>. QED BY <1>1, AuthorizationInvariant, PTL
=============================================================================
