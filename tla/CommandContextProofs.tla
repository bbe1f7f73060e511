------------------------ MODULE CommandContextProofs ------------------------
(***************************************************************************)
(* What a command line leaves in the context, for every set of commands,   *)
(* every set of interfaces and ranges of any length.                       *)
(***************************************************************************)
EXTENDS CommandContext, SequenceTheorems, TLAPS

(* The nodes a walk from n can reach.                                      *)
Up(n) == {node_parent(n), node_parent(node_parent(n))}

Saved == [node : Above, index : Objects \union {NULL}, list : Ranges, ret : {"NO_MATCH", "ERR"}]

Held == [node : Nodes, list : Ranges]

Run == [node : Nodes, member : Objects \union {NULL}, done : BOOLEAN]

(* Types, with what is set aside as a sequence of at most one record.      *)
Types ==
  /\ node \in Nodes /\ index \in Objects \union {NULL} /\ list \in Ranges
  /\ pc \in {"idle", "match", "round", "tried", "func", "gone"}
  /\ line \in [cmd : Commands, do : BOOLEAN]
  /\ hold = <<>> \/ \E h \in Held : hold = <<h>>
  /\ aside = <<>> \/ \E a \in Saved : aside = <<a>>
  /\ rest \in Ranges /\ ret \in Status /\ before \in [node : Nodes, list : Ranges, ret : Status]
  /\ runs \in Seq(Run)

(* Where in the execution of a line what is set.                           *)
Phases ==
  /\ pc # "round" => rest = <<>>
  /\ pc \notin {"round", "tried"} => hold = <<>>
  /\ pc \notin {"match", "round", "tried"} => aside = <<>>
  /\ pc = "round" => line.cmd.kind \notin DaemonKinds /\ ret \in HandlerStatus
  /\ pc = "tried" => ret # "STOPPED" /\ (ret = "DAEMON" => line.cmd.kind \in DaemonKinds)
  /\ pc = "func" => ret = "DAEMON" /\ line.cmd.kind \in DaemonKinds

(* n and l are the context in which the line was read, or those of a       *)
(* parent, with the former set aside.                                      *)
Place(n, l) ==
  IF aside = <<>> THEN n = before.node /\ l = before.list
  ELSE /\ n \in Up(before.node) /\ l = <<>> /\ before.node \in Above
       /\ aside[1].node = before.node /\ aside[1].list = before.list

(* The lines ContextKept speaks of.                                        *)
Keeps == (line.cmd.kind = "plain" \/ before.list = <<>>) /\ line.cmd.kind # "eager"

Kept ==
  Keeps =>
    /\ pc \in {"match", "round"} => Place(AfterDo.node, AfterDo.list)
    /\ pc = "round" /\ line.cmd.kind # "plain" => rest = <<>>
    /\ pc = "tried" /\ (line.cmd.kind = "plain" \/ ret # "SUCCESS") => Place(AfterDo.node, AfterDo.list)

(* The members visited so far.                                             *)
NoMember == \A i \in DOMAIN runs : runs[i].member = NULL

AllMembers ==
  /\ Len(before.list) <= Len(runs)
  /\ \A i \in DOMAIN runs : runs[i].member = IF i <= Len(before.list) THEN before.list[i] ELSE NULL

SomeMembers ==
  /\ Len(before.list) = Len(runs) + Len(rest)
  /\ \A i \in DOMAIN runs : runs[i].member = before.list[i]
  /\ \A i \in DOMAIN rest : rest[i] = before.list[Len(runs) + i]

Visited ==
  /\ pc = "match" /\ aside = <<>> => runs = <<>> /\ list = before.list
  /\ pc = "match" /\ aside # <<>> => list = <<>>
  /\ rest # <<>> => SomeMembers
  /\ rest = <<>> => NoMember \/ AllMembers \/ (pc = "idle" /\ ret = "STOPPED")

IInv == Types /\ Phases /\ Kept /\ Visited /\ ContextKept

(* Ranges are sequences, closed under Tail.                                *)
LEMMA RangeFacts ==
  ASSUME ContextConstants
  PROVE  /\ <<>> \in Ranges
         /\ \A r \in Ranges : r \in Seq(Objects) /\ Len(r) \in Nat /\ DOMAIN r = 1..Len(r)
         /\ \A r \in Ranges : r # <<>> => Len(r) >= 1 /\ r[1] \in Objects
         /\ \A r \in Ranges : r # <<>> =>
              /\ Tail(r) \in Ranges /\ Len(Tail(r)) = Len(r) - 1
              /\ \A i \in 1..(Len(r) - 1) : Tail(r)[i] = r[i + 1]
<1>1. \A r \in Ranges : \E n \in 0..MaxRange : r \in [1..n -> Objects]
  BY DEF Ranges
<1>2. \A r \in Ranges : r \in Seq(Objects) /\ Len(r) \in Nat /\ DOMAIN r = 1..Len(r) /\ Len(r) \in 0..MaxRange
  <2> TAKE r \in Ranges
  <2>1. PICK n \in 0..MaxRange : r \in [1..n -> Objects]
    BY <1>1
  <2>2. r \in Seq(Objects)
    BY <2>1, SeqDef DEF ContextConstants
  <2>3. Len(r) = n
    BY <2>1, <2>2, LenProperties DEF ContextConstants
  <2>. QED BY <2>1, <2>2, <2>3, LenProperties DEF ContextConstants
<1>3. ASSUME NEW r \in Seq(Objects), Len(r) \in 0..MaxRange PROVE r \in Ranges
  <2>1. r \in [1..Len(r) -> Objects]
    BY LenProperties
  <2>. QED BY <1>3, <2>1 DEF Ranges
<1>4. <<>> \in Ranges
  <2>1. <<>> \in Seq(Objects) /\ Len(<<>>) = 0
    BY EmptySeq
  <2>2. MaxRange \in Nat
    BY DEF ContextConstants
  <2>3. Len(<<>>) \in 0..MaxRange
    BY <2>1, <2>2
  <2>. QED BY <1>3, <2>1, <2>3
<1>5. ASSUME NEW r \in Ranges, r # <<>>
      PROVE  /\ Len(r) >= 1 /\ r[1] \in Objects
             /\ Tail(r) \in Ranges /\ Len(Tail(r)) = Len(r) - 1
             /\ \A i \in 1..(Len(r) - 1) : Tail(r)[i] = r[i + 1]
  <2>1. r \in Seq(Objects) /\ Len(r) \in 0..MaxRange
    BY <1>2
  <2>2. Len(r) # 0
    BY <1>5, <2>1, EmptySeq
  <2>3. Tail(r) \in Seq(Objects) /\ Len(Tail(r)) = Len(r) - 1 /\ \A i \in 1..(Len(r) - 1) : Tail(r)[i] = r[i + 1]
    BY <1>5, <2>1, <2>2, HeadTailProperties DEF ContextConstants
  <2>4. Tail(r) \in Ranges
    <3>1. MaxRange \in Nat
      BY DEF ContextConstants
    <3>2. Len(Tail(r)) \in 0..MaxRange
      BY <2>1, <2>2, <2>3, <3>1
    <3>. QED BY <1>3, <2>3, <3>2
  <2>. QED BY <2>1, <2>2, <2>3, <2>4, ElementOfSeq DEF ContextConstants
<1>. QED BY <1>2, <1>4, <1>5

(* The walk goes up and never comes back to where it began.                *)
LEMMA WalkUpwards ==
  ASSUME NEW n \in Above
  PROVE  /\ n \notin Up(n) /\ Up(n) \subseteq Nodes /\ node_parent(n) \in Up(n)
         /\ \A m \in Up(n) \cap Above : node_parent(m) \in Up(n)
BY DEF Above, Nodes, Up, node_parent

(* The start of a session.                                                 *)
LEMMA InitIInv == ASSUME ContextConstants, ContextInit PROVE IInv
<1>1. /\ node \in {"VIEW", "ENABLE"} /\ index = NULL /\ list = <<>> /\ pc = "idle" /\ hold = <<>>
      /\ rest = <<>> /\ aside = <<>> /\ ret = "SUCCESS" /\ runs = <<>>
      /\ before = [node |-> node, list |-> <<>>, ret |-> "SUCCESS"]
  BY DEF ContextInit
<1>2. line \in [cmd : Commands, do : BOOLEAN]
  <2>1. (CHOOSE c \in Commands : TRUE) \in Commands
    BY DEF ContextConstants
  <2>. QED BY <2>1, Zenon DEF ContextInit
<1>3. Types
  BY <1>1, <1>2, RangeFacts, EmptySeq DEF Types, Nodes, Status
<1>4. Phases /\ Kept /\ Visited /\ ContextKept
  BY <1>1, <1>3 DEF Phases, Kept, Visited, ContextKept, NoMember, Failed
<1>. QED BY <1>3, <1>4 DEF IInv

(* A line is read.                                                         *)
LEMMA ReadKeepsIInv ==
  ASSUME ContextConstants, IInv, NEW c \in Commands, NEW d \in BOOLEAN, Read(c, d) PROVE IInv'
<1>1. /\ pc = "idle" /\ pc' = "match" /\ runs' = <<>> /\ node' = node /\ index' = index /\ list' = list
      /\ hold' = hold /\ rest' = rest /\ aside' = aside /\ ret' = ret
      /\ before' = [node |-> node, list |-> list, ret |-> ret]
      /\ hold = <<>> /\ rest = <<>> /\ aside = <<>>
  BY DEF Read, context, IInv, Phases
<1>2. line' \in [cmd : Commands, do : BOOLEAN]
  BY Zenon DEF Read
<1>3. Types'
  BY <1>1, <1>2, EmptySeq DEF IInv, Types
<1>4. Phases' /\ Visited' /\ ContextKept'
  BY <1>1 DEF Phases, Visited, ContextKept, NoMember
<1>5. Kept'
  BY <1>1 DEF Kept, Place, AfterDo
<1>. QED BY <1>3, <1>4, <1>5 DEF IInv

(* The lookup of a line that does not run.                                 *)
LEMMA RefuseKeepsIInv == ASSUME ContextConstants, IInv, Refuse PROVE IInv'
<1>1. /\ pc = "match" /\ pc' = "tried" /\ runs' = runs /\ node' = node /\ index' = index /\ list' = list
      /\ hold' = hold /\ rest' = rest /\ aside' = aside /\ before' = before /\ line' = line
      /\ hold = <<>> /\ rest = <<>> /\ ret' \in {"NO_MATCH", "ERR", "DAEMON"}
      /\ ret' = "DAEMON" => line.cmd.kind \in DaemonKinds
  BY DEF Refuse, context, IInv, Phases
<1>2. Types'
  BY <1>1 DEF IInv, Types, Status
<1>3. Phases' /\ ContextKept'
  BY <1>1 DEF Phases, ContextKept
<1>4. Visited'
  BY <1>1 DEF IInv, Visited, NoMember, AllMembers
<1>5. Kept'
  BY <1>1 DEF IInv, Kept, Keeps, Place, AfterDo
<1>. QED BY <1>2, <1>3, <1>4, <1>5 DEF IInv

(* The handler is found; "do" sets node and range aside.                   *)
LEMMA AcceptKeepsIInv == ASSUME ContextConstants, IInv, Accept PROVE IInv'
<1>1. /\ pc = "match" /\ pc' = "round" /\ runs' = runs /\ index' = index /\ ret' = "SUCCESS"
      /\ aside' = aside /\ before' = before /\ line' = line /\ rest' = list'
      /\ hold = <<>> /\ rest = <<>> /\ line.cmd.kind \notin DaemonKinds
      /\ \/ hold' = hold /\ node' = node /\ list' = list
         \/ hold' = <<[node |-> node, list |-> list]>> /\ node' = "ENABLE" /\ list' = <<>>
  BY DEF Accept, IInv, Phases
<1>2. AfterDo.node = node /\ AfterDo.list = list /\ (AfterDo.node)' = node /\ (AfterDo.list)' = list
  BY <1>1 DEF AfterDo
<1>3. Types'
  <2>1. node' \in Nodes /\ list' \in Ranges
    BY <1>1, RangeFacts DEF IInv, Types, Nodes
  <2>2. hold' = <<>> \/ \E h \in Held : hold' = <<h>>
    BY <1>1 DEF IInv, Types, Held
  <2>. QED BY <1>1, <2>1, <2>2 DEF IInv, Types, Status
<1>4. Phases' /\ ContextKept'
  BY <1>1 DEF Phases, ContextKept, HandlerStatus
<1>5. Visited'
  <2>1. CASE aside = <<>>
    <3>1. runs = <<>> /\ list = before.list /\ Len(runs) = 0 /\ DOMAIN runs = {}
      BY <1>1, <2>1, EmptySeq DEF IInv, Visited
    <3>2. list \in Ranges /\ Len(list) \in Nat /\ DOMAIN list = 1..Len(list)
      BY RangeFacts DEF IInv, Types
    <3>3. list' = list \/ list' = <<>>
      BY <1>1
    <3>4. NoMember'
      BY <1>1, <3>1 DEF NoMember
    <3>5. rest' # <<>> => SomeMembers'
      BY <1>1, <3>1, <3>2, <3>3 DEF SomeMembers
    <3>. QED BY <1>1, <3>4, <3>5 DEF Visited
  <2>2. CASE aside # <<>>
    BY <1>1, <2>2 DEF IInv, Visited, NoMember, AllMembers
  <2>. QED BY <2>1, <2>2
<1>6. Kept'
  <2>1. SUFFICES ASSUME Keeps PROVE Place(AfterDo.node, AfterDo.list)' /\ (line.cmd.kind # "plain" => rest' = <<>>)
    BY <1>1 DEF Kept, Keeps
  <2>2. Place(node, list)
    BY <1>1, <1>2, <2>1 DEF IInv, Kept
  <2>3. Place(AfterDo.node, AfterDo.list)'
    BY <1>1, <1>2, <2>2 DEF Place
  <2>4. ASSUME line.cmd.kind # "plain" PROVE list = <<>>
    BY <2>1, <2>2, <2>4 DEF Keeps, Place
  <2>. QED BY <1>1, <2>3, <2>4
<1>. QED BY <1>3, <1>4, <1>5, <1>6 DEF IInv

(* One round of the loop over the members, run or skipped.                 *)
LEMMA AdvanceVisits ==
  ASSUME ContextConstants, IInv, pc = "round", NEW d \in BOOLEAN, Advance(d), before' = before,
         rest # <<>> => index' # NULL
  PROVE  /\ runs' \in Seq(Run) /\ rest' \in Ranges
         /\ pc' \in {"tried", "round"} /\ (pc' = "tried" => rest' = <<>>)
         /\ rest = <<>> => pc' = "tried"
         /\ rest' # <<>> => SomeMembers'
         /\ rest' = <<>> => NoMember' \/ AllMembers'
<1> DEFINE m == IF rest = <<>> THEN NULL ELSE rest[1]
           e == [node |-> node, member |-> m, done |-> d]
           n == Len(runs)
           b == before.list
<1>1. /\ runs' = Append(runs, e) /\ rest' = IF rest = <<>> THEN <<>> ELSE Tail(rest)
      /\ pc' = IF Len(rest) <= 1 THEN "tried" ELSE "round"
  BY EmptySeq DEF Advance
<1>2. runs \in Seq(Run) /\ rest \in Ranges /\ node \in Nodes /\ b \in Ranges
  BY DEF IInv, Types
<1>3. e \in Run
  <2>1. m \in Objects \union {NULL}
    BY <1>2, RangeFacts
  <2> HIDE DEF m
  <2>. QED BY <1>2, <2>1, Zenon DEF Run
<1>4. n \in Nat /\ DOMAIN runs = 1..n
  BY <1>2, LenProperties
<1>5. /\ runs' \in Seq(Run) /\ Len(runs') = n + 1 /\ DOMAIN runs' = 1..(n + 1)
      /\ runs'[n + 1].member = m /\ \A i \in 1..n : runs'[i] = runs[i]
  <2>1. runs' \in Seq(Run) /\ Len(runs') = n + 1 /\ runs'[n + 1] = e /\ \A i \in 1..n : runs'[i] = runs[i]
    BY <1>1, <1>2, <1>3, AppendProperties
  <2>. QED BY <1>4, <2>1, LenProperties
<1>6. /\ Len(rest) \in Nat /\ DOMAIN rest = 1..Len(rest) /\ Len(b) \in Nat
      /\ rest' \in Ranges /\ Len(rest') \in Nat /\ DOMAIN rest' = 1..Len(rest')
  BY <1>1, <1>2, RangeFacts
<1> HIDE DEF n, b, e
<1>7. CASE rest = <<>>
  <2>1. m = NULL /\ rest' = <<>> /\ Len(rest) = 0 /\ pc' = "tried"
    BY <1>1, <1>7, EmptySeq
  <2>2. NoMember \/ AllMembers
    BY <1>7 DEF IInv, Visited
  <2>3. ASSUME NoMember PROVE NoMember'
    BY <1>4, <1>5, <2>1, <2>3 DEF NoMember
  <2>4. ASSUME AllMembers PROVE AllMembers'
    <3>1. Len(b) <= n /\ \A i \in 1..n : runs[i].member = IF i <= Len(b) THEN b[i] ELSE NULL
      BY <1>4, <2>4 DEF AllMembers, b, n
    <3>2. \A i \in 1..(n + 1) : runs'[i].member = IF i <= Len(b) THEN b[i] ELSE NULL
      BY <1>4, <1>5, <1>6, <2>1, <3>1
    <3>3. Len(b) <= Len(runs')
      BY <1>4, <1>5, <1>6, <3>1
    <3>. QED BY <1>5, <3>2, <3>3 DEF AllMembers, b
  <2>. QED BY <1>1, <1>5, <1>6, <2>1, <2>2, <2>3, <2>4
<1>8. CASE rest # <<>>
  <2>1. /\ m = rest[1] /\ rest' = Tail(rest) /\ Len(rest) >= 1 /\ Len(rest') = Len(rest) - 1
        /\ \A i \in 1..(Len(rest) - 1) : rest'[i] = rest[i + 1]
    BY <1>1, <1>2, <1>8, RangeFacts
  <2>2. /\ Len(b) = n + Len(rest) /\ \A i \in 1..n : runs[i].member = b[i]
        /\ \A i \in 1..Len(rest) : rest[i] = b[n + i]
    BY <1>4, <1>6, <1>8 DEF IInv, Visited, SomeMembers, n, b
  <2>3. \A i \in 1..(n + 1) : runs'[i].member = b[i]
    BY <1>4, <1>5, <1>6, <2>1, <2>2
  <2>4. CASE rest' = <<>>
    <3>1. Len(rest') = 0
      BY <2>4, EmptySeq
    <3>2. Len(rest) = 1 /\ Len(b) = n + 1 /\ Len(runs') = n + 1
      BY <1>4, <1>5, <1>6, <2>1, <2>2, <3>1
    <3>3. AllMembers'
      BY <1>4, <1>5, <2>3, <3>2 DEF AllMembers, b
    <3>. QED BY <1>1, <1>5, <1>6, <1>8, <2>4, <3>2, <3>3
  <2>5. CASE rest' # <<>>
    <3>1. Len(rest') # 0
      BY <1>6, <2>5, RangeFacts
    <3>2. pc' = "round"
      BY <1>1, <1>6, <2>1, <3>1
    <3>3. Len(b) = Len(runs') + Len(rest')
      <4>1. Len(runs') = n + 1 /\ n \in Nat
        BY <1>4, <1>5
      <4>2. Len(rest') = Len(rest) - 1 /\ Len(rest) \in Nat
        BY <1>6, <2>1
      <4>3. Len(b) = n + Len(rest)
        BY <2>2
      <4>. QED BY <4>1, <4>2, <4>3
    <3>4. \A i \in 1..Len(rest') : rest'[i] = b[(n + 1) + i]
      BY <1>4, <1>6, <2>1, <2>2
    <3>5. SomeMembers'
      BY <1>5, <1>6, <2>3, <3>3, <3>4 DEF SomeMembers, b
    <3>. QED BY <1>5, <1>6, <1>8, <2>5, <3>2, <3>5
  <2>. QED BY <2>4, <2>5
<1>. QED BY <1>7, <1>8

(* Inside the loop index is never NULL after a handler, so that nothing    *)
(* breaks it.                                                              *)
LEMMA NeverBroken ==
  ASSUME ContextConstants, IInv, rest # <<>>, (\E r \in HandlerStatus : Effect(r)) \/ NotReady PROVE index' # NULL
<1>1. rest[1] \in Objects
  BY RangeFacts DEF IInv, Types
<1>2. CASE \E r \in HandlerStatus : Effect(r)
  BY <1>1, <1>2 DEF Effect, ContextConstants
<1>3. CASE NotReady
  BY <1>1, <1>3 DEF NotReady, ContextConstants
<1>. QED BY <1>2, <1>3

(* A handler is called: a command that enters a mode changes the context.  *)
LEMMA CallKeepsIInv == ASSUME ContextConstants, IInv, Call PROVE IInv'
<1>1. PICK r \in HandlerStatus : ret' = r /\ Effect(r)
  BY DEF Call
<1>2. /\ pc = "round" /\ line' = line /\ hold' = hold /\ aside' = aside /\ before' = before
      /\ Advance(TRUE) /\ line.cmd.kind \notin DaemonKinds
  BY DEF Call, IInv, Phases
<1>3. /\ runs' \in Seq(Run) /\ rest' \in Ranges /\ pc' \in {"tried", "round"} /\ (pc' = "tried" => rest' = <<>>)
      /\ (rest = <<>> => pc' = "tried") /\ (rest' # <<>> => SomeMembers')
      /\ (rest' = <<>> => NoMember' \/ AllMembers')
  BY <1>1, <1>2, NeverBroken, AdvanceVisits
<1>4. \/ Enters(r)
      \/ node' = node /\ list' = list
  BY <1>1 DEF Effect
<1>5. Types'
  <2>1. line.cmd \in Commands /\ rest \in Ranges
    BY DEF IInv, Types
  <2>2. Enters(r) => line.cmd.to \in Nodes
    BY <2>1 DEF Enters, ContextConstants, Nodes
  <2>3. node' \in Nodes /\ list' \in Ranges /\ index' \in Objects \union {NULL}
    BY <1>1, <2>1, <2>2, RangeFacts DEF Effect, IInv, Types
  <2>. QED BY <1>1, <1>2, <1>3, <2>3 DEF IInv, Types, HandlerStatus, Status
<1>6. Phases' /\ ContextKept'
  BY <1>1, <1>2, <1>3 DEF IInv, Phases, ContextKept, HandlerStatus
<1>7. Visited'
  BY <1>2, <1>3 DEF Visited
<1>8. Kept'
  <2>1. SUFFICES ASSUME Keeps
        PROVE  /\ pc' = "round" => Place(AfterDo.node, AfterDo.list)' /\ (line.cmd.kind # "plain" => rest' = <<>>)
               /\ pc' = "tried" /\ (line.cmd.kind = "plain" \/ ret' # "SUCCESS") => Place(AfterDo.node, AfterDo.list)'
    BY <1>2, <1>3 DEF Kept, Keeps
  <2>2. Place(AfterDo.node, AfterDo.list) /\ (line.cmd.kind # "plain" => rest = <<>>)
    BY <1>2, <2>1 DEF IInv, Kept
  <2>3. CASE node' = node /\ list' = list
    BY <1>2, <1>3, <2>2, <2>3 DEF Place, AfterDo
  <2>4. CASE Enters(r)
    <3>1. line.cmd.kind # "plain" /\ r = "SUCCESS"
      BY <2>1, <2>4 DEF Enters, Keeps
    <3>. QED BY <1>1, <1>3, <2>2, <3>1
  <2>. QED BY <1>4, <2>3, <2>4
<1>. QED BY <1>5, <1>6, <1>7, <1>8 DEF IInv

(* The system is not ready: the member is passed over.                     *)
LEMMA NotReadyKeepsIInv == ASSUME ContextConstants, IInv, NotReady PROVE IInv'
<1>2. /\ pc = "round" /\ line' = line /\ hold' = hold /\ aside' = aside /\ before' = before
      /\ node' = node /\ list' = list /\ ret' = ret
      /\ Advance(FALSE) /\ line.cmd.kind \notin DaemonKinds /\ ret \in HandlerStatus
  BY DEF NotReady, IInv, Phases
<1>3. /\ runs' \in Seq(Run) /\ rest' \in Ranges /\ pc' \in {"tried", "round"} /\ (pc' = "tried" => rest' = <<>>)
      /\ (rest = <<>> => pc' = "tried") /\ (rest' # <<>> => SomeMembers')
      /\ (rest' = <<>> => NoMember' \/ AllMembers')
  BY <1>2, NeverBroken, AdvanceVisits
<1>5. Types'
  <2>1. index' \in Objects \union {NULL}
    BY RangeFacts DEF NotReady, IInv, Types
  <2>. QED BY <1>2, <1>3, <2>1 DEF IInv, Types
<1>6. Phases' /\ ContextKept'
  BY <1>2, <1>3 DEF IInv, Phases, ContextKept, HandlerStatus
<1>7. Visited'
  BY <1>2, <1>3 DEF Visited
<1>8. Kept'
  <2>1. SUFFICES ASSUME Keeps
        PROVE  Place(AfterDo.node, AfterDo.list)' /\ (pc' = "round" /\ line.cmd.kind # "plain" => rest' = <<>>)
    BY <1>2, <1>3 DEF Kept, Keeps
  <2>2. Place(AfterDo.node, AfterDo.list) /\ (line.cmd.kind # "plain" => rest = <<>>)
    BY <1>2, <2>1 DEF IInv, Kept
  <2>. QED BY <1>2, <1>3, <2>2 DEF Place, AfterDo
<1>. QED BY <1>5, <1>6, <1>7, <1>8 DEF IInv

(* The context a return from cmd_execute_command leaves.                   *)
LEMMA AfterDoType == ASSUME IInv PROVE AfterDo.node \in Nodes /\ AfterDo.list \in Ranges
<1>1. CASE hold = <<>>
  BY <1>1 DEF IInv, Types, AfterDo
<1>2. CASE hold # <<>>
  <2>1. PICK h \in Held : hold = <<h>>
    BY <1>2 DEF IInv, Types
  <2>. QED BY <1>2, <2>1 DEF AfterDo, Held
<1>. QED BY <1>1, <1>2

(* The command is tried in the parent node.                                *)
LEMMA WalkUpKeepsIInv == ASSUME ContextConstants, IInv, WalkUp PROVE IInv'
<1> DEFINE n == AfterDo.node
           l == AfterDo.list
<1>1. /\ pc = "tried" /\ ~Final(ret) /\ n \in Above /\ node' = node_parent(n) /\ index' = NULL
      /\ list' = <<>> /\ hold' = <<>> /\ pc' = "match" /\ line' = line /\ rest' = rest /\ ret' = ret
      /\ before' = before /\ runs' = runs
      /\ aside' = IF aside # <<>> THEN aside
                  ELSE <<[node |-> n, index |-> index, list |-> l, ret |-> ret]>>
      /\ ret # "STOPPED" /\ rest = <<>>
  BY DEF WalkUp, IInv, Phases
<1>2. n \in Nodes /\ l \in Ranges /\ index \in Objects \union {NULL} /\ ret \in {"NO_MATCH", "ERR"}
  BY <1>1, AfterDoType DEF IInv, Types, Status, Final
<1> HIDE DEF n, l
<1>3. aside' # <<>> /\ \E a \in Saved : aside' = <<a>>
  <2>1. CASE aside # <<>>
    BY <1>1, <2>1 DEF IInv, Types
  <2>2. CASE aside = <<>>
    <3>1. [node |-> n, index |-> index, list |-> l, ret |-> ret] \in Saved
      BY <1>1, <1>2 DEF Saved
    <3>. QED BY <1>1, <2>2, <3>1
  <2>. QED BY <2>1, <2>2
<1>4. Types'
  <2>1. node' \in Nodes
    BY <1>1, WalkUpwards
  <2>. QED BY <1>1, <1>3, <2>1, RangeFacts DEF IInv, Types
<1>5. Phases' /\ ContextKept'
  BY <1>1 DEF IInv, Phases, ContextKept
<1>6. Visited'
  BY <1>1, <1>3 DEF IInv, Visited, NoMember, AllMembers
<1>7. Kept'
  <2>1. SUFFICES ASSUME Keeps PROVE Place(AfterDo.node, AfterDo.list)'
    BY <1>1 DEF Kept, Keeps
  <2>2. Place(n, l)
    BY <1>1, <1>2, <2>1 DEF IInv, Kept, n, l
  <2>3. (AfterDo.node)' = node' /\ (AfterDo.list)' = <<>>
    BY <1>1 DEF AfterDo
  <2>4. CASE aside = <<>>
    <3>1. n = before.node /\ l = before.list
      BY <2>2, <2>4 DEF Place
    <3>2. aside'[1].node = before.node /\ aside'[1].list = before.list
      BY <1>1, <2>4, <3>1
    <3>3. node' \in Up(before.node) /\ before.node \in Above
      BY <1>1, <3>1, WalkUpwards
    <3>. QED BY <1>1, <1>3, <2>3, <3>2, <3>3 DEF Place
  <2>5. CASE aside # <<>>
    <3>1. n \in Up(before.node) /\ before.node \in Above /\ aside' = aside
      BY <1>1, <2>2, <2>5 DEF Place
    <3>2. node' \in Up(before.node)
      BY <1>1, <3>1, WalkUpwards
    <3>. QED BY <1>1, <2>2, <2>3, <2>5, <3>1, <3>2 DEF Place
  <2>. QED BY <2>4, <2>5
<1>. QED BY <1>4, <1>5, <1>6, <1>7 DEF IInv

(* cmd_execute_command returned for the last time: the context set aside   *)
(* comes back unless the command succeeded.                                *)
LEMMA FinishKeepsIInv == ASSUME ContextConstants, IInv, Finish PROVE IInv'
<1>1. /\ pc = "tried" /\ line' = line /\ rest' = rest /\ before' = before /\ runs' = runs
      /\ hold' = <<>> /\ aside' = <<>> /\ EndWalk /\ rest = <<>> /\ ret # "STOPPED"
  BY DEF Finish, IInv, Phases
<1>2. CASE ret # "SUCCESS" /\ aside # <<>>
  <2>1. PICK a \in Saved : aside = <<a>>
    BY <1>2 DEF IInv, Types
  <2>2. node' = a.node /\ index' = a.index /\ list' = a.list /\ ret' = a.ret /\ pc' = "idle"
    BY <1>1, <1>2, <2>1 DEF EndWalk
  <2>3. /\ a.node \in Above /\ a.index \in Objects \union {NULL} /\ a.list \in Ranges
        /\ a.ret \in {"NO_MATCH", "ERR"}
    BY <2>1 DEF Saved
  <2>4. Types'
    BY <1>1, <2>2, <2>3 DEF IInv, Types, Nodes, Status
  <2>5. Phases' /\ Kept'
    BY <1>1, <2>2 DEF IInv, Phases, Kept
  <2>6. Visited'
    BY <1>1, <2>2 DEF IInv, Visited, NoMember, AllMembers
  <2>7. ContextKept'
    <3>1. SUFFICES ASSUME Keeps PROVE node' = before.node /\ list' = before.list
      BY <1>1 DEF Keeps, ContextKept
    <3>2. Place(AfterDo.node, AfterDo.list)
      BY <1>1, <1>2, <3>1 DEF IInv, Kept
    <3>. QED BY <1>2, <2>1, <2>2, <3>2 DEF Place
  <2>. QED BY <2>4, <2>5, <2>6, <2>7 DEF IInv
<1>3. CASE ret = "SUCCESS" \/ aside = <<>>
  <2>2. /\ node' = AfterDo.node /\ list' = AfterDo.list /\ index' = index /\ ret' = ret
        /\ pc' = IF ret = "DAEMON" THEN "func" ELSE "idle"
    BY <1>1, <1>3 DEF EndWalk
  <2>4. Types'
    BY <1>1, <2>2, AfterDoType DEF IInv, Types
  <2>5. Phases' /\ Kept'
    BY <1>1, <2>2 DEF IInv, Phases, Kept
  <2>6. Visited'
    BY <1>1, <2>2 DEF IInv, Visited, NoMember, AllMembers
  <2>7. ContextKept'
    <3>1. SUFFICES ASSUME Keeps, line.cmd.kind = "plain" \/ ret # "SUCCESS"
          PROVE  /\ ret # "SUCCESS" => node' = before.node /\ list' = before.list
                 /\ node' = before.node => list' = before.list
      BY <1>1, <2>2 DEF Keeps, ContextKept, Failed
    <3>2. Place(AfterDo.node, AfterDo.list)
      BY <1>1, <3>1 DEF IInv, Kept
    <3>3. CASE aside = <<>>
      BY <2>2, <3>2, <3>3 DEF Place
    <3>4. CASE aside # <<>>
      <4>1. before.node \in Above /\ node' \in Up(before.node) /\ ret = "SUCCESS"
        BY <1>3, <2>2, <3>2, <3>4 DEF Place
      <4>. QED BY <4>1 DEF Up, node_parent, Above
    <3>. QED BY <3>3, <3>4
  <2>. QED BY <2>4, <2>5, <2>6, <2>7 DEF IInv
<1>. QED BY <1>2, <1>3

(* A DEFUNSH command changes the node.                                     *)
LEMMA FuncKeepsIInv == ASSUME ContextConstants, IInv, Func PROVE IInv'
<1>1. /\ pc = "func" /\ pc' \in {"idle", "gone"} /\ list' \in {list, <<>>}
      /\ UNCHANGED <<index, line, hold, rest, aside, ret, before, runs>>
      /\ ret = "DAEMON" /\ line.cmd.kind \in DaemonKinds /\ hold = <<>> /\ aside = <<>> /\ rest = <<>>
  BY DEF Func, IInv, Phases
<1>2. line.cmd.kind # "plain"
  BY <1>1 DEF DaemonKinds
<1>3. node' \in Nodes
  <2>1. node \in Nodes /\ line.cmd \in Commands
    BY DEF IInv, Types
  <2>2. line.cmd.kind = "goto" => line.cmd.to \in Nodes
    BY <2>1 DEF ContextConstants, Nodes
  <2>3. CASE line.cmd.kind = "exit"
    BY <2>1, <2>3 DEF Func, vtysh_exit, node_parent, Nodes, Above
  <2>4. CASE line.cmd.kind # "exit"
    BY <1>1, <2>1, <2>2, <2>4 DEF Func, vtysh_end, Nodes, DaemonKinds
  <2>. QED BY <2>3, <2>4
<1>4. Types'
  BY <1>1, <1>3, RangeFacts DEF IInv, Types
<1>5. Phases' /\ Kept' /\ ContextKept'
  BY <1>1, <1>2 DEF Phases, Kept, ContextKept, Failed
<1>6. Visited'
  BY <1>1 DEF IInv, Visited, NoMember, AllMembers
<1>. QED BY <1>4, <1>5, <1>6 DEF IInv

(* ^Z ends the line wherever it is.                                        *)
LEMMA SigtstpKeepsIInv == ASSUME ContextConstants, IInv, Sigtstp PROVE IInv'
<1>1. Types'
  BY RangeFacts DEF Sigtstp, IInv, Types, vtysh_end, Nodes, Status
<1>2. Phases' /\ Kept' /\ ContextKept' /\ Visited'
  BY DEF Sigtstp, Phases, Kept, ContextKept, Visited
<1>. QED BY <1>1, <1>2 DEF IInv

(* The invariant of the execution of lines.                                *)
THEOREM ContextInvariant == ASSUME ContextConstants PROVE ContextSpec => []IInv
<1>1. ContextInit => IInv
  BY InitIInv
<1>2. IInv /\ [ContextNext]_contextVars => IInv'
  <2> SUFFICES ASSUME IInv, [ContextNext]_contextVars PROVE IInv'
    OBVIOUS
  <2>1. ASSUME NEW c \in Commands, NEW d \in BOOLEAN, Read(c, d) PROVE IInv'
    BY <2>1, ReadKeepsIInv
  <2>2. CASE Step
    BY <2>2, RefuseKeepsIInv, AcceptKeepsIInv, CallKeepsIInv, NotReadyKeepsIInv, WalkUpKeepsIInv,
       FinishKeepsIInv, FuncKeepsIInv DEF Step
  <2>3. CASE Sigtstp
    BY <2>3, SigtstpKeepsIInv
  <2>4. CASE UNCHANGED contextVars
    BY <2>4 DEF contextVars, context, IInv, Types, Phases, Kept, Keeps, Place, AfterDo, Visited, NoMember,
       AllMembers, SomeMembers, ContextKept, Failed
  <2>. QED BY <2>1, <2>2, <2>3, <2>4 DEF ContextNext, Gone
<1>. QED BY <1>1, <1>2, PTL DEF ContextSpec

(* The context has its type, and what is set aside is there only while a   *)
(* line is executed.                                                       *)
THEOREM ContextTypes == ASSUME ContextConstants PROVE ContextSpec => []ContextTypeOK
<1>1. IInv => ContextTypeOK
  <2> SUFFICES ASSUME IInv PROVE ContextTypeOK
    OBVIOUS
  <2>1. hold # <<>> => hold[1] \in [node : Nodes, list : Ranges] /\ pc \in {"round", "tried"}
    BY DEF IInv, Types, Phases, Held
  <2>2. aside # <<>> => /\ aside[1] \in [node : Above, index : Objects \union {NULL},
                                         list : Ranges, ret : Status]
                        /\ ~Idle
    BY DEF IInv, Types, Phases, Saved, Status, Idle
  <2>. QED BY <2>1, <2>2 DEF ContextTypeOK, IInv, Types
<1>. QED BY <1>1, ContextInvariant, PTL

(* A failed line leaves node and range as they were (vtysh_execute_func    *)
(* and cmd_execute_command restore what they changed), and a plain line    *)
(* that leaves the node leaves the range.                                  *)
THEOREM ContextKeptHolds == ASSUME ContextConstants PROVE ContextSpec => []ContextKept
<1>1. IInv => ContextKept
  BY DEF IInv
<1>. QED BY <1>1, ContextInvariant, PTL

(* cmd_execute_command_real visits the members of a range in order and to  *)
(* the last one, whatever the handler returns.                             *)
THEOREM EveryMemberHolds == ASSUME ContextConstants PROVE ContextSpec => []EveryMember
<1>1. IInv => EveryMember
  BY DEF IInv, EveryMember, Visited, Phases, NoMember, AllMembers
<1>. QED BY <1>1, ContextInvariant, PTL
-----------------------------------------------------------------------------
(* The commands for which CliModes is the abstract specification: no range *)
(* of interfaces can be entered, and configure and the commands that only  *)
(* change the node are installed where the code installs them.             *)
PlainCommands ==
  \A c \in Commands :
    /\ c.kind # "range"
    /\ c.kind = "configure" => "VIEW" \notin c.at
    /\ c.kind = "goto" => "ENABLE" \notin c.at

(* n is the node in which the line was read, or a parent of it.            *)
Reached(n) ==
  IF aside = <<>> THEN n = before.node
  ELSE n \in Up(before.node) /\ before.node \in Above /\ aside[1].node = before.node

Entered(n) ==
  /\ line.cmd.kind \in {"enter", "eager"} /\ n = line.cmd.to
  /\ line.cmd.at \cap ({before.node} \union Shown!Ancestors(before.node)) # {}

(* A DEFUNSH command that is going to run was found where CliModes says.   *)
FuncAt(n) ==
  /\ line.cmd.kind = "goto" => n \in line.cmd.at
  /\ line.cmd.kind = "configure" => n # "VIEW"

NoRange == list = <<>> /\ rest = <<>> /\ AfterDo.list = <<>> /\ (aside # <<>> => aside[1].list = <<>>)

Tried ==
  \/ Reached(AfterDo.node) /\ (ret = "DAEMON" /\ aside = <<>> => FuncAt(AfterDo.node))
  \/ Entered(AfterDo.node) /\ ret = "SUCCESS"
  \/ /\ Entered(AfterDo.node) /\ ret = "WARNING"
     /\ line.cmd.kind = "eager" /\ (aside = <<>> => before.node \in line.cmd.at)

RInv ==
  /\ NoRange
  /\ ~Idle /\ node = "VIEW" => before.node = "VIEW"
  /\ ~Idle /\ aside # <<>> => before.node \in Above /\ aside[1].node = before.node
  /\ pc \in {"match", "round"} => Reached(AfterDo.node)
  /\ pc = "round" => ret = "SUCCESS" /\ (hold = <<>> => node \in line.cmd.at)
  /\ pc = "tried" => Tried
  /\ pc = "func" => node = before.node /\ FuncAt(node)

(* The ancestors of CliModes are the nodes the walk reaches.               *)
LEMMA AncestorsUp == \A n \in Nodes : Shown!Ancestors(n) = IF n \in Above THEN Up(n) ELSE {}
<1>1. \A n \in Above : parentOf[n] = node_parent(n)
  BY DEF parentOf, node_parent, Above
<1>. QED BY <1>1 DEF Shown!Ancestors, Up, node_parent, Above, Nodes

(* RInv when the line is read, looked up, passed over or stopped.          *)
LEMMA LookupKeepsRInv ==
  ASSUME ContextConstants, PlainCommands, IInv, RInv,
         (\E c \in Commands, d \in BOOLEAN : Read(c, d)) \/ Refuse \/ Accept \/ NotReady \/ Sigtstp
  PROVE  RInv'
<1>1. /\ list = <<>> /\ rest = <<>> /\ line.cmd \in Commands
      /\ pc \notin {"round", "tried"} => hold = <<>>
      /\ pc \notin {"match", "round", "tried"} => aside = <<>>
  BY DEF IInv, RInv, Types, Phases, NoRange
<1>2. ASSUME NEW c \in Commands, NEW d \in BOOLEAN, Read(c, d) PROVE RInv'
  BY <1>1, <1>2 DEF Read, context, RInv, NoRange, AfterDo, Reached, Idle
<1>3. CASE Refuse
  <2>1. /\ pc = "match" /\ pc' = "tried" /\ hold = <<>> /\ Reached(node)
        /\ UNCHANGED <<node, list, line, hold, rest, aside, before>>
    BY <1>1, <1>3 DEF Refuse, context, RInv, AfterDo
  <2>2. ret' = "DAEMON" /\ aside = <<>> => FuncAt(node)
    <3>1. SUFFICES ASSUME ret' = "DAEMON" PROVE FuncAt(node)
      OBVIOUS
    <3>2. Found
      BY <1>3, <3>1 DEF Refuse
    <3>. QED BY <1>1, <3>2 DEF Found, Shortcut, FuncAt, PlainCommands
  <2>3. Tried'
    BY <2>1, <2>2 DEF Tried, Reached, AfterDo, FuncAt
  <2>. QED BY <2>1, <2>3 DEF RInv, NoRange, AfterDo, Idle
<1>4. CASE Accept
  <2>1. /\ pc = "match" /\ pc' = "round" /\ hold = <<>> /\ Reached(node) /\ ret' = "SUCCESS" /\ Found
        /\ UNCHANGED <<line, aside, before>> /\ list' = <<>> /\ rest' = <<>>
    BY <1>1, <1>4 DEF Accept, RInv, AfterDo
  <2>2. CASE Shortcut
    <3>1. hold' = <<[node |-> node, list |-> list]>> /\ node' = "ENABLE"
      BY <1>4, <2>2 DEF Accept
    <3>2. (AfterDo.node)' = node /\ (AfterDo.list)' = <<>> /\ hold' # <<>>
      BY <1>1, <3>1 DEF AfterDo
    <3>. QED BY <2>1, <3>1, <3>2 DEF RInv, NoRange, Reached, Idle
  <2>3. CASE ~Shortcut
    <3>1. hold' = <<>> /\ node' = node /\ node \in line.cmd.at
      BY <1>4, <2>1, <2>3 DEF Accept, Found
    <3>2. (AfterDo.node)' = node /\ (AfterDo.list)' = <<>>
      BY <2>1, <3>1 DEF AfterDo
    <3>. QED BY <2>1, <3>1, <3>2 DEF RInv, NoRange, Reached, Idle
  <2>. QED BY <2>2, <2>3
<1>5. CASE NotReady
  <2>1. /\ pc = "round" /\ pc' = "tried" /\ rest' = <<>> /\ ret = "SUCCESS"
        /\ UNCHANGED <<node, list, ret, line, hold, aside, before>>
    <3>1. Len(rest) = 0
      BY <1>1, EmptySeq
    <3>. QED BY <1>1, <1>5, <3>1 DEF NotReady, Advance, RInv
  <2>2. Tried'
    BY <2>1 DEF RInv, Tried, Reached, AfterDo
  <2>. QED BY <2>1, <2>2 DEF RInv, NoRange, AfterDo, Idle
<1>6. CASE Sigtstp
  BY <1>1, <1>6 DEF Sigtstp, RInv, NoRange, AfterDo, Idle
<1>. QED BY <1>2, <1>3, <1>4, <1>5, <1>6

(* RInv when a handler runs: outside of a range only once.                 *)
LEMMA CallKeepsRInv ==
  ASSUME ContextConstants, PlainCommands, IInv, RInv, Call PROVE RInv'
<1>1. PICK r \in HandlerStatus : ret' = r /\ Effect(r)
  BY DEF Call
<1>2. /\ pc = "round" /\ UNCHANGED <<line, hold, aside, before>>
      /\ list = <<>> /\ rest = <<>> /\ line.cmd \in Commands /\ before.node \in Nodes
      /\ Reached(AfterDo.node) /\ (hold = <<>> => node \in line.cmd.at)
      /\ AfterDo.list = <<>>
  BY DEF Call, IInv, RInv, Types, NoRange
<1>3. pc' = "tried" /\ rest' = <<>>
  <2>1. Len(rest) = 0
    BY <1>2, EmptySeq
  <2>. QED BY <1>2, <2>1 DEF Call, Advance
<1>4. list' = <<>> /\ r # "DAEMON"
  BY <1>1, <1>2 DEF Effect, PlainCommands, HandlerStatus
<1>5. CASE node' = node
  <2>1. (AfterDo.node)' = AfterDo.node /\ (AfterDo.list)' = <<>>
    BY <1>2, <1>4, <1>5 DEF AfterDo
  <2>2. Tried'
    BY <1>1, <1>2, <1>4, <2>1 DEF Tried, Reached
  <2>. QED BY <1>2, <1>3, <1>4, <1>5, <2>1, <2>2 DEF RInv, NoRange, Idle
<1>6. CASE Enters(r) /\ node' = line.cmd.to
  <2>1. line.cmd.kind \in {"enter", "eager"} /\ node' \in Above
    BY <1>2, <1>6 DEF Enters, PlainCommands, ContextConstants
  <2>2. node' # "VIEW"
    BY <2>1 DEF Above
  <2>3. CASE hold # <<>>
    <3>1. (AfterDo.node)' = AfterDo.node /\ (AfterDo.list)' = <<>>
      BY <1>2, <2>3 DEF AfterDo
    <3>2. Tried'
      BY <1>1, <1>2, <1>4, <3>1 DEF Tried, Reached
    <3>. QED BY <1>2, <1>3, <1>4, <2>2, <3>1, <3>2 DEF RInv, NoRange, Idle
  <2>4. CASE hold = <<>>
    <3>1. (AfterDo.node)' = line.cmd.to /\ (AfterDo.list)' = <<>> /\ node \in line.cmd.at /\ Reached(node)
      BY <1>2, <1>4, <1>6, <2>4 DEF AfterDo
    <3>2. node \in {before.node} \union Shown!Ancestors(before.node)
      BY <1>2, <3>1, AncestorsUp DEF Reached
    <3>3. Entered(AfterDo.node)'
      <4>1. Entered(line.cmd.to)
        BY <2>1, <3>1, <3>2 DEF Entered
      <4>2. line' = line /\ before' = before
        BY <1>2
      <4>. QED BY <3>1, <4>1, <4>2 DEF Entered, Shown!Ancestors
    <3>4. aside = <<>> => before.node \in line.cmd.at
      BY <3>1 DEF Reached
    <3>5. ret' = "SUCCESS" \/ (ret' = "WARNING" /\ line.cmd.kind = "eager")
      BY <1>1, <1>6 DEF Enters
    <3>6. Tried'
      BY <1>2, <3>3, <3>4, <3>5 DEF Tried
    <3>. QED BY <1>2, <1>3, <1>4, <2>2, <3>1, <3>6 DEF RInv, NoRange, Idle
  <2>. QED BY <2>3, <2>4
<1>. QED BY <1>1, <1>5, <1>6 DEF Effect

(* RInv when cmd_execute_command returned and when the line ends.          *)
LEMMA ReturnKeepsRInv ==
  ASSUME ContextConstants, PlainCommands, IInv, RInv, WalkUp \/ Finish \/ Func PROVE RInv'
<1>1. CASE WalkUp
  <2> DEFINE n == AfterDo.node
  <2>1. /\ pc = "tried" /\ ret \in {"NO_MATCH", "ERR"} /\ n \in Above /\ node' = node_parent(n)
        /\ list' = <<>> /\ hold' = <<>> /\ pc' = "match" /\ UNCHANGED <<line, rest, before>>
        /\ rest = <<>> /\ AfterDo.list = <<>>
    BY <1>1 DEF WalkUp, IInv, Types, Phases, RInv, NoRange, Final, Status
  <2>2. /\ aside # <<>> => aside' = aside
        /\ aside = <<>> => aside' = <<[node |-> n, index |-> index, list |-> <<>>, ret |-> ret]>>
    BY <1>1, <2>1 DEF WalkUp
  <2>3. Reached(n)
    BY <2>1 DEF RInv, Tried
  <2> HIDE DEF n
  <2>4. aside' # <<>> /\ aside'[1].list = <<>> /\ aside'[1].node = before.node /\ before.node \in Above
    BY <2>1, <2>2, <2>3 DEF RInv, NoRange, Reached
  <2>5. node' \in Up(before.node)
    BY <2>1, <2>3, WalkUpwards DEF Reached
  <2>6. node' # "VIEW"
    BY <2>1 DEF node_parent
  <2>7. (AfterDo.node)' = node' /\ (AfterDo.list)' = <<>>
    BY <2>1 DEF AfterDo
  <2>8. Reached(AfterDo.node)'
    BY <2>1, <2>4, <2>5, <2>7 DEF Reached
  <2>. QED BY <2>1, <2>4, <2>6, <2>7, <2>8 DEF RInv, NoRange, Idle
<1>2. CASE Finish
  <2>1. /\ pc = "tried" /\ hold' = <<>> /\ aside' = <<>> /\ UNCHANGED <<line, rest, before>> /\ EndWalk
    BY <1>2 DEF Finish
  <2>2. list' = <<>> /\ rest' = <<>> /\ (AfterDo.list)' = <<>> /\ pc' \in {"idle", "func"}
    BY <2>1 DEF RInv, NoRange, EndWalk, AfterDo
  <2>3. pc' = "func" => node' = before.node /\ FuncAt(node')
    <3>1. SUFFICES ASSUME pc' = "func" PROVE node' = before.node /\ FuncAt(node')
      OBVIOUS
    <3>2. ret = "DAEMON" /\ aside = <<>> /\ node' = AfterDo.node
      BY <2>1, <3>1 DEF EndWalk
    <3>. QED BY <2>1, <3>2 DEF RInv, Tried, Reached
  <2>. QED BY <2>1, <2>2, <2>3 DEF RInv, NoRange, Idle, FuncAt
<1>3. CASE Func
  <2>1. pc' \in {"idle", "gone"} /\ list' = <<>> /\ UNCHANGED <<hold, rest, aside>> /\ hold = <<>> /\ aside = <<>>
    BY <1>3 DEF Func, IInv, Phases, RInv, NoRange
  <2>. QED BY <2>1 DEF RInv, NoRange, AfterDo, Idle
<1>. QED BY <1>1, <1>2, <1>3

(* What the prompt shows, and whether the last line failed.                *)
ShownMode == IF Idle THEN node ELSE before.node

ShownStatus ==
  LET r == IF Idle THEN ret ELSE before.ret
  IN  IF r \in {"SUCCESS", "DAEMON", "STOPPED"} THEN "ok" ELSE "error"

(* A step of CliModes, in terms of what is shown.                          *)
LEMMA ModesStep ==
  ASSUME IInv,
         \/ ShownMode' = ShownMode
         \/ /\ ShownStatus' = "ok"
            /\ \/ ShownMode' \in Shown!Ancestors(ShownMode)
               \/ ShownMode' = IF ShownMode = "VIEW" THEN ShownMode ELSE "ENABLE"
               \/ <<ShownMode, ShownMode'>> \in {<<"VIEW", "ENABLE">>, <<"ENABLE", "VIEW">>, <<"ENABLE", "CONFIG">>}
               \/ ShownMode = "VRRP_IF" /\ ShownMode' = "INTERFACE"
         \/ \E c \in Commands :
              /\ \/ /\ c.kind \in {"enter", "eager"}
                    /\ c.at \cap ({ShownMode} \union Shown!Ancestors(ShownMode)) # {}
                 \/ c.kind = "goto" /\ ShownMode \in c.at
              /\ ShownMode' = c.to
              /\ ShownStatus' = "ok" \/ (c.kind = "eager" /\ ShownMode \in c.at /\ ShownStatus' = "error")
  PROVE  Shown!Next
<1>1. ShownStatus' \in {"ok", "error"}
  BY DEF ShownStatus
<1>. QED BY <1>1 DEF Shown!Next, Shown!Fail, Shown!Stay, Shown!Up, Shown!Enter, Shown!End, Shown!Privilege,
       Shown!ExitVrrp, ShownMode, ShownStatus

(* Inside the execution of a line nothing is shown.                        *)
LEMMA StepsUnseen ==
  ASSUME IInv, \/ \E c \in Commands, d \in BOOLEAN : Read(c, d)
               \/ Refuse \/ Accept \/ Call \/ NotReady \/ WalkUp \/ UNCHANGED contextVars
  PROVE  UNCHANGED <<ShownMode, ShownStatus>>
<1>1. ASSUME NEW c \in Commands, NEW d \in BOOLEAN, Read(c, d) PROVE UNCHANGED <<ShownMode, ShownStatus>>
  BY <1>1 DEF Read, ShownMode, ShownStatus, Idle
<1>2. CASE Call \/ NotReady
  <2>1. pc = "round" /\ pc' \in {"tried", "round"} /\ before' = before
    BY <1>2 DEF Call, NotReady, Advance
  <2>. QED BY <2>1 DEF ShownMode, ShownStatus, Idle
<1>3. CASE Refuse \/ Accept \/ WalkUp
  BY <1>3 DEF Refuse, Accept, WalkUp, ShownMode, ShownStatus, Idle
<1>4. CASE UNCHANGED contextVars
  BY <1>4 DEF contextVars, context, ShownMode, ShownStatus, Idle
<1>. QED BY <1>1, <1>2, <1>3, <1>4

(* The return of a command other than a DEFUNSH command.                   *)
LEMMA FinishShown ==
  ASSUME ContextConstants, PlainCommands, IInv, RInv, Finish
  PROVE  Shown!Next \/ UNCHANGED <<ShownMode, ShownStatus>>
<1>1. /\ pc = "tried" /\ EndWalk /\ before' = before /\ before.node \in Nodes /\ line.cmd \in Commands
      /\ ret \in Status /\ Tried /\ (aside # <<>> => aside[1].node = before.node)
      /\ ShownMode = before.node
  BY DEF Finish, IInv, Types, RInv, ShownMode, Idle
<1>2. CASE ret # "SUCCESS" /\ aside # <<>>
  <2>1. pc' = "idle" /\ node' = before.node
    BY <1>1, <1>2 DEF EndWalk
  <2>2. ShownMode' = ShownMode
    BY <1>1, <2>1 DEF ShownMode, Idle
  <2>. QED BY <2>2, ModesStep
<1>3. CASE (ret = "SUCCESS" \/ aside = <<>>) /\ ret = "DAEMON"
  BY <1>1, <1>3 DEF EndWalk, ShownMode, ShownStatus, Idle
<1>4. CASE (ret = "SUCCESS" \/ aside = <<>>) /\ ret # "DAEMON"
  <2>1. pc' = "idle" /\ node' = AfterDo.node /\ ret' = ret
    BY <1>1, <1>4 DEF EndWalk
  <2>2. /\ ShownMode' = AfterDo.node
        /\ ret = "SUCCESS" => ShownStatus' = "ok"
        /\ ret = "WARNING" => ShownStatus' = "error"
    BY <2>1 DEF ShownMode, ShownStatus, Idle
  <2>3. CASE Reached(AfterDo.node)
    <3>1. CASE aside = <<>>
      BY <1>1, <2>2, <2>3, <3>1, ModesStep DEF Reached
    <3>2. CASE aside # <<>>
      <4>1. AfterDo.node \in Shown!Ancestors(before.node) /\ ret = "SUCCESS"
        BY <1>1, <1>4, <2>3, <3>2, AncestorsUp DEF Reached
      <4>. QED BY <1>1, <2>2, <4>1, ModesStep
    <3>. QED BY <3>1, <3>2
  <2>4. CASE Entered(AfterDo.node) /\ ret = "SUCCESS"
    BY <1>1, <2>2, <2>4, ModesStep DEF Entered
  <2>5. CASE Entered(AfterDo.node) /\ ret = "WARNING" /\ line.cmd.kind = "eager"
             /\ (aside = <<>> => before.node \in line.cmd.at)
    <3>1. before.node \in line.cmd.at
      BY <1>4, <2>5
    <3>. QED BY <1>1, <2>2, <2>5, <3>1, ModesStep DEF Entered
  <2>. QED BY <1>1, <2>3, <2>4, <2>5 DEF Tried
<1>. QED BY <1>2, <1>3, <1>4

(* The DEFUNSH commands and ^Z.                                            *)
LEMMA FuncShown ==
  ASSUME ContextConstants, PlainCommands, IInv, RInv, Func \/ Sigtstp
  PROVE  Shown!Next
<1>0. before.node \in Nodes /\ node \in Nodes /\ line.cmd \in Commands
  BY DEF IInv, Types
<1>1. CASE Func
  <2>1. /\ pc = "func" /\ node = before.node /\ ret = "DAEMON" /\ ret' = ret /\ FuncAt(node)
        /\ pc' \in {"idle", "gone"} /\ line.cmd.kind \in DaemonKinds
    BY <1>1 DEF Func, RInv, IInv, Phases
  <2>2. ShownMode = node /\ ShownMode' = node' /\ ShownStatus' = "ok"
    BY <2>1 DEF ShownMode, ShownStatus, Idle
  <2>3. CASE line.cmd.kind = "exit"
    <3>1. \/ node' = node
          \/ node \notin {"VIEW", "ENABLE"} /\ node' = vtysh_exit(node)
      BY <1>1, <2>3 DEF Func
    <3>2. CASE node \notin {"VIEW", "ENABLE"} /\ node' = vtysh_exit(node)
      <4>1. CASE node = "CONFIG"
        BY <2>2, <3>2, <4>1, ModesStep DEF vtysh_exit
      <4>2. CASE node = "VRRP_IF"
        BY <2>2, <3>2, <4>2, ModesStep DEF vtysh_exit
      <4>3. CASE node \notin {"CONFIG", "VRRP_IF"}
        <5>1. node \in Above /\ node' = node_parent(node)
          BY <1>0, <3>2, <4>3 DEF vtysh_exit, Nodes
        <5>2. node' \in Shown!Ancestors(node)
          BY <1>0, <5>1, AncestorsUp, WalkUpwards
        <5>. QED BY <2>2, <5>2, ModesStep
      <4>. QED BY <4>1, <4>2, <4>3
    <3>. QED BY <2>2, <3>1, <3>2, ModesStep
  <2>4. CASE line.cmd.kind = "end"
    <3>1. node' = vtysh_end(node)
      BY <1>1, <2>4 DEF Func
    <3>. QED BY <2>2, <3>1, ModesStep DEF vtysh_end
  <2>5. CASE line.cmd.kind = "enable"
    <3>1. node' = "ENABLE"
      BY <1>1, <2>5 DEF Func
    <3>. QED BY <2>2, <3>1, ModesStep
  <2>6. CASE line.cmd.kind = "disable"
    <3>1. node' = IF node = "ENABLE" THEN "VIEW" ELSE node
      BY <1>1, <2>6 DEF Func
    <3>. QED BY <2>2, <3>1, ModesStep
  <2>7. CASE line.cmd.kind = "configure"
    <3>1. node' = "CONFIG" /\ node # "VIEW"
      BY <1>1, <2>1, <2>7 DEF Func, FuncAt
    <3>2. CASE node \in Above
      <4>1. "CONFIG" \in Shown!Ancestors(node)
        BY <1>0, <3>2, AncestorsUp DEF Up, node_parent, Above
      <4>. QED BY <2>2, <3>1, <4>1, ModesStep
    <3>3. CASE node \in {"ENABLE", "CONFIG"}
      BY <2>2, <3>1, <3>3, ModesStep
    <3>. QED BY <1>0, <3>1, <3>2, <3>3 DEF Nodes
  <2>8. CASE line.cmd.kind = "goto"
    <3>1. node' = line.cmd.to /\ node \in line.cmd.at
      BY <1>1, <2>1, <2>8 DEF Func, FuncAt
    <3>. QED BY <1>0, <2>2, <2>8, <3>1, ModesStep
  <2>. QED BY <2>1, <2>3, <2>4, <2>5, <2>6, <2>7, <2>8 DEF DaemonKinds
<1>2. CASE Sigtstp
  <2>1. pc # "gone" /\ pc' = "idle" /\ node' = vtysh_end(node) /\ ret' = "STOPPED"
    BY <1>2 DEF Sigtstp
  <2>2. ShownMode' = vtysh_end(node) /\ ShownStatus' = "ok"
    BY <2>1 DEF ShownMode, ShownStatus, Idle
  <2>3. CASE pc = "idle"
    <3>1. ShownMode = node
      BY <2>3 DEF ShownMode, Idle
    <3>. QED BY <2>2, <3>1, ModesStep DEF vtysh_end
  <2>4. CASE pc # "idle"
    <3>1. ShownMode = before.node /\ (node = "VIEW" => before.node = "VIEW")
      BY <2>1, <2>4 DEF RInv, ShownMode, Idle
    <3>2. CASE node = "VIEW"
      BY <2>2, <3>1, <3>2, ModesStep DEF vtysh_end
    <3>3. CASE node # "VIEW"
      <4>1. ShownMode' = "ENABLE"
        BY <2>2, <3>3 DEF vtysh_end
      <4>. QED BY <2>2, <4>1, ModesStep
    <3>. QED BY <3>2, <3>3
  <2>. QED BY <2>3, <2>4
<1>. QED BY <1>1, <1>2

(* The temporary changes of vty->node by vtysh_execute_func and            *)
(* cmd_execute_command are never seen: outside of ranges, what the prompt  *)
(* shows moves from mode to mode as CliModes says.                         *)
THEOREM ModesShown == ASSUME ContextConstants, PlainCommands PROVE ContextSpec => RefinesModes
<1>1. ContextInit => RInv
  BY DEF ContextInit, RInv, NoRange, AfterDo, Idle
<1>2. IInv /\ RInv /\ [ContextNext]_contextVars => RInv'
  <2> SUFFICES ASSUME IInv, RInv, [ContextNext]_contextVars PROVE RInv'
    OBVIOUS
  <2>1. CASE UNCHANGED contextVars
    BY <2>1 DEF contextVars, context, RInv, NoRange, AfterDo, Idle, Reached, Tried, FuncAt, Entered, Shown!Ancestors
  <2>2. CASE ContextNext
    BY <2>1, <2>2, LookupKeepsRInv, CallKeepsRInv, ReturnKeepsRInv DEF ContextNext, Step, Gone
  <2>. QED BY <2>1, <2>2
<1>3. ContextInit => Shown!Init
  BY DEF ContextInit, Shown!Init, Idle
<1>4. IInv /\ RInv /\ [ContextNext]_contextVars => [Shown!Next]_(Shown!vars)
  <2> SUFFICES ASSUME IInv, RInv, [ContextNext]_contextVars
               PROVE  Shown!Next \/ UNCHANGED <<ShownMode, ShownStatus>>
    BY DEF Shown!vars, ShownMode, ShownStatus
  <2>1. CASE Finish
    BY <2>1, FinishShown
  <2>2. CASE Func \/ Sigtstp
    BY <2>2, FuncShown
  <2>. QED BY <2>1, <2>2, StepsUnseen DEF ContextNext, Step, Gone
<1>. QED BY <1>1, <1>2, <1>3, <1>4, ContextInvariant, PTL DEF ContextSpec, RefinesModes, Shown!Spec
=============================================================================
