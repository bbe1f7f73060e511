------------------------------ MODULE RouteMap ------------------------------
(***************************************************************************)
(* The route maps of the routing library (lib/routemap.c): the list of     *)
(* maps, their clauses ordered by preference, the match and set rules of a *)
(* clause, the commands of one vty, and route_map_apply, whose recursion   *)
(* counter is a static variable that outlives the call.                    *)
(*                                                                         *)
(* A routed object is one value: a match rule compares it, a set rule      *)
(* replaces it.  An argument in BadArgs is one the rule's compile function *)
(* refuses.  An optional argument is <<>> or <<v>>.                        *)
(***************************************************************************)
EXTENDS Integers, Sequences, FiniteSets, SequencesExt

CONSTANTS
  MapNames,     \* route map names
  Prefs,        \* preferences typed
  MaxPref,      \* 65535, the greatest preference a clause has
  Cmds,         \* rule commands the daemon installed
  Values,       \* objects and rule arguments
  BadArgs,      \* arguments no rule compiles
  Limit,        \* RMAP_RECURSION_LIMIT
  MaxClauses,   \* bound: clauses of all maps
  MaxParts,     \* bound: rules, calls, exit policies and descriptions
  MaxDrift      \* bound: how far below zero the counter is followed

VARIABLES
  maps,       \* route_map_master: a sequence of [name, index]
  ctx,        \* vty->index in RMAP_NODE: <<>> or <<[name, pref]>>
  recursion,  \* the static counter of route_map_apply
  depth,      \* how deep the calls of the last application went
  answer      \* what the last command or application answered

vars == <<maps, ctx, recursion, depth, answer>>

Init ==
  /\ maps = <<>> /\ ctx = <<>> /\ recursion = 0 /\ depth = 0 /\ answer = "none"

-----------------------------------------------------------------------------
(* Maps and clauses *)

route_map_lookup_by_name(ms, name) == {m \in ToSet(ms) : m.name = name}
MapOf(ms, name) == CHOOSE m \in route_map_lookup_by_name(ms, name) : TRUE

map_get_at_head(ms, name) ==
  IF route_map_lookup_by_name(ms, name) = {} THEN <<[name |-> name, index |-> <<>>]>> \o ms
  ELSE ms

\* a new map goes to the end of the list
route_map_get(ms, name) ==
  IF route_map_lookup_by_name(ms, name) = {} THEN Append(ms, [name |-> name, index |-> <<>>])
  ELSE ms

route_map_delete(ms, name) == SelectSeq(ms, LAMBDA m : m.name # name)

OnMap(ms, name, f(_)) ==
  [i \in DOMAIN ms |-> IF ms[i].name = name THEN [ms[i] EXCEPT !.index = f(@)] ELSE ms[i]]

route_map_index_new(type, pref) ==
  [type |-> type, pref |-> pref, match |-> <<>>, set |-> <<>>, nextrm |-> {},
   exit |-> "exit", nextpref |-> 0, desc |-> {}]

\* clauses with the preference, of the type or of any
route_map_index_lookup(index, types, pref) ==
  {c \in ToSet(index) : c.type \in types /\ c.pref = pref}

route_map_index_delete(index, pref) == SelectSeq(index, LAMBDA c : c.pref # pref)

index_add_at_tail(index, type, pref) == Append(index, route_map_index_new(type, pref))

route_map_index_add(index, type, pref) ==
  InsertAt(index, Cardinality({i \in DOMAIN index : index[i].pref < pref}) + 1,
           route_map_index_new(type, pref))

\* a clause of the other type at the preference makes way for a new one
route_map_index_get(index, type, pref) ==
  LET any == route_map_index_lookup(index, {"permit", "deny"}, pref)
      same == route_map_index_lookup(index, {type}, pref)
      kept == IF any # same THEN route_map_index_delete(index, pref) ELSE index
  IN IF same = {} THEN route_map_index_add(kept, type, pref) ELSE kept

\* the clause the vty is in
Current == CHOOSE c \in ToSet(MapOf(maps, ctx[1].name).index) : c.pref = ctx[1].pref

OnCurrent(f(_)) ==
  OnMap(maps, ctx[1].name,
        LAMBDA index : [i \in DOMAIN index |->
                          IF index[i].pref = ctx[1].pref THEN f(index[i]) ELSE index[i]])

-----------------------------------------------------------------------------
(* Rules.  A rule of the same command is replaced, and the new one is last. *)

RuleAdded(rules, cmd, arg) ==
  Append(SelectSeq(rules, LAMBDA r : r.cmd # cmd), [cmd |-> cmd, arg |-> arg])

AddResult(cmd, arg) ==
  IF cmd \notin Cmds THEN "missing" ELSE IF arg \in BadArgs THEN "compile" ELSE "success"

route_map_add_match(c, cmd, arg) ==
  IF AddResult(cmd, arg) = "success" THEN [c EXCEPT !.match = RuleAdded(@, cmd, arg)] ELSE c

route_map_add_set(c, cmd, arg) ==
  IF AddResult(cmd, arg) = "success" THEN [c EXCEPT !.set = RuleAdded(@, cmd, arg)] ELSE c

\* the rule of the command, if an argument was given only with that argument
Matching(rules, cmd, arg) ==
  {i \in DOMAIN rules : rules[i].cmd = cmd /\ (arg # <<>> => rules[i].arg = arg[1])}

route_map_delete_match(c, cmd, arg) ==
  LET at == Matching(c.match, cmd, arg)
  IN IF at = {} THEN c ELSE [c EXCEPT !.match = RemoveAt(@, CHOOSE i \in at : TRUE)]

route_map_delete_set(c, cmd, arg) ==
  LET at == Matching(c.set, cmd, arg)
  IN IF at = {} THEN c ELSE [c EXCEPT !.set = RemoveAt(@, CHOOSE i \in at : TRUE)]

-----------------------------------------------------------------------------
(* Application *)

\* every rule must match; no rule matches everything
route_map_apply_match(rules, v) == \A r \in ToSet(rules) : r.arg = v

\* the object after the set rules, in order
SetBy(rules, v) == FoldLeft(LAMBDA x, r : r.arg, v, rules)

Result(ret, v, rec, deep) == [ret |-> ret, v |-> v, rec |-> rec, deep |-> deep]

\* the first clause after i not below a preference, 0 when there is none
FirstFrom(index, i, pref) ==
  LET at == {j \in (i + 1)..Len(index) : index[j].pref >= pref}
  IN IF at = {} THEN 0 ELSE CHOOSE j \in at : \A k \in at : j <= k

Deepest(S) == CHOOSE d \in S : \A e \in S : e <= d

RECURSIVE route_map_apply(_, _, _, _, _)
RECURSIVE Clauses(_, _, _, _, _, _)

route_map_apply(ms, name, v, rec, deep) ==
  IF rec > Limit THEN Result("deny", v, 0, deep)
  ELSE IF route_map_lookup_by_name(ms, name) = {} THEN Result("deny", v, rec, deep)
  ELSE Clauses(ms, MapOf(ms, name).index, 1, v, rec, deep)

\* Mutant: a call that denies returns before the counter is lowered.
called_raised_on_deny(ms, c, v, rec, deep) ==
  IF \A n \in c.nextrm : route_map_lookup_by_name(ms, n) = {}
  THEN [Result("okay", v, rec, deep) EXCEPT !.deep = {deep}]
  ELSE LET r == route_map_apply(ms, CHOOSE n \in c.nextrm : TRUE, v, rec + 1, deep + 1)
       IN [r EXCEPT !.rec = IF r.ret = "deny" THEN @ ELSE @ - 1, !.deep = {deep, r.deep}]

\* what a call of another map leaves: the counter is raised around it
Called(ms, c, v, rec, deep) ==
  IF \A n \in c.nextrm : route_map_lookup_by_name(ms, n) = {}
  THEN [Result("okay", v, rec, deep) EXCEPT !.deep = {deep}]
  ELSE LET r == route_map_apply(ms, CHOOSE n \in c.nextrm : TRUE, v, rec + 1, deep + 1)
       IN [r EXCEPT !.rec = @ - 1, !.deep = {deep, r.deep}]

\* the walk of the clauses from the i-th on
Clauses(ms, index, i, v, rec, deep) ==
  IF i > Len(index) THEN Result("deny", v, rec, deep)
  ELSE LET c == index[i]
       IN IF ~route_map_apply_match(c.match, v) THEN Clauses(ms, index, i + 1, v, rec, deep)
          ELSE IF c.type = "deny" THEN Result("deny", v, rec, deep)
          ELSE LET r == Called(ms, c, SetBy(c.set, v), rec, deep)
                   goto == FirstFrom(index, i, c.nextpref)
                   next == IF c.exit = "goto" THEN goto ELSE i + 1
                   done == [r EXCEPT !.deep = Deepest(@)]
                   more == Clauses(ms, index, next, r.v, r.rec, deep)
               IN IF r.ret = "deny" \/ c.exit = "exit" \/ (c.exit = "goto" /\ goto = 0) THEN done
                  ELSE [more EXCEPT !.deep = Deepest(r.deep \cup {more.deep})]

-----------------------------------------------------------------------------
(* The commands.  A command of the configuration node typed inside a clause   *)
(* is tried at the parent node and leaves the vty there (cmd_execute_command). *)

Leave(ms, to, what) ==
  /\ maps' = ms /\ ctx' = to /\ answer' = what
  /\ UNCHANGED <<recursion, depth>>

route_map(name, type, pref) ==
  LET Get(index) == route_map_index_get(index, type, pref)
  IN IF pref \in 1..MaxPref
     THEN Leave(OnMap(route_map_get(maps, name), name, Get),
                <<[name |-> name, pref |-> pref]>>, "success")
     ELSE Leave(maps, ctx, "warning")

no_route_map_all(name) ==
  IF route_map_lookup_by_name(maps, name) = {} THEN Leave(maps, <<>>, "warning")
  ELSE Leave(route_map_delete(maps, name), <<>>, "success")

no_route_map_stays(name, type, pref) ==
  LET found == route_map_lookup_by_name(maps, name)
      Del(index) == route_map_index_delete(index, pref)
  IN IF found = {} \/ \E m \in found : Len(m.index) < 2 THEN Leave(maps, ctx, "warning")
     ELSE Leave(OnMap(maps, name, Del), ctx, "success")

\* the map goes with its last clause
no_route_map(name, type, pref) ==
  LET found == route_map_lookup_by_name(maps, name)
      Del(index) == route_map_index_delete(index, pref)
  IN IF found = {} \/ pref \notin 1..MaxPref THEN Leave(maps, <<>>, "warning")
     ELSE LET index == MapOf(maps, name).index
          IN IF route_map_index_lookup(index, {type}, pref) = {} THEN Leave(maps, <<>>, "warning")
             ELSE IF Del(index) = <<>> THEN Leave(route_map_delete(maps, name), <<>>, "success")
             ELSE Leave(OnMap(maps, name, Del), <<>>, "success")

\* exit or end
leave_clause == ctx # <<>> /\ Leave(maps, <<>>, "success")

\* a command of the clause the vty is in
InClause(f(_), what) == ctx # <<>> /\ Leave(OnCurrent(f), ctx, what)

match(cmd, arg) ==
  InClause(LAMBDA c : route_map_add_match(c, cmd, arg), AddResult(cmd, arg))
set(cmd, arg) ==
  InClause(LAMBDA c : route_map_add_set(c, cmd, arg), AddResult(cmd, arg))
no_match(cmd, arg) ==
  InClause(LAMBDA c : route_map_delete_match(c, cmd, arg), "success")
no_set(cmd, arg) ==
  InClause(LAMBDA c : route_map_delete_set(c, cmd, arg), "success")

rmap_onmatch_next == InClause(LAMBDA c : [c EXCEPT !.exit = "next"], "success")
no_rmap_onmatch_next == InClause(LAMBDA c : [c EXCEPT !.exit = "exit"], "success")

\* without a number: the next preference; a jump backwards is refused
rmap_goto_anywhere(num) ==
  /\ ctx # <<>>
  /\ LET d == IF num = <<>> THEN Current.pref + 1 ELSE num[1]
     IN InClause(LAMBDA c : [c EXCEPT !.exit = "goto", !.nextpref = d], "success")

rmap_onmatch_goto(num) ==
  /\ ctx # <<>>
  /\ LET d == IF num = <<>> THEN Current.pref + 1 ELSE num[1]
     IN IF d \notin 1..(MaxPref + 1) \/ d <= Current.pref
        THEN Leave(maps, ctx, "warning")
        ELSE InClause(LAMBDA c : [c EXCEPT !.exit = "goto", !.nextpref = d], "success")
no_rmap_onmatch_goto == InClause(LAMBDA c : [c EXCEPT !.exit = "exit"], "success")

rmap_call(name) == InClause(LAMBDA c : [c EXCEPT !.nextrm = {name}], "success")
no_rmap_call == InClause(LAMBDA c : [c EXCEPT !.nextrm = {}], "success")
rmap_description == InClause(LAMBDA c : [c EXCEPT !.desc = {"text"}], "success")
no_rmap_description == InClause(LAMBDA c : [c EXCEPT !.desc = {}], "success")

\* a daemon applies a map to an object
Apply(name, v) ==
  LET r == route_map_apply(maps, name, v, recursion, 0)
  IN /\ recursion > -MaxDrift
     /\ recursion' = r.rec /\ depth' = r.deep /\ answer' = r.ret
     /\ UNCHANGED <<maps, ctx>>

-----------------------------------------------------------------------------
AllClauses == FoldLeft(LAMBDA s, m : s \o m.index, <<>>, maps)
Parts ==
  FoldLeft(LAMBDA n, c : n + Len(c.match) + Len(c.set) + Cardinality(c.nextrm)
                           + Cardinality(c.desc) + (IF c.exit = "exit" THEN 0 ELSE 1),
           0, AllClauses)
Room == Parts < MaxParts

Next ==
  \/ \E name \in MapNames, type \in {"permit", "deny"}, pref \in Prefs :
       \/ Len(AllClauses) < MaxClauses /\ route_map(name, type, pref)
       \/ no_route_map(name, type, pref)
  \/ \E name \in MapNames : no_route_map_all(name)
  \/ \E cmd \in Cmds \cup {"unknown"}, arg \in Values \cup BadArgs :
       Room /\ (match(cmd, arg) \/ set(cmd, arg))
  \/ \E cmd \in Cmds, arg \in {<<>>} \cup {<<v>> : v \in Values} :
       no_match(cmd, arg) \/ no_set(cmd, arg)
  \/ Room /\ (rmap_onmatch_next \/ rmap_description)
  \/ \E num \in {<<>>} \cup {<<p>> : p \in Prefs} : Room /\ rmap_onmatch_goto(num)
  \/ \E name \in MapNames : Room /\ rmap_call(name)
  \/ no_rmap_onmatch_next \/ no_rmap_onmatch_goto \/ no_rmap_call \/ no_rmap_description
  \/ leave_clause
  \/ \E name \in MapNames, v \in Values : Apply(name, v)

Spec == Init /\ [][Next]_vars

-----------------------------------------------------------------------------
(* What the configuration and "show route-map" print of a clause *)

route_map_config_write(c) ==
  [type |-> c.type, pref |-> c.pref, desc |-> c.desc, match |-> c.match, set |-> c.set,
   call |-> c.nextrm, goto |-> IF c.exit = "goto" THEN <<c.nextpref>> ELSE <<>>,
   next |-> c.exit = "next"]

show_goto_as_exit(c) ==
  [type |-> c.type, pref |-> c.pref, desc |-> c.desc, match |-> c.match, set |-> c.set,
   call |-> c.nextrm,
   action |-> IF c.exit = "next" THEN <<"continue">> ELSE <<"exit">>]

vty_show_route_map_entry(c) ==
  [type |-> c.type, pref |-> c.pref, desc |-> c.desc, match |-> c.match, set |-> c.set,
   call |-> c.nextrm,
   action |-> CASE c.exit = "goto" -> <<"goto", c.nextpref>>
                [] c.exit = "next" -> <<"continue">>
                [] OTHER -> <<"exit">>]

\* "show route-map" of one map or of all, in the order of the list
vty_show_route_map(name) ==
  LET shown == SelectSeq(maps, LAMBDA m : name = <<>> \/ m.name = name[1])
  IN [i \in DOMAIN shown |->
        [j \in DOMAIN shown[i].index |-> vty_show_route_map_entry(shown[i].index[j])]]

\* the clause typing the written lines makes: a jump past MaxPref is refused
Typed(w) ==
  [route_map_index_new(w.type, w.pref) EXCEPT
     !.desc = w.desc, !.nextrm = w.call,
     !.match = FoldLeft(LAMBDA s, r : RuleAdded(s, r.cmd, r.arg), <<>>, w.match),
     !.set = FoldLeft(LAMBDA s, r : RuleAdded(s, r.cmd, r.arg), <<>>, w.set),
     !.exit = IF w.goto # <<>> /\ w.goto[1] <= MaxPref THEN "goto"
              ELSE IF w.next THEN "next" ELSE "exit",
     !.nextpref = IF w.goto # <<>> /\ w.goto[1] <= MaxPref THEN w.goto[1] ELSE 0]

Restored ==
  FoldLeft(LAMBDA ms, m :
             FoldLeft(LAMBDA ns, c :
                        OnMap(route_map_get(ns, m.name), m.name,
                              LAMBDA index :
                                LET got == route_map_index_get(index, c.type, c.pref)
                                IN [i \in DOMAIN got |->
                                      IF got[i].pref = c.pref THEN Typed(route_map_config_write(c))
                                      ELSE got[i]]),
                      ms, m.index),
           <<>>, maps)

-----------------------------------------------------------------------------
(* Properties *)

RulesOK(rules) == \A r \in ToSet(rules) : r.cmd \in Cmds /\ r.arg \in Values

\* Type correctness of the maps and the vty.
TypeOK ==
  /\ \A m \in ToSet(maps) : m.name \in MapNames
  /\ \A c \in ToSet(AllClauses) :
       /\ c.type \in {"permit", "deny"} /\ c.pref \in 1..MaxPref
       /\ RulesOK(c.match) /\ RulesOK(c.set) /\ c.nextrm \subseteq MapNames
       /\ c.exit \in {"exit", "next", "goto"} /\ c.nextpref \in 0..(MaxPref + 1)
  /\ ctx = <<>> \/ (ctx[1].name \in MapNames /\ ctx[1].pref \in 1..MaxPref)
  /\ recursion \in Int /\ depth \in Nat

\* No map is left without clauses, a name is listed once, the preferences of a map
\* increase strictly, and a clause has at most one rule of a command: what the
\* walk of route_map_apply and the lookups by preference rely on.
MapsOrdered ==
  /\ \A i, j \in DOMAIN maps : maps[i].name = maps[j].name => i = j
  /\ \A m \in ToSet(maps) :
       /\ m.index # <<>>
       /\ \A i, j \in DOMAIN m.index : i < j => m.index[i].pref < m.index[j].pref
  /\ \A c \in ToSet(AllClauses) :
       \A rules \in {c.match, c.set} : \A i, j \in DOMAIN rules :
         rules[i].cmd = rules[j].cmd => i = j

\* A clause never jumps backwards, so that a walk without calls ends.
GotoForward == \A c \in ToSet(AllClauses) : c.exit = "goto" => c.nextpref > c.pref

\* The clause the vty is configuring is in its map: removing it, alone, with its
\* map or by retyping it with the other type, leaves no command that uses it.
ContextLive ==
  ctx # <<>> => \E m \in ToSet(maps) :
                  m.name = ctx[1].name /\ \E c \in ToSet(m.index) : c.pref = ctx[1].pref

RECURSIVE Matrix(_, _, _, _)

\* The matrix of the comment above route_map_apply (routemap.c:713), read off the clauses
\* that are left.  Of its two accounts of goto this is the second, "the nth clause, or the
\* first clause greater than this" (routemap.c:749), which the code follows; the first,
\* "the first clause where pref > nextpref" (731), would pass over the nth clause.
Matrix(ms, rest, v, calls) ==
  IF rest = <<>> \/ calls < 0 THEN [ret |-> "deny", v |-> v]
  ELSE LET c == Head(rest)
           w == IF c.set = <<>> THEN v ELSE Last(c.set).arg
           target == {m \in ToSet(ms) : m.name \in c.nextrm}
           called == IF target = {} THEN [ret |-> "okay", v |-> w]
                     ELSE Matrix(ms, (CHOOSE m \in target : TRUE).index, w, calls - 1)
           after == SelectSeq(Tail(rest), LAMBDA d : c.exit = "goto" => d.pref >= c.nextpref)
       IN IF \E r \in ToSet(c.match) : r.arg # v THEN Matrix(ms, Tail(rest), v, calls)
          ELSE IF c.type = "deny" THEN [ret |-> "deny", v |-> v]
          ELSE IF called.ret = "deny" \/ c.exit = "exit" \/ (c.exit = "goto" /\ after = <<>>)
               THEN called
          ELSE Matrix(ms, after, called.v, calls)

\* While the counter is zero, route_map_apply accepts and rewrites an object as the
\* matrix says: clauses in order of preference, sets before the call, the exit
\* policy after it, a refusal once the calls are deeper than the limit.
ApplyFollowsMatrix ==
  recursion = 0 =>
    \A m \in ToSet(maps), v \in Values :
      LET r == route_map_apply(maps, m.name, v, 0, 0)
          want == Matrix(maps, m.index, v, Limit)
      IN r.ret = want.ret /\ (r.ret = "okay" => r.v = want.v)

\* No application leaves the counter above zero: one application never brings the
\* next one nearer to the limit.  (It may leave the counter below zero, after the limit
\* was reached: the callers lower it once more each.)
CounterNeverRaised == recursion <= 0

\* "Depth limit in RMAP recursion using RMAP_CALL": the calls of an application
\* are never deeper than the limit (lib/routemap.h).
DepthLimited == depth <= Limit + 1

\* Typing the written configuration into an empty router gives the same maps,
\* clauses and descriptions, and they treat every object the same, also where a jump
\* past the last preference, which "continue" can set, is refused when typed.
ConfigRestores ==
  LET new == Restored
  IN /\ Len(new) = Len(maps)
     /\ \A i \in DOMAIN maps :
          /\ new[i].name = maps[i].name /\ Len(new[i].index) = Len(maps[i].index)
          /\ \A j \in DOMAIN maps[i].index : new[i].index[j].desc = maps[i].index[j].desc
          /\ \A v \in Values :
               LET old == route_map_apply(maps, maps[i].name, v, 0, 0)
                   now == route_map_apply(new, maps[i].name, v, 0, 0)
               IN old.ret = now.ret /\ old.v = now.v

\* "show route-map" and the configuration agree on every clause, the exit policy
\* included, and both list maps and clauses in the order they are applied.
ShowAgrees ==
  LET shown == vty_show_route_map(<<>>)
  IN \A i \in DOMAIN maps : \A j \in DOMAIN maps[i].index :
       LET w == route_map_config_write(maps[i].index[j])
           s == shown[i][j]
       IN /\ vty_show_route_map(<<maps[i].name>>)[1][j] = s
          /\ <<s.type, s.pref, s.desc, s.match, s.set, s.call>> =
             <<w.type, w.pref, w.desc, w.match, w.set, w.call>>
          /\ (s.action[1] = "goto") = (w.goto # <<>>)
          /\ (s.action[1] = "continue") = w.next

=============================================================================
