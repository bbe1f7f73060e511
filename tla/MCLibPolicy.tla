----------------------------- MODULE MCLibPolicy -----------------------------
(***************************************************************************)
(* Instances of the routing library's policy modules, each explored by      *)
(* itself: prefix lists (lib/plist.c), route maps (lib/routemap.c) and key  *)
(* chains (lib/keychain.c).  The module of BGP is extended for the runs of  *)
(* MCPolicies; ret and ctx are declared there.                              *)
(***************************************************************************)
EXTENDS MCBgp, Integers, Sequences

CONSTANTS ListSeqs, MaxBits, IntMax, MaxEntries, MaxApplied, MaxExtras,
    MapNames, Prefs, MaxPref, Values, Limit, MaxClauses, MaxParts, MaxDrift,
    Indexes, Hours, MaxDay, Years, Summer, Durations

VARIABLES part, master, maps, recursion, depth, answer,
    keychain_list, node, index, index_sub, fault

plistVars == <<master, ret>>
rmapVars == <<maps, ctx, recursion, depth, answer>>
keyVars == <<keychain_list, node, index, index_sub, fault>>
vars == <<part, plistVars, rmapVars, keyVars>>

Name(d, n, t) == [digits |-> d, order |-> n, text |-> t]
Net(a, n) == [addr |-> a, len |-> n]

Lists == {Name(TRUE, 9, "9"), Name(TRUE, 10, "10"), Name(FALSE, 1, "a")}
Nets == {Net(<<1, 0, 0>>, 1), Net(<<1, 0, 0>>, 3)}
Ranges == {<<<<>>, <<>>>>, <<<<2>>, <<>>>>, <<<<>>, <<2>>>>, <<<<2>>, <<3>>>>, <<<<3>>, <<2>>>>}

(* One list with every policy, and several lists with few. *)
Pl == INSTANCE PrefixList WITH AFIs <- {"ip"}, Names <- {Name(TRUE, 9, "9")},
                               Seqs <- ListSeqs
Pl6 == INSTANCE PrefixList WITH AFIs <- {"ip6"}, Names <- Lists, Ranges <- {<<<<>>, <<2>>>>},
                                Seqs <- {5}, Nets <- {Net(<<1, 0, 0>>, 1)}, MaxApplied <- 0

(* One map of three clauses, and two maps that may call each other. *)
Rm == INSTANCE RouteMap WITH Cmds <- {"metric"}, BadArgs <- {"bad"}, MapNames <- {"A"}
Rm2 == INSTANCE RouteMap WITH Cmds <- {"metric"}, BadArgs <- {"bad"}, Prefs <- {1, 2},
                              MaxPref <- 2, MaxClauses <- 2

MonthDays == <<2, 3>>
Date(t, d, m, y) == [time |-> t, day |-> d, month |-> m, year |-> y]
Dates == {Date(0, 1, 2, 1), Date(1, 3, 1, 1), Date(1, 3, 2, 2), Date(1, 1, 0, 1),
          Date(-1, 1, 1, 1), Date(0, 1, -1, 1)}
Text(h, t) == [head |-> h, tail |-> t]

(* One chain with strings and lifetimes, and two chains of bare keys. *)
Kc == INSTANCE KeyChain WITH ChainNames <- {"A"}, MaxLives <- 1,
        Strings <- {Text("s", "x"), Text("s", "y"), Text("t", "x")}
Kc2 == INSTANCE KeyChain WITH ChainNames <- {"A", "B"}, MaxLives <- 0, Strings <- {Text("s", "x")}

NoPlist == master = <<>> /\ ret = "none"
NoRmap == maps = <<>> /\ ctx = <<>> /\ recursion = 0 /\ depth = 0 /\ answer = "none"
NoKeys == keychain_list = <<>> /\ node = "none" /\ index = <<>> /\ index_sub = <<>> /\ fault = FALSE

MCInit ==
    \/ part = "plist" /\ Pl!Init /\ NoRmap /\ NoKeys
    \/ part = "plist6" /\ Pl6!Init /\ NoRmap /\ NoKeys
    \/ part = "rmap" /\ Rm!Init /\ NoPlist /\ NoKeys
    \/ part = "rmap2" /\ Rm2!Init /\ NoPlist /\ NoKeys
    \/ part = "key" /\ Kc!Init /\ NoPlist /\ NoRmap
    \/ part = "key2" /\ Kc2!Init /\ NoPlist /\ NoRmap

MCNext ==
    /\ UNCHANGED part
    /\ \/ part = "plist" /\ Pl!Next /\ UNCHANGED <<rmapVars, keyVars>>
       \/ part = "plist6" /\ Pl6!Next /\ UNCHANGED <<rmapVars, keyVars>>
       \/ part = "rmap" /\ Rm!Next /\ UNCHANGED <<plistVars, keyVars>>
       \/ part = "rmap2" /\ Rm2!Next /\ UNCHANGED <<plistVars, keyVars>>
       \/ part = "key" /\ Kc!Next /\ UNCHANGED <<plistVars, rmapVars>>
       \/ part = "key2" /\ Kc2!Next /\ UNCHANGED <<plistVars, rmapVars>>

MCSpec == MCInit /\ [][MCNext]_vars

(* The result of the last command says nothing of the next, nor does the target *)
(* of a jump that a clause no longer makes.                                      *)
LiveMaps ==
    [i \in DOMAIN maps |->
       [maps[i] EXCEPT !.index =
          [j \in DOMAIN @ |-> IF @[j].exit = "goto" THEN @[j] ELSE [@[j] EXCEPT !.nextpref = 0]]]]
LibView == <<part, master, LiveMaps, ctx, recursion, keyVars>>

-------------------------------------------------------------------------------

(* The lists of the library filter as their numbers say, whatever order entries were
   typed, replaced and removed in; the count an empty list is known by is right, and an
   empty list is there only for its description; recent never dangles; a filter sent to a
   peer decides there as it does here; counters and displays agree (ApplyAgrees,
   CountsEntries, EmptyOnlyDescribed, RecentListed, OrfAgrees and CountersAgree of
   PrefixList). *)
ListsFilter ==
    /\ part = "plist" => /\ Pl!TypeOK /\ Pl!ApplyAgrees /\ Pl!CountsEntries
                         /\ Pl!EmptyOnlyDescribed /\ Pl!RecentListed /\ Pl!OrfAgrees
                         /\ Pl!CountersAgree
    /\ part = "plist6" => /\ Pl6!TypeOK /\ Pl6!ApplyAgrees /\ Pl6!CountsEntries
                          /\ Pl6!EmptyOnlyDescribed /\ Pl6!RecentListed /\ Pl6!OrfAgrees
                          /\ Pl6!CountersAgree

(* The clauses of a map stand in order of preference and never jump backwards, the clause
   a vty configures is in its map, route_map_apply accepts and rewrites an object as the
   matrix in routemap.c says, and no application leaves the counter of the recursion
   raised for the next (MapsOrdered, GotoForward, ContextLive, ApplyFollowsMatrix and
   CounterNeverRaised of RouteMap). *)
MapsApply ==
    /\ part = "rmap" => /\ Rm!TypeOK /\ Rm!MapsOrdered /\ Rm!GotoForward /\ Rm!ContextLive
                        /\ Rm!ApplyFollowsMatrix /\ Rm!CounterNeverRaised
    /\ part = "rmap2" => /\ Rm2!TypeOK /\ Rm2!MapsOrdered /\ Rm2!GotoForward /\ Rm2!ContextLive
                         /\ Rm2!ApplyFollowsMatrix /\ Rm2!CounterNeverRaised

(* The lookups of a key chain pick the valid key with the least index (by string: while
   every valid key has one), and a lifetime that is set ends after it starts, whichever of
   its commands set it last (LookupsTakeLeast and LifetimesOrdered of KeyChain). *)
KeysValid ==
    /\ part = "key" => /\ Kc!TypeOK /\ Kc!LookupsTakeLeast /\ Kc!LifetimesOrdered
    /\ part = "key2" => /\ Kc2!TypeOK /\ Kc2!LookupsTakeLeast /\ Kc2!LifetimesOrdered

(* Typing what the library's writers print into an empty router gives lists that filter,
   maps that treat objects and lifetimes that run as before, "no" before a written entry
   line removes that entry, and "show route-map" agrees with the writer (ConfigRestores
   and WrittenLineUndone of PrefixList, ConfigRestores and ShowAgrees of RouteMap,
   StandardTimeRestores of KeyChain). *)
LibraryRestores ==
    /\ part = "plist" => Pl!ConfigRestores /\ Pl!WrittenLineUndone
    /\ part = "plist6" => Pl6!ConfigRestores /\ Pl6!WrittenLineUndone
    /\ part = "rmap" => Rm!ConfigRestores /\ Rm!ShowAgrees
    /\ part = "rmap2" => Rm2!ConfigRestores /\ Rm2!ShowAgrees
    /\ part = "key" => Kc!StandardTimeRestores
    /\ part = "key2" => Kc2!StandardTimeRestores

(* "Depth limit in RMAP recursion using RMAP_CALL": the calls of an application are never
   deeper than the limit (lib/routemap.h).  Not a property of the code. *)
DepthLimited ==
    /\ part = "rmap" => Rm!DepthLimited
    /\ part = "rmap2" => Rm2!DepthLimited
===============================================================================
