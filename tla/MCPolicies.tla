------------------------------ MODULE MCPolicies ------------------------------
(***************************************************************************)
(* Routing policy, each part explored by itself: the routing library's      *)
(* modules (MCLibPolicy), and the commands of vtysh that keep the same      *)
(* things in the database, BGP with its neighbors (MCBgp) and prefix lists, *)
(* filters and route maps (RoutePolicy).                                    *)
(***************************************************************************)
EXTENDS MCLibPolicy, RoutePolicy

CONSTANTS
    MaxListEntries, \* entries of the prefix lists
    MaxMapClauses   \* clauses of the route map entries, and the entries

MCPrefixLens == [AFI_IP |-> {24}, AFI_IP6 |-> {24}]

ASSUME PolicyRunConstants ==
    BgpConstants /\ NeighborConstants /\ PolicyConstants

libVars == <<master, maps, recursion, depth, answer, keyVars>>
all == <<part, bgpVars, libVars, rmp_context>>

(* The parts of the database's commands start as their modules say, the others with
   empty tables. *)
NoLib == master = <<>> /\ maps = <<>> /\ recursion = 0 /\ depth = 0 /\ answer = "none" /\ NoKeys

AllInit ==
    \/ MCInit /\ vtysh = "none" /\ db = NoTables /\ rmp_context = <<>>
    \/ part = "bgp" /\ RouterInit /\ NoLib /\ rmp_context = <<>>
    \/ part = "policy" /\ PolicyInit /\ ctx = <<>> /\ NoLib

AllNext ==
    \/ MCNext /\ UNCHANGED <<db, vtysh, rmp_context>>
    \/ part = "bgp" /\ Next /\ UNCHANGED <<part, libVars, rmp_context>>
    \/ part = "policy" /\ PolicyNext /\ UNCHANGED <<part, ctx, libVars>>

AllSpec == AllInit /\ [][AllNext]_all

-------------------------------------------------------------------------------
(* The bound on policy: one kind of object at a time, since none refers to another. *)

Kinds ==
    {k \in {"prefix", "aspath", "community", "map"} :
       CASE k = "prefix" -> DOMAIN db.prefix_lists # {}
         [] k = "aspath" -> db.aspath_filters # {}
         [] k = "community" -> db.community_filters # {}
         [] k = "map" -> DOMAIN db.route_maps # {} \/ rmp_context # <<>>}

Clauses ==
    UNION {{<<n, p, "match", k>> : k \in DOMAIN db.route_maps[n][p].match}
             \cup {<<n, p, "set", k>> : k \in DOMAIN db.route_maps[n][p].set}
             \cup {<<n, p, "entry", db.route_maps[n][p].description>>} :
             <<n, p>> \in {np \in ListNames \X Seqs :
                             np[1] \in DOMAIN db.route_maps /\ np[2] \in DOMAIN db.route_maps[np[1]]}}

ListEntries ==
    {<<n, s>> \in ListNames \X Seqs :
       n \in DOMAIN db.prefix_lists /\ s \in DOMAIN db.prefix_lists[n].entries}

PolicyBounded ==
    /\ vtysh # "dead"
    /\ Cardinality(Kinds) <= 1
    /\ Cardinality(Clauses) <= MaxMapClauses
    /\ Cardinality(ListEntries) <= MaxListEntries

Few == (part = "bgp" => Bounded) /\ (part = "policy" => PolicyBounded)

(* What a command returned does not influence the next one. *)
AllView == <<LibView, db, vtysh, rmp_context>>

(* BgpConsistent is in BgpNeighbor, PolicyConsistent and PolicyRestores in
   RoutePolicy, the properties of the library in MCLibPolicy. *)
===============================================================================
