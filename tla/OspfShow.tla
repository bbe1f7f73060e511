------------------------------- MODULE OspfShow --------------------------------
(***************************************************************************)
(* What the OSPF show commands display (vtysh/ospf_vty.c).  The OSPF daemon *)
(* fills the tables; a command is a function of them.  A display is the     *)
(* sequence of its groups, each with its heading and the rows under it.     *)
(***************************************************************************)
EXTENDS OspfText, FiniteSets, Sequences, SequencesExt

CONSTANTS
    ShownAreas,     \* the areas of the router, in the order of its map
    ShownIds,       \* link state ids, advertising routers, neighbors
    Interfaces,     \* names of OSPF interfaces
    RoutePrefixes,  \* prefixes of routes, as their first byte and the rest
    MaxRows         \* rows in all the tables together

VARIABLE tables

(* The types in the order of an area's lists, then the two of the router. *)
AreaTypes == <<"router", "network", "summary", "asbr-summary", "nssa-external",
               "opaque-link", "opaque-area">>
AsTypes == <<"external", "opaque-as">>

(* The labels of "show ip ospf database". *)
show_database_desc ==
    <<"router", "network", "summary", "asbr-summary", "external",
      "nssa-external", "opaque-link", "opaque-area", "opaque-as">>

(* The text of an address is told by its bytes; an address printed to be
   compared is cut, the one it is compared with is not. *)
Text(ip) == OSPF_IP_STRING_CONVERT(ip)

-------------------------------------------------------------------------------
(* The link state database. *)

(* The list of a type: the area's, or for the two AS types the router's. *)
Listed(a, type) ==
    {l \in tables.lsas : l.type = type /\ (type \in Range(AsTypes) \/ l.area = a)}

(* The detail displays: per area a heading and the rows that match. *)
ospf_lsa_database_detail_show(type, link_id) ==
    [i \in DOMAIN tables.areas |->
        [area |-> Text(tables.areas[i]),
         rows |-> {l \in Listed(tables.areas[i], type) :
                      link_id = <<>> \/ <<Text(l.id)>> = link_id}]]

(* Mutant: the link state id is compared, not the advertising router. *)
ospf_print_self_originate_link_states_ById(type) ==
    [i \in DOMAIN tables.areas |->
        [area |-> Text(tables.areas[i]),
         rows |-> {l \in Listed(tables.areas[i], type) : <<Text(l.id)>> = tables.self}]]

ospf_print_self_originate_link_states(type) ==
    [i \in DOMAIN tables.areas |->
        [area |-> Text(tables.areas[i]),
         rows |-> {l \in Listed(tables.areas[i], type) : <<Text(l.adv)>> = tables.self}]]

ospf_print_self_originate_match_link_id(type, link_id) ==
    [i \in DOMAIN tables.areas |->
        [area |-> Text(tables.areas[i]),
         rows |-> {l \in Listed(tables.areas[i], type) :
                      <<Text(l.adv)>> = tables.self /\ Text(l.id) = link_id}]]

ospf_adv_router_display(type, adv_router) ==
    [i \in DOMAIN tables.areas |->
        [area |-> Text(tables.areas[i]),
         rows |-> {l \in Listed(tables.areas[i], type) : Text(l.adv) = adv_router}]]

(* The forms with a filter look for the word "as-external", which is not a
   word of the command: for "external" they display nothing. *)
Recognised(word) == word # "external"

cli_ip_ospf_database(word) == ospf_lsa_database_detail_show(word, <<>>)

cli_ip_ospf_database_id(word, id) ==
    IF Recognised(word) THEN ospf_lsa_database_detail_show(word, <<id>>) ELSE <<>>

cli_ip_ospf_database_self_originate(word) ==
    IF Recognised(word) THEN ospf_print_self_originate_link_states(word) ELSE <<>>

cli_ip_ospf_database_id_self_originate(word, id) ==
    IF Recognised(word) THEN ospf_print_self_originate_match_link_id(word, id) ELSE <<>>

show_ip_ospf_database(word, adv) ==
    IF Recognised(word) THEN ospf_adv_router_display(word, adv) ELSE <<>>

(* "max-age": every row of the table that is an hour old. *)
ospf_ip_maxage_detail_show == {l \in tables.lsas : l.old}

(* The groups of an area that are not empty, and those of the router. *)
Groups(types, a) ==
    [i \in DOMAIN SelectSeq(types, LAMBDA t : Listed(a, t) # {}) |->
        LET t == SelectSeq(types, LAMBDA u : Listed(a, u) # {})[i]
        IN  [area |-> IF types = AreaTypes THEN <<Text(a)>> ELSE <<>>,
             type |-> t, rows |-> Listed(a, t)]]

(* A group takes the next of the nine labels of show_database_desc, whatever
   its type; the count goes on from area to area. *)
Labelled(groups) == [i \in DOMAIN groups |-> [label |-> i - 1, group |-> groups[i]]]

(* Mutant: the groups of the router are shown with every area. *)
ospf_area_lsa_show_PerArea ==
    Labelled(FlattenSeq([i \in DOMAIN tables.areas |->
                            Groups(AreaTypes, tables.areas[i])
                            \o Groups(AsTypes, tables.areas[i])]))

ospf_area_lsa_show ==
    Labelled(FlattenSeq([i \in DOMAIN tables.areas |-> Groups(AreaTypes, tables.areas[i])])
             \o Groups(AsTypes, <<0, 0, 0, 0>>))

(* The first area and the router: the return is inside the loop. *)
ospf_area_lsa_show_self_originate ==
    IF tables.areas = <<>> THEN <<>>
    ELSE LET groups == Labelled(Groups(AreaTypes, tables.areas[1])
                                \o Groups(AsTypes, tables.areas[1]))
         IN  [i \in DOMAIN groups |->
                 [groups[i] EXCEPT !.group.rows =
                     {l \in @ : <<Text(l.adv)>> = tables.self}]]

-------------------------------------------------------------------------------
(* Neighbors.  A router id of 32 bits is compared as an int64_t in the table
   of neighbors and as an int in the detail, where an id whose last byte (the
   highest on this machine) has its top bit set is negative. *)

Negative(ip) == ip[4] >= 128

(* The row of this router itself is left out, and one that is down unless
   "all" is asked for. *)
ospf_neighbor_one_row_print(n, all) ==
    /\ tables.self = <<>> \/ n.rid # tables.self
    /\ all \/ ~n.down

(* The detail makes the same two tests by itself. *)
ospf_neighbor_one_row_detail_print(n, all) ==
    /\ tables.self = <<>> \/ n.rid # tables.self
    /\ all \/ ~n.down

(* What the table of neighbors may end in: its rows, or the end of the process
   where a column that is not set is read.  By id, the id of every neighbor is
   read; for a row that is printed, its address and, to tell who the designated
   router is, the ids of the neighbors on its interface, unless a row of this
   router comes first that says so. *)
Crash == [died |-> TRUE, rows |-> {}]
Printed(rows) == [died |-> FALSE, rows |-> rows]

ospf_nbr_dr_state_print(n) ==
    LET unset == \E m \in tables.nbrs : m.ifname = n.ifname /\ m.rid = <<>>
        early == \E m \in tables.nbrs : m.ifname = n.ifname /\ m.rid = tables.self
    IN  IF ~n.addr \/ (unset /\ ~early) THEN {Crash}
        ELSE IF unset THEN {Crash, Printed({n})} ELSE {Printed({n})}

ospf_ip_router_neighbor_show(ifname, nbr_id, all) ==
    LET asked == {n \in tables.nbrs : CASE ifname # <<>> -> n.ifname = ifname[1]
                                         [] nbr_id # <<>> -> n.rid = nbr_id
                                         [] OTHER -> TRUE}
        rows  == {n \in asked : ospf_neighbor_one_row_print(n, all)}
        byid  == ifname = <<>> /\ nbr_id # <<>>
        dies  == \/ byid /\ \E n \in tables.nbrs : n.rid = <<>>
                 \/ \E n \in rows : ospf_nbr_dr_state_print(n) = {Crash}
        may   == \E n \in rows : Crash \in ospf_nbr_dr_state_print(n)
    IN  IF dies THEN {Crash} ELSE {Printed(rows)} \cup (IF may THEN {Crash} ELSE {})

(* Mutant: the detail by id forgets the id. *)
ospf_ip_router_neighbor_detail_show_Any(ifname, nbr_id, all) ==
    {n \in tables.nbrs :
        /\ ifname # <<>> => n.ifname = ifname[1]
        /\ ospf_neighbor_one_row_detail_print(n, all)}

ospf_ip_router_neighbor_detail_show(ifname, nbr_id, all) ==
    {n \in tables.nbrs :
        /\ CASE ifname # <<>> -> n.ifname = ifname[1]
             [] nbr_id # <<>> -> n.rid = nbr_id /\ ~Negative(nbr_id[1])
             [] OTHER -> TRUE
        /\ ospf_neighbor_one_row_detail_print(n, all)}

-------------------------------------------------------------------------------
(* Routes.  Each group is gathered in a hash table that is emptied for the
   next one, then printed in the order of the prefixes' first numbers. *)

(* Any order the sort may leave: prefixes that begin alike are equal to it. *)
sort_ospf_route(routes) ==
    CHOOSE s \in SetToSeqs(routes) :
        \A i, j \in DOMAIN s : i < j => s[i].prefix[1] <= s[j].prefix[1]

RoutesOf(kind, a) == {r \in tables.routes : r.kind = kind /\ r.area = a}

RouteGroup(label, routes) == [label |-> label, rows |-> sort_ospf_route(routes)]

(* Mutant: the hash table is not emptied between the groups of an area. *)
ospf_route_network_show_Kept ==
    FlattenSeq([i \in DOMAIN tables.areas |->
        LET inter == RoutesOf("inter", tables.areas[i])
        IN  << RouteGroup("N IA", inter),
               RouteGroup("N", inter \cup RoutesOf("intra", tables.areas[i])) >>])

ospf_route_network_show ==
    FlattenSeq([i \in DOMAIN tables.areas |->
        << RouteGroup("N IA", RoutesOf("inter", tables.areas[i])),
           RouteGroup("N", RoutesOf("intra", tables.areas[i])) >>])

ospf_route_router_show ==
    << RouteGroup("R", UNION {RoutesOf("router", tables.areas[i]) : i \in DOMAIN tables.areas}) >>

ospf_route_external_show ==
    << RouteGroup("N E", {r \in tables.routes : r.kind = "external"}) >>

ospf_ip_route_show ==
    IF tables.routes = {} THEN <<>>
    ELSE ospf_route_network_show \o ospf_route_router_show \o ospf_route_external_show

-------------------------------------------------------------------------------
(* The daemon: areas come in the order of the router's map; a row is added or
   removed. *)

Lsas ==
    {l \in [type : Range(AreaTypes), area : Range(tables.areas),
            id : ShownIds, adv : ShownIds, old : BOOLEAN]
           \cup [type : Range(AsTypes), area : {<<0, 0, 0, 0>>},
                 id : ShownIds, adv : ShownIds, old : BOOLEAN] : l.id = l.adv \/ ~l.old}

(* The daemon may not have set the id or the address yet. *)
Neighbors ==
    [ifname : Interfaces, rid : {<<>>} \cup {<<id>> : id \in ShownIds}, addr : BOOLEAN, down : BOOLEAN]

Routes ==
    [kind : {"inter", "intra", "router", "external"}, area : Range(tables.areas),
     prefix : RoutePrefixes]

Rows == Cardinality(tables.lsas) + Cardinality(tables.nbrs) + Cardinality(tables.routes)

AddLsa ==
    \E l \in Lsas : Rows < MaxRows /\ tables' = [tables EXCEPT !.lsas = @ \cup {l}]

FlushLsa == \E l \in tables.lsas : tables' = [tables EXCEPT !.lsas = @ \ {l}]

AddNeighbor ==
    \E n \in Neighbors :
        Rows < MaxRows /\ tables' = [tables EXCEPT !.nbrs = @ \cup {n}]

AddRoute ==
    \E r \in Routes : Rows < MaxRows /\ tables' = [tables EXCEPT !.routes = @ \cup {r}]

ShowInit ==
    \E k \in 0 .. Len(ShownAreas), self \in {<<>>} \cup {<<id>> : id \in ShownIds} :
        tables = [areas |-> SubSeq(ShownAreas, 1, k), self |-> self,
                  lsas |-> {}, nbrs |-> {}, routes |-> {}]

ShowNext == AddLsa \/ FlushLsa \/ AddNeighbor \/ AddRoute

ShowSpec == ShowInit /\ [][ShowNext]_tables

-------------------------------------------------------------------------------
(* Properties. *)

RowsOf(display) == UNION {display[i].rows : i \in DOMAIN display}

Words == Range(AreaTypes) \cup Range(AsTypes)

(***************************************************************************)
(* The filtered displays are what their filter leaves of the full detail:   *)
(* self-originate is adv-router of the own router id, and with a link id it *)
(* is their intersection; max-age leaves the old rows of the full display. *)
(* This needs ids whose text is not cut.                                    *)
(***************************************************************************)
FiltersAgree ==
    /\ ospf_ip_maxage_detail_show =
         {l \in UNION {ospf_area_lsa_show[i].group.rows : i \in DOMAIN ospf_area_lsa_show} : l.old}
    /\ \A w \in Words, id \in {i \in ShownIds : Text(i) = i} :
         LET full == RowsOf(cli_ip_ospf_database(w))
             mine == RowsOf(cli_ip_ospf_database_self_originate(w))
         IN  Recognised(w) =>
               /\ RowsOf(show_ip_ospf_database(w, id)) = {l \in full : Text(l.adv) = id}
               /\ tables.self = <<id>> => mine = RowsOf(show_ip_ospf_database(w, id))
               /\ RowsOf(cli_ip_ospf_database_id_self_originate(w, id))
                    = mine \cap RowsOf(cli_ip_ospf_database_id(w, id))

(***************************************************************************)
(* "show ip ospf database" lists every row of the database exactly once,    *)
(* and what it lists of a type is what the detail display of the type lists *)
(* in some area.                                                            *)
(***************************************************************************)
DatabaseComplete ==
    LET shown == ospf_area_lsa_show
    IN  /\ \A l \in tables.lsas :
             Cardinality({i \in DOMAIN shown : l \in shown[i].group.rows}) = 1
        /\ tables.areas # <<>> =>
             \A w \in Words :
                RowsOf(cli_ip_ospf_database(w)) =
                UNION {shown[i].group.rows : i \in {j \in DOMAIN shown : shown[j].group.type = w}}

(***************************************************************************)
(* The two neighbor displays select the same neighbors, by interface, by id *)
(* and in all, for the ids that an int holds as a positive number, whenever *)
(* the id and the address of every neighbor are set.  If they are not, the  *)
(* table ends the process or agrees as well.                                *)
(***************************************************************************)
NeighborViewsAgree ==
    LET known == \A n \in tables.nbrs : n.rid # <<>> /\ n.addr
        Agree(f, id, all) ==
            ospf_ip_router_neighbor_show(f, id, all)
              \subseteq {Printed(ospf_ip_router_neighbor_detail_show(f, id, all))} \cup (IF known THEN {} ELSE {Crash})
    IN  \A all \in BOOLEAN :
          /\ \A f \in {<<>>} \cup {<<i>> : i \in Interfaces} : Agree(f, <<>>, all)
          /\ \A id \in {i \in ShownIds : ~Negative(i)} : Agree(<<>>, <<id>>, all)

(***************************************************************************)
(* Not properties of the code.  A neighbor whose id is not set yet is        *)
(* displayed with OSPF_DEFAULT_STR (ospf_vty.c:3284): the table ends the     *)
(* process when it reads the id (3213, 3664).  A group of "show ip ospf      *)
(* database" has the label of its type: labels are taken in turn.            *)
(***************************************************************************)
UnsetIdDisplayed ==
    \A all \in BOOLEAN : Crash \notin ospf_ip_router_neighbor_show(<<>>, <<>>, all)

LabelsMatch ==
    \A i \in DOMAIN ospf_area_lsa_show :
        LET shown == ospf_area_lsa_show[i]
        IN  show_database_desc[shown.label + 1] = shown.group.type

(***************************************************************************)
(* "show ip ospf route" lists each route once, under the label of its kind: *)
(* the hash table of one group does not reach the next (ospf_vty.c:3964).   *)
(***************************************************************************)
RoutesOnce ==
    LET shown == ospf_ip_route_show
        label(r) == CASE r.kind = "inter" -> "N IA" [] r.kind = "intra" -> "N"
                      [] r.kind = "router" -> "R" [] r.kind = "external" -> "N E"
    IN  \A r \in tables.routes :
          LET at == {i \in DOMAIN shown : r \in Range(shown[i].rows)}
          IN  Cardinality(at) = 1 /\ \A i \in at : shown[i].label = label(r)

(***************************************************************************)
(* Not a property of the code: "show ip ospf database self-originate" lists *)
(* "Self-originated link states" of the first area only.                    *)
(***************************************************************************)
SelfOriginateComplete ==
    \A l \in tables.lsas :
        <<Text(l.adv)>> = tables.self =>
            \E i \in DOMAIN ospf_area_lsa_show_self_originate :
                l \in ospf_area_lsa_show_self_originate[i].group.rows
===============================================================================
