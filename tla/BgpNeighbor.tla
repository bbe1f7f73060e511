------------------------------ MODULE BgpNeighbor ------------------------------
(***************************************************************************)
(* The neighbor level of the BGP configuration commands                     *)
(* (vtysh/bgp_vty.c).  Peers and peer groups are rows of one table and sit  *)
(* in one map of the router row, bgp_neighbors, under the text the operator *)
(* typed: an address for a peer, a word for a group.  Looking a row up does *)
(* not ask which of the two it is.  A row nothing refers to is collected by *)
(* the server, so a row is modelled by its place in the map.                *)
(***************************************************************************)
EXTENDS BgpRouter

CONSTANTS
    Peers,          \* names that are IP addresses
    Groups,         \* names that are not
    GroupWords,     \* what is typed where "peer-group WORD" takes a word
    RemoteAs,       \* remote AS numbers
    FilterNames,    \* names typed for prefix lists and AS-path filters
    Filters,        \* those of them that exist
    Directions      \* in, out, import, export

(* What the constants must satisfy. *)
NeighborConstants ==
    /\ Peers \cap Groups = {} /\ Unset \notin Peers \cup Groups
    /\ GroupWords \subseteq Peers \cup Groups
    /\ RemoteAs \subseteq Nat \ {0}
    /\ Filters \subseteq FilterNames
    /\ Directions \subseteq {"export", "import", "in", "out"}

Names == Peers \cup Groups

(* The columns that are only set or unset. *)
Columns == {"password", "bfd", "shutdown", "remove_private_as",
            "soft_reconfiguration", "ebgp_multihop", "ttl_security_hops",
            "description", "weight", "advertisement_interval", "allow_as_in"}

NewNeighbor(is_group) ==
    [is_peer_group |-> is_group, remote_as |-> 0, bgp_peer_group |-> Unset,
     set |-> {}, timers |-> <<>>, prefix_lists |-> EmptyMap,
     aspath_filters |-> EmptyMap, route_maps |-> EmptyMap]

Neighbors == Router.bgp_neighbors

(* find_matching_neighbor_or_peer_group_object: the kind is not looked at. *)
Found(name) == name \in DOMAIN Neighbors

WithNeighbors(map) == WithRouter([Router EXCEPT !.bgp_neighbors = map])

WithNeighbor(name, row) == WithNeighbors(Put(Neighbors, name, row))

(***************************************************************************)
(* The server, when a row is deleted that others still refer to as their    *)
(* peer group: the references go with it, or the commit is refused, as the  *)
(* schema has it.  External: the schema is not part of the repository.       *)
(***************************************************************************)
Unreferenced(map) ==
    [n \in DOMAIN map |->
        IF map[n].bgp_peer_group \in DOMAIN map THEN map[n]
        ELSE [map[n] EXCEPT !.bgp_peer_group = Unset]]

EndWithDeleted(map) == END_DB_TXN(WithNeighbors(Unreferenced(map)))

bgp_neighbor_peer_group_insert_to_bgp_router(name, is_group) ==
    Put(Neighbors, name, NewNeighbor(is_group))

(* A peer that is bound has its AS number from its group. The command frees
   the name it found before it aborts, and that is the key of the map in the
   replica: the session goes on, or it dies of the name that was freed. *)
BoundPeerRefused == ABORT_DB_TXN \/ Crash

(* Mutant: a new AS number of a group does not reach the peers bound to it. *)
neighbor_remote_as_RowOnly(name, as) ==
    InRouter(
      IF name \in Peers /\ ~ Found(name)
      THEN END_DB_TXN(WithNeighbors(
             [bgp_neighbor_peer_group_insert_to_bgp_router(name, FALSE)
                EXCEPT ![name].remote_as = as]))
      ELSE IF ~ Found(name) THEN ABORT_DB_TXN
      ELSE IF Neighbors[name].bgp_peer_group # Unset THEN BoundPeerRefused
      ELSE END_DB_TXN(WithNeighbor(name, [Neighbors[name] EXCEPT !.remote_as = as])))

(* "neighbor X remote-as N": creates a peer; changes a group and the peers
   bound to it; refuses a peer that is bound. *)
neighbor_remote_as(name, as) ==
    InRouter(
      CASE name \in Peers /\ ~ Found(name) ->
             END_DB_TXN(WithNeighbors(
               [bgp_neighbor_peer_group_insert_to_bgp_router(name, FALSE)
                  EXCEPT ![name].remote_as = as]))
        [] name \in Peers /\ Found(name) ->
             IF Neighbors[name].bgp_peer_group # Unset THEN BoundPeerRefused
             ELSE END_DB_TXN(WithNeighbor(name, [Neighbors[name] EXCEPT !.remote_as = as]))
        [] name \notin Peers /\ ~ Found(name) -> ABORT_DB_TXN
        [] name \notin Peers /\ Found(name) ->
             END_DB_TXN(WithNeighbors(
               [n \in DOMAIN Neighbors |->
                  IF \/ n = name
                     \/ /\ ~ Neighbors[n].is_peer_group
                        /\ Neighbors[n].bgp_peer_group = name
                  THEN [Neighbors[n] EXCEPT !.remote_as = as]
                  ELSE Neighbors[n]])))

(* The name leaves the map: n - 1 of the remaining names are written. *)
bgp_neighbor_peer_group_remove_from_bgp_router(map, name) ==
    IF name \in DOMAIN map THEN {Drop(map, name)}
    ELSE {Drop(map, n) : n \in DOMAIN map}

(* The reference to a bound peer should leave the map, but the comparison is
   the wrong way round: the peer is the one entry that is kept, and the other
   n - 2 of the n - 1 entries written come from uninitialized memory: the
   process dies, or stale entries are written. *)
bgp_neighbor_remove_for_matching_peer_group_from_bgp_router(map, peer) ==
    {[n \in S |-> map[n]] :
        S \in {T \in SUBSET DOMAIN map :
                 /\ peer \in T
                 /\ Cardinality(T) <= Cardinality(DOMAIN map) - 1
                 /\ Cardinality(DOMAIN map) = 2 => T = {peer}}}

Members(map, group) ==
    {n \in DOMAIN map : ~ map[n].is_peer_group /\ map[n].bgp_peer_group = group}

(* delete_neighbor_peer_group: the bound peers, then the group. The maps it
   can leave; the rows themselves are deleted. Two bound peers or a third
   entry make it depend on uninitialized memory. *)
DeletedMaps(map, group) ==
    LET members == Members(map, group)
        kept(m) == {[n \in DOMAIN r \ (members \cup {group}) |-> r[n]] :
                      r \in bgp_neighbor_peer_group_remove_from_bgp_router(m, group)}
    IN  IF members = {} THEN kept(map)
        ELSE UNION {kept(m) : m \in
               UNION {bgp_neighbor_remove_for_matching_peer_group_from_bgp_router(map, p) :
                         p \in members}}

delete_neighbor_peer_group(name) ==
    IF ~ Found(name) THEN ERRONEOUS_DB_TXN
    ELSE \/ \E map \in DeletedMaps(Neighbors, name) : EndWithDeleted(map)
         \/ /\ Members(Neighbors, name) # {}
            /\ Cardinality(DOMAIN Neighbors) # 2
            /\ Crash

(* "no neighbor X", "no neighbor X remote-as N". *)
no_neighbor(name) ==
    InRouter(
      IF name \in Peers
      THEN IF Found(name) THEN EndWithDeleted(Drop(Neighbors, name))
           ELSE END_DB_TXN(db)
      ELSE delete_neighbor_peer_group(name))

(* "no neighbor WORD peer-group". *)
no_neighbor_peer_group(name) == InRouter(delete_neighbor_peer_group(name))

(* "neighbor WORD peer-group". *)
neighbor_peer_group(name) ==
    InRouter(IF Found(name) THEN ABORT_DB_TXN
             ELSE END_DB_TXN(WithNeighbors(
                    bgp_neighbor_peer_group_insert_to_bgp_router(name, TRUE))))

(* Mutant: a peer and a group without an AS number are bound. *)
neighbor_set_peer_group_NoAs(peer, group) ==
    LET row == IF Found(peer) THEN Neighbors[peer] ELSE NewNeighbor(FALSE)
        as == IF Neighbors[group].remote_as # 0
              THEN Neighbors[group].remote_as ELSE row.remote_as
    IN  InRouter(IF ~ Found(group) \/ row.bgp_peer_group # Unset THEN ABORT_DB_TXN
                 ELSE END_DB_TXN(WithNeighbor(peer,
                        [row EXCEPT !.remote_as = as, !.bgp_peer_group = group])))

(* "neighbor A.B.C.D peer-group WORD": the AS number of the group wins; one of
   the two must have one. *)
neighbor_set_peer_group(peer, group) ==
    LET row == IF Found(peer) THEN Neighbors[peer] ELSE NewNeighbor(FALSE)
        as == IF Neighbors[group].remote_as # 0
              THEN Neighbors[group].remote_as ELSE row.remote_as
    IN  InRouter(
          CASE ~ Found(group) -> ABORT_DB_TXN
            [] Found(group) /\ row.bgp_peer_group # Unset ->
                 IF row.bgp_peer_group = group THEN ABORT_DB_TXN ELSE ERRONEOUS_DB_TXN
            [] Found(group) /\ row.bgp_peer_group = Unset ->
                 IF as = 0 THEN ERRONEOUS_DB_TXN
                 ELSE END_DB_TXN(WithNeighbor(peer,
                        [row EXCEPT !.remote_as = as, !.bgp_peer_group = group])))

(* "no neighbor A.B.C.D peer-group WORD": WORD is not looked at; the peer of a
   group with an AS number is deleted, another is only unbound. *)
no_neighbor_set_peer_group(peer) ==
    InRouter(
      IF ~ Found(peer) THEN ERRONEOUS_DB_TXN
      ELSE IF Neighbors[peer].bgp_peer_group = Unset THEN ABORT_DB_TXN
      ELSE IF Neighbors[Neighbors[peer].bgp_peer_group].remote_as # 0
      THEN EndWithDeleted(Drop(Neighbors, peer))
      ELSE END_DB_TXN(WithNeighbor(peer, [Neighbors[peer] EXCEPT !.bgp_peer_group = Unset])))

(* A column is set or unset; a row that is not there is passed over, and the
   commit of nothing reports success. *)
Column(name, column, on) ==
    IF ~ Found(name) THEN db
    ELSE WithNeighbor(name, [Neighbors[name] EXCEPT
           !.set = IF on THEN @ \cup {column} ELSE @ \ {column}])

SetIfFound(name, column, on) == InRouter(END_DB_TXN(Column(name, column, on)))

(* The same, but a row that is not there, or that is so already, aborts. *)
SetIfChanged(name, column, on) ==
    InRouter(IF ~ Found(name) THEN ABORT_DB_TXN
             ELSE IF (column \in Neighbors[name].set) = on THEN ABORT_DB_TXN
             ELSE END_DB_TXN(Column(name, column, on)))

neighbor_password(name) == SetIfFound(name, "password", TRUE)

no_neighbor_password(name) == SetIfFound(name, "password", FALSE)

(* "fall-over bfd" only looks at names that are addresses. *)
neighbor_bfd_fallover_enable(name) ==
    IF name \in Peers THEN SetIfFound(name, "bfd", TRUE) ELSE InRouter(END_DB_TXN(db))

no_neighbor_bfd_fallover_enable(name) ==
    IF name \in Peers THEN SetIfFound(name, "bfd", FALSE) ELSE InRouter(END_DB_TXN(db))

neighbor_shutdown(name) == SetIfChanged(name, "shutdown", TRUE)

no_neighbor_shutdown(name) == SetIfChanged(name, "shutdown", FALSE)

neighbor_remove_private_as(name) == SetIfChanged(name, "remove_private_as", TRUE)

no_neighbor_remove_private_as(name) == SetIfChanged(name, "remove_private_as", FALSE)

neighbor_soft_reconfiguration(name) == SetIfChanged(name, "soft_reconfiguration", TRUE)

no_neighbor_soft_reconfiguration(name) == SetIfChanged(name, "soft_reconfiguration", FALSE)

neighbor_description(name) == SetIfFound(name, "description", TRUE)

no_neighbor_description(name) == SetIfFound(name, "description", FALSE)

neighbor_advertise_interval(name) == SetIfFound(name, "advertisement_interval", TRUE)

no_neighbor_advertise_interval(name) == SetIfFound(name, "advertisement_interval", FALSE)

neighbor_allowas_in(name) == SetIfFound(name, "allow_as_in", TRUE)

no_neighbor_allowas_in(name) == SetIfFound(name, "allow_as_in", FALSE)

(* "neighbor X weight N" and its "no": an unknown neighbor is an error. *)
neighbor_weight(name, on) ==
    InRouter(IF Found(name) THEN END_DB_TXN(Column(name, "weight", on))
             ELSE ERRONEOUS_DB_TXN)

(* Mutant: the other column is not looked at. *)
Excluded_Alone(name, column, other) ==
    \/ ~ Found(name)
    \/ name \in Peers /\ column \in Neighbors[name].set

(* ebgp-multihop and ttl-security exclude each other on one row. A peer that
   has the column already is left alone; a group is written again. *)
Excluded(name, column, other) ==
    \/ ~ Found(name)
    \/ name \in Peers /\ column \in Neighbors[name].set
    \/ other \in Neighbors[name].set

NotExclusive(name, column) ==
    InRouter(
      IF \/ ~ Found(name)
         \/ name \in Peers /\ column \notin Neighbors[name].set
      THEN ABORT_DB_TXN
      ELSE END_DB_TXN(Column(name, column, FALSE)))

neighbor_ebgp_multihop(name) ==
    InRouter(IF Excluded(name, "ebgp_multihop", "ttl_security_hops") THEN ABORT_DB_TXN
             ELSE END_DB_TXN(Column(name, "ebgp_multihop", TRUE)))

no_neighbor_ebgp_multihop(name) == NotExclusive(name, "ebgp_multihop")

(* The result of "ttl-security hops" is dropped: it always reports success. *)
neighbor_ttl_security(name) ==
    /\ ctx # None
    /\ START_DB_TXN(
         IF ~ HasRouter \/ Excluded(name, "ttl_security_hops", "ebgp_multihop")
         THEN ABORT_DB_TXN
         ELSE EndUnreported(Column(name, "ttl_security_hops", TRUE)))
    /\ UNCHANGED ctx

no_neighbor_ttl_security(name) == NotExclusive(name, "ttl_security_hops")

Least(a, b) == IF a < b THEN a ELSE b

(* Mutant: the keepalive is stored as it was typed. *)
neighbor_timers_Uncut(name, keepalive, holdtime) ==
    IF holdtime \in {1, 2}
    THEN ctx # None /\ Refuse("CMD_WARNING") /\ UNCHANGED ctx
    ELSE InRouter(END_DB_TXN(
           IF ~ Found(name) THEN db
           ELSE WithNeighbor(name, [Neighbors[name] EXCEPT !.timers = <<keepalive, holdtime>>])))

(* "neighbor X timers K H": a hold time of 1 or 2 is refused, and the
   keepalive is cut to a third of the hold time. *)
neighbor_timers(name, keepalive, holdtime) ==
    IF holdtime \in {1, 2}
    THEN ctx # None /\ Refuse("CMD_WARNING") /\ UNCHANGED ctx
    ELSE InRouter(END_DB_TXN(
           IF ~ Found(name) THEN db
           ELSE WithNeighbor(name, [Neighbors[name] EXCEPT
                  !.timers = <<Least(keepalive, holdtime \div 3), holdtime>>])))

no_neighbor_timers(name) ==
    InRouter(END_DB_TXN(IF ~ Found(name) THEN db
                        ELSE WithNeighbor(name, [Neighbors[name] EXCEPT !.timers = <<>>])))

(* A filter of one direction: a map of the neighbor row. *)
WithFilter(name, field, map) ==
    WithNeighbor(name, [Neighbors[name] EXCEPT ![field] = map])

HasFilter(name, field, dir) == dir \in DOMAIN Neighbors[name][field]

(* "neighbor X prefix-list WORD (in|out)". *)
neighbor_prefix_list(name, list, dir) ==
    InRouter(
      IF ~ Found(name) THEN ERRONEOUS_DB_TXN
      ELSE IF HasFilter(name, "prefix_lists", dir) /\ Neighbors[name].prefix_lists[dir] = list
      THEN ABORT_DB_TXN
      ELSE IF list \notin Filters THEN ERRONEOUS_DB_TXN
      ELSE END_DB_TXN(WithFilter(name, "prefix_lists",
                                 Put(Neighbors[name].prefix_lists, dir, list))))

no_neighbor_prefix_list(name, dir) ==
    InRouter(
      IF ~ Found(name) THEN ERRONEOUS_DB_TXN
      ELSE IF ~ HasFilter(name, "prefix_lists", dir) THEN ABORT_DB_TXN
      ELSE END_DB_TXN(WithFilter(name, "prefix_lists",
                                 Drop(Neighbors[name].prefix_lists, dir))))

(* get_bgp_neighbor: without the router or the neighbor it aborts the
   transaction and returns NULL, which its callers follow. *)
get_bgp_neighbor(name, rest) ==
    /\ ctx # None
    /\ START_DB_TXN(IF HasRouter /\ Found(name) THEN rest ELSE Crash)
    /\ UNCHANGED ctx

(* "neighbor X filter-list WORD (in|out)". *)
neighbor_filter_list(name, list, dir) ==
    get_bgp_neighbor(name,
      IF HasFilter(name, "aspath_filters", dir) /\ Neighbors[name].aspath_filters[dir] = list
      THEN ABORT_DB_TXN
      ELSE IF list \notin Filters THEN ERRONEOUS_DB_TXN
      ELSE END_DB_TXN(WithFilter(name, "aspath_filters",
                                 Put(Neighbors[name].aspath_filters, dir, list))))

no_neighbor_filter_list(name, dir) ==
    get_bgp_neighbor(name,
      IF ~ HasFilter(name, "aspath_filters", dir) THEN ABORT_DB_TXN
      ELSE END_DB_TXN(WithFilter(name, "aspath_filters",
                                 Drop(Neighbors[name].aspath_filters, dir))))

(* "neighbor X route-map WORD DIRECTION". *)
neighbor_route_map(name, map, dir) ==
    InRouter(
      IF ~ Found(name) \/ map \notin DOMAIN db.route_maps THEN ERRONEOUS_DB_TXN
      ELSE END_DB_TXN(WithFilter(name, "route_maps", Put(Neighbors[name].route_maps, dir, map))))

(* Keys of a map column come in the order of their text. *)
Rank == [export |-> 1, import |-> 2, in |-> 3, out |-> 4]

LastKey(map) == CHOOSE d \in DOMAIN map : \A e \in DOMAIN map : Rank[e] <= Rank[d]

(* "no neighbor X route-map WORD DIRECTION": the bound of the copying loop is
   lowered inside the loop, so unless the direction is the last key the last
   entry is not copied and an uninitialized one is written in its place: the
   process dies, or a stale entry comes back. *)
RemainingRouteMaps(map, dir) ==
    IF dir = LastKey(map) THEN {Drop(map, dir)}
    ELSE LET copied == Drop(Drop(map, dir), LastKey(map))
         IN  {copied} \cup {Put(copied, d, map[d]) : d \in DOMAIN map}

no_neighbor_route_map(name, dir) ==
    InRouter(
      IF ~ Found(name) THEN ERRONEOUS_DB_TXN
      ELSE IF ~ HasFilter(name, "route_maps", dir) THEN ABORT_DB_TXN
      ELSE \/ \E map \in RemainingRouteMaps(Neighbors[name].route_maps, dir) :
                END_DB_TXN(WithFilter(name, "route_maps", map))
           \/ dir # LastKey(Neighbors[name].route_maps) /\ Crash)

NeighborNext ==
    \/ \E n \in Names, as \in RemoteAs : neighbor_remote_as(n, as)
    \/ \E n \in Names : no_neighbor(n)
    \/ \E n \in GroupWords : neighbor_peer_group(n) \/ no_neighbor_peer_group(n)
    \/ \E p \in Peers, g \in GroupWords : neighbor_set_peer_group(p, g)
    \/ \E p \in Peers : no_neighbor_set_peer_group(p)

ColumnNext ==
    \E n \in Names :
      \/ neighbor_password(n) \/ no_neighbor_password(n)
      \/ neighbor_bfd_fallover_enable(n) \/ no_neighbor_bfd_fallover_enable(n)
      \/ neighbor_shutdown(n) \/ no_neighbor_shutdown(n)
      \/ neighbor_remove_private_as(n) \/ no_neighbor_remove_private_as(n)
      \/ neighbor_soft_reconfiguration(n) \/ no_neighbor_soft_reconfiguration(n)
      \/ neighbor_description(n) \/ no_neighbor_description(n)
      \/ neighbor_advertise_interval(n) \/ no_neighbor_advertise_interval(n)
      \/ neighbor_allowas_in(n) \/ no_neighbor_allowas_in(n)
      \/ \E on \in BOOLEAN : neighbor_weight(n, on)
      \/ neighbor_ebgp_multihop(n) \/ no_neighbor_ebgp_multihop(n)
      \/ neighbor_ttl_security(n) \/ no_neighbor_ttl_security(n)
      \/ \E k, h \in Times : neighbor_timers(n, k, h)
      \/ no_neighbor_timers(n)

FilterNext ==
    \E n \in Names, dir \in Directions :
      \/ /\ dir \in {"in", "out"}
         /\ \E list \in FilterNames :
               neighbor_prefix_list(n, list, dir) \/ neighbor_filter_list(n, list, dir)
      \/ /\ dir \in {"in", "out"}
         /\ no_neighbor_prefix_list(n, dir) \/ no_neighbor_filter_list(n, dir)
      \/ \E map \in RouteMapNames : neighbor_route_map(n, map, dir)
      \/ no_neighbor_route_map(n, dir)

Next == RouterNext \/ NeighborNext \/ ColumnNext \/ FilterNext

Spec == RouterInit /\ [][Next]_bgpVars

--------------------------------------------------------------------------------
Routers == {db.bgp_routers[asn] : asn \in DOMAIN db.bgp_routers}

Rows == UNION {{r.bgp_neighbors[n] : n \in DOMAIN r.bgp_neighbors} : r \in Routers}

(* Types: what the columns hold, and the maps' keys. *)
TypeOK ==
    /\ DOMAIN db.bgp_routers \subseteq ASN
    /\ DOMAIN db.route_maps \subseteq RouteMapNames
    /\ ctx \in ASN \cup {None}
    /\ ret \in Results
    /\ vtysh \in {"ready", "txn", "dead"}
    /\ \A r \in Routers :
         /\ r.router_id \in RouterIds \cup {Unset, "0.0.0.0"}
         /\ DOMAIN r.bgp_neighbors \subseteq Names
    /\ \A row \in Rows :
         /\ row.remote_as \in RemoteAs \cup {0}
         /\ row.bgp_peer_group \in Names \cup {Unset}
         /\ row.set \subseteq Columns

(* cli_router_bgp_cmd_execute refuses a second AS number, so the VRF never
   has two routers, whatever sessions create and delete. *)
OneRouter == Cardinality(DOMAIN db.bgp_routers) <= 1

(* cli_bgp_redistribute_cmd_execute: a protocol is redistributed as it is or
   through a route map, never both. *)
RedistributeOnce ==
    \A r \in Routers : r.redistribute \cap DOMAIN r.redistribute_route_map = {}

(* cli_bgp_network_cmd_execute stores masked prefixes only, so that "no
   network" finds a network under any of the addresses it can be typed as. *)
NetworksMasked == \A r \in Routers : \A p \in r.networks : ApplyMask(p) = p

(* cli_neighbor_set_peer_group_cmd_execute: a peer bound to a group has a
   remote AS, its own or the group's, at every later time too. *)
BoundHasRemoteAs ==
    \A row \in Rows : row.bgp_peer_group # Unset => row.remote_as # 0

(* "If peer group has a remote-as, it becomes primary": a peer that is bound
   has the AS number of its group when the group has one, whichever of the two
   was given a number last. WORD takes addresses too; neither a group whose
   name is one nor a row that is itself a group is spoken of here. *)
GroupRemoteAsPrimary ==
    \A r \in Routers : \A n \in DOMAIN r.bgp_neighbors :
        LET row == r.bgp_neighbors[n]
        IN  row.bgp_peer_group \in Groups /\ ~ row.is_peer_group =>
              r.bgp_neighbors[row.bgp_peer_group].remote_as \in {0, row.remote_as}

(* Not a property of the code: the same of every bound row. Under an address,
   "neighbor X remote-as N" takes the row for a peer and changes no other. *)
EveryGroupPrimary ==
    \A r \in Routers : \A n \in DOMAIN r.bgp_neighbors :
        LET row == r.bgp_neighbors[n]
        IN  row.bgp_peer_group # Unset =>
              r.bgp_neighbors[row.bgp_peer_group].remote_as \in {0, row.remote_as}

(* ebgp-multihop and ttl-security hops are never both set on one row, in
   whatever order they were configured. *)
MultihopOrTtl ==
    \A row \in Rows : ~ {"ebgp_multihop", "ttl_security_hops"} \subseteq row.set

(* Stored timers: no hold time of 1 or 2, and on a neighbor a keepalive of at
   most a third of the hold time. *)
TimersSane ==
    /\ \A r \in Routers : r.timers # <<>> => r.timers[2] \notin {1, 2}
    /\ \A row \in Rows : row.timers # <<>> =>
         row.timers[2] \notin {1, 2} /\ 3 * row.timers[1] <= row.timers[2]

(* The configuration of BGP stays consistent, whatever sessions configure in
   whatever order: all of the above. *)
BgpConsistent ==
    /\ OneRouter /\ RedistributeOnce /\ NetworksMasked
    /\ BoundHasRemoteAs /\ GroupRemoteAsPrimary /\ MultihopOrTtl /\ TimersSane

(* bgp_vty.h: a command that stops early "still need[s] to terminate" its
   transaction: none is open between two commands. *)
TxnClosed == vtysh # "txn"

(* "Delete the peer-group and also neighbors belonging to this peer-group":
   the names that leave the map with a group are its own and its members'. *)
GroupDeleteKeepsOthers ==
    [][(HasRouter /\ ctx \in DOMAIN db'.bgp_routers) =>
         LET before == DOMAIN Neighbors
             after == DOMAIN db'.bgp_routers[ctx].bgp_neighbors
         IN  \A g \in (before \ after) \cap Groups :
               before \ after \subseteq {g} \cup Members(Neighbors, g)]_bgpVars
===============================================================================
