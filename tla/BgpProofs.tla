------------------------------ MODULE BgpProofs ------------------------------
(***************************************************************************)
(* The BGP configuration stays consistent, for every set of AS numbers,     *)
(* peers, groups, timers, protocols and route maps, and however many        *)
(* settings there are.                                                      *)
(***************************************************************************)
EXTENDS BgpNeighbor, FiniteSetTheorems, TLAPS

(* What is assumed of the constants. *)
Constants == BgpConstants /\ NeighborConstants

(* A map of the database, and rows with the columns of their table. *)
IsMap(m) == m = [k \in DOMAIN m |-> m[k]]

IsNeighbor(row) ==
    row = [is_peer_group |-> row.is_peer_group, remote_as |-> row.remote_as,
           bgp_peer_group |-> row.bgp_peer_group, set |-> row.set, timers |-> row.timers,
           prefix_lists |-> row.prefix_lists, aspath_filters |-> row.aspath_filters,
           route_maps |-> row.route_maps]

IsRouter(r) ==
    r = [router_id |-> r.router_id, maximum_paths |-> r.maximum_paths, timers |-> r.timers,
         fast_external_failover |-> r.fast_external_failover,
         log_neighbor_changes |-> r.log_neighbor_changes, networks |-> r.networks,
         redistribute |-> r.redistribute, redistribute_route_map |-> r.redistribute_route_map,
         bgp_neighbors |-> r.bgp_neighbors]

(* A row by itself. *)
RowOK(row) ==
    /\ IsNeighbor(row) /\ row.remote_as \in Nat
    /\ ~ {"ebgp_multihop", "ttl_security_hops"} \subseteq row.set
    /\ row.timers # <<>> => row.timers[2] \notin {1, 2} /\ 3 * row.timers[1] <= row.timers[2]

(* A row in its map: only a row under an address is bound, to a row that is
   there; a word for a group has no group of its own. *)
BoundOK(M, n) ==
    M[n].bgp_peer_group # Unset =>
      /\ n \in Peers /\ M[n].remote_as # 0
      /\ M[n].bgp_peer_group \in DOMAIN M
      /\ M[n].bgp_peer_group \in Groups /\ ~ M[n].is_peer_group =>
           M[M[n].bgp_peer_group].remote_as \in {0, M[n].remote_as}

NeighborsOK(M) ==
    /\ IsMap(M) /\ DOMAIN M \subseteq Names
    /\ \A n \in DOMAIN M : RowOK(M[n]) /\ BoundOK(M, n)

RouterOK(r) ==
    /\ IsRouter(r)
    /\ r.redistribute \cap DOMAIN r.redistribute_route_map = {}
    /\ \A p \in r.networks : p \in Prefixes /\ ApplyMask(p) = p
    /\ r.timers # <<>> => r.timers[2] \notin {1, 2}
    /\ NeighborsOK(r.bgp_neighbors)

DbOK(d) ==
    /\ d = [bgp_routers |-> d.bgp_routers, prefix_lists |-> d.prefix_lists,
            aspath_filters |-> d.aspath_filters, community_filters |-> d.community_filters,
            route_maps |-> d.route_maps]
    /\ IsMap(d.bgp_routers)
    /\ \A a, b \in DOMAIN d.bgp_routers : a = b
    /\ \A a \in DOMAIN d.bgp_routers : RouterOK(d.bgp_routers[a])

BgpInv == DbOK(db)

-------------------------------------------------------------------------------
(* The writes to a row of the neighbor table leave its other columns. *)
LEMMA SetWrite ==
  ASSUME NEW row, IsNeighbor(row), NEW v
  PROVE  LET w == [row EXCEPT !.set = v]
         IN  /\ IsNeighbor(w) /\ w.set = v /\ w.timers = row.timers /\ w.remote_as = row.remote_as
             /\ w.bgp_peer_group = row.bgp_peer_group /\ w.is_peer_group = row.is_peer_group
BY DEF IsNeighbor

(* The same for timers. *)
LEMMA TimersWrite ==
  ASSUME NEW row, IsNeighbor(row), NEW v
  PROVE  LET w == [row EXCEPT !.timers = v]
         IN  /\ IsNeighbor(w) /\ w.set = row.set /\ w.timers = v /\ w.remote_as = row.remote_as
             /\ w.bgp_peer_group = row.bgp_peer_group /\ w.is_peer_group = row.is_peer_group
BY DEF IsNeighbor

(* The same for remote_as. *)
LEMMA RemoteAsWrite ==
  ASSUME NEW row, IsNeighbor(row), NEW v
  PROVE  LET w == [row EXCEPT !.remote_as = v]
         IN  /\ IsNeighbor(w) /\ w.set = row.set /\ w.timers = row.timers /\ w.remote_as = v
             /\ w.bgp_peer_group = row.bgp_peer_group /\ w.is_peer_group = row.is_peer_group
BY DEF IsNeighbor

(* The same for bgp_peer_group. *)
LEMMA GroupWrite ==
  ASSUME NEW row, IsNeighbor(row), NEW v
  PROVE  LET w == [row EXCEPT !.bgp_peer_group = v]
         IN  /\ IsNeighbor(w) /\ w.set = row.set /\ w.timers = row.timers /\ w.remote_as = row.remote_as
             /\ w.bgp_peer_group = v /\ w.is_peer_group = row.is_peer_group
BY DEF IsNeighbor

(* The same for the maps of filters. *)
LEMMA FilterWrite ==
  ASSUME NEW row, IsNeighbor(row), NEW v, NEW f \in {"prefix_lists", "aspath_filters", "route_maps"}
  PROVE  LET w == [row EXCEPT ![f] = v]
         IN  /\ IsNeighbor(w) /\ w.set = row.set /\ w.timers = row.timers /\ w.remote_as = row.remote_as
             /\ w.bgp_peer_group = row.bgp_peer_group /\ w.is_peer_group = row.is_peer_group
<1>1. CASE f = "prefix_lists"
  <2>1. [row EXCEPT ![f] = v] = [row EXCEPT !.prefix_lists = v]
    BY <1>1
  <2>. DEFINE w == [row EXCEPT !.prefix_lists = v]
  <2>2. /\ IsNeighbor(w) /\ w.set = row.set /\ w.timers = row.timers /\ w.remote_as = row.remote_as
        /\ w.bgp_peer_group = row.bgp_peer_group /\ w.is_peer_group = row.is_peer_group
    BY DEF IsNeighbor
  <2>. QED BY <2>1, <2>2
<1>2. CASE f = "aspath_filters"
  <2>1. [row EXCEPT ![f] = v] = [row EXCEPT !.aspath_filters = v]
    BY <1>2
  <2>. DEFINE w == [row EXCEPT !.aspath_filters = v]
  <2>2. /\ IsNeighbor(w) /\ w.set = row.set /\ w.timers = row.timers /\ w.remote_as = row.remote_as
        /\ w.bgp_peer_group = row.bgp_peer_group /\ w.is_peer_group = row.is_peer_group
    BY DEF IsNeighbor
  <2>. QED BY <2>1, <2>2
<1>3. CASE f = "route_maps"
  <2>1. [row EXCEPT ![f] = v] = [row EXCEPT !.route_maps = v]
    BY <1>3
  <2>. DEFINE w == [row EXCEPT !.route_maps = v]
  <2>2. /\ IsNeighbor(w) /\ w.set = row.set /\ w.timers = row.timers /\ w.remote_as = row.remote_as
        /\ w.bgp_peer_group = row.bgp_peer_group /\ w.is_peer_group = row.is_peer_group
    BY DEF IsNeighbor
  <2>. QED BY <2>1, <2>2
<1>. QED BY <1>1, <1>2, <1>3

(* The writes to the router row that leave the neighbors alone. *)
LEMMA RouterWrites ==
  ASSUME NEW r, RouterOK(r), NEW v
  PROVE  /\ RouterOK([r EXCEPT !.router_id = v]) /\ RouterOK([r EXCEPT !.maximum_paths = v])
         /\ RouterOK([r EXCEPT !.fast_external_failover = v])
         /\ RouterOK([r EXCEPT !.log_neighbor_changes = v])
         /\ (v # <<>> => v[2] \notin {1, 2}) => RouterOK([r EXCEPT !.timers = v])
         /\ (\A p \in v : p \in Prefixes /\ ApplyMask(p) = p) => RouterOK([r EXCEPT !.networks = v])
         /\ v \cap DOMAIN r.redistribute_route_map = {} => RouterOK([r EXCEPT !.redistribute = v])
         /\ r.redistribute \cap DOMAIN v = {} => RouterOK([r EXCEPT !.redistribute_route_map = v])
         /\ NeighborsOK(v) => RouterOK([r EXCEPT !.bgp_neighbors = v])
<1> USE DEF RouterOK, IsRouter
<1>1. RouterOK([r EXCEPT !.router_id = v]) /\ RouterOK([r EXCEPT !.maximum_paths = v])
  OBVIOUS
<1>2. RouterOK([r EXCEPT !.fast_external_failover = v]) /\ RouterOK([r EXCEPT !.log_neighbor_changes = v])
  OBVIOUS
<1>3. (v # <<>> => v[2] \notin {1, 2}) => RouterOK([r EXCEPT !.timers = v])
  OBVIOUS
<1>4. (\A p \in v : p \in Prefixes /\ ApplyMask(p) = p) => RouterOK([r EXCEPT !.networks = v])
  OBVIOUS
<1>5. v \cap DOMAIN r.redistribute_route_map = {} => RouterOK([r EXCEPT !.redistribute = v])
  OBVIOUS
<1>6. r.redistribute \cap DOMAIN v = {} => RouterOK([r EXCEPT !.redistribute_route_map = v])
  OBVIOUS
<1>7. NeighborsOK(v) => RouterOK([r EXCEPT !.bgp_neighbors = v])
  OBVIOUS
<1>. QED BY <1>1, <1>2, <1>3, <1>4, <1>5, <1>6, <1>7

(* A router row is replaced, added or removed. *)
LEMMA RouterReplaced ==
  ASSUME DbOK(db), NEW a \in DOMAIN db.bgp_routers, NEW row, RouterOK(row)
  PROVE  DbOK([db EXCEPT !.bgp_routers[a] = row])
BY DEF DbOK, IsMap

(* A router is added where there is no other. *)
LEMMA RouterAdded ==
  ASSUME DbOK(db), NEW a, DOMAIN db.bgp_routers \ {a} = {}, RouterOK(NewRouter)
  PROVE  DbOK(bgp_router_insert_to_vrf(a))
BY DEF DbOK, IsMap, bgp_router_insert_to_vrf, Put

(* A router is removed. *)
LEMMA RouterRemoved ==
  ASSUME DbOK(db), NEW a PROVE DbOK(bgp_router_remove_from_vrf(a))
BY SMTT(60) DEF DbOK, IsMap, bgp_router_remove_from_vrf, Drop

(* The row "router bgp" inserts is consistent. *)
LEMMA NewRouterOK == RouterOK(NewRouter)
BY DEF RouterOK, IsRouter, NewRouter, EmptyMap, NeighborsOK, IsMap

(* So is the row a new peer or group gets, and it is bound to nothing. *)
LEMMA NewNeighborOK == ASSUME NEW g \in BOOLEAN
  PROVE RowOK(NewNeighbor(g)) /\ NewNeighbor(g).bgp_peer_group = Unset /\ NewNeighbor(g).is_peer_group = g
BY DEF RowOK, IsNeighbor, NewNeighbor

(***************************************************************************)
(* The writes to the map of peers and groups.                               *)
(***************************************************************************)

(* A peer is added, changed, bound or unbound. *)
LEMMA PeerPut ==
  ASSUME Constants, NEW M, NeighborsOK(M), NEW n \in Peers, NEW row, RowOK(row),
         row.bgp_peer_group # Unset =>
           /\ row.remote_as # 0 /\ row.bgp_peer_group \in DOMAIN M
           /\ M[row.bgp_peer_group].remote_as \in {0, row.remote_as}
  PROVE  NeighborsOK(Put(M, n, row))
<1> DEFINE P == Put(M, n, row)
<1>1. IsMap(P) /\ DOMAIN P = DOMAIN M \cup {n} /\ P[n] = row /\ \A k \in DOMAIN M : k # n => P[k] = M[k]
  BY DEF IsMap, Put
<1>2. n \notin Groups /\ n \in Names /\ DOMAIN M \subseteq Names
  BY DEF Constants, NeighborConstants, Names, NeighborsOK
<1> HIDE DEF P
<1>3. BoundOK(P, n)
  BY <1>1, <1>2 DEF BoundOK
<1>4. ASSUME NEW k \in DOMAIN P, k # n
      PROVE  RowOK(P[k]) /\ BoundOK(P, k)
  <2>1. k \in DOMAIN M /\ P[k] = M[k] /\ RowOK(M[k]) /\ BoundOK(M, k)
    BY <1>1, <1>4 DEF NeighborsOK
  <2>. QED BY <1>1, <1>2, <2>1 DEF BoundOK
<1>5. NeighborsOK(P)
  BY Zenon, <1>1, <1>2, <1>3, <1>4 DEF NeighborsOK
<1>. QED BY <1>5 DEF P

(* A group is added. *)
LEMMA GroupPut ==
  ASSUME Constants, NEW M, NeighborsOK(M), NEW n \in Names, n \notin DOMAIN M
  PROVE  NeighborsOK(Put(M, n, NewNeighbor(TRUE)))
<1> DEFINE P == Put(M, n, NewNeighbor(TRUE))
<1>1. IsMap(P) /\ DOMAIN P = DOMAIN M \cup {n} /\ P[n] = NewNeighbor(TRUE) /\ \A k \in DOMAIN M : P[k] = M[k]
  BY Zenon DEF IsMap, Put
<1>2. DOMAIN M \subseteq Names
  BY DEF NeighborsOK
<1> HIDE DEF P
<1>3. RowOK(P[n]) /\ BoundOK(P, n)
  BY Zenon, <1>1, NewNeighborOK DEF BoundOK
<1>4. ASSUME NEW k \in DOMAIN M
      PROVE  RowOK(P[k]) /\ BoundOK(P, k)
  <2>1. P[k] = M[k] /\ RowOK(M[k]) /\ BoundOK(M, k)
    BY <1>1, <1>4 DEF NeighborsOK
  <2>. QED BY <1>1, <1>2, <2>1 DEF BoundOK
<1>5. NeighborsOK(P)
  BY Zenon, <1>1, <1>2, <1>3, <1>4 DEF NeighborsOK
<1>. QED BY Zenon, <1>5 DEF P

(* A row is rewritten with its kind, its AS number and its group as they were. *)
LEMMA RowPut ==
  ASSUME Constants, NEW M, NeighborsOK(M), NEW n \in DOMAIN M, NEW row, RowOK(row),
         row.is_peer_group = M[n].is_peer_group, row.remote_as = M[n].remote_as,
         row.bgp_peer_group = M[n].bgp_peer_group
  PROVE  NeighborsOK(Put(M, n, row))
<1> DEFINE P == Put(M, n, row)
<1>1. IsMap(P) /\ DOMAIN P = DOMAIN M /\ P[n] = row /\ \A k \in DOMAIN M : k # n => P[k] = M[k]
  BY DEF IsMap, Put
<1>2. DOMAIN M \subseteq Names
  BY DEF NeighborsOK
<1> HIDE DEF P
<1>3. \A k \in DOMAIN M : /\ P[k].remote_as = M[k].remote_as /\ P[k].bgp_peer_group = M[k].bgp_peer_group
                          /\ P[k].is_peer_group = M[k].is_peer_group
  BY <1>1
<1>4. ASSUME NEW k \in DOMAIN M
      PROVE  RowOK(P[k]) /\ BoundOK(P, k)
  <2>1. RowOK(M[k]) /\ BoundOK(M, k)
    BY <1>4 DEF NeighborsOK
  <2>2. RowOK(P[k])
    BY <1>1, <2>1
  <2>. QED BY <1>1, <1>3, <2>1, <2>2 DEF BoundOK
<1>5. NeighborsOK(P)
  BY Zenon, <1>1, <1>2, <1>4 DEF NeighborsOK
<1>. QED BY <1>5 DEF P

(* The AS number of a group changes, and that of the peers bound to it. *)
LEMMA GroupRemoteAs ==
  ASSUME Constants, NEW M, NeighborsOK(M), NEW g \in DOMAIN M, g \notin Peers, NEW as \in Nat \ {0}
  PROVE  NeighborsOK([n \in DOMAIN M |->
            IF n = g \/ (~ M[n].is_peer_group /\ M[n].bgp_peer_group = g)
            THEN [M[n] EXCEPT !.remote_as = as] ELSE M[n]])
<1> DEFINE Hit(n) == n = g \/ (~ M[n].is_peer_group /\ M[n].bgp_peer_group = g)
           P == [n \in DOMAIN M |-> IF Hit(n) THEN [M[n] EXCEPT !.remote_as = as] ELSE M[n]]
<1>1. IsMap(P) /\ DOMAIN P = DOMAIN M
  BY DEF IsMap
<1>2. ASSUME NEW k \in DOMAIN M
      PROVE  /\ RowOK(P[k]) /\ P[k].bgp_peer_group = M[k].bgp_peer_group
             /\ P[k].is_peer_group = M[k].is_peer_group
             /\ Hit(k) => P[k].remote_as = as
             /\ ~ Hit(k) => P[k].remote_as = M[k].remote_as
  <2>1. RowOK(M[k])
    BY <1>2 DEF NeighborsOK
  <2>2. CASE Hit(k)
    <3>1. P[k] = [M[k] EXCEPT !.remote_as = as]
      BY <2>2
    <3>2. IsNeighbor(M[k])
      BY <2>1 DEF RowOK
    <3> HIDE DEF P
    <3>3. /\ IsNeighbor(P[k]) /\ P[k].set = M[k].set /\ P[k].timers = M[k].timers /\ P[k].remote_as = as
          /\ P[k].bgp_peer_group = M[k].bgp_peer_group /\ P[k].is_peer_group = M[k].is_peer_group
      BY <3>1, <3>2, RemoteAsWrite
    <3>. QED BY Zenon, <2>1, <2>2, <3>3 DEF RowOK
  <2>3. CASE ~ Hit(k)
    <3>1. P[k] = M[k]
      BY <2>3
    <3> HIDE DEF P
    <3>. QED BY Zenon, <2>1, <2>3, <3>1
  <2>. QED BY Zenon, <2>2, <2>3
<1> HIDE DEF P
<1>3. ASSUME NEW k \in DOMAIN M PROVE BoundOK(P, k)
  <2>1. BoundOK(M, k)
    BY <1>3 DEF NeighborsOK
  <2>2. CASE M[k].bgp_peer_group = Unset
    BY Zenon, <1>2, <1>3, <2>2 DEF BoundOK
  <2>3. CASE M[k].bgp_peer_group # Unset
    <3> DEFINE h == M[k].bgp_peer_group
    <3>1. k \in Peers /\ h \in DOMAIN M /\ M[k].remote_as # 0
      BY <2>1, <2>3 DEF BoundOK
    <3>2. P[k].bgp_peer_group = h /\ P[k].remote_as # 0 /\ P[k].is_peer_group = M[k].is_peer_group
      BY Zenon, <1>2, <1>3, <3>1
    <3>3. ASSUME h \in Groups, ~ M[k].is_peer_group PROVE P[h].remote_as \in {0, P[k].remote_as}
      <4>1. h \notin Peers /\ Unset \notin Names /\ g \in Names
        BY <3>3 DEF NeighborsOK, Constants, NeighborConstants, Names
      <4>2. BoundOK(M, h) /\ M[h].remote_as \in {0, M[k].remote_as}
        BY <2>1, <2>3, <3>1, <3>3 DEF NeighborsOK, BoundOK
      <4>3. Hit(h) <=> h = g
        BY <4>1, <4>2 DEF BoundOK
      <4>4. Hit(k) <=> h = g
        BY <3>1, <3>3
      <4>. QED BY Zenon, <1>2, <1>3, <3>1, <4>2, <4>3, <4>4
    <3>. QED BY <1>1, <3>1, <3>2, <3>3 DEF BoundOK
  <2>. QED BY Zenon, <2>2, <2>3
<1>4. NeighborsOK(P)
  BY Zenon, <1>1, <1>2, <1>3 DEF NeighborsOK
<1>. QED BY <1>4 DEF P

(* Rows are deleted, and the server drops the references to them. *)
LEMMA Deleted ==
  ASSUME Constants, NEW M, NeighborsOK(M), NEW S \in SUBSET DOMAIN M
  PROVE  NeighborsOK(Unreferenced([n \in S |-> M[n]]))
<1> DEFINE R == [n \in S |-> M[n]]
           P == Unreferenced(R)
<1>1. IsMap(P) /\ DOMAIN P = S /\ S \subseteq Names
  BY DEF IsMap, Unreferenced, NeighborsOK
<1>2. \A n \in S : P[n] = IF M[n].bgp_peer_group \in S THEN M[n] ELSE [M[n] EXCEPT !.bgp_peer_group = Unset]
  BY DEF Unreferenced
<1> HIDE DEF P
<1>3. ASSUME NEW k \in S
      PROVE  /\ RowOK(P[k]) /\ P[k].remote_as = M[k].remote_as /\ P[k].is_peer_group = M[k].is_peer_group
             /\ P[k].bgp_peer_group = IF M[k].bgp_peer_group \in S THEN M[k].bgp_peer_group ELSE Unset
  <2>1. RowOK(M[k]) /\ IsNeighbor(M[k])
    BY DEF NeighborsOK, RowOK
  <2>2. CASE M[k].bgp_peer_group \in S
    BY Zenon, <1>2, <2>1, <2>2
  <2>3. CASE M[k].bgp_peer_group \notin S
    <3>1. P[k] = [M[k] EXCEPT !.bgp_peer_group = Unset]
      BY <1>2, <2>3
    <3>2. /\ IsNeighbor(P[k]) /\ P[k].set = M[k].set /\ P[k].timers = M[k].timers
          /\ P[k].remote_as = M[k].remote_as /\ P[k].bgp_peer_group = Unset
          /\ P[k].is_peer_group = M[k].is_peer_group
      BY <2>1, <3>1, GroupWrite
    <3>. QED BY <2>1, <2>3, <3>2 DEF RowOK
  <2>. QED BY <2>2, <2>3
<1>4. ASSUME NEW k \in S PROVE BoundOK(P, k)
  <2>1. BoundOK(M, k)
    BY DEF NeighborsOK
  <2>. QED BY <1>1, <1>3, <2>1 DEF BoundOK
<1>5. NeighborsOK(P)
  BY Zenon, <1>1, <1>3, <1>4 DEF NeighborsOK
<1>. QED BY <1>5 DEF P

(***************************************************************************)
(* What the commands write.                                                 *)
(***************************************************************************)

(* The row a command of BGP_NODE works on, and its map. *)
LEMMA RouterFound ==
  ASSUME DbOK(db), HasRouter
  PROVE  RouterOK(Router) /\ NeighborsOK(Neighbors) /\ IsMap(Neighbors)
BY DEF DbOK, HasRouter, Router, RouterOK, Neighbors, NeighborsOK

(* A consistent row in the place of the router keeps the database consistent. *)
LEMMA RouterWritten ==
  ASSUME DbOK(db), HasRouter, NEW row, RouterOK(row) PROVE DbOK(WithRouter(row))
BY RouterReplaced DEF HasRouter, WithRouter

(* So does a consistent map of neighbors. *)
LEMMA NeighborsWritten ==
  ASSUME DbOK(db), HasRouter, NEW M, NeighborsOK(M) PROVE DbOK(WithNeighbors(M))
BY Zenon, RouterFound, RouterWrites, RouterWritten DEF WithNeighbors

(* A column of one row is set or unset: with ebgp_multihop or ttl_security_hops
   only when the row does not have the other. *)
LEMMA ColumnWritten ==
  ASSUME Constants, DbOK(db), HasRouter, NEW name, NEW column, NEW on,
         on /\ Found(name) => \A c \in {"ebgp_multihop", "ttl_security_hops"} :
                                c = column => ~ {"ebgp_multihop", "ttl_security_hops"} \ {c} \subseteq Neighbors[name].set
  PROVE  DbOK(Column(name, column, on))
<1>1. CASE ~ Found(name)
  BY <1>1 DEF Column
<1>2. CASE Found(name)
  <2> DEFINE old == Neighbors[name]
             set == IF on THEN old.set \cup {column} ELSE old.set \ {column}
             row == [old EXCEPT !.set = set]
  <2>1. RowOK(old) /\ IsNeighbor(old) /\ NeighborsOK(Neighbors) /\ name \in DOMAIN Neighbors
    BY Zenon, <1>2, RouterFound DEF Found, NeighborsOK, RowOK
  <2>2. ~ {"ebgp_multihop", "ttl_security_hops"} \subseteq set
    BY <1>2, <2>1 DEF RowOK
  <2>3. /\ IsNeighbor(row) /\ row.set = set /\ row.timers = old.timers /\ row.remote_as = old.remote_as
        /\ row.bgp_peer_group = old.bgp_peer_group /\ row.is_peer_group = old.is_peer_group
    BY <2>1, SetWrite
  <2>4. RowOK(row)
    BY <2>1, <2>2, <2>3 DEF RowOK
  <2>5. NeighborsOK(Put(Neighbors, name, row))
    BY Zenon, <2>1, <2>3, <2>4, RowPut
  <2>6. Column(name, column, on) = WithNeighbors(Put(Neighbors, name, row))
    BY <1>2 DEF Column, WithNeighbor
  <2>. QED BY <2>5, <2>6, NeighborsWritten
<1>. QED BY <1>1, <1>2

(* The timers of a row. *)
LEMMA TimersWritten ==
  ASSUME Constants, DbOK(db), HasRouter, NEW name, Found(name), NEW t,
         t # <<>> => t[2] \notin {1, 2} /\ 3 * t[1] <= t[2]
  PROVE  DbOK(WithNeighbor(name, [Neighbors[name] EXCEPT !.timers = t]))
<1> DEFINE old == Neighbors[name]
           row == [old EXCEPT !.timers = t]
<1>1. RowOK(old) /\ IsNeighbor(old) /\ NeighborsOK(Neighbors) /\ name \in DOMAIN Neighbors
  BY Zenon, RouterFound DEF Found, NeighborsOK, RowOK
<1>2. /\ IsNeighbor(row) /\ row.set = old.set /\ row.timers = t /\ row.remote_as = old.remote_as
      /\ row.bgp_peer_group = old.bgp_peer_group /\ row.is_peer_group = old.is_peer_group
  BY Zenon, <1>1, TimersWrite
<1>3. RowOK(row)
  BY <1>1, <1>2 DEF RowOK
<1>4. NeighborsOK(Put(Neighbors, name, row))
  BY Zenon, <1>1, <1>2, <1>3, RowPut
<1>. QED BY <1>4, NeighborsWritten DEF WithNeighbor

(* A map of filters of a row. *)
LEMMA FilterWritten ==
  ASSUME Constants, DbOK(db), HasRouter, NEW name, Found(name),
         NEW field \in {"prefix_lists", "aspath_filters", "route_maps"}, NEW map
  PROVE  DbOK(WithFilter(name, field, map))
<1> DEFINE old == Neighbors[name]
           row == [old EXCEPT ![field] = map]
<1>1. RowOK(old) /\ IsNeighbor(old) /\ NeighborsOK(Neighbors) /\ name \in DOMAIN Neighbors
  BY Zenon, RouterFound DEF Found, NeighborsOK, RowOK
<1>2. /\ IsNeighbor(row) /\ row.set = old.set /\ row.timers = old.timers /\ row.remote_as = old.remote_as
      /\ row.bgp_peer_group = old.bgp_peer_group /\ row.is_peer_group = old.is_peer_group
  BY ZenonT(60), <1>1, FilterWrite
<1>3. RowOK(row)
  BY <1>1, <1>2 DEF RowOK
<1>4. NeighborsOK(Put(Neighbors, name, row))
  BY Zenon, <1>1, <1>2, <1>3, RowPut
<1>. QED BY <1>4, NeighborsWritten DEF WithNeighbor, WithFilter

(* Rows are deleted. *)
LEMMA DeletedWritten ==
  ASSUME Constants, DbOK(db), HasRouter, NEW S \in SUBSET DOMAIN Neighbors,
         EndWithDeleted([n \in S |-> Neighbors[n]])
  PROVE  DbOK(db')
<1>1. DbOK(WithNeighbors(Unreferenced([n \in S |-> Neighbors[n]])))
  BY RouterFound, Deleted, NeighborsWritten
<1>. QED BY <1>1 DEF EndWithDeleted, END_DB_TXN, Finish

(* The maps the deletion of a group can leave hold some of the rows. *)
LEMMA DeletedMapsRestrict ==
  ASSUME NEW M, IsMap(M), NEW g, NEW map \in DeletedMaps(M, g)
  PROVE  \E S \in SUBSET DOMAIN M : map = [n \in S |-> M[n]]
<1> DEFINE Part(m) == \E S \in SUBSET DOMAIN M : m = [n \in S |-> M[n]]
           members == Members(M, g)
           kept(m) == {[n \in DOMAIN r \ (members \cup {g}) |-> r[n]] :
                         r \in bgp_neighbor_peer_group_remove_from_bgp_router(m, g)}
<1>1. ASSUME NEW m, Part(m), NEW r \in bgp_neighbor_peer_group_remove_from_bgp_router(m, g) PROVE Part(r)
  <2>1. PICK S \in SUBSET DOMAIN M : m = [n \in S |-> M[n]]
    BY <1>1
  <2>2. PICK k : r = Drop(m, k)
    BY SMTT(60), <1>1 DEF bgp_neighbor_peer_group_remove_from_bgp_router
  <2>3. r = [n \in S \ {k} |-> M[n]] /\ S \ {k} \in SUBSET DOMAIN M
    BY <2>1, <2>2 DEF Drop
  <2>. QED BY <2>3
<1>2. ASSUME NEW r, Part(r) PROVE Part([n \in DOMAIN r \ (members \cup {g}) |-> r[n]])
  <2>1. PICK S \in SUBSET DOMAIN M : r = [n \in S |-> M[n]]
    BY <1>2
  <2> DEFINE T == S \ (members \cup {g})
  <2>2. [n \in DOMAIN r \ (members \cup {g}) |-> r[n]] = [n \in T |-> M[n]] /\ T \in SUBSET DOMAIN M
    BY <2>1
  <2>. QED BY Zenon, <2>2
<1>3. ASSUME NEW m, Part(m), NEW x \in kept(m) PROVE Part(x)
  <2>1. PICK r \in bgp_neighbor_peer_group_remove_from_bgp_router(m, g) :
          x = [n \in DOMAIN r \ (members \cup {g}) |-> r[n]]
    BY SMTT(60), <1>3
  <2>2. Part(r)
    BY <1>1, <1>3
  <2>. HIDE DEF Part
  <2>. QED BY <1>2, <2>1, <2>2
<1>4. Part(M)
  BY DEF IsMap
<1>5. ASSUME NEW p, NEW m \in bgp_neighbor_remove_for_matching_peer_group_from_bgp_router(M, p) PROVE Part(m)
  BY <1>5 DEF bgp_neighbor_remove_for_matching_peer_group_from_bgp_router
<1>6. CASE members = {}
  <2>1. map \in kept(M)
    BY Zenon, <1>6 DEF DeletedMaps
  <2>. QED BY Zenon, <1>3, <1>4, <2>1
<1>7. CASE members # {}
  <2>1. PICK m \in UNION {bgp_neighbor_remove_for_matching_peer_group_from_bgp_router(M, p) : p \in members} :
          map \in kept(m)
    BY Zenon, <1>7 DEF DeletedMaps
  <2>2. Part(m)
    BY <1>5, <2>1
  <2>. QED BY Zenon, <1>3, <2>1, <2>2
<1>. QED BY <1>6, <1>7

(***************************************************************************)
(* The commands of the router.                                              *)
(***************************************************************************)

(* A prefix that was masked once is masked. *)
LEMMA MaskedOnce ==
  ASSUME Constants, NEW p \in Prefixes
  PROVE  ApplyMask(p) \in Prefixes /\ ApplyMask(ApplyMask(p)) = ApplyMask(p)
BY ZenonT(60) DEF Prefixes, ApplyMask

(* SetRouter writes a row, or nothing. *)
LEMMA RouterSet ==
  ASSUME DbOK(db), NEW row, HasRouter => RouterOK(row), SetRouter(row) PROVE DbOK(db')
BY RouterWritten DEF SetRouter, InRouter, START_DB_TXN, END_DB_TXN, ERRONEOUS_DB_TXN, Finish, Crash

(* "router bgp" and "no router bgp" keep the database consistent. *)
LEMMA RouterCreatedOrDeleted ==
  ASSUME DbOK(db), NEW asn, router_bgp(asn) \/ no_router_bgp(asn) PROVE DbOK(db')
<1>1. ASSUME router_bgp(asn) PROVE DbOK(db')
  BY <1>1, RouterAdded, NewRouterOK DEF router_bgp, START_DB_TXN, END_DB_TXN, Finish, Crash
<1>2. ASSUME no_router_bgp(asn) PROVE DbOK(db')
  BY <1>2, RouterRemoved DEF no_router_bgp, START_DB_TXN, END_DB_TXN, ABORT_DB_TXN, Finish, Crash
<1>. QED BY <1>1, <1>2

(* "bgp router-id" and its two forms of "no". *)
LEMMA RouterIdKeeps ==
  ASSUME DbOK(db), NEW id, bgp_router_id(id) \/ no_bgp_router_id_val(id) \/ no_bgp_router_id PROVE DbOK(db')
<1>1. ASSUME bgp_router_id(id) PROVE DbOK(db')
  BY Zenon, <1>1, RouterFound, RouterWrites, RouterSet DEF bgp_router_id, Refuse
<1>2. ASSUME no_bgp_router_id_val(id) PROVE DbOK(db')
  <2>1. HasRouter => DbOK(WithRouter([Router EXCEPT !.router_id = "0.0.0.0"]))
    BY Zenon, RouterFound, RouterWrites, RouterWritten
  <2>. QED BY <1>2, <2>1 DEF no_bgp_router_id_val, Refuse, InRouter, START_DB_TXN, END_DB_TXN,
                             ERRONEOUS_DB_TXN, Finish, Crash, ReturnWithoutEnd
<1>3. ASSUME no_bgp_router_id PROVE DbOK(db')
  BY Zenon, <1>3, RouterFound, RouterWrites, RouterSet DEF no_bgp_router_id
<1>. QED BY <1>1, <1>2, <1>3

(* The commands that write one column of the router row. *)
LEMMA RouterColumnsKeep ==
  ASSUME DbOK(db), NEW k, NEW h,
         \/ bgp_maxpaths(k) \/ bgp_timers(k, h) \/ no_bgp_timers
         \/ bgp_fast_external_failover \/ no_bgp_fast_external_failover
         \/ bgp_log_neighbor_changes \/ no_bgp_log_neighbor_changes
  PROVE  DbOK(db')
<1>1. ASSUME bgp_timers(k, h) PROVE DbOK(db')
  <2>1. HasRouter /\ h \notin {1, 2} => RouterOK([Router EXCEPT !.timers = <<k, h>>])
    BY Zenon, RouterFound, RouterWrites
  <2>. QED BY <1>1, <2>1, RouterFound, RouterSet DEF bgp_timers
<1>2. ASSUME no_bgp_timers PROVE DbOK(db')
  <2>1. HasRouter => RouterOK([Router EXCEPT !.timers = <<>>])
    BY Zenon, RouterFound, RouterWrites
  <2>. QED BY <1>2, <2>1, RouterSet DEF no_bgp_timers
<1>3. ASSUME bgp_maxpaths(k) PROVE DbOK(db')
  BY Zenon, <1>3, RouterFound, RouterWrites, RouterSet DEF bgp_maxpaths
<1>4. ASSUME bgp_fast_external_failover \/ no_bgp_fast_external_failover PROVE DbOK(db')
  BY Zenon, <1>4, RouterFound, RouterWrites, RouterSet DEF bgp_fast_external_failover, no_bgp_fast_external_failover
<1>5. ASSUME bgp_log_neighbor_changes \/ no_bgp_log_neighbor_changes PROVE DbOK(db')
  BY Zenon, <1>5, RouterFound, RouterWrites, RouterSet DEF bgp_log_neighbor_changes, no_bgp_log_neighbor_changes
<1>. QED BY <1>1, <1>2, <1>3, <1>4, <1>5

(* "network" and "no network" write masked prefixes only. *)
LEMMA NetworksKeep ==
  ASSUME Constants, DbOK(db), NEW p \in Prefixes, bgp_network(p) \/ no_bgp_network(p) PROVE DbOK(db')
<1> DEFINE more == Router.networks \cup {ApplyMask(p)}
           less == Router.networks \ {ApplyMask(p)}
<1>1. HasRouter => \A q \in more \cup less : q \in Prefixes /\ ApplyMask(q) = q
  BY MaskedOnce, RouterFound DEF RouterOK
<1>2. HasRouter => RouterOK([Router EXCEPT !.networks = more]) /\ RouterOK([Router EXCEPT !.networks = less])
  BY Zenon, <1>1, RouterFound, RouterWrites
<1>3. ASSUME bgp_network(p) PROVE DbOK(db')
  BY <1>2, <1>3, RouterSet DEF bgp_network
<1>4. ASSUME no_bgp_network(p) PROVE DbOK(db')
  BY <1>2, <1>4, RouterFound, RouterSet DEF no_bgp_network
<1>. QED BY <1>3, <1>4

(* A protocol leaves one of the two columns, or joins it after it left the
   other. *)
LEMMA RedistributeWrites ==
  ASSUME NEW r, RouterOK(r), NEW type, NEW name
  PROVE  /\ RouterOK(WithoutProtocol(r, type)) /\ RouterOK(WithoutRouteMap(r, type))
         /\ RouterOK([WithoutRouteMap(r, type) EXCEPT !.redistribute = @ \cup {type}])
         /\ RouterOK([WithoutProtocol(r, type) EXCEPT !.redistribute_route_map = Put(@, type, name)])
<1> DEFINE P == WithoutProtocol(r, type)
           M == WithoutRouteMap(r, type)
<1>1. r.redistribute \cap DOMAIN r.redistribute_route_map = {}
  BY DEF RouterOK
<1>2. DOMAIN Drop(r.redistribute_route_map, type) = DOMAIN r.redistribute_route_map \ {type}
  BY SMTT(60) DEF Drop
<1>3. RouterOK(P)
  BY Zenon, <1>1, RouterWrites DEF WithoutProtocol
<1>4. RouterOK(M)
  BY ZenonT(60), <1>1, <1>2, RouterWrites DEF WithoutRouteMap
<1>5. P.redistribute = r.redistribute \ {type} /\ P.redistribute_route_map = r.redistribute_route_map
  BY DEF WithoutProtocol, RouterOK, IsRouter
<1>6. M.redistribute = r.redistribute /\ M.redistribute_route_map = Drop(r.redistribute_route_map, type)
  BY DEF WithoutRouteMap, RouterOK, IsRouter
<1>7. (M.redistribute \cup {type}) \cap DOMAIN M.redistribute_route_map = {}
  BY <1>1, <1>2, <1>6
<1>8. P.redistribute \cap DOMAIN Put(P.redistribute_route_map, type, name) = {}
  BY SMTT(60), <1>1, <1>5 DEF Put
<1>. HIDE DEF P, M
<1>9. RouterOK([M EXCEPT !.redistribute = @ \cup {type}])
  BY Zenon, <1>4, <1>7, RouterWrites
<1>10. RouterOK([P EXCEPT !.redistribute_route_map = Put(@, type, name)])
  BY Zenon, <1>3, <1>8, RouterWrites
<1>. QED BY <1>3, <1>4, <1>9, <1>10 DEF P, M

(* "redistribute" moves a protocol from one column to the other. *)
LEMMA RedistributeKeeps ==
  ASSUME DbOK(db), NEW type, NEW name, cli_bgp_redistribute(type, name) PROVE DbOK(db')
<1>1. HasRouter => /\ DbOK(WithRouter([WithoutRouteMap(Router, type) EXCEPT !.redistribute = @ \cup {type}]))
                   /\ DbOK(WithRouter([WithoutProtocol(Router, type) EXCEPT
                                         !.redistribute_route_map = Put(@, type, name)]))
  BY RouterFound, RedistributeWrites, RouterWritten
<1>. QED BY Zenon, <1>1 DEF cli_bgp_redistribute, START_DB_TXN, ABORT_DB_TXN, EndUnreported, Finish, Crash

(* "no redistribute", on whichever router it finds. *)
LEMMA NoRedistributeKeeps ==
  ASSUME DbOK(db), NEW type, NEW name, cli_bgp_no_redistribute(type, name) PROVE DbOK(db')
<1>1. ASSUME NEW asn \in DOMAIN db.bgp_routers
      PROVE  /\ DbOK([db EXCEPT !.bgp_routers[asn] = WithoutProtocol(@, type)])
             /\ DbOK([db EXCEPT !.bgp_routers[asn] = WithoutRouteMap(@, type)])
  <2>1. RouterOK(db.bgp_routers[asn])
    BY DEF DbOK
  <2>. QED BY Zenon, <2>1, RedistributeWrites, RouterReplaced
<1>. QED BY Zenon, <1>1 DEF cli_bgp_no_redistribute, get_redistribute_config_in_ovsdb, START_DB_TXN, ABORT_DB_TXN,
                     EndUnreported, Finish, Crash

(* Every step of the router's commands. *)
LEMMA RouterKeeps ==
  ASSUME Constants, DbOK(db), RouterNext PROVE DbOK(db')
<1>1. ASSUME NEW name, RouteMapAppears(name) PROVE DbOK(db')
  BY <1>1 DEF RouteMapAppears, DbOK
<1>. QED BY <1>1, RouterCreatedOrDeleted, RouterIdKeeps, RouterColumnsKeep, NetworksKeep, RedistributeKeeps,
            NoRedistributeKeeps DEF RouterNext

(***************************************************************************)
(* The commands of the neighbors.                                           *)
(***************************************************************************)

(* "neighbor X remote-as N": a new peer, a peer, or a group with the peers bound to it. *)
LEMMA RemoteAsKeeps ==
  ASSUME Constants, DbOK(db), NEW name \in Names, NEW as \in RemoteAs, neighbor_remote_as(name, as)
  PROVE  DbOK(db')
<1>1. as \in Nat \ {0}
  BY Zenon DEF Constants, NeighborConstants
<1>2. ASSUME HasRouter, name \in Peers, ~ Found(name)
      PROVE  DbOK(WithNeighbors([bgp_neighbor_peer_group_insert_to_bgp_router(name, FALSE)
                                   EXCEPT ![name].remote_as = as]))
  <2> DEFINE new == NewNeighbor(FALSE)
             row == [new EXCEPT !.remote_as = as]
  <2>1. RowOK(new) /\ IsNeighbor(new) /\ new.bgp_peer_group = Unset /\ new.is_peer_group = FALSE
    BY Zenon, NewNeighborOK DEF RowOK
  <2>2. /\ IsNeighbor(row) /\ row.set = new.set /\ row.timers = new.timers /\ row.remote_as = as
        /\ row.bgp_peer_group = new.bgp_peer_group /\ row.is_peer_group = new.is_peer_group
    BY Zenon, <2>1, RemoteAsWrite
  <2>. HIDE DEF new
  <2>3. RowOK(row)
    BY Zenon, <1>1, <2>1, <2>2 DEF RowOK
  <2>4. NeighborsOK(Put(Neighbors, name, row))
    BY Zenon, <1>2, <2>1, <2>2, <2>3, RouterFound, PeerPut
  <2>5. [Put(Neighbors, name, new) EXCEPT ![name].remote_as = as] = Put(Neighbors, name, row)
    BY Zenon DEF Put
  <2>. QED BY <1>2, <2>4, <2>5, NeighborsWritten DEF bgp_neighbor_peer_group_insert_to_bgp_router, new
<1>3. ASSUME HasRouter, name \in Peers, Found(name), Neighbors[name].bgp_peer_group = Unset
      PROVE  DbOK(WithNeighbor(name, [Neighbors[name] EXCEPT !.remote_as = as]))
  <2> DEFINE old == Neighbors[name]
             row == [old EXCEPT !.remote_as = as]
  <2>1. RowOK(old) /\ IsNeighbor(old) /\ NeighborsOK(Neighbors)
    BY Zenon, <1>3, RouterFound DEF Found, NeighborsOK, RowOK
  <2>2. /\ IsNeighbor(row) /\ row.set = old.set /\ row.timers = old.timers /\ row.remote_as = as
        /\ row.bgp_peer_group = old.bgp_peer_group /\ row.is_peer_group = old.is_peer_group
    BY <2>1, RemoteAsWrite
  <2>3. RowOK(row)
    BY Zenon, <1>1, <2>1, <2>2 DEF RowOK
  <2>4. NeighborsOK(Put(Neighbors, name, row))
    BY Zenon, <1>3, <2>1, <2>2, <2>3, PeerPut
  <2>. QED BY <1>3, <2>4, NeighborsWritten DEF WithNeighbor
<1>4. ASSUME HasRouter, name \notin Peers, Found(name)
      PROVE  DbOK(WithNeighbors(
               [n \in DOMAIN Neighbors |->
                  IF \/ n = name
                     \/ /\ ~ Neighbors[n].is_peer_group
                        /\ Neighbors[n].bgp_peer_group = name
                  THEN [Neighbors[n] EXCEPT !.remote_as = as]
                  ELSE Neighbors[n]]))
  BY Zenon, <1>1, <1>4, RouterFound, GroupRemoteAs, NeighborsWritten DEF Found
<1>. QED BY Zenon, <1>2, <1>3, <1>4 DEF neighbor_remote_as, BoundPeerRefused, InRouter, START_DB_TXN, END_DB_TXN,
                                 ERRONEOUS_DB_TXN, ABORT_DB_TXN, Finish, Crash

(* A peer is removed from the map. *)
LEMMA PeerDropped ==
  ASSUME Constants, DbOK(db), HasRouter, NEW name, EndWithDeleted(Drop(Neighbors, name)) PROVE DbOK(db')
<1> DEFINE S == DOMAIN Neighbors \ {name}
<1>1. Drop(Neighbors, name) = [n \in S |-> Neighbors[n]] /\ S \in SUBSET DOMAIN Neighbors
  BY DEF Drop
<1>. QED BY <1>1, DeletedWritten

(* A group is removed with the peers bound to it, and whatever else the maps
   that are written leave out. *)
LEMMA GroupDeleteKeeps ==
  ASSUME Constants, DbOK(db), HasRouter, NEW name, delete_neighbor_peer_group(name) PROVE DbOK(db')
<1>1. ASSUME NEW map \in DeletedMaps(Neighbors, name), EndWithDeleted(map) PROVE DbOK(db')
  <2>1. PICK S \in SUBSET DOMAIN Neighbors : map = [n \in S |-> Neighbors[n]]
    BY RouterFound, DeletedMapsRestrict
  <2>. QED BY <1>1, <2>1, DeletedWritten
<1>. QED BY <1>1 DEF delete_neighbor_peer_group, ERRONEOUS_DB_TXN, Finish, Crash

(* "no neighbor X" and "no neighbor WORD peer-group". *)
LEMMA NoNeighborKeeps ==
  ASSUME Constants, DbOK(db), NEW name, no_neighbor(name) \/ no_neighbor_peer_group(name) PROVE DbOK(db')
BY PeerDropped, GroupDeleteKeeps
   DEF no_neighbor, no_neighbor_peer_group, InRouter, START_DB_TXN, END_DB_TXN, ERRONEOUS_DB_TXN, Finish, Crash

(* "neighbor WORD peer-group". *)
LEMMA NewGroupKeeps ==
  ASSUME Constants, DbOK(db), NEW name \in GroupWords, neighbor_peer_group(name) PROVE DbOK(db')
<1>1. HasRouter /\ ~ Found(name) =>
        DbOK(WithNeighbors(bgp_neighbor_peer_group_insert_to_bgp_router(name, TRUE)))
  BY Zenon, RouterFound, GroupPut, NeighborsWritten
     DEF Constants, NeighborConstants, Names, Found, bgp_neighbor_peer_group_insert_to_bgp_router
<1>. QED BY Zenon, <1>1 DEF neighbor_peer_group, InRouter, START_DB_TXN, END_DB_TXN, ERRONEOUS_DB_TXN, ABORT_DB_TXN,
                     Finish, Crash

(* "neighbor A.B.C.D peer-group WORD": the peer has the AS number of its group. *)
LEMMA BindKeeps ==
  ASSUME Constants, DbOK(db), NEW peer \in Peers, NEW group \in GroupWords, neighbor_set_peer_group(peer, group)
  PROVE  DbOK(db')
<1> DEFINE row == IF Found(peer) THEN Neighbors[peer] ELSE NewNeighbor(FALSE)
           as == IF Neighbors[group].remote_as # 0 THEN Neighbors[group].remote_as ELSE row.remote_as
           bound == [row EXCEPT !.remote_as = as, !.bgp_peer_group = group]
<1>1. ASSUME HasRouter, Found(group), row.bgp_peer_group = Unset, as # 0
      PROVE  DbOK(WithNeighbor(peer, bound))
  <2>1. NeighborsOK(Neighbors) /\ group \in DOMAIN Neighbors /\ RowOK(Neighbors[group])
    BY Zenon, <1>1, RouterFound DEF Found, NeighborsOK
  <2>2. RowOK(row)
    BY Zenon, <1>1, <2>1, NewNeighborOK DEF Found, NeighborsOK
  <2>3. IsNeighbor(row) /\ as \in Nat /\ Neighbors[group].remote_as \in {0, as}
    BY Zenon, <2>1, <2>2 DEF RowOK
  <2>. HIDE DEF as, row
  <2> DEFINE numbered == [row EXCEPT !.remote_as = as]
  <2>4. /\ IsNeighbor(bound) /\ bound.set = row.set /\ bound.timers = row.timers /\ bound.remote_as = as
        /\ bound.bgp_peer_group = group /\ bound.is_peer_group = row.is_peer_group
    <3>1. /\ IsNeighbor(numbered) /\ numbered.set = row.set /\ numbered.timers = row.timers
          /\ numbered.remote_as = as /\ numbered.is_peer_group = row.is_peer_group
      BY <2>3, RemoteAsWrite
    <3> DEFINE both == [numbered EXCEPT !.bgp_peer_group = group]
    <3>2. bound = both
      OBVIOUS
    <3>. HIDE DEF numbered, bound
    <3>3. /\ IsNeighbor(both) /\ both.set = numbered.set /\ both.timers = numbered.timers
          /\ both.remote_as = numbered.remote_as /\ both.bgp_peer_group = group
          /\ both.is_peer_group = numbered.is_peer_group
      BY ZenonT(60), <3>1, GroupWrite
    <3>. HIDE DEF both
    <3>. QED BY <3>1, <3>2, <3>3
  <2>. HIDE DEF bound
  <2>5. RowOK(bound)
    BY Zenon, <2>2, <2>3, <2>4 DEF RowOK
  <2>6. NeighborsOK(Put(Neighbors, peer, bound))
    BY Zenon, <1>1, <2>1, <2>2, <2>3, <2>4, <2>5, PeerPut
  <2>. QED BY <1>1, <2>6, NeighborsWritten DEF WithNeighbor
<1>. QED BY Zenon, <1>1 DEF neighbor_set_peer_group, InRouter, START_DB_TXN, END_DB_TXN, ERRONEOUS_DB_TXN,
                     ABORT_DB_TXN, Finish, Crash

(* "no neighbor A.B.C.D peer-group WORD". *)
LEMMA UnbindKeeps ==
  ASSUME Constants, DbOK(db), NEW peer \in Peers, no_neighbor_set_peer_group(peer) PROVE DbOK(db')
<1> DEFINE old == Neighbors[peer]
           row == [old EXCEPT !.bgp_peer_group = Unset]
<1>1. ASSUME HasRouter, Found(peer) PROVE DbOK(WithNeighbor(peer, row))
  <2>1. RowOK(old) /\ IsNeighbor(old) /\ NeighborsOK(Neighbors)
    BY Zenon, <1>1, RouterFound DEF Found, NeighborsOK, RowOK
  <2>2. /\ IsNeighbor(row) /\ row.set = old.set /\ row.timers = old.timers /\ row.remote_as = old.remote_as
        /\ row.bgp_peer_group = Unset /\ row.is_peer_group = old.is_peer_group
    BY <2>1, GroupWrite
  <2>3. RowOK(row)
    BY <2>1, <2>2 DEF RowOK
  <2>4. NeighborsOK(Put(Neighbors, peer, row))
    BY Zenon, <2>1, <2>2, <2>3, PeerPut
  <2>. QED BY <1>1, <2>4, NeighborsWritten DEF WithNeighbor
<1>. QED BY <1>1, PeerDropped
         DEF no_neighbor_set_peer_group, InRouter, START_DB_TXN, END_DB_TXN, ERRONEOUS_DB_TXN, ABORT_DB_TXN,
             Finish, Crash

(* Every step that adds, binds or removes a row. *)
LEMMA NeighborsKeep ==
  ASSUME Constants, DbOK(db), NeighborNext PROVE DbOK(db')
BY RemoteAsKeeps, NoNeighborKeeps, NewGroupKeeps, BindKeeps, UnbindKeeps DEF NeighborNext

(* The steps that set or unset one column, whatever the name they are given. *)
LEMMA SetIfFoundKeeps ==
  ASSUME Constants, DbOK(db), NEW name, NEW column,
         column \notin {"ebgp_multihop", "ttl_security_hops"}, NEW on,
         SetIfFound(name, column, on)
  PROVE  DbOK(db')
<1>1. HasRouter => DbOK(Column(name, column, on))
  BY ColumnWritten
<1>. QED BY <1>1 DEF SetIfFound, InRouter, START_DB_TXN, END_DB_TXN, ERRONEOUS_DB_TXN, Finish, Crash

(* The same for the commands that refuse to change nothing. *)
LEMMA SetIfChangedKeeps ==
  ASSUME Constants, DbOK(db), NEW name, NEW column,
         column \notin {"ebgp_multihop", "ttl_security_hops"}, NEW on,
         SetIfChanged(name, column, on)
  PROVE  DbOK(db')
<1>1. HasRouter => DbOK(Column(name, column, on))
  BY ColumnWritten
<1>. QED BY <1>1 DEF SetIfChanged, InRouter, START_DB_TXN, END_DB_TXN, ERRONEOUS_DB_TXN, ABORT_DB_TXN, Finish, Crash

(* The same for "neighbor X weight". *)
LEMMA WeightKeeps ==
  ASSUME Constants, DbOK(db), NEW name, NEW on, neighbor_weight(name, on) PROVE DbOK(db')
<1>1. HasRouter => DbOK(Column(name, "weight", on))
  BY ColumnWritten
<1>. QED BY <1>1 DEF neighbor_weight, InRouter, START_DB_TXN, END_DB_TXN, ERRONEOUS_DB_TXN, Finish, Crash

(* The "no" of ebgp-multihop and of ttl-security. *)
LEMMA NotExclusiveKeeps ==
  ASSUME Constants, DbOK(db), NEW name, NEW column, NotExclusive(name, column) PROVE DbOK(db')
<1>1. HasRouter => DbOK(Column(name, column, FALSE))
  BY Zenon, ColumnWritten
<1>. QED BY Zenon, <1>1 DEF NotExclusive, InRouter, START_DB_TXN, END_DB_TXN, ERRONEOUS_DB_TXN, ABORT_DB_TXN, Finish, Crash

(* ebgp-multihop and ttl-security: each looks at the other column first. *)
LEMMA ExcludedKeeps ==
  ASSUME Constants, DbOK(db), NEW name, neighbor_ebgp_multihop(name) \/ neighbor_ttl_security(name)
  PROVE  DbOK(db')
<1>1. HasRouter /\ ~ Excluded(name, "ebgp_multihop", "ttl_security_hops") =>
        DbOK(Column(name, "ebgp_multihop", TRUE))
  BY Zenon, ColumnWritten DEF Excluded
<1>2. HasRouter /\ ~ Excluded(name, "ttl_security_hops", "ebgp_multihop") =>
        DbOK(Column(name, "ttl_security_hops", TRUE))
  BY Zenon, ColumnWritten DEF Excluded
<1>. QED BY Zenon, <1>1, <1>2 DEF neighbor_ebgp_multihop, neighbor_ttl_security, InRouter, START_DB_TXN, END_DB_TXN,
                           EndUnreported, ERRONEOUS_DB_TXN, ABORT_DB_TXN, Finish, Crash

(* "neighbor X timers K H": the keepalive is at most a third of the hold time. *)
LEMMA TimersKeep ==
  ASSUME Constants, DbOK(db), NEW name, NEW k \in Times, NEW h \in Times,
         neighbor_timers(name, k, h)
  PROVE  DbOK(db')
<1> DEFINE t == <<Least(k, h \div 3), h>>
<1>1. k \in Nat /\ h \in Nat
  BY DEF Constants, BgpConstants
<1>2. 3 * (h \div 3) <= h /\ h \div 3 \in Nat
  BY <1>1
<1>3. 3 * Least(k, h \div 3) <= h
  BY <1>1, <1>2 DEF Least
<1>4. t # <<>> /\ t[1] = Least(k, h \div 3) /\ t[2] = h
  OBVIOUS
<1>. HIDE DEF t
<1>5. HasRouter /\ Found(name) /\ h \notin {1, 2} =>
        DbOK(WithNeighbor(name, [Neighbors[name] EXCEPT !.timers = t]))
  BY <1>3, <1>4, TimersWritten
<1>. QED BY <1>5 DEF t, neighbor_timers, Refuse, InRouter, START_DB_TXN, END_DB_TXN, ERRONEOUS_DB_TXN, Finish, Crash

(* "no neighbor X timers". *)
LEMMA TimersUnsetKeeps ==
  ASSUME Constants, DbOK(db), NEW name, no_neighbor_timers(name) PROVE DbOK(db')
<1>1. HasRouter /\ Found(name) => DbOK(WithNeighbor(name, [Neighbors[name] EXCEPT !.timers = <<>>]))
  BY TimersWritten
<1>. QED BY <1>1 DEF no_neighbor_timers, InRouter, START_DB_TXN, END_DB_TXN, ERRONEOUS_DB_TXN, Finish, Crash


(* Every step of the commands that set one column. *)
LEMMA ColumnsKeep ==
  ASSUME Constants, DbOK(db), ColumnNext PROVE DbOK(db')
<1>1. PICK n \in Names : ColumnNext!(n)
  BY DEF ColumnNext
<1>2. ASSUME \/ neighbor_password(n) \/ no_neighbor_password(n)
             \/ neighbor_bfd_fallover_enable(n) \/ no_neighbor_bfd_fallover_enable(n)
      PROVE  DbOK(db')
  <2>1. InRouter(END_DB_TXN(db)) => DbOK(db')
    BY DEF InRouter, START_DB_TXN, END_DB_TXN, ERRONEOUS_DB_TXN, Finish, Crash
  <2>. QED BY Zenon, <1>2, <2>1, SetIfFoundKeeps
           DEF neighbor_password, no_neighbor_password, neighbor_bfd_fallover_enable, no_neighbor_bfd_fallover_enable
<1>3. ASSUME \/ neighbor_shutdown(n) \/ no_neighbor_shutdown(n)
             \/ neighbor_remove_private_as(n) \/ no_neighbor_remove_private_as(n)
             \/ neighbor_soft_reconfiguration(n) \/ no_neighbor_soft_reconfiguration(n)
      PROVE  DbOK(db')
  BY Zenon, <1>3, SetIfChangedKeeps DEF neighbor_shutdown, no_neighbor_shutdown, neighbor_remove_private_as,
        no_neighbor_remove_private_as, neighbor_soft_reconfiguration, no_neighbor_soft_reconfiguration
<1>4. ASSUME \/ neighbor_description(n) \/ no_neighbor_description(n)
             \/ neighbor_advertise_interval(n) \/ no_neighbor_advertise_interval(n)
             \/ neighbor_allowas_in(n) \/ no_neighbor_allowas_in(n)
      PROVE  DbOK(db')
  BY Zenon, <1>4, SetIfFoundKeeps DEF neighbor_description, no_neighbor_description, neighbor_advertise_interval,
        no_neighbor_advertise_interval, neighbor_allowas_in, no_neighbor_allowas_in
<1>5. ASSUME NEW on \in BOOLEAN, neighbor_weight(n, on) PROVE DbOK(db')
  BY <1>5, WeightKeeps
<1>6. ASSUME no_neighbor_ebgp_multihop(n) \/ no_neighbor_ttl_security(n) PROVE DbOK(db')
  BY <1>6, NotExclusiveKeeps DEF no_neighbor_ebgp_multihop, no_neighbor_ttl_security
<1>7. ASSUME neighbor_ebgp_multihop(n) \/ neighbor_ttl_security(n) PROVE DbOK(db')
  BY <1>7, ExcludedKeeps
<1>8. ASSUME NEW k \in Times, NEW h \in Times, neighbor_timers(n, k, h) PROVE DbOK(db')
  BY <1>8, TimersKeep
<1>9. ASSUME no_neighbor_timers(n) PROVE DbOK(db')
  BY <1>9, TimersUnsetKeeps
<1>. QED BY SMTT(60), <1>1, <1>2, <1>3, <1>4, <1>5, <1>6, <1>7, <1>8, <1>9

(* Every step of the commands that set or unset a filter. *)
LEMMA FiltersKeep ==
  ASSUME Constants, DbOK(db), FilterNext PROVE DbOK(db')
<1>1. PICK n \in Names, dir \in Directions : FilterNext!(n, dir)
  BY DEF FilterNext
<1>2. HasRouter /\ Found(n) =>
        \A map : /\ DbOK(WithFilter(n, "prefix_lists", map)) /\ DbOK(WithFilter(n, "aspath_filters", map))
                 /\ DbOK(WithFilter(n, "route_maps", map))
  BY FilterWritten
<1>3. ASSUME NEW list, neighbor_prefix_list(n, list, dir) \/ no_neighbor_prefix_list(n, dir) PROVE DbOK(db')
  BY <1>2, <1>3 DEF neighbor_prefix_list, no_neighbor_prefix_list, InRouter, START_DB_TXN, END_DB_TXN,
                    ERRONEOUS_DB_TXN, ABORT_DB_TXN, Finish, Crash
<1>4. ASSUME NEW list, neighbor_filter_list(n, list, dir) \/ no_neighbor_filter_list(n, dir) PROVE DbOK(db')
  BY <1>2, <1>4 DEF neighbor_filter_list, no_neighbor_filter_list, get_bgp_neighbor, START_DB_TXN, END_DB_TXN,
                    ERRONEOUS_DB_TXN, ABORT_DB_TXN, Finish, Crash
<1>5. ASSUME NEW map, neighbor_route_map(n, map, dir) PROVE DbOK(db')
  BY <1>2, <1>5 DEF neighbor_route_map, InRouter, START_DB_TXN, END_DB_TXN, ERRONEOUS_DB_TXN, Finish, Crash
<1>6. ASSUME no_neighbor_route_map(n, dir) PROVE DbOK(db')
  BY <1>2, <1>6 DEF no_neighbor_route_map, InRouter, START_DB_TXN, END_DB_TXN, ERRONEOUS_DB_TXN, ABORT_DB_TXN,
                    Finish, Crash
<1>. QED BY <1>1, <1>3, <1>4, <1>5, <1>6

(* What the invariant says of the properties the run checks. *)
LEMMA InvImpliesConsistent == ASSUME Constants, BgpInv PROVE BgpConsistent
<1>1. \A a \in DOMAIN db.bgp_routers : RouterOK(db.bgp_routers[a])
  BY DEF BgpInv, DbOK
<1>2. \A r \in Routers : RouterOK(r) /\ NeighborsOK(r.bgp_neighbors)
  BY <1>1 DEF Routers, RouterOK
<1>3. \A row \in Rows : RowOK(row) /\ (row.bgp_peer_group # Unset => row.remote_as # 0)
  BY <1>2 DEF Rows, NeighborsOK, BoundOK
<1>4. OneRouter
  <2>1. CASE DOMAIN db.bgp_routers = {}
    BY <2>1, FS_EmptySet DEF OneRouter
  <2>2. CASE DOMAIN db.bgp_routers # {}
    <3>1. PICK a : DOMAIN db.bgp_routers = {a}
      BY Zenon, <2>2 DEF BgpInv, DbOK
    <3>2. Cardinality({a}) = 1
      BY Zenon, FS_Singleton
    <3>. QED BY <3>1, <3>2 DEF OneRouter
  <2>. QED BY <2>1, <2>2
<1>5. RedistributeOnce /\ NetworksMasked
  BY <1>2 DEF RedistributeOnce, NetworksMasked, RouterOK
<1>6. BoundHasRemoteAs
  BY <1>3 DEF BoundHasRemoteAs
<1>7. MultihopOrTtl
  BY <1>3 DEF MultihopOrTtl, RowOK
<1>8. TimersSane
  BY SMTT(60), <1>2, <1>3 DEF TimersSane, RowOK, RouterOK
<1>9. GroupRemoteAsPrimary
  BY <1>2 DEF GroupRemoteAsPrimary, NeighborsOK, BoundOK, Constants, NeighborConstants
<1>. QED BY <1>4, <1>5, <1>6, <1>7, <1>8, <1>9 DEF BgpConsistent

(* The invariant holds at all times. *)
THEOREM BgpInvariant == ASSUME Constants PROVE Spec => []BgpInv
<1>1. RouterInit => BgpInv
  BY DEF NoTables, RouterInit, BgpInv, DbOK, IsMap, EmptyMap
<1>2. BgpInv /\ [Next]_bgpVars => BgpInv'
  <2> SUFFICES ASSUME DbOK(db), [Next]_bgpVars PROVE DbOK(db')
    BY DEF BgpInv
  <2>1. CASE Next
    BY <2>1, RouterKeeps, NeighborsKeep, ColumnsKeep, FiltersKeep DEF Next
  <2>2. CASE UNCHANGED bgpVars
    BY <2>2 DEF bgpVars
  <2>. QED BY <2>1, <2>2
<1>. QED BY <1>1, <1>2, PTL DEF Spec

(* BgpConsistent, of the commands of bgp_vty.c: one router, a protocol
   redistributed once, masked networks, bound peers with the AS number of
   their group, no row with multihop and ttl-security, timers in range. The
   words typed for groups may be addresses. *)
THEOREM BgpStaysConsistent == ASSUME Constants PROVE Spec => []BgpConsistent
<1>1. BgpInv => BgpConsistent
  BY InvImpliesConsistent
<1>. QED BY <1>1, BgpInvariant, PTL
===============================================================================
