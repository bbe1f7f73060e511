--------------------------------- MODULE MCBgp ---------------------------------
(* Instances of BgpNeighbor for TLC. *)
EXTENDS BgpNeighbor, Functions, TLC

CONSTANTS
    MaxSettings,    \* columns set on the router and its neighbors together
    MaxNames,       \* entries of bgp_neighbors, beside settings
    as1, as2, p1, p2, g1

Bit(condition) == IF condition THEN 1 ELSE 0

NeighborSettings(row) ==
    Cardinality(row.set) + Bit(row.timers # <<>>) + Cardinality(DOMAIN row.prefix_lists)
      + Cardinality(DOMAIN row.aspath_filters) + Cardinality(DOMAIN row.route_maps)

RouterSettings(r) ==
    Bit(r.router_id # Unset) + Bit(r.maximum_paths # 0) + Bit(r.timers # <<>>)
      + Bit(~ r.fast_external_failover) + Bit(r.log_neighbor_changes)
      + Cardinality(r.networks) + Cardinality(r.redistribute)
      + Cardinality(DOMAIN r.redistribute_route_map)

AllNeighborSettings(r) ==
    SumFunction([n \in DOMAIN r.bgp_neighbors |-> NeighborSettings(r.bgp_neighbors[n])])

(* The bound: few settings at a time, and fewer beside many names.  No command looks
   at settings of the router and of a neighbor together. *)
Bounded ==
    \A r \in Routers :
        LET settings == RouterSettings(r) + AllNeighborSettings(r)
        IN  /\ settings <= MaxSettings
            /\ RouterSettings(r) = 0 \/ AllNeighborSettings(r) = 0
            /\ settings + Cardinality(DOMAIN r.bgp_neighbors) <= MaxNames

(* What a command returned does not influence the next one. *)
View == <<db, vtysh, ctx>>

Symmetry == Permutations(Peers) \cup Permutations(ASN)
================================================================================
