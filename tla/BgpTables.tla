------------------------------ MODULE BgpTables ------------------------------
(***************************************************************************)
(* The tables vtysh/bgp_vty.c configures: the BGP routers of the VRF with   *)
(* their neighbors (BgpRouter, BgpNeighbor), and the policy objects         *)
(* (RoutePolicy), of which the former name the route maps.                  *)
(***************************************************************************)
EXTENDS OvsdbCommand

NoTables ==
    [bgp_routers |-> EmptyMap, prefix_lists |-> EmptyMap, aspath_filters |-> {},
     community_filters |-> {}, route_maps |-> EmptyMap]
==============================================================================
