------------------------------- MODULE BgpRouter -------------------------------
(***************************************************************************)
(* The router level of the BGP configuration commands (vtysh/bgp_vty.c):   *)
(* "router bgp" and what is set on the BGP_Router row itself.  Every        *)
(* command works on the default VRF, whose bgp_routers column maps an AS    *)
(* number to a row, and finds its row by the AS number that "router bgp"    *)
(* left in vty->index.  Neighbors are added by module BgpNeighbor.          *)
(***************************************************************************)
EXTENDS BgpTables

CONSTANTS
    ASN,            \* AS numbers
    RouterIds,      \* addresses typed as a router id
    Times,          \* seconds typed as a timer
    AddrBits,       \* width of the addresses of this model
    Protocols,      \* connected, static, ospf
    RouteMapNames,  \* names of route maps
    None            \* no AS number: the session is not under "router bgp"

(* What the constants must satisfy. *)
BgpConstants ==
    /\ None \notin ASN
    /\ AddrBits \in Nat \ {0}
    /\ Times \subseteq Nat

VARIABLE ctx        \* vty->index under BGP_NODE, or None

bgpVars == <<db, ret, vtysh, ctx>>

Unset == "unset"

(* A prefix as typed, with the bits of its address that are one, counted from
   the front; and as apply_mask leaves it: no bit past the length. *)
Prefixes == [addr : SUBSET (1 .. AddrBits), len : 0 .. AddrBits]

ApplyMask(p) == [p EXCEPT !.addr = @ \cap (1 .. p.len)]

NewRouter ==
    [router_id |-> Unset, maximum_paths |-> 0, timers |-> <<>>,
     fast_external_failover |-> TRUE, log_neighbor_changes |-> FALSE,
     networks |-> {}, redistribute |-> {}, redistribute_route_map |-> EmptyMap,
     bgp_neighbors |-> EmptyMap]

(* The row a command works on: bgp_routers of the VRF at vty->index. *)
HasRouter == ctx \in DOMAIN db.bgp_routers

Router == db.bgp_routers[ctx]

WithRouter(row) == [db EXCEPT !.bgp_routers[ctx] = row]

(* A command of BGP_NODE: without its row it aborts with a warning. *)
InRouter(rest) ==
    /\ ctx # None
    /\ START_DB_TXN(IF HasRouter THEN rest ELSE ERRONEOUS_DB_TXN)
    /\ UNCHANGED ctx

SetRouter(row) == InRouter(END_DB_TXN(WithRouter(row)))

(* The VRF takes one more router under its AS number, or loses one. *)
bgp_router_insert_to_vrf(asn) ==
    [db EXCEPT !.bgp_routers = Put(@, asn, NewRouter)]

bgp_router_remove_from_vrf(asn) ==
    [db EXCEPT !.bgp_routers = Drop(@, asn)]

(* Mutant: any AS number may be added. *)
router_bgp_AnyAs(asn) ==
    /\ START_DB_TXN(END_DB_TXN(IF asn \in DOMAIN db.bgp_routers
                               THEN db
                               ELSE bgp_router_insert_to_vrf(asn)))
    /\ ctx' = IF vtysh = "ready" THEN asn ELSE ctx

(* "router bgp N": another AS number runs already, or enter the context,
   whose node and index are set before the commit is tried. *)
router_bgp(asn) ==
    IF DOMAIN db.bgp_routers \ {asn} # {}
    THEN START_DB_TXN(END_DB_TXN(db)) /\ UNCHANGED ctx
    ELSE /\ START_DB_TXN(END_DB_TXN(IF asn \in DOMAIN db.bgp_routers
                                    THEN db
                                    ELSE bgp_router_insert_to_vrf(asn)))
         /\ ctx' = IF vtysh = "ready" THEN asn ELSE ctx

(* "no router bgp N", of this session, which it takes back to the
   configuration node, or of another one, which leaves ctx behind. *)
no_router_bgp(asn) ==
    /\ START_DB_TXN(IF asn \in DOMAIN db.bgp_routers
                    THEN END_DB_TXN(bgp_router_remove_from_vrf(asn))
                    ELSE ABORT_DB_TXN)
    /\ ctx' \in {ctx, None}

(* "bgp router-id A.B.C.D": 0.0.0.0 is refused before the transaction. *)
bgp_router_id(id) ==
    IF id = "0.0.0.0"
    THEN ctx # None /\ Refuse("CMD_WARNING") /\ UNCHANGED ctx
    ELSE SetRouter([Router EXCEPT !.router_id = id])

(* Mutant: an empty text is stored. *)
no_bgp_router_id_Empty == SetRouter([Router EXCEPT !.router_id = ""])

(* "no bgp router-id": the stored value becomes 0.0.0.0, not absent. *)
no_bgp_router_id == SetRouter([Router EXCEPT !.router_id = "0.0.0.0"])

(* "no bgp router-id A.B.C.D": strcmp with an absent column follows a NULL
   pointer, and a mismatch returns with the transaction open. *)
no_bgp_router_id_val(id) ==
    IF id = "0.0.0.0"
    THEN ctx # None /\ Refuse("CMD_WARNING") /\ UNCHANGED ctx
    ELSE InRouter(
           CASE Router.router_id = Unset -> Crash
             [] Router.router_id = id ->
                  END_DB_TXN(WithRouter([Router EXCEPT !.router_id = "0.0.0.0"]))
             [] OTHER -> ReturnWithoutEnd("CMD_WARNING"))

(* "maximum-paths N", and 0 for "no maximum-paths": unset. *)
bgp_maxpaths(n) == SetRouter([Router EXCEPT !.maximum_paths = n])

(* "timers bgp K H": a hold time of 1 or 2 is reported and not written,
   but the transaction is committed all the same. *)
bgp_timers(keepalive, holdtime) ==
    SetRouter(IF holdtime \in {1, 2} THEN Router
              ELSE [Router EXCEPT !.timers = <<keepalive, holdtime>>])

no_bgp_timers == SetRouter([Router EXCEPT !.timers = <<>>])

bgp_fast_external_failover == SetRouter([Router EXCEPT !.fast_external_failover = TRUE])

no_bgp_fast_external_failover ==
    SetRouter([Router EXCEPT !.fast_external_failover = FALSE])

bgp_log_neighbor_changes == SetRouter([Router EXCEPT !.log_neighbor_changes = TRUE])

no_bgp_log_neighbor_changes ==
    SetRouter([Router EXCEPT !.log_neighbor_changes = FALSE])

(* Mutant: the prefix is stored as it was typed. *)
bgp_network_Unmasked(p) == SetRouter([Router EXCEPT !.networks = @ \cup {p}])

(* "network A.B.C.D/M" and its IPv6 form: the masked prefix joins the set. *)
bgp_network(p) == SetRouter([Router EXCEPT !.networks = @ \cup {ApplyMask(p)}])

(* "no network": the masked prefix is looked for in every router, and leaves
   the set of this one. *)
verify_network_in_bgp_router_table(p) ==
    \E asn \in DOMAIN db.bgp_routers : p \in db.bgp_routers[asn].networks

no_bgp_network(p) ==
    SetRouter(IF verify_network_in_bgp_router_table(ApplyMask(p))
              THEN [Router EXCEPT !.networks = @ \ {ApplyMask(p)}]
              ELSE Router)

redistribute_protocol_config_exists(row, type) == type \in row.redistribute

redistribute_rmap_config_exists(row, type) ==
    type \in DOMAIN row.redistribute_route_map

(* Mutant: the protocol stays in the other column. *)
WithoutRouteMap_Kept(row, type) == row

(* The protocol leaves one of the two columns. *)
WithoutProtocol(row, type) == [row EXCEPT !.redistribute = @ \ {type}]

WithoutRouteMap(row, type) == [row EXCEPT !.redistribute_route_map = Drop(@, type)]

(* "redistribute TYPE [route-map NAME]": the protocol joins one of the two
   columns and leaves the other, in one transaction. *)
cli_bgp_redistribute(type, name) ==
    /\ ctx # None
    /\ START_DB_TXN(
         CASE ~ HasRouter -> ABORT_DB_TXN
           [] HasRouter /\ name = Unset ->
                IF redistribute_protocol_config_exists(Router, type)
                THEN ABORT_DB_TXN
                ELSE EndUnreported(WithRouter(
                       [WithoutRouteMap(Router, type) EXCEPT !.redistribute = @ \cup {type}]))
           [] HasRouter /\ name # Unset ->
                IF \/ redistribute_rmap_config_exists(Router, type)
                   \/ name \notin DOMAIN db.route_maps
                THEN ABORT_DB_TXN
                ELSE EndUnreported(WithRouter(
                       [WithoutProtocol(Router, type) EXCEPT
                          !.redistribute_route_map = Put(@, type, name)])))
    /\ UNCHANGED ctx

(* The row "no redistribute" works on is the first of the BGP_Router table,
   or the first that redistributes TYPE through NAME; it does not look at
   vty->index. *)
get_redistribute_config_in_ovsdb(type, name) ==
    {asn \in DOMAIN db.bgp_routers :
        /\ redistribute_rmap_config_exists(db.bgp_routers[asn], type)
        /\ db.bgp_routers[asn].redistribute_route_map[type] = name}

cli_bgp_no_redistribute(type, name) ==
    /\ ctx # None
    /\ START_DB_TXN(
         \/ ABORT_DB_TXN
         \/ /\ name = Unset
            /\ \E asn \in DOMAIN db.bgp_routers :
                 EndUnreported([db EXCEPT !.bgp_routers[asn] = WithoutProtocol(@, type)])
         \/ \E asn \in get_redistribute_config_in_ovsdb(type, name) :
                 EndUnreported([db EXCEPT !.bgp_routers[asn] = WithoutRouteMap(@, type)]))
    /\ UNCHANGED ctx

(* External: a route map is configured. *)
RouteMapAppears(name) ==
    /\ vtysh = "ready"
    /\ db' = [db EXCEPT !.route_maps = Put(@, name, EmptyMap)]
    /\ UNCHANGED <<ret, vtysh, ctx>>

RouterInit ==
    /\ db = NoTables
    /\ ret = "CMD_SUCCESS"
    /\ vtysh = "ready"
    /\ ctx = None

RouterNext ==
    \/ \E asn \in ASN : router_bgp(asn) \/ no_router_bgp(asn)
    \/ \E id \in RouterIds : bgp_router_id(id) \/ no_bgp_router_id_val(id)
    \/ no_bgp_router_id
    \/ \E n \in {0, 1} : bgp_maxpaths(n)
    \/ \E k, h \in Times : bgp_timers(k, h)
    \/ no_bgp_timers
    \/ bgp_fast_external_failover \/ no_bgp_fast_external_failover
    \/ bgp_log_neighbor_changes \/ no_bgp_log_neighbor_changes
    \/ \E p \in Prefixes : bgp_network(p) \/ no_bgp_network(p)
    \/ \E type \in Protocols, name \in RouteMapNames \cup {Unset} :
         cli_bgp_redistribute(type, name) \/ cli_bgp_no_redistribute(type, name)
    \/ \E name \in RouteMapNames : RouteMapAppears(name)
===============================================================================
