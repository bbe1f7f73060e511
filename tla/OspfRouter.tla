------------------------------ MODULE OspfRouter ------------------------------
(***************************************************************************)
(* The router level of the OSPF commands (vtysh/ospf_vty.c): "router ospf" *)
(* and what is set on the OSPF_Router row and its areas.  There is one       *)
(* instance, of the default VRF, so the table is a sequence of at most one   *)
(* row.                                                                     *)
(*                                                                          *)
(* What a command does to the row is an operator of its own, used by the    *)
(* command and to re-enter the printed configuration on a fresh row.        *)
(*                                                                          *)
(* A command is entered in OSPF_NODE.  Another session may have removed the *)
(* router since: that is RemovedElsewhere.                                  *)
(***************************************************************************)
EXTENDS OvsdbCommand, OspfText, Sequences

CONSTANTS
    Areas,          \* area ids, as the four bytes of an address
    Ranges,         \* network ranges, as typed
    RouterIds,      \* router ids other than 0.0.0.0
    Numbers,        \* numbers typed as a metric, a cost, a time or a distance
    Redistributed   \* connected, static, bgp

(* What the constants are taken for. *)
OspfConstants ==
    /\ \A a \in Areas : a \in [1 .. 4 -> 0 .. 255]
    /\ Numbers \subseteq Nat

VARIABLE ctx        \* whether the session is in OSPF_NODE

ospfVars == <<db, ret, vtysh, ctx>>

Absent == "absent"

Backbone == <<0, 0, 0, 0>>

(* The defaults the commands and the printers agree on. *)
OSPF_ROUTER_DISTANCE_DEFAULT == 110
OSPF_DEFAULT_METRIC_DEFAULT == 20
OSPF_LSA_GROUP_PACING_DEFAULT == 10
OSPF_AREA_STUB_DEFAULT_COST == 1

NewArea ==
    [area_type |-> "default", role |-> "candidate", auth |-> Absent,
     cost |-> OSPF_AREA_STUB_DEFAULT_COST]

DistanceKeys == {"all", "external", "inter_area", "intra_area"}

ospf_router_tbl_default ==
    [router_id |-> Absent, networks |-> EmptyMap, areas |-> EmptyMap,
     distance |-> [k \in DistanceKeys |-> OSPF_ROUTER_DISTANCE_DEFAULT],
     redistribute |-> {}, originate |-> FALSE, always |-> FALSE,
     rfc1583 |-> FALSE, metric |-> OSPF_DEFAULT_METRIC_DEFAULT,
     admin |-> "false", startup |-> <<>>, pacing |-> OSPF_LSA_GROUP_PACING_DEFAULT]

(* The area row, made with its defaults when the router has none. *)
ospf_area_insert_to_router(row, a) ==
    IF a \in DOMAIN row.areas THEN row
    ELSE [row EXCEPT !.areas = Put(@, a, NewArea)]

-------------------------------------------------------------------------------
(* What each command does to the row. *)

ospf_network_insert_ospf_router(row, range, a) ==
    [row EXCEPT !.networks = Put(@, range, a)]

ospf_network_remove_from_ospf_router(row, range) ==
    [row EXCEPT !.networks = Drop(@, range)]

(* Mutant: the administrative flag stays beside the startup time. *)
SetStartup_KeepsAdmin(row, n) == [row EXCEPT !.startup = <<n>>]

SetStartup(row, n) == [row EXCEPT !.startup = <<n>>, !.admin = Absent]

SetAdmin(row) == [row EXCEPT !.admin = "true", !.startup = <<>>]

SetAreaType(row, a, type, role) ==
    [ospf_area_insert_to_router(row, a) EXCEPT
        !.areas[a].area_type = type,
        !.areas[a].role = IF role = Absent THEN @ ELSE role]

SetAreaAuth(row, a, auth) ==
    [ospf_area_insert_to_router(row, a) EXCEPT !.areas[a].auth = auth]

SetAreaCost(row, a, n) ==
    [ospf_area_insert_to_router(row, a) EXCEPT !.areas[a].cost = n]

(* Without "always", an earlier "always" is taken back. *)
SetOriginate(row, always) == [row EXCEPT !.originate = TRUE, !.always = always]

-------------------------------------------------------------------------------
(* The commands. *)

HasRouter == db # <<>>

(* A command of OSPF_NODE that opens its transaction and then looks for the
   router row; Rest is the command from there on. *)
InOspf(rest) ==
    /\ ctx
    /\ START_DB_TXN(IF HasRouter THEN rest ELSE ERRONEOUS_DB_TXN)
    /\ UNCHANGED ctx

(* One that looks for the row first, and without it reports success. *)
InOspfUnlessRemoved(rest) ==
    /\ ctx
    /\ IF HasRouter THEN START_DB_TXN(rest) ELSE Refuse("CMD_SUCCESS")
    /\ UNCHANGED ctx

Write(row) == END_DB_TXN(<<row>>)

(* "router ospf": the row if there is none; OSPF_NODE only if the commit went
   through, CMD_SUCCESS in any case. *)
cli_ospf_router ==
    \E committed \in BOOLEAN :
       /\ ~ctx
       /\ START_DB_TXN(Finish("CMD_SUCCESS",
                              IF committed /\ ~HasRouter
                              THEN <<ospf_router_tbl_default>> ELSE db))
       /\ ctx' = committed

(* "no router ospf": the row, its areas and their interfaces. *)
cli_no_ospf_router ==
    /\ ~ctx
    /\ START_DB_TXN(IF HasRouter THEN EndUnreported(<<>>) ELSE ABORT_DB_TXN)
    /\ UNCHANGED ctx

(* 0.0.0.0 is refused before the transaction. *)
cli_ospf_router_id ==
    \/ \E id \in RouterIds : InOspf(Write([db[1] EXCEPT !.router_id = id]))
    \/ ctx /\ Refuse("CMD_WARNING") /\ UNCHANGED ctx

cli_no_ospf_router_id == InOspf(Write([db[1] EXCEPT !.router_id = Absent]))

(* The walk over the networks comes before the lookup of the router. *)
Networks == IF HasRouter THEN db[1].networks ELSE EmptyMap

(* Mutant: a range of another area is taken over. *)
NetworkOfOther_No(range, a) == FALSE

(* The range is there, in another area. *)
NetworkOfOther(range, a) == range \in DOMAIN Networks /\ Networks[range] # a

ospf_router_area_id_cmd_execute(no_flag, range, a) ==
    LET present == range \in DOMAIN Networks /\ Networks[range] = a
    IN  /\ ctx
        /\ START_DB_TXN(
             CASE NetworkOfOther(range, a) -> ABORT_DB_TXN
               [] ~no_flag /\ present -> ABORT_DB_TXN
               [] no_flag /\ ~present -> ABORT_DB_TXN
               [] ~HasRouter -> ERRONEOUS_DB_TXN
               [] OTHER ->
                    Write(IF no_flag
                          THEN ospf_network_remove_from_ospf_router(db[1], range)
                          ELSE ospf_network_insert_ospf_router(db[1], range, a)))
        /\ UNCHANGED ctx

cli_ospf_router_network_area ==
    \E range \in Ranges, a \in Areas :
        ospf_router_area_id_cmd_execute(FALSE, range, a)

(* The area as a number goes through its cut text. *)
cli_ospf_router_no_network_area_id ==
    \E range \in Ranges, a \in Areas :
        ospf_router_area_id_cmd_execute(TRUE, range, OSPF_IP_STRING_CONVERT(a))

cli_ospf_router_no_network_area_ip ==
    \E range \in Ranges, a \in Areas :
        ospf_router_area_id_cmd_execute(TRUE, range, a)

cli_ospf_router_max_metric ==
    \/ InOspf(Write(SetAdmin(db[1])))
    \/ \E n \in Numbers : n >= 5 /\ InOspf(Write(SetStartup(db[1], n)))

cli_ospf_router_no_max_metric ==
    \/ InOspf(Write([db[1] EXCEPT !.admin = "false"]))
    \/ InOspf(Write([db[1] EXCEPT !.startup = <<>>]))

ospf_compatible_rfc1583 == InOspf(Write([db[1] EXCEPT !.rfc1583 = TRUE]))

ospf_no_compatible_rfc1583 == InOspf(Write([db[1] EXCEPT !.rfc1583 = FALSE]))

ospf_default_metric ==
    \E n \in Numbers : InOspf(Write([db[1] EXCEPT !.metric = n]))

(* With a value, only the value that is set. *)
ospf_no_default_metric ==
    LET reset == Write([db[1] EXCEPT !.metric = OSPF_DEFAULT_METRIC_DEFAULT])
    IN  \/ InOspf(reset)
        \/ \E n \in Numbers :
             InOspf(IF db[1].metric # n THEN ABORT_DB_TXN ELSE reset)

ospf_timers_lsa_group_pacing ==
    \E n \in Numbers \ {0} : InOspf(Write([db[1] EXCEPT !.pacing = n]))

(* With another value than the one set the unchanged row is committed. *)
ospf_timers_no_lsa_group_pacing ==
    LET reset == [db[1] EXCEPT !.pacing = OSPF_LSA_GROUP_PACING_DEFAULT]
    IN  \/ InOspf(Write(reset))
        \/ \E n \in Numbers \ {0} :
             InOspf(Write(IF db[1].pacing # n THEN db[1] ELSE reset))

(* The distance of every route; another is of one kind of route. *)
cli_ospf_admin_distance ==
    \E n \in Numbers \ {0} :
        InOspfUnlessRemoved(Write([db[1] EXCEPT !.distance["all"] = n]))

cli_no_ospf_admin_distance ==
    \E n \in Numbers \ {0} :
        InOspfUnlessRemoved(
            IF db[1].distance["all"] # n THEN ABORT_DB_TXN
            ELSE Write([db[1] EXCEPT !.distance["all"] = OSPF_ROUTER_DISTANCE_DEFAULT]))

(* The kinds the command names, each with its number. *)
cli_ospf_distance_ospf ==
    \/ \E kinds \in SUBSET (DistanceKeys \ {"all"}), n \in Numbers \ {0} :
         /\ kinds # {}
         /\ InOspfUnlessRemoved(
                Write([db[1] EXCEPT !.distance =
                          [k \in DistanceKeys |-> IF k \in kinds THEN n ELSE @[k]]]))
    \/ ctx /\ Refuse("CMD_WARNING") /\ UNCHANGED ctx

cli_no_ospf_distance_ospf ==
    \/ \E kinds \in SUBSET (DistanceKeys \ {"all"}) :
         /\ kinds # {}
         /\ InOspfUnlessRemoved(
                Write([db[1] EXCEPT !.distance =
                          [k \in DistanceKeys |->
                              IF k \in kinds THEN OSPF_ROUTER_DISTANCE_DEFAULT
                              ELSE @[k]]]))
    \/ ctx /\ Refuse("CMD_WARNING") /\ UNCHANGED ctx

cli_ospf_redistribute_source ==
    \E source \in Redistributed :
        IF HasRouter /\ source \in db[1].redistribute
        THEN ctx /\ Refuse("CMD_SUCCESS") /\ UNCHANGED ctx
        ELSE InOspfUnlessRemoved(Write([db[1] EXCEPT !.redistribute = @ \cup {source}]))

cli_no_ospf_redistribute_source ==
    \E source \in Redistributed :
        IF HasRouter /\ source \notin db[1].redistribute
        THEN ctx /\ Refuse("CMD_SUCCESS") /\ UNCHANGED ctx
        ELSE InOspfUnlessRemoved(Write([db[1] EXCEPT !.redistribute = @ \ {source}]))

cli_ospf_default_information_originate ==
    \E always \in BOOLEAN : InOspfUnlessRemoved(Write(SetOriginate(db[1], always)))

cli_no_ospf_default_information_originate ==
    InOspfUnlessRemoved(Write([db[1] EXCEPT !.originate = FALSE, !.always = FALSE]))

-------------------------------------------------------------------------------
(* The commands on an area.  A "no" command needs the area row. *)

NeedsArea(a, rest) == IF a \in DOMAIN db[1].areas THEN rest ELSE ERRONEOUS_DB_TXN

(* Mutant: the backbone is taken too. *)
OSPF_GET_AREA_ID_NO_BB_Any(a, rest) == rest

(* The backbone is refused before the transaction. *)
OSPF_GET_AREA_ID_NO_BB(a, rest) ==
    IF a = Backbone THEN ctx /\ Refuse("CMD_WARNING") /\ UNCHANGED ctx ELSE rest

ospf_area_type_cmd_execute(no_flag, a, type, role) ==
    OSPF_GET_AREA_ID_NO_BB(a,
        InOspf(LET write == Write(SetAreaType(db[1], a, type, role))
               IN  IF no_flag THEN NeedsArea(a, write) ELSE write))

cli_ospf_area_nssa_translate ==
    \E a \in Areas, role \in {"candidate", "never", "always"} :
        ospf_area_type_cmd_execute(FALSE, a, "nssa", role)

cli_ospf_area_nssa_translate_no_summary ==
    \E a \in Areas, role \in {"candidate", "never", "always"} :
        ospf_area_type_cmd_execute(FALSE, a, "nssa_no_summary", role)

cli_ospf_area_nssa ==
    \E a \in Areas : ospf_area_type_cmd_execute(FALSE, a, "nssa", "candidate")

cli_ospf_area_nssa_no_summary ==
    \E a \in Areas : ospf_area_type_cmd_execute(FALSE, a, "nssa_no_summary", "candidate")

cli_ospf_area_no_nssa_translate ==
    \E a \in Areas : ospf_area_type_cmd_execute(TRUE, a, "default", "candidate")

cli_ospf_area_no_nssa_no_summary ==
    \E a \in Areas : ospf_area_type_cmd_execute(TRUE, a, "nssa", Absent)

cli_ospf_area_stub ==
    \E a \in Areas : ospf_area_type_cmd_execute(FALSE, a, "stub", Absent)

cli_ospf_area_stub_no_summary ==
    \E a \in Areas : ospf_area_type_cmd_execute(FALSE, a, "stub_no_summary", Absent)

cli_no_ospf_area_stub ==
    \E a \in Areas : ospf_area_type_cmd_execute(TRUE, a, "default", Absent)

cli_no_ospf_area_stub_no_summary ==
    \E a \in Areas : ospf_area_type_cmd_execute(TRUE, a, "default", Absent)

ospf_area_auth_cmd_execute(no_flag, a, auth) ==
    InOspf(LET write == Write(SetAreaAuth(db[1], a, auth))
           IN  IF no_flag THEN NeedsArea(a, write) ELSE write)

cli_ospf_area_auth == \E a \in Areas : ospf_area_auth_cmd_execute(FALSE, a, "text")

cli_ospf_area_auth_message_digest ==
    \E a \in Areas : ospf_area_auth_cmd_execute(FALSE, a, "md5")

cli_no_ospf_area_authentication ==
    \E a \in Areas : ospf_area_auth_cmd_execute(TRUE, a, Absent)

cli_ospf_area_set_cost ==
    \E a \in Areas, n \in Numbers : InOspf(Write(SetAreaCost(db[1], a, n)))

(* With a value, only the value that is set. *)
cli_ospf_no_area_set_cost ==
    \E a \in Areas :
        LET reset == Write(SetAreaCost(db[1], a, OSPF_AREA_STUB_DEFAULT_COST))
        IN  \/ InOspf(NeedsArea(a, reset))
            \/ \E n \in Numbers :
                 InOspf(NeedsArea(a, IF db[1].areas[a].cost # n THEN ABORT_DB_TXN
                                     ELSE reset))

(* "exit", and "no router ospf" of another session. *)
LeaveNode == ctx /\ ctx' = FALSE /\ UNCHANGED cmdVars

RemovedElsewhere == HasRouter /\ db' = <<>> /\ UNCHANGED <<ret, vtysh, ctx>>

-------------------------------------------------------------------------------
RouterNext ==
    \/ cli_ospf_router \/ cli_no_ospf_router
    \/ cli_ospf_router_id \/ cli_no_ospf_router_id
    \/ cli_ospf_router_network_area
    \/ cli_ospf_router_no_network_area_id \/ cli_ospf_router_no_network_area_ip
    \/ cli_ospf_router_max_metric \/ cli_ospf_router_no_max_metric
    \/ ospf_compatible_rfc1583 \/ ospf_no_compatible_rfc1583
    \/ ospf_default_metric \/ ospf_no_default_metric
    \/ ospf_timers_lsa_group_pacing \/ ospf_timers_no_lsa_group_pacing
    \/ LeaveNode \/ RemovedElsewhere

DistanceNext ==
    \/ cli_ospf_admin_distance \/ cli_no_ospf_admin_distance
    \/ cli_ospf_distance_ospf \/ cli_no_ospf_distance_ospf
    \/ cli_ospf_redistribute_source \/ cli_no_ospf_redistribute_source
    \/ cli_ospf_default_information_originate
    \/ cli_no_ospf_default_information_originate

AreaNext ==
    \/ cli_ospf_area_nssa_translate \/ cli_ospf_area_nssa_translate_no_summary
    \/ cli_ospf_area_nssa \/ cli_ospf_area_nssa_no_summary
    \/ cli_ospf_area_no_nssa_translate \/ cli_ospf_area_no_nssa_no_summary
    \/ cli_ospf_area_stub \/ cli_ospf_area_stub_no_summary
    \/ cli_no_ospf_area_stub \/ cli_no_ospf_area_stub_no_summary
    \/ cli_ospf_area_auth \/ cli_ospf_area_auth_message_digest
    \/ cli_no_ospf_area_authentication
    \/ cli_ospf_area_set_cost \/ cli_ospf_no_area_set_cost

Init == db = <<>> /\ ret = "CMD_SUCCESS" /\ vtysh = "ready" /\ ctx = FALSE

Next == RouterNext \/ DistanceNext \/ AreaNext

Spec == Init /\ [][Next]_ospfVars

-------------------------------------------------------------------------------
(***************************************************************************)
(* A network range never moves to another area in one command: "Remove the *)
(* existing area id before configuring a new one." (ospf_vty.c:1320).       *)
(***************************************************************************)
RangesStay == \A r \in DOMAIN Networks \cap DOMAIN Networks' : Networks'[r] = Networks[r]

NetworkAreaFixed == [][RangesStay]_ospfVars

(* The backbone area stays a transit area: no sequence of area commands makes
   0.0.0.0 a stub or an nssa (OSPF_GET_AREA_ID_NO_BB). *)
BackboneTransit ==
    HasRouter /\ Backbone \in DOMAIN db[1].areas =>
        db[1].areas[Backbone].area_type = "default"

(* "max-metric router-lsa" is either administrative or on startup, whatever
   was entered in between: "Set the startup interval and clear the admin flag."
   (ospf_vty.c:2147). *)
StubAdvExclusive == HasRouter => ~(db[1].admin = "true" /\ db[1].startup # <<>>)
===============================================================================
