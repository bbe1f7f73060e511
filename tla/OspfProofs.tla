----------------------------- MODULE OspfProofs ------------------------------
(***************************************************************************)
(* The router, the interface and the virtual links of OSPF, for every set  *)
(* of areas, ranges, numbers, intervals, keys and peers.                    *)
(***************************************************************************)
EXTENDS OspfRouter, TLAPS

(* A map of the database, and rows with the columns of their table. *)
IsMap(m) == m = [k \in DOMAIN m |-> m[k]]

IsArea(x) == x = [area_type |-> x.area_type, role |-> x.role, auth |-> x.auth, cost |-> x.cost]

IsRouter(r) ==
    r = [router_id |-> r.router_id, networks |-> r.networks, areas |-> r.areas,
         distance |-> r.distance, redistribute |-> r.redistribute, originate |-> r.originate,
         always |-> r.always, rfc1583 |-> r.rfc1583, metric |-> r.metric,
         admin |-> r.admin, startup |-> r.startup, pacing |-> r.pacing]

(* The areas of a router: the backbone is a transit area. *)
AreasOK(m) ==
    /\ IsMap(m)
    /\ \A a \in DOMAIN m : IsArea(m[a]) /\ (a = Backbone => m[a].area_type = "default")

RowOK(r) ==
    /\ IsRouter(r) /\ IsMap(r.networks) /\ AreasOK(r.areas)
    /\ ~ (r.admin = "true" /\ r.startup # <<>>)

RouterInv == db = <<>> \/ \E r : db = <<r>> /\ RowOK(r)

(* What a command may make of a row: ranges come and go, and stay where they are. *)
Follows(s, r) ==
    /\ RowOK(s)
    /\ \A x \in DOMAIN r.networks \cap DOMAIN s.networks : s.networks[x] = r.networks[x]

Stays == RouterInv' /\ RangesStay

(* The table has the one row. *)
LEMMA TheRow ==
  ASSUME RouterInv, HasRouter PROVE RowOK(db[1]) /\ Networks = db[1].networks
BY DEF RouterInv, HasRouter, Networks

(* A command that leaves the table, removes the row, makes it, or writes it. *)
LEMMA Written ==
  ASSUME RouterInv,
         \/ db' = db
         \/ db' = <<>>
         \/ ~ HasRouter /\ db' = <<ospf_router_tbl_default>>
         \/ \E s : HasRouter /\ Follows(s, db[1]) /\ db' = <<s>>
  PROVE  Stays
<1>1. CASE db' = db
  BY <1>1 DEF Stays, RouterInv, RangesStay, Networks, HasRouter
<1>2. CASE db' = <<>>
  BY <1>2 DEF Stays, RouterInv, RangesStay, Networks, HasRouter, EmptyMap
<1>3. CASE ~ HasRouter /\ db' = <<ospf_router_tbl_default>>
  <2>1. RowOK(ospf_router_tbl_default)
    BY DEF ospf_router_tbl_default, RowOK, IsRouter, AreasOK, IsMap, EmptyMap
  <2>2. Networks = EmptyMap
    BY <1>3 DEF Networks
  <2>. QED BY ZenonT(60), <1>3, <2>1, <2>2 DEF Stays, RouterInv, RangesStay, EmptyMap
<1>4. ASSUME NEW s, HasRouter, Follows(s, db[1]), db' = <<s>> PROVE Stays
  <2>1. Networks = db[1].networks
    BY <1>4 DEF Networks
  <2>2. Networks' = s.networks
    BY ZenonT(60), <1>4 DEF Networks, HasRouter
  <2>. QED BY ZenonT(60), <1>4, <2>1, <2>2 DEF Stays, RouterInv, RangesStay, Follows
<1>. QED BY ZenonT(60), <1>1, <1>2, <1>3, <1>4

(* A new value of a column that says nothing of areas and ranges. *)
LEMMA ColumnsFollow ==
  ASSUME NEW r, RowOK(r), NEW v
  PROVE  /\ Follows(r, r)
         /\ Follows([r EXCEPT !.router_id = v], r)
         /\ Follows([r EXCEPT !.rfc1583 = v], r)
         /\ Follows([r EXCEPT !.metric = v], r)
         /\ Follows([r EXCEPT !.pacing = v], r)
         /\ Follows([r EXCEPT !.distance = v], r)
         /\ Follows([r EXCEPT !.redistribute = v], r)
         /\ \A w : Follows([r EXCEPT !.originate = v, !.always = w], r)
<1>1. Follows(r, r)
  BY DEF Follows
<1>2. Follows([r EXCEPT !.router_id = v], r)
  BY DEF Follows, RowOK, IsRouter
<1>3. Follows([r EXCEPT !.rfc1583 = v], r)
  BY DEF Follows, RowOK, IsRouter
<1>4. Follows([r EXCEPT !.metric = v], r)
  BY DEF Follows, RowOK, IsRouter
<1>5. Follows([r EXCEPT !.pacing = v], r)
  BY DEF Follows, RowOK, IsRouter
<1>6. Follows([r EXCEPT !.distance = v], r)
  BY DEF Follows, RowOK, IsRouter
<1>7. Follows([r EXCEPT !.redistribute = v], r)
  BY DEF Follows, RowOK, IsRouter
<1>8. ASSUME NEW w PROVE Follows([r EXCEPT !.originate = v, !.always = w], r)
  <2> DEFINE t == [r EXCEPT !.originate = v]
  <2>1. RowOK(t) /\ t.networks = r.networks
    BY DEF RowOK, IsRouter
  <2>2. [t EXCEPT !.always = w] = [r EXCEPT !.originate = v, !.always = w]
    OBVIOUS
  <2>. HIDE DEF t
  <2>3. Follows([t EXCEPT !.always = w], r)
    BY <2>1 DEF Follows, RowOK, IsRouter
  <2>. QED BY <2>2, <2>3
<1>. QED BY ZenonT(60), <1>1, <1>2, <1>3, <1>4, <1>5, <1>6, <1>7, <1>8

(* The administrative flag and the startup time exclude each other. *)
LEMMA MaxMetricFollows ==
  ASSUME NEW r, RowOK(r), NEW n
  PROVE  /\ Follows(SetAdmin(r), r) /\ Follows(SetStartup(r, n), r)
         /\ Follows([r EXCEPT !.admin = "false"], r) /\ Follows([r EXCEPT !.startup = <<>>], r)
<1>1. Follows(SetAdmin(r), r)
  <2> DEFINE t == [r EXCEPT !.startup = <<>>]
  <2>1. RowOK(t) /\ t.networks = r.networks /\ t.startup = <<>>
    BY DEF RowOK, IsRouter
  <2>2. SetAdmin(r) = [t EXCEPT !.admin = "true"]
    BY ZenonT(60) DEF SetAdmin, RowOK, IsRouter
  <2>. HIDE DEF t
  <2>3. Follows([t EXCEPT !.admin = "true"], r)
    BY <2>1 DEF Follows, RowOK, IsRouter
  <2>. QED BY <2>2, <2>3
<1>2. Follows(SetStartup(r, n), r)
  <2> DEFINE t == [r EXCEPT !.admin = Absent]
  <2>1. RowOK(t) /\ t.networks = r.networks /\ t.admin # "true"
    BY DEF RowOK, IsRouter, Absent
  <2>2. SetStartup(r, n) = [t EXCEPT !.startup = <<n>>]
    BY ZenonT(60) DEF SetStartup, RowOK, IsRouter
  <2>. HIDE DEF t
  <2>3. Follows([t EXCEPT !.startup = <<n>>], r)
    BY <2>1 DEF Follows, RowOK, IsRouter
  <2>. QED BY <2>2, <2>3
<1>3. Follows([r EXCEPT !.admin = "false"], r)
  BY DEF Follows, RowOK, IsRouter
<1>4. Follows([r EXCEPT !.startup = <<>>], r)
  BY DEF Follows, RowOK, IsRouter
<1>. QED BY ZenonT(60), <1>1, <1>2, <1>3, <1>4

(* A range is added that is not there, or removed. *)
LEMMA NetworkFollows ==
  ASSUME NEW r, RowOK(r), NEW range, NEW a
  PROVE  /\ Follows(ospf_network_remove_from_ospf_router(r, range), r)
         /\ range \notin DOMAIN r.networks =>
                Follows(ospf_network_insert_ospf_router(r, range, a), r)
<1>1. Follows(ospf_network_remove_from_ospf_router(r, range), r)
  <2> DEFINE m == Drop(r.networks, range)
  <2>1. IsMap(m) /\ \A x \in DOMAIN r.networks \cap DOMAIN m : m[x] = r.networks[x]
    BY DEF IsMap, Drop
  <2>. HIDE DEF m
  <2>2. Follows([r EXCEPT !.networks = m], r)
    BY <2>1 DEF Follows, RowOK, IsRouter
  <2>. QED BY <2>2 DEF ospf_network_remove_from_ospf_router, m
<1>2. ASSUME range \notin DOMAIN r.networks
      PROVE  Follows(ospf_network_insert_ospf_router(r, range, a), r)
  <2> DEFINE m == Put(r.networks, range, a)
  <2>1. IsMap(m) /\ \A x \in DOMAIN r.networks \cap DOMAIN m : m[x] = r.networks[x]
    BY ZenonT(60), <1>2 DEF IsMap, Put
  <2>. HIDE DEF m
  <2>2. Follows([r EXCEPT !.networks = m], r)
    BY <2>1 DEF Follows, RowOK, IsRouter
  <2>. QED BY <2>2 DEF ospf_network_insert_ospf_router, m
<1>. QED BY <1>1, <1>2

(* An area row is made with its defaults, as a transit area. *)
LEMMA AreaMade ==
  ASSUME NEW r, RowOK(r), NEW a
  PROVE  LET t == ospf_area_insert_to_router(r, a)
         IN  RowOK(t) /\ t.networks = r.networks /\ a \in DOMAIN t.areas
<1>1. CASE a \in DOMAIN r.areas
  BY <1>1 DEF ospf_area_insert_to_router
<1>2. CASE a \notin DOMAIN r.areas
  <2> DEFINE m == Put(r.areas, a, NewArea)
  <2>1. IsArea(NewArea) /\ NewArea.area_type = "default"
    BY DEF IsArea, NewArea
  <2>2. AreasOK(m) /\ a \in DOMAIN m
    BY <2>1 DEF AreasOK, IsMap, Put, RowOK
  <2>. HIDE DEF m
  <2>3. LET t == [r EXCEPT !.areas = m] IN RowOK(t) /\ t.networks = r.networks /\ t.areas = m
    BY <2>2 DEF RowOK, IsRouter
  <2>. QED BY ZenonT(60), <1>2, <2>2, <2>3 DEF ospf_area_insert_to_router, m
<1>. QED BY <1>1, <1>2

(* The row of an area changes; the backbone keeps its type. *)
LEMMA AreaFollows ==
  ASSUME NEW r, NEW t, RowOK(t), t.networks = r.networks, NEW a \in DOMAIN t.areas,
         NEW x, IsArea(x), a = Backbone => x.area_type = "default"
  PROVE  Follows([t EXCEPT !.areas = [t.areas EXCEPT ![a] = x]], r)
<1> DEFINE m == [t.areas EXCEPT ![a] = x]
<1>1. AreasOK(m)
  BY DEF AreasOK, IsMap, RowOK
<1>. HIDE DEF m
<1>2. Follows([t EXCEPT !.areas = m], r)
  BY <1>1 DEF Follows, RowOK, IsRouter
<1>. QED BY <1>2 DEF m

(* The columns of an area with a new type and role. *)
LEMMA TypedArea ==
  ASSUME NEW x, IsArea(x), NEW v, NEW role
  PROVE  [[x EXCEPT !.area_type = v] EXCEPT !.role = role]
           = [area_type |-> v, role |-> role, auth |-> x.auth, cost |-> x.cost]
<1> DEFINE z == [x EXCEPT !.area_type = v]
<1>1. z = [area_type |-> v, role |-> x.role, auth |-> x.auth, cost |-> x.cost]
  BY DEF IsArea
<1>. HIDE DEF z
<1>2. [z EXCEPT !.role = role] = [area_type |-> v, role |-> role, auth |-> x.auth, cost |-> x.cost]
  BY <1>1
<1>. QED BY <1>2 DEF z

(* What the area commands write; only the type asks for the backbone. *)
LEMMA AreaCommandsFollow ==
  ASSUME NEW r, RowOK(r), NEW a, NEW v, NEW w
  PROVE  /\ Follows(SetAreaAuth(r, a, v), r) /\ Follows(SetAreaCost(r, a, v), r)
         /\ a # Backbone => Follows(SetAreaType(r, a, v, w), r)
<1> DEFINE t == ospf_area_insert_to_router(r, a)
           x == t.areas[a]
<1>1. RowOK(t) /\ t.networks = r.networks /\ a \in DOMAIN t.areas
  BY AreaMade
<1>2. IsArea(x) /\ (a = Backbone => x.area_type = "default")
  BY <1>1 DEF RowOK, AreasOK
<1>3. SetAreaAuth(r, a, v) = [t EXCEPT !.areas = [t.areas EXCEPT ![a] = [x EXCEPT !.auth = v]]]
  BY DEF SetAreaAuth
<1>4. SetAreaCost(r, a, v) = [t EXCEPT !.areas = [t.areas EXCEPT ![a] = [x EXCEPT !.cost = v]]]
  BY DEF SetAreaCost
<1> DEFINE role == IF w = Absent THEN x.role ELSE w
           y == [area_type |-> v, role |-> role, auth |-> x.auth, cost |-> x.cost]
<1>5. SetAreaType(r, a, v, w) = [t EXCEPT !.areas = [t.areas EXCEPT ![a] = y]]
  <2>1. SetAreaType(r, a, v, w) = [t EXCEPT !.areas[a].area_type = v, !.areas[a].role = role]
    BY DEF SetAreaType
  <2>. HIDE DEF t, role
  <2> DEFINE z == [x EXCEPT !.area_type = v]
             u == [t EXCEPT !.areas = [t.areas EXCEPT ![a] = z]]
  <2>2. SetAreaType(r, a, v, w) = [u EXCEPT !.areas = [u.areas EXCEPT ![a] = [u.areas[a] EXCEPT !.role = role]]]
    BY <2>1
  <2>3. u.areas = [t.areas EXCEPT ![a] = z] /\ u.areas[a] = z
    BY <1>1 DEF RowOK, IsRouter, AreasOK, IsMap
  <2>4. [z EXCEPT !.role = role] = y
    BY Zenon, <1>2, TypedArea
  <2>. HIDE DEF z, u, y
  <2>5. [u.areas EXCEPT ![a] = y] = [t.areas EXCEPT ![a] = y]
    BY <1>1, <2>3 DEF RowOK, AreasOK, IsMap
  <2>6. SetAreaType(r, a, v, w) = [u EXCEPT !.areas = [t.areas EXCEPT ![a] = y]]
    BY Zenon, <2>2, <2>3, <2>4, <2>5
  <2>. QED BY ZenonT(60), <1>1, <2>6 DEF RowOK, IsRouter, u
<1>. HIDE DEF t, x
<1>6. Follows(SetAreaAuth(r, a, v), r)
  <2> DEFINE z == [x EXCEPT !.auth = v]
  <2>1. IsArea(z) /\ z.area_type = x.area_type
    BY <1>2 DEF IsArea
  <2>2. SetAreaAuth(r, a, v) = [t EXCEPT !.areas = [t.areas EXCEPT ![a] = z]]
    BY ZenonT(60), <1>3
  <2>. HIDE DEF z
  <2>. QED BY <1>1, <1>2, <2>1, <2>2, AreaFollows
<1>7. Follows(SetAreaCost(r, a, v), r)
  <2> DEFINE z == [x EXCEPT !.cost = v]
  <2>1. IsArea(z) /\ z.area_type = x.area_type
    BY <1>2 DEF IsArea
  <2>2. SetAreaCost(r, a, v) = [t EXCEPT !.areas = [t.areas EXCEPT ![a] = z]]
    BY <1>4
  <2>. HIDE DEF z
  <2>. QED BY <1>1, <1>2, <2>1, <2>2, AreaFollows
<1>8. ASSUME a # Backbone PROVE Follows(SetAreaType(r, a, v, w), r)
  <2>1. IsArea(y)
    BY DEF IsArea
  <2>. HIDE DEF y
  <2>. QED BY <1>1, <1>5, <1>8, <2>1, AreaFollows
<1>. QED BY ZenonT(60), <1>6, <1>7, <1>8

(* The commands of the router row keep the invariant and the areas of ranges. *)
LEMMA RouterKeeps ==
  ASSUME RouterInv, RouterNext PROVE Stays
<1> USE DEF InOspf, InOspfUnlessRemoved, START_DB_TXN, Refuse, Write, END_DB_TXN, EndUnreported,
            ERRONEOUS_DB_TXN, ABORT_DB_TXN, Finish, Crash
<1>1. CASE cli_ospf_router
  <2>1. db' = db \/ (~ HasRouter /\ db' = <<ospf_router_tbl_default>>)
    BY ZenonT(60), <1>1 DEF cli_ospf_router
  <2>. QED BY ZenonT(60), <2>1, Written
<1>2. CASE cli_no_ospf_router
  <2>1. db' = db \/ db' = <<>>
    BY ZenonT(60), <1>2 DEF cli_no_ospf_router
  <2>. QED BY ZenonT(60), <2>1, Written
<1>3. CASE cli_ospf_router_id
  <2>1. db' = db \/ (HasRouter /\ \E v : db' = <<[db[1] EXCEPT !.router_id = v]>>)
    BY ZenonT(60), <1>3 DEF cli_ospf_router_id
  <2>. QED BY ZenonT(60), <2>1, TheRow, ColumnsFollow, Written
<1>4. CASE cli_no_ospf_router_id
  <2>1. db' = db \/ (HasRouter /\ \E v : db' = <<[db[1] EXCEPT !.router_id = v]>>)
    BY <1>4 DEF cli_no_ospf_router_id
  <2>. QED BY <2>1, TheRow, ColumnsFollow, Written
<1>5. CASE cli_ospf_router_max_metric
  <2>1. \/ db' = db \/ (HasRouter /\ db' = <<SetAdmin(db[1])>>)
        \/ db' = db \/ (HasRouter /\ \E n : db' = <<SetStartup(db[1], n)>>)
    BY <1>5 DEF cli_ospf_router_max_metric
  <2>. QED BY ZenonT(60), <2>1, TheRow, MaxMetricFollows, Written
<1>6. CASE cli_ospf_router_no_max_metric
  <2>1. \/ db' = db \/ (HasRouter /\ db' = <<[db[1] EXCEPT !.admin = "false"]>>)
        \/ HasRouter /\ db' = <<[db[1] EXCEPT !.startup = <<>>]>>
    BY <1>6 DEF cli_ospf_router_no_max_metric
  <2>. QED BY ZenonT(60), <2>1, TheRow, MaxMetricFollows, Written
<1>7. CASE ospf_compatible_rfc1583
  <2>1. db' = db \/ (HasRouter /\ \E v : db' = <<[db[1] EXCEPT !.rfc1583 = v]>>)
    BY ZenonT(60), <1>7 DEF ospf_compatible_rfc1583
  <2>. QED BY ZenonT(60), <2>1, TheRow, ColumnsFollow, Written
<1>8. CASE ospf_no_compatible_rfc1583
  <2>1. db' = db \/ (HasRouter /\ \E v : db' = <<[db[1] EXCEPT !.rfc1583 = v]>>)
    BY ZenonT(60), <1>8 DEF ospf_no_compatible_rfc1583
  <2>. QED BY <2>1, TheRow, ColumnsFollow, Written
<1>9. CASE ospf_default_metric
  <2>1. db' = db \/ (HasRouter /\ \E v : db' = <<[db[1] EXCEPT !.metric = v]>>)
    BY ZenonT(60), <1>9 DEF ospf_default_metric
  <2>. QED BY ZenonT(60), <2>1, TheRow, ColumnsFollow, Written
<1>10. CASE ospf_no_default_metric
  <2>1. db' = db \/ (HasRouter /\ \E v : db' = <<[db[1] EXCEPT !.metric = v]>>)
    BY ZenonT(60), <1>10 DEF ospf_no_default_metric
  <2>. QED BY <2>1, TheRow, ColumnsFollow, Written
<1>11. CASE ospf_timers_lsa_group_pacing
  <2>1. db' = db \/ (HasRouter /\ \E v : db' = <<[db[1] EXCEPT !.pacing = v]>>)
    BY ZenonT(60), <1>11 DEF ospf_timers_lsa_group_pacing
  <2>. QED BY ZenonT(60), <2>1, TheRow, ColumnsFollow, Written
<1>12. CASE ospf_timers_no_lsa_group_pacing
  <2>1. \/ db' = db \/ (HasRouter /\ db' = <<db[1]>>)
        \/ HasRouter /\ \E v : db' = <<[db[1] EXCEPT !.pacing = v]>>
    BY ZenonT(60), <1>12 DEF ospf_timers_no_lsa_group_pacing
  <2>. QED BY ZenonT(60), <2>1, TheRow, ColumnsFollow, Written
<1>13. ASSUME NEW no_flag, NEW range, NEW a, ospf_router_area_id_cmd_execute(no_flag, range, a) PROVE Stays
  <2>1. \/ db' = db
        \/ HasRouter /\ db' = <<ospf_network_remove_from_ospf_router(db[1], range)>>
        \/ /\ HasRouter /\ ~ NetworkOfOther(range, a) /\ ~ (range \in DOMAIN Networks /\ Networks[range] = a)
           /\ db' = <<ospf_network_insert_ospf_router(db[1], range, a)>>
    BY <1>13 DEF ospf_router_area_id_cmd_execute
  <2>2. HasRouter /\ ~ NetworkOfOther(range, a) /\ ~ (range \in DOMAIN Networks /\ Networks[range] = a)
          => range \notin DOMAIN db[1].networks
    BY TheRow DEF NetworkOfOther
  <2>. QED BY ZenonT(60), <2>1, <2>2, TheRow, NetworkFollows, Written
<1>14. CASE cli_ospf_router_network_area
  BY ZenonT(60), <1>13, <1>14 DEF cli_ospf_router_network_area
<1>15. CASE cli_ospf_router_no_network_area_id
  BY ZenonT(60), <1>13, <1>15 DEF cli_ospf_router_no_network_area_id
<1>16. CASE cli_ospf_router_no_network_area_ip
  BY ZenonT(60), <1>13, <1>16 DEF cli_ospf_router_no_network_area_ip
<1>17. CASE LeaveNode
  BY <1>17, Written DEF LeaveNode, cmdVars
<1>18. CASE RemovedElsewhere
  BY <1>18, Written DEF RemovedElsewhere, cmdVars
<1>. QED BY ZenonT(60), <1>1, <1>2, <1>3, <1>4, <1>5, <1>6, <1>7, <1>8, <1>9, <1>10, <1>11, <1>12, <1>14, <1>15, <1>16, <1>17, <1>18 DEF RouterNext

(* So do distances, redistribution and the default route. *)
LEMMA DistanceKeeps ==
  ASSUME RouterInv, DistanceNext PROVE Stays
<1> USE DEF InOspf, InOspfUnlessRemoved, START_DB_TXN, Refuse, Write, END_DB_TXN, EndUnreported,
            ERRONEOUS_DB_TXN, ABORT_DB_TXN, Finish, Crash
<1>1. CASE cli_ospf_admin_distance
  <2>1. db' = db \/ (HasRouter /\ \E v : db' = <<[db[1] EXCEPT !.distance = v]>>)
    BY ZenonT(60), <1>1 DEF cli_ospf_admin_distance
  <2>. QED BY ZenonT(60), <2>1, TheRow, ColumnsFollow, Written
<1>2. CASE cli_no_ospf_admin_distance
  <2>1. db' = db \/ (HasRouter /\ \E v : db' = <<[db[1] EXCEPT !.distance = v]>>)
    BY ZenonT(60), <1>2 DEF cli_no_ospf_admin_distance
  <2>. QED BY <2>1, TheRow, ColumnsFollow, Written
<1>3. CASE cli_ospf_distance_ospf
  <2>1. db' = db \/ (HasRouter /\ \E v : db' = <<[db[1] EXCEPT !.distance = v]>>)
    BY ZenonT(60), <1>3 DEF cli_ospf_distance_ospf
  <2>. QED BY <2>1, TheRow, ColumnsFollow, Written
<1>4. CASE cli_no_ospf_distance_ospf
  <2>1. db' = db \/ (HasRouter /\ \E v : db' = <<[db[1] EXCEPT !.distance = v]>>)
    BY ZenonT(60), <1>4 DEF cli_no_ospf_distance_ospf
  <2>. QED BY <2>1, TheRow, ColumnsFollow, Written
<1>5. CASE cli_ospf_redistribute_source
  <2>1. db' = db \/ (HasRouter /\ \E v : db' = <<[db[1] EXCEPT !.redistribute = v]>>)
    BY ZenonT(60), <1>5 DEF cli_ospf_redistribute_source
  <2>. QED BY ZenonT(60), <2>1, TheRow, ColumnsFollow, Written
<1>6. CASE cli_no_ospf_redistribute_source
  <2>1. db' = db \/ (HasRouter /\ \E v : db' = <<[db[1] EXCEPT !.redistribute = v]>>)
    BY ZenonT(60), <1>6 DEF cli_no_ospf_redistribute_source
  <2>. QED BY <2>1, TheRow, ColumnsFollow, Written
<1>7. CASE cli_ospf_default_information_originate
  <2>1. db' = db \/ (HasRouter /\ \E v, w : db' = <<[db[1] EXCEPT !.originate = v, !.always = w]>>)
    BY ZenonT(60), <1>7 DEF cli_ospf_default_information_originate, SetOriginate
  <2>. QED BY ZenonT(60), <2>1, TheRow, ColumnsFollow, Written
<1>8. CASE cli_no_ospf_default_information_originate
  <2>1. db' = db \/ (HasRouter /\ \E v, w : db' = <<[db[1] EXCEPT !.originate = v, !.always = w]>>)
    BY ZenonT(60), <1>8 DEF cli_no_ospf_default_information_originate
  <2>. QED BY <2>1, TheRow, ColumnsFollow, Written
<1>. QED BY <1>1, <1>2, <1>3, <1>4, <1>5, <1>6, <1>7, <1>8 DEF DistanceNext

(* And the commands of an area. *)
LEMMA AreaKeeps ==
  ASSUME RouterInv, AreaNext PROVE Stays
<1> USE DEF InOspf, InOspfUnlessRemoved, START_DB_TXN, Refuse, Write, END_DB_TXN, EndUnreported,
            ERRONEOUS_DB_TXN, ABORT_DB_TXN, Finish, Crash
<1>1. ASSUME NEW no_flag, NEW a, NEW type, NEW role, ospf_area_type_cmd_execute(no_flag, a, type, role)
      PROVE  Stays
  <2>1. db' = db \/ (HasRouter /\ a # Backbone /\ db' = <<SetAreaType(db[1], a, type, role)>>)
    BY ZenonT(60), <1>1 DEF ospf_area_type_cmd_execute, OSPF_GET_AREA_ID_NO_BB, NeedsArea
  <2>. QED BY ZenonT(60), <2>1, TheRow, AreaCommandsFollow, Written
<1>2. ASSUME NEW no_flag, NEW a, NEW auth, ospf_area_auth_cmd_execute(no_flag, a, auth) PROVE Stays
  <2>1. db' = db \/ (HasRouter /\ db' = <<SetAreaAuth(db[1], a, auth)>>)
    BY <1>2 DEF ospf_area_auth_cmd_execute, NeedsArea
  <2>. QED BY ZenonT(60), <2>1, TheRow, AreaCommandsFollow, Written
<1>3. CASE cli_ospf_area_set_cost
  <2>1. db' = db \/ (HasRouter /\ \E a, n : db' = <<SetAreaCost(db[1], a, n)>>)
    BY <1>3 DEF cli_ospf_area_set_cost
  <2>. QED BY ZenonT(60), <2>1, TheRow, AreaCommandsFollow, Written
<1>4. CASE cli_ospf_no_area_set_cost
  <2>1. db' = db \/ (HasRouter /\ \E a, n : db' = <<SetAreaCost(db[1], a, n)>>)
    BY <1>4 DEF cli_ospf_no_area_set_cost, NeedsArea
  <2>. QED BY <2>1, TheRow, AreaCommandsFollow, Written
<1>5. CASE \/ cli_ospf_area_nssa_translate
            \/ cli_ospf_area_nssa_translate_no_summary
            \/ cli_ospf_area_nssa
            \/ cli_ospf_area_nssa_no_summary
            \/ cli_ospf_area_no_nssa_translate
            \/ cli_ospf_area_no_nssa_no_summary
            \/ cli_ospf_area_stub
            \/ cli_ospf_area_stub_no_summary
            \/ cli_no_ospf_area_stub
            \/ cli_no_ospf_area_stub_no_summary
  BY ZenonT(60), <1>1, <1>5 DEF cli_ospf_area_nssa_translate, cli_ospf_area_nssa_translate_no_summary, cli_ospf_area_nssa,
    cli_ospf_area_nssa_no_summary, cli_ospf_area_no_nssa_translate, cli_ospf_area_no_nssa_no_summary,
    cli_ospf_area_stub, cli_ospf_area_stub_no_summary, cli_no_ospf_area_stub,
    cli_no_ospf_area_stub_no_summary
<1>6. CASE \/ cli_ospf_area_auth
            \/ cli_ospf_area_auth_message_digest
            \/ cli_no_ospf_area_authentication
  BY ZenonT(60), <1>2, <1>6 DEF cli_ospf_area_auth, cli_ospf_area_auth_message_digest, cli_no_ospf_area_authentication
<1>. QED BY ZenonT(60), <1>3, <1>4, <1>5, <1>6 DEF AreaNext

(* RouterInv is inductive. *)
LEMMA RouterInvariant == Spec => [](RouterInv /\ BackboneTransit /\ StubAdvExclusive)
<1>1. Init => RouterInv
  BY DEF Init, RouterInv
<1>2. RouterInv /\ [Next]_ospfVars => RouterInv'
  <2>1. ASSUME RouterInv, Next PROVE RouterInv'
    BY ZenonT(60), <2>1, RouterKeeps, DistanceKeeps, AreaKeeps DEF Next, Stays
  <2>2. ASSUME RouterInv, UNCHANGED ospfVars PROVE RouterInv'
    BY ZenonT(60), <2>2 DEF RouterInv, ospfVars
  <2>. QED BY ZenonT(60), <2>1, <2>2
<1>3. RouterInv => BackboneTransit /\ StubAdvExclusive
  BY ZenonT(60), TheRow DEF RowOK, AreasOK, BackboneTransit, StubAdvExclusive
<1>. QED BY <1>1, <1>2, <1>3, PTL DEF Spec

(***************************************************************************)
(* Whatever is typed under "router ospf", in this session or around its     *)
(* removal in another: the backbone is neither stub nor nssa                *)
(* (OSPF_GET_AREA_ID_NO_BB), and the router is a stub router either         *)
(* administratively or on startup.                                          *)
(***************************************************************************)
THEOREM RouterStaysConsistent == Spec => [](BackboneTransit /\ StubAdvExclusive)
BY RouterInvariant, PTL

(***************************************************************************)
(* No command moves a network range to another area: it has to be removed   *)
(* first (ospf_router_area_id_cmd_execute).                                 *)
(***************************************************************************)
THEOREM RangesKeepTheirArea == Spec => NetworkAreaFixed
<1>1. RouterInv /\ [Next]_ospfVars => [RangesStay]_ospfVars
  BY ZenonT(60), RouterKeeps, DistanceKeeps, AreaKeeps DEF Next, Stays
<1>. QED BY <1>1, RouterInvariant, PTL DEF Spec, NetworkAreaFixed

-------------------------------------------------------------------------------
CONSTANTS Times, Priorities, Md5Ids, AuthKeys

If == INSTANCE OspfInterface

(***************************************************************************)
(* The port of an interface.  Until the process ends, no transaction is left *)
(* open, and a hello interval that is there is not zero.                     *)
(***************************************************************************)
IsOspfPort(p) ==
    p = [intervals |-> p.intervals, priority |-> p.priority, mtu_ignore |-> p.mtu_ignore,
         cost |-> p.cost, if_type |-> p.if_type, auth |-> p.auth, md5 |-> p.md5, text |-> p.text]

PortOK(p) ==
    /\ IsOspfPort(p) /\ IsMap(p.intervals) /\ IsMap(p.md5)
    /\ "hello" \in DOMAIN p.intervals => p.intervals["hello"] # 0

IsTables(d) == d = [row |-> d.row, port |-> d.port]

PortInv ==
    /\ IsTables(db) /\ PortOK(db.port) /\ vtysh \in {"ready", "dead"}
    /\ If!DiesOnlyWithoutHello

(* What a command may make of a port: keys come and go, and are not replaced. *)
PortFollows(q, p) ==
    /\ PortOK(q)
    /\ \A id \in DOMAIN p.md5 \cap DOMAIN q.md5 : q.md5[id] = p.md5[id]

PortStays == PortInv' /\ If!Md5KeysStay

(* A command that leaves the tables, writes the port, or divides by zero. *)
LEMMA PortWritten ==
  ASSUME PortInv, vtysh # "dead",
         \/ db' = db /\ vtysh' = "ready"
         \/ vtysh' = "ready" /\ \E q : PortFollows(q, db.port) /\ db' = [db EXCEPT !.port = q]
         \/ vtysh' = "ready" /\ \E row : db' = [db EXCEPT !.row = row]
         \/ db' = db /\ "hello" \notin DOMAIN db.port.intervals /\ vtysh' = "dead"
  PROVE  PortStays
<1>1. CASE db' = db /\ vtysh' = "ready"
  BY ZenonT(60), <1>1 DEF PortStays, PortInv, If!DiesOnlyWithoutHello, If!Md5KeysStay, If!port
<1>2. ASSUME vtysh' = "ready", NEW q, PortFollows(q, db.port), db' = [db EXCEPT !.port = q] PROVE PortStays
  <2>1. IsTables(db') /\ db'.port = q
    BY ZenonT(60), <1>2 DEF PortInv, IsTables
  <2>. QED BY ZenonT(60), <1>2, <2>1 DEF PortStays, PortInv, PortFollows, If!DiesOnlyWithoutHello, If!Md5KeysStay, If!port
<1>3. ASSUME vtysh' = "ready", NEW row, db' = [db EXCEPT !.row = row] PROVE PortStays
  <2>1. IsTables(db') /\ db'.port = db.port
    BY ZenonT(60), <1>3 DEF PortInv, IsTables
  <2>. QED BY ZenonT(60), <1>3, <2>1 DEF PortStays, PortInv, If!DiesOnlyWithoutHello, If!Md5KeysStay, If!port
<1>4. CASE db' = db /\ "hello" \notin DOMAIN db.port.intervals /\ vtysh' = "dead"
  BY ZenonT(60), <1>4 DEF PortStays, PortInv, If!DiesOnlyWithoutHello, If!Md5KeysStay, If!port
<1>. QED BY ZenonT(60), <1>1, <1>2, <1>3, <1>4

(* The columns that are neither intervals nor keys. *)
LEMMA PortColumnsFollow ==
  ASSUME NEW p, PortOK(p), NEW v
  PROVE  /\ PortFollows(If!SetPriority(p, v), p) /\ PortFollows(If!SetMtuIgnore(p, v), p)
         /\ PortFollows(If!SetCost(p, v), p) /\ PortFollows(If!SetNetwork(p, v), p)
         /\ PortFollows(If!SetAuth(p, v), p) /\ PortFollows(If!SetTextKey(p, v), p)
<1>1. PortFollows(If!SetPriority(p, v), p)
  BY DEF PortFollows, PortOK, IsOspfPort, If!SetPriority
<1>2. PortFollows(If!SetMtuIgnore(p, v), p)
  BY DEF PortFollows, PortOK, IsOspfPort, If!SetMtuIgnore
<1>3. PortFollows(If!SetCost(p, v), p)
  BY DEF PortFollows, PortOK, IsOspfPort, If!SetCost
<1>4. PortFollows(If!SetNetwork(p, v), p)
  BY DEF PortFollows, PortOK, IsOspfPort, If!SetNetwork
<1>5. PortFollows(If!SetAuth(p, v), p)
  BY DEF PortFollows, PortOK, IsOspfPort, If!SetAuth
<1>6. PortFollows(If!SetTextKey(p, v), p)
  BY DEF PortFollows, PortOK, IsOspfPort, If!SetTextKey
<1>. QED BY ZenonT(60), <1>1, <1>2, <1>3, <1>4, <1>5, <1>6

(* An interval that is not zero. *)
LEMMA IntervalFollows ==
  ASSUME NEW p, PortOK(p), NEW key, NEW n, n # 0
  PROVE  PortFollows(If!ospf_set_port_intervals(p, key, n), p)
<1> DEFINE m == Put(p.intervals, key, n)
<1>1. IsMap(m) /\ ("hello" \in DOMAIN m => m["hello"] # 0)
  BY ZenonT(60) DEF PortOK, IsMap, Put
<1>. HIDE DEF m
<1>2. PortFollows([p EXCEPT !.intervals = m], p)
  BY <1>1 DEF PortFollows, PortOK, IsOspfPort
<1>. QED BY ZenonT(60), <1>2 DEF If!ospf_set_port_intervals, If!Put, Put, m

(* A key is added under a new id, or removed. *)
LEMMA Md5Follows ==
  ASSUME NEW p, PortOK(p), NEW id, NEW key
  PROVE  /\ PortFollows(If!ospf_md5_key_update_to_port(p, id, key), p)
         /\ PortFollows(If!ospf_md5_key_remove_from_port(p, id), p)
<1>1. ASSUME id \in DOMAIN p.md5 PROVE PortFollows(If!ospf_md5_key_update_to_port(p, id, key), p)
  <2>1. If!ospf_md5_key_update_to_port(p, id, key) = p
    BY ZenonT(60), <1>1 DEF If!ospf_md5_key_update_to_port
  <2>. QED BY ZenonT(60), <2>1 DEF PortFollows
<1>2. ASSUME id \notin DOMAIN p.md5 PROVE PortFollows(If!ospf_md5_key_update_to_port(p, id, key), p)
  <2> DEFINE m == Put(p.md5, id, key)
  <2>1. IsMap(m) /\ \A x \in DOMAIN p.md5 \cap DOMAIN m : m[x] = p.md5[x]
    BY ZenonT(60), <1>2 DEF IsMap, Put
  <2>. HIDE DEF m
  <2>2. PortFollows([p EXCEPT !.md5 = m], p)
    BY <2>1 DEF PortFollows, PortOK, IsOspfPort
  <2>. QED BY ZenonT(60), <1>2, <2>2 DEF If!ospf_md5_key_update_to_port, If!Put, Put, m
<1>3. PortFollows(If!ospf_md5_key_remove_from_port(p, id), p)
  <2> DEFINE m == Drop(p.md5, id)
  <2>1. IsMap(m) /\ \A x \in DOMAIN p.md5 \cap DOMAIN m : m[x] = p.md5[x]
    BY ZenonT(60) DEF IsMap, Drop
  <2>. HIDE DEF m
  <2>2. PortFollows([p EXCEPT !.md5 = m], p)
    BY <2>1 DEF PortFollows, PortOK, IsOspfPort
  <2>. QED BY ZenonT(60), <2>2 DEF If!ospf_md5_key_remove_from_port, If!Drop, Drop, m
<1>. QED BY ZenonT(60), <1>1, <1>2, <1>3

(* An interval command writes an interval that is not zero, or divides by a hello
   interval that is not there. *)
LEMMA IntervalKeeps ==
  ASSUME PortInv, vtysh # "dead", NEW key, NEW n, n # 0, If!ospf_interval_cmd_execute(key, n)
  PROVE  PortStays
<1>1. \/ db' = db /\ vtysh' = "ready"
      \/ vtysh' = "ready" /\ db' = [db EXCEPT !.port = If!ospf_set_port_intervals(db.port, key, n)]
      \/ db' = db /\ vtysh' = "dead" /\ If!IntervalCrashes(db.port, key)
  BY ZenonT(60) DEF PortInv, If!ospf_interval_cmd_execute, If!OnPort, If!START_DB_TXN, If!WritePort, If!END_DB_TXN,
         If!ABORT_DB_TXN, If!Finish, If!Crash, If!port
<1>2. If!IntervalCrashes(db.port, key) => "hello" \notin DOMAIN db.port.intervals
  BY ZenonT(60) DEF PortInv, PortOK, If!IntervalCrashes, If!ospf_get_port_intervals
<1>3. PortOK(db.port)
  BY ZenonT(60) DEF PortInv
<1>. QED BY ZenonT(60), <1>1, <1>2, <1>3, IntervalFollows, PortWritten

(* A command that writes a port. *)
LEMMA OnPortKeeps ==
  ASSUME PortInv, vtysh # "dead", NEW q, PortFollows(q, db.port), If!OnPort(If!WritePort(q))
  PROVE  PortStays
<1>1. \/ db' = db /\ vtysh' = "ready"
      \/ vtysh' = "ready" /\ db' = [db EXCEPT !.port = q]
  BY ZenonT(60) DEF PortInv, If!OnPort, If!START_DB_TXN, If!WritePort, If!END_DB_TXN, If!ABORT_DB_TXN, If!Finish, If!Crash
<1>. QED BY ZenonT(60), <1>1, PortWritten

(* One that aborts when nothing changes. *)
LEMMA IfChangedKeeps ==
  ASSUME PortInv, vtysh # "dead", NEW q, PortFollows(q, db.port), If!OnPortIfChanged(q)
  PROVE  PortStays
<1>1. \/ db' = db /\ vtysh' = "ready"
      \/ vtysh' = "ready" /\ db' = [db EXCEPT !.port = q]
  BY ZenonT(60) DEF PortInv, If!OnPortIfChanged, If!OnPort, If!START_DB_TXN, If!WritePort, If!END_DB_TXN, If!ABORT_DB_TXN,
         If!Finish, If!Crash
<1>. QED BY ZenonT(60), <1>1, PortWritten

(* Every command of an interface. *)
LEMMA InterfaceKeeps ==
  ASSUME If!InterfaceConstants, PortInv, If!Next PROVE PortStays
<1>1. vtysh # "dead" /\ PortOK(db.port)
  BY ZenonT(60) DEF If!Next, PortInv
<1>2. CASE \/ If!cli_ospf_router_hello_interval
          \/ If!cli_ospf_router_dead_interval
          \/ If!cli_ip_ospf_retransmit_interval
          \/ If!cli_ip_ospf_transmit_delay
  BY ZenonT(60), <1>1, <1>2, IntervalKeeps DEF If!InterfaceConstants,
     If!cli_ospf_router_hello_interval, If!cli_ospf_router_dead_interval, If!cli_ip_ospf_retransmit_interval, If!cli_ip_ospf_transmit_delay
<1>3. CASE \/ If!cli_ospf_router_no_hello_interval
          \/ If!cli_ospf_router_no_dead_interval
          \/ If!cli_ip_ospf_no_retransmit_interval
          \/ If!cli_ip_ospf_no_transmit_delay
  BY <1>1, <1>3, IntervalKeeps DEF If!Default,
     If!cli_ospf_router_no_hello_interval, If!cli_ospf_router_no_dead_interval, If!cli_ip_ospf_no_retransmit_interval, If!cli_ip_ospf_no_transmit_delay
<1>4. CASE \/ If!cli_ip_ospf_priority
          \/ If!cli_ip_ospf_no_priority
  BY ZenonT(60), <1>1, <1>4, OnPortKeeps, PortColumnsFollow DEF If!port, If!ospf_interface_priority_cmd_execute,
     If!cli_ip_ospf_priority, If!cli_ip_ospf_no_priority
<1>5. CASE \/ If!cli_ip_ospf_mtu_ignore
          \/ If!cli_ip_ospf_no_mtu_ignore
  BY ZenonT(60), <1>1, <1>5, OnPortKeeps, PortColumnsFollow DEF If!port, If!ospf_interface_mtu_ignore_cmd_execute,
     If!cli_ip_ospf_mtu_ignore, If!cli_ip_ospf_no_mtu_ignore
<1>6. CASE \/ If!cli_ip_ospf_cost
          \/ If!cli_ip_ospf_no_cost
  BY ZenonT(60), <1>1, <1>6, OnPortKeeps, PortColumnsFollow DEF If!port, If!ospf_interface_cost_cmd_execute,
     If!cli_ip_ospf_cost, If!cli_ip_ospf_no_cost
<1>7. CASE \/ If!cli_ip_ospf_network
          \/ If!cli_ip_ospf_no_network
  BY ZenonT(60), <1>1, <1>7, OnPortKeeps, PortColumnsFollow DEF If!port, If!ospf_interface_network_cmd_execute,
     If!cli_ip_ospf_network, If!cli_ip_ospf_no_network
<1>8. CASE \/ If!cli_ospf_interface_auth
          \/ If!cli_ospf_interface_auth_message_digest
          \/ If!cli_ospf_interface_auth_null
          \/ If!cli_no_ospf_interface_auth
  BY ZenonT(60), <1>1, <1>8, OnPortKeeps, PortColumnsFollow DEF If!port, If!ospf_interface_auth_cmd_execute,
     If!cli_ospf_interface_auth, If!cli_ospf_interface_auth_message_digest, If!cli_ospf_interface_auth_null, If!cli_no_ospf_interface_auth
<1>9. CASE \/ If!cli_ospf_interface_auth_key
          \/ If!cli_no_ospf_interface_auth_key
  BY ZenonT(60), <1>1, <1>9, OnPortKeeps, PortColumnsFollow DEF If!port, If!cli_ospf_interface_auth_key, If!cli_no_ospf_interface_auth_key
<1>10. CASE \/ If!cli_ip_ospf_message_digest_key
          \/ If!cli_no_ip_ospf_message_digest_key
  BY ZenonT(60), <1>1, <1>10, IfChangedKeeps, Md5Follows DEF If!port,
     If!cli_ip_ospf_message_digest_key, If!cli_no_ip_ospf_message_digest_key
<1>11. ASSUME NEW row, If!Daemon(row) PROVE PortStays
  <2>1. vtysh' = "ready" /\ db' = [db EXCEPT !.row = row]
    BY ZenonT(60), <1>1, <1>11 DEF If!Daemon, PortInv
  <2>. QED BY ZenonT(60), <1>1, <2>1, PortWritten
<1>. QED BY ZenonT(60), <1>2, <1>3, <1>4, <1>5, <1>6, <1>7, <1>8, <1>9, <1>10, <1>11 DEF If!Next, If!IntervalNext, If!ColumnNext

(* PortInv is inductive. *)
LEMMA PortInvariant == ASSUME If!InterfaceConstants PROVE If!Spec => []PortInv
<1>1. If!Init => PortInv
  <2>1. ASSUME NEW m \in {If!EmptyMap, If!DefaultIntervals} PROVE PortOK(If!FreshPort(m))
    <3>1. IsMap(m) /\ ("hello" \in DOMAIN m => m["hello"] # 0)
      <4>1. CASE m = If!EmptyMap
        BY ZenonT(60), <4>1 DEF IsMap, If!EmptyMap
      <4>2. CASE m = If!DefaultIntervals
        <5>1. If!Default("hello") # 0
          BY DEF If!Default
        <5>. QED BY ZenonT(60), <4>2, <5>1 DEF IsMap, If!DefaultIntervals
      <4>. QED BY ZenonT(60), <4>1, <4>2
    <3>2. IsMap(If!EmptyMap)
      BY ZenonT(60) DEF IsMap, If!EmptyMap
    <3>. QED BY ZenonT(60), <3>1, <3>2 DEF PortOK, IsOspfPort, If!FreshPort
  <2>2. ASSUME NEW m, PortOK(If!FreshPort(m)), db = [row |-> "attached", port |-> If!FreshPort(m)], vtysh = "ready"
        PROVE  PortInv
    BY ZenonT(60), <2>2 DEF PortInv, IsTables, If!DiesOnlyWithoutHello
  <2>. QED BY ZenonT(60), <2>1, <2>2 DEF If!Init
<1>2. PortInv /\ [If!Next]_(If!cmdVars) => PortInv'
  <2>1. ASSUME PortInv, UNCHANGED If!cmdVars PROVE PortInv'
    BY ZenonT(60), <2>1 DEF PortInv, If!cmdVars, If!DiesOnlyWithoutHello, If!port
  <2>. QED BY ZenonT(60), <2>1, InterfaceKeeps DEF PortStays
<1>. QED BY <1>1, <1>2, PTL DEF If!Spec

(***************************************************************************)
(* The commands of an interface end the process in one case only, a dead    *)
(* interval on a port that has no hello interval                            *)
(* (ospf_interval_cmd_execute).                                             *)
(***************************************************************************)
THEOREM OnlyWithoutHello == ASSUME If!InterfaceConstants PROVE If!Spec => []If!DiesOnlyWithoutHello
<1>1. PortInv => If!DiesOnlyWithoutHello
  BY ZenonT(60) DEF PortInv
<1>. QED BY <1>1, PortInvariant, PTL

(***************************************************************************)
(* No command replaces the key of a message digest id                       *)
(* (ospf_md5_key_update_to_port).                                           *)
(***************************************************************************)
THEOREM KeysAreKept == ASSUME If!InterfaceConstants PROVE If!Spec => If!Md5KeyFixed
<1>1. PortInv /\ [If!Next]_(If!cmdVars) => [If!Md5KeysStay]_(If!cmdVars)
  BY ZenonT(60), InterfaceKeeps DEF PortStays
<1>. QED BY <1>1, PortInvariant, PTL DEF If!Spec, If!Md5KeyFixed

-------------------------------------------------------------------------------
CONSTANTS VlinkAreas, Peers, MaxVlinks, VlinkTimes, VlinkMd5Ids, VlinkKeys

VARIABLE slots

Vl == INSTANCE OspfVlink

(* The virtual links.  A transaction that is left open stays so, and the entries
   of ospf_vlink_count with it, until the process is started again. *)

(* A command that leaves its transaction closed, or open when no entry is free. *)
LEMMA OpenKept ==
  ASSUME Vl!OpenOnlyWhenFull,
         \/ vtysh' = "ready"
         \/ Vl!Slots \subseteq slots /\ slots' = slots
         \/ vtysh' = vtysh /\ slots' = slots
  PROVE  Vl!OpenOnlyWhenFull'
BY ZenonT(60) DEF Vl!OpenOnlyWhenFull, Vl!Slots

(* Every command, and what other sessions do. *)
LEMMA VlinkKeeps ==
  ASSUME Vl!OpenOnlyWhenFull, Vl!Next PROVE Vl!OpenOnlyWhenFull'
<1> USE DEF Vl!InRouter, Vl!Insert, Vl!EndAndCount, Vl!EndAndFree, Vl!END_DB_TXN, Vl!ERRONEOUS_DB_TXN,
            Vl!ReturnWithoutEnd, Vl!Finish, Vl!Crash, Vl!Refuse
<1> DEFINE Outcome == \/ vtysh' = "ready"
                      \/ Vl!Slots \subseteq slots /\ slots' = slots
                      \/ vtysh' = vtysh /\ slots' = slots
<1>0. vtysh = "txn" => Vl!Slots \subseteq slots
  BY ZenonT(60) DEF Vl!OpenOnlyWhenFull
<1>1. ASSUME NEW a, NEW p, Vl!cli_ospf_area_vlink(a, p) PROVE Outcome
  BY ZenonT(60), <1>0, <1>1 DEF Vl!cli_ospf_area_vlink
<1>2. ASSUME NEW a, NEW p, NEW key, NEW n, Vl!cli_ospf_area_vlink_param1(a, p, key, n) PROVE Outcome
  BY ZenonT(60), <1>0, <1>2 DEF Vl!cli_ospf_area_vlink_param1
<1>3. ASSUME NEW a, NEW p, NEW key, Vl!cli_no_ospf_area_vlink_param1(a, p, key) PROVE Outcome
  BY ZenonT(60), <1>0, <1>3 DEF Vl!cli_no_ospf_area_vlink_param1, Vl!OnLink
<1>4. ASSUME NEW a, NEW p, Vl!cli_ospf_area_vlink_auth(a, p) PROVE Outcome
  BY ZenonT(60), <1>0, <1>4 DEF Vl!cli_ospf_area_vlink_auth, Vl!OnFirst
<1>5. ASSUME NEW a, NEW p, Vl!cli_ospf_area_vlink_auth_key(a, p) PROVE Outcome
  BY ZenonT(60), <1>0, <1>5 DEF Vl!cli_ospf_area_vlink_auth_key, Vl!OnFirst
<1>6. ASSUME NEW a, NEW p, Vl!cli_no_ospf_area_vlink(a, p) PROVE Outcome
  BY ZenonT(60), <1>0, <1>6 DEF Vl!cli_no_ospf_area_vlink, Vl!OnLink
<1>7. ASSUME NEW a, NEW p, Vl!cli_no_ospf_area_vlink_auth(a, p) PROVE Outcome
  BY ZenonT(60), <1>0, <1>7 DEF Vl!cli_no_ospf_area_vlink_auth, Vl!OnLink
<1>8. ASSUME NEW a, NEW p, Vl!cli_no_ospf_area_vlink_auth_key(a, p) PROVE Outcome
  BY ZenonT(60), <1>0, <1>8 DEF Vl!cli_no_ospf_area_vlink_auth_key, Vl!OnLink
<1>9. ASSUME NEW a, NEW p, NEW slot, Vl!AddedElsewhere(a, p, slot) PROVE Outcome
  BY ZenonT(60), <1>9 DEF Vl!AddedElsewhere
<1>10. CASE Vl!ospf_area_vlink_init
  BY ZenonT(60), <1>10, OpenKept DEF Vl!ospf_area_vlink_init
<1>11. CASE Vl!RouterElsewhere
  BY ZenonT(60), <1>11, OpenKept DEF Vl!RouterElsewhere
<1>12. Outcome \/ Vl!ospf_area_vlink_init \/ Vl!RouterElsewhere
  BY ZenonT(60), <1>1, <1>2, <1>3, <1>4, <1>5, <1>6, <1>7, <1>8, <1>9 DEF Vl!Next
<1>. QED BY ZenonT(60), <1>10, <1>11, <1>12, OpenKept

(***************************************************************************)
(* A command on a virtual link leaves its transaction open, so that the     *)
(* next command ends the process, only when every entry of                  *)
(* ospf_vlink_count is taken.                                               *)
(***************************************************************************)
THEOREM OpenOnlyFull == Vl!Spec => []Vl!OpenOnlyWhenFull
<1>1. Vl!Init => Vl!OpenOnlyWhenFull
  BY ZenonT(60) DEF Vl!Init, Vl!OpenOnlyWhenFull
<1>2. Vl!OpenOnlyWhenFull /\ [Vl!Next]_(Vl!vlinkVars) => Vl!OpenOnlyWhenFull'
  <2>1. ASSUME Vl!OpenOnlyWhenFull, UNCHANGED Vl!vlinkVars PROVE Vl!OpenOnlyWhenFull'
    BY ZenonT(60), <2>1, OpenKept DEF Vl!vlinkVars
  <2>. QED BY ZenonT(60), <2>1, VlinkKeeps
<1>. QED BY <1>1, <1>2, PTL DEF Vl!Spec
=============================================================================
