------------------------------ MODULE OspfConfig ------------------------------
(***************************************************************************)
(* The lines that "show running-config" prints for the router, the port of  *)
(* an interface and the virtual links (vtysh/vtysh_ovsdb_router_context.c,  *)
(* vtysh/vtysh_ovsdb_ospf_context.c, vtysh/ospf_vty.c), and what they do     *)
(* when they are entered again.                                             *)
(***************************************************************************)
EXTENDS OspfRouter, SequencesExt

CONSTANTS
    Times, Priorities, Md5Ids, AuthKeys,
    VlinkAreas, Peers, MaxVlinks, VlinkTimes, VlinkMd5Ids, VlinkKeys

VARIABLE slots

If == INSTANCE OspfInterface
Vl == INSTANCE OspfVlink

-------------------------------------------------------------------------------
(* The printed configuration: vtysh_router_context_ospf_clientcallback.  A
   line is its first word and its arguments. *)

When(condition, line) == IF condition THEN <<line>> ELSE <<>>

(* A number is printed unless it is 0 or the default. *)
WhenNumber(word, n, default) == When(n > 0 /\ n # default, <<word, n>>)

(* Mutant: a startup time is printed as the administrative form. *)
MaxMetricLines_Admin(row) ==
    When(row.admin = "true" \/ row.startup # <<>>, <<"max-metric">>)

MaxMetricLines(row) ==
    When(row.admin = "true", <<"max-metric">>)
    \o When(row.startup # <<>>, <<"on-startup", row.startup[1]>>)

AreaLines(a, area) ==
    LET id   == OSPF_IP_STRING_CONVERT(a)
        role == IF area.role \in {"never", "always"} THEN area.role ELSE Absent
        nssa == area.area_type \in {"nssa", "nssa_no_summary"}
    IN  When(area.auth # Absent, <<"area auth", id, area.auth>>)
        \o When(area.cost > 0 /\ area.cost # OSPF_AREA_STUB_DEFAULT_COST,
                <<"area cost", id, area.cost>>)
        \o When(area.area_type # "default",
                <<"area type", id, area.area_type, IF nssa THEN role ELSE Absent>>)

vtysh_router_context_ospf_area_callback(row) ==
    FoldLeft(LAMBDA lines, a : lines \o AreaLines(a, row.areas[a]), <<>>,
             SetToSeq(DOMAIN row.areas))

vtysh_router_context_ospf_clientcallback(row) ==
    When(row.router_id # Absent, <<"router-id", row.router_id>>)
    \o [i \in 1 .. Cardinality(DOMAIN row.networks) |->
          LET range == SetToSeq(DOMAIN row.networks)[i]
          IN  <<"network", range, OSPF_IP_STRING_CONVERT(row.networks[range])>>]
    \o MaxMetricLines(row)
    \o When(row.rfc1583, <<"compatible rfc1583">>)
    \o WhenNumber("default-metric", row.metric, OSPF_DEFAULT_METRIC_DEFAULT)
    \o WhenNumber("timers lsa-group-pacing", row.pacing, OSPF_LSA_GROUP_PACING_DEFAULT)
    \o WhenNumber("distance", row.distance["all"], OSPF_ROUTER_DISTANCE_DEFAULT)
    \o [i \in 1 .. Cardinality(row.redistribute) |->
          <<"redistribute", SetToSeq(row.redistribute)[i]>>]
    \o When(row.originate, <<"default-information", row.always>>)
    \o vtysh_router_context_ospf_area_callback(row)

(* "show running-config ospf" prints the areas by itself: the cost with the
   position of the area for its id, and the translator role of the last area
   that had one. *)
ospf_area_show_running(row) ==
    LET ids == SetToSeq(DOMAIN row.areas)
        role(i) == LET set == {j \in 1 .. i : row.areas[ids[j]].role \in {"never", "always"}}
                   IN  IF set = {} THEN Absent
                       ELSE row.areas[ids[CHOOSE j \in set : \A k \in set : k <= j]].role
        lines(i) == LET area == row.areas[ids[i]]
                        id   == OSPF_IP_STRING_CONVERT(ids[i])
                        nssa == area.area_type \in {"nssa", "nssa_no_summary"}
                    IN  When(area.auth # Absent, <<"area auth", id, area.auth>>)
                        \o When(area.cost > 0 /\ area.cost # OSPF_AREA_STUB_DEFAULT_COST,
                                <<"area cost", i - 1, area.cost>>)
                        \o When(area.area_type # "default",
                                <<"area type", id, area.area_type,
                                  IF nssa THEN role(i) ELSE Absent>>)
    IN  FlattenSeq([i \in DOMAIN ids |-> lines(i)])

(* Mutant: the router id is left out. *)
ospf_running_config_show_NoId(row) == MaxMetricLines(row)

ospf_running_config_show(row) ==
    When(row.router_id # Absent, <<"router-id", row.router_id>>)
    \o [i \in 1 .. Cardinality(DOMAIN row.networks) |->
          LET range == SetToSeq(DOMAIN row.networks)[i]
          IN  <<"network", range, OSPF_IP_STRING_CONVERT(row.networks[range])>>]
    \o MaxMetricLines(row)
    \o WhenNumber("distance", row.distance["all"], OSPF_ROUTER_DISTANCE_DEFAULT)
    \o When(row.rfc1583, <<"compatible rfc1583">>)
    \o WhenNumber("default-metric", row.metric, OSPF_DEFAULT_METRIC_DEFAULT)
    \o WhenNumber("timers lsa-group-pacing", row.pacing, OSPF_LSA_GROUP_PACING_DEFAULT)
    \o ospf_area_show_running(row)

(* "show ip ospf": the administrative stub router is reported whenever the key
   is there, "false" too.  The startup time is read under another name,
   OSPF_KEY_ROUTER_STUB_ADV_STARTUP, than the commands write it under,
   OSPF_KEY_ROUTER_STUB_STARTUP; adv_startup is what is stored there, which is
   the configured time if the two names (external) are the same key. *)
ospf_ip_router_show(row, adv_startup) ==
    [router_id |-> row.router_id, rfc1583 |-> row.rfc1583,
     administratively |-> row.admin # Absent, startup |-> adv_startup,
     areas |-> Cardinality(DOMAIN row.areas)]

-------------------------------------------------------------------------------
(* Re-entering a printed line on a row. *)

Enter(row, line) ==
    CASE line[1] = "router-id"  -> [row EXCEPT !.router_id = line[2]]
      [] line[1] = "network"    -> ospf_network_insert_ospf_router(row, line[2], line[3])
      [] line[1] = "max-metric" -> SetAdmin(row)
      [] line[1] = "on-startup" -> SetStartup(row, line[2])
      [] line[1] = "compatible rfc1583" -> [row EXCEPT !.rfc1583 = TRUE]
      [] line[1] = "default-metric"     -> [row EXCEPT !.metric = line[2]]
      [] line[1] = "timers lsa-group-pacing" -> [row EXCEPT !.pacing = line[2]]
      [] line[1] = "distance"     -> [row EXCEPT !.distance["all"] = line[2]]
      [] line[1] = "redistribute" -> [row EXCEPT !.redistribute = @ \cup {line[2]}]
      [] line[1] = "default-information" -> SetOriginate(row, line[2])
      [] line[1] = "area auth" -> SetAreaAuth(row, line[2], line[3])
      [] line[1] = "area cost" -> SetAreaCost(row, line[2], line[3])
      [] line[1] = "area type" ->
           SetAreaType(row, line[2], line[3],
                       IF line[3] \in {"stub", "stub_no_summary"} THEN Absent
                       ELSE IF line[4] = Absent THEN "candidate" ELSE line[4])

Restored(row) ==
    FoldLeft(Enter, ospf_router_tbl_default,
             vtysh_router_context_ospf_clientcallback(row))

-------------------------------------------------------------------------------
(* vtysh_intf_context_ospf_clientcallback: a line is a word and arguments. *)

(* The order of the intervals, of a port as of a virtual link. *)
PrintedIntervals == <<"hello", "dead", "retransmit", "transmit">>

IntervalLine(p, key) ==
    LET n == If!ospf_get_port_intervals(p.intervals, key)
    IN  When(n > 0 /\ n # If!Default(key), <<key, n>>)

(* Mutant: the dead interval is printed before the hello interval. *)
IntervalLines_DeadFirst(p) ==
    IntervalLine(p, "dead") \o IntervalLine(p, "hello")
    \o IntervalLine(p, "retransmit") \o IntervalLine(p, "transmit")

IntervalLines(p) ==
    FoldLeft(LAMBDA lines, key : lines \o IntervalLine(p, key), <<>>, PrintedIntervals)

vtysh_intf_context_ospf_clientcallback(p) ==
    IntervalLines(p)
    \o When(p.priority # 1, <<"priority", p.priority>>)
    \o When(p.mtu_ignore, <<"mtu-ignore">>)
    \o When(p.cost # 10, <<"cost", p.cost>>)
    \o When(p.if_type = "pointopoint", <<"network", p.if_type>>)
    \o When(p.auth # If!NoText, <<"authentication", p.auth>>)
    \o [i \in 1 .. Cardinality(DOMAIN p.md5) |->
          LET id == SetToSeq(DOMAIN p.md5)[i] IN <<"message-digest-key", id, p.md5[id]>>]
    \o When(p.text # If!NoText, <<"authentication-key", p.text>>)

(* A printed line entered on a port; a refused one leaves the port alone. *)
EnterPort(p, line) ==
    CASE line[1] \in If!IntervalKeys ->
             IF If!IntervalRefused(p, line[1], line[2]) THEN p
             ELSE If!ospf_set_port_intervals(p, line[1], line[2])
      [] line[1] = "priority" -> If!SetPriority(p, line[2])
      [] line[1] = "mtu-ignore" -> If!SetMtuIgnore(p, TRUE)
      [] line[1] = "cost" -> If!SetCost(p, line[2])
      [] line[1] = "network" -> If!SetNetwork(p, line[2])
      [] line[1] = "authentication" -> If!SetAuth(p, line[2])
      [] line[1] = "message-digest-key" -> If!ospf_md5_key_update_to_port(p, line[2], line[3])
      [] line[1] = "authentication-key" -> If!SetTextKey(p, line[2])

RestoredPort(p) ==
    FoldLeft(EnterPort, If!FreshPort(If!DefaultIntervals),
             vtysh_intf_context_ospf_clientcallback(p))

-------------------------------------------------------------------------------
(* The lines printed for a link by vtysh_router_context_ospf_area_callback, and
   a printed line entered for a link that is the only one in the table. *)

(* Mutant: the text key is left out. *)
VlinkLines_NoText(row) ==
    When(row.auth # Vl!Unset, <<"authentication", row.auth>>)
    \o FoldLeft(LAMBDA lines, key :
                    lines \o When(row.intervals[key] # Vl!IntervalDefaults[key],
                                  <<key, row.intervals[key]>>),
                <<>>, PrintedIntervals)

VlinkLines(row) ==
    When(row.auth # Vl!Unset, <<"authentication", row.auth>>)
    \o FoldLeft(LAMBDA lines, key :
                    lines \o When(row.intervals[key] # Vl!IntervalDefaults[key],
                                  <<key, row.intervals[key]>>),
                <<>>, PrintedIntervals)
    \o When(row.text # Vl!Unset, <<"authentication-key", row.text>>)
    \o [i \in 1 .. Cardinality(DOMAIN row.md5) |->
          LET id == SetToSeq(DOMAIN row.md5)[i] IN <<"message-digest-key", id, row.md5[id]>>]

EnterVlink(row, line) ==
    CASE line[1] = "authentication" -> Vl!ospf_vlink_set_authentication(row, line[2])
      [] line[1] = "authentication-key" -> Vl!SetText(row, line[2])
      [] line[1] = "message-digest-key" -> Vl!ospf_md5_key_update_to_vl(row, line[2], line[3])
      [] OTHER ->
           IF Vl!ospf_vlink_set_other_config_Refused(row, line[1], line[2]) THEN row
           ELSE Vl!ospf_vlink_set_other_config(row, line[1], line[2])

RestoredVlink(row) ==
    FoldLeft(EnterVlink, Vl!NewVlink(row.area, row.peer, row.name), VlinkLines(row))

-------------------------------------------------------------------------------
(* What the printed configuration cannot say: an area id of four three-digit
   bytes, a 0 as metric or cost, the distance of a kind of route, an area row
   whose columns are all back at their defaults, the role of an area that is
   not nssa, an administrative flag that was removed rather than "false". *)
Sayable(row) ==
    [row EXCEPT !.areas = [a \in {b \in DOMAIN @ : @[b] # NewArea} |-> @[a]],
                !.admin = IF @ = Absent THEN "false" ELSE @]

AllSayable(row) ==
    /\ \A a \in DOMAIN row.areas :
         /\ OSPF_IP_STRING_CONVERT(a) = a
         /\ row.areas[a].cost > 0
         /\ row.areas[a].area_type \in {"default", "stub", "stub_no_summary"} =>
                row.areas[a].role = "candidate"
    /\ \A r \in DOMAIN row.networks :
         OSPF_IP_STRING_CONVERT(row.networks[r]) = row.networks[r]
    /\ row.metric > 0
    /\ \A k \in DistanceKeys \ {"all"} : row.distance[k] = OSPF_ROUTER_DISTANCE_DEFAULT

(***************************************************************************)
(* What "show running-config" prints under "router ospf", entered again    *)
(* after "no router ospf", gives the row it was printed from, for every    *)
(* configuration the printer has words for: the commands and               *)
(* vtysh_router_context_ospf_clientcallback agree on keys, defaults and    *)
(* the meaning of what is left out.                                         *)
(***************************************************************************)
RouterConfigRestores ==
    HasRouter /\ AllSayable(db[1]) => Sayable(Restored(db[1])) = Sayable(db[1])

(* A line without what "show running-config ospf" may print wrongly: the area of
   a cost, for which it prints a position, and the role of an area, for which it
   prints that of an earlier one. *)
Blurred(line) ==
    CASE line[1] = "area cost" -> <<"area cost", line[3]>>
      [] line[1] = "area type" -> <<"area type", line[2], line[3]>>
      [] OTHER -> line

(***************************************************************************)
(* "show running-config" and "show running-config ospf", which format the    *)
(* same row in two files, print the same lines but for redistribution and    *)
(* the default route, which the second leaves out: all of each line with     *)
(* one area that has the default cost, and with any areas all but the area   *)
(* of a cost and the role of an area.                                        *)
(***************************************************************************)
RunningConfigsAgree ==
    HasRouter =>
        LET row   == db[1]
            ospf  == Range(ospf_running_config_show(row))
            lines == {l \in Range(vtysh_router_context_ospf_clientcallback(row)) :
                        l[1] \notin {"redistribute", "default-information"}}
        IN  /\ {Blurred(l) : l \in ospf} = {Blurred(l) : l \in lines}
            /\ /\ Cardinality(DOMAIN row.areas) <= 1
               /\ \A a \in DOMAIN row.areas : row.areas[a].cost = OSPF_AREA_STUB_DEFAULT_COST
               => ospf = lines

(***************************************************************************)
(* Not a property of the code: "show ip ospf" reports the stub router as     *)
(* "configured administratively" exactly if the running configuration has    *)
(* "max-metric router-lsa", and a startup time exactly if that has one.      *)
(* The first fails for a new router, whose flag is "false"                   *)
(* (ospf_vty.c:707, 1771); the second too if the two keys differ.            *)
(***************************************************************************)
ShowIpOspfAgrees ==
    HasRouter =>
        LET row   == db[1]
            lines == Range(vtysh_router_context_ospf_clientcallback(row))
            shown == ospf_ip_router_show(row, row.startup)
        IN  /\ shown.administratively <=> <<"max-metric">> \in lines
            /\ shown.startup # <<>> <=> \E l \in lines : l[1] = "on-startup"

(* The dead interval as its command would accept it, or the default. *)
DeadAccepted(p) ==
    \/ p.intervals["dead"] = If!Default("dead")
    \/ ~If!IntervalRefused(p, "dead", p.intervals["dead"])

(***************************************************************************)
(* The lines printed for an interface, entered on a port with the default  *)
(* intervals, give the port's columns back, in the order they are printed: *)
(* the hello interval has to come before the dead interval it bounds.  A   *)
(* dead interval that the command would refuse today (a later hello        *)
(* interval overtook it) is the exception.                                  *)
(***************************************************************************)
InterfaceConfigRestores ==
    DOMAIN If!port.intervals = If!IntervalKeys /\ DeadAccepted(If!port) =>
        RestoredPort(If!port) = If!port

(***************************************************************************)
(* The lines printed for a virtual link, entered in their order, give its   *)
(* columns back, unless a later hello interval has overtaken the dead       *)
(* interval.                                                                *)
(***************************************************************************)
VlinkConfigRestores ==
    \A i \in DOMAIN db.rows :
        LET row == db.rows[i]
        IN  \/ RestoredVlink(row) = row
            \/ /\ row.intervals["dead"] # Vl!IntervalDefaults["dead"]
               /\ Vl!ospf_vlink_set_other_config_Refused(row, "dead", row.intervals["dead"])
===============================================================================
