---------------------------- MODULE OspfInterface -----------------------------
(***************************************************************************)
(* The OSPF commands of an interface (vtysh/ospf_vty.c, "ip ospf ...").     *)
(* They write columns of the port the OSPF_Interface row points at.  The    *)
(* row and the pointer are made by the OSPF daemon, with the default        *)
(* intervals or without.                                                    *)
(***************************************************************************)
EXTENDS OvsdbCommand

CONSTANTS
    Times,          \* intervals typed, at least 3
    Priorities,     \* priorities and costs typed
    Md5Ids,         \* ids of message digest keys, at least 1
    AuthKeys        \* keys

(* What the constants are taken for. *)
InterfaceConstants == 0 \notin Times

Default(key) ==
    CASE key = "hello" -> 10 [] key = "dead" -> 40
      [] key = "retransmit" -> 5 [] key = "transmit" -> 1

IntervalKeys == {"hello", "dead", "retransmit", "transmit"}

DefaultIntervals == [k \in IntervalKeys |-> Default(k)]

NoText == "none"

(* An optional column that is empty is read as its default everywhere, so the
   two are one value here. *)
FreshPort(intervals) ==
    [intervals |-> intervals, priority |-> 1, mtu_ignore |-> FALSE, cost |-> 10,
     if_type |-> "broadcast", auth |-> NoText, md5 |-> EmptyMap, text |-> NoText]

port == db.port

-------------------------------------------------------------------------------
ospf_get_port_intervals(intervals, key) ==
    IF key \in DOMAIN intervals THEN intervals[key] ELSE 0

ospf_set_port_intervals(p, key, n) == [p EXCEPT !.intervals = Put(@, key, n)]

(* A dead interval is refused unless it is a multiple of the hello interval;
   the other intervals, the hello interval too, are taken as they are. *)
IntervalRefused(p, key, n) ==
    LET hello == ospf_get_port_intervals(p.intervals, "hello")
    IN  key = "dead" /\ hello > 0 /\ (hello > n \/ n % hello # 0)

(* Mutant: the remainder is taken by the transmit delay. *)
IntervalCrashes_Transmit(p, key) ==
    key = "dead" /\ ospf_get_port_intervals(p.intervals, "transmit") = 0

IntervalCrashes(p, key) ==
    key = "dead" /\ ospf_get_port_intervals(p.intervals, "hello") = 0

(* Every command of this module: find the row by the interface's name, then
   its port; without them abort, which reports success. *)
OnPort(rest) ==
    START_DB_TXN(IF db.row # "attached" THEN ABORT_DB_TXN ELSE rest)

WritePort(p) == END_DB_TXN([db EXCEPT !.port = p])

ospf_interval_cmd_execute(key, n) ==
    OnPort(CASE IntervalCrashes(port, key) -> Crash
             [] IntervalRefused(port, key, n) -> ABORT_DB_TXN
             [] OTHER -> WritePort(ospf_set_port_intervals(port, key, n)))

cli_ospf_router_hello_interval == \E n \in Times : ospf_interval_cmd_execute("hello", n)

cli_ospf_router_no_hello_interval ==
    ospf_interval_cmd_execute("hello", Default("hello"))

cli_ospf_router_dead_interval == \E n \in Times : ospf_interval_cmd_execute("dead", n)

(* The default is checked against the hello interval like any other. *)
cli_ospf_router_no_dead_interval ==
    ospf_interval_cmd_execute("dead", Default("dead"))

cli_ip_ospf_retransmit_interval ==
    \E n \in Times : ospf_interval_cmd_execute("retransmit", n)

cli_ip_ospf_no_retransmit_interval ==
    ospf_interval_cmd_execute("retransmit", Default("retransmit"))

cli_ip_ospf_transmit_delay == \E n \in Times : ospf_interval_cmd_execute("transmit", n)

cli_ip_ospf_no_transmit_delay ==
    ospf_interval_cmd_execute("transmit", Default("transmit"))

-------------------------------------------------------------------------------
SetPriority(p, n) == [p EXCEPT !.priority = n]

ospf_interface_priority_cmd_execute(n) == OnPort(WritePort(SetPriority(port, n)))

cli_ip_ospf_priority == \E n \in Priorities : ospf_interface_priority_cmd_execute(n)

cli_ip_ospf_no_priority == ospf_interface_priority_cmd_execute(1)

SetMtuIgnore(p, on) == [p EXCEPT !.mtu_ignore = on]

ospf_interface_mtu_ignore_cmd_execute(on) == OnPort(WritePort(SetMtuIgnore(port, on)))

cli_ip_ospf_mtu_ignore == ospf_interface_mtu_ignore_cmd_execute(TRUE)

cli_ip_ospf_no_mtu_ignore == ospf_interface_mtu_ignore_cmd_execute(FALSE)

SetCost(p, n) == [p EXCEPT !.cost = n]

ospf_interface_cost_cmd_execute(n) == OnPort(WritePort(SetCost(port, n)))

cli_ip_ospf_cost == \E n \in Priorities \ {0} : ospf_interface_cost_cmd_execute(n)

cli_ip_ospf_no_cost == ospf_interface_cost_cmd_execute(10)

SetNetwork(p, type) == [p EXCEPT !.if_type = type]

ospf_interface_network_cmd_execute(type) == OnPort(WritePort(SetNetwork(port, type)))

cli_ip_ospf_network ==
    \E type \in {"broadcast", "pointopoint"} : ospf_interface_network_cmd_execute(type)

cli_ip_ospf_no_network == ospf_interface_network_cmd_execute("broadcast")

SetAuth(p, auth) == [p EXCEPT !.auth = auth]

ospf_interface_auth_cmd_execute(auth) == OnPort(WritePort(SetAuth(port, auth)))

cli_ospf_interface_auth == ospf_interface_auth_cmd_execute("text")

cli_ospf_interface_auth_message_digest == ospf_interface_auth_cmd_execute("md5")

cli_ospf_interface_auth_null == ospf_interface_auth_cmd_execute("null")

cli_no_ospf_interface_auth == ospf_interface_auth_cmd_execute(NoText)

-------------------------------------------------------------------------------
SetTextKey(p, key) == [p EXCEPT !.text = key]

cli_ospf_interface_auth_key ==
    \E key \in AuthKeys : OnPort(WritePort(SetTextKey(port, key)))

cli_no_ospf_interface_auth_key == OnPort(WritePort(SetTextKey(port, NoText)))

(* Mutant: a key that is there is replaced. *)
ospf_md5_key_update_to_port_Replace(p, id, key) == [p EXCEPT !.md5 = Put(@, id, key)]

ospf_md5_key_update_to_port(p, id, key) ==
    IF id \in DOMAIN p.md5 THEN p ELSE [p EXCEPT !.md5 = Put(@, id, key)]

ospf_md5_key_remove_from_port(p, id) == [p EXCEPT !.md5 = Drop(@, id)]

(* A present id is refused, an absent one cannot be removed: both abort. *)
OnPortIfChanged(p) == OnPort(IF p = port THEN ABORT_DB_TXN ELSE WritePort(p))

cli_ip_ospf_message_digest_key ==
    \E id \in Md5Ids, key \in AuthKeys :
        OnPortIfChanged(ospf_md5_key_update_to_port(port, id, key))

cli_no_ip_ospf_message_digest_key ==
    \E id \in Md5Ids : OnPortIfChanged(ospf_md5_key_remove_from_port(port, id))

(* The OSPF daemon makes the interface row, attaches it, and takes it away;
   the port and what is configured on it stay. *)
Daemon(row) == db.row # row /\ db' = [db EXCEPT !.row = row] /\ UNCHANGED <<ret, vtysh>>

-------------------------------------------------------------------------------
IntervalNext ==
    \/ cli_ospf_router_hello_interval \/ cli_ospf_router_no_hello_interval
    \/ cli_ospf_router_dead_interval \/ cli_ospf_router_no_dead_interval
    \/ cli_ip_ospf_retransmit_interval \/ cli_ip_ospf_no_retransmit_interval
    \/ cli_ip_ospf_transmit_delay \/ cli_ip_ospf_no_transmit_delay

ColumnNext ==
    \/ cli_ip_ospf_priority \/ cli_ip_ospf_no_priority
    \/ cli_ip_ospf_mtu_ignore \/ cli_ip_ospf_no_mtu_ignore
    \/ cli_ip_ospf_cost \/ cli_ip_ospf_no_cost
    \/ cli_ip_ospf_network \/ cli_ip_ospf_no_network
    \/ cli_ospf_interface_auth \/ cli_ospf_interface_auth_message_digest
    \/ cli_ospf_interface_auth_null \/ cli_no_ospf_interface_auth
    \/ cli_ospf_interface_auth_key \/ cli_no_ospf_interface_auth_key
    \/ cli_ip_ospf_message_digest_key \/ cli_no_ip_ospf_message_digest_key
    \/ \E row \in {"none", "unattached", "attached"} : Daemon(row)

Init ==
    /\ \E intervals \in {EmptyMap, DefaultIntervals} :
         db = [row |-> "attached", port |-> FreshPort(intervals)]
    /\ ret = "CMD_SUCCESS"
    /\ vtysh = "ready"

Next == vtysh # "dead" /\ (IntervalNext \/ ColumnNext)

Spec == Init /\ [][Next]_cmdVars

-------------------------------------------------------------------------------
(***************************************************************************)
(* The only command here that ends the process is "ip ospf dead-interval"  *)
(* on a port that has no hello interval, by a division by zero: "something *)
(* is wrong. We should have added the default values already."             *)
(* (ospf_vty.c:2023).                                                       *)
(***************************************************************************)
DiesOnlyWithoutHello == vtysh = "dead" => "hello" \notin DOMAIN port.intervals

(* A message digest key is never replaced in place, only removed and added:
   a present id is refused by ospf_md5_key_update_to_port. *)
Md5KeysStay == \A id \in DOMAIN port.md5 \cap DOMAIN port'.md5 : port'.md5[id] = port.md5[id]

Md5KeyFixed == [][Md5KeysStay]_cmdVars

(***************************************************************************)
(* "Dead interval cannot be less than hello interval." (ospf_vty.c:2092).   *)
(* False: the check is made when the dead interval is set, not when the     *)
(* hello interval is.                                                       *)
(***************************************************************************)
DeadNotBelowHello ==
    {"hello", "dead"} \subseteq DOMAIN port.intervals =>
        port.intervals["dead"] >= port.intervals["hello"]
===============================================================================
