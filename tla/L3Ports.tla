------------------------------- MODULE L3Ports --------------------------------
(***************************************************************************)
(* Which ports route: the commands of vtysh/vrf_vty.c, sub_intf_vty.c,      *)
(* loopback_vty.c and utils/vlan_vtysh_utils.c on the tables Interface,     *)
(* Port, Bridge and VRF.  An interface has at most one port row of its own  *)
(* name, made when it is first needed; a LAG is a port row with several     *)
(* interfaces.  A port in the bridge is switched, a port in a VRF routed.   *)
(*                                                                          *)
(* Rows have random identifiers, and the client library walks a table and a *)
(* set of references in an order they decide: a walk that stops early, or   *)
(* that keeps the last row it saw, is a choice here.  The server refuses a  *)
(* transaction that deletes a row somebody still refers to, and collects    *)
(* the ports and interfaces nobody refers to.                               *)
(*                                                                          *)
(* VRF_ENABLE is the compile-time switch of vrf_vty.c; without it only the  *)
(* default VRF exists.                                                      *)
(***************************************************************************)
EXTENDS OvsdbCommand

CONSTANTS
    VRF_ENABLE,
    Vrfs,               \* names of VRFs, vrf_default among them
    Physical,           \* interfaces of the hardware
    Subs,               \* sub-interface names
    Parent(_),          \* the part of a sub-interface name before the dot
    Loopbacks, Vlans,   \* names of loopback and VLAN interfaces
    Lag,                \* the name of a LAG port
    LagMembers,         \* interfaces that may join it
    StartsWith(_, _),   \* StartsWith(n, p): name n begins with p
    SplitChildren,      \* split child -> the interface it is a lane of
    Addresses,          \* address -> its network
    Ip6,                \* the addresses that are IPv6 addresses
    Invalid,            \* addresses is_valid_ip_address refuses
    LoopbackNet,        \* the ones of them that satisfy IS_LOOPBACK_IPV4
    Tags,               \* VLAN ids
    InternalTags,       \* ids in internal use for L3 ports
    MaxSubs,            \* MAX_SUB_INTF_COUNT
    MaxLoopbacks        \* MAX_LOOPBACK_INTF_COUNT

(* What the constants must satisfy: names of different kinds differ. *)
PortsConstants ==
    /\ Subs \cap (Physical \cup Loopbacks \cup Vlans) = {}
    /\ Loopbacks \cap (Physical \cup Vlans) = {} /\ Vlans \cap Physical = {}
    /\ Lag \notin Physical \cup Subs \cup Loopbacks \cup Vlans
    /\ LagMembers \subseteq Physical
    /\ \A n \in Subs : Parent(n) \in Physical

DefaultVrf == "vrf_default"

Names == Physical \cup Subs \cup Loopbacks \cup Vlans

Families == {"ip4", "ip6"}

(* An interface: its parent and encapsulation tag if it is a sub-interface,
   and whether "admin" is "up" in user_config. *)
NewInterface(parent, up) == [parent |-> parent, tag |-> 0, up |-> up]

(* A port without configuration. *)
NewPort(ifs) ==
    [ifs |-> ifs, primary |-> [f \in Families |-> {}],
     secondary |-> [f \in Families |-> {}], arp |-> {}, acl |-> FALSE,
     access |-> FALSE, down |-> FALSE]

(* split holds the interfaces whose lanes have been split. *)
Init ==
    /\ \E split \in SUBSET {SplitChildren[c] : c \in DOMAIN SplitChildren} :
         db = [intf |-> [n \in Physical |-> NewInterface({}, FALSE)], port |-> EmptyMap,
               bridge |-> {}, vrf |-> [v \in {DefaultVrf} |-> {}], split |-> split]
    /\ ret = "CMD_SUCCESS"
    /\ vtysh = "ready"

-------------------------------------------------------------------------------
(* Lookups. *)

Ports == DOMAIN db.port

(* Ports by name or by a member interface. *)
Carries(p, name) == p = name \/ name \in db.port[p].ifs

check_iface_in_bridge(name) == \E p \in db.bridge : Carries(p, name)

check_iface_in_vrf(name) == \E v \in DOMAIN db.vrf : \E p \in db.vrf[v] : Carries(p, name)

VERIFY_VLAN_IFNAME(name) == name \in Vlans

NotL3(name) == check_iface_in_bridge(name) /\ ~VERIFY_VLAN_IFNAME(name)

check_acl_configuration(name) == name \in Ports /\ db.port[name].acl

(* The walk over the ports ends at the first whose name begins with the
   interface's (false) or one of whose interfaces does (true). *)
check_iface_in_lag(name) ==
    LET named == {p \in Ports : StartsWith(p, name)}
        holding == {p \in Ports : \E i \in db.port[p].ifs : StartsWith(i, name)} \ named
    IN  {FALSE : p \in named} \cup {TRUE : p \in holding}
        \cup (IF named \cup holding = {} THEN {FALSE} ELSE {})

(* A split interface is not used itself, a lane only when its parent is. *)
check_split_iface_conditions(name) ==
    /\ name \in DOMAIN db.intf
    /\ name \notin db.split
    /\ name \in DOMAIN SplitChildren => SplitChildren[name] \in db.split

(* The port that carries the interface, in the walk's order. *)
port_check(name) == {p \in Ports : Carries(p, name)}

(* The VRFs that hold the port, and the one a walk finds first. *)
port_vrf_lookup(p) == {v \in DOMAIN db.vrf : p \in db.vrf[v]}

check_internal_vlan(tag) == tag \in InternalTags

-------------------------------------------------------------------------------
(* Making and moving ports. *)

Attach(vrf, v, p) == [vrf EXCEPT ![v] = @ \cup {p}]

(* Mutant: the port stays in the VRF it leaves. *)
Detach_Stays(vrf, p) == vrf

Detach(vrf, p) == [v \in DOMAIN vrf |-> vrf[v] \ {p}]

(* port_check_and_add for an interface that has no port: a new row, in the
   default VRF when that is asked for. *)
port_check_and_add(tables, name, attach) ==
    IF \E p \in DOMAIN tables.port : p = name \/ name \in tables.port[p].ifs THEN tables
    ELSE [tables EXCEPT !.port = Put(@, name, NewPort({name})),
                        !.vrf = IF attach THEN Attach(@, DefaultVrf, name) ELSE @]

(* Mutant: the row is kept, and so is its configuration. *)
Renewed_Kept(tables, p, name, attach) ==
    IF attach THEN [tables EXCEPT !.vrf = Attach(@, DefaultVrf, p)] ELSE tables

(* The row is deleted and made again for the interface, which drops its
   configuration; a member of a LAG gets a port of its own. *)
Renewed(tables, p, name, attach) ==
    port_check_and_add([tables EXCEPT !.port = Drop(@, p)], name, attach)

(* The commit, refused when a reference to a deleted row is left. *)
Commit(tables, dangling) ==
    IF dangling THEN Finish("CMD_OVSDB_FAILURE", db) ELSE cli_do_config_finish(tables)

Abort == Finish("CMD_SUCCESS", db)

-------------------------------------------------------------------------------
(* vrf_vty.c: VRFs. *)

(* Without VRF_ENABLE every command that names another VRF ends here. *)
VrfFound(v) == VRF_ENABLE /\ v \in DOMAIN db.vrf

vrf_add(v) ==
    START_DB_TXN(
        IF v = DefaultVrf \/ ~VRF_ENABLE \/ VrfFound(v) THEN Abort
        ELSE cli_do_config_finish([db EXCEPT !.vrf = Put(@, v, {})]))

(* Every port of the VRF is deleted and made again in the default VRF.  A
   VLAN interface's port is still in the bridge. *)
vrf_delete(v) ==
    START_DB_TXN(
        IF v = DefaultVrf \/ ~VrfFound(v) THEN Abort
        ELSE LET moved == db.vrf[v]
             IN  Commit([db EXCEPT
                            !.vrf = Drop([db.vrf EXCEPT ![DefaultVrf] = @ \cup moved], v),
                            !.port = [p \in Ports |-> IF p \in moved THEN NewPort(@[p].ifs)
                                                      ELSE @[p]]],
                        moved \cap db.bridge # {}))

vrf_add_port(name, v) ==
    START_DB_TXN(
        IF ~check_split_iface_conditions(name) \/ NotL3(name) \/ v = DefaultVrf \/ ~VrfFound(v)
        THEN Abort
        ELSE LET added == port_check_and_add(db, name, TRUE)
             IN  \E p \in {q \in DOMAIN added.port : q = name \/ name \in added.port[q].ifs} :
                   IF p \in added.vrf[v] THEN Abort
                   ELSE LET renewed == Renewed([added EXCEPT !.vrf = Detach(@, p)],
                                               p, name, FALSE)
                        IN  Commit([renewed EXCEPT !.vrf = Attach(@, v, name)],
                                   p \in db.bridge))

vrf_del_port(name, v) ==
    START_DB_TXN(
        IF v = DefaultVrf \/ ~VrfFound(v) \/ port_check(name) = {} \/ NotL3(name)
           \/ name \notin db.vrf[v]
        THEN Abort
        ELSE Commit(Renewed([db EXCEPT !.vrf = Detach(@, name)], name, name, TRUE),
                    name \in db.bridge))

-------------------------------------------------------------------------------
(* vrf_vty.c: routing. *)

(* The port leaves the bridge, and the interface gets a new one in the
   default VRF. *)
vrf_routing(name) ==
    START_DB_TXN(
        IF ~check_split_iface_conditions(name) \/ check_iface_in_vrf(name)
           \/ check_acl_configuration(name) \/ port_check(name) = {}
        THEN Abort
        ELSE \E lag \in check_iface_in_lag(name), p \in port_check(name) :
               IF lag THEN Abort
               ELSE cli_do_config_finish(
                        Renewed([db EXCEPT !.bridge = @ \ {p}], p, name, TRUE)))

(* Mutant: the sub-interfaces stay. *)
WithoutSubs_Kept(tables, parent) == tables

(* Mutant: the test for the parent is missing. *)
WithoutSubs_All(tables, parent) ==
    LET subs == {n \in DOMAIN tables.intf : tables.intf[n].parent # {}}
    IN  [tables EXCEPT !.intf = [n \in DOMAIN @ \ subs |-> @[n]],
                       !.port = [n \in DOMAIN @ \ subs |-> @[n]],
                       !.vrf = [v \in DOMAIN @ |-> @[v] \ subs]]

(* The sub-interfaces of an interface and their ports are deleted. *)
WithoutSubs(tables, parent) ==
    LET subs == {n \in DOMAIN tables.intf : tables.intf[n].parent = {parent}}
    IN  [tables EXCEPT !.intf = [n \in DOMAIN @ \ subs |-> @[n]],
                       !.port = [n \in DOMAIN @ \ subs |-> @[n]],
                       !.vrf = [v \in DOMAIN @ |-> @[v] \ subs]]

(* A routed port loses its sub-interfaces and its configuration; the port
   becomes an access port of the bridge. *)
vrf_no_routing(name) ==
    START_DB_TXN(\E lag \in check_iface_in_lag(name) :
        IF lag \/ ~check_split_iface_conditions(name) \/ check_iface_in_bridge(name)
           \/ check_acl_configuration(name)
        THEN Abort
        ELSE LET added == port_check_and_add(db, name, FALSE)
             IN  \E p \in {q \in DOMAIN added.port : q = name \/ name \in added.port[q].ifs} :
                 \E i \in added.port[p].ifs :
                   LET new == IF port_vrf_lookup(p) = {} THEN added
                              ELSE Renewed([WithoutSubs(added, i) EXCEPT !.vrf = Detach(@, p)],
                                           p, name, FALSE)
                   IN  cli_do_config_finish(
                           [new EXCEPT !.port[name].access = TRUE,
                                       !.bridge = @ \cup {name}]))

-------------------------------------------------------------------------------
(* vrf_vty.c: addresses. *)

(* External: l3_utils_is_ipaddr_overlapping looks at the ports of the VRF
   the interface's own port is in; without such a port nothing is checked. *)
AddressesOf(port) ==
    UNION {port.primary[f] \cup port.secondary[f] : f \in Families}

(* Mutant: only the default VRF is looked at. *)
is_ip_configurable_Default(tables, name, a) ==
    ~ /\ name \in tables.vrf[DefaultVrf]
      /\ \E p \in tables.vrf[DefaultVrf] \ {name} :
           \E b \in AddressesOf(tables.port[p]) : Addresses[a] = Addresses[b]

is_ip_configurable(tables, name, a) ==
    ~ \E v \in DOMAIN tables.vrf :
        /\ name \in tables.vrf[v]
        /\ \E p \in tables.vrf[v] \ {name} :
             \E b \in AddressesOf(tables.port[p]) : Addresses[a] = Addresses[b]

is_valid_ip_address(a) == a \notin Invalid

SetAddress(port, f, a, secondary) ==
    IF secondary THEN [port EXCEPT !.secondary[f] = @ \cup {a}]
    ELSE [port EXCEPT !.primary[f] = {a}]

vrf_config_address(name, f, a, secondary) ==
    IF ~is_valid_ip_address(a) THEN Refuse("CMD_SUCCESS")
    ELSE START_DB_TXN(
        LET added == port_check_and_add(db, name, TRUE)
        IN  IF ~check_split_iface_conditions(name) \/ NotL3(name)
               \/ ~is_ip_configurable(added, name, a)
            THEN Abort
            ELSE \E p \in {q \in DOMAIN added.port : q = name \/ name \in added.port[q].ifs} :
                   cli_do_config_finish(
                       [added EXCEPT !.port[p] = SetAddress(@, f, a, secondary)]))

vrf_config_ip(name, a, secondary) == vrf_config_address(name, "ip4", a, secondary)

vrf_config_ipv6(name, a, secondary) == vrf_config_address(name, "ip6", a, secondary)

(* The primary goes only when no secondary is left. *)
Deletable(port, f, a, secondary) ==
    IF secondary THEN a \in port.secondary[f]
    ELSE port.primary[f] = {a} /\ port.secondary[f] = {}

DelAddress(port, f, a, secondary) ==
    IF secondary THEN [port EXCEPT !.secondary[f] = @ \ {a}]
    ELSE [port EXCEPT !.primary[f] = {}]

vrf_del_address(name, f, a, secondary) ==
    START_DB_TXN(
        IF port_check(name) = {} \/ NotL3(name) THEN Abort
        ELSE \E p \in port_check(name) :
               IF Deletable(db.port[p], f, a, secondary)
               THEN cli_do_config_finish(
                        [db EXCEPT !.port[p] = DelAddress(@, f, a, secondary)])
               ELSE Abort)

vrf_del_ip(name, a, secondary) == vrf_del_address(name, "ip4", a, secondary)

vrf_del_ipv6(name, a, secondary) == vrf_del_address(name, "ip6", a, secondary)

(* "ip proxy-arp" and "ip local-proxy-arp", on a port of that very name. *)
ToggleArp(name, key, on) ==
    START_DB_TXN(
        IF NotL3(name) \/ ~check_split_iface_conditions(name) THEN Abort
        ELSE IF name \notin Ports THEN Finish("CMD_OVSDB_FAILURE", db)
        ELSE cli_do_config_finish(
                 [db EXCEPT !.port[name].arp = IF on THEN @ \cup {key} ELSE @ \ {key}]))

vrf_proxy_arp_toggle_state(name, on) == ToggleArp(name, "proxy", on)

vrf_local_proxy_arp_toggle_state(name, on) == ToggleArp(name, "local", on)

-------------------------------------------------------------------------------
(* sub_intf_vty.c.  The shell may be in the context of a sub-interface that
   another session has deleted meanwhile. *)

(* "interface A.B": a known port only changes the context.  The limit counts
   every sub-interface whose name begins with the parent's. *)
create_sub_interface(name) ==
    LET parent == Parent(name)
        counted == {n \in DOMAIN db.intf : db.intf[n].parent # {} /\ StartsWith(n, parent)}
    IN  IF \/ name \in Ports
           \/ Cardinality(counted) >= MaxSubs
           \/ parent \notin DOMAIN db.intf
           \/ check_iface_in_bridge(parent)
        THEN Refuse("CMD_SUCCESS")
        ELSE START_DB_TXN(
            LET added == port_check_and_add(db, parent, TRUE)
            IN  cli_do_config_finish(
                    [added EXCEPT !.intf = Put(@, name, NewInterface({parent}, FALSE)),
                                  !.port = Put(@, name, NewPort({name})),
                                  !.vrf = Attach(@, DefaultVrf, name)]))

(* The row delete_sub_intf deletes in the end is the one its walk over the
   VRFs saw last: the sub-interface's when at most one port follows it. *)
DeletedRow(name) ==
    LET home == UNION {db.vrf[v] : v \in port_vrf_lookup(name)}
        away == UNION {db.vrf[v] : v \in DOMAIN db.vrf \ port_vrf_lookup(name)}
    IN  {name} \cup away \cup (IF Cardinality(home) > 2 THEN home ELSE {})

delete_sub_intf(name) ==
    IF name \notin DOMAIN db.intf THEN Refuse("CMD_SUCCESS")
    ELSE START_DB_TXN(\E row \in DeletedRow(name) :
            Commit([db EXCEPT !.intf = Drop(@, name), !.port = Drop(@, name),
                              !.vrf = Detach(@, name)],
                   row # name))

cli_sub_intf_shutdown(name, no) ==
    START_DB_TXN(cli_do_config_finish(
        [db EXCEPT !.intf = IF name \in DOMAIN @ THEN [@ EXCEPT ![name].up = no] ELSE @,
                   !.port = IF name \in DOMAIN @ THEN [@ EXCEPT ![name].down = ~no] ELSE @]))

(* Mutant: the other sub-interfaces are not looked at. *)
cli_encapsulation_dot1Q_vlan_Unchecked(name, tag, no) ==
    START_DB_TXN(
        IF check_internal_vlan(tag) THEN Abort
        ELSE IF name \notin DOMAIN db.intf THEN Crash
        ELSE cli_do_config_finish([db EXCEPT !.intf[name].tag = IF no THEN 0 ELSE tag]))

(* "encapsulation dot1Q": a tag is given to one sub-interface of a parent. *)
cli_encapsulation_dot1Q_vlan(name, tag, no) ==
    START_DB_TXN(
        IF check_internal_vlan(tag) THEN Abort
        ELSE IF name \notin DOMAIN db.intf THEN Crash
        ELSE IF \/ \E n \in DOMAIN db.intf \ {name} :
                     db.intf[n].parent = db.intf[name].parent /\ db.intf[n].tag = tag
                \/ no /\ db.intf[name].tag # tag
        THEN Abort
        ELSE cli_do_config_finish([db EXCEPT !.intf[name].tag = IF no THEN 0 ELSE tag]))

(* port_found has no value before the walk that may set it. *)
NoPort == Refuse("CMD_SUCCESS") \/ Crash

sub_intf_config_ip(name, a) ==
    IF ~is_valid_ip_address(a) \/ ~is_ip_configurable(db, name, a) THEN Refuse("CMD_SUCCESS")
    ELSE IF name \notin Ports THEN NoPort
    ELSE IF NotL3(name) THEN Refuse("CMD_SUCCESS")
    ELSE START_DB_TXN(cli_do_config_finish(
             [db EXCEPT !.port[name] = SetAddress(@, "ip4", a, FALSE)]))

cli_sub_intf_del_ip4(name, a) ==
    IF name \notin Ports THEN Refuse("CMD_OVSDB_FAILURE")
    ELSE IF db.port[name].primary["ip4"] # {a} THEN Refuse("CMD_SUCCESS")
    ELSE START_DB_TXN(cli_do_config_finish(
             [db EXCEPT !.port[name] = DelAddress(@, "ip4", a, FALSE)]))

(* Without an interface row there is no port to attach to the VRF. *)
cli_sub_intf_config_ipv6(name, a) ==
    IF ~is_valid_ip_address(a) THEN Refuse("CMD_SUCCESS")
    ELSE START_DB_TXN(
        IF name \notin DOMAIN db.intf THEN Crash
        ELSE IF check_iface_in_bridge(name) \/ ~is_ip_configurable(db, name, a) THEN Abort
        ELSE cli_do_config_finish(
                 [db EXCEPT !.port[name] = SetAddress(@, "ip6", a, FALSE)]))

cli_sub_intf_del_ipv6(name, a) ==
    START_DB_TXN(
        IF name \notin Ports \/ (name \in Ports /\ db.port[name].primary["ip6"] # {a}) THEN Abort
        ELSE cli_do_config_finish(
                 [db EXCEPT !.port[name] = DelAddress(@, "ip6", a, FALSE)]))

-------------------------------------------------------------------------------
(* loopback_vty.c *)

vtysh_loopback_interface(name) ==
    IF \/ name \in Ports
       \/ Cardinality(DOMAIN db.intf \cap Loopbacks) >= MaxLoopbacks
    THEN Refuse("CMD_SUCCESS")
    ELSE START_DB_TXN(cli_do_config_finish(
             [db EXCEPT !.intf = Put(@, name, NewInterface({}, TRUE)),
                        !.port = Put(@, name, NewPort({name})),
                        !.vrf = Attach(@, DefaultVrf, name)]))

(* A loopback address, refused elsewhere, is let through. *)
loopback_if_config_ip(name, a) ==
    IF \/ ~is_valid_ip_address(a) /\ a \notin LoopbackNet
       \/ ~is_ip_configurable(db, name, a)
    THEN Refuse("CMD_SUCCESS")
    ELSE IF name \notin Ports THEN NoPort
    ELSE IF NotL3(name) \/ db.port[name].primary["ip4"] = {a} THEN Refuse("CMD_SUCCESS")
    ELSE START_DB_TXN(cli_do_config_finish(
             [db EXCEPT !.port[name] = SetAddress(@, "ip4", a, FALSE)]))

loopback_if_del_ip4(name, a) ==
    START_DB_TXN(
        IF name \notin Ports THEN Finish("CMD_OVSDB_FAILURE", db)
        ELSE IF db.port[name].primary["ip4"] \ {a} # {} THEN Abort
        ELSE cli_do_config_finish(
                 [db EXCEPT !.port[name] = DelAddress(@, "ip4", a, FALSE)]))

loopback_if_config_ipv6(name, a) ==
    IF ~is_valid_ip_address(a) THEN Refuse("CMD_SUCCESS")
    ELSE START_DB_TXN(
        IF ~check_split_iface_conditions(name) \/ NotL3(name) \/ ~is_ip_configurable(db, name, a)
        THEN Abort
        ELSE cli_do_config_finish(
                 [db EXCEPT !.port[name] = SetAddress(@, "ip6", a, FALSE)]))

loopback_if_del_ipv6(name, a) ==
    START_DB_TXN(
        IF name \notin Ports \/ (name \in Ports /\ db.port[name].primary["ip6"] \ {a} # {})
        THEN Abort
        ELSE cli_do_config_finish(
                 [db EXCEPT !.port[name] = DelAddress(@, "ip6", a, FALSE)]))

delete_loopback_intf(name) ==
    IF name \notin Ports \/ name \notin DOMAIN db.intf THEN Refuse("CMD_SUCCESS")
    ELSE START_DB_TXN(cli_do_config_finish(
             [db EXCEPT !.intf = Drop(@, name), !.port = Drop(@, name),
                        !.vrf = Detach(@, name)]))

-------------------------------------------------------------------------------
(* utils/vlan_vtysh_utils.c: the interface of a VLAN is in the bridge and
   in the default VRF; rows that lose both references are collected. *)

create_vlan_interface(name) ==
    START_DB_TXN(
        IF name \in DOMAIN db.intf /\ name \in Ports THEN cli_do_config_finish(db)
        ELSE IF name \in DOMAIN db.intf \/ name \in Ports THEN Finish("CMD_OVSDB_FAILURE", db)
        ELSE cli_do_config_finish(
                 [db EXCEPT !.intf = Put(@, name, NewInterface({}, TRUE)),
                            !.port = Put(@, name, [NewPort({name}) EXCEPT !.access = TRUE]),
                            !.bridge = @ \cup {name},
                            !.vrf = Attach(@, DefaultVrf, name)]))

delete_vlan_interface(name) ==
    START_DB_TXN(
        IF name \notin DOMAIN db.intf \/ name \notin Ports THEN Finish("CMD_OVSDB_FAILURE", db)
        ELSE cli_do_config_finish(
                 [db EXCEPT !.intf = Drop(@, name), !.port = Drop(@, name),
                            !.bridge = @ \ {name}, !.vrf = Detach(@, name)]))

-------------------------------------------------------------------------------
(* External: LAG membership and access lists are configured by commands of
   other repositories.  A member loses the port of its own. *)

JoinLag(i, routed) ==
    /\ vtysh = "ready"
    /\ ~check_acl_configuration(i)
    /\ i \notin UNION {db.port[p].ifs : p \in Ports \ {i}}
    /\ LET left == [db EXCEPT !.port = Drop(@, i), !.bridge = @ \ {i}, !.vrf = Detach(@, i)]
       IN  db' = IF Lag \in Ports THEN [left EXCEPT !.port[Lag].ifs = @ \cup {i}]
                 ELSE [left EXCEPT !.port = Put(@, Lag, NewPort({i})),
                                   !.bridge = IF routed THEN @ ELSE @ \cup {Lag},
                                   !.vrf = IF routed THEN Attach(@, DefaultVrf, Lag) ELSE @]
    /\ UNCHANGED <<ret, vtysh>>

ApplyAcl(p) ==
    /\ vtysh = "ready"
    /\ p \in Ports
    /\ db' = [db EXCEPT !.port[p].acl = ~@]
    /\ UNCHANGED <<ret, vtysh>>

-------------------------------------------------------------------------------
VrfCommands ==
    \/ \E v \in Vrfs : vrf_add(v) \/ vrf_delete(v)
    \/ \E n \in Names, v \in Vrfs : vrf_add_port(n, v) \/ vrf_del_port(n, v)

RoutingCommands == \E n \in Physical : vrf_routing(n) \/ vrf_no_routing(n)

Ip4 == DOMAIN Addresses \ Ip6

AddressCommands ==
    \E n \in Physical \cup Vlans, secondary \in BOOLEAN :
        \/ \E a \in Ip4 : vrf_config_ip(n, a, secondary) \/ vrf_del_ip(n, a, secondary)
        \/ \E a \in Ip6 : vrf_config_ipv6(n, a, secondary) \/ vrf_del_ipv6(n, a, secondary)

ArpCommands ==
    \E n \in Physical \cup Vlans, on \in BOOLEAN :
        vrf_proxy_arp_toggle_state(n, on) \/ vrf_local_proxy_arp_toggle_state(n, on)

SubCommands ==
    \E n \in Subs :
        \/ create_sub_interface(n)
        \/ delete_sub_intf(n)
        \/ \E no \in BOOLEAN : cli_sub_intf_shutdown(n, no)
        \/ \E tag \in Tags, no \in BOOLEAN : cli_encapsulation_dot1Q_vlan(n, tag, no)
        \/ \E a \in Ip4 : sub_intf_config_ip(n, a) \/ cli_sub_intf_del_ip4(n, a)
        \/ \E a \in Ip6 : cli_sub_intf_config_ipv6(n, a) \/ cli_sub_intf_del_ipv6(n, a)

LoopbackCommands ==
    \E n \in Loopbacks :
        \/ vtysh_loopback_interface(n)
        \/ delete_loopback_intf(n)
        \/ \E a \in Ip4 : loopback_if_config_ip(n, a) \/ loopback_if_del_ip4(n, a)
        \/ \E a \in Ip6 : loopback_if_config_ipv6(n, a) \/ loopback_if_del_ipv6(n, a)

VlanCommands == \E n \in Vlans : create_vlan_interface(n) \/ delete_vlan_interface(n)

OtherCommands ==
    \/ \E i \in LagMembers, routed \in BOOLEAN : JoinLag(i, routed)
    \/ \E p \in Physical : ApplyAcl(p)

Next ==
    \/ VrfCommands \/ RoutingCommands \/ AddressCommands \/ ArpCommands
    \/ SubCommands \/ LoopbackCommands \/ VlanCommands \/ OtherCommands

PortsSpec == Init /\ [][Next]_cmdVars

-------------------------------------------------------------------------------
(* Properties. *)

SubInterfaces == {n \in DOMAIN db.intf : db.intf[n].parent # {}}

(* A port is switched or routed in one VRF, never both; only the interface
   of a VLAN is in the bridge and in a VRF.  vrf_routing, vrf_no_routing and
   the VRF commands take it out of one place before they put it in another. *)
PortInOnePlace ==
    \A p \in Ports :
        /\ \A v, w \in port_vrf_lookup(p) : v = w
        /\ p \in db.bridge <=> (port_vrf_lookup(p) = {} \/ p \in Vlans)

(* Two routed ports of a VRF never have addresses of the same network
   (is_ip_configurable), however they were moved between VRFs; the address
   of a LAG, which may be typed in the context of a member, is not looked at. *)
NetworksDisjoint ==
    \A v \in DOMAIN db.vrf : \A p, q \in db.vrf[v] \ {Lag} :
        p # q => \A a \in AddressesOf(db.port[p]), b \in AddressesOf(db.port[q]) :
                    Addresses[a] # Addresses[b]

(* A switched port has no address and answers no ARP for others: making the
   interface L2 "removes all L3 related configuration" (vrf_no_routing). *)
SwitchedHasNoAddress ==
    \A p \in db.bridge \ Vlans : AddressesOf(db.port[p]) = {} /\ db.port[p].arp = {}

(* A sub-interface has its port, and a parent that is not switched unless it
   may be a member of a LAG: the parent's "no routing" takes its
   sub-interfaces with it. *)
ParentsRouted ==
    \A n \in SubInterfaces :
        /\ n \in Ports
        /\ \A i \in db.intf[n].parent : i \in DOMAIN db.intf /\ (i \in db.bridge => i \in LagMembers)

(* "Subinterface is not supported on LAG." (sub_intf_vty.c:1133), and what
   "no routing" removes is "a subinterface created for the parent being
   configured as L2 interface" (vrf_vty.c:834): no switched interface has a
   sub-interface, whether it was in a LAG or not. *)
SwitchedHasNoSubs == \A n \in SubInterfaces : db.intf[n].parent \cap db.bridge = {}

(* No two sub-interfaces of an interface have the same encapsulation tag
   (cli_encapsulation_dot1Q_vlan). *)
TagsDiffer ==
    \A m, n \in SubInterfaces :
        m # n /\ db.intf[m].parent = db.intf[n].parent /\ db.intf[m].tag # 0
        => db.intf[m].tag # db.intf[n].tag

(* The tables stay consistent, whatever sessions configure in whatever order:
   all of the above. *)
PortsConsistent ==
    /\ PortInOnePlace /\ SwitchedHasNoAddress /\ ParentsRouted /\ TagsDiffer
    /\ NetworksDisjoint

(* A command changes the ports of one interface and of its sub-interfaces or
   parent, or moves the ports of one VRF to the default VRF; no other port's
   row changes (the walks of vrf_vty.c and sub_intf_vty.c over all ports).
   For a member of a LAG the sub-interfaces may be another member's. *)
OneInterface ==
    LET changed == {p \in Ports \cup DOMAIN db'.port :
                      \/ p \notin Ports \cap DOMAIN db'.port
                      \/ db.port[p] # db'.port[p]} \ {Lag}
        family(n) == {n} \cup {m \in Subs : Parent(m) = n \/ {Parent(m), n} \subseteq LagMembers}
    IN  \/ \E n \in Names : changed \subseteq family(n)
        \/ \E v \in DOMAIN db.vrf \ DOMAIN db'.vrf : changed \subseteq db.vrf[v]

(* delete_sub_intf: "Find the port table entry and delete it": the row it
   deletes is the sub-interface's. *)
DeletesOwnRow == \A n \in SubInterfaces : DeletedRow(n) = {n}
===============================================================================
