------------------------------- MODULE L3Config -------------------------------
(***************************************************************************)
(* What "show running-config" (vtysh_ovsdb_vrf_context.c) and "show         *)
(* interface" print of the ports of L3Ports.                                *)
(***************************************************************************)
EXTENDS L3Ports, Sequences, SequencesExt

Lines(word, set) == [k \in 1..Cardinality(set) |-> <<word, SetToSeq(set)[k]>>]

(* A port of the default VRF without addresses has nothing to print. *)
display_l3_info(port, v) ==
    AddressesOf(port) # {} \/ port.arp # {} \/ v # DefaultVrf

AddressLines(port) ==
    Lines("ip address", port.primary["ip4"])
    \o Lines("ip address secondary", port.secondary["ip4"])
    \o Lines("ipv6 address", port.primary["ip6"])
    \o Lines("ipv6 address secondary", port.secondary["ip6"])

VrfLines(v) == Lines("vrf attach", {v} \ {DefaultVrf})

(* Mutant: "vrf attach" comes last. *)
vtysh_intf_context_vrf_clientcallback_Last(name) ==
    IF name \notin Ports \/ ~check_iface_in_vrf(name) THEN <<>>
    ELSE LET v == CHOOSE w \in port_vrf_lookup(name) : TRUE
         IN  AddressLines(db.port[name]) \o Lines("arp", db.port[name].arp) \o VrfLines(v)

(* "vrf attach" comes before what it would clear. *)
vtysh_intf_context_vrf_clientcallback(name) ==
    IF name \notin Ports \/ ~check_iface_in_vrf(name) THEN <<>>
    ELSE LET v == CHOOSE w \in port_vrf_lookup(name) : TRUE
             port == db.port[name]
         IN  IF ~display_l3_info(port, v) THEN <<>>
             ELSE VrfLines(v) \o AddressLines(port) \o Lines("arp", port.arp)

(* "show interface" prints the addresses of the same port. *)
show_ip_addresses(name) ==
    IF name \notin Ports \/ ~check_iface_in_vrf(name) THEN <<>>
    ELSE LET v == CHOOSE w \in port_vrf_lookup(name) : TRUE
         IN  IF display_l3_info(db.port[name], v) THEN AddressLines(db.port[name]) ELSE <<>>

vtysh_config_context_vrf_clientcallback == DOMAIN db.vrf \ {DefaultVrf}

(* What the lines do when they are typed into a new port. *)
Typed(state, line) ==
    LET set(f, secondary) == [state EXCEPT !.port = SetAddress(@, f, line[2], secondary)]
    IN  CASE line[1] = "vrf attach" -> [vrf |-> line[2], port |-> NewPort(state.port.ifs)]
          [] line[1] = "ip address" -> set("ip4", FALSE)
          [] line[1] = "ip address secondary" -> set("ip4", TRUE)
          [] line[1] = "ipv6 address" -> set("ip6", FALSE)
          [] line[1] = "ipv6 address secondary" -> set("ip6", TRUE)
          [] line[1] = "arp" -> [state EXCEPT !.port.arp = @ \cup {line[2]}]

Restored(name) ==
    FoldLeft(Typed, [vrf |-> DefaultVrf, port |-> NewPort({name})],
             vtysh_intf_context_vrf_clientcallback(name))

-------------------------------------------------------------------------------
(* The printed configuration of a routed interface, typed again, gives its
   VRF, addresses and ARP settings, and "show interface" lists the same
   addresses (vtysh_intf_context_vrf_clientcallback, show_ip_addresses). *)
PortRestored ==
    \A p \in Ports : \A v \in port_vrf_lookup(p) :
        LET restored == Restored(p)
        IN  /\ restored.vrf = v
            /\ v \in {DefaultVrf} \cup vtysh_config_context_vrf_clientcallback
            /\ \A c \in {"primary", "secondary", "arp"} : restored.port[c] = db.port[p][c]
            /\ show_ip_addresses(p) =
                 SelectSeq(vtysh_intf_context_vrf_clientcallback(p),
                           LAMBDA l : l[1] \notin {"vrf attach", "arp"})
===============================================================================
