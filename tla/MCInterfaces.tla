----------------------------- MODULE MCInterfaces -----------------------------
(***************************************************************************)
(* The configuration of interfaces and of OSPF, each part explored by       *)
(* itself: the L3 ports in the two builds of vrf_vty.c, with and without    *)
(* VRF_ENABLE, and the parts of MCOspf, whose tables are in odb.  With VRFs, *)
(* the ports of interfaces, of a LAG and of a VLAN are explored apart from  *)
(* those of sub-interfaces and of a loopback; without, all of them together. *)
(***************************************************************************)
EXTENDS L3Config

CONSTANTS
    MaxPorts,       \* how many ports there may be
    MaxSettings,    \* how many settings they may have in all
    Areas, Ranges, RouterIds, Numbers, Redistributed, Times, Priorities, Md5Ids, AuthKeys,
    VlinkAreas, Peers, MaxVlinks, VlinkTimes, VlinkMd5Ids, VlinkKeys,
    ShownAreas, ShownIds, Interfaces, RoutePrefixes, MaxRows

VARIABLE build      \* "lags" and "sub" have VRF_ENABLE, "default" has not

Default == INSTANCE L3Ports WITH VRF_ENABLE <- FALSE

(* The interface's name comes before the dot. *)
MCParent(n) == CASE n \in {"1.1", "1.2"} -> "1" [] n = "2.1" -> "2"

MCStartsWith(n, p) == n = p \/ (n \in Subs /\ MCParent(n) = p)

MCSplit == [c \in {} |-> "1"]
MCAddresses == [a1 |-> "a", lo |-> "127", s1 |-> "s"]

(* The run is on constants the theorems of L3PortsProofs are about. *)
ASSUME PortsAssumption == PortsConstants

(* Addresses are what most of the properties are about: two of them, or one
   other setting. *)
Settings ==
    2 * Cardinality({<<p, c>> \in (DOMAIN db.port) \X {"arp", "acl", "down"} :
                       db.port[p][c] # NewPort({})[c]})
    + Cardinality({<<p, a>> \in (DOMAIN db.port) \X (DOMAIN Addresses) :
                     a \in AddressesOf(db.port[p])})
    + Cardinality({n \in DOMAIN db.intf : db.intf[n].tag # 0})

Explored ==
    CASE build = "lags" -> DOMAIN db.intf \cap (Subs \cup Loopbacks) = {}
      [] build = "sub" -> Ports \cap (LagMembers \cup Vlans \cup {Lag}) = {}
      [] OTHER -> TRUE

FewSettings ==
    /\ Explored
    /\ Settings <= IF build = "default" THEN MaxSettings - 1 ELSE MaxSettings
    /\ Cardinality(Ports) <= MaxPorts

(* Neither the last result nor the tables at a crash tell states apart. *)
View == IF vtysh = "dead" THEN <<vtysh, build>> ELSE <<vtysh, build, db>>

MCInit == build \in {"lags", "sub", "default"} /\ Init

MCNext ==
    /\ \/ build \in {"lags", "sub"} /\ Next
       \/ build = "default" /\ Default!Next
    /\ UNCHANGED build
    /\ FewSettings'

-------------------------------------------------------------------------------
VARIABLES part, odb, ctx, slots, tables

ospfVars == <<odb, ctx, slots, tables>>
all == <<cmdVars, build, part, ospfVars>>

Ospf == INSTANCE MCOspf WITH db <- odb

MCAreas == {<<0, 0, 0, 0>>, <<0, 0, 0, 1>>, <<192, 168, 100, 101>>}
MCShownAreas == <<<<0, 0, 0, 0>>, <<0, 0, 0, 1>>>>
MCShownIds == {<<10, 0, 0, 1>>, <<192, 168, 100, 201>>}
MCPrefixes == {<<9, 1>>, <<10, 1>>}

(* The area ids and the numbers typed are what OspfRouter takes them for. *)
ASSUME OspfAssumption == Ospf!OspfConstants /\ Ospf!If!InterfaceConstants

AllInit ==
    \/ part = "l3" /\ MCInit /\ odb = <<>> /\ ctx = FALSE /\ slots = {} /\ tables = {}
    \/ Ospf!MCInit /\ Init /\ build = "none"

AllNext ==
    \/ part = "l3" /\ MCNext /\ UNCHANGED <<part, ospfVars>>
    \/ Ospf!MCNext /\ UNCHANGED <<db, build>>

AllSpec == AllInit /\ [][AllNext]_all

Few == part = "l3" \/ Ospf!FewSettings

AllView == IF part = "l3" THEN <<part, View>> ELSE <<part, Ospf!View>>

-------------------------------------------------------------------------------
(* PortsConsistent is L3Ports's own. *)

(* The backbone is no stub and no nssa, max-metric is administrative or on
   startup but never both, a dead-interval command ends the process only on a
   port without a hello interval, and a transaction is left open only when no
   virtual link is free (BackboneTransit and StubAdvExclusive of OspfRouter,
   DiesOnlyWithoutHello of OspfInterface, OpenOnlyWhenFull of OspfVlink). *)
OspfConsistent == Ospf!OspfConsistent

(* What is displayed of OSPF agrees: both running configurations of the router;
   the filtered displays of the database are what their filters leave of the
   full one, which lists each row once; both neighbor displays select the same
   rows once the ids and addresses of the neighbors are known; each route is
   listed once (RunningConfigsAgree of OspfConfig; FiltersAgree,
   DatabaseComplete, NeighborViewsAgree and RoutesOnce of OspfShow). *)
ShowsAgree == Ospf!ShowsAgree

(* What "show running-config" prints of a router, an OSPF port and a virtual link
   gives the same settings when it is typed into an empty switch, and what it
   prints of an L3 port the same VRF, addresses and arp (RouterConfigRestores, InterfaceConfigRestores, VlinkConfigRestores and
   PortRestored of the modules). *)
ConfigurationRestores ==
    /\ part = "router" => Ospf!RouterConfigRestores
    /\ part = "interface" => Ospf!InterfaceConfigRestores
    /\ part = "vlink" => Ospf!VlinkConfigRestores
    /\ part = "l3" => PortRestored

(* No command moves a network range between areas in one step, replaces the key of
   a message digest id, changes a virtual link it does not name, or the ports of two
   interfaces (ospf_network_cmd, ospf_md5_key_update_to_port, cli_ospf_area_vlink, and
   the commands of L3Ports). *)
SettingsStay ==
    [][/\ part = "router" => Ospf!RangesStay
       /\ part = "interface" => Ospf!If!Md5KeysStay
       /\ part = "vlink" /\ odb'.router = odb.router =>
             Cardinality({k \in VlinkAreas \X Peers :
                            Ospf!Vl!Link(k[1], k[2])' # Ospf!Vl!Link(k[1], k[2])}) <= 1
       /\ part = "l3" => OneInterface]_all
===============================================================================
