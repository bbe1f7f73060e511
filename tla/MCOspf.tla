------------------------------- MODULE MCOspf --------------------------------
(***************************************************************************)
(* Instances of the OSPF modules, each explored by itself: the router and   *)
(* its areas, the port of an interface, the virtual links, and the tables   *)
(* the show commands display.                                               *)
(***************************************************************************)
EXTENDS OspfConfig

CONSTANTS
    ShownAreas, ShownIds, Interfaces, RoutePrefixes, MaxRows,
    MaxSettings     \* how many columns may be away from their defaults

VARIABLES part, tables

vars == <<db, ret, vtysh, ctx, part, slots, tables>>

Sh == INSTANCE OspfShow

RouterSettings ==
    IF ~HasRouter THEN 0
    ELSE Cardinality({c \in DOMAIN db[1] : db[1][c] # ospf_router_tbl_default[c]})
         + Cardinality(DOMAIN db[1].areas) + Cardinality(DOMAIN db[1].networks)

PortSettings ==
    Cardinality({c \in DOMAIN db.port : db.port[c] # If!FreshPort(If!DefaultIntervals)[c]})

VlinkSettings ==
    FoldLeft(LAMBDA n, r : n + Cardinality({c \in {"intervals", "auth", "text", "md5"} :
                                              r[c] # Vl!NewVlink(r.area, r.peer, r.name)[c]}),
             0, db.rows)

FewSettings ==
    CASE part = "router"    -> RouterSettings <= MaxSettings + 1
      [] part = "interface" -> PortSettings <= MaxSettings
      [] part = "vlink"     -> VlinkSettings < MaxSettings
      [] part = "show"      -> TRUE

(* The result of the last command says nothing of the next. *)
View == <<db, vtysh, ctx, part, slots, tables>>

NoTables == {}

MCInit ==
    \/ part = "router" /\ Init /\ slots = {} /\ tables = NoTables
    \/ part = "interface" /\ If!Init /\ ctx = FALSE /\ slots = {} /\ tables = NoTables
    \/ part = "vlink" /\ Vl!Init /\ ctx = FALSE /\ tables = NoTables
    \/ /\ part = "show" /\ Sh!ShowInit /\ ctx = FALSE /\ slots = {}
       /\ db = <<>> /\ ret = "CMD_SUCCESS" /\ vtysh = "ready"

MCNext ==
    \/ part = "router" /\ Next /\ UNCHANGED <<part, slots, tables>>
    \/ part = "interface" /\ If!Next /\ UNCHANGED <<ctx, part, slots, tables>>
    \/ part = "vlink" /\ Vl!Next /\ UNCHANGED <<ctx, part, tables>>
    \/ part = "show" /\ Sh!ShowNext /\ UNCHANGED <<db, ret, vtysh, ctx, part, slots>>

MCSpec == MCInit /\ [][MCNext]_vars

-------------------------------------------------------------------------------
(* The backbone is no stub and no nssa, max-metric is administrative or on
   startup but never both, a dead-interval command ends the process only on a
   port without a hello interval, and a transaction is left open only when no
   virtual link is free (BackboneTransit and StubAdvExclusive of OspfRouter,
   DiesOnlyWithoutHello of OspfInterface, OpenOnlyWhenFull of OspfVlink). *)
OspfConsistent ==
    /\ part = "router" => BackboneTransit /\ StubAdvExclusive
    /\ part = "interface" => If!DiesOnlyWithoutHello
    /\ part = "vlink" => Vl!OpenOnlyWhenFull

(* What is displayed of OSPF agrees: both running configurations of the router;
   the filtered displays of the database are what their filters leave of the
   full one, which lists each row once; both neighbor displays select the same
   rows once the ids and addresses of the neighbors are known; each route is
   listed once (RunningConfigsAgree of OspfConfig; FiltersAgree,
   DatabaseComplete, NeighborViewsAgree and RoutesOnce of OspfShow). *)
ShowsAgree ==
    /\ part = "router" => RunningConfigsAgree
    /\ part = "show" => /\ Sh!FiltersAgree /\ Sh!DatabaseComplete
                        /\ Sh!NeighborViewsAgree /\ Sh!RoutesOnce

(* "Self-originated link states" of every area are displayed
   (SelfOriginateComplete).  Not a property of the code. *)
SelfOriginateIsComplete == part = "show" => Sh!SelfOriginateComplete
===============================================================================
