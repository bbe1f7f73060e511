------------------------------ MODULE OspfVlink -------------------------------
(***************************************************************************)
(* OSPF virtual links (vtysh/ospf_vty.c, "area A virtual-link P ...").  A   *)
(* link is a row of the OSPF_Vlink table, referenced from its area's map by *)
(* the peer's router id.  A row that loses its reference is collected at    *)
(* the commit.  The row's name is a number, taken from the table            *)
(* ospf_vlink_count that every vtysh process keeps for itself and fills     *)
(* from the rows when it starts.                                            *)
(*                                                                          *)
(* The table is a sequence: the order in which the client library walks it, *)
(* in which a new row may come anywhere.                                    *)
(***************************************************************************)
EXTENDS OvsdbCommand, Sequences

CONSTANTS
    VlinkAreas,     \* area ids
    Peers,          \* router ids of remote border routers
    MaxVlinks,      \* OVS_OSPF_VL_MAX_COUNT
    VlinkTimes,     \* intervals typed
    VlinkMd5Ids,    \* ids of message digest keys
    VlinkKeys       \* keys

VARIABLE slots      \* the entries of ospf_vlink_count that are 1

vlinkVars == <<db, ret, vtysh, slots>>

IntervalDefaults ==
    [k \in {"hello", "dead", "retransmit", "transmit"} |->
        CASE k = "hello" -> 10 [] k = "dead" -> 40
          [] k = "retransmit" -> 5 [] k = "transmit" -> 1]

Unset == "unset"

NewVlink(a, p, slot) ==
    [name |-> slot, area |-> a, peer |-> p, intervals |-> IntervalDefaults,
     auth |-> Unset, text |-> Unset, md5 |-> EmptyMap]

-------------------------------------------------------------------------------
(* What the commands do to a row. *)

(* A dead interval must be a multiple of the hello interval when it is typed;
   "no" puts the default back unchecked. *)
ospf_vlink_set_other_config_Refused(row, key, n) ==
    key = "dead" /\ (row.intervals["hello"] > n \/ n % row.intervals["hello"] # 0)

ospf_vlink_set_other_config(row, key, n) == [row EXCEPT !.intervals[key] = n]

ospf_vlink_set_authentication(row, auth) == [row EXCEPT !.auth = auth]

SetText(row, key) == [row EXCEPT !.text = key]

(* A key whose id is present is kept. *)
ospf_md5_key_update_to_vl(row, id, key) ==
    IF id \in DOMAIN row.md5 THEN row ELSE [row EXCEPT !.md5 = Put(@, id, key)]

ospf_md5_key_remove_from_vl(row, id) == [row EXCEPT !.md5 = Drop(@, id)]

-------------------------------------------------------------------------------
(* Looking for the row, and writing it. *)

Matches(row, a, p) == row.area = a /\ row.peer = p

Index(a, p) == {i \in DOMAIN db.rows : Matches(db.rows[i], a, p)}

(* The loops of the two authentication commands break after the first row,
   whether it matches or not. *)
FirstOnly(a, p) == Index(a, p) \cap {1}

(* The tables with a row changed, with the area row that the command makes. *)
WithArea(a) == [db EXCEPT !.areas = @ \cup {a}]

WithRow(a, i, row) == [WithArea(a) EXCEPT !.rows[i] = row]

(* The tables after a row is inserted and put in its area's map.  When the map
   has the key already one of the two rows keeps it and the other is collected. *)
WithNew(a, row) ==
    LET others == SelectSeq(db.rows, LAMBDA r : ~Matches(r, a, row.peer))
    IN  {[WithArea(a) EXCEPT !.rows =
              SubSeq(others, 1, i - 1) \o <<row>> \o SubSeq(others, i, Len(others))]
            : i \in 1 .. Len(others) + 1}
        \cup IF Len(others) < Len(db.rows) THEN {WithArea(a)} ELSE {}

(* OSPF_END_DB_TXN_STATUS, then the entry of ospf_vlink_count is set or reset;
   "slot" is 0 when the command did not look for a free one. *)
EndAndCount(tables, slot) ==
    \/ Finish("CMD_SUCCESS", tables) /\ slots' = slots \cup {slot}
    \/ Finish("CMD_WARNING", db) /\ slots' = slots \ {slot}

EndAndFree(tables, slot) ==
    \/ Finish("CMD_SUCCESS", tables) /\ slots' = slots \ {slot}
    \/ Finish("CMD_WARNING", db) /\ UNCHANGED slots

Slots == 0 .. MaxVlinks - 1

(* A new row, changed by the rest of the command; without a free entry the
   command returns and leaves its transaction open. *)
Insert(a, p, Change(_)) ==
    IF Slots \subseteq slots
    THEN ReturnWithoutEnd("CMD_WARNING") /\ UNCHANGED slots
    ELSE LET free == CHOOSE s \in Slots \ slots : \A t \in Slots \ slots : s <= t
         IN  \E tables \in WithNew(a, Change(NewVlink(a, p, free))) :
                 EndAndCount(tables, free)

(* A command under "router ospf": refused before the transaction without the
   router; a transaction left open by an earlier command ends the process. *)
InRouter(rest) ==
    \/ db.router /\ vtysh = "ready" /\ rest
    \/ db.router /\ vtysh = "txn" /\ Crash /\ UNCHANGED slots
    \/ ~db.router /\ Refuse("CMD_WARNING") /\ UNCHANGED slots

-------------------------------------------------------------------------------
(* The commands. *)

(* Mutant: "already configured" returns at once. *)
cli_ospf_area_vlink_Returns(a, p) ==
    InRouter(IF Index(a, p) # {} THEN ReturnWithoutEnd("CMD_SUCCESS") /\ UNCHANGED slots
             ELSE Insert(a, p, LAMBDA row : row))

(* "area A virtual-link P"; for a link that is there the unchanged tables are
   committed, and entry 0 is marked. *)
cli_ospf_area_vlink(a, p) ==
    InRouter(IF Index(a, p) # {} THEN EndAndCount(WithArea(a), 0)
             ELSE Insert(a, p, LAMBDA row : row))

(* "... hello-interval N" and the other intervals. *)
cli_ospf_area_vlink_param1(a, p, key, n) ==
    LET Change(row) == ospf_vlink_set_other_config(row, key, n)
        refused == ERRONEOUS_DB_TXN /\ UNCHANGED slots
        new     == NewVlink(a, p, 0)
    IN  InRouter(
          \/ \E i \in Index(a, p) :
               IF ospf_vlink_set_other_config_Refused(db.rows[i], key, n) THEN refused
               ELSE END_DB_TXN(WithRow(a, i, Change(db.rows[i]))) /\ UNCHANGED slots
          \/ /\ Index(a, p) = {}
             /\ IF /\ ~(Slots \subseteq slots)
                   /\ ospf_vlink_set_other_config_Refused(new, key, n)
                THEN refused ELSE Insert(a, p, Change))

(* The authentication commands, which see the first row only. *)
OnFirst(a, p, Change(_)) ==
    InRouter(IF FirstOnly(a, p) # {}
             THEN EndAndCount(WithRow(a, 1, Change(db.rows[1])), 0)
             ELSE Insert(a, p, Change))

cli_ospf_area_vlink_auth(a, p) ==
    \E auth \in {"text", "md5", "null"} :
        OnFirst(a, p, LAMBDA row : ospf_vlink_set_authentication(row, auth))

cli_ospf_area_vlink_auth_key(a, p) ==
    \E key \in VlinkKeys :
        \/ OnFirst(a, p, LAMBDA row : SetText(row, key))
        \/ \E id \in VlinkMd5Ids :
             OnFirst(a, p, LAMBDA row : ospf_md5_key_update_to_vl(row, id, key))

(* A "no" command: the area, the row among all rows, and the rest. *)
OnLink(a, p, Rest(_)) ==
    InRouter(\/ /\ a \notin db.areas \/ Index(a, p) = {}
                /\ ERRONEOUS_DB_TXN /\ UNCHANGED slots
             \/ a \in db.areas /\ \E i \in Index(a, p) : Rest(i))

(* Mutant: the area's map is written empty. *)
WithoutLink_Cleared(rows, i) == SelectSeq(rows, LAMBDA r : r.area # rows[i].area)

(* The area's map without the peer; the row itself is collected. *)
WithoutLink(rows, i) == SubSeq(rows, 1, i - 1) \o SubSeq(rows, i + 1, Len(rows))

cli_no_ospf_area_vlink(a, p) ==
    OnLink(a, p, LAMBDA i : EndAndFree([db EXCEPT !.rows = WithoutLink(@, i)],
                                       db.rows[i].name))

cli_no_ospf_area_vlink_param1(a, p, key) ==
    OnLink(a, p, LAMBDA i :
        END_DB_TXN([db EXCEPT !.rows[i].intervals[key] = IntervalDefaults[key]])
        /\ UNCHANGED slots)

(* The variable that names the entry to free is still 0 here. *)
cli_no_ospf_area_vlink_auth(a, p) ==
    OnLink(a, p, LAMBDA i : EndAndFree([db EXCEPT !.rows[i].auth = Unset], 0))

cli_no_ospf_area_vlink_auth_key(a, p) ==
    \/ OnLink(a, p, LAMBDA i : EndAndFree([db EXCEPT !.rows[i].text = Unset], 0))
    \/ \E id \in VlinkMd5Ids :
         OnLink(a, p, LAMBDA i :
            EndAndFree([db EXCEPT !.rows[i] = ospf_md5_key_remove_from_vl(@, id)], 0))

(* A vtysh process starts: ospf_area_vlink_init marks the entries of the rows. *)
ospf_area_vlink_init ==
    /\ vtysh' = "ready"
    /\ slots' = {db.rows[i].name : i \in DOMAIN db.rows}
    /\ UNCHANGED <<db, ret>>

(* Another session, with entries of its own, adds a link; or it removes the
   router, and with it every link, or makes it again. *)
AddedElsewhere(a, p, slot) ==
    /\ db.router /\ Index(a, p) = {}
    /\ db' \in WithNew(a, NewVlink(a, p, slot))
    /\ UNCHANGED <<ret, vtysh, slots>>

RouterElsewhere ==
    /\ db' = [router |-> ~db.router, areas |-> {}, rows |-> <<>>]
    /\ UNCHANGED <<ret, vtysh, slots>>

-------------------------------------------------------------------------------
Init ==
    /\ db = [router |-> TRUE, areas |-> {}, rows |-> <<>>]
    /\ ret = "CMD_SUCCESS"
    /\ vtysh = "ready"
    /\ slots = {}

Next ==
    \/ \E a \in VlinkAreas, p \in Peers :
         \/ cli_ospf_area_vlink(a, p)
         \/ \E key \in DOMAIN IntervalDefaults :
              \/ \E n \in VlinkTimes : cli_ospf_area_vlink_param1(a, p, key, n)
              \/ cli_no_ospf_area_vlink_param1(a, p, key)
         \/ cli_ospf_area_vlink_auth(a, p)
         \/ cli_ospf_area_vlink_auth_key(a, p)
         \/ cli_no_ospf_area_vlink(a, p)
         \/ cli_no_ospf_area_vlink_auth(a, p)
         \/ cli_no_ospf_area_vlink_auth_key(a, p)
         \/ \E slot \in Slots : AddedElsewhere(a, p, slot)
    \/ ospf_area_vlink_init
    \/ RouterElsewhere

Spec == Init /\ [][Next]_vlinkVars

-------------------------------------------------------------------------------
(***************************************************************************)
(* The transaction is left open by one path only: no entry of               *)
(* ospf_vlink_count is free (ospf_vty.c:9141, 9286, 9624).  The next        *)
(* command then ends the process.                                           *)
(***************************************************************************)
OpenOnlyWhenFull == vtysh # "ready" => Slots \subseteq slots

(* The columns of the link to a peer through an area; <<>> when there is none. *)
Link(a, p) == [i \in {1 : j \in Index(a, p)} |-> db.rows[CHOOSE j \in Index(a, p) : TRUE]]

(***************************************************************************)
(* A command changes at most the one virtual link it names, although its    *)
(* loops walk the rows of every area and rewrite whole maps; only the       *)
(* router's removal takes several.                                          *)
(***************************************************************************)
OneLinkChanged ==
    [][db'.router = db.router =>
         Cardinality({k \in VlinkAreas \X Peers :
                        Link(k[1], k[2])' # Link(k[1], k[2])}) <= 1]_vlinkVars

(***************************************************************************)
(* "Maximum vlink count(%d) reached" (ospf_vty.c:9142): a command finds no  *)
(* entry free only when that many links exist.  False: an authentication    *)
(* command for a link that is not the first of the table takes an entry for *)
(* a row that is collected.                                                 *)
(***************************************************************************)
FullOnlyWhenReached == vtysh = "txn" => Len(db.rows) >= MaxVlinks
===============================================================================
