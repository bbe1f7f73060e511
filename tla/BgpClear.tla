------------------------------- MODULE BgpClear --------------------------------
(***************************************************************************)
(* The "clear bgp ... soft in/out" commands (vtysh/bgp_vty.c) and the        *)
(* counters they share with the routing daemon in the status column of a     *)
(* neighbor row: the command raises "requested", the daemon clears and sets  *)
(* "performed" to it.  Each party works on its own copy of the database,     *)
(* which trails the server, and every write replaces the whole column.       *)
(*                                                                           *)
(* The neighbors and their groups are fixed here; BgpNeighbor has them.      *)
(***************************************************************************)
EXTENDS Naturals, Sequences, SequencesExt

CONSTANTS
    Sessions,       \* vtysh processes
    Order,          \* the keys of bgp_neighbors, in their order
    GroupOf,        \* the peer group of each name, or None
    RemoteAs,       \* the remote AS of each name
    MaxRequests,    \* bound: "requested" does not grow past it
    None

Neighbors == ToSet(Order)
Directions == {"in", "out"}
Daemon == "bgpd"

(* What the constants are. *)
ClearConstants ==
    /\ GroupOf \in [Neighbors -> Neighbors \cup {None}]
    /\ RemoteAs \in [Neighbors -> Nat]
    /\ None \notin Neighbors
    /\ Daemon \notin Sessions
    /\ MaxRequests \in Nat

VARIABLES
    status,         \* the server: [requested, performed] of a neighbor and direction
    copy,           \* what each session and the daemon see of it
    owed            \* clears reported as successful and not performed since

clearVars == <<status, copy, owed>>

Counters == [requested : 0 .. MaxRequests, performed : 0 .. MaxRequests]

(* Mutants: a pending clear does not refuse another; a clear must be pending. *)
validate_bgp_clear_counters_Always(c) == TRUE

validate_bgp_clear_counters_Pending(c) == c.requested # c.performed

(* The counters differ while a clear is pending: no other is accepted. *)
validate_bgp_clear_counters(c) == c.requested = c.performed

(* CMD_OVSDB_FAILURE, the transaction aborted or its commit refused. *)
ClearRefuse == UNCHANGED clearVars

(* Mutant: the wrong counter goes up. *)
Request_Performed(s, targets, d) ==
    LET column(n) == [copy[s][n] EXCEPT ![d].performed = @ + 1]
        written == [n \in Neighbors |-> IF n \in targets THEN column(n) ELSE status[n]]
    IN  /\ \A n \in targets : copy[s][n][d].performed < MaxRequests
        /\ status' = written
        /\ copy' = [copy EXCEPT ![s] = written]
        /\ owed' = owed \cup (targets \X {d})

(* One transaction: the counters of the targets go up in the session's copy,
   and the whole column of each replaces the server's, or the commit fails.
   The commit returns after the copy has caught up. *)
Request(s, targets, d) ==
    LET column(n) == [copy[s][n] EXCEPT ![d].requested = @ + 1]
        written == [n \in Neighbors |-> IF n \in targets THEN column(n) ELSE status[n]]
    IN  /\ \A n \in targets : copy[s][n][d].requested < MaxRequests
        /\ status' = written
        /\ copy' = [copy EXCEPT ![s] = written]
        /\ owed' = owed \cup (targets \X {d})

Clear(s, targets, d) ==
    \/ ClearRefuse
    \/ /\ \A n \in targets : validate_bgp_clear_counters(copy[s][n][d])
       /\ Request(s, targets, d)

(* "clear bgp *": every row but the members of groups, or none of them. *)
ClearAll(s, d) == Clear(s, {n \in Neighbors : GroupOf[n] = None}, d)

(* "clear bgp A.B.C.D": a row that is not there, or in a group, is refused. *)
ClearPeer(s, n, d) ==
    IF n \in Neighbors /\ GroupOf[n] = None THEN Clear(s, {n}, d) ELSE ClearRefuse

(* "clear bgp peer-group WORD". *)
ClearGroup(s, n, d) == IF n \in Neighbors THEN Clear(s, {n}, d) ELSE ClearRefuse

(* get_bgp_neighbor_with_bgp_router_and_asn: the first row of that AS. *)
FirstOfAs(as) == SelectInSeq(Order, LAMBDA n : RemoteAs[n] = as)

(* "clear bgp <AS>": one row only. *)
ClearAs(s, as, d) ==
    IF FirstOfAs(as) = 0 THEN ClearRefuse ELSE ClearPeer(s, Order[FirstOfAs(as)], d)

clear_bgp_all_soft_out(s) == ClearAll(s, "out")

clear_bgp_all_soft_in(s) == ClearAll(s, "in")

clear_bgp_peer_soft_out(s, n) == ClearPeer(s, n, "out")

clear_bgp_peer_soft_in(s, n) == ClearPeer(s, n, "in")

clear_bgp_peer_group_soft_out(s, n) == ClearGroup(s, n, "out")

clear_bgp_peer_group_soft_in(s, n) == ClearGroup(s, n, "in")

clear_bgp_as_soft_out(s, as) == ClearAs(s, as, "out")

clear_bgp_as_soft_in(s, as) == ClearAs(s, as, "in")

(* External: an update from the server reaches a copy. *)
Update(a) ==
    /\ copy[a] # status
    /\ copy' = [copy EXCEPT ![a] = status]
    /\ UNCHANGED <<status, owed>>

(* External: the daemon clears the sessions it sees a request for, and writes
   the column back. *)
Perform(n) ==
    LET seen == copy[Daemon][n]
        done == [d \in Directions |-> [seen[d] EXCEPT !.performed = seen[d].requested]]
    IN  /\ seen # done
        /\ status' = [status EXCEPT ![n] = done]
        /\ copy' = [copy EXCEPT ![Daemon] = status']
        /\ owed' = owed \ ({n} \X {d \in Directions : seen[d] # done[d]})

ClearInit ==
    /\ status = [n \in Neighbors |-> [d \in Directions |-> [requested |-> 0, performed |-> 0]]]
    /\ copy = [a \in Sessions \cup {Daemon} |-> status]
    /\ owed = {}

ClearCommand(s) ==
    \/ clear_bgp_all_soft_out(s) \/ clear_bgp_all_soft_in(s)
    \/ \E n \in Neighbors \cup {None} :
         \/ clear_bgp_peer_soft_out(s, n) \/ clear_bgp_peer_soft_in(s, n)
         \/ clear_bgp_peer_group_soft_out(s, n) \/ clear_bgp_peer_group_soft_in(s, n)
    \/ \E as \in {RemoteAs[n] : n \in Neighbors} \cup {0} :
         clear_bgp_as_soft_out(s, as) \/ clear_bgp_as_soft_in(s, as)

ClearNext ==
    \/ \E s \in Sessions : ClearCommand(s)
    \/ \E a \in Sessions \cup {Daemon} : Update(a)
    \/ \E n \in Neighbors : Perform(n)

(* The daemon keeps running and the server keeps sending updates. *)
Fairness ==
    /\ \A a \in Sessions \cup {Daemon} : WF_clearVars(Update(a))
    /\ \A n \in Neighbors : WF_clearVars(Perform(n))

ClearSpec == ClearInit /\ [][ClearNext]_clearVars /\ Fairness

--------------------------------------------------------------------------------
(* Types of the counters, of the copies and of what is owed. *)
ClearTypeOK ==
    /\ status \in [Neighbors -> [Directions -> Counters]]
    /\ copy \in [Sessions \cup {Daemon} -> [Neighbors -> [Directions -> Counters]]]
    /\ owed \subseteq Neighbors \X Directions

(* At most one clear is pending. *)
InStep(c) == c.performed <= c.requested /\ c.requested <= c.performed + 1

(* However the whole-column writes cross, "performed" is not ahead of "requested",
   the first error case of validate_bgp_clear_counters, and two clears of one
   direction are never pending at once on one neighbor: on the server or in any
   copy. *)
OnePending ==
    \A n \in Neighbors, d \in Directions :
        InStep(status[n][d]) /\ \A a \in DOMAIN copy : InStep(copy[a][n][d])

(* A clear that is pending does not refuse the later ones for ever: again and
   again the counters a session reads let validate_bgp_clear_counters pass,
   even when a whole-column write has undone "performed". *)
ClearNotBlocked ==
    \A s \in Sessions, n \in Neighbors, d \in Directions :
        []<> validate_bgp_clear_counters(copy[s][n][d])

(* "Successful transaction for clear bgp": a clear whose command succeeded is
   performed. *)
SuccessIsPerformed ==
    \A n \in Neighbors, d \in Directions : <<n, d>> \in owed ~> <<n, d>> \notin owed
================================================================================
