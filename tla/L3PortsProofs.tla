---------------------------- MODULE L3PortsProofs ----------------------------
(***************************************************************************)
(* The tables of L3Ports stay consistent, with and without VRF_ENABLE and   *)
(* for every set of interfaces, VRFs, addresses and tags.                   *)
(***************************************************************************)
EXTENDS L3Ports, TLAPS

(* A map of the database, and rows with the columns of their table. *)
IsMap(m) == m = [k \in DOMAIN m |-> m[k]]

IsInterface(r) == r = [parent |-> r.parent, tag |-> r.tag, up |-> r.up]

IsPort(r) ==
    /\ r = [ifs |-> r.ifs, primary |-> r.primary, secondary |-> r.secondary, arp |-> r.arp,
            acl |-> r.acl, access |-> r.access, down |-> r.down]
    /\ IsMap(r.primary) /\ DOMAIN r.primary = Families
    /\ IsMap(r.secondary) /\ DOMAIN r.secondary = Families

(* A port without L3 configuration, and two with different networks. *)
Plain(r) == AddressesOf(r) = {} /\ r.arp = {}

Apart(r, s) == \A a \in AddressesOf(r), b \in AddressesOf(s) : Addresses[a] # Addresses[b]

(***************************************************************************)
(* The invariant, of the interfaces I, the ports P, the bridge B and the    *)
(* VRFs V.  In the middle of a command the interfaces X may have lost their *)
(* ports.                                                                   *)
(***************************************************************************)

(* References are to rows; a port is in the bridge or in one VRF, and only
   the port of a VLAN is in both. *)
PlacesOK(P, B, V) ==
    /\ IsMap(P) /\ IsMap(V) /\ DefaultVrf \in DOMAIN V
    /\ B \subseteq DOMAIN P /\ B \subseteq Physical \cup Vlans \cup {Lag}
    /\ \A v \in DOMAIN V : V[v] \subseteq DOMAIN P
    /\ \A v, w \in DOMAIN V : \A p \in V[v] : p \in V[w] => v = w
    /\ \A p \in DOMAIN P : p \in B \/ \E v \in DOMAIN V : p \in V[v]
    /\ \A p \in B \ Vlans : \A v \in DOMAIN V : p \notin V[v]
    /\ DOMAIN P \cap Vlans \subseteq B

(* A port carries the interface of its name; the LAG carries members that
   have no ports. *)
RowsOK(I, P) ==
    /\ \A p \in DOMAIN P : IsPort(P[p])
    /\ \A p \in DOMAIN P \ {Lag} : p \in DOMAIN I /\ P[p].ifs = {p}
    /\ Lag \in DOMAIN P => P[Lag].ifs \subseteq LagMembers \ DOMAIN P

(* Interfaces that are not hardware have ports, and sub-interfaces have
   parents with ports that are not in the bridge, and tags of their own. *)
InterfacesOK(X, I, P, B) ==
    /\ IsMap(I) /\ Physical \subseteq DOMAIN I /\ DOMAIN I \subseteq Names
    /\ \A n \in DOMAIN I : IsInterface(I[n]) /\ I[n].parent = IF n \in Subs THEN {Parent(n)} ELSE {}
    /\ \A n \in DOMAIN I \ Physical : n \in DOMAIN P \cup X
    /\ \A n \in DOMAIN I \cap Subs : Parent(n) \in LagMembers \/ Parent(n) \in (DOMAIN P \cup X) \ B
    /\ \A m, n \in DOMAIN I \cap Subs :
         m # n /\ Parent(m) = Parent(n) /\ I[m].tag # 0 => I[m].tag # I[n].tag

AddressesOK(P, B, V) ==
    /\ \A p \in B \ Vlans : Plain(P[p])
    /\ \A v \in DOMAIN V : \A p, q \in V[v] \ {Lag} : p # q => Apart(P[p], P[q])

OK(X, I, P, B, V) ==
    PlacesOK(P, B, V) /\ RowsOK(I, P) /\ InterfacesOK(X, I, P, B) /\ AddressesOK(P, B, V)

IsDb(d) == d = [t \in {"intf", "port", "bridge", "vrf", "split"} |-> d[t]]

DbOK(X, d) == IsDb(d) /\ OK(X, d.intf, d.port, d.bridge, d.vrf)

PortsInv == DbOK({}, db)

-------------------------------------------------------------------------------
(* A new port is plain, and addresses are added and removed one at a time. *)
LEMMA NewPortPlain ==
  ASSUME NEW ifs
  PROVE  IsPort(NewPort(ifs)) /\ NewPort(ifs).ifs = ifs /\ Plain(NewPort(ifs))
BY DEF NewPort, IsPort, IsMap, Plain, AddressesOf

(* A port that is set to be an access port is as plain as before. *)
LEMMA AccessPort ==
  ASSUME NEW r, IsPort(r), NEW b
  PROVE  LET s == [r EXCEPT !.access = b]
         IN  IsPort(s) /\ s.ifs = r.ifs /\ s.arp = r.arp /\ AddressesOf(s) = AddressesOf(r)
BY DEF IsPort, AddressesOf

(* The same for the other settings that are not addresses. *)
LEMMA OtherSettings ==
  ASSUME NEW r, IsPort(r), NEW b
  PROVE  /\ LET s == [r EXCEPT !.down = b]
            IN  IsPort(s) /\ s.ifs = r.ifs /\ s.arp = r.arp /\ AddressesOf(s) = AddressesOf(r)
         /\ LET s == [r EXCEPT !.acl = b]
            IN  IsPort(s) /\ s.ifs = r.ifs /\ s.arp = r.arp /\ AddressesOf(s) = AddressesOf(r)
         /\ LET s == [r EXCEPT !.arp = b]
            IN  IsPort(s) /\ s.ifs = r.ifs /\ AddressesOf(s) = AddressesOf(r)
<1> DEFINE d == [r EXCEPT !.down = b]
           c == [r EXCEPT !.acl = b]
           a == [r EXCEPT !.arp = b]
<1>1. IsPort(d) /\ d.ifs = r.ifs /\ d.arp = r.arp /\ AddressesOf(d) = AddressesOf(r)
  BY DEF IsPort, AddressesOf
<1>2. IsPort(c) /\ c.ifs = r.ifs /\ c.arp = r.arp /\ AddressesOf(c) = AddressesOf(r)
  BY DEF IsPort, AddressesOf
<1>3. IsPort(a) /\ a.ifs = r.ifs /\ AddressesOf(a) = AddressesOf(r)
  BY DEF IsPort, AddressesOf
<1>. QED BY <1>1, <1>2, <1>3

(* An address is added. *)
LEMMA AddressSet ==
  ASSUME NEW r, IsPort(r), NEW f \in Families, NEW a, NEW secondary \in BOOLEAN
  PROVE  LET s == SetAddress(r, f, a, secondary)
         IN  IsPort(s) /\ s.ifs = r.ifs /\ s.arp = r.arp /\ AddressesOf(s) \subseteq AddressesOf(r) \cup {a}
<1>1. CASE secondary
  <2> DEFINE s == [r EXCEPT !.secondary[f] = @ \cup {a}]
  <2>1. IsPort(s) /\ s.ifs = r.ifs /\ s.arp = r.arp /\ s.primary = r.primary
        /\ s.secondary = [r.secondary EXCEPT ![f] = @ \cup {a}]
    BY DEF IsPort, IsMap
  <2>2. AddressesOf(s) \subseteq AddressesOf(r) \cup {a}
    BY <2>1 DEF AddressesOf, IsPort
  <2>. QED BY <1>1, <2>1, <2>2 DEF SetAddress
<1>2. CASE ~ secondary
  <2> DEFINE s == [r EXCEPT !.primary[f] = {a}]
  <2>1. IsPort(s) /\ s.ifs = r.ifs /\ s.arp = r.arp /\ s.secondary = r.secondary
        /\ s.primary = [r.primary EXCEPT ![f] = {a}]
    BY SMTT(60) DEF IsPort, IsMap
  <2>2. AddressesOf(s) \subseteq AddressesOf(r) \cup {a}
    BY <2>1 DEF AddressesOf, IsPort
  <2>. QED BY <1>2, <2>1, <2>2 DEF SetAddress
<1>. QED BY <1>1, <1>2

(* An address is removed. *)
LEMMA AddressDeleted ==
  ASSUME NEW r, IsPort(r), NEW f \in Families, NEW a, NEW secondary \in BOOLEAN
  PROVE  LET s == DelAddress(r, f, a, secondary)
         IN  IsPort(s) /\ s.ifs = r.ifs /\ s.arp = r.arp /\ AddressesOf(s) \subseteq AddressesOf(r)
<1>1. CASE secondary
  <2> DEFINE s == [r EXCEPT !.secondary[f] = @ \ {a}]
  <2>1. IsPort(s) /\ s.ifs = r.ifs /\ s.arp = r.arp /\ s.primary = r.primary
        /\ s.secondary = [r.secondary EXCEPT ![f] = @ \ {a}]
    BY DEF IsPort, IsMap
  <2>2. AddressesOf(s) \subseteq AddressesOf(r)
    BY <2>1 DEF AddressesOf, IsPort
  <2>. QED BY <1>1, <2>1, <2>2 DEF DelAddress
<1>2. CASE ~ secondary
  <2> DEFINE s == [r EXCEPT !.primary[f] = {}]
  <2>1. IsPort(s) /\ s.ifs = r.ifs /\ s.arp = r.arp /\ s.secondary = r.secondary
        /\ s.primary = [r.primary EXCEPT ![f] = {}]
    BY DEF IsPort, IsMap
  <2>2. AddressesOf(s) \subseteq AddressesOf(r)
    BY <2>1 DEF AddressesOf, IsPort
  <2>. QED BY <1>2, <2>1, <2>2 DEF DelAddress
<1>. QED BY <1>1, <1>2

(***************************************************************************)
(* The changes commands are made of.                                        *)
(***************************************************************************)

(* A row of the ports is written. *)
LEMMA RowChanged ==
  ASSUME NEW X, NEW I, NEW P, NEW B, NEW V, OK(X, I, P, B, V), NEW p \in DOMAIN P, NEW row,
         IsPort(row), row.ifs = P[p].ifs, p \in B \ Vlans => Plain(row),
         p # Lag => \A v \in DOMAIN V : p \in V[v] => \A q \in V[v] \ {Lag, p} : Apart(row, P[q])
  PROVE  OK(X, I, [P EXCEPT ![p] = row], B, V)
<1> DEFINE Q == [P EXCEPT ![p] = row]
<1>1. IsMap(Q) /\ DOMAIN Q = DOMAIN P /\ Q[p] = row /\ \A k \in DOMAIN P : k # p => Q[k] = P[k]
  BY DEF IsMap
<1>. HIDE DEF Q
<1>2. PlacesOK(Q, B, V)
  BY <1>1 DEF OK, PlacesOK
<1>3. RowsOK(I, Q)
  BY <1>1 DEF OK, RowsOK
<1>4. InterfacesOK(X, I, Q, B)
  BY <1>1 DEF OK, InterfacesOK
<1>5. \A k \in B \ Vlans : Plain(Q[k])
  BY <1>1 DEF OK, PlacesOK, AddressesOK
<1>6. ASSUME NEW v \in DOMAIN V, NEW k \in V[v] \ {Lag}, NEW l \in V[v] \ {Lag}, k # l
      PROVE  Apart(Q[k], Q[l])
  <2>1. k \in DOMAIN P /\ l \in DOMAIN P /\ Apart(P[k], P[l])
    BY <1>6 DEF OK, PlacesOK, AddressesOK
  <2>2. CASE k = p
    BY <1>1, <1>6, <2>1, <2>2
  <2>3. CASE l = p
    <3>1. Apart(row, P[k])
      BY <1>6, <2>3
    <3>. QED BY <1>1, <1>6, <2>1, <2>3, <3>1 DEF Apart
  <2>4. CASE k # p /\ l # p
    BY <1>1, <2>1, <2>4
  <2>. QED BY <2>2, <2>3, <2>4
<1>. QED BY <1>2, <1>3, <1>4, <1>5, <1>6 DEF OK, AddressesOK, Q

(* A map without some of its keys, and the VRFs without some ports. *)
Restricts(n, m, K) == IsMap(n) /\ DOMAIN n = DOMAIN m \ K /\ \A k \in DOMAIN n : n[k] = m[k]

Leaves(W, V, R) == IsMap(W) /\ DOMAIN W = DOMAIN V /\ \A v \in DOMAIN V : W[v] = V[v] \ R

(* Ports are removed, with interfaces that are not hardware. *)
LEMMA Removed ==
  ASSUME NEW X, NEW I, NEW P, NEW B, NEW V, OK(X, I, P, B, V), PortsConstants,
         NEW R, NEW K, K \subseteq Subs \cup Loopbacks \cup Vlans, K \cap DOMAIN P \subseteq R,
         NEW J, Restricts(J, I, K), NEW Q, Restricts(Q, P, R), NEW W, Leaves(W, V, R)
  PROVE  OK(X \cup R, J, Q, B \ R, W)
<1> DEFINE C == B \ R
<1>1. IsMap(J) /\ DOMAIN J = DOMAIN I \ K /\ \A n \in DOMAIN J : J[n] = I[n]
  BY DEF Restricts
<1>2. IsMap(Q) /\ DOMAIN Q = DOMAIN P \ R /\ \A n \in DOMAIN Q : Q[n] = P[n]
  BY DEF Restricts
<1>3. IsMap(W) /\ DOMAIN W = DOMAIN V /\ \A v \in DOMAIN V : W[v] = V[v] \ R
  BY DEF Leaves
<1>4. PlacesOK(Q, C, W)
  <2>. USE DEF OK, PlacesOK
  <2>1. C \subseteq DOMAIN Q /\ C \subseteq Physical \cup Vlans \cup {Lag} /\ DefaultVrf \in DOMAIN W
    BY <1>2, <1>3
  <2>2. \A v \in DOMAIN W : W[v] \subseteq DOMAIN Q
    BY <1>2, <1>3
  <2>3. \A v, w \in DOMAIN W : \A p \in W[v] : p \in W[w] => v = w
    BY <1>3
  <2>4. \A p \in DOMAIN Q : p \in C \/ \E v \in DOMAIN W : p \in W[v]
    BY <1>2, <1>3
  <2>5. \A p \in C \ Vlans : \A v \in DOMAIN W : p \notin W[v]
    BY <1>3
  <2>6. DOMAIN Q \cap Vlans \subseteq C
    BY <1>2
  <2>. QED BY <1>2, <1>3, <2>1, <2>2, <2>3, <2>4, <2>5, <2>6
<1>5. RowsOK(J, Q)
  BY <1>1, <1>2 DEF OK, RowsOK
<1>6. InterfacesOK(X \cup R, J, Q, C)
  <2>1. Physical \cap K = {}
    BY DEF PortsConstants
  <2>2. Physical \subseteq DOMAIN J /\ DOMAIN J \subseteq Names
    BY <1>1, <2>1 DEF OK, InterfacesOK
  <2>3. \A n \in DOMAIN J : IsInterface(J[n]) /\ J[n].parent = IF n \in Subs THEN {Parent(n)} ELSE {}
    BY <1>1 DEF OK, InterfacesOK
  <2>4. \A n \in DOMAIN J \ Physical : n \in DOMAIN Q \cup (X \cup R)
    BY <1>1, <1>2 DEF OK, InterfacesOK
  <2>5. \A n \in DOMAIN J \cap Subs : Parent(n) \in LagMembers \/ Parent(n) \in (DOMAIN Q \cup (X \cup R)) \ C
    BY <1>1, <1>2 DEF OK, InterfacesOK
  <2>6. \A m, n \in DOMAIN J \cap Subs :
          m # n /\ Parent(m) = Parent(n) /\ J[m].tag # 0 => J[m].tag # J[n].tag
    BY ZenonT(60), <1>1 DEF OK, InterfacesOK
  <2>. QED BY ZenonT(60), <1>1, <2>2, <2>3, <2>4, <2>5, <2>6 DEF InterfacesOK
<1>7. AddressesOK(Q, C, W)
  BY <1>2, <1>3, <1>4 DEF OK, AddressesOK, PlacesOK
<1>. QED BY <1>4, <1>5, <1>6, <1>7 DEF OK

(* Nothing is missing any more. *)
LEMMA Settled ==
  ASSUME NEW X, NEW I, NEW P, NEW B, NEW V, OK(X, I, P, B, V), PortsConstants,
         NEW Y, \A x \in X \ Y : \/ x \in DOMAIN P
                                 \/ x \notin DOMAIN I \ Physical /\ \A n \in DOMAIN I \cap Subs : Parent(n) = x => x \in LagMembers
  PROVE  OK(Y, I, P, B, V)
BY DEF OK, InterfacesOK

(* A plain port is added to a VRF. *)
LEMMA AddedRouted ==
  ASSUME NEW X, NEW I, NEW P, NEW B, NEW V, OK(X, I, P, B, V), PortsConstants,
         NEW name \in DOMAIN I \ Vlans, name \notin DOMAIN P, Lag \in DOMAIN P => name \notin P[Lag].ifs,
         NEW row, IsPort(row), row.ifs = {name}, Plain(row), NEW v \in DOMAIN V
  PROVE  OK(X \ {name}, I, Put(P, name, row), B, Attach(V, v, name))
<1> DEFINE Q == Put(P, name, row)
           W == Attach(V, v, name)
<1>1. IsMap(Q) /\ DOMAIN Q = DOMAIN P \cup {name} /\ Q[name] = row /\ \A k \in DOMAIN P : Q[k] = P[k]
  BY DEF IsMap, Put
<1>2. /\ IsMap(W) /\ DOMAIN W = DOMAIN V /\ W[v] = V[v] \cup {name}
      /\ \A w \in DOMAIN V : w # v => W[w] = V[w]
  BY DEF IsMap, Attach, OK, PlacesOK
<1>3. name # Lag /\ name \in Names
  BY DEF OK, InterfacesOK, PortsConstants, Names
<1>. HIDE DEF Q, W
<1>4. PlacesOK(Q, B, W)
  <2>. USE DEF OK, PlacesOK
  <2>1. B \subseteq DOMAIN Q /\ DefaultVrf \in DOMAIN W
    BY ZenonT(60), <1>1, <1>2
  <2>2. \A w \in DOMAIN W : W[w] \subseteq DOMAIN Q
    BY <1>1, <1>2
  <2>3. \A u, w \in DOMAIN W : \A p \in W[u] : p \in W[w] => u = w
    BY <1>2
  <2>4. \A p \in DOMAIN Q : p \in B \/ \E w \in DOMAIN W : p \in W[w]
    BY <1>1, <1>2
  <2>5. \A p \in B \ Vlans : \A w \in DOMAIN W : p \notin W[w]
    BY <1>2
  <2>6. DOMAIN Q \cap Vlans \subseteq B
    BY <1>1
  <2>. QED BY ZenonT(60), <1>1, <1>2, <2>1, <2>2, <2>3, <2>4, <2>5, <2>6
<1>5. RowsOK(I, Q)
  BY ZenonT(60), <1>1, <1>3 DEF OK, RowsOK
<1>6. InterfacesOK(X \ {name}, I, Q, B)
  BY ZenonT(60), <1>1 DEF OK, InterfacesOK
<1>7. AddressesOK(Q, B, W)
  <2>1. \A p \in B \ Vlans : Plain(Q[p])
    BY <1>1 DEF OK, AddressesOK, PlacesOK
  <2>2. ASSUME NEW w \in DOMAIN W, NEW p \in W[w] \ {Lag}, NEW q \in W[w] \ {Lag}, p # q
        PROVE  Apart(Q[p], Q[q])
    <3>1. CASE p = name \/ q = name
      BY ZenonT(60), <1>1, <3>1 DEF Apart, Plain
    <3>2. CASE p # name /\ q # name
      <4>1. w \in DOMAIN V /\ p \in V[w] /\ q \in V[w] /\ p \in DOMAIN P /\ q \in DOMAIN P
        BY ZenonT(60), <1>2, <2>2, <3>2 DEF OK, PlacesOK
      <4>. QED BY ZenonT(60), <1>1, <2>2, <4>1 DEF OK, AddressesOK
    <3>. QED BY <3>1, <3>2
  <2>. QED BY ZenonT(60), <2>1, <2>2 DEF AddressesOK
<1>. QED BY ZenonT(60), <1>4, <1>5, <1>6, <1>7 DEF OK, Q, W

(* A plain port is added to the bridge. *)
LEMMA AddedSwitched ==
  ASSUME NEW X, NEW I, NEW P, NEW B, NEW V, OK(X, I, P, B, V), PortsConstants,
         NEW name \in Physical, name \notin DOMAIN P, Lag \in DOMAIN P => name \notin P[Lag].ifs,
         \A n \in DOMAIN I \cap Subs : Parent(n) = name => name \in LagMembers,
         NEW row, IsPort(row), row.ifs = {name}, Plain(row)
  PROVE  OK(X \ {name}, I, Put(P, name, row), B \cup {name}, V)
<1> DEFINE Q == Put(P, name, row)
           C == B \cup {name}
<1>1. IsMap(Q) /\ DOMAIN Q = DOMAIN P \cup {name} /\ Q[name] = row /\ \A k \in DOMAIN P : Q[k] = P[k]
  BY ZenonT(60) DEF IsMap, Put
<1>2. name # Lag /\ name \notin Vlans /\ name \in DOMAIN I
  BY ZenonT(60) DEF OK, InterfacesOK, PortsConstants
<1>. HIDE DEF Q
<1>3. PlacesOK(Q, C, V)
  <2>. USE DEF OK, PlacesOK
  <2>1. C \subseteq DOMAIN Q /\ C \subseteq Physical \cup Vlans \cup {Lag}
    BY ZenonT(60), <1>1
  <2>2. \A w \in DOMAIN V : V[w] \subseteq DOMAIN Q /\ name \notin V[w]
    BY ZenonT(60), <1>1
  <2>3. \A p \in DOMAIN Q : p \in C \/ \E w \in DOMAIN V : p \in V[w]
    BY ZenonT(60), <1>1
  <2>4. \A p \in C \ Vlans : \A w \in DOMAIN V : p \notin V[w]
    BY ZenonT(60), <2>2
  <2>5. DOMAIN Q \cap Vlans \subseteq C
    BY ZenonT(60), <1>1
  <2>. QED BY ZenonT(60), <1>1, <2>1, <2>2, <2>3, <2>4, <2>5
<1>4. RowsOK(I, Q)
  BY ZenonT(60), <1>1, <1>2 DEF OK, RowsOK
<1>5. InterfacesOK(X \ {name}, I, Q, C)
  BY ZenonT(60), <1>1 DEF OK, InterfacesOK
<1>6. AddressesOK(Q, C, V)
  <2>1. \A p \in C \ Vlans : Plain(Q[p])
    BY ZenonT(60), <1>1 DEF OK, AddressesOK, PlacesOK
  <2>2. \A w \in DOMAIN V : \A p \in V[w] : p \in DOMAIN P
    BY ZenonT(60) DEF OK, PlacesOK
  <2>3. \A w \in DOMAIN V : \A p, q \in V[w] \ {Lag} : p # q => Apart(Q[p], Q[q])
    BY ZenonT(60), <1>1, <2>2 DEF OK, AddressesOK
  <2>. QED BY ZenonT(60), <2>1, <2>3 DEF AddressesOK
<1>. QED BY ZenonT(60), <1>3, <1>4, <1>5, <1>6 DEF OK, Q

(* The port of a VLAN is added to the bridge and to a VRF. *)
LEMMA AddedVlan ==
  ASSUME NEW X, NEW I, NEW P, NEW B, NEW V, OK(X, I, P, B, V), PortsConstants,
         NEW name \in DOMAIN I \cap Vlans, name \notin DOMAIN P,
         NEW row, IsPort(row), row.ifs = {name}, Plain(row), NEW v \in DOMAIN V
  PROVE  OK(X \ {name}, I, Put(P, name, row), B \cup {name}, Attach(V, v, name))
<1> DEFINE Q == Put(P, name, row)
           C == B \cup {name}
           W == Attach(V, v, name)
<1>1. IsMap(Q) /\ DOMAIN Q = DOMAIN P \cup {name} /\ Q[name] = row /\ \A k \in DOMAIN P : Q[k] = P[k]
  BY DEF IsMap, Put
<1>2. /\ IsMap(W) /\ DOMAIN W = DOMAIN V /\ W[v] = V[v] \cup {name}
      /\ \A w \in DOMAIN V : w # v => W[w] = V[w]
  BY DEF IsMap, Attach, OK, PlacesOK
<1>3. name # Lag /\ name \notin Physical /\ name \notin LagMembers
  BY ZenonT(60) DEF PortsConstants
<1>. HIDE DEF Q, W
<1>4. PlacesOK(Q, C, W)
  <2>. USE DEF OK, PlacesOK
  <2>1. C \subseteq DOMAIN Q /\ C \subseteq Physical \cup Vlans \cup {Lag} /\ DefaultVrf \in DOMAIN W
    BY ZenonT(60), <1>1, <1>2
  <2>2. \A w \in DOMAIN W : W[w] \subseteq DOMAIN Q
    BY ZenonT(60), <1>1, <1>2
  <2>3. \A u, w \in DOMAIN W : \A p \in W[u] : p \in W[w] => u = w
    BY <1>2
  <2>4. \A p \in DOMAIN Q : p \in C \/ \E w \in DOMAIN W : p \in W[w]
    BY ZenonT(60), <1>1, <1>2
  <2>5. \A p \in C \ Vlans : \A w \in DOMAIN W : p \notin W[w]
    BY <1>2
  <2>6. DOMAIN Q \cap Vlans \subseteq C
    BY ZenonT(60), <1>1
  <2>. QED BY ZenonT(60), <1>1, <1>2, <2>1, <2>2, <2>3, <2>4, <2>5, <2>6
<1>5. RowsOK(I, Q)
  BY SMTT(60), <1>1, <1>3 DEF OK, RowsOK
<1>6. InterfacesOK(X \ {name}, I, Q, C)
  BY Zenon, <1>1, <1>3 DEF OK, InterfacesOK, PortsConstants
<1>7. AddressesOK(Q, C, W)
  <2>1. \A p \in C \ Vlans : Plain(Q[p])
    BY <1>1 DEF OK, AddressesOK, PlacesOK
  <2>2. ASSUME NEW w \in DOMAIN W, NEW p \in W[w] \ {Lag}, NEW q \in W[w] \ {Lag}, p # q
        PROVE  Apart(Q[p], Q[q])
    <3>1. CASE p = name \/ q = name
      BY ZenonT(60), <1>1, <3>1 DEF Apart, Plain
    <3>2. CASE p # name /\ q # name
      <4>1. w \in DOMAIN V /\ p \in V[w] /\ q \in V[w] /\ p \in DOMAIN P /\ q \in DOMAIN P
        BY <1>2, <2>2, <3>2 DEF OK, PlacesOK
      <4>. QED BY ZenonT(60), <1>1, <2>2, <4>1 DEF OK, AddressesOK
    <3>. QED BY ZenonT(60), <3>1, <3>2
  <2>. QED BY ZenonT(60), <2>1, <2>2 DEF AddressesOK
<1>. QED BY ZenonT(60), <1>4, <1>5, <1>6, <1>7 DEF OK, Q, W

(* An interface that is not hardware is added; its port is still missing. *)
LEMMA InterfaceAdded ==
  ASSUME NEW X, NEW I, NEW P, NEW B, NEW V, OK(X, I, P, B, V), PortsConstants,
         NEW name \in Subs \cup Loopbacks \cup Vlans, name \notin DOMAIN I, NEW up,
         name \in Subs => Parent(name) \in LagMembers \/ Parent(name) \in DOMAIN P \ B
  PROVE  OK(X \cup {name}, Put(I, name, NewInterface(IF name \in Subs THEN {Parent(name)} ELSE {}, up)), P, B, V)
<1> DEFINE row == NewInterface(IF name \in Subs THEN {Parent(name)} ELSE {}, up)
           J == Put(I, name, row)
<1>1. IsInterface(row) /\ row.parent = (IF name \in Subs THEN {Parent(name)} ELSE {}) /\ row.tag = 0
  BY DEF NewInterface, IsInterface
<1>2. IsMap(J) /\ DOMAIN J = DOMAIN I \cup {name} /\ J[name] = row /\ \A k \in DOMAIN I : J[k] = I[k]
  BY ZenonT(60) DEF IsMap, Put
<1>. HIDE DEF J, row
<1>3. RowsOK(J, P)
  BY ZenonT(60), <1>2 DEF OK, RowsOK
<1>4. InterfacesOK(X \cup {name}, J, P, B)
  <2>1. Physical \subseteq DOMAIN J /\ DOMAIN J \subseteq Names
    BY <1>2 DEF OK, InterfacesOK, Names
  <2>2. \A n \in DOMAIN J : IsInterface(J[n]) /\ J[n].parent = IF n \in Subs THEN {Parent(n)} ELSE {}
    BY Zenon, <1>1, <1>2 DEF OK, InterfacesOK
  <2>3. \A n \in DOMAIN J \ Physical : n \in DOMAIN P \cup (X \cup {name})
    BY ZenonT(60), <1>2 DEF OK, InterfacesOK
  <2>4. \A n \in DOMAIN J \cap Subs : Parent(n) \in LagMembers \/ Parent(n) \in (DOMAIN P \cup (X \cup {name})) \ B
    BY ZenonT(60), <1>2 DEF OK, InterfacesOK
  <2>5. \A m, n \in DOMAIN J \cap Subs :
          m # n /\ Parent(m) = Parent(n) /\ J[m].tag # 0 => J[m].tag # J[n].tag
    BY <1>1, <1>2 DEF OK, InterfacesOK
  <2>. QED BY ZenonT(60), <1>2, <2>1, <2>2, <2>3, <2>4, <2>5 DEF InterfacesOK
<1>. QED BY <1>3, <1>4 DEF OK, J, row

(* A row of the interfaces is written: its state, or its tag. *)
LEMMA InterfaceChanged ==
  ASSUME NEW X, NEW I, NEW P, NEW B, NEW V, OK(X, I, P, B, V), NEW name \in DOMAIN I, NEW row,
         IsInterface(row), row.parent = I[name].parent,
         row.tag \in {0, I[name].tag} \/ \A n \in DOMAIN I \ {name} : I[n].parent = I[name].parent => I[n].tag # row.tag
  PROVE  OK(X, [I EXCEPT ![name] = row], P, B, V)
<1> DEFINE J == [I EXCEPT ![name] = row]
<1>1. IsMap(J) /\ DOMAIN J = DOMAIN I /\ J[name] = row /\ \A k \in DOMAIN I : k # name => J[k] = I[k]
  BY ZenonT(60) DEF IsMap, OK, InterfacesOK
<1>. HIDE DEF J
<1>2. RowsOK(J, P)
  BY <1>1 DEF OK, RowsOK
<1>3. InterfacesOK(X, J, P, B)
  <2>1. \A n \in DOMAIN J : IsInterface(J[n]) /\ J[n].parent = IF n \in Subs THEN {Parent(n)} ELSE {}
    BY Zenon, <1>1 DEF OK, InterfacesOK
  <2>2. ASSUME NEW m \in DOMAIN J \cap Subs, NEW n \in DOMAIN J \cap Subs, m # n, Parent(m) = Parent(n), J[m].tag # 0
        PROVE  J[m].tag # J[n].tag
    <3>1. /\ I[m].parent = I[n].parent
          /\ I[m].tag # 0 => I[m].tag # I[n].tag
          /\ I[n].tag # 0 => I[n].tag # I[m].tag
      BY Zenon, <1>1, <2>2 DEF OK, InterfacesOK
    <3>2. CASE m = name
      BY ZenonT(60), <1>1, <2>2, <3>1, <3>2
    <3>3. CASE n = name
      BY ZenonT(60), <1>1, <2>2, <3>1, <3>3
    <3>4. CASE m # name /\ n # name
      BY <1>1, <2>2, <3>1, <3>4
    <3>. QED BY <3>2, <3>3, <3>4
  <2>. QED BY Zenon, <1>1, <2>1, <2>2 DEF OK, InterfacesOK
<1>. QED BY <1>2, <1>3 DEF OK, J

(* A VRF is added. *)
LEMMA VrfAdded ==
  ASSUME NEW X, NEW I, NEW P, NEW B, NEW V, OK(X, I, P, B, V), NEW v, v \notin DOMAIN V
  PROVE  OK(X, I, P, B, Put(V, v, {}))
<1> DEFINE W == Put(V, v, {})
<1>1. IsMap(W) /\ DOMAIN W = DOMAIN V \cup {v} /\ W[v] = {} /\ \A w \in DOMAIN V : W[w] = V[w]
  BY ZenonT(60) DEF IsMap, Put
<1>. HIDE DEF W
<1>2. PlacesOK(P, B, W)
  BY ZenonT(60), <1>1 DEF OK, PlacesOK
<1>3. AddressesOK(P, B, W)
  BY ZenonT(60), <1>1 DEF OK, AddressesOK
<1>. QED BY ZenonT(60), <1>2, <1>3 DEF OK, W

(* A VRF is deleted, and its ports are plain ports of the default VRF. *)
LEMMA VrfDeleted ==
  ASSUME NEW X, NEW I, NEW P, NEW B, NEW V, OK(X, I, P, B, V), NEW v \in DOMAIN V, v # DefaultVrf,
         V[v] \cap B = {}
  PROVE  OK(X, I, [p \in DOMAIN P |-> IF p \in V[v] THEN NewPort(P[p].ifs) ELSE P[p]], B,
            Drop([V EXCEPT ![DefaultVrf] = @ \cup V[v]], v))
<1> DEFINE Q == [p \in DOMAIN P |-> IF p \in V[v] THEN NewPort(P[p].ifs) ELSE P[p]]
           W == Drop([V EXCEPT ![DefaultVrf] = @ \cup V[v]], v)
<1>1. /\ IsMap(Q) /\ DOMAIN Q = DOMAIN P
      /\ \A p \in DOMAIN P : p \in V[v] => Q[p] = NewPort(P[p].ifs)
      /\ \A p \in DOMAIN P : p \notin V[v] => Q[p] = P[p]
  BY ZenonT(60) DEF IsMap
<1>2. /\ IsMap(W) /\ DOMAIN W = DOMAIN V \ {v} /\ DefaultVrf \in DOMAIN W
      /\ W[DefaultVrf] = V[DefaultVrf] \cup V[v]
      /\ \A w \in DOMAIN W : w # DefaultVrf => W[w] = V[w]
  BY SMTT(60) DEF IsMap, Drop, OK, PlacesOK
<1>. HIDE DEF Q, W
<1>3. \A p \in DOMAIN P : p \in V[v] => IsPort(Q[p]) /\ Q[p].ifs = P[p].ifs /\ Plain(Q[p])
  BY ZenonT(60), <1>1, NewPortPlain
<1>4. PlacesOK(Q, B, W)
  <2>. USE DEF OK, PlacesOK
  <2>1. \A w \in DOMAIN W : W[w] \subseteq DOMAIN Q
    BY ZenonT(60), <1>1, <1>2
  <2>2. \A u, w \in DOMAIN W : \A p \in W[u] : p \in W[w] => u = w
    BY ZenonT(60), <1>2
  <2>3. \A p \in DOMAIN Q : p \in B \/ \E w \in DOMAIN W : p \in W[w]
    <3> TAKE p \in DOMAIN Q
    <3>1. CASE p \in V[v]
      BY ZenonT(60), <1>2, <3>1
    <3>2. CASE p \notin V[v] /\ p \notin B
      <4>1. PICK w \in DOMAIN V : p \in V[w]
        BY ZenonT(60), <1>1, <3>2
      <4>2. w \in DOMAIN W /\ p \in W[w]
        BY ZenonT(60), <1>2, <3>2, <4>1
      <4>. QED BY ZenonT(60), <4>2
    <3>. QED BY <3>1, <3>2
  <2>4. \A p \in B \ Vlans : \A w \in DOMAIN W : p \notin W[w]
    BY ZenonT(60), <1>2
  <2>. QED BY ZenonT(60), <1>1, <1>2, <2>1, <2>2, <2>3, <2>4
<1>5. RowsOK(I, Q)
  BY ZenonT(60), <1>1, <1>3 DEF OK, RowsOK
<1>6. InterfacesOK(X, I, Q, B)
  BY ZenonT(60), <1>1 DEF OK, InterfacesOK
<1>7. AddressesOK(Q, B, W)
  <2>1. \A p \in B \ Vlans : Plain(Q[p])
    BY <1>1 DEF OK, AddressesOK, PlacesOK
  <2>2. ASSUME NEW w \in DOMAIN W, NEW p \in W[w] \ {Lag}, NEW q \in W[w] \ {Lag}, p # q
        PROVE  Apart(Q[p], Q[q])
    <3>1. p \in DOMAIN P /\ q \in DOMAIN P
      BY ZenonT(60), <1>1, <1>4 DEF PlacesOK
    <3>2. CASE p \in V[v] \/ q \in V[v]
      BY ZenonT(60), <1>3, <3>1, <3>2 DEF Apart, Plain
    <3>3. CASE p \notin V[v] /\ q \notin V[v]
      <4>1. w \in DOMAIN V /\ p \in V[w] /\ q \in V[w]
        BY ZenonT(60), <1>2, <2>2, <3>3
      <4>. QED BY ZenonT(60), <1>1, <2>2, <3>1, <3>3, <4>1 DEF OK, AddressesOK
    <3>. QED BY ZenonT(60), <3>2, <3>3
  <2>. QED BY ZenonT(60), <2>1, <2>2 DEF AddressesOK
<1>. QED BY ZenonT(60), <1>4, <1>5, <1>6, <1>7 DEF OK, Q, W

(* The LAG's port appears, in the bridge or in a VRF. *)
LEMMA LagSwitched ==
  ASSUME NEW X, NEW I, NEW P, NEW B, NEW V, OK(X, I, P, B, V), PortsConstants,
         NEW i \in LagMembers \ DOMAIN P, Lag \notin DOMAIN P
  PROVE  OK(X, I, Put(P, Lag, NewPort({i})), B \cup {Lag}, V)
<1> DEFINE row == NewPort({i})
           Q == Put(P, Lag, row)
           C == B \cup {Lag}
<1>1. IsMap(Q) /\ DOMAIN Q = DOMAIN P \cup {Lag} /\ Q[Lag] = row /\ \A k \in DOMAIN P : Q[k] = P[k]
  BY ZenonT(60) DEF IsMap, Put
<1>2. IsPort(row) /\ row.ifs = {i} /\ Plain(row)
  BY NewPortPlain
<1>3. Lag \notin Physical /\ Lag \notin Subs /\ Lag \notin Loopbacks /\ Lag \notin Vlans /\ i # Lag
  BY ZenonT(60) DEF PortsConstants
<1>. HIDE DEF Q, row
<1>4. PlacesOK(Q, C, V)
  <2>. USE DEF OK, PlacesOK
  <2>1. \A w \in DOMAIN V : V[w] \subseteq DOMAIN Q /\ Lag \notin V[w]
    BY ZenonT(60), <1>1
  <2>2. \A p \in DOMAIN Q : p \in C \/ \E w \in DOMAIN V : p \in V[w]
    BY ZenonT(60), <1>1
  <2>3. \A p \in C \ Vlans : \A w \in DOMAIN V : p \notin V[w]
    BY SMTT(60), <2>1
  <2>. QED BY ZenonT(60), <1>1, <1>3, <2>1, <2>2, <2>3
<1>5. RowsOK(I, Q)
  BY ZenonT(60), <1>1, <1>2, <1>3 DEF OK, RowsOK
<1>6. InterfacesOK(X, I, Q, C)
  BY ZenonT(60), <1>1, <1>3 DEF OK, InterfacesOK, PortsConstants
<1>7. AddressesOK(Q, C, V)
  <2>1. \A p \in C \ Vlans : Plain(Q[p])
    BY ZenonT(60), <1>1, <1>2 DEF OK, AddressesOK, PlacesOK
  <2>2. \A w \in DOMAIN V : \A p \in V[w] : p \in DOMAIN P
    BY ZenonT(60) DEF OK, PlacesOK
  <2>3. \A w \in DOMAIN V : \A p, q \in V[w] \ {Lag} : p # q => Apart(Q[p], Q[q])
    BY ZenonT(60), <1>1, <2>2 DEF OK, AddressesOK
  <2>. QED BY ZenonT(60), <2>1, <2>3 DEF AddressesOK
<1>. QED BY ZenonT(60), <1>4, <1>5, <1>6, <1>7 DEF OK, Q, row

(* The same in a VRF. *)
LEMMA LagRouted ==
  ASSUME NEW X, NEW I, NEW P, NEW B, NEW V, OK(X, I, P, B, V), PortsConstants,
         NEW i \in LagMembers \ DOMAIN P, Lag \notin DOMAIN P, NEW v \in DOMAIN V
  PROVE  OK(X, I, Put(P, Lag, NewPort({i})), B, Attach(V, v, Lag))
<1> DEFINE row == NewPort({i})
           Q == Put(P, Lag, row)
           W == Attach(V, v, Lag)
<1>1. IsMap(Q) /\ DOMAIN Q = DOMAIN P \cup {Lag} /\ Q[Lag] = row /\ \A k \in DOMAIN P : Q[k] = P[k]
  BY ZenonT(60) DEF IsMap, Put
<1>2. IsPort(row) /\ row.ifs = {i} /\ Plain(row)
  BY ZenonT(60), NewPortPlain
<1>3. Lag \notin Physical /\ Lag \notin Subs /\ Lag \notin Loopbacks /\ Lag \notin Vlans /\ i # Lag
  BY DEF PortsConstants
<1>4. /\ IsMap(W) /\ DOMAIN W = DOMAIN V /\ W[v] = V[v] \cup {Lag}
      /\ \A w \in DOMAIN V : w # v => W[w] = V[w]
  BY SMTT(60) DEF IsMap, Attach, OK, PlacesOK
<1>. HIDE DEF Q, W, row
<1>5. PlacesOK(Q, B, W)
  <2>. USE DEF OK, PlacesOK
  <2>1. \A w \in DOMAIN W : W[w] \subseteq DOMAIN Q
    BY ZenonT(60), <1>1, <1>4
  <2>2. \A u, w \in DOMAIN W : \A p \in W[u] : p \in W[w] => u = w
    BY SMTT(60), <1>4
  <2>3. \A p \in DOMAIN Q : p \in B \/ \E w \in DOMAIN W : p \in W[w]
    BY ZenonT(60), <1>1, <1>4
  <2>4. \A p \in B \ Vlans : \A w \in DOMAIN W : p \notin W[w]
    BY SMTT(60), <1>4
  <2>. QED BY ZenonT(60), <1>1, <1>3, <1>4, <2>1, <2>2, <2>3, <2>4
<1>6. RowsOK(I, Q)
  BY <1>1, <1>2, <1>3 DEF OK, RowsOK
<1>7. InterfacesOK(X, I, Q, B)
  BY Zenon, <1>1, <1>3 DEF OK, InterfacesOK
<1>8. AddressesOK(Q, B, W)
  <2>1. \A p \in B \ Vlans : Plain(Q[p])
    BY ZenonT(60), <1>1 DEF OK, AddressesOK, PlacesOK
  <2>2. \A w \in DOMAIN V : \A p \in V[w] : p \in DOMAIN P
    BY ZenonT(60) DEF OK, PlacesOK
  <2>3. \A w \in DOMAIN W : \A p \in W[w] \ {Lag} : w \in DOMAIN V /\ p \in V[w] \ {Lag}
    BY ZenonT(60), <1>4
  <2>4. \A w \in DOMAIN W : \A p, q \in W[w] \ {Lag} : p # q => Apart(Q[p], Q[q])
    BY <1>1, <2>2, <2>3 DEF OK, AddressesOK
  <2>. QED BY ZenonT(60), <2>1, <2>4 DEF AddressesOK
<1>. QED BY ZenonT(60), <1>5, <1>6, <1>7, <1>8 DEF OK, Q, W, row

(* An interface joins the LAG. *)
LEMMA LagGrown ==
  ASSUME NEW X, NEW I, NEW P, NEW B, NEW V, OK(X, I, P, B, V), PortsConstants,
         NEW i \in LagMembers \ DOMAIN P, Lag \in DOMAIN P
  PROVE  OK(X, I, [P EXCEPT ![Lag] = [P[Lag] EXCEPT !.ifs = P[Lag].ifs \cup {i}]], B, V)
<1> DEFINE row == [P[Lag] EXCEPT !.ifs = P[Lag].ifs \cup {i}]
           Q == [P EXCEPT ![Lag] = row]
<1>1. IsPort(row) /\ row.ifs = P[Lag].ifs \cup {i} /\ AddressesOf(row) = AddressesOf(P[Lag]) /\ row.arp = P[Lag].arp
  BY SMTT(60) DEF OK, RowsOK, IsPort, AddressesOf
<1>2. IsMap(Q) /\ DOMAIN Q = DOMAIN P /\ Q[Lag] = row /\ \A k \in DOMAIN P : k # Lag => Q[k] = P[k]
  BY DEF IsMap
<1>. HIDE DEF Q, row
<1>3. PlacesOK(Q, B, V)
  BY ZenonT(60), <1>2 DEF OK, PlacesOK
<1>4. RowsOK(I, Q)
  BY ZenonT(60), <1>1, <1>2 DEF OK, RowsOK
<1>5. InterfacesOK(X, I, Q, B)
  BY ZenonT(60), <1>2 DEF OK, InterfacesOK
<1>6. AddressesOK(Q, B, V)
  <2>1. \A p \in B \ Vlans : Plain(Q[p])
    BY ZenonT(60), <1>1, <1>2 DEF OK, AddressesOK, PlacesOK, Plain
  <2>2. \A w \in DOMAIN V : \A p \in V[w] : p \in DOMAIN P
    BY ZenonT(60) DEF OK, PlacesOK
  <2>3. \A w \in DOMAIN V : \A p, q \in V[w] \ {Lag} : p # q => Apart(Q[p], Q[q])
    BY <1>2, <2>2 DEF OK, AddressesOK
  <2>. QED BY ZenonT(60), <2>1, <2>3 DEF AddressesOK
<1>. QED BY <1>3, <1>4, <1>5, <1>6 DEF OK, Q, row

-------------------------------------------------------------------------------
(* The tables d are these. *)
Are(d, I, P, B, V) == IsDb(d) /\ d.intf = I /\ d.port = P /\ d.bridge = B /\ d.vrf = V

(* They satisfy the invariant when the parts do. *)
LEMMA Written ==
  ASSUME NEW d, NEW I, NEW P, NEW B, NEW V, Are(d, I, P, B, V), OK({}, I, P, B, V)
  PROVE  DbOK({}, d)
BY ZenonT(60) DEF DbOK, Are

(* The port that carries an interface is its own, or the LAG's. *)
LEMMA Carrier ==
  ASSUME NEW X, NEW I, NEW P, NEW B, NEW V, OK(X, I, P, B, V), PortsConstants,
         NEW name \in Names, NEW p \in DOMAIN P, p = name \/ name \in P[p].ifs
  PROVE  \/ p = name
         \/ p = Lag /\ name \in LagMembers /\ name \notin DOMAIN P /\ name \in P[Lag].ifs
BY ZenonT(60) DEF OK, RowsOK, PortsConstants, Names

(* port_check_and_add with a reference to the default VRF, and without. *)
AddedAttached(tables, name) == port_check_and_add(tables, name, TRUE)

AddedOnly(tables, name) == port_check_and_add(tables, name, FALSE)

(* port_check_and_add, when the interface has no port: what it writes. *)
LEMMA PortMade ==
  ASSUME NEW d, IsDb(d), NEW name, ~ \E p \in DOMAIN d.port : p = name \/ name \in d.port[p].ifs
  PROVE  /\ Are(AddedAttached(d, name), d.intf, Put(d.port, name, NewPort({name})), d.bridge,
                Attach(d.vrf, DefaultVrf, name))
         /\ Are(AddedOnly(d, name), d.intf, Put(d.port, name, NewPort({name})), d.bridge, d.vrf)
<1> DEFINE Q == Put(d.port, name, NewPort({name}))
           W == Attach(d.vrf, DefaultVrf, name)
           a == [d EXCEPT !.port = Q, !.vrf = W]
           b == [d EXCEPT !.port = Q, !.vrf = d.vrf]
<1>1. AddedAttached(d, name) = a /\ AddedOnly(d, name) = b
  BY DEF port_check_and_add, AddedAttached, AddedOnly
<1>. HIDE DEF Q, W
<1>2. Are(a, d.intf, Q, d.bridge, W)
  BY Zenon DEF IsDb, Are
<1>3. Are(b, d.intf, Q, d.bridge, d.vrf)
  BY Zenon DEF IsDb, Are
<1>. HIDE DEF a, b
<1>. QED BY <1>1, <1>2, <1>3 DEF Q, W

(* The same, from the invariant. *)
LEMMA PortAdded ==
  ASSUME DbOK({}, db), PortsConstants, NEW name \in DOMAIN db.intf, port_check(name) = {}
  PROVE  /\ name \notin Ports /\ name \notin Vlans
         /\ Lag \in Ports => name \notin db.port[Lag].ifs
         /\ DbOK({}, AddedAttached(db, name))
<1> DEFINE I == db.intf
           P == db.port
           B == db.bridge
           V == db.vrf
           new == AddedAttached(db, name)
<1>1. OK({}, I, P, B, V) /\ IsDb(db)
  BY DEF DbOK
<1>2. /\ name \notin Ports /\ (Lag \in Ports => name \notin P[Lag].ifs)
      /\ ~ \E p \in DOMAIN P : p = name \/ name \in P[p].ifs
  BY ZenonT(60) DEF port_check, Ports, Carries
<1>3. name \notin Vlans
  BY ZenonT(60), <1>1, <1>2 DEF OK, InterfacesOK, Ports, PortsConstants
<1>4. Are(new, I, Put(P, name, NewPort({name})), B, Attach(V, DefaultVrf, name))
  BY ZenonT(60), <1>1, <1>2, PortMade
<1>5. DefaultVrf \in DOMAIN V
  BY ZenonT(60), <1>1 DEF OK, PlacesOK
<1>6. OK({} \ {name}, I, Put(P, name, NewPort({name})), B, Attach(V, DefaultVrf, name))
  BY ZenonT(60), <1>1, <1>2, <1>3, <1>5, NewPortPlain, AddedRouted DEF Ports
<1>7. {} \ {name} = {}
  OBVIOUS
<1>. HIDE DEF new
<1>8. DbOK({}, new)
  BY <1>4, <1>6, <1>7, Written
<1>. QED BY <1>2, <1>3, <1>8 DEF new

(* port_check_and_add, when it has one. *)
LEMMA PortFound ==
  ASSUME NEW name, port_check(name) # {}
  PROVE  AddedAttached(db, name) = db /\ AddedOnly(db, name) = db
BY ZenonT(60) DEF port_check, port_check_and_add, Ports, Carries, AddedAttached, AddedOnly

(* port_check_and_add keeps the invariant and the ports there are. *)
LEMMA PortCheckedAndAdded ==
  ASSUME DbOK({}, db), PortsConstants, NEW name \in DOMAIN db.intf
  PROVE  LET added == AddedAttached(db, name)
         IN  /\ DbOK({}, added) /\ added.intf = db.intf /\ added.bridge = db.bridge
             /\ DOMAIN added.port \in {Ports, Ports \cup {name}} /\ \A p \in Ports : added.port[p] = db.port[p]
             /\ \E p \in DOMAIN added.port : p = name \/ name \in added.port[p].ifs
             /\ \A p \in Vlans : p = name => p \in Ports
<1> DEFINE added == AddedAttached(db, name)
<1>1. CASE port_check(name) # {}
  <2>1. added = db
    BY ZenonT(60), <1>1, PortFound
  <2>2. name \in Vlans => name \in Ports
    BY ZenonT(60) DEF DbOK, OK, InterfacesOK, PortsConstants, Ports
  <2>. QED BY ZenonT(60), <1>1, <2>1, <2>2 DEF port_check, Ports, Carries
<1>2. CASE port_check(name) = {}
  <2>1. DbOK({}, added) /\ name \notin Vlans /\ name \notin Ports
    BY ZenonT(60), <1>2, PortAdded
  <2>2. /\ added.port = Put(db.port, name, NewPort({name})) /\ added.intf = db.intf
        /\ added.bridge = db.bridge
    BY ZenonT(60), <1>2, PortMade DEF port_check, Ports, Carries, DbOK, Are
  <2>. HIDE DEF added
  <2>3. DOMAIN added.port = Ports \cup {name} /\ \A p \in Ports : added.port[p] = db.port[p]
    BY ZenonT(60), <2>1, <2>2 DEF Put, Ports
  <2>4. \E p \in DOMAIN added.port : p = name \/ name \in added.port[p].ifs
    BY <2>3
  <2>5. \A p \in Vlans : p = name => p \in Ports
    BY ZenonT(60), <2>1
  <2>. QED BY ZenonT(60), <2>1, <2>2, <2>3, <2>4, <2>5 DEF added
<1>. QED BY ZenonT(60), <1>1, <1>2

(* The port that carries an interface is deleted and made again in a VRF. *)
LEMMA RenewedRouted ==
  ASSUME NEW I, NEW P, NEW B, NEW V, OK({}, I, P, B, V), PortsConstants,
         NEW name \in DOMAIN I \ Vlans, NEW p \in DOMAIN P, p = name \/ name \in P[p].ifs,
         NEW v \in DOMAIN V
  PROVE  OK({}, I, Put(Drop(P, p), name, NewPort({name})), B \ {p}, Attach(Detach(V, p), v, name))
<1> DEFINE Q == Drop(P, p)
           C == B \ {p}
           W == Detach(V, p)
<1>1. /\ IsMap(I) /\ name \in Names
      /\ \/ p = name
         \/ p = Lag /\ name \in LagMembers /\ name \notin DOMAIN P /\ name \in P[Lag].ifs
  BY Zenon, Carrier DEF OK, InterfacesOK
<1>2. /\ IsMap(Q) /\ DOMAIN Q = DOMAIN P \ {p} /\ \A n \in DOMAIN Q : Q[n] = P[n]
      /\ IsMap(W) /\ DOMAIN W = DOMAIN V /\ \A w \in DOMAIN V : W[w] = V[w] \ {p}
  BY ZenonT(60) DEF Drop, Detach, IsMap
<1>. HIDE DEF Q, W
<1>3. OK({} \cup {p}, I, Q, C, W)
  <2>1. Restricts(I, I, {}) /\ Restricts(Q, P, {p}) /\ Leaves(W, V, {p})
    BY ZenonT(60), <1>1, <1>2 DEF Restricts, Leaves
  <2>2. {} \subseteq Subs \cup Loopbacks \cup Vlans /\ {} \cap DOMAIN P \subseteq {p}
    OBVIOUS
  <2>. QED BY ZenonT(60), <2>1, <2>2, Removed
<1>4. {} \cup {p} = {p}
  OBVIOUS
<1>5. OK({p}, I, Q, C, W)
  BY ZenonT(60), <1>3, <1>4
<1>. HIDE DEF C
<1>6. name \notin DOMAIN Q /\ (Lag \in DOMAIN Q => name \notin Q[Lag].ifs)
  BY ZenonT(60), <1>1, <1>2 DEF OK, RowsOK
<1>7. OK({p} \ {name}, I, Put(Q, name, NewPort({name})), C, Attach(W, v, name))
  BY ZenonT(60), <1>2, <1>5, <1>6, NewPortPlain, AddedRouted
<1>8. \A x \in {p} \ {name} : x \notin DOMAIN I \ Physical /\ \A n \in DOMAIN I \cap Subs : Parent(n) = x => x \in LagMembers
  BY ZenonT(60), <1>1 DEF OK, InterfacesOK, PortsConstants, Names
<1>9. OK({}, I, Put(Q, name, NewPort({name})), C, Attach(W, v, name))
  BY <1>7, <1>8, Settled
<1>. QED BY <1>9 DEF Q, W, C

(* A port that is in no VRF leaves none. *)
LEMMA DetachNone ==
  ASSUME NEW V, IsMap(V), NEW p, \A v \in DOMAIN V : p \notin V[v]
  PROVE  Detach(V, p) = V
<1>1. \A v \in DOMAIN V : V[v] \ {p} = V[v]
  OBVIOUS
<1>. QED BY <1>1 DEF Detach, IsMap

(* No other port than p carries the interface. *)
Alone(P, name, p) == \A q \in DOMAIN P : q = name \/ name \in P[q].ifs => q = p

(* One port at most carries an interface. *)
LEMMA OneCarrier ==
  ASSUME NEW I, NEW P, NEW B, NEW V, OK({}, I, P, B, V), PortsConstants,
         NEW name \in DOMAIN I, NEW p \in DOMAIN P, p = name \/ name \in P[p].ifs
  PROVE  Alone(P, name, p)
<1>1. name \in Names
  BY ZenonT(60) DEF OK, InterfacesOK
<1>. QED BY ZenonT(60), <1>1, Carrier DEF Alone

(* Renewed with a reference to the default VRF, and without. *)
RenewedAttached(tables, p, name) == Renewed(tables, p, name, TRUE)

RenewedOnly(tables, p, name) == Renewed(tables, p, name, FALSE)

(* What the two make of the tables. *)
LEMMA RenewedRow ==
  ASSUME NEW d, NEW I, NEW P, NEW B, NEW V, Are(d, I, P, B, V), NEW name, NEW p, Alone(P, name, p)
  PROVE  /\ Are(RenewedOnly(d, p, name), I, Put(Drop(P, p), name, NewPort({name})), B, V)
         /\ Are(RenewedAttached(d, p, name), I, Put(Drop(P, p), name, NewPort({name})), B,
                Attach(V, DefaultVrf, name))
<1> DEFINE Q == Drop(P, p)
           e == [d EXCEPT !.port = Q]
<1>1. DOMAIN Q = DOMAIN P \ {p} /\ \A n \in DOMAIN Q : Q[n] = P[n]
  BY DEF Drop
<1>2. /\ RenewedOnly(d, p, name) = AddedOnly(e, name)
      /\ RenewedAttached(d, p, name) = AddedAttached(e, name)
  BY DEF Are, Renewed, RenewedOnly, RenewedAttached, AddedOnly, AddedAttached
<1>. HIDE DEF Q
<1>3. Are(e, I, Q, B, V)
  BY ZenonT(60) DEF Are, IsDb
<1>. HIDE DEF e
<1>4. IsDb(e) /\ ~ \E q \in DOMAIN e.port : q = name \/ name \in e.port[q].ifs
  BY ZenonT(60), <1>1, <1>3 DEF Are, Alone
<1>5. /\ Are(AddedAttached(e, name), e.intf, Put(e.port, name, NewPort({name})), e.bridge,
             Attach(e.vrf, DefaultVrf, name))
      /\ Are(AddedOnly(e, name), e.intf, Put(e.port, name, NewPort({name})), e.bridge, e.vrf)
  BY ZenonT(60), <1>4, PortMade
<1>6. e.intf = I /\ e.port = Q /\ e.bridge = B /\ e.vrf = V
  BY <1>3 DEF Are
<1>. QED BY <1>2, <1>5, <1>6 DEF Q

(* A port's row is written, without more addresses. *)
LEMMA PortWritten ==
  ASSUME NEW d, DbOK({}, d), NEW p \in DOMAIN d.port, NEW row, IsPort(row), row.ifs = d.port[p].ifs,
         AddressesOf(row) \subseteq AddressesOf(d.port[p]), p \in d.bridge \ Vlans => row.arp = d.port[p].arp
  PROVE  DbOK({}, [d EXCEPT !.port[p] = row])
<1> DEFINE P == d.port
           Q == [P EXCEPT ![p] = row]
<1>1. p \in d.bridge \ Vlans => Plain(row)
  BY ZenonT(60) DEF DbOK, OK, AddressesOK, Plain
<1>2. p # Lag => \A v \in DOMAIN d.vrf : p \in d.vrf[v] => \A q \in d.vrf[v] \ {Lag, p} : Apart(row, P[q])
  BY ZenonT(60) DEF DbOK, OK, AddressesOK, Apart
<1>3. OK({}, d.intf, Q, d.bridge, d.vrf)
  BY <1>1, <1>2, RowChanged DEF DbOK
<1> DEFINE new == [d EXCEPT !.port[p] = row]
<1>4. Are(new, d.intf, Q, d.bridge, d.vrf)
  BY ZenonT(60) DEF DbOK, IsDb, Are
<1>. HIDE DEF new
<1>5. DbOK({}, new)
  BY <1>3, <1>4, Written
<1>. QED BY SMTT(60), <1>5 DEF new

(* An address of a port is removed. *)
LEMMA AddressErased ==
  ASSUME NEW d, DbOK({}, d), NEW p \in DOMAIN d.port, NEW f \in Families, NEW a, NEW secondary \in BOOLEAN
  PROVE  DbOK({}, [d EXCEPT !.port[p] = DelAddress(@, f, a, secondary)])
<1> DEFINE row == DelAddress(d.port[p], f, a, secondary)
<1>1. IsPort(d.port[p])
  BY ZenonT(60) DEF DbOK, OK, RowsOK
<1>2. IsPort(row) /\ row.ifs = d.port[p].ifs /\ row.arp = d.port[p].arp /\ AddressesOf(row) \subseteq AddressesOf(d.port[p])
  BY <1>1, AddressDeleted
<1>. HIDE DEF row
<1>3. DbOK({}, [d EXCEPT !.port[p] = row])
  BY <1>2, PortWritten
<1>. QED BY ZenonT(60), <1>3 DEF row

(* An address is given to a routed port. *)
LEMMA AddressWritten ==
  ASSUME NEW d, DbOK({}, d), NEW p \in DOMAIN d.port, p \notin d.bridge \ Vlans, NEW a,
         p # Lag => is_ip_configurable(d, p, a), NEW f \in Families, NEW secondary \in BOOLEAN
  PROVE  DbOK({}, [d EXCEPT !.port[p] = SetAddress(@, f, a, secondary)])
<1> DEFINE P == d.port
           row == SetAddress(P[p], f, a, secondary)
           Q == [P EXCEPT ![p] = row]
<1>1. IsPort(P[p])
  BY ZenonT(60) DEF DbOK, OK, RowsOK
<1>2. IsPort(row) /\ row.ifs = P[p].ifs /\ AddressesOf(row) \subseteq AddressesOf(P[p]) \cup {a}
  BY SMTT(60), <1>1, AddressSet
<1>. HIDE DEF row
<1>3. ASSUME p # Lag, NEW v \in DOMAIN d.vrf, p \in d.vrf[v], NEW q \in d.vrf[v] \ {Lag, p}
      PROVE  Apart(row, P[q])
  <2>1. Apart(P[p], P[q])
    BY ZenonT(60), <1>3 DEF DbOK, OK, AddressesOK
  <2>2. \A b \in AddressesOf(P[q]) : Addresses[a] # Addresses[b]
    BY ZenonT(60), <1>3 DEF is_ip_configurable
  <2>. QED BY ZenonT(60), <1>2, <2>1, <2>2 DEF Apart
<1>4. OK({}, d.intf, Q, d.bridge, d.vrf)
  BY <1>2, <1>3, RowChanged DEF DbOK
<1> DEFINE new == [d EXCEPT !.port[p] = row]
<1>5. Are(new, d.intf, Q, d.bridge, d.vrf)
  BY ZenonT(60) DEF DbOK, IsDb, Are
<1>. HIDE DEF new
<1>6. DbOK({}, new)
  BY <1>4, <1>5, Written
<1>. QED BY ZenonT(60), <1>6 DEF row, new

-------------------------------------------------------------------------------
(* The commands of vrf_vty.c.  First, a new VRF. *)
LEMMA VrfAddKeeps ==
  ASSUME PortsConstants, PortsInv, NEW v, vrf_add(v) PROVE PortsInv'
<1> DEFINE V == Put(db.vrf, v, {})
           new == [db EXCEPT !.vrf = V]
<1>1. CASE db' = db
  BY <1>1 DEF PortsInv
<1>2. CASE db' # db
  <2>1. db' = new /\ v \notin DOMAIN db.vrf
    BY <1>2 DEF vrf_add, VrfFound, START_DB_TXN, Abort, cli_do_config_finish, Finish, Crash
  <2>2. OK({}, db.intf, db.port, db.bridge, V)
    BY <2>1, VrfAdded DEF PortsInv, DbOK
  <2>. HIDE DEF V
  <2>3. Are(new, db.intf, db.port, db.bridge, V)
    BY DEF PortsInv, DbOK, IsDb, Are
  <2>. QED BY <2>1, <2>2, <2>3, Written DEF PortsInv
<1>. QED BY <1>1, <1>2

(* A VRF is deleted. *)
LEMMA VrfDeleteKeeps ==
  ASSUME PortsConstants, PortsInv, NEW v, vrf_delete(v) PROVE PortsInv'
<1> DEFINE moved == db.vrf[v]
           P == [p \in Ports |-> IF p \in moved THEN NewPort(db.port[p].ifs) ELSE db.port[p]]
           V == Drop([db.vrf EXCEPT ![DefaultVrf] = @ \cup moved], v)
           new == [db EXCEPT !.vrf = V, !.port = P]
<1>1. CASE db' = db
  BY <1>1 DEF PortsInv
<1>2. CASE db' # db
  <2>1. db' = new /\ v \in DOMAIN db.vrf /\ v # DefaultVrf /\ moved \cap db.bridge = {}
    BY <1>2 DEF vrf_delete, VrfFound, START_DB_TXN, Abort, Commit, cli_do_config_finish, Finish, Crash
  <2>2. OK({}, db.intf, P, db.bridge, V)
    BY <2>1, VrfDeleted DEF PortsInv, DbOK, Ports
  <2>. HIDE DEF P, V
  <2>3. Are(new, db.intf, P, db.bridge, V)
    BY Zenon DEF PortsInv, DbOK, IsDb, Are
  <2>. QED BY <2>1, <2>2, <2>3, Written DEF PortsInv
<1>. QED BY <1>1, <1>2

(* An interface moves to a VRF. *)
LEMMA VrfAddPortKeeps ==
  ASSUME PortsConstants, PortsInv, NEW name, NEW v, vrf_add_port(name, v) PROVE PortsInv'
<1> DEFINE added == AddedAttached(db, name)
           left(p) == [added EXCEPT !.vrf = Detach(@, p)]
           renewed(p) == RenewedOnly(left(p), p, name)
           new(p) == [renewed(p) EXCEPT !.vrf = Attach(@, v, name)]
           carriers == {q \in DOMAIN added.port : q = name \/ name \in added.port[q].ifs}
<1>1. CASE db' = db
  BY ZenonT(60), <1>1 DEF PortsInv
<1>2. CASE db' # db
  <2>1. /\ name \in DOMAIN db.intf /\ v \in DOMAIN db.vrf
        /\ \E p \in carriers : p \notin db.bridge /\ db' = new(p)
    BY Zenon, <1>2 DEF vrf_add_port, check_split_iface_conditions, VrfFound, START_DB_TXN, Abort, Commit,
                cli_do_config_finish, Finish, Crash, AddedAttached, RenewedOnly
  <2>2. PICK p \in carriers : p \notin db.bridge /\ db' = new(p)
    BY Zenon, <2>1
  <2>3. DbOK({}, added) /\ added.intf = db.intf /\ added.bridge = db.bridge
    BY Zenon, <2>1, PortCheckedAndAdded DEF PortsInv
  <2>4. v \in DOMAIN added.vrf
    <3>1. CASE port_check(name) # {}
      BY <2>1, <3>1, PortFound
    <3>2. CASE port_check(name) = {}
      <4>1. added.vrf = Attach(db.vrf, DefaultVrf, name)
        BY ZenonT(60), <3>2, PortMade DEF port_check, Ports, Carries, PortsInv, DbOK, Are
      <4>. QED BY <2>1, <4>1 DEF Attach
    <3>. QED BY <3>1, <3>2
  <2>. HIDE DEF added
  <2> DEFINE I == added.intf
             P == added.port
             B == added.bridge
             V == added.vrf
             Q == Put(Drop(P, p), name, NewPort({name}))
             W == Attach(Detach(V, p), v, name)
  <2>5. OK({}, I, P, B, V) /\ IsDb(added)
    BY <2>3 DEF DbOK
  <2>6. p \in DOMAIN P /\ (p = name \/ name \in P[p].ifs) /\ p \notin B /\ name \in DOMAIN I
    BY <2>1, <2>2, <2>3
  <2>7. name \notin Vlans
    <3>1. SUFFICES ASSUME name \in Vlans PROVE FALSE
      OBVIOUS
    <3>2. p = name
      BY ZenonT(60), <2>5, <2>6, <3>1, Carrier DEF PortsConstants, Names
    <3>. QED BY ZenonT(60), <2>5, <2>6, <3>1, <3>2 DEF OK, PlacesOK
  <2>8. OK({}, I, Q, B \ {p}, W) /\ B \ {p} = B
    BY ZenonT(60), <2>4, <2>5, <2>6, <2>7, RenewedRouted
  <2>9. Are(left(p), I, P, B, Detach(V, p)) /\ Alone(P, name, p)
    BY <2>5, <2>6, OneCarrier DEF IsDb, Are
  <2>. HIDE DEF left
  <2>10. Are(renewed(p), I, Q, B, Detach(V, p))
    BY Zenon, <2>9, RenewedRow
  <2>. HIDE DEF renewed, Q
  <2>11. Are(new(p), I, Q, B, W)
    BY <2>10 DEF IsDb, Are
  <2>. HIDE DEF new, W
  <2>. QED BY <2>2, <2>8, <2>11, Written DEF PortsInv
<1>. QED BY <1>1, <1>2

(* An interface leaves a VRF for the default VRF. *)
LEMMA VrfDelPortKeeps ==
  ASSUME PortsConstants, PortsInv, NEW name \in Names, NEW v, vrf_del_port(name, v) PROVE PortsInv'
<1> DEFINE left == [db EXCEPT !.vrf = Detach(@, name)]
           new == RenewedAttached(left, name, name)
           I == db.intf
           P == db.port
           B == db.bridge
           V == db.vrf
           Q == Put(Drop(P, name), name, NewPort({name}))
           W == Attach(Detach(V, name), DefaultVrf, name)
<1>1. CASE db' = db
  BY ZenonT(60), <1>1 DEF PortsInv
<1>2. CASE db' # db
  <2>1. db' = new /\ v \in DOMAIN V /\ name \in V[v] /\ name \notin B
    BY Zenon, <1>2 DEF vrf_del_port, START_DB_TXN, Abort, Commit, cli_do_config_finish, Finish, Crash,
                VrfFound, RenewedAttached
  <2>2. OK({}, I, P, B, V) /\ IsDb(db)
    BY DEF PortsInv, DbOK
  <2>3. name \in DOMAIN P
    BY ZenonT(60), <2>1, <2>2 DEF OK, PlacesOK
  <2>4. name \in DOMAIN I /\ name \notin Vlans /\ DefaultVrf \in DOMAIN V
    BY ZenonT(60), <2>1, <2>2, <2>3 DEF OK, PlacesOK, RowsOK, PortsConstants, Names
  <2>5. OK({}, I, Q, B \ {name}, W) /\ B \ {name} = B
    BY <2>1, <2>2, <2>3, <2>4, RenewedRouted
  <2>6. Are(left, I, P, B, Detach(V, name)) /\ Alone(P, name, name)
    BY ZenonT(60), <2>2, <2>3, <2>4, OneCarrier DEF IsDb, Are
  <2>. HIDE DEF left
  <2>7. Are(new, I, Q, B, W)
    BY <2>6, RenewedRow
  <2>. HIDE DEF new, Q, W
  <2>. QED BY ZenonT(60), <2>1, <2>5, <2>7, Written DEF PortsInv
<1>. QED BY <1>1, <1>2

(* An interface is routed: its port leaves the bridge. *)
LEMMA VrfRoutingKeeps ==
  ASSUME PortsConstants, PortsInv, NEW name \in Physical, vrf_routing(name) PROVE PortsInv'
<1> DEFINE left(p) == [db EXCEPT !.bridge = @ \ {p}]
           new(p) == RenewedAttached(left(p), p, name)
           I == db.intf
           P == db.port
           B == db.bridge
           V == db.vrf
           Q(p) == Put(Drop(P, p), name, NewPort({name}))
           W == Attach(V, DefaultVrf, name)
<1>1. CASE db' = db
  BY ZenonT(60), <1>1 DEF PortsInv
<1>2. CASE db' # db
  <2>1. ~ check_iface_in_vrf(name) /\ \E p \in port_check(name) : db' = new(p)
    BY ZenonT(60), <1>2 DEF vrf_routing, START_DB_TXN, Abort, cli_do_config_finish, Finish, Crash, RenewedAttached
  <2>2. PICK p \in port_check(name) : db' = new(p)
    BY ZenonT(60), <2>1
  <2>3. OK({}, I, P, B, V) /\ IsDb(db)
    BY ZenonT(60) DEF PortsInv, DbOK
  <2>4. /\ p \in DOMAIN P /\ (p = name \/ name \in P[p].ifs) /\ (\A v \in DOMAIN V : p \notin V[v])
        /\ name \in DOMAIN I /\ name \notin Vlans /\ DefaultVrf \in DOMAIN V
    BY ZenonT(60), <2>1, <2>3 DEF port_check, Ports, Carries, check_iface_in_vrf, OK, InterfacesOK, PlacesOK, PortsConstants
  <2>5. Detach(V, p) = V
    BY ZenonT(60), <2>3, <2>4, DetachNone DEF OK, PlacesOK
  <2>6. OK({}, I, Q(p), B \ {p}, W)
    BY <2>3, <2>4, <2>5, RenewedRouted
  <2>7. Are(left(p), I, P, B \ {p}, V) /\ Alone(P, name, p)
    BY Zenon, <2>3, <2>4, OneCarrier DEF IsDb, Are
  <2>. HIDE DEF left
  <2>8. Are(new(p), I, Q(p), B \ {p}, W)
    BY Zenon, <2>7, RenewedRow
  <2>. HIDE DEF new, Q, W
  <2>. QED BY ZenonT(60), <2>2, <2>6, <2>8, Written DEF PortsInv
<1>. QED BY <1>1, <1>2

(* An interface without a port is switched. *)
LEMMA FreshNoRouting ==
  ASSUME PortsConstants, PortsInv, NEW name \in Physical, port_check(name) = {},
         NEW new, new = [AddedOnly(db, name) EXCEPT !.port[name].access = TRUE, !.bridge = @ \cup {name}]
  PROVE  DbOK({}, new)
<1> DEFINE I == db.intf
           P == db.port
           B == db.bridge
           V == db.vrf
           row == NewPort({name})
           access == [row EXCEPT !.access = TRUE]
           added == AddedOnly(db, name)
           Q == Put(P, name, row)
           R == Put(P, name, access)
<1>1. OK({}, I, P, B, V) /\ IsDb(db) /\ name \in DOMAIN I
  BY ZenonT(60) DEF PortsInv, DbOK, OK, InterfacesOK
<1>2. name \notin DOMAIN P /\ (Lag \in DOMAIN P => name \notin P[Lag].ifs)
  BY DEF port_check, Ports, Carries
<1>3. Are(added, I, Q, B, V)
  BY ZenonT(60), <1>1, PortMade DEF port_check, Ports, Carries
<1>4. IsPort(access) /\ access.ifs = {name} /\ Plain(access)
  <2>1. IsPort(row) /\ row.ifs = {name} /\ Plain(row)
    BY NewPortPlain
  <2>. HIDE DEF row
  <2>. QED BY <2>1, AccessPort DEF Plain
<1>5. \A n \in DOMAIN I \cap Subs : Parent(n) = name => name \in LagMembers
  BY <1>1, <1>2 DEF OK, InterfacesOK
<1>6. OK({} \ {name}, I, R, B \cup {name}, V) /\ {} \ {name} = {}
  <2>. HIDE DEF access
  <2>. QED BY <1>1, <1>2, <1>4, <1>5, AddedSwitched
<1>7. [Q EXCEPT ![name] = access] = R /\ Q[name] = row
  <2>. HIDE DEF access, row
  <2>. QED BY Zenon DEF Put
<1>. HIDE DEF added, Q
<1>8. new = [added EXCEPT !.port[name].access = TRUE, !.bridge = B \cup {name}]
  BY <1>3 DEF added, Are
<1>9. Are(new, I, [Q EXCEPT ![name] = [Q[name] EXCEPT !.access = TRUE]], B \cup {name}, V)
  BY ZenonT(60), <1>3, <1>8 DEF Are, IsDb
<1>. QED BY <1>6, <1>7, <1>9, Written

(* A plain row for an interface, and the sub-interfaces of one. *)
Fresh(row, name) == IsPort(row) /\ row.ifs = {name} /\ Plain(row)

SubsOf(I, i) == {n \in DOMAIN I : I[n].parent = {i}}

(* The port that carries a routed interface is made again in the bridge; the
   sub-interfaces of the interface i of that port are gone. *)
LEMMA RenewedSwitched ==
  ASSUME NEW I, NEW P, NEW B, NEW V, OK({}, I, P, B, V), PortsConstants,
         NEW name \in Physical, NEW p \in DOMAIN P \ B, p = name \/ name \in P[p].ifs, NEW i \in P[p].ifs,
         NEW J, Restricts(J, I, SubsOf(I, i)), NEW Q, Restricts(Q, P, SubsOf(I, i) \cup {p}),
         NEW W, Leaves(W, V, SubsOf(I, i) \cup {p}),
         NEW row, Fresh(row, name)
  PROVE  OK({}, J, Put(Q, name, row), B \cup {name}, W)
<1> DEFINE S == SubsOf(I, i)
<1>1. /\ name \in Names /\ name \in DOMAIN I
      /\ \/ p = name
         \/ p = Lag /\ name \in LagMembers /\ name \notin DOMAIN P /\ name \in P[Lag].ifs
  BY ZenonT(60), Carrier DEF OK, InterfacesOK, Names
<1>2. S = {n \in DOMAIN I \cap Subs : Parent(n) = i}
  BY ZenonT(60) DEF OK, InterfacesOK, SubsOf
<1>. HIDE DEF S
<1>3. S \subseteq Subs \cup Loopbacks \cup Vlans /\ S \cap DOMAIN P \subseteq S \cup {p}
  BY ZenonT(60), <1>2
<1>4. OK({} \cup (S \cup {p}), J, Q, B \ (S \cup {p}), W)
  BY ZenonT(60), <1>3, Removed DEF S
<1>5. B \ (S \cup {p}) = B /\ {} \cup (S \cup {p}) = S \cup {p}
  <2>1. B \subseteq Physical \cup Vlans \cup {Lag}
    BY ZenonT(60) DEF OK, PlacesOK
  <2>2. B \cap Subs = {}
    BY Zenon, <2>1 DEF PortsConstants
  <2>. QED BY ZenonT(60), <1>2, <2>2
<1>6. name \notin DOMAIN Q /\ (Lag \in DOMAIN Q => name \notin Q[Lag].ifs)
  BY Zenon, <1>1 DEF Restricts, OK, RowsOK, S
<1>7. \A n \in DOMAIN J \cap Subs : Parent(n) = name => name \in LagMembers
  <2>1. CASE p = name
    <3>1. p # Lag
      BY ZenonT(60), <2>1 DEF PortsConstants
    <3>2. P[p].ifs = {p}
      BY ZenonT(60), <3>1 DEF OK, RowsOK
    <3>3. i = name
      BY ZenonT(60), <2>1, <3>2
    <3>4. DOMAIN J = DOMAIN I \ S
      BY Zenon DEF Restricts, S
    <3>. QED BY ZenonT(60), <1>2, <3>3, <3>4
  <2>2. CASE name \in LagMembers
    BY ZenonT(60), <2>2 DEF PortsConstants
  <2>. QED BY ZenonT(60), <1>1, <2>1, <2>2
<1>8. OK((S \cup {p}) \ {name}, J, Put(Q, name, row), B \cup {name}, W)
  BY ZenonT(60), <1>4, <1>5, <1>6, <1>7, AddedSwitched DEF Fresh
<1>9. \A x \in (S \cup {p}) \ {name} :
        x \notin DOMAIN J \ Physical /\ \A n \in DOMAIN J \cap Subs : Parent(n) = x => x \in LagMembers
  <2>1. DOMAIN J = DOMAIN I \ S /\ DOMAIN I \subseteq Names
    BY ZenonT(60) DEF Restricts, S, OK, InterfacesOK
  <2>2. \A n \in Subs : Parent(n) \in Physical /\ Parent(n) \notin Subs /\ Parent(n) # Lag
    BY ZenonT(60) DEF PortsConstants
  <2>3. Lag \notin Names
    BY ZenonT(60) DEF PortsConstants, Names
  <2>4. S \subseteq Subs
    BY ZenonT(60), <1>2
  <2>5. p # name => p = Lag
    BY ZenonT(60), <1>1
  <2>. QED BY ZenonT(60), <2>1, <2>2, <2>3, <2>4, <2>5
<1>. QED BY Zenon, <1>8, <1>9, Settled

(* An interface is switched: its port leaves its VRF, with the sub-interfaces. *)
LEMMA VrfNoRoutingKeeps ==
  ASSUME PortsConstants, PortsInv, NEW name \in Physical, vrf_no_routing(name) PROVE PortsInv'
<1> DEFINE I == db.intf
           P == db.port
           B == db.bridge
           V == db.vrf
           added == AddedOnly(db, name)
           carriers == {q \in DOMAIN added.port : q = name \/ name \in added.port[q].ifs}
           left(p, i) == [WithoutSubs(added, i) EXCEPT !.vrf = Detach(@, p)]
           new(p, i) == IF port_vrf_lookup(p) = {} THEN added ELSE RenewedOnly(left(p, i), p, name)
           final(p, i) == [new(p, i) EXCEPT !.port[name].access = TRUE, !.bridge = @ \cup {name}]
<1>1. CASE db' = db
  BY SMTT(60), <1>1 DEF PortsInv
<1>2. CASE db' # db
  <2>1. ~ check_iface_in_bridge(name) /\ \E p \in carriers : \E i \in added.port[p].ifs : db' = final(p, i)
    BY Zenon, <1>2 DEF vrf_no_routing, START_DB_TXN, Abort, cli_do_config_finish, Finish, Crash, AddedOnly, RenewedOnly
  <2>2. PICK p \in carriers : \E i \in added.port[p].ifs : db' = final(p, i)
    BY ZenonT(60), <2>1
  <2>3. PICK i \in added.port[p].ifs : db' = final(p, i)
    BY ZenonT(60), <2>2
  <2>4. OK({}, I, P, B, V) /\ IsDb(db) /\ name \in DOMAIN I
    BY ZenonT(60) DEF PortsInv, DbOK, OK, InterfacesOK
  <2>5. CASE port_check(name) = {}
    <3>1. Are(added, I, Put(P, name, NewPort({name})), B, V)
      BY ZenonT(60), <2>4, <2>5, PortMade DEF port_check, Ports, Carries
    <3>2. p = name
      BY ZenonT(60), <2>5, <3>1 DEF port_check, Ports, Carries, Are, Put
    <3>3. port_vrf_lookup(p) = {}
      BY ZenonT(60), <2>4, <2>5, <3>2 DEF port_vrf_lookup, port_check, Ports, Carries, OK, PlacesOK
    <3>4. final(p, i) = [added EXCEPT !.port[name].access = TRUE, !.bridge = @ \cup {name}]
      BY ZenonT(60), <3>3
    <3>. HIDE DEF final
    <3>. QED BY ZenonT(60), <2>3, <2>5, <3>4, FreshNoRouting DEF PortsInv
  <2>6. CASE port_check(name) # {}
    <3>1. added = db
      BY <2>6, PortFound
    <3>2. p \in DOMAIN P \ B /\ (p = name \/ name \in P[p].ifs) /\ i \in P[p].ifs
      BY ZenonT(60), <2>1, <3>1 DEF check_iface_in_bridge, Carries
    <3>3. port_vrf_lookup(p) # {}
      BY ZenonT(60), <2>4, <3>2 DEF port_vrf_lookup, OK, PlacesOK
    <3> DEFINE S == SubsOf(I, i)
               J == [n \in DOMAIN I \ S |-> I[n]]
               Ps == [n \in DOMAIN P \ S |-> P[n]]
               Vs == [v \in DOMAIN V |-> V[v] \ S]
               subs == WithoutSubs(db, i)
               Q == Drop(Ps, p)
               W == Detach(Vs, p)
               row == NewPort({name})
               access == [row EXCEPT !.access = TRUE]
    <3>4. /\ Restricts(J, I, S) /\ Restricts(Q, P, S \cup {p}) /\ Leaves(W, V, S \cup {p})
      <4>1. Restricts(J, I, S)
        BY DEF Restricts, IsMap
      <4>2. Restricts(Q, P, S \cup {p})
        BY ZenonT(60) DEF Restricts, IsMap, Drop
      <4>3. Leaves(W, V, S \cup {p})
        BY DEF Leaves, IsMap, Detach
      <4>. QED BY ZenonT(60), <4>1, <4>2, <4>3
    <3>5. subs = [db EXCEPT !.intf = J, !.port = Ps, !.vrf = Vs]
      BY ZenonT(60) DEF WithoutSubs, SubsOf
    <3>. HIDE DEF S
    <3>6. DOMAIN Ps = DOMAIN P \ S /\ \A n \in DOMAIN Ps : Ps[n] = P[n]
      OBVIOUS
    <3>. HIDE DEF J, Ps, Vs
    <3>7. Are(subs, J, Ps, B, Vs)
      BY ZenonT(60), <2>4, <3>5 DEF Are, IsDb
    <3>8. left(p, i) = [subs EXCEPT !.vrf = Detach(@, p)]
      BY <3>1
    <3>. HIDE DEF subs, left, W
    <3>9. Are(left(p, i), J, Ps, B, W)
      BY ZenonT(60), <3>7, <3>8 DEF Are, IsDb, W
    <3>10. Alone(Ps, name, p)
      <4>1. Alone(P, name, p)
        BY <2>4, <3>2, OneCarrier
      <4>. QED BY ZenonT(60), <3>6, <4>1 DEF Alone
    <3>11. Are(new(p, i), J, Put(Q, name, row), B, W)
      BY Zenon, <3>3, <3>9, <3>10, RenewedRow
    <3>12. Fresh(access, name)
      BY SMTT(60), NewPortPlain, AccessPort DEF Plain, Fresh
    <3>. HIDE DEF Q, new, access
    <3>13. OK({}, J, Put(Q, name, access), B \cup {name}, W)
      BY ZenonT(60), <2>4, <3>2, <3>4, <3>12, RenewedSwitched DEF S
    <3> DEFINE R == Put(Q, name, row)
    <3>14. [R EXCEPT ![name] = access] = Put(Q, name, access) /\ R[name] = row
      <4>. HIDE DEF row
      <4>. QED BY ZenonT(60) DEF Put
    <3>. HIDE DEF R
    <3>15. Are(new(p, i), J, R, B, W)
      BY <3>11 DEF R
    <3>16. Are(final(p, i), J, [R EXCEPT ![name] = [R[name] EXCEPT !.access = TRUE]], B \cup {name}, W)
      BY Zenon, <3>15 DEF Are, IsDb
    <3>. HIDE DEF final
    <3>17. Are(final(p, i), J, Put(Q, name, access), B \cup {name}, W)
      BY <3>14, <3>16 DEF access
    <3>. QED BY ZenonT(60), <2>3, <3>13, <3>17, Written DEF PortsInv
  <2>. QED BY <2>5, <2>6
<1>. QED BY <1>1, <1>2

(* An address is configured on an interface. *)
LEMMA ConfigAddressKeeps ==
  ASSUME PortsConstants, PortsInv, NEW name, NEW f \in Families, NEW a, NEW secondary \in BOOLEAN,
         vrf_config_address(name, f, a, secondary)
  PROVE  PortsInv'
<1> DEFINE added == AddedAttached(db, name)
           carriers == {q \in DOMAIN added.port : q = name \/ name \in added.port[q].ifs}
           new(p) == [added EXCEPT !.port[p] = SetAddress(@, f, a, secondary)]
<1>1. CASE db' = db
  BY <1>1 DEF PortsInv
<1>2. CASE db' # db
  <2>1. /\ name \in DOMAIN db.intf /\ ~ NotL3(name) /\ is_ip_configurable(added, name, a)
        /\ \E p \in carriers : db' = new(p)
    BY Zenon, <1>2 DEF vrf_config_address, check_split_iface_conditions, START_DB_TXN, Abort, Refuse,
                cli_do_config_finish, Finish, Crash, AddedAttached
  <2>2. PICK p \in carriers : db' = new(p)
    BY Zenon, <2>1
  <2>3. /\ DbOK({}, added) /\ added.intf = db.intf /\ added.bridge = db.bridge
        /\ \A q \in Ports : added.port[q] = db.port[q]
    BY Zenon, <2>1, PortCheckedAndAdded DEF PortsInv
  <2>. HIDE DEF added
  <2>4. name \in Names /\ p \in DOMAIN added.port /\ (p = name \/ name \in added.port[p].ifs)
    BY ZenonT(60), <2>1, <2>2 DEF PortsInv, DbOK, OK, InterfacesOK
  <2>5. p = name \/ (p = Lag /\ name \in LagMembers)
    BY SMTT(60), <2>3, <2>4, Carrier DEF DbOK
  <2>6. p \notin added.bridge \ Vlans
    <3>1. SUFFICES ASSUME p \in db.bridge, p \notin Vlans PROVE FALSE
      BY ZenonT(60), <2>3
    <3>2. p \in Ports
      BY ZenonT(60), <3>1 DEF PortsInv, DbOK, OK, PlacesOK, Ports
    <3>3. check_iface_in_bridge(name)
      BY ZenonT(60), <2>3, <2>4, <3>1, <3>2 DEF check_iface_in_bridge, Carries
    <3>4. name \in Vlans
      BY <2>1, <3>3 DEF NotL3, VERIFY_VLAN_IFNAME
    <3>. QED BY ZenonT(60), <2>5, <3>1, <3>4 DEF PortsConstants
  <2>7. p # Lag => is_ip_configurable(added, p, a)
    BY <2>1, <2>5
  <2>8. DbOK({}, new(p))
    BY ZenonT(60), <2>3, <2>4, <2>6, <2>7, AddressWritten
  <2>. QED BY <2>2, <2>8 DEF PortsInv
<1>. QED BY ZenonT(60), <1>1, <1>2

(* An address is removed from an interface. *)
LEMMA DelAddressKeeps ==
  ASSUME PortsInv, NEW name, NEW f \in Families, NEW a, NEW secondary \in BOOLEAN,
         vrf_del_address(name, f, a, secondary)
  PROVE  PortsInv'
<1> DEFINE new(p) == [db EXCEPT !.port[p] = DelAddress(@, f, a, secondary)]
<1>1. CASE db' = db
  BY <1>1 DEF PortsInv
<1>2. CASE db' # db
  <2>1. \E p \in port_check(name) : db' = new(p)
    BY <1>2 DEF vrf_del_address, START_DB_TXN, Abort, cli_do_config_finish, Finish, Crash
  <2>2. PICK p \in Ports : db' = new(p)
    BY Zenon, <2>1 DEF port_check
  <2>3. DbOK({}, new(p))
    BY ZenonT(60), <2>2, AddressErased DEF PortsInv, Ports
  <2>. QED BY <2>2, <2>3 DEF PortsInv
<1>. QED BY <1>1, <1>2

(* Proxy ARP is switched on or off. *)
LEMMA ToggleArpKeeps ==
  ASSUME PortsConstants, PortsInv, NEW name, NEW key, NEW on \in BOOLEAN, ToggleArp(name, key, on)
  PROVE  PortsInv'
<1> DEFINE old == db.port[name]
           arp == IF on THEN old.arp \cup {key} ELSE old.arp \ {key}
           row == [old EXCEPT !.arp = arp]
           new == [db EXCEPT !.port[name] = row]
<1>1. CASE db' = db
  BY <1>1 DEF PortsInv
<1>2. CASE db' # db
  <2>1. name \in Ports /\ ~ NotL3(name) /\ db' = [db EXCEPT !.port[name].arp = arp]
    BY <1>2 DEF ToggleArp, START_DB_TXN, Abort, cli_do_config_finish, Finish, Crash
  <2>2. IsPort(old)
    BY <2>1 DEF PortsInv, DbOK, OK, RowsOK, Ports
  <2>. HIDE DEF arp
  <2>3. IsPort(row) /\ row.ifs = old.ifs /\ AddressesOf(row) = AddressesOf(old)
    BY ZenonT(60), <2>2, OtherSettings
  <2>4. [db EXCEPT !.port[name].arp = arp] = new
    BY <2>1 DEF PortsInv, DbOK, IsDb, OK, PlacesOK, IsMap, Ports
  <2>5. name \notin db.bridge \ Vlans
    BY <2>1 DEF NotL3, check_iface_in_bridge, Carries, VERIFY_VLAN_IFNAME
  <2>. HIDE DEF row
  <2>6. DbOK({}, new)
    BY ZenonT(60), <2>1, <2>3, <2>5, PortWritten DEF PortsInv, Ports
  <2>. QED BY <2>1, <2>4, <2>6 DEF PortsInv
<1>. QED BY <1>1, <1>2

-------------------------------------------------------------------------------
(* The commands of sub_intf_vty.c, loopback_vty.c and vlan_vtysh_utils.c.
   An interface and its port are added. *)
LEMMA InterfaceMade ==
  ASSUME NEW I, NEW P, NEW B, NEW V, OK({}, I, P, B, V), PortsConstants,
         NEW name \in Subs \cup Loopbacks, name \notin DOMAIN P, NEW up,
         name \in Subs => Parent(name) \in LagMembers \/ Parent(name) \in DOMAIN P \ B
  PROVE  OK({}, Put(I, name, NewInterface(IF name \in Subs THEN {Parent(name)} ELSE {}, up)),
            Put(P, name, NewPort({name})), B, Attach(V, DefaultVrf, name))
<1> DEFINE J == Put(I, name, NewInterface(IF name \in Subs THEN {Parent(name)} ELSE {}, up))
<1>1. name \notin DOMAIN I /\ DefaultVrf \in DOMAIN V
  BY ZenonT(60) DEF OK, InterfacesOK, PlacesOK, PortsConstants
<1>2. OK({} \cup {name}, J, P, B, V)
  BY ZenonT(60), <1>1, InterfaceAdded
<1>3. name \in DOMAIN J \ Vlans /\ (Lag \in DOMAIN P => name \notin P[Lag].ifs)
  BY SMTT(60) DEF Put, PortsConstants, OK, RowsOK
<1>. HIDE DEF J
<1>4. OK(({} \cup {name}) \ {name}, J, Put(P, name, NewPort({name})), B, Attach(V, DefaultVrf, name))
  BY ZenonT(60), <1>1, <1>2, <1>3, NewPortPlain, AddedRouted
<1>5. ({} \cup {name}) \ {name} = {}
  OBVIOUS
<1>. QED BY ZenonT(60), <1>4, <1>5 DEF J

(* An interface and its port are removed. *)
LEMMA InterfaceDropped ==
  ASSUME NEW I, NEW P, NEW B, NEW V, OK({}, I, P, B, V), PortsConstants,
         NEW name \in Subs \cup Loopbacks \cup Vlans
  PROVE  OK({}, Drop(I, name), Drop(P, name), B \ {name}, Detach(V, name))
<1> DEFINE J == Drop(I, name)
           Q == Drop(P, name)
           W == Detach(V, name)
<1>1. Restricts(J, I, {name}) /\ Restricts(Q, P, {name}) /\ Leaves(W, V, {name})
  BY Zenon DEF Restricts, Leaves, IsMap, Drop, Detach
<1>. HIDE DEF J, Q, W
<1>2. {name} \subseteq Subs \cup Loopbacks \cup Vlans /\ {name} \cap DOMAIN P \subseteq {name}
  OBVIOUS
<1>3. OK({} \cup {name}, J, Q, B \ {name}, W)
  BY ZenonT(60), <1>1, <1>2, Removed
<1>4. \A x \in {} \cup {name} : x \notin DOMAIN J \ Physical /\ \A n \in DOMAIN J \cap Subs : Parent(n) = x => x \in LagMembers
  BY ZenonT(60), <1>1 DEF Restricts, PortsConstants
<1>5. OK({}, J, Q, B \ {name}, W)
  BY ZenonT(60), <1>3, <1>4, Settled
<1>. QED BY SMTT(60), <1>5 DEF J, Q, W

(* A sub-interface is made. *)
LEMMA CreateSubKeeps ==
  ASSUME PortsConstants, PortsInv, NEW name \in Subs, create_sub_interface(name) PROVE PortsInv'
<1> DEFINE parent == Parent(name)
           added == AddedAttached(db, parent)
           new == [added EXCEPT !.intf = Put(@, name, NewInterface({parent}, FALSE)),
                                !.port = Put(@, name, NewPort({name})),
                                !.vrf = Attach(@, DefaultVrf, name)]
<1>1. CASE db' = db
  BY SMTT(60), <1>1 DEF PortsInv
<1>2. CASE db' # db
  <2>1. name \notin Ports /\ parent \in DOMAIN db.intf /\ ~ check_iface_in_bridge(parent) /\ db' = new
    BY <1>2 DEF create_sub_interface, Refuse, START_DB_TXN, cli_do_config_finish, Finish, Crash, AddedAttached
  <2>2. /\ DbOK({}, added) /\ added.bridge = db.bridge
        /\ DOMAIN added.port \in {Ports, Ports \cup {parent}} /\ (\A p \in Ports : added.port[p] = db.port[p])
        /\ \E p \in DOMAIN added.port : p = parent \/ parent \in added.port[p].ifs
    BY ZenonT(60), <2>1, PortCheckedAndAdded DEF PortsInv
  <2>. HIDE DEF added
  <2> DEFINE I == added.intf
             P == added.port
             B == added.bridge
             V == added.vrf
  <2>3. OK({}, I, P, B, V) /\ IsDb(added)
    BY ZenonT(60), <2>2 DEF DbOK
  <2>4. parent \in Names /\ parent \in Physical /\ name \notin Physical
    BY ZenonT(60) DEF PortsConstants, Names
  <2>5. parent \in LagMembers \/ parent \in DOMAIN P
    BY SMTT(60), <2>2, <2>3, <2>4, Carrier
  <2>6. parent \notin B
    BY <2>1, <2>2 DEF check_iface_in_bridge, Carries
  <2>7. name \notin DOMAIN P
    BY <2>1, <2>2, <2>4
  <2> DEFINE J == Put(I, name, NewInterface({parent}, FALSE))
             Q == Put(P, name, NewPort({name}))
             W == Attach(V, DefaultVrf, name)
  <2>8. OK({}, J, Q, B, W)
    BY Zenon, <2>3, <2>5, <2>6, <2>7, InterfaceMade
  <2>. HIDE DEF J, Q, W
  <2>9. Are(new, J, Q, B, W)
    BY Zenon, <2>3 DEF Are, IsDb, J, Q, W
  <2>. HIDE DEF new
  <2>. QED BY <2>1, <2>8, <2>9, Written DEF PortsInv
<1>. QED BY <1>1, <1>2

(* The tables without an interface and its port. *)
LEMMA Dropped ==
  ASSUME PortsConstants, PortsInv, NEW name \in Subs \cup Loopbacks, NEW new,
         new = [db EXCEPT !.intf = Drop(@, name), !.port = Drop(@, name), !.vrf = Detach(@, name)]
  PROVE  DbOK({}, new)
<1> DEFINE J == Drop(db.intf, name)
           Q == Drop(db.port, name)
           B == db.bridge
           W == Detach(db.vrf, name)
<1>1. OK({}, J, Q, B \ {name}, W)
  BY InterfaceDropped DEF PortsInv, DbOK
<1>2. B \ {name} = B
  BY DEF PortsInv, DbOK, OK, PlacesOK, PortsConstants
<1>3. new = [db EXCEPT !.intf = J, !.port = Q, !.vrf = W]
  OBVIOUS
<1>. HIDE DEF J, Q, W
<1>4. Are(new, J, Q, B, W)
  BY Zenon, <1>3 DEF Are, IsDb, PortsInv, DbOK
<1>. QED BY <1>1, <1>2, <1>4, Written

(* A sub-interface is deleted. *)
LEMMA DeleteSubKeeps ==
  ASSUME PortsConstants, PortsInv, NEW name \in Subs, delete_sub_intf(name) PROVE PortsInv'
<1>1. CASE db' = db
  BY SMTT(60), <1>1 DEF PortsInv
<1>2. CASE db' # db
  <2>1. db' = [db EXCEPT !.intf = Drop(@, name), !.port = Drop(@, name), !.vrf = Detach(@, name)]
    BY ZenonT(60), <1>2 DEF delete_sub_intf, Refuse, START_DB_TXN, Commit, cli_do_config_finish, Finish, Crash
  <2>. QED BY Zenon, <2>1, Dropped DEF PortsInv
<1>. QED BY <1>1, <1>2

(* A sub-interface is shut down or brought up. *)
LEMMA ShutdownKeeps ==
  ASSUME PortsConstants, PortsInv, NEW name \in Subs, NEW no \in BOOLEAN, cli_sub_intf_shutdown(name, no)
  PROVE  PortsInv'
<1> DEFINE I == db.intf
           P == db.port
           B == db.bridge
           V == db.vrf
           J == IF name \in DOMAIN I THEN [I EXCEPT ![name].up = no] ELSE I
           Q == IF name \in DOMAIN P THEN [P EXCEPT ![name].down = ~no] ELSE P
           new == [db EXCEPT !.intf = J, !.port = Q]
<1>1. CASE db' = db
  BY ZenonT(60), <1>1 DEF PortsInv
<1>2. CASE db' # db
  <2>1. db' = new
    BY ZenonT(60), <1>2 DEF cli_sub_intf_shutdown, START_DB_TXN, cli_do_config_finish, Finish, Crash
  <2>2. OK({}, I, P, B, V) /\ IsDb(db)
    BY DEF PortsInv, DbOK
  <2>3. OK({}, J, P, B, V)
    <3>1. CASE name \in DOMAIN I
      <4> DEFINE row == [I[name] EXCEPT !.up = no]
      <4>1. IsInterface(I[name])
        BY Zenon, <2>2, <3>1 DEF OK, InterfacesOK
      <4>2. IsInterface(row) /\ row.parent = I[name].parent /\ row.tag = I[name].tag
        BY <4>1 DEF IsInterface
      <4>3. J = [I EXCEPT ![name] = row]
        BY <3>1
      <4>. HIDE DEF row, J
      <4>. QED BY ZenonT(60), <2>2, <3>1, <4>2, <4>3, InterfaceChanged
    <3>2. CASE name \notin DOMAIN I
      BY <2>2, <3>2
    <3>. QED BY ZenonT(60), <3>1, <3>2
  <2>4. OK({}, J, Q, B, V)
    <3>1. CASE name \in DOMAIN P
      <4> DEFINE row == [P[name] EXCEPT !.down = ~no]
      <4>1. IsPort(P[name])
        BY <2>2, <3>1 DEF OK, RowsOK
      <4>2. IsPort(row) /\ row.ifs = P[name].ifs /\ AddressesOf(row) = AddressesOf(P[name])
        BY ZenonT(60), <4>1, OtherSettings
      <4>3. Q = [P EXCEPT ![name] = row]
        BY SMTT(60), <3>1
      <4>4. name \notin B
        BY Zenon, <2>2 DEF OK, PlacesOK, PortsConstants
      <4>. HIDE DEF row, J, Q
      <4>5. \A v \in DOMAIN V : name \in V[v] => \A q \in V[v] \ {Lag, name} : Apart(row, P[q])
        BY Zenon, <2>2, <4>2 DEF OK, AddressesOK, Apart, PortsConstants
      <4>. QED BY ZenonT(60), <2>3, <3>1, <4>2, <4>3, <4>4, <4>5, RowChanged
    <3>2. CASE name \notin DOMAIN P
      BY <2>3, <3>2
    <3>. QED BY ZenonT(60), <3>1, <3>2
  <2>. HIDE DEF J, Q
  <2>5. Are(new, J, Q, B, V)
    BY Zenon, <2>2 DEF Are, IsDb
  <2>. HIDE DEF new
  <2>. QED BY <2>1, <2>4, <2>5, Written DEF PortsInv
<1>. QED BY ZenonT(60), <1>1, <1>2

(* A sub-interface gets its tag. *)
LEMMA EncapsulationKeeps ==
  ASSUME PortsConstants, PortsInv, NEW name \in Subs, NEW tag, NEW no \in BOOLEAN,
         cli_encapsulation_dot1Q_vlan(name, tag, no)
  PROVE  PortsInv'
<1> DEFINE I == db.intf
           given == IF no THEN 0 ELSE tag
           row == [I[name] EXCEPT !.tag = given]
           J == [I EXCEPT ![name] = row]
           new == [db EXCEPT !.intf[name].tag = given]
<1>1. CASE db' = db
  BY ZenonT(60), <1>1 DEF PortsInv
<1>2. CASE db' # db
  <2>1. /\ db' = new /\ name \in DOMAIN I
        /\ \A n \in DOMAIN I \ {name} : I[n].parent = I[name].parent => I[n].tag # tag
    BY <1>2 DEF cli_encapsulation_dot1Q_vlan, START_DB_TXN, Abort, cli_do_config_finish, Finish, Crash
  <2>2. OK({}, I, db.port, db.bridge, db.vrf) /\ IsDb(db) /\ IsInterface(I[name])
    BY Zenon, <2>1 DEF PortsInv, DbOK, OK, InterfacesOK
  <2>3. given = 0 \/ given = tag
    OBVIOUS
  <2>. HIDE DEF given
  <2>4. IsInterface(row) /\ row.parent = I[name].parent /\ row.tag = given
    BY <2>2 DEF IsInterface
  <2>5. Are(new, J, db.port, db.bridge, db.vrf)
    BY <2>2 DEF Are, IsDb
  <2>. HIDE DEF row
  <2>6. row.tag \in {0, I[name].tag} \/ \A n \in DOMAIN I \ {name} : I[n].parent = I[name].parent => I[n].tag # row.tag
    BY ZenonT(60), <2>1, <2>3, <2>4
  <2>7. OK({}, J, db.port, db.bridge, db.vrf)
    BY ZenonT(60), <2>1, <2>2, <2>4, <2>6, InterfaceChanged
  <2>. HIDE DEF new, J
  <2>. QED BY ZenonT(60), <2>1, <2>5, <2>7, Written DEF PortsInv
<1>. QED BY ZenonT(60), <1>1, <1>2

(* An address of a sub-interface or a loopback interface is set. *)
LEMMA OwnAddressWritten ==
  ASSUME PortsConstants, PortsInv, NEW name \in Subs \cup Loopbacks, name \in DOMAIN db.intf \cup Ports,
         NEW a, is_ip_configurable(db, name, a), NEW f \in Families
  PROVE  DbOK({}, [db EXCEPT !.port[name] = SetAddress(@, f, a, FALSE)])
<1>1. name \in DOMAIN db.port /\ name \notin db.bridge \ Vlans
  BY Zenon DEF PortsInv, DbOK, OK, InterfacesOK, PlacesOK, PortsConstants, Ports
<1>. QED BY Zenon, <1>1, AddressWritten DEF PortsInv

(* The commands that do. *)
LEMMA OwnAddressKeeps ==
  ASSUME PortsConstants, PortsInv, NEW name \in Subs \cup Loopbacks, NEW a,
         \/ sub_intf_config_ip(name, a) \/ cli_sub_intf_config_ipv6(name, a)
         \/ loopback_if_config_ip(name, a) \/ loopback_if_config_ipv6(name, a)
  PROVE  PortsInv'
<1> DEFINE new(f) == [db EXCEPT !.port[name] = SetAddress(@, f, a, FALSE)]
<1>1. CASE db' = db
  BY <1>1 DEF PortsInv
<1>2. CASE db' # db /\ sub_intf_config_ip(name, a)
  <2>1. db' = new("ip4") /\ name \in Ports /\ is_ip_configurable(db, name, a)
    BY Zenon, <1>2 DEF sub_intf_config_ip, NoPort, Refuse, START_DB_TXN, cli_do_config_finish, Finish, Crash
  <2>. QED BY Zenon, <2>1, OwnAddressWritten DEF PortsInv, Families
<1>3. CASE db' # db /\ cli_sub_intf_config_ipv6(name, a)
  <2>1. db' = new("ip6") /\ name \in DOMAIN db.intf /\ is_ip_configurable(db, name, a)
    BY Zenon, <1>3 DEF cli_sub_intf_config_ipv6, Refuse, Abort, START_DB_TXN, cli_do_config_finish, Finish, Crash
  <2>. QED BY Zenon, <2>1, OwnAddressWritten DEF PortsInv, Families
<1>4. CASE db' # db /\ loopback_if_config_ip(name, a)
  <2>1. db' = new("ip4") /\ name \in Ports /\ is_ip_configurable(db, name, a)
    BY Zenon, <1>4 DEF loopback_if_config_ip, NoPort, Refuse, START_DB_TXN, cli_do_config_finish, Finish, Crash
  <2>. QED BY Zenon, <2>1, OwnAddressWritten DEF PortsInv, Families
<1>5. CASE db' # db /\ loopback_if_config_ipv6(name, a)
  <2>1. db' = new("ip6") /\ name \in DOMAIN db.intf /\ is_ip_configurable(db, name, a)
    BY Zenon, <1>5 DEF loopback_if_config_ipv6, check_split_iface_conditions, Refuse, Abort, START_DB_TXN,
                cli_do_config_finish, Finish, Crash
  <2>. QED BY Zenon, <2>1, OwnAddressWritten DEF PortsInv, Families
<1>. QED BY ZenonT(60), <1>1, <1>2, <1>3, <1>4, <1>5

(* The commands that remove one. *)
LEMMA OwnAddressDeleteKeeps ==
  ASSUME PortsInv, NEW name, NEW a,
         \/ cli_sub_intf_del_ip4(name, a) \/ cli_sub_intf_del_ipv6(name, a)
         \/ loopback_if_del_ip4(name, a) \/ loopback_if_del_ipv6(name, a)
  PROVE  PortsInv'
<1> DEFINE new(f) == [db EXCEPT !.port[name] = DelAddress(@, f, a, FALSE)]
<1>1. CASE db' = db
  BY <1>1 DEF PortsInv
<1>2. CASE db' # db
  <2>1. name \in Ports /\ db' \in {new("ip4"), new("ip6")}
    <3>1. CASE cli_sub_intf_del_ip4(name, a)
      BY Zenon, <1>2, <3>1 DEF cli_sub_intf_del_ip4, Refuse, START_DB_TXN, cli_do_config_finish, Finish, Crash
    <3>2. CASE cli_sub_intf_del_ipv6(name, a)
      BY Zenon, <1>2, <3>2 DEF cli_sub_intf_del_ipv6, Abort, START_DB_TXN, cli_do_config_finish, Finish, Crash
    <3>3. CASE loopback_if_del_ip4(name, a)
      BY Zenon, <1>2, <3>3 DEF loopback_if_del_ip4, Abort, START_DB_TXN, cli_do_config_finish, Finish, Crash
    <3>4. CASE loopback_if_del_ipv6(name, a)
      BY Zenon, <1>2, <3>4 DEF loopback_if_del_ipv6, Abort, START_DB_TXN, cli_do_config_finish, Finish, Crash
    <3>. QED BY Zenon, <3>1, <3>2, <3>3, <3>4
  <2>2. DbOK({}, new("ip4")) /\ DbOK({}, new("ip6"))
    BY ZenonT(60), <2>1, AddressErased DEF PortsInv, Ports, Families
  <2>. QED BY Zenon, <2>1, <2>2 DEF PortsInv
<1>. QED BY ZenonT(60), <1>1, <1>2

(* A loopback interface is made. *)
LEMMA CreateLoopbackKeeps ==
  ASSUME PortsConstants, PortsInv, NEW name \in Loopbacks, vtysh_loopback_interface(name) PROVE PortsInv'
<1> DEFINE J == Put(db.intf, name, NewInterface({}, TRUE))
           Q == Put(db.port, name, NewPort({name}))
           W == Attach(db.vrf, DefaultVrf, name)
           new == [db EXCEPT !.intf = J, !.port = Q, !.vrf = W]
<1>1. CASE db' = db
  BY SMTT(60), <1>1 DEF PortsInv
<1>2. CASE db' # db
  <2>1. name \notin Ports /\ db' = new
    BY ZenonT(60), <1>2 DEF vtysh_loopback_interface, Refuse, START_DB_TXN, cli_do_config_finish, Finish, Crash
  <2>2. name \notin Subs
    BY DEF PortsConstants
  <2>3. OK({}, J, Q, db.bridge, W)
    BY Zenon, <2>1, <2>2, InterfaceMade DEF PortsInv, DbOK, Ports
  <2>. HIDE DEF J, Q, W
  <2>4. Are(new, J, Q, db.bridge, W)
    BY Zenon DEF Are, IsDb, PortsInv, DbOK
  <2>. HIDE DEF new
  <2>. QED BY <2>1, <2>3, <2>4, Written DEF PortsInv
<1>. QED BY <1>1, <1>2

(* A loopback interface is deleted. *)
LEMMA DeleteLoopbackKeeps ==
  ASSUME PortsConstants, PortsInv, NEW name \in Loopbacks, delete_loopback_intf(name) PROVE PortsInv'
<1>1. CASE db' = db
  BY SMTT(60), <1>1 DEF PortsInv
<1>2. CASE db' # db
  <2>1. db' = [db EXCEPT !.intf = Drop(@, name), !.port = Drop(@, name), !.vrf = Detach(@, name)]
    BY ZenonT(60), <1>2 DEF delete_loopback_intf, Refuse, START_DB_TXN, cli_do_config_finish, Finish, Crash
  <2>. QED BY Zenon, <2>1, Dropped DEF PortsInv
<1>. QED BY <1>1, <1>2

(* The interface of a VLAN is made. *)
LEMMA CreateVlanKeeps ==
  ASSUME PortsConstants, PortsInv, NEW name \in Vlans, create_vlan_interface(name) PROVE PortsInv'
<1> DEFINE row == [NewPort({name}) EXCEPT !.access = TRUE]
           J == Put(db.intf, name, NewInterface({}, TRUE))
           Q == Put(db.port, name, row)
           B == db.bridge \cup {name}
           W == Attach(db.vrf, DefaultVrf, name)
           new == [db EXCEPT !.intf = J, !.port = Q, !.bridge = B, !.vrf = W]
<1>1. CASE db' = db
  BY SMTT(60), <1>1 DEF PortsInv
<1>2. CASE db' # db
  <2>1. name \notin DOMAIN db.intf /\ name \notin DOMAIN db.port /\ db' = new
    BY <1>2 DEF create_vlan_interface, START_DB_TXN, cli_do_config_finish, Finish, Crash, Ports
  <2>2. name \notin Subs /\ DefaultVrf \in DOMAIN db.vrf /\ OK({}, db.intf, db.port, db.bridge, db.vrf)
    BY Zenon DEF PortsConstants, PortsInv, DbOK, OK, PlacesOK
  <2>3. OK({} \cup {name}, J, db.port, db.bridge, db.vrf)
    BY Zenon, <2>1, <2>2, InterfaceAdded
  <2>4. IsPort(row) /\ row.ifs = {name} /\ Plain(row)
    BY SMTT(60), NewPortPlain, AccessPort DEF Plain
  <2>5. name \in DOMAIN J \cap Vlans
    BY DEF Put
  <2>. HIDE DEF J, row
  <2>6. OK(({} \cup {name}) \ {name}, J, Q, B, W)
    BY <2>1, <2>2, <2>3, <2>4, <2>5, AddedVlan
  <2>7. ({} \cup {name}) \ {name} = {}
    OBVIOUS
  <2>. HIDE DEF Q, B, W
  <2>8. Are(new, J, Q, B, W)
    BY Zenon DEF Are, IsDb, PortsInv, DbOK
  <2>. HIDE DEF new
  <2>. QED BY ZenonT(60), <2>1, <2>6, <2>7, <2>8, Written DEF PortsInv
<1>. QED BY <1>1, <1>2

(* The interface of a VLAN is deleted. *)
LEMMA DeleteVlanKeeps ==
  ASSUME PortsConstants, PortsInv, NEW name \in Vlans, delete_vlan_interface(name) PROVE PortsInv'
<1> DEFINE J == Drop(db.intf, name)
           Q == Drop(db.port, name)
           B == db.bridge \ {name}
           W == Detach(db.vrf, name)
           new == [db EXCEPT !.intf = J, !.port = Q, !.bridge = B, !.vrf = W]
<1>1. CASE db' = db
  BY SMTT(60), <1>1 DEF PortsInv
<1>2. CASE db' # db
  <2>1. db' = new
    BY ZenonT(60), <1>2 DEF delete_vlan_interface, START_DB_TXN, cli_do_config_finish, Finish, Crash
  <2>2. OK({}, J, Q, B, W)
    BY ZenonT(60), InterfaceDropped DEF PortsInv, DbOK
  <2>. HIDE DEF J, Q, B, W
  <2>3. Are(new, J, Q, B, W)
    BY Zenon DEF Are, IsDb, PortsInv, DbOK
  <2>. HIDE DEF new
  <2>. QED BY ZenonT(60), <2>1, <2>2, <2>3, Written DEF PortsInv
<1>. QED BY <1>1, <1>2

-------------------------------------------------------------------------------
(* What other repositories write: an interface joins the LAG. *)
LEMMA JoinLagKeeps ==
  ASSUME PortsConstants, PortsInv, NEW i \in LagMembers, NEW routed \in BOOLEAN, JoinLag(i, routed)
  PROVE  PortsInv'
<1> DEFINE I == db.intf
           P == Drop(db.port, i)
           B == db.bridge \ {i}
           V == Detach(db.vrf, i)
           left == [db EXCEPT !.port = P, !.bridge = B, !.vrf = V]
<1>1. db' = IF Lag \in Ports THEN [left EXCEPT !.port[Lag].ifs = @ \cup {i}]
            ELSE [left EXCEPT !.port = Put(@, Lag, NewPort({i})),
                              !.bridge = IF routed THEN @ ELSE @ \cup {Lag},
                              !.vrf = IF routed THEN Attach(@, DefaultVrf, Lag) ELSE @]
  BY ZenonT(60) DEF JoinLag
<1>2. i \in Physical /\ i # Lag
  BY ZenonT(60) DEF PortsConstants
<1>3. i \notin DOMAIN P /\ (Lag \in DOMAIN P <=> Lag \in Ports)
  BY <1>2 DEF Drop, Ports
<1>4. Restricts(I, I, {}) /\ Restricts(P, db.port, {i}) /\ Leaves(V, db.vrf, {i})
  BY ZenonT(60) DEF Restricts, Leaves, IsMap, Drop, Detach, PortsInv, DbOK, OK, InterfacesOK
<1>. HIDE DEF P, V
<1>5. OK({} \cup {i}, I, P, B, V)
  <2>1. {} \subseteq Subs \cup Loopbacks \cup Vlans /\ {} \cap DOMAIN db.port \subseteq {i}
    OBVIOUS
  <2>. QED BY ZenonT(60), <1>4, <2>1, Removed DEF PortsInv, DbOK
<1>6. \A x \in {} \cup {i} : x \notin DOMAIN I \ Physical /\ \A n \in DOMAIN I \cap Subs : Parent(n) = x => x \in LagMembers
  BY ZenonT(60), <1>2 DEF PortsConstants
<1>7. OK({}, I, P, B, V)
  BY ZenonT(60), <1>5, <1>6, Settled
<1>8. Are(left, I, P, B, V)
  BY Zenon DEF Are, IsDb, PortsInv, DbOK
<1>. HIDE DEF left, B
<1>9. CASE Lag \in Ports
  <2> DEFINE Q == [P EXCEPT ![Lag] = [P[Lag] EXCEPT !.ifs = P[Lag].ifs \cup {i}]]
  <2>1. OK({}, I, Q, B, V)
    BY ZenonT(60), <1>3, <1>7, <1>9, LagGrown
  <2>2. Are(db', I, Q, B, V)
    BY Zenon, <1>1, <1>8, <1>9 DEF Are, IsDb
  <2>. HIDE DEF Q
  <2>. QED BY <2>1, <2>2, Written DEF PortsInv
<1>10. CASE Lag \notin Ports /\ routed
  <2> DEFINE Q == Put(P, Lag, NewPort({i}))
             W == Attach(V, DefaultVrf, Lag)
  <2>1. DefaultVrf \in DOMAIN V
    BY ZenonT(60), <1>7 DEF OK, PlacesOK
  <2>2. OK({}, I, Q, B, W)
    BY ZenonT(60), <1>3, <1>7, <1>10, <2>1, LagRouted
  <2>3. db' = [left EXCEPT !.port = Q, !.bridge = B, !.vrf = W]
    BY <1>1, <1>8, <1>10 DEF Are
  <2>. HIDE DEF Q, W
  <2>4. Are(db', I, Q, B, W)
    BY Zenon, <1>8, <2>3 DEF Are, IsDb
  <2>. QED BY ZenonT(60), <2>2, <2>4, Written DEF PortsInv
<1>11. CASE Lag \notin Ports /\ ~ routed
  <2> DEFINE Q == Put(P, Lag, NewPort({i}))
             C == B \cup {Lag}
  <2>1. OK({}, I, Q, C, V)
    BY ZenonT(60), <1>3, <1>7, <1>11, LagSwitched
  <2>2. db' = [left EXCEPT !.port = Q, !.bridge = C, !.vrf = V]
    BY <1>1, <1>8, <1>11 DEF Are
  <2>. HIDE DEF Q, C
  <2>3. Are(db', I, Q, C, V)
    BY Zenon, <1>8, <2>2 DEF Are, IsDb
  <2>. QED BY ZenonT(60), <2>1, <2>3, Written DEF PortsInv
<1>. QED BY <1>9, <1>10, <1>11

(* An access list is applied to a port, or removed. *)
LEMMA ApplyAclKeeps ==
  ASSUME PortsInv, NEW p, ApplyAcl(p) PROVE PortsInv'
<1> DEFINE row == [db.port[p] EXCEPT !.acl = ~ db.port[p].acl]
           new == [db EXCEPT !.port[p] = row]
<1>1. p \in DOMAIN db.port /\ db' = [db EXCEPT !.port[p].acl = ~@]
  BY DEF ApplyAcl, Ports
<1>2. IsPort(db.port[p])
  BY <1>1 DEF PortsInv, DbOK, OK, RowsOK
<1>3. IsPort(row) /\ row.ifs = db.port[p].ifs /\ row.arp = db.port[p].arp /\ AddressesOf(row) = AddressesOf(db.port[p])
  BY Zenon, <1>2, OtherSettings
<1>4. db' = new
  BY ZenonT(60), <1>1 DEF PortsInv, DbOK, IsDb, OK, PlacesOK, IsMap
<1>. HIDE DEF row
<1>5. DbOK({}, new)
  BY ZenonT(60), <1>1, <1>3, PortWritten DEF PortsInv
<1>. QED BY <1>4, <1>5 DEF PortsInv

-------------------------------------------------------------------------------
(* The first tables: interfaces of the hardware, one VRF, no port. *)
LEMMA InitKeeps ==
  ASSUME PortsConstants, Init PROVE PortsInv
<1> DEFINE I == [n \in Physical |-> NewInterface({}, FALSE)]
           V == [v \in {DefaultVrf} |-> {}]
<1>1. PICK split : db = [intf |-> I, port |-> EmptyMap, bridge |-> {}, vrf |-> V, split |-> split]
  BY ZenonT(60) DEF Init
<1>2. OK({}, I, EmptyMap, {}, V)
  <2>1. PlacesOK(EmptyMap, {}, V)
    BY ZenonT(60) DEF PlacesOK, IsMap, EmptyMap
  <2>2. RowsOK(I, EmptyMap)
    BY DEF RowsOK, EmptyMap
  <2>3. InterfacesOK({}, I, EmptyMap, {})
    BY Zenon DEF InterfacesOK, IsMap, IsInterface, NewInterface, Names, PortsConstants
  <2>4. AddressesOK(EmptyMap, {}, V)
    BY ZenonT(60) DEF AddressesOK
  <2>. QED BY ZenonT(60), <2>1, <2>2, <2>3, <2>4 DEF OK
<1>. HIDE DEF I, V
<1>3. Are(db, I, EmptyMap, {}, V)
  BY ZenonT(60), <1>1 DEF Are, IsDb
<1>. QED BY <1>2, <1>3, Written DEF PortsInv

(* Every command keeps the invariant. *)
LEMMA NextKeeps ==
  ASSUME PortsConstants, PortsInv, [Next]_cmdVars PROVE PortsInv'
<1>1. CASE VrfCommands
  BY ZenonT(60), <1>1, VrfAddKeeps, VrfDeleteKeeps, VrfAddPortKeeps, VrfDelPortKeeps DEF VrfCommands
<1>2. CASE RoutingCommands
  BY ZenonT(60), <1>2, VrfRoutingKeeps, VrfNoRoutingKeeps DEF RoutingCommands
<1>3. CASE AddressCommands
  BY ZenonT(60), <1>3, ConfigAddressKeeps, DelAddressKeeps
     DEF AddressCommands, Families, vrf_config_ip, vrf_config_ipv6, vrf_del_ip, vrf_del_ipv6
<1>4. CASE ArpCommands
  BY ZenonT(60), <1>4, ToggleArpKeeps DEF ArpCommands, vrf_proxy_arp_toggle_state, vrf_local_proxy_arp_toggle_state
<1>5. CASE SubCommands
  BY ZenonT(60), <1>5, CreateSubKeeps, DeleteSubKeeps, ShutdownKeeps, EncapsulationKeeps, OwnAddressKeeps,
     OwnAddressDeleteKeeps DEF SubCommands
<1>6. CASE LoopbackCommands
  BY ZenonT(60), <1>6, CreateLoopbackKeeps, DeleteLoopbackKeeps, OwnAddressKeeps, OwnAddressDeleteKeeps
     DEF LoopbackCommands
<1>7. CASE VlanCommands
  BY <1>7, CreateVlanKeeps, DeleteVlanKeeps DEF VlanCommands
<1>8. CASE OtherCommands
  BY ZenonT(60), <1>8, JoinLagKeeps, ApplyAclKeeps DEF OtherCommands
<1>9. CASE UNCHANGED cmdVars
  BY ZenonT(60), <1>9 DEF cmdVars, PortsInv
<1>. QED BY ZenonT(60), <1>1, <1>2, <1>3, <1>4, <1>5, <1>6, <1>7, <1>8, <1>9 DEF Next

(* A port that the invariant holds of is in one place. *)
LEMMA InvInOnePlace ==
  ASSUME PortsInv PROVE PortInOnePlace
<1>1. ASSUME NEW p \in Ports
      PROVE  /\ \A v, w \in port_vrf_lookup(p) : v = w
             /\ p \in db.bridge <=> (port_vrf_lookup(p) = {} \/ p \in Vlans)
  <2>1. PlacesOK(db.port, db.bridge, db.vrf) /\ p \in DOMAIN db.port
    BY SMTT(60) DEF PortsInv, DbOK, OK, Ports
  <2>. QED BY ZenonT(60), <2>1 DEF PlacesOK, port_vrf_lookup
<1>. QED BY <1>1 DEF PortInOnePlace

(* The invariant implies what the tables promise. *)
LEMMA InvImpliesConsistent ==
  ASSUME PortsConstants, PortsInv PROVE PortsConsistent
<1>1. /\ PlacesOK(db.port, db.bridge, db.vrf) /\ AddressesOK(db.port, db.bridge, db.vrf)
      /\ InterfacesOK({}, db.intf, db.port, db.bridge)
  BY ZenonT(60) DEF PortsInv, DbOK, OK
<1>2. SwitchedHasNoAddress
  BY <1>1 DEF AddressesOK, Plain, SwitchedHasNoAddress
<1>3. \A n \in SubInterfaces : n \in DOMAIN db.intf \cap Subs /\ db.intf[n].parent = {Parent(n)}
  BY Zenon, <1>1 DEF InterfacesOK, SubInterfaces
<1>4. ParentsRouted
  <2>1. ASSUME NEW n \in DOMAIN db.intf \cap Subs
        PROVE  /\ n \in DOMAIN db.port
               /\ Parent(n) \in DOMAIN db.intf /\ (Parent(n) \in db.bridge => Parent(n) \in LagMembers)
    <3>1. n \notin Physical /\ Parent(n) \in Physical
      BY ZenonT(60) DEF PortsConstants
    <3>2. n \in DOMAIN db.port /\ (Parent(n) \in db.bridge => Parent(n) \in LagMembers) /\ Physical \subseteq DOMAIN db.intf
      BY <1>1, <3>1 DEF InterfacesOK
    <3>. QED BY ZenonT(60), <3>1, <3>2
  <2>. QED BY ZenonT(60), <1>3, <2>1 DEF ParentsRouted, Ports
<1>5. TagsDiffer
  BY ZenonT(60), <1>1, <1>3 DEF InterfacesOK, TagsDiffer
<1>6. NetworksDisjoint
  BY <1>1 DEF AddressesOK, Apart, NetworksDisjoint
<1>. QED BY ZenonT(60), <1>2, <1>4, <1>5, <1>6, InvInOnePlace DEF PortsConsistent

(* The invariant holds of every state that the commands reach. *)
THEOREM PortsInvariant ==
  ASSUME PortsConstants PROVE PortsSpec => []PortsInv
<1>1. Init => PortsInv
  BY InitKeeps
<1>2. PortsInv /\ [Next]_cmdVars => PortsInv'
  BY NextKeeps
<1>. QED BY <1>1, <1>2, PTL DEF PortsSpec

(* So the tables stay consistent: a port is switched or routed in one VRF, a
   switched one has no address, the parents of sub-interfaces are routed unless
   they may be members of a LAG, tags differ and so do the networks of a VRF's
   ports (the commands of vrf_vty.c, sub_intf_vty.c,
   loopback_vty.c and vlan_vtysh_utils.c). *)
THEOREM PortsStayConsistent ==
  ASSUME PortsConstants PROVE PortsSpec => []PortsConsistent
<1>1. PortsInv => PortsConsistent
  BY InvImpliesConsistent
<1>. QED BY <1>1, PortsInvariant, PTL
===============================================================================
