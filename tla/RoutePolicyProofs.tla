--------------------------- MODULE RoutePolicyProofs ---------------------------
(***************************************************************************)
(* The policy objects of the database stay consistent, and what "show       *)
(* running-config" prints of them restores them, for every set of names,    *)
(* sequence numbers, prefixes, lines and arguments, and however many of     *)
(* them there are.                                                          *)
(***************************************************************************)
EXTENDS RoutePolicy, FiniteSetTheorems, TLAPS

(* A map of the database, and rows with the columns of their table. *)
IsMap(m) == m = [k \in DOMAIN m |-> m[k]]

IsEntry(e) == e = [action |-> e.action, prefix |-> e.prefix, ge |-> e.ge, le |-> e.le]

IsList(l) == l = [description |-> l.description, entries |-> l.entries]

IsAspath(row) == row = [name |-> row.name, permit |-> row.permit, deny |-> row.deny]

IsCommunity(row) ==
    row = [name |-> row.name, type |-> row.type, permit |-> row.permit, deny |-> row.deny]

IsMapEntry(e) ==
    e = [action |-> e.action, description |-> e.description, match |-> e.match, set |-> e.set]

IsTables(d) ==
    d = [bgp_routers |-> d.bgp_routers, prefix_lists |-> d.prefix_lists,
         aspath_filters |-> d.aspath_filters, community_filters |-> d.community_filters,
         route_maps |-> d.route_maps]

(* An entry of a prefix list: "any" with the length of its family, or a prefix
   with a range its command has let through. *)
RangeOK(afi, n, ge, le) ==
    /\ ge # 0 => ge > n /\ le # MaxLen[afi]
    /\ le # 0 => le > n /\ ge <= le

EntryOK(e) ==
    /\ IsEntry(e) /\ e.ge \in Nat /\ e.le \in Nat
    /\ \/ e.prefix = AnyPrefix /\ e.ge = 0 /\ e.le \in {32, 128}
       \/ \E afi \in AFIs : \E n \in PrefixLens[afi] :
            e.prefix = [afi |-> afi, len |-> n] /\ RangeOK(afi, n, e.ge, e.le)

EntriesOK(m) == IsMap(m) /\ DOMAIN m \subseteq Seqs /\ \A s \in DOMAIN m : EntryOK(m[s])

ListOK(l) == IsList(l) /\ EntriesOK(l.entries)

ListsOK(m) == IsMap(m) /\ \A n \in DOMAIN m : ListOK(m[n])

(* The rows of the filters: the lines typed, and one row per name.  An AS path
   filter is never without a line; a community list may be. *)
AspathOK(row) ==
    IsAspath(row) /\ row.permit \cup row.deny \subseteq Lines /\ row.permit \cup row.deny # {}

CommunityOK(row) ==
    IsCommunity(row) /\ row.type \in CommunityTypes /\ row.permit \cup row.deny \subseteq Lines

AspathsOK(rows) ==
    /\ \A r \in rows : AspathOK(r)
    /\ \A r, s \in rows : r.name = s.name => r = s

CommunitiesOK(rows) ==
    /\ \A r \in rows : CommunityOK(r)
    /\ \A r, s \in rows : r.name = s.name => r = s

(* A route map entry: clauses under keys that are printed. *)
MatchOK(m) == IsMap(m) /\ DOMAIN m \subseteq DOMAIN MatchWords

SetOK(m) ==
    /\ IsMap(m) /\ DOMAIN m \subseteq DOMAIN SetWords
    /\ "atomic_aggregate" \in DOMAIN m => m["atomic_aggregate"] = <<"true">>

MapEntryOK(e) == IsMapEntry(e) /\ MatchOK(e.match) /\ SetOK(e.set)

MapOK(m) == IsMap(m) /\ \A p \in DOMAIN m : MapEntryOK(m[p])

MapsOK(m) == IsMap(m) /\ \A n \in DOMAIN m : MapOK(m[n])

TablesOK(d) ==
    /\ IsTables(d) /\ ListsOK(d.prefix_lists) /\ AspathsOK(d.aspath_filters)
    /\ CommunitiesOK(d.community_filters) /\ MapsOK(d.route_maps)

(* The inductive invariant. *)
PolicyInv == TablesOK(db)

-------------------------------------------------------------------------------
(* The empty map. *)
LEMMA EmptyIsMap == IsMap(EmptyMap) /\ DOMAIN EmptyMap = {}
BY DEF IsMap, EmptyMap

(* A write to one table leaves the others. *)
LEMMA ListsWrite ==
  ASSUME NEW d, TablesOK(d), NEW m, ListsOK(m)
  PROVE  TablesOK([d EXCEPT !.prefix_lists = m])
BY DEF TablesOK, IsTables

(* The same for AS path filters. *)
LEMMA AspathsWrite ==
  ASSUME NEW d, TablesOK(d), NEW rows, AspathsOK(rows)
  PROVE  TablesOK([d EXCEPT !.aspath_filters = rows])
BY DEF TablesOK, IsTables

(* The same for community lists. *)
LEMMA CommunitiesWrite ==
  ASSUME NEW d, TablesOK(d), NEW rows, CommunitiesOK(rows)
  PROVE  TablesOK([d EXCEPT !.community_filters = rows])
BY DEF TablesOK, IsTables

(* The same for route maps. *)
LEMMA MapsWrite ==
  ASSUME NEW d, TablesOK(d), NEW m, MapsOK(m)
  PROVE  TablesOK([d EXCEPT !.route_maps = m])
BY DEF TablesOK, IsTables

-------------------------------------------------------------------------------
(* Prefix lists.  A list is put, or removed. *)
LEMMA PutList ==
  ASSUME NEW m, ListsOK(m), NEW n, NEW l, ListOK(l)
  PROVE  ListsOK(Put(m, n, l))
BY DEF ListsOK, IsMap, Put

(* A list is removed. *)
LEMMA DropList ==
  ASSUME NEW m, ListsOK(m), NEW n
  PROVE  ListsOK(Drop(m, n))
BY DEF ListsOK, IsMap, Drop

(* An entry is put. *)
LEMMA PutEntry ==
  ASSUME NEW m, EntriesOK(m), NEW s \in Seqs, NEW e, EntryOK(e)
  PROVE  EntriesOK(Put(m, s, e))
BY DEF EntriesOK, IsMap, Put

(* An entry is removed. *)
LEMMA DropEntry ==
  ASSUME NEW m, EntriesOK(m), NEW s
  PROVE  EntriesOK(Drop(m, s))
BY DEF EntriesOK, IsMap, Drop

(* A list's entries are replaced. *)
LEMMA EntriesWrite ==
  ASSUME NEW l, ListOK(l), NEW m, EntriesOK(m)
  PROVE  ListOK([l EXCEPT !.entries = m])
BY DEF ListOK, IsList

(* The entry the command stores, when its range was let through. *)
LEMMA PrefixEntryOK ==
  ASSUME PolicyConstants, NEW afi \in AFIs, NEW action \in Actions,
         NEW prefix \in Typed(afi), NEW ge \in Lengths, NEW le \in Lengths,
         ~ vty_invalid_prefix_range(prefix, ge, le)
  PROVE  EntryOK(PrefixEntry(afi, action, prefix, ge, le))
<1>. DEFINE e == PrefixEntry(afi, action, prefix, ge, le)
<1>0. ge \in Nat /\ le \in Nat
  BY Zenon DEF PolicyConstants
<1>m. MaxLen[afi] \in {32, 128}
  BY DEF MaxLen, AFIs
<1>1. IsEntry(e) /\ e.prefix = prefix
  BY DEF IsEntry, PrefixEntry
<1>2. e.ge \in Nat /\ e.le \in Nat
  BY <1>0, <1>m DEF PrefixEntry
<1>3. CASE prefix = AnyPrefix
  <2>1. e.ge = 0 /\ e.le = MaxLen[afi]
    BY <1>3 DEF PrefixEntry
  <2>. QED BY <2>1, <1>m, <1>1, <1>2, <1>3 DEF EntryOK
<1>4. CASE prefix # AnyPrefix
  <2>1. PICK n \in PrefixLens[afi] : prefix = [afi |-> afi, len |-> n]
    BY <1>4 DEF Typed
  <2>2. n \in Nat
    <3>1. n \in 0 .. MaxLen[afi]
      BY Zenon DEF PolicyConstants
    <3>. QED BY <3>1, <1>m
  <2>3. e.ge = ge /\ e.le = IF ge # 0 /\ le = MaxLen[afi] THEN 0 ELSE le
    BY <1>4 DEF PrefixEntry
  <2>4. /\ ge # 0 => ge > n
        /\ le # 0 => le > n /\ ge <= le
    BY <1>0, <1>4, <2>1, <2>2 DEF vty_invalid_prefix_range
  <2>5. RangeOK(afi, n, e.ge, e.le)
    BY <2>2, <2>3, <2>4, <1>0, <1>m DEF RangeOK
  <2>. QED BY <2>1, <2>5, <1>1, <1>2 DEF EntryOK
<1>. QED BY <1>3, <1>4

(* A new list, and the list a command reads. *)
LEMMA EmptyListOK ==
  ASSUME NEW line
  PROVE  ListOK([description |-> line, entries |-> EmptyMap])
BY EmptyIsMap DEF ListOK, IsList, EntriesOK

(* Another description. *)
LEMMA DescribedOK ==
  ASSUME NEW line, NEW m, EntriesOK(m)
  PROVE  ListOK([description |-> line, entries |-> m])
BY DEF ListOK, IsList

(* "prefix-list ... seq N": the list it puts. *)
LEMMA InsertedOK ==
  ASSUME NEW list, ListOK(list), NEW seq \in Seqs, NEW e, EntryOK(e),
         NEW l \in bgp_prefix_list_entry_insert_to_prefix_list(list, seq, e)
  PROVE  ListOK(l)
<1>1. EntriesOK(list.entries)
  BY DEF ListOK
<1>2. EntriesOK(Put(list.entries, seq, e))
  BY <1>1, PutEntry
<1>3. PICK m \in SortUnique(list.entries, seq, e) : l = [list EXCEPT !.entries = m]
  BY DEF bgp_prefix_list_entry_insert_to_prefix_list
<1>4. m = Put(list.entries, seq, e) \/ m = list.entries
  BY <1>3 DEF SortUnique
<1>5. EntriesOK(m)
  BY <1>1, <1>2, <1>4
<1>. QED BY <1>3, <1>5, EntriesWrite

(* policy_set_prefix_list_in_ovsdb keeps the invariant. *)
LEMMA SetPrefixListKeeps ==
  ASSUME PolicyConstants, PolicyInv, NEW afi \in AFIs, NEW name, NEW seq \in Seqs,
         NEW action \in Actions, NEW prefix \in Typed(afi), NEW ge \in Lengths, NEW le \in Lengths,
         policy_set_prefix_list_in_ovsdb(afi, name, seq, action, prefix, ge, le)
  PROVE  PolicyInv'
<1>1. CASE db' = db
  BY <1>1 DEF PolicyInv
<1>2. CASE db' # db
  <2>. DEFINE e == PrefixEntry(afi, action, prefix, ge, le)
              list == IF HasPrefixList(name) THEN policy_get_prefix_list_in_ovsdb(name)
                      ELSE [description |-> "", entries |-> EmptyMap]
  <2>0. ~ vty_invalid_prefix_range(prefix, ge, le)
    BY Zenon, <1>2 DEF policy_set_prefix_list_in_ovsdb, Refuse
  <2>1. EntryOK(e)
    BY <2>0, PrefixEntryOK
  <2>. HIDE DEF e
  <2>2. ListOK(list)
    <3>1. CASE HasPrefixList(name)
      BY <3>1 DEF HasPrefixList, policy_get_prefix_list_in_ovsdb, PolicyInv, TablesOK, ListsOK
    <3>2. CASE ~ HasPrefixList(name)
      BY Zenon, <3>2, EmptyListOK
    <3>. QED BY Zenon, <3>1, <3>2
  <2>3. \E l : /\ l = list \/ l \in bgp_prefix_list_entry_insert_to_prefix_list(list, seq, e)
               /\ db' = [db EXCEPT !.prefix_lists = Put(@, name, l)]
    BY Zenon, <1>2, <2>0 DEF policy_set_prefix_list_in_ovsdb, START_DB_TXN, END_DB_TXN, Finish, Crash, e
  <2>. HIDE DEF list
  <2>4. PICK l : /\ l = list \/ l \in bgp_prefix_list_entry_insert_to_prefix_list(list, seq, e)
                 /\ db' = [db EXCEPT !.prefix_lists = Put(@, name, l)]
    BY <2>3
  <2>5. ListOK(l)
    BY <2>1, <2>2, <2>4, InsertedOK
  <2>6. ListsOK(Put(db.prefix_lists, name, l))
    BY <2>5, PutList DEF PolicyInv, TablesOK
  <2>. QED BY <2>4, <2>6, ListsWrite DEF PolicyInv
<1>. QED BY <1>1, <1>2

(* policy_set_prefix_list_description_in_ovsdb keeps it. *)
LEMMA SetDescriptionKeeps ==
  ASSUME PolicyInv, NEW name, NEW line,
         policy_set_prefix_list_description_in_ovsdb(name, line)
  PROVE  PolicyInv'
<1>1. CASE db' = db
  BY <1>1 DEF PolicyInv
<1>2. CASE db' # db
  <2>. DEFINE m == IF HasPrefixList(name) THEN policy_get_prefix_list_in_ovsdb(name).entries
                   ELSE EmptyMap
              l == [description |-> line, entries |-> m]
  <2>1. EntriesOK(m)
    <3>1. CASE HasPrefixList(name)
      BY <3>1 DEF HasPrefixList, policy_get_prefix_list_in_ovsdb, PolicyInv, TablesOK, ListsOK, ListOK
    <3>2. CASE ~ HasPrefixList(name)
      BY <3>2, EmptyIsMap DEF EntriesOK
    <3>. QED BY <3>1, <3>2
  <2>2. db' = [db EXCEPT !.prefix_lists = Put(@, name, l)]
    BY <1>2 DEF policy_set_prefix_list_description_in_ovsdb, START_DB_TXN, END_DB_TXN, Finish, Crash
  <2>. HIDE DEF m
  <2>3. ListOK(l)
    BY <2>1, DescribedOK
  <2>. HIDE DEF l
  <2>4. ListsOK(Put(db.prefix_lists, name, l))
    BY <2>3, PutList DEF PolicyInv, TablesOK
  <2>. QED BY <2>2, <2>4, ListsWrite DEF PolicyInv
<1>. QED BY <1>1, <1>2

(* The commands that remove a list, or one of its entries, keep it. *)
LEMMA DroppedListKeeps ==
  ASSUME PolicyInv, NEW name, db' = [db EXCEPT !.prefix_lists = Drop(@, name)]
  PROVE  PolicyInv'
<1>1. ListsOK(Drop(db.prefix_lists, name))
  BY DropList DEF PolicyInv, TablesOK
<1>. QED BY <1>1, ListsWrite DEF PolicyInv

(* "no prefix-list NAME". *)
LEMMA NoPrefixListKeeps ==
  ASSUME PolicyInv, NEW afi, NEW name, cli_no_ip_prefix_list_cmd_execute(afi, name)
  PROVE  PolicyInv'
<1>1. db' = db \/ db' = [db EXCEPT !.prefix_lists = Drop(@, name)]
  BY Zenon DEF cli_no_ip_prefix_list_cmd_execute, START_DB_TXN, END_DB_TXN, ERRONEOUS_DB_TXN, Finish, Crash
<1>2. CASE db' = db
  BY <1>2 DEF PolicyInv
<1>. QED BY <1>1, <1>2, DroppedListKeeps

(* "no prefix-list NAME description LINE". *)
LEMMA NoDescriptionKeeps ==
  ASSUME PolicyInv, NEW name, NEW line, cli_no_ip_prefix_list_line_cmd_execute(name, line)
  PROVE  PolicyInv'
<1>1. db' = db \/ db' = [db EXCEPT !.prefix_lists = Drop(@, name)]
  BY DEF cli_no_ip_prefix_list_line_cmd_execute, START_DB_TXN, END_DB_TXN, ERRONEOUS_DB_TXN, Finish,
         Crash
<1>2. CASE db' = db
  BY <1>2 DEF PolicyInv
<1>. QED BY <1>1, <1>2, DroppedListKeeps

(* Writing to a key the map has is putting it. *)
LEMMA ExceptIsPut ==
  ASSUME NEW m, IsMap(m), NEW k \in DOMAIN m, NEW v
  PROVE  [m EXCEPT ![k] = v] = Put(m, k, v)
BY DEF IsMap, Put

(* "no prefix-list NAME seq N ...". *)
LEMMA NoEntryKeeps ==
  ASSUME PolicyInv, NEW afi, NEW name, NEW seq, NEW action, NEW prefix, NEW ge, NEW le,
         cli_no_ip_prefix_list_seq_cmd_execute(afi, name, seq, action, prefix, ge, le)
  PROVE  PolicyInv'
<1>1. CASE db' = db
  BY <1>1 DEF PolicyInv
<1>2. CASE db' # db
  <2>. DEFINE l == bgp_prefix_list_entry_remove_from_prefix_list(db.prefix_lists[name], seq)
  <2>1. name \in DOMAIN db.prefix_lists /\ db' = [db EXCEPT !.prefix_lists[name] = l]
    BY <1>2 DEF cli_no_ip_prefix_list_seq_cmd_execute, START_DB_TXN, END_DB_TXN, ERRONEOUS_DB_TXN,
                ReturnWithoutEnd, Finish, Crash, policy_get_prefix_list_entry_in_ovsdb, HasPrefixList
  <2>2. ListsOK(db.prefix_lists)
    BY DEF PolicyInv, TablesOK
  <2>3. ListOK(db.prefix_lists[name])
    BY <2>1, <2>2 DEF ListsOK
  <2>4. EntriesOK(Drop(db.prefix_lists[name].entries, seq))
    BY <2>3, DropEntry DEF ListOK
  <2>5. ListOK(l)
    BY <2>3, <2>4, EntriesWrite DEF bgp_prefix_list_entry_remove_from_prefix_list
  <2>. HIDE DEF l
  <2>6. [db.prefix_lists EXCEPT ![name] = l] = Put(db.prefix_lists, name, l)
    BY <2>1, <2>2, ExceptIsPut DEF ListsOK
  <2>7. db' = [db EXCEPT !.prefix_lists = Put(db.prefix_lists, name, l)]
    BY <2>1, <2>6
  <2>8. ListsOK(Put(db.prefix_lists, name, l))
    BY <2>2, <2>5, PutList
  <2>. QED BY <2>7, <2>8, ListsWrite DEF PolicyInv
<1>. QED BY <1>1, <1>2

-------------------------------------------------------------------------------
(* Filters.  The rows of a name are replaced by at most one row of that name. *)
LEMMA AspathsReplaced ==
  ASSUME NEW R, AspathsOK(R), NEW name, NEW rows,
         \A r \in rows : AspathOK(r) /\ r.name = name, \A r, s \in rows : r = s
  PROVE  AspathsOK((R \ {row \in R : row.name = name}) \cup rows)
BY DEF AspathsOK

(* The same for community lists. *)
LEMMA CommunitiesReplaced ==
  ASSUME NEW R, CommunitiesOK(R), NEW name, NEW rows,
         \A r \in rows : CommunityOK(r) /\ r.name = name, \A r, s \in rows : r = s
  PROVE  CommunitiesOK((R \ {row \in R : row.name = name}) \cup rows)
BY DEF CommunitiesOK

(* Rows are removed. *)
LEMMA AspathsRemoved ==
  ASSUME NEW R, AspathsOK(R), NEW rows
  PROVE  AspathsOK(R \ rows)
BY DEF AspathsOK

(* Rows are removed. *)
LEMMA CommunitiesRemoved ==
  ASSUME NEW R, CommunitiesOK(R), NEW rows
  PROVE  CommunitiesOK(R \ rows)
BY DEF CommunitiesOK

(* A line joins a row. *)
LEMMA LineJoins ==
  ASSUME NEW row, AspathOK(row), NEW action \in Actions, NEW line \in Lines
  PROVE  LET w == [row EXCEPT ![action] = @ \cup {line}]
         IN  AspathOK(w) /\ w.name = row.name
<1>1. CASE action = "permit"
  <2>. DEFINE w == [row EXCEPT !.permit = @ \cup {line}]
  <2>1. /\ IsAspath(w) /\ w.name = row.name
        /\ w.permit = row.permit \cup {line} /\ w.deny = row.deny
    BY DEF AspathOK, IsAspath
  <2>2. AspathOK(w)
    BY <2>1 DEF AspathOK
  <2>3. [row EXCEPT ![action] = @ \cup {line}] = w
    BY <1>1
  <2>. QED BY <2>1, <2>2, <2>3
<1>2. CASE action = "deny"
  <2>. DEFINE w == [row EXCEPT !.deny = @ \cup {line}]
  <2>1. /\ IsAspath(w) /\ w.name = row.name
        /\ w.deny = row.deny \cup {line} /\ w.permit = row.permit
    BY DEF AspathOK, IsAspath
  <2>2. AspathOK(w)
    BY <2>1 DEF AspathOK
  <2>3. [row EXCEPT ![action] = @ \cup {line}] = w
    BY ZenonT(60), <1>2
  <2>. QED BY <2>1, <2>2, <2>3
<1>. QED BY <1>1, <1>2 DEF Actions

(* The row of a new name. *)
LEMMA NewAspathOK ==
  ASSUME NEW name, NEW action \in Actions, NEW line \in Lines
  PROVE  LET w == [[name |-> name, permit |-> {}, deny |-> {}] EXCEPT ![action] = {line}]
         IN  AspathOK(w) /\ w.name = name
<1>1. CASE action = "permit"
  <2>1. [[name |-> name, permit |-> {}, deny |-> {}] EXCEPT ![action] = {line}]
          = [name |-> name, permit |-> {line}, deny |-> {}]
    BY <1>1
  <2>. QED BY <2>1 DEF AspathOK, IsAspath
<1>2. CASE action = "deny"
  <2>1. [[name |-> name, permit |-> {}, deny |-> {}] EXCEPT ![action] = {line}]
          = [name |-> name, permit |-> {}, deny |-> {line}]
    BY <1>2
  <2>. QED BY <2>1 DEF AspathOK, IsAspath
<1>. QED BY <1>1, <1>2 DEF Actions

(* "ip as-path access-list NAME". *)
LEMMA SetAspathKeeps ==
  ASSUME PolicyInv, NEW name, NEW action \in Actions, NEW line \in Lines,
         policy_set_aspath_filter_in_ovsdb(name, action, line)
  PROVE  PolicyInv'
<1>1. CASE db' = db
  BY <1>1 DEF PolicyInv
<1>2. CASE db' # db
  <2>. DEFINE R == db.aspath_filters
              named == {row \in R : row.name = name}
              joined == {[row EXCEPT ![action] = @ \cup {line}] : row \in named}
              new == [[name |-> name, permit |-> {}, deny |-> {}] EXCEPT ![action] = {line}]
  <2>1. \E rows : /\ rows = named \/ rows = joined \/ rows = {new}
                  /\ db' = [db EXCEPT !.aspath_filters = (R \ named) \cup rows]
    BY Zenon, <1>2 DEF policy_set_aspath_filter_in_ovsdb, START_DB_TXN, END_DB_TXN, Finish, Crash
  <2>2. AspathsOK(R)
    BY DEF PolicyInv, TablesOK
  <2>3. /\ \A r \in named : AspathOK(r) /\ r.name = name
        /\ \A r, s \in named : r = s
    BY <2>2 DEF AspathsOK
  <2>4. /\ \A r \in joined : AspathOK(r) /\ r.name = name
        /\ \A r, s \in joined : r = s
    <3>1. \A r \in joined : AspathOK(r) /\ r.name = name
      <4>. TAKE r \in joined
      <4>1. PICK row \in named : r = [row EXCEPT ![action] = @ \cup {line}]
        OBVIOUS
      <4>. QED BY ZenonT(60), <4>1, <2>3, LineJoins
    <3>2. \A r, s \in joined : r = s
      BY <2>3
    <3>. QED BY <3>1, <3>2
  <2>5. AspathOK(new) /\ new.name = name
    BY NewAspathOK
  <2>. HIDE DEF joined, new
  <2>6. PICK rows : /\ rows = named \/ rows = joined \/ rows = {new}
                    /\ db' = [db EXCEPT !.aspath_filters = (R \ named) \cup rows]
    BY Zenon, <2>1
  <2>7. /\ \A r \in rows : AspathOK(r) /\ r.name = name
        /\ \A r, s \in rows : r = s
    <3>1. CASE rows = named
      BY <3>1, <2>3
    <3>2. CASE rows = joined
      BY <3>2, <2>4
    <3>3. CASE rows = {new}
      BY <3>3, <2>5
    <3>. QED BY <2>6, <3>1, <3>2, <3>3
  <2>8. AspathsOK((R \ named) \cup rows)
    BY Zenon, <2>2, <2>7, AspathsReplaced
  <2>. QED BY Zenon, <2>6, <2>8, AspathsWrite DEF PolicyInv
<1>. QED BY <1>1, <1>2

(* "no ip as-path access-list", of a line or of a name. *)
LEMMA NoAspathKeeps ==
  ASSUME PolicyInv, NEW name, NEW action, NEW line,
         \/ policy_no_aspath_filter_in_ovsdb(name, action, line)
         \/ policy_no_aspath_filter_name_in_ovsdb(name)
  PROVE  PolicyInv'
<1>1. CASE db' = db
  BY <1>1 DEF PolicyInv
<1>2. CASE db' # db
  <2>1. \E rows : db' = [db EXCEPT !.aspath_filters = db.aspath_filters \ rows]
    <3>1. CASE policy_no_aspath_filter_in_ovsdb(name, action, line)
      <4>1. \E row : db' = [db EXCEPT !.aspath_filters = db.aspath_filters \ {row}]
        BY <1>2, <3>1 DEF policy_no_aspath_filter_in_ovsdb, START_DB_TXN, END_DB_TXN, ERRONEOUS_DB_TXN,
                          Finish, Crash
      <4>. QED BY Zenon, <4>1
    <3>2. CASE policy_no_aspath_filter_name_in_ovsdb(name)
      <4>. DEFINE named == {row \in db.aspath_filters : row.name = name}
      <4>1. db' = [db EXCEPT !.aspath_filters = db.aspath_filters \ named]
        BY <1>2, <3>2 DEF policy_no_aspath_filter_name_in_ovsdb, START_DB_TXN, END_DB_TXN,
                          ERRONEOUS_DB_TXN, Finish, Crash
      <4>. QED BY Zenon, <4>1
    <3>. QED BY <3>1, <3>2
  <2>2. PICK rows : db' = [db EXCEPT !.aspath_filters = db.aspath_filters \ rows]
    BY Zenon, <2>1
  <2>3. AspathsOK(db.aspath_filters \ rows)
    BY AspathsRemoved DEF PolicyInv, TablesOK
  <2>. QED BY <2>2, <2>3, AspathsWrite DEF PolicyInv
<1>. QED BY <1>1, <1>2

(* A line joins a community list, or leaves it. *)
LEMMA EntrySet ==
  ASSUME NEW row, CommunityOK(row), NEW action \in Actions, NEW line \in Lines
  PROVE  CommunityOK(SetEntry(row, action, line)) /\ SetEntry(row, action, line).name = row.name
<1>1. CASE action = "permit"
  <2>. DEFINE w == [row EXCEPT !.permit = @ \cup {line}]
  <2>1. /\ IsCommunity(w) /\ w.name = row.name /\ w.type = row.type
        /\ w.permit = row.permit \cup {line} /\ w.deny = row.deny
    BY DEF CommunityOK, IsCommunity
  <2>2. CommunityOK(w)
    BY <2>1 DEF CommunityOK
  <2>3. SetEntry(row, action, line) = w
    BY <1>1 DEF SetEntry, set_community_permit_entry_in_ovsdb
  <2>. QED BY <2>1, <2>2, <2>3
<1>2. CASE action = "deny"
  <2>. DEFINE w == [row EXCEPT !.deny = @ \cup {line}]
  <2>1. /\ IsCommunity(w) /\ w.name = row.name /\ w.type = row.type
        /\ w.deny = row.deny \cup {line} /\ w.permit = row.permit
    BY DEF CommunityOK, IsCommunity
  <2>2. CommunityOK(w)
    BY <2>1 DEF CommunityOK
  <2>3. SetEntry(row, action, line) = w
    BY <1>2 DEF SetEntry, set_community_deny_entry_in_ovsdb
  <2>. QED BY <2>1, <2>2, <2>3
<1>. QED BY <1>1, <1>2 DEF Actions

(* A line leaves a community list. *)
LEMMA LineLeaves ==
  ASSUME NEW row, CommunityOK(row), NEW action \in Actions, NEW line
  PROVE  LET w == [row EXCEPT ![action] = @ \ {line}]
         IN  CommunityOK(w) /\ w.name = row.name
<1>1. CASE action = "permit"
  <2>. DEFINE w == [row EXCEPT !.permit = @ \ {line}]
  <2>1. /\ IsCommunity(w) /\ w.name = row.name /\ w.type = row.type
        /\ w.permit = row.permit \ {line} /\ w.deny = row.deny
    BY DEF CommunityOK, IsCommunity
  <2>2. CommunityOK(w)
    BY <2>1 DEF CommunityOK
  <2>3. [row EXCEPT ![action] = @ \ {line}] = w
    BY <1>1
  <2>. QED BY <2>1, <2>2, <2>3
<1>2. CASE action = "deny"
  <2>. DEFINE w == [row EXCEPT !.deny = @ \ {line}]
  <2>1. /\ IsCommunity(w) /\ w.name = row.name /\ w.type = row.type
        /\ w.deny = row.deny \ {line} /\ w.permit = row.permit
    BY DEF CommunityOK, IsCommunity
  <2>2. CommunityOK(w)
    BY <2>1 DEF CommunityOK
  <2>3. [row EXCEPT ![action] = @ \ {line}] = w
    BY <1>2
  <2>. QED BY <2>1, <2>2, <2>3
<1>. QED BY <1>1, <1>2 DEF Actions

(* "ip community-list NAME" and "ip extcommunity-list NAME". *)
LEMMA SetCommunityKeeps ==
  ASSUME PolicyInv, NEW name, NEW type \in CommunityTypes, NEW action \in Actions,
         NEW line \in Lines, policy_set_community_filter_list_in_ovsdb(name, type, action, line)
  PROVE  PolicyInv'
<1>1. CASE db' = db
  BY <1>1 DEF PolicyInv
<1>2. CASE db' # db
  <2>. DEFINE R == db.community_filters
              named == {row \in R : row.name = name}
              joined == {SetEntry(row, action, line) : row \in named}
              empty == [name |-> name, type |-> type, permit |-> {}, deny |-> {}]
              new == SetEntry(empty, action, line)
  <2>1. \E rows : /\ rows = named \/ rows = joined \/ rows = {new}
                  /\ db' = [db EXCEPT !.community_filters = (R \ named) \cup rows]
    BY Zenon, <1>2 DEF policy_set_community_filter_list_in_ovsdb, START_DB_TXN, END_DB_TXN, Finish, Crash,
                policy_get_bgp_community_filter_name_in_ovsdb
  <2>2. CommunitiesOK(R)
    BY DEF PolicyInv, TablesOK
  <2>3. /\ \A r \in named : CommunityOK(r) /\ r.name = name
        /\ \A r, s \in named : r = s
    BY <2>2 DEF CommunitiesOK
  <2>4. /\ \A r \in joined : CommunityOK(r) /\ r.name = name
        /\ \A r, s \in joined : r = s
    <3>1. \A r \in joined : CommunityOK(r) /\ r.name = name
      <4>. TAKE r \in joined
      <4>1. PICK row \in named : r = SetEntry(row, action, line)
        OBVIOUS
      <4>. QED BY <4>1, <2>3, EntrySet
    <3>2. \A r, s \in joined : r = s
      BY <2>3
    <3>. QED BY <3>1, <3>2
  <2>5. CommunityOK(new) /\ new.name = name
    <3>1. CommunityOK(empty) /\ empty.name = name
      BY DEF CommunityOK, IsCommunity
    <3>. HIDE DEF empty
    <3>. QED BY <3>1, EntrySet
  <2>. HIDE DEF joined, new
  <2>6. PICK rows : /\ rows = named \/ rows = joined \/ rows = {new}
                    /\ db' = [db EXCEPT !.community_filters = (R \ named) \cup rows]
    BY ZenonT(60), <2>1
  <2>7. /\ \A r \in rows : CommunityOK(r) /\ r.name = name
        /\ \A r, s \in rows : r = s
    <3>1. CASE rows = named
      BY <3>1, <2>3
    <3>2. CASE rows = joined
      BY <3>2, <2>4
    <3>3. CASE rows = {new}
      BY <3>3, <2>5
    <3>. QED BY <2>6, <3>1, <3>2, <3>3
  <2>8. CommunitiesOK((R \ named) \cup rows)
    BY Zenon, <2>2, <2>7, CommunitiesReplaced
  <2>. QED BY Zenon, <2>6, <2>8, CommunitiesWrite DEF PolicyInv
<1>. QED BY <1>1, <1>2

(* "no ip community-list NAME". *)
LEMMA NoCommunityKeeps ==
  ASSUME PolicyInv, NEW type, NEW name, policy_no_community_filter_name_in_ovsdb(type, name)
  PROVE  PolicyInv'
<1>1. CASE db' = db
  BY <1>1 DEF PolicyInv
<1>2. CASE db' # db
  <2>1. PICK row : db' = [db EXCEPT !.community_filters = db.community_filters \ {row}]
    BY <1>2 DEF policy_no_community_filter_name_in_ovsdb, START_DB_TXN, END_DB_TXN, ERRONEOUS_DB_TXN,
                Finish, Crash
  <2>2. CommunitiesOK(db.community_filters \ {row})
    BY Zenon, CommunitiesRemoved DEF PolicyInv, TablesOK
  <2>. QED BY <2>1, <2>2, CommunitiesWrite DEF PolicyInv
<1>. QED BY <1>1, <1>2

(* "no ip community-list NAME ACTION LINE": the rows of the name and the type
   are the rows of the name, since there is only one. *)
LEMMA NoCommunityLineKeeps ==
  ASSUME PolicyInv, NEW type, NEW name, NEW action \in Actions, NEW line,
         policy_no_community_filter_list_in_ovsdb(type, name, action, line)
  PROVE  PolicyInv'
<1>1. CASE db' = db
  BY <1>1 DEF PolicyInv
<1>2. CASE db' # db
  <2>. DEFINE R == db.community_filters
              named == {row \in R : row.name = name}
              rows == policy_get_bgp_community_filter_in_ovsdb(name, type)
              left == {[row EXCEPT ![action] = @ \ {line}] : row \in rows}
  <2>1. /\ policy_get_bgp_community_filter_list_in_ovsdb(name, type, action, line) # {}
        /\ db' = [db EXCEPT !.community_filters = (R \ rows) \cup left]
    BY <1>2 DEF policy_no_community_filter_list_in_ovsdb, START_DB_TXN, END_DB_TXN, ERRONEOUS_DB_TXN,
                Finish, Crash
  <2>2. CommunitiesOK(R)
    BY DEF PolicyInv, TablesOK
  <2>3. rows # {}
    BY <2>1 DEF policy_get_bgp_community_filter_list_in_ovsdb
  <2>4. rows = named
    BY <2>2, <2>3 DEF policy_get_bgp_community_filter_in_ovsdb, CommunitiesOK
  <2>. HIDE DEF rows
  <2>5. \A r, s \in rows : r = s
    BY SMTT(60), <2>2, <2>4 DEF CommunitiesOK
  <2>6. \A r \in left : CommunityOK(r) /\ r.name = name
    <3>. TAKE r \in left
    <3>1. PICK row \in rows : r = [row EXCEPT ![action] = @ \ {line}]
      OBVIOUS
    <3>2. CommunityOK(row) /\ row.name = name
      BY <2>2, <2>4 DEF CommunitiesOK
    <3>. QED BY Zenon, <3>1, <3>2, LineLeaves
  <2>7. \A r, s \in left : r = s
    BY <2>5
  <2>. HIDE DEF left
  <2>8. CommunitiesOK((R \ named) \cup left)
    BY Zenon, <2>2, <2>6, <2>7, CommunitiesReplaced
  <2>. QED BY <2>1, <2>4, <2>8, CommunitiesWrite DEF PolicyInv
<1>. QED BY <1>1, <1>2

-------------------------------------------------------------------------------
(* Route maps.  A map is put, or removed. *)
LEMMA PutMap ==
  ASSUME NEW m, MapsOK(m), NEW n, NEW map, MapOK(map)
  PROVE  MapsOK(Put(m, n, map))
BY DEF MapsOK, IsMap, Put

(* A map is removed. *)
LEMMA DropMap ==
  ASSUME NEW m, MapsOK(m), NEW n
  PROVE  MapsOK(Drop(m, n))
BY DEF MapsOK, IsMap, Drop

(* An entry is put. *)
LEMMA PutMapEntry ==
  ASSUME NEW m, MapOK(m), NEW p, NEW e, MapEntryOK(e)
  PROVE  MapOK(Put(m, p, e))
BY DEF MapOK, IsMap, Put

(* An entry is removed. *)
LEMMA DropMapEntry ==
  ASSUME NEW m, MapOK(m), NEW p
  PROVE  MapOK(Drop(m, p))
BY DEF MapOK, IsMap, Drop

(* The map of a name, or the empty map. *)
LEMMA MapRead ==
  ASSUME PolicyInv, NEW name
  PROVE  MapOK(IF name \in DOMAIN db.route_maps THEN db.route_maps[name] ELSE EmptyMap)
<1>1. CASE name \in DOMAIN db.route_maps
  BY <1>1 DEF PolicyInv, TablesOK, MapsOK
<1>2. CASE name \notin DOMAIN db.route_maps
  BY <1>2, EmptyIsMap DEF MapOK
<1>. QED BY <1>1, <1>2

(* A map is put into the table. *)
LEMMA PutMapKeeps ==
  ASSUME PolicyInv, NEW name, NEW map, MapOK(map),
         db' = [db EXCEPT !.route_maps = Put(@, name, map)]
  PROVE  PolicyInv'
<1>1. MapsOK(Put(db.route_maps, name, map))
  BY PutMap DEF PolicyInv, TablesOK
<1>. QED BY <1>1, MapsWrite DEF PolicyInv

(* The same, of a name that is there. *)
LEMMA ExceptMapKeeps ==
  ASSUME PolicyInv, NEW name \in DOMAIN db.route_maps, NEW map, MapOK(map),
         db' = [db EXCEPT !.route_maps[name] = map]
  PROVE  PolicyInv'
<1>1. IsMap(db.route_maps)
  BY DEF PolicyInv, TablesOK, MapsOK
<1>2. [db.route_maps EXCEPT ![name] = map] = Put(db.route_maps, name, map)
  BY <1>1, ExceptIsPut
<1>3. db' = [db EXCEPT !.route_maps = Put(@, name, map)]
  BY <1>2
<1>. QED BY <1>3, PutMapKeeps

(* "route-map NAME (deny|permit) N". *)
LEMMA SetRouteMapKeeps ==
  ASSUME PolicyInv, NEW name, NEW action, NEW pref,
         policy_set_route_map_in_ovsdb(name, action, pref)
  PROVE  PolicyInv'
<1>1. CASE db' = db
  BY <1>1 DEF PolicyInv
<1>2. CASE db' # db
  <2>. DEFINE map == IF name \in DOMAIN db.route_maps THEN db.route_maps[name] ELSE EmptyMap
              entry == [action |-> action, description |-> "", match |-> EmptyMap, set |-> EmptyMap]
  <2>1. \E m \in SortUnique(map, pref, entry) :
          db' = [db EXCEPT !.route_maps = Put(@, name, m)]
    BY Zenon, <1>2 DEF policy_set_route_map_in_ovsdb, START_DB_TXN, END_DB_TXN, Finish, Crash,
                bgp_route_map_entry_insert_to_route_map
  <2>2. MapOK(map)
    BY MapRead
  <2>3. MapEntryOK(entry)
    BY EmptyIsMap DEF MapEntryOK, IsMapEntry, MatchOK, SetOK
  <2>. HIDE DEF map, entry
  <2>4. PICK m \in SortUnique(map, pref, entry) : db' = [db EXCEPT !.route_maps = Put(@, name, m)]
    BY <2>1
  <2>5. m = Put(map, pref, entry) \/ m = map
    BY <2>4 DEF SortUnique
  <2>6. MapOK(m)
    BY SMTT(60), <2>2, <2>3, <2>5, PutMapEntry
  <2>. QED BY SMTT(60), <2>4, <2>6, PutMapKeeps
<1>. QED BY <1>1, <1>2

(* "no route-map NAME". *)
LEMMA NoRouteMapKeeps ==
  ASSUME PolicyInv, NEW name, cli_no_route_map_all_cmd_execute(name)
  PROVE  PolicyInv'
<1>1. CASE db' = db
  BY <1>1 DEF PolicyInv
<1>2. CASE db' # db
  <2>1. db' = [db EXCEPT !.route_maps = Drop(@, name)]
    BY <1>2 DEF cli_no_route_map_all_cmd_execute, START_DB_TXN, END_DB_TXN, ERRONEOUS_DB_TXN, Finish,
                Crash
  <2>2. MapsOK(Drop(db.route_maps, name))
    BY DropMap DEF PolicyInv, TablesOK
  <2>. QED BY <2>1, <2>2, MapsWrite DEF PolicyInv
<1>. QED BY <1>1, <1>2

(* An entry leaves its map. *)
LEMMA EntryLeavesKeeps ==
  ASSUME PolicyInv, NEW name \in DOMAIN db.route_maps, NEW pref,
         db' = [db EXCEPT !.route_maps[name] = Drop(@, pref)]
  PROVE  PolicyInv'
<1>1. MapOK(db.route_maps[name])
  BY DEF PolicyInv, TablesOK, MapsOK
<1>2. MapOK(Drop(db.route_maps[name], pref))
  BY SMTT(60), <1>1, DropMapEntry
<1>. QED BY <1>2, ExceptMapKeeps

(* "no route-map NAME (deny|permit) N". *)
LEMMA NoRouteMapEntryKeeps ==
  ASSUME PolicyInv, NEW name, NEW action, NEW pref,
         cli_no_route_map_cmd_execute(name, action, pref)
  PROVE  PolicyInv'
<1>1. CASE db' = db
  BY <1>1 DEF PolicyInv
<1>2. CASE db' # db
  <2>1. /\ name \in DOMAIN db.route_maps
        /\ db' = [db EXCEPT !.route_maps[name] = Drop(@, pref)]
    BY <1>2 DEF cli_no_route_map_cmd_execute, START_DB_TXN, END_DB_TXN, ERRONEOUS_DB_TXN, Finish,
                Crash, bgp_route_map_entry_remove_from_route_map, policy_get_route_map_entry_in_ovsdb
  <2>. QED BY <2>1, EntryLeavesKeeps
<1>. QED BY <1>1, <1>2

(* Another session removes an entry. *)
LEMMA OtherSessionKeeps ==
  ASSUME PolicyInv, OtherSession
  PROVE  PolicyInv'
BY ZenonT(60), EntryLeavesKeeps DEF OtherSession

-------------------------------------------------------------------------------
(* The commands of the context.  The entry they work on, and its replacement. *)
LEMMA ContextRead ==
  ASSUME PolicyInv, HasContextEntry
  PROVE  /\ rmp_context[1].name \in DOMAIN db.route_maps
         /\ rmp_context[1].pref \in DOMAIN db.route_maps[rmp_context[1].name]
         /\ MapEntryOK(ContextEntry)
BY DEF PolicyInv, TablesOK, MapsOK, MapOK, HasContextEntry, ContextEntry,
       policy_get_route_map_entry_in_ovsdb

(* The replacement. *)
LEMMA ContextWriteKeeps ==
  ASSUME PolicyInv, HasContextEntry, NEW e, MapEntryOK(e), db' = WithContextEntry(e)
  PROVE  PolicyInv'
<1>. DEFINE n == rmp_context[1].name
            p == rmp_context[1].pref
            map == db.route_maps[n]
<1>1. n \in DOMAIN db.route_maps /\ p \in DOMAIN map
  BY ContextRead
<1>2. MapOK(map)
  BY SMTT(60), <1>1 DEF PolicyInv, TablesOK, MapsOK
<1>3. db' = [db EXCEPT !.route_maps[n] = [map EXCEPT ![p] = e]]
  BY DEF WithContextEntry
<1>. HIDE DEF n, p
<1>4. [map EXCEPT ![p] = e] = Put(map, p, e)
  BY <1>1, <1>2, ExceptIsPut DEF MapOK
<1>5. MapOK(Put(map, p, e))
  BY SMTT(60), <1>2, PutMapEntry
<1>6. db' = [db EXCEPT !.route_maps[n] = Put(map, p, e)]
  BY <1>3, <1>4
<1>. QED BY SMTT(60), <1>1, <1>5, <1>6, ExceptMapKeeps

(* The keys the commands write are keys that are printed. *)
LEMMA KeysPrinted ==
  /\ \A c \in DOMAIN match_table : match_table[c] \in DOMAIN MatchWords
  /\ \A c \in DOMAIN set_table :
       /\ set_table[c] \in DOMAIN SetWords
       /\ set_table[c] = "atomic_aggregate" => c = "atomic-aggregate"
<1>1. \A c \in DOMAIN match_table : match_table[c] \in DOMAIN MatchWords
  BY Zenon DEF match_table, MatchWords
<1>2. \A c \in DOMAIN set_table : set_table[c] \in DOMAIN SetWords
  BY Zenon DEF set_table, SetWords
<1>3. \A c \in DOMAIN set_table : set_table[c] = "atomic_aggregate" => c = "atomic-aggregate"
  BY ZenonT(60) DEF set_table
<1>. QED BY <1>1, <1>2, <1>3

(* A clause is replaced, or removed. *)
LEMMA MatchReplaced ==
  ASSUME NEW m, MatchOK(m), NEW key \in DOMAIN MatchWords, NEW arg
  PROVE  MatchOK(Replaced(m, key, arg))
<1>. DEFINE W == DOMAIN MatchWords
<1>1. IsMap(m) /\ DOMAIN m \subseteq W
  BY DEF MatchOK
<1>. HIDE DEF W
<1>2. IsMap(Put(m, key, arg)) /\ DOMAIN Put(m, key, arg) = DOMAIN m \cup {key}
  BY DEF IsMap, Put
<1>3. IsMap(Drop(m, key)) /\ DOMAIN Drop(m, key) = DOMAIN m \ {key}
  BY DEF IsMap, Drop
<1>4. key \in W
  BY DEF W
<1>5. IsMap(Replaced(m, key, arg)) /\ DOMAIN Replaced(m, key, arg) \subseteq W
  BY SMTT(60), <1>1, <1>2, <1>3, <1>4 DEF Replaced
<1>. QED BY <1>5 DEF MatchOK, W

(* The same for the set clauses. *)
LEMMA SetReplaced ==
  ASSUME NEW m, SetOK(m), NEW key \in DOMAIN SetWords, NEW arg,
         key = "atomic_aggregate" => arg = NULL \/ arg = <<"true">>
  PROVE  SetOK(Replaced(m, key, arg))
<1>. DEFINE W == DOMAIN SetWords
            a == "atomic_aggregate"
            true == <<"true">>
<1>1. IsMap(m) /\ DOMAIN m \subseteq W /\ (a \in DOMAIN m => m[a] = true)
  BY DEF SetOK
<1>2. key \in W /\ (key = a => arg = NULL \/ arg = true)
  OBVIOUS
<1>. HIDE DEF W, a, true
<1>3. /\ IsMap(Put(m, key, arg)) /\ DOMAIN Put(m, key, arg) = DOMAIN m \cup {key}
      /\ \A k \in DOMAIN m \cup {key} : Put(m, key, arg)[k] = IF k = key THEN arg ELSE m[k]
  BY DEF IsMap, Put
<1>4. /\ IsMap(Drop(m, key)) /\ DOMAIN Drop(m, key) = DOMAIN m \ {key}
      /\ \A k \in DOMAIN m \ {key} : Drop(m, key)[k] = m[k]
  BY DEF IsMap, Drop
<1>. DEFINE w == Replaced(m, key, arg)
<1>5. CASE arg = NULL
  <2>1. w = Drop(m, key)
    BY <1>5 DEF Replaced
  <2>. HIDE DEF w
  <2>2. IsMap(w) /\ DOMAIN w \subseteq W /\ (a \in DOMAIN w => w[a] = true)
    BY SMTT(60), <1>1, <1>4, <2>1
  <2>. QED BY <2>2 DEF SetOK, W, a, true, w
<1>6. CASE arg # NULL
  <2>1. w = Put(m, key, arg)
    BY <1>6 DEF Replaced
  <2>. HIDE DEF w
  <2>2. IsMap(w) /\ DOMAIN w \subseteq W /\ (a \in DOMAIN w => w[a] = true)
    BY ZenonT(60), <1>1, <1>2, <1>3, <1>6, <2>1
  <2>. QED BY <2>2 DEF SetOK, W, a, true, w
<1>. QED BY <1>5, <1>6

(* "description" and "no description" in the context. *)
LEMMA DescriptionKeeps ==
  ASSUME PolicyInv, NEW line, policy_set_route_map_description_in_ovsdb(line)
  PROVE  PolicyInv'
<1>1. CASE db' = db
  BY <1>1 DEF PolicyInv
<1>2. CASE db' # db
  <2>1. HasContextEntry /\ db' = WithContextEntry([ContextEntry EXCEPT !.description = line])
    BY <1>2 DEF policy_set_route_map_description_in_ovsdb, InContext, START_DB_TXN, END_DB_TXN, Finish,
                Crash
  <2>2. MapEntryOK([ContextEntry EXCEPT !.description = line])
    <3>1. MapEntryOK(ContextEntry)
      BY <2>1, ContextRead
    <3>. QED BY <3>1 DEF MapEntryOK, IsMapEntry
  <2>. QED BY <2>1, <2>2, ContextWriteKeeps
<1>. QED BY <1>1, <1>2

(* A match clause. *)
LEMMA MatchKeeps ==
  ASSUME PolicyInv, NEW command \in DOMAIN match_table, NEW arg,
         policy_set_route_map_match_in_ovsdb(command, arg)
  PROVE  PolicyInv'
<1>1. CASE db' = db
  BY <1>1 DEF PolicyInv
<1>2. CASE db' # db
  <2>. DEFINE key == match_table[command]
              m == Replaced(ContextEntry.match, key, arg)
  <2>1. HasContextEntry /\ db' = WithContextEntry([ContextEntry EXCEPT !.match = m])
    BY <1>2 DEF policy_set_route_map_match_in_ovsdb, InContext, START_DB_TXN, END_DB_TXN, Finish,
                Crash, policy_cmd_to_key_lookup
  <2>2. MapEntryOK(ContextEntry)
    BY <2>1, ContextRead
  <2>3. key \in DOMAIN MatchWords
    BY KeysPrinted
  <2>. HIDE DEF key
  <2>4. MatchOK(m)
    BY <2>2, <2>3, MatchReplaced DEF MapEntryOK
  <2>. HIDE DEF m
  <2>5. MapEntryOK([ContextEntry EXCEPT !.match = m])
    BY <2>2, <2>4 DEF MapEntryOK, IsMapEntry
  <2>. QED BY <2>1, <2>5, ContextWriteKeeps
<1>. QED BY <1>1, <1>2

(* A set clause. *)
LEMMA SetKeeps ==
  ASSUME PolicyInv, NEW command \in DOMAIN set_table, NEW arg,
         command = "atomic-aggregate" => arg = NULL \/ arg = <<"true">>,
         policy_set_route_map_set_in_ovsdb(command, arg) \/ SetUnreported(command, arg)
  PROVE  PolicyInv'
<1>1. CASE db' = db
  BY <1>1 DEF PolicyInv
<1>2. CASE db' # db
  <2>. DEFINE key == set_table[command]
              s == Replaced(ContextEntry.set, key, arg)
  <2>1. HasContextEntry /\ db' = WithContextEntry([ContextEntry EXCEPT !.set = s])
    BY <1>2 DEF policy_set_route_map_set_in_ovsdb, SetUnreported, InContext, START_DB_TXN, END_DB_TXN,
                EndUnreported, Finish, Crash, policy_cmd_to_key_lookup
  <2>2. MapEntryOK(ContextEntry)
    BY <2>1, ContextRead
  <2>3. key \in DOMAIN SetWords /\ (key = "atomic_aggregate" => arg = NULL \/ arg = <<"true">>)
    BY KeysPrinted
  <2>. HIDE DEF key
  <2>4. SetOK(s)
    BY <2>2, <2>3, SetReplaced DEF MapEntryOK
  <2>. HIDE DEF s
  <2>5. MapEntryOK([ContextEntry EXCEPT !.set = s])
    BY <2>2, <2>4 DEF MapEntryOK, IsMapEntry
  <2>. QED BY <2>1, <2>5, ContextWriteKeeps
<1>. QED BY <1>1, <1>2

(* "set aggregator as". *)
LEMMA AggregatorKeeps ==
  ASSUME PolicyInv, policy_set_route_map_set_aggregator_as_in_ovsdb
  PROVE  PolicyInv'
<1>1. CASE db' = db
  BY <1>1 DEF PolicyInv
<1>2. CASE db' # db
  <2>. DEFINE key == set_table["aggregator as"]
  <2>1. \E arg : /\ HasContextEntry
                 /\ db' = WithContextEntry([ContextEntry EXCEPT !.set = Put(ContextEntry.set, key, arg)])
    BY Zenon, <1>2 DEF policy_set_route_map_set_aggregator_as_in_ovsdb, RefuseInContext, Refuse, InContext,
                START_DB_TXN, Finish, Crash
  <2>2. key = "aggregator_as" /\ key \in DOMAIN SetWords
    BY DEF set_table, SetWords
  <2>. HIDE DEF key
  <2>3. PICK arg : /\ HasContextEntry
                   /\ db' = WithContextEntry([ContextEntry EXCEPT !.set = Put(ContextEntry.set, key, arg)])
    BY <2>1
  <2>. DEFINE s == Put(ContextEntry.set, key, arg)
  <2>4. MapEntryOK(ContextEntry)
    BY <2>3, ContextRead
  <2>5. SetOK(ContextEntry.set)
    BY <2>4 DEF MapEntryOK
  <2>6. SetOK(s)
    <3>. DEFINE W == DOMAIN SetWords
                m == ContextEntry.set
    <3>1. IsMap(m) /\ DOMAIN m \subseteq W
      BY <2>5 DEF SetOK
    <3>. HIDE DEF W
    <3>2. IsMap(s) /\ DOMAIN s = DOMAIN m \cup {key}
      BY DEF IsMap, Put
    <3>3. \A k \in DOMAIN m : k # key => s[k] = m[k]
      BY DEF Put
    <3>. HIDE DEF s
    <3>4. DOMAIN s \subseteq W
      BY <2>2, <3>1, <3>2 DEF W
    <3>5. "atomic_aggregate" \in DOMAIN s => s["atomic_aggregate"] = <<"true">>
      BY <2>2, <2>5, <3>2, <3>3 DEF SetOK
    <3>. QED BY <3>2, <3>4, <3>5 DEF SetOK, W
  <2>. HIDE DEF s
  <2>7. MapEntryOK([ContextEntry EXCEPT !.set = s])
    BY <2>4, <2>6 DEF MapEntryOK, IsMapEntry
  <2>8. HasContextEntry /\ db' = WithContextEntry([ContextEntry EXCEPT !.set = s])
    BY <2>3 DEF s
  <2>. QED BY <2>7, <2>8, ContextWriteKeeps
<1>. QED BY <1>1, <1>2

-------------------------------------------------------------------------------
(* The commands, group by group: prefix lists. *)
LEMMA PrefixListNextKeeps ==
  ASSUME PolicyConstants, PolicyInv, PrefixListNext
  PROVE  PolicyInv'
<1>0. /\ 0 \in Lengths /\ "AFI_IP" \in AFIs /\ "AFI_IP6" \in AFIs
      /\ \A afi \in AFIs : AnyPrefix \in Typed(afi)
  BY Zenon DEF PolicyConstants, AFIs, Typed
<1>1. ASSUME NEW name \in ListNames, NEW seq \in Seqs, NEW action \in Actions,
             \/ ip_prefix_list_seq(name, seq, action) \/ ip_prefix_list_seq_any(name, seq, action)
             \/ ipv6_prefix_list_seq(name, seq, action) \/ ipv6_prefix_list_seq_any(name, seq, action)
      PROVE  PolicyInv'
  <2>1. \E afi \in AFIs : \E prefix \in Typed(afi), ge, le \in Lengths :
          policy_set_prefix_list_in_ovsdb(afi, name, seq, action, prefix, ge, le)
    BY <1>0, <1>1 DEF ip_prefix_list_seq, ip_prefix_list_seq_any, ipv6_prefix_list_seq,
                      ipv6_prefix_list_seq_any
  <2>. QED BY <2>1, SetPrefixListKeeps
<1>2. ASSUME NEW name \in ListNames, NEW seq \in Seqs, NEW action \in Actions,
             \/ no_ip_prefix_list_seq(name, seq, action) \/ no_ip_prefix_list_seq_any(name, seq, action)
             \/ no_ipv6_prefix_list_seq(name, seq, action)
             \/ no_ipv6_prefix_list_seq_any(name, seq, action)
      PROVE  PolicyInv'
  <2>1. \E afi \in AFIs : \E prefix \in Typed(afi), ge, le \in Lengths :
          cli_no_ip_prefix_list_seq_cmd_execute(afi, name, seq, action, prefix, ge, le)
    BY <1>0, <1>2 DEF no_ip_prefix_list_seq, no_ip_prefix_list_seq_any, no_ipv6_prefix_list_seq,
                      no_ipv6_prefix_list_seq_any
  <2>. QED BY <2>1, NoEntryKeeps
<1>3. ASSUME NEW name \in ListNames,
             \/ ipv6_prefix_list_line(name) \/ no_ipv6_prefix_list_line(name)
             \/ no_ip_prefix_list(name) \/ no_ipv6_prefix_list(name)
      PROVE  PolicyInv'
  BY <1>3, SetDescriptionKeeps, NoDescriptionKeeps, NoPrefixListKeeps
     DEF ipv6_prefix_list_line, no_ipv6_prefix_list_line, no_ip_prefix_list, no_ipv6_prefix_list
<1>. QED BY <1>1, <1>2, <1>3 DEF PrefixListNext

(* Filters. *)
LEMMA FilterListNextKeeps ==
  ASSUME PolicyInv, FilterListNext
  PROVE  PolicyInv'
<1>r. ASSUME NEW result, Refuse(result)
      PROVE  PolicyInv'
  BY <1>r DEF Refuse, PolicyInv
<1>1. ASSUME NEW name \in ListNames, NEW action \in Actions, ip_as_path(name, action)
      PROVE  PolicyInv'
  BY <1>1, <1>r, SetAspathKeeps DEF ip_as_path
<1>2. ASSUME NEW name \in ListNames, NEW action \in Actions, no_ip_as_path(name, action)
      PROVE  PolicyInv'
  BY <1>2, NoAspathKeeps DEF no_ip_as_path
<1>3. ASSUME NEW name \in ListNames, no_ip_as_path_all(name)
      PROVE  PolicyInv'
  BY <1>3, NoAspathKeeps DEF no_ip_as_path_all
<1>4. ASSUME NEW name \in ListNames, NEW action \in Actions,
             ip_community_list(name, action) \/ ip_extcommunity_list(name, action)
      PROVE  PolicyInv'
  <2>1. "community-list" \in CommunityTypes /\ "extcommunity-list" \in CommunityTypes
    BY DEF CommunityTypes
  <2>. QED BY <2>1, <1>4, <1>r, SetCommunityKeeps DEF ip_community_list, ip_extcommunity_list
<1>5. ASSUME NEW name \in ListNames, NEW action \in Actions,
             no_ip_community_list_line(name, action) \/ no_ip_extcommunity_list_line(name, action)
      PROVE  PolicyInv'
  BY <1>5, NoCommunityLineKeeps DEF no_ip_community_list_line, no_ip_extcommunity_list_line
<1>6. ASSUME NEW name \in ListNames, no_ip_community_list(name) \/ no_ip_extcommunity_list(name)
      PROVE  PolicyInv'
  BY <1>6, NoCommunityKeeps DEF no_ip_community_list, no_ip_extcommunity_list
<1>. QED BY ZenonT(60), <1>1, <1>2, <1>3, <1>4, <1>5, <1>6 DEF FilterListNext

(* Route maps. *)
LEMMA RouteMapNextKeeps ==
  ASSUME PolicyInv, RouteMapNext
  PROVE  PolicyInv'
<1>1. ASSUME NEW name \in ListNames, NEW action \in Actions, NEW pref \in Seqs,
             \/ policy_set_route_map_in_ovsdb(name, action, pref)
             \/ cli_no_route_map_cmd_execute(name, action, pref)
      PROVE  PolicyInv'
  BY <1>1, SetRouteMapKeeps, NoRouteMapEntryKeeps
<1>2. ASSUME NEW name \in ListNames, cli_no_route_map_all_cmd_execute(name)
      PROVE  PolicyInv'
  BY <1>2, NoRouteMapKeeps
<1>3. CASE rmap_description \/ no_rmap_description
  BY Zenon, <1>3, DescriptionKeeps DEF rmap_description, no_rmap_description
<1>. QED BY <1>1, <1>2, <1>3, OtherSessionKeeps DEF RouteMapNext

(* The match clauses. *)
LEMMA MatchNextKeeps ==
  ASSUME PolicyInv, MatchNext
  PROVE  PolicyInv'
<1>1. DOMAIN match_table = {"ip address prefix-list", "ipv6 address prefix-list", "community",
                            "extcommunity", "as-path", "origin", "metric", "ipv6 next-hop",
                            "probability"}
  BY DEF match_table
<1>2. \E command \in DOMAIN match_table : \E arg : policy_set_route_map_match_in_ovsdb(command, arg)
  <2>1. CASE \/ match_ip_address_prefix_list \/ no_match_ip_address_prefix_list
             \/ match_ipv6_address_prefix_list \/ no_match_ipv6_address_prefix_list
             \/ match_aspath \/ no_match_aspath \/ match_origin \/ no_match_origin
    BY Zenon, <1>1, <2>1 DEF match_ip_address_prefix_list, no_match_ip_address_prefix_list,
         match_ipv6_address_prefix_list, no_match_ipv6_address_prefix_list, match_aspath,
         no_match_aspath, match_origin, no_match_origin, Match
  <2>2. CASE \/ match_metric \/ no_match_metric \/ match_ipv6_next_hop \/ no_match_ipv6_next_hop
             \/ match_probability \/ no_match_probability
    BY Zenon, <1>1, <2>2 DEF match_metric, no_match_metric, match_ipv6_next_hop, no_match_ipv6_next_hop,
         match_probability, no_match_probability, Match
  <2>3. CASE \/ match_community \/ match_community_exact \/ no_match_community
             \/ match_ecommunity \/ no_match_ecommunity
    BY Zenon, <1>1, <2>3 DEF match_community, match_community_exact, no_match_community, match_ecommunity,
         no_match_ecommunity, Match
  <2>. QED BY <2>1, <2>2, <2>3 DEF MatchNext
<1>. QED BY <1>2, MatchKeeps

(* The set clauses. *)
LEMMA SetNextKeeps ==
  ASSUME PolicyInv, SetNext
  PROVE  PolicyInv'
<1>. DEFINE A(command, arg) ==
       policy_set_route_map_set_in_ovsdb(command, arg) \/ SetUnreported(command, arg)
<1>1. DOMAIN set_table = {"community", "metric", "aggregator as", "as-path exclude",
                          "as-path prepend", "atomic-aggregate", "comm-list", "extcommunity rt",
                          "extcommunity soo", "ipv6 next-hop global", "local-preference", "origin",
                          "weight"}
  BY DEF set_table
<1>2. CASE RefuseInContext("CMD_WARNING")
  BY <1>2 DEF RefuseInContext, Refuse, PolicyInv
<1>3. CASE policy_set_route_map_set_aggregator_as_in_ovsdb
  BY <1>3, AggregatorKeeps
<1>4. CASE set_atomic_aggregate \/ no_set_atomic_aggregate
  BY Zenon, <1>1, <1>4, SetKeeps DEF set_atomic_aggregate, no_set_atomic_aggregate
<1>5. CASE \E command \in DOMAIN set_table \ {"atomic-aggregate"} : \E arg : A(command, arg)
  BY <1>5, SetKeeps
<1>. DEFINE Other == \E command \in DOMAIN set_table \ {"atomic-aggregate"} : \E arg : A(command, arg)
<1>6. CASE \/ policy_set_route_map_set_as_path_exclude_str_in_ovsdb \/ no_set_aspath_exclude
           \/ policy_set_route_map_set_as_path_prepend_str_in_ovsdb \/ no_set_aspath_prepend
  <2>1. Other \/ RefuseInContext("CMD_WARNING")
    BY Zenon, <1>1, <1>6 DEF policy_set_route_map_set_as_path_exclude_str_in_ovsdb, no_set_aspath_exclude,
         policy_set_route_map_set_as_path_prepend_str_in_ovsdb, no_set_aspath_prepend
  <2>. QED BY <2>1, <1>2, <1>5
<1>7. CASE \/ set_origin \/ no_set_origin \/ set_ipv6_nexthop_global \/ no_set_ipv6_nexthop_global
           \/ set_metric \/ no_set_metric \/ set_ecommunity_rt \/ no_set_ecommunity_rt
           \/ set_ecommunity_soo \/ no_set_ecommunity_soo
  <2>1. Other
    BY Zenon, <1>1, <1>7 DEF set_origin, no_set_origin, set_ipv6_nexthop_global, no_set_ipv6_nexthop_global,
         set_metric, no_set_metric, set_ecommunity_rt, no_set_ecommunity_rt, set_ecommunity_soo,
         no_set_ecommunity_soo
  <2>. QED BY <2>1, <1>5
<1>8. CASE \/ policy_set_route_map_set_community_str_in_ovsdb \/ no_set_community
           \/ set_weight \/ no_set_weight \/ set_local_pref \/ no_set_local_pref
           \/ no_set_aggregator_as
           \/ policy_set_route_map_set_comm_list_str_in_ovsdb \/ no_set_community_delete
  <2>1. Other
    BY Zenon, <1>1, <1>8 DEF policy_set_route_map_set_community_str_in_ovsdb, no_set_community, set_weight,
         no_set_weight, set_local_pref, no_set_local_pref, no_set_aggregator_as,
         policy_set_route_map_set_comm_list_str_in_ovsdb, no_set_community_delete
  <2>. QED BY <2>1, <1>5
<1>. QED BY <1>3, <1>4, <1>6, <1>7, <1>8 DEF SetNext

(* The initial tables. *)
LEMMA PolicyInitKeeps ==
  ASSUME PolicyInit
  PROVE  PolicyInv
BY EmptyIsMap DEF PolicyInit, NoTables, PolicyInv, TablesOK, IsTables, ListsOK, AspathsOK,
                  CommunitiesOK, MapsOK

(* Whatever is typed, in this session or another, the tables are as TablesOK
   says. *)
THEOREM PolicyInvariant == ASSUME PolicyConstants PROVE PolicySpec => []PolicyInv
<1>1. PolicyInit => PolicyInv
  BY PolicyInitKeeps
<1>2. PolicyInv /\ [PolicyNext]_policyVars => PolicyInv'
  <2>1. ASSUME PolicyInv, PolicyNext
        PROVE  PolicyInv'
    BY ZenonT(60), <2>1, PrefixListNextKeeps, FilterListNextKeeps, RouteMapNextKeeps, MatchNextKeeps, SetNextKeeps
       DEF PolicyNext
  <2>2. ASSUME PolicyInv, UNCHANGED policyVars
        PROVE  PolicyInv'
    BY <2>2 DEF PolicyInv, policyVars
  <2>. QED BY <2>1, <2>2
<1>. QED BY <1>1, <1>2, PTL DEF PolicySpec

-------------------------------------------------------------------------------
(* What follows.  An entry of any list. *)
LEMMA EntriesStored ==
  ASSUME PolicyInv, NEW e \in Entries
  PROVE  EntryOK(e)
<1>1. PICK n \in DOMAIN db.prefix_lists : \E s \in DOMAIN db.prefix_lists[n].entries :
        e = db.prefix_lists[n].entries[s]
  BY DEF Entries
<1>2. ListOK(db.prefix_lists[n])
  BY DEF PolicyInv, TablesOK, ListsOK
<1>. QED BY <1>1, <1>2 DEF ListOK, EntriesOK

(* "any" is no prefix of either family, and a prefix is of one. *)
LEMMA Prefix6 ==
  ASSUME NEW afi \in AFIs, NEW n
  PROVE  /\ [afi |-> afi, len |-> n] # AnyPrefix
         /\ [afi |-> afi, len |-> n].afi = "AFI_IP6" <=> afi = "AFI_IP6"
         /\ MaxLen[afi] = IF afi = "AFI_IP6" THEN 128 ELSE 32
<1>1. [afi |-> afi, len |-> n] # AnyPrefix
  BY DEF AFIs, AnyPrefix
<1>. QED BY <1>1 DEF AFIs, MaxLen

(* "len < ge-value <= le-value" for every entry. *)
LEMMA RangeHolds ==
  ASSUME PolicyConstants, NEW e, EntryOK(e)
  PROVE  /\ e.ge # 0 => e.ge > e.prefix.len
         /\ e.le # 0 => e.le > e.prefix.len /\ e.ge <= e.le
         /\ e.ge # 0 => e.le # (IF Is6(e) THEN 128 ELSE 32)
<1>1. CASE e.prefix = AnyPrefix /\ e.ge = 0 /\ e.le \in {32, 128}
  BY <1>1 DEF AnyPrefix
<1>2. ASSUME NEW afi \in AFIs, NEW n \in PrefixLens[afi],
             e.prefix = [afi |-> afi, len |-> n] /\ RangeOK(afi, n, e.ge, e.le)
      PROVE  /\ e.ge # 0 => e.ge > e.prefix.len
             /\ e.le # 0 => e.le > e.prefix.len /\ e.ge <= e.le
             /\ e.ge # 0 => e.le # (IF Is6(e) THEN 128 ELSE 32)
  <2>1. e.prefix.len = n /\ (Is6(e) <=> afi = "AFI_IP6")
    BY <1>2 DEF Is6
  <2>2. MaxLen[afi] = IF afi = "AFI_IP6" THEN 128 ELSE 32
    BY Prefix6
  <2>. QED BY ZenonT(60), <1>2, <2>1, <2>2 DEF RangeOK
<1>. QED BY Zenon, <1>1, <1>2 DEF EntryOK

(* The invariant implies PolicyConsistent. *)
LEMMA InvImpliesConsistent ==
  ASSUME PolicyConstants, PolicyInv
  PROVE  PolicyConsistent
<1>1. RangesHold
  BY EntriesStored, RangeHolds DEF RangesHold
<1>2. OneRowPerName
  BY DEF PolicyInv, TablesOK, AspathsOK, CommunitiesOK, OneRowPerName
<1>. QED BY <1>1, <1>2 DEF PolicyConsistent

(* No entry of a prefix list is ever outside the range its command checks, and
   no two rows of filter lines have the same name. *)
THEOREM PolicyStaysConsistent == ASSUME PolicyConstants PROVE PolicySpec => []PolicyConsistent
<1>1. PolicyInv => PolicyConsistent
  BY SMTT(60), InvImpliesConsistent
<1>. QED BY <1>1, PolicyInvariant, PTL

(* What is printed of an entry stores it. *)
LEMMA EntryRestored ==
  ASSUME PolicyConstants, NEW e, EntryOK(e)
  PROVE  LET line == vtysh_router_context_bgp_ip_prefix_clientcallback(e)
         IN  /\ ~ vty_invalid_prefix_range(line.prefix, line.ge, line.le)
             /\ PrefixEntry(line.afi, e.action, line.prefix, line.ge, line.le) = e
<1>. DEFINE line == vtysh_router_context_bgp_ip_prefix_clientcallback(e)
<1>0. IsEntry(e) /\ e.ge \in Nat /\ e.le \in Nat
  BY DEF EntryOK
<1>1. CASE e.prefix = AnyPrefix /\ e.ge = 0 /\ e.le \in {32, 128}
  <2>1. ~ Is6(e)
    BY <1>1 DEF Is6, AnyPrefix
  <2>2. line = [afi |-> IF e.le = 128 THEN "AFI_IP6" ELSE "AFI_IP", prefix |-> AnyPrefix,
                ge |-> 0, le |-> 0]
    BY <1>1, <2>1 DEF vtysh_router_context_bgp_ip_prefix_clientcallback, Printed
  <2>. HIDE DEF line
  <2>3. line.prefix = AnyPrefix /\ MaxLen[line.afi] = e.le
    BY <1>1, <2>2 DEF MaxLen, AFIs
  <2>4. PrefixEntry(line.afi, e.action, line.prefix, line.ge, line.le)
          = [action |-> e.action, prefix |-> e.prefix, ge |-> 0, le |-> e.le]
    BY <1>1, <2>3 DEF PrefixEntry
  <2>5. PrefixEntry(line.afi, e.action, line.prefix, line.ge, line.le) = e
    BY <1>0, <1>1, <2>4 DEF IsEntry
  <2>. QED BY <2>3, <2>5 DEF vty_invalid_prefix_range, line
<1>2. ASSUME NEW afi \in AFIs, NEW n \in PrefixLens[afi],
             e.prefix = [afi |-> afi, len |-> n] /\ RangeOK(afi, n, e.ge, e.le)
      PROVE  /\ ~ vty_invalid_prefix_range(line.prefix, line.ge, line.le)
             /\ PrefixEntry(line.afi, e.action, line.prefix, line.ge, line.le) = e
  <2>1. e.prefix # AnyPrefix /\ (Is6(e) <=> afi = "AFI_IP6") /\ e.prefix.len = n
    BY <1>2, Prefix6 DEF Is6
  <2>2. n \in Nat
    <3>1. n \in 0 .. MaxLen[afi] /\ MaxLen[afi] \in {32, 128}
      BY ZenonT(60), Prefix6 DEF PolicyConstants
    <3>. QED BY <3>1
  <2>3. line = [afi |-> afi, prefix |-> e.prefix, ge |-> e.ge, le |-> e.le]
    <3>1. afi = IF Is6(e) THEN "AFI_IP6" ELSE "AFI_IP"
      BY <2>1 DEF AFIs
    <3>2. CASE e.ge = 0 /\ e.le = 0
      BY <2>1, <3>1, <3>2 DEF vtysh_router_context_bgp_ip_prefix_clientcallback, Printed
    <3>3. CASE ~ (e.ge = 0 /\ e.le = 0)
      BY ZenonT(60), <2>1, <3>1, <3>3 DEF vtysh_router_context_bgp_ip_prefix_clientcallback, Printed
    <3>. QED BY <3>2, <3>3
  <2>. HIDE DEF line
  <2>4. ~ vty_invalid_prefix_range(line.prefix, line.ge, line.le)
    BY SMTT(60), <1>0, <1>2, <2>1, <2>2, <2>3 DEF vty_invalid_prefix_range, RangeOK
  <2>5. PrefixEntry(line.afi, e.action, line.prefix, line.ge, line.le)
          = [action |-> e.action, prefix |-> e.prefix, ge |-> e.ge, le |-> e.le]
    BY ZenonT(60), <1>2, <2>1, <2>3 DEF PrefixEntry, RangeOK
  <2>. QED BY ZenonT(60), <1>0, <2>4, <2>5 DEF IsEntry
<1>. QED BY Zenon, <1>1, <1>2 DEF EntryOK

(* The words a match clause is printed under store it under its own key. *)
LEMMA MatchWordsInverse ==
  ASSUME NEW key \in DOMAIN MatchWords
  PROVE  /\ match_table[MatchWords[key]] = key
         /\ MatchWords[key] = "atomic-aggregate" <=> key = "atomic_aggregate"
<1>1. key \in {"prefix_list", "ipv6_prefix_list", "community", "extcommunity",
                             "as_path", "ipv6_next_hop", "metric", "origin", "probability"}
  BY DEF MatchWords
<1>2. CASE key = "prefix_list"
  BY <1>2 DEF MatchWords, match_table
<1>3. CASE key = "ipv6_prefix_list"
  BY <1>3 DEF MatchWords, match_table
<1>4. CASE key = "community"
  BY <1>4 DEF MatchWords, match_table
<1>5. CASE key = "extcommunity"
  BY <1>5 DEF MatchWords, match_table
<1>6. CASE key = "as_path"
  BY <1>6 DEF MatchWords, match_table
<1>7. CASE key = "ipv6_next_hop"
  BY <1>7 DEF MatchWords, match_table
<1>8. CASE key = "metric"
  BY <1>8 DEF MatchWords, match_table
<1>9. CASE key = "origin"
  BY <1>9 DEF MatchWords, match_table
<1>10. CASE key = "probability"
  BY <1>10 DEF MatchWords, match_table
<1>. QED BY ZenonT(60), <1>1, <1>2, <1>3, <1>4, <1>5, <1>6, <1>7, <1>8, <1>9, <1>10

(* The same for the set clauses. *)
LEMMA SetWordsInverse ==
  ASSUME NEW key \in DOMAIN SetWords
  PROVE  /\ set_table[SetWords[key]] = key
         /\ SetWords[key] = "atomic-aggregate" <=> key = "atomic_aggregate"
<1>1. key \in {"community", "metric", "aggregator_as", "as_path_exclude",
                             "as_path_prepend", "atomic_aggregate", "comm_list",
                             "extcommunity_rt", "extcommunity_soo", "ipv6_next_hop_global",
                             "local_preference", "origin", "weight"}
  BY DEF SetWords
<1>2. CASE key = "community"
  BY <1>2 DEF SetWords, set_table
<1>3. CASE key = "metric"
  BY <1>3 DEF SetWords, set_table
<1>4. CASE key = "aggregator_as"
  BY <1>4 DEF SetWords, set_table
<1>5. CASE key = "as_path_exclude"
  BY <1>5 DEF SetWords, set_table
<1>6. CASE key = "as_path_prepend"
  BY <1>6 DEF SetWords, set_table
<1>7. CASE key = "atomic_aggregate"
  BY <1>7 DEF SetWords, set_table
<1>8. CASE key = "comm_list"
  BY <1>8 DEF SetWords, set_table
<1>9. CASE key = "extcommunity_rt"
  BY <1>9 DEF SetWords, set_table
<1>10. CASE key = "extcommunity_soo"
  BY <1>10 DEF SetWords, set_table
<1>11. CASE key = "ipv6_next_hop_global"
  BY <1>11 DEF SetWords, set_table
<1>12. CASE key = "local_preference"
  BY <1>12 DEF SetWords, set_table
<1>13. CASE key = "origin"
  BY <1>13 DEF SetWords, set_table
<1>14. CASE key = "weight"
  BY <1>14 DEF SetWords, set_table
<1>. QED BY ZenonT(60), <1>1, <1>2, <1>3, <1>4, <1>5, <1>6, <1>7, <1>8, <1>9, <1>10, <1>11, <1>12, <1>13, <1>14

(* A map of clauses is restored from what is printed of it. *)
LEMMA ClausesAreRestored ==
  ASSUME NEW words, NEW table, NEW map, DOMAIN map \subseteq DOMAIN words,
         \A key \in DOMAIN words :
           /\ table[words[key]] = key
           /\ words[key] = "atomic-aggregate" <=> key = "atomic_aggregate",
         "atomic_aggregate" \in DOMAIN map => map["atomic_aggregate"] = <<"true">>
  PROVE  ClausesRestored(words, table, map)
<1>. DEFINE P(key) == <<words[key], IF key = "atomic_aggregate" THEN NULL ELSE map[key]>>
            R(c) == <<table[c[1]], IF c[1] = "atomic-aggregate" THEN <<"true">> ELSE c[2]>>
            C == {P(key) : key \in DOMAIN map}
            L == {R(c) : c \in C}
            M == {<<key, map[key]>> : key \in DOMAIN map}
<1>1. \A key \in DOMAIN map : R(P(key)) = <<key, map[key]>>
  <2>. TAKE key \in DOMAIN map
  <2>1. key \in DOMAIN words
    OBVIOUS
  <2>2. P(key)[1] = words[key] /\ P(key)[2] = IF key = "atomic_aggregate" THEN NULL ELSE map[key]
    OBVIOUS
  <2>3. CASE key = "atomic_aggregate"
    BY <2>1, <2>2, <2>3
  <2>4. CASE key # "atomic_aggregate"
    BY <2>1, <2>2, <2>4
  <2>. QED BY ZenonT(60), <2>3, <2>4
<1>2. L = {R(P(key)) : key \in DOMAIN map}
  <2>. HIDE DEF P, R
  <2>. QED OBVIOUS
<1>3. L = M
  <2>. HIDE DEF P, R, L
  <2>. QED BY <1>1, <1>2
<1>4. DOMAIN map \cap DOMAIN words = DOMAIN map
  OBVIOUS
<1>5. PrintedClauses(words, map) = C
  BY <1>4 DEF PrintedClauses
<1>6. ClausesRestored(words, table, map) <=> L = M
  BY <1>5 DEF ClausesRestored, policy_cmd_to_key_lookup
<1>. QED BY ZenonT(60), <1>3, <1>6

(* Every route map entry is restored. *)
LEMMA RouteMapsRestored ==
  ASSUME PolicyInv
  PROVE  RouteMapConfigRestores
<1>. SUFFICES ASSUME NEW map \in Maps, NEW pref \in DOMAIN map
              PROVE  /\ ClausesRestored(MatchWords, match_table, map[pref].match)
                     /\ ClausesRestored(SetWords, set_table, map[pref].set)
  BY DEF RouteMapConfigRestores
<1>1. MapEntryOK(map[pref])
  BY DEF Maps, PolicyInv, TablesOK, MapsOK, MapOK
<1>. DEFINE m == map[pref].match
            s == map[pref].set
<1>2. MatchOK(m) /\ SetOK(s)
  BY <1>1 DEF MapEntryOK
<1>. HIDE DEF m, s
<1>3. ClausesRestored(MatchWords, match_table, m)
  <2>1. "atomic_aggregate" \notin DOMAIN MatchWords
    BY DEF MatchWords
  <2>2. DOMAIN m \subseteq DOMAIN MatchWords
    BY <1>2 DEF MatchOK
  <2>. QED BY ZenonT(60), <2>1, <2>2, MatchWordsInverse, ClausesAreRestored
<1>4. ClausesRestored(SetWords, set_table, s)
  <2>1. /\ DOMAIN s \subseteq DOMAIN SetWords
        /\ "atomic_aggregate" \in DOMAIN s => s["atomic_aggregate"] = <<"true">>
    BY <1>2 DEF SetOK
  <2>. QED BY <2>1, SetWordsInverse, ClausesAreRestored
<1>. QED BY <1>3, <1>4 DEF m, s

(* The lines printed of an AS path filter, gathered again, are its lines. *)
LEMMA AspathGathered ==
  ASSUME AspathsOK(db.aspath_filters), NEW row \in db.aspath_filters, NEW a \in Actions
  PROVE  {l \in Lines : <<row.name, a, l>> \in
            vtysh_router_context_bgp_ip_filter_list_clientcallback} = row[a]
<1>. DEFINE printed == vtysh_router_context_bgp_ip_filter_list_clientcallback
<1>1. \A l : <<row.name, a, l>> \in printed <=> l \in row[a]
  <2>. TAKE l
  <2>1. ASSUME l \in row[a]
        PROVE  <<row.name, a, l>> \in printed
    <3>. DEFINE S == {<<row.name, a, line>> : line \in row[a]}
                U == {{<<r.name, b, line>> : line \in r[b]} :
                        r \in db.aspath_filters, b \in Actions}
    <3>1. <<row.name, a, l>> \in S
      BY <2>1
    <3>2. S \in U
      OBVIOUS
    <3>3. printed = UNION U
      BY DEF vtysh_router_context_bgp_ip_filter_list_clientcallback
    <3>. HIDE DEF S, U
    <3>. QED BY <3>1, <3>2, <3>3
  <2>2. ASSUME <<row.name, a, l>> \in printed
        PROVE  l \in row[a]
    <3>1. PICK r \in db.aspath_filters, b \in Actions : <<row.name, a, l>> \in
                 {<<r.name, b, line>> : line \in r[b]}
      BY <2>2 DEF vtysh_router_context_bgp_ip_filter_list_clientcallback
    <3>2. r.name = row.name /\ b = a /\ l \in r[b]
      BY <3>1
    <3>3. r = row
      BY <3>2 DEF AspathsOK
    <3>. QED BY <3>2, <3>3
  <2>. QED BY <2>1, <2>2
<1>2. row[a] \subseteq Lines
  <2>1. row.permit \subseteq Lines /\ row.deny \subseteq Lines
    BY DEF AspathsOK, AspathOK
  <2>. QED BY <2>1 DEF Actions
<1>. HIDE DEF printed
<1>3. {l \in Lines : <<row.name, a, l>> \in printed} = row[a]
  BY <1>1, <1>2
<1>. QED BY <1>3 DEF printed

(* All of the table. *)
LEMMA AspathsRestored ==
  ASSUME AspathsOK(db.aspath_filters)
  PROVE  LET aspath == vtysh_router_context_bgp_ip_filter_list_clientcallback
         IN  {[name |-> c[1], permit |-> {l \in Lines : <<c[1], "permit", l>> \in aspath},
               deny |-> {l \in Lines : <<c[1], "deny", l>> \in aspath}] : c \in aspath}
               = db.aspath_filters
<1>. DEFINE aspath == vtysh_router_context_bgp_ip_filter_list_clientcallback
            L(n, a) == {l \in Lines : <<n, a, l>> \in aspath}
            Row(c) == [name |-> c[1], permit |-> L(c[1], "permit"), deny |-> L(c[1], "deny")]
<1>1. ASSUME NEW row \in db.aspath_filters, NEW c, c[1] = row.name
      PROVE  Row(c) = row
  <2>1. L(row.name, "permit") = row.permit /\ L(row.name, "deny") = row.deny
    BY AspathGathered DEF Actions
  <2>2. IsAspath(row)
    BY DEF AspathsOK, AspathOK
  <2>. HIDE DEF L
  <2>. QED BY <1>1, <2>1, <2>2 DEF IsAspath
<1>2. ASSUME NEW c \in aspath
      PROVE  \E row \in db.aspath_filters : c[1] = row.name
  <2>1. PICK r \in db.aspath_filters, b \in Actions : c \in {<<r.name, b, line>> : line \in r[b]}
    BY <1>2 DEF vtysh_router_context_bgp_ip_filter_list_clientcallback
  <2>. QED BY <2>1
<1>3. ASSUME NEW row \in db.aspath_filters
      PROVE  \E c \in aspath : c[1] = row.name
  <2>1. row.permit \cup row.deny # {}
    BY DEF AspathsOK, AspathOK
  <2>2. PICK a \in Actions : \E line : line \in row[a]
    BY <2>1 DEF Actions
  <2>3. PICK line : line \in row[a]
    BY <2>2
  <2>4. <<row.name, a, line>> \in aspath
    BY <2>3, AspathGathered
  <2>. DEFINE c == <<row.name, a, line>>
  <2>5. c[1] = row.name
    OBVIOUS
  <2>. QED BY <2>4, <2>5
<1>. HIDE DEF aspath, Row
<1>4. {Row(c) : c \in aspath} = db.aspath_filters
  BY <1>1, <1>2, <1>3
<1>. QED BY <1>4 DEF Row, aspath

(* The same for community lists: the lines of one. *)
LEMMA CommunityGathered ==
  ASSUME CommunitiesOK(db.community_filters), NEW row \in db.community_filters, NEW a \in Actions
  PROVE  {l \in Lines : <<row.type, row.name, a, l>> \in
            vtysh_router_context_bgp_ip_community_filter_clientcallback} = row[a]
<1>. DEFINE printed == vtysh_router_context_bgp_ip_community_filter_clientcallback
<1>1. \A l : <<row.type, row.name, a, l>> \in printed <=> l \in row[a]
  <2>. TAKE l
  <2>1. ASSUME l \in row[a]
        PROVE  <<row.type, row.name, a, l>> \in printed
    <3>. DEFINE S == {<<row.type, row.name, a, line>> : line \in row[a]}
                U == {{<<r.type, r.name, b, line>> : line \in r[b]} :
                        r \in db.community_filters, b \in Actions}
    <3>1. <<row.type, row.name, a, l>> \in S
      BY <2>1
    <3>2. S \in U
      OBVIOUS
    <3>3. printed = UNION U
      BY DEF vtysh_router_context_bgp_ip_community_filter_clientcallback
    <3>. HIDE DEF S, U
    <3>. QED BY <3>1, <3>2, <3>3
  <2>2. ASSUME <<row.type, row.name, a, l>> \in printed
        PROVE  l \in row[a]
    <3>1. PICK r \in db.community_filters, b \in Actions : <<row.type, row.name, a, l>> \in
                 {<<r.type, r.name, b, line>> : line \in r[b]}
      BY <2>2 DEF vtysh_router_context_bgp_ip_community_filter_clientcallback
    <3>2. r.name = row.name /\ b = a /\ l \in r[b]
      BY <3>1
    <3>3. r = row
      BY <3>2 DEF CommunitiesOK
    <3>. QED BY <3>2, <3>3
  <2>. QED BY <2>1, <2>2
<1>2. row[a] \subseteq Lines
  <2>1. row.permit \subseteq Lines /\ row.deny \subseteq Lines
    BY DEF CommunitiesOK, CommunityOK
  <2>. QED BY <2>1 DEF Actions
<1>. HIDE DEF printed
<1>3. {l \in Lines : <<row.type, row.name, a, l>> \in printed} = row[a]
  BY <1>1, <1>2
<1>. QED BY <1>3 DEF printed

(* All of the table: the rows that have lines. *)
LEMMA CommunitiesRestored ==
  ASSUME CommunitiesOK(db.community_filters)
  PROVE  LET community == vtysh_router_context_bgp_ip_community_filter_clientcallback
         IN  {[name |-> c[2], type |-> c[1],
               permit |-> {l \in Lines : <<c[1], c[2], "permit", l>> \in community},
               deny |-> {l \in Lines : <<c[1], c[2], "deny", l>> \in community}] : c \in community}
               = {row \in db.community_filters : row.permit \cup row.deny # {}}
<1>. DEFINE community == vtysh_router_context_bgp_ip_community_filter_clientcallback
            L(t, n, a) == {l \in Lines : <<t, n, a, l>> \in community}
            Row(c) == [name |-> c[2], type |-> c[1], permit |-> L(c[1], c[2], "permit"),
                       deny |-> L(c[1], c[2], "deny")]
            W == {row \in db.community_filters : row.permit \cup row.deny # {}}
<1>1. ASSUME NEW row \in db.community_filters, NEW c, c[1] = row.type, c[2] = row.name
      PROVE  Row(c) = row
  <2>1. L(row.type, row.name, "permit") = row.permit /\ L(row.type, row.name, "deny") = row.deny
    BY CommunityGathered DEF Actions
  <2>2. IsCommunity(row)
    BY DEF CommunitiesOK, CommunityOK
  <2>. HIDE DEF L
  <2>. QED BY <1>1, <2>1, <2>2 DEF IsCommunity
<1>2. ASSUME NEW c \in community
      PROVE  \E row \in W : c[1] = row.type /\ c[2] = row.name
  <2>1. PICK r \in db.community_filters, b \in Actions :
          c \in {<<r.type, r.name, b, line>> : line \in r[b]}
    BY <1>2 DEF vtysh_router_context_bgp_ip_community_filter_clientcallback
  <2>2. c[1] = r.type /\ c[2] = r.name /\ r[b] # {}
    BY <2>1
  <2>3. r.permit \cup r.deny # {}
    BY <2>2 DEF Actions
  <2>. QED BY <2>2, <2>3
<1>3. ASSUME NEW row \in W
      PROVE  \E c \in community : c[1] = row.type /\ c[2] = row.name
  <2>1. row.permit \cup row.deny # {}
    OBVIOUS
  <2>2. PICK a \in Actions : \E line : line \in row[a]
    BY <2>1 DEF Actions
  <2>3. PICK line : line \in row[a]
    BY <2>2
  <2>4. <<row.type, row.name, a, line>> \in community
    BY <2>3, CommunityGathered
  <2>. DEFINE c == <<row.type, row.name, a, line>>
  <2>5. c[1] = row.type /\ c[2] = row.name
    OBVIOUS
  <2>. QED BY <2>4, <2>5
<1>4. W \subseteq db.community_filters
  OBVIOUS
<1>. HIDE DEF community, Row, W
<1>5. {Row(c) : c \in community} = W
  BY SMTT(60), <1>1, <1>2, <1>3, <1>4
<1>. QED BY <1>5 DEF Row, community, W

(* The filters are restored, and each community list is shown once. *)
LEMMA FiltersRestored ==
  ASSUME PolicyInv
  PROVE  FilterConfigRestores
<1>1. AspathsOK(db.aspath_filters) /\ CommunitiesOK(db.community_filters)
  BY DEF PolicyInv, TablesOK
<1>2. ASSUME NEW row \in db.community_filters
      PROVE  Cardinality({t \in CommunityTypes : row \in policy_show_community_filter_in_ovsdb(t)}) = 1
  <2>1. row.type \in CommunityTypes
    BY <1>1 DEF CommunitiesOK, CommunityOK
  <2>2. {t \in CommunityTypes : row \in policy_show_community_filter_in_ovsdb(t)} = {row.type}
    BY <2>1 DEF policy_show_community_filter_in_ovsdb
  <2>. QED BY Zenon, <2>2, FS_Singleton
<1>. QED BY <1>1, <1>2, AspathsRestored, CommunitiesRestored DEF FilterConfigRestores

-------------------------------------------------------------------------------
(* "show ip prefix-list" and "show ipv6 prefix-list" take the family that the
   running configuration prints. *)
LEMMA ShownByFamily ==
  ASSUME NEW e, EntryOK(e), NEW afi \in AFIs, NEW s
  PROVE  Shown(Query(afi), s, e)
           <=> vtysh_router_context_bgp_ip_prefix_clientcallback(e).afi = afi
<1>. DEFINE q == Query(afi)
            line == vtysh_router_context_bgp_ip_prefix_clientcallback(e)
<1>1. /\ q.afi = afi /\ SeqShown(q, s)
      /\ Shown6(q, s, e) <=> afi = "AFI_IP6"
      /\ Shown4(q, s, e) <=> afi = "AFI_IP"
  BY DEF Query, SeqShown, Shown6, Shown4, Exact6, Longer6
<1>2. afi = "AFI_IP" <=> afi # "AFI_IP6"
  BY DEF AFIs
<1>3. e.ge \in Nat /\ e.le \in Nat
  BY DEF EntryOK
<1>. HIDE DEF q
<1>4. CASE e.prefix = AnyPrefix /\ e.ge = 0 /\ e.le \in {32, 128}
  <2>1. ~ Is6(e)
    BY <1>4 DEF Is6, AnyPrefix
  <2>2. line.afi = IF e.le = 128 THEN "AFI_IP6" ELSE "AFI_IP"
    BY <1>4, <2>1 DEF vtysh_router_context_bgp_ip_prefix_clientcallback, Printed
  <2>3. Shown(q, s, e) <=> ShowExact(q, s, e)
    BY <1>4 DEF Shown
  <2>4. ShowExact(q, s, e) <=> IF e.le = 128 THEN afi = "AFI_IP6" ELSE afi = "AFI_IP"
    BY ZenonT(60), <1>1, <1>4, <2>1 DEF ShowExact
  <2>. QED BY ZenonT(60), <2>2, <2>3, <2>4, <1>2 DEF q
<1>5. CASE e.prefix # AnyPrefix
  <2>1. Shown(q, s, e) <=> IF Is6(e) THEN Shown6(q, s, e) ELSE Shown4(q, s, e)
    <3>1. CASE e.ge = 0 /\ e.le = 0
      <4>1. Shown(q, s, e) <=> ShowExact(q, s, e)
        BY <1>5, <3>1 DEF Shown
      <4>2. CASE Is6(e)
        BY <4>1, <4>2, <3>1 DEF ShowExact
      <4>3. CASE ~ Is6(e)
        BY <4>1, <4>3, <3>1 DEF ShowExact
      <4>. QED BY <4>2, <4>3
    <3>2. CASE e.ge # 0 /\ e.le = 0
      BY <1>5, <3>2 DEF Shown, ShowGe
    <3>3. CASE e.ge = 0 /\ e.le # 0
      BY <1>5, <3>3 DEF Shown, ShowLe
    <3>4. CASE e.ge # 0 /\ e.le # 0
      BY <1>5, <3>4 DEF Shown, ShowRange
    <3>. QED BY ZenonT(60), <3>1, <3>2, <3>3, <3>4
  <2>2. line.afi = IF Is6(e) THEN "AFI_IP6" ELSE "AFI_IP"
    <3>1. CASE e.ge = 0 /\ e.le = 0
      BY <1>5, <3>1 DEF vtysh_router_context_bgp_ip_prefix_clientcallback, Printed
    <3>2. CASE ~ (e.ge = 0 /\ e.le = 0)
      BY <1>5, <3>2 DEF vtysh_router_context_bgp_ip_prefix_clientcallback, Printed
    <3>. QED BY <3>1, <3>2
  <2>. QED BY ZenonT(60), <2>1, <2>2, <1>1, <1>2 DEF q
<1>6. e.prefix = AnyPrefix => e.ge = 0 /\ e.le \in {32, 128}
  BY Prefix6 DEF EntryOK
<1>. QED BY ZenonT(60), <1>4, <1>5, <1>6

(* The shows share the entries of a list out as the running configuration
   does. *)
LEMMA SharedOut ==
  ASSUME NEW entries, EntriesOK(entries), NEW afi \in AFIs
  PROVE  show_prefix_list(Query(afi), entries) =
           {s \in DOMAIN entries :
              vtysh_router_context_bgp_ip_prefix_clientcallback(entries[s]).afi = afi}
<1>1. ~ Query(afi).first_match
  BY DEF Query
<1>2. show_prefix_list(Query(afi), entries) = {s \in DOMAIN entries : Shown(Query(afi), s, entries[s])}
  BY <1>1 DEF show_prefix_list
<1>3. \A s \in DOMAIN entries :
        Shown(Query(afi), s, entries[s])
          <=> vtysh_router_context_bgp_ip_prefix_clientcallback(entries[s]).afi = afi
  BY ShownByFamily DEF EntriesOK
<1>. QED BY <1>2, <1>3

(* A set whose members are equal has at most one. *)
LEMMA AtMostOne ==
  ASSUME NEW S, \A s, t \in S : s = t
  PROVE  Cardinality(S) <= 1
<1>1. CASE S = {}
  BY <1>1, FS_EmptySet
<1>2. CASE S # {}
  <2>1. PICK s \in S : TRUE
    BY <1>2
  <2>2. S = {s}
    BY <2>1
  <2>3. Cardinality({s}) = 1
    BY FS_Singleton
  <2>. QED BY <2>2, <2>3
<1>. QED BY <1>1, <1>2

(* "first-match" prints one entry of the prefix. *)
LEMMA FirstMatchOnce ==
  ASSUME PolicyConstants, NEW entries, EntriesOK(entries), NEW prefix \in Typed("AFI_IP6") \ {AnyPrefix}
  PROVE  Cardinality({s \in show_prefix_list([Query("AFI_IP6") EXCEPT
                               !.prefix = prefix, !.first_match = TRUE], entries) :
                        entries[s].prefix = prefix}) <= 1
<1>. DEFINE q == [Query("AFI_IP6") EXCEPT !.prefix = prefix, !.first_match = TRUE]
            S == {s \in show_prefix_list(q, entries) : entries[s].prefix = prefix}
<1>1. /\ q.afi = "AFI_IP6" /\ q.seq = 0 /\ q.prefix = prefix /\ q.first_match = TRUE
      /\ q.longer = FALSE /\ q.summary = FALSE
  BY DEF Query
<1>2. prefix.afi = "AFI_IP6"
  BY SMTT(60) DEF Typed
<1>. HIDE DEF q
<1>3. ASSUME NEW s \in S, NEW t \in S
      PROVE  ~ (s < t)
  <2>1. s \in DOMAIN entries /\ entries[s].prefix = prefix
    BY DEF show_prefix_list
  <2>2. Is6(entries[s]) /\ Exact6(q, s, entries[s])
    BY ZenonT(60), <1>1, <1>2, <2>1 DEF Is6, Exact6, SeqShown
  <2>3. ~ \E r \in DOMAIN entries :
            r < t /\ q.first_match /\ q.afi = "AFI_IP6" /\ Is6(entries[r]) /\ Exact6(q, r, entries[r])
    BY DEF show_prefix_list
  <2>. QED BY ZenonT(60), <1>1, <2>1, <2>2, <2>3
<1>4. S \subseteq Nat
  <2>1. S \subseteq DOMAIN entries
    BY DEF show_prefix_list
  <2>2. Seqs \subseteq Nat
    <3>1. INT_MAX \in Nat /\ Seqs \subseteq 1 .. 2 * INT_MAX + 1
      BY Zenon DEF PolicyConstants
    <3>. QED BY SMT, <3>1
  <2>3. DOMAIN entries \subseteq Nat
    BY Zenon, <2>2 DEF EntriesOK
  <2>. QED BY <2>1, <2>3
<1>. HIDE DEF S
<1>5. \A s, t \in S : s = t
  BY <1>3, <1>4
<1>6. Cardinality(S) <= 1
  BY SMTT(60), <1>5, AtMostOne
<1>. QED BY <1>6 DEF S, q

(* Both, for every list. *)
LEMMA ShowsAgree ==
  ASSUME PolicyConstants, PolicyInv
  PROVE  ShowAgreesWithConfig
<1>1. \A name \in DOMAIN db.prefix_lists : EntriesOK(db.prefix_lists[name].entries)
  BY DEF PolicyInv, TablesOK, ListsOK, ListOK
<1>. QED BY ZenonT(60), <1>1, SharedOut, FirstMatchOnce DEF ShowAgreesWithConfig

(* The invariant implies PolicyRestores. *)
LEMMA InvImpliesRestores ==
  ASSUME PolicyConstants, PolicyInv
  PROVE  PolicyRestores
<1>1. PrefixConfigRestores
  BY ZenonT(60), EntriesStored, EntryRestored DEF PrefixConfigRestores
<1>. QED BY ZenonT(60), <1>1, RouteMapsRestored, FiltersRestored, ShowsAgree DEF PolicyRestores

(* Whatever was configured, "show running-config" prints commands that store
   the very same entries, clauses and filter lines, and the show commands agree
   with it. *)
THEOREM PolicyIsRestored == ASSUME PolicyConstants PROVE PolicySpec => []PolicyRestores
<1>1. PolicyInv => PolicyRestores
  BY SMTT(60), InvImpliesRestores
<1>. QED BY <1>1, PolicyInvariant, PTL

================================================================================
