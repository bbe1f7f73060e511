----------------------------- MODULE RoutePolicy -----------------------------
(***************************************************************************)
(* The policy objects of vtysh/bgp_vty.c: prefix lists, AS path filters,    *)
(* community lists and route maps, the commands that configure them, what   *)
(* "show" and "show running-config" print of them, and another session that *)
(* removes a route map entry while this one is inside its context.          *)
(*                                                                          *)
(* A prefix is its address family and its length; "any" is the word the     *)
(* command stores as it was typed.  A filter line is a model value.         *)
(***************************************************************************)
EXTENDS BgpTables, Sequences

CONSTANTS
    ListNames,      \* names of lists, filters and route maps
    Seqs,           \* sequence numbers
    INT_MAX,        \* the largest int
    PrefixLens,     \* per address family: lengths of the prefixes typed
    Lengths,        \* what can be typed after ge and le; 0 stands for nothing
    Lines,          \* regular expressions and descriptions
    Args            \* arguments of match and set clauses

VARIABLE
    rmp_context     \* the route map entry the session is configuring

policyVars == <<db, ret, vtysh, rmp_context>>

Actions == {"permit", "deny"}

AFIs == {"AFI_IP", "AFI_IP6"}

MaxLen == [afi \in AFIs |-> IF afi = "AFI_IP" THEN 32 ELSE 128]

AnyPrefix == [afi |-> "any", len |-> 0]

(* The prefixes an "ip" or an "ipv6" command can be given. *)
Typed(afi) == {AnyPrefix} \cup {[afi |-> afi, len |-> n] : n \in PrefixLens[afi]}

(* What the constants must satisfy. *)
PolicyConstants ==
    /\ \A afi \in AFIs : PrefixLens[afi] \subseteq 0 .. MaxLen[afi]
    /\ 0 \in Lengths /\ Lengths \subseteq Nat
    /\ INT_MAX \in Nat /\ Seqs \subseteq 1 .. 2 * INT_MAX + 1
    /\ "" \notin Lines

--------------------------------------------------------------------------------
(* Prefix lists *)

(* The three checks of ge and le; "any" brings its own, which pass. *)
vty_invalid_prefix_range(prefix, ge, le) ==
    /\ prefix # AnyPrefix
    /\ \/ ge # 0 /\ ge <= prefix.len
       \/ le # 0 /\ le <= prefix.len
       \/ le # 0 /\ ge > le

PrefixEntry_KeepLe(afi, action, prefix, ge, le) ==
    [action |-> action, prefix |-> prefix, ge |-> ge, le |-> le]

(* The row stored: "any" matches every length, and an le of the maximum is
   dropped when there is a ge. *)
PrefixEntry(afi, action, prefix, ge, le) ==
    [action |-> action, prefix |-> prefix,
     ge |-> IF prefix = AnyPrefix THEN 0 ELSE ge,
     le |-> IF prefix = AnyPrefix THEN MaxLen[afi]
            ELSE IF ge # 0 /\ le = MaxLen[afi] THEN 0 ELSE le]

HasPrefixList(name) == name \in DOMAIN db.prefix_lists

policy_get_prefix_list_in_ovsdb(name) == db.prefix_lists[name]

(* A sequence number passed as an int. *)
AsInt(seq) == IF seq <= INT_MAX THEN seq ELSE seq - 2 * (INT_MAX + 1)

(* The keys of the map are 64 bits wide, the number looked for is an int. *)
policy_get_prefix_list_entry_in_ovsdb(name, seq, entry) ==
    /\ HasPrefixList(name)
    /\ AsInt(seq) \in DOMAIN db.prefix_lists[name].entries
    /\ db.prefix_lists[name].entries[AsInt(seq)] = entry

(* A key is written that the map already holds: the client library sorts the
   pairs by key and then by row identifier and keeps the first of each key. *)
SortUnique(map, key, value) ==
    {Put(map, key, value)} \cup (IF key \in DOMAIN map THEN {map} ELSE {})

bgp_prefix_list_entry_insert_to_prefix_list(list, seq, entry) ==
    {[list EXCEPT !.entries = e] : e \in SortUnique(list.entries, seq, entry)}

bgp_prefix_list_entry_remove_from_prefix_list(list, seq) ==
    [list EXCEPT !.entries = Drop(@, seq)]

(* "[ip|ipv6] prefix-list NAME seq N (deny|permit) PREFIX [ge G] [le L]". *)
policy_set_prefix_list_in_ovsdb(afi, name, seq, action, prefix, ge, le) ==
    /\ IF vty_invalid_prefix_range(prefix, ge, le)
       THEN Refuse("CMD_SUCCESS")
       ELSE START_DB_TXN(
              LET entry == PrefixEntry(afi, action, prefix, ge, le)
                  list == IF HasPrefixList(name)
                          THEN policy_get_prefix_list_in_ovsdb(name)
                          ELSE [description |-> "", entries |-> EmptyMap]
                  lists == IF policy_get_prefix_list_entry_in_ovsdb(name, seq, entry)
                           THEN {list}
                           ELSE bgp_prefix_list_entry_insert_to_prefix_list(list, seq, entry)
              IN  \E l \in lists :
                    END_DB_TXN([db EXCEPT !.prefix_lists = Put(@, name, l)]))
    /\ UNCHANGED rmp_context

(* "ipv6 prefix-list NAME description LINE". *)
policy_set_prefix_list_description_in_ovsdb(name, line) ==
    /\ START_DB_TXN(
         END_DB_TXN([db EXCEPT !.prefix_lists = Put(@, name,
           [description |-> line,
            entries |-> IF HasPrefixList(name)
                        THEN policy_get_prefix_list_in_ovsdb(name).entries
                        ELSE EmptyMap])]))
    /\ UNCHANGED rmp_context

(* The lowest sequence number, the first of the sorted map. *)
FirstSeq(entries) ==
    CHOOSE s \in DOMAIN entries : \A t \in DOMAIN entries : s <= t

(* The family is guessed from the first entry. *)
WrongFamily(afi, entry) ==
    IF afi = "AFI_IP" THEN entry.le > 32
    ELSE entry.le <= 32 /\ entry.le # 0 /\ entry.ge # 0

(* "no [ip|ipv6] prefix-list NAME". *)
cli_no_ip_prefix_list_cmd_execute(afi, name) ==
    /\ START_DB_TXN(
         IF ~ HasPrefixList(name) THEN ERRONEOUS_DB_TXN
         ELSE LET list == policy_get_prefix_list_in_ovsdb(name)
                  empty == DOMAIN list.entries = {}
              IN  IF ~ empty /\ WrongFamily(afi, list.entries[FirstSeq(list.entries)])
                  THEN ERRONEOUS_DB_TXN
                  ELSE IF ~ empty \/ list.description # ""
                  THEN END_DB_TXN([db EXCEPT !.prefix_lists = Drop(@, name)])
                  ELSE END_DB_TXN(db))
    /\ UNCHANGED rmp_context

(* "no ipv6 prefix-list NAME description LINE": the whole list goes. *)
cli_no_ip_prefix_list_line_cmd_execute(name, line) ==
    /\ START_DB_TXN(
         IF HasPrefixList(name) /\ policy_get_prefix_list_in_ovsdb(name).description = line
         THEN END_DB_TXN([db EXCEPT !.prefix_lists = Drop(@, name)])
         ELSE ERRONEOUS_DB_TXN)
    /\ UNCHANGED rmp_context

(* "no [ip|ipv6] prefix-list NAME seq N ...": the range is checked with the
   transaction open, and a bad one returns. *)
cli_no_ip_prefix_list_seq_cmd_execute(afi, name, seq, action, prefix, ge, le) ==
    /\ START_DB_TXN(
         IF vty_invalid_prefix_range(prefix, ge, le)
         THEN ReturnWithoutEnd("CMD_SUCCESS")
         ELSE IF policy_get_prefix_list_entry_in_ovsdb(
                   name, seq, PrefixEntry(afi, action, prefix, ge, le))
         THEN END_DB_TXN([db EXCEPT !.prefix_lists[name] =
                bgp_prefix_list_entry_remove_from_prefix_list(@, seq)])
         ELSE ERRONEOUS_DB_TXN)
    /\ UNCHANGED rmp_context

(* The commands, with the prefixes and ranges their grammar admits. *)
ip_prefix_list_seq(name, seq, action) ==
    \E prefix \in Typed("AFI_IP") \ {AnyPrefix}, ge, le \in {n \in Lengths : n <= 32} :
        policy_set_prefix_list_in_ovsdb("AFI_IP", name, seq, action, prefix, ge, le)

ip_prefix_list_seq_any(name, seq, action) ==
    policy_set_prefix_list_in_ovsdb("AFI_IP", name, seq, action, AnyPrefix, 0, 0)

ipv6_prefix_list_seq(name, seq, action) ==
    \E prefix \in Typed("AFI_IP6") \ {AnyPrefix}, ge, le \in Lengths :
        policy_set_prefix_list_in_ovsdb("AFI_IP6", name, seq, action, prefix, ge, le)

ipv6_prefix_list_seq_any(name, seq, action) ==
    policy_set_prefix_list_in_ovsdb("AFI_IP6", name, seq, action, AnyPrefix, 0, 0)

ipv6_prefix_list_line(name) ==
    \E line \in Lines : policy_set_prefix_list_description_in_ovsdb(name, line)

no_ip_prefix_list(name) == cli_no_ip_prefix_list_cmd_execute("AFI_IP", name)

no_ipv6_prefix_list(name) == cli_no_ip_prefix_list_cmd_execute("AFI_IP6", name)

no_ipv6_prefix_list_line(name) ==
    \E line \in Lines : cli_no_ip_prefix_list_line_cmd_execute(name, line)

no_ip_prefix_list_seq(name, seq, action) ==
    \E prefix \in Typed("AFI_IP") \ {AnyPrefix}, ge, le \in {n \in Lengths : n <= 32} :
        cli_no_ip_prefix_list_seq_cmd_execute("AFI_IP", name, seq, action, prefix, ge, le)

no_ip_prefix_list_seq_any(name, seq, action) ==
    cli_no_ip_prefix_list_seq_cmd_execute("AFI_IP", name, seq, action, AnyPrefix, 0, 0)

no_ipv6_prefix_list_seq(name, seq, action) ==
    \E prefix \in Typed("AFI_IP6") \ {AnyPrefix}, ge, le \in Lengths :
        cli_no_ip_prefix_list_seq_cmd_execute("AFI_IP6", name, seq, action, prefix, ge, le)

(* Its grammar spells the keyword "d/eny", so no "deny" reaches it. *)
no_ipv6_prefix_list_seq_any(name, seq, action) ==
    /\ action = "permit"
    /\ cli_no_ip_prefix_list_seq_cmd_execute("AFI_IP6", name, seq, action, AnyPrefix, 0, 0)

--------------------------------------------------------------------------------
(* AS path filters: rows with a name and two sets of lines. *)

get_aspath_filter_match(row, action, line) == line \in row[action]

policy_get_aspath_filter_in_ovsdb(name, action, line) ==
    {row \in db.aspath_filters :
        row.name = name /\ get_aspath_filter_match(row, action, line)}

policy_set_aspath_filter_in_ovsdb_AlwaysNew(name, action, line) ==
    /\ START_DB_TXN(END_DB_TXN([db EXCEPT !.aspath_filters = @ \cup
         {[[name |-> name, permit |-> {}, deny |-> {}] EXCEPT ![action] = {line}]}]))
    /\ UNCHANGED rmp_context

(* The line joins every row of the name, or a new row. *)
policy_set_aspath_filter_in_ovsdb(name, action, line) ==
    /\ START_DB_TXN(
         LET named == {row \in db.aspath_filters : row.name = name}
             rows == IF policy_get_aspath_filter_in_ovsdb(name, action, line) # {} THEN named
                     ELSE IF named # {} THEN {[row EXCEPT ![action] = @ \cup {line}] : row \in named}
                     ELSE {[[name |-> name, permit |-> {}, deny |-> {}] EXCEPT ![action] = {line}]}
         IN  END_DB_TXN([db EXCEPT !.aspath_filters = (@ \ named) \cup rows]))
    /\ UNCHANGED rmp_context

(* "ip as-path access-list": a line that does not compile is refused. *)
ip_as_path(name, action) ==
    \/ \E line \in Lines : policy_set_aspath_filter_in_ovsdb(name, action, line)
    \/ Refuse("CMD_WARNING") /\ UNCHANGED rmp_context

(* The row that has the line is deleted, with its other lines. *)
policy_no_aspath_filter_in_ovsdb(name, action, line) ==
    /\ START_DB_TXN(
         LET found == policy_get_aspath_filter_in_ovsdb(name, action, line)
         IN  IF found = {} THEN ERRONEOUS_DB_TXN
             ELSE \E row \in found : END_DB_TXN([db EXCEPT !.aspath_filters = @ \ {row}]))
    /\ UNCHANGED rmp_context

policy_no_aspath_filter_name_in_ovsdb(name) ==
    /\ START_DB_TXN(
         LET named == {row \in db.aspath_filters : row.name = name}
         IN  IF named = {} THEN ERRONEOUS_DB_TXN
             ELSE END_DB_TXN([db EXCEPT !.aspath_filters = @ \ named]))
    /\ UNCHANGED rmp_context

no_ip_as_path(name, action) ==
    \E line \in Lines : policy_no_aspath_filter_in_ovsdb(name, action, line)

no_ip_as_path_all(name) == policy_no_aspath_filter_name_in_ovsdb(name)

--------------------------------------------------------------------------------
(* Community lists: rows with a name, a type and two sets of lines. *)

CommunityTypes == {"community-list", "extcommunity-list"}

policy_get_bgp_community_filter_name_in_ovsdb(name) ==
    {row \in db.community_filters : row.name = name}

policy_get_bgp_community_filter_in_ovsdb(name, type) ==
    {row \in db.community_filters : row.name = name /\ row.type = type}

policy_get_bgp_community_filter_list_in_ovsdb(name, type, action, line) ==
    {row \in policy_get_bgp_community_filter_in_ovsdb(name, type) : line \in row[action]}

set_community_permit_entry_in_ovsdb(row, line) == [row EXCEPT !.permit = @ \cup {line}]

set_community_deny_entry_in_ovsdb(row, line) == [row EXCEPT !.deny = @ \cup {line}]

SetEntry(row, action, line) ==
    IF action = "permit" THEN set_community_permit_entry_in_ovsdb(row, line)
    ELSE set_community_deny_entry_in_ovsdb(row, line)

(* A row found by type and line is left alone; otherwise the line joins the
   rows of the name, of whatever type, and a new row needs a new name. *)
policy_set_community_filter_list_in_ovsdb(name, type, action, line) ==
    /\ START_DB_TXN(
         LET named == policy_get_bgp_community_filter_name_in_ovsdb(name)
             rows == IF policy_get_bgp_community_filter_list_in_ovsdb(name, type, action, line) # {}
                     THEN named
                     ELSE IF named # {} THEN {SetEntry(row, action, line) : row \in named}
                     ELSE {SetEntry([name |-> name, type |-> type, permit |-> {}, deny |-> {}],
                                    action, line)}
         IN  END_DB_TXN([db EXCEPT !.community_filters = (@ \ named) \cup rows]))
    /\ UNCHANGED rmp_context

(* An all digit name, or a line that does not compile, is reported and
   forgotten. *)
ip_community_list(name, action) ==
    \/ \E line \in Lines :
         policy_set_community_filter_list_in_ovsdb(name, "community-list", action, line)
    \/ Refuse("CMD_SUCCESS") /\ UNCHANGED rmp_context

ip_extcommunity_list(name, action) ==
    \/ \E line \in Lines :
         policy_set_community_filter_list_in_ovsdb(name, "extcommunity-list", action, line)
    \/ Refuse("CMD_SUCCESS") /\ UNCHANGED rmp_context

policy_no_community_filter_name_in_ovsdb(type, name) ==
    /\ START_DB_TXN(
         LET found == policy_get_bgp_community_filter_in_ovsdb(name, type)
         IN  IF found = {} THEN ERRONEOUS_DB_TXN
             ELSE \E row \in found : END_DB_TXN([db EXCEPT !.community_filters = @ \ {row}]))
    /\ UNCHANGED rmp_context

(* The line leaves every row of the name and the type; the row stays. *)
policy_no_community_filter_list_in_ovsdb(type, name, action, line) ==
    /\ START_DB_TXN(
         LET rows == policy_get_bgp_community_filter_in_ovsdb(name, type)
         IN  IF policy_get_bgp_community_filter_list_in_ovsdb(name, type, action, line) = {}
             THEN ERRONEOUS_DB_TXN
             ELSE END_DB_TXN([db EXCEPT !.community_filters =
                    (@ \ rows) \cup {[row EXCEPT ![action] = @ \ {line}] : row \in rows}]))
    /\ UNCHANGED rmp_context

no_ip_community_list(name) ==
    policy_no_community_filter_name_in_ovsdb("community-list", name)

no_ip_extcommunity_list(name) ==
    policy_no_community_filter_name_in_ovsdb("extcommunity-list", name)

no_ip_community_list_line(name, action) ==
    \E line \in Lines :
        policy_no_community_filter_list_in_ovsdb("community-list", name, action, line)

no_ip_extcommunity_list_line(name, action) ==
    \E line \in Lines :
        policy_no_community_filter_list_in_ovsdb("extcommunity-list", name, action, line)

--------------------------------------------------------------------------------
(* Route maps: a name, and entries by preference. *)

policy_get_route_map_entry_in_ovsdb(name, action, pref) ==
    /\ name \in DOMAIN db.route_maps
    /\ pref \in DOMAIN db.route_maps[name]
    /\ db.route_maps[name][pref].action = action

bgp_route_map_entry_insert_to_route_map(map, entry, pref) == SortUnique(map, pref, entry)

bgp_route_map_entry_remove_from_route_map(map, pref) == Drop(map, pref)

(* "route-map NAME (deny|permit) N": creates the entry and enters it.  The
   context is set before the commit, and stays set when the commit fails. *)
policy_set_route_map_in_ovsdb(name, action, pref) ==
    /\ START_DB_TXN(
         LET map == IF name \in DOMAIN db.route_maps THEN db.route_maps[name] ELSE EmptyMap
             entry == [action |-> action, description |-> "", match |-> EmptyMap, set |-> EmptyMap]
         IN  IF policy_get_route_map_entry_in_ovsdb(name, action, pref) THEN END_DB_TXN(db)
             ELSE \E m \in bgp_route_map_entry_insert_to_route_map(map, entry, pref) :
                    END_DB_TXN([db EXCEPT !.route_maps = Put(@, name, m)]))
    /\ rmp_context' = IF vtysh' = "ready"
                      THEN <<[name |-> name, action |-> action, pref |-> pref]>>
                      ELSE rmp_context

(* "no route-map NAME". *)
cli_no_route_map_all_cmd_execute(name) ==
    /\ START_DB_TXN(
         IF name \notin DOMAIN db.route_maps THEN ERRONEOUS_DB_TXN
         ELSE END_DB_TXN([db EXCEPT !.route_maps = Drop(@, name)]))
    /\ UNCHANGED rmp_context

(* "no route-map NAME (deny|permit) N". *)
cli_no_route_map_cmd_execute(name, action, pref) ==
    /\ START_DB_TXN(
         IF ~ policy_get_route_map_entry_in_ovsdb(name, action, pref) THEN ERRONEOUS_DB_TXN
         ELSE END_DB_TXN([db EXCEPT !.route_maps[name] =
                bgp_route_map_entry_remove_from_route_map(@, pref)]))
    /\ UNCHANGED rmp_context

(* The entry of the context, looked up again by every command in it. *)
HasContextEntry ==
    /\ rmp_context # <<>>
    /\ policy_get_route_map_entry_in_ovsdb(
         rmp_context[1].name, rmp_context[1].action, rmp_context[1].pref)

WithContextEntry(entry) ==
    [db EXCEPT !.route_maps[rmp_context[1].name][rmp_context[1].pref] = entry]

ContextEntry == db.route_maps[rmp_context[1].name][rmp_context[1].pref]

(* A command of the context: the row it found is used without a check. *)
InContext(rest) ==
    /\ rmp_context # <<>>
    /\ START_DB_TXN(IF HasContextEntry THEN rest ELSE Crash)
    /\ UNCHANGED rmp_context

policy_set_route_map_description_in_ovsdb(line) ==
    InContext(END_DB_TXN(WithContextEntry([ContextEntry EXCEPT !.description = line])))

rmap_description == \E line \in Lines : policy_set_route_map_description_in_ovsdb(line)

no_rmap_description == policy_set_route_map_description_in_ovsdb("")

(* The words of a clause and the key its column keeps it under: the same,
   unless there are several words or a dash. *)
match_table ==
    [command \in {"ip address prefix-list", "ipv6 address prefix-list", "community",
                  "extcommunity", "as-path", "origin", "metric", "ipv6 next-hop",
                  "probability"} |->
       CASE command = "ip address prefix-list" -> "prefix_list"
         [] command = "ipv6 address prefix-list" -> "ipv6_prefix_list"
         [] command = "as-path" -> "as_path"
         [] command = "ipv6 next-hop" -> "ipv6_next_hop"
         [] OTHER -> command]

set_table ==
    [command \in {"community", "metric", "aggregator as", "as-path exclude", "as-path prepend",
                  "atomic-aggregate", "comm-list", "extcommunity rt", "extcommunity soo",
                  "ipv6 next-hop global", "local-preference", "origin", "weight"} |->
       CASE command = "aggregator as" -> "aggregator_as"
         [] command = "as-path exclude" -> "as_path_exclude"
         [] command = "as-path prepend" -> "as_path_prepend"
         [] command = "atomic-aggregate" -> "atomic_aggregate"
         [] command = "comm-list" -> "comm_list"
         [] command = "extcommunity rt" -> "extcommunity_rt"
         [] command = "extcommunity soo" -> "extcommunity_soo"
         [] command = "ipv6 next-hop global" -> "ipv6_next_hop_global"
         [] command = "local-preference" -> "local_preference"
         [] OTHER -> command]

policy_cmd_to_key_lookup(command, table) == table[command]

NULL == <<>>

(* smap_replace, or smap_remove when there is no argument. *)
Replaced(map, key, arg) == IF arg = NULL THEN Drop(map, key) ELSE Put(map, key, arg)

policy_set_route_map_match_in_ovsdb(command, arg) ==
    InContext(END_DB_TXN(WithContextEntry([ContextEntry EXCEPT
        !.match = Replaced(@, policy_cmd_to_key_lookup(command, match_table), arg)])))

policy_set_route_map_set_in_ovsdb(command, arg) ==
    InContext(END_DB_TXN(WithContextEntry([ContextEntry EXCEPT
        !.set = Replaced(@, policy_cmd_to_key_lookup(command, set_table), arg)])))

(* The callers that drop the result and report success. *)
SetUnreported(command, arg) ==
    InContext(EndUnreported(WithContextEntry([ContextEntry EXCEPT
        !.set = Replaced(@, policy_cmd_to_key_lookup(command, set_table), arg)])))

RefuseInContext(result) == rmp_context # <<>> /\ Refuse(result) /\ UNCHANGED rmp_context

Match(command) == \E a \in Args : policy_set_route_map_match_in_ovsdb(command, <<a>>)

match_ip_address_prefix_list == Match("ip address prefix-list")
no_match_ip_address_prefix_list ==
    policy_set_route_map_match_in_ovsdb("ip address prefix-list", NULL)
match_ipv6_address_prefix_list == Match("ipv6 address prefix-list")
no_match_ipv6_address_prefix_list ==
    policy_set_route_map_match_in_ovsdb("ipv6 address prefix-list", NULL)
match_aspath == Match("as-path")
no_match_aspath == policy_set_route_map_match_in_ovsdb("as-path", NULL)
match_origin ==
    \E origin \in {"igp", "egp", "incomplete"} :
        policy_set_route_map_match_in_ovsdb("origin", <<origin>>)
no_match_origin == policy_set_route_map_match_in_ovsdb("origin", NULL)
match_metric == Match("metric")
no_match_metric == policy_set_route_map_match_in_ovsdb("metric", NULL)
match_ipv6_next_hop == Match("ipv6 next-hop")
no_match_ipv6_next_hop == policy_set_route_map_match_in_ovsdb("ipv6 next-hop", NULL)
match_probability == Match("probability")
no_match_probability == policy_set_route_map_match_in_ovsdb("probability", NULL)
match_community == Match("community")
match_community_exact ==
    \E a \in Args : policy_set_route_map_match_in_ovsdb("community", <<a, "exact-match">>)
no_match_community == policy_set_route_map_match_in_ovsdb("community", NULL)
match_ecommunity == Match("extcommunity")
no_match_ecommunity == policy_set_route_map_match_in_ovsdb("extcommunity", NULL)

(* AS numbers out of range are refused before the transaction. *)
policy_set_route_map_set_as_path_exclude_str_in_ovsdb ==
    (\E a \in Args : SetUnreported("as-path exclude", <<a>>)) \/ RefuseInContext("CMD_WARNING")
no_set_aspath_exclude == policy_set_route_map_set_in_ovsdb("as-path exclude", NULL)
policy_set_route_map_set_as_path_prepend_str_in_ovsdb ==
    (\E a \in Args : SetUnreported("as-path prepend", <<a>>)) \/ RefuseInContext("CMD_WARNING")
no_set_aspath_prepend == policy_set_route_map_set_in_ovsdb("as-path prepend", NULL)
set_origin ==
    \E origin \in {"igp", "egp", "incomplete"} :
        policy_set_route_map_set_in_ovsdb("origin", <<origin>>)
no_set_origin == policy_set_route_map_set_in_ovsdb("origin", NULL)
set_ipv6_nexthop_global ==
    \E a \in Args : policy_set_route_map_set_in_ovsdb("ipv6 next-hop global", <<a>>)
no_set_ipv6_nexthop_global == policy_set_route_map_set_in_ovsdb("ipv6 next-hop global", NULL)
set_metric == \E a \in Args : policy_set_route_map_set_in_ovsdb("metric", <<a>>)
no_set_metric == policy_set_route_map_set_in_ovsdb("metric", NULL)
set_ecommunity_rt == \E a \in Args : SetUnreported("extcommunity rt", <<a>>)
no_set_ecommunity_rt == policy_set_route_map_set_in_ovsdb("extcommunity rt", NULL)
set_ecommunity_soo == \E a \in Args : SetUnreported("extcommunity soo", <<a>>)
no_set_ecommunity_soo == policy_set_route_map_set_in_ovsdb("extcommunity soo", NULL)

(* The words of "set community", "additive" moved to the end. *)
CommunityWords(words) ==
    SelectSeq(words, LAMBDA w : w # "additive")
      \o (IF \E i \in DOMAIN words : words[i] = "additive" THEN <<"additive">> ELSE <<>>)

policy_set_route_map_set_community_str_in_ovsdb ==
    \E a \in Args : \E words \in {<<a>>, <<a, "additive">>, <<"additive", a>>} :
        SetUnreported("community", CommunityWords(words))
no_set_community == policy_set_route_map_set_in_ovsdb("community", NULL)
set_weight == \E a \in Args : policy_set_route_map_set_in_ovsdb("weight", <<a>>)
no_set_weight == policy_set_route_map_set_in_ovsdb("weight", NULL)
set_local_pref == \E a \in Args : policy_set_route_map_set_in_ovsdb("local-preference", <<a>>)
no_set_local_pref == policy_set_route_map_set_in_ovsdb("local-preference", NULL)

(* It returns what inet_aton returned: 1, a warning, when the address is
   good, and 0, success, when it is not and nothing is done. *)
policy_set_route_map_set_aggregator_as_in_ovsdb ==
    \/ \E a \in Args :
         LET tables == WithContextEntry([ContextEntry EXCEPT
                         !.set = Put(@, set_table["aggregator as"], <<a, "address">>)])
         IN  InContext(Finish("CMD_WARNING", tables) \/ Finish("CMD_WARNING", db))
    \/ RefuseInContext("CMD_SUCCESS")
no_set_aggregator_as == policy_set_route_map_set_in_ovsdb("aggregator as", NULL)
set_atomic_aggregate == policy_set_route_map_set_in_ovsdb("atomic-aggregate", <<"true">>)
no_set_atomic_aggregate == policy_set_route_map_set_in_ovsdb("atomic-aggregate", NULL)
policy_set_route_map_set_comm_list_str_in_ovsdb ==
    \E a \in Args : SetUnreported("comm-list", <<a, "delete">>)
no_set_community_delete == policy_set_route_map_set_in_ovsdb("comm-list", NULL)

--------------------------------------------------------------------------------
(* What "show running-config" prints: the command that would be typed. *)

Is6(entry) == entry.prefix.afi = "AFI_IP6"

Printed(afi, entry, ge, le) == [afi |-> afi, prefix |-> entry.prefix, ge |-> ge, le |-> le]

PrefixCallback_AnyIs4(entry) ==
    Printed(IF Is6(entry) THEN "AFI_IP6" ELSE "AFI_IP", entry,
            IF entry.prefix = AnyPrefix THEN 0 ELSE entry.ge,
            IF entry.prefix = AnyPrefix THEN 0 ELSE entry.le)

vtysh_router_context_bgp_ip_prefix_clientcallback(entry) ==
    LET afi == IF Is6(entry) THEN "AFI_IP6" ELSE "AFI_IP"
    IN  CASE entry.prefix = AnyPrefix \/ (entry.ge = 0 /\ entry.le = 0) ->
               Printed(IF entry.le = 128 THEN "AFI_IP6" ELSE afi, entry, 0, 0)
          [] OTHER -> Printed(afi, entry, entry.ge, entry.le)


(* The clauses of a route map entry, under the words they are typed with. *)
MatchWords ==
    [prefix_list |-> "ip address prefix-list", ipv6_prefix_list |-> "ipv6 address prefix-list",
     community |-> "community", extcommunity |-> "extcommunity", as_path |-> "as-path",
     ipv6_next_hop |-> "ipv6 next-hop", metric |-> "metric", origin |-> "origin",
     probability |-> "probability"]

SetWords_NoWeight == [community |-> "community", metric |-> "metric"]

SetWords ==
    [community |-> "community", metric |-> "metric", aggregator_as |-> "aggregator as",
     as_path_exclude |-> "as-path exclude", as_path_prepend |-> "as-path prepend",
     atomic_aggregate |-> "atomic-aggregate", comm_list |-> "comm-list",
     extcommunity_rt |-> "extcommunity rt", extcommunity_soo |-> "extcommunity soo",
     ipv6_next_hop_global |-> "ipv6 next-hop global", local_preference |-> "local-preference",
     origin |-> "origin", weight |-> "weight"]

PrintedClauses(words, map) ==
    {<<words[key], IF key = "atomic_aggregate" THEN NULL ELSE map[key]>> :
        key \in DOMAIN map \cap DOMAIN words}

vtysh_router_context_bgp_ip_filter_list_clientcallback ==
    UNION {{<<row.name, action, line>> : line \in row[action]} :
             row \in db.aspath_filters, action \in Actions}

CommunityCallback_OneType ==
    UNION {{<<"community-list", row.name, action, line>> : line \in row[action]} :
             row \in db.community_filters, action \in Actions}

vtysh_router_context_bgp_ip_community_filter_clientcallback ==
    UNION {{<<row.type, row.name, action, line>> : line \in row[action]} :
             row \in db.community_filters, action \in Actions}

--------------------------------------------------------------------------------
(* What "show ip prefix-list" and "show ipv6 prefix-list" print of one list.
   A query is the family, the sequence number or 0, the prefix or AnyPrefix
   for none, and the words first-match, longer and summary. *)

Query(afi) ==
    [afi |-> afi, seq |-> 0, prefix |-> AnyPrefix, first_match |-> FALSE,
     longer |-> FALSE, summary |-> FALSE]

SeqShown(q, seq) == q.seq \in {0, seq} /\ ~ q.summary

(* The lines of an IPv6 entry; the first sort ends the list on first-match. *)
Exact6(q, seq, entry) ==
    SeqShown(q, seq) /\ q.prefix \in {AnyPrefix, entry.prefix} /\ ~ q.longer

Longer6(q, entry) == q.longer /\ entry.prefix.len >= q.prefix.len

Shown6(q, seq, entry) == q.afi = "AFI_IP6" /\ (Exact6(q, seq, entry) \/ Longer6(q, entry))

Shown4(q, seq, entry) == q.afi = "AFI_IP" /\ SeqShown(q, seq)

(* One operator per block of the function: no bound, ge, le, and both. *)
ShowExact_ByAddress(q, seq, entry) ==
    IF Is6(entry) THEN Shown6(q, seq, entry) ELSE Shown4(q, seq, entry)

ShowExact(q, seq, entry) ==
    CASE entry.le = 128 -> q.afi = "AFI_IP6" /\ SeqShown(q, seq)
      [] entry.le # 128 /\ Is6(entry) -> Shown6(q, seq, entry)
      [] entry.le # 128 /\ ~ Is6(entry) -> Shown4(q, seq, entry)

ShowGe(q, seq, entry) ==
    IF Is6(entry) THEN Shown6(q, seq, entry) ELSE Shown4(q, seq, entry)

ShowLe(q, seq, entry) ==
    IF Is6(entry) THEN Shown6(q, seq, entry) ELSE Shown4(q, seq, entry)

ShowRange(q, seq, entry) ==
    IF Is6(entry) THEN Shown6(q, seq, entry) ELSE Shown4(q, seq, entry)

Shown(q, seq, entry) ==
    CASE entry.prefix = AnyPrefix \/ (entry.ge = 0 /\ entry.le = 0) -> ShowExact(q, seq, entry)
      [] entry.prefix # AnyPrefix /\ entry.le = 0 /\ entry.ge # 0 -> ShowGe(q, seq, entry)
      [] entry.prefix # AnyPrefix /\ entry.ge = 0 /\ entry.le # 0 -> ShowLe(q, seq, entry)
      [] entry.prefix # AnyPrefix /\ entry.ge # 0 /\ entry.le # 0 -> ShowRange(q, seq, entry)

(* The sequence numbers printed: up to the first exact IPv6 line, if the
   query asks for the first match. *)
show_prefix_list(q, entries) ==
    LET ends(s) == q.first_match /\ q.afi = "AFI_IP6" /\ Is6(entries[s]) /\ Exact6(q, s, entries[s])
    IN  {s \in DOMAIN entries :
           /\ Shown(q, s, entries[s])
           /\ ~ \E t \in DOMAIN entries : t < s /\ ends(t)}

policy_show_community_filter_in_ovsdb(type) ==
    {row \in db.community_filters : row.type = type}

--------------------------------------------------------------------------------
PolicyInit ==
    /\ db = NoTables
    /\ ret = "CMD_SUCCESS"
    /\ vtysh = "ready"
    /\ rmp_context = <<>>

PrefixListNext ==
    \E name \in ListNames :
      \/ \E seq \in Seqs, action \in Actions :
           \/ ip_prefix_list_seq(name, seq, action) \/ ip_prefix_list_seq_any(name, seq, action)
           \/ ipv6_prefix_list_seq(name, seq, action) \/ ipv6_prefix_list_seq_any(name, seq, action)
           \/ no_ip_prefix_list_seq(name, seq, action) \/ no_ip_prefix_list_seq_any(name, seq, action)
           \/ no_ipv6_prefix_list_seq(name, seq, action)
           \/ no_ipv6_prefix_list_seq_any(name, seq, action)
      \/ ipv6_prefix_list_line(name) \/ no_ipv6_prefix_list_line(name)
      \/ no_ip_prefix_list(name) \/ no_ipv6_prefix_list(name)

FilterListNext ==
    \E name \in ListNames :
      \/ \E action \in Actions :
           \/ ip_as_path(name, action) \/ no_ip_as_path(name, action)
           \/ ip_community_list(name, action) \/ ip_extcommunity_list(name, action)
           \/ no_ip_community_list_line(name, action) \/ no_ip_extcommunity_list_line(name, action)
      \/ no_ip_as_path_all(name)
      \/ no_ip_community_list(name) \/ no_ip_extcommunity_list(name)

(* Another session removes an entry. *)
OtherSession ==
    /\ vtysh # "dead"
    /\ \E name \in DOMAIN db.route_maps : \E pref \in DOMAIN db.route_maps[name] :
         db' = [db EXCEPT !.route_maps[name] = Drop(@, pref)]
    /\ UNCHANGED <<ret, vtysh, rmp_context>>

RouteMapNext ==
    \/ \E name \in ListNames :
         \/ \E action \in Actions, pref \in Seqs :
              \/ policy_set_route_map_in_ovsdb(name, action, pref)
              \/ cli_no_route_map_cmd_execute(name, action, pref)
         \/ cli_no_route_map_all_cmd_execute(name)
    \/ OtherSession
    \/ rmap_description \/ no_rmap_description

MatchNext ==
    \/ match_ip_address_prefix_list \/ no_match_ip_address_prefix_list
    \/ match_ipv6_address_prefix_list \/ no_match_ipv6_address_prefix_list
    \/ match_aspath \/ no_match_aspath \/ match_origin \/ no_match_origin
    \/ match_metric \/ no_match_metric \/ match_ipv6_next_hop \/ no_match_ipv6_next_hop
    \/ match_probability \/ no_match_probability
    \/ match_community \/ match_community_exact \/ no_match_community
    \/ match_ecommunity \/ no_match_ecommunity

SetNext ==
    \/ policy_set_route_map_set_as_path_exclude_str_in_ovsdb \/ no_set_aspath_exclude
    \/ policy_set_route_map_set_as_path_prepend_str_in_ovsdb \/ no_set_aspath_prepend
    \/ set_origin \/ no_set_origin \/ set_ipv6_nexthop_global \/ no_set_ipv6_nexthop_global
    \/ set_metric \/ no_set_metric \/ set_ecommunity_rt \/ no_set_ecommunity_rt
    \/ set_ecommunity_soo \/ no_set_ecommunity_soo
    \/ policy_set_route_map_set_community_str_in_ovsdb \/ no_set_community
    \/ set_weight \/ no_set_weight \/ set_local_pref \/ no_set_local_pref
    \/ policy_set_route_map_set_aggregator_as_in_ovsdb \/ no_set_aggregator_as
    \/ set_atomic_aggregate \/ no_set_atomic_aggregate
    \/ policy_set_route_map_set_comm_list_str_in_ovsdb \/ no_set_community_delete

PolicyNext == PrefixListNext \/ FilterListNext \/ RouteMapNext \/ MatchNext \/ SetNext

PolicySpec == PolicyInit /\ [][PolicyNext]_policyVars

--------------------------------------------------------------------------------
Entries ==
    UNION {{list.entries[s] : s \in DOMAIN list.entries} :
             list \in {db.prefix_lists[n] : n \in DOMAIN db.prefix_lists}}

Maps == {db.route_maps[n] : n \in DOMAIN db.route_maps}

(* Types: entries, filters, route maps and the context. *)
PolicyTypeOK ==
    /\ DOMAIN db.prefix_lists \cup DOMAIN db.route_maps \subseteq ListNames
    /\ \A e \in Entries :
         e.action \in Actions /\ e.prefix \in UNION {Typed(afi) : afi \in AFIs}
    /\ \A row \in db.aspath_filters : row.permit \cup row.deny \subseteq Lines
    /\ \A row \in db.community_filters : row.type \in CommunityTypes
    /\ \A map \in Maps : \A pref \in DOMAIN map :
         /\ DOMAIN map[pref].match \subseteq {match_table[c] : c \in DOMAIN match_table}
         /\ DOMAIN map[pref].set \subseteq {set_table[c] : c \in DOMAIN set_table}
    /\ ret \in Results
    /\ vtysh \in {"ready", "txn", "dead"}

(* The message of vty_invalid_prefix_range says "len < ge-value <= le-value":
   no entry is ever stored, or left by a rewrite of its number, outside it,
   and none keeps an le of the maximum beside a ge. *)
RangesHold ==
    \A e \in Entries :
        /\ e.ge # 0 => e.ge > e.prefix.len
        /\ e.le # 0 => e.le > e.prefix.len /\ e.ge <= e.le
        /\ e.ge # 0 => e.le # (IF Is6(e) THEN 128 ELSE 32)

(* No order of "ip as-path", "ip community-list" and "ip extcommunity-list"
   makes two rows of one name, which the commands that look a row up by its
   name rely on. *)
OneRowPerName ==
    /\ \A r, s \in db.aspath_filters : r.name = s.name => r = s
    /\ \A r, s \in db.community_filters : r.name = s.name => r = s

(* The tables of the policy commands stay consistent: both of the above. *)
PolicyConsistent == RangesHold /\ OneRowPerName

(* show running-config prints every prefix list entry as a command that is
   accepted and stores the very same entry. *)
PrefixConfigRestores ==
    \A e \in Entries :
        LET line == vtysh_router_context_bgp_ip_prefix_clientcallback(e)
        IN  /\ ~ vty_invalid_prefix_range(line.prefix, line.ge, line.le)
            /\ PrefixEntry(line.afi, e.action, line.prefix, line.ge, line.le) = e

(* The same for the clauses of a route map entry: none is left out, and each
   is printed under words that store it under its own key. *)
ClausesRestored(words, table, map) ==
    {<<policy_cmd_to_key_lookup(c[1], table),
       IF c[1] = "atomic-aggregate" THEN <<"true">> ELSE c[2]>> : c \in PrintedClauses(words, map)}
      = {<<key, map[key]>> : key \in DOMAIN map}

RouteMapConfigRestores ==
    \A map \in Maps : \A pref \in DOMAIN map :
        /\ ClausesRestored(MatchWords, match_table, map[pref].match)
        /\ ClausesRestored(SetWords, set_table, map[pref].set)

(* The lines show running-config prints of AS path and community lists,
   gathered by their list and action as the commands do, are the rows that
   have lines, whatever mixture of the two community commands filled them;
   and each community list is shown by the one show command of its type. *)
FilterConfigRestores ==
    LET aspath == vtysh_router_context_bgp_ip_filter_list_clientcallback
        community == vtysh_router_context_bgp_ip_community_filter_clientcallback
        withLines == {row \in db.community_filters : row.permit \cup row.deny # {}}
    IN  /\ {[name |-> c[1], permit |-> {l \in Lines : <<c[1], "permit", l>> \in aspath},
             deny |-> {l \in Lines : <<c[1], "deny", l>> \in aspath}] : c \in aspath}
             = db.aspath_filters
        /\ {[name |-> c[2], type |-> c[1],
             permit |-> {l \in Lines : <<c[1], c[2], "permit", l>> \in community},
             deny |-> {l \in Lines : <<c[1], c[2], "deny", l>> \in community}] : c \in community}
             = withLines
        /\ \A row \in withLines :
             Cardinality({t \in CommunityTypes : row \in policy_show_community_filter_in_ovsdb(t)}) = 1

(* "show ip prefix-list" and "show ipv6 prefix-list" share the entries of a
   list out exactly as the running configuration does, and a query for the
   first match of a prefix prints at most one entry of that prefix. *)
ShowAgreesWithConfig ==
    \A name \in DOMAIN db.prefix_lists :
        LET entries == db.prefix_lists[name].entries
        IN  /\ \A afi \in AFIs :
                 show_prefix_list(Query(afi), entries) =
                   {s \in DOMAIN entries :
                      vtysh_router_context_bgp_ip_prefix_clientcallback(entries[s]).afi = afi}
            /\ \A prefix \in Typed("AFI_IP6") \ {AnyPrefix} :
                 Cardinality({s \in show_prefix_list([Query("AFI_IP6") EXCEPT
                                !.prefix = prefix, !.first_match = TRUE], entries) :
                              entries[s].prefix = prefix}) <= 1

(* What show running-config prints of prefix lists, filters and route maps
   stores the same entries, lines and clauses when it is typed, and the show
   commands share a list's entries out as the running configuration does: the
   four above. *)
PolicyRestores ==
    /\ PrefixConfigRestores /\ RouteMapConfigRestores /\ FilterConfigRestores
    /\ ShowAgreesWithConfig

(* Not a property of the code: every entry is found under the number and the
   words it was configured with, which "no prefix-list ... seq N" needs. The
   number is an int in the look-up and "<1-4294967295>" in the grammar. *)
EntriesFound ==
    \A name \in DOMAIN db.prefix_lists :
        \A s \in DOMAIN db.prefix_lists[name].entries :
            policy_get_prefix_list_entry_in_ovsdb(name, s, db.prefix_lists[name].entries[s])
================================================================================
