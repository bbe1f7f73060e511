----------------------------- MODULE PrefixList -----------------------------
(***************************************************************************)
(* The prefix lists of the routing library (lib/plist.c): one master of    *)
(* named lists per address family and one for the filters a BGP peer       *)
(* sends (ORF), the commands that install and remove entries, the filter   *)
(* itself, the configuration writer and the ORF interface.                 *)
(*                                                                         *)
(* A prefix is [addr, len] with addr a sequence of bits.  A sequence       *)
(* number is an int: what is typed or received is an unsigned number that  *)
(* the assignment wraps (IntOf).  An optional argument is <<>> or <<v>>.   *)
(***************************************************************************)
EXTENDS Integers, Sequences, FiniteSets, SequencesExt

CONSTANTS
  AFIs,        \* the families with commands, a subset of {"ip", "ip6"}
  Names,       \* list names: [digits: BOOLEAN, order: Nat, text: STRING]
  Nets,        \* prefixes: [addr: Seq({0, 1}), len: Nat]
  Seqs,        \* sequence numbers a user or a peer sends
  Ranges,      \* pairs of bounds <<ge, le>>, each <<>> or <<n>>
  MaxBits,     \* IPV4_MAX_BITLEN and IPV6_MAX_BITLEN
  IntMax,      \* INT_MAX
  MaxEntries,  \* bound: entries of all lists
  MaxExtras,   \* bound: descriptions, consulted lists, peers' lists, numbering off
  MaxApplied   \* bound: how often one entry is consulted

VARIABLES
  master,  \* prefix_master_ipv4, prefix_master_ipv6, prefix_master_orf
  ret      \* what the last operation returned

vars == <<master, ret>>

ORF == "orf"
Masters == AFIs \cup {ORF}
Types == {"permit", "deny"}
Opt(S) == {<<>>} \cup {<<x>> : x \in S}

\* a typed prefix: a prefix, the word any, or text the parser refuses
Words == {[kind |-> "prefix", p |-> p] : p \in Nets}
           \cup {[kind |-> "any", p |-> <<>>], [kind |-> "malformed", p |-> <<>>]}

IntOf(n) == ((n + IntMax + 1) % (2 * (IntMax + 1))) - (IntMax + 1)

EmptyMaster == [num |-> <<>>, str |-> <<>>, seqnum |-> TRUE, recent |-> {}]

Init == master = [a \in Masters |-> EmptyMaster] /\ ret = "none"

-----------------------------------------------------------------------------
(* Lists of a master *)

AllLists(m) == m.num \o m.str
Listed(m, name) == {pl \in ToSet(AllLists(m)) : pl.name = name}

prefix_list_lookup(m, name) == Listed(m, name)

\* put x before the first element of s that is not before it
Insert(s, x, Before(_, _)) ==
  LET n == Cardinality({i \in DOMAIN s : Before(s[i], x)}) IN InsertAt(s, n + 1, x)

\* digits sort by number, other names by text; a new list goes before its equals
prefix_list_insert(m, name) ==
  LET plist == [name |-> name, entries |-> <<>>, count |-> 0, desc |-> {}]
      Before(a, b) == a.name.order < b.name.order
  IN IF name.digits THEN [m EXCEPT !.num = Insert(@, plist, Before)]
                    ELSE [m EXCEPT !.str = Insert(@, plist, Before)]

prefix_list_get(m, name) ==
  IF prefix_list_lookup(m, name) = {} THEN prefix_list_insert(m, name) ELSE m

\* the list called name is replaced by f of it
Update(m, name, f(_)) ==
  LET Upd(s) == [i \in DOMAIN s |-> IF s[i].name = name THEN f(s[i]) ELSE s[i]]
  IN [m EXCEPT !.num = Upd(@), !.str = Upd(@)]

list_delete_keeps_recent(m, name) ==
  LET Keep(pl) == pl.name # name
  IN [m EXCEPT !.num = SelectSeq(@, Keep), !.str = SelectSeq(@, Keep)]

prefix_list_delete(m, name) ==
  LET Keep(pl) == pl.name # name
  IN [m EXCEPT !.num = SelectSeq(@, Keep), !.str = SelectSeq(@, Keep), !.recent = {}]

-----------------------------------------------------------------------------
(* Entries of a list *)

prefix_match(n, p) == n.len <= p.len /\ \A i \in 1..n.len : n.addr[i] = p.addr[i]

prefix_list_entry_make(p, type, seq, le, ge, any) ==
  [prefix |-> p, type |-> type, seq |-> seq, le |-> le, ge |-> ge, any |-> any,
   refcnt |-> 0, hitcnt |-> 0]

prefix_new_seq_get(pl) ==
  LET seqs == {e.seq : e \in ToSet(pl.entries)} \cup {0}
      maxseq == CHOOSE s \in seqs : \A t \in seqs : t <= s
  IN IntOf((maxseq \div 5) * 5 + 5)

prefix_list_entry_lookup(pl, p, type, seq, le, ge) ==
  {i \in DOMAIN pl.entries :
     LET e == pl.entries[i]
     IN e.prefix = p /\ e.type = type /\ e.le = le /\ e.ge = ge
        /\ (seq >= 0 => e.seq = seq)}

prefix_entry_dup_check(pl, new) ==
  LET seq == IF new.seq = -1 THEN prefix_new_seq_get(pl) ELSE new.seq
  IN \E e \in ToSet(pl.entries) :
       e.prefix = new.prefix /\ e.type = new.type /\ e.le = new.le /\ e.ge = new.ge
       /\ e.seq # seq

\* the entry with the same number is dropped and the new one takes its place
entry_add_no_decrement(pl, new) ==
  LET seq == IF new.seq = -1 THEN prefix_new_seq_get(pl) ELSE new.seq
      Other(e) == e.seq # seq
      Before(a, b) == a.seq < b.seq
      kept == SelectSeq(pl.entries, Other)
  IN [pl EXCEPT !.entries = Insert(kept, [new EXCEPT !.seq = seq], Before),
                !.count = @ + 1]

entry_add_at_tail(pl, new) ==
  LET seq == IF new.seq = -1 THEN prefix_new_seq_get(pl) ELSE new.seq
      Other(e) == e.seq # seq
      kept == SelectSeq(pl.entries, Other)
  IN [pl EXCEPT !.entries = Append(kept, [new EXCEPT !.seq = seq]),
                !.count = @ - (Len(pl.entries) - Len(kept)) + 1]

prefix_list_entry_add(pl, new) ==
  LET seq == IF new.seq = -1 THEN prefix_new_seq_get(pl) ELSE new.seq
      Other(e) == e.seq # seq
      Before(a, b) == a.seq < b.seq
      kept == SelectSeq(pl.entries, Other)
  IN [pl EXCEPT !.entries = Insert(kept, [new EXCEPT !.seq = seq], Before),
                !.count = @ - (Len(pl.entries) - Len(kept)) + 1]

entry_delete_keeps_list(m, pl, i) ==
  LET rest == [pl EXCEPT !.entries = RemoveAt(@, i), !.count = @ - 1]
      Rest(x) == rest
  IN [Update(m, pl.name, Rest) EXCEPT !.recent = {pl.name}]

\* a list left with neither entry nor description goes with its last entry
prefix_list_entry_delete(m, pl, i) ==
  LET rest == [pl EXCEPT !.entries = RemoveAt(@, i), !.count = @ - 1]
      Rest(x) == rest
  IN IF rest.entries = <<>> /\ rest.desc = {}
     THEN prefix_list_delete(m, pl.name)
     ELSE [Update(m, pl.name, Rest) EXCEPT !.recent = {pl.name}]

prefix_list_entry_match(e, p) ==
  /\ prefix_match(e.prefix, p)
  /\ IF e.le = 0 /\ e.ge = 0
     THEN e.prefix.len = p.len
     ELSE /\ e.le # 0 => p.len <= e.le
          /\ e.ge # 0 => p.len >= e.ge

\* how many entries the walk of a list consults, and what it answers
Consulted(pl, p) ==
  LET hits == {i \in DOMAIN pl.entries : prefix_list_entry_match(pl.entries[i], p)}
  IN IF hits = {} THEN Len(pl.entries) ELSE CHOOSE i \in hits : \A j \in hits : i <= j

prefix_list_apply(pls, p) ==
  IF pls = {} THEN "deny"
  ELSE LET pl == CHOOSE x \in pls : TRUE
           n == Consulted(pl, p)
       IN IF pl.count = 0 THEN "permit"
          ELSE IF n > 0 /\ prefix_list_entry_match(pl.entries[n], p)
               THEN pl.entries[n].type
               ELSE "deny"

-----------------------------------------------------------------------------
(* The commands.  Each leaves the master of one family and a result. *)

Done(a, m, r) == master' = [master EXCEPT ![a] = m] /\ ret' = r
Refused(r) == master' = master /\ ret' = r

NumOf(n) == IF n = <<>> THEN 0 ELSE n[1]

\* the prefix a word stands for, with the bounds any implies
Parsed(word, ge, le) ==
  CASE word.kind = "any" ->
         [p |-> [addr |-> [i \in 1..MaxBits |-> 0], len |-> 0],
          ge |-> 0, le |-> MaxBits, any |-> TRUE]
    [] word.kind = "prefix" ->
         [p |-> word.p, any |-> FALSE,
          ge |-> NumOf(ge), le |-> NumOf(le)]

SeqNum(seq) == IF seq = <<>> THEN -1 ELSE IntOf(seq[1])

BadRange(p, ge, le) ==
  \/ ge # 0 /\ ge <= p.len
  \/ le # 0 /\ le <= p.len
  \/ le # 0 /\ ge > le

\* an upper bound of all bits adds nothing to a lower bound
Normal(ge, le) == IF ge # 0 /\ le = MaxBits THEN 0 ELSE le

\* enter a checked entry into the list called name of master m
Enter(m, name, p, type, seq, le, ge, any) ==
  LET got == prefix_list_get(m, name)
      pl == CHOOSE x \in Listed(got, name) : TRUE
      new == prefix_list_entry_make(p, type, seq, le, ge, any)
      Added(x) == prefix_list_entry_add(x, new)
  IN IF prefix_entry_dup_check(pl, new)
     THEN [m |-> got, r |-> "warning"]
     ELSE [m |-> [Update(got, name, Added) EXCEPT !.recent = {name}], r |-> "success"]

\* what a typed install line makes of a master
Installed(m, name, seq, type, word, ge, le) ==
  IF word.kind = "malformed" THEN [m |-> m, r |-> "warning"]
  ELSE LET w == Parsed(word, ge, le)
       IN IF BadRange(w.p, w.ge, w.le) THEN [m |-> m, r |-> "warning"]
          ELSE Enter(m, name, w.p, type, SeqNum(seq), Normal(w.ge, w.le), w.ge, w.any)

vty_prefix_list_install(a, name, seq, type, word, ge, le) ==
  LET done == Installed(master[a], name, seq, type, word, ge, le) IN Done(a, done.m, done.r)

\* the entry a typed "no" line names; the bounds are taken as typed
Named(pl, seq, type, word, ge, le) ==
  LET w == Parsed(word, ge, le)
  IN prefix_list_entry_lookup(pl, w.p, type, SeqNum(seq), w.le, w.ge)

Least(S) == CHOOSE i \in S : \A j \in S : i <= j

\* line = <<>>: only the name was typed
vty_prefix_list_uninstall(a, name, line) ==
  LET found == prefix_list_lookup(master[a], name)
      pl == CHOOSE x \in found : TRUE
  IN \/ found = {} /\ Refused("warning")
     \/ found # {} /\ line = <<>> /\ Done(a, prefix_list_delete(master[a], name), "success")
     \/ /\ found # {} /\ line # <<>>
        /\ IF line[1].word.kind = "malformed" THEN Refused("warning")
           ELSE LET l == line[1]
                    at == Named(pl, l.seq, l.type, l.word, l.ge, l.le)
                IN IF at = {} THEN Refused("warning")
                   ELSE Done(a, prefix_list_entry_delete(master[a], pl, Least(at)), "success")

desc_set(a, name) ==
  LET Described(pl) == [pl EXCEPT !.desc = {"text"}]
  IN Done(a, Update(prefix_list_get(master[a], name), name, Described), "success")

vty_prefix_list_desc_unset(a, name) ==
  LET found == prefix_list_lookup(master[a], name)
      Plain(pl) == [pl EXCEPT !.desc = {}]
  IN \/ found = {} /\ Refused("warning")
     \/ /\ found # {}
        /\ Done(a, IF \E pl \in found : pl.entries = <<>>
                   THEN prefix_list_delete(master[a], name)
                   ELSE Update(master[a], name, Plain), "success")

clear_refcnt(a, name, word) ==
  LET Hit(e) == word = <<>> \/ prefix_match(e.prefix, word[1])
      Zero(pl) == [pl EXCEPT !.entries = [i \in DOMAIN @ |->
                                IF Hit(@[i]) THEN [@[i] EXCEPT !.refcnt = 0] ELSE @[i]]]
  IN name # <<>> /\ Done(a, Update(master[a], name[1], Zero), "success")

\* hit counts back to zero: of all lists, of one, or of the entries covering a prefix
vty_clear_prefix_list(a, name, word) ==
  LET Hit(e) == word = <<>> \/ prefix_match(e.prefix, word[1])
      Zero(pl) == [pl EXCEPT !.entries = [i \in DOMAIN @ |->
                                IF Hit(@[i]) THEN [@[i] EXCEPT !.hitcnt = 0] ELSE @[i]]]
      m == master[a]
      All(s) == [i \in DOMAIN s |-> Zero(s[i])]
  IN \/ name = <<>> /\ Done(a, [m EXCEPT !.num = All(@), !.str = All(@)], "success")
     \/ /\ name # <<>>
        /\ IF prefix_list_lookup(m, name[1]) = {} THEN Refused("warning")
           ELSE Done(a, Update(m, name[1], Zero), "success")

\* The forms without a number, with one, and their "no" forms
ip_prefix_list(name, type, word, ge, le) ==
  vty_prefix_list_install("ip", name, <<>>, type, word, ge, le)
ip_prefix_list_seq(name, seq, type, word, ge, le) ==
  vty_prefix_list_install("ip", name, <<seq>>, type, word, ge, le)
no_ip_prefix_list(name) == vty_prefix_list_uninstall("ip", name, <<>>)
no_ip_prefix_list_prefix(name, type, word, ge, le) ==
  vty_prefix_list_uninstall("ip", name,
    <<[seq |-> <<>>, type |-> type, word |-> word, ge |-> ge, le |-> le]>>)
no_ip_prefix_list_seq(name, seq, type, word, ge, le) ==
  vty_prefix_list_uninstall("ip", name,
    <<[seq |-> <<seq>>, type |-> type, word |-> word, ge |-> ge, le |-> le]>>)
ip_prefix_list_sequence_number(on) ==
  Done("ip", [master["ip"] EXCEPT !.seqnum = on], "success")
ip_prefix_list_description(name) == desc_set("ip", name)
no_ip_prefix_list_description(name) == vty_prefix_list_desc_unset("ip", name)
clear_ip_prefix_list(name, word) == vty_clear_prefix_list("ip", name, word)

ipv6_prefix_list(name, type, word, ge, le) ==
  vty_prefix_list_install("ip6", name, <<>>, type, word, ge, le)
ipv6_prefix_list_seq(name, seq, type, word, ge, le) ==
  vty_prefix_list_install("ip6", name, <<seq>>, type, word, ge, le)
no_ipv6_prefix_list(name) == vty_prefix_list_uninstall("ip6", name, <<>>)
no_ipv6_prefix_list_prefix(name, type, word, ge, le) ==
  vty_prefix_list_uninstall("ip6", name,
    <<[seq |-> <<>>, type |-> type, word |-> word, ge |-> ge, le |-> le]>>)
no_ipv6_prefix_list_seq(name, seq, type, word, ge, le) ==
  vty_prefix_list_uninstall("ip6", name,
    <<[seq |-> <<seq>>, type |-> type, word |-> word, ge |-> ge, le |-> le]>>)
ipv6_prefix_list_sequence_number(on) ==
  Done("ip6", [master["ip6"] EXCEPT !.seqnum = on], "success")
ipv6_prefix_list_description(name) == desc_set("ip6", name)
no_ipv6_prefix_list_description(name) == vty_prefix_list_desc_unset("ip6", name)
clear_ipv6_prefix_list(name, word) == vty_clear_prefix_list("ip6", name, word)

\* a peer's filter entry, added or removed; a removal also creates the list
prefix_bgp_orf_set(name, o, permit, set) ==
  LET type == IF permit THEN "permit" ELSE "deny"
      le == Normal(o.ge, o.le)
      got == prefix_list_get(master[ORF], name)
      pl == CHOOSE x \in Listed(got, name) : TRUE
      at == prefix_list_entry_lookup(pl, o.p, type, IntOf(o.seq), le, o.ge)
      done == Enter(master[ORF], name, o.p, type, IntOf(o.seq), le, o.ge, FALSE)
  IN IF BadRange(o.p, o.ge, o.le) THEN Refused("warning")
     ELSE IF set THEN Done(ORF, done.m, done.r)
     ELSE IF at = {} THEN Done(ORF, got, "warning")
     ELSE Done(ORF, prefix_list_entry_delete(got, pl, Least(at)), "success")

prefix_bgp_orf_remove_all(name) ==
  /\ prefix_list_lookup(master[ORF], name) # {}
  /\ Done(ORF, prefix_list_delete(master[ORF], name), ret)

\* a route is filtered: entries are counted up to the one that decides
Applied(pl, p) ==
  LET n == Consulted(pl, p)
  IN [pl EXCEPT !.entries = [i \in DOMAIN @ |->
        IF i > n \/ pl.count = 0 THEN @[i]
        ELSE [@[i] EXCEPT !.refcnt = @ + 1,
                          !.hitcnt = IF i = n /\ prefix_list_entry_match(pl.entries[i], p)
                                     THEN @ + 1 ELSE @]]]

Apply(a, name, p) ==
  LET Count(pl) == Applied(pl, p)
  IN /\ \A pl \in ToSet(AllLists(master[a])) : \A e \in ToSet(pl.entries) : e.refcnt < MaxApplied
     /\ Done(a, Update(master[a], name, Count), prefix_list_apply(Listed(master[a], name), p))

prefix_list_reset_ipv4 == Done("ip", EmptyMaster, "none")
prefix_list_reset_ipv6 == Done("ip6", EmptyMaster, "none")
prefix_list_reset_orf == Done(ORF, EmptyMaster, "none")

-----------------------------------------------------------------------------
Lists == FoldSet(LAMBDA a, s : s \o AllLists(master[a]), <<>>, Masters)
Entries == FoldLeft(LAMBDA n, pl : n + Len(pl.entries), 0, Lists)
Extras ==
  Cardinality({a \in Masters : ~master[a].seqnum})
  + Cardinality({i \in DOMAIN Lists : Lists[i].desc # {}})
  + Cardinality({i \in DOMAIN Lists : \E e \in ToSet(Lists[i].entries) : e.refcnt > 0})
  + Len(AllLists(master[ORF]))

\* the bounds of the model: entries, and everything else a command adds
Room == Entries < MaxEntries
Spare == Extras < MaxExtras

NextIp ==
  /\ "ip" \in AFIs
  /\ \E name \in Names :
     \/ \E type \in Types, word \in Words, r \in Ranges :
        \/ Room /\ ip_prefix_list(name, type, word, r[1], r[2])
        \/ no_ip_prefix_list_prefix(name, type, word, r[1], r[2])
        \/ \E seq \in Seqs : \/ Room /\ ip_prefix_list_seq(name, seq, type, word, r[1], r[2])
                             \/ no_ip_prefix_list_seq(name, seq, type, word, r[1], r[2])
     \/ no_ip_prefix_list(name)
     \/ Spare /\ ip_prefix_list_description(name)
     \/ no_ip_prefix_list_description(name)
     \/ \E o \in Opt(Names), w \in Opt(Nets) : (o = <<>> => w = <<>>) /\ clear_ip_prefix_list(o, w)
     \/ \E on \in BOOLEAN : (on \/ Spare) /\ ip_prefix_list_sequence_number(on)
     \/ prefix_list_reset_ipv4

NextIpv6 ==
  /\ "ip6" \in AFIs
  /\ \E name \in Names :
     \/ \E type \in Types, word \in Words, r \in Ranges :
        \/ Room /\ ipv6_prefix_list(name, type, word, r[1], r[2])
        \/ no_ipv6_prefix_list_prefix(name, type, word, r[1], r[2])
        \/ \E seq \in Seqs : \/ Room /\ ipv6_prefix_list_seq(name, seq, type, word, r[1], r[2])
                             \/ no_ipv6_prefix_list_seq(name, seq, type, word, r[1], r[2])
     \/ no_ipv6_prefix_list(name)
     \/ Spare /\ ipv6_prefix_list_description(name)
     \/ no_ipv6_prefix_list_description(name)
     \/ \E o \in Opt(Names), w \in Opt(Nets) : (o = <<>> => w = <<>>) /\ clear_ipv6_prefix_list(o, w)
     \/ \E on \in BOOLEAN : (on \/ Spare) /\ ipv6_prefix_list_sequence_number(on)
     \/ prefix_list_reset_ipv6

NextOrf ==
  \E name \in Names :
    \/ \E p \in Nets, seq \in Seqs, r \in Ranges, permit, set \in BOOLEAN :
         /\ Spare /\ (set => Room)
         /\ prefix_bgp_orf_set(name, [p |-> p, seq |-> seq, ge |-> NumOf(r[1]), le |-> NumOf(r[2])],
                               permit, set)
    \/ prefix_bgp_orf_remove_all(name)
    \/ prefix_list_reset_orf

Next == NextIp \/ NextIpv6 \/ NextOrf
          \/ \E a \in Masters, name \in Names, p \in Nets : Spare /\ Apply(a, name, p)

Spec == Init /\ [][Next]_vars

-----------------------------------------------------------------------------
(* What the configuration and the show commands print *)

line_without_le(m, pl, e) ==
  [name |-> pl.name, type |-> e.type, seq |-> IF m.seqnum THEN <<e.seq>> ELSE <<>>,
   word |-> IF e.any THEN [kind |-> "any", p |-> <<>>] ELSE [kind |-> "prefix", p |-> e.prefix],
   ge |-> IF e.any \/ e.ge = 0 THEN <<>> ELSE <<e.ge>>, le |-> <<>>]

\* the typed form of an entry; the number is left out when numbering is off
LineOf(m, pl, e) ==
  [name |-> pl.name, type |-> e.type, seq |-> IF m.seqnum THEN <<e.seq>> ELSE <<>>,
   word |-> IF e.any THEN [kind |-> "any", p |-> <<>>] ELSE [kind |-> "prefix", p |-> e.prefix],
   ge |-> IF e.any \/ e.ge = 0 THEN <<>> ELSE <<e.ge>>,
   le |-> IF e.any \/ e.le = 0 THEN <<>> ELSE <<e.le>>]

config_write_names_described(m) ==
  [seqnum |-> m.seqnum,
   lists |-> [i \in DOMAIN AllLists(m) |->
               LET pl == AllLists(m)[i]
               IN [name |-> pl.name, desc |-> IF pl.name.digits THEN {} ELSE pl.desc,
                   lines |-> [j \in DOMAIN pl.entries |-> LineOf(m, pl, pl.entries[j])]]]]

\* lists in order, each with its description line and its entry lines
config_write_prefix_afi(m) ==
  [seqnum |-> m.seqnum,
   lists |-> [i \in DOMAIN AllLists(m) |->
               LET pl == AllLists(m)[i]
               IN [name |-> pl.name, desc |-> pl.desc,
                   lines |-> [j \in DOMAIN pl.entries |-> LineOf(m, pl, pl.entries[j])]]]]

\* the entries a show command prints of one list
vty_show_prefix_entry(pl, dtype, seq) ==
  CASE dtype = "summary" -> <<>>
    [] dtype = "sequential" -> SelectSeq(pl.entries, LAMBDA e : e.seq = IntOf(seq))
    [] OTHER -> pl.entries

vty_show_prefix_list(m, name, seq, dtype) ==
  IF name = <<>>
  THEN [i \in DOMAIN AllLists(m) |-> vty_show_prefix_entry(AllLists(m)[i], dtype, seq)]
  ELSE SetToSeq({vty_show_prefix_entry(pl, dtype, seq) : pl \in Listed(m, name[1])})

\* the entries equal to a prefix, the ones it covers, or the first one equal
vty_show_prefix_list_prefix(pl, p, dtype) ==
  LET same == SelectSeq(pl.entries, LAMBDA e : e.prefix = p)
  IN CASE dtype = "normal" -> same
       [] dtype = "first_match" -> IF same = <<>> THEN <<>> ELSE <<Head(same)>>
       [] dtype = "longer" -> SelectSeq(pl.entries, LAMBDA e : prefix_match(p, e.prefix))

orf_entry_swapped(pl) ==
  [i \in DOMAIN pl.entries |->
     LET e == pl.entries[i]
     IN [seq |-> e.seq % (2 * (IntMax + 1)), ge |-> e.le, le |-> e.ge, p |-> e.prefix,
         permit |-> e.type = "permit"]]

\* the show commands of each family, by list and number or by prefix
Shown(a, name, seq, p, dtype) ==
  IF p = <<>> THEN vty_show_prefix_list(master[a], name, seq, dtype)
  ELSE SetToSeq({vty_show_prefix_list_prefix(pl, p[1], dtype) : pl \in Listed(master[a], name[1])})
show_ip_prefix_list(name, seq, p, dtype) == Shown("ip", name, seq, p, dtype)
show_ipv6_prefix_list(name, seq, p, dtype) == Shown("ip6", name, seq, p, dtype)

\* what an ORF dump of a list sends, and the list a peer builds from it
prefix_bgp_orf_entry(pl) ==
  [i \in DOMAIN pl.entries |->
     LET e == pl.entries[i]
     IN [seq |-> e.seq % (2 * (IntMax + 1)), ge |-> e.ge, le |-> e.le, p |-> e.prefix,
         permit |-> e.type = "permit"]]

\* how many entries a peer's filter holds, as reported for its neighbor
prefix_bgp_show_prefix_list(name) ==
  {pl.count : pl \in prefix_list_lookup(master[ORF], name)}

\* a peer's list after an ORF dump
OrfSent(pl) ==
  FoldLeft(LAMBDA m, o : Enter(m, pl.name, o.p, IF o.permit THEN "permit" ELSE "deny",
                               IntOf(o.seq), Normal(o.ge, o.le), o.ge, FALSE).m,
           EmptyMaster, prefix_bgp_orf_entry(pl))

\* a master built by typing a written configuration: numbers below one are refused
TypeLine(m, l) ==
  IF l.seq # <<>> /\ l.seq[1] < 1 THEN m
  ELSE Installed(m, l.name, l.seq, l.type, l.word, l.ge, l.le).m

TypeList(m, w) ==
  LET Described(pl) == [pl EXCEPT !.desc = w.desc]
      start == IF w.desc = {} THEN m ELSE Update(prefix_list_get(m, w.name), w.name, Described)
  IN FoldLeft(TypeLine, start, w.lines)

Restored(m) ==
  LET c == config_write_prefix_afi(m)
  IN FoldLeft(TypeList, [EmptyMaster EXCEPT !.seqnum = c.seqnum], c.lists)

-----------------------------------------------------------------------------
(* Properties *)

EntryOK(e) ==
  /\ e.prefix.len \in 0..MaxBits /\ e.type \in Types /\ e.any \in BOOLEAN
  /\ e.seq \in -(IntMax + 1)..IntMax /\ {e.le, e.ge} \subseteq 0..MaxBits
  /\ {e.refcnt, e.hitcnt} \subseteq 0..MaxApplied

\* Type correctness of the masters.
TypeOK ==
  /\ ret \in {"none", "success", "warning", "permit", "deny"}
  /\ \A a \in Masters :
       /\ master[a].seqnum \in BOOLEAN /\ master[a].recent \subseteq Names
       /\ \A pl \in ToSet(AllLists(master[a])) :
            /\ pl.name \in Names /\ pl.desc \subseteq {"text"} /\ pl.count \in Nat
            /\ \A e \in ToSet(pl.entries) : EntryOK(e)

\* the verdict by definition: the matching entry with the least number decides, an
\* absent list denies, a list without entries permits
Verdict(pls, p) ==
  IF pls = {} THEN "deny"
  ELSE LET es == ToSet((CHOOSE x \in pls : TRUE).entries)
           hit == {e \in es : /\ e.prefix.len <= p.len
                              /\ \A i \in 1..e.prefix.len : e.prefix.addr[i] = p.addr[i]
                              /\ p.len \in (IF e.ge = 0 THEN e.prefix.len ELSE e.ge)..
                                           (IF e.le # 0 THEN e.le
                                            ELSE IF e.ge = 0 THEN e.prefix.len ELSE MaxBits)}
       IN IF es = {} THEN "permit"
          ELSE IF hit = {} THEN "deny"
          ELSE (CHOOSE e \in hit : \A f \in hit : e.seq <= f.seq).type

\* prefix_list_apply answers what the numbers say, whatever order the entries
\* were typed, replaced and removed in (prefix_list_entry_add keeps them sorted).
ApplyAgrees ==
  \A a \in Masters, name \in Names, p \in Nets :
    prefix_list_apply(Listed(master[a], name), p) = Verdict(Listed(master[a], name), p)

\* The count kept beside the entries, on which "an empty list permits" rests, is
\* their number, and no two entries of a list share a number or a policy.
CountsEntries ==
  \A a \in Masters : \A pl \in ToSet(AllLists(master[a])) :
    /\ pl.count = Len(pl.entries)
    /\ \A i, j \in DOMAIN pl.entries : i # j =>
         LET e == pl.entries[i]  f == pl.entries[j]
         IN e.seq # f.seq /\ <<e.prefix, e.type, e.le, e.ge>> # <<f.prefix, f.type, f.le, f.ge>>

\* A configured list without entries, which permits every route, is there only
\* because it has a description: removing the last entry removes the list.
EmptyOnlyDescribed ==
  \A a \in AFIs : \A pl \in ToSet(AllLists(master[a])) : pl.entries = <<>> => pl.desc # {}

\* The list reported as last changed is still listed (recent never dangles).
RecentListed ==
  \A a \in Masters : \A name \in master[a].recent : Listed(master[a], name) # {}

\* Typing the written configuration into an empty router gives lists of the same
\* names in the same order, with the same descriptions, that filter every route the
\* same way, as long as no number was stored negative.
ConfigRestores ==
  \A a \in AFIs :
    LET m == master[a]
        old == AllLists(m)
        new == AllLists(Restored(m))
        Kept(pl) == \A e \in ToSet(pl.entries) : m.seqnum => e.seq > 0
    IN (\A pl \in ToSet(old) : Kept(pl)) =>
         /\ Len(new) = Len(old)
         /\ \A i \in DOMAIN old :
              /\ new[i].name = old[i].name /\ new[i].desc = old[i].desc
              /\ \A p \in Nets : prefix_list_apply({new[i]}, p) = prefix_list_apply({old[i]}, p)

\* "no" before a written entry line finds exactly the entry the line was written
\* for, although "no" does not normalise an upper bound as the install does.
WrittenLineUndone ==
  \A a \in AFIs : \A pl \in ToSet(AllLists(master[a])) : \A i \in DOMAIN pl.entries :
    LET l == LineOf(master[a], pl, pl.entries[i])
    IN Named(pl, l.seq, l.type, l.word, l.ge, l.le) = {i}

\* A filter sent to a peer as ORF entries decides there as it does here.
OrfAgrees ==
  \A a \in AFIs : \A pl \in ToSet(AllLists(master[a])) : pl.entries # <<>> =>
    \A p \in Nets :
      (\A e \in ToSet(pl.entries) : e.seq # -1) =>
        prefix_list_apply(Listed(OrfSent(pl), pl.name), p) = prefix_list_apply({pl}, p)

\* An entry is hit at most as often as it is consulted, whatever is cleared in
\* between, the number of entries reported for a peer is that of its filter, and the
\* show commands of a family agree: the detailed display of a list has its entries in the order the filter consults them, the display by number has
\* the entry a "no" line with that number names, the first match is the first of the
\* entries equal to the prefix, and those are among the longer ones.
CountersAgree ==
  /\ \A a \in Masters : \A pl \in ToSet(AllLists(master[a])) :
       \A e \in ToSet(pl.entries) : e.hitcnt <= e.refcnt
  /\ \A pl \in ToSet(AllLists(master[ORF])) : prefix_bgp_show_prefix_list(pl.name) = {Len(pl.entries)}
  /\ \A a \in AFIs : \A pl \in ToSet(AllLists(master[a])) :
       LET Show(seq, p, dtype) == IF a = "ip" THEN show_ip_prefix_list(<<pl.name>>, seq, p, dtype)[1]
                                  ELSE show_ipv6_prefix_list(<<pl.name>>, seq, p, dtype)[1]
       IN /\ Show(0, <<>>, "detail") = pl.entries
          /\ Show(0, <<>>, "summary") = <<>>
          /\ \A e \in ToSet(pl.entries) :
               Show(e.seq % (2 * (IntMax + 1)), <<>>, "sequential") = <<e>>
          /\ \A p \in Nets :
               /\ ToSet(Show(0, <<p>>, "normal")) \subseteq ToSet(Show(0, <<p>>, "longer"))
               /\ IsPrefix(Show(0, <<p>>, "first_match"), Show(0, <<p>>, "normal"))

=============================================================================
