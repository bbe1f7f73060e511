------------------------------- MODULE KeyChain -------------------------------
(***************************************************************************)
(* The key chains of the routing library (lib/keychain.c): chains of keys   *)
(* sorted by index, the lifetimes typed as local dates, the lookups that    *)
(* pick a key by the clock, and the configuration writer.                   *)
(*                                                                          *)
(* Times are counted in ticks of a small calendar: a day has Hours ticks,   *)
(* month m has MonthDays[m] days, and the clock is advanced by one tick     *)
(* during the ticks of the year listed in Summer.  A day number may exceed  *)
(* its month, as 31 February does; mktime() then runs into the next month.  *)
(* A pointer of the session that is null or to freed memory is <<>>; a      *)
(* command that uses one is undefined and ends the behaviour with fault.    *)
(***************************************************************************)
EXTENDS Integers, Sequences, FiniteSets, SequencesExt

CONSTANTS ChainNames, Indexes, Strings, Hours, MonthDays, MaxDay, Years, Summer, Dates, Durations,
    MaxLives

VARIABLES keychain_list, node, index, index_sub, fault

vars == <<keychain_list, node, index, index_sub, fault>>

Unset == [start |-> 0, end |-> 0, duration |-> FALSE]
Forever == -1
Malformed == -1

(* A month word shorter than three letters, and one that names no month. *)
ShortMonth == 0
UnknownMonth == -1
BadTime == -1

(* The dates typed, [time, day, month, year]; the last month is the longest, as    *)
(* December is, so that a typed day never runs past the last year.                 *)
CalendarOK ==
    /\ MonthDays[Len(MonthDays)] = MaxDay
    /\ \A y \in Years : y > 0
    /\ Dates \subseteq [time : {BadTime} \cup (0 .. Hours - 1), day : 1 .. MaxDay,
                        month : {UnknownMonth, ShortMonth} \cup DOMAIN MonthDays, year : Years]

-------------------------------------------------------------------------------
DaysBefore(m) == FoldLeft(LAMBDA a, b : a + b, 0, SubSeq(MonthDays, 1, m - 1))
YearDays == DaysBefore(Len(MonthDays) + 1)

(* The dates of the C library: mktime() reads a standard time and normalises the *)
(* day; localtime() shows the time the clock shows.                              *)
mktime(d) == (d.year * YearDays + DaysBefore(d.month) + d.day - 1) * Hours + d.time
InSummer(t) == t % (YearDays * Hours) \in Summer
localtime(t) ==
    LET s == IF InSummer(t) THEN t + 1 ELSE t
        day == s \div Hours
        m == CHOOSE i \in DOMAIN MonthDays : /\ DaysBefore(i) <= day % YearDays
                                             /\ day % YearDays < DaysBefore(i + 1)
    IN [time |-> s % Hours, day |-> (day % YearDays) - DaysBefore(m) + 1, month |-> m,
        year |-> day \div YearDays]

-------------------------------------------------------------------------------
Position(name) == SelectInSeq(keychain_list, LAMBDA c : c.name = name)
keychain_lookup(name) == IF Position(name) = 0 THEN <<>> ELSE <<keychain_list[Position(name)]>>

(* A plausible fault: the comparison is turned round. *)
KeysReversed(k1, k2) == k1.index > k2.index

key_cmp_func(k1, k2) == k1.index < k2.index

NewKey(i) == [index |-> i, string |-> <<>>, accept |-> Unset, send |-> Unset]

key_lookup(chain, i) == SelectSeq(chain.key, LAMBDA k : k.index = i)

(* listnode_add_sort() puts the key before the first that is greater. *)
key_get(chain, i) ==
    IF key_lookup(chain, i) # <<>>
    THEN chain
    ELSE LET at == SelectInSeq(chain.key, LAMBDA k : key_cmp_func(NewKey(i), k))
         IN [chain EXCEPT !.key = InsertAt(@, IF at = 0 THEN Len(@) + 1 ELSE at, NewKey(i))]

key_delete(chain, i) == [chain EXCEPT !.key = SelectSeq(@, LAMBDA k : k.index # i)]

ValidAt(r, now) == r.start = 0 \/ (r.start <= now /\ (r.end >= now \/ r.end = Forever))

FirstKey(chain, Test(_)) ==
    LET i == SelectInSeq(chain.key, Test) IN IF i = 0 THEN <<>> ELSE <<chain.key[i]>>

key_lookup_for_accept(chain, i, now) ==
    FirstKey(chain, LAMBDA k : k.index >= i /\ ValidAt(k.accept, now))

(* Only the first sixteen characters are compared; a valid key without a string *)
(* hands strncmp() a null pointer, which ends the process.                      *)
key_match_for_accept(chain, s, now) ==
    LET stop == FirstKey(chain, LAMBDA k : ValidAt(k.accept, now)
                                             /\ (k.string = <<>> \/ k.string[1].head = s.head))
        died == stop # <<>> /\ stop[1].string = <<>>
    IN [died |-> died, key |-> IF died THEN <<>> ELSE stop]

key_lookup_for_send(chain, now) == FirstKey(chain, LAMBDA k : ValidAt(k.send, now))

-------------------------------------------------------------------------------
(* The words of a date as they are typed. *)
DayMonth(d) == <<d.time, d.day, d.month, d.year>>
MonthDay(d) == <<d.time, d.month, d.day, d.year>>

(* A word shorter than three letters leaves the search at January. *)
MonthNamed(w) == IF w = ShortMonth THEN 1 ELSE w

key_str2time(time, day, month, year) ==
    IF \/ time = BadTime \/ month = UnknownMonth
       \/ day \notin 1 .. MaxDay
       \/ year \notin Years
    THEN Malformed
    ELSE mktime([time |-> time, day |-> day, month |-> MonthNamed(month), year |-> year])

(* A plausible fault: an expiry at the start is let through. *)
EmptyLifetime(r, stime, sday, smonth, syear, etime, eday, emonth, eyear) ==
    LET s == key_str2time(stime, sday, smonth, syear)
        e == key_str2time(etime, eday, emonth, eyear)
    IN IF s < 0 \/ e < s THEN r ELSE [r EXCEPT !.start = s, !.end = e]

(* What a lifetime command leaves of the range r. *)
key_lifetime_set(r, stime, sday, smonth, syear, etime, eday, emonth, eyear) ==
    LET s == key_str2time(stime, sday, smonth, syear)
        e == key_str2time(etime, eday, emonth, eyear)
    IN IF s < 0 \/ e < 0 \/ e <= s THEN r ELSE [r EXCEPT !.start = s, !.end = e]

key_lifetime_duration_set(r, stime, sday, smonth, syear, duration) ==
    LET s == key_str2time(stime, sday, smonth, syear)
    IN IF s < 0 THEN r ELSE [start |-> s, end |-> s + duration, duration |-> TRUE]

key_lifetime_infinite_set(r, stime, sday, smonth, syear) ==
    LET s == key_str2time(stime, sday, smonth, syear)
    IN IF s < 0 THEN r ELSE [r EXCEPT !.start = s, !.end = Forever]

-------------------------------------------------------------------------------
Init ==
    /\ keychain_list = <<>>
    /\ node = "CONFIG_NODE"
    /\ index = <<>>
    /\ index_sub = <<>>
    /\ fault = FALSE

Chains(c) == keychain_list' = [keychain_list EXCEPT ![Position(index[1])] = c]
Undefined == fault' = TRUE /\ UNCHANGED <<keychain_list, node, index, index_sub>>

key_chain(name) ==
    /\ keychain_list' = IF keychain_lookup(name) = <<>>
                        THEN Append(keychain_list, [name |-> name, key |-> <<>>])
                        ELSE keychain_list
    /\ index' = <<name>>
    /\ node' = "KEYCHAIN_NODE"
    /\ UNCHANGED <<index_sub, fault>>

(* The session stays where it is, and what it points to is freed. *)
no_key_chain(name) ==
    /\ keychain_lookup(name) # <<>>
    /\ keychain_list' = RemoveAt(keychain_list, Position(name))
    /\ index' = IF index = <<name>> THEN <<>> ELSE index
    /\ index_sub' = IF index_sub # <<>> /\ index_sub[1].chain = name THEN <<>> ELSE index_sub
    /\ UNCHANGED <<node, fault>>

key(i) ==
    /\ node # "CONFIG_NODE"
    /\ IF index = <<>>
       THEN Undefined
       ELSE /\ Chains(key_get(keychain_lookup(index[1])[1], i))
            /\ index_sub' = <<[chain |-> index[1], index |-> i]>>
            /\ node' = "KEYCHAIN_KEY_NODE"
            /\ UNCHANGED <<index, fault>>

no_key(i) ==
    /\ node # "CONFIG_NODE"
    /\ IF index = <<>>
       THEN Undefined
       ELSE /\ key_lookup(keychain_lookup(index[1])[1], i) # <<>>
            /\ Chains(key_delete(keychain_lookup(index[1])[1], i))
            /\ node' = "KEYCHAIN_NODE"
            /\ index_sub' = IF index_sub = <<[chain |-> index[1], index |-> i]>> THEN <<>> ELSE index_sub
            /\ UNCHANGED <<index, fault>>

(* The bound on the lifetimes that are set at a time. *)
Lives(chains) ==
    Cardinality({t \in (DOMAIN chains) \X Indexes \X {"accept", "send"} :
                   \E k \in ToSet(chains[t[1]].key) : k.index = t[2] /\ k[t[3]] # Unset})

(* A command of the key node writes through index_sub. *)
WriteKey(Changed(_)) ==
    /\ node = "KEYCHAIN_KEY_NODE"
    /\ IF index_sub = <<>>
       THEN Undefined
       ELSE /\ keychain_list' =
                 [keychain_list EXCEPT ![Position(index_sub[1].chain)].key =
                    [j \in DOMAIN @ |-> IF @[j].index = index_sub[1].index THEN Changed(@[j]) ELSE @[j]]]
            /\ Lives(keychain_list') <= MaxLives
            /\ UNCHANGED <<node, index, index_sub, fault>>

key_string(s) == WriteKey(LAMBDA k : [k EXCEPT !.string = <<s>>])

no_key_string == WriteKey(LAMBDA k : [k EXCEPT !.string = <<>>])

accept_lifetime_day_month_day_month(argv) ==
    WriteKey(LAMBDA k : [k EXCEPT !.accept = key_lifetime_set(@, argv[1], argv[2], argv[3], argv[4],
                                                              argv[5], argv[6], argv[7], argv[8])])

accept_lifetime_day_month_month_day(argv) ==
    WriteKey(LAMBDA k : [k EXCEPT !.accept = key_lifetime_set(@, argv[1], argv[2], argv[3], argv[4],
                                                              argv[5], argv[7], argv[6], argv[8])])

accept_lifetime_month_day_day_month(argv) ==
    WriteKey(LAMBDA k : [k EXCEPT !.accept = key_lifetime_set(@, argv[1], argv[3], argv[2], argv[4],
                                                              argv[5], argv[6], argv[7], argv[8])])

accept_lifetime_month_day_month_day(argv) ==
    WriteKey(LAMBDA k : [k EXCEPT !.accept = key_lifetime_set(@, argv[1], argv[3], argv[2], argv[4],
                                                              argv[5], argv[7], argv[6], argv[8])])

accept_lifetime_infinite_day_month(argv) ==
    WriteKey(LAMBDA k : [k EXCEPT !.accept = key_lifetime_infinite_set(@, argv[1], argv[2], argv[3],
                                                                       argv[4])])

accept_lifetime_infinite_month_day(argv) ==
    WriteKey(LAMBDA k : [k EXCEPT !.accept = key_lifetime_infinite_set(@, argv[1], argv[3], argv[2],
                                                                       argv[4])])

accept_lifetime_duration_day_month(argv) ==
    WriteKey(LAMBDA k : [k EXCEPT !.accept = key_lifetime_duration_set(@, argv[1], argv[2], argv[3],
                                                                       argv[4], argv[5])])

accept_lifetime_duration_month_day(argv) ==
    WriteKey(LAMBDA k : [k EXCEPT !.accept = key_lifetime_duration_set(@, argv[1], argv[3], argv[2],
                                                                       argv[4], argv[5])])

send_lifetime_day_month_day_month(argv) ==
    WriteKey(LAMBDA k : [k EXCEPT !.send = key_lifetime_set(@, argv[1], argv[2], argv[3], argv[4],
                                                            argv[5], argv[6], argv[7], argv[8])])

send_lifetime_day_month_month_day(argv) ==
    WriteKey(LAMBDA k : [k EXCEPT !.send = key_lifetime_set(@, argv[1], argv[2], argv[3], argv[4],
                                                            argv[5], argv[7], argv[6], argv[8])])

send_lifetime_month_day_day_month(argv) ==
    WriteKey(LAMBDA k : [k EXCEPT !.send = key_lifetime_set(@, argv[1], argv[3], argv[2], argv[4],
                                                            argv[5], argv[6], argv[7], argv[8])])

send_lifetime_month_day_month_day(argv) ==
    WriteKey(LAMBDA k : [k EXCEPT !.send = key_lifetime_set(@, argv[1], argv[3], argv[2], argv[4],
                                                            argv[5], argv[7], argv[6], argv[8])])

send_lifetime_infinite_day_month(argv) ==
    WriteKey(LAMBDA k : [k EXCEPT !.send = key_lifetime_infinite_set(@, argv[1], argv[2], argv[3],
                                                                     argv[4])])

send_lifetime_infinite_month_day(argv) ==
    WriteKey(LAMBDA k : [k EXCEPT !.send = key_lifetime_infinite_set(@, argv[1], argv[3], argv[2],
                                                                     argv[4])])

send_lifetime_duration_day_month(argv) ==
    WriteKey(LAMBDA k : [k EXCEPT !.send = key_lifetime_duration_set(@, argv[1], argv[2], argv[3],
                                                                     argv[4], argv[5])])

send_lifetime_duration_month_day(argv) ==
    WriteKey(LAMBDA k : [k EXCEPT !.send = key_lifetime_duration_set(@, argv[1], argv[3], argv[2],
                                                                     argv[4], argv[5])])

(* exit steps back one node, and index is null then also in the chain's node. *)
config_exit ==
    /\ node # "CONFIG_NODE"
    /\ node' = IF node = "KEYCHAIN_KEY_NODE" THEN "KEYCHAIN_NODE" ELSE "CONFIG_NODE"
    /\ index' = <<>>
    /\ UNCHANGED <<keychain_list, index_sub, fault>>

Next ==
    /\ ~fault
    /\ \/ \E n \in ChainNames : key_chain(n) \/ no_key_chain(n)
       \/ \E i \in Indexes : key(i) \/ no_key(i)
       \/ \E s \in Strings : key_string(s)
       \/ no_key_string
       \/ \E s, e \in Dates :
            \/ accept_lifetime_day_month_day_month(DayMonth(s) \o DayMonth(e))
            \/ accept_lifetime_day_month_month_day(DayMonth(s) \o MonthDay(e))
            \/ accept_lifetime_month_day_day_month(MonthDay(s) \o DayMonth(e))
            \/ accept_lifetime_month_day_month_day(MonthDay(s) \o MonthDay(e))
            \/ send_lifetime_day_month_day_month(DayMonth(s) \o DayMonth(e))
            \/ send_lifetime_day_month_month_day(DayMonth(s) \o MonthDay(e))
            \/ send_lifetime_month_day_day_month(MonthDay(s) \o DayMonth(e))
            \/ send_lifetime_month_day_month_day(MonthDay(s) \o MonthDay(e))
       \/ \E s \in Dates :
            \/ accept_lifetime_infinite_day_month(DayMonth(s))
            \/ accept_lifetime_infinite_month_day(MonthDay(s))
            \/ send_lifetime_infinite_day_month(DayMonth(s))
            \/ send_lifetime_infinite_month_day(MonthDay(s))
       \/ \E s \in Dates, d \in Durations :
            \/ accept_lifetime_duration_day_month(DayMonth(s) \o <<d>>)
            \/ accept_lifetime_duration_month_day(MonthDay(s) \o <<d>>)
            \/ send_lifetime_duration_day_month(DayMonth(s) \o <<d>>)
            \/ send_lifetime_duration_month_day(MonthDay(s) \o <<d>>)
       \/ config_exit

Spec == Init /\ [][Next]_vars

-------------------------------------------------------------------------------
(* A plausible fault: the day is printed before the month. *)
DayFirst(t) == DayMonth(localtime(t))

(* The configuration: "%T %b %d %Y" puts the month before the day. *)
keychain_strftime(t) == MonthDay(localtime(t))

WriteRange(r) ==
    CASE r.start = 0 -> [form |-> "none", argv |-> <<>>]
      [] r.start # 0 /\ r.end = Forever -> [form |-> "infinite", argv |-> keychain_strftime(r.start)]
      [] r.start # 0 /\ r.end # Forever /\ r.duration ->
           [form |-> "duration", argv |-> keychain_strftime(r.start) \o <<r.end - r.start>>]
      [] OTHER -> [form |-> "range", argv |-> keychain_strftime(r.start) \o keychain_strftime(r.end)]

keychain_config_write ==
    [i \in DOMAIN keychain_list |->
       [keychain_list[i] EXCEPT !.key =
          [j \in DOMAIN @ |-> [@[j] EXCEPT !.accept = WriteRange(@), !.send = WriteRange(@)]]]]

(* What the month-day commands make of a written lifetime in a new key. *)
ReadRange(w) ==
    LET a == w.argv
    IN CASE w.form = "none" -> Unset
         [] w.form = "infinite" -> key_lifetime_infinite_set(Unset, a[1], a[3], a[2], a[4])
         [] w.form = "duration" -> key_lifetime_duration_set(Unset, a[1], a[3], a[2], a[4], a[5])
         [] w.form = "range" -> key_lifetime_set(Unset, a[1], a[3], a[2], a[4], a[5], a[7], a[6], a[8])

-------------------------------------------------------------------------------
Ranges == [start : Nat, end : Int, duration : BOOLEAN]
Now == {0} \cup UNION {{k[r].start - 1, k[r].start, k[r].end, k[r].end + 1} :
                         k \in UNION {ToSet(c.key) : c \in ToSet(keychain_list)}, r \in {"accept", "send"}}

(* The shape of the chains and of the session's context. *)
TypeOK ==
    /\ CalendarOK
    /\ \A c \in ToSet(keychain_list) :
         /\ c.name \in ChainNames
         /\ \A k \in ToSet(c.key) : /\ k.index \in Indexes
                                    /\ k.accept \in Ranges /\ k.send \in Ranges
                                    /\ \A s \in ToSet(k.string) : s \in Strings
    /\ node \in {"CONFIG_NODE", "KEYCHAIN_NODE", "KEYCHAIN_KEY_NODE"}

(* A chain name is held once and its keys stand in strictly growing order, however *)
(* they are added and removed, so the first valid key of the lookups, which stop   *)
(* at the first they meet, is the valid one with the least index.  A received      *)
(* string is matched on its first sixteen characters, wherever every valid key has *)
(* a string (StringsNeverMissing is about the others).                             *)
LookupsTakeLeast ==
    \A c \in ToSet(keychain_list) :
      LET Least(S, got) == IF S = {} THEN got = <<>>
                           ELSE got # <<>> /\ got[1] \in S /\ \A k \in S : got[1].index <= k.index
      IN /\ Len(SelectSeq(keychain_list, LAMBDA d : d.name = c.name)) = 1
         /\ \A now \in Now :
              /\ Least({k \in ToSet(c.key) : ValidAt(k.send, now)}, key_lookup_for_send(c, now))
              /\ \A i \in Indexes :
                   Least({k \in ToSet(c.key) : k.index >= i /\ ValidAt(k.accept, now)},
                         key_lookup_for_accept(c, i, now))
              /\ LET valid == {k \in ToSet(c.key) : ValidAt(k.accept, now)}
                 IN (\A k \in valid : k.string # <<>>) =>
                      \A s \in Strings :
                        LET match == key_match_for_accept(c, s, now)
                        IN ~match.died /\ Least({k \in valid : k.string[1].head = s.head}, match.key)

(* A lifetime that is set ends after it starts, or never: each command refuses what *)
(* would break this, whatever the range held before and whichever form set it.      *)
LifetimesOrdered ==
    \A c \in ToSet(keychain_list) : \A k \in ToSet(c.key) : \A r \in {k.accept, k.send} :
      r = Unset \/ (r.start > 0 /\ (r.end = Forever \/ r.end > r.start))

(* Not properties of the code.  No command uses a pointer that is null or freed:    *)
(* "no key chain" in the chain or in its key leaves the session there, and so does  *)
(* "exit" of the key without its chain.  No lookup compares with a missing string.  *)
PointersLive == ~fault
StringsNeverMissing ==
    \A c \in ToSet(keychain_list), now \in Now, s \in Strings : ~key_match_for_accept(c, s, now).died

(* Reading back what the writer printed gives the same lifetime, a day past the end *)
(* of its month included, as long as the times printed are not in summer time: dates *)
(* are read as standard time and printed as the clock shows them, so a summer date   *)
(* comes back later by the clock change.                                             *)
StandardTimeRestores ==
    \A i \in DOMAIN keychain_list : \A j \in DOMAIN keychain_list[i].key :
      \A r \in {"accept", "send"} :
        LET was == keychain_list[i].key[j][r]
            now == ReadRange(keychain_config_write[i].key[j][r])
        IN (~InSummer(was.start) /\ (was.duration \/ was.end = Forever \/ ~InSummer(was.end))) =>
             (now.start = was.start /\ now.end = was.end)
===============================================================================
