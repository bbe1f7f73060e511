----------------------------- MODULE CommandMatch -----------------------------
(***************************************************************************)
(* How a typed line finds its command (lib/command.c): the match of a word  *)
(* with a token, the matcher that walks a command's tokens along the line,  *)
(* the filter and the ambiguity check that narrow a node's commands word by *)
(* word, and what "?", TAB and RETURN make of the line.                     *)
(*                                                                          *)
(* Characters are left out.  Abbrev relates a word to the literals it       *)
(* begins, Shape gives what the scanners of addresses, names and number     *)
(* lists say of a word, and the empty word stands for the cursor after a    *)
(* space (a NULL in the vector).                                            *)
(***************************************************************************)
EXTENDS Integers, Sequences, FiniteSets, SequencesExt, FiniteSetsExt

CONSTANTS
    Nodes,      \* the command vectors: sequences of commands
    Words,      \* the words typed
    Abbrev,     \* {<<word, literal>>}: the word begins the literal
    Shape,      \* [Words -> [len, number, list, address, names]]
    IfNames,    \* the parts of a list that name an interface
    CMD_ARGC_MAX,
    MaxWords

VARIABLES commands, vline, szToken, reply

vars == <<commands, vline, szToken, reply>>

Empty == ""
Whole == 99

(* An argument that points to the buffer of optional tokens, and a text with the end *)
(* of an older one behind it.                                                        *)
Pointer == "&szToken"
Garbled == "garbled"

(* enum match_type: a higher rank wins the word. *)
no_match == 0
extend_match == 1
ipv4_netmask_match == 2
ipv4_prefix_match == 3
ipv4_match == 4
ipv6_prefix_match == 5
ipv6_match == 6
ifname_match == 7
port_match == 8
vlan_match == 9
mac_match == 10
range_match == 11
vararg_match == 12
partly_match == 13
range_match_comma == 14
range_match_list == 15
range_match_comma_list == 16
exact_match == 17

(* The macros that tell a token by its first characters: "<1-5>" is both a range *)
(* and a variable.                                                               *)
CMD_OPTION(t) == t.kind = "option"
CMD_VARARG(t) == t.kind = "vararg"
CMD_VARIABLE(t) == t.kind \notin {"literal", "option", "vararg"}

-------------------------------------------------------------------------------
(* Fault: the upper end of a range is not looked at. *)
NoUpperBound(t, word) ==
    word = Empty \/ (t.kind = "range" /\ Shape[word].number # <<>> /\ t.min <= Shape[word].number[1])

cmd_range_match(t, word) ==
    \/ word = Empty
    \/ /\ t.kind = "range"
       /\ Shape[word].number # <<>>
       /\ t.min <= Shape[word].number[1] /\ Shape[word].number[1] <= t.max

(* A list of numbers <<n>> and of dashed pairs <<first, last>>.  For a token that  *)
(* takes only ranges, a number of two digits or more passes and one digit does not, *)
(* and the values are not compared with the bounds.                                 *)
cmd_input_comma_str_is_valid(word, type) ==
    /\ Shape[word].list # <<>>
    /\ LET l == Shape[word].list[1]
       IN CASE type = "rangeC" -> ~l.dash
            [] type = "rangeL" -> ~l.comma /\ ~l.digit
            [] type = "rangeA" -> TRUE

cmd_input_is_within_range(word, t) ==
    \A p \in ToSet(Shape[word].list[1].parts) :
      /\ \A i \in DOMAIN p : t.min <= p[i] /\ p[i] <= t.max
      /\ Len(p) = 2 => p[1] < p[2]

cmd_input_range_match(t, word) ==
    \/ word = Empty
    \/ /\ cmd_input_comma_str_is_valid(word, t.kind)
       /\ t.kind \in {"rangeC", "rangeA"} => cmd_input_is_within_range(word, t)

RangeRank(kind) ==
    CASE kind = "rangeC" -> range_match_comma
      [] kind = "rangeL" -> range_match_list
      [] kind = "rangeA" -> range_match_comma_list

(* An address that is still being typed passes only where words may be partial. *)
AddressRank ==
    [netmask |-> ipv4_netmask_match, prefix |-> ipv4_prefix_match, ipv4 |-> ipv4_match,
     ipv6prefix |-> ipv6_prefix_match, ipv6 |-> ipv6_match]
AddressMatch(form, filter, rank) ==
    IF form = "exact" \/ (filter = "relaxed" /\ form = "partly") THEN rank ELSE no_match

(* IFNAME, PORT, VLAN and MAC: what the database, or the form of a MAC address, says. *)
NameRank == [ifname |-> ifname_match, port |-> port_match, vlan |-> vlan_match, mac |-> mac_match]

(* IFNAME_R: a list of numbers and of dashed pairs; a pair is the name of an interface *)
(* or its numbers all are.                                                             *)
IfnameList(word) ==
    /\ Shape[word].list # <<>>
    /\ \A p \in ToSet(Shape[word].list[1].parts) :
         \/ p \in IfNames
         \/ Len(p) = 2 /\ p[1] < p[2] /\ \A i \in p[1] .. p[2] : <<i>> \in IfNames

cmd_word_match(t, filter, word) ==
    CASE word = Empty -> IF filter = "relaxed" THEN partly_match ELSE no_match
      [] word # Empty /\ t.kind = "vararg" -> vararg_match
      [] word # Empty /\ t.kind = "range" -> IF cmd_range_match(t, word) THEN range_match ELSE no_match
      [] word # Empty /\ t.kind \in {"rangeC", "rangeL", "rangeA"} ->
           IF cmd_input_range_match(t, word) THEN RangeRank(t.kind) ELSE no_match
      [] word # Empty /\ t.kind \in DOMAIN AddressRank ->
           AddressMatch(Shape[word].address[t.kind], filter, AddressRank[t.kind])
      [] word # Empty /\ t.kind \in DOMAIN NameRank ->
           IF t.kind \in Shape[word].names THEN NameRank[t.kind] ELSE no_match
      [] word # Empty /\ t.kind = "ifnames" -> IF IfnameList(word) THEN ifname_match ELSE no_match
      [] word # Empty /\ t.kind \in {"option", "word"} -> extend_match
      [] word # Empty /\ t.kind = "literal" ->
           IF word = t.text THEN exact_match
           ELSE IF filter = "relaxed" /\ <<word, t.text>> \in Abbrev THEN partly_match ELSE no_match

-------------------------------------------------------------------------------
(* struct cmd_matcher: the line up to index, the word reached, and what the word at *)
(* index matched.  args says whether arguments are collected in argv; a NULL        *)
(* argument is the empty word.  buf is the static szToken, which outlives the call. *)
cmd_matcher_init(filter, line, index, args, buf) ==
    [buf |-> buf, filter |-> filter, line |-> line, index |-> index, args |-> args,
     word_index |-> 0, match_type |-> no_match, match |-> <<>>, argv |-> <<>>, rv |-> "NO_MATCH"]

MATCHER_ERROR(m) == m.rv \in {"INCOMPLETE", "NO_MATCH", "AMBIGUOUS", "EXCEED"}

cmd_matcher_words_left(m) == m.word_index < Len(m.line)
cmd_matcher_get_word(m) == m.line[m.word_index + 1]

push_argument(m, arg) ==
    IF ~m.args THEN [m EXCEPT !.rv = "OK"]
    ELSE IF Len(m.argv) >= CMD_ARGC_MAX THEN [m EXCEPT !.rv = "EXCEED"]
    ELSE [m EXCEPT !.argv = Append(@, arg), !.rv = "OK"]

(* Fault: what earlier words matched is recorded as well. *)
EveryWord(m, type, t) == [m EXCEPT !.match = Append(@, t), !.match_type = IF type > @ THEN type ELSE @]

cmd_matcher_record_match(m, type, t) ==
    IF m.word_index # m.index THEN m
    ELSE [m EXCEPT !.match = Append(@, t), !.match_type = IF type > @ THEN type ELSE @]

(* strncpy() puts the text between the brackets over the buffer and no terminator    *)
(* after it: where a longer text was there before, its end is still there.           *)
CopyToken(buf, t) ==
    [text |-> t.text, len |-> IF t.len < buf.len THEN buf.len ELSE t.len, junk |-> t.len < buf.len]

(* The word against the buffer: with junk behind it a literal is never matched in    *)
(* full, and the name of a type that is compared whole is only a variable.           *)
OptionMatch(t, junk, filter, word) ==
    CASE ~junk \/ t.kind \in {"range", "rangeC", "rangeL", "rangeA", "word"} -> cmd_word_match(t, filter, word)
      [] junk /\ t.kind = "literal" ->
           IF filter = "relaxed" /\ cmd_word_match(t, filter, word) # no_match THEN partly_match ELSE no_match
      [] OTHER -> cmd_word_match([t EXCEPT !.kind = "word"], filter, word)

(* The rest of the line goes to a variable argument; words beyond the limit are     *)
(* dropped without an error.                                                        *)
TakeRest(m) ==
    LET rest == SelectSeq(SubSeq(m.line, m.word_index + 1, Len(m.line)), LAMBDA w : w # Empty)
        room == IF m.args THEN CMD_ARGC_MAX - Len(m.argv) ELSE 0
    IN [m EXCEPT !.argv = @ \o SubSeq(rest, 1, IF Len(rest) < room THEN Len(rest) ELSE room),
                 !.word_index = Len(m.line)]

cmd_matcher_match_option(m, t, word) ==
    LET buf == CopyToken(m.buf, t.inner)
        inner == OptionMatch(t.inner, buf.junk, m.filter, word)
        set == [m EXCEPT !.buf = buf]
    IN IF inner \in {no_match, vararg_match} THEN [set EXCEPT !.rv = "NO_MATCH"]
       ELSE push_argument(set, IF inner \in {partly_match, exact_match} THEN Pointer ELSE word)

(* After a word was taken; p is the matcher once its argument was pushed. *)
Beyond(next, t) == IF CMD_VARARG(t) THEN TakeRest(next) ELSE next
TakeWord(p, t, type) ==
    IF MATCHER_ERROR(p) THEN p
    ELSE Beyond([cmd_matcher_record_match(p, IF CMD_OPTION(t) THEN extend_match ELSE type, t)
                   EXCEPT !.word_index = @ + 1], t)

PushWord(m, t, word, type) ==
    CASE type = no_match -> [m EXCEPT !.rv = "NO_MATCH"]
      [] type # no_match /\ CMD_OPTION(t) -> cmd_matcher_match_option(m, t, word)
      [] type # no_match /\ (CMD_VARARG(t) \/ CMD_VARIABLE(t)) -> push_argument(m, word)
      [] OTHER -> [m EXCEPT !.rv = "OK"]

cmd_matcher_match_terminal(m, t) ==
    IF ~cmd_matcher_words_left(m) THEN [m EXCEPT !.rv = IF CMD_OPTION(t) THEN "OK" ELSE "INCOMPLETE"]
    ELSE LET word == cmd_matcher_get_word(m)
             type == cmd_word_match(t, m.filter, word)
         IN TakeWord(PushWord(m, t, word, type), t, type)

(* The alternatives of a word: their ranks, those that fit in their order, the first *)
(* of the best, whether two of the best so far rank alike, and the record of all.    *)
Fitting(type) == SelectSeq([i \in DOMAIN type |-> i], LAMBDA i : type[i] # no_match)
FirstBest(type, fit) ==
    CHOOSE i \in ToSet(fit) : \A j \in ToSet(fit) : type[j] < type[i] \/ (type[j] = type[i] /\ i <= j)
Tie(type, fit) ==
    \E i, j \in DOMAIN fit : i < j /\ type[fit[i]] = type[fit[j]] /\ \A k \in 1 .. j - 1 : type[fit[k]] <= type[fit[i]]
RecordAll(m, type, fit, tokens) ==
    FoldLeft(LAMBDA n, i : cmd_matcher_record_match(n, type[i], tokens[i]), m, fit)

(* The first of the best alternatives gives the argument. *)
TakeBest(m, tokens, type) ==
    LET fit == Fitting(type)
        best == FirstBest(type, fit)
    IN IF fit = <<>> THEN [m EXCEPT !.word_index = @ + 1, !.rv = "NO_MATCH"]
       ELSE push_argument([RecordAll(m, type, fit, tokens) EXCEPT !.word_index = @ + 1],
                          IF type[best] = partly_match THEN tokens[best].text ELSE cmd_matcher_get_word(m))

cmd_matcher_match_multiple(m, t) ==
    IF ~cmd_matcher_words_left(m) THEN [m EXCEPT !.rv = "INCOMPLETE"]
    ELSE TakeBest(m, t.multiple,
                  [i \in DOMAIN t.multiple |-> cmd_word_match(t.multiple[i], m.filter, cmd_matcher_get_word(m))])

MatchToken(m, t) ==
    IF t.type = "TERMINAL" THEN cmd_matcher_match_terminal(m, t) ELSE cmd_matcher_match_multiple(m, t)

(* The arguments of a keyword's own tokens, collected apart; taken[i] is <<>> until *)
(* keyword i is read.                                                               *)
RECURSIVE KeywordTokens(_, _), KeywordTokensLeft(_, _)
KeywordTokens(m, tokens) ==
    IF tokens = <<>> THEN m ELSE KeywordTokensLeft(MatchToken(m, Head(tokens)), Tail(tokens))
KeywordTokensLeft(m, tokens) ==
    IF MATCHER_ERROR(m) \/ m.word_index > m.index THEN m ELSE KeywordTokens(m, tokens)

(* The keywords not yet taken against the word; keyword i and its own tokens, which   *)
(* own says how they matched, are behind.                                            *)
KeywordHeads(t) == [i \in DOMAIN t.keyword |-> t.keyword[i][1]]
KeywordRanks(m, t, taken) ==
    [i \in DOMAIN t.keyword |->
       IF taken[i] # <<>> THEN no_match ELSE cmd_word_match(t.keyword[i][1], m.filter, cmd_matcher_get_word(m))]

RECURSIVE cmd_matcher_read_keywords(_, _, _), ReadKeyword(_, _, _, _), AfterKeyword(_, _, _, _, _)
AfterKeyword(m, t, taken, i, own) ==
    LET back == [own EXCEPT !.argv = m.argv]
        now == [taken EXCEPT ![i] = <<own.argv>>]
    IN IF MATCHER_ERROR(own) \/ own.word_index > own.index THEN <<back, now>>
       ELSE cmd_matcher_read_keywords(back, t, now)

ReadKeyword(m, t, taken, type) ==
    LET fit == Fitting(type)
        best == FirstBest(type, fit)
        Seen(n, rv) == [RecordAll(m, type, fit, KeywordHeads(t)) EXCEPT !.word_index = @ + n, !.rv = rv]
    IN IF Tie(type, fit) /\ (m.word_index # m.index \/ m.args) THEN <<Seen(0, "AMBIGUOUS"), taken>>
       ELSE IF fit = <<>> THEN <<[m EXCEPT !.rv = "NO_MATCH"], taken>>
       ELSE IF m.word_index + 1 > m.index THEN <<Seen(1, "OK"), taken>>
       ELSE AfterKeyword(m, t, taken, best,
                         KeywordTokens([Seen(1, "OK") EXCEPT !.argv = <<>>], Tail(t.keyword[best])))

cmd_matcher_read_keywords(m, t, taken) ==
    IF ~cmd_matcher_words_left(m) THEN <<[m EXCEPT !.rv = "OK"], taken>>
    ELSE ReadKeyword(m, t, taken, KeywordRanks(m, t, taken))

(* Fault: a keyword that is left out has no arguments. *)
OnlyTyped(k, got) == IF got = <<>> THEN <<>> ELSE IF Len(k) = 1 THEN <<k[1].text>> ELSE got[1]

(* An argument for every keyword and every variable of a keyword: NULL for what was *)
(* not typed, so that an argument's place does not depend on the line.              *)
KeywordArguments(k, got) ==
    CASE Len(k) = 1 -> IF got # <<>> THEN <<k[1].text>> ELSE <<Empty>>
      [] Len(k) > 1 /\ got # <<>> -> got[1]
      [] OTHER -> [i \in 1 .. Len(SelectSeq(Tail(k), LAMBDA t : t.type = "MULTIPLE" \/ t.kind # "literal")) |-> Empty]

(* Fault: the room for a keyword's arguments is not looked at. *)
NoRoomCheck(m, t, taken) ==
    LET all == FlattenSeq([i \in DOMAIN t.keyword |-> KeywordArguments(t.keyword[i], taken[i])])
    IN [m EXCEPT !.argv = IF m.args THEN @ \o all ELSE @, !.rv = "OK"]

cmd_matcher_build_keyword_args(m, t, taken) ==
    LET all == FlattenSeq([i \in DOMAIN t.keyword |-> KeywordArguments(t.keyword[i], taken[i])])
    IN IF ~m.args THEN [m EXCEPT !.rv = "OK"]
       ELSE IF Len(m.argv) + Len(all) > CMD_ARGC_MAX
            THEN [m EXCEPT !.argv = SubSeq(@ \o all, 1, CMD_ARGC_MAX), !.rv = "EXCEED"]
       ELSE [m EXCEPT !.argv = @ \o all, !.rv = "OK"]

(* read is the matcher behind the keywords, and the arguments of each. *)
BuiltArgs(rv, built) == IF MATCHER_ERROR(built) THEN built ELSE [built EXCEPT !.rv = rv]
BuildArgs(t, read) ==
    IF MATCHER_ERROR(read[1]) THEN read[1]
    ELSE BuiltArgs(read[1].rv, cmd_matcher_build_keyword_args(read[1], t, read[2]))

cmd_matcher_match_keyword(m, t) ==
    BuildArgs(t, cmd_matcher_read_keywords(m, t, [i \in DOMAIN t.keyword |-> <<>>]))

RECURSIVE MatchTokens(_, _), MatchTokensLeft(_, _)
MatchTokens(m, tokens) ==
    IF tokens = <<>> THEN
      IF \/ m.word_index >= Len(m.line)
         \/ m.word_index = Len(m.line) - 1 /\ cmd_matcher_get_word(m) = Empty
      THEN [m EXCEPT !.rv = "COMPLETE"]
      ELSE [m EXCEPT !.rv = "NO_MATCH"]
    ELSE
      LET t == Head(tokens)
      IN MatchTokensLeft(IF t.type = "KEYWORD" THEN cmd_matcher_match_keyword(m, t) ELSE MatchToken(m, t), Tail(tokens))
MatchTokensLeft(m, tokens) ==
    IF MATCHER_ERROR(m) THEN m
    ELSE IF m.word_index > m.index THEN [m EXCEPT !.rv = "OK"]
    ELSE MatchTokens(m, tokens)

cmd_element_match(c, filter, line, index, args, buf) ==
    MatchTokens(cmd_matcher_init(filter, line, index, args, buf), c.tokens)

-------------------------------------------------------------------------------
(* The filter's state r after command i, which matched as m says. *)
Filtered(r, i, m) ==
    IF m.rv = "AMBIGUOUS" THEN [r EXCEPT !.ret = "AMBIGUOUS", !.buf = m.buf]
    ELSE IF MATCHER_ERROR(m) THEN [r EXCEPT !.left = @ \ {i}, !.buf = m.buf]
    ELSE [r EXCEPT !.buf = m.buf, !.matches[i] = m.match,
                   !.match = IF m.match_type > @ THEN m.match_type ELSE @]

(* Fault: a command that is not shown is not run either. *)
HiddenDropped(left, filter, line, index, buf) ==
    FoldLeft(LAMBDA r, i :
               IF r.ret # "SUCCESS" \/ i \notin left THEN r
               ELSE IF commands[i].hidden THEN [r EXCEPT !.left = @ \ {i}]
               ELSE Filtered(r, i, cmd_element_match(commands[i], filter, line, index, FALSE, r.buf)),
             [ret |-> "SUCCESS", left |-> left, match |-> no_match, buf |-> buf, index |-> index,
              size |-> Max({0} \cup {i \in left : ~commands[i].hidden}),
              matches |-> [i \in DOMAIN commands |-> <<>>]],
             [i \in DOMAIN commands |-> i])

(* The commands left are a set of positions.  The filter drops those that do not     *)
(* match up to word index, but for the hidden ones, which it passes over.            *)
cmd_vector_filter(left, filter, line, index, buf) ==
    FoldLeft(LAMBDA r, i :
               IF r.ret # "SUCCESS" \/ i \notin left \/ commands[i].hidden THEN r
               ELSE Filtered(r, i, cmd_element_match(commands[i], filter, line, index, FALSE, r.buf)),
             [ret |-> "SUCCESS", left |-> left, match |-> no_match, buf |-> buf, index |-> index,
              size |-> Max({0} \cup {i \in left : ~commands[i].hidden}),
              matches |-> [i \in DOMAIN commands |-> <<>>]],
             [i \in DOMAIN commands |-> i])

(* Whether a token takes part in the best match.  For a prefix or a netmask, and for *)
(* a list of ranges, the token itself is not looked at.                              *)
MaskedKinds == {"netmask", "prefix", "ipv6prefix"}
Partly(type, word) ==
    \E k \in MaskedKinds : type = AddressRank[k] /\ Shape[word].address[k] = "partly"
Counts(t, type, word) ==
    CASE type = exact_match -> t.kind = "literal" /\ word = t.text
      [] type = partly_match -> t.kind = "literal" /\ (word = t.text \/ <<word, t.text>> \in Abbrev)
      [] type = range_match -> cmd_range_match(t, word)
      [] type = range_match_comma -> cmd_input_range_match([t EXCEPT !.kind = "rangeC"], word)
      [] type = range_match_comma_list -> cmd_input_range_match([t EXCEPT !.kind = "rangeA"], word)
      [] type = range_match_list -> TRUE
      [] type \in {ipv4_match, ipv6_match} -> t.kind \in {"ipv4", "ipv6"} /\ AddressRank[t.kind] = type
      [] type \in {AddressRank[k] : k \in MaskedKinds} ->
           \E k \in MaskedKinds : type = AddressRank[k] /\ Shape[word].address[k] # "no"
      [] type = ifname_match -> t.kind \in {"ifname", "ifnames"}
      [] type \in {port_match, vlan_match, mac_match} -> t.kind \in DOMAIN NameRank /\ NameRank[t.kind] = type
      [] type = extend_match -> CMD_OPTION(t) \/ CMD_VARIABLE(t)
      [] OTHER -> FALSE

(* The bounds of a list are read from any token that matched the word; in one that   *)
(* is not a list there are none, and what is read is not defined.                    *)
NoBounds(t, type) ==
    type \in {range_match_comma, range_match_comma_list} /\ t.kind \notin {"rangeC", "rangeL", "rangeA"}

(* Fault: the texts that match are not compared with each other. *)
NeverAmbiguous(left, word, matches, type) ==
    LET Keeps(i) == matches[i] = <<>> \/ \E t \in ToSet(matches[i]) : Counts(t, type, word)
    IN [ret |-> 0, left |-> {i \in left : Keeps(i)}, match |-> FALSE, matched |-> <<>>]

(* 1: two texts for one word; 2: a prefix that is not yet whole; 3: not defined. *)
is_cmd_ambiguous(left, word, matches, type) ==
    LET Token(r, t) ==
          IF r.ret # 0 THEN r
          ELSE IF NoBounds(t, type) THEN [r EXCEPT !.ret = 3]
          ELSE IF ~Counts(t, type, word) THEN r
          ELSE IF Partly(type, word) THEN [r EXCEPT !.ret = 2]
          ELSE IF type \in {partly_match, range_match} /\ r.matched \notin {<<>>, <<t.text>>} THEN [r EXCEPT !.ret = 1]
          ELSE [r EXCEPT !.match = TRUE, !.matched = <<t.text>>]
        Element(r, i) ==
          IF r.ret # 0 \/ matches[i] = <<>> THEN r
          ELSE LET e == FoldLeft(Token, [r EXCEPT !.match = FALSE], matches[i])
               IN IF e.ret = 0 /\ ~e.match THEN [e EXCEPT !.left = @ \ {i}] ELSE e
    IN FoldLeft(Element, [ret |-> 0, left |-> left, match |-> FALSE, matched |-> <<>>],
                [i \in DOMAIN commands |-> i])

(* Filter and ambiguity check, word after word.  A line that is run is checked to    *)
(* its last word; "?" and TAB leave the last word ambiguous, and TAB goes on past a  *)
(* variable argument and past a prefix that is not whole.                            *)
RECURSIVE Narrow(_, _, _, _, _, _), NarrowFiltered(_, _, _, _, _), NarrowChecked(_, _, _, _, _, _)
NarrowChecked(op, filter, line, index, f, a) ==
    IF a.ret = 1 THEN [f EXCEPT !.ret = "AMBIGUOUS"]
    ELSE IF a.ret = 2 /\ op # "complete" THEN [f EXCEPT !.ret = "NO_MATCH"]
    ELSE IF a.ret = 3 THEN [f EXCEPT !.ret = "UNDEFINED"]
    ELSE IF index = Len(line) - 1 THEN [f EXCEPT !.left = a.left]
    ELSE Narrow(op, a.left, filter, line, index + 1, f.buf)

NarrowFiltered(op, filter, line, index, f) ==
    IF \/ f.ret # "SUCCESS"
       \/ op # "execute" /\ index = Len(line) - 1
       \/ op # "complete" /\ f.match = vararg_match
    THEN f
    ELSE NarrowChecked(op, filter, line, index, f, is_cmd_ambiguous(f.left, line[index + 1], f.matches, f.match))

Narrow(op, left, filter, line, index, buf) ==
    NarrowFiltered(op, filter, line, index, cmd_vector_filter(left, filter, line, index, buf))

Everything == DOMAIN commands

cmd_is_complete(c, line, buf) == cmd_element_match(c, "relaxed", line, Whole, FALSE, buf)

(* cmd_is_complete() of the commands left, in their order. *)
Tallied(r, i, m) ==
    CASE m.rv = "COMPLETE" -> [r EXCEPT !.buf = m.buf, !.matched = @ \cup {i}]
      [] m.rv = "INCOMPLETE" -> [r EXCEPT !.buf = m.buf, !.incomplete = TRUE]
      [] OTHER -> [r EXCEPT !.buf = m.buf]

Completeness(left, line, buf) ==
    FoldLeft(LAMBDA r, i :
               IF i \notin left \/ commands[i].disabled THEN r
               ELSE Tallied(r, i, cmd_is_complete(commands[i], line, r.buf)),
             [buf |-> buf, matched |-> {}, incomplete |-> FALSE],
             [i \in DOMAIN commands |-> i])

(* Arguments that are pointers into the buffer are read when the handler runs. *)
Read(argv, buf) ==
    [i \in DOMAIN argv |-> IF argv[i] # Pointer THEN argv[i] ELSE IF buf.junk THEN Garbled ELSE buf.text]

cmd_parse(c, line, buf) == cmd_element_match(c, "relaxed", line, Whole, TRUE, buf)

Answer(ret, buf) == [ret |-> ret, command |-> 0, argv |-> <<>>, buf |-> buf]

RunParsed(i, m) ==
    IF m.rv # "COMPLETE" THEN Answer(m.rv, m.buf)
    ELSE [ret |-> "SUCCESS", command |-> i, argv |-> Read(m.argv, m.buf), buf |-> m.buf]

RunOnly(line, c) ==
    LET i == CHOOSE j \in c.matched : TRUE
    IN IF c.matched = {} THEN Answer(IF c.incomplete THEN "INCOMPLETE" ELSE "NO_MATCH", c.buf)
       ELSE IF Cardinality(c.matched) > 1 THEN Answer("AMBIGUOUS", c.buf)
       ELSE RunParsed(i, cmd_parse(commands[i], line, c.buf))

RunNarrowed(line, n) ==
    IF n.ret # "SUCCESS" THEN Answer(n.ret, n.buf) ELSE RunOnly(line, Completeness(n.left, line, n.buf))

cmd_execute_command_real(line, filter, buf) ==
    RunNarrowed(line, Narrow("execute", Everything, filter, line, 0, buf))

-------------------------------------------------------------------------------
(* "?": the tokens that the last word may be, and <cr> where the line before it is   *)
(* a whole command.                                                                  *)
command_cr == "<cr>"

cmd_entry_function_desc(word, t) ==
    CASE t.kind \in {"rangeC", "rangeL", "rangeA"} -> cmd_input_range_match(t, word)
      [] t.kind = "range" -> cmd_range_match(t, word)
      [] t.kind \in DOMAIN AddressRank -> word = Empty \/ Shape[word].address[t.kind] # "no"
      [] t.kind = "literal" -> word \in {Empty, t.text} \/ <<word, t.text>> \in Abbrev
      [] OTHER -> TRUE

Texts(matches) == {t.text : t \in UNION {ToSet(matches[i]) : i \in DOMAIN matches}}

(* Fault: the last command is passed over. *)
AllButLast(n) == {i \in n.left : i < n.size}

(* The vector of matches ends at the last visible command. *)
Looked(n) == {i \in n.left : i <= n.size}

(* <cr> is offered once one command is whole. *)
Ends(r, m) == [buf |-> m.buf, cr |-> r.cr \/ m.rv = "COMPLETE"]
OfferCr(line, n) ==
    IF Last(line) # Empty THEN [buf |-> n.buf, cr |-> FALSE]
    ELSE FoldLeft(LAMBDA r, i : IF i \notin Looked(n) THEN r
                                ELSE Ends(r, cmd_is_complete(commands[i], Front(line), r.buf)),
                  [buf |-> n.buf, cr |-> FALSE], [i \in DOMAIN commands |-> i])

DescribeLast(line, n, c) ==
    LET shown == {t.text : t \in {u \in UNION {ToSet(n.matches[i]) : i \in n.left} : cmd_entry_function_desc(Last(line), u)}}
        all == shown \cup IF Last(line) = Empty /\ n.match # vararg_match /\ c.cr THEN {command_cr} ELSE {}
    IN [ret |-> IF all = {} THEN "NO_MATCH" ELSE "SUCCESS", texts |-> all, buf |-> c.buf]

DescribeNarrowed(line, n) ==
    IF n.ret # "SUCCESS" THEN [ret |-> n.ret, texts |-> {}, buf |-> n.buf]
    ELSE IF n.match = vararg_match /\ n.index < Len(line) - 1
         THEN [ret |-> "SUCCESS", texts |-> Texts(n.matches) \cup {command_cr}, buf |-> n.buf]
    ELSE DescribeLast(line, n, OfferCr(line, n))

cmd_describe_command_real(line, buf) ==
    DescribeNarrowed(line, Narrow("describe", Everything, "relaxed", line, 0, buf))

(* TAB: the literals the last word may be. *)
cmd_entry_function(word, t) ==
    t.kind = "literal" /\ (word \in {Empty, t.text} \/ <<word, t.text>> \in Abbrev)

(* The longest word that begins all of them. *)
Common(texts) == {w \in Words \cup texts : \A t \in texts : w = t \/ <<w, t>> \in Abbrev}
cmd_lcd(texts) ==
    IF Common(texts) = {} THEN Empty
    ELSE CHOOSE w \in Common(texts) : \A v \in Common(texts) : Shape[v].len <= Shape[w].len

CompleteNarrowed(line, n) ==
    LET word == Last(line)
        texts == {t.text : t \in {u \in UNION {ToSet(n.matches[i]) : i \in DOMAIN commands} : cmd_entry_function(word, u)}}
        lcd == cmd_lcd(texts)
    IN IF n.ret # "SUCCESS" THEN [ret |-> n.ret, texts |-> {}, buf |-> n.buf]
       ELSE IF texts = {} THEN [ret |-> IF word = Empty THEN "NOTHING_TODO" ELSE "NO_MATCH", texts |-> {}, buf |-> n.buf]
       ELSE IF Cardinality(texts) = 1 THEN [ret |-> "FULL_MATCH", texts |-> texts, buf |-> n.buf]
       ELSE IF word # Empty /\ lcd # Empty /\ Shape[lcd].len > Shape[word].len
            THEN [ret |-> "MATCH", texts |-> {lcd}, buf |-> n.buf]
       ELSE [ret |-> "LIST_MATCH", texts |-> texts, buf |-> n.buf]

cmd_complete_command_real(line, buf) ==
    CompleteNarrowed(line, Narrow("complete", Everything, "relaxed", line, 0, buf))

-------------------------------------------------------------------------------
(* Fault: a variable is written by its name. *)
NameForWord(t, word) == IF t.kind \in {"word", "range"} THEN Empty ELSE IF t.kind = "literal" THEN t.text ELSE word

(* The line written to the audit log: the words completed to the tokens they begin.  *)
(* Of several alternatives that match, the last is taken.                            *)
Completed(t, word) == IF t.kind = "literal" /\ <<word, t.text>> \in Abbrev THEN t.text ELSE word
LastMatch(tokens, word) ==
    LET fit == SelectSeq(tokens, LAMBDA t : cmd_word_match(t, "relaxed", word) # no_match)
    IN IF fit = <<>> THEN word ELSE Completed(fit[Len(fit)], word)

RECURSIVE autocomplete_command_tokens(_, _)
autocomplete_command_tokens(tokens, line) ==
    IF tokens = <<>> \/ line = <<>> THEN <<>>
    ELSE LET t == Head(tokens)
         IN CASE t.type = "TERMINAL" /\ CMD_VARARG(t) -> line
              [] t.type = "TERMINAL" /\ ~CMD_VARARG(t) ->
                   <<Completed(t, Head(line))>> \o autocomplete_command_tokens(Tail(tokens), Tail(line))
              [] t.type = "MULTIPLE" ->
                   <<LastMatch(t.multiple, Head(line))>> \o autocomplete_command_tokens(Tail(tokens), Tail(line))
              [] t.type = "KEYWORD" ->
                   [i \in DOMAIN line |-> LastMatch([k \in DOMAIN t.keyword |-> t.keyword[k][1]], line[i])]

-------------------------------------------------------------------------------
NoReply == [op |-> "none"]
Fresh(n) == [text |-> Empty, len |-> n, junk |-> FALSE]

Init ==
    /\ commands \in Nodes
    /\ vline = <<>>
    /\ szToken = 0
    /\ reply = NoReply

TypeWord(w) ==
    /\ Len(vline) < MaxWords
    /\ vline' = Append(vline, w)
    /\ reply' = NoReply
    /\ UNCHANGED <<commands, szToken>>

(* RETURN, or a line of a configuration file (strict). *)
Execute(filter) ==
    /\ vline # <<>>
    /\ \E r \in {cmd_execute_command_real(vline, filter, Fresh(szToken))} :
          /\ reply' = [op |-> "execute", filter |-> filter, line |-> vline, ret |-> r.ret, command |-> r.command,
                       argv |-> r.argv, sz |-> szToken]
          /\ szToken' = r.buf.len
    /\ vline' = <<>>
    /\ UNCHANGED commands

(* The keys "?" and TAB, right behind the last word or after a space. *)
Ask(line) ==
    /\ \E r \in {cmd_describe_command_real(line, Fresh(szToken))} :
          /\ reply' = [op |-> "describe", line |-> line, ret |-> r.ret, texts |-> r.texts, sz |-> szToken]
          /\ szToken' = r.buf.len
    /\ UNCHANGED <<commands, vline>>

Complete(line) ==
    /\ \E r \in {cmd_complete_command_real(line, Fresh(szToken))} :
          /\ reply' = [op |-> "complete", line |-> line, ret |-> r.ret, texts |-> r.texts, sz |-> szToken]
          /\ szToken' = r.buf.len
    /\ UNCHANGED <<commands, vline>>

Lines == {Append(vline, Empty)} \cup IF vline = <<>> THEN {} ELSE {vline}

Next ==
    \/ \E w \in Words : TypeWord(w)
    \/ \E f \in {"relaxed", "strict"} : Execute(f)
    \/ \E l \in Lines : Ask(l) \/ Complete(l)

Spec == Init /\ [][Next]_vars

-------------------------------------------------------------------------------
(* What a command's grammar says of a line, with no order of trying: the reference   *)
(* for the matcher.  An optional address or interface is not checked at all where    *)
(* the node has a longer optional token (CopyToken).                                 *)
Overrun(t) ==
    \E c \in ToSet(commands) : \E u \in ToSet(c.tokens) : u.type = "TERMINAL" /\ CMD_OPTION(u) /\ u.inner.len > t.len

RECURSIVE Fits(_, _, _)
Fits(t, w, filter) ==
    CASE t.kind = "literal" -> w = t.text \/ (filter = "relaxed" /\ <<w, t.text>> \in Abbrev)
      [] t.kind = "word" -> TRUE
      [] t.kind = "range" -> \E n \in ToSet(Shape[w].number) : n \in t.min .. t.max
      [] t.kind \in {"rangeC", "rangeA"} ->
           \E l \in ToSet(Shape[w].list) :
             /\ \A p \in ToSet(l.parts) : ToSet(p) \subseteq t.min .. t.max
             /\ l.dash => t.kind = "rangeA"
      [] t.kind = "rangeL" -> Shape[w].list # <<>>
      [] t.kind \in DOMAIN AddressRank ->
           Shape[w].address[t.kind] \in {"exact"} \cup IF filter = "relaxed" THEN {"partly"} ELSE {}
      [] t.kind \in DOMAIN NameRank -> t.kind \in Shape[w].names
      [] t.kind = "ifnames" ->
           \E l \in ToSet(Shape[w].list) :
             \A p \in ToSet(l.parts) : p \in IfNames \/ \A i \in p[1] .. p[Len(p)] : <<i>> \in IfNames
      [] t.kind = "option" ->
           \/ Fits(t.inner, w, filter)
           \/ t.inner.kind \in {"ifnames"} \cup DOMAIN AddressRank \cup DOMAIN NameRank /\ Overrun(t.inner)

RECURSIVE Derives(_, _, _)
Derives(tokens, line, filter) ==
    IF tokens = <<>> THEN line = <<>>
    ELSE
      LET t == Head(tokens)
          One(fits) == line # <<>> /\ fits /\ Derives(Tail(tokens), Tail(line), filter)
      IN CASE t.type = "MULTIPLE" -> One(\E i \in DOMAIN t.multiple : Fits(t.multiple[i], Head(line), filter))
           [] t.type = "KEYWORD" ->
                \/ Derives(Tail(tokens), line, filter)
                \/ \E i \in DOMAIN t.keyword :
                     LET rest == [t EXCEPT !.keyword = RemoveAt(@, i)]
                     IN Derives(t.keyword[i] \o <<rest>> \o Tail(tokens), line, filter)
           [] t.type = "TERMINAL" /\ CMD_VARARG(t) -> line # <<>>
           [] t.type = "TERMINAL" /\ ~CMD_VARARG(t) ->
                \/ One(Fits(t, Head(line), filter))
                \/ CMD_OPTION(t) /\ line = <<>> /\ Derives(Tail(tokens), line, filter)

Several(line) == Cardinality({i \in DOMAIN commands : Derives(commands[i].tokens, line, "relaxed")}) > 1
Ran == reply.op = "execute" /\ reply.ret = "SUCCESS"
Runs(line) == cmd_execute_command_real(line, "relaxed", Fresh(reply.sz))
AllEnabled == \A i \in DOMAIN commands : ~commands[i].disabled

(* A reply is one of the parser's, and a handler never gets more than CMD_ARGC_MAX   *)
(* arguments, the size of the array they are collected in.                           *)
TypeOK ==
    /\ ToSet(vline) \subseteq Words
    /\ szToken \in Nat
    /\ reply.op \in {"none", "execute", "describe", "complete"}
    /\ reply.op # "none" => reply.ret \in {"SUCCESS", "AMBIGUOUS", "NO_MATCH", "INCOMPLETE", "EXCEED", "UNDEFINED",
                                           "FULL_MATCH", "MATCH", "LIST_MATCH", "NOTHING_TODO"}
    /\ Ran => Len(reply.argv) <= CMD_ARGC_MAX

(* RETURN runs a command only where its grammar derives the line; a strict line      *)
(* (a configuration file) must have its literals and addresses in full, but for a    *)
(* hidden command, which the filter passes over.                                     *)
ExecutedDerives ==
    Ran => LET c == commands[reply.command]
           IN Derives(c.tokens, reply.line, IF c.hidden THEN "relaxed" ELSE reply.filter)

(* A command typed in full is run whatever else the node holds, unless the grammar   *)
(* of another command derives the line as well: no abbreviation, variable or range   *)
(* of a neighbour takes the line away or makes it ambiguous.                         *)
FullWordsRun ==
    reply.op = "execute" =>
      \A i \in DOMAIN commands :
        /\ ~commands[i].disabled
        /\ Len(commands[i].tokens) = Len(reply.line)
        /\ \A k \in DOMAIN reply.line :
             commands[i].tokens[k].kind = "literal" /\ commands[i].tokens[k].text = reply.line[k]
        /\ \A j \in DOMAIN commands \ {i} : ~Derives(commands[j].tokens, reply.line, "relaxed")
        => Ran /\ reply.command = i

(* A first word that begins the first literals of two visible commands, and is       *)
(* neither of them, runs none of the two, whatever words follow.                     *)
AbbreviationUnique ==
    Ran => LET word == reply.line[1]
               begun == {t.text : t \in {commands[i].tokens[1] : i \in {j \in DOMAIN commands : ~commands[j].hidden}}}
               c == commands[reply.command]
           IN (~c.hidden /\ <<word, c.tokens[1].text>> \in Abbrev) =>
                \A x \in begun \ {c.tokens[1].text} : <<word, x>> \notin Abbrev

(* Where a command has no optional and no variable argument, its handler finds an    *)
(* argument at the same place whatever was typed: a keyword that is left out, and    *)
(* the variables of that keyword, still have theirs.                                 *)
Places(t) ==
    CASE t.type = "MULTIPLE" -> 1
      [] t.type = "TERMINAL" -> IF t.kind = "literal" THEN 0 ELSE 1
      [] t.type = "KEYWORD" ->
           FoldLeft(LAMBDA n, k : n + IF Len(k) = 1 THEN 1 ELSE Len(SelectSeq(Tail(k), LAMBDA u : u.kind # "literal")),
                    0, t.keyword)
ArgvFixed ==
    (Ran /\ \A t \in ToSet(commands[reply.command].tokens) : t.kind \notin {"option", "vararg"}) =>
      Len(reply.argv) = FoldLeft(LAMBDA n, t : n + Places(t), 0, commands[reply.command].tokens)

(* "?" after a space offers <cr> when RETURN would run a visible command; and where  *)
(* it is offered RETURN runs the line, or finds two commands whose grammars both     *)
(* derive it, or one of more than CMD_ARGC_MAX arguments.  (Commands that are not    *)
(* enabled are offered and refused.)                                                 *)
CrRuns ==
    (reply.op = "describe" /\ Len(reply.line) > 1 /\ Last(reply.line) = Empty /\ AllEnabled) =>
      \A e \in {Runs(Front(reply.line))} :
        LET cr == reply.ret = "SUCCESS" /\ command_cr \in reply.texts
        IN /\ e.ret = "SUCCESS" /\ ~commands[e.command].hidden => cr
           /\ cr => e.ret \in {"SUCCESS", "EXCEED"} \/ (e.ret = "AMBIGUOUS" /\ Several(Front(reply.line)))

(* The one word TAB completes to never spoils the line: with it, the line runs,      *)
(* waits for more, has too many arguments, or is derived by two commands' grammars.  *)
CompletionSound ==
    (reply.op = "complete" /\ reply.ret = "FULL_MATCH" /\ AllEnabled) =>
      LET line == Append(Front(reply.line), CHOOSE w \in reply.texts : TRUE)
      IN Runs(line).ret \in {"SUCCESS", "INCOMPLETE", "EXCEED"} \cup IF Several(line) THEN {"AMBIGUOUS"} ELSE {}

(* The line that is written to the audit log for a command without alternatives      *)
(* stands for what was run: typed again, it runs that command and no other, with the *)
(* same arguments.                                                                   *)
Logged == autocomplete_command_tokens(commands[reply.command].tokens, reply.line)
Plain(c) == \A t \in ToSet(c.tokens) : t.type = "TERMINAL" /\ ~CMD_OPTION(t)
LoggedRunsAgain ==
    (Ran /\ reply.filter = "relaxed" /\ Plain(commands[reply.command])) =>
      \A e \in {Runs(Logged)} : e.ret = "SUCCESS" /\ e.command = reply.command /\ e.argv = reply.argv

(* The handler of a command with optional words gets the words: an argument is never *)
(* the word with the end of an earlier, longer one behind it.                        *)
ArgumentsWhole == Ran => Garbled \notin ToSet(reply.argv)
===============================================================================
