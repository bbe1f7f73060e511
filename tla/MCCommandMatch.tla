---------------------------- MODULE MCCommandMatch ----------------------------
(* Nodes of two commands out of a pool that has every kind of token. *)
EXTENDS CommandMatch

Tok(k, x, n) == [type |-> "TERMINAL", kind |-> k, text |-> x, len |-> n]
Lit(x, n) == Tok("literal", x, n)
Rng(k, x, n, a, b) == [type |-> "TERMINAL", kind |-> k, text |-> x, len |-> n, min |-> a, max |-> b]
Opt(t) == [type |-> "TERMINAL", kind |-> "option", text |-> "[" \o t.text \o "]", len |-> t.len + 2, inner |-> t]
Mul(s) == [type |-> "MULTIPLE", kind |-> "multiple", multiple |-> s]
Key(s) == [type |-> "KEYWORD", kind |-> "keyword", keyword |-> s]
Cmd(s) == [tokens |-> s, hidden |-> FALSE, disabled |-> FALSE]

A == Lit("a", 1)
Ab == Lit("ab", 2)
Abc == Lit("abc", 3)
B == Lit("b", 1)
Word == Tok("word", "WORD", 4)
Line == Tok("vararg", ".LINE", 5)
Ip == Tok("ipv4", "A.B.C.D", 7)
Net == Tok("prefix", "A.B.C.D/M", 9)
Mask == Tok("netmask", "A.B.C.D/W.X.Y.Z", 15)
Ip6 == Tok("ipv6", "X:X::X:X", 8)
Net6 == Tok("ipv6prefix", "X:X::X:X/M", 10)
If == Tok("ifname", "IFNAME", 6)
IfR == Tok("ifnames", "IFNAME_R", 8)
Port == Tok("port", "PORT", 4)
Vlan == Tok("vlan", "VLAN", 4)
Mac == Tok("mac", "MAC", 3)
R5 == Rng("range", "<1-5>", 5, 1, 5)
R20 == Rng("range", "<1-20>", 6, 1, 20)
C5 == Rng("rangeC", "<C:1-5>", 7, 1, 5)
L5 == Rng("rangeL", "<L:1-5>", 7, 1, 5)
A5 == Rng("rangeA", "<A:1-5>", 7, 1, 5)

Pool == {Cmd(<<Ab, B>>), Cmd(<<Ab, Word>>), Cmd(<<Abc, R5>>), Cmd(<<Ab, R20>>), Cmd(<<A, Line>>),
         Cmd(<<Ab, Opt(B)>>), Cmd(<<Ab, Opt(Abc), Opt(B)>>), Cmd(<<Ab, Opt(If)>>),
         Cmd(<<Ab, Mul(<<A, Ab, Word>>)>>), Cmd(<<A, Mul(<<R5, Ip>>), B>>),
         Cmd(<<Ab, Key(<< <<A, R5>>, <<B>>, <<Abc, Word>> >>)>>),
         Cmd(<<Word, Key(<< <<A, R5>>, <<B>>, <<Abc, Word>> >>)>>), Cmd(<<Line>>),
         Cmd(<<A, C5>>), Cmd(<<A, L5>>), Cmd(<<A, A5>>), Cmd(<<A, Net>>), Cmd(<<A, Ip>>),
         Cmd(<<A, IfR, B>>), Cmd(<<A, Mul(<<Net6, Ip6>>), Port>>), Cmd(<<A, Opt(Ip6)>>), Cmd(<<A, Mul(<<Mac, Vlan>>)>>),
         [Cmd(<<Ab, A>>) EXCEPT !.hidden = TRUE], [Cmd(<<Ab, B>>) EXCEPT !.disabled = TRUE]}

(* What the scanners say of a word; the address forms not named are "no". *)
S(n, num, l, forms, names) ==
    [len |-> n, number |-> num, list |-> l, names |-> names,
     address |-> [k \in DOMAIN AddressRank |-> IF k \in DOMAIN forms THEN forms[k] ELSE "no"]]
L(c, d, g, p) == <<[comma |-> c, dash |-> d, digit |-> g, parts |-> p]>>
Begun == [ipv4 |-> "partly", prefix |-> "partly", netmask |-> "partly", ipv6prefix |-> "partly"]
MCShape == [w \in {"a", "ab", "abc", "b", "3", "9", "2-4", "1.1.1.1", "1::1", "1:2:3:4:5:6"} |->
  CASE w = "3" -> S(1, <<3>>, L(FALSE, FALSE, TRUE, << <<3>> >>), Begun, {"ifname", "port", "vlan"})
    [] w = "9" -> S(1, <<9>>, L(FALSE, FALSE, TRUE, << <<9>> >>), Begun, {})
    [] w = "2-4" -> S(3, <<>>, L(FALSE, TRUE, FALSE, << <<2, 4>> >>), <<>>, {})
    [] w = "1.1.1.1" -> S(7, <<>>, <<>>, [ipv4 |-> "exact", prefix |-> "partly", netmask |-> "partly"], {})
    [] w = "1:2:3:4:5:6" -> S(11, <<>>, <<>>, [ipv6prefix |-> "partly"], {"mac"})
    [] w = "1::1" -> S(4, <<>>, <<>>, [ipv6 |-> "exact", ipv6prefix |-> "partly"], {})
    [] OTHER -> S(CASE w \in {"a", "b"} -> 1 [] w = "ab" -> 2 [] w = "abc" -> 3, <<>>, <<>>,
                  [ipv6prefix |-> "partly"], {})]
MCIfNames == {<<2>>, <<3>>, <<4>>}
MCAbbrev == {<<"a", "ab">>, <<"a", "abc">>, <<"ab", "abc">>}
MCWords == {"a", "ab", "b", "3", "9", "2-4", "1.1.1.1", "1::1", "1:2:3:4:5:6"}
(* A node is one command of the pool, alone or beside one that begins alike. *)
Pairs == {{c} : c \in Pool} \cup {{c, Cmd(<<Ab, B>>)} : c \in Pool}
         \cup {{c, Cmd(<<Abc, R5>>)} : c \in {d \in Pool : d.tokens[1] # A}}
         \cup {{Cmd(<<A, C5>>), Cmd(<<A, Line>>)}, {Cmd(<<A, Net>>), Cmd(<<A, Ip>>)}, {Cmd(<<A, L5>>), Cmd(<<A, A5>>)},
               {Cmd(<<A, Mask>>), Cmd(<<A, Net6>>)}, {Cmd(<<A, Mac>>), Cmd(<<A, Port>>)}, {Cmd(<<A, Vlan>>), Cmd(<<A, IfR, B>>)}}
MCNodes == {SetToSeq(p) : p \in Pairs}

(* For the arguments of optional words: a command with two. *)
OptionNodes == {<<Cmd(<<Ab, Opt(Abc), Opt(B)>>)>>}
===============================================================================
