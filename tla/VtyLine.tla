-------------------------------- MODULE VtyLine --------------------------------
(***************************************************************************)
(* The line a terminal types (lib/vty.c): the buffer and the point, the     *)
(* history, the escape sequences, and what the functions that edit the line *)
(* write to the terminal.  v is the part of struct vty they use:            *)
(*                                                                          *)
(*   v.buf, v.max      the memory of the line and its size                  *)
(*   v.cp, v.length    the point and the length                             *)
(*   v.hist, v.hindex, v.hp   the ring of lines, its next and current place *)
(*   v.escape          VTY_NORMAL, VTY_PRE_ESCAPE or VTY_ESCAPE             *)
(*   v.auth            a password is asked for: nothing is echoed           *)
(*   v.scr, v.cur      what follows the prompt on the terminal, its cursor  *)
(*   v.fault           "written" when the line was written behind its       *)
(*                     memory, "read" when it was taken for a C string and  *)
(*                     has no end; what follows is not determined           *)
(*                                                                          *)
(* Characters that are inserted alike are in Letters.  Telnet options and   *)
(* the keys of a page that is not written to its end are not modelled here. *)
(***************************************************************************)
EXTENDS Integers, Sequences, FiniteSets, SequencesExt

CONSTANTS
    Letters,        \* characters that are typed, Blank among them
    VTY_BUFSIZ,
    VTY_MAXHIST,
    MaxLine,        \* characters a line is typed to
    MaxCommand,     \* characters of a line that is executed
    Keys            \* the other keys that are pressed, of AllKeys

VARIABLES
    v,
    did,            \* what was typed last, as the function it called
    past            \* the commands that were typed, without repetitions, newest last

vars == <<v, did, past>>

Blank == " "
NUL == ""
Junk == "junk"              \* memory nobody wrote
Width == 2 * MaxLine + 4    \* of the terminal

AllKeys == {"^A", "^B", "^C", "^D", "^E", "^F", "^H", "^K", "^N", "^P", "^T", "^U", "^W", "^Z",
            "RET", "TAB", "?", "ESC"}

Zeroes(n) == [i \in 1 .. n |-> NUL]
Blanks == [i \in 1 .. Width |-> Blank]
Text(w) == SubSeq(w.buf, 1, w.length)
String(w) == SelectInSeq(w.buf, LAMBDA c : c = NUL)     \* where the C string ends
Line(w) == IF String(w) = 0 THEN w.buf ELSE SubSeq(w.buf, 1, String(w) - 1)

(* The buffer is taken for a C string: vty_ensure() may have added memory just behind *)
(* the line, and nothing has ended it there.                                          *)
ReadAsString(w) == [w EXCEPT !.fault = IF w.buf[w.length + 1] = Junk THEN "read" ELSE @]

Init ==
    /\ \E auth \in BOOLEAN :
         v = [buf |-> Zeroes(VTY_BUFSIZ), max |-> VTY_BUFSIZ, cp |-> 0, length |-> 0,
              hist |-> [i \in 0 .. VTY_MAXHIST - 1 |-> <<>>], hindex |-> 0, hp |-> 0,
              escape |-> "VTY_NORMAL", auth |-> auth, scr |-> Blanks, cur |-> 0,
              fault |-> "none"]
    /\ did = "none"
    /\ past = <<>>

-------------------------------------------------------------------------------
(* The terminal: a character is written over what is under the cursor. *)
Show(w, c) == [w EXCEPT !.scr[w.cur + 1] = c, !.cur = @ + 1]
vty_write(w, s) == IF w.auth THEN w ELSE FoldLeft(Show, w, s)
Back(w, n) == IF w.auth THEN w ELSE [w EXCEPT !.cur = @ - n]     \* n times telnet_backward_char
NewPrompt(w) == [w EXCEPT !.scr = Blanks, !.cur = 0]            \* VTY_NEWLINE and vty_prompt()

(* Fault: the place of the end of the string is not counted. *)
EnsuredLate(w, length) ==
    IF w.max < length THEN [w EXCEPT !.max = 2 * @, !.buf = @ \o [i \in 1 .. w.max |-> Junk]] ELSE w

vty_ensure(w, length) ==
    IF w.max <= length THEN [w EXCEPT !.max = 2 * @, !.buf = @ \o [i \in 1 .. w.max |-> Junk]] ELSE w
vty_clear_buf(w) == [w EXCEPT !.buf = Zeroes(w.max)]

(* memmove() and memset() within the buffer, places counted from 0. *)
Move(buf, to, from, n) == [i \in DOMAIN buf |-> IF i - 1 \in to .. to + n - 1 THEN buf[i - to + from] ELSE buf[i]]
Fill(buf, from, n, c) == [i \in DOMAIN buf |-> IF i - 1 \in from .. from + n - 1 THEN c ELSE buf[i]]

vty_self_insert(w, c) ==
    LET e == vty_ensure(w, w.length + 1)
        n == w.length - w.cp
        b == [Move(e.buf, w.cp + 1, w.cp, n) EXCEPT ![w.cp + 1] = c]
        shown == Back(vty_write([e EXCEPT !.buf = b], SubSeq(b, w.cp + 1, w.cp + n + 1)), n)
    IN [shown EXCEPT !.cp = @ + 1, !.length = @ + 1]

vty_self_insert_overwrite(w, c) ==
    LET e == [vty_ensure(w, w.length + 1) EXCEPT !.buf[w.cp + 1] = c, !.cp = @ + 1]
    IN vty_write([e EXCEPT !.length = IF e.cp > @ THEN @ + 1 ELSE @], <<c>>)

(* strcpy() writes the end of the string too, and nothing made room for it. *)
vty_insert_word_overwrite(w, str) ==
    LET n == Len(str)
        b == [i \in DOMAIN w.buf |-> IF i - w.cp \in 1 .. n THEN str[i - w.cp] ELSE IF i = w.cp + n + 1 THEN NUL ELSE w.buf[i]]
    IN [vty_write(w, str) EXCEPT !.buf = b, !.cp = @ + n, !.length = w.cp + n,
                                 !.fault = IF w.cp + n >= w.max THEN "written" ELSE @]

vty_forward_char(w) ==
    IF w.cp < w.length THEN [vty_write(w, <<w.buf[w.cp + 1]>>) EXCEPT !.cp = @ + 1] ELSE w
vty_backward_char(w) == IF w.cp > 0 THEN [Back(w, 1) EXCEPT !.cp = @ - 1] ELSE w
vty_beginning_of_line(w) == [Back(w, w.cp) EXCEPT !.cp = 0]
vty_end_of_line(w) == [vty_write(w, SubSeq(w.buf, w.cp + 1, w.length)) EXCEPT !.cp = w.length]
vty_redraw_line(w) == [vty_write(w, Text(w)) EXCEPT !.cp = w.length]

(* While a condition on the character at the point (or before it) holds, a step: as   *)
(* many as there are such characters.                                                 *)
Times(n, w, Step(_)) == FoldLeft(LAMBDA k, i : Step(k), w, [i \in 1 .. n |-> i])
WhileAt(w, P(_), Step(_)) ==
    Times(Cardinality({n \in 1 .. w.length - w.cp : \A i \in 1 .. n : P(w.buf[w.cp + i])}), w, Step)
WhileBefore(w, P(_), Step(_)) ==
    Times(Cardinality({n \in 1 .. w.cp : \A i \in 0 .. n - 1 : P(w.buf[w.cp - i])}), w, Step)
IsBlank(c) == c = Blank
NotBlank(c) == c # Blank

vty_forward_word(w) == WhileAt(WhileAt(w, NotBlank, vty_forward_char), IsBlank, vty_forward_char)
vty_backward_pure_word(w) == WhileBefore(w, NotBlank, vty_backward_char)
vty_backward_word(w) == WhileBefore(WhileBefore(w, IsBlank, vty_backward_char), NotBlank, vty_backward_char)

-------------------------------------------------------------------------------
(* The node changes, the text stays in the buffer. *)
vty_down_level(w) == [NewPrompt(w) EXCEPT !.cp = 0]
vty_end_config(w) == [NewPrompt(w) EXCEPT !.cp = 0]

(* Fault: the last character is left behind the end. *)
TailLeft(w) ==
    LET size == w.length - w.cp
        b == Move(w.buf, w.cp, w.cp + 1, size - 1)
        d == [w EXCEPT !.length = @ - 1, !.buf = b]
    IN IF w.length = 0 THEN vty_down_level(w)
       ELSE IF size = 0 THEN w
       ELSE Back(vty_write(d, SubSeq(b, w.cp + 1, w.length - 1) \o <<Blank>>), size)

vty_delete_char(w) ==
    LET size == w.length - w.cp
        b == [Move(w.buf, w.cp, w.cp + 1, size - 1) EXCEPT ![w.length] = NUL]
        d == [w EXCEPT !.length = @ - 1, !.buf = b]
    IN IF w.length = 0 THEN vty_down_level(w)
       ELSE IF size = 0 THEN w
       ELSE Back(vty_write(d, SubSeq(b, w.cp + 1, w.length - 1) \o <<Blank>>), size)

vty_delete_backward_char(w) == IF w.cp = 0 THEN w ELSE vty_delete_char(vty_backward_char(w))

(* Fault: the cursor is left at the end of what was killed. *)
CursorLeft(w) ==
    LET size == w.length - w.cp
    IN [vty_write(w, [i \in 1 .. size |-> Blank]) EXCEPT !.buf = Fill(@, w.cp, size, NUL), !.length = w.cp]

vty_kill_line(w) ==
    LET size == w.length - w.cp
    IN [Back(vty_write(w, [i \in 1 .. size |-> Blank]), size)
          EXCEPT !.buf = Fill(@, w.cp, size, NUL), !.length = w.cp]
vty_kill_line_from_beginning(w) == vty_kill_line(vty_beginning_of_line(w))

vty_forward_kill_word(w) == WhileAt(WhileAt(w, IsBlank, vty_delete_char), NotBlank, vty_delete_char)
(* Fault: a blank before the point ends the word. *)
WordOnly(w) == WhileBefore(w, NotBlank, vty_delete_backward_char)

vty_backward_kill_word(w) ==
    WhileBefore(WhileBefore(w, IsBlank, vty_delete_backward_char), NotBlank, vty_delete_backward_char)

vty_transpose_chars(w) ==
    LET at == IF w.cp = w.length THEN w.cp - 1 ELSE w.cp
        back == IF w.cp = w.length THEN vty_backward_char(vty_backward_char(w)) ELSE vty_backward_char(w)
    IN IF w.length < 2 \/ w.cp < 1 THEN w
       ELSE vty_self_insert_overwrite(vty_self_insert_overwrite(back, w.buf[at + 1]), w.buf[at])

(* What completion finds for the last word: nothing to be written, or the word (as     *)
(* far as all agree), which goes on from what was typed.                               *)
Completions(w) ==
    LET start == vty_backward_pure_word(vty_end_of_line(w)).cp
        typed == SubSeq(w.buf, start + 1, w.length)
    IN {typed \o more : more \in {<<>>} \cup {<<c>> : c \in Letters \ {Blank}}}
vty_complete_command(w) ==
    LET drawn == vty_redraw_line(NewPrompt(w))
        Put(word) == vty_insert_word_overwrite(vty_backward_pure_word(drawn), word)
    IN IF w.auth \/ \A i \in 1 .. Len(Line(w)) : IsBlank(w.buf[i]) THEN {w}
       ELSE IF ReadAsString(w).fault # "none" THEN {ReadAsString(w)}
       ELSE {drawn} \cup {Put(c) : c \in Completions(w)}
              \cup {IF Put(c).fault = "none" THEN vty_self_insert(Put(c), Blank) ELSE Put(c) : c \in Completions(w)}

vty_describe_command(w) == vty_redraw_line(NewPrompt(ReadAsString(w)))

-------------------------------------------------------------------------------
(* The history.  <<>> is NULL: no line of it is empty. *)
Before(i) == IF i = 0 THEN VTY_MAXHIST - 1 ELSE i - 1
After(i) == IF i = VTY_MAXHIST - 1 THEN 0 ELSE i + 1

vty_history_print(w) ==
    LET killed == vty_kill_line_from_beginning(w)
        line == w.hist[w.hp]
        b == [i \in DOMAIN killed.buf |-> IF i <= Len(line) THEN line[i] ELSE killed.buf[i]]
    IN vty_redraw_line([killed EXCEPT !.buf = b, !.cp = Len(line), !.length = Len(line)])
vty_next_line(w) ==
    IF w.hp = w.hindex \/ w.hist[After(w.hp)] = <<>> THEN w
    ELSE vty_history_print([w EXCEPT !.hp = After(@)])
vty_previous_line(w) ==
    IF w.hist[Before(w.hp)] = <<>> THEN w
    ELSE vty_history_print([w EXCEPT !.hp = Before(@)])

(* Fault: the place before the first is not the last. *)
NoWrap(w) ==
    LET last == w.hist[IF w.hindex = 0 THEN 0 ELSE w.hindex - 1]
    IN IF w.length = 0 THEN w
       ELSE IF Line(w) = last THEN [w EXCEPT !.hp = w.hindex]
       ELSE [w EXCEPT !.hist[w.hindex] = Line(w), !.hindex = After(@), !.hp = After(w.hindex)]

vty_hist_add(w) ==
    IF w.length = 0 THEN w
    ELSE IF Line(w) = w.hist[Before(w.hindex)] THEN [w EXCEPT !.hp = w.hindex]
    ELSE [w EXCEPT !.hist[w.hindex] = Line(w), !.hindex = After(@), !.hp = After(w.hindex)]

(* A command may ask for a password next (enable), the right password ends that. *)
vty_execute(w) ==
    LET kept == IF w.auth THEN w ELSE vty_hist_add(w)
        clear == NewPrompt(vty_clear_buf([kept EXCEPT !.cp = 0, !.length = 0]))
    IN IF ReadAsString(w).fault # "none" THEN {ReadAsString(w)}
       ELSE {[clear EXCEPT !.auth = a] : a \in BOOLEAN}

vty_stop_input(w) == [NewPrompt(vty_clear_buf([w EXCEPT !.cp = 0, !.length = 0])) EXCEPT !.hp = w.hindex]

-------------------------------------------------------------------------------
(* vty_read() with one character. *)
vty_escape_map(w, c) ==
    LET back == [w EXCEPT !.escape = "VTY_NORMAL"]
    IN CASE c = "A" -> vty_previous_line(back)
         [] c = "B" -> vty_next_line(back)
         [] c = "C" -> vty_forward_char(back)
         [] c = "D" -> vty_backward_char(back)
         [] OTHER -> back

Function(c) ==
    CASE c = "^A" -> "vty_beginning_of_line" [] c = "^B" -> "vty_backward_char" [] c = "^C" -> "vty_stop_input"
      [] c = "^D" -> "vty_delete_char" [] c = "^E" -> "vty_end_of_line" [] c = "^F" -> "vty_forward_char"
      [] c = "^H" -> "vty_delete_backward_char" [] c = "^K" -> "vty_kill_line" [] c = "^N" -> "vty_next_line"
      [] c = "^P" -> "vty_previous_line" [] c = "^T" -> "vty_transpose_chars"
      [] c = "^U" -> "vty_kill_line_from_beginning" [] c = "^W" -> "vty_backward_kill_word"
      [] c = "^Z" -> "vty_end_config"
Apply(w, fn) ==
    CASE fn = "vty_beginning_of_line" -> vty_beginning_of_line(w)
      [] fn = "vty_backward_char" -> vty_backward_char(w)
      [] fn = "vty_stop_input" -> vty_stop_input(w)
      [] fn = "vty_delete_char" -> vty_delete_char(w)
      [] fn = "vty_end_of_line" -> vty_end_of_line(w)
      [] fn = "vty_forward_char" -> vty_forward_char(w)
      [] fn = "vty_delete_backward_char" -> vty_delete_backward_char(w)
      [] fn = "vty_kill_line" -> vty_kill_line(w)
      [] fn = "vty_next_line" -> vty_next_line(w)
      [] fn = "vty_previous_line" -> vty_previous_line(w)
      [] fn = "vty_transpose_chars" -> vty_transpose_chars(w)
      [] fn = "vty_kill_line_from_beginning" -> vty_kill_line_from_beginning(w)
      [] fn = "vty_backward_kill_word" -> vty_backward_kill_word(w)
      [] fn = "vty_end_config" -> vty_end_config(w)
      [] fn = "vty_backward_word" -> vty_backward_word(w)
      [] fn = "vty_forward_word" -> vty_forward_word(w)
      [] fn = "vty_forward_kill_word" -> vty_forward_kill_word(w)
      [] OTHER -> w

Insert(c) ==
    /\ v.escape = "VTY_NORMAL" /\ v.length < MaxLine
    /\ v' = vty_self_insert(v, c)
    /\ did' = "vty_self_insert"
    /\ UNCHANGED past

Control(c) ==
    /\ v.escape = "VTY_NORMAL"
    /\ v' = Apply(v, Function(c))
    /\ did' = Function(c)
    /\ UNCHANGED past

Return ==
    /\ v.escape = "VTY_NORMAL" /\ v.length <= MaxCommand
    /\ v' \in vty_execute(v)
    /\ did' = "vty_execute"
    /\ past' = IF v.auth \/ v.length = 0 \/ (past # <<>> /\ Last(past) = Text(v)) THEN past
               ELSE LET all == Append(past, Text(v)) IN IF Len(all) > VTY_MAXHIST THEN Tail(all) ELSE all

Tab ==
    /\ v.escape = "VTY_NORMAL" /\ v.length < MaxLine - 1
    /\ v' \in vty_complete_command(v)
    /\ did' = "vty_complete_command"
    /\ UNCHANGED past

Question ==
    /\ v.escape = "VTY_NORMAL" /\ v.length < MaxLine
    /\ v' = IF v.auth THEN vty_self_insert(v, "?") ELSE vty_describe_command(v)
    /\ did' = IF v.auth THEN "vty_self_insert" ELSE "vty_describe_command"
    /\ UNCHANGED past

(* An escape sequence, whether it comes in one read or in several. *)
Escape ==
    /\ v.escape = "VTY_NORMAL"
    /\ v' = [v EXCEPT !.escape = "VTY_PRE_ESCAPE"]
    /\ did' = "none"
    /\ UNCHANGED past
PreEscape(fn) ==
    /\ v.escape = "VTY_PRE_ESCAPE"
    /\ v' = [Apply(v, fn) EXCEPT !.escape = IF fn = "[" THEN "VTY_ESCAPE" ELSE "VTY_NORMAL"]
    /\ did' = fn
    /\ UNCHANGED past
EscapeMap(c) ==
    /\ v.escape = "VTY_ESCAPE"
    /\ v' = vty_escape_map(v, c)
    /\ did' = "vty_escape_map"
    /\ UNCHANGED past

Press ==
    \/ \E c \in Letters : Insert(c)
    \/ \E c \in Keys \ {"RET", "TAB", "?", "ESC"} : Control(c)
    \/ "RET" \in Keys /\ Return
    \/ "TAB" \in Keys /\ Tab
    \/ "?" \in Keys /\ Question
    \/ "ESC" \in Keys /\ Escape
    \/ \E fn \in {"[", "vty_backward_word", "vty_forward_word", "vty_forward_kill_word", "vty_backward_kill_word", "none"} :
         PreEscape(fn)
    \/ \E c \in {"A", "B", "C", "D", "other"} : EscapeMap(c)

Next == v.fault = "none" /\ Press

Spec == Init /\ [][Next]_vars

-------------------------------------------------------------------------------
(* The state's shape: the point is in the line and the line, with the end of a string, *)
(* in its memory, unless completion wrote behind it.                                   *)
TypeOK ==
    /\ v.cp \in 0 .. v.length /\ Len(v.buf) = v.max /\ v.fault \in {"none", "read", "written"}
    /\ v.fault # "written" => v.length < v.max
    /\ v.hp \in DOMAIN v.hist /\ v.hindex \in DOMAIN v.hist
    /\ v.escape \in {"VTY_NORMAL", "VTY_PRE_ESCAPE", "VTY_ESCAPE"}
    /\ v.cur \in 0 .. Width

(* Nothing is left of longer lines behind the line, so that what is executed and kept  *)
(* in the history ends where the line does.  (Memory vty_ensure() adds is not cleared: *)
(* it is only there after a line outgrew the buffer.)                                  *)
CleanTail == \A i \in v.length + 1 .. v.max : v.buf[i] = NUL \/ (v.buf[i] = Junk /\ v.max > VTY_BUFSIZ)

(* A line shorter than the memory a session starts with is never read or written past  *)
(* its end, whatever was typed, completed and executed before it: vty_ensure() is      *)
(* missing, and its memory is not cleared, only where a line has outgrown VTY_BUFSIZ.  *)
ShortLinesSafe == v.fault # "none" => v.length >= VTY_BUFSIZ

(* "Ensure length of input buffer.  Is buffer is short, double it." (vty.c:678): no    *)
(* key writes behind the memory of the line.                                           *)
AlwaysEnsured == v.fault # "written"

(* What is echoed after the prompt is the line, and the cursor is at the point; after  *)
(* ^Z, which leaves the text in the buffer and shows an empty line, this holds up to   *)
(* the point.  A password is never echoed.                                             *)
Shown(i) == IF i <= v.length THEN v.buf[i] ELSE Blank
ScreenIsLine ==
    IF v.auth THEN v.scr = Blanks /\ v.cur = 0
    ELSE /\ v.cur = v.cp
         /\ v.fault # "written" => \A i \in 1 .. v.cp : v.scr[i] = v.buf[i]
         /\ "^Z" \notin Keys /\ v.fault = "none" => \A i \in 1 .. Width : v.scr[i] = Shown(i)

(* The ring holds the last VTY_MAXHIST commands in order, without immediate            *)
(* repetitions and without a password.                                                 *)
RECURSIVE Places(_, _)
Places(i, n) == IF n = 0 THEN i ELSE Places(Before(i), n - 1)
HistoryIsRecent ==
    /\ \A k \in 1 .. Len(past) : v.hist[Places(v.hindex, k)] = past[Len(past) + 1 - k]
    /\ \A k \in Len(past) + 1 .. VTY_MAXHIST : v.hist[Places(v.hindex, k)] = <<>>

(* Each key changes the line only where it says.  The line is what is before the point *)
(* and what is after it.                                                               *)
Left(w) == SubSeq(w.buf, 1, w.cp)
Right(w) == SubSeq(w.buf, w.cp + 1, w.length)
AllBlank(s) == \A i \in DOMAIN s : IsBlank(s[i])
Word(s) == \A i \in DOMAIN s : NotBlank(s[i])
Cuts(s) == {<<SubSeq(s, 1, i), SubSeq(s, i + 1, j), SubSeq(s, j + 1, Len(s))>> :
              <<i, j>> \in {ij \in (0 .. Len(s)) \X (0 .. Len(s)) : ij[1] <= ij[2]}}
Starts(s) == s = <<>> \/ IsBlank(Last(s))       \* a word can start after s
Ends(s) == s = <<>> \/ IsBlank(Head(s))         \* a word can end before s
Moved == Text(v') = Text(v)
Edited ==
    CASE did' = "vty_self_insert" ->
           Len(Left(v')) = Len(Left(v)) + 1 /\ Front(Left(v')) = Left(v) /\ Right(v') = Right(v)
      [] did' \in {"vty_beginning_of_line", "vty_backward_char", "vty_end_of_line", "vty_forward_char", "none", "[",
                   "vty_describe_command", "vty_end_config"} -> Moved
      [] did' = "vty_delete_char" ->
           Left(v') = Left(v) /\ Right(v') = IF Right(v) = <<>> THEN <<>> ELSE Tail(Right(v))
      [] did' = "vty_delete_backward_char" ->
           Right(v') = Right(v) /\ Left(v') = IF Left(v) = <<>> THEN <<>> ELSE Front(Left(v))
      [] did' = "vty_kill_line" -> Left(v') = Left(v) /\ Right(v') = <<>>
      [] did' \in {"vty_kill_line_from_beginning", "vty_stop_input", "vty_execute"} -> Text(v') = <<>>
      [] did' = "vty_backward_kill_word" ->
           /\ Right(v') = Right(v) /\ Starts(Left(v'))
           /\ \E c \in Cuts(Left(v)) : c[1] = Left(v') /\ Word(c[2]) /\ AllBlank(c[3]) /\ (c[2] = <<>> => c[1] = <<>>)
      [] did' = "vty_forward_kill_word" ->
           /\ Left(v') = Left(v) /\ Ends(Right(v'))
           /\ \E c \in Cuts(Right(v)) : AllBlank(c[1]) /\ Word(c[2]) /\ c[3] = Right(v') /\ (c[2] = <<>> => c[3] = <<>>)
      [] did' = "vty_backward_word" ->
           /\ Moved /\ Starts(Left(v'))
           /\ \E c \in Cuts(Left(v)) : c[1] = Left(v') /\ Word(c[2]) /\ AllBlank(c[3]) /\ (c[2] = <<>> => c[1] = <<>>)
      [] did' = "vty_forward_word" ->
           /\ Moved /\ (Right(v') # <<>> => NotBlank(Head(Right(v'))) /\ Right(v') # Right(v))
           /\ \E c \in Cuts(Right(v)) : Word(c[1]) /\ AllBlank(c[2]) /\ c[3] = Right(v')
      [] did' = "vty_transpose_chars" ->
           \/ Moved
           \/ \E i \in 1 .. v.length - 1 : Text(v') = [Text(v) EXCEPT ![i] = Text(v)[i + 1], ![i + 1] = Text(v)[i]]
      [] did' = "vty_complete_command" -> IsPrefix(Text(v), Text(v')) /\ Len(Text(v')) <= v.length + 2
      [] OTHER -> TRUE
KeysEdit == [][v'.fault = "none" => Edited]_vars
===============================================================================
