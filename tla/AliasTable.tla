----------------------------- MODULE AliasTable -----------------------------
(***************************************************************************)
(* The aliases of one vtysh session (vtysh/vtysh.c).                       *)
(*                                                                         *)
(* Aliases are rows of a table of the database, shared by all sessions.    *)
(* Each session keeps an array of them, vtysh_aliases, whose entries embed *)
(* the command elements that make an alias executable.  The command        *)
(* "alias" changes array and database; the poll thread brings the array    *)
(* back in line with the replica, marking what it finds with a generation  *)
(* count that wraps.  Both run with the lock of VtyshThreads held, so each *)
(* is one step here.                                                       *)
(***************************************************************************)
EXTENDS Naturals, SequencesExt

CONSTANTS
  Names,       \* alias names, none of which is a word of another command
  MaxAliases,  \* VTYSH_MAX_ALIAS_SUPPORTED, 50 in the code
  Wrap,        \* where refresh_count wraps, 100 in the code
  MaxOps       \* bound on what users do

(* What the constants are.                                                 *)
AliasConstants ==
  MaxAliases \in Nat \ {0} /\ Wrap \in Nat \ {0, 1} /\ MaxOps \in Nat

VARIABLES
  table,    \* vtysh_aliases[0 .. vtysh_alias_count - 1]
  refresh,  \* the static refresh_count of vty_refresh_aliases
  db,       \* names of the alias rows on the server
  rows,     \* names of the alias rows in the replica idl
  ops       \* what users have done so far

vars == <<table, refresh, db, rows, ops>>

Entry == [name : Names, count : 0..(Wrap - 1)]

(* After the first refresh, without which no command is executed.          *)
Init ==
  /\ refresh = 1 /\ ops = 0
  /\ db \in SUBSET Names /\ Cardinality(db) <= MaxAliases /\ rows = db
  /\ table \in SetToSeqs({[name |-> n, count |-> 1] : n \in db})

InTable(n) == \E i \in DOMAIN table : table[i].name = n

(* A commit runs idl, so that the replica is up to date after it; it may   *)
(* fail, and the commands below ignore that.                               *)
Commit(new) == \E d \in {new, db} : db' = d /\ rows' = d

UserOp == ops < MaxOps /\ ops' = ops + 1
-----------------------------------------------------------------------------
(* alias WORD .LINE: a name that is already a command is refused, and so   *)
(* is one more than the array can hold.                                    *)
CreateAlias(n) ==
  /\ UserOp /\ UNCHANGED refresh
  /\ IF Len(table) >= MaxAliases \/ InTable(n)
     THEN UNCHANGED <<table, db, rows>>
     ELSE /\ table' = Append(table, [name |-> n, count |-> 0])
          /\ Commit(db \union {n})

(* The last entry of the array takes the place of the one removed.         *)
SwapRemove_NoSwap(t, i) == Front(t)

SwapRemove(t, i) == Front([t EXCEPT ![i] = t[Len(t)]])

(* no alias WORD.                                                          *)
DeleteAlias(n) ==
  /\ UserOp /\ UNCHANGED refresh
  /\ IF InTable(n)
     THEN /\ table' = SwapRemove(table, SelectInSeq(table, LAMBDA e : e.name = n))
          /\ IF n \in rows THEN Commit(db \ {n}) ELSE UNCHANGED <<db, rows>>
     ELSE UNCHANGED <<table, db, rows>>

(* The first loop of vty_refresh_aliases: for every row the first entry    *)
(* with its name that does not bear the new count yet receives it; rows    *)
(* without one are appended, in the order in which they are met.           *)
Unmarked(n, count) ==
  {i \in DOMAIN table : table[i].name = n /\ table[i].count # count}

Mark(count, r) ==
  LET first == {Min(Unmarked(n, count)) : n \in {m \in r : Unmarked(m, count) # {}}}
      kept  == [i \in DOMAIN table |->
                  IF i \in first THEN [table[i] EXCEPT !.count = count] ELSE table[i]]
      new   == {[name |-> n, count |-> count] : n \in {m \in r : Unmarked(m, count) = {}}}
  IN  {kept \o s : s \in SetToSeqs(new)}

(* The second loop: entries without the new count are removed, and the one *)
(* that is swapped in for them is not looked at.                           *)
Sweep_FromOne(t, count) ==
  LET pass[i \in 0..Len(t)] ==
        IF i <= 1 THEN t
        ELSE LET u == pass[i - 1]
             IN  IF i <= Len(u) /\ u[i].count # count THEN SwapRemove(u, i) ELSE u
  IN  pass[Len(t)]

Sweep(t, count) ==
  LET pass[i \in 0..Len(t)] ==
        IF i = 0 THEN t
        ELSE LET u == pass[i - 1]
             IN  IF i <= Len(u) /\ u[i].count # count THEN SwapRemove(u, i) ELSE u
  IN  pass[Len(t)]

(* The poll thread: ovsdb_idl_run and vty_refresh_aliases.                 *)
Refresh ==
  LET count == (refresh + 1) % Wrap
  IN  /\ refresh' = count /\ rows' = db
      /\ \E t \in Mark(count, db) : table' = Sweep(t, count)
      /\ UNCHANGED <<db, ops>>

(* Other sessions create and delete aliases, within the same limit.        *)
OtherSession ==
  /\ UserOp
  /\ \E n \in Names :
       \/ Cardinality(db) < MaxAliases /\ db' = db \union {n}
       \/ db' = db \ {n}
  /\ UNCHANGED <<table, refresh, rows>>

Next ==
  \/ \E n \in Names : CreateAlias(n) \/ DeleteAlias(n)
  \/ Refresh \/ OtherSession

Spec == Init /\ [][Next]_vars

(* poll_block of the poll thread returns at least every                    *)
(* TMOUT_POLL_INTERVAL seconds.                                            *)
FairSpec == Spec /\ WF_vars(Refresh)
-----------------------------------------------------------------------------
TypeOK ==
  /\ table \in Seq(Entry) /\ refresh \in 0..(Wrap - 1)
  /\ db \in SUBSET Names /\ rows \in SUBSET Names /\ ops \in 0..MaxOps

NamesOf(t) == {t[i].name : i \in DOMAIN t}

(* After a refresh every alias of the database can be executed: removing   *)
(* stale entries by swapping, in whatever order rows are met, never loses  *)
(* a live one.                                                             *)
RefreshCovers == [][refresh' # refresh => rows' \subseteq NamesOf(table')]_vars

(* When users pause, the array comes to hold exactly the aliases of the    *)
(* database, each once, whatever commits failed before.                    *)
InLine == NamesOf(table) = db /\ Len(table) = Cardinality(db)

Converges == <>[]InLine

(* "Alias command name can not be same as an already existing token"       *)
AliasNamesDiffer ==
  \A i, j \in DOMAIN table : table[i].name = table[j].name => i = j

(* "Max number of aliases supported exceeded"                              *)
TableFits == Len(table) <= MaxAliases
=============================================================================
