----------------------------- MODULE OvsdbCommand -----------------------------
(***************************************************************************)
(* The frame every configuration command of vtysh runs in: one transaction *)
(* of the OVSDB client library, opened by START_DB_TXN, and closed by       *)
(* exactly one of END_DB_TXN, ERRONEOUS_DB_TXN and ABORT_DB_TXN.  A command *)
(* reads the local copy of the database, and its writes become visible only *)
(* when the commit succeeds.  The modules that extend this one say what the *)
(* tables hold and what each command does to them.                          *)
(*                                                                          *)
(* The switch has been configured (ovsdb_cfg_initialized), so               *)
(* cli_do_config_start does not refuse; module VtyshThreads has the other   *)
(* case.                                                                    *)
(***************************************************************************)
EXTENDS Naturals, FiniteSets

VARIABLES
    db,         \* the tables the commands of the extending module work on
    ret,        \* what the last command returned to the shell
    vtysh       \* "ready", "txn" (a transaction was left open) or "dead"

cmdVars == <<db, ret, vtysh>>

Results == {"CMD_SUCCESS", "CMD_WARNING", "CMD_OVSDB_FAILURE"}

(* A command ends: its result, the tables, the transaction closed. *)
Finish(result, tables) ==
    /\ ret' = result
    /\ db' = tables
    /\ vtysh' = "ready"

(* END_DB_TXN: the server takes the writes or refuses them. *)
END_DB_TXN(tables) ==
    \/ Finish("CMD_SUCCESS", tables)
    \/ Finish("CMD_WARNING", db)

(* ERRONEOUS_DB_TXN: abort and report a warning. *)
ERRONEOUS_DB_TXN == Finish("CMD_WARNING", db)

(* ABORT_DB_TXN: abort, and report success. *)
ABORT_DB_TXN == Finish("CMD_SUCCESS", db)

(* The commit's status is not looked at: success, whatever happened. *)
EndUnreported(tables) ==
    Finish("CMD_SUCCESS", tables) \/ Finish("CMD_SUCCESS", db)

(* The commit of the commands that do not use the macros: its failure is
   CMD_OVSDB_FAILURE. *)
cli_do_config_finish(tables) ==
    \/ Finish("CMD_SUCCESS", tables)
    \/ Finish("CMD_OVSDB_FAILURE", db)

(* A return between START_DB_TXN and any of the three above. *)
ReturnWithoutEnd(result) ==
    /\ ret' = result
    /\ vtysh' = "txn"
    /\ UNCHANGED db

(* A NULL or an uninitialized pointer is followed. *)
Crash ==
    /\ vtysh' = "dead"
    /\ UNCHANGED <<db, ret>>

(***************************************************************************)
(* START_DB_TXN, then the rest of the command.  The client library allows  *)
(* one transaction at a time and asserts it: a command that finds another   *)
(* one open ends the process.                                               *)
(***************************************************************************)
START_DB_TXN(rest) ==
    \/ vtysh = "ready" /\ rest
    \/ vtysh = "txn" /\ Crash

(* A command that returns before it opens a transaction. *)
Refuse(result) ==
    /\ vtysh # "dead"
    /\ ret' = result
    /\ UNCHANGED <<db, vtysh>>

(* Maps of the database: a partial function, a key added or removed. *)
Put(map, key, value) ==
    [k \in DOMAIN map \cup {key} |-> IF k = key THEN value ELSE map[k]]

Drop(map, key) == [k \in DOMAIN map \ {key} |-> map[k]]

EmptyMap == [k \in {} |-> {}]
===============================================================================
