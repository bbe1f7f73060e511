------------------------------ MODULE CliModes ------------------------------
(***************************************************************************)
(* What a user may rely on: the modes of the command line and how command  *)
(* lines move between them.  Every line takes one step; a line that is     *)
(* reported as failed leaves the mode alone.                               *)
(***************************************************************************)

CONSTANTS
  Modes,      \* all modes
  Above,      \* the modes below which "configure" leads, without CONFIG
  Parent,     \* the parent of each mode of Above
  Commands    \* commands: [kind, at, to]

VARIABLES
  mode,       \* the mode the prompt shows
  status      \* of the last line: "ok" or "error"

vars == <<mode, status>>

(* The tree is two levels deep.                                            *)
Ancestors(m) ==
  IF m \in Above
  THEN {Parent[m]} \union (IF Parent[m] \in Above THEN {Parent[Parent[m]]} ELSE {})
  ELSE {}

Init == mode \in {"VIEW", "ENABLE"} /\ status = "ok"

Fail == status' = "error" /\ mode' = mode

Stay == status' = "ok" /\ mode' = mode

(* exit, or a command of an ancestor that succeeded                        *)
Up == status' = "ok" /\ mode' \in Ancestors(mode)

(* An "eager" command may have entered its mode although it failed.        *)
Enter ==
  \E c \in Commands :
    /\ \/ c.kind \in {"enter", "eager"} /\ c.at \cap ({mode} \union Ancestors(mode)) # {}
       \/ c.kind = "goto" /\ mode \in c.at
    /\ mode' = c.to
    /\ status' = "ok" \/ (c.kind = "eager" /\ mode \in c.at /\ status' = "error")

(* end, or the SIGTSTP key                                                 *)
End == status' = "ok" /\ mode' = IF mode = "VIEW" THEN mode ELSE "ENABLE"

Privilege ==
  /\ status' = "ok"
  /\ <<mode, mode'>> \in {<<"VIEW", "ENABLE">>, <<"ENABLE", "VIEW">>, <<"ENABLE", "CONFIG">>}

ExitVrrp == status' = "ok" /\ mode = "VRRP_IF" /\ mode' = "INTERFACE"

Next == Fail \/ Stay \/ Up \/ Enter \/ End \/ Privilege \/ ExitVrrp

Spec == Init /\ [][Next]_vars
=============================================================================
