--------------------------- MODULE MCVtyshThreads ---------------------------
(* One command of every sort that cmd_execute_command_real tells apart.    *)
EXTENDS VtyshThreads

MC(nolock, nonidl, daemon, exempt, tok, kind) ==
  [nolock |-> nolock, nonidl |-> nonidl, daemon |-> daemon,
   exempt |-> exempt, tok |-> tok, kind |-> kind]

(* DEFUNSH: configure terminal; exit, end                                  *)
MCConfTerm == MC(FALSE, FALSE, TRUE, FALSE, "plain", "mode")
MCExit     == MC(FALSE, TRUE, TRUE, TRUE, "plain", "exit")
MCEnd      == MC(FALSE, TRUE, TRUE, TRUE, "plain", "mode")
(* DEFUN: hostname, interface IFNAME, show interface, a PORT argument      *)
MCConfig   == MC(FALSE, FALSE, FALSE, FALSE, "plain", "config")
MCIfConfig == MC(FALSE, FALSE, FALSE, FALSE, "ifname", "config")
MCShow     == MC(FALSE, FALSE, FALSE, FALSE, "ifname", "show")
MCShowPort == MC(FALSE, FALSE, FALSE, FALSE, "port", "show")
MCContext  == MC(FALSE, TRUE, FALSE, FALSE, "plain", "mode")
MCBash     == MC(FALSE, FALSE, FALSE, FALSE, "plain", "shell")
(* DEFUN_NOLOCK: start-shell, a NON_IDL one, and an alias                  *)
MCShell    == MC(TRUE, FALSE, FALSE, FALSE, "plain", "shell")
MCNonIdl   == MC(TRUE, TRUE, FALSE, FALSE, "plain", "shell")
MCAlias    == MC(TRUE, FALSE, FALSE, FALSE, "plain", "alias")

AllCmds ==
  {MCConfTerm, MCExit, MCEnd, MCConfig, MCIfConfig, MCShow, MCShowPort,
   MCContext, MCBash, MCShell, MCNonIdl, MCAlias}

SomeCmds == {MCConfTerm, MCExit, MCIfConfig, MCShow, MCShell, MCAlias}
=============================================================================
