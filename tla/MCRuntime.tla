------------------------------ MODULE MCRuntime ------------------------------
(***************************************************************************)
(* Instances of Runtime for TLC: a mailer that asks for errors, a webhook  *)
(* that asks for everything from info on.                                  *)
(***************************************************************************)
EXTENDS Runtime, TLC

CONSTANTS mail, hook

MCNotifiers == {mail, hook}
MCLevel == [n \in MCNotifiers |-> IF n = mail THEN 2 ELSE 4]
MCSmtp == {mail}
MCAllCommands == {"start", "server", "other"}
MCStart == {"start"}
MCEventLevels == {2, 4, 5}
=============================================================================
