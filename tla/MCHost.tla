------------------------------- MODULE MCHost -------------------------------
(***************************************************************************)
(* Two processes on a host with a storage beside the local one.  The last  *)
(* job has the name of a group and is refused when it is listed.           *)
(***************************************************************************)
EXTENDS Host, TLC

CONSTANTS p1, p2

MCProcesses == {p1, p2}

MCConnections == {"ftp"}

MCConfig ==
    << [name |-> "db", group |-> "databases", storages |-> {"local"}],
       [name |-> "www", group |-> "files", storages |-> {"local", "ftp"}],
       [name |-> "external", group |-> "external", storages |-> {"local"}] >>

MCCommands == (p1 :> {"all", "ls", "update"}) @@ (p2 :> {"www", "test", "update"})

\* One process that runs the jobs of one group.
OneCommands == (p1 :> {"files"})

OneProcess == {p1}
=============================================================================
