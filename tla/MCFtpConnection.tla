--------------------------- MODULE MCFtpConnection ---------------------------
(***************************************************************************)
(* Servers for FtpConnection: the full feature list the client asks about, *)
(* the usual one, and a server that announces nothing.                     *)
(***************************************************************************)
EXTENDS FtpConnection

MCOperations == {"deliver", "rotate", "list"}
MCFeatureSets == {{"MLST", "PRET", "UTF8"}, {"MLST"}, {}}
=============================================================================
