--------------------------- MODULE MCRemoteClient ---------------------------
(* RemoteClient for TLC, with the limits of the code. *)
EXTENDS RemoteClient
=============================================================================
