-------------------------- MODULE MCRemoteChannel --------------------------
(* Instances of RemoteChannel for TLC. *)
EXTENDS RemoteChannel

NoneEach == [e \in Ends |-> 0]
OneFromServer == [e \in Ends |-> IF e = "server" THEN 1 ELSE 0]
TwoFromServer == [e \in Ends |-> IF e = "server" THEN 2 ELSE 0]
AllOnServer == [t \in Threads |-> "server"]
=============================================================================
