----------------------------- MODULE MCIpcServer -----------------------------
(* Instances of IpcServer for TLC: the cfg files give the bounds. *)
EXTENDS IpcServer
=============================================================================
