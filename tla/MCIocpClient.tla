---------------------------- MODULE MCIocpClient ----------------------------
(* Instances of IocpClient for TLC. *)
EXTENDS IocpClient
=============================================================================
