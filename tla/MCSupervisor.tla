---------------------------- MODULE MCSupervisor ----------------------------
(***************************************************************************)
(* A small instance of Supervisor for TLC.                                 *)
(***************************************************************************)
EXTENDS Supervisor, TLC

CONSTANT w1

\* DNMGR_SERVER_IPs: the manager that forks and one on another host.
OwnThenRemote == <<"own", "remote">>
=============================================================================
