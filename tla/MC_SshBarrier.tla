---------------------------- MODULE MC_SshBarrier ----------------------------
(* Instance of SshBarrier for TLC: the containers are model values. *)
EXTENDS SshBarrier
=============================================================================
