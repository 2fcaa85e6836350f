-------------------------- MODULE MCDaemonSession --------------------------
(***************************************************************************)
(* DaemonSession on a small instance, with the properties its run checks.  *)
(***************************************************************************)
EXTENDS DaemonSessionProps
=============================================================================
