---------------------------- MODULE MC_PortForward ----------------------------
(***************************************************************************)
(* PortForward with two local clients and one outage of the pod: enough    *)
(* for a connection to follow another on a stream and to find it dead.     *)
(***************************************************************************)
EXTENDS PortForward
================================================================================
