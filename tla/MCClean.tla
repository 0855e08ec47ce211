------------------------------ MODULE MCClean ------------------------------
(***************************************************************************)
(* The clean-IP scan alone, for the port its configurations dial.          *)
(***************************************************************************)
EXTENDS CleanIpScan
=============================================================================
