---------------------------- MODULE MCAsynDriver ----------------------------
(* Instances of AsynDriver for TLC. *)
EXTENDS AsynDriver
=============================================================================
