--------------------------- MODULE MCHostFramework ---------------------------
(* Three pins for two channels. *)
EXTENDS HostFramework

MCPin == 0..2

==============================================================================
