--------------------------- MODULE MCStatusNotify ---------------------------
(***************************************************************************)
(* One PSU and one fan: a pass treats its units one by one, and the two    *)
(* kinds interleave.  A driver may report any flags of an absent unit: the *)
(* one of the Ingrasys S9100 says that an absent PSU has failed.           *)
(***************************************************************************)
EXTENDS StatusNotify

CONSTANTS psu1, fan1

MCPsus == {psu1}
MCFans == {fan1}
MCPsuStatuses == SUBSET Flags
MCFanStatuses == SUBSET {"PRESENT", "FAILED"}
=============================================================================
