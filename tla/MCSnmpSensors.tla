--------------------------- MODULE MCSnmpSensors ---------------------------
(***************************************************************************)
(* Two sensors: what happens to one while the other fails, and an order.   *)
(***************************************************************************)
EXTENDS SnmpSensors

CONSTANTS s1, s2

MCSensors == {s1, s2}
MCOrder == <<s1, s2>>
=============================================================================
