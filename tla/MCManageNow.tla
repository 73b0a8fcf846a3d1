---------------------------- MODULE MCManageNow ----------------------------
(***************************************************************************)
(* The four management entries with the rates of the code, one tick being  *)
(* half a second.                                                          *)
(***************************************************************************)
EXTENDS ManageNow

MCEntries == {"Fans", "LEDs", "PsusNotify", "FansNotify"}
MCRate == [e \in MCEntries |-> CASE e = "Fans" -> 20
                                 [] e = "LEDs" -> 4
                                 [] OTHER      -> 2]

\* The hypothesis under which Punctual is proved holds of these rates.
ASSUME RatesAssumption == Schedulable
=============================================================================
