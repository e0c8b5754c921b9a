------------------------------- MODULE MCDashboard -------------------------------
(* The instance of Dashboard that is checked: as declared, the constants are     *)
(* given values in the configuration.                                            *)
EXTENDS Dashboard
=============================================================================
