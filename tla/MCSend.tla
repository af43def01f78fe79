------------------------------- MODULE MCSend -------------------------------
(* The solver of Send and Sync on the programs of SendPrograms.             *)
EXTENDS SendSync, SendPrograms
=============================================================================
