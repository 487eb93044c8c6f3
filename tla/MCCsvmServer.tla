----------------------------- MODULE MCCsvmServer -----------------------------
(* CsvmServer with a few calls, some of them at the same time: enough to fall  *)
(* one response behind, to lose the VM under a caller, and to use up the       *)
(* restarts of the supervisor.                                                 *)
EXTENDS CsvmServer

=============================================================================
