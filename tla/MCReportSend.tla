---------------------------- MODULE MCReportSend ----------------------------
(***************************************************************************)
(* Model checking of ReportSend: the DR report (one domain) and the EoS    *)
(* report (two domains).                                                   *)
(***************************************************************************)
EXTENDS ReportSend

DR == <<"dr">>
EoS == <<"eos_os", "eos_db">>
=============================================================================
