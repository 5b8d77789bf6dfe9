------------------------------ MODULE MCFwUpgrade ------------------------------
(* Properties of FwUpgrade that its runs check besides those stated there. *)
EXTENDS FwUpgrade

(* Every call returns, whatever the module does (bounded polls, a loop whose *)
(* remaining decreases).                                                     *)
CallsReturn == pc # "idle" ~> pc = "idle"

(* "This function returns True if firmware run successfully completes."      *)
(* (cmis.py:2016)                                                            *)
RunTrueMeansRan == call = "run" /\ ret = "true" => "run" \in done
===============================================================================
