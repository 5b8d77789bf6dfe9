--------------------------- MODULE MCRedfishSession ---------------------------
(* Instances of RedfishSession for TLC, and further properties. *)
EXTENDS RedfishSession

(* Every call returns, however long answers are lost and sessions dropped    *)
(* (redfish_client.py:865-920).                                              *)
CallsReturn == pc # "idle" ~> pc = "idle"

(* "Re-login, retry the command and expect to recover."                      *)
(* (redfish_client.py:899): a command that was answered is not a failure.    *)
RecoveredCommandSucceeds == pc = "return" /\ reply = "ok" => ret = "ok"
===============================================================================
