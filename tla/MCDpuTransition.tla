---------------------------- MODULE MCDpuTransition ----------------------------
(* Instances of DpuTransition for TLC, and further properties. *)
EXTENDS DpuTransition

(* The defaults, 300, 180, 240 and 60 s, in steps of 100 s, rounded.       *)
CodeTimeouts == [startup |-> 3, shutdown |-> 2, reboot |-> 2, halt_services |-> 1]

(* "If the flag was already set but has timed out, the function resets the   *)
(* flag and returns True. Returns False in all other cases."                 *)
(* (module_base.py:620-621): transitions that are within their own           *)
(* allowances exclude each other.                                            *)
OwnAllowanceExcludes ==
    \A p, q \in Admins :
        /\ ~Overrun
        /\ InTransition(p) /\ mine[p] <= Timeout[op[p]]
        /\ InTransition(q) /\ mine[q] <= Timeout[op[q]]
        => p = q

(* Every call of set_admin_state_gracefully returns, although the daemon may *)
(* never answer (module_base.py:411-465, 590-602) - unless a watcher hangs   *)
(* with the lock in its hands, see WatcherCallsReturn.                       *)
AdminCallsReturn ==
    \A p \in Admins : pc[p] # "idle" ~> \/ pc[p] = "idle"
                                        \/ \E w \in Watchers : pc[w] = "nested"

(* "Returns: bool: Returns True if the flag is set, False otherwise."        *)
(* (module_base.py:694): the call returns.                                   *)
WatcherCallsReturn == \A p \in Watchers : pc[p] # "idle" ~> pc[p] = "idle"
===============================================================================
