---------------------------- MODULE CommandChannel ----------------------------
(***************************************************************************)
(* What a command channel to a microcontroller owes its callers, whatever  *)
(* registers and polls it is made of.  A call ends with "ok" or with an    *)
(* error.  Its command is carried out at most once.  After "ok" it was     *)
(* carried out, before the call ended; after an error nobody knows: it may *)
(* have been, or be so yet, until the caller starts another call.          *)
(***************************************************************************)
CONSTANT Callers

VARIABLES
    calling,  \* the callers whose call has not ended
    ran,      \* those whose command was carried out for their latest call
    good      \* those whose latest call ended with "ok"

chVars == <<calling, ran, good>>

Init == calling = {} /\ ran = {} /\ good = {}

Begin(c) ==
    /\ c \notin calling
    /\ calling' = calling \cup {c}
    /\ ran' = ran \ {c}
    /\ good' = good \ {c}

CarryOut(c) ==
    /\ c \notin ran /\ c \notin good
    /\ ran' = ran \cup {c}
    /\ UNCHANGED <<calling, good>>

End(c, ok) ==
    /\ c \in calling
    /\ ok => c \in ran
    /\ calling' = calling \ {c}
    /\ good' = IF ok THEN good \cup {c} ELSE good
    /\ UNCHANGED ran

Next == \E c \in Callers : Begin(c) \/ CarryOut(c) \/ \E ok \in BOOLEAN : End(c, ok)

Spec == Init /\ [][Next]_chVars
===============================================================================
