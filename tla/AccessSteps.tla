------------------------------ MODULE AccessSteps ------------------------------
(***************************************************************************)
(* The vocabulary of the drivers that work on registers: a call of theirs  *)
(* is a program of accesses.  A register is a function from its fields     *)
(* (bits, lanes or ends of a cable) to numbers; what an access writes or   *)
(* expects is such a function too, of the fields it is about.              *)
(***************************************************************************)
EXTENDS Naturals, Sequences

(* A function of one argument, and one function over another: those of the   *)
(* module TLC, which the provers cannot expand.                              *)
a :> b == [x \in {a} |-> b]
f @@ g == [x \in DOMAIN f \cup DOMAIN g |-> IF x \in DOMAIN f THEN f[x] ELSE g[x]]

(* fails: what the loss of the access does, "stop" the call with an error or *)
(* "ignore" it; what is kept in memory is "never" lost.                      *)
Access(do, reg, val) == [do |-> do, reg |-> reg, val |-> val, fails |-> "stop"]

Put(reg, val) == Access("put", reg, val)        \* writes fields
Merge(reg, val) == Access("merge", reg, val)    \* writes back what was read last, fields replaced
Aim(reg, v) == Access("aim", reg, 0 :> v)       \* the device applies it to the field in register "target"
Start(reg, v) == Access("start", reg, 0 :> v)   \* starts a measurement
Get(reg) == Access("get", reg, <<>>)
Need(reg, val) == Access("need", reg, val)      \* the call ends with an error unless the fields are so
Await(reg, val) == Access("await", reg, val)    \* polls until they are, or gives up
Lock == Access("lock", "none", <<>>)
Unlock == Access("unlock", "none", <<>>)
Ignoring(step) == [step EXCEPT !.fails = "ignore"]
Own(step) == [step EXCEPT !.fails = "never"]

(* Of a measurement: field 0 is "done", 1 the result, 2 "under way".         *)
Done == 0 :> 1
NoResult == 9

One(v) == 0 :> v
All(S, v) == [s \in S |-> v]

(* What a call that returns success promises: nothing, that fields of a      *)
(* register are set and its other fields left alone, or the result of a      *)
(* measurement of an end (or counter).                                       *)
Goal(kind, reg, val) == [kind |-> kind, reg |-> reg, val |-> val]
Nothing == Goal("nothing", "none", <<>>)
IsSet(reg, val) == Goal("set", reg, val)
Measured(reg, v) == Goal("measured", reg, One(v))

Program(api, todo, goal) == [api |-> api, todo |-> todo, goal |-> goal]
Reading(api, reg) == Program(api, <<Get(reg)>>, Nothing)
Writing(api, reg, val) == Program(api, <<Put(reg, val)>>, IsSet(reg, val))
Raising(api) == Program(api, <<Access("raise", "none", <<>>)>>, Nothing)
===============================================================================
