---- MODULE MCRuntimeConfiguration ----
(* Two sessions; of the parameters, subid cannot be modified, and the      *)
(* component rejects a delay of 2, before or after it applies a rate.      *)
EXTENDS RuntimeConfiguration

CONSTANTS s1, s2, rate, delay, subid

MCAcceptable == (Params \X Values) \ {<<delay, 2>>}
MCInitial == [p \in Params |-> 1]
=============================
