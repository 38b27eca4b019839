---- MODULE MCRfPipeMac ----
(* Packets from above with every mix of delays and air times, and enough   *)
(* time for all of them to leave; then receptions and reports beside one   *)
(* packet.                                                                 *)
EXTENDS RfPipeMac

MCMacSettings ==
    {[tokens |-> {1, 3}, radiometric |-> FALSE, delays |-> {0, 2},
      durations |-> {1, 2}, packets |-> 3, receptions |-> 0, arrivals |-> 3, time |-> 13],
     [tokens |-> {1}, radiometric |-> TRUE, delays |-> {1},
      durations |-> {1}, packets |-> 1, receptions |-> 2, arrivals |-> 1, time |-> 3]}
============================
