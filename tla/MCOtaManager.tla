---- MODULE MCOtaManager ----
(* One packet in each of two lives of the sender, under the same number.   *)
(* With parts of two bytes the long packet needs three datagrams, cut      *)
(* across its sections, and the short one a single datagram.               *)
EXTENDS OtaManager

MCShapes == {[event |-> 1, control |-> 2, data |-> 2],
             [event |-> 0, control |-> 1, data |-> 1]}
=============================
