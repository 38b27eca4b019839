---- MODULE MCTdmaMac ----
(* Two instances.  Transmitting: patterns that differ in where, whether    *)
(* and how often they transmit, two of them of the same length so that one *)
(* can update the other.  Receiving: slots long enough for frames to       *)
(* overlap, beside the periodic timers.                                    *)
EXTENDS TdmaMac

MCTransmitting ==
    [duration |-> 1, schedules |-> {<<"tx", "rx">>, <<"rx", "tx">>, <<"tx">>, <<"idle">>},
     periods |-> <<>>, events |-> 2, frames |-> 0, time |-> 4]

MCReceiving ==
    [duration |-> 2, schedules |-> {<<"rx", "tx">>, <<"rx", "idle">>},
     periods |-> [check |-> 2, status |-> 3], events |-> 1, frames |-> 2, time |-> 4]

MCSettings == {MCTransmitting, MCReceiving}
=============================
