---------------------------- MODULE MCTdmaQueues ----------------------------
(***************************************************************************)
(* The queues and the reassembly of the TDMA radio model, on instances of  *)
(* two kinds.  Queueing: the sender's side, with flow control,             *)
(* aggregation, fragmentation and strict queues, each with the others on   *)
(* and off.  Reassembling: both sides of one queue, with a sender that     *)
(* restarts.  Variables that TdmaMac has too are named apart from its own, *)
(* so that TdmaMacProofs can speak of both.                                *)
(***************************************************************************)
EXTENDS Integers

CONSTANTS Capacity, Threshold, Depth, Tokens, FragmentTimeout, Modes

VARIABLES mode, sending, available_tokens, queues, sequence, filled, items, air, unpacking,
          reassembly, clock, life, early, left, delivered

Q == INSTANCE TdmaQueues WITH started <- sending, slot <- filled, now <- clock

ASSUME QueuesAssumption == Q!ConstantsOK

MCQueueing(flow, aggregate, fragment, strict) ==
    [flow |-> flow, aggregate |-> aggregate, fragment |-> fragment, strict |-> strict,
     classes |-> {0, 1}, nems |-> {7, 8}, mine |-> {}, sizes |-> {1, 3},
     packets |-> 3, lives |-> 1, time |-> 0]

MCReassembling ==
    [flow |-> FALSE, aggregate |-> TRUE, fragment |-> TRUE, strict |-> FALSE,
     classes |-> {0}, nems |-> {7}, mine |-> {7}, sizes |-> {1, 4},
     packets |-> 2, lives |-> 2, time |-> 2]

MCModes == {MCQueueing(f, a, ~f, a) : f \in BOOLEAN, a \in BOOLEAN}
           \cup {MCQueueing(TRUE, TRUE, TRUE, FALSE), MCReassembling}

QueuesSpec == Q!Spec

(* TdmaQueues!TokensKept and FinishedInOrder: the sender's queues neither  *)
(* lose a token nor a packet's turn.                                       *)
QueuesSound == Q!TokensKept /\ Q!FinishedInOrder

(* TdmaQueues!WholeOrMixed: what is passed up is exactly one packet, no    *)
(* fragment missing, repeated or foreign; or it is of two lives of the     *)
(* sender whose fragments followed each other within the timeout.          *)
ReassembledAsSent == Q!WholeOrMixed
=============================================================================
