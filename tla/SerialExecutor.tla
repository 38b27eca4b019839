--------------------------- MODULE SerialExecutor ---------------------------
(***************************************************************************)
(* What a component may rely on from its queue: calls that were accepted   *)
(* are executed one at a time, in the order they were accepted and at most *)
(* once each; the only other way out of the queue is to be discarded, and  *)
(* what is discarded is the oldest part of the queue.  Nothing executes    *)
(* while the executor is closed.                                           *)
(***************************************************************************)
EXTENDS Naturals, Sequences

CONSTANT Calls

VARIABLES pending,   \* calls accepted and not yet begun, oldest first
          current,   \* the set of calls being executed
          phase      \* "open", "closing" or "closed"

vars == <<pending, current, phase>>

Init == /\ pending = <<>>
        /\ current = {}
        /\ phase = "closed"

Accept(c) == /\ phase = "open"
             /\ pending' = Append(pending, c)
             /\ UNCHANGED <<current, phase>>

Begin == /\ phase # "closed"
         /\ current = {}
         /\ pending # <<>>
         /\ current' = {Head(pending)}
         /\ pending' = Tail(pending)
         /\ UNCHANGED phase

End == /\ phase # "closed"
       /\ current # {}
       /\ current' = {}
       /\ UNCHANGED <<pending, phase>>

Discard(n) == /\ phase = "closing"
              /\ current = {}
              /\ pending' = SubSeq(pending, n + 1, Len(pending))
              /\ UNCHANGED <<current, phase>>

Open == /\ phase = "closed"
        /\ phase' = "open"
        /\ UNCHANGED <<pending, current>>

Closing == /\ phase' = "closing"
           /\ UNCHANGED <<pending, current>>

Close == /\ phase = "closing"
         /\ current = {}
         /\ phase' = "closed"
         /\ UNCHANGED <<pending, current>>

Next == \/ \E c \in Calls : Accept(c)
        \/ Begin
        \/ End
        \/ \E n \in 0..Len(pending) : Discard(n)
        \/ Open
        \/ Closing
        \/ Close

Spec == Init /\ [][Next]_vars
=============================================================================
