--------------------------- MODULE TimerContract ---------------------------
(***************************************************************************)
(* What the timer service promises the owner of a timer, with no heap, no  *)
(* clock and no thread: a timer is armed, runs, and is armed again or      *)
(* released; once revoked it never starts again; its context is released   *)
(* exactly once and never while the timer is armed or running.             *)
(***************************************************************************)
CONSTANT Timers

VARIABLES state,    \* "new", "armed", "running", "releasing" or "released"
          revoked   \* the timers cancelled so far

vars == <<state, revoked>>

Init == /\ state = [t \in Timers |-> "new"]
        /\ revoked = {}

Move(t, from, to) == /\ state[t] = from
                     /\ state' = [state EXCEPT ![t] = to]

Arm(t) == Move(t, "new", "armed") /\ UNCHANGED revoked

Revoke(t) == /\ state[t] # "new"
             /\ revoked' = revoked \cup {t}
             /\ UNCHANGED state

Start(t) == /\ t \notin revoked
            /\ Move(t, "armed", "running")
            /\ UNCHANGED revoked

Rearm(t) == /\ t \notin revoked
            /\ Move(t, "running", "armed")
            /\ UNCHANGED revoked

Finish(t) == Move(t, "running", "releasing") /\ UNCHANGED revoked

Drop(t) == /\ t \in revoked
           /\ Move(t, "armed", "releasing")
           /\ UNCHANGED revoked

Release(t) == Move(t, "releasing", "released") /\ UNCHANGED revoked

Next == \E t \in Timers : \/ Arm(t)
                          \/ Revoke(t)
                          \/ Start(t)
                          \/ Rearm(t)
                          \/ Finish(t)
                          \/ Drop(t)
                          \/ Release(t)

Spec == Init /\ [][Next]_vars
=============================================================================
