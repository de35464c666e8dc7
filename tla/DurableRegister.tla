-------------------------- MODULE DurableRegister --------------------------
(***************************************************************************)
(* What a file written through state.WriteFile promises its owner: readers *)
(* see whole values only, an acknowledged value survives a power failure,  *)
(* and a failed or interrupted write leaves the old value or the new one.  *)
(***************************************************************************)
CONSTANTS Value,    \* what the file may hold
          Idle      \* no write in progress

VARIABLES val,      \* what a reader sees
          may,      \* the values a power failure now may leave behind
          pending,  \* the value being written, or Idle
          result    \* what the last write returned

vars == <<val, may, pending, result>>

Init == /\ val \in Value
        /\ may = {val}
        /\ pending = Idle
        /\ result = "none"

Begin == /\ pending = Idle
         /\ pending' \in Value
         /\ result' = "none"
         /\ UNCHANGED <<val, may>>

\* The new value becomes visible at one instant.
Take == /\ pending # Idle
        /\ val' = pending
        /\ may' = may \cup {pending}
        /\ UNCHANGED <<pending, result>>

\* The write returns without error: from now on nothing older can come back.
Acknowledge == /\ pending # Idle
               /\ val = pending
               /\ may' = {pending}
               /\ pending' = Idle
               /\ result' = "ok"
               /\ UNCHANGED val

\* The write returns an error.
Fail == /\ pending # Idle
        /\ pending' = Idle
        /\ result' = "error"
        /\ UNCHANGED <<val, may>>

\* The owner dies: it learns nothing of a write in progress.
Crash == /\ pending' = Idle
         /\ result' = "none"
         /\ UNCHANGED <<val, may>>

PowerLoss == /\ val' \in may
             /\ may' = {val'}
             /\ pending' = Idle
             /\ result' = "none"

Next == Begin \/ Take \/ Acknowledge \/ Fail \/ Crash \/ PowerLoss

Spec == Init /\ [][Next]_vars
=============================================================================
