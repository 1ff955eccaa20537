-------------------------------- MODULE Batch --------------------------------
(***************************************************************************)
(* What a caller of common.Parallelize relies on when it ranges over the   *)
(* results: every value of the batch is handed over at most once, in no    *)
(* particular order, and the range ends by itself only after all of them;  *)
(* the caller may also leave the range at a failed result.                *)
(***************************************************************************)
EXTENDS Naturals

CONSTANTS N,        \* length of the batch; a value is its index
          Failing   \* the values whose result carries an error

VARIABLES todo,    \* values whose result the caller has not seen
          leaving  \* "no", "early" or "complete"

Init == todo = 1..N /\ leaving = "no"

Receive(v) ==
    /\ leaving = "no"
    /\ v \in todo
    /\ todo' = todo \ {v}
    /\ leaving' \in IF v \in Failing THEN {"early", "no"} ELSE {"no"}

Complete ==
    /\ leaving = "no"
    /\ todo = {}
    /\ leaving' = "complete"
    /\ UNCHANGED todo

Next == (\E v \in 1..N : Receive(v)) \/ Complete

Spec == Init /\ [][Next]_<<todo, leaving>>
==============================================================================
