------------------------------ MODULE CycleFeed ------------------------------
(***************************************************************************)
(* What the interface IncrementalBazel promises a host (runner/pkg/ibp/    *)
(* protocol.go): cycles are issued one at a time, the watcher handles only *)
(* the last one issued and none twice, and a cycle that succeeds has been  *)
(* handled.  A cycle may also fail, handled or not.  The cycles handled    *)
(* are kept in order and with repetition, so that handling one again is a  *)
(* step, and one that is not allowed.                                      *)
(***************************************************************************)
EXTENDS Naturals, Sequences, SequencesExt

CONSTANT MaxCycle   \* how many cycles a host issues

VARIABLES issued,   \* id of the last cycle issued, or 0
          handled,  \* ids of the cycles the watcher has handled, in order
          result    \* of the last cycle: "pending", "nil" or "error"

feedVars == <<issued, handled, result>>

Init == issued = 0 /\ handled = <<>> /\ result = "nil"

\* A cycle that cannot be sent fails at once.
Issue ==
    /\ result # "pending"
    /\ issued < MaxCycle
    /\ issued' = issued + 1
    /\ result' \in {"pending", "error"}
    /\ UNCHANGED handled

Handle ==
    /\ issued \notin ToSet(handled)
    /\ handled' = Append(handled, issued)
    /\ UNCHANGED <<issued, result>>

Succeed ==
    /\ result = "pending"
    /\ issued \in ToSet(handled)
    /\ result' = "nil"
    /\ UNCHANGED <<issued, handled>>

Fail ==
    /\ result = "pending"
    /\ result' = "error"
    /\ UNCHANGED <<issued, handled>>

Next == Issue \/ Handle \/ Succeed \/ Fail

Spec == Init /\ [][Next]_feedVars
==============================================================================
