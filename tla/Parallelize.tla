----------------------------- MODULE Parallelize -----------------------------
(***************************************************************************)
(* common/worker.go: a batch of values processed by at most MaxWorkerCount *)
(* goroutines between two channels, each buffered to the number of         *)
(* workers.  A sender fills the first channel and closes it; every worker  *)
(* takes a value, processes it and sends the result until the first        *)
(* channel is closed and empty; a closer waits for all workers and closes  *)
(* the second channel, over which the caller ranges.                       *)
(*                                                                         *)
(* Two kinds of callers exist: the Kotlin extension drains the range       *)
(* (language/kotlin/generate.go:48); the JavaScript extension leaves it at *)
(* the first failed result (language/js/generate.go:886-889).  So at a     *)
(* failed result the caller may leave or go on.                            *)
(***************************************************************************)
EXTENDS Naturals, Sequences, FiniteSets

CONSTANTS N,               \* len(values); a value is its index
          MaxWorkerCount,
          Failing          \* values whose result carries an error

ASSUME ParallelizeAssumption ==
    /\ N \in Nat
    /\ MaxWorkerCount \in Nat \ {0}
    /\ Failing \subseteq 1..N

VARIABLES sent,       \* how many values the sender has sent
          valuesCh,   \* [buf, closed]
          worker,     \* what each worker is doing, and with which value
          resultsCh,  \* [buf, closed]
          received,   \* the results the caller has seen, in order
          caller      \* "range", or how the caller left it

vars == <<sent, valuesCh, worker, resultsCh, received, caller>>

WorkerCount == LET w == 1 + N \div 2 IN IF w < MaxWorkerCount THEN w ELSE MaxWorkerCount
Worker == 1..WorkerCount
Item == 1..N

Channel == [buf : Seq(Item), closed : BOOLEAN]
Empty == [buf |-> <<>>, closed |-> FALSE]
WorkerPc == {"receive", "process", "send", "exited"}
Receiving == [pc |-> "receive", value |-> 0]

TypeOK ==
    /\ sent \in 0..N
    /\ valuesCh \in Channel /\ Len(valuesCh.buf) <= WorkerCount
    /\ worker \in [Worker -> [pc : WorkerPc, value : 0..N]]
    /\ resultsCh \in Channel /\ Len(resultsCh.buf) <= WorkerCount
    /\ received \in Seq(Item)
    /\ caller \in {"range", "early", "complete"}

Init ==
    /\ sent = 0
    /\ valuesCh = Empty
    /\ worker = [w \in Worker |-> Receiving]
    /\ resultsCh = Empty
    /\ received = <<>>
    /\ caller = "range"

\* The sender blocks while the channel is full.
SendValue ==
    /\ sent < N
    /\ Len(valuesCh.buf) < WorkerCount
    /\ sent' = sent + 1
    /\ valuesCh' = [valuesCh EXCEPT !.buf = Append(@, sent')]
    /\ UNCHANGED <<worker, resultsCh, received, caller>>

CloseValues ==
    /\ sent = N
    /\ ~valuesCh.closed
    /\ valuesCh' = [valuesCh EXCEPT !.closed = TRUE]
    /\ UNCHANGED <<sent, worker, resultsCh, received, caller>>

ReceiveValue(w) ==
    /\ worker[w].pc = "receive"
    /\ valuesCh.buf # <<>>
    /\ worker' = [worker EXCEPT ![w] = [pc |-> "process", value |-> Head(valuesCh.buf)]]
    /\ valuesCh' = [valuesCh EXCEPT !.buf = Tail(@)]
    /\ UNCHANGED <<sent, resultsCh, received, caller>>

\* Mutant of ExitWorker: the worker leaves whenever the channel is empty.
ExitWorkerOnEmpty(w) ==
    /\ worker[w].pc = "receive"
    /\ valuesCh.buf = <<>>
    /\ worker' = [worker EXCEPT ![w].pc = "exited"]
    /\ UNCHANGED <<sent, valuesCh, resultsCh, received, caller>>

\* The range over valuesCh ends once it is closed and empty.
ExitWorker(w) ==
    /\ worker[w].pc = "receive"
    /\ valuesCh.closed /\ valuesCh.buf = <<>>
    /\ worker' = [worker EXCEPT ![w].pc = "exited"]
    /\ UNCHANGED <<sent, valuesCh, resultsCh, received, caller>>

\* process(value), the caller's function.
Process(w) ==
    /\ worker[w].pc = "process"
    /\ worker' = [worker EXCEPT ![w].pc = "send"]
    /\ UNCHANGED <<sent, valuesCh, resultsCh, received, caller>>

\* Mutant of SendResult: the worker sends its result again after a wake-up.
SendResultTwice(w) ==
    /\ worker[w].pc = "send"
    /\ Len(resultsCh.buf) < WorkerCount
    /\ resultsCh' = [resultsCh EXCEPT !.buf = Append(@, worker[w].value)]
    /\ worker' \in {worker, [worker EXCEPT ![w] = Receiving]}
    /\ UNCHANGED <<sent, valuesCh, received, caller>>

\* Mutant of SendResult: the results channel is not bounded.
SendResultUnbounded(w) ==
    /\ worker[w].pc = "send"
    /\ resultsCh' = [resultsCh EXCEPT !.buf = Append(@, worker[w].value)]
    /\ worker' = [worker EXCEPT ![w] = Receiving]
    /\ UNCHANGED <<sent, valuesCh, received, caller>>

\* A worker blocks while the results channel is full.
SendResult(w) ==
    /\ worker[w].pc = "send"
    /\ Len(resultsCh.buf) < WorkerCount
    /\ resultsCh' = [resultsCh EXCEPT !.buf = Append(@, worker[w].value)]
    /\ worker' = [worker EXCEPT ![w] = Receiving]
    /\ UNCHANGED <<sent, valuesCh, received, caller>>

AllExited == \A w \in Worker : worker[w].pc = "exited"

\* Mutant of CloseResults: the closer waits for the sender, not for the workers.
CloseResultsEarly ==
    /\ valuesCh.closed
    /\ ~resultsCh.closed
    /\ resultsCh' = [resultsCh EXCEPT !.closed = TRUE]
    /\ UNCHANGED <<sent, valuesCh, worker, received, caller>>

CloseResults ==
    /\ AllExited
    /\ ~resultsCh.closed
    /\ resultsCh' = [resultsCh EXCEPT !.closed = TRUE]
    /\ UNCHANGED <<sent, valuesCh, worker, received, caller>>

\* The caller ranges over the results; at an error it may leave ...
ReceiveResult ==
    /\ caller = "range"
    /\ resultsCh.buf # <<>>
    /\ received' = Append(received, Head(resultsCh.buf))
    /\ resultsCh' = [resultsCh EXCEPT !.buf = Tail(@)]
    /\ caller' \in IF Head(resultsCh.buf) \in Failing THEN {"early", "range"} ELSE {"range"}
    /\ UNCHANGED <<sent, valuesCh, worker>>

\* ... until the channel is closed and empty.
EndRange ==
    /\ caller = "range"
    /\ resultsCh.closed /\ resultsCh.buf = <<>>
    /\ caller' = "complete"
    /\ UNCHANGED <<sent, valuesCh, worker, resultsCh, received>>

Sender == SendValue \/ CloseValues
Step(w) == ReceiveValue(w) \/ ExitWorker(w) \/ Process(w) \/ SendResult(w)
Caller == ReceiveResult \/ EndRange

Next == Sender \/ CloseResults \/ Caller \/ \E w \in Worker : Step(w)

\* Every goroutine that can run does, and process() returns: the Go scheduler
\* starves none of them.
Fairness ==
    /\ WF_vars(Sender) /\ WF_vars(CloseResults) /\ WF_vars(Caller)
    /\ \A w \in Worker : WF_vars(Step(w))

Spec == Init /\ [][Next]_vars /\ Fairness

------------------------------------------------------------------------------
(* Properties. *)

InBuf(s, v) == Cardinality({i \in DOMAIN s : s[i] = v})

\* A value is at every moment in exactly one place - not yet sent, in a channel,
\* with a worker or received: none is lost or processed twice (worker.go:26-47).
OnePlace ==
    \A v \in Item :
        (IF v > sent THEN 1 ELSE 0) + InBuf(valuesCh.buf, v)
        + Cardinality({w \in Worker : worker[w].value = v})
        + InBuf(resultsCh.buf, v) + InBuf(received, v) = 1

\* A caller that drains the range gets every result and no goroutine outlives it.
DrainedEnds ==
    [](caller # "early") => <>[](caller = "complete" /\ Len(received) = N /\ AllExited)

\* A caller that leaves early is safe only if the results still to come fit the
\* buffer: then every goroutine of the batch ends without it; otherwise some
\* worker blocks on a channel nobody reads for the rest of the process
\* (js/generate.go:886-889).
Abandoned ==
    LET fits == N - Len(received) <= WorkerCount IN
    /\ caller = "early" /\ fits ~> AllExited /\ resultsCh.closed
    /\ caller = "early" /\ ~fits ~> [](~AllExited)

\* To its caller this is a batch: see the specification Batch.
AsBatch == INSTANCE Batch WITH
    todo <- Item \ {received[i] : i \in DOMAIN received},
    leaving <- IF caller = "range" THEN "no" ELSE caller

BatchSpec == AsBatch!Spec
==============================================================================
