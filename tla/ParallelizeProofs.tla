-------------------------- MODULE ParallelizeProofs --------------------------
(***************************************************************************)
(* Proofs about Parallelize for any batch, any number of workers and any   *)
(* set of failing values: no value is lost or processed twice, and to the  *)
(* caller the channels and goroutines are a Batch.                         *)
(***************************************************************************)
EXTENDS Parallelize, FunctionTheorems, FiniteSetTheorems, SequenceTheorems, TLAPS

------------------------------------------------------------------------------
(* Counting the occurrences of a value in a sequence. *)

Occurrences(s, v) == {i \in DOMAIN s : s[i] = v}

LEMMA InBufIsCount ==
    ASSUME NEW S, NEW s \in Seq(S), NEW v
    PROVE  /\ InBuf(s, v) = Cardinality(Occurrences(s, v))
           /\ IsFiniteSet(Occurrences(s, v))
           /\ InBuf(s, v) \in Nat
           /\ InBuf(s, v) = 0 <=> \A i \in DOMAIN s : s[i] # v
<1>1. DOMAIN s = 1..Len(s) /\ Len(s) \in Nat
  BY LenProperties
<1>2. IsFiniteSet(1..Len(s))
  BY <1>1, FS_Interval
<1>3. IsFiniteSet(Occurrences(s, v))
  BY <1>1, <1>2, FS_Subset DEF Occurrences
<1>4. InBuf(s, v) = Cardinality(Occurrences(s, v))
  BY DEF InBuf, Occurrences
<1>5. InBuf(s, v) = 0 <=> Occurrences(s, v) = {}
  BY <1>3, <1>4, FS_EmptySet
<1>6. QED
  BY <1>3, <1>4, <1>5, FS_CardinalityType DEF Occurrences

LEMMA CountEmpty == ASSUME NEW v PROVE InBuf(<<>>, v) = 0
<1>1. {i \in DOMAIN <<>> : <<>>[i] = v} = {}
  OBVIOUS
<1>2. QED
  BY <1>1, FS_EmptySet DEF InBuf

LEMMA CountAppend ==
    ASSUME NEW S, NEW s \in Seq(S), NEW x \in S, NEW v
    PROVE  InBuf(Append(s, x), v) = InBuf(s, v) + (IF x = v THEN 1 ELSE 0)
<1> DEFINE n == Len(s)
           t == Append(s, x)
           O == Occurrences(s, v)
<1>1. /\ n \in Nat /\ DOMAIN s = 1..n /\ t \in Seq(S) /\ DOMAIN t = 1..(n + 1)
      /\ \A i \in 1..n : t[i] = s[i]
      /\ t[n + 1] = x
  BY LenProperties, AppendProperties
<1>2. IsFiniteSet(O) /\ InBuf(s, v) = Cardinality(O) /\ InBuf(s, v) \in Nat
      /\ InBuf(t, v) = Cardinality(Occurrences(t, v))
  BY <1>1, InBufIsCount
<1>3. n + 1 \notin O
  BY <1>1 DEF Occurrences
<1> HIDE DEF t, n
<1>4. CASE x = v
  <2>1. Occurrences(t, v) = O \cup {n + 1}
    <3>1. 1..(n + 1) = 1..n \cup {n + 1}
      BY <1>1
    <3>2. O = {i \in 1..n : s[i] = v} /\ Occurrences(t, v) = {i \in 1..(n + 1) : t[i] = v}
      BY <1>1 DEF Occurrences
    <3>3. /\ \A i \in 1..n : t[i] = v <=> s[i] = v
          /\ t[n + 1] = v
      BY <1>1, <1>4
    <3> DEFINE D == 1..n
               m == n + 1
    <3> HIDE DEF O, D, m
    <3>4. QED
      BY <3>1, <3>2, <3>3 DEF D, m
  <2>2. QED
    BY <1>2, <1>3, <1>4, <2>1, FS_AddElement DEF t
<1>5. CASE x # v
  <2>1. Occurrences(t, v) = O
    BY <1>1, <1>5 DEF Occurrences
  <2>2. QED
    BY <1>2, <1>5, <2>1 DEF t
<1>6. QED
  BY <1>4, <1>5

LEMMA CountTail ==
    ASSUME NEW S, NEW s \in Seq(S), s # <<>>, NEW v
    PROVE  InBuf(s, v) = InBuf(Tail(s), v) + (IF Head(s) = v THEN 1 ELSE 0)
<1> DEFINE n == Len(s)
           t == Tail(s)
           O == Occurrences(s, v)
           T == Occurrences(t, v)
           f == [i \in T |-> i + 1]
<1>1. /\ n \in Nat \ {0} /\ DOMAIN s = 1..n /\ t \in Seq(S) /\ DOMAIN t = 1..(n - 1)
      /\ \A i \in 1..(n - 1) : t[i] = s[i + 1]
      /\ Head(s) = s[1]
  BY EmptySeq, LenProperties, HeadTailProperties
<1>2. /\ IsFiniteSet(O) /\ IsFiniteSet(T) /\ InBuf(s, v) = Cardinality(O)
      /\ InBuf(t, v) = Cardinality(T) /\ InBuf(t, v) \in Nat /\ InBuf(s, v) \in Nat
  BY <1>1, InBufIsCount
<1> HIDE DEF t, n
<1>3. f \in Bijection(T, O \ {1})
  <2>1. T \subseteq 1..(n - 1)
    BY <1>1 DEF Occurrences
  <2>2. \A i \in T : f[i] \in O \ {1}
    BY <1>1, <2>1 DEF Occurrences
  <2>3. \A i, j \in T : f[i] = f[j] => i = j
    BY <2>1, <1>1
  <2>4. \A k \in O \ {1} : k - 1 \in T /\ f[k - 1] = k
    BY <1>1 DEF Occurrences
  <2> HIDE DEF T, O
  <2>5. QED
    BY <2>2, <2>3, <2>4 DEF Bijection, Injection, Surjection, IsInjective
<1>4. Cardinality(T) = Cardinality(O \ {1})
  BY <1>2, <1>3, FS_Bijection, Fun_ExistsBij
<1>5. 1 \in O <=> Head(s) = v
  BY <1>1 DEF Occurrences
<1> HIDE DEF O, T
<1>6. Cardinality(O \ {1}) = IF 1 \in O THEN Cardinality(O) - 1 ELSE Cardinality(O)
  BY <1>2, FS_RemoveElement
<1>7. QED
  BY <1>2, <1>4, <1>5, <1>6 DEF t

------------------------------------------------------------------------------
(* Counting the workers that hold a value. *)

LEMMA WorkerType == WorkerCount \in Nat \ {0} /\ IsFiniteSet(Worker) /\ 1 \in Worker
<1>1. N \div 2 \in Nat
  BY ParallelizeAssumption
<1>2. WorkerCount \in Nat \ {0}
  BY <1>1, ParallelizeAssumption DEF WorkerCount
<1>3. QED
  BY <1>2, FS_Interval DEF Worker

Holders(f, v) == {w \in Worker : f[w].value = v}

\* A step of one worker moves at most one value.
LEMMA CountHolders ==
    ASSUME NEW f, NEW g, NEW w \in Worker, NEW v,
           \A u \in Worker : u # w => g[u].value = f[u].value
    PROVE  /\ Cardinality(Holders(f, v)) \in Nat /\ Cardinality(Holders(g, v)) \in Nat
           /\ Cardinality(Holders(g, v)) + (IF f[w].value = v THEN 1 ELSE 0)
                = Cardinality(Holders(f, v)) + (IF g[w].value = v THEN 1 ELSE 0)
<1> DEFINE F == Holders(f, v)
           G == Holders(g, v)
<1>1. IsFiniteSet(F) /\ IsFiniteSet(G)
  BY WorkerType, FS_Subset DEF Holders
<1>2. Cardinality(F) \in Nat /\ Cardinality(G) \in Nat
  BY <1>1, FS_CardinalityType
<1>3. F \ {w} = G \ {w}
  BY DEF Holders
<1>4. (w \in F <=> f[w].value = v) /\ (w \in G <=> g[w].value = v)
  BY DEF Holders
<1> HIDE DEF F, G
<1>5. Cardinality(F \ {w}) = IF w \in F THEN Cardinality(F) - 1 ELSE Cardinality(F)
  BY <1>1, FS_RemoveElement
<1>6. Cardinality(F \ {w}) = IF w \in G THEN Cardinality(G) - 1 ELSE Cardinality(G)
  BY <1>1, <1>3, FS_RemoveElement
<1>7. Cardinality(G) + (IF w \in F THEN 1 ELSE 0)
          = Cardinality(F) + (IF w \in G THEN 1 ELSE 0)
  BY <1>2, <1>5, <1>6
<1>8. QED
  BY <1>2, <1>4, <1>7 DEF F, G

------------------------------------------------------------------------------
(* The inductive invariant. *)

\* A worker between two values holds none; the channels close in order, each
\* after its senders are done, so what follows a closed channel is empty.
OrderInv ==
    /\ \A w \in Worker : worker[w].pc \in {"receive", "exited"} <=> worker[w].value = 0
    /\ valuesCh.closed => sent = N
    /\ \A w \in Worker : worker[w].pc = "exited" => valuesCh.closed /\ valuesCh.buf = <<>>
    /\ resultsCh.closed => AllExited
    /\ caller = "complete" => resultsCh.closed /\ resultsCh.buf = <<>>

BatchInv == TypeOK /\ OrderInv /\ OnePlace

\* OnePlace, for one value, with names for its terms.
Unsent(v) == IF v > sent THEN 1 ELSE 0
Held(v) == Cardinality(Holders(worker, v))
Places(v) ==
    Unsent(v) + InBuf(valuesCh.buf, v) + Held(v) + InBuf(resultsCh.buf, v) + InBuf(received, v)

LEMMA PlacesTypes ==
    ASSUME TypeOK, NEW v \in Item
    PROVE  /\ Unsent(v) \in Nat /\ Held(v) \in Nat
           /\ InBuf(valuesCh.buf, v) \in Nat /\ InBuf(resultsCh.buf, v) \in Nat
           /\ InBuf(received, v) \in Nat
<1>1. /\ valuesCh.buf \in Seq(Item) /\ resultsCh.buf \in Seq(Item) /\ received \in Seq(Item)
  BY DEF TypeOK, Channel
<1>2. IsFiniteSet(Holders(worker, v))
  BY WorkerType, FS_Subset DEF Holders
<1>3. QED
  BY <1>1, <1>2, InBufIsCount, FS_CardinalityType DEF Unsent, Held

LEMMA OnePlaceIs ==
    /\ OnePlace <=> \A v \in Item : Places(v) = 1
    /\ OnePlace' <=> \A v \in Item : Places(v)' = 1
BY DEF OnePlace, Places, Unsent, Held, Holders

LEMMA InitBatch == Init => BatchInv
<1> SUFFICES ASSUME Init PROVE BatchInv
  OBVIOUS
<1>1. TypeOK
  BY ParallelizeAssumption, WorkerType, EmptySeq
  DEF Init, TypeOK, Channel, Empty, WorkerPc, Receiving
<1>2. OrderInv
  BY DEF Init, OrderInv, Receiving, Empty
<1>3. ASSUME NEW v \in Item PROVE Places(v) = 1
  <2>1. Unsent(v) = 1
    BY ParallelizeAssumption DEF Unsent, Init, Item
  <2>2. Held(v) = 0
    <3>1. Holders(worker, v) = {}
      BY ParallelizeAssumption DEF Holders, Init, Receiving, Item
    <3>2. QED
      BY <3>1, FS_EmptySet DEF Held
  <2>3. InBuf(<<>>, v) = 0
    BY CountEmpty
  <2>4. valuesCh.buf = <<>> /\ resultsCh.buf = <<>> /\ received = <<>>
    BY DEF Init, Empty
  <2>5. QED
    BY <2>1, <2>2, <2>3, <2>4 DEF Places
<1>4. QED
  BY <1>1, <1>2, <1>3, OnePlaceIs DEF BatchInv

\* In each step a value leaves one place for the next.
LEMMA SendValueKeeps == ASSUME BatchInv, SendValue PROVE BatchInv'
<1>1. /\ TypeOK /\ sent \in 0..N /\ sent < N /\ sent' = sent + 1 /\ sent' \in Item
      /\ valuesCh.buf \in Seq(Item) /\ valuesCh'.buf = Append(valuesCh.buf, sent')
      /\ valuesCh'.closed = valuesCh.closed /\ ~valuesCh.closed
      /\ UNCHANGED <<worker, resultsCh, received, caller>>
  BY ParallelizeAssumption DEF BatchInv, TypeOK, OrderInv, Channel, SendValue, Item
<1>2. valuesCh' \in Channel /\ Len(valuesCh'.buf) <= WorkerCount
  <2>1. /\ Append(valuesCh.buf, sent') \in Seq(Item)
        /\ Len(Append(valuesCh.buf, sent')) = Len(valuesCh.buf) + 1
    BY <1>1, AppendProperties
  <2>2. Len(valuesCh.buf) \in Nat /\ Len(valuesCh.buf) < WorkerCount
    BY <1>1, LenProperties DEF SendValue
  <2>3. valuesCh' \in Channel
    BY <1>1, <2>1 DEF SendValue, BatchInv, TypeOK, Channel
  <2>4. QED
    BY <1>1, <2>1, <2>2, <2>3, WorkerType
<1>3. TypeOK'
  BY <1>1, <1>2, ParallelizeAssumption DEF TypeOK, Item
<1>4. OrderInv'
  BY <1>1 DEF BatchInv, OrderInv, AllExited
<1>5. ASSUME NEW v \in Item PROVE Places(v)' = 1
  <2>1. InBuf(valuesCh'.buf, v) = InBuf(valuesCh.buf, v) + (IF sent' = v THEN 1 ELSE 0)
    BY <1>1, CountAppend
  <2>2. Unsent(v) = Unsent(v)' + (IF sent' = v THEN 1 ELSE 0)
    <3>1. v \in Nat /\ sent \in Nat /\ sent' = sent + 1
      BY <1>1, ParallelizeAssumption DEF Item
    <3>2. QED
      BY <3>1 DEF Unsent
  <2>3. Places(v) = 1
    BY OnePlaceIs DEF BatchInv
  <2>4. UNCHANGED <<Held(v), InBuf(resultsCh.buf, v), InBuf(received, v)>>
    BY <1>1 DEF Held
  <2>5. Unsent(v)' \in Nat
    BY DEF Unsent
  <2>6. QED
    BY <1>1, <2>1, <2>2, <2>3, <2>4, <2>5, PlacesTypes DEF Places
<1>6. QED
  BY <1>3, <1>4, <1>5, OnePlaceIs DEF BatchInv

LEMMA ReceiveValueKeeps == ASSUME BatchInv, NEW w \in Worker, ReceiveValue(w) PROVE BatchInv'
<1> DEFINE x == Head(valuesCh.buf)
<1>1. /\ TypeOK /\ valuesCh \in Channel /\ valuesCh.buf \in Seq(Item) /\ valuesCh.buf # <<>>
      /\ worker \in [Worker -> [pc : WorkerPc, value : 0..N]]
      /\ worker[w].pc = "receive" /\ worker[w].value = 0
      /\ worker' = [worker EXCEPT ![w] = [pc |-> "process", value |-> x]]
      /\ valuesCh' = [valuesCh EXCEPT !.buf = Tail(@)]
      /\ UNCHANGED <<sent, resultsCh, received, caller>>
  BY DEF BatchInv, TypeOK, OrderInv, Channel, ReceiveValue
<1>2. /\ x \in Item /\ Tail(valuesCh.buf) \in Seq(Item)
      /\ Len(Tail(valuesCh.buf)) = Len(valuesCh.buf) - 1 /\ Len(valuesCh.buf) \in Nat
  BY <1>1, HeadTailProperties, LenProperties
<1>3. x \in 0..N /\ x # 0
  BY <1>2, ParallelizeAssumption DEF Item
<1> HIDE DEF x
<1>4. /\ valuesCh' \in Channel /\ valuesCh'.buf = Tail(valuesCh.buf)
      /\ valuesCh'.closed = valuesCh.closed
  BY <1>1, <1>2 DEF Channel
<1>5. /\ worker' \in [Worker -> [pc : WorkerPc, value : 0..N]]
      /\ worker'[w].pc = "process" /\ worker'[w].value = x
      /\ \A u \in Worker : u # w => worker'[u] = worker[u]
  BY <1>1, <1>3 DEF WorkerPc
<1>6. TypeOK'
  <2>1. Len(valuesCh.buf) - 1 <= WorkerCount
    BY <1>1, <1>2, WorkerType DEF TypeOK
  <2>2. QED
    BY <1>1, <1>2, <1>4, <1>5, <2>1 DEF TypeOK
<1>7. OrderInv'
  <2>1. \A u \in Worker : worker[u].pc # "exited"
    BY <1>1 DEF BatchInv, OrderInv
  <2>2. ~resultsCh.closed /\ caller # "complete"
    BY <2>1, WorkerType DEF BatchInv, OrderInv, AllExited
  <2>3. QED
    BY <1>1, <1>3, <1>4, <1>5, <2>1, <2>2 DEF BatchInv, OrderInv
<1>8. ASSUME NEW v \in Item PROVE Places(v)' = 1
  <2>1. InBuf(valuesCh.buf, v) = InBuf(valuesCh'.buf, v) + (IF x = v THEN 1 ELSE 0)
    BY <1>1, <1>4, CountTail DEF x
  <2>2. worker[w].value # v
    BY <1>1, ParallelizeAssumption DEF Item
  <2>3. Cardinality(Holders(worker', v)) + (IF worker[w].value = v THEN 1 ELSE 0)
            = Cardinality(Holders(worker, v)) + (IF worker'[w].value = v THEN 1 ELSE 0)
    BY <1>5, CountHolders
  <2>4. Cardinality(Holders(worker', v)) \in Nat
    BY <1>5, CountHolders
  <2>5. Held(v)' = Held(v) + (IF x = v THEN 1 ELSE 0)
    BY <1>5, <2>2, <2>3, <2>4 DEF Held
  <2>6. Places(v) = 1
    BY OnePlaceIs DEF BatchInv
  <2>7. UNCHANGED <<Unsent(v), InBuf(resultsCh.buf, v), InBuf(received, v)>>
    BY <1>1 DEF Unsent
  <2>8. InBuf(valuesCh'.buf, v) \in Nat
    BY <1>2, <1>4, InBufIsCount
  <2>9. QED
    BY <1>1, <2>1, <2>5, <2>6, <2>7, <2>8, PlacesTypes DEF Places
<1>9. QED
  BY <1>6, <1>7, <1>8, OnePlaceIs DEF BatchInv

\* Steps that move no value.
LEMMA StillPlaces ==
    ASSUME BatchInv, TypeOK', OrderInv', UNCHANGED <<sent, received>>,
           valuesCh'.buf = valuesCh.buf, resultsCh'.buf = resultsCh.buf,
           \A u \in Worker : worker'[u].value = worker[u].value
    PROVE  BatchInv'
<1>1. ASSUME NEW v \in Item PROVE Places(v)' = Places(v)
  <2>1. Holders(worker', v) = Holders(worker, v)
    BY DEF Holders
  <2>2. QED
    BY <2>1 DEF Places, Unsent, Held
<1>2. QED
  BY <1>1, OnePlaceIs DEF BatchInv

LEMMA ExitWorkerKeeps == ASSUME BatchInv, NEW w \in Worker, ExitWorker(w) PROVE BatchInv'
<1>1. /\ TypeOK /\ worker[w].pc = "receive" /\ valuesCh.closed /\ valuesCh.buf = <<>>
      /\ worker' = [worker EXCEPT ![w].pc = "exited"]
      /\ worker \in [Worker -> [pc : WorkerPc, value : 0..N]]
      /\ UNCHANGED <<sent, valuesCh, resultsCh, received, caller>>
  BY DEF BatchInv, TypeOK, ExitWorker
<1>2. /\ worker' \in [Worker -> [pc : WorkerPc, value : 0..N]]
      /\ worker'[w].pc = "exited" /\ worker'[w].value = worker[w].value
      /\ \A u \in Worker : u # w => worker'[u] = worker[u]
  BY <1>1 DEF WorkerPc
<1>3. TypeOK'
  BY <1>1, <1>2 DEF TypeOK
<1>4. OrderInv'
  BY <1>1, <1>2 DEF BatchInv, OrderInv, AllExited
<1>5. QED
  BY <1>1, <1>2, <1>3, <1>4, StillPlaces

LEMMA ProcessKeeps == ASSUME BatchInv, NEW w \in Worker, Process(w) PROVE BatchInv'
<1>1. /\ TypeOK /\ worker[w].pc = "process"
      /\ worker' = [worker EXCEPT ![w].pc = "send"]
      /\ worker \in [Worker -> [pc : WorkerPc, value : 0..N]]
      /\ UNCHANGED <<sent, valuesCh, resultsCh, received, caller>>
  BY DEF BatchInv, TypeOK, Process
<1>2. /\ worker' \in [Worker -> [pc : WorkerPc, value : 0..N]]
      /\ worker'[w].pc = "send" /\ worker'[w].value = worker[w].value
      /\ \A u \in Worker : u # w => worker'[u] = worker[u]
  BY <1>1 DEF WorkerPc
<1>3. TypeOK'
  BY <1>1, <1>2 DEF TypeOK
<1>4. OrderInv'
  BY <1>1, <1>2 DEF BatchInv, OrderInv, AllExited
<1>5. QED
  BY <1>1, <1>2, <1>3, <1>4, StillPlaces

LEMMA SendResultKeeps == ASSUME BatchInv, NEW w \in Worker, SendResult(w) PROVE BatchInv'
<1> DEFINE x == worker[w].value
<1>1. /\ TypeOK /\ resultsCh \in Channel /\ resultsCh.buf \in Seq(Item)
      /\ Len(resultsCh.buf) < WorkerCount
      /\ worker \in [Worker -> [pc : WorkerPc, value : 0..N]]
      /\ worker[w].pc = "send" /\ x # 0 /\ x \in 0..N
      /\ worker' = [worker EXCEPT ![w] = Receiving]
      /\ resultsCh' = [resultsCh EXCEPT !.buf = Append(@, x)]
      /\ UNCHANGED <<sent, valuesCh, received, caller>>
  BY DEF BatchInv, TypeOK, OrderInv, Channel, SendResult
<1>2. x \in Item
  BY <1>1, ParallelizeAssumption DEF Item
<1>3. /\ Append(resultsCh.buf, x) \in Seq(Item) /\ Len(resultsCh.buf) \in Nat
      /\ Len(Append(resultsCh.buf, x)) = Len(resultsCh.buf) + 1
  BY <1>1, <1>2, AppendProperties, LenProperties
<1>4. /\ worker' \in [Worker -> [pc : WorkerPc, value : 0..N]]
      /\ worker'[w].pc = "receive" /\ worker'[w].value = 0
      /\ \A u \in Worker : u # w => worker'[u] = worker[u]
  BY <1>1, ParallelizeAssumption DEF WorkerPc, Receiving
<1> HIDE DEF x
<1>5. /\ resultsCh' \in Channel /\ resultsCh'.buf = Append(resultsCh.buf, x)
      /\ resultsCh'.closed = resultsCh.closed
  BY <1>1, <1>3 DEF Channel
<1>6. TypeOK'
  <2>1. Len(resultsCh.buf) + 1 <= WorkerCount
    BY <1>1, <1>3, WorkerType
  <2>2. QED
    BY <1>1, <1>3, <1>4, <1>5, <2>1 DEF TypeOK
<1>7. OrderInv'
  <2>1. ~resultsCh.closed /\ caller # "complete"
    BY <1>1 DEF BatchInv, OrderInv, AllExited
  <2>2. QED
    BY <1>1, <1>4, <1>5, <2>1 DEF BatchInv, OrderInv
<1>8. ASSUME NEW v \in Item PROVE Places(v)' = 1
  <2> DEFINE moved == IF x = v THEN 1 ELSE 0
  <2>1. InBuf(resultsCh'.buf, v) = InBuf(resultsCh.buf, v) + moved
    BY <1>1, <1>2, <1>5, CountAppend
  <2>2. worker'[w].value # v
    BY <1>4, ParallelizeAssumption DEF Item
  <2>3. /\ Cardinality(Holders(worker', v)) \in Nat /\ Cardinality(Holders(worker, v)) \in Nat
        /\ Cardinality(Holders(worker', v)) + (IF worker[w].value = v THEN 1 ELSE 0)
              = Cardinality(Holders(worker, v)) + (IF worker'[w].value = v THEN 1 ELSE 0)
    <3>1. \A u \in Worker : u # w => worker'[u].value = worker[u].value
      BY <1>4
    <3>2. QED
      BY <3>1, CountHolders
  <2>4. Held(v) = Held(v)' + moved /\ Held(v)' \in Nat
    BY <2>2, <2>3 DEF Held, x
  <2>5. moved \in Nat
    OBVIOUS
  <2> HIDE DEF moved
  <2>6. Places(v) = 1
    BY OnePlaceIs DEF BatchInv
  <2>7. UNCHANGED <<Unsent(v), InBuf(valuesCh.buf, v), InBuf(received, v)>>
    BY <1>1 DEF Unsent
  <2>8. /\ Unsent(v) \in Nat /\ InBuf(valuesCh.buf, v) \in Nat
        /\ InBuf(resultsCh.buf, v) \in Nat /\ InBuf(received, v) \in Nat
    BY <1>1, PlacesTypes
  <2>9. QED
    BY <2>1, <2>4, <2>5, <2>6, <2>7, <2>8 DEF Places
<1>9. QED
  BY <1>6, <1>7, <1>8, OnePlaceIs DEF BatchInv

LEMMA ReceiveResultKeeps == ASSUME BatchInv, ReceiveResult PROVE BatchInv'
<1> DEFINE x == Head(resultsCh.buf)
<1>1. /\ TypeOK /\ resultsCh \in Channel /\ resultsCh.buf \in Seq(Item) /\ resultsCh.buf # <<>>
      /\ received \in Seq(Item) /\ caller = "range" /\ caller' \in {"early", "range"}
      /\ received' = Append(received, x)
      /\ resultsCh' = [resultsCh EXCEPT !.buf = Tail(@)]
      /\ UNCHANGED <<sent, valuesCh, worker>>
  BY DEF BatchInv, TypeOK, Channel, ReceiveResult
<1>2. /\ x \in Item /\ Tail(resultsCh.buf) \in Seq(Item)
      /\ Len(Tail(resultsCh.buf)) = Len(resultsCh.buf) - 1 /\ Len(resultsCh.buf) \in Nat
  BY <1>1, HeadTailProperties, LenProperties
<1> HIDE DEF x
<1>3. received' \in Seq(Item)
  BY <1>1, <1>2, AppendProperties
<1>4. /\ resultsCh' \in Channel /\ resultsCh'.buf = Tail(resultsCh.buf)
      /\ resultsCh'.closed = resultsCh.closed
  BY <1>1, <1>2 DEF Channel
<1>5. TypeOK'
  <2>1. Len(resultsCh.buf) - 1 <= WorkerCount
    BY <1>1, <1>2, WorkerType DEF TypeOK
  <2>2. QED
    BY <1>1, <1>2, <1>3, <1>4, <2>1 DEF TypeOK
<1>6. OrderInv'
  BY <1>1, <1>4 DEF BatchInv, OrderInv, AllExited
<1>7. ASSUME NEW v \in Item PROVE Places(v)' = 1
  <2> DEFINE moved == IF x = v THEN 1 ELSE 0
  <2>1. InBuf(resultsCh.buf, v) = InBuf(resultsCh'.buf, v) + moved
    BY <1>1, <1>4, CountTail DEF x
  <2>2. InBuf(received', v) = InBuf(received, v) + moved
    BY <1>1, <1>2, CountAppend
  <2> HIDE DEF moved
  <2>3. Places(v) = 1
    BY OnePlaceIs DEF BatchInv
  <2>4. UNCHANGED <<Unsent(v), InBuf(valuesCh.buf, v), Held(v)>>
    BY <1>1 DEF Unsent, Held
  <2>5. InBuf(resultsCh'.buf, v) \in Nat /\ InBuf(received', v) \in Nat
    BY <1>2, <1>3, <1>4, InBufIsCount
  <2>6. /\ Unsent(v) \in Nat /\ InBuf(valuesCh.buf, v) \in Nat /\ Held(v) \in Nat
        /\ InBuf(resultsCh.buf, v) \in Nat /\ InBuf(received, v) \in Nat
    BY <1>1, PlacesTypes
  <2>7. moved = InBuf(received', v) - InBuf(received, v)
        /\ moved = InBuf(resultsCh.buf, v) - InBuf(resultsCh'.buf, v)
    <3>1. moved \in Nat
      BY DEF moved
    <3>2. QED
      BY <2>1, <2>2, <2>5, <2>6, <3>1
  <2>8. InBuf(resultsCh'.buf, v) + InBuf(received', v)
            = InBuf(resultsCh.buf, v) + InBuf(received, v)
    BY <2>5, <2>6, <2>7
  <2>9. QED
    BY <2>3, <2>4, <2>5, <2>6, <2>8 DEF Places
<1>8. QED
  BY <1>5, <1>6, <1>7, OnePlaceIs DEF BatchInv

LEMMA QuietKeeps ==
    ASSUME BatchInv, CloseValues \/ CloseResults \/ EndRange \/ UNCHANGED vars
    PROVE  BatchInv'
<1>1. TypeOK
  BY DEF BatchInv
<1>2. UNCHANGED <<sent, received, worker>>
  BY DEF CloseValues, CloseResults, EndRange, vars
<1>3. /\ valuesCh' \in Channel /\ valuesCh'.buf = valuesCh.buf
      /\ resultsCh' \in Channel /\ resultsCh'.buf = resultsCh.buf
  BY <1>1 DEF CloseValues, CloseResults, EndRange, vars, TypeOK, Channel
<1>4. TypeOK'
  BY <1>1, <1>2, <1>3 DEF CloseValues, CloseResults, EndRange, vars, TypeOK
<1>5. OrderInv'
  <2>1. CASE CloseValues
    BY <1>1, <1>2, <1>3, <2>1 DEF CloseValues, BatchInv, OrderInv, AllExited, TypeOK, Channel
  <2>2. CASE CloseResults
    BY <1>1, <1>2, <1>3, <2>2 DEF CloseResults, BatchInv, OrderInv, AllExited, TypeOK, Channel
  <2>3. CASE EndRange
    BY <1>1, <1>2, <1>3, <2>3 DEF EndRange, BatchInv, OrderInv, AllExited
  <2>4. CASE UNCHANGED vars
    BY <2>4 DEF vars, BatchInv, OrderInv, AllExited
  <2>5. QED
    BY <2>1, <2>2, <2>3, <2>4
<1>6. QED
  BY <1>2, <1>3, <1>4, <1>5, StillPlaces

LEMMA BatchStep == BatchInv /\ [Next]_vars => BatchInv'
BY SendValueKeeps, ReceiveValueKeeps, ExitWorkerKeeps, ProcessKeeps, SendResultKeeps,
   ReceiveResultKeeps, QuietKeeps
DEF Next, Sender, Step, Caller

\* The inductive invariant: types, the order in which the channels are closed
\* (worker.go:27-47), and one place for every value.
THEOREM BatchInvariantHolds == Spec => []BatchInv
BY InitBatch, BatchStep, PTL DEF Spec

\* The state keeps its type; neither channel holds more than its buffer.
THEOREM ParallelizeTypesHold == Spec => []TypeOK
<1>1. BatchInv => TypeOK
  BY DEF BatchInv
<1>2. QED
  BY <1>1, BatchInvariantHolds, PTL

\* For any batch and any number of workers, a value is at every moment in exactly
\* one place on its way to the caller: none is lost, none is processed or handed
\* over twice (worker.go:26-47).
THEOREM OnePlaceHolds == Spec => []OnePlace
<1>1. BatchInv => OnePlace
  BY DEF BatchInv
<1>2. QED
  BY <1>1, BatchInvariantHolds, PTL

------------------------------------------------------------------------------
(* Refinement of Batch. *)

Todo == Item \ {received[i] : i \in DOMAIN received}
Leaving == IF caller = "range" THEN "no" ELSE caller

\* A result about to be received has not been received before.
LEMMA NextIsNew ==
    ASSUME BatchInv, resultsCh.buf # <<>>
    PROVE  Head(resultsCh.buf) \in Todo
<1> DEFINE x == Head(resultsCh.buf)
<1>1. TypeOK /\ resultsCh.buf \in Seq(Item) /\ received \in Seq(Item)
  BY DEF BatchInv, TypeOK, Channel
<1>2. x \in Item /\ Tail(resultsCh.buf) \in Seq(Item)
  BY <1>1, HeadTailProperties
<1>3. InBuf(resultsCh.buf, x) = InBuf(Tail(resultsCh.buf), x) + 1
      /\ InBuf(Tail(resultsCh.buf), x) \in Nat
  BY <1>1, <1>2, CountTail, InBufIsCount
<1>4. Places(x) = 1
  BY <1>2, OnePlaceIs DEF BatchInv
<1> HIDE DEF x
<1>5. InBuf(received, x) = 0
  BY <1>1, <1>2, <1>3, <1>4, PlacesTypes DEF Places
<1>6. \A i \in DOMAIN received : received[i] # x
  BY <1>1, <1>5, InBufIsCount
<1>7. QED
  BY <1>2, <1>6 DEF Todo, x

\* When the range ends by itself every result has been received.
LEMMA EndMeansAll ==
    ASSUME BatchInv, resultsCh.closed, resultsCh.buf = <<>>
    PROVE  Todo = {}
<1>1. TypeOK /\ received \in Seq(Item)
  BY DEF BatchInv, TypeOK
<1>2. /\ \A w \in Worker : worker[w].value = 0
      /\ sent = N /\ valuesCh.buf = <<>>
  BY WorkerType DEF BatchInv, OrderInv, AllExited
<1>3. ASSUME NEW v \in Item PROVE \E i \in DOMAIN received : received[i] = v
  <2>1. Places(v) = 1
    BY OnePlaceIs DEF BatchInv
  <2>2. Unsent(v) = 0
    BY <1>2, ParallelizeAssumption DEF Unsent, Item
  <2>3. InBuf(<<>>, v) = 0
    BY CountEmpty
  <2>4. Held(v) = 0
    <3>1. Holders(worker, v) = {}
      BY <1>2, ParallelizeAssumption DEF Holders, Item
    <3>2. QED
      BY <3>1, FS_EmptySet DEF Held
  <2>5. InBuf(received, v) = 1
    BY <1>1, <1>2, <2>1, <2>2, <2>3, <2>4, PlacesTypes DEF Places
  <2>6. QED
    BY <1>1, <2>5, InBufIsCount
<1>4. QED
  BY <1>3 DEF Todo

LEMMA BatchRefineInit == Init => AsBatch!Init
BY DEF Init, AsBatch!Init, Item

LEMMA BatchRefineStep ==
    ASSUME BatchInv, [Next]_vars
    PROVE  [AsBatch!Next]_<<Todo, Leaving>>
<1>1. CASE ReceiveResult
  <2> DEFINE x == Head(resultsCh.buf)
  <2>1. /\ received \in Seq(Item) /\ resultsCh.buf # <<>> /\ caller = "range"
        /\ received' = Append(received, x)
        /\ caller' \in IF x \in Failing THEN {"early", "range"} ELSE {"range"}
    BY <1>1 DEF ReceiveResult, BatchInv, TypeOK
  <2>2. x \in Todo /\ x \in Item
    BY <2>1, NextIsNew DEF Todo
  <2> HIDE DEF x
  <2>3. Todo' = Todo \ {x}
    <3>1. /\ DOMAIN received' = 1..(Len(received) + 1) /\ DOMAIN received = 1..Len(received)
          /\ Len(received) \in Nat
          /\ \A i \in 1..Len(received) : received'[i] = received[i]
          /\ received'[Len(received) + 1] = x
      BY <2>1, <2>2, AppendProperties, LenProperties
    <3>2. {received'[i] : i \in DOMAIN received'} = {received[i] : i \in DOMAIN received} \cup {x}
      BY <3>1
    <3>3. QED
      BY <3>2 DEF Todo
  <2>4. Leaving = "no" /\ Leaving' \in IF x \in Failing THEN {"early", "no"} ELSE {"no"}
    BY <2>1 DEF Leaving
  <2>5. \E v \in 1..N : AsBatch!Receive(v)
    BY <2>2, <2>3, <2>4 DEF AsBatch!Receive, Todo, Leaving, Item
  <2>6. QED
    BY <2>5 DEF AsBatch!Next
<1>2. CASE EndRange
  <2>1. Todo = {}
    BY <1>2, EndMeansAll DEF EndRange
  <2>2. Todo' = Todo /\ Leaving = "no" /\ Leaving' = "complete"
    BY <1>2 DEF EndRange, Todo, Leaving
  <2>3. AsBatch!Complete
    BY <2>1, <2>2 DEF AsBatch!Complete, Todo, Leaving
  <2>4. QED
    BY <2>3 DEF AsBatch!Next
<1>3. CASE UNCHANGED <<received, caller>>
  BY <1>3 DEF Todo, Leaving
<1>4. QED
  BY <1>1, <1>2, <1>3
  DEF Next, Sender, Step, Caller, SendValue, CloseValues, CloseResults, ReceiveValue,
      ExitWorker, Process, SendResult, vars

\* To its caller the goroutines and channels of a batch are a Batch: each result
\* is handed over once, and the range ends only after all of them (worker.go).
THEOREM ImplementsBatch == Spec => BatchSpec
<1>1. BatchInv /\ [Next]_vars => [AsBatch!Next]_<<Todo, Leaving>>
  BY BatchRefineStep
<1>2. QED
  BY <1>1, BatchRefineInit, BatchInvariantHolds, PTL
  DEF Spec, BatchSpec, AsBatch!Spec, Todo, Leaving
==============================================================================
