-------------------------- MODULE TaskQueue_Proofs --------------------------
(***************************************************************************)
(* Proofs about TaskQueue, for any threads that queue tasks, any number of *)
(* task objects and any bound on signals.                                  *)
(*                                                                         *)
(* What a queue holds is spread over its stack, which has the newest task  *)
(* first, the worker's batch, which has the oldest first, and the task     *)
(* that is being processed.  Most steps move tasks between these three and *)
(* leave the sequence they make up as it is; the others add one task to    *)
(* its end or remove the one at its beginning.  Everything else follows.   *)
(***************************************************************************)
EXTENDS TaskQueue, SequenceTheorems, FiniteSetTheorems, TLAPS

(* Sequences.                                                              *)

LEMMA ReverseProperties ==
    ASSUME NEW S, NEW s \in Seq(S)
    PROVE  /\ Reverse(s) \in Seq(S)
           /\ Len(Reverse(s)) = Len(s)
           /\ \A i \in 1 .. Len(s) : Reverse(s)[i] = s[Len(s) - i + 1]
<1>1. Len(s) \in Nat /\ \A i \in 1 .. Len(s) : s[(Len(s) - i) + 1] \in S
  BY ElementOfSeq, LenProperties
<1>2. Reverse(s) \in [1 .. Len(s) -> S]
  BY <1>1 DEF Reverse
<1>3. Reverse(s) \in Seq(S)
  BY <1>1, <1>2, SeqDef
<1>4. Len(Reverse(s)) = Len(s)
  BY <1>1, <1>2, <1>3, LenProperties
<1>5. \A i \in 1 .. Len(s) : (Len(s) - i) + 1 = Len(s) - i + 1
  BY <1>1
<1> QED BY <1>3, <1>4, <1>5 DEF Reverse

\* What is pushed on a stack comes last when it is reversed.
LEMMA ReversePush ==
    ASSUME NEW S, NEW s \in Seq(S), NEW x \in S
    PROVE  Reverse(<<x>> \o s) = Append(Reverse(s), x)
<1> DEFINE p == <<x>> \o s
<1>1. /\ p \in Seq(S) /\ Len(p) = 1 + Len(s) /\ Len(s) \in Nat
      /\ \A i \in 1 .. 1 + Len(s) : p[i] = IF i <= 1 THEN x ELSE s[i - 1]
  <2>1. <<x>> \in Seq(S) /\ Len(<<x>>) = 1 /\ <<x>>[1] = x
    OBVIOUS
  <2>2. Len(s) \in Nat
    BY LenProperties
  <2> QED BY <2>1, <2>2, ConcatProperties
<1> HIDE DEF p
<1>2. /\ Reverse(p) \in Seq(S) /\ Len(Reverse(p)) = 1 + Len(s)
      /\ \A i \in 1 .. 1 + Len(s) : Reverse(p)[i] = p[(1 + Len(s)) - i + 1]
  BY <1>1, ReverseProperties
<1>3. /\ Reverse(s) \in Seq(S) /\ Len(Reverse(s)) = Len(s)
      /\ \A i \in 1 .. Len(s) : Reverse(s)[i] = s[Len(s) - i + 1]
  BY ReverseProperties
<1> DEFINE a == Append(Reverse(s), x)
<1>4. /\ a \in Seq(S) /\ Len(a) = Len(s) + 1
      /\ \A i \in 1 .. Len(s) : a[i] = Reverse(s)[i]
      /\ a[Len(s) + 1] = x
  BY <1>3, AppendProperties
<1> HIDE DEF a
<1>5. ASSUME NEW i \in 1 .. 1 + Len(s) PROVE Reverse(p)[i] = a[i]
  <2>1. CASE i = 1 + Len(s)
    <3>1. (1 + Len(s)) - i + 1 = 1 /\ 1 \in 1 .. 1 + Len(s)
      BY <1>1, <2>1
    <3>2. p[1] = x
      BY <1>1, <3>1
    <3>3. a[i] = x
      BY <1>1, <1>4, <2>1
    <3> QED BY <1>2, <3>1, <3>2, <3>3
  <2>2. CASE i # 1 + Len(s)
    <3> DEFINE j == (1 + Len(s)) - i + 1
    <3>1. i \in 1 .. Len(s) /\ j \in 1 .. 1 + Len(s) /\ j > 1 /\ j - 1 = Len(s) - i + 1
      BY <1>1, <2>2
    <3>2. Reverse(p)[i] = p[j]
      BY <1>2
    <3> HIDE DEF j
    <3>3. p[j] = s[j - 1]
      BY <1>1, <3>1
    <3> QED BY <1>3, <1>4, <3>1, <3>2, <3>3
  <2> QED BY <2>1, <2>2
<1>6. Reverse(p) = a
  BY <1>1, <1>2, <1>4, <1>5, SeqEqual
<1> QED BY <1>6 DEF p, a

LEMMA ReverseEmpty == Reverse(<< >>) = << >>
<1>1. << >> \in Seq({}) /\ Len(<< >>) = 0
  OBVIOUS
<1>2. Reverse(<< >>) \in Seq({}) /\ Len(Reverse(<< >>)) = 0
  BY <1>1, ReverseProperties
<1> QED BY <1>2, EmptySeq

LEMMA ConcatAppend ==
    ASSUME NEW S, NEW s \in Seq(S), NEW t \in Seq(S), NEW x \in S
    PROVE  s \o Append(t, x) = Append(s \o t, x)
<1>1. <<x>> \in Seq(S) /\ s \o t \in Seq(S)
  BY ConcatProperties
<1>2. Append(t, x) = t \o <<x>> /\ Append(s \o t, x) = (s \o t) \o <<x>>
  BY <1>1, AppendIsConcat
<1> QED BY <1>1, <1>2, ConcatAssociative

LEMMA HeadFirst ==
    ASSUME NEW S, NEW s \in Seq(S), s # << >>
    PROVE  /\ Head(s) \in S /\ Tail(s) \in Seq(S)
           /\ <<Head(s)>> \o Tail(s) = s
<1>1. Head(s) \in S /\ Tail(s) \in Seq(S)
  BY HeadTailProperties
<1>2. /\ Len(Tail(s)) = Len(s) - 1 /\ Len(s) \in Nat \ {0}
      /\ \A i \in 1 .. Len(Tail(s)) : Tail(s)[i] = s[i + 1]
  BY HeadTailProperties, EmptySeq
<1> DEFINE h == Head(s)
           t == Tail(s)
<1>3. h = s[1]
  BY <1>2
<1> HIDE DEF h, t
<1>4. h \in S /\ t \in Seq(S) /\ <<h>> \in Seq(S) /\ Len(<<h>>) = 1 /\ <<h>>[1] = h
  BY <1>1 DEF h, t
<1> DEFINE u == <<h>> \o t
<1>5. /\ u \in Seq(S) /\ Len(u) = 1 + Len(t)
      /\ \A i \in 1 .. 1 + Len(t) : u[i] = IF i <= 1 THEN h ELSE t[i - 1]
  BY <1>4, ConcatProperties
<1>6. Len(t) = Len(s) - 1 /\ \A i \in 1 .. Len(t) : t[i] = s[i + 1]
  BY <1>2 DEF t
<1> HIDE DEF u
<1>7. ASSUME NEW i \in 1 .. Len(s) PROVE u[i] = s[i]
  BY <1>2, <1>3, <1>5, <1>6
<1>8. Len(u) = Len(s)
  BY <1>2, <1>5, <1>6
<1>9. u = s
  BY <1>5, <1>7, <1>8, SeqEqual
<1> QED BY <1>1, <1>9 DEF h, t, u

\* What a sequence holds, without repetition, when one is added or taken away.
LEMMA AppendHolds ==
    ASSUME NEW S, NEW s \in Seq(S), NEW x \in S
    PROVE  /\ Append(s, x) \in Seq(S)
           /\ ToSet(Append(s, x)) = ToSet(s) \cup {x}
           /\ IsInjective(s) /\ x \notin ToSet(s) => IsInjective(Append(s, x))
<1> DEFINE a == Append(s, x)
<1>1. /\ a \in Seq(S) /\ Len(a) = Len(s) + 1 /\ Len(s) \in Nat
      /\ DOMAIN a = 1 .. Len(a) /\ DOMAIN s = 1 .. Len(s)
      /\ \A i \in 1 .. Len(s) : a[i] = s[i]
      /\ a[Len(s) + 1] = x
  BY AppendProperties, LenProperties
<1> HIDE DEF a
<1>2. DOMAIN a = DOMAIN s \cup {Len(s) + 1} /\ Len(s) + 1 \notin DOMAIN s
  BY <1>1
<1>3. ToSet(a) = ToSet(s) \cup {x}
  BY <1>1, <1>2 DEF ToSet
<1>4. ASSUME IsInjective(s), x \notin ToSet(s) PROVE IsInjective(a)
  BY <1>1, <1>2, <1>4 DEF ToSet, IsInjective
<1> QED BY <1>1, <1>3, <1>4 DEF a

LEMMA FirstHolds ==
    ASSUME NEW S, NEW s \in Seq(S), NEW x \in S
    PROVE  /\ <<x>> \o s \in Seq(S) /\ <<x>> \o s # << >>
           /\ Head(<<x>> \o s) = x /\ Tail(<<x>> \o s) = s
           /\ ToSet(<<x>> \o s) = {x} \cup ToSet(s)
           /\ IsInjective(<<x>> \o s) => IsInjective(s) /\ x \notin ToSet(s)
<1> DEFINE p == <<x>> \o s
<1>1. /\ p \in Seq(S) /\ Len(p) = 1 + Len(s) /\ Len(s) \in Nat
      /\ \A i \in 1 .. 1 + Len(s) : p[i] = IF i <= 1 THEN x ELSE s[i - 1]
      /\ DOMAIN p = 1 .. Len(p) /\ DOMAIN s = 1 .. Len(s)
  <2>1. <<x>> \in Seq(S) /\ Len(<<x>>) = 1 /\ <<x>>[1] = x
    OBVIOUS
  <2>2. Len(s) \in Nat /\ p \in Seq(S)
    BY <2>1, LenProperties, ConcatProperties
  <2> QED BY <2>1, <2>2, ConcatProperties, LenProperties
<1> HIDE DEF p
<1>2. p[1] = x /\ 1 \in DOMAIN p /\ \A i \in DOMAIN s : i + 1 \in DOMAIN p /\ p[i + 1] = s[i]
  BY <1>1
<1>3. \A i \in DOMAIN p : i = 1 \/ (i - 1 \in DOMAIN s /\ p[i] = s[i - 1])
  BY <1>1
<1>4. p # << >>
  BY <1>1, EmptySeq
<1>5. Tail(p) = s
  <2>1. /\ Tail(p) \in Seq(S) /\ Len(Tail(p)) = Len(p) - 1
        /\ \A i \in 1 .. Len(Tail(p)) : Tail(p)[i] = p[i + 1]
    BY <1>1, <1>4, HeadTailProperties
  <2>2. Len(Tail(p)) = Len(s)
    BY <1>1, <2>1
  <2>3. \A i \in 1 .. Len(s) : Tail(p)[i] = s[i]
    BY <1>1, <1>2, <2>1, <2>2
  <2> QED BY <2>1, <2>2, <2>3, SeqEqual
<1>6. Head(p) = x
  BY <1>1, <1>2, <1>4
<1>7. ToSet(p) = {x} \cup ToSet(s)
  BY <1>2, <1>3 DEF ToSet
<1>8. ASSUME IsInjective(p) PROVE IsInjective(s) /\ x \notin ToSet(s)
  <2>1. ASSUME NEW i \in DOMAIN s, NEW j \in DOMAIN s, s[i] = s[j] PROVE i = j
    <3>1. i \in Int /\ j \in Int
      BY <1>1
    <3>2. i + 1 = j + 1
      BY <1>2, <1>8, <2>1 DEF IsInjective
    <3> QED BY <3>1, <3>2
  <2>2. ASSUME NEW i \in DOMAIN s, s[i] = x PROVE FALSE
    <3>1. i + 1 = 1
      BY <1>2, <1>8, <2>2 DEF IsInjective
    <3> QED BY <1>1, <3>1
  <2> QED BY <2>1, <2>2 DEF IsInjective, ToSet
<1> QED BY <1>1, <1>4, <1>5, <1>6, <1>7, <1>8 DEF p

\* The beginning of a sequence.
LEMMA PrefixHolds ==
    ASSUME NEW S, NEW s \in Seq(S), NEW t \in Seq(S)
    PROVE  /\ ToSet(s) \subseteq ToSet(s \o t)
           /\ IsInjective(s \o t) => IsInjective(s)
<1> DEFINE c == s \o t
<1>1. \A i \in DOMAIN s : i \in DOMAIN c /\ c[i] = s[i]
  <2>1. /\ c \in Seq(S) /\ Len(c) = Len(s) + Len(t) /\ Len(s) \in Nat /\ Len(t) \in Nat
        /\ \A i \in 1 .. Len(s) + Len(t) : c[i] = IF i <= Len(s) THEN s[i] ELSE t[i - Len(s)]
    BY ConcatProperties, LenProperties
  <2>2. DOMAIN c = 1 .. Len(c) /\ DOMAIN s = 1 .. Len(s)
    BY <2>1, LenProperties
  <2> HIDE DEF c
  <2> QED BY <2>1, <2>2
<1> HIDE DEF c
<1>2. ToSet(s) \subseteq ToSet(c) /\ (IsInjective(c) => IsInjective(s))
  BY <1>1 DEF ToSet, IsInjective
<1> QED BY <1>2 DEF c
-----------------------------------------------------------------------------
(* Types.                                                                  *)

\* Where tasks may be: a worker has a batch only while it works, and a task in
\* hand from when it takes it; a producer has one until it has pushed it, and
\* none is in the middle of queueing when the queue is being destroyed.
Placed ==
    /\ \A q \in Queues : wpc[q] \in {"wait", "fetch"} => batch[q] = << >>
    /\ \A q \in Queues : wpc[q] \in {"process", "nested", "finish"} => cur[q] \in Tasks
    /\ \A p \in Producers : ppc[p] = "push" <=> hand[p] \in AsyncTasks
    /\ dpc # "alive" => \A p \in Producers : ppc[p] = "idle"

LEMMA EnterTypes ==
    ASSUME TypeOK, NEW t \in SyncThreads, NEW q \in Queues,
           NEW id \in {"Uninitialized", "Swap", "Update", "Notify", "Stop"}, EnterQueueSync(t, q, id)
    PROVE  /\ cpc' \in [SyncThreads -> {"idle", "push", "signal", "check", "wait", "blocked"}]
           /\ cq' \in [SyncThreads -> Queues]
           /\ taskID' \in [Tasks -> {"Uninitialized", "Swap", "Update", "Notify", "Stop"}]
           /\ isComplete' \in [SyncThreads -> BOOLEAN]
  BY DEF EnterQueueSync, TypeOK, Tasks

LEMMA CallTypes ==
    ASSUME TypeOK, Placed, NEW t \in SyncThreads, CallStep(t)
    PROVE  TypeOK' /\ Placed'
<1> USE DEF TypeOK, Placed, workerVars, callVars, producerVars, dtorVars
<1>1. t \in Tasks /\ cq[t] \in Queues
  BY DEF Tasks
<1>2. CASE PushSync(t)
  <2>1. <<t>> \o stack[cq[t]] \in Seq(Tasks)
    BY <1>1, FirstHolds
  <2> QED BY <1>2, <2>1 DEF PushSync
<1>3. CASE SignalSync(t)
  BY <1>1, <1>3 DEF SignalSync
<1>4. CASE CheckComplete(t)
  <2>1. /\ cpc' \in [SyncThreads -> {"idle", "push", "signal", "check", "wait", "blocked"}]
        /\ cq' \in [SyncThreads -> Queues]
        /\ taskID' \in [Tasks -> {"Uninitialized", "Swap", "Update", "Notify", "Stop"}]
        /\ isComplete' \in [SyncThreads -> BOOLEAN]
    <3>1. "RT" \in Queues
      BY DEF Queues
    <3>2. CASE isComplete[t]
      <4>1. cpc' = [cpc EXCEPT ![t] = "idle"] /\ cq' = [cq EXCEPT ![t] = "RT"]
        BY <1>4, <3>2 DEF CheckComplete
      <4>2. /\ taskID' = [taskID EXCEPT ![t] = "Uninitialized"]
            /\ isComplete' = [isComplete EXCEPT ![t] = FALSE]
        BY <1>4, <3>2 DEF CheckComplete
      <4> QED BY <3>1, <4>1, <4>2
    <3>3. CASE ~isComplete[t]
      <4>1. cpc' = [cpc EXCEPT ![t] = "wait"] /\ UNCHANGED <<taskID, isComplete, cq>>
        BY <1>4, <3>3 DEF CheckComplete
      <4> QED BY <4>1
    <3> QED BY <3>2, <3>3
  <2> QED BY <1>4, <2>1 DEF CheckComplete
<1>5. CASE BlockOnCompleted(t)
  BY <1>5 DEF BlockOnCompleted
<1>6. CASE TimeOut(t)
  BY <1>6 DEF TimeOut
<1> QED BY <1>2, <1>3, <1>4, <1>5, <1>6 DEF CallStep

LEMMA ProducerTypes ==
    ASSUME TypeOK, Placed, NEW p \in Producers,
           ProducerStep(p) \/ \E id \in {"Update", "Notify"} : TakeFreeTask(p, id)
    PROVE  TypeOK' /\ Placed'
<1> USE DEF TypeOK, Placed, workerVars, callVars, dtorVars
<1>1. NoTask \notin AsyncTasks /\ "NonRT" \in Queues /\ AsyncTasks \subseteq Tasks
  BY TaskQueueAssumption DEF Queues, Tasks
<1>2. ASSUME NEW id \in {"Update", "Notify"}, TakeFreeTask(p, id) PROVE TypeOK' /\ Placed'
  <2>1. PICK a \in IF freeList # {} THEN freeList ELSE AsyncTasks \ allocated :
          /\ freeList' = freeList \ {a}
          /\ allocated' = allocated \cup {a}
          /\ hand' = [hand EXCEPT ![p] = a]
          /\ taskID' = [taskID EXCEPT ![a] = id]
    BY <1>2 DEF TakeFreeTask
  <2>2. a \in AsyncTasks
    OBVIOUS
  <2> QED BY <1>1, <1>2, <2>1, <2>2 DEF TakeFreeTask
<1>3. CASE PushAsync(p)
  <2>1. <<hand[p]>> \o stack["NonRT"] \in Seq(Tasks)
    BY <1>1, <1>3, FirstHolds DEF PushAsync
  <2> QED BY <1>1, <1>3, <2>1 DEF PushAsync
<1>4. CASE SignalAsync(p)
  BY <1>1, <1>4 DEF SignalAsync
<1> QED BY <1>2, <1>3, <1>4 DEF ProducerStep

LEMMA WorkerTypes ==
    ASSUME TypeOK, Placed, NEW q \in Queues, WorkerStep(q)
    PROVE  TypeOK' /\ Placed'
<1> USE DEF TypeOK, Placed, workerVars, callVars, producerVars, dtorVars
<1>1. CASE WaitForWork(q)
  BY <1>1 DEF WaitForWork
<1>2. CASE FetchTasks(q)
  <2>1. Reverse(stack[q]) \in Seq(Tasks)
    BY ReverseProperties
  <2> QED BY <1>2, <2>1 DEF FetchTasks
<1>3. CASE NextTask(q)
  <2>1. Head(batch[q]) \in Tasks /\ Tail(batch[q]) \in Seq(Tasks)
    BY <1>3, HeadFirst DEF NextTask
  <2> QED BY <1>3, <2>1 DEF NextTask
<1>4. CASE EndBatch(q)
  BY <1>4 DEF EndBatch
<1>5. CASE ProcessTask(q)
  BY <1>5 DEF ProcessTask
<1>6. CASE ProcessUpdate(q)
  <2>1. /\ wpc' \in [Queues -> {"wait", "fetch", "next", "process", "nested", "finish", "signalAll",
                               "stopped", "threw"}]
        /\ \A r \in Queues : wpc'[r] = wpc[r] \/ (wpc[r] = "process" /\ wpc'[r] \in {"nested", "finish"})
    <3>1. PICK place \in {"nested", "finish"} : wpc' = [wpc EXCEPT ![q] = place]
      BY <1>6 DEF ProcessUpdate
    <3>2. wpc[q] = "process"
      BY <1>6 DEF ProcessUpdate
    <3> QED BY <3>1, <3>2
  <2>2. UNCHANGED <<stack, workQueued, cur, batch, shouldStop, producerVars, dtorVars>>
    BY <1>6 DEF ProcessUpdate
  <2>3. CASE UNCHANGED <<taskID, callVars>>
    BY <2>1, <2>2, <2>3
  <2>4. CASE EnterQueueSync(NonRTWorker, "RT", "Swap")
    <3>1. NonRTWorker \in SyncThreads /\ "RT" \in Queues
      BY DEF SyncThreads, Queues
    <3>2. /\ cpc' \in [SyncThreads -> {"idle", "push", "signal", "check", "wait", "blocked"}]
          /\ cq' \in [SyncThreads -> Queues]
          /\ taskID' \in [Tasks -> {"Uninitialized", "Swap", "Update", "Notify", "Stop"}]
          /\ isComplete' \in [SyncThreads -> BOOLEAN]
      BY <2>4, <3>1, EnterTypes
    <3> QED BY <2>1, <2>2, <3>2
  <2> QED BY <1>6, <2>3, <2>4 DEF ProcessUpdate
<1>7. CASE NestedCallReturned(q)
  BY <1>7 DEF NestedCallReturned
<1>8. CASE MarkCompleted(q)
  BY <1>8 DEF MarkCompleted
<1>9. CASE SignalAllCompleted(q)
  <2>1. cpc' \in [SyncThreads -> {"idle", "push", "signal", "check", "wait", "blocked"}]
    BY <1>9 DEF SignalAllCompleted
  <2>2. \E place \in {"next", "threw"} : wpc' = [wpc EXCEPT ![q] = place]
    BY <1>9 DEF SignalAllCompleted
  <2>3. UNCHANGED <<stack, workQueued, taskID, cur, batch, shouldStop, isComplete, cq,
                    producerVars, dtorVars>>
    BY <1>9 DEF SignalAllCompleted
  <2> QED BY <2>1, <2>2, <2>3
<1>10. CASE RecycleTask(q)
  <2>1. cur[q] \in AsyncTasks /\ cur[q] \in Tasks
    BY <1>10 DEF RecycleTask, Tasks
  <2> QED BY <1>10, <2>1 DEF RecycleTask
<1> QED BY <1>1, <1>2, <1>3, <1>4, <1>5, <1>6, <1>7, <1>8, <1>9, <1>10 DEF WorkerStep

LEMMA DestroyerTypes ==
    ASSUME TypeOK, Placed, NEW d \in Destroyers, StopRealTimeThread(d) \/ DtorStep(d)
    PROVE  TypeOK' /\ Placed'
<1> USE DEF TypeOK, Placed, workerVars, callVars, producerVars
<1>1. d \in SyncThreads /\ {"RT", "NonRT"} = Queues
  BY DEF SyncThreads, Queues
<1>2. CASE StopRealTimeThread(d)
  BY <1>1, <1>2, EnterTypes DEF StopRealTimeThread, Quiescent
<1>3. CASE StopNonRealTimeThread(d)
  BY <1>1, <1>3, EnterTypes DEF StopNonRealTimeThread
<1>4. CASE DestroySemaphores(d)
  BY <1>4 DEF DestroySemaphores
<1>5. CASE DeleteTasks(d)
  BY <1>1, <1>5, EmptySeq DEF DeleteTasks
<1> QED BY <1>2, <1>3, <1>4, <1>5 DEF DtorStep

LEMMA PlacedInvariant == Spec => [](TypeOK /\ Placed)
<1>1. Init => TypeOK /\ Placed
  <2> SUFFICES ASSUME Init PROVE TypeOK /\ Placed
    OBVIOUS
  <2>1. "RT" \in Queues /\ << >> \in Seq(Tasks)
    BY EmptySeq DEF Queues
  <2> QED BY <2>1, TaskQueueAssumption DEF Init, TypeOK, Placed
<1>2. TypeOK /\ Placed /\ [Next]_vars => (TypeOK /\ Placed)'
  <2> SUFFICES ASSUME TypeOK, Placed, [Next]_vars PROVE TypeOK' /\ Placed'
    OBVIOUS
  <2>1. CASE UNCHANGED vars
    BY <2>1 DEF vars, workerVars, callVars, producerVars, dtorVars, TypeOK, Placed
  <2>2. ASSUME NEW t \in Callers, QueueSync(t) PROVE TypeOK' /\ Placed'
    <3>1. t \in SyncThreads
      BY DEF SyncThreads
    <3>2. PICK q \in Queues : EnterQueueSync(t, q, IF q = "RT" THEN "Swap" ELSE "Update")
      BY <2>2 DEF QueueSync
    <3> QED BY <2>2, <3>1, <3>2, EnterTypes
            DEF QueueSync, TypeOK, Placed, workerVars, producerVars, dtorVars
  <2> QED BY <2>1, <2>2, CallTypes, ProducerTypes, WorkerTypes, DestroyerTypes DEF Next
<1> QED BY <1>1, <1>2, PTL DEF Spec

\* Every variable keeps its type.
THEOREM TypeCorrect == Spec => []TypeOK
  BY PlacedInvariant, PTL
-----------------------------------------------------------------------------
(* What the steps do to the tasks a queue holds.                           *)

Adds(r, x) ==
    \A q \in Queues :
        Outstanding(q)' = IF q = r THEN Append(Outstanding(q), x) ELSE Outstanding(q)

Removes(r, x) ==
    /\ Outstanding(r) = <<x>> \o Outstanding(r)'
    /\ \A q \in Queues \ {r} : Outstanding(q)' = Outstanding(q)

Keeps == \A q \in Queues : Outstanding(q)' = Outstanding(q)

LEMMA OutstandingType ==
    ASSUME TypeOK, Placed, NEW q \in Queues
    PROVE  /\ InService(q) \in Seq(Tasks) /\ batch[q] \in Seq(Tasks)
           /\ Reverse(stack[q]) \in Seq(Tasks)
           /\ Outstanding(q) \in Seq(Tasks)
<1>1. InService(q) \in Seq(Tasks)
  BY EmptySeq DEF InService, Placed
<1>2. batch[q] \in Seq(Tasks) /\ Reverse(stack[q]) \in Seq(Tasks)
  BY ReverseProperties DEF TypeOK
<1> QED BY <1>1, <1>2, ConcatProperties DEF Outstanding

\* Pushing on the stack adds to the end.
LEMMA PushAdds ==
    ASSUME TypeOK, Placed, NEW r \in Queues, NEW x \in Tasks,
           stack' = [stack EXCEPT ![r] = <<x>> \o @], UNCHANGED <<wpc, cur, batch>>
    PROVE  Adds(r, x)
<1> SUFFICES ASSUME NEW q \in Queues
             PROVE Outstanding(q)' = IF q = r THEN Append(Outstanding(q), x) ELSE Outstanding(q)
  BY DEF Adds
<1>1. InService(q)' = InService(q) /\ batch'[q] = batch[q]
  BY DEF InService
<1>2. CASE q # r
  <2>1. stack'[q] = stack[q]
    BY <1>2 DEF TypeOK
  <2>2. Outstanding(q)' = Outstanding(q)
    BY <1>1, <2>1 DEF Outstanding
  <2> QED BY <1>2, <2>2
<1>3. CASE q = r
  <2>1. stack'[q] = <<x>> \o stack[q] /\ stack[q] \in Seq(Tasks)
    BY <1>3 DEF TypeOK
  <2>2. Reverse(stack'[q]) = Append(Reverse(stack[q]), x)
    BY <2>1, ReversePush
  <2>3. InService(q) \o batch[q] \in Seq(Tasks) /\ Reverse(stack[q]) \in Seq(Tasks)
    BY OutstandingType, ConcatProperties
  <2>4. ASSUME NEW s \in Seq(Tasks), NEW t \in Seq(Tasks)
        PROVE  s \o Append(t, x) = Append(s \o t, x)
    BY ConcatAppend
  <2>5. (InService(q) \o batch[q]) \o Append(Reverse(stack[q]), x)
          = Append((InService(q) \o batch[q]) \o Reverse(stack[q]), x)
    BY <2>3, <2>4
  <2>6. Outstanding(q)' = Append(Outstanding(q), x)
    BY <1>1, <2>2, <2>5 DEF Outstanding
  <2> QED BY <1>3, <2>6
<1> QED BY <1>2, <1>3

\* The worker's task is the oldest; completing it removes it.
LEMMA FinishRemoves ==
    ASSUME TypeOK, Placed, NEW r \in Queues, wpc[r] = "finish",
           NEW place \in {"signalAll", "next"}, wpc' = [wpc EXCEPT ![r] = place],
           cur' = [cur EXCEPT ![r] = NoTask], UNCHANGED <<stack, batch>>
    PROVE  Removes(r, cur[r]) /\ Outstanding(r)' \in Seq(Tasks)
<1>1. ASSUME NEW q \in Queues \ {r} PROVE Outstanding(q)' = Outstanding(q)
  <2>1. wpc'[q] = wpc[q] /\ cur'[q] = cur[q]
    BY DEF TypeOK
  <2>2. InService(q)' = InService(q) /\ batch'[q] = batch[q] /\ stack'[q] = stack[q]
    BY <2>1 DEF InService
  <2> QED BY <2>2 DEF Outstanding
<1>2. cur[r] \in Tasks /\ batch[r] \in Seq(Tasks) /\ Reverse(stack[r]) \in Seq(Tasks)
  BY OutstandingType DEF Placed
<1>3. InService(r) = <<cur[r]>> /\ InService(r)' = << >>
  BY DEF InService, TypeOK
<1>4. Outstanding(r)' = batch[r] \o Reverse(stack[r])
  <2>1. << >> \o batch[r] = batch[r]
    BY <1>2, ConcatEmptySeq
  <2> QED BY <1>3, <2>1 DEF Outstanding
<1>5. Outstanding(r) = <<cur[r]>> \o (batch[r] \o Reverse(stack[r]))
  <2>1. <<cur[r]>> \in Seq(Tasks)
    BY <1>2
  <2>2. ASSUME NEW s \in Seq(Tasks), NEW t \in Seq(Tasks), NEW u \in Seq(Tasks)
        PROVE  (s \o t) \o u = s \o (t \o u)
    BY ConcatAssociative
  <2>3. (<<cur[r]>> \o batch[r]) \o Reverse(stack[r])
          = <<cur[r]>> \o (batch[r] \o Reverse(stack[r]))
    BY <1>2, <2>1, <2>2
  <2> QED BY <1>3, <2>3 DEF Outstanding
<1>6. Outstanding(r)' \in Seq(Tasks)
  BY <1>2, <1>4, ConcatProperties
<1> QED BY <1>1, <1>4, <1>5, <1>6 DEF Removes

\* The other steps of a worker move tasks from place to place.
LEMMA WorkerKeeps ==
    ASSUME TypeOK, Placed, NEW q \in Queues,
           WorkerStep(q), ~MarkCompleted(q), ~RecycleTask(q)
    PROVE  Keeps
<1> USE DEF workerVars, callVars, producerVars, dtorVars
<1>1. UNCHANGED <<stack, cur, batch>> /\ InService(q)' = InService(q)
        /\ (\A r \in Queues \ {q} : wpc'[r] = wpc[r]) => Keeps
  BY DEF Keeps, Outstanding, InService
<1>2. CASE WaitForWork(q)
  BY <1>1, <1>2 DEF WaitForWork, InService, TypeOK
<1>3. CASE FetchTasks(q)
  <2>1. batch[q] = << >> /\ InService(q) = << >>
    BY <1>3 DEF FetchTasks, Placed, InService
  <2>2. /\ batch'[q] = Reverse(stack[q]) /\ stack'[q] = << >> /\ wpc'[q] = "next"
        /\ \A r \in Queues \ {q} :
             wpc'[r] = wpc[r] /\ batch'[r] = batch[r] /\ stack'[r] = stack[r] /\ cur'[r] = cur[r]
    BY <1>3 DEF FetchTasks, TypeOK
  <2>3. InService(q)' = << >>
    BY <2>2 DEF InService
  <2>4. Reverse(stack[q]) \in Seq(Tasks) /\ << >> \in Seq(Tasks)
    BY OutstandingType, EmptySeq
  <2>5. Outstanding(q) = Reverse(stack[q])
    BY <2>1, <2>4, ConcatEmptySeq DEF Outstanding
  <2>6. Outstanding(q)' = (<< >> \o Reverse(stack[q])) \o << >>
    BY <2>2, <2>3, ReverseEmpty DEF Outstanding
  <2>7. Outstanding(q)' = Outstanding(q)
    BY <2>4, <2>5, <2>6, ConcatEmptySeq
  <2>8. \A r \in Queues \ {q} : Outstanding(r)' = Outstanding(r)
    BY <2>2 DEF Outstanding, InService
  <2> QED BY <2>7, <2>8 DEF Keeps
<1>4. CASE NextTask(q)
  <2>1. batch[q] \in Seq(Tasks) /\ batch[q] # << >> /\ InService(q) = << >>
    BY <1>4 DEF NextTask, InService, TypeOK
  <2>2. /\ cur'[q] = Head(batch[q]) /\ batch'[q] = Tail(batch[q]) /\ wpc'[q] = "process"
        /\ stack' = stack
        /\ \A r \in Queues \ {q} : wpc'[r] = wpc[r] /\ batch'[r] = batch[r] /\ cur'[r] = cur[r]
    BY <1>4 DEF NextTask, TypeOK
  <2>3. InService(q)' = <<Head(batch[q])>>
    BY <2>2 DEF InService
  <2>4. <<Head(batch[q])>> \o Tail(batch[q]) = << >> \o batch[q]
    BY <2>1, HeadFirst, ConcatEmptySeq
  <2>5. Outstanding(q)' = Outstanding(q)
    BY <2>1, <2>2, <2>3, <2>4 DEF Outstanding
  <2>6. \A r \in Queues \ {q} : Outstanding(r)' = Outstanding(r)
    BY <2>2 DEF Outstanding, InService
  <2> QED BY <2>5, <2>6 DEF Keeps
<1>5. CASE EndBatch(q)
  BY <1>1, <1>5 DEF EndBatch, InService, TypeOK
<1>6. CASE ProcessTask(q)
  BY <1>1, <1>6 DEF ProcessTask, InService, TypeOK
<1>7. CASE ProcessUpdate(q)
  <2>1. \E place \in {"finish", "nested"} : wpc' = [wpc EXCEPT ![q] = place]
    BY <1>7 DEF ProcessUpdate
  <2>2. wpc[q] = "process" /\ UNCHANGED <<stack, cur, batch>>
    BY <1>7 DEF ProcessUpdate
  <2> QED BY <1>1, <2>1, <2>2 DEF InService, TypeOK
<1>8. CASE NestedCallReturned(q)
  BY <1>1, <1>8 DEF NestedCallReturned, InService, TypeOK
<1>9. CASE SignalAllCompleted(q)
  <2>1. \E place \in {"next", "threw"} : wpc' = [wpc EXCEPT ![q] = place]
    BY <1>9 DEF SignalAllCompleted
  <2>2. wpc[q] = "signalAll" /\ UNCHANGED <<stack, cur, batch>>
    BY <1>9 DEF SignalAllCompleted
  <2> QED BY <1>1, <2>1, <2>2 DEF InService, TypeOK
<1> QED BY <1>2, <1>3, <1>4, <1>5, <1>6, <1>7, <1>8, <1>9 DEF WorkerStep

\* Deleting what is on the stack leaves the older tasks of the queue.
LEMMA DeleteKeepsPrefix ==
    ASSUME TypeOK, Placed, NEW d \in Destroyers, DeleteTasks(d), NEW q \in Queues
    PROVE  \E rest \in Seq(Tasks) : Outstanding(q) = Outstanding(q)' \o rest
<1>1. InService(q)' = InService(q) /\ batch'[q] = batch[q]
  BY DEF DeleteTasks, InService, workerVars
<1>2. Reverse(stack[q]) \in Seq(Tasks) /\ InService(q) \o batch[q] \in Seq(Tasks)
  BY OutstandingType, ConcatProperties
<1>3. CASE stack'[q] = << >>
  <2>1. Outstanding(q)' = InService(q) \o batch[q]
    BY <1>1, <1>2, <1>3, ReverseEmpty, ConcatEmptySeq DEF Outstanding
  <2> QED BY <1>2, <2>1 DEF Outstanding
<1>4. CASE stack'[q] = stack[q]
  <2>1. Outstanding(q)' = Outstanding(q)
    BY <1>1, <1>4 DEF Outstanding
  <2> QED BY <2>1, OutstandingType, ConcatEmptySeq, EmptySeq
<1> QED BY <1>3, <1>4 DEF DeleteTasks, TypeOK
-----------------------------------------------------------------------------
(* Who has a task.                                                         *)

Waiting(t, q) == InQueueSync(t) /\ ~isComplete[t] /\ cq[t] = q

\* A queue holds the tasks of threads that wait for it, each once.
SyncOwned ==
    /\ \A q \in Queues : \A t \in ToSet(Outstanding(q)) \cap SyncThreads : Waiting(t, q)
    /\ \A q \in Queues : IsInjective(Outstanding(q))
    /\ \A t \in SyncThreads : cpc[t] = "push" => ~isComplete[t]

InHand == {hand[p] : p \in Producers} \cap AsyncTasks
Queued == ToSet(Outstanding("NonRT")) \cap AsyncTasks

\* The allocated task objects are split between the free list, the producers
\* and the non-real-time queue.
Split ==
    /\ allocated = freeList \cup InHand \cup Queued
    /\ freeList \cap InHand = {} /\ freeList \cap Queued = {} /\ InHand \cap Queued = {}
    /\ \A p, r \in Producers : hand[p] = hand[r] /\ hand[p] \in AsyncTasks => p = r

AsyncOwned ==
    /\ ToSet(Outstanding("RT")) \cap AsyncTasks = {}
    /\ dpc # "done" => Split

LEMMA AddsHolds ==
    ASSUME TypeOK, Placed, NEW r \in Queues, NEW x \in Tasks, Adds(r, x)
    PROVE  \A q \in Queues :
             /\ ToSet(Outstanding(q)') = IF q = r THEN ToSet(Outstanding(q)) \cup {x}
                                                  ELSE ToSet(Outstanding(q))
             /\ IsInjective(Outstanding(q)) /\ x \notin ToSet(Outstanding(q))
                  => IsInjective(Outstanding(q)')
<1> TAKE q \in Queues
<1>1. ASSUME NEW s \in Seq(Tasks)
      PROVE  /\ ToSet(Append(s, x)) = ToSet(s) \cup {x}
             /\ IsInjective(s) /\ x \notin ToSet(s) => IsInjective(Append(s, x))
  BY AppendHolds
<1>2. Outstanding(q) \in Seq(Tasks)
  BY OutstandingType
<1>3. CASE q = r
  BY <1>1, <1>2, <1>3 DEF Adds
<1>4. CASE q # r
  BY <1>4 DEF Adds
<1> QED BY <1>3, <1>4

LEMMA RemovesHolds ==
    ASSUME NEW r \in Queues, NEW x \in Tasks, Removes(r, x), Outstanding(r)' \in Seq(Tasks)
    PROVE  /\ Outstanding(r) # << >>
           /\ Head(Outstanding(r)) = x /\ Tail(Outstanding(r)) = Outstanding(r)'
           /\ ToSet(Outstanding(r)) = {x} \cup ToSet(Outstanding(r)')
           /\ IsInjective(Outstanding(r)) =>
                IsInjective(Outstanding(r)') /\ x \notin ToSet(Outstanding(r)')
<1>1. ASSUME NEW s \in Seq(Tasks)
      PROVE  /\ <<x>> \o s # << >>
             /\ Head(<<x>> \o s) = x /\ Tail(<<x>> \o s) = s
             /\ ToSet(<<x>> \o s) = {x} \cup ToSet(s)
             /\ IsInjective(<<x>> \o s) => IsInjective(s) /\ x \notin ToSet(s)
  BY FirstHolds
<1> QED BY <1>1 DEF Removes

\* A step that leaves the queues and the task objects alone, and makes no
\* waiting thread leave.
LEMMA CallsKeepOwned ==
    ASSUME SyncOwned, AsyncOwned, Keeps, UNCHANGED <<hand, freeList, allocated>>,
           dpc = "done" => dpc' = "done",
           \A t \in SyncThreads, q \in Queues : Waiting(t, q) => Waiting(t, q)',
           \A t \in SyncThreads : cpc'[t] = "push" => ~isComplete'[t]
    PROVE  SyncOwned' /\ AsyncOwned'
<1>1. \A q \in Queues : Outstanding(q)' = Outstanding(q)
  BY DEF Keeps
<1>2. SyncOwned'
  BY <1>1 DEF SyncOwned
<1>3. InHand' = InHand /\ Queued' = Queued /\ Outstanding("RT")' = Outstanding("RT")
  BY <1>1 DEF InHand, Queued, Queues
<1>4. AsyncOwned'
  <2>1. UNCHANGED <<hand, freeList, allocated, InHand, Queued>>
    BY <1>3
  <2>2. ToSet(Outstanding("RT")') \cap AsyncTasks = {}
    BY <1>3 DEF AsyncOwned
  <2>3. Split => Split'
    BY <2>1 DEF Split
  <2>4. dpc' # "done" => Split'
    BY <2>3 DEF AsyncOwned
  <2> QED BY <2>2, <2>4 DEF AsyncOwned
<1> QED BY <1>2, <1>4

\* A thread that enters QueueSync was idle, so nobody holds its task.
LEMMA EnterKeepsOwned ==
    ASSUME TypeOK, Placed, SyncOwned, AsyncOwned, NEW t \in SyncThreads, NEW q \in Queues, NEW id,
           EnterQueueSync(t, q, id), Keeps, UNCHANGED <<hand, freeList, allocated>>,
           dpc = "done" => dpc' = "done"
    PROVE  SyncOwned' /\ AsyncOwned'
<1>1. ASSUME NEW u \in SyncThreads, NEW r \in Queues, Waiting(u, r) PROVE Waiting(u, r)'
  <2>1. u # t
    BY <1>1 DEF Waiting, InQueueSync, EnterQueueSync
  <2> QED BY <1>1, <2>1 DEF Waiting, InQueueSync, EnterQueueSync, TypeOK
<1>2. \A u \in SyncThreads : cpc'[u] = "push" => ~isComplete'[u]
  BY DEF EnterQueueSync, SyncOwned, TypeOK
<1> QED BY <1>1, <1>2, CallsKeepOwned

LEMMA CallKeepsOwned ==
    ASSUME TypeOK, Placed, SyncOwned, AsyncOwned, NEW t \in SyncThreads, CallStep(t)
    PROVE  SyncOwned' /\ AsyncOwned'
<1> USE DEF workerVars, callVars, producerVars, dtorVars
<1>1. CASE PushSync(t)
  <2>1. cq[t] \in Queues /\ t \in Tasks /\ t \notin AsyncTasks
    BY TaskQueueAssumption DEF TypeOK, Tasks, SyncThreads
  <2>2. Adds(cq[t], t)
    BY <1>1, <2>1, PushAdds DEF PushSync
  <2> DEFINE r == cq[t]
  <2>3. \A q \in Queues : t \notin ToSet(Outstanding(q))
    BY <1>1 DEF PushSync, SyncOwned, Waiting, InQueueSync
  <2>4. \A q \in Queues :
          /\ ToSet(Outstanding(q)') = IF q = r THEN ToSet(Outstanding(q)) \cup {t}
                                               ELSE ToSet(Outstanding(q))
          /\ IsInjective(Outstanding(q)) => IsInjective(Outstanding(q)')
    BY <2>1, <2>2, <2>3, AddsHolds
  <2>5. /\ cpc' = [cpc EXCEPT ![t] = "signal"] /\ isComplete' = isComplete /\ cq' = cq
        /\ cpc[t] = "push" /\ UNCHANGED <<hand, freeList, allocated, dpc>>
    BY <1>1 DEF PushSync
  <2>6. \A u \in SyncThreads, q \in Queues : Waiting(u, q) => Waiting(u, q)'
    BY <2>5 DEF Waiting, InQueueSync, TypeOK
  <2>7. InQueueSync(t)' /\ ~isComplete'[t] /\ cq'[t] = r
    BY <2>5 DEF InQueueSync, TypeOK, SyncOwned
  <2>8. ASSUME NEW q \in Queues, NEW u \in ToSet(Outstanding(q)') \cap SyncThreads
        PROVE Waiting(u, q)'
    <3>1. CASE u \in ToSet(Outstanding(q))
      BY <2>6, <3>1 DEF SyncOwned
    <3>2. CASE u = t /\ q = r
      BY <2>7, <3>2 DEF Waiting
    <3> QED BY <2>4, <3>1, <3>2
  <2>9. \A u \in SyncThreads : cpc'[u] = "push" => ~isComplete'[u]
    BY <2>5 DEF SyncOwned, TypeOK
  <2>10. SyncOwned'
    BY <2>4, <2>8, <2>9 DEF SyncOwned
  <2>11. \A q \in Queues : ToSet(Outstanding(q)') \cap AsyncTasks = ToSet(Outstanding(q)) \cap AsyncTasks
    BY <2>1, <2>4
  <2>12. Queued' = Queued /\ InHand' = InHand
           /\ ToSet(Outstanding("RT")') \cap AsyncTasks = ToSet(Outstanding("RT")) \cap AsyncTasks
    BY <2>5, <2>11 DEF Queued, InHand, Queues
  <2>13. AsyncOwned'
    BY <2>5, <2>12 DEF AsyncOwned, Split
  <2> QED BY <2>10, <2>13
<1>2. CASE ~PushSync(t)
  <2>1. Keeps
    BY <1>2 DEF CallStep, Keeps, Outstanding, InService, SignalSync, CheckComplete,
                BlockOnCompleted, TimeOut
  <2>2. UNCHANGED <<hand, freeList, allocated, dpc>>
    BY <1>2 DEF CallStep, SignalSync, CheckComplete, BlockOnCompleted, TimeOut
  <2>3. CASE CheckComplete(t) /\ isComplete[t]
    <3>1. /\ cpc' = [cpc EXCEPT ![t] = "idle"] /\ cq' = [cq EXCEPT ![t] = "RT"]
          /\ isComplete' = [isComplete EXCEPT ![t] = FALSE]
      BY <2>3 DEF CheckComplete
    <3>2. \A u \in SyncThreads, q \in Queues : Waiting(u, q) => Waiting(u, q)'
      BY <2>3, <3>1 DEF Waiting, InQueueSync, TypeOK
    <3>3. \A u \in SyncThreads : cpc'[u] = "push" => ~isComplete'[u]
      BY <3>1 DEF SyncOwned, TypeOK
    <3> QED BY <2>1, <2>2, <3>2, <3>3, CallsKeepOwned
  <2>4. CASE ~(CheckComplete(t) /\ isComplete[t])
    <3>1. \E place \in {"check", "wait", "blocked"} :
            /\ cpc' = [cpc EXCEPT ![t] = place] /\ UNCHANGED <<cq, isComplete>>
            /\ InQueueSync(t)
      BY <1>2, <2>4 DEF CallStep, SignalSync, CheckComplete, BlockOnCompleted, TimeOut, InQueueSync
    <3>2. \A u \in SyncThreads, q \in Queues : Waiting(u, q) => Waiting(u, q)'
      BY <3>1 DEF Waiting, InQueueSync, TypeOK
    <3>3. \A u \in SyncThreads : cpc'[u] = "push" => ~isComplete'[u]
      BY <3>1 DEF SyncOwned, TypeOK
    <3> QED BY <2>1, <2>2, <3>2, <3>3, CallsKeepOwned
  <2> QED BY <2>3, <2>4
<1> QED BY <1>1, <1>2

LEMMA ProducerKeepsOwned ==
    ASSUME TypeOK, Placed, SyncOwned, AsyncOwned, NEW p \in Producers,
           ProducerStep(p) \/ \E id \in {"Update", "Notify"} : TakeFreeTask(p, id)
    PROVE  SyncOwned' /\ AsyncOwned'
<1> USE DEF workerVars, callVars, producerVars, dtorVars
<1>1. NoTask \notin AsyncTasks /\ SyncThreads \cap AsyncTasks = {} /\ "RT" # "NonRT"
        /\ "RT" \in Queues /\ "NonRT" \in Queues
  BY TaskQueueAssumption DEF SyncThreads, Queues
<1>2. dpc' = dpc /\ UNCHANGED callVars
  BY DEF ProducerStep, PushAsync, SignalAsync, TakeFreeTask
<1>3. ASSUME NEW id \in {"Update", "Notify"}, TakeFreeTask(p, id) PROVE SyncOwned' /\ AsyncOwned'
  <2>1. Keeps
    BY <1>3 DEF TakeFreeTask, Keeps, Outstanding, InService
  <2>2. SyncOwned'
    BY <1>2, <2>1 DEF SyncOwned, Keeps, Waiting, InQueueSync
  <2>3. Split
    BY <1>3 DEF TakeFreeTask, AsyncOwned
  <2>4. PICK a \in IF freeList # {} THEN freeList ELSE AsyncTasks \ allocated :
          /\ freeList' = freeList \ {a}
          /\ allocated' = allocated \cup {a}
          /\ hand' = [hand EXCEPT ![p] = a]
    BY <1>3 DEF TakeFreeTask
  <2>5. a \in AsyncTasks /\ a \notin InHand /\ a \notin Queued
    BY <2>3, <2>4 DEF Split, TypeOK
  <2>6. hand[p] \notin AsyncTasks
    BY <1>3 DEF TakeFreeTask, Placed
  <2>7. \A r \in Producers \ {p} : hand'[r] = hand[r]
    BY <2>4 DEF TypeOK
  <2>8. hand'[p] = a
    BY <2>4 DEF TypeOK
  <2>9. InHand' = InHand \cup {a}
    BY <2>5, <2>6, <2>7, <2>8 DEF InHand
  <2>10. Queued' = Queued
    BY <1>1, <2>1 DEF Queued, Keeps
  <2>11. \A r \in Producers : hand[r] # a
    BY <2>5 DEF InHand
  <2>12. \A r, s \in Producers : hand'[r] = hand'[s] /\ hand'[r] \in AsyncTasks => r = s
    BY <2>3, <2>7, <2>8, <2>11 DEF Split
  <2>13. Split'
    BY <2>3, <2>4, <2>5, <2>9, <2>10, <2>12 DEF Split
  <2>14. ToSet(Outstanding("RT")') \cap AsyncTasks = {}
    BY <1>1, <2>1 DEF AsyncOwned, Keeps
  <2> QED BY <2>2, <2>13, <2>14 DEF AsyncOwned
<1>4. CASE PushAsync(p)
  <2> DEFINE a == hand[p]
  <2>1. a \in AsyncTasks /\ a \in Tasks
    BY <1>4 DEF PushAsync, Placed, Tasks
  <2>2. Split
    BY <1>4 DEF PushAsync, AsyncOwned, Placed
  <2>3. /\ hand' = [hand EXCEPT ![p] = NoTask] /\ UNCHANGED <<freeList, allocated>>
        /\ stack' = [stack EXCEPT !["NonRT"] = <<a>> \o @] /\ UNCHANGED <<wpc, cur, batch>>
    BY <1>4 DEF PushAsync
  <2> HIDE DEF a
  <2>4. Adds("NonRT", a)
    BY <1>1, <2>1, <2>3, PushAdds
  <2>5. a \in InHand /\ a \notin Queued
    BY <2>1, <2>2 DEF a, InHand, Split
  <2>6. \A q \in Queues : a \notin ToSet(Outstanding(q))
    BY <2>1, <2>5 DEF Queued, AsyncOwned, Queues
  <2>7. \A q \in Queues :
          /\ ToSet(Outstanding(q)') = IF q = "NonRT" THEN ToSet(Outstanding(q)) \cup {a}
                                                     ELSE ToSet(Outstanding(q))
          /\ IsInjective(Outstanding(q)) => IsInjective(Outstanding(q)')
    BY <1>1, <2>1, <2>4, <2>6, AddsHolds
  <2>8. \A q \in Queues : ToSet(Outstanding(q)') \cap SyncThreads = ToSet(Outstanding(q)) \cap SyncThreads
    BY <1>1, <2>1, <2>7
  <2>9. SyncOwned'
    BY <1>2, <2>7, <2>8 DEF SyncOwned, Waiting, InQueueSync
  <2>10. Queued' = Queued \cup {a}
    BY <1>1, <2>1, <2>7 DEF Queued
  <2>11. \A r \in Producers \ {p} : hand'[r] = hand[r]
    BY <2>3 DEF TypeOK
  <2>12. hand'[p] = NoTask
    BY <2>3 DEF TypeOK
  <2>13. \A r \in Producers \ {p} : hand[r] # a
    BY <2>1, <2>2 DEF Split, a
  <2>14. InHand' = InHand \ {a}
    BY <1>1, <2>11, <2>12, <2>13 DEF InHand, a
  <2>15. \A r, s \in Producers : hand'[r] = hand'[s] /\ hand'[r] \in AsyncTasks => r = s
    BY <1>1, <2>2, <2>11, <2>12 DEF Split
  <2>16. Split'
    BY <2>2, <2>3, <2>5, <2>10, <2>14, <2>15 DEF Split
  <2>17. ToSet(Outstanding("RT")') \cap AsyncTasks = {}
    BY <1>1, <2>7 DEF AsyncOwned
  <2> QED BY <2>9, <2>16, <2>17 DEF AsyncOwned
<1>5. CASE SignalAsync(p)
  <2>1. Keeps /\ UNCHANGED <<hand, freeList, allocated, dpc>>
    BY <1>5 DEF SignalAsync, Keeps, Outstanding, InService
  <2>2. /\ \A t \in SyncThreads, q \in Queues : Waiting(t, q) => Waiting(t, q)'
        /\ \A t \in SyncThreads : cpc'[t] = "push" => ~isComplete'[t]
    BY <1>2 DEF Waiting, InQueueSync, SyncOwned
  <2> QED BY <2>1, <2>2, CallsKeepOwned
<1> QED BY <1>3, <1>4, <1>5 DEF ProducerStep

LEMMA WorkerKeepsOwned ==
    ASSUME TypeOK, Placed, SyncOwned, AsyncOwned, NEW q \in Queues, WorkerStep(q)
    PROVE  SyncOwned' /\ AsyncOwned'
<1> USE DEF workerVars, callVars, producerVars, dtorVars
<1>1. /\ SyncThreads \cap AsyncTasks = {} /\ Tasks = SyncThreads \cup AsyncTasks
      /\ "RT" # "NonRT" /\ Queues = {"RT", "NonRT"}
  BY TaskQueueAssumption DEF SyncThreads, Queues, Tasks
<1>2. CASE MarkCompleted(q)
  <2> DEFINE t == cur[q]
  <2>1. /\ wpc[q] = "finish" /\ t \in SyncThreads
        /\ isComplete' = [isComplete EXCEPT ![t] = TRUE]
        /\ cur' = [cur EXCEPT ![q] = NoTask] /\ wpc' = [wpc EXCEPT ![q] = "signalAll"]
        /\ UNCHANGED <<stack, batch, cpc, cq, freeList, allocated, hand, dpc>>
    BY <1>2 DEF MarkCompleted
  <2> HIDE DEF t
  <2>2. Removes(q, t) /\ Outstanding(q)' \in Seq(Tasks)
    BY <2>1, FinishRemoves DEF t
  <2>3. /\ ToSet(Outstanding(q)) = {t} \cup ToSet(Outstanding(q)')
        /\ IsInjective(Outstanding(q)') /\ t \notin ToSet(Outstanding(q)')
    <3>1. t \in Tasks
      BY <1>1, <2>1
    <3> QED BY <2>2, <3>1, RemovesHolds DEF SyncOwned
  <2>4. \A r \in Queues \ {q} : Outstanding(r)' = Outstanding(r)
    BY <2>2 DEF Removes
  <2>5. Waiting(t, q)
    BY <2>1, <2>3 DEF SyncOwned
  <2>6. \A r \in Queues : t \notin ToSet(Outstanding(r)')
    BY <2>1, <2>3, <2>4, <2>5 DEF SyncOwned, Waiting
  <2>7. \A r \in Queues : ToSet(Outstanding(r)') \subseteq ToSet(Outstanding(r))
    BY <2>3, <2>4
  <2>8. ASSUME NEW r \in Queues, NEW u \in ToSet(Outstanding(r)') \cap SyncThreads
        PROVE Waiting(u, r)'
    <3>1. Waiting(u, r) /\ u # t
      BY <2>6, <2>7 DEF SyncOwned
    <3> QED BY <2>1, <3>1 DEF Waiting, InQueueSync, TypeOK
  <2>9. \A u \in SyncThreads : cpc'[u] = "push" => ~isComplete'[u]
    BY <2>1, <2>5 DEF SyncOwned, Waiting, InQueueSync, TypeOK
  <2>10. \A r \in Queues : IsInjective(Outstanding(r)')
    BY <2>3, <2>4 DEF SyncOwned
  <2>11. SyncOwned'
    BY <2>8, <2>9, <2>10 DEF SyncOwned
  <2>12. \A r \in Queues : ToSet(Outstanding(r)') \cap AsyncTasks = ToSet(Outstanding(r)) \cap AsyncTasks
    BY <1>1, <2>1, <2>3, <2>4
  <2>13. UNCHANGED <<InHand, Queued, hand, freeList, allocated>>
           /\ ToSet(Outstanding("RT")') \cap AsyncTasks = {}
    BY <1>1, <2>1, <2>12 DEF Queued, InHand, AsyncOwned
  <2>14. AsyncOwned'
    BY <2>1, <2>13 DEF AsyncOwned, Split
  <2> QED BY <2>11, <2>14
<1>3. CASE RecycleTask(q)
  <2> DEFINE a == cur[q]
  <2>1. /\ wpc[q] = "finish" /\ a \in AsyncTasks /\ freeList' = freeList \cup {a}
        /\ cur' = [cur EXCEPT ![q] = NoTask] /\ wpc' = [wpc EXCEPT ![q] = "next"]
        /\ UNCHANGED <<stack, batch, callVars, allocated, hand, dpc>>
    BY <1>3 DEF RecycleTask
  <2> HIDE DEF a
  <2>2. Removes(q, a) /\ Outstanding(q)' \in Seq(Tasks)
    BY <2>1, FinishRemoves DEF a
  <2>3. /\ ToSet(Outstanding(q)) = {a} \cup ToSet(Outstanding(q)')
        /\ IsInjective(Outstanding(q)') /\ a \notin ToSet(Outstanding(q)')
    <3>1. a \in Tasks
      BY <1>1, <2>1
    <3> QED BY <2>2, <3>1, RemovesHolds DEF SyncOwned
  <2>4. \A r \in Queues \ {q} : Outstanding(r)' = Outstanding(r)
    BY <2>2 DEF Removes
  <2>5. q = "NonRT"
    BY <1>1, <2>1, <2>3 DEF AsyncOwned
  <2>6. \A r \in Queues : ToSet(Outstanding(r)') \subseteq ToSet(Outstanding(r))
                            /\ IsInjective(Outstanding(r)')
    BY <2>3, <2>4 DEF SyncOwned
  <2>7. SyncOwned'
    BY <2>1, <2>6 DEF SyncOwned, Waiting, InQueueSync
  <2>8. Queued = Queued' \cup {a} /\ a \notin Queued'
    BY <2>1, <2>3, <2>5 DEF Queued
  <2>9. InHand' = InHand
    BY <2>1 DEF InHand
  <2>10. Split => Split'
    BY <2>1, <2>8, <2>9 DEF Split
  <2>11. ToSet(Outstanding("RT")') \cap AsyncTasks = {}
    BY <1>1, <2>6 DEF AsyncOwned
  <2> QED BY <2>1, <2>7, <2>10, <2>11 DEF AsyncOwned
<1>4. CASE ~MarkCompleted(q) /\ ~RecycleTask(q)
  <2>1. Keeps
    BY <1>4, WorkerKeeps
  <2>2. UNCHANGED <<hand, freeList, allocated, dpc>>
    BY <1>4 DEF WorkerStep, WaitForWork, FetchTasks, NextTask, EndBatch, ProcessTask,
                ProcessUpdate, NestedCallReturned, SignalAllCompleted
  <2>3. CASE ProcessUpdate(q) /\ EnterQueueSync(NonRTWorker, "RT", "Swap")
    BY <1>1, <2>1, <2>2, <2>3, EnterKeepsOwned DEF SyncThreads
  <2>4. CASE SignalAllCompleted(q)
    <3>1. \A t \in SyncThreads :
            cpc'[t] = cpc[t] \/ (cpc[t] = "blocked" /\ cpc'[t] = "check")
      BY <2>4 DEF SignalAllCompleted, TypeOK
    <3>2. UNCHANGED <<isComplete, cq>>
      BY <2>4 DEF SignalAllCompleted
    <3>3. /\ \A t \in SyncThreads, r \in Queues : Waiting(t, r) => Waiting(t, r)'
          /\ \A t \in SyncThreads : cpc'[t] = "push" => ~isComplete'[t]
      BY <3>1, <3>2 DEF Waiting, InQueueSync, SyncOwned
    <3> QED BY <2>1, <2>2, <3>3, CallsKeepOwned
  <2>5. CASE UNCHANGED callVars
    <3>1. /\ \A t \in SyncThreads, r \in Queues : Waiting(t, r) => Waiting(t, r)'
          /\ \A t \in SyncThreads : cpc'[t] = "push" => ~isComplete'[t]
      BY <2>5 DEF Waiting, InQueueSync, SyncOwned
    <3> QED BY <2>1, <2>2, <3>1, CallsKeepOwned
  <2>6. \/ ProcessUpdate(q) /\ EnterQueueSync(NonRTWorker, "RT", "Swap")
        \/ SignalAllCompleted(q)
        \/ UNCHANGED callVars
    BY <1>4 DEF WorkerStep, WaitForWork, FetchTasks, NextTask, EndBatch, ProcessTask,
                ProcessUpdate, NestedCallReturned
  <2> QED BY <2>3, <2>4, <2>5, <2>6
<1> QED BY <1>2, <1>3, <1>4

LEMMA DestroyerKeepsOwned ==
    ASSUME TypeOK, Placed, SyncOwned, AsyncOwned, NEW d \in Destroyers,
           StopRealTimeThread(d) \/ DtorStep(d)
    PROVE  SyncOwned' /\ AsyncOwned'
<1> USE DEF workerVars, callVars, producerVars
<1>1. d \in SyncThreads /\ "RT" # "NonRT" /\ "RT" \in Queues /\ "NonRT" \in Queues
  BY DEF SyncThreads, Queues
<1>2. CASE StopRealTimeThread(d)
  <2>1. Keeps
    BY <1>2 DEF StopRealTimeThread, Keeps, Outstanding, InService
  <2>2. /\ EnterQueueSync(d, "RT", "Stop") /\ UNCHANGED <<hand, freeList, allocated>>
        /\ dpc = "alive"
    BY <1>2 DEF StopRealTimeThread
  <2> QED BY <1>1, <2>1, <2>2, EnterKeepsOwned
<1>3. CASE StopNonRealTimeThread(d)
  <2>1. Keeps
    BY <1>3 DEF StopNonRealTimeThread, Keeps, Outstanding, InService
  <2>2. /\ EnterQueueSync(d, "NonRT", "Stop") /\ UNCHANGED <<hand, freeList, allocated>>
        /\ dpc = "stopRT"
    BY <1>3 DEF StopNonRealTimeThread
  <2> QED BY <1>1, <2>1, <2>2, EnterKeepsOwned
<1>4. CASE DestroySemaphores(d)
  <2>1. Keeps /\ UNCHANGED <<hand, freeList, allocated, cpc, cq, isComplete>> /\ dpc = "stopNonRT"
    BY <1>4 DEF DestroySemaphores, Keeps, Outstanding, InService
  <2>2. /\ \A t \in SyncThreads, q \in Queues : Waiting(t, q) => Waiting(t, q)'
        /\ \A t \in SyncThreads : cpc'[t] = "push" => ~isComplete'[t]
    BY <2>1 DEF Waiting, InQueueSync, SyncOwned
  <2> QED BY <2>1, <2>2, CallsKeepOwned
<1>5. CASE DeleteTasks(d)
  <2>1. UNCHANGED <<cpc, cq, isComplete>> /\ dpc' = "done"
    BY <1>5 DEF DeleteTasks
  <2>2. ASSUME NEW q \in Queues
        PROVE  /\ ToSet(Outstanding(q)') \subseteq ToSet(Outstanding(q))
               /\ IsInjective(Outstanding(q)')
    <3>1. PICK rest \in Seq(Tasks) : Outstanding(q) = Outstanding(q)' \o rest
      BY <1>5, DeleteKeepsPrefix
    <3>2. Outstanding(q)' \in Seq(Tasks)
      <4>1. InService(q)' = InService(q) /\ batch'[q] = batch[q]
        BY <1>5 DEF DeleteTasks, InService
      <4>2. stack'[q] = << >> \/ stack'[q] = stack[q]
        BY <1>5 DEF DeleteTasks, TypeOK
      <4>3. Reverse(stack'[q]) \in Seq(Tasks)
        BY <4>2, OutstandingType, ReverseEmpty, EmptySeq
      <4>4. InService(q) \in Seq(Tasks) /\ batch[q] \in Seq(Tasks)
        BY OutstandingType
      <4> QED BY <4>1, <4>3, <4>4, ConcatProperties DEF Outstanding
    <3>3. ASSUME NEW s \in Seq(Tasks), NEW t \in Seq(Tasks)
          PROVE  /\ ToSet(s) \subseteq ToSet(s \o t)
                 /\ IsInjective(s \o t) => IsInjective(s)
      BY PrefixHolds
    <3>4. IsInjective(Outstanding(q))
      BY DEF SyncOwned
    <3>5. /\ ToSet(Outstanding(q)') \subseteq ToSet(Outstanding(q)' \o rest)
          /\ IsInjective(Outstanding(q)' \o rest) => IsInjective(Outstanding(q)')
      BY <3>2, <3>3
    <3> QED BY <3>1, <3>4, <3>5
  <2>3. SyncOwned'
    BY <2>1, <2>2 DEF SyncOwned, Waiting, InQueueSync
  <2>4. ToSet(Outstanding("RT")') \cap AsyncTasks = {}
    BY <1>1, <2>2 DEF AsyncOwned
  <2> QED BY <2>1, <2>3, <2>4 DEF AsyncOwned
<1> QED BY <1>2, <1>3, <1>4, <1>5 DEF DtorStep

LEMMA OwnedInvariant == Spec => [](TypeOK /\ Placed /\ SyncOwned /\ AsyncOwned)
<1> USE DEF workerVars, callVars, producerVars, dtorVars
<1>1. Init => SyncOwned /\ AsyncOwned
  <2> SUFFICES ASSUME Init PROVE SyncOwned /\ AsyncOwned
    OBVIOUS
  <2>1. ASSUME NEW q \in Queues PROVE Outstanding(q) = << >>
    <3>1. InService(q) = << >> /\ batch[q] = << >> /\ Reverse(stack[q]) = << >>
      BY ReverseEmpty DEF Init, InService
    <3>2. << >> \in Seq({})
      BY EmptySeq
    <3> QED BY <3>1, <3>2, ConcatEmptySeq DEF Outstanding
  <2>2. ToSet(<< >>) = {} /\ IsInjective(<< >>)
    BY DEF ToSet, IsInjective
  <2>3. SyncOwned
    BY <2>1, <2>2 DEF Init, SyncOwned
  <2>4. ToSet(Outstanding("RT")) = {} /\ Queued = {}
    BY <2>1, <2>2 DEF Queues, Queued
  <2>5. InHand = {} /\ \A p \in Producers : hand[p] \notin AsyncTasks
    BY TaskQueueAssumption DEF Init, InHand
  <2>6. Split
    BY <2>4, <2>5 DEF Split, Init
  <2> QED BY <2>3, <2>4, <2>6 DEF AsyncOwned
<1>2. TypeOK /\ Placed /\ SyncOwned /\ AsyncOwned /\ [Next]_vars => (SyncOwned /\ AsyncOwned)'
  <2> SUFFICES ASSUME TypeOK, Placed, SyncOwned, AsyncOwned, [Next]_vars
               PROVE SyncOwned' /\ AsyncOwned'
    OBVIOUS
  <2>1. CASE UNCHANGED vars
    <3>1. Keeps
      BY <2>1 DEF vars, Keeps, Outstanding, InService
    <3>2. /\ \A t \in SyncThreads, q \in Queues : Waiting(t, q) => Waiting(t, q)'
          /\ \A t \in SyncThreads : cpc'[t] = "push" => ~isComplete'[t]
      BY <2>1 DEF vars, Waiting, InQueueSync, SyncOwned
    <3>3. UNCHANGED <<hand, freeList, allocated, dpc>>
      BY <2>1 DEF vars
    <3> QED BY <3>1, <3>2, <3>3, CallsKeepOwned
  <2>2. ASSUME NEW t \in Callers, QueueSync(t) PROVE SyncOwned' /\ AsyncOwned'
    <3>1. t \in SyncThreads
      BY DEF SyncThreads
    <3>2. PICK q \in Queues : EnterQueueSync(t, q, IF q = "RT" THEN "Swap" ELSE "Update")
      BY <2>2 DEF QueueSync
    <3>3. Keeps /\ UNCHANGED <<hand, freeList, allocated, dpc>>
      BY <2>2 DEF QueueSync, Keeps, Outstanding, InService
    <3> QED BY <3>1, <3>2, <3>3, EnterKeepsOwned
  <2> QED BY <2>1, <2>2, CallKeepsOwned, ProducerKeepsOwned, WorkerKeepsOwned, DestroyerKeepsOwned
          DEF Next
<1> QED BY <1>1, <1>2, PlacedInvariant, PTL DEF Spec

\* A worker only ever reaches a synchronous task whose thread still waits for
\* it in QueueSync: the task's memory, on that thread's stack, is valid.
THEOREM SyncTasksStayLive == Spec => []SyncTasksLive
<1>1. SyncOwned => SyncTasksLive
  BY DEF SyncOwned, SyncTasksLive, Waiting
<1> QED BY <1>1, OwnedInvariant, PTL

\* While the queue is alive, an allocated task object is in exactly one place
\* and nothing is queued twice.
THEOREM TasksAreOwnedOnce == Spec => []TasksOwnedOnce
<1>1. TypeOK /\ SyncOwned /\ AsyncOwned => TasksOwnedOnce
  <2> SUFFICES ASSUME TypeOK, SyncOwned, AsyncOwned, dpc = "alive",
                      NEW a \in AsyncTasks
               PROVE  Cardinality(   {"free" : x \in {a} \cap freeList}
                                \cup {p \in Producers : hand[p] = a}
                                \cup {"queue" : x \in {a} \cap ToSet(Outstanding("NonRT"))})
                        = IF a \in allocated THEN 1 ELSE 0
    BY DEF TasksOwnedOnce, SyncOwned, AsyncOwned
  <2> DEFINE F == {"free" : x \in {a} \cap freeList}
             H == {p \in Producers : hand[p] = a}
             Q == {"queue" : x \in {a} \cap ToSet(Outstanding("NonRT"))}
  <2>1. Split
    BY DEF AsyncOwned
  <2>2. CASE a \notin allocated
    <3>1. a \notin freeList /\ a \notin ToSet(Outstanding("NonRT")) /\ \A p \in Producers : hand[p] # a
      BY <2>1, <2>2 DEF Split, InHand, Queued
    <3>2. F \cup H \cup Q = {}
      BY <3>1
    <3> QED BY <2>2, <3>2, FS_EmptySet
  <2>3. CASE a \in freeList
    <3>1. a \notin ToSet(Outstanding("NonRT")) /\ \A p \in Producers : hand[p] # a
      BY <2>1, <2>3 DEF Split, InHand, Queued
    <3>2. F \cup H \cup Q = {"free"}
      BY <2>3, <3>1
    <3>3. a \in allocated
      BY <2>1, <2>3 DEF Split
    <3> QED BY <3>2, <3>3, FS_Singleton
  <2>4. CASE a \in InHand
    <3>1. PICK p \in Producers : hand[p] = a
      BY <2>4 DEF InHand
    <3>2. a \notin freeList /\ a \notin ToSet(Outstanding("NonRT"))
      BY <2>1, <2>4 DEF Split, Queued
    <3>3. \A r \in Producers : hand[r] = a => r = p
      BY <2>1, <3>1 DEF Split
    <3>4. F \cup H \cup Q = {p}
      BY <3>1, <3>2, <3>3
    <3>5. a \in allocated
      BY <2>1, <2>4 DEF Split
    <3> QED BY <3>4, <3>5, FS_Singleton
  <2>5. CASE a \in Queued
    <3>1. a \notin freeList /\ a \in ToSet(Outstanding("NonRT")) /\ \A p \in Producers : hand[p] # a
      BY <2>1, <2>5 DEF Split, InHand, Queued
    <3>2. F \cup H \cup Q = {"queue"}
      BY <3>1
    <3>3. a \in allocated
      BY <2>1, <2>5 DEF Split
    <3> QED BY <3>2, <3>3, FS_Singleton
  <2> QED BY <2>1, <2>2, <2>3, <2>4, <2>5 DEF Split
<1> QED BY <1>1, OwnedInvariant, PTL
-----------------------------------------------------------------------------
(* The promise to the rest of the driver.                                  *)

\* What the queue shows of a thread.
Caller(t) == IF ~InQueueSync(t) THEN "idle" ELSE IF isComplete[t] THEN "served" ELSE "waiting"

ShownQueues == [q \in Queues |-> Outstanding(q)]
ShownCallers == [t \in SyncThreads |-> Caller(t)]

LEMMA ShownAs ==
    /\ Service!Next <=>
         \/ \E q \in Queues : Service!Serve(q)
         \/ \E q \in Queues, t \in SyncThreads : Service!SubmitSync(q, t)
         \/ \E q \in Queues, a \in AsyncTasks : Service!SubmitAsync(q, a)
         \/ \E t \in SyncThreads : Service!Return(t)
    /\ Service!vars = <<ShownQueues, ShownCallers>>
  BY DEF Service!Next, Service!vars, ShownQueues, ShownCallers, Caller

\* A step that the promise does not show.
LEMMA StutterShown ==
    ASSUME Keeps, \A t \in SyncThreads : Caller(t)' = Caller(t)
    PROVE  UNCHANGED Service!vars
<1>1. ShownQueues' = ShownQueues
  BY DEF Keeps, ShownQueues
<1>2. ShownCallers' = ShownCallers
  BY DEF ShownCallers
<1> QED BY <1>1, <1>2 DEF Service!vars, ShownQueues, ShownCallers, Caller

LEMMA EnterShown ==
    ASSUME TypeOK, NEW t \in SyncThreads, NEW q \in Queues, NEW id,
           EnterQueueSync(t, q, id), Keeps
    PROVE  UNCHANGED Service!vars
<1>1. ASSUME NEW u \in SyncThreads PROVE Caller(u)' = Caller(u)
  <2>1. CASE u = t
    BY <2>1 DEF EnterQueueSync, Caller, InQueueSync, TypeOK
  <2>2. CASE u # t
    BY <2>2 DEF EnterQueueSync, Caller, InQueueSync, TypeOK
  <2> QED BY <2>1, <2>2
<1> QED BY <1>1, StutterShown

LEMMA CallShown ==
    ASSUME TypeOK, Placed, SyncOwned, AsyncOwned, NEW t \in SyncThreads, CallStep(t)
    PROVE  [Service!Next]_(Service!vars)
<1> USE DEF workerVars, callVars, producerVars, dtorVars
<1>1. CASE PushSync(t)
  <2>1. cq[t] \in Queues /\ t \in Tasks
    BY DEF TypeOK, Tasks
  <2>2. Adds(cq[t], t)
    BY <1>1, <2>1, PushAdds DEF PushSync
  <2>3. ShownQueues' = [ShownQueues EXCEPT ![cq[t]] = Append(@, t)]
    BY <2>1, <2>2 DEF Adds, ShownQueues
  <2>4. Caller(t) = "idle" /\ Caller(t)' = "waiting"
    BY <1>1 DEF PushSync, Caller, InQueueSync, TypeOK, SyncOwned
  <2>5. \A u \in SyncThreads \ {t} : Caller(u)' = Caller(u)
    BY <1>1 DEF PushSync, Caller, InQueueSync, TypeOK
  <2>6. ShownCallers[t] = "idle" /\ ShownCallers' = [ShownCallers EXCEPT ![t] = "waiting"]
    BY <2>4, <2>5 DEF ShownCallers
  <2>7. Service!SubmitSync(cq[t], t)
    BY <2>3, <2>6 DEF Service!SubmitSync, ShownQueues, ShownCallers, Caller
  <2> QED BY <2>1, <2>7, ShownAs
<1>2. CASE CheckComplete(t) /\ isComplete[t]
  <2>1. Keeps
    BY <1>2 DEF CheckComplete, Keeps, Outstanding, InService
  <2>2. Caller(t) = "served" /\ Caller(t)' = "idle"
    BY <1>2 DEF CheckComplete, Caller, InQueueSync, TypeOK
  <2>3. \A u \in SyncThreads \ {t} : Caller(u)' = Caller(u)
    BY <1>2 DEF CheckComplete, Caller, InQueueSync, TypeOK
  <2>4. ShownCallers[t] = "served" /\ ShownCallers' = [ShownCallers EXCEPT ![t] = "idle"]
    BY <2>2, <2>3 DEF ShownCallers
  <2>5. ShownQueues' = ShownQueues
    BY <2>1 DEF Keeps, ShownQueues
  <2>6. Service!Return(t)
    BY <2>4, <2>5 DEF Service!Return, ShownQueues, ShownCallers, Caller
  <2> QED BY <2>6, ShownAs
<1>3. CASE ~PushSync(t) /\ ~(CheckComplete(t) /\ isComplete[t])
  <2>1. Keeps
    BY <1>3 DEF CallStep, Keeps, Outstanding, InService, SignalSync, CheckComplete,
                BlockOnCompleted, TimeOut
  <2>2. /\ \E place \in {"check", "wait", "blocked"} : cpc' = [cpc EXCEPT ![t] = place]
        /\ isComplete' = isComplete /\ InQueueSync(t)
    BY <1>3 DEF CallStep, SignalSync, CheckComplete, BlockOnCompleted, TimeOut, InQueueSync
  <2>3. \A u \in SyncThreads : Caller(u)' = Caller(u)
    BY <2>2 DEF Caller, InQueueSync, TypeOK
  <2> QED BY <2>1, <2>3, StutterShown
<1> QED BY <1>1, <1>2, <1>3

LEMMA ProducerShown ==
    ASSUME TypeOK, Placed, SyncOwned, AsyncOwned, NEW p \in Producers,
           ProducerStep(p) \/ \E id \in {"Update", "Notify"} : TakeFreeTask(p, id)
    PROVE  [Service!Next]_(Service!vars)
<1> USE DEF workerVars, callVars, producerVars, dtorVars
<1>1. UNCHANGED callVars
  BY DEF ProducerStep, PushAsync, SignalAsync, TakeFreeTask
<1>2. \A t \in SyncThreads : Caller(t)' = Caller(t)
  BY <1>1 DEF Caller, InQueueSync
<1>3. CASE PushAsync(p)
  <2>0. PICK a \in AsyncTasks : a = hand[p]
    BY <1>3 DEF PushAsync, Placed
  <2>1. a \in Tasks /\ "NonRT" \in Queues
    BY DEF Tasks, Queues
  <2>2. Split
    BY <1>3 DEF PushAsync, AsyncOwned, Placed
  <2>3. Adds("NonRT", a)
    BY <1>3, <2>0, <2>1, PushAdds DEF PushAsync
  <2>4. \A q \in Queues : a \notin ToSet(ShownQueues[q])
    <3>1. a \in InHand
      BY <2>0 DEF InHand
    <3>2. \A q \in Queues : a \notin ToSet(Outstanding(q))
      BY <2>1, <2>2, <3>1 DEF Split, Queued, AsyncOwned, Queues
    <3> QED BY <3>2 DEF ShownQueues
  <2>5. ShownQueues' = [ShownQueues EXCEPT !["NonRT"] = Append(@, a)]
    BY <2>1, <2>3 DEF Adds, ShownQueues
  <2>6. ShownCallers' = ShownCallers
    BY <1>2 DEF ShownCallers
  <2>7. Service!SubmitAsync("NonRT", a)
    BY <2>4, <2>5, <2>6
       DEF Service!SubmitAsync, Service!ToSet, ToSet, ShownQueues, ShownCallers, Caller
  <2> QED BY <2>1, <2>7, ShownAs
<1>4. CASE ~PushAsync(p)
  <2>1. Keeps
    BY <1>4 DEF ProducerStep, SignalAsync, TakeFreeTask, Keeps, Outstanding, InService
  <2> QED BY <1>2, <2>1, StutterShown
<1> QED BY <1>3, <1>4

LEMMA WorkerShown ==
    ASSUME TypeOK, Placed, SyncOwned, AsyncOwned, NEW q \in Queues, WorkerStep(q)
    PROVE  [Service!Next]_(Service!vars)
<1> USE DEF workerVars, callVars, producerVars, dtorVars
<1>1. SyncThreads \cap AsyncTasks = {} /\ Tasks = SyncThreads \cup AsyncTasks
  BY TaskQueueAssumption DEF SyncThreads, Tasks
<1>2. ASSUME wpc[q] = "finish", NEW place \in {"signalAll", "next"},
             wpc' = [wpc EXCEPT ![q] = place], cur' = [cur EXCEPT ![q] = NoTask],
             UNCHANGED <<stack, batch>>
      PROVE  /\ ShownQueues[q] # << >> /\ Head(ShownQueues[q]) = cur[q]
             /\ ShownQueues' = [ShownQueues EXCEPT ![q] = Tail(@)]
             /\ cur[q] \in ToSet(Outstanding(q))
  <2>1. cur[q] \in Tasks
    BY <1>2 DEF Placed
  <2>2. Removes(q, cur[q]) /\ Outstanding(q)' \in Seq(Tasks)
    BY <1>2, FinishRemoves
  <2>3. /\ Outstanding(q) # << >> /\ Head(Outstanding(q)) = cur[q]
        /\ Tail(Outstanding(q)) = Outstanding(q)' /\ cur[q] \in ToSet(Outstanding(q))
    BY <2>1, <2>2, RemovesHolds
  <2>4. \A r \in Queues \ {q} : Outstanding(r)' = Outstanding(r)
    BY <2>2 DEF Removes
  <2> QED BY <2>3, <2>4 DEF ShownQueues
<1>3. CASE MarkCompleted(q)
  <2>0. PICK t \in SyncThreads : t = cur[q]
    BY <1>3 DEF MarkCompleted
  <2>1. /\ wpc[q] = "finish"
        /\ isComplete' = [isComplete EXCEPT ![t] = TRUE] /\ UNCHANGED <<cpc, stack, batch>>
        /\ cur' = [cur EXCEPT ![q] = NoTask] /\ wpc' = [wpc EXCEPT ![q] = "signalAll"]
    BY <1>3, <2>0 DEF MarkCompleted
  <2>2. /\ ShownQueues[q] # << >> /\ Head(ShownQueues[q]) = t
        /\ ShownQueues' = [ShownQueues EXCEPT ![q] = Tail(@)]
        /\ t \in ToSet(Outstanding(q))
    BY <1>2, <2>0, <2>1
  <2>3. Caller(t)' = "served"
    BY <2>1, <2>2 DEF Caller, SyncOwned, Waiting, InQueueSync, TypeOK
  <2>4. \A u \in SyncThreads \ {t} : Caller(u)' = Caller(u)
    BY <2>1 DEF Caller, InQueueSync, TypeOK
  <2>5. ShownCallers' = [ShownCallers EXCEPT ![t] = "served"]
    BY <2>1, <2>3, <2>4 DEF ShownCallers
  <2>6. Service!Serve(q)
    BY <2>1, <2>2, <2>5 DEF Service!Serve, ShownQueues, ShownCallers, Caller
  <2> QED BY <2>6, ShownAs
<1>4. CASE RecycleTask(q)
  <2>1. /\ wpc[q] = "finish" /\ cur[q] \notin SyncThreads
        /\ UNCHANGED <<cpc, isComplete, stack, batch>>
        /\ cur' = [cur EXCEPT ![q] = NoTask] /\ wpc' = [wpc EXCEPT ![q] = "next"]
    BY <1>1, <1>4 DEF RecycleTask
  <2>2. /\ ShownQueues[q] # << >> /\ Head(ShownQueues[q]) = cur[q]
        /\ ShownQueues' = [ShownQueues EXCEPT ![q] = Tail(@)]
    BY <1>2, <2>1
  <2>3. ShownCallers' = ShownCallers
    BY <2>1 DEF ShownCallers, Caller, InQueueSync
  <2>4. Service!Serve(q)
    BY <2>1, <2>2, <2>3 DEF Service!Serve, ShownQueues, ShownCallers, Caller
  <2> QED BY <2>4, ShownAs
<1>5. CASE ProcessUpdate(q) /\ EnterQueueSync(NonRTWorker, "RT", "Swap")
  <2>1. Keeps /\ NonRTWorker \in SyncThreads /\ "RT" \in Queues
    BY <1>5, WorkerKeeps DEF ProcessUpdate, MarkCompleted, RecycleTask, SyncThreads, Queues
  <2> QED BY <1>5, <2>1, EnterShown
<1>6. CASE /\ ~MarkCompleted(q) /\ ~RecycleTask(q)
           /\ ~(ProcessUpdate(q) /\ EnterQueueSync(NonRTWorker, "RT", "Swap"))
  <2>1. Keeps
    BY <1>6, WorkerKeeps
  <2>2. /\ isComplete' = isComplete
        /\ \A t \in SyncThreads :
             cpc'[t] = cpc[t] \/ (cpc[t] = "blocked" /\ cpc'[t] = "check")
    <3>1. SignalAllCompleted(q) \/ UNCHANGED callVars
      BY <1>6 DEF WorkerStep, WaitForWork, FetchTasks, NextTask, EndBatch, ProcessTask,
                  ProcessUpdate, NestedCallReturned
    <3>2. SignalAllCompleted(q) =>
            \A t \in SyncThreads : cpc'[t] = cpc[t] \/ (cpc[t] = "blocked" /\ cpc'[t] = "check")
      BY DEF SignalAllCompleted
    <3> QED BY <3>1, <3>2 DEF SignalAllCompleted
  <2>3. \A t \in SyncThreads : Caller(t)' = Caller(t)
    BY <2>2 DEF Caller, InQueueSync
  <2> QED BY <2>1, <2>3, StutterShown
<1> QED BY <1>3, <1>4, <1>5, <1>6

LEMMA DestroyerShown ==
    ASSUME TypeOK, NEW d \in Destroyers, StopRealTimeThread(d) \/ DtorStep(d), dpc' # "done"
    PROVE  [Service!Next]_(Service!vars)
<1>1. d \in SyncThreads /\ "RT" \in Queues /\ "NonRT" \in Queues
  BY DEF SyncThreads, Queues
<1>2. Keeps
  BY DEF StopRealTimeThread, DtorStep, StopNonRealTimeThread, DestroySemaphores, DeleteTasks,
         workerVars, Keeps, Outstanding, InService
<1>3. CASE StopRealTimeThread(d) \/ StopNonRealTimeThread(d)
  BY <1>1, <1>2, <1>3, EnterShown DEF StopRealTimeThread, StopNonRealTimeThread
<1>4. CASE DestroySemaphores(d)
  <2>1. \A t \in SyncThreads : Caller(t)' = Caller(t)
    BY <1>4 DEF DestroySemaphores, callVars, Caller, InQueueSync
  <2> QED BY <1>2, <2>1, StutterShown
<1> QED BY <1>3, <1>4 DEF DtorStep, DeleteTasks

\* Until the queue is destroyed and deletes the tasks nobody will serve, it
\* keeps its promise: each of its two queues serves its tasks one at a time, in
\* the order they came, and a thread returns only after its own was served.
THEOREM ImplementsService == Spec /\ [](dpc # "done") => ServesInOrder
<1>1. Init => Service!Init
  <2> SUFFICES ASSUME Init PROVE Service!Init
    OBVIOUS
  <2>1. ASSUME NEW q \in Queues PROVE Outstanding(q) = << >>
    <3>1. InService(q) = << >> /\ batch[q] = << >> /\ Reverse(stack[q]) = << >>
      BY ReverseEmpty DEF Init, InService
    <3>2. << >> \in Seq({})
      BY EmptySeq
    <3> QED BY <3>1, <3>2, ConcatEmptySeq DEF Outstanding
  <2>2. \A t \in SyncThreads : ~InQueueSync(t)
    BY DEF Init, InQueueSync
  <2> QED BY <2>1, <2>2 DEF Service!Init
<1>2. /\ TypeOK /\ Placed /\ SyncOwned /\ AsyncOwned /\ [Next]_vars /\ (dpc # "done")'
      => [Service!Next]_(Service!vars)
  <2> SUFFICES ASSUME TypeOK, Placed, SyncOwned, AsyncOwned, [Next]_vars, dpc' # "done"
               PROVE [Service!Next]_(Service!vars)
    OBVIOUS
  <2>1. CASE UNCHANGED vars
    <3>1. Keeps /\ \A t \in SyncThreads : Caller(t)' = Caller(t)
      BY <2>1 DEF vars, workerVars, callVars, Keeps, Outstanding, InService, Caller, InQueueSync
    <3> QED BY <3>1, StutterShown
  <2>2. ASSUME NEW t \in Callers, QueueSync(t) PROVE [Service!Next]_(Service!vars)
    <3>1. t \in SyncThreads
      BY DEF SyncThreads
    <3>2. PICK q \in Queues : EnterQueueSync(t, q, IF q = "RT" THEN "Swap" ELSE "Update")
      BY <2>2 DEF QueueSync
    <3>3. Keeps
      BY <2>2 DEF QueueSync, workerVars, Keeps, Outstanding, InService
    <3> QED BY <3>1, <3>2, <3>3, EnterShown
  <2> QED BY <2>1, <2>2, CallShown, ProducerShown, WorkerShown, DestroyerShown DEF Next
<1> QED BY <1>1, <1>2, OwnedInvariant, PTL DEF Spec, ServesInOrder, Service!Spec
=============================================================================
