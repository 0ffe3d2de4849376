-------------------------- MODULE ThreadPoolProofs --------------------------
(***************************************************************************)
(* Proofs about ThreadPool for every pool size, clear mode and error mode: *)
(* the protocol between the owner and the workers, for both kinds of       *)
(* queue.  The meaning of the future is module FutureProofs.               *)
(***************************************************************************)
EXTENDS ThreadPoolInv, FiniteSetTheorems, TLAPS

-----------------------------------------------------------------------------
(* Facts about the operators of the model.                                 *)

\* The engaged workers are finitely many, so m_active can count them.
LEMMA EngagedFinite ==
    /\ IsFiniteSet(Engaged)
    /\ Cardinality(Engaged) \in 0 .. Size
<1>1. IsFiniteSet(Workers) /\ Cardinality(Workers) = Size
  BY PoolAssumption, FS_Interval DEF Workers
<1>2. Engaged \in SUBSET Workers
  BY DEF Engaged
<1>3. IsFiniteSet(Engaged) /\ Cardinality(Engaged) <= Cardinality(Workers)
  BY <1>1, <1>2, FS_Subset
<1>4. Cardinality(Engaged) \in Nat
  BY <1>3, FS_CardinalityType
<1> QED
  BY <1>1, <1>3, <1>4, PoolAssumption

\* A workload copied in by processWorkload(workload) is a sequence of tasks.
LEMMA FreshIsLoad ==
    ASSUME NEW n \in 0 .. MaxLoad, nextTask \in 1 .. MaxTask + 1,
           nextTask + n - 1 <= MaxTask
    PROVE  /\ Fresh(n) \in Seq(Tasks)
           /\ Len(Fresh(n)) = n
           /\ DOMAIN Fresh(n) = 1 .. n
           /\ \A k \in 1 .. n : Fresh(n)[k] = nextTask + k - 1
<1>1. \A k \in 1 .. n : nextTask + k - 1 \in Tasks
  BY PoolAssumption DEF Tasks
<1>2. Fresh(n) \in [1 .. n -> Tasks]
  BY <1>1 DEF Fresh
<1>3. n \in Nat
  BY PoolAssumption
<1>4. Fresh(n) \in Seq(Tasks)
  BY <1>2, <1>3
<1>5. Len(Fresh(n)) = n
  BY <1>2, <1>3, <1>4
<1> QED
  BY <1>2, <1>4, <1>5 DEF Fresh

-----------------------------------------------------------------------------
(* Type correctness.                                                       *)

\* A pool under construction is well typed.
LEMMA InitTypeOK == Init => TypeOK
<1> SUFFICES ASSUME Init PROVE TypeOK
  OBVIOUS
<1>1. workload \in Seq(Tasks) /\ Len(workload) <= MaxLoad
  BY PoolAssumption DEF Init
<1>2. dirty \in BOOLEAN
  BY Zenon DEF Init
<1>3. /\ busy \in [Workers -> BOOLEAN]
      /\ pc \in [Workers -> WorkerPCs]
  BY Zenon DEF Init, WorkerPCs
<1> QED
  BY <1>1, <1>2, <1>3, PoolAssumption DEF Init, TypeOK, Statuses, ClientPCs

\* A cleared workload.
LEMMA EmptyLoad ==
    ASSUME NEW s, s = << >>
    PROVE  s \in Seq(Tasks) /\ Len(s) = 0 /\ Len(s) <= MaxLoad /\ DOMAIN s = {}
  BY PoolAssumption

\* The position a running worker holds is one of the workload.
LEMMA CurTaskType ==
    ASSUME TypeOK, ProtocolInv, NEW w \in Workers, pc[w] \in {"run", "push"}
    PROVE  /\ cur[w] + 1 \in 1 .. Len(workload)
           /\ cur[w] + 1 \in DOMAIN workload
           /\ CurTask(w) \in Tasks
<1>1. cur[w] + 1 \in 1 .. Len(workload)
  BY DEF TypeOK, ProtocolInv
<1> QED
  BY <1>1 DEF CurTask, TypeOK

\* processWorkload(workload) keeps the types.
LEMMA AcceptTypeOK ==
    ASSUME TypeOK, NEW load \in Seq(Tasks), Len(load) <= MaxLoad, Accept(load)
    PROVE  /\ status' \in Statuses /\ workload' \in Seq(Tasks) /\ Len(workload') <= MaxLoad
           /\ dirty' \in BOOLEAN /\ active' \in 0 .. Size /\ index' \in Nat
           /\ result' \in {"none", "pending", "ready"}
           /\ client' \in ClientPCs /\ lastLoad' \subseteq Tasks
<1>1. Len(load) \in Nat /\ DOMAIN load = 1 .. Len(load) /\ \A i \in DOMAIN load : load[i] \in Tasks
  OBVIOUS
<1> QED
  BY <1>1, PoolAssumption DEF Accept, Statuses, ClientPCs, TasksOf

\* Every step keeps the types.
LEMMA NextTypeOK ==
    ASSUME TypeOK, ProtocolInv, [Next]_vars
    PROVE  TypeOK'
<1> USE PoolAssumption
<1>1. CASE Start
  BY <1>1 DEF TypeOK, Start, history, Statuses, WorkerPCs
<1>2. CASE AppendTask
  <2> DEFINE load == IF Clear = "AT_NEXT_WORKLOAD" /\ dirty THEN << >> ELSE workload
  <2>1. load \in Seq(Tasks) /\ Len(load) \in Nat
    BY DEF TypeOK
  <2>2. nextTask \in Tasks
    BY <1>2 DEF AppendTask, TypeOK, Tasks
  <2>3. Append(load, nextTask) \in Seq(Tasks) /\ Len(Append(load, nextTask)) = Len(load) + 1
    BY <2>1, <2>2
  <2> QED
    BY <1>2, <2>1, <2>3 DEF AppendTask, TypeOK, workerVars
<1>3. CASE Process
  <2> DEFINE load == IF Clear = "AT_NEXT_WORKLOAD" /\ status = "READY" /\ dirty THEN << >> ELSE workload
  <2>1. load \in Seq(Tasks) /\ Len(load) <= MaxLoad
    BY DEF TypeOK
  <2>2. CASE Accept(load)
    BY <1>3, <2>1, <2>2, AcceptTypeOK DEF Process, TypeOK, workerVars
  <2>3. CASE ~Accept(load)
    BY <1>3, <2>1, <2>3 DEF Process, Refuse, TypeOK, workerVars
  <2> QED
    BY <2>2, <2>3
<1>4. ASSUME NEW n \in 0 .. MaxLoad, ProcessWith(n) PROVE TypeOK'
  <2>1. Fresh(n) \in Seq(Tasks) /\ Len(Fresh(n)) <= MaxLoad
    BY <1>4, FreshIsLoad DEF ProcessWith, TypeOK
  <2>3. CASE Accept(Fresh(n))
    BY <1>4, <2>1, <2>3, AcceptTypeOK DEF ProcessWith, TypeOK, workerVars
  <2>4. CASE ~Accept(Fresh(n))
    <3>1. dirty' \in BOOLEAN
      BY <1>4, <2>4, Zenon DEF ProcessWith, Refuse, TypeOK
    <3>2. workload' = << >> \/ workload' = workload
      BY <1>4, <2>4 DEF ProcessWith, Refuse
    <3>3. workload' \in Seq(Tasks) /\ Len(workload') <= MaxLoad
      BY <3>2, EmptyLoad DEF TypeOK
    <3>4. UNCHANGED <<status, active, index, result, lastLoad, client>>
      BY <1>4, <2>4 DEF ProcessWith, Refuse
    <3> QED
      BY <1>4, <3>1, <3>3, <3>4 DEF ProcessWith, TypeOK, workerVars
  <2> QED
    BY <2>3, <2>4
<1>5. CASE Prepare
  BY <1>5 DEF Prepare, Notified, TypeOK, poolVars, history, Workers, WorkerPCs, ClientPCs
<1>6. CASE Await
  BY <1>6 DEF Await, TypeOK, poolVars, workerVars, history, ClientPCs
<1>7. CASE Destroy
  BY <1>7 DEF Destroy, Notified, TypeOK, history, WorkerPCs, ClientPCs, Statuses
<1>8. CASE Join
  BY <1>8 DEF Join, TypeOK, poolVars, workerVars, history, ClientPCs
<1>9. ASSUME NEW w \in Workers, WorkerStep(w) \/ SpuriousWakeup(w) PROVE TypeOK'
  <2>1. CASE WaitForWork(w)
    BY <2>1 DEF WaitForWork, Goto, TypeOK, poolVars, history, WorkerPCs
  <2>2. CASE SpuriousWakeup(w)
    BY <2>2 DEF SpuriousWakeup, Goto, TypeOK, poolVars, history, WorkerPCs
  <2>3. CASE Woken(w)
    BY <2>3 DEF Woken, Goto, TypeOK, poolVars, history, WorkerPCs
  <2>4. CASE FetchSq(w)
    BY <2>4 DEF FetchSq, Goto, TypeOK, history, WorkerPCs
  <2>5. CASE TestSq(w)
    BY <2>5 DEF TestSq, Goto, TypeOK, poolVars, history, WorkerPCs
  <2>6. CASE FetchMq(w)
    <3>1. it[w] + Size \in Nat
      BY DEF TypeOK
    <3>2. it' \in [Workers -> Nat] /\ cur' \in [Workers -> Nat]
      BY <2>6, <3>1 DEF FetchMq, TypeOK
    <3>3. pc' \in [Workers -> WorkerPCs]
      BY <2>6 DEF FetchMq, Goto, TypeOK, WorkerPCs
    <3> QED
      BY <2>6, <3>2, <3>3 DEF FetchMq, TypeOK, poolVars, history
  <2>7. CASE RunTask(w) \/ TaskThrows(w)
    <3>1. pc' \in [Workers -> WorkerPCs]
      BY <2>7 DEF RunTask, TaskThrows, Goto, TypeOK, WorkerPCs
    <3>2. ran' \in [Tasks -> Nat]
      <4>1. CurTask(w) \in Tasks
        BY <2>7, CurTaskType DEF RunTask, TaskThrows
      <4>2. ran' = [ran EXCEPT ![CurTask(w)] = ran[CurTask(w)] + 1]
        BY <2>7 DEF RunTask, TaskThrows, Started
      <4> QED
        BY <4>1, <4>2 DEF TypeOK
    <3> QED
      BY <2>7, <3>1, <3>2 DEF RunTask, TaskThrows, TypeOK, poolVars
  <2>8. CASE PushError(w)
    <3>1. CurTask(w) \in Tasks
      BY <2>8, CurTaskType DEF PushError
    <3> QED
      BY <2>8, <3>1 DEF PushError, Goto, TypeOK, history, WorkerPCs, Statuses
  <2>9. CASE Finish(w)
    BY <2>9 DEF Finish, Goto, TypeOK, poolVars, history, WorkerPCs
  <2>10. CASE Decrement(w)
    <3>1. active \in 1 .. Size
      <4>1. w \in Engaged
        BY <2>10 DEF Decrement, Engaged
      <4>2. client = "waiting"
        BY <2>10, <4>1 DEF Decrement, ProtocolInv, Quiet, TypeOK, ClientPCs
      <4>3. Cardinality(Engaged) # 0
        BY <4>1, EngagedFinite, FS_EmptySet
      <4> QED
        BY <4>2, <4>3, EngagedFinite DEF ProtocolInv
    <3> QED
      BY <2>10, <3>1 DEF Decrement, Goto, TypeOK, history, WorkerPCs
  <2>11. CASE Complete(w)
    <3>1. workload' \in Seq(Tasks) /\ Len(workload') <= MaxLoad /\ dirty' \in BOOLEAN
      <4>2. dirty' \in BOOLEAN
        BY <2>11, Zenon DEF Complete, TypeOK
      <4>3. workload' = << >> \/ workload' = workload
        BY <2>11 DEF Complete
      <4> QED
        BY <4>2, <4>3, EmptyLoad DEF TypeOK
    <3> QED
      BY <2>11, <3>1 DEF Complete, Goto, TypeOK, history, WorkerPCs, Statuses
  <2>12. CASE SetValue(w)
    BY <2>12 DEF SetValue, Goto, TypeOK, history, WorkerPCs
  <2> QED
    BY <1>9, <2>1, <2>2, <2>3, <2>4, <2>5, <2>6, <2>7, <2>8, <2>9, <2>10, <2>11, <2>12 DEF WorkerStep
<1>10. CASE UNCHANGED vars
  BY <1>10 DEF vars, poolVars, workerVars, history, TypeOK
<1> QED
  BY <1>1, <1>2, <1>3, <1>4, <1>5, <1>6, <1>7, <1>8, <1>9, <1>10 DEF Next, ClientStep, Gone

-----------------------------------------------------------------------------
(* The protocol between the owner and the workers.                         *)

\* A pool under construction keeps the protocol: nobody works yet.
LEMMA InitProtocol == Init => ProtocolInv
  BY DEF Init, ProtocolInv, Quiet, Engaged, Finishing, InDoWork

\* The part of ProtocolInv about one worker.
WorkerInv(w) ==
    /\ pc[w] \in InDoWork \cup {"push", "post"} => busy[w]
    /\ pc[w] \in {"run", "push"} => cur[w] < Len(workload)
    /\ pc[w] = "dec" => ~busy[w]
    /\ pc[w] = "woken" => busy[w] \/ status = "TERMINATING"
    /\ pc[w] = "exited" => status = "TERMINATING"
    /\ status = "STOPPED" => pc[w] = "none"
    /\ Finishing(w) =>
          /\ client = "waiting" /\ result = "pending" /\ Engaged = {}
          /\ \A v \in Workers : Finishing(v) => v = w
          /\ status = IF pc[w] = "set" THEN "READY" ELSE "PROCESSING"

\* A step of one worker that neither engages nor completes, and leaves the
\* shared state alone, keeps the protocol if it keeps it for that worker.
LEMMA LocalStep ==
    ASSUME TypeOK, ProtocolInv, NEW w \in Workers, NEW l \in WorkerPCs,
           pc' = [pc EXCEPT ![w] = l], ~Finishing(w),
           pc[w] # "dec", l \notin {"dec", "complete", "set", "none"},
           pc[w] # "exited", pc[w] # "none",
           cur' \in [Workers -> Nat], \A v \in Workers \ {w} : cur'[v] = cur[v],
           UNCHANGED <<status, workload, active, result, busy, client>>,
           l \in InDoWork \cup {"push", "post"} => busy[w],
           l \in {"run", "push"} => cur'[w] < Len(workload),
           l = "woken" => busy[w] \/ status = "TERMINATING",
           l = "exited" => status = "TERMINATING"
    PROVE  ProtocolInv'
<1>1. Engaged' = Engaged
  BY DEF Engaged, TypeOK
<1>2. \A v \in Workers : Finishing(v)' <=> Finishing(v)
  BY DEF Finishing, TypeOK
<1>3. Quiet' <=> Quiet
  BY <1>1, <1>2 DEF Quiet
<1>4. \A v \in Workers : pc'[v] = IF v = w THEN l ELSE pc[v]
  BY DEF TypeOK
<1>5. (\E v \in Workers : busy[v] /\ pc[v] = "exited") => (\E v \in Workers : busy[v] /\ pc[v] = "exited")'
  BY <1>4
<1>6. ASSUME NEW v \in Workers PROVE WorkerInv(v)'
  <2>1. CASE v = w
    BY <1>1, <1>2, <1>4, <2>1 DEF WorkerInv, ProtocolInv, Finishing
  <2>2. CASE v # w
    BY <1>1, <1>2, <1>4, <2>2 DEF WorkerInv, ProtocolInv, Finishing
  <2> QED
    BY <2>1, <2>2
<1> QED
  BY <1>1, <1>3, <1>5, <1>6 DEF ProtocolInv, WorkerInv

\* In a quiet pool no worker is between waitForWork() and set_value().
LEMMA QuietWorkers ==
    ASSUME TypeOK, ProtocolInv, Quiet, NEW w \in Workers
    PROVE  /\ ~busy[w]
           /\ pc[w] \in {"none", "wait", "blocked", "woken", "exited"}
  BY DEF TypeOK, ProtocolInv, Quiet, Engaged, Finishing, WorkerPCs, InDoWork

\* The owner changes m_workload or hands it out while the pool stays quiet.
LEMMA QuietStep ==
    ASSUME TypeOK, ProtocolInv, Quiet, UNCHANGED <<busy, cur, pc>>,
           status \in {"STOPPED", "READY"},
           status' = status \/ (status = "READY" /\ status' = "PROCESSING"),
           \/ client' = "idle" /\ status' = status
           \/ /\ client' = "prepare" /\ status' = "PROCESSING"
              /\ result' = "pending" /\ active' \in 1 .. Size
    PROVE  ProtocolInv'
<1>1. Engaged' = Engaged /\ Quiet'
  BY DEF Engaged, Quiet, Finishing
<1>2. ASSUME NEW v \in Workers PROVE WorkerInv(v)'
  BY <1>1, QuietWorkers DEF WorkerInv, Quiet, Finishing, InDoWork, ProtocolInv
<1> QED
  BY <1>1, <1>2 DEF ProtocolInv, WorkerInv

\* A workload is accepted only by a started pool and is not empty.
LEMMA AcceptActive ==
    ASSUME TypeOK, ProtocolInv, status = "READY", NEW load \in Seq(Tasks),
           load # << >>, Accept(load)
    PROVE  active' \in 1 .. Size
<1>1. Len(load) \in Nat \ {0}
  OBVIOUS
<1> QED
  BY <1>1, PoolAssumption DEF Accept, ProtocolInv

\* The steps of the thread that owns the pool keep the protocol.
LEMMA ClientProtocol ==
    ASSUME TypeOK, ProtocolInv, ClientStep
    PROVE  ProtocolInv'
<1>1. CASE Start
  <2>1. Quiet
    BY <1>1 DEF Start, ProtocolInv
  <2>2. \A w \in Workers : pc'[w] = "wait" /\ ~busy'[w]
    BY <1>1, <2>1, QuietWorkers DEF Start
  <2>3. Engaged' = {} /\ Quiet'
    BY <2>2 DEF Engaged, Quiet, Finishing
  <2>4. ASSUME NEW v \in Workers PROVE WorkerInv(v)'
    BY <1>1, <2>2 DEF Start, WorkerInv, Finishing, InDoWork
  <2> QED
    BY <1>1, <2>3, <2>4 DEF Start, ProtocolInv, WorkerInv
<1>2. CASE AppendTask
  BY <1>2, QuietStep DEF AppendTask, ProtocolInv, workerVars
<1>3. CASE Process
  <2> DEFINE load == IF Clear = "AT_NEXT_WORKLOAD" /\ status = "READY" /\ dirty THEN << >> ELSE workload
  <2>1. client = "idle" /\ Quiet /\ status \in {"STOPPED", "READY"} /\ UNCHANGED <<busy, cur, pc>>
    BY <1>3 DEF Process, ProtocolInv, workerVars
  <2>2. CASE status = "READY" /\ load # << >>
    <3>1. Accept(load)
      BY <1>3, <2>2 DEF Process
    <3>2. load \in Seq(Tasks)
      BY EmptyLoad DEF TypeOK
    <3>3. active' \in 1 .. Size
      BY <2>2, <3>1, <3>2, AcceptActive
    <3> QED
      BY <2>1, <2>2, <3>1, <3>3, QuietStep DEF Accept
  <2>3. CASE ~(status = "READY" /\ load # << >>)
    <3>1. UNCHANGED <<status, client>>
      BY <1>3, <2>3 DEF Process, Refuse
    <3> QED
      BY <2>1, <3>1, QuietStep
  <2> QED
    BY <2>2, <2>3
<1>4. ASSUME NEW n \in 0 .. MaxLoad, ProcessWith(n) PROVE ProtocolInv'
  <2>1. client = "idle" /\ Quiet /\ status \in {"STOPPED", "READY"} /\ UNCHANGED <<busy, cur, pc>>
    BY <1>4 DEF ProcessWith, ProtocolInv, workerVars
  <2>2. CASE status = "READY" /\ n # 0
    <3>1. Accept(Fresh(n))
      BY <1>4, <2>2 DEF ProcessWith
    <3>2. Fresh(n) \in Seq(Tasks) /\ Len(Fresh(n)) = n
      BY <1>4, FreshIsLoad DEF ProcessWith, TypeOK
    <3>3. Fresh(n) # << >>
      BY <2>2, <3>2, EmptyLoad
    <3>4. active' \in 1 .. Size
      BY <2>2, <3>1, <3>2, <3>3, AcceptActive
    <3> QED
      BY <2>1, <2>2, <3>1, <3>4, QuietStep DEF Accept
  <2>3. CASE ~(status = "READY" /\ n # 0)
    <3>1. UNCHANGED <<status, client>>
      BY <1>4, <2>3 DEF ProcessWith, Refuse
    <3> QED
      BY <2>1, <3>1, QuietStep
  <2> QED
    BY <2>2, <2>3
<1>5. CASE Prepare
  <2>1. Quiet /\ status = "PROCESSING" /\ result = "pending" /\ active \in 1 .. Size
    BY <1>5 DEF Prepare, ProtocolInv
  <2>2. \A w \in Workers : busy'[w] <=> w < active
    BY <1>5, <2>1, QuietWorkers DEF Prepare
  <2>3. \A w \in Workers : pc[w] # "woken" /\ pc[w] # "exited"
    BY <2>1, QuietWorkers DEF ProtocolInv
  <2>4. \A w \in Workers : pc'[w] \in {"none", "wait"}
    BY <1>5, <2>1, <2>3, QuietWorkers DEF Prepare, Notified
  <2>5. Engaged' = 0 .. active - 1
    BY <2>1, <2>2, <2>4, PoolAssumption DEF Engaged, Workers
  <2>6. Cardinality(Engaged') = active
    BY <2>1, <2>5, FS_Interval, PoolAssumption
  <2>7. ASSUME NEW v \in Workers PROVE WorkerInv(v)'
    BY <1>5, <2>1, <2>4 DEF Prepare, poolVars, WorkerInv, Finishing, InDoWork
  <2> QED
    BY <1>5, <2>1, <2>6, <2>7 DEF Prepare, poolVars, ProtocolInv, WorkerInv
<1>6. CASE Await
  <2>1. Engaged' = Engaged /\ (Quiet' <=> Quiet)
    BY <1>6 DEF Await, workerVars, Engaged, Quiet, Finishing
  <2>2. Quiet /\ status = "READY"
    BY <1>6 DEF Await, ProtocolInv
  <2>3. ASSUME NEW v \in Workers PROVE WorkerInv(v)'
    BY <1>6, <2>2, QuietWorkers DEF Await, workerVars, poolVars, WorkerInv, ProtocolInv, Quiet, Finishing, InDoWork
  <2> QED
    BY <1>6, <2>1, <2>2, <2>3 DEF Await, workerVars, poolVars, ProtocolInv, WorkerInv
<1>7. CASE Destroy
  <2>1. Quiet
    BY <1>7 DEF Destroy, ProtocolInv
  <2>2. \A w \in Workers : ~busy'[w] /\ pc'[w] \in {"none", "wait", "woken", "exited"}
    BY <1>7, <2>1, QuietWorkers DEF Destroy, Notified
  <2>3. Quiet'
    BY <2>2 DEF Quiet, Engaged, Finishing
  <2>4. ASSUME NEW v \in Workers PROVE WorkerInv(v)'
    BY <1>7, <2>2 DEF Destroy, WorkerInv, Finishing, InDoWork
  <2> QED
    BY <1>7, <2>3, <2>4 DEF Destroy, ProtocolInv, WorkerInv
<1>8. CASE Join
  <2>1. Engaged' = Engaged /\ (Quiet' <=> Quiet)
    BY <1>8 DEF Join, workerVars, Engaged, Quiet, Finishing
  <2>2. ASSUME NEW v \in Workers PROVE WorkerInv(v)'
    BY <1>8 DEF Join, workerVars, poolVars, WorkerInv, ProtocolInv, Finishing, InDoWork
  <2> QED
    BY <1>8, <2>1, <2>2 DEF Join, workerVars, poolVars, ProtocolInv, WorkerInv
<1> QED
  BY <1>1, <1>2, <1>3, <1>4, <1>5, <1>6, <1>7, <1>8 DEF ClientStep

\* The steps of a worker keep the protocol.
LEMMA WorkerProtocol ==
    ASSUME TypeOK, ProtocolInv, NEW w \in Workers, WorkerStep(w) \/ SpuriousWakeup(w)
    PROVE  ProtocolInv'
<1> USE DEF Goto
<1>1. CASE WaitForWork(w)
  BY <1>1, LocalStep DEF WaitForWork, poolVars, TypeOK, WorkerPCs, Finishing, InDoWork
<1>2. CASE SpuriousWakeup(w)
  BY <1>2, LocalStep DEF SpuriousWakeup, poolVars, TypeOK, WorkerPCs, Finishing, InDoWork
<1>3. CASE Woken(w)
  <2>1. status # "TERMINATING" => busy[w]
    BY <1>3 DEF Woken, ProtocolInv
  <2> QED
    BY <1>3, <2>1, LocalStep DEF Woken, poolVars, TypeOK, WorkerPCs, Finishing, InDoWork
<1>4. CASE FetchSq(w)
  <2>1. busy[w]
    BY <1>4 DEF FetchSq, ProtocolInv, InDoWork
  <2>2. cur' \in [Workers -> Nat] /\ \A v \in Workers \ {w} : cur'[v] = cur[v]
    BY <1>4 DEF FetchSq, TypeOK
  <2> QED
    BY <1>4, <2>1, <2>2, LocalStep DEF FetchSq, TypeOK, WorkerPCs, Finishing, InDoWork
<1>5. CASE TestSq(w)
  <2>1. busy[w]
    BY <1>5 DEF TestSq, ProtocolInv, InDoWork
  <2> QED
    BY <1>5, <2>1, LocalStep DEF TestSq, poolVars, TypeOK, WorkerPCs, Finishing, InDoWork
<1>6. CASE FetchMq(w)
  <2>1. busy[w]
    BY <1>6 DEF FetchMq, ProtocolInv, InDoWork
  <2>2. cur' \in [Workers -> Nat] /\ \A v \in Workers \ {w} : cur'[v] = cur[v]
    BY <1>6 DEF FetchMq, TypeOK
  <2>3. CASE it[w] < Len(workload) /\ status = "PROCESSING"
    <3>1. cur'[w] < Len(workload)
      BY <1>6, <2>3 DEF FetchMq, TypeOK
    <3> QED
      BY <1>6, <2>1, <2>2, <2>3, <3>1, LocalStep DEF FetchMq, poolVars, TypeOK, WorkerPCs, Finishing, InDoWork
  <2>4. CASE ~(it[w] < Len(workload) /\ status = "PROCESSING")
    BY <1>6, <2>1, <2>2, <2>4, LocalStep DEF FetchMq, poolVars, TypeOK, WorkerPCs, Finishing, InDoWork
  <2> QED
    BY <2>3, <2>4
<1>7. CASE RunTask(w)
  <2>1. busy[w]
    BY <1>7 DEF RunTask, ProtocolInv, InDoWork
  <2> QED
    BY <1>7, <2>1, LocalStep DEF RunTask, poolVars, TypeOK, WorkerPCs, Finishing, InDoWork
<1>8. CASE TaskThrows(w)
  <2>1. busy[w] /\ cur[w] < Len(workload)
    BY <1>8 DEF TaskThrows, ProtocolInv, InDoWork
  <2> QED
    BY <1>8, <2>1, LocalStep DEF TaskThrows, poolVars, TypeOK, WorkerPCs, Finishing, InDoWork
<1>9. CASE PushError(w) /\ ErrorMode # "TERMINATE"
  BY <1>9, LocalStep DEF PushError, TypeOK, WorkerPCs, Finishing, InDoWork
<1>10. CASE PushError(w) /\ ErrorMode = "TERMINATE"
  <2>1. pc[w] = "push" /\ busy[w]
    BY <1>10 DEF PushError, ProtocolInv
  <2>2. w \in Engaged
    BY <2>1 DEF Engaged
  <2>3. client = "waiting"
    BY <2>2 DEF ProtocolInv, Quiet, TypeOK, ClientPCs
  <2>4. \A v \in Workers : pc'[v] = IF v = w THEN "exited" ELSE pc[v]
    BY <1>10 DEF PushError, TypeOK
  <2>5. status' = "TERMINATING" /\ UNCHANGED <<workload, active, result, busy, cur, client>>
    BY <1>10 DEF PushError
  <2>6. Engaged' = Engaged
    BY <2>1, <2>4, <2>5 DEF Engaged
  <2>7. \A v \in Workers : ~Finishing(v)
    BY <2>2 DEF ProtocolInv
  <2>8. result # "ready"
    BY <2>2, <2>3 DEF ProtocolInv, Quiet
  <2>9. ASSUME NEW v \in Workers PROVE WorkerInv(v)'
    BY <2>4, <2>5, <2>7 DEF WorkerInv, ProtocolInv, Finishing, InDoWork
  <2> QED
    BY <2>1, <2>3, <2>4, <2>5, <2>6, <2>8, <2>9 DEF ProtocolInv, WorkerInv
<1>11. CASE Finish(w)
  <2>1. pc[w] = "post" /\ busy[w]
    BY <1>11 DEF Finish, ProtocolInv
  <2>2. w \in Engaged
    BY <2>1 DEF Engaged
  <2>3. \A v \in Workers : /\ pc'[v] = IF v = w THEN "dec" ELSE pc[v]
                           /\ busy'[v] <=> (busy[v] /\ v # w)
    BY <1>11 DEF Finish, TypeOK
  <2>4. UNCHANGED <<status, workload, active, result, cur, client>>
    BY <1>11 DEF Finish, poolVars
  <2>5. Engaged' = Engaged
    BY <2>1, <2>3 DEF Engaged
  <2>6. \A v \in Workers : ~Finishing(v) /\ ~Finishing(v)'
    BY <2>2, <2>3 DEF ProtocolInv, Finishing
  <2>7. Quiet' <=> Quiet
    BY <2>5, <2>6 DEF Quiet
  <2>8. ASSUME NEW v \in Workers PROVE WorkerInv(v)'
    <3>1. CASE v = w
      BY <2>1, <2>3, <2>4, <2>6, <3>1 DEF WorkerInv, ProtocolInv, InDoWork
    <3>2. CASE v # w
      <4>1. pc'[v] = pc[v] /\ (busy'[v] <=> busy[v]) /\ ~Finishing(v)'
        BY <2>3, <2>6, <3>2
      <4> QED
        BY <2>4, <4>1 DEF WorkerInv, ProtocolInv, InDoWork
    <3> QED
      BY <3>1, <3>2
  <2>9. (\E v \in Workers : busy[v] /\ pc[v] = "exited") => (\E v \in Workers : busy[v] /\ pc[v] = "exited")'
    BY <2>1, <2>3
  <2> QED
    BY <2>4, <2>5, <2>7, <2>8, <2>9 DEF ProtocolInv, WorkerInv
<1>12. CASE Decrement(w)
  <2>1. pc[w] = "dec" /\ w \in Engaged
    BY <1>12 DEF Decrement, Engaged
  <2>2. client = "waiting" /\ active = Cardinality(Engaged)
    BY <2>1 DEF ProtocolInv, Quiet, TypeOK, ClientPCs
  <2>3. ~busy[w]
    BY <2>1 DEF ProtocolInv
  <2>4. Engaged' = Engaged \ {w}
    BY <1>12, <2>1, <2>3 DEF Decrement, Engaged, TypeOK
  <2>5. Cardinality(Engaged') = active - 1 /\ IsFiniteSet(Engaged')
    BY <2>1, <2>2, <2>4, EngagedFinite, FS_RemoveElement
  <2>6. UNCHANGED <<status, workload, result, busy, cur, client>> /\ active' = active - 1
    BY <1>12 DEF Decrement
  <2>7. \A v \in Workers : ~Finishing(v)
    BY <2>1 DEF ProtocolInv
  <2>8. result # "ready" /\ status # "READY"
    BY <2>1, <2>2 DEF ProtocolInv, Quiet
  <2>9. CASE active = 1
    <3>1. Engaged' = {}
      BY <2>5, <2>9, FS_EmptySet
    <3>2. \A v \in Workers : ~busy[v]
      BY <2>6, <3>1 DEF Engaged
    <3>3. status = "PROCESSING"
      BY <2>2, <2>8, <3>2 DEF ProtocolInv, TypeOK, Statuses
    <3>4. result = "pending"
      BY <2>2, <2>8 DEF ProtocolInv, TypeOK
    <3>5. \A v \in Workers : pc'[v] = IF v = w THEN "complete" ELSE pc[v]
      BY <1>12, <2>9 DEF Decrement, TypeOK
    <3>6. ASSUME NEW v \in Workers PROVE WorkerInv(v)'
      BY <2>2, <2>6, <2>7, <3>1, <3>3, <3>4, <3>5 DEF WorkerInv, ProtocolInv, Finishing, InDoWork
    <3> QED
      BY <2>2, <2>5, <2>6, <3>1, <3>3, <3>4, <3>6 DEF ProtocolInv, WorkerInv
  <2>10. CASE active # 1
    <3>1. \A v \in Workers : pc'[v] = IF v = w THEN "wait" ELSE pc[v]
      BY <1>12, <2>10 DEF Decrement, TypeOK
    <3>2. \A v \in Workers : ~Finishing(v)'
      BY <2>7, <3>1 DEF Finishing
    <3>3. ASSUME NEW v \in Workers PROVE WorkerInv(v)'
      BY <2>1, <2>6, <3>1, <3>2 DEF WorkerInv, ProtocolInv, InDoWork
    <3>4. (\E v \in Workers : busy[v] /\ pc[v] = "exited") => (\E v \in Workers : busy[v] /\ pc[v] = "exited")'
      BY <2>1, <2>6, <3>1
    <3> QED
      BY <2>2, <2>5, <2>6, <2>8, <3>3, <3>4 DEF ProtocolInv, WorkerInv
  <2> QED
    BY <2>9, <2>10
<1>13. CASE Complete(w) \/ SetValue(w)
  <2>1. Finishing(w)
    BY <1>13 DEF Complete, SetValue, Finishing
  <2>2. client = "waiting" /\ Engaged = {} /\ \A v \in Workers : Finishing(v) => v = w
    BY <2>1 DEF ProtocolInv
  <2>3. \A v \in Workers : pc'[v] = IF v = w THEN (IF Complete(w) THEN "set" ELSE "wait") ELSE pc[v]
    BY <1>13 DEF Complete, SetValue, TypeOK
  <2>4. Engaged' = {} /\ UNCHANGED <<busy, cur, client, active>>
    BY <1>13, <2>2, <2>3 DEF Engaged, Complete, SetValue
  <2>5. \A v \in Workers : ~busy[v] /\ pc[v] \notin {"dec", "post", "push", "exited", "woken"} \cup InDoWork
    <3>1. status # "TERMINATING"
      BY <2>1 DEF ProtocolInv
    <3> QED
      BY <2>2, <3>1 DEF ProtocolInv, Engaged
  <2>6. active = 0 /\ Size > 0
    BY <2>1, <2>2, FS_EmptySet DEF ProtocolInv
  <2>7. CASE Complete(w)
    <3>1. status' = "READY" /\ result' = "pending"
      BY <2>1, <2>7 DEF Complete, ProtocolInv
    <3>2. ASSUME NEW v \in Workers PROVE WorkerInv(v)'
      <4>1. Finishing(v)' => v = w
        BY <2>2, <2>3, <2>7 DEF Finishing
      <4>2. \A u \in Workers : Finishing(u)' => u = w
        BY <2>2, <2>3, <2>7 DEF Finishing
      <4>3. Finishing(v)' => pc'[v] = "set"
        BY <2>3, <2>7, <4>1
      <4>4. pc'[v] \notin {"dec", "post", "push", "exited", "woken", "fetch", "test", "run"}
        BY <2>3, <2>5, <2>7 DEF InDoWork
      <4> QED
        BY <2>2, <2>4, <3>1, <4>1, <4>2, <4>3, <4>4 DEF WorkerInv, InDoWork
    <3> QED
      BY <2>2, <2>4, <2>6, <3>1, <3>2, FS_EmptySet DEF ProtocolInv, WorkerInv
  <2>8. CASE SetValue(w)
    <3>1. status' = "READY" /\ result' = "ready"
      BY <2>1, <2>8 DEF SetValue, ProtocolInv
    <3>2. ~Complete(w)
      BY <2>8 DEF Complete, SetValue
    <3>3. \A v \in Workers : ~Finishing(v)'
      BY <2>2, <2>3, <3>2 DEF Finishing
    <3>4. ASSUME NEW v \in Workers PROVE WorkerInv(v)'
      <4>1. pc'[v] \notin {"dec", "post", "push", "exited", "woken", "fetch", "test", "run"}
        BY <2>3, <2>5, <3>2 DEF InDoWork
      <4> QED
        BY <3>1, <3>3, <4>1 DEF WorkerInv, InDoWork
    <3> QED
      BY <2>2, <2>4, <2>6, <3>1, <3>3, <3>4, FS_EmptySet DEF ProtocolInv, WorkerInv, Quiet
  <2> QED
    BY <1>13, <2>7, <2>8
<1> QED
  BY <1>1, <1>2, <1>3, <1>4, <1>5, <1>6, <1>7, <1>8, <1>9, <1>10, <1>11, <1>12, <1>13 DEF WorkerStep

\* Every step keeps the protocol.
LEMMA NextProtocol ==
    ASSUME TypeOK, ProtocolInv, [Next]_vars
    PROVE  ProtocolInv'
<1>1. CASE ClientStep
  BY <1>1, ClientProtocol
<1>2. CASE \E w \in Workers : WorkerStep(w) \/ SpuriousWakeup(w)
  BY <1>2, WorkerProtocol
<1>3. CASE UNCHANGED vars
  BY <1>3 DEF vars, poolVars, workerVars, ProtocolInv, Quiet, Engaged, Finishing
<1> QED
  BY <1>1, <1>2, <1>3 DEF Next, Gone

\* Both kinds of queue, every clear and error mode: every reachable state is
\* well typed and keeps the protocol between owner and workers.
THEOREM Protocol == Spec => [](TypeOK /\ ProtocolInv)
<1>1. Init => TypeOK /\ ProtocolInv
  BY InitTypeOK, InitProtocol
<1>2. TypeOK /\ ProtocolInv /\ [Next]_vars => (TypeOK /\ ProtocolInv)'
  BY NextTypeOK, NextProtocol
<1> QED
  BY <1>1, <1>2, PTL DEF Spec

\* Type correctness; in particular m_active never leaves 0 .. m_size.
THEOREM TypeCorrect == Spec => []TypeOK
  BY Protocol, PTL

\* The owner that comes back from wait() finds a READY pool and idle workers.
THEOREM IdleReady == Spec => []IdlePoolIsReady
<1>1. TypeOK /\ ProtocolInv => IdlePoolIsReady
  BY DEF ProtocolInv, Quiet, Engaged, IdlePoolIsReady
<1> QED
  BY <1>1, Protocol, PTL

\* TERMINATING is final: only the last worker writes READY, and a pool that is
\* TERMINATING has none.
THEOREM TerminatingStays == Spec => TerminatingIsFinal
<1>1. TypeOK /\ ProtocolInv /\ [Next]_vars => [status = "TERMINATING" => status' = "TERMINATING"]_vars
  <2> SUFFICES ASSUME TypeOK, ProtocolInv, Next, status = "TERMINATING"
               PROVE  status' = "TERMINATING"
    BY DEF vars, poolVars
  <2>1. client # "idle"
    BY DEF ProtocolInv
  <2>2. CASE ClientStep
    BY <2>1, <2>2 DEF ClientStep, Start, AppendTask, Process, ProcessWith, Destroy, Prepare, Await, Join, poolVars
  <2>3. ASSUME NEW w \in Workers, WorkerStep(w) \/ SpuriousWakeup(w) PROVE status' = "TERMINATING"
    <3>1. pc[w] # "complete"
      BY DEF ProtocolInv, Finishing
    <3> QED
      BY <2>3, <3>1 DEF WorkerStep, SpuriousWakeup, WaitForWork, Woken, FetchSq, TestSq, FetchMq, RunTask,
                        TaskThrows, PushError, Finish, Decrement, Complete, SetValue, poolVars
  <2>4. CASE Gone
    BY <2>4 DEF Gone, vars, poolVars
  <2> QED
    BY <2>2, <2>3, <2>4 DEF Next
<1> QED
  BY <1>1, Protocol, PTL DEF Spec, TerminatingIsFinal

\* m_workload never changes under a worker that may index into it.
THEOREM LoadStable == Spec => LoadStableInDoWork
<1> DEFINE Reading(w) == pc[w] \in InDoWork \cup {"push"}
<1>1. TypeOK /\ ProtocolInv /\ [Next]_vars =>
         [workload' # workload => \A w \in Workers : pc[w] \notin InDoWork \cup {"push"}]_vars
  <2> SUFFICES ASSUME TypeOK, ProtocolInv, Next, workload' # workload, NEW v \in Workers, Reading(v)
               PROVE  FALSE
    BY DEF vars, poolVars
  <2>1. v \in Engaged
    BY DEF ProtocolInv, Engaged
  <2>2. client = "waiting"
    BY <2>1 DEF ProtocolInv, Quiet, TypeOK, ClientPCs
  <2>3. CASE ClientStep
    BY <2>2, <2>3 DEF ClientStep, Start, AppendTask, Process, ProcessWith, Destroy, Prepare, Await, Join, poolVars
  <2>4. ASSUME NEW w \in Workers, WorkerStep(w) \/ SpuriousWakeup(w) PROVE FALSE
    <3>1. pc[w] # "complete"
      BY <2>1 DEF ProtocolInv, Finishing
    <3> QED
      BY <2>4, <3>1 DEF WorkerStep, SpuriousWakeup, WaitForWork, Woken, FetchSq, TestSq, FetchMq, RunTask,
                        TaskThrows, PushError, Finish, Decrement, Complete, SetValue, poolVars
  <2>5. CASE Gone
    BY <2>5 DEF Gone, vars, poolVars
  <2> QED
    BY <2>3, <2>4, <2>5 DEF Next
<1> QED
  BY <1>1, Protocol, PTL DEF Spec, LoadStableInDoWork

\* With ErrorHandling::TERMINATE an exception strands the owner: the worker that
\* stored it is engaged for ever, so no worker completes the workload, and the
\* owner, who waits, has no step until the future is ready.
THEOREM Stranded == Spec => []TerminateStrandsOwner
<1> DEFINE Inv == TypeOK /\ ProtocolInv /\ StrandedInv
<1>1. Init => StrandedInv
  BY DEF Init, StrandedInv
<1>2. Inv /\ [Next]_vars => StrandedInv'
  <2> SUFFICES ASSUME TypeOK, ProtocolInv, StrandedInv, [Next]_vars,
                      ErrorMode = "TERMINATE", errors' # {}
               PROVE  client' = "waiting" /\ status' = "TERMINATING"
    BY DEF StrandedInv
  <2>1. ASSUME errors # {} PROVE client = "waiting" /\ status = "TERMINATING" /\ result # "ready"
    BY <2>1 DEF StrandedInv, ProtocolInv
  <2>2. CASE ClientStep
    BY <2>1, <2>2 DEF ClientStep, Start, AppendTask, Process, ProcessWith, Destroy, Prepare, Await, Join, poolVars
  <2>3. ASSUME NEW w \in Workers, PushError(w) PROVE client' = "waiting" /\ status' = "TERMINATING"
    <3>1. w \in Engaged
      BY <2>3 DEF PushError, ProtocolInv, Engaged
    <3>2. client = "waiting"
      BY <3>1 DEF ProtocolInv, Quiet, TypeOK, ClientPCs
    <3> QED
      BY <2>3, <3>2 DEF PushError
  <2>4. ASSUME NEW w \in Workers, WorkerStep(w) \/ SpuriousWakeup(w), ~PushError(w)
        PROVE  client' = "waiting" /\ status' = "TERMINATING"
    <3>1. errors' = errors /\ client' = client
      BY <2>4 DEF WorkerStep, SpuriousWakeup, WaitForWork, Woken, FetchSq, TestSq, FetchMq, RunTask,
                  TaskThrows, Finish, Decrement, Complete, SetValue, poolVars
    <3>2. pc[w] # "complete"
      BY <2>1, <3>1 DEF ProtocolInv, Finishing
    <3>3. status' = status
      BY <2>4, <3>2 DEF WorkerStep, SpuriousWakeup, WaitForWork, Woken, FetchSq, TestSq, FetchMq, RunTask,
                        TaskThrows, Finish, Decrement, Complete, SetValue, poolVars
    <3> QED
      BY <2>1, <3>1, <3>3
  <2>5. CASE Gone \/ UNCHANGED vars
    BY <2>1, <2>5 DEF Gone, vars, poolVars
  <2> QED
    BY <2>2, <2>3, <2>4, <2>5 DEF Next
<1>3. Inv => TerminateStrandsOwner
  BY DEF StrandedInv, ProtocolInv, TypeOK, TerminateStrandsOwner
<1> QED
  BY <1>1, <1>2, <1>3, Protocol, PTL DEF Spec
=============================================================================
