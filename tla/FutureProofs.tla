---------------------------- MODULE FutureProofs ----------------------------
(***************************************************************************)
(* The meaning of the future of ThreadPool, for both kinds of queue and    *)
(* every pool size, clear mode and error mode: each task runs once, and    *)
(* all have run when the future is ready; the pool is a fork/join.         *)
(***************************************************************************)
EXTENDS ThreadPoolProofs

-----------------------------------------------------------------------------
(* The shares of worker_mq.                                                *)

\* A position belongs to a worker that exists and is not past the position.
LEMMA Residue ==
    ASSUME NEW p \in Nat, NEW s \in Nat \ {0}
    PROVE  p % s \in 0 .. s - 1 /\ p % s <= p
  OBVIOUS

\* What quotient and residue are.
LEMMA Quotient ==
    ASSUME NEW p \in Int, NEW s \in Int, s > 0,
           NEW d \in Int, d = p \div s, NEW r \in Int, r = p % s
    PROVE  p = s * d + r
  OBVIOUS

\* A position is a multiple of m_size and its residue.
LEMMA Division ==
    ASSUME NEW p \in Nat, NEW s \in Nat \ {0}, NEW r \in Nat, r = p % s
    PROVE  \E d \in Nat : p = s * d + r
<1> DEFINE q == p \div s
<1>1. q \in Nat /\ q = p \div s
  OBVIOUS
<1> HIDE DEF q
<1>2. p \in Int /\ s \in Int /\ s > 0 /\ q \in Int /\ r \in Int
  BY <1>1
<1>3. p = s * q + r
  BY <1>1, <1>2, Quotient
<1> QED
  BY <1>1, <1>3

\* Equal residues: the distance is a multiple of m_size.
LEMMA ResidueDistance ==
    ASSUME NEW p \in Nat, NEW q \in Nat, NEW s \in Nat \ {0}, p % s = q % s
    PROVE  \E k \in Int : p - q = s * k
<1> DEFINE r == p % s
<1>1. r \in Nat
  BY Residue
<1>2. PICK a \in Nat : p = s * a + r
  BY <1>1, Division
<1>3. PICK b \in Nat : q = s * b + r
  BY <1>1, Division
<1> HIDE DEF r
<1>4. s * a \in Nat /\ s * b \in Nat /\ s * a - s * b = s * (a - b) /\ a - b \in Int
  OBVIOUS
<1>5. p - q = s * (a - b)
  BY <1>1, <1>2, <1>3, <1>4
<1> QED
  BY <1>4, <1>5

\* A multiple of m_size that is less than it in size is zero.
LEMMA SmallMultiple ==
    ASSUME NEW s \in Nat \ {0}, NEW k \in Int, -s < s * k, s * k < s
    PROVE  k = 0
<1>1. CASE k >= 1
  <2>1. PICK j \in Nat : k = 1 + j
    <3>1. k - 1 \in Nat /\ k = 1 + (k - 1)
      BY <1>1
    <3> QED
      BY <3>1
  <2>2. s * k = s + s * j /\ s * j \in Nat
    BY <2>1
  <2> QED
    BY <2>2
<1>2. CASE k <= -1
  <2>1. PICK j \in Nat : k = -1 - j
    <3>1. -1 - k \in Nat /\ k = -1 - (-1 - k)
      BY <1>2
    <3> QED
      BY <3>1
  <2>2. s * k = -s - s * j /\ s * j \in Nat
    BY <2>1
  <2> QED
    BY <2>2
<1> QED
  BY <1>1, <1>2

\* A cursor that is advanced by m_size stays with its worker.
LEMMA ResidueStep ==
    ASSUME NEW p \in Nat, NEW s \in Nat \ {0}
    PROVE  (p + s) % s = p % s
<1> DEFINE q == p + s  r == p % s  u == q % s
<1>1. q \in Nat /\ q = p + s /\ r = p % s /\ u = q % s
  OBVIOUS
<1>2. r \in 0 .. s - 1 /\ r \in Nat
  BY Residue
<1>3. u \in 0 .. s - 1 /\ u \in Nat
  BY <1>1, Residue
<1> HIDE DEF q, r, u
<1>4. PICK a \in Nat : p = s * a + r
  BY <1>1, <1>2, Division
<1>5. PICK b \in Nat : q = s * b + u
  BY <1>1, <1>3, Division, ZenonT(40)
<1>6. /\ s * a \in Nat /\ s * b \in Nat /\ b - a - 1 \in Int
      /\ s * b - s * a - s = s * (b - a - 1)
  OBVIOUS
<1>7. s * (b - a - 1) = r - u
  BY <1>1, <1>2, <1>3, <1>4, <1>5, <1>6
<1>8. b - a - 1 = 0
  <2>1. -s < s * (b - a - 1) /\ s * (b - a - 1) < s
    BY <1>2, <1>3, <1>7
  <2> QED
    BY <1>6, <2>1, SmallMultiple
<1>9. s * (b - a - 1) = 0
  BY <1>8
<1>10. r = u
  BY <1>2, <1>3, <1>7, <1>9
<1> QED
  BY <1>10 DEF q, r, u

\* A worker's share has nothing between two positions of its cursor.
LEMMA ResidueGap ==
    ASSUME NEW p \in Nat, NEW q \in Nat, NEW s \in Nat \ {0},
           p % s = q % s, p < q + s, p # q
    PROVE  p < q
<1>1. PICK k \in Int : p - q = s * k
  BY ResidueDistance
<1>2. CASE p >= q
  <2>1. -s < s * k /\ s * k < s
    BY <1>1, <1>2
  <2>2. k = 0
    BY <2>1, SmallMultiple
  <2>3. s * k = 0
    BY <2>2
  <2> QED
    BY <1>1, <2>3
<1> QED
  BY <1>2

-----------------------------------------------------------------------------
(* Facts about a state.                                                    *)

\* The positions of the workload.
LEMMA Position ==
    ASSUME TypeOK, NEW i \in DOMAIN workload
    PROVE  /\ Len(workload) \in Nat /\ i \in 1 .. Len(workload)
           /\ i - 1 \in Nat /\ i - 1 < Len(workload) /\ workload[i] \in Tasks
  BY DEF TypeOK

\* A worker only exists in a pool that is not empty.
LEMMA SomeSize ==
    ASSUME NEW w \in Workers
    PROVE  Size \in Nat \ {0} /\ w \in Nat
  BY PoolAssumption DEF Workers

\* Every position is in the share of a worker.
LEMMA ShareOf ==
    ASSUME TypeOK, Size \in Nat \ {0}, NEW i \in DOMAIN workload
    PROVE  (i - 1) % Size \in Workers /\ (i - 1) % Size <= i - 1
<1>1. i - 1 \in Nat
  BY Position
<1> QED
  BY <1>1, Residue DEF Workers

\* While a worker is at work the owner waits, and nobody completes.
LEMMA AtWork ==
    ASSUME TypeOK, ProtocolInv, NEW w \in Workers,
           pc[w] \in InDoWork \cup {"push", "post", "dec"}
    PROVE  /\ client = "waiting" /\ status \in {"PROCESSING", "TERMINATING"}
           /\ result # "ready" /\ \A v \in Workers : ~Finishing(v)
           /\ pc[w] # "dec" => busy[w]
<1>1. pc[w] # "dec" => busy[w]
  BY DEF ProtocolInv
<1>2. w \in Engaged
  BY <1>1 DEF Engaged
<1>3. client = "waiting"
  BY <1>2 DEF ProtocolInv, Quiet, TypeOK, ClientPCs
<1>4. result # "ready" /\ status # "READY" /\ status # "STOPPED"
  BY <1>2, <1>3 DEF ProtocolInv, Quiet
<1>5. \A v \in Workers : ~Finishing(v)
  BY <1>2 DEF ProtocolInv
<1> QED
  BY <1>1, <1>3, <1>4, <1>5 DEF TypeOK, Statuses

\* Who neither moves a cursor nor takes or starts a task leaves what is pending.
LEMMA PendingKept ==
    ASSUME TypeOK, Size \in Nat \ {0}, UNCHANGED <<cur, it, index>>,
           \A v \in Workers : Holds(v)' <=> Holds(v), NEW i \in DOMAIN workload
    PROVE  Pending(i)' <=> Pending(i)
  BY ShareOf DEF Pending

-----------------------------------------------------------------------------
(* Steps that leave most of the state alone.                               *)

\* A step that starts no task and leaves the workload keeps LoadInv.
LEMMA LoadKept ==
    ASSUME LoadInv, UNCHANGED <<workload, nextTask, ran, client, dirty, lastLoad>>,
           client = "waiting" \/ UNCHANGED <<active, index>>,
           \/ status' = status
           \/ client = "waiting" /\ status # "READY" /\ status' = "TERMINATING"
    PROVE  LoadInv'
  BY DEF LoadInv, Inside, TasksOf

\* A step that starts no task keeps RanInv if it makes nothing pending and,
\* unless the pool terminates, nothing done.
LEMMA RanKept ==
    ASSUME RanInv, UNCHANGED <<workload, ran, client, result, lastLoad>>,
           status' = status \/ (status # "READY" /\ status' = "TERMINATING"),
           \A i \in DOMAIN workload : Pending(i)' => Pending(i),
           status' = "PROCESSING" => \A i \in DOMAIN workload : Pending(i) => Pending(i)',
           \A v \in Workers : Finishing(v)' => Finishing(v)
    PROVE  RanInv'
<1>1. (client = "waiting" /\ status # "READY")' =>
          (\A i \in DOMAIN workload : Pending(i) => ran[workload[i]] = 0)'
  <2> SUFFICES ASSUME (client = "waiting" /\ status # "READY")', NEW i \in DOMAIN workload', Pending(i)'
               PROVE  (ran[workload[i]] = 0)'
    OBVIOUS
  <2> QED
    BY DEF RanInv
<1>2. (client = "waiting" /\ status = "PROCESSING")' =>
          (\A i \in DOMAIN workload : ~Pending(i) => ran[workload[i]] = 1)'
  <2> SUFFICES ASSUME (client = "waiting" /\ status = "PROCESSING")', NEW i \in DOMAIN workload', ~Pending(i)'
               PROVE  (ran[workload[i]] = 1)'
    OBVIOUS
  <2> QED
    BY DEF RanInv
<1>3. (result = "ready" \/ \E w \in Workers : Finishing(w))' => (\A t \in lastLoad : ran[t] = 1)'
  BY DEF RanInv
<1> QED
  BY <1>1, <1>2, <1>3 DEF RanInv

\* A pool whose workers all wait keeps ShareInv.
LEMMA QuietShare ==
    ASSUME client' # "waiting",
           \A w \in Workers : ~busy'[w] /\ pc'[w] \in {"none", "wait", "blocked", "woken", "exited"}
    PROVE  ShareInv'
  BY DEF ShareInv, Holds

-----------------------------------------------------------------------------
(* The owner of the pool.                                                  *)

\* A workload of new tasks that is handed out.
LEMMA AcceptLoad ==
    ASSUME TypeOK, LoadInv, NEW load \in Seq(Tasks), Accept(load),
           \A i \in DOMAIN load : load[i] < nextTask' /\ ran[load[i]] = 0,
           \A i, j \in DOMAIN load : load[i] = load[j] => i = j,
           nextTask' \in Nat, nextTask' >= nextTask, ran' = ran
    PROVE  LoadInv'
<1>1. \A t \in Tasks : t >= nextTask' => t >= nextTask
  BY DEF TypeOK, Tasks
<1> QED
  BY <1>1 DEF LoadInv, Accept, Inside

\* An idle owner that hands nothing out and leaves new tasks in m_workload.
LEMMA CollectLoad ==
    ASSUME TypeOK, LoadInv, client' = "idle", ~dirty',
           \A i \in DOMAIN workload' : workload'[i] < nextTask' /\ ran[workload'[i]] = 0,
           \A i, j \in DOMAIN workload' : workload'[i] = workload'[j] => i = j,
           nextTask' \in Nat, nextTask' >= nextTask, ran' = ran
    PROVE  LoadInv'
<1>1. \A t \in Tasks : t >= nextTask' => t >= nextTask
  BY DEF TypeOK, Tasks
<1> QED
  BY <1>1 DEF LoadInv, Inside

\* The owner keeps LoadInv.
LEMMA ClientLoad ==
    ASSUME TypeOK, ProtocolInv, LoadInv, ClientStep
    PROVE  LoadInv'
<1>0. nextTask \in Nat /\ DOMAIN << >> = {}
  BY DEF TypeOK
<1>1. CASE Start
  BY <1>1 DEF Start, LoadInv, Inside, history
<1>2. CASE AppendTask
  <2> DEFINE load == IF Clear = "AT_NEXT_WORKLOAD" /\ dirty THEN << >> ELSE workload
  <2>1. load \in Seq(Tasks) /\ Len(load) \in Nat /\ DOMAIN load = 1 .. Len(load)
    BY DEF TypeOK
  <2>2. nextTask \in Tasks /\ ran[nextTask] = 0
    BY <1>2 DEF AppendTask, TypeOK, Tasks, LoadInv
  <2>3. client = "idle" /\ (dirty => Clear = "AT_NEXT_WORKLOAD")
    BY <1>2 DEF AppendTask, LoadInv
  <2>4. \A i \in DOMAIN load : load[i] < nextTask /\ ran[load[i]] = 0
    BY <1>0, <2>3 DEF LoadInv
  <2>5. \A i, j \in DOMAIN load : load[i] = load[j] => i = j
    BY <1>0 DEF LoadInv
  <2>6. workload' = Append(load, nextTask) /\ nextTask' = nextTask + 1 /\ ran' = ran /\ client' = "idle"
    BY <1>2 DEF AppendTask
  <2>7. ~dirty'
    BY <1>2, <2>3 DEF AppendTask
  <2> HIDE DEF load
  <2>8. /\ DOMAIN workload' = 1 .. Len(load) + 1
        /\ \A i \in 1 .. Len(load) + 1 : workload'[i] = IF i = Len(load) + 1 THEN nextTask ELSE load[i]
    BY <2>1, <2>2, <2>6
  <2>9. \A i \in DOMAIN workload' : workload'[i] < nextTask' /\ ran[workload'[i]] = 0
    <3> SUFFICES ASSUME NEW i \in DOMAIN workload' PROVE workload'[i] < nextTask' /\ ran[workload'[i]] = 0
      OBVIOUS
    <3>1. CASE i = Len(load) + 1
      BY <1>0, <2>2, <2>6, <2>8, <3>1
    <3>2. CASE i # Len(load) + 1
      <4>1. i \in DOMAIN load /\ workload'[i] = load[i] /\ load[i] \in Tasks
        BY <2>1, <2>8, <3>2
      <4> QED
        BY <1>0, <2>4, <2>6, <4>1 DEF Tasks
    <3> QED
      BY <3>1, <3>2
  <2>10. \A i, j \in DOMAIN workload' : workload'[i] = workload'[j] => i = j
    <3> SUFFICES ASSUME NEW i \in DOMAIN workload', NEW j \in DOMAIN workload', i # j
                 PROVE  workload'[i] # workload'[j]
      OBVIOUS
    <3>1. \A k \in DOMAIN load : load[k] # nextTask
      BY <1>0, <2>4
    <3> QED
      BY <2>1, <2>5, <2>8, <3>1
  <2> QED
    BY <1>0, <2>6, <2>7, <2>9, <2>10, CollectLoad
<1>3. CASE Process
  <2> DEFINE clear == Clear = "AT_NEXT_WORKLOAD" /\ status = "READY" /\ dirty
             load == IF clear THEN << >> ELSE workload
  <2>1. client = "idle" /\ ran' = ran /\ nextTask' = nextTask /\ (dirty => clear)
    BY <1>3 DEF Process, LoadInv
  <2>2. load \in Seq(Tasks)
    BY DEF TypeOK
  <2>3. \A i \in DOMAIN load : load[i] < nextTask /\ ran[load[i]] = 0
    BY <1>0, <2>1 DEF LoadInv
  <2>4. \A i, j \in DOMAIN load : load[i] = load[j] => i = j
    BY <1>0 DEF LoadInv
  <2>5. CASE status # "READY" \/ load = << >>
    <3>1. workload' = load /\ client' = "idle"
      BY <1>3, <2>1, <2>5 DEF Process, Refuse
    <3>2. ~dirty'
      BY <1>3, <2>1, <2>5 DEF Process, Refuse
    <3> HIDE DEF load, clear
    <3> QED
      BY <1>0, <2>1, <2>3, <2>4, <3>1, <3>2, CollectLoad
  <2>6. CASE ~(status # "READY" \/ load = << >>)
    <3>1. Accept(load)
      BY <1>3, <2>6 DEF Process
    <3> HIDE DEF load, clear
    <3> QED
      BY <1>0, <2>1, <2>2, <2>3, <2>4, <3>1, AcceptLoad
  <2> QED
    BY <2>5, <2>6
<1>4. ASSUME NEW n \in 0 .. MaxLoad, ProcessWith(n) PROVE LoadInv'
  <2>1. client = "idle" /\ ran' = ran /\ nextTask' = nextTask + n /\ n \in Nat
    BY <1>4, PoolAssumption DEF ProcessWith
  <2>2. nextTask' \in Nat /\ nextTask' >= nextTask
    BY <1>0, <2>1
  <2>3. CASE status # "READY"
    <3>1. workload' = workload /\ client' = "idle" /\ ~dirty
      BY <1>4, <2>1, <2>3 DEF ProcessWith, Refuse, LoadInv
    <3>2. ~dirty'
      BY <1>4, <2>3, <3>1 DEF ProcessWith, Refuse
    <3>3. \A i \in DOMAIN workload : workload[i] < nextTask' /\ ran[workload[i]] = 0
      <4> SUFFICES ASSUME NEW i \in DOMAIN workload PROVE workload[i] < nextTask' /\ ran[workload[i]] = 0
        OBVIOUS
      <4>1. workload[i] \in Nat /\ workload[i] < nextTask
        BY Position DEF LoadInv, Tasks
      <4> QED
        BY <1>0, <2>1, <2>2, <3>1, <4>1 DEF LoadInv
    <3> QED
      BY <2>1, <2>2, <3>1, <3>2, <3>3, CollectLoad DEF LoadInv
  <2>4. CASE status = "READY" /\ n = 0
    <3>1. workload' = << >> /\ client' = "idle"
      BY <1>4, <2>1, <2>4 DEF ProcessWith, Refuse
    <3>2. ~dirty'
      BY <1>4, <2>4 DEF ProcessWith, Refuse
    <3> QED
      BY <1>0, <2>1, <2>2, <3>1, <3>2, CollectLoad
  <2>5. CASE status = "READY" /\ n # 0
    <3>1. Accept(Fresh(n))
      BY <1>4, <2>5 DEF ProcessWith
    <3>2. /\ Fresh(n) \in Seq(Tasks) /\ DOMAIN Fresh(n) = 1 .. n
          /\ \A k \in 1 .. n : Fresh(n)[k] = nextTask + k - 1 /\ Fresh(n)[k] \in Tasks
      BY <1>4, FreshIsLoad DEF ProcessWith, TypeOK
    <3>3. \A i \in DOMAIN Fresh(n) : Fresh(n)[i] < nextTask' /\ ran[Fresh(n)[i]] = 0
      BY <1>0, <2>1, <3>2 DEF LoadInv
    <3>4. \A i, j \in DOMAIN Fresh(n) : Fresh(n)[i] = Fresh(n)[j] => i = j
      BY <1>0, <2>1, <3>2
    <3> QED
      BY <2>1, <2>2, <3>1, <3>2, <3>3, <3>4, AcceptLoad
  <2> QED
    BY <2>3, <2>4, <2>5
<1>5. CASE Prepare
  BY <1>5 DEF Prepare, LoadInv, Inside, poolVars, history, ProtocolInv
<1>6. CASE Await
  <2>1. status = "READY" /\ client = "waiting" /\ client' = "idle" /\ UNCHANGED <<poolVars, history>>
    BY <1>6 DEF Await, ProtocolInv
  <2>2. CASE Clear = "UPPON_COMPLETION"
    BY <1>0, <2>1, <2>2 DEF LoadInv, Inside, poolVars, history
  <2>3. CASE Clear = "AT_NEXT_WORKLOAD"
    BY <2>1, <2>3 DEF LoadInv, Inside, poolVars, history
  <2> QED
    BY <2>2, <2>3, PoolAssumption
<1>7. CASE Destroy
  BY <1>7 DEF Destroy, LoadInv, Inside, history
<1>8. CASE Join
  BY <1>8 DEF Join, LoadInv, Inside, poolVars, history
<1> QED
  BY <1>1, <1>2, <1>3, <1>4, <1>5, <1>6, <1>7, <1>8 DEF ClientStep

\* A position below m_size is in the share of the worker with this number.
LEMMA SmallResidue ==
    ASSUME NEW s \in Nat \ {0}, NEW p \in 0 .. s - 1
    PROVE  p % s = p
<1> DEFINE r == p % s
<1>1. p \in Nat
  OBVIOUS
<1>2. r \in 0 .. s - 1 /\ r \in Nat
  BY <1>1, Residue
<1>3. r = p % s
  OBVIOUS
<1> HIDE DEF r
<1>4. PICK d \in Nat : p = s * d + r
  BY <1>1, <1>2, <1>3, Division
<1> DEFINE m == s * d
<1>5. m \in Nat /\ m = s * d
  OBVIOUS
<1>6. m < s /\ -s < m
  <2> HIDE DEF m
  <2>1. p = m + r
    BY <1>4, <1>5
  <2> QED
    BY <1>2, <1>5, <2>1
<1>7. d = 0
  BY <1>5, <1>6, SmallMultiple
<1>8. s * d = 0
  BY <1>7
<1> QED
  BY <1>2, <1>4, <1>8, <1>3

\* The first m_active workers have all positions in their shares.
LEMMA ActiveShares ==
    ASSUME TypeOK, ProtocolInv, LoadInv, client = "prepare", NEW i \in DOMAIN workload
    PROVE  /\ Size \in Nat \ {0} /\ (i - 1) % Size \in Workers
           /\ (i - 1) % Size < active /\ (i - 1) % Size <= i - 1
<1>1. Size \in Nat \ {0}
  BY PoolAssumption DEF ProtocolInv
<1>2. (i - 1) % Size \in Workers /\ (i - 1) % Size <= i - 1
  BY <1>1, ShareOf
<1>3. i - 1 \in Nat /\ i - 1 < Len(workload) /\ Len(workload) \in Nat
  BY Position
<1>4. active = IF Size < Len(workload) THEN Size ELSE Len(workload)
  BY DEF LoadInv
<1> DEFINE u == (i - 1) % Size
<1>5. u \in Nat /\ u < Size /\ u <= i - 1
  BY <1>1, <1>2 DEF Workers
<1> HIDE DEF u
<1>6. u < active
  BY <1>1, <1>3, <1>4, <1>5
<1> QED
  BY <1>1, <1>2, <1>6 DEF u

\* The workers that are prepared begin with everything pending.
LEMMA PrepareShare ==
    ASSUME TypeOK, ProtocolInv, LoadInv, Prepare
    PROVE  ShareInv' /\ RanInv'
<1>1. Quiet /\ status = "PROCESSING" /\ result = "pending" /\ active \in 1 .. Size
  BY DEF Prepare, ProtocolInv
<1>2. UNCHANGED <<status, workload, result, active, index, ran, lastLoad>> /\ client = "prepare" /\ client' = "waiting"
  BY DEF Prepare, poolVars, history
<1>3. \A w \in Workers : busy'[w] <=> w < active
  BY <1>1, QuietWorkers DEF Prepare
<1>4. \A w \in Workers : pc'[w] \in {"none", "wait"}
  <2>1. \A w \in Workers : pc[w] # "woken" /\ pc[w] # "exited"
    BY <1>1, QuietWorkers DEF ProtocolInv
  <2> QED
    BY <1>1, <2>1, QuietWorkers DEF Prepare, Notified
<1>5. \A w \in Workers : w < active => it'[w] = w
  BY DEF Prepare
<1>6. ShareInv'
  <2>1. CASE Queue = "sq"
    BY <1>4, <2>1 DEF ShareInv, Holds
  <2>2. CASE Queue # "sq"
    <3>1. \A w \in Workers : busy'[w] => it'[w] % Size = w
      <4> SUFFICES ASSUME NEW w \in Workers, busy'[w] PROVE it'[w] % Size = w
        OBVIOUS
      <4>1. w % Size = w
        BY SomeSize, SmallResidue DEF Workers
      <4> QED
        BY <1>3, <1>5, <4>1
    <3>2. ASSUME NEW w \in Workers, ~busy'[w], NEW i \in DOMAIN workload, (i - 1) % Size = w PROVE FALSE
      BY <1>2, <1>3, <3>2, ActiveShares
    <3> QED
      BY <1>2, <1>4, <2>2, <3>1, <3>2 DEF ShareInv
  <2> QED
    BY <2>1, <2>2
<1>7. ASSUME NEW i \in DOMAIN workload PROVE Pending(i)'
  <2>1. CASE Queue = "sq"
    <3>1. i > index'
      BY <1>2, Position DEF LoadInv
    <3> QED
      BY <2>1, <3>1 DEF Pending
  <2>2. CASE Queue # "sq"
    <3>1. it'[(i - 1) % Size] = (i - 1) % Size /\ (i - 1) % Size <= i - 1
      BY <1>2, <1>5, ActiveShares
    <3>2. i - 1 >= it'[(i - 1) % Size]
      BY <3>1
    <3> QED
      BY <2>2, <3>2 DEF Pending
  <2> QED
    BY <2>1, <2>2
<1>8. RanInv'
  <2>1. \A i \in DOMAIN workload : ran[workload[i]] = 0
    BY <1>2 DEF LoadInv
  <2>2. \A w \in Workers : ~Finishing(w)'
    BY <1>4 DEF Finishing
  <2> QED
    BY <1>1, <1>2, <1>7, <2>1, <2>2 DEF RanInv
<1> QED
  BY <1>6, <1>8

\* The owner keeps ShareInv and RanInv.
LEMMA ClientShare ==
    ASSUME TypeOK, ProtocolInv, LoadInv, ShareInv, RanInv, ClientStep
    PROVE  ShareInv' /\ RanInv'
<1>1. CASE Prepare
  BY <1>1, PrepareShare
<1>2. CASE ~Prepare
  <2>1. Quiet /\ client' # "waiting"
    BY <1>2 DEF ClientStep, Start, AppendTask, Process, ProcessWith, Accept, Refuse, Await, Destroy, Join, ProtocolInv
  <2>2. \A w \in Workers : pc'[w] \in {pc[w], "wait"} /\ busy' = busy
    BY <1>2 DEF ClientStep, Start, AppendTask, Process, ProcessWith, Await, Destroy, Join, Notified, workerVars
  <2>3. \A w \in Workers : ~busy'[w] /\ pc'[w] \in {"none", "wait", "blocked", "woken", "exited"}
    BY <2>1, <2>2, QuietWorkers
  <2>4. ShareInv'
    BY <2>1, <2>3, QuietShare
  <2>5. \A w \in Workers : ~Finishing(w)'
    BY <2>3 DEF Finishing
  <2>6. ran' = ran /\ (result' = "ready" => result = "ready" /\ lastLoad' = lastLoad)
    BY <1>2 DEF ClientStep, Start, AppendTask, Process, ProcessWith, Accept, Refuse, Await, Destroy, Join, poolVars, history
  <2>7. RanInv'
    BY <2>1, <2>5, <2>6 DEF RanInv
  <2> QED
    BY <2>4, <2>7
<1> QED
  BY <1>1, <1>2

-----------------------------------------------------------------------------
(* The workers.                                                            *)

\* Waiting, waking up and failing: no cursor moves and no task is taken.
LEMMA PassiveShare ==
    ASSUME TypeOK, ProtocolInv, LoadInv, ShareInv, RanInv, NEW w \in Workers,
           WaitForWork(w) \/ SpuriousWakeup(w) \/ Woken(w) \/ PushError(w)
    PROVE  LoadInv' /\ ShareInv' /\ RanInv'
<1>1. /\ UNCHANGED <<workload, dirty, active, index, result, busy, it, cur, client, nextTask, ran, lastLoad>>
      /\ pc[w] \in {"wait", "blocked", "woken", "push"}
  BY DEF WaitForWork, SpuriousWakeup, Woken, PushError, poolVars, history
<1>2. PICK l \in {"woken", "blocked", "wait", "exited", "fetch"} : pc' = [pc EXCEPT ![w] = l]
  BY DEF WaitForWork, SpuriousWakeup, Woken, PushError, Goto
<1>3. \A v \in Workers : pc'[v] = IF v = w THEN l ELSE pc[v]
  BY <1>2 DEF TypeOK
<1>4. status' = status \/ (client = "waiting" /\ status # "READY" /\ status' = "TERMINATING")
  <2>1. CASE PushError(w)
    BY <2>1, AtWork DEF PushError
  <2>2. CASE ~PushError(w)
    BY <2>2 DEF WaitForWork, SpuriousWakeup, Woken, poolVars
  <2> QED
    BY <2>1, <2>2
<1>5. \A v \in Workers : (Holds(v)' <=> Holds(v)) /\ (Finishing(v)' <=> Finishing(v))
  BY <1>1, <1>2, <1>3 DEF Holds, Finishing
<1>6. LoadInv'
  BY <1>1, <1>4, LoadKept
<1>7. \A i \in DOMAIN workload : Pending(i)' <=> Pending(i)
  BY <1>1, <1>5, SomeSize, PendingKept
<1>8. RanInv'
  BY <1>1, <1>4, <1>5, <1>7, RanKept
<1>9. ShareInv'
  <2>1. CASE Queue = "sq"
    BY <1>1, <1>2, <1>3, <1>4, <1>5, <2>1 DEF ShareInv
  <2>2. CASE Queue # "sq"
    BY <1>1, <1>2, <1>3, <1>4, <2>2 DEF ShareInv
  <2> QED
    BY <2>1, <2>2
<1> QED
  BY <1>6, <1>8, <1>9

\* m_index++ and the test of worker_sq: the position taken stays pending, and a
\* worker leaves only with a position beyond the workload.
LEMMA SqShare ==
    ASSUME TypeOK, ProtocolInv, LoadInv, ShareInv, RanInv, NEW w \in Workers,
           FetchSq(w) \/ TestSq(w)
    PROVE  LoadInv' /\ ShareInv' /\ RanInv'
<1>1. /\ UNCHANGED <<status, workload, dirty, active, result, busy, client, nextTask, ran, lastLoad>>
      /\ pc[w] \in {"fetch", "test"}
  BY DEF FetchSq, TestSq, poolVars, history
<1>2. client = "waiting" /\ \A v \in Workers : ~Finishing(v)
  BY <1>1, AtWork DEF InDoWork
<1>3. Queue = "sq"
  BY DEF FetchSq, TestSq, ShareInv
<1>4. LoadInv'
  BY <1>1, <1>2, LoadKept
<1>5. index \in Nat /\ Len(workload) \in Nat /\ \A v \in Workers : cur[v] \in Nat
  BY DEF TypeOK
<1>6. CASE FetchSq(w)
  <2>1. /\ \A v \in Workers : pc'[v] = (IF v = w THEN "test" ELSE pc[v]) /\ cur'[v] = (IF v = w THEN index ELSE cur[v])
        /\ index' = index + 1 /\ pc[w] = "fetch"
    BY <1>6 DEF FetchSq, Goto, TypeOK
  <2>2. \A v \in Workers : Holds(v)' <=> (v = w \/ Holds(v))
    BY <2>1 DEF Holds
  <2>3. ~Holds(w)
    BY <2>1 DEF Holds
  <2>4. \A v \in Workers : Holds(v) => cur[v] < index
    BY <1>3 DEF ShareInv
  <2>5. ShareInv'
    <3>1. \A v \in Workers : Holds(v)' => cur'[v] < index'
      BY <1>5, <2>1, <2>2, <2>4, SMTT(30)
    <3>2. \A u, v \in Workers : Holds(u)' /\ Holds(v)' /\ cur'[u] = cur'[v] => u = v
      <4> SUFFICES ASSUME NEW u \in Workers, NEW v \in Workers, Holds(u)', Holds(v)', cur'[u] = cur'[v]
                   PROVE  u = v
        OBVIOUS
      <4>1. CASE u # w /\ v # w
        BY <1>3, <2>1, <2>2, <4>1 DEF ShareInv
      <4>2. CASE u = w \/ v = w
        BY <1>5, <2>1, <2>2, <2>4, <4>2
      <4> QED
        BY <4>1, <4>2
    <3>3. status' = "PROCESSING" => \A v \in Workers : pc'[v] \in {"post", "dec"} => Len(workload') <= index'
      BY <1>1, <1>3, <1>5, <2>1 DEF ShareInv
    <3> QED
      BY <1>3, <3>1, <3>2, <3>3 DEF ShareInv
  <2>6. ASSUME NEW i \in DOMAIN workload PROVE Pending(i)' <=> Pending(i)
    <3>1. i \in Nat
      BY Position
    <3>2. Pending(i) <=> (i > index \/ \E v \in Workers : Holds(v) /\ cur[v] = i - 1)
      BY <1>3 DEF Pending
    <3>3. Pending(i)' <=> (i > index + 1 \/ \E v \in Workers : Holds(v)' /\ cur'[v] = i - 1)
      BY <1>3, <2>1 DEF Pending
    <3>4. (\E v \in Workers : Holds(v)' /\ cur'[v] = i - 1) <=>
             (index = i - 1 \/ \E v \in Workers : Holds(v) /\ cur[v] = i - 1)
      BY <2>1, <2>2, <2>3
    <3> QED
      BY <1>5, <3>1, <3>2, <3>3, <3>4
  <2>7. \A v \in Workers : Finishing(v)' => Finishing(v)
    BY <2>1 DEF Finishing
  <2> QED
    BY <1>1, <1>4, <2>5, <2>6, <2>7, RanKept
<1>7. CASE TestSq(w)
  <2>1. UNCHANGED <<index, cur>> /\ pc[w] = "test" /\ Holds(w) /\ cur[w] < index
    BY <1>3, <1>7 DEF TestSq, poolVars, ShareInv, Holds
  <2> DEFINE l == IF cur[w] < Len(workload) /\ status = "PROCESSING" THEN "run" ELSE "post"
  <2>2. /\ pc' = [pc EXCEPT ![w] = l] /\ l \in {"run", "post"}
        /\ l = "post" /\ status = "PROCESSING" => Len(workload) <= cur[w]
    BY <1>5, <1>7 DEF TestSq, Goto
  <2> HIDE DEF l
  <2>3. \A v \in Workers : pc'[v] = IF v = w THEN l ELSE pc[v]
    BY <2>2 DEF TypeOK
  <2>4. \A v \in Workers : Holds(v)' <=> (Holds(v) /\ (v = w => l = "run"))
    BY <2>1, <2>2, <2>3 DEF Holds
  <2>5. ShareInv'
    <3>1. status' = "PROCESSING" => \A v \in Workers : pc'[v] \in {"post", "dec"} => Len(workload') <= index'
      <4> SUFFICES ASSUME status = "PROCESSING", NEW v \in Workers, pc'[v] \in {"post", "dec"}
                   PROVE  Len(workload) <= index
        BY <1>1, <2>1
      <4>1. CASE v = w
        BY <1>5, <2>1, <2>2, <2>3, <4>1
      <4>2. CASE v # w
        BY <1>3, <2>3, <4>2 DEF ShareInv
      <4> QED
        BY <4>1, <4>2
    <3> QED
      BY <1>3, <2>1, <2>4, <3>1 DEF ShareInv
  <2>6. ASSUME NEW i \in DOMAIN workload
        PROVE  (Pending(i)' => Pending(i)) /\ (status = "PROCESSING" /\ Pending(i) => Pending(i)')
    <3>1. i \in 1 .. Len(workload)
      BY Position
    <3>2. Pending(i) <=> (i > index \/ \E v \in Workers : Holds(v) /\ cur[v] = i - 1)
      BY <1>3 DEF Pending
    <3>3. Pending(i)' <=> (i > index \/ \E v \in Workers : Holds(v)' /\ cur[v] = i - 1)
      BY <1>3, <2>1 DEF Pending
    <3>4. status = "PROCESSING" /\ cur[w] = i - 1 => l = "run"
      BY <1>5, <2>2, <3>1
    <3> QED
      BY <2>4, <3>2, <3>3, <3>4
  <2>7. \A v \in Workers : Finishing(v)' => Finishing(v)
    BY <2>2, <2>3 DEF Finishing
  <2> QED
    BY <1>1, <1>4, <2>5, <2>6, <2>7, RanKept
<1> QED
  BY <1>6, <1>7

\* worker_mq: the cursor goes on by m_size and the position it leaves stays
\* pending, or it is past the end of the workload.
LEMMA MqShare ==
    ASSUME TypeOK, ProtocolInv, LoadInv, ShareInv, RanInv, NEW w \in Workers, FetchMq(w)
    PROVE  LoadInv' /\ ShareInv' /\ RanInv'
<1>1. /\ UNCHANGED <<status, workload, dirty, active, index, result, busy, client, nextTask, ran, lastLoad>>
      /\ pc[w] = "fetch" /\ Queue # "sq"
  BY DEF FetchMq, poolVars, history
<1>2. client = "waiting" /\ busy[w] /\ \A v \in Workers : ~Finishing(v)
  BY <1>1, AtWork DEF InDoWork
<1>3. LoadInv'
  BY <1>1, <1>2, LoadKept
<1>4. /\ Size \in Nat \ {0} /\ it[w] \in Nat /\ it[w] % Size = w /\ Len(workload) \in Nat
      /\ ~Holds(w)
  BY <1>1, <1>2, SomeSize DEF TypeOK, ShareInv, Holds
<1>5. CASE it[w] < Len(workload) /\ status = "PROCESSING"
  <2>1. \A v \in Workers : /\ pc'[v] = IF v = w THEN "run" ELSE pc[v]
                           /\ cur'[v] = IF v = w THEN it[w] ELSE cur[v]
                           /\ it'[v] = IF v = w THEN it[w] + Size ELSE it[v]
    BY <1>5 DEF FetchMq, Goto, TypeOK
  <2>2. it'[w] % Size = w /\ it'[w] \in Nat /\ it[w] < it'[w]
    <3>1. (it[w] + Size) % Size = it[w] % Size
      BY <1>4, ResidueStep
    <3>2. it'[w] = it[w] + Size
      BY <2>1
    <3>3. it'[w] % Size = w
      BY <1>4, <3>1, <3>2, Zenon
    <3>4. it[w] \in Nat /\ Size \in Nat \ {0}
      BY <1>4
    <3>5. it'[w] \in Nat /\ it[w] < it'[w]
      BY <3>2, <3>4
    <3> QED
      BY <3>3, <3>5
  <2>3. ShareInv'
    <3>1. \A v \in Workers : pc'[v] # "test"
      BY <1>1, <2>1 DEF ShareInv
    <3>2. \A v \in Workers : busy'[v] => it'[v] % Size = v
      BY <1>1, <2>1, <2>2 DEF ShareInv
    <3>3. \A v \in Workers : pc'[v] = "run" => cur'[v] % Size = v /\ cur'[v] < it'[v]
      BY <1>1, <1>4, <2>1, <2>2 DEF ShareInv
    <3>4. \A v \in Workers : ~busy'[v] \/ pc'[v] = "post" =>
             \A i \in DOMAIN workload : (i - 1) % Size = v => i - 1 < it'[v]
      BY <1>1, <1>2, <1>5, <2>1 DEF ShareInv
    <3> QED
      BY <1>1, <3>1, <3>2, <3>3, <3>4 DEF ShareInv
  <2>4. ASSUME NEW i \in DOMAIN workload PROVE Pending(i)' <=> Pending(i)
    <3> DEFINE u == (i - 1) % Size
    <3>1. u \in Workers /\ i - 1 \in Nat
      BY <1>4, ShareOf, Position
    <3>2. Pending(i) <=> (i - 1 >= it[u] \/ (Holds(u) /\ cur[u] = i - 1))
      BY <1>1 DEF Pending
    <3>3. Pending(i)' <=> (i - 1 >= it'[u] \/ (Holds(u)' /\ cur'[u] = i - 1))
      BY <1>1 DEF Pending
    <3>4. CASE u # w
      <4>1. it'[u] = it[u] /\ cur'[u] = cur[u] /\ (Holds(u)' <=> Holds(u))
        BY <2>1, <3>1, <3>4 DEF Holds
      <4> HIDE DEF u
      <4> QED
        BY <3>2, <3>3, <4>1
    <3>5. CASE u = w
      <4>1. i - 1 < it[w] + Size /\ i - 1 # it[w] => i - 1 < it[w]
        BY <1>4, <3>1, <3>5, ResidueGap
      <4>2. Holds(w)' /\ cur'[w] = it[w] /\ it'[w] = it[w] + Size
        BY <2>1 DEF Holds
      <4> HIDE DEF u
      <4> DEFINE p == i - 1
      <4>3. p \in Nat /\ (p < it[w] + Size /\ p # it[w] => p < it[w])
        BY <3>1, <4>1
      <4>4. Pending(i) <=> p >= it[w]
        BY <1>4, <3>2, <3>5
      <4>5. Pending(i)' <=> (p >= it[w] + Size \/ it[w] = p)
        BY <3>3, <3>5, <4>2
      <4>6. it[w] \in Nat /\ Size \in Nat \ {0}
        BY <1>4
      <4> HIDE DEF p
      <4>7. p >= it[w] <=> (p >= it[w] + Size \/ it[w] = p)
        BY <4>3, <4>6
      <4> QED
        BY <4>4, <4>5, <4>7, Zenon
    <3> QED
      BY <3>4, <3>5
  <2>5. \A v \in Workers : Finishing(v)' => Finishing(v)
    BY <2>1 DEF Finishing
  <2> QED
    BY <1>1, <1>3, <2>3, <2>4, <2>5, RanKept
<1>6. CASE ~(it[w] < Len(workload) /\ status = "PROCESSING")
  <2>1. UNCHANGED <<cur, it>> /\ \A v \in Workers : pc'[v] = IF v = w THEN "post" ELSE pc[v]
    BY <1>6 DEF FetchMq, Goto, TypeOK
  <2>2. \A v \in Workers : (Holds(v)' <=> Holds(v)) /\ (Finishing(v)' => Finishing(v))
    BY <1>1, <2>1 DEF Holds, Finishing
  <2>3. \A i \in DOMAIN workload : Pending(i)' <=> Pending(i)
    BY <1>1, <1>4, <2>1, <2>2, PendingKept
  <2>4. ASSUME status = "PROCESSING", NEW v \in Workers, ~busy[v] \/ pc'[v] = "post",
               NEW i \in DOMAIN workload, (i - 1) % Size = v
        PROVE  i - 1 < it[v]
    <3>1. CASE v = w
      BY <1>4, <1>6, <2>4, <3>1, Position
    <3>2. CASE v # w
      BY <1>1, <1>2, <2>1, <2>4, <3>2 DEF ShareInv
    <3> QED
      BY <3>1, <3>2
  <2>5. ShareInv'
    BY <1>1, <2>1, <2>4 DEF ShareInv
  <2> QED
    BY <1>1, <1>3, <2>2, <2>3, <2>5, RanKept
<1> QED
  BY <1>5, <1>6

\* A task is started: its position, and no other, stops to be pending.
LEMMA RunShare ==
    ASSUME TypeOK, ProtocolInv, LoadInv, ShareInv, RanInv, NEW w \in Workers,
           RunTask(w) \/ TaskThrows(w)
    PROVE  LoadInv' /\ ShareInv' /\ RanInv'
<1> DEFINE c == cur[w] + 1
<1>1. /\ UNCHANGED <<status, workload, dirty, active, index, result, busy, it, cur, client, nextTask, lastLoad>>
      /\ pc[w] = "run" /\ ran' = [ran EXCEPT ![CurTask(w)] = ran[CurTask(w)] + 1]
  BY DEF RunTask, TaskThrows, poolVars, Started
<1>2. PICK l \in {"fetch", "push", "exited", "wait"} : pc' = [pc EXCEPT ![w] = l]
  BY DEF RunTask, TaskThrows, Goto
<1>3. \A v \in Workers : pc'[v] = IF v = w THEN l ELSE pc[v]
  BY <1>2 DEF TypeOK
<1>4. /\ client = "waiting" /\ status \in {"PROCESSING", "TERMINATING"} /\ result # "ready" /\ busy[w]
      /\ \A v \in Workers : ~Finishing(v)
  BY <1>1, AtWork DEF InDoWork
<1>5. \A v \in Workers : Holds(v)' <=> (Holds(v) /\ v # w)
  BY <1>2, <1>3 DEF Holds
<1>6. c \in DOMAIN workload /\ CurTask(w) = workload[c] /\ CurTask(w) \in Tasks
  BY <1>1, CurTaskType DEF CurTask
<1>7. Size \in Nat \ {0} /\ cur[w] \in Nat /\ c - 1 = cur[w] /\ Holds(w) /\ index \in Nat
  BY <1>1, SomeSize DEF TypeOK, Holds
<1>8. ASSUME NEW i \in DOMAIN workload PROVE Pending(i)' <=> (Pending(i) /\ i # c)
  <2>1. i \in Nat /\ i - 1 \in Nat /\ (i = c <=> i - 1 = cur[w])
    BY <1>7, Position
  <2>2. CASE Queue = "sq"
    <3>1. Pending(i) <=> (i > index \/ \E v \in Workers : Holds(v) /\ cur[v] = i - 1)
      BY <2>2 DEF Pending
    <3>2. Pending(i)' <=> (i > index \/ \E v \in Workers : Holds(v)' /\ cur[v] = i - 1)
      BY <1>1, <2>2 DEF Pending
    <3>3. cur[w] < index /\ \A v \in Workers : Holds(v) /\ cur[v] = cur[w] => v = w
      BY <1>7, <2>2 DEF ShareInv
    <3>4. i = c => ~(i > index)
      BY <1>7, <3>3
    <3> HIDE DEF c
    <3> QED
      BY <1>5, <2>1, <3>1, <3>2, <3>3, <3>4
  <2>3. CASE Queue # "sq"
    <3> DEFINE u == (i - 1) % Size
    <3>1. u \in Workers
      BY <1>7, ShareOf
    <3>2. Pending(i) <=> (i - 1 >= it[u] \/ (Holds(u) /\ cur[u] = i - 1))
      BY <2>3 DEF Pending
    <3>3. Pending(i)' <=> (i - 1 >= it[u] \/ (Holds(u)' /\ cur[u] = i - 1))
      BY <1>1, <2>3 DEF Pending
    <3>4. cur[w] % Size = w /\ cur[w] < it[w] /\ it[w] \in Nat
      BY <1>1, <2>3 DEF ShareInv, TypeOK
    <3>5. i = c => u = w
      BY <2>1, <3>4
    <3> HIDE DEF u, c
    <3>6. i = c => ~(i - 1 >= it[u])
      BY <1>7, <2>1, <3>4, <3>5
    <3> QED
      BY <1>5, <1>7, <2>1, <3>1, <3>2, <3>3, <3>5, <3>6
  <2> QED
    BY <2>2, <2>3
<1>9. Pending(c)
  <2>1. CASE Queue = "sq"
    BY <1>7, <2>1 DEF Pending
  <2>2. CASE Queue # "sq"
    <3>1. (c - 1) % Size = w
      BY <1>1, <1>7, <2>2 DEF ShareInv
    <3> QED
      BY <1>7, <2>2, <3>1 DEF Pending
  <2> QED
    BY <2>1, <2>2
<1>10. ran[workload[c]] = 0
  BY <1>4, <1>6, <1>9 DEF RanInv
<1> HIDE DEF c
<1>11. \A i \in DOMAIN workload : ran'[workload[i]] = IF i = c THEN 1 ELSE ran[workload[i]]
  <2> SUFFICES ASSUME NEW i \in DOMAIN workload PROVE ran'[workload[i]] = IF i = c THEN 1 ELSE ran[workload[i]]
    OBVIOUS
  <2>1. workload[i] \in Tasks /\ (workload[i] = workload[c] => i = c)
    BY <1>6, Position DEF LoadInv
  <2> QED
    BY <1>1, <1>6, <1>10, <2>1, SMTT(30) DEF TypeOK
<1>12. RanInv'
  <2>1. \A v \in Workers : ~Finishing(v)'
    BY <1>2, <1>3, <1>4 DEF Finishing
  <2>2. \A i \in DOMAIN workload : Pending(i)' => ran'[workload[i]] = 0
    BY <1>4, <1>8, <1>11 DEF RanInv
  <2>3. status = "PROCESSING" => \A i \in DOMAIN workload : ~Pending(i)' => ran'[workload[i]] = 1
    BY <1>4, <1>8, <1>11 DEF RanInv
  <2> QED
    BY <1>1, <1>4, <2>1, <2>2, <2>3 DEF RanInv
<1>13. LoadInv'
  <2>1. \A t \in Tasks : ran'[t] = IF t = workload[c] THEN 1 ELSE ran[t]
    BY <1>1, <1>6, <1>10, SMTT(30) DEF TypeOK
  <2>2. workload[c] < nextTask /\ workload[c] \in Nat /\ nextTask \in Nat
    BY <1>6 DEF LoadInv, Tasks, TypeOK
  <2>3. \A t \in Tasks : t >= nextTask => t # workload[c]
    BY <2>2 DEF Tasks
  <2> QED
    BY <1>1, <1>4, <2>1, <2>3, SMTT(30) DEF LoadInv, Inside
<1>14. ShareInv'
  <2>1. CASE Queue = "sq"
    BY <1>1, <1>2, <1>3, <1>5, <2>1 DEF ShareInv
  <2>2. CASE Queue # "sq"
    <3>1. \A v \in Workers : pc'[v] # "test"
      BY <1>2, <1>3, <2>2 DEF ShareInv
    <3>2. \A v \in Workers : busy'[v] => it'[v] % Size = v
      BY <1>1, <2>2 DEF ShareInv
    <3>3. \A v \in Workers : pc'[v] = "run" => cur'[v] % Size = v /\ cur'[v] < it'[v]
      BY <1>1, <1>2, <1>3, <2>2 DEF ShareInv
    <3>4. \A v \in Workers : ~busy'[v] \/ pc'[v] = "post" => ~busy[v] \/ pc[v] = "post"
      BY <1>1, <1>2, <1>3
    <3>5. (client' = "waiting" /\ status' = "PROCESSING") =>
             \A v \in Workers : ~busy'[v] \/ pc'[v] = "post" =>
                \A i \in DOMAIN workload' : (i - 1) % Size = v => i - 1 < it'[v]
      BY <1>1, <2>2, <3>4 DEF ShareInv
    <3> QED
      BY <2>2, <3>1, <3>2, <3>3, <3>5 DEF ShareInv
  <2> QED
    BY <2>1, <2>2
<1> QED
  BY <1>12, <1>13, <1>14

\* busy = false: the worker has seen the end of its share.
LEMMA FinishShare ==
    ASSUME TypeOK, ProtocolInv, LoadInv, ShareInv, RanInv, NEW w \in Workers, Finish(w)
    PROVE  LoadInv' /\ ShareInv' /\ RanInv'
<1>1. /\ UNCHANGED <<status, workload, dirty, active, index, result, it, cur, client, nextTask, ran, lastLoad>>
      /\ pc[w] = "post"
  BY DEF Finish, poolVars, history
<1>2. \A v \in Workers : /\ pc'[v] = IF v = w THEN "dec" ELSE pc[v]
                         /\ busy'[v] <=> (busy[v] /\ v # w)
  BY DEF Finish, Goto, TypeOK
<1>3. LoadInv'
  BY <1>1, LoadKept
<1>4. \A v \in Workers : (Holds(v)' <=> Holds(v)) /\ (Finishing(v)' => Finishing(v))
  BY <1>1, <1>2 DEF Holds, Finishing
<1>5. \A i \in DOMAIN workload : Pending(i)' <=> Pending(i)
  BY <1>1, <1>4, SomeSize, PendingKept
<1>6. RanInv'
  BY <1>1, <1>4, <1>5, RanKept
<1>7. ShareInv'
  <2>1. CASE Queue = "sq"
    BY <1>1, <1>2, <1>4, <2>1 DEF ShareInv
  <2>2. CASE Queue # "sq"
    <3>1. \A v \in Workers : pc'[v] # "test" /\ (busy'[v] => it'[v] % Size = v)
      BY <1>1, <1>2, <2>2 DEF ShareInv
    <3>2. \A v \in Workers : pc'[v] = "run" => cur'[v] % Size = v /\ cur'[v] < it'[v]
      BY <1>1, <1>2, <2>2 DEF ShareInv
    <3>3. \A v \in Workers : ~busy'[v] \/ pc'[v] = "post" => ~busy[v] \/ pc[v] = "post"
      BY <1>1, <1>2
    <3> QED
      BY <1>1, <2>2, <3>1, <3>2, <3>3 DEF ShareInv
  <2> QED
    BY <2>1, <2>2
<1> QED
  BY <1>3, <1>6, <1>7

\* --m_active: when it gets to zero nothing is pending, so all tasks have run.
LEMMA DecrementShare ==
    ASSUME TypeOK, ProtocolInv, LoadInv, ShareInv, RanInv, NEW w \in Workers, Decrement(w)
    PROVE  LoadInv' /\ ShareInv' /\ RanInv'
<1>1. /\ UNCHANGED <<status, workload, dirty, index, result, busy, it, cur, client, nextTask, ran, lastLoad>>
      /\ pc[w] = "dec"
  BY DEF Decrement, history
<1> DEFINE l == IF active = 1 THEN "complete" ELSE "wait"
<1>2. \A v \in Workers : pc'[v] = IF v = w THEN l ELSE pc[v]
  BY DEF Decrement, Goto, TypeOK
<1>3. client = "waiting" /\ result # "ready" /\ status # "READY" /\ \A v \in Workers : ~Finishing(v)
  BY <1>1, AtWork
<1>4. LoadInv'
  BY <1>1, <1>3, LoadKept
<1>5. \A v \in Workers : Holds(v)' <=> Holds(v)
  BY <1>1, <1>2 DEF Holds
<1>6. \A i \in DOMAIN workload : Pending(i)' <=> Pending(i)
  BY <1>1, <1>5, SomeSize, PendingKept
<1>7. ShareInv'
  <2>1. l \in {"complete", "wait"}
    OBVIOUS
  <2> HIDE DEF l
  <2>2. CASE Queue = "sq"
    BY <1>1, <1>2, <1>5, <2>1, <2>2 DEF ShareInv
  <2>3. CASE Queue # "sq"
    BY <1>1, <1>2, <2>1, <2>3 DEF ShareInv
  <2> QED
    BY <2>2, <2>3
<1>8. CASE active # 1
  <2>1. \A v \in Workers : Finishing(v)' => Finishing(v)
    BY <1>2, <1>8 DEF Finishing
  <2>2. RanInv'
    BY <1>1, <1>6, <2>1, RanKept
  <2> QED
    BY <1>4, <1>7, <2>2
<1>9. CASE active = 1
  <2>1. active = Cardinality(Engaged) /\ w \in Engaged
    BY <1>1, <1>3 DEF ProtocolInv, Engaged
  <2>2. Cardinality(Engaged \ {w}) = 0 /\ IsFiniteSet(Engaged \ {w})
    BY <1>9, <2>1, EngagedFinite, FS_RemoveElement
  <2>3. Engaged = {w}
    BY <2>1, <2>2, FS_EmptySet
  <2>4. \A v \in Workers : ~busy[v]
    BY <1>1, <2>3 DEF Engaged, ProtocolInv
  <2>5. status = "PROCESSING"
    BY <1>3, <2>4 DEF ProtocolInv, TypeOK, Statuses
  <2>6. \A v \in Workers : ~Holds(v)
    BY <2>4 DEF Holds, ProtocolInv, InDoWork
  <2>7. ASSUME NEW i \in DOMAIN workload PROVE ~Pending(i)
    <3>1. i \in Nat /\ i <= Len(workload) /\ Len(workload) \in Nat /\ index \in Nat
      BY Position DEF TypeOK
    <3>2. CASE Queue = "sq"
      <4>1. Len(workload) <= index
        BY <1>1, <2>5, <3>2 DEF ShareInv
      <4> QED
        BY <2>6, <3>1, <3>2, <4>1 DEF Pending
    <3>3. CASE Queue # "sq"
      <4> DEFINE u == (i - 1) % Size
      <4>1. u \in Workers
        BY SomeSize, ShareOf
      <4>2. i - 1 < it[u] /\ it[u] \in Nat /\ ~Holds(u)
        BY <1>3, <2>4, <2>5, <2>6, <3>3, <4>1 DEF ShareInv, TypeOK
      <4>3. Pending(i) <=> (i - 1 >= it[u] \/ (Holds(u) /\ cur[u] = i - 1))
        BY <3>3 DEF Pending
      <4> HIDE DEF u
      <4>4. ~(i - 1 >= it[u])
        BY <3>1, <4>2
      <4> QED
        BY <4>2, <4>3, <4>4, Zenon
    <3> QED
      BY <3>2, <3>3
  <2>8. \A i \in DOMAIN workload : ran[workload[i]] = 1
    BY <1>3, <2>5, <2>7 DEF RanInv
  <2>9. \A t \in lastLoad : ran[t] = 1
    BY <1>3, <2>8 DEF LoadInv, Inside, TasksOf
  <2>10. RanInv'
    BY <1>1, <1>6, <2>7, <2>8, <2>9 DEF RanInv
  <2> QED
    BY <1>4, <1>7, <2>10
<1> QED
  BY <1>8, <1>9

\* The last worker: m_status = READY, and set_value.
LEMMA CompleteShare ==
    ASSUME TypeOK, ProtocolInv, LoadInv, ShareInv, RanInv, NEW w \in Workers,
           Complete(w) \/ SetValue(w)
    PROVE  LoadInv' /\ ShareInv' /\ RanInv'
<1>1. /\ UNCHANGED <<active, index, busy, it, cur, client, nextTask, ran, lastLoad>> /\ Finishing(w)
  BY DEF Complete, SetValue, history, Finishing
<1>2. client = "waiting" /\ Engaged = {} /\ \A t \in lastLoad : ran[t] = 1
  BY <1>1 DEF ProtocolInv, RanInv
<1>3. status' = "READY"
  BY <1>1 DEF Complete, SetValue, ProtocolInv, Finishing
<1>4. RanInv'
  BY <1>1, <1>2, <1>3 DEF RanInv
<1>5. LoadInv'
  <2>1. CASE Complete(w)
    <3>1. status = "PROCESSING" /\ dirty
      BY <1>1, <1>2, <2>1 DEF Complete, ProtocolInv, LoadInv, Inside, Finishing
    <3>2. CASE Clear = "UPPON_COMPLETION"
      <4>1. workload' = << >> /\ DOMAIN workload' = {} /\ ~dirty'
        BY <2>1, <3>2, EmptyLoad DEF Complete
      <4> QED
        BY <1>1, <1>2, <1>3, <3>2, <4>1 DEF LoadInv, Inside
    <3>3. CASE Clear # "UPPON_COMPLETION"
      <4>1. workload' = workload /\ (dirty' <=> dirty)
        BY <2>1, <3>3 DEF Complete
      <4> QED
        BY <1>1, <1>2, <1>3, <3>1, <3>3, <4>1 DEF LoadInv, Inside
    <3> QED
      BY <3>2, <3>3
  <2>2. CASE SetValue(w)
    BY <2>2, <1>2, LoadKept DEF SetValue, history
  <2> QED
    BY <2>1, <2>2
<1>6. ShareInv'
  <2>1. \A v \in Workers : ~busy'[v] /\ pc'[v] \notin {"test", "run"}
    <3>1. \A v \in Workers : ~busy[v]
      BY <1>2 DEF Engaged
    <3>2. \A v \in Workers : pc[v] \notin {"test", "run"}
      BY <3>1 DEF ProtocolInv, InDoWork
    <3>3. pc' = [pc EXCEPT ![w] = "set"] \/ pc' = [pc EXCEPT ![w] = "wait"]
      BY DEF Complete, SetValue, Goto
    <3> QED
      BY <1>1, <3>1, <3>2, <3>3 DEF TypeOK
  <2> QED
    BY <1>3, <2>1 DEF ShareInv, Holds
<1> QED
  BY <1>4, <1>5, <1>6

-----------------------------------------------------------------------------
(* The theorems.                                                           *)

\* The invariant holds in a pool under construction.
LEMMA InitPool == Init => PoolInv
<1> SUFFICES ASSUME Init PROVE PoolInv
  OBVIOUS
<1>1. TypeOK /\ ProtocolInv
  BY InitTypeOK, InitProtocol
<1>2. DOMAIN workload = {}
  BY DEF Init
<1>3. LoadInv
  BY <1>2 DEF Init, LoadInv, Inside
<1>4. ShareInv
  BY DEF Init, ShareInv, Holds
<1>5. RanInv
  BY DEF Init, RanInv, Finishing
<1> QED
  BY <1>1, <1>3, <1>4, <1>5 DEF PoolInv

\* Every step keeps the invariant.
LEMMA NextPool ==
    ASSUME PoolInv, [Next]_vars
    PROVE  PoolInv'
<1>1. TypeOK /\ ProtocolInv /\ LoadInv /\ ShareInv /\ RanInv
  BY DEF PoolInv
<1>2. TypeOK' /\ ProtocolInv'
  BY <1>1, NextTypeOK, NextProtocol
<1>3. CASE ClientStep
  BY <1>1, <1>2, <1>3, ClientLoad, ClientShare DEF PoolInv
<1>4. ASSUME NEW w \in Workers, WorkerStep(w) \/ SpuriousWakeup(w) PROVE PoolInv'
  <2>1. CASE WaitForWork(w) \/ SpuriousWakeup(w) \/ Woken(w) \/ PushError(w)
    BY <1>1, <1>2, <2>1, PassiveShare DEF PoolInv
  <2>2. CASE FetchSq(w) \/ TestSq(w)
    BY <1>1, <1>2, <2>2, SqShare DEF PoolInv
  <2>3. CASE FetchMq(w)
    BY <1>1, <1>2, <2>3, MqShare DEF PoolInv
  <2>4. CASE RunTask(w) \/ TaskThrows(w)
    BY <1>1, <1>2, <2>4, RunShare DEF PoolInv
  <2>5. CASE Finish(w)
    BY <1>1, <1>2, <2>5, FinishShare DEF PoolInv
  <2>6. CASE Decrement(w)
    BY <1>1, <1>2, <2>6, DecrementShare DEF PoolInv
  <2>7. CASE Complete(w) \/ SetValue(w)
    BY <1>1, <1>2, <2>7, CompleteShare DEF PoolInv
  <2> QED
    BY <1>4, <2>1, <2>2, <2>3, <2>4, <2>5, <2>6, <2>7 DEF WorkerStep
<1>5. CASE UNCHANGED vars
  <2>1. UNCHANGED <<status, workload, dirty, active, index, result, busy, it, cur, pc, client, nextTask, ran, lastLoad>>
    BY <1>5 DEF vars, poolVars, workerVars, history
  <2>2. LoadInv'
    BY <1>1, <2>1, LoadKept
  <2>3. ShareInv'
    BY <1>1, <2>1 DEF ShareInv, Holds
  <2>4. RanInv'
    BY <1>1, <2>1 DEF RanInv, Pending, Holds, Finishing
  <2> QED
    BY <1>2, <2>2, <2>3, <2>4 DEF PoolInv
<1> QED
  BY <1>3, <1>4, <1>5 DEF Next, Gone

\* Both kinds of queue, every clear and error mode: the workers share the
\* workload out, and a task has run just when its position is not pending.
THEOREM PoolInvariant == Spec => []PoolInv
<1>1. Init => PoolInv
  BY InitPool
<1>2. PoolInv /\ [Next]_vars => PoolInv'
  BY NextPool
<1> QED
  BY <1>1, <1>2, PTL DEF Spec

\* What the callers of processWorkload rely on: no task is started twice, and
\* when the future is ready all have been and no worker is inside one.
THEOREM FutureDone == Spec => []FutureMeansDone
<1>1. PoolInv => FutureMeansDone
  <2> SUFFICES ASSUME PoolInv PROVE FutureMeansDone
    OBVIOUS
  <2>1. \A t \in Tasks : ran[t] <= 1
    BY DEF PoolInv, LoadInv
  <2>2. result = "ready" => \A t \in lastLoad : ran[t] = 1
    BY DEF PoolInv, RanInv
  <2>3. result = "ready" => \A w \in Workers : pc[w] \notin {"run", "push"}
    BY AtWork DEF PoolInv, InDoWork
  <2> QED
    BY <2>1, <2>2, <2>3 DEF FutureMeansDone
<1> QED
  BY <1>1, PoolInvariant, PTL

\* A workload that is handed out is a call of the fork/join.
LEMMA AcceptCalls ==
    ASSUME PoolInv, PoolInv', client = "idle", NEW load \in Seq(Tasks), load # << >>,
           Accept(load), ran' = ran
    PROVE  FJ!Next
<1>1. workload' = load /\ lastLoad' = TasksOf(load) /\ client' = "prepare"
  BY DEF Accept
<1>2. \A i \in DOMAIN load : ran'[load[i]] = 0
  BY <1>1 DEF PoolInv, LoadInv
<1>3. \A t \in lastLoad' : ran[t] = 0
  BY <1>1, <1>2 DEF TasksOf
<1>4. lastLoad' # {} /\ lastLoad' \in SUBSET Tasks
  <2>1. Len(load) \in Nat \ {0} /\ DOMAIN load = 1 .. Len(load)
    OBVIOUS
  <2>2. 1 \in DOMAIN load
    BY <2>1
  <2>3. load[1] \in lastLoad'
    BY <1>1, <2>2 DEF TasksOf
  <2>4. lastLoad' \subseteq Tasks
    BY DEF PoolInv, TypeOK
  <2> QED
    BY <2>3, <2>4
<1>5. {t \in lastLoad : ran[t] = 0}' = lastLoad'
  BY <1>3
<1>6. \E S \in SUBSET Tasks : FJ!Call(S)
  BY <1>1, <1>3, <1>4, <1>5 DEF FJ!Call
<1> QED
  BY <1>6 DEF FJ!Next

\* A task that is started is executed in the fork/join.
LEMMA RunExecutes ==
    ASSUME PoolInv, PoolInv', NEW w \in Workers, RunTask(w) \/ TaskThrows(w)
    PROVE  FJ!Next
<1> DEFINE t == CurTask(w)
<1>1. pc[w] = "run" /\ ran' = [ran EXCEPT ![t] = ran[t] + 1] /\ UNCHANGED <<client, lastLoad>>
  BY DEF RunTask, TaskThrows, Started
<1>2. client = "waiting" /\ status # "READY"
  BY <1>1, AtWork DEF PoolInv, InDoWork
<1>3. t \in Tasks /\ t \in TasksOf(workload)
  BY <1>1, CurTaskType DEF PoolInv, CurTask, TasksOf
<1>4. t \in lastLoad
  BY <1>2, <1>3 DEF PoolInv, LoadInv, Inside
<1>5. ran \in [Tasks -> Nat] /\ lastLoad \subseteq Tasks
  BY DEF PoolInv, TypeOK
<1>6. ran'[t] <= 1
  BY <1>3 DEF PoolInv, LoadInv
<1> HIDE DEF t
<1>7. ran[t] = 0 /\ ran'[t] = 1 /\ \A u \in Tasks \ {t} : ran'[u] = ran[u]
  BY <1>1, <1>3, <1>5, <1>6
<1>8. {u \in lastLoad' : ran'[u] = 0} = {u \in lastLoad : ran[u] = 0} \ {t}
  BY <1>1, <1>5, <1>7
<1>9. \E u \in Tasks : FJ!Execute(u)
  BY <1>1, <1>2, <1>3, <1>4, <1>7, <1>8 DEF FJ!Execute
<1> QED
  BY <1>9 DEF FJ!Next

\* Every step is one of the fork/join or changes nothing it knows of.
LEMMA StepForksOrJoins ==
    ASSUME PoolInv, PoolInv', [Next]_vars
    PROVE  [FJ!Next]_(FJ!vars)
<1> DEFINE Same == UNCHANGED <<ran, lastLoad>> /\ (Inside' <=> Inside)
<1>1. ASSUME Same PROVE UNCHANGED FJ!vars
  <2>1. (client \in {"prepare", "waiting"})' = (client \in {"prepare", "waiting"})
    BY <1>1 DEF Inside
  <2>2. {t \in lastLoad : ran[t] = 0}' = {t \in lastLoad : ran[t] = 0}
    BY <1>1
  <2> QED
    BY <1>1, <2>1, <2>2 DEF FJ!vars
<1>2. CASE Process
  <2> DEFINE load == IF Clear = "AT_NEXT_WORKLOAD" /\ status = "READY" /\ dirty THEN << >> ELSE workload
  <2>1. CASE status # "READY" \/ load = << >>
    BY <1>1, <1>2, <2>1 DEF Process, Refuse, Inside
  <2>2. CASE ~(status # "READY" \/ load = << >>)
    <3>1. Accept(load) /\ client = "idle" /\ ran' = ran /\ load # << >>
      BY <1>2, <2>2 DEF Process
    <3>2. load \in Seq(Tasks)
      BY DEF PoolInv, TypeOK
    <3> HIDE DEF load
    <3> QED
      BY <3>1, <3>2, AcceptCalls
  <2> QED
    BY <2>1, <2>2
<1>3. ASSUME NEW n \in 0 .. MaxLoad, ProcessWith(n) PROVE [FJ!Next]_(FJ!vars)
  <2>1. CASE status # "READY" \/ n = 0
    BY <1>1, <1>3, <2>1 DEF ProcessWith, Refuse, Inside
  <2>2. CASE ~(status # "READY" \/ n = 0)
    <3>1. Accept(Fresh(n)) /\ client = "idle" /\ ran' = ran
      BY <1>3, <2>2 DEF ProcessWith
    <3>2. Fresh(n) \in Seq(Tasks) /\ Len(Fresh(n)) = n
      BY <1>3, FreshIsLoad DEF ProcessWith, PoolInv, TypeOK
    <3>3. Fresh(n) # << >>
      BY <2>2, <3>2, EmptyLoad
    <3> QED
      BY <3>1, <3>2, <3>3, AcceptCalls
  <2> QED
    BY <2>1, <2>2
<1>4. CASE Await
  <2>1. client = "waiting" /\ client' = "idle" /\ UNCHANGED <<ran, lastLoad>> /\ result = "ready"
    BY <1>4 DEF Await, history
  <2>2. {t \in lastLoad : ran[t] = 0} = {}
    <3>1. RanInv
      BY DEF PoolInv
    <3>2. \A t \in lastLoad : ran[t] = 1
      BY <2>1, <3>1 DEF RanInv
    <3> QED
      BY <3>2
  <2>3. {t \in lastLoad : ran[t] = 0}' = {}
    BY <2>1, <2>2
  <2>4. FJ!Return
    BY <2>1, <2>2, <2>3 DEF FJ!Return
  <2> QED
    BY <2>4 DEF FJ!Next
<1>5. CASE Start \/ AppendTask \/ Destroy \/ Prepare \/ Join
  BY <1>1, <1>5 DEF Start, AppendTask, Destroy, Prepare, Join, history, Inside
<1>6. ASSUME NEW w \in Workers, WorkerStep(w) \/ SpuriousWakeup(w) PROVE [FJ!Next]_(FJ!vars)
  <2>1. CASE RunTask(w) \/ TaskThrows(w)
    BY <2>1, RunExecutes
  <2>2. CASE ~(RunTask(w) \/ TaskThrows(w))
    <3>1. UNCHANGED <<ran, lastLoad, client>>
      BY <1>6, <2>2 DEF WorkerStep, SpuriousWakeup, WaitForWork, Woken, FetchSq, TestSq, FetchMq,
                        PushError, Finish, Decrement, Complete, SetValue, history
    <3> QED
      BY <1>1, <3>1 DEF Inside
  <2> QED
    BY <2>1, <2>2
<1>7. CASE UNCHANGED vars
  BY <1>1, <1>7 DEF vars, history, Inside
<1> QED
  BY <1>2, <1>3, <1>4, <1>5, <1>6, <1>7 DEF Next, ClientStep, Gone

\* The safety of ImplementsForkJoin: a call runs each of its tasks once, on any
\* thread and in any order, and does not return before all have run.
THEOREM ForksAndJoins == Spec => FJ!Init /\ [][FJ!Next]_(FJ!vars)
<1>1. Init => FJ!Init
  <2> SUFFICES ASSUME Init PROVE FJ!Init
    OBVIOUS
  <2>1. (client \in {"prepare", "waiting"}) = FALSE
    BY DEF Init
  <2>2. {t \in lastLoad : ran[t] = 0} = {}
    BY DEF Init
  <2> QED
    BY <2>1, <2>2 DEF Init, FJ!Init
<1>2. PoolInv /\ PoolInv' /\ [Next]_vars => [FJ!Next]_(FJ!vars)
  BY StepForksOrJoins
<1> QED
  BY <1>1, <1>2, PoolInvariant, PTL DEF Spec
=============================================================================
