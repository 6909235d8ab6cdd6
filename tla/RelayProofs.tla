----------------------------- MODULE RelayProofs -----------------------------
(***************************************************************************)
(* Theorems about the relay, for any numbers of executors, runs of the     *)
(* command line, jobs, attempts, crashes, faults and lapses of leases:     *)
(* success on record is success on chain; and, as long as no lease lapses  *)
(* under its live holder, a job is in one executor's hands and, when       *)
(* nobody runs the command line, its outcome is final.                     *)
(***************************************************************************)
EXTENDS Relay, SequenceTheorems, TLAPS

Tx == [job : Job, status : {"pending", "succeeded", "reverted"}]
Pc == InProcess \cup {"release", "idle", "dead", "down", "done"}
Local ==
  [pc : Pc, job : Job \cup {Nobody}, copy : Row(TxIndex), attempt : 1 .. MaxAttempts,
   tx : TxIndex]

-----------------------------------------------------------------------------
(* The inductive invariant: SuccessIsReal holds of the rows because it     *)
(* holds of the copy every worker is about to write.                       *)

RowReal(j, row) ==
  /\ row.phase \in Success => row.confirmed /\ j \in processed
  /\ row.phase = "completed" => row.tx # 0
  /\ row.tx # 0 => row.tx \in DOMAIN txs /\ txs[row.tx] = [job |-> j, status |-> "succeeded"]

RowsReal == \A j \in Job : RowReal(j, rows[j])

TxsReal == \A t \in DOMAIN txs : txs[t].status = "succeeded" => txs[t].job \in processed

\* Where the source payment is part of the copy.
Confirmed ==
  {"saveReceipt", "check", "toAttest", "attest", "toProof", "prove", "saveProof", "toExecute",
   "execute", "mining", "recheck", "toDuplicate", "toCompleted"}

WorkerReal(w) ==
  LET me == worker[w] IN
  /\ me.pc \in InProcess \cup {"release"} => me.job \in Job
  /\ me.pc \in InProcess => RowReal(me.job, me.copy)
  /\ me.pc \in Confirmed => me.copy.confirmed
  /\ me.pc = "toDuplicate" => me.job \in processed
  /\ me.pc = "toCompleted" => me.copy.tx # 0
  /\ me.pc = "mining" => me.tx \in DOMAIN txs /\ txs[me.tx].job = me.job

WorkersReal == \A w \in Worker : WorkerReal(w)

RelayInv == RelayTypeOK /\ txs \in Seq(Tx) /\ TxsReal /\ RowsReal /\ WorkersReal

\* What no step takes back.
NetworkGrows ==
  /\ processed \subseteq processed'
  /\ DOMAIN txs \subseteq DOMAIN txs'
  /\ \A t \in DOMAIN txs :
       /\ txs'[t].job = txs[t].job
       /\ txs[t].status = "succeeded" => txs'[t] = txs[t]

OthersStay(w) == \A v \in Worker \ {w} : worker'[v] = worker[v]

-----------------------------------------------------------------------------
(* What is real stays real while the network grows. *)

LEMMA RowsRealForGood ==
  ASSUME RowsReal, NetworkGrows, UNCHANGED rows
  PROVE  RowsReal'
<1> SUFFICES ASSUME NEW j \in Job PROVE RowReal(j, rows[j])'
  BY DEF RowsReal
<1>1. RowReal(j, rows[j]) /\ rows'[j] = rows[j]
  BY DEF RowsReal
<1> QED BY <1>1 DEF RowReal, NetworkGrows

LEMMA WorkerRealForGood ==
  ASSUME NetworkGrows, NEW v \in Worker, WorkerReal(v), worker'[v] = worker[v]
  PROVE  WorkerReal(v)'
BY DEF NetworkGrows, WorkerReal, RowReal

\* One worker moves, and with it perhaps the store or the network.
LEMMA OneWorkerMoves ==
  ASSUME WorkersReal, NetworkGrows, NEW w \in Worker, OthersStay(w), WorkerReal(w)'
  PROVE  WorkersReal'
<1> SUFFICES ASSUME NEW v \in Worker PROVE WorkerReal(v)'
  BY DEF WorkersReal
<1>1. CASE v = w
  BY <1>1
<1>2. CASE v # w
  BY <1>2, WorkerRealForGood DEF WorkersReal, OthersStay
<1> QED BY <1>1, <1>2

\* A step of one worker that changes nothing else.
LEMMA LocalStep ==
  ASSUME RelayInv, NEW w \in Worker, UNCHANGED <<storeVars, networkVars, crashes, lapses>>,
         worker' \in [Worker -> Local], OthersStay(w), WorkerReal(w)'
  PROVE  RelayInv'
<1>1. NetworkGrows
  BY DEF NetworkGrows, networkVars
<1>2. WorkersReal'
  BY <1>1, OneWorkerMoves DEF RelayInv
<1>3. RowsReal'
  BY <1>1, RowsRealForGood DEF RelayInv, storeVars
<1>4. TxsReal' /\ txs' \in Seq(Tx)
  BY DEF RelayInv, TxsReal, networkVars
<1>5. RelayTypeOK'
  BY DEF RelayInv, RelayTypeOK, StoreTypeOK, storeVars, networkVars, Local, Pc
<1> QED BY <1>2, <1>3, <1>4, <1>5 DEF RelayInv

\* A step of one worker and the job store.
LEMMA StoreStep ==
  ASSUME RelayInv, NEW w \in Worker, UNCHANGED <<networkVars, crashes, lapses>>,
         StoreTypeOK(TxIndex)', RowsReal',
         worker' \in [Worker -> Local], OthersStay(w), WorkerReal(w)'
  PROVE  RelayInv'
<1>1. NetworkGrows
  BY DEF NetworkGrows, networkVars
<1>2. WorkersReal'
  BY <1>1, OneWorkerMoves DEF RelayInv
<1>4. TxsReal' /\ txs' \in Seq(Tx)
  BY DEF RelayInv, TxsReal, networkVars
<1>5. RelayTypeOK'
  BY DEF RelayInv, RelayTypeOK, networkVars, Local, Pc
<1> QED BY <1>2, <1>4, <1>5 DEF RelayInv

\* A step of the store and the networks in which no worker moves.
LEMMA OutsideStep ==
  ASSUME RelayInv, UNCHANGED worker, NetworkGrows, RelayTypeOK', txs' \in Seq(Tx), TxsReal',
         RowsReal'
  PROVE  RelayInv'
<1>1. WorkersReal'
  BY WorkerRealForGood DEF RelayInv, WorkersReal
<1> QED BY <1>1 DEF RelayInv

-----------------------------------------------------------------------------
(* Steps of a worker. *)

LEMMA QueuedType ==
  /\ NoRow \in Row(TxIndex) /\ NoRow.phase = "absent" /\ NoRow.tx = 0
  /\ Queued \in Row(TxIndex) /\ Queued.phase = "queued" /\ Queued.tx = 0
<1>1. 0 \in TxIndex
  BY RelayAssumption DEF TxIndex
<1>2. NoRow \in Row(TxIndex) /\ NoRow.phase = "absent" /\ NoRow.tx = 0
  BY <1>1 DEF NoRow, Row
<1>3. Queued \in Row(TxIndex) /\ Queued.phase = "queued" /\ Queued.tx = 0
  BY <1>2 DEF Queued, Row, Working
<1> QED BY <1>2, <1>3

\* A statement of the store throws or answers.
LEMMA FaultsType ==
  ASSUME faults \in 0 .. MaxFaults, Answers \/ Throws
  PROVE  faults' \in 0 .. MaxFaults
BY StoreAssumption DEF Answers, Throws

LEMMA InvTypes ==
  ASSUME RelayInv
  PROVE  /\ worker \in [Worker -> Local]
         /\ StoreTypeOK(TxIndex)
         /\ WorkersReal
BY DEF RelayInv, RelayTypeOK, Local, Pc

LEMMA IdleTypes ==
  ASSUME NEW pc \in Pc
  PROVE  /\ Idle(pc) \in Local
         /\ Idle(pc).pc = pc /\ Idle(pc).job = Nobody /\ Idle(pc).copy = NoRow
BY RelayAssumption DEF Idle, Local, NoRow, Row, TxIndex

\* Goto, for a worker that has what its new place asks for.
LEMMA GotoStep ==
  ASSUME RelayInv, NEW w \in Worker, NEW pc \in Pc, Goto(w, pc)
  PROVE  /\ worker' \in [Worker -> Local]
         /\ OthersStay(w)
         /\ worker'[w] = [worker[w] EXCEPT !.pc = pc, !.attempt = 1]
<1>1. 1 \in 1 .. MaxAttempts
  BY RelayAssumption
<1> QED BY <1>1, InvTypes DEF Goto, OthersStay, Local

LEMMA EnqueueStep ==
  ASSUME RelayInv, NEW j \in Job, Enqueue(j)
  PROVE  RelayInv'
<1>1. NetworkGrows /\ UNCHANGED worker
  BY DEF Enqueue, networkVars, NetworkGrows
<1>2. rows' = [rows EXCEPT ![j] = Queued] /\ Queued \in Row(TxIndex)
  BY QueuedType DEF Enqueue, Create
<1>3. RelayTypeOK'
  BY <1>2 DEF Enqueue, Create, Answers, RelayInv, RelayTypeOK, StoreTypeOK, networkVars
<1>4. ASSUME NEW k \in Job
      PROVE  RowReal(k, rows[k])'
  <2>1. CASE k = j
    <3>1. rows'[k] = Queued
      BY <1>2, <2>1 DEF RelayInv, RelayTypeOK, StoreTypeOK
    <3> QED BY <3>1, QueuedType DEF RowReal, Success
  <2>2. CASE k # j
    <3>1. rows'[k] = rows[k] /\ RowReal(k, rows[k])
      BY <1>2, <2>2 DEF RelayInv, RowsReal, RelayTypeOK, StoreTypeOK
    <3> QED BY <3>1, <1>1 DEF RowReal, NetworkGrows
  <2> QED BY <2>1, <2>2
<1>5. RowsReal'
  BY <1>4 DEF RowsReal
<1>6. TxsReal' /\ txs' \in Seq(Tx)
  BY DEF Enqueue, networkVars, RelayInv, TxsReal
<1> QED BY <1>1, <1>3, <1>5, <1>6, OutsideStep

LEMMA ClaimStep ==
  ASSUME RelayInv, NEW w \in Executor, Claim(w)
  PROVE  RelayInv'
<1>1. w \in Worker /\ w # Nobody
  BY StoreAssumption DEF Worker
<1>2. UNCHANGED <<rows, networkVars, crashes, lapses>> /\ RowsReal'
  <2>1. UNCHANGED <<rows, networkVars, crashes, lapses>>
    BY DEF Claim, ClaimNext, Lost
  <2>2. NetworkGrows
    BY <2>1 DEF networkVars, NetworkGrows
  <2> QED BY <2>1, <2>2, RowsRealForGood DEF RelayInv
<1>3. StoreTypeOK(TxIndex)'
  <2>1. faults' \in 0 .. MaxFaults
    BY FaultsType, InvTypes DEF Claim, StoreTypeOK
  <2>2. \/ leases' = leases
        \/ \E j \in Job : leases' = [leases EXCEPT ![j] = [owner |-> w, expired |-> FALSE]]
    BY DEF Claim, ClaimNext, Lost
  <2> DEFINE Leases == [owner : Executor \cup {Nobody}, expired : BOOLEAN]
  <2>a. leases \in [Job -> Leases]
    BY InvTypes DEF StoreTypeOK
  <2>b. [owner |-> w, expired |-> FALSE] \in Leases
    OBVIOUS
  <2> HIDE DEF Leases
  <2>3. leases' \in [Job -> Leases]
    BY <2>2, <2>a, <2>b
  <2> USE DEF Leases
  <2> QED BY <1>2, <2>1, <2>3, InvTypes DEF StoreTypeOK
<1>4. PICK next \in Local :
        /\ worker' = [worker EXCEPT ![w] = next]
        /\ next.pc \in {"get", "dead"}
        /\ next.pc = "get" => next.job \in Job
        /\ next.copy = NoRow
  <2>1. CASE \E j \in Job : worker' = [worker EXCEPT ![w] = [Idle("get") EXCEPT !.job = j]]
    <3>1. PICK j \in Job : worker' = [worker EXCEPT ![w] = [Idle("get") EXCEPT !.job = j]]
      BY <2>1
    <3>2. Idle("get") \in Local /\ Idle("get").pc = "get" /\ Idle("get").copy = NoRow
      BY IdleTypes DEF Pc, InProcess, Calls
    <3> DEFINE next == [Idle("get") EXCEPT !.job = j]
    <3>3. next \in Local /\ next.pc = "get" /\ next.job = j /\ next.copy = NoRow
      BY <3>2 DEF Local
    <3> HIDE DEF next
    <3>4. worker' = [worker EXCEPT ![w] = next]
      BY <3>1 DEF next
    <3> QED BY <3>3, <3>4
  <2>2. CASE worker' = [worker EXCEPT ![w] = Idle("dead")]
    BY <2>2, IdleTypes DEF Pc
  <2> QED BY <2>1, <2>2 DEF Claim
<1>5. worker' \in [Worker -> Local] /\ OthersStay(w) /\ worker'[w] = next
  BY <1>1, <1>4, InvTypes DEF OthersStay
<1>6. WorkerReal(w)'
  BY <1>4, <1>5 DEF WorkerReal, RowReal, NoRow, Success, Confirmed, InProcess, Writes, Calls
<1> QED BY <1>1, <1>2, <1>3, <1>5, <1>6, StoreStep

LEMMA FinishStep ==
  ASSUME RelayInv, NEW w \in Executor, Finish(w)
  PROVE  RelayInv'
<1>1. w \in Worker /\ worker[w].job \in Job
  BY DEF Worker, Finish, RelayInv, WorkersReal, WorkerReal
<1>2. UNCHANGED <<rows, networkVars, crashes, lapses>> /\ RowsReal'
  <2>1. UNCHANGED <<rows, networkVars, crashes, lapses>>
    BY DEF Finish, Release, Lost
  <2>2. NetworkGrows
    BY <2>1 DEF networkVars, NetworkGrows
  <2> QED BY <2>1, <2>2, RowsRealForGood DEF RelayInv
<1>3. StoreTypeOK(TxIndex)'
  <2>1. faults' \in 0 .. MaxFaults
    BY FaultsType, InvTypes DEF Finish, StoreTypeOK
  <2>2. leases' = leases \/ leases' = [leases EXCEPT ![worker[w].job] = Free]
    BY DEF Finish, Release, Lost
  <2> DEFINE Leases == [owner : Executor \cup {Nobody}, expired : BOOLEAN]
  <2>a. leases \in [Job -> Leases]
    BY InvTypes DEF StoreTypeOK
  <2>b. Free \in Leases
    BY DEF Free
  <2> HIDE DEF Leases
  <2>3. leases' \in [Job -> Leases]
    BY <1>1, <2>2, <2>a, <2>b
  <2> USE DEF Leases
  <2> QED BY <1>2, <2>1, <2>3, InvTypes DEF StoreTypeOK
<1>4. PICK pc \in {"idle", "dead"} : worker' = [worker EXCEPT ![w] = Idle(pc)]
  BY DEF Finish
<1>5. Idle(pc) \in Local /\ Idle(pc).pc = pc
  BY IdleTypes DEF Pc
<1>6. worker' \in [Worker -> Local] /\ OthersStay(w) /\ worker'[w].pc = pc
  BY <1>1, <1>4, <1>5, InvTypes DEF OthersStay
<1>7. WorkerReal(w)'
  BY <1>6 DEF WorkerReal, Confirmed, InProcess, Writes, Calls
<1> QED BY <1>1, <1>2, <1>3, <1>6, <1>7, StoreStep

\* A worker that only goes elsewhere, with what its new place asks for.
LEMMA GotoKeepsInv ==
  ASSUME RelayInv, NEW w \in Worker, worker[w].job \in Job, worker[w].pc \in InProcess,
         NEW pc \in Pc, Goto(w, pc), UNCHANGED <<storeVars, networkVars, crashes, lapses>>,
         pc \in Confirmed => worker[w].copy.confirmed,
         pc = "toDuplicate" => worker[w].job \in processed,
         pc \notin {"toCompleted", "mining"}
  PROVE  RelayInv'
<1>1. /\ worker' \in [Worker -> Local] /\ OthersStay(w)
      /\ worker'[w] = [worker[w] EXCEPT !.pc = pc, !.attempt = 1]
  BY GotoStep
<1>2. worker[w] \in Local
  BY InvTypes
<1>3. /\ worker'[w].pc = pc /\ worker'[w].job = worker[w].job
      /\ worker'[w].copy = worker[w].copy
  BY <1>1, <1>2 DEF Local
<1>4. RowReal(worker[w].job, worker[w].copy)
  BY DEF RelayInv, WorkersReal, WorkerReal
<1>5. WorkerReal(w)'
  BY <1>3, <1>4 DEF WorkerReal, RowReal, networkVars
<1> QED BY <1>1, <1>5, LocalStep

LEMMA RunStep ==
  ASSUME RelayInv, NEW c \in Cli, NEW j \in Job, Run(c, j)
  PROVE  RelayInv'
<1>1. c \in Worker
  BY DEF Worker
<1>2. Idle("get") \in Local /\ Idle("get").pc = "get" /\ Idle("get").copy = NoRow
  BY IdleTypes DEF Pc, InProcess, Calls
<1> DEFINE next == [Idle("get") EXCEPT !.job = j]
<1>3. next \in Local /\ next.pc = "get" /\ next.job = j /\ next.copy = NoRow
  BY <1>2 DEF Local
<1> HIDE DEF next
<1>4. worker' = [worker EXCEPT ![c] = next]
  BY DEF Run, next
<1>5. worker' \in [Worker -> Local] /\ OthersStay(c) /\ worker'[c] = next
  BY <1>1, <1>3, <1>4, InvTypes DEF OthersStay
<1>6. WorkerReal(c)'
  BY <1>3, <1>5, QueuedType DEF WorkerReal, RowReal, Success, Confirmed, InProcess, Writes, Calls
<1>7. UNCHANGED <<storeVars, networkVars, crashes, lapses>>
  BY DEF Run
<1> QED BY <1>1, <1>5, <1>6, <1>7, LocalStep

\* A worker that is outside of process afterwards.
LEMMA LeavesStep ==
  ASSUME RelayInv, NEW w \in Worker, NEW pc \in {"idle", "dead", "down", "done"},
         worker' = [worker EXCEPT ![w] = Idle(pc)]
  PROVE  worker' \in [Worker -> Local] /\ OthersStay(w) /\ WorkerReal(w)'
<1>1. Idle(pc) \in Local /\ Idle(pc).pc = pc
  BY IdleTypes DEF Pc
<1>2. worker' \in [Worker -> Local] /\ OthersStay(w) /\ worker'[w].pc = pc
  BY <1>1, InvTypes DEF OthersStay
<1>3. WorkerReal(w)'
  BY <1>2 DEF WorkerReal, Confirmed, InProcess, Writes, Calls
<1> QED BY <1>2, <1>3

LEMMA ExitStep ==
  ASSUME RelayInv, NEW c \in Cli, Exit(c)
  PROVE  RelayInv'
BY LeavesStep, LocalStep DEF Exit, Worker

LEMMA RestartStep ==
  ASSUME RelayInv, NEW w \in Executor, Restart(w)
  PROVE  RelayInv'
BY LeavesStep, LocalStep DEF Restart, Worker

LEMMA GetStep ==
  ASSUME RelayInv, NEW w \in Worker, Get(w)
  PROVE  RelayInv'
<1> DEFINE previous == rows[worker[w].job]
<1>1. worker[w] \in Local /\ worker[w].pc = "get" /\ worker[w].job \in Job /\ "get" \in InProcess
  BY InvTypes DEF Get, WorkersReal, WorkerReal, InProcess, Calls
<1>2. previous \in Row(TxIndex) /\ RowReal(worker[w].job, previous)
  BY <1>1 DEF RelayInv, RelayTypeOK, StoreTypeOK, RowsReal
<1>3. UNCHANGED <<rows, leases, networkVars, crashes, lapses>> /\ StoreTypeOK(TxIndex)'
  <2>1. UNCHANGED <<rows, leases, networkVars, crashes, lapses>>
    BY DEF Get, Lost
  <2>2. Answers \/ Throws
    BY DEF Get
  <2> QED BY <2>1, <2>2, FaultsType, InvTypes DEF StoreTypeOK
<1>4. NetworkGrows /\ RowsReal'
  <2>1. NetworkGrows
    BY <1>3 DEF networkVars, NetworkGrows
  <2> QED BY <1>3, <2>1, RowsRealForGood DEF RelayInv
<1>5. CASE worker' = [worker EXCEPT
             ![w].copy = IF previous = NoRow THEN Queued ELSE previous,
             ![w].pc = IF AlreadyRelayed(previous) THEN "toDuplicate" ELSE "saveQueued"]
  <2> DEFINE copy == IF previous = NoRow THEN Queued ELSE previous
             pc == IF AlreadyRelayed(previous) THEN "toDuplicate" ELSE "saveQueued"
  <2>1. copy \in Row(TxIndex) /\ pc \in Pc /\ RowReal(worker[w].job, copy)
    BY <1>2, QueuedType DEF Pc, InProcess, Writes, RowReal, Success
  <2>2. pc = "toDuplicate" => copy.confirmed /\ worker[w].job \in processed
    BY <1>2, QueuedType DEF AlreadyRelayed, RowReal, Success
  <2>3. pc \in {"toDuplicate", "saveQueued"}
    OBVIOUS
  <2> HIDE DEF copy, pc
  <2>4. worker' = [worker EXCEPT ![w].copy = copy, ![w].pc = pc]
    BY <1>5 DEF copy, pc
  <2>5. /\ worker' \in [Worker -> Local] /\ OthersStay(w)
        /\ worker'[w].pc = pc /\ worker'[w].job = worker[w].job /\ worker'[w].copy = copy
    BY <1>1, <2>1, <2>4, InvTypes DEF Local, OthersStay
  <2>6. WorkerReal(w)'
    BY <1>1, <1>3, <2>1, <2>2, <2>3, <2>5 DEF WorkerReal, RowReal, Confirmed, networkVars
  <2> QED BY <1>3, <1>4, <2>5, <2>6, StoreStep
<1>6. CASE Goto(w, "release")
  <2>1. /\ worker' \in [Worker -> Local] /\ OthersStay(w)
        /\ worker'[w] = [worker[w] EXCEPT !.pc = "release", !.attempt = 1]
    BY <1>6, GotoStep DEF Pc
  <2>2. worker'[w].pc = "release" /\ worker'[w].job = worker[w].job
    BY <1>1, <2>1 DEF Local
  <2>3. WorkerReal(w)'
    BY <1>1, <2>2 DEF WorkerReal, Confirmed, InProcess, Writes, Calls
  <2> QED BY <1>3, <1>4, <2>1, <2>3, StoreStep
<1> QED BY <1>5, <1>6 DEF Get

LEMMA WriteTypes ==
  ASSUME NEW pc \in DOMAIN Writes
  PROVE  /\ Writes[pc].then \in Pc \cap (InProcess \cup {"release"})
         /\ Writes[pc].fault \in {"saveFailed", "release"}
         /\ Writes[pc].phase \in {"kept"} \cup Working \cup Terminal
         /\ Writes[pc].phase = "duplicate" <=> pc = "toDuplicate"
         /\ Writes[pc].phase = "completed" <=> pc = "toCompleted"
         /\ Writes[pc].then \in Confirmed => pc \in Confirmed
         /\ Writes[pc].then \notin {"toDuplicate", "toCompleted", "mining"}
BY DEF Writes, Write, Pc, InProcess, Calls, Working, Terminal, Success, Confirmed

\* The row a worker writes is its copy, in the phase of the place it writes at.
Written(w) ==
  LET write == Writes[worker[w].pc]
  IN  IF write.phase = "kept" THEN worker[w].copy
      ELSE [worker[w].copy EXCEPT !.phase = write.phase]

LEMMA WrittenIsReal ==
  ASSUME RelayInv, NEW w \in Worker, worker[w].pc \in DOMAIN Writes
  PROVE  /\ Written(w) \in Row(TxIndex)
         /\ RowReal(worker[w].job, Written(w))
         /\ Written(w).confirmed = worker[w].copy.confirmed
         /\ Written(w).tx = worker[w].copy.tx
<1> DEFINE me == worker[w]
<1>1. me \in Local /\ me.pc \in InProcess /\ me.copy \in Row(TxIndex)
  BY InvTypes DEF InProcess, Local
<1>2. RowReal(me.job, me.copy) /\ WorkerReal(w)
  BY <1>1 DEF RelayInv, WorkersReal, WorkerReal
<1>3. CASE Writes[me.pc].phase = "kept"
  BY <1>1, <1>2, <1>3 DEF Written
<1>4. CASE Writes[me.pc].phase # "kept"
  <2> DEFINE phase == Writes[me.pc].phase
  <2>1. /\ phase \in Working \cup Terminal
        /\ phase = "duplicate" <=> me.pc = "toDuplicate"
        /\ phase = "completed" <=> me.pc = "toCompleted"
    BY <1>4, WriteTypes
  <2> HIDE DEF phase
  <2>2. Written(w) = [me.copy EXCEPT !.phase = phase]
    BY <1>4 DEF Written, phase
  <2>3. /\ Written(w) \in Row(TxIndex) /\ Written(w).phase = phase
        /\ Written(w).confirmed = me.copy.confirmed /\ Written(w).tx = me.copy.tx
    BY <1>1, <2>1, <2>2 DEF Row
  <2>4. phase \in Success => me.copy.confirmed /\ me.job \in processed
    <3>1. CASE phase = "duplicate"
      BY <1>2, <2>1, <3>1 DEF WorkerReal, Confirmed
    <3>2. CASE phase = "completed"
      <4>1. me.pc = "toCompleted" /\ me.copy.confirmed /\ me.copy.tx # 0
        BY <1>2, <2>1, <3>2 DEF WorkerReal, Confirmed
      <4>2. me.copy.tx \in DOMAIN txs /\ txs[me.copy.tx].job = me.job
              /\ txs[me.copy.tx].status = "succeeded"
        BY <1>2, <4>1 DEF RowReal
      <4> QED BY <4>1, <4>2 DEF RelayInv, TxsReal
    <3> QED BY <3>1, <3>2 DEF Success
  <2>5. phase = "completed" => me.copy.tx # 0
    BY <1>2, <2>1 DEF WorkerReal
  <2> QED BY <1>2, <2>3, <2>4, <2>5 DEF RowReal
<1> QED BY <1>3, <1>4

LEMMA SaveJobStep ==
  ASSUME RelayInv, NEW w \in Worker, SaveJob(w)
  PROVE  RelayInv'
<1> DEFINE me == worker[w]  row == Written(w)  write == Writes[me.pc]
<1>1. /\ me \in Local /\ me.pc \in DOMAIN Writes /\ me.pc \in InProcess /\ me.job \in Job
      /\ me.copy \in Row(TxIndex)
  BY InvTypes DEF SaveJob, WorkersReal, WorkerReal, InProcess, Local
<1>2. row \in Row(TxIndex) /\ RowReal(me.job, row) /\ row.confirmed = me.copy.confirmed
  BY <1>1, WrittenIsReal
<1>3. /\ UNCHANGED <<leases, networkVars, crashes, lapses>>
      /\ Answers \/ Throws
      /\ rows' = rows \/ rows' = [rows EXCEPT ![me.job] = row]
      /\ \/ /\ worker' = [worker EXCEPT ![w].copy = row, ![w].pc = write.then]
            /\ rows' = [rows EXCEPT ![me.job] = row]
         \/ Goto(w, write.fault)
  BY DEF SaveJob, Save, Lost, Written
<1> HIDE DEF row
<1>4. NetworkGrows
  BY <1>3 DEF networkVars, NetworkGrows
<1>5. StoreTypeOK(TxIndex)'
  BY <1>1, <1>2, <1>3, FaultsType, InvTypes DEF StoreTypeOK
<1>6. RowsReal'
  <2> SUFFICES ASSUME NEW k \in Job PROVE RowReal(k, rows[k])'
    BY DEF RowsReal
  <2>1. RowReal(k, rows'[k])
    BY <1>1, <1>2, <1>3, InvTypes DEF RelayInv, RowsReal, StoreTypeOK
  <2> QED BY <2>1, <1>3 DEF RowReal, networkVars
<1>7. CASE worker' = [worker EXCEPT ![w].copy = row, ![w].pc = write.then]
  <2> DEFINE pc == write.then
  <2>1. /\ pc \in Pc /\ pc \in InProcess \cup {"release"}
        /\ pc \in Confirmed => me.pc \in Confirmed
        /\ pc \notin {"toDuplicate", "toCompleted", "mining"}
    BY <1>1, WriteTypes
  <2> HIDE DEF pc
  <2>2. worker' = [worker EXCEPT ![w].copy = row, ![w].pc = pc]
    BY <1>7 DEF pc
  <2>3. /\ worker' \in [Worker -> Local] /\ OthersStay(w)
        /\ worker'[w].pc = pc /\ worker'[w].job = me.job /\ worker'[w].copy = row
    BY <1>1, <1>2, <2>1, <2>2, InvTypes DEF Local, OthersStay
  <2>4. me.pc \in Confirmed => me.copy.confirmed
    BY DEF RelayInv, WorkersReal, WorkerReal
  <2>5. WorkerReal(w)'
    BY <1>1, <1>2, <1>3, <2>1, <2>3, <2>4 DEF WorkerReal, RowReal, networkVars
  <2> QED BY <1>3, <1>5, <1>6, <2>3, <2>5, StoreStep
<1>8. CASE Goto(w, write.fault)
  <2> DEFINE pc == write.fault
  <2>1. pc \in {"saveFailed", "release"} /\ pc \in Pc
    BY <1>1, WriteTypes DEF Pc, InProcess, Writes
  <2> HIDE DEF pc
  <2>2. Goto(w, pc)
    BY <1>8 DEF pc
  <2>3. /\ worker' \in [Worker -> Local] /\ OthersStay(w)
        /\ worker'[w] = [me EXCEPT !.pc = pc, !.attempt = 1]
    BY <2>1, <2>2, GotoStep
  <2>4. worker'[w].pc = pc /\ worker'[w].job = me.job /\ worker'[w].copy = me.copy
    BY <1>1, <2>3 DEF Local
  <2>5. RowReal(me.job, me.copy)
    BY <1>1 DEF RelayInv, WorkersReal, WorkerReal
  <2>6. WorkerReal(w)'
    BY <1>1, <1>3, <2>1, <2>4, <2>5 DEF WorkerReal, RowReal, Confirmed, networkVars
  <2> QED BY <1>3, <1>5, <1>6, <2>3, <2>6, StoreStep
<1> QED BY <1>3, <1>7, <1>8

\* What a worker inside process may go by.
LEMMA InsideTypes ==
  ASSUME RelayInv, NEW w \in Worker, worker[w].pc \in InProcess
  PROVE  /\ worker[w] \in Local /\ worker[w].job \in Job
         /\ worker[w].pc \in Confirmed => worker[w].copy.confirmed
BY InvTypes DEF WorkersReal, WorkerReal

LEMMA RetryStep ==
  ASSUME RelayInv, NEW w \in Worker, Retry(w)
  PROVE  RelayInv'
<1> DEFINE me == worker[w]  phase == IF me.pc = "mining" THEN "execute" ELSE me.pc
<1>1. /\ me.pc \in {"confirm", "check", "attest", "prove", "execute", "mining"}
      /\ me.pc \in InProcess
      /\ phase \in {"confirm", "check", "attest", "prove", "execute"}
      /\ phase \in Confirmed => me.pc \in Confirmed
  BY DEF Retry, InProcess, Calls, Confirmed
<1>2. me \in Local /\ me.job \in Job /\ RowReal(me.job, me.copy)
  BY <1>1, InsideTypes DEF RelayInv, WorkersReal, WorkerReal
<1>3. UNCHANGED <<storeVars, networkVars, crashes, lapses>>
  BY DEF Retry
<1>4. phase \in Confirmed => me.copy.confirmed
  BY <1>1, InsideTypes
<1>5. \/ Goto(w, Exhausted(phase))
      \/ /\ me.attempt < MaxAttempts
         /\ worker' = [worker EXCEPT ![w].pc = phase, ![w].attempt = @ + 1]
  BY DEF Retry, MayRetry
<1> HIDE DEF phase
<1>6. CASE Goto(w, Exhausted(phase))
  <2> DEFINE pc == Exhausted(phase)
  <2>1. /\ pc \in {"recheck", "saveFailed"} /\ pc \in Pc
        /\ pc \in Confirmed => phase \in Confirmed
    BY <1>1 DEF Exhausted, Pc, InProcess, Calls, Writes, Confirmed
  <2>2. Goto(w, pc)
    BY <1>6
  <2> HIDE DEF pc
  <2> QED BY <1>1, <1>2, <1>3, <1>4, <2>1, <2>2, GotoKeepsInv
<1>7. CASE /\ me.attempt < MaxAttempts
           /\ worker' = [worker EXCEPT ![w].pc = phase, ![w].attempt = @ + 1]
  <2>1. me.attempt \in 1 .. MaxAttempts
    BY <1>2 DEF Local
  <2>2. me.attempt + 1 \in 1 .. MaxAttempts
    BY <1>7, <2>1, RelayAssumption
  <2>3. phase \in Pc
    BY <1>1 DEF Pc, InProcess, Calls
  <2>4. /\ worker' \in [Worker -> Local] /\ OthersStay(w)
        /\ worker'[w].pc = phase /\ worker'[w].job = me.job /\ worker'[w].copy = me.copy
    BY <1>2, <1>7, <2>2, <2>3, InvTypes DEF Local, OthersStay
  <2>5. WorkerReal(w)'
    BY <1>1, <1>2, <1>3, <1>4, <2>4 DEF WorkerReal, RowReal, networkVars
  <2> QED BY <1>3, <2>4, <2>5, LocalStep
<1> QED BY <1>5, <1>6, <1>7

LEMMA ConfirmStep ==
  ASSUME RelayInv, NEW w \in Worker, Confirm(w)
  PROVE  RelayInv'
<1> DEFINE me == worker[w]
<1>1. me.pc = "confirm" /\ me.pc \in InProcess
  BY DEF Confirm, InProcess, Calls
<1>2. me \in Local /\ me.job \in Job /\ RowReal(me.job, me.copy) /\ me.copy \in Row(TxIndex)
  BY <1>1, InsideTypes DEF RelayInv, WorkersReal, WorkerReal, Local
<1>3. UNCHANGED <<storeVars, networkVars, crashes, lapses>>
  BY DEF Confirm
<1>4. CASE Goto(w, "saveFailed")
  BY <1>1, <1>2, <1>3, <1>4, GotoKeepsInv DEF Pc, InProcess, Writes, Confirmed
<1>5. CASE worker' = [worker EXCEPT ![w].pc = "saveReceipt", ![w].attempt = 1,
                                    ![w].copy.confirmed = TRUE]
  <2>1. 1 \in 1 .. MaxAttempts /\ "saveReceipt" \in Pc
    BY RelayAssumption DEF Pc, InProcess, Writes
  <2> DEFINE copy == [me.copy EXCEPT !.confirmed = TRUE]
  <2>2. /\ copy \in Row(TxIndex) /\ copy.confirmed = TRUE /\ copy.phase = me.copy.phase
        /\ copy.tx = me.copy.tx
    BY <1>2 DEF Row
  <2> HIDE DEF copy
  <2>3. worker' = [worker EXCEPT ![w] =
          [me EXCEPT !.pc = "saveReceipt", !.attempt = 1, !.copy = copy]]
    BY <1>2, <1>5, InvTypes DEF copy, Local
  <2>4. /\ worker' \in [Worker -> Local] /\ OthersStay(w)
        /\ worker'[w].pc = "saveReceipt" /\ worker'[w].job = me.job /\ worker'[w].copy = copy
    BY <1>2, <2>1, <2>2, <2>3, InvTypes DEF Local, OthersStay
  <2>5. RowReal(me.job, copy)
    BY <1>2, <2>2 DEF RowReal
  <2>6. WorkerReal(w)'
    BY <1>2, <1>3, <2>2, <2>4, <2>5 DEF WorkerReal, RowReal, networkVars
  <2> QED BY <1>3, <2>4, <2>6, LocalStep
<1> QED BY <1>4, <1>5 DEF Confirm

LEMMA CheckStep ==
  ASSUME RelayInv, NEW w \in Worker, Check(w) \/ Recheck(w)
  PROVE  RelayInv'
<1>1. worker[w].pc \in {"check", "recheck"} \cap InProcess \cap Confirmed
  BY DEF Check, Recheck, InProcess, Calls, Confirmed
<1>2. worker[w].job \in Job /\ worker[w].copy.confirmed
  BY <1>1, InsideTypes
<1>3. UNCHANGED <<storeVars, networkVars, crashes, lapses>>
  BY DEF Check, Recheck
<1>4. PICK pc \in {"toDuplicate", "toAttest", "saveFailed"} :
        Goto(w, pc) /\ (pc = "toDuplicate" => worker[w].job \in processed)
  BY DEF Check, Recheck
<1>5. pc \in Pc
  BY DEF Pc, InProcess, Writes
<1> QED BY <1>1, <1>2, <1>3, <1>4, <1>5, GotoKeepsInv

LEMMA AttestProveStep ==
  ASSUME RelayInv, NEW w \in Worker, AwaitAttestation(w) \/ Prove(w)
  PROVE  RelayInv'
<1>1. worker[w].pc \in {"attest", "prove"} \cap InProcess \cap Confirmed
  BY DEF AwaitAttestation, Prove, InProcess, Calls, Confirmed
<1>2. worker[w].job \in Job /\ worker[w].copy.confirmed
  BY <1>1, InsideTypes
<1>3. UNCHANGED <<storeVars, networkVars, crashes, lapses>>
  BY DEF AwaitAttestation, Prove
<1>4. PICK pc \in {"toProof", "saveProof", "saveFailed"} : Goto(w, pc)
  BY DEF AwaitAttestation, Prove
<1>5. pc \in Pc
  BY DEF Pc, InProcess, Writes
<1> QED BY <1>1, <1>2, <1>3, <1>4, <1>5, GotoKeepsInv

LEMMA SubmitStep ==
  ASSUME RelayInv, NEW w \in Worker, Submit(w)
  PROVE  RelayInv'
<1> DEFINE me == worker[w]  tx == [job |-> me.job, status |-> "pending"]  t == Len(txs) + 1
<1>1. me.pc = "execute" /\ me.pc \in InProcess /\ me.pc \in Confirmed
  BY DEF Submit, InProcess, Calls, Confirmed
<1>2. /\ me \in Local /\ me.job \in Job /\ me.copy.confirmed
      /\ RowReal(me.job, me.copy)
  BY <1>1, InsideTypes DEF RelayInv, WorkersReal, WorkerReal
<1>3. /\ UNCHANGED <<storeVars, source, attested, processed, crashes, lapses>>
      /\ Len(txs) < MaxSubmissions
      /\ txs' = Append(txs, tx)
      /\ worker' = [worker EXCEPT ![w].pc = "mining", ![w].tx = t]
  BY DEF Submit
<1>4. tx \in Tx /\ tx.job = me.job /\ tx.status = "pending"
  BY <1>2 DEF Tx
<1> HIDE DEF tx
<1>5. /\ txs \in Seq(Tx) /\ Len(txs) \in Nat /\ DOMAIN txs = 1 .. Len(txs)
  BY DEF RelayInv
<1>6. /\ txs' \in Seq(Tx) /\ Len(txs') = Len(txs) + 1
      /\ DOMAIN txs' = 1 .. Len(txs) + 1
      /\ \A u \in DOMAIN txs : txs'[u] = txs[u]
      /\ txs'[t] = tx
  BY <1>3, <1>4, <1>5, AppendProperties
<1>7. NetworkGrows
  BY <1>3, <1>5, <1>6 DEF NetworkGrows
<1>8. TxsReal'
  <2> SUFFICES ASSUME NEW u \in DOMAIN txs', txs'[u].status = "succeeded"
               PROVE  txs'[u].job \in processed'
    BY DEF TxsReal
  <2>1. u \in DOMAIN txs /\ txs'[u] = txs[u]
    BY <1>4, <1>5, <1>6
  <2> QED BY <2>1, <1>3 DEF RelayInv, TxsReal
<1>9. t \in TxIndex /\ "mining" \in Pc
  BY <1>3, <1>5, RelayAssumption DEF TxIndex, Pc, InProcess, Calls
<1>10. /\ worker' \in [Worker -> Local] /\ OthersStay(w)
       /\ worker'[w].pc = "mining" /\ worker'[w].job = me.job /\ worker'[w].copy = me.copy
       /\ worker'[w].tx = t
  BY <1>2, <1>3, <1>9, InvTypes DEF Local, OthersStay
<1>11. WorkerReal(w)'
  <2>1. t \in DOMAIN txs' /\ txs'[t].job = me.job
    BY <1>4, <1>5, <1>6
  <2> QED BY <1>2, <1>3, <1>7, <1>10, <2>1 DEF WorkerReal, RowReal, NetworkGrows
<1>12. RowsReal' /\ WorkersReal'
  BY <1>3, <1>7, <1>10, <1>11, RowsRealForGood, OneWorkerMoves DEF RelayInv, storeVars
<1>13. Len(txs') <= MaxSubmissions
  BY <1>3, <1>5, <1>6, RelayAssumption
<1>14. RelayTypeOK'
  BY <1>3, <1>6, <1>10, <1>13
     DEF RelayInv, RelayTypeOK, StoreTypeOK, storeVars, Local, Pc, Tx
<1> QED BY <1>6, <1>8, <1>12, <1>14 DEF RelayInv

LEMMA AwaitExecutionStep ==
  ASSUME RelayInv, NEW w \in Worker, AwaitExecution(w)
  PROVE  RelayInv'
<1> DEFINE me == worker[w]
<1>1. me.pc = "mining" /\ me.pc \in InProcess /\ me.pc \in Confirmed
  BY DEF AwaitExecution, InProcess, Calls, Confirmed
<1>2. /\ me \in Local /\ me.job \in Job /\ me.copy.confirmed
      /\ RowReal(me.job, me.copy)
      /\ me.tx \in DOMAIN txs /\ txs[me.tx].job = me.job
  BY <1>1, InsideTypes DEF RelayInv, WorkersReal, WorkerReal
<1>3. /\ UNCHANGED <<storeVars, networkVars, crashes, lapses>>
      /\ txs[me.tx].status = "succeeded"
      /\ worker' = [worker EXCEPT ![w].pc = "toCompleted", ![w].attempt = 1, ![w].copy.tx = me.tx]
  BY DEF AwaitExecution, Succeeded
<1>4. txs[me.tx] \in Tx /\ DOMAIN txs \subseteq Nat \ {0}
  BY <1>2 DEF RelayInv
<1>5. txs[me.tx] = [job |-> me.job, status |-> "succeeded"] /\ me.tx # 0
  BY <1>2, <1>3, <1>4 DEF Tx
<1>6. me.job \in processed
  BY <1>2, <1>3 DEF RelayInv, TxsReal
<1> DEFINE copy == [me.copy EXCEPT !.tx = me.tx]
<1>7. me.copy \in Row(TxIndex) /\ me.tx \in TxIndex
  BY <1>2 DEF Local
<1>8. /\ copy \in Row(TxIndex) /\ copy.confirmed = me.copy.confirmed
      /\ copy.phase = me.copy.phase /\ copy.tx = me.tx
  BY <1>7 DEF Row
<1> HIDE DEF copy
<1>9. worker' = [worker EXCEPT ![w] =
        [me EXCEPT !.pc = "toCompleted", !.attempt = 1, !.copy = copy]]
  BY <1>2, <1>3, InvTypes DEF copy, Local
<1>10. 1 \in 1 .. MaxAttempts /\ "toCompleted" \in Pc
  BY RelayAssumption DEF Pc, InProcess, Writes
<1>11. /\ worker' \in [Worker -> Local] /\ OthersStay(w)
       /\ worker'[w].pc = "toCompleted" /\ worker'[w].job = me.job /\ worker'[w].copy = copy
  BY <1>2, <1>8, <1>9, <1>10, InvTypes DEF Local, OthersStay
<1>12. RowReal(me.job, copy)
  BY <1>2, <1>5, <1>6, <1>8 DEF RowReal
<1>13. WorkerReal(w)'
  BY <1>2, <1>3, <1>5, <1>8, <1>11, <1>12 DEF WorkerReal, RowReal, networkVars
<1> QED BY <1>3, <1>11, <1>13, LocalStep

LEMMA ProcessStep ==
  ASSUME RelayInv, NEW w \in Worker, Process(w)
  PROVE  RelayInv'
BY GetStep, SaveJobStep, RetryStep, ConfirmStep, CheckStep, AttestProveStep, SubmitStep,
   AwaitExecutionStep DEF Process

-----------------------------------------------------------------------------
(* Steps of the leases, of faults and of the networks. *)

\* A heartbeat, or the end of a lease: a statement on the leases alone.
LEMMA LeaseStep ==
  ASSUME RelayInv, NEW j \in Job, NEW expired \in BOOLEAN,
         leases' = [leases EXCEPT ![j].expired = expired],
         lapses' \in 0 .. MaxLapses, UNCHANGED <<rows, faults, networkVars, worker, crashes>>
  PROVE  RelayInv'
<1>1. NetworkGrows
  BY DEF networkVars, NetworkGrows
<1>2. leases' \in [Job -> [owner : Executor \cup {Nobody}, expired : BOOLEAN]]
  BY InvTypes DEF StoreTypeOK
<1>3. RelayTypeOK'
  BY <1>2 DEF RelayInv, RelayTypeOK, StoreTypeOK, networkVars
<1>4. RowsReal' /\ TxsReal' /\ txs' \in Seq(Tx)
  BY <1>1, RowsRealForGood DEF RelayInv, TxsReal, networkVars
<1> QED BY <1>1, <1>3, <1>4, OutsideStep

LEMMA HeartbeatStep ==
  ASSUME RelayInv, NEW w \in Executor, Heartbeat(w)
  PROVE  RelayInv'
<1>1. worker[w].job \in Job
  BY DEF Heartbeat, RelayInv, WorkersReal, WorkerReal, Worker
<1>2. /\ leases' = [leases EXCEPT ![worker[w].job].expired = FALSE]
      /\ UNCHANGED <<rows, faults, networkVars, worker, crashes, lapses>>
  BY DEF Heartbeat, RenewLease, Answers
<1>3. lapses' \in 0 .. MaxLapses
  BY <1>2 DEF RelayInv, RelayTypeOK
<1> QED BY <1>1, <1>2, <1>3, LeaseStep

LEMMA LapseStep ==
  ASSUME RelayInv, NEW j \in Job, Lapse(j)
  PROVE  RelayInv'
<1>1. /\ leases' = [leases EXCEPT ![j].expired = TRUE]
      /\ UNCHANGED <<rows, faults, networkVars, worker, crashes>>
  BY DEF Lapse, Expire, Answers
<1>2. lapses' \in 0 .. MaxLapses
  BY RelayAssumption DEF Lapse, RelayInv, RelayTypeOK
<1> QED BY <1>1, <1>2, LeaseStep

LEMMA CrashStep ==
  ASSUME RelayInv, NEW w \in Worker, Crash(w)
  PROVE  RelayInv'
<1>1. PICK pc \in {"down", "done"} : worker' = [worker EXCEPT ![w] = Idle(pc)]
  BY DEF Crash
<1>2. worker' \in [Worker -> Local] /\ OthersStay(w) /\ WorkerReal(w)'
  BY <1>1, LeavesStep
<1>3. UNCHANGED <<storeVars, networkVars, lapses>> /\ crashes' \in 0 .. MaxCrashes
  BY RelayAssumption DEF Crash, RelayInv, RelayTypeOK
<1>4. NetworkGrows
  BY <1>3 DEF networkVars, NetworkGrows
<1>5. RowsReal' /\ TxsReal' /\ txs' \in Seq(Tx)
  BY <1>3, <1>4, RowsRealForGood DEF RelayInv, TxsReal, networkVars, storeVars
<1>6. WorkersReal'
  BY <1>2, <1>4, OneWorkerMoves DEF RelayInv
<1>7. RelayTypeOK'
  BY <1>2, <1>3 DEF RelayInv, RelayTypeOK, StoreTypeOK, storeVars, networkVars, Local, Pc
<1> QED BY <1>5, <1>6, <1>7 DEF RelayInv

LEMMA SourceStep ==
  ASSUME RelayInv, NEW j \in Job, SourceMined(j) \/ SourceAttested(j) \/ RelayedElsewhere(j)
  PROVE  RelayInv'
<1>1. NetworkGrows /\ UNCHANGED <<storeVars, txs, worker, crashes, lapses>>
  BY DEF SourceMined, SourceAttested, RelayedElsewhere, NetworkGrows
<1>2. /\ source' \in [Job -> {"pending", "paid", "invalid"}]
      /\ attested' \subseteq Job /\ processed' \subseteq Job
  BY DEF SourceMined, SourceAttested, RelayedElsewhere, RelayInv, RelayTypeOK
<1>3. RelayTypeOK'
  BY <1>1, <1>2 DEF RelayInv, RelayTypeOK, StoreTypeOK, storeVars
<1>4. RowsReal' /\ TxsReal' /\ txs' \in Seq(Tx)
  BY <1>1, RowsRealForGood DEF RelayInv, TxsReal, NetworkGrows, storeVars
<1> QED BY <1>1, <1>3, <1>4, OutsideStep

LEMMA MinedStep ==
  ASSUME RelayInv, NEW t \in DOMAIN txs, Mined(t)
  PROVE  RelayInv'
<1> DEFINE n == Len(txs)
<1>1. /\ txs \in Seq(Tx) /\ n \in Nat /\ DOMAIN txs = 1 .. n
      /\ txs[t] \in Tx /\ txs[t].job \in Job /\ txs[t].status = "pending"
  <2>1. txs \in Seq(Tx)
    BY DEF RelayInv
  <2>2. txs[t] \in Tx
    BY <2>1
  <2>3. txs[t].job \in Job
    BY <2>2 DEF Tx
  <2> QED BY <2>1, <2>2, <2>3 DEF Mined
<1>2. UNCHANGED <<storeVars, source, attested, worker, crashes, lapses>>
  BY DEF Mined
<1>3. PICK status \in {"succeeded", "reverted"} :
        /\ txs' = [txs EXCEPT ![t].status = status]
        /\ processed' = IF status = "succeeded" THEN processed \cup {txs[t].job} ELSE processed
  BY DEF Mined
<1> DEFINE tx == [txs[t] EXCEPT !.status = status]
<1>4. tx \in Tx /\ tx.job = txs[t].job /\ tx.status = status
  BY <1>1 DEF Tx
<1> HIDE DEF tx
<1>5. txs' = [txs EXCEPT ![t] = tx]
  BY <1>3 DEF tx
<1>6. /\ txs' \in Seq(Tx) /\ Len(txs') = n /\ DOMAIN txs' = DOMAIN txs
      /\ txs'[t] = tx
      /\ \A u \in DOMAIN txs \ {t} : txs'[u] = txs[u]
  BY <1>1, <1>4, <1>5, ExceptSeq
<1>7. NetworkGrows
  BY <1>1, <1>3, <1>4, <1>6 DEF NetworkGrows
<1>8. TxsReal'
  <2> SUFFICES ASSUME NEW u \in DOMAIN txs', txs'[u].status = "succeeded"
               PROVE  txs'[u].job \in processed'
    BY DEF TxsReal
  <2>1. CASE u = t
    BY <2>1, <1>3, <1>4, <1>6
  <2>2. CASE u # t
    BY <2>2, <1>3, <1>6 DEF RelayInv, TxsReal
  <2> QED BY <2>1, <2>2
<1>9. RowsReal'
  BY <1>2, <1>7, RowsRealForGood DEF RelayInv, storeVars
<1>10. RelayTypeOK'
  <2>1. processed' \subseteq Job
    BY <1>1, <1>3 DEF RelayInv, RelayTypeOK
  <2>2. \A u \in DOMAIN txs' : txs'[u] \in Tx
    BY <1>6
  <2> QED BY <1>2, <1>6, <2>1, <2>2 DEF RelayInv, RelayTypeOK, StoreTypeOK, storeVars, Tx
<1> QED BY <1>2, <1>6, <1>7, <1>8, <1>9, <1>10, OutsideStep

-----------------------------------------------------------------------------
LEMMA RelayInvInit ==
  ASSUME RelayInit
  PROVE  RelayInv
<1>1. /\ NoRow \in Row(TxIndex) /\ NoRow.phase = "absent" /\ NoRow.tx = 0
  BY QueuedType
<1>2. Idle("idle") \in Local /\ Idle("idle").pc = "idle"
  BY IdleTypes DEF Pc
<1>3. worker \in [Worker -> Local] /\ \A w \in Worker : worker[w].pc = "idle"
  BY <1>2 DEF RelayInit
<1>4. StoreTypeOK(TxIndex)
  BY <1>1, StoreAssumption DEF RelayInit, StoreInit, StoreTypeOK, Free
<1>5. txs = <<>> /\ txs \in Seq(Tx) /\ Len(txs) = 0 /\ DOMAIN txs = {}
  BY DEF RelayInit
<1>6. RelayTypeOK
  BY <1>3, <1>4, <1>5, RelayAssumption DEF RelayInit, RelayTypeOK, Local, Pc
<1>7. RowsReal
  BY <1>1 DEF RelayInit, StoreInit, RowsReal, RowReal, Success
<1>8. WorkersReal
  BY <1>3 DEF WorkersReal, WorkerReal, Confirmed, InProcess, Writes, Calls
<1> QED BY <1>5, <1>6, <1>7, <1>8 DEF RelayInv, TxsReal

LEMMA RelayInvNext ==
  ASSUME RelayInv, [RelayNext]_relayVars
  PROVE  RelayInv'
<1>1. CASE UNCHANGED relayVars
  BY <1>1 DEF relayVars, storeVars, networkVars, RelayInv, RelayTypeOK, StoreTypeOK, TxsReal,
     RowsReal, RowReal, WorkersReal, WorkerReal
<1>2. ASSUME NEW w \in Executor, ExecutorStep(w) \/ Heartbeat(w) \/ Restart(w)
      PROVE  RelayInv'
  BY <1>2, ClaimStep, ProcessStep, FinishStep, HeartbeatStep, RestartStep
     DEF ExecutorStep, Worker
<1>3. ASSUME NEW c \in Cli, (\E j \in Job : Run(c, j)) \/ Process(c) \/ Exit(c)
      PROVE  RelayInv'
  BY <1>3, RunStep, ProcessStep, ExitStep DEF Worker
<1>4. ASSUME NEW j \in Job, \/ Enqueue(j) \/ Lapse(j) \/ SourceMined(j) \/ SourceAttested(j)
                            \/ RelayedElsewhere(j)
      PROVE  RelayInv'
  BY <1>4, EnqueueStep, LapseStep, SourceStep
<1> QED BY <1>1, <1>2, <1>3, <1>4, CrashStep, MinedStep DEF RelayNext

LEMMA RelayInvAlways == RelaySpec => []RelayInv
<1>1. RelayInit => RelayInv
  BY RelayInvInit
<1>2. RelayInv /\ [RelayNext]_relayVars => RelayInv'
  BY RelayInvNext
<1> QED BY <1>1, <1>2, PTL DEF RelaySpec

(***************************************************************************)
(* Every row, lease and worker stays within its type.                      *)
(***************************************************************************)
THEOREM RelayTypes == RelaySpec => []RelayTypeOK
<1>1. RelayInv => RelayTypeOK
  BY DEF RelayInv
<1> QED BY <1>1, RelayInvAlways, PTL

(***************************************************************************)
(* A completed or duplicate job on record carries its source payment and   *)
(* its order is processed on Creditcoin, and a completed one names a       *)
(* transaction of that job that succeeded: process writes an outcome from  *)
(* a copy for which it has been true since it was read.  This needs no     *)
(* lease: it holds of any number of workers that overwrite each other.     *)
(***************************************************************************)
THEOREM SuccessOnRecordIsReal == RelaySpec => []SuccessIsReal
<1>1. RelayInv => SuccessIsReal
  BY DEF RelayInv, RowsReal, RowReal, SuccessIsReal
<1> QED BY <1>1, RelayInvAlways, PTL

-----------------------------------------------------------------------------
(* What leases are for, as long as none lapses under its live holder.      *)

LeaseInv ==
  \A w \in Executor, j \in Job :
    Processing(w, j) => leases[j].owner = w /\ leases[j].expired = FALSE

\* A step of process leaves the leases alone, and its worker with its job.
LEMMA ProcessKeepsJob ==
  ASSUME worker \in [Worker -> Local], NEW w \in Worker, Process(w)
  PROVE  /\ UNCHANGED <<leases, lapses>>
         /\ worker[w].pc \in InProcess /\ OthersStay(w)
         /\ worker'[w].job = worker[w].job
<1>1. worker[w] \in Local
  OBVIOUS
<1>2. CASE Get(w)
  <2>1. UNCHANGED <<leases, lapses>> /\ worker[w].pc \in InProcess
    BY <1>2 DEF Get, Lost, InProcess, Calls
  <2>2. OthersStay(w) /\ worker'[w].job = worker[w].job
    BY <1>1, <1>2 DEF Get, Goto, OthersStay, Local
  <2> QED BY <2>1, <2>2
<1>3. CASE SaveJob(w)
  <2>1. UNCHANGED <<leases, lapses>> /\ worker[w].pc \in InProcess
    BY <1>3 DEF SaveJob, Save, Lost, InProcess
  <2>2. \/ worker' = [worker EXCEPT ![w].copy = Written(w), ![w].pc = Writes[worker[w].pc].then]
        \/ Goto(w, Writes[worker[w].pc].fault)
    BY <1>3 DEF SaveJob, Written
  <2>3. OthersStay(w) /\ worker'[w].job = worker[w].job
    BY <1>1, <2>2 DEF Goto, OthersStay, Local
  <2> QED BY <2>1, <2>3
<1>4. CASE Retry(w) \/ Check(w) \/ AwaitAttestation(w) \/ Prove(w) \/ Recheck(w)
  <2>1. UNCHANGED <<leases, lapses>> /\ worker[w].pc \in InProcess
    BY <1>4 DEF Retry, Check, AwaitAttestation, Prove, Recheck, storeVars, InProcess, Calls
  <2>2. OthersStay(w) /\ worker'[w].job = worker[w].job
    BY <1>1, <1>4
       DEF Retry, Check, AwaitAttestation, Prove, Recheck, Goto, OthersStay, Local
  <2> QED BY <2>1, <2>2
<1>5. CASE Confirm(w) \/ Submit(w) \/ AwaitExecution(w)
  <2>1. UNCHANGED <<leases, lapses>> /\ worker[w].pc \in InProcess
    BY <1>5 DEF Confirm, Submit, AwaitExecution, storeVars, InProcess, Calls
  <2>2. OthersStay(w) /\ worker'[w].job = worker[w].job
    BY <1>1, <1>5 DEF Confirm, Submit, AwaitExecution, Goto, OthersStay, Local
  <2> QED BY <2>1, <2>2
<1> QED BY <1>2, <1>3, <1>4, <1>5 DEF Process

\* No lease moves and nobody takes up a job.
LEMMA LeasesStay ==
  ASSUME LeaseInv, UNCHANGED leases,
         \A v \in Executor, j \in Job : Processing(v, j)' => Processing(v, j)
  PROVE  LeaseInv'
BY DEF LeaseInv

LEMMA ProcessKeepsLeases ==
  ASSUME RelayInv, LeaseInv, NEW w \in Worker, Process(w)
  PROVE  LeaseInv'
BY ProcessKeepsJob, InvTypes, LeasesStay DEF Processing, OthersStay, Worker

\* A worker outside of process leaves, or is back; leases may be freed.
LEMMA IdleIsOutside ==
  ASSUME NEW pc \in {"idle", "dead", "down", "done"}
  PROVE  Idle(pc).pc \notin InProcess
BY DEF Idle, InProcess, Writes, Calls

LEMMA LeavingKeepsLeases ==
  ASSUME RelayInv, LeaseInv, UNCHANGED leases, NEW w \in Worker,
         NEW pc \in {"idle", "dead", "down", "done"},
         worker' = [worker EXCEPT ![w] = Idle(pc)]
  PROVE  LeaseInv'
BY IdleIsOutside, InvTypes, LeasesStay DEF Processing, Worker

LEMMA ClaimKeepsLeases ==
  ASSUME RelayInv, LeaseInv, NEW w \in Executor, Claim(w)
  PROVE  LeaseInv'
<1>1. /\ worker \in [Worker -> Local]
      /\ leases \in [Job -> [owner : Executor \cup {Nobody}, expired : BOOLEAN]]
      /\ w \in Worker /\ Nobody \notin Executor
  BY InvTypes, StoreAssumption DEF StoreTypeOK, Worker
<1>2. "idle" \notin InProcess /\ "dead" \notin InProcess
  BY DEF InProcess, Writes, Calls
<1> SUFFICES ASSUME NEW v \in Executor, NEW k \in Job, Processing(v, k)'
             PROVE  leases'[k].owner = v /\ leases'[k].expired = FALSE
  BY DEF LeaseInv
<1>3. CASE \E j \in Job :
             ClaimNext(w, j) /\ worker' = [worker EXCEPT ![w] = [Idle("get") EXCEPT !.job = j]]
  <2>1. PICK j \in Job :
          ClaimNext(w, j) /\ worker' = [worker EXCEPT ![w] = [Idle("get") EXCEPT !.job = j]]
    BY <1>3
  <2>2. leases' = [leases EXCEPT ![j] = [owner |-> w, expired |-> FALSE]] /\ Claimable(j)
    BY <2>1 DEF ClaimNext
  <2>3. CASE v = w
    <3>1. k = j
      BY <1>1, <2>1, <2>3 DEF Processing, Idle
    <3> QED BY <1>1, <2>2, <2>3, <3>1
  <2>4. CASE v # w
    <3>1. Processing(v, k)
      BY <1>1, <2>1, <2>4 DEF Processing, Worker
    <3>2. leases[k].owner = v /\ leases[k].expired = FALSE
      BY <3>1 DEF LeaseInv
    <3>3. k # j
      BY <1>1, <2>2, <3>2 DEF Claimable
    <3> QED BY <1>1, <2>2, <3>2, <3>3
  <2> QED BY <2>3, <2>4
<1>4. CASE /\ Lost \/ \E j \in Job : ClaimNext(w, j)
           /\ worker' = [worker EXCEPT ![w] = Idle("dead")]
  <2>1. v # w /\ Processing(v, k)
    BY <1>1, <1>4, IdleIsOutside DEF Processing, Worker
  <2>2. leases[k].owner = v /\ leases[k].expired = FALSE
    BY <2>1 DEF LeaseInv
  <2>3. CASE Lost
    BY <2>2, <2>3 DEF Lost
  <2>4. CASE \E j \in Job : ClaimNext(w, j)
    <3>1. PICK j \in Job : ClaimNext(w, j)
      BY <2>4
    <3>2. k # j
      BY <1>1, <2>2, <3>1 DEF ClaimNext, Claimable
    <3> QED BY <1>1, <2>2, <3>1, <3>2 DEF ClaimNext
  <2> QED BY <1>4, <2>3, <2>4
<1> QED BY <1>3, <1>4 DEF Claim

LEMMA FinishKeepsLeases ==
  ASSUME RelayInv, LeaseInv, NEW w \in Executor, Finish(w)
  PROVE  LeaseInv'
<1>1. /\ worker \in [Worker -> Local]
      /\ leases \in [Job -> [owner : Executor \cup {Nobody}, expired : BOOLEAN]]
      /\ w \in Worker
  BY InvTypes DEF StoreTypeOK, Worker
<1>2. PICK pc \in {"idle", "dead"} : worker' = [worker EXCEPT ![w] = Idle(pc)]
  BY DEF Finish
<1> SUFFICES ASSUME NEW v \in Executor, NEW k \in Job, Processing(v, k)'
             PROVE  leases'[k].owner = v /\ leases'[k].expired = FALSE
  BY DEF LeaseInv
<1>3. v # w /\ Processing(v, k)
  BY <1>1, <1>2, IdleIsOutside DEF Processing, Worker
<1>4. leases[k].owner = v /\ leases[k].expired = FALSE
  BY <1>3 DEF LeaseInv
<1>5. \/ leases' = leases
      \/ /\ leases[worker[w].job].owner = w
         /\ leases' = [leases EXCEPT ![worker[w].job] = Free]
  BY DEF Finish, Release, Lost
<1> QED BY <1>1, <1>3, <1>4, <1>5

\* Here a lapse under the live holder would break the invariant.
LEMMA LapseKeepsLeases ==
  ASSUME MaxLapses = 0, RelayInv, LeaseInv, NEW j \in Job, Lapse(j)
  PROVE  LeaseInv'
<1>1. /\ leases \in [Job -> [owner : Executor \cup {Nobody}, expired : BOOLEAN]]
      /\ lapses \in 0 .. MaxLapses
  BY InvTypes DEF StoreTypeOK, RelayInv, RelayTypeOK
<1>2. ~ Processing(leases[j].owner, j)
  BY <1>1 DEF Lapse
<1>3. leases' = [leases EXCEPT ![j].expired = TRUE] /\ UNCHANGED worker
  BY DEF Lapse, Expire
<1> SUFFICES ASSUME NEW v \in Executor, NEW k \in Job, Processing(v, k)'
             PROVE  leases'[k].owner = v /\ leases'[k].expired = FALSE
  BY DEF LeaseInv
<1>4. Processing(v, k)
  BY <1>3 DEF Processing
<1>5. leases[k].owner = v /\ leases[k].expired = FALSE
  BY <1>4 DEF LeaseInv
<1>6. k # j
  BY <1>2, <1>4, <1>5
<1> QED BY <1>1, <1>3, <1>5, <1>6

LEMMA HeartbeatKeepsLeases ==
  ASSUME RelayInv, LeaseInv, NEW w \in Executor, Heartbeat(w)
  PROVE  LeaseInv'
<1>1. leases \in [Job -> [owner : Executor \cup {Nobody}, expired : BOOLEAN]]
  BY InvTypes DEF StoreTypeOK
<1>2. leases' = [leases EXCEPT ![worker[w].job].expired = FALSE] /\ UNCHANGED worker
  BY DEF Heartbeat, RenewLease
<1> QED BY <1>1, <1>2 DEF LeaseInv, Processing

LEMMA LeaseInvNext ==
  ASSUME MaxLapses = 0, RelayInv, LeaseInv, [RelayNext]_relayVars
  PROVE  LeaseInv'
<1>1. CASE UNCHANGED relayVars
  BY <1>1, LeasesStay DEF relayVars, storeVars, Processing
<1>2. ASSUME NEW w \in Executor, ExecutorStep(w) \/ Heartbeat(w)
      PROVE  LeaseInv'
  BY <1>2, ClaimKeepsLeases, ProcessKeepsLeases, FinishKeepsLeases, HeartbeatKeepsLeases
     DEF ExecutorStep, Worker
<1>3. ASSUME NEW w \in Worker, Restart(w) \/ Exit(w) \/ Crash(w)
      PROVE  LeaseInv'
  <2>1. PICK pc \in {"idle", "dead", "down", "done"} : worker' = [worker EXCEPT ![w] = Idle(pc)]
    BY <1>3 DEF Restart, Exit, Crash
  <2>2. UNCHANGED leases
    BY <1>3 DEF Restart, Exit, Crash, storeVars
  <2> QED BY <2>1, <2>2, LeavingKeepsLeases
<1>4. ASSUME NEW c \in Cli, NEW j \in Job, Run(c, j)
      PROVE  LeaseInv'
  <2>1. \A v \in Executor : worker'[v] = worker[v]
    BY <1>4, InvTypes, RelayAssumption DEF Run, Worker
  <2> QED BY <1>4, <2>1, LeasesStay DEF Run, storeVars, Processing
<1>5. ASSUME NEW c \in Cli, Process(c)
      PROVE  LeaseInv'
  BY <1>5, ProcessKeepsLeases DEF Worker
<1>6. ASSUME NEW j \in Job, \/ Enqueue(j) \/ SourceMined(j) \/ SourceAttested(j)
                            \/ RelayedElsewhere(j)
      PROVE  LeaseInv'
  BY <1>6, LeasesStay
     DEF Enqueue, Create, SourceMined, SourceAttested, RelayedElsewhere, storeVars, Processing
<1>7. ASSUME NEW t \in DOMAIN txs, Mined(t)
      PROVE  LeaseInv'
  BY <1>7, LeasesStay DEF Mined, storeVars, Processing
<1> QED BY <1>1, <1>2, <1>3, <1>4, <1>5, <1>6, <1>7, LapseKeepsLeases DEF RelayNext, Worker

LEMMA LeaseInvAlways ==
  ASSUME MaxLapses = 0
  PROVE  RelaySpec => []LeaseInv
<1>1. RelayInit => LeaseInv
  <2>1. ASSUME RelayInit, NEW w \in Executor
        PROVE  worker[w].pc \notin InProcess
    BY <2>1, IdleIsOutside DEF RelayInit, Worker
  <2> QED BY <2>1 DEF LeaseInv, Processing
<1>2. RelayInv /\ LeaseInv /\ [RelayNext]_relayVars => LeaseInv'
  BY LeaseInvNext
<1> QED BY <1>1, <1>2, RelayInvAlways, PTL DEF RelaySpec

(***************************************************************************)
(* No two executors are inside process for the same job while leases do    *)
(* not lapse under their holder: whoever is inside holds the job's lease.  *)
(***************************************************************************)
THEOREM OneExecutorPerJob ==
  ASSUME MaxLapses = 0
  PROVE  RelaySpec => []NoDuplicateJobs
<1>1. LeaseInv => NoDuplicateJobs
  BY DEF LeaseInv, NoDuplicateJobs
<1> QED BY <1>1, LeaseInvAlways, PTL

-----------------------------------------------------------------------------
(* Outcomes, while nobody runs the command line either. *)

\* An executor works only on a job that has no outcome yet.
WorkInv ==
  \A w \in Executor, j \in Job :
    Processing(w, j) =>
      /\ rows[j].phase \in Working
      /\ worker[w].pc # "get" => worker[w].copy.phase \in Working

LEMMA PhasesDiffer == Working \cap Terminal = {} /\ "absent" \notin Working \cup Terminal
BY DEF Working, Terminal, Success

\* No row moves and nobody takes up a job or a copy.
LEMMA WorkStays ==
  ASSUME WorkInv, UNCHANGED rows,
         \A v \in Executor, j \in Job :
           Processing(v, j)' => /\ Processing(v, j)
                                /\ worker'[v].copy.phase = worker[v].copy.phase
                                /\ worker'[v].pc = "get" \/ worker[v].pc # "get"
  PROVE  WorkInv'
BY DEF WorkInv

LEMMA AnswersStayKept ==
  ASSUME RelayInv, WorkInv, NEW w \in Executor,
         \/ Retry(w) \/ Confirm(w) \/ Check(w) \/ AwaitAttestation(w) \/ Prove(w)
         \/ Submit(w) \/ AwaitExecution(w) \/ Recheck(w)
  PROVE  WorkInv'
<1>1. Process(w) /\ w \in Worker /\ worker \in [Worker -> Local] /\ worker[w] \in Local
  BY InvTypes DEF Process, Worker
<1>2. /\ worker[w].pc \in InProcess /\ OthersStay(w) /\ worker'[w].job = worker[w].job
  BY <1>1, ProcessKeepsJob
<1>3. UNCHANGED rows /\ worker[w].pc # "get"
  BY DEF Retry, Confirm, Check, AwaitAttestation, Prove, Submit, AwaitExecution, Recheck, storeVars
<1>4. worker[w].copy \in Row(TxIndex)
  BY <1>1 DEF Local
<1>5. worker'[w].copy.phase = worker[w].copy.phase
  <2>1. CASE Retry(w) \/ Check(w) \/ AwaitAttestation(w) \/ Prove(w) \/ Recheck(w) \/ Submit(w)
    BY <1>1, <2>1
       DEF Retry, Check, AwaitAttestation, Prove, Recheck, Submit, Goto, Local
  <2>2. CASE Confirm(w) \/ AwaitExecution(w)
    BY <1>1, <1>4, <2>2 DEF Confirm, AwaitExecution, Goto, Local, Row
  <2> QED BY <2>1, <2>2
<1> QED BY <1>1, <1>2, <1>3, <1>5, WorkStays DEF Processing, OthersStay, Worker

LEMMA GetKeepsWork ==
  ASSUME RelayInv, WorkInv, NEW w \in Executor, Get(w)
  PROVE  WorkInv'
<1> DEFINE previous == rows[worker[w].job]
<1>1. Process(w) /\ w \in Worker /\ worker \in [Worker -> Local] /\ worker[w] \in Local
  BY InvTypes DEF Process, Worker
<1>2. /\ worker[w].pc \in InProcess /\ OthersStay(w) /\ worker'[w].job = worker[w].job
      /\ UNCHANGED rows /\ worker[w].job \in Job
  BY <1>1, ProcessKeepsJob, InsideTypes DEF Get, Lost
<1>3. previous.phase \in Working
  BY <1>2 DEF WorkInv, Processing
<1>4. ASSUME worker'[w].pc \in InProcess
      PROVE  worker'[w].copy.phase \in Working
  <2>1. "release" \notin InProcess
    BY DEF InProcess, Writes, Calls
  <2>2. ~ Goto(w, "release")
    BY <1>1, <1>4, <2>1 DEF Goto, Local
  <2>3. previous # NoRow
    BY <1>3, PhasesDiffer DEF NoRow
  <2>4. worker'[w].copy = previous
    BY <1>1, <2>2, <2>3 DEF Get, Local
  <2> QED BY <1>3, <2>4
<1> SUFFICES ASSUME NEW v \in Executor, NEW k \in Job, Processing(v, k)'
             PROVE  /\ rows'[k].phase \in Working
                    /\ worker'[v].pc # "get" => worker'[v].copy.phase \in Working
  BY DEF WorkInv
<1>5. CASE v = w
  BY <1>2, <1>3, <1>4, <1>5 DEF Processing
<1>6. CASE v # w
  BY <1>2, <1>6 DEF Processing, OthersStay, WorkInv, Worker
<1> QED BY <1>5, <1>6

LEMMA SaveJobKeepsWork ==
  ASSUME RelayInv, LeaseInv, WorkInv, NEW w \in Executor, SaveJob(w)
  PROVE  WorkInv'
<1> DEFINE me == worker[w]  row == Written(w)  write == Writes[me.pc]
<1>1. /\ w \in Worker /\ me \in Local /\ me.pc \in DOMAIN Writes /\ me.pc \in InProcess
      /\ me.job \in Job /\ me.pc # "get" /\ worker \in [Worker -> Local]
      /\ rows \in [Job -> Row(TxIndex)]
  BY InvTypes DEF SaveJob, WorkersReal, WorkerReal, InProcess, Worker, StoreTypeOK, Writes
<1>2. me.copy.phase \in Working /\ rows[me.job].phase \in Working
  BY <1>1 DEF WorkInv, Processing
<1>3. /\ rows' = rows \/ rows' = [rows EXCEPT ![me.job] = row]
      /\ \/ worker' = [worker EXCEPT ![w].copy = row, ![w].pc = write.then]
         \/ Goto(w, write.fault)
  BY DEF SaveJob, Save, Lost, Written
<1>4. row.phase = IF write.phase = "kept" THEN me.copy.phase ELSE write.phase
  <2>1. me.copy \in Row(TxIndex)
    BY <1>1 DEF Local
  <2> QED BY <2>1 DEF Written, Row
<1>5. \/ write.phase \in {"kept"} \cup Working
      \/ write.then = "release" /\ write.fault = "release"
  BY <1>1 DEF Writes, Write, Working
<1>6. worker'[w].pc \in InProcess => row.phase \in Working
  <2>1. "release" \notin InProcess
    BY DEF InProcess, Writes, Calls
  <2>2. worker'[w].pc = write.then \/ worker'[w].pc = write.fault
    BY <1>1, <1>3 DEF Goto, Local
  <2>3. CASE write.phase \in {"kept"} \cup Working
    BY <1>2, <1>4, <2>3
  <2>4. CASE write.then = "release" /\ write.fault = "release"
    BY <2>1, <2>2, <2>4
  <2> QED BY <1>5, <2>3, <2>4
<1> HIDE DEF row, write
<1>7. worker'[w].copy \in {me.copy, row} /\ worker'[w].job = me.job /\ OthersStay(w)
  BY <1>1, <1>3 DEF Goto, Local, OthersStay
<1> SUFFICES ASSUME NEW v \in Executor, NEW k \in Job, Processing(v, k)'
             PROVE  /\ rows'[k].phase \in Working
                    /\ worker'[v].pc # "get" => worker'[v].copy.phase \in Working
  BY DEF WorkInv
<1>8. CASE v = w
  BY <1>1, <1>2, <1>3, <1>6, <1>7, <1>8 DEF Processing
<1>9. CASE v # w
  <2>1. Processing(v, k) /\ worker'[v] = worker[v]
    BY <1>7, <1>9 DEF Processing, OthersStay, Worker
  <2>2. k # me.job
    BY <1>1, <1>9, <2>1 DEF LeaseInv, Processing
  <2> QED BY <1>1, <1>3, <2>1, <2>2 DEF WorkInv
<1> QED BY <1>8, <1>9

LEMMA ClaimKeepsWork ==
  ASSUME RelayInv, WorkInv, NEW w \in Executor, Claim(w)
  PROVE  WorkInv'
<1>1. w \in Worker /\ worker \in [Worker -> Local] /\ UNCHANGED rows
  BY InvTypes DEF Worker, Claim, ClaimNext, Lost
<1> SUFFICES ASSUME NEW v \in Executor, NEW k \in Job, Processing(v, k)'
             PROVE  /\ rows'[k].phase \in Working
                    /\ worker'[v].pc # "get" => worker'[v].copy.phase \in Working
  BY DEF WorkInv
<1>2. CASE v # w
  <2>1. worker'[v] = worker[v]
    BY <1>1, <1>2 DEF Claim, Worker
  <2> QED BY <1>1, <2>1 DEF WorkInv, Processing
<1>3. CASE v = w
  <2>1. PICK j \in Job : /\ Claimable(j)
                        /\ worker' = [worker EXCEPT ![w] = [Idle("get") EXCEPT !.job = j]]
    BY <1>1, <1>3, IdleIsOutside DEF Claim, ClaimNext, Processing
  <2>2. worker'[w].pc = "get" /\ k = j
    BY <1>1, <1>3, <2>1 DEF Processing, Idle
  <2> QED BY <1>1, <1>3, <2>1, <2>2 DEF Claimable
<1> QED BY <1>2, <1>3

LEMMA LeavingKeepsWork ==
  ASSUME RelayInv, WorkInv, UNCHANGED rows, NEW w \in Worker,
         NEW pc \in {"idle", "dead", "down", "done"},
         worker' = [worker EXCEPT ![w] = Idle(pc)]
  PROVE  WorkInv'
BY IdleIsOutside, InvTypes, WorkStays DEF Processing, Worker

LEMMA EnqueueKeepsWork ==
  ASSUME RelayInv, WorkInv, NEW j \in Job, Enqueue(j)
  PROVE  WorkInv'
<1>1. rows \in [Job -> Row(TxIndex)] /\ rows' = [rows EXCEPT ![j] = Queued] /\ UNCHANGED worker
      /\ rows[j].phase = "absent"
  BY InvTypes DEF Enqueue, Create, StoreTypeOK, NoRow
<1> QED BY <1>1, PhasesDiffer DEF WorkInv, Processing

LEMMA WorkInvNext ==
  ASSUME Cli = {}, RelayInv, LeaseInv, WorkInv, [RelayNext]_relayVars
  PROVE  WorkInv'
<1>1. CASE UNCHANGED relayVars
  BY <1>1, WorkStays DEF relayVars, storeVars, Processing
<1>2. ASSUME NEW w \in Executor, ExecutorStep(w)
      PROVE  WorkInv'
  <2>1. CASE Finish(w)
    <3>1. PICK pc \in {"idle", "dead"} : worker' = [worker EXCEPT ![w] = Idle(pc)]
      BY <2>1 DEF Finish
    <3>2. UNCHANGED rows
      BY <2>1 DEF Finish, Release, Lost
    <3> QED BY <3>1, <3>2, LeavingKeepsWork DEF Worker
  <2> QED BY <1>2, <2>1, ClaimKeepsWork, GetKeepsWork, SaveJobKeepsWork, AnswersStayKept
          DEF ExecutorStep, Process
<1>3. ASSUME NEW w \in Worker, Restart(w) \/ Crash(w)
      PROVE  WorkInv'
  <2>1. PICK pc \in {"idle", "dead", "down", "done"} : worker' = [worker EXCEPT ![w] = Idle(pc)]
    BY <1>3 DEF Restart, Crash
  <2>2. UNCHANGED rows
    BY <1>3 DEF Restart, Crash, storeVars
  <2> QED BY <2>1, <2>2, LeavingKeepsWork
<1>4. ASSUME NEW w \in Executor, Heartbeat(w)
      PROVE  WorkInv'
  BY <1>4, WorkStays DEF Heartbeat, RenewLease, Processing
<1>5. ASSUME NEW j \in Job, \/ Lapse(j) \/ SourceMined(j) \/ SourceAttested(j)
                            \/ RelayedElsewhere(j)
      PROVE  WorkInv'
  BY <1>5, WorkStays
     DEF Lapse, Expire, SourceMined, SourceAttested, RelayedElsewhere, storeVars, Processing
<1>6. ASSUME NEW t \in DOMAIN txs, Mined(t)
      PROVE  WorkInv'
  BY <1>6, WorkStays DEF Mined, storeVars, Processing
<1> QED BY <1>1, <1>2, <1>3, <1>4, <1>5, <1>6, EnqueueKeepsWork DEF RelayNext, Worker

LEMMA WorkInvAlways ==
  ASSUME MaxLapses = 0, Cli = {}
  PROVE  RelaySpec => []WorkInv
<1>1. RelayInit => WorkInv
  <2>1. ASSUME RelayInit, NEW w \in Executor
        PROVE  worker[w].pc \notin InProcess
    BY <2>1, IdleIsOutside DEF RelayInit, Worker
  <2> QED BY <2>1 DEF WorkInv, Processing
<1>2. RelayInv /\ LeaseInv /\ WorkInv /\ [RelayNext]_relayVars => WorkInv'
  BY WorkInvNext
<1> QED BY <1>1, <1>2, RelayInvAlways, LeaseInvAlways, PTL DEF RelaySpec

\* Only a job without an outcome is written.
LEMMA RowsMove ==
  ASSUME Cli = {}, RelayInv, WorkInv, [RelayNext]_relayVars, NEW j \in Job,
         rows[j].phase \in Terminal
  PROVE  rows'[j] = rows[j]
<1>1. rows \in [Job -> Row(TxIndex)]
  BY InvTypes DEF StoreTypeOK
<1>2. CASE UNCHANGED rows
  BY <1>2
<1>3. ASSUME NEW k \in Job, Enqueue(k)
      PROVE  rows'[j] = rows[j]
  BY <1>1, <1>3, PhasesDiffer DEF Enqueue, Create, NoRow
<1>4. ASSUME NEW w \in Executor, SaveJob(w)
      PROVE  rows'[j] = rows[j]
  <2>1. worker[w].pc \in InProcess /\ worker[w].job \in Job
    BY <1>4, InsideTypes DEF SaveJob, InProcess, Worker
  <2>2. rows[worker[w].job].phase \in Working
    BY <2>1 DEF WorkInv, Processing
  <2>3. worker[w].job # j
    BY <2>2, PhasesDiffer
  <2>4. rows' = rows \/ rows' = [rows EXCEPT ![worker[w].job] = Written(w)]
    BY <1>4 DEF SaveJob, Save, Lost, Written
  <2> QED BY <1>1, <2>3, <2>4
<1>5. ASSUME NEW w \in Executor, ExecutorStep(w), ~ SaveJob(w)
      PROVE  UNCHANGED rows
  <2>1. CASE Claim(w) \/ Finish(w)
    BY <2>1 DEF Claim, ClaimNext, Finish, Release, Lost
  <2>2. CASE Process(w)
    BY <1>5, <2>2 DEF Process, Get, Lost, Retry, Confirm, Check, AwaitAttestation, Prove, Submit,
       AwaitExecution, Recheck, storeVars
  <2> QED BY <1>5, <2>1, <2>2 DEF ExecutorStep
<1>6. ASSUME NEW w \in Worker, Heartbeat(w) \/ Restart(w) \/ Crash(w)
      PROVE  UNCHANGED rows
  BY <1>6 DEF Heartbeat, RenewLease, Restart, Crash, storeVars
<1>7. ASSUME NEW k \in Job, \/ Lapse(k) \/ SourceMined(k) \/ SourceAttested(k)
                            \/ RelayedElsewhere(k)
      PROVE  UNCHANGED rows
  BY <1>7 DEF Lapse, Expire, SourceMined, SourceAttested, RelayedElsewhere, storeVars
<1>8. ASSUME NEW t \in DOMAIN txs, Mined(t)
      PROVE  UNCHANGED rows
  BY <1>8 DEF Mined, storeVars
<1>9. CASE UNCHANGED relayVars
  BY <1>9 DEF relayVars, storeVars
<1> QED BY <1>2, <1>3, <1>4, <1>5, <1>6, <1>7, <1>8, <1>9 DEF RelayNext, Worker

(***************************************************************************)
(* A finished job never starts over and the transaction it names stays,    *)
(* while leases do not lapse under their holder and nobody runs the        *)
(* command line: whoever writes a job works on one without an outcome.     *)
(***************************************************************************)
THEOREM OutcomesStand ==
  ASSUME MaxLapses = 0, Cli = {}
  PROVE  RelaySpec => OutcomeIsFinal
<1>1. RelayInv /\ WorkInv /\ [RelayNext]_relayVars
        => [\A j \in Job :
              rows[j].phase \in Terminal =>
                /\ rows'[j].phase = rows[j].phase
                /\ rows'[j].tx = rows[j].tx]_relayVars
  BY RowsMove
<1> QED BY <1>1, RelayInvAlways, WorkInvAlways, PTL DEF RelaySpec, OutcomeIsFinal
=============================================================================
