-------------------------------- MODULE Relay --------------------------------
(***************************************************************************)
(* The durable relay (apps/worker/src): leased executors, and an operator  *)
(* at the command line who holds no lease, drive jobs through ProofRelay.  *)
(* A worker's step is one awaited call, of the job store or of an adapter, *)
(* and everything up to the next; between two calls anything can happen.   *)
(*                                                                         *)
(* The networks are external and reduced to what the adapter's answers     *)
(* depend on: whether the source transaction confirmed as a payment, is    *)
(* attested, and whether its order was processed, by whom being open.      *)
(***************************************************************************)
EXTENDS JobStore

CONSTANTS
  Cli,             \* runs of `npm run relay`
  MaxAttempts,     \* RELAY retry attempts per phase
  MaxSubmissions,  \* bound on execute transactions the relay broadcasts
  MaxCrashes,      \* bound on process crashes
  MaxLapses        \* bound on leases that expire under a live holder

VARIABLES
  source,     \* job -> what Sepolia made of the transaction
  attested,   \* jobs whose source block is attested
  processed,  \* jobs whose order ProofKeyASC processed
  txs,        \* the relay's own execute transactions
  worker,     \* each worker's program counter and locals
  crashes, lapses

networkVars == <<source, attested, processed, txs>>
relayVars   == <<storeVars, networkVars, worker, crashes, lapses>>

Worker == Executor \cup Cli
TxIndex == 0 .. MaxSubmissions

ASSUME RelayAssumption ==
  /\ Executor \cap Cli = {}
  /\ Nobody \notin Job
  /\ MaxAttempts \in Nat \ {0}
  /\ {MaxSubmissions, MaxCrashes, MaxLapses} \subseteq Nat

\* Where process writes the job: the phase written ("kept": the job's own),
\* where it goes on, and where an exception of the store takes it.  Only the
\* writes inside `try` that are awaited there end in its catch clause.
Write(phase, then, fault) == [phase |-> phase, then |-> then, fault |-> fault]
Writes ==
  [saveQueued  |-> Write("kept",                 "toSource",   "release"),
   toSource    |-> Write("source_confirmation",  "confirm",    "saveFailed"),
   saveReceipt |-> Write("kept",                 "check",      "saveFailed"),
   toAttest    |-> Write("attestation_wait",     "attest",     "saveFailed"),
   toProof     |-> Write("proof_generation",     "prove",      "saveFailed"),
   saveProof   |-> Write("kept",                 "toExecute",  "saveFailed"),
   toExecute   |-> Write("creditcoin_execution", "execute",    "saveFailed"),
   toDuplicate |-> Write("duplicate",            "release",    "release"),
   toCompleted |-> Write("completed",            "release",    "release"),
   saveFailed  |-> Write("failed",               "release",    "release")]

Calls == {"get", "confirm", "check", "attest", "prove", "execute", "mining", "recheck"}
InProcess == DOMAIN Writes \cup Calls

Idle(pc) == [pc |-> pc, job |-> Nobody, copy |-> NoRow, attempt |-> 1, tx |-> 0]

RelayTypeOK ==
  /\ StoreTypeOK(TxIndex)
  /\ source \in [Job -> {"pending", "paid", "invalid"}]
  /\ attested \subseteq Job
  /\ processed \subseteq Job
  /\ Len(txs) <= MaxSubmissions
  /\ \A t \in DOMAIN txs : txs[t] \in [job : Job, status : {"pending", "succeeded", "reverted"}]
  /\ worker \in [Worker ->
       [pc : InProcess \cup {"release", "idle", "dead", "down", "done"},
        job : Job \cup {Nobody}, copy : Row(TxIndex), attempt : 1 .. MaxAttempts, tx : TxIndex]]
  /\ crashes \in 0 .. MaxCrashes
  /\ lapses \in 0 .. MaxLapses

RelayInit ==
  /\ StoreInit
  /\ source = [j \in Job |-> "pending"]
  /\ attested = {}
  /\ processed = {}
  /\ txs = <<>>
  /\ worker = [w \in Worker |-> Idle("idle")]
  /\ crashes = 0
  /\ lapses = 0

-----------------------------------------------------------------------------
Goto(w, pc) == worker' = [worker EXCEPT ![w].pc = pc, ![w].attempt = 1]

\* RelayQueue.enqueue; a hash that has a row is answered from it.
Enqueue(j) == Create(j) /\ Answers /\ UNCHANGED <<networkVars, worker, crashes, lapses>>

\* RelayExecutor.runOnce up to the call of process; an exception ends the loop.
Claim(w) ==
  /\ worker[w].pc = "idle"
  /\ \/ \E j \in Job :
          /\ ClaimNext(w, j) /\ Answers
          /\ worker' = [worker EXCEPT ![w] = [Idle("get") EXCEPT !.job = j]]
     \/ /\ Lost \/ \E j \in Job : ClaimNext(w, j)
        /\ Throws
        /\ worker' = [worker EXCEPT ![w] = Idle("dead")]
  /\ UNCHANGED <<networkVars, crashes, lapses>>

\* The `finally` of runOnce: here too an exception ends the loop.
Finish(w) ==
  /\ worker[w].pc = "release"
  /\ \/ /\ Release(w, worker[w].job) /\ Answers
        /\ worker' = [worker EXCEPT ![w] = Idle("idle")]
     \/ /\ Lost \/ Release(w, worker[w].job)
        /\ Throws
        /\ worker' = [worker EXCEPT ![w] = Idle("dead")]
  /\ UNCHANGED <<networkVars, crashes, lapses>>

\* The command line calls process once, without a lease, on any hash.
Run(c, j) ==
  /\ worker[c].pc = "idle"
  /\ worker' = [worker EXCEPT ![c] = [Idle("get") EXCEPT !.job = j]]
  /\ UNCHANGED <<storeVars, networkVars, crashes, lapses>>

Exit(c) ==
  /\ worker[c].pc = "release"
  /\ worker' = [worker EXCEPT ![c] = Idle("done")]
  /\ UNCHANGED <<storeVars, networkVars, crashes, lapses>>

-----------------------------------------------------------------------------
\* The conditions process branches on; two of them after a mutated form.
AlreadyRelayed(row) == row.phase \in Success

MayRetryOnceMore(attempt) == attempt <= MaxAttempts
MayRetry(attempt) == attempt < MaxAttempts

Exhausted(phase) == IF phase = "execute" THEN "recheck" ELSE "saveFailed"

MinedAnyhow(t) == txs[t].status # "pending"
Succeeded(t) == txs[t].status = "succeeded"

\* ProofRelay.process, from its first statement to the write of the outcome.
Get(w) ==
  LET previous == rows[worker[w].job] IN
  /\ worker[w].pc = "get"
  /\ Lost
  /\ \/ /\ Answers
        /\ worker' = [worker EXCEPT
             ![w].copy = IF previous = NoRow THEN Queued ELSE previous,
             ![w].pc = IF AlreadyRelayed(previous) THEN "toDuplicate" ELSE "saveQueued"]
     \/ Throws /\ Goto(w, "release")
  /\ UNCHANGED <<networkVars, crashes, lapses>>

\* `transition` and the bare `store.save`.
SaveJob(w) ==
  LET me == worker[w] IN
  /\ me.pc \in DOMAIN Writes
  /\ LET write   == Writes[me.pc]
         written == IF write.phase = "kept" THEN me.copy
                    ELSE [me.copy EXCEPT !.phase = write.phase]
     IN  \/ /\ Save(me.job, written) /\ Answers
            /\ worker' = [worker EXCEPT ![w].copy = written, ![w].pc = write.then]
         \/ /\ Lost \/ Save(me.job, written)
            /\ Throws
            /\ Goto(w, write.fault)
  /\ UNCHANGED <<networkVars, crashes, lapses>>

\* withRetry after a transient error or a timeout of the awaited call.
Retry(w) ==
  LET me    == worker[w]
      phase == IF me.pc = "mining" THEN "execute" ELSE me.pc
  IN  /\ me.pc \in {"confirm", "check", "attest", "prove", "execute", "mining"}
      /\ IF MayRetry(me.attempt)
         THEN worker' = [worker EXCEPT ![w].pc = phase, ![w].attempt = @ + 1]
         ELSE Goto(w, Exhausted(phase))
      /\ UNCHANGED <<storeVars, networkVars, crashes, lapses>>

Confirm(w) ==
  LET j == worker[w].job IN
  /\ worker[w].pc = "confirm"
  /\ \/ /\ source[j] = "paid"
        /\ worker' = [worker EXCEPT ![w].pc = "saveReceipt", ![w].attempt = 1,
                                    ![w].copy.confirmed = TRUE]
     \/ source[j] = "invalid" /\ Goto(w, "saveFailed")
  /\ UNCHANGED <<storeVars, networkVars, crashes, lapses>>

Check(w) ==
  /\ worker[w].pc = "check"
  /\ Goto(w, IF worker[w].job \in processed THEN "toDuplicate" ELSE "toAttest")
  /\ UNCHANGED <<storeVars, networkVars, crashes, lapses>>

AwaitAttestation(w) ==
  /\ worker[w].pc = "attest"
  /\ worker[w].job \in attested
  /\ Goto(w, "toProof")
  /\ UNCHANGED <<storeVars, networkVars, crashes, lapses>>

\* The builder may also prove another chain or block than asked for.
Prove(w) ==
  /\ worker[w].pc = "prove"
  /\ worker[w].job \in attested
  /\ \E pc \in {"saveProof", "saveFailed"} : Goto(w, pc)
  /\ UNCHANGED <<storeVars, networkVars, crashes, lapses>>

\* The gas estimate refuses a call that would revert.
Submit(w) ==
  LET j == worker[w].job IN
  /\ worker[w].pc = "execute"
  /\ j \in attested \ processed
  /\ Len(txs) < MaxSubmissions
  /\ txs' = Append(txs, [job |-> j, status |-> "pending"])
  /\ worker' = [worker EXCEPT ![w].pc = "mining", ![w].tx = Len(txs) + 1]
  /\ UNCHANGED <<storeVars, source, attested, processed, crashes, lapses>>

\* transaction.wait() has no timeout; a reverted transaction is a Retry.
AwaitExecution(w) ==
  LET me == worker[w] IN
  /\ me.pc = "mining"
  /\ Succeeded(me.tx)
  /\ worker' = [worker EXCEPT ![w].pc = "toCompleted", ![w].attempt = 1, ![w].copy.tx = me.tx]
  /\ UNCHANGED <<storeVars, networkVars, crashes, lapses>>

\* One unretried isOrderProcessed once submission has failed for good; if it
\* throws, or answers no, the job fails.
Recheck(w) ==
  /\ worker[w].pc = "recheck"
  /\ \/ worker[w].job \in processed /\ Goto(w, "toDuplicate")
     \/ Goto(w, "saveFailed")
  /\ UNCHANGED <<storeVars, networkVars, crashes, lapses>>

Process(w) ==
  \/ Get(w) \/ SaveJob(w) \/ Retry(w)
  \/ Confirm(w) \/ Check(w) \/ AwaitAttestation(w) \/ Prove(w)
  \/ Submit(w) \/ AwaitExecution(w) \/ Recheck(w)

-----------------------------------------------------------------------------
Processing(w, j) == worker[w].pc \in InProcess /\ worker[w].job = j

\* The heartbeat, which ignores renewLease's answer.
Heartbeat(w) ==
  /\ worker[w].pc \in InProcess
  /\ leases[worker[w].job].expired
  /\ RenewLease(w, worker[w].job) /\ Answers
  /\ UNCHANGED <<networkVars, worker, crashes, lapses>>

\* A lease expires on its own once its holder stopped renewing it.  Under a
\* live holder it takes a lapse: a suspended process, a database out of reach.
Lapse(j) ==
  /\ Expire(j) /\ Answers
  /\ IF Processing(leases[j].owner, j)
     THEN lapses < MaxLapses /\ lapses' = lapses + 1
     ELSE UNCHANGED lapses
  /\ UNCHANGED <<networkVars, worker, crashes>>

Crash(w) ==
  /\ worker[w].pc \notin {"down", "done"}
  /\ crashes < MaxCrashes
  /\ crashes' = crashes + 1
  /\ worker' = [worker EXCEPT ![w] = Idle(IF w \in Cli THEN "done" ELSE "down")]
  /\ UNCHANGED <<storeVars, networkVars, lapses>>

Restart(w) ==
  /\ worker[w].pc = "down"
  /\ worker' = [worker EXCEPT ![w] = Idle("idle")]
  /\ UNCHANGED <<storeVars, networkVars, crashes, lapses>>

\* Sepolia includes the transaction; Attestcoin attests its block.
SourceMined(j) ==
  /\ source[j] = "pending"
  /\ \E outcome \in {"paid", "invalid"} : source' = [source EXCEPT ![j] = outcome]
  /\ UNCHANGED <<storeVars, attested, processed, txs, worker, crashes, lapses>>

SourceAttested(j) ==
  /\ source[j] = "paid" /\ j \notin attested
  /\ attested' = attested \cup {j}
  /\ UNCHANGED <<storeVars, source, processed, txs, worker, crashes, lapses>>

\* Somebody else relays the payment: execute is open to all.
RelayedElsewhere(j) ==
  /\ j \in attested \ processed
  /\ processed' = processed \cup {j}
  /\ UNCHANGED <<storeVars, source, attested, txs, worker, crashes, lapses>>

\* execute succeeds once per order, and may be refused (policy, expiry).
Mined(t) ==
  /\ txs[t].status = "pending"
  /\ \/ /\ txs[t].job \notin processed
        /\ processed' = processed \cup {txs[t].job}
        /\ txs' = [txs EXCEPT ![t].status = "succeeded"]
     \/ /\ txs' = [txs EXCEPT ![t].status = "reverted"]
        /\ UNCHANGED processed
  /\ UNCHANGED <<storeVars, source, attested, worker, crashes, lapses>>

ExecutorStep(w) == Claim(w) \/ Process(w) \/ Finish(w)

RelayNext ==
  \/ \E w \in Executor : ExecutorStep(w) \/ Heartbeat(w) \/ Restart(w)
  \/ \E c \in Cli : (\E j \in Job : Run(c, j)) \/ Process(c) \/ Exit(c)
  \/ \E w \in Worker : Crash(w)
  \/ \E j \in Job : Enqueue(j) \/ Lapse(j) \/ SourceMined(j) \/ SourceAttested(j)
                      \/ RelayedElsewhere(j)
  \/ \E t \in DOMAIN txs : Mined(t)

RelaySpec == RelayInit /\ [][RelayNext]_relayVars

\* A running worker keeps running, a crashed process is restarted, leases
\* expire, and Creditcoin includes what was broadcast.  That Sepolia includes
\* or attests anything, or that an adapter ever answers well, is not assumed;
\* nor that a statement ever throws.
RelayFairness ==
  /\ \A w \in Executor : WF_relayVars(ExecutorStep(w) /\ Answers) /\ WF_relayVars(Restart(w))
  /\ \A j \in Job : WF_relayVars(Lapse(j))
  /\ \A t \in 1 .. MaxSubmissions : WF_relayVars(t \in DOMAIN txs /\ Mined(t))

FairRelaySpec == RelaySpec /\ RelayFairness

-----------------------------------------------------------------------------
(***************************************************************************)
(* What the relay reports as done is done: a completed or duplicate job    *)
(* carries its source payment and its order is processed on Creditcoin,    *)
(* and a completed one names a transaction of that job that succeeded -    *)
(* whatever crashed, lapsed, threw or wrote concurrently.                  *)
(***************************************************************************)
SuccessIsReal ==
  \A j \in Job :
    LET row == rows[j] IN
    /\ row.phase \in Success => row.confirmed /\ j \in processed
    /\ row.phase = "completed" => row.tx # 0
    /\ row.tx # 0 => row.tx \in DOMAIN txs /\ txs[row.tx] = [job |-> j, status |-> "succeeded"]

(***************************************************************************)
(* Leases admit further executors without duplicate jobs (README.md:244):  *)
(* no two executors are inside process for the same job.                   *)
(***************************************************************************)
NoDuplicateJobs ==
  \A v, w \in Executor, j \in Job : Processing(v, j) /\ Processing(w, j) => v = w

(***************************************************************************)
(* A reported outcome is final: a finished job never starts over, and the  *)
(* transaction it names stays.  save protects neither; only the leases do. *)
(***************************************************************************)
OutcomeIsFinal ==
  [][\A j \in Job :
       rows[j].phase \in Terminal =>
         /\ rows'[j].phase = rows[j].phase
         /\ rows'[j].tx = rows[j].tx]_relayVars

(***************************************************************************)
(* "ProofRelay persists and reports the structured terminal failure"       *)
(* (executor.ts:80): once process is over, however it ended, the job of    *)
(* the executor has a terminal phase.                                      *)
(***************************************************************************)
OutcomeIsPersisted ==
  \A w \in Executor :
    worker[w].pc = "release" => rows[worker[w].job].phase \in Terminal

(***************************************************************************)
(* Liveness: unless a statement throws, which may end the executor's loop, *)
(* an accepted job is finished one way or another, through crashes too.    *)
(***************************************************************************)
AcceptedJobsFinish ==
  [](faults = 0) =>
    \A j \in Job : (rows[j].phase \in Working) ~> (rows[j].phase \in Terminal)
=============================================================================
