------------------------------ MODULE JobStore ------------------------------
(***************************************************************************)
(* The relay's PostgreSQL table of jobs and leases (apps/worker/src/       *)
(* store.ts).  Each operation is one SQL statement, hence atomic.  A       *)
(* statement that throws at its caller may have been committed or not:     *)
(* Answers, or Throws with the statement's effect, or Throws with Lost.    *)
(***************************************************************************)
EXTENDS Integers, Sequences

CONSTANTS
  Job,       \* source transaction hashes
  Executor,  \* lease owners
  Nobody,    \* lease_owner IS NULL
  MaxFaults  \* bound on statements that throw

VARIABLES
  rows,    \* relay_jobs by source transaction hash
  leases,  \* lease_owner, and whether lease_expires_at has passed
  faults   \* statements that threw so far

storeVars == <<rows, leases, faults>>

Working  == {"queued", "source_confirmation", "attestation_wait", "proof_generation",
             "creditcoin_execution"}
Success  == {"completed", "duplicate"}
Terminal == Success \cup {"failed"}

\* confirmed: the source payment is part of the job; tx: its Creditcoin
\* transaction, 0 while there is none.
Row(Tx) == [phase : {"absent"} \cup Working \cup Terminal, confirmed : BOOLEAN, tx : Tx]
NoRow   == [phase |-> "absent", confirmed |-> FALSE, tx |-> 0]
Queued  == [NoRow EXCEPT !.phase = "queued"]

Free == [owner |-> Nobody, expired |-> FALSE]

ASSUME StoreAssumption == Nobody \notin Executor /\ MaxFaults \in Nat

StoreTypeOK(Tx) ==
  /\ rows \in [Job -> Row(Tx)]
  /\ leases \in [Job -> [owner : Executor \cup {Nobody}, expired : BOOLEAN]]
  /\ faults \in 0 .. MaxFaults

StoreInit ==
  /\ rows = [j \in Job |-> NoRow]
  /\ leases = [j \in Job |-> Free]
  /\ faults = 0

\* INSERT ... ON CONFLICT DO NOTHING.
Create(j) ==
  /\ rows[j] = NoRow
  /\ rows' = [rows EXCEPT ![j] = Queued]
  /\ UNCHANGED leases

\* An upsert that looks neither at the stored phase nor at the lease.
Save(j, row) ==
  /\ rows' = [rows EXCEPT ![j] = row]
  /\ UNCHANGED leases

\* Mutated: without the lease, without the phase, without the expiry.
ClaimableLeased(j) == rows[j].phase \in Working
ClaimableAnyPhase(j) ==
  rows[j] # NoRow /\ (leases[j].owner = Nobody \/ leases[j].expired)
ClaimableUnowned(j) == rows[j].phase \in Working /\ leases[j].owner = Nobody

Claimable(j) ==
  /\ rows[j].phase \in Working
  /\ leases[j].owner = Nobody \/ leases[j].expired

\* The statement takes the oldest claimable row that nobody has locked; which
\* one that is is left open.
ClaimNext(w, j) ==
  /\ Claimable(j)
  /\ leases' = [leases EXCEPT ![j] = [owner |-> w, expired |-> FALSE]]
  /\ UNCHANGED rows

RenewLease(w, j) ==
  /\ leases[j].owner = w
  /\ leases' = [leases EXCEPT ![j].expired = FALSE]
  /\ UNCHANGED rows

Release(w, j) ==
  /\ leases' = IF leases[j].owner = w THEN [leases EXCEPT ![j] = Free] ELSE leases
  /\ UNCHANGED rows

\* lease_expires_at passes.
Expire(j) ==
  /\ leases[j].owner # Nobody
  /\ leases[j].expired = FALSE
  /\ leases' = [leases EXCEPT ![j].expired = TRUE]
  /\ UNCHANGED rows

Answers == UNCHANGED faults
Throws  == faults < MaxFaults /\ faults' = faults + 1
Lost    == UNCHANGED <<rows, leases>>
=============================================================================
