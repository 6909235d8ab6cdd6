------------------------- MODULE MachineController -------------------------
(***************************************************************************)
(* The standalone terminal (apps/device/src/state.ts, with the timers of   *)
(* main.ts): it polls Creditcoin while its page is visible and shows what  *)
(* the last answer and its own clock allow.                                *)
(***************************************************************************)
EXTENDS AccessReads

CONSTANTS
  machineId,    \* VITE_DEMO_MACHINE_ID
  beneficiary,  \* VITE_DEMO_BENEFICIARY_ADDRESS
  MaxFailures,  \* bound on reads that throw
  MaxReads      \* bound on reads outstanding at once

VARIABLES
  view,        \* state, and the snapshot it was derived from
  reads,       \* reads in flight, oldest first
  hidden,      \* document.hidden
  deviceTime,  \* the device's clock
  failures     \* reads that threw so far

deviceVars == <<view, reads, hidden, deviceTime, failures>>
vars == <<chainVars, deviceVars>>

ASSUME DeviceAssumption ==
  machineId \in Machine /\ beneficiary \in Payer /\ MaxFailures \in Nat /\ MaxReads \in Nat \ {0}

\* The block number is only displayed.
DeviceCalls == Call \ {"getBlockNumber"}

\* hasSnapshot: the optional snapshot is there; overruled: bookkeeping, whether
\* the snapshot is that of an overruled read.
View == [state : {"locked", "unlocking", "unlocked", "expired"}, snapshot : Snapshot,
         hasSnapshot : BOOLEAN, overruled : BOOLEAN]

TypeOK ==
  /\ ChainTypeOK
  /\ view \in View
  /\ view.hasSnapshot \/ view.state \in {"locked", "unlocking"}
  /\ \A i \in 1 .. Len(reads) : reads[i] \in Read
  /\ Len(reads) <= MaxReads
  /\ hidden \in BOOLEAN
  /\ deviceTime \in Timestamp
  /\ failures \in 0 .. MaxFailures

Locked == [state |-> "locked", snapshot |-> NoSnapshot, hasSnapshot |-> FALSE, overruled |-> FALSE]

Init ==
  /\ ChainInit
  /\ view = Locked
  /\ reads = <<>>
  /\ hidden = FALSE
  /\ deviceTime = 0
  /\ failures = 0

\* Mutated: off by one second either way, and by expiry alone.
LiveUntilBeforeExpiry(s) ==
  s.authorized /\ s.machineActive /\ s.expiresAt > deviceTime + 1
LiveUntilAfterExpiry(s) ==
  s.authorized /\ s.machineActive /\ s.expiresAt >= deviceTime
LiveWhileInactive(s) == s.expiresAt > deviceTime

Live(s) == s.authorized /\ s.machineActive /\ s.expiresAt > deviceTime

deriveMachineState(s) ==
  IF Live(s) THEN "unlocked"
  ELSE IF s.expiresAt > 0 /\ s.expiresAt <= deviceTime THEN "expired"
  ELSE "locked"

\* The in-flight guard; mutated, reads overlap.
IdleOverlapping == TRUE
Idle == reads = <<>>

\* A read begins, unless one is in flight.  An unlocked view stays as it is
\* until the answer.
Refresh ==
  IF Idle /\ Len(reads) < MaxReads
  THEN /\ reads' = Append(reads, BeginRead(DeviceCalls))
       /\ view' = IF view.state = "unlocked" THEN view ELSE [view EXCEPT !.state = "unlocking"]
  ELSE UNCHANGED <<reads, view>>

\* The interval, or a click.
Poll ==
  /\ ~hidden
  /\ Refresh
  /\ UNCHANGED <<chainVars, hidden, deviceTime, failures>>

Hide ==
  /\ ~hidden
  /\ hidden' = TRUE
  /\ UNCHANGED <<chainVars, view, reads, deviceTime, failures>>

Show ==
  /\ hidden
  /\ hidden' = FALSE
  /\ Refresh
  /\ UNCHANGED <<chainVars, deviceTime, failures>>

Answer(i, calls) ==
  /\ Awaited(reads[i], calls)
  /\ reads[i].pending # calls
  /\ reads' = [reads EXCEPT ![i] = AnswerCalls(@, calls, machineId, beneficiary)]
  /\ UNCHANGED <<chainVars, view, hidden, deviceTime, failures>>

\* The last answer settles the Promise.all, and the view is published at once.
ReadCompletes(i, calls) ==
  /\ Awaited(reads[i], calls)
  /\ reads[i].pending = calls
  /\ LET s == Answered(reads[i].snapshot, calls, machineId, beneficiary)
     IN  /\ view' = [state |-> deriveMachineState(s), snapshot |-> s, hasSnapshot |-> TRUE,
                     overruled |-> reads[i].overruled]
         /\ reads' = EndRead(reads, i, ~Live(s))
  /\ UNCHANGED <<chainVars, hidden, deviceTime, failures>>

\* The snapshot is dropped with the state.
Failed(v) == Locked

\* A call rejects, or the RPC turns out to serve another chain.
ReadFails(i) ==
  /\ failures < MaxFailures
  /\ failures' = failures + 1
  /\ view' = Failed(view)
  /\ reads' = EndRead(reads, i, TRUE)
  /\ UNCHANGED <<chainVars, hidden, deviceTime>>

\* Every 250 ms, also while hidden and while a read is in flight.
Tick ==
  /\ view.hasSnapshot
  /\ view' = [view EXCEPT !.state = deriveMachineState(view.snapshot)]
  /\ UNCHANGED <<chainVars, reads, hidden, deviceTime, failures>>

DeviceClock ==
  /\ deviceTime < MaxUint64
  /\ deviceTime' = deviceTime + 1
  /\ UNCHANGED <<chainVars, view, reads, hidden, failures>>

\* Some outstanding read makes progress.
Answers ==
  \E i \in 1 .. Len(reads), calls \in Batches : Answer(i, calls) \/ ReadCompletes(i, calls)

Next ==
  \/ ChainNext /\ UNCHANGED deviceVars
  \/ Poll \/ Hide \/ Show \/ Tick \/ DeviceClock
  \/ Answers
  \/ \E i \in 1 .. Len(reads) : ReadFails(i)

Spec == Init /\ [][Next]_vars
FairSpec == Spec /\ WF_vars(Poll) /\ WF_vars(Answers) /\ WF_vars(Tick)

-----------------------------------------------------------------------------
Unlocked == view.state = "unlocked"

\* A terminal closed by a read, as it failed or saw no live access, is opened
\* only by a read begun after that one (state.ts, inFlight).
LateReadNeverUnlocks == Unlocked => ~view.overruled

\* A terminal somebody looks at again and again locks for good once access is
\* gone for good, by expiry or deactivation, whatever the device's clock says
\* and however reads fail (README.md:237).
LossOfAccessLocks ==
  (<>[]~IsAuthorized(machineId, beneficiary) /\ []<>~hidden) => <>[]~Unlocked

\* The device's own clock locks it at expiry even while nobody sees the page
\* and the RPC hangs (state.ts, tick).
ExpiryLocksByItself ==
  [](Unlocked /\ view.snapshot.expiresAt <= deviceTime
       => <>(~Unlocked \/ view.snapshot.expiresAt > deviceTime))

\* A terminal in view opens and stays open for a lasting authorization.
AuthorizationUnlocks ==
  <>[](/\ IsAuthorized(machineId, beneficiary)
       /\ accessCredentials[machineId][beneficiary].expiresAt > deviceTime
       /\ ~hidden)
    => <>[]Unlocked
=============================================================================
