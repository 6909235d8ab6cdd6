---------------------------- MODULE DeviceProofs ----------------------------
(***************************************************************************)
(* Theorems about device sessions, for any numbers of tabs, browsers,      *)
(* nonces, orders and reads: receipts are final, what is sealed is one     *)
(* session, and a QR code opens one device.                                *)
(***************************************************************************)
EXTENDS DeviceSession, SequenceTheorems, TLAPS

-----------------------------------------------------------------------------
(* The inductive invariant.  SealedSession by itself is not: that an       *)
(* accepted end receipt continues the start receipt rests on the check the *)
(* server made earlier (TabBound), and that its window is the job's on the *)
(* row's being a copy of the job (RowBound).                               *)

\* Completed jobs are those of payments for a machine.
JobsBound ==
  \A o \in Order : jobs[o] # NoJob => jobs[o].machineId \in Machine /\ jobs[o].payer \in Account

\* A row belongs to a completed job and carries that job's expiry.
RowBound(row) ==
  /\ row.orderId \in Order
  /\ jobs[row.orderId] # NoJob
  /\ row.accessExpiresAt = jobs[row.orderId].accessExpiresAt

RowsBound == \A n \in Nonce : handoffs[n] # NoHandoff => RowBound(handoffs[n])

Exists(n) == n \in Nonce /\ handoffs[n] # NoHandoff

ShownBound == \A n \in shown : Exists(n)

\* A receipt the server has checked, but not stored yet, still agrees with the
\* row it is meant for.
TabBound(tab) ==
  /\ tab.stage # "closed" => Exists(tab.nonce)
  /\ tab.stage = "open" => tab.handoff.orderId \in Order /\ jobs[tab.handoff.orderId] # NoJob
  /\ tab.stage # "open" => tab.request = NoReceipt /\ tab.reads = <<>>
  /\ tab.asserted => /\ tab.request # NoReceipt
                     /\ tab.request.kind = "end" =>
                          AssertUsageReceipt(handoffs[tab.nonce], tab.request)

TabsBound == \A t \in Tab : TabBound(tabs[t])

SessionInv == TypeOK /\ JobsBound /\ RowsBound /\ ShownBound /\ TabsBound /\ SealedSession

\* What no step takes back.
RowKept(row, next) ==
  /\ next # NoHandoff
  /\ next.orderId = row.orderId
  /\ next.accessExpiresAt = row.accessExpiresAt
  /\ row.startReceipt # NoReceipt => next.startReceipt = row.startReceipt
  /\ row.endReceipt # NoReceipt => next.endReceipt = row.endReceipt

JobsKept == \A o \in Order : jobs[o] # NoJob => jobs'[o] = jobs[o]
RowsKept == \A n \in Nonce : handoffs[n] # NoHandoff => RowKept(handoffs[n], handoffs'[n])

-----------------------------------------------------------------------------
(* Reads keep their types. *)

LEMMA EndReadType ==
  ASSUME NEW reads \in Seq(Read), NEW i \in 1 .. Len(reads), NEW closed \in BOOLEAN
  PROVE  EndRead(reads, i, closed) \in Seq(Read) /\ Len(EndRead(reads, i, closed)) = Len(reads) - 1
<1> DEFINE rest == EndRead(reads, i, closed)
<1>1. Len(reads) \in Nat \ {0} /\ \A j \in 1 .. Len(reads) : reads[j] \in Read
  BY ElementOfSeq, LenProperties
<1>2. ASSUME NEW j \in 1 .. Len(reads) - 1
      PROVE  rest[j] \in Read
  <2>1. reads[j] \in Read /\ reads[j + 1] \in Read /\ reads[i] \in Read
    BY <1>1
  <2>2. [reads[j] EXCEPT !.overruled = closed \/ reads[i].overruled] \in Read
    BY <2>1 DEF Read
  <2> QED BY <2>1, <2>2 DEF EndRead
<1>3. rest \in [1 .. Len(reads) - 1 -> Read]
  BY <1>2 DEF EndRead
<1>4. Len(reads) - 1 \in Nat
  BY <1>1
<1> HIDE DEF rest
<1>5. rest \in Seq(Read)
  BY <1>3, <1>4, SeqDef
<1>6. DOMAIN rest = 1 .. Len(rest) /\ Len(rest) \in Nat
  BY <1>5, LenProperties
<1>7. DOMAIN rest = 1 .. Len(reads) - 1
  BY <1>3
<1>8. Len(rest) = Len(reads) - 1
  BY <1>4, <1>6, <1>7
<1> QED BY <1>5, <1>8 DEF rest

LEMMA AnsweredType ==
  ASSUME ChainTypeOK, NEW s \in Snapshot, NEW calls, NEW m \in Machine, NEW payer \in Account
  PROVE  Answered(s, calls, m, payer) \in Snapshot
<1>1. machines[m] \in MachineRecord
  BY DEF ChainTypeOK, MachinesTypeOK, OrZero
<1>2. accessCredentials[m][payer] \in [authorizationId : OrZero(Order), expiresAt : Timestamp]
  BY DEF ChainTypeOK, PassTypeOK
<1>3. IsAuthorized(m, payer) \in BOOLEAN
  BY <1>1 DEF IsAuthorized, MachineRecord
<1>4. creditcoinTime \in Timestamp
  BY DEF ChainTypeOK, PassTypeOK
<1> QED BY <1>1, <1>2, <1>3, <1>4 DEF Answered, Snapshot, MachineRecord

LEMMA ReceiptKinds ==
  /\ \A r \in StartReceipts : r.kind = "start" /\ r # NoReceipt
  /\ \A r \in EndReceipts : r.kind = "end" /\ r # NoReceipt
BY DEF StartReceipts, EndReceipts, NoReceipt

LEMMA NullTypes ==
  /\ NoHandoff \in Handoff
  /\ NoSnapshot \in Snapshot
  /\ NoTab \in TabRecord
  /\ TabBound(NoTab)
<1>1. 0 \in Timestamp
  BY BoundsAreNat DEF Timestamp
<1>2. NoHandoff \in Handoff
  BY <1>1 DEF NoHandoff, Handoff, OrZero
<1>3. NoSnapshot \in Snapshot
  BY <1>1 DEF NoSnapshot, Snapshot, OrZero
<1>4. NoTab.reads = <<>> /\ <<>> \in Seq(Read)
  BY EmptySeq DEF NoTab
<1>5. NoTab \in TabRecord
  BY <1>1, <1>2, <1>3, <1>4 DEF NoTab, TabRecord, Stage, OrZero
<1>6. TabBound(NoTab)
  BY DEF NoTab, TabBound
<1> QED BY <1>2, <1>3, <1>5, <1>6

-----------------------------------------------------------------------------
(* Steps of one tab. *)

LEMMA TabStep ==
  ASSUME SessionInv, NEW t \in Tab, NEW tab \in TabRecord,
         TabBound(tab), Len(tab.reads) <= MaxReads,
         tabs' = [tabs EXCEPT ![t] = tab], faults' \in 0 .. MaxFaults,
         UNCHANGED <<chainVars, handoffVars, sessionVars, storage>>
  PROVE  SessionInv'
<1> USE DEF SessionInv, chainVars, passVars, handoffVars, sessionVars
<1>1. tabs' \in [Tab -> TabRecord] /\ \A u \in Tab : tabs'[u] = IF u = t THEN tab ELSE tabs[u]
  BY DEF TypeOK, PageTypeOK
<1>2. TypeOK'
  BY <1>1 DEF TypeOK, ChainTypeOK, HandoffTypeOK, SessionTypeOK, PageTypeOK, MachinesTypeOK,
              PassTypeOK
<1>3. JobsBound' /\ RowsBound' /\ ShownBound' /\ SealedSession'
  BY DEF JobsBound, RowsBound, RowBound, ShownBound, Exists, SealedSession
<1>4. TabsBound'
  <2> SUFFICES ASSUME NEW u \in Tab
               PROVE  TabBound(tabs[u])'
    BY DEF TabsBound
  <2>1. TabBound(IF u = t THEN tab ELSE tabs[u])
    BY DEF TabsBound
  <2>2. tabs'[u] = IF u = t THEN tab ELSE tabs[u]
    BY <1>1
  <2> QED BY <2>1, <2>2 DEF TabBound, Exists, AssertUsageReceipt
<1> QED BY <1>2, <1>3, <1>4

LEMMA FaultType ==
  ASSUME TypeOK, Fault \/ UNCHANGED faults
  PROVE  faults' \in 0 .. MaxFaults
BY FaultsAssumption DEF TypeOK, SessionTypeOK, Fault

\* What is bound stays bound while rows and completed jobs are kept.
LEMMA BoundKept ==
  ASSUME SessionInv, JobsKept, RowsKept, NEW tab \in TabRecord, TabBound(tab)
  PROVE  TabBound(tab)'
<1>1. CASE tab.stage = "closed"
  BY <1>1 DEF TabBound, TabRecord
<1>2. CASE tab.stage # "closed"
  <2>1. Exists(tab.nonce) /\ Exists(tab.nonce)'
    BY <1>2 DEF TabBound, Exists, RowsKept, RowKept
  <2>2. RowKept(handoffs[tab.nonce], handoffs'[tab.nonce])
    BY <2>1 DEF Exists, RowsKept
  <2>3. AssertUsageReceipt(handoffs[tab.nonce], tab.request) /\ tab.request.kind = "end"
          => AssertUsageReceipt(handoffs'[tab.nonce], tab.request)
    BY <2>2 DEF AssertUsageReceipt, RowKept
  <2>4. tab.handoff.orderId \in Order /\ jobs[tab.handoff.orderId] # NoJob
          => jobs'[tab.handoff.orderId] # NoJob
    BY DEF JobsKept
  <2> QED BY <1>2, <2>1, <2>3, <2>4 DEF TabBound
<1> QED BY <1>1, <1>2

\* The facts about a tab every step below starts from.
LEMMA TabFacts ==
  ASSUME SessionInv, NEW t \in Tab
  PROVE  /\ tabs[t] \in TabRecord
         /\ TabBound(tabs[t])
         /\ tabs[t].reads \in Seq(Read)
         /\ Len(tabs[t].reads) \in 0 .. MaxReads
         /\ tabs[t].stage # "closed" =>
              /\ tabs[t].nonce \in Nonce
              /\ handoffs[tabs[t].nonce] \in Handoff
              /\ Public(tabs[t].nonce) \in Handoff
              /\ RowBound(handoffs[tabs[t].nonce])
<1>1. tabs[t] \in TabRecord /\ TabBound(tabs[t]) /\ Len(tabs[t].reads) <= MaxReads
  BY DEF SessionInv, TypeOK, PageTypeOK, TabsBound
<1>2. tabs[t].reads \in Seq(Read)
  BY <1>1 DEF TabRecord
<1>3. Len(tabs[t].reads) \in 0 .. MaxReads
  BY <1>1, <1>2, LenProperties, PageAssumption
<1>4. ASSUME tabs[t].stage # "closed"
      PROVE  /\ tabs[t].nonce \in Nonce
             /\ handoffs[tabs[t].nonce] \in Handoff
             /\ Public(tabs[t].nonce) \in Handoff
             /\ RowBound(handoffs[tabs[t].nonce])
  <2>1. Exists(tabs[t].nonce)
    BY <1>1, <1>4 DEF TabBound
  <2>2. handoffs[tabs[t].nonce] \in Handoff /\ RowBound(handoffs[tabs[t].nonce])
    BY <2>1 DEF Exists, SessionInv, RowsBound, TypeOK, HandoffTypeOK
  <2>3. Public(tabs[t].nonce) \in Handoff
    BY <2>2 DEF Public, Handoff
  <2> QED BY <2>1, <2>2, <2>3 DEF Exists
<1> QED BY <1>1, <1>2, <1>3, <1>4

LEMMA CloseTab ==
  ASSUME SessionInv, NEW t \in Tab, tabs' = [tabs EXCEPT ![t] = NoTab],
         faults' \in 0 .. MaxFaults,
         UNCHANGED <<chainVars, handoffVars, sessionVars, storage>>
  PROVE  SessionInv'
<1>1. Len(NoTab.reads) <= MaxReads
  BY EmptySeq, PageAssumption DEF NoTab
<1> QED BY <1>1, NullTypes, TabStep

LEMMA ClaimingSteps ==
  ASSUME SessionInv, NEW t \in Tab, UNCHANGED <<chainVars, sessionVars>>,
         Open(t) \/ Close(t) \/ Load(t) \/ CheckClaim(t) \/ ClaimRejected(t) \/ ClaimFails(t)
  PROVE  SessionInv'
<1> DEFINE tab == tabs[t]
<1>0. UNCHANGED <<chainVars, handoffVars, sessionVars, storage>> /\ faults' \in 0 .. MaxFaults
  BY FaultType DEF SessionInv, Open, Close, Load, CheckClaim, ClaimRejected, ClaimFails,
                   SetNoFault
<1>1. tab \in TabRecord /\ TabBound(tab) /\ Len(tab.reads) <= MaxReads
  BY TabFacts, PageAssumption
<1>2. CASE Open(t)
  <2>1. PICK browser \in Browser, n \in shown :
          tabs' = [tabs EXCEPT ![t] = [NoTab EXCEPT !.stage = "loading", !.browser = browser,
                                         !.nonce = n, !.token = storage[browser][n]]]
    BY <1>2 DEF Open, SetNoFault, Set
  <2> DEFINE new == [NoTab EXCEPT !.stage = "loading", !.browser = browser, !.nonce = n,
                                  !.token = storage[browser][n]]
  <2>2. Exists(n) /\ storage[browser][n] \in Token \cup {NoToken}
    BY DEF SessionInv, ShownBound, Exists, TypeOK, PageTypeOK
  <2>3. new \in TabRecord
    BY <2>2, NullTypes DEF NoTab, TabRecord, Stage, Exists, OrZero
  <2>4. new.reads = <<>> /\ TabBound(new)
    BY <2>2 DEF NoTab, TabBound
  <2>5. Len(new.reads) <= MaxReads
    BY <2>4, EmptySeq, PageAssumption
  <2> QED BY <1>0, <2>1, <2>3, <2>4, <2>5, TabStep
<1>3. CASE tabs' = [tabs EXCEPT ![t] = NoTab]
  BY <1>0, <1>3, CloseTab
<1>4. CASE Load(t) /\ tab.token # NoToken
  <2> DEFINE new == Opened(tab, Public(tab.nonce), tab.token)
  <2>1. tabs' = [tabs EXCEPT ![t] = new] /\ tab.stage = "loading"
    BY <1>4 DEF Load, SetNoFault, Set
  <2>2. Public(tab.nonce) \in Handoff /\ RowBound(handoffs[tab.nonce])
    BY <2>1, TabFacts
  <2>3. Public(tab.nonce).orderId = handoffs[tab.nonce].orderId
    BY <2>1, TabFacts DEF Public, Handoff
  <2>4. new \in TabRecord /\ new.reads = tab.reads
    BY <1>1, <2>2 DEF Opened, TabRecord, Stage
  <2>5. TabBound(new)
    BY <1>1, <2>1, <2>2, <2>3 DEF Opened, TabBound, RowBound, TabRecord
  <2> QED BY <1>0, <1>1, <2>1, <2>4, <2>5, TabStep
<1>5. ASSUME NEW stage \in {"claiming", "checked"}, tab.stage \in {"loading", "claiming"},
             tabs' = [tabs EXCEPT ![t] = [tabs[t] EXCEPT !.stage = stage]]
      PROVE  SessionInv'
  <2> DEFINE new == [tab EXCEPT !.stage = stage]
  <2>1. new \in TabRecord /\ new.reads = tab.reads
    BY <1>1 DEF TabRecord, Stage
  <2>2. TabBound(new)
    BY <1>1, <1>5 DEF TabBound, TabRecord
  <2> QED BY <1>0, <1>1, <1>5, <2>1, <2>2, TabStep
<1>6. CASE Load(t) /\ tab.token = NoToken
  BY <1>5, <1>6 DEF Load, SetNoFault, Set
<1>7. CASE CheckClaim(t)
  BY <1>3, <1>5, <1>7 DEF CheckClaim, SetNoFault, Set
<1> QED BY <1>2, <1>3, <1>4, <1>6, <1>7 DEF Close, ClaimRejected, ClaimFails, SetNoFault, Set

LEMMA ReadingSteps ==
  ASSUME SessionInv, NEW t \in Tab, UNCHANGED <<chainVars, sessionVars>>,
         \/ Inspect(t) \/ Clock(t)
         \/ \E i \in 1 .. Len(tabs[t].reads) :
              ReadCompletes(t, i) \/ ReadFails(t, i) \/ \E calls \in Batches : Answer(t, i, calls)
  PROVE  SessionInv'
<1> DEFINE tab == tabs[t]
<1>0. UNCHANGED <<chainVars, handoffVars, sessionVars, storage>> /\ faults' \in 0 .. MaxFaults
  BY FaultType DEF SessionInv, Inspect, Clock, ReadCompletes, ReadFails, Answer, SetNoFault
<1>1. /\ tab \in TabRecord /\ TabBound(tab)
      /\ tab.reads \in Seq(Read) /\ Len(tab.reads) \in 0 .. MaxReads
  BY TabFacts
<1>2. CASE Inspect(t)
  <2> DEFINE new == [tab EXCEPT !.reads = Append(tab.reads, BeginRead(Call))]
  <2>1. tabs' = [tabs EXCEPT ![t] = new] /\ tab.stage = "open" /\ Len(tab.reads) < MaxReads
    BY <1>2 DEF Inspect, SetNoFault, Set
  <2>2. BeginRead(Call) \in Read
    BY NullTypes DEF BeginRead, Read
  <2>3. Append(tab.reads, BeginRead(Call)) \in Seq(Read)
        /\ Len(Append(tab.reads, BeginRead(Call))) <= MaxReads
    BY <1>1, <2>1, <2>2, AppendProperties, PageAssumption
  <2>4. new \in TabRecord /\ TabBound(new) /\ Len(new.reads) <= MaxReads
    BY <1>1, <2>1, <2>3 DEF TabRecord, TabBound
  <2> QED BY <1>0, <2>1, <2>4, TabStep
<1>3. CASE Clock(t)
  <2> DEFINE new == [tab EXCEPT !.now = tab.now + 1]
  <2>1. tabs' = [tabs EXCEPT ![t] = new] /\ tab.now < MaxUint64
    BY <1>3 DEF Clock, SetNoFault, Set
  <2>2. tab.now + 1 \in Timestamp
    BY <1>1, <2>1, BoundsAreNat DEF TabRecord, Timestamp
  <2>3. new \in TabRecord /\ TabBound(new) /\ Len(new.reads) <= MaxReads
    BY <1>1, <2>2, PageAssumption DEF TabRecord, TabBound
  <2> QED BY <1>0, <2>1, <2>3, TabStep
<1>4. ASSUME NEW i \in 1 .. Len(tab.reads)
      PROVE  /\ tab.stage = "open" /\ tab.reads[i] \in Read
             /\ \A closed \in BOOLEAN : /\ EndRead(tab.reads, i, closed) \in Seq(Read)
                                        /\ Len(EndRead(tab.reads, i, closed)) <= MaxReads
  <2>1. tab.reads[i] \in Read
    BY <1>1, ElementOfSeq
  <2>2. tab.stage = "open"
    BY <1>1, EmptySeq DEF TabBound
  <2>3. ASSUME NEW closed \in BOOLEAN
        PROVE  /\ EndRead(tab.reads, i, closed) \in Seq(Read)
               /\ Len(EndRead(tab.reads, i, closed)) <= MaxReads
    BY <1>1, EndReadType, PageAssumption
  <2> QED BY <2>1, <2>2, <2>3
<1>5. ASSUME NEW i \in 1 .. Len(tab.reads), ReadCompletes(t, i)
      PROVE  SessionInv'
  <2> DEFINE s   == tab.reads[i].snapshot
             new == [tab EXCEPT !.authorization = s, !.authorized = TRUE, !.rpcError = FALSE,
                                !.now = s.blockTimestamp,
                                !.reads = EndRead(tab.reads, i, ~Granted(s)),
                                !.overruled = tab.reads[i].overruled]
  <2>1. tabs' = [tabs EXCEPT ![t] = new]
    BY <1>5 DEF ReadCompletes, SetNoFault, Set
  <2>2. s \in Snapshot /\ tab.reads[i].overruled \in BOOLEAN
    BY <1>4 DEF Read
  <2>3. s.blockTimestamp \in Timestamp /\ Granted(s) \in BOOLEAN
    BY <2>2 DEF Snapshot, Granted
  <2>4. /\ EndRead(tab.reads, i, ~Granted(s)) \in Seq(Read)
        /\ Len(EndRead(tab.reads, i, ~Granted(s))) <= MaxReads
    BY <1>4, <2>3
  <2> HIDE DEF s
  <2>5. new \in TabRecord /\ TabBound(new) /\ Len(new.reads) <= MaxReads
    BY <1>1, <1>4, <2>2, <2>3, <2>4 DEF TabRecord, TabBound
  <2> QED BY <1>0, <2>1, <2>5, TabStep
<1>6. ASSUME NEW i \in 1 .. Len(tab.reads), ReadFails(t, i)
      PROVE  SessionInv'
  <2> DEFINE new == [tab EXCEPT !.rpcError = TRUE, !.reads = EndRead(tab.reads, i, TRUE),
                                !.overruled = tab.reads[i].overruled]
  <2>1. tabs' = [tabs EXCEPT ![t] = new]
    BY <1>6 DEF ReadFails, Set
  <2>2. tab.reads[i].overruled \in BOOLEAN
    BY <1>4 DEF Read
  <2>3. new \in TabRecord /\ TabBound(new) /\ Len(new.reads) <= MaxReads
    BY <1>1, <1>4, <2>2 DEF TabRecord, TabBound
  <2> QED BY <1>0, <2>1, <2>3, TabStep
<1>7. ASSUME NEW i \in 1 .. Len(tab.reads), NEW calls \in Batches, Answer(t, i, calls)
      PROVE  SessionInv'
  <2> DEFINE job  == jobs[tab.handoff.orderId]
             read == AnswerCalls(tab.reads[i], calls, job.machineId, job.payer)
             new  == [tab EXCEPT !.reads = [tab.reads EXCEPT ![i] = read]]
  <2>1. tabs' = [tabs EXCEPT ![t] = new]
    BY <1>1, <1>7 DEF Answer, SetNoFault, Set, TabRecord
  <2>2. job.machineId \in Machine /\ job.payer \in Account
    BY <1>1, <1>4 DEF TabBound, SessionInv, JobsBound
  <2>3. Answered(tab.reads[i].snapshot, calls, job.machineId, job.payer) \in Snapshot
    BY <1>4, <2>2, AnsweredType DEF Read, SessionInv, TypeOK
  <2>4. read \in Read
    BY <1>4, <2>3 DEF AnswerCalls, Read
  <2> HIDE DEF read
  <2>5. [tab.reads EXCEPT ![i] = read] \in Seq(Read)
        /\ Len([tab.reads EXCEPT ![i] = read]) <= MaxReads
    BY <1>1, <2>4, ExceptSeq, PageAssumption
  <2>6. new \in TabRecord /\ TabBound(new) /\ Len(new.reads) <= MaxReads
    BY <1>1, <1>4, <2>5 DEF TabRecord, TabBound
  <2> QED BY <1>0, <2>1, <2>6, TabStep
<1> QED BY <1>2, <1>3, <1>5, <1>6, <1>7

LEMMA SignedType ==
  ASSUME NEW tab \in TabRecord, NEW kind \in {"start", "end"}, CanSign(tab, kind)
  PROVE  /\ kind = "start" => StartReceipt(tab) \in StartReceipts
         /\ kind = "end" => EndReceipt(tab) \in EndReceipts
<1>1. /\ tab.authorization.controller \in OrZero(Controller)
      /\ tab.authorization.blockTimestamp \in Timestamp
      /\ tab.handoff.accessExpiresAt \in Timestamp
  BY DEF TabRecord, Snapshot, Handoff
<1>2. StartReceipt(tab) \in StartReceipts
  BY <1>1 DEF StartReceipt, NoReceipt, StartReceipts
<1>3. ASSUME kind = "end"
      PROVE  EndReceipt(tab) \in EndReceipts
  <2>1. tab.handoff.startReceipt \in StartReceipts
    BY <1>3 DEF CanSign, TabRecord, Handoff
  <2>2. tab.handoff.startReceipt.startedAt \in Timestamp
    BY <2>1 DEF StartReceipts
  <2>3. EndedAt(tab) \in Timestamp
    BY <1>1 DEF EndedAt
  <2>4. (IF EndedAt(tab) < tab.handoff.startReceipt.startedAt THEN 0
         ELSE EndedAt(tab) - tab.handoff.startReceipt.startedAt) \in Timestamp
    BY <2>2, <2>3, BoundsAreNat DEF Timestamp
  <2> QED BY <1>1, <2>2, <2>3, <2>4 DEF EndReceipt, EndReceipts
<1> QED BY <1>2, <1>3

LEMMA SettledTab ==
  ASSUME SessionInv, NEW t \in Tab, tabs' = [tabs EXCEPT ![t] = Settled(tabs[t])],
         faults' \in 0 .. MaxFaults,
         UNCHANGED <<chainVars, handoffVars, sessionVars, storage>>
  PROVE  SessionInv'
<1>1. tabs[t] \in TabRecord /\ TabBound(tabs[t]) /\ Len(tabs[t].reads) <= MaxReads
  BY TabFacts, PageAssumption
<1>2. Settled(tabs[t]) \in TabRecord /\ Settled(tabs[t]).reads = tabs[t].reads
  BY <1>1 DEF Settled, TabRecord
<1>3. TabBound(Settled(tabs[t]))
  BY <1>1 DEF Settled, TabBound, TabRecord
<1> QED BY <1>1, <1>2, <1>3, TabStep

LEMMA SigningSteps ==
  ASSUME SessionInv, NEW t \in Tab, UNCHANGED <<chainVars, sessionVars>>,
         \/ Sign(t, "start") \/ Sign(t, "end")
         \/ CheckReceipt(t) \/ ReceiptRejected(t) \/ ReceiptLost(t)
  PROVE  SessionInv'
<1> DEFINE tab == tabs[t]
<1>0. UNCHANGED <<chainVars, handoffVars, sessionVars, storage>> /\ faults' \in 0 .. MaxFaults
  BY FaultType DEF SessionInv, Sign, CheckReceipt, ReceiptRejected, ReceiptLost, SetNoFault
<1>1. tab \in TabRecord /\ TabBound(tab) /\ Len(tab.reads) <= MaxReads
  BY TabFacts, PageAssumption
<1>2. ASSUME NEW kind \in {"start", "end"}, Sign(t, kind)
      PROVE  SessionInv'
  <2> DEFINE r   == IF kind = "start" THEN StartReceipt(tab) ELSE EndReceipt(tab)
             new == [tab EXCEPT !.request = r]
  <2>1. tabs' = [tabs EXCEPT ![t] = new] /\ CanSign(tab, kind)
    BY <1>2 DEF Sign, SetNoFault, Set
  <2>2. r \in StartReceipts \cup EndReceipts
    BY <1>1, <2>1, SignedType
  <2>3. tab.stage = "open" /\ ~tab.asserted
    BY <1>1, <2>1 DEF CanSign, TabBound, TabRecord
  <2> HIDE DEF r
  <2>4. new \in TabRecord /\ TabBound(new) /\ new.reads = tab.reads
    BY <1>1, <2>2, <2>3 DEF TabRecord, TabBound
  <2> QED BY <1>0, <1>1, <2>1, <2>4, TabStep
<1>3. CASE tabs' = [tabs EXCEPT ![t] = Settled(tabs[t])]
  BY <1>0, <1>3, SettledTab
<1>4. CASE CheckReceipt(t) /\ AssertUsageReceipt(handoffs[tab.nonce], tab.request)
  <2> DEFINE new == [tab EXCEPT !.asserted = TRUE]
  <2>1. tabs' = [tabs EXCEPT ![t] = new] /\ tab.request # NoReceipt
    BY <1>4 DEF CheckReceipt, SetNoFault, Set
  <2>2. new \in TabRecord /\ new.reads = tab.reads
    BY <1>1 DEF TabRecord
  <2>3. TabBound(new)
    BY <1>1, <1>4, <2>1 DEF TabBound, TabRecord
  <2> QED BY <1>0, <1>1, <2>1, <2>2, <2>3, TabStep
<1>5. CASE CheckReceipt(t)
  BY <1>3, <1>4, <1>5 DEF CheckReceipt, SetNoFault, Set
<1> QED BY <1>2, <1>3, <1>5 DEF ReceiptRejected, ReceiptLost, SetNoFault, Set

-----------------------------------------------------------------------------
(* Steps that write a row. *)

\* A step that keeps completed jobs and rows: what else it must establish.
LEMMA RowStep ==
  ASSUME SessionInv, TypeOK', JobsKept, RowsKept, JobsBound', RowsBound', SealedSession',
         \A n \in shown' : Exists(n)',
         NEW T \in SUBSET Tab, \A t \in T : TabBound(tabs[t])',
         \A t \in Tab \ T : tabs'[t] = tabs[t]
  PROVE  SessionInv'
<1>1. ShownBound'
  BY DEF ShownBound
<1>2. ASSUME NEW t \in Tab \ T
      PROVE  TabBound(tabs[t])'
  <2>1. tabs[t] \in TabRecord /\ TabBound(tabs[t])
    BY TabFacts
  <2>2. \A tab \in TabRecord : TabBound(tab) => TabBound(tab)'
    BY BoundKept
  <2> QED BY <1>2, <2>1, <2>2 DEF TabBound, Exists, AssertUsageReceipt
<1>3. TabsBound'
  BY <1>2 DEF TabsBound
<1> QED BY <1>1, <1>3 DEF SessionInv

\* One row is replaced by one that keeps what is there and seals, if it seals,
\* one session.
LEMMA RowReplaced ==
  ASSUME SessionInv, NEW n, Exists(n), NEW row \in Handoff, RowKept(handoffs[n], row),
         handoffs' = [handoffs EXCEPT ![n] = row], UNCHANGED <<chainVars, serverTime>>,
         row.endReceipt # NoReceipt =>
           /\ row.startReceipt # NoReceipt
           /\ row.endReceipt.controller = row.startReceipt.controller
           /\ row.endReceipt.startedAt = row.startReceipt.startedAt
           /\ row.endReceipt.measured = row.endReceipt.endedAt - row.endReceipt.startedAt
           /\ row.endReceipt.endedAt <= row.accessExpiresAt
  PROVE  HandoffTypeOK' /\ JobsKept /\ RowsKept /\ JobsBound' /\ RowsBound' /\ SealedSession'
<1> USE DEF chainVars
<1>1. n \in Nonce /\ handoffs \in [Nonce -> Handoff] /\ RowBound(handoffs[n])
  BY DEF Exists, SessionInv, RowsBound, TypeOK, HandoffTypeOK
<1>2. \A m \in Nonce : handoffs'[m] = IF m = n THEN row ELSE handoffs[m]
  BY <1>1
<1>3. HandoffTypeOK'
  BY <1>1 DEF HandoffTypeOK, SessionInv, TypeOK
<1>4. JobsKept /\ JobsBound'
  BY DEF JobsKept, SessionInv, JobsBound
<1>5. RowsKept
  BY <1>2 DEF RowsKept, RowKept
<1>6. RowsBound'
  BY <1>1, <1>2 DEF RowsBound, RowBound, RowKept, SessionInv
<1>7. SealedSession'
  <2> SUFFICES ASSUME NEW m \in Nonce, handoffs'[m].endReceipt # NoReceipt
               PROVE  /\ handoffs'[m].startReceipt # NoReceipt
                      /\ handoffs'[m].endReceipt.controller = handoffs'[m].startReceipt.controller
                      /\ handoffs'[m].endReceipt.startedAt = handoffs'[m].startReceipt.startedAt
                      /\ handoffs'[m].endReceipt.measured =
                           handoffs'[m].endReceipt.endedAt - handoffs'[m].endReceipt.startedAt
                      /\ handoffs'[m].endReceipt.endedAt <=
                           jobs'[handoffs'[m].orderId].accessExpiresAt
    BY DEF SealedSession
  <2>1. CASE m = n
    BY <1>1, <1>2, <2>1 DEF RowBound, RowKept
  <2>2. CASE m # n
    BY <1>2, <2>2 DEF SessionInv, SealedSession
  <2> QED BY <2>1, <2>2
<1> QED BY <1>3, <1>4, <1>5, <1>6, <1>7

LEMMA ClaimStep ==
  ASSUME SessionInv, NEW t \in Tab, Claim(t), UNCHANGED <<chainVars, sessionVars>>
  PROVE  SessionInv' /\ RowsKept
<1> DEFINE tab == tabs[t]
           n   == tabs[t].nonce
<1>1. PICK token \in Token :
        /\ ClaimHandoff(n, token)
        /\ \/ /\ SetNoFault(t, Opened(tab, Public(n), token))
              /\ storage' = [storage EXCEPT ![tab.browser][n] = token]
           \/ Set(t, NoTab) /\ Fault /\ UNCHANGED storage
           \/ SetNoFault(t, NoTab) /\ UNCHANGED storage
  BY DEF Claim
<1>2. /\ tab \in TabRecord /\ TabBound(tab) /\ Len(tab.reads) <= MaxReads
      /\ handoffs[n] \in Handoff /\ Public(n) \in Handoff /\ RowBound(handoffs[n]) /\ Exists(n)
      /\ tab.stage = "checked"
  BY TabFacts, PageAssumption DEF Claim, TabBound
<1> DEFINE row == [handoffs[n] EXCEPT !.token = token]
<1>3. handoffs' = [handoffs EXCEPT ![n] = row] /\ UNCHANGED serverTime
  BY <1>1 DEF ClaimHandoff
<1>4. row \in Handoff /\ RowKept(handoffs[n], row)
  <2>1. row \in Handoff
    BY <1>2 DEF Handoff
  <2>2. row.token \in Token /\ NoHandoff.token = NoToken
    BY <1>2 DEF Handoff, NoHandoff
  <2> QED BY <1>2, <2>1, <2>2, HandoffAssumption DEF RowKept, Handoff
<1>5. row.endReceipt # NoReceipt =>
        /\ row.startReceipt # NoReceipt
        /\ row.endReceipt.controller = row.startReceipt.controller
        /\ row.endReceipt.startedAt = row.startReceipt.startedAt
        /\ row.endReceipt.measured = row.endReceipt.endedAt - row.endReceipt.startedAt
        /\ row.endReceipt.endedAt <= row.accessExpiresAt
  <2>1. /\ row.startReceipt = handoffs[n].startReceipt /\ row.endReceipt = handoffs[n].endReceipt
        /\ row.accessExpiresAt = jobs[handoffs[n].orderId].accessExpiresAt
    BY <1>2 DEF Handoff, RowBound
  <2> QED BY <1>2, <2>1 DEF SessionInv, SealedSession, Exists
<1>6. HandoffTypeOK' /\ JobsKept /\ RowsKept /\ JobsBound' /\ RowsBound' /\ SealedSession'
  <2> HIDE DEF row
  <2> QED BY <1>2, <1>3, <1>4, <1>5, RowReplaced
<1>7. tabs' = [tabs EXCEPT ![t] = Opened(tab, Public(n), token)] \/ tabs' = [tabs EXCEPT ![t] = NoTab]
  BY <1>1 DEF SetNoFault, Set
<1>8. faults' \in 0 .. MaxFaults
  BY <1>1, FaultType DEF SetNoFault, SessionInv
<1>9. PageTypeOK' /\ TabBound(tabs[t])'
  <2>1. tabs \in [Tab -> TabRecord] /\ storage \in [Browser -> [Nonce -> Token \cup {NoToken}]]
    BY DEF SessionInv, TypeOK, PageTypeOK
  <2>2. storage' \in [Browser -> [Nonce -> Token \cup {NoToken}]]
    BY <1>1, <2>1 DEF SetNoFault, Set
  <2>3. CASE tabs' = [tabs EXCEPT ![t] = NoTab]
    <3>1. Len(NoTab.reads) <= MaxReads
      BY EmptySeq, PageAssumption DEF NoTab
    <3>2. tabs' \in [Tab -> TabRecord] /\ tabs'[t] = NoTab
      BY <2>1, <2>3, NullTypes
    <3>3. TabBound(NoTab)'
      BY DEF NoTab, TabBound
    <3>4. PageTypeOK'
      BY <2>1, <2>2, <2>3, <3>1, <3>2 DEF PageTypeOK, SessionInv, TypeOK
    <3> QED BY <3>2, <3>3, <3>4 DEF TabBound, Exists, AssertUsageReceipt
  <2>4. CASE tabs' = [tabs EXCEPT ![t] = Opened(tab, Public(n), token)]
    <3>0. Opened(tab, Public(n), token) \in TabRecord
      BY <1>2 DEF Opened, TabRecord, Stage
    <3> PICK new \in TabRecord : new = Opened(tab, Public(n), token)
      BY <3>0
    <3>1. new.reads = tab.reads
      BY <1>2 DEF Opened, TabRecord
    <3>2. Public(n).orderId = handoffs[n].orderId
      BY <1>2 DEF Public, Handoff
    <3>3. TabBound(new)
      BY <1>2, <3>2 DEF Opened, TabBound, RowBound, TabRecord
    <3>4. TabBound(new)'
      BY <1>6, <3>3, BoundKept
    <3>5. tabs' \in [Tab -> TabRecord] /\ tabs'[t] = new
      BY <2>1, <2>4
    <3>6. PageTypeOK'
      BY <1>2, <2>1, <2>2, <2>4, <3>1, <3>5 DEF PageTypeOK, SessionInv, TypeOK
    <3> QED BY <3>4, <3>5, <3>6 DEF TabBound, Exists, AssertUsageReceipt
  <2> QED BY <1>7, <2>3, <2>4
<1>10. TypeOK'
  BY <1>6, <1>8, <1>9 DEF SessionInv, TypeOK, ChainTypeOK, MachinesTypeOK, PassTypeOK,
       SessionTypeOK, chainVars, passVars, sessionVars
<1>11. \A m \in shown' : Exists(m)'
  BY <1>6 DEF SessionInv, ShownBound, Exists, RowsKept, RowKept, sessionVars
<1>12. \A u \in Tab \ {t} : tabs'[u] = tabs[u]
  BY <1>7 DEF SessionInv, TypeOK, PageTypeOK
<1>13. {t} \in SUBSET Tab /\ \A u \in {t} : TabBound(tabs[u])'
  BY <1>9
<1>14. SessionInv'
  BY <1>6, <1>10, <1>11, <1>12, <1>13, RowStep
<1> QED BY <1>6, <1>14

\* The server's row after a receipt it has checked and now stores.
LEMMA PutStep ==
  ASSUME SessionInv, NEW t \in Tab, tabs[t].asserted, UNCHANGED chainVars,
         PutDeviceReceipt(tabs[t].nonce, tabs[t].token, tabs[t].request)
  PROVE  HandoffTypeOK' /\ JobsKept /\ RowsKept /\ JobsBound' /\ RowsBound' /\ SealedSession'
<1> DEFINE h == handoffs[tabs[t].nonce]
           r == tabs[t].request
<1>1. /\ tabs[t] \in TabRecord /\ TabBound(tabs[t])
      /\ tabs[t].stage = "open" /\ r # NoReceipt
  BY TabFacts DEF TabBound
<1>2. h \in Handoff /\ RowBound(h) /\ Exists(tabs[t].nonce)
  BY <1>1, TabFacts DEF TabBound
<1>3. r \in StartReceipts \/ r \in EndReceipts
  BY <1>1 DEF TabRecord
<1>4. InOrder(h, r.kind) /\ UNCHANGED serverTime
  BY DEF PutDeviceReceipt, ReceiptTaken
<1>5. ASSUME r \in StartReceipts
      PROVE  HandoffTypeOK' /\ JobsKept /\ RowsKept /\ JobsBound' /\ RowsBound' /\ SealedSession'
  <2> DEFINE row == [h EXCEPT !.startReceipt = r]
  <2>1. r.kind = "start" /\ r # NoReceipt
    BY <1>5, ReceiptKinds
  <2>2. handoffs' = [handoffs EXCEPT ![tabs[t].nonce] = row] /\ h.startReceipt = NoReceipt
    BY <1>2, <1>4, <2>1 DEF PutDeviceReceipt, InOrder, Exists
  <2>3. row \in Handoff
    BY <1>2, <1>5 DEF Handoff
  <2>4. h.endReceipt = NoReceipt
    BY <1>2, <2>2 DEF SessionInv, SealedSession, Exists
  <2>5. row.startReceipt # NoReceipt /\ row.endReceipt = NoReceipt
    BY <1>2, <2>1, <2>4 DEF Handoff
  <2>6. row # NoHandoff
    BY <2>5 DEF NoHandoff
  <2>7. RowKept(h, row)
    BY <1>2, <2>2, <2>4, <2>6 DEF RowKept, Handoff
  <2> HIDE DEF row
  <2> QED BY <1>2, <1>4, <2>2, <2>3, <2>5, <2>7, RowReplaced
<1>6. ASSUME r \in EndReceipts
      PROVE  HandoffTypeOK' /\ JobsKept /\ RowsKept /\ JobsBound' /\ RowsBound' /\ SealedSession'
  <2> DEFINE row == [h EXCEPT !.endReceipt = r]
  <2>1. r.kind = "end" /\ r # NoReceipt
    BY <1>6, ReceiptKinds
  <2>2. /\ handoffs' = [handoffs EXCEPT ![tabs[t].nonce] = row]
        /\ h.startReceipt # NoReceipt /\ h.endReceipt = NoReceipt
    BY <1>2, <1>4, <2>1 DEF PutDeviceReceipt, InOrder, Exists
  <2>3. row \in Handoff
    BY <1>2, <1>6 DEF Handoff
  <2>4. /\ row.startReceipt = h.startReceipt /\ row.endReceipt = r
        /\ row.orderId = h.orderId /\ row.accessExpiresAt = h.accessExpiresAt
    BY <1>2 DEF Handoff
  <2>5. row # NoHandoff
    BY <2>1, <2>4 DEF NoHandoff
  <2>6. RowKept(h, row)
    BY <2>2, <2>4, <2>5 DEF RowKept
  <2>7. AssertUsageReceipt(h, r)
    BY <1>1, <2>1 DEF TabBound
  <2>8. h.accessExpiresAt \in Int /\ r.startedAt \in Int
    BY <1>2, <1>6 DEF Handoff, EndReceipts, Timestamp
  <2>9. /\ row.startReceipt # NoReceipt
        /\ row.endReceipt.controller = row.startReceipt.controller
        /\ row.endReceipt.startedAt = row.startReceipt.startedAt
        /\ row.endReceipt.measured = row.endReceipt.endedAt - row.endReceipt.startedAt
        /\ row.endReceipt.endedAt <= row.accessExpiresAt
    BY <2>1, <2>2, <2>4, <2>7, <2>8 DEF AssertUsageReceipt
  <2> HIDE DEF row
  <2> QED BY <1>2, <1>4, <2>2, <2>3, <2>6, <2>9, RowReplaced
<1> QED BY <1>3, <1>5, <1>6

LEMMA SubmitStep ==
  ASSUME SessionInv, NEW t \in Tab, Submit(t), UNCHANGED <<chainVars, sessionVars>>
  PROVE  SessionInv' /\ RowsKept
<1>0. /\ tabs[t] \in TabRecord /\ TabBound(tabs[t]) /\ Len(tabs[t].reads) <= MaxReads
      /\ tabs[t].stage = "open" /\ Exists(tabs[t].nonce)
  BY TabFacts, PageAssumption DEF Submit, TabBound
<1> PICK n \in Nonce : n = tabs[t].nonce
  BY <1>0 DEF Exists
<1> PICK tab \in TabRecord : tab = tabs[t]
  BY <1>0
<1>1. TabBound(tab) /\ Len(tab.reads) <= MaxReads /\ tab.stage = "open" /\ tab.nonce = n /\ Exists(n)
  BY <1>0
<1> DEFINE h == [handoffs'[n] EXCEPT !.token = NoToken]
<1>2. HandoffTypeOK' /\ JobsKept /\ RowsKept /\ JobsBound' /\ RowsBound' /\ SealedSession'
  BY PutStep DEF Submit
<1>3. handoffs'[n] \in Handoff /\ RowBound(handoffs[n])' /\ Exists(n)'
  BY <1>1, <1>2 DEF HandoffTypeOK, RowsBound, RowBound, Exists, RowsKept, RowKept
<1>4. h \in Handoff /\ h.orderId \in Order /\ jobs'[h.orderId] # NoJob
  BY <1>3 DEF Handoff, RowBound
<1>5. Settled(tab) \in TabRecord /\ [Settled(tab) EXCEPT !.handoff = h] \in TabRecord
  BY <1>1, <1>4 DEF Settled, TabRecord
<1>6. PICK new \in TabRecord :
        /\ tabs' = [tabs EXCEPT ![t] = new]
        /\ \/ new = [Settled(tab) EXCEPT !.handoff = h]
           \/ new = Settled(tab)
           \/ new = NoTab
  BY <1>5, NullTypes DEF Submit, SetNoFault, Set
<1>7. new.reads = tab.reads \/ new.reads = <<>>
  <2>1. Settled(tab).reads = tab.reads
    BY DEF Settled, TabRecord
  <2>2. [Settled(tab) EXCEPT !.handoff = h].reads = tab.reads
    BY DEF Settled, TabRecord
  <2>3. NoTab.reads = <<>>
    BY DEF NoTab
  <2> HIDE DEF h
  <2> QED BY <1>6, <2>1, <2>2, <2>3
<1>8. Len(new.reads) <= MaxReads
  BY <1>1, <1>7, EmptySeq, PageAssumption
<1>9. TabBound(new)'
  <2>1. CASE new = [Settled(tab) EXCEPT !.handoff = h]
    <3>1. /\ new.stage = "open" /\ new.nonce = n /\ new.handoff = h
          /\ new.request = NoReceipt /\ new.asserted = FALSE
      BY <1>1, <2>1 DEF Settled, TabRecord
    <3> QED BY <1>3, <1>4, <3>1 DEF TabBound
  <2>2. CASE new = Settled(tab)
    <3>1. TabBound(new)
      BY <1>1, <2>2 DEF Settled, TabBound, TabRecord
    <3> QED BY <1>2, <3>1, BoundKept
  <2>3. CASE new = NoTab
    BY <2>3 DEF NoTab, TabBound
  <2> QED BY <1>6, <2>1, <2>2, <2>3
<1>10. tabs \in [Tab -> TabRecord]
  BY DEF SessionInv, TypeOK, PageTypeOK
<1>11. tabs' \in [Tab -> TabRecord] /\ tabs'[t] = new /\ \A u \in Tab \ {t} : tabs'[u] = tabs[u]
  BY <1>6, <1>10
<1>12. PageTypeOK'
  BY <1>6, <1>8, <1>11 DEF Submit, PageTypeOK, SessionInv, TypeOK
<1>13. faults' \in 0 .. MaxFaults
  BY FaultType DEF Submit, SetNoFault, SessionInv
<1>14. TypeOK'
  BY <1>2, <1>12, <1>13 DEF SessionInv, TypeOK, ChainTypeOK, MachinesTypeOK, PassTypeOK,
       SessionTypeOK, chainVars, passVars, sessionVars
<1>15. \A m \in shown' : Exists(m)'
  BY <1>2 DEF SessionInv, ShownBound, Exists, RowsKept, RowKept, sessionVars
<1>16. {t} \in SUBSET Tab /\ \A u \in {t} : TabBound(tabs[u])'
  BY <1>9, <1>11 DEF TabBound, Exists, AssertUsageReceipt
<1>17. SessionInv'
  BY <1>2, <1>11, <1>14, <1>15, <1>16, RowStep
<1> QED BY <1>2, <1>17
-----------------------------------------------------------------------------
(* The customer's page, the server's clock, and the chain. *)

LEMMA GenerateStep ==
  ASSUME SessionInv, NEW o \in Order, Generate(o), UNCHANGED <<chainVars, pageVars>>
  PROVE  SessionInv' /\ RowsKept
<1> DEFINE end == jobs[o].accessExpiresAt
           row == [NoHandoff EXCEPT !.orderId = o, !.accessExpiresAt = end,
                                    !.expiresAt = HandoffEnd(end)]
<1>1. PICK n \in Nonce :
        /\ CreateHandoff(n, o)
        /\ \/ /\ customerNonce' = [customerNonce EXCEPT ![o] = n]
              /\ shown' = shown \cup {n} /\ UNCHANGED faults
           \/ UNCHANGED <<sessionVars, faults>>
           \/ UNCHANGED sessionVars /\ Fault
  BY DEF Generate
<1>2. /\ handoffs[n] = NoHandoff /\ jobs[o] # NoJob /\ UNCHANGED serverTime
      /\ handoffs' = [handoffs EXCEPT ![n] = row]
  BY <1>1 DEF CreateHandoff
<1>3. end \in Timestamp /\ serverTime \in Timestamp
  BY HandoffAssumption, BoundsAreNat
     DEF SessionInv, TypeOK, ChainTypeOK, HandoffTypeOK, Timestamp
<1>4. HandoffEnd(end) \in Timestamp
  BY <1>3, HandoffAssumption, BoundsAreNat DEF HandoffEnd, Timestamp
<1>5. /\ row \in Handoff /\ row.orderId = o /\ row.accessExpiresAt = end
      /\ row.startReceipt = NoReceipt /\ row.endReceipt = NoReceipt /\ row # NoHandoff
  <2>1. row.orderId = o /\ NoHandoff.orderId = Zero /\ o # Zero
    BY ReadsAssumption DEF NoHandoff
  <2> QED BY <1>3, <1>4, <2>1 DEF Handoff, NoHandoff, OrZero
<1> HIDE DEF end, row
<1>6. handoffs \in [Nonce -> Handoff]
      /\ \A m \in Nonce : handoffs'[m] = IF m = n THEN row ELSE handoffs[m]
  BY <1>2 DEF SessionInv, TypeOK, HandoffTypeOK
<1>7. HandoffTypeOK'
  BY <1>2, <1>5, <1>6 DEF HandoffTypeOK, SessionInv, TypeOK
<1>8. JobsKept /\ JobsBound'
  BY DEF JobsKept, SessionInv, JobsBound, chainVars
<1>9. RowsKept
  BY <1>2, <1>6 DEF RowsKept, RowKept
<1>10. RowsBound'
  BY <1>2, <1>5, <1>6 DEF RowsBound, RowBound, SessionInv, chainVars, end
<1>11. SealedSession'
  BY <1>5, <1>6 DEF SealedSession, SessionInv, chainVars
<1>12. SessionTypeOK'
  <2>1. customerNonce \in [Order -> OrZero(Nonce)] /\ shown \subseteq Nonce
    BY DEF SessionInv, TypeOK, SessionTypeOK
  <2>2. faults' \in 0 .. MaxFaults
    BY <1>1, FaultType DEF SessionInv
  <2>3. n \in OrZero(Nonce)
    BY DEF OrZero
  <2> QED BY <1>1, <2>1, <2>2, <2>3 DEF SessionTypeOK, sessionVars
<1>13. TypeOK'
  BY <1>7, <1>12 DEF SessionInv, TypeOK, ChainTypeOK, MachinesTypeOK, PassTypeOK, PageTypeOK,
                     chainVars, passVars, pageVars
<1>14. \A m \in shown' : Exists(m)'
  <2>1. shown' \subseteq shown \cup {n}
    BY <1>1 DEF sessionVars
  <2>2. \A m \in shown : m \in Nonce /\ handoffs'[m] # NoHandoff
    BY <1>9 DEF SessionInv, ShownBound, Exists, RowsKept, RowKept
  <2>3. handoffs'[n] # NoHandoff
    BY <1>5, <1>6
  <2> QED BY <2>1, <2>2, <2>3 DEF Exists
<1>15. {} \in SUBSET Tab /\ \A t \in Tab \ {} : tabs'[t] = tabs[t]
  BY DEF pageVars
<1>16. SessionInv'
  BY <1>8, <1>9, <1>10, <1>11, <1>13, <1>14, <1>15, RowStep
<1> QED BY <1>9, <1>16

LEMMA RestoreStep ==
  ASSUME SessionInv, NEW o \in Order, Restore(o), UNCHANGED <<chainVars, pageVars>>
  PROVE  SessionInv'
<1>1. customerNonce' \in [Order -> OrZero(Nonce)] /\ faults' \in 0 .. MaxFaults
  BY FaultType DEF SessionInv, TypeOK, SessionTypeOK, Restore, OrZero
<1>2. UNCHANGED <<handoffVars, shown>>
  BY DEF Restore
<1>3. TypeOK'
  BY <1>1, <1>2 DEF SessionInv, TypeOK, ChainTypeOK, MachinesTypeOK, PassTypeOK, HandoffTypeOK,
     SessionTypeOK, PageTypeOK, chainVars, passVars, pageVars, handoffVars
<1>4. JobsBound' /\ RowsBound' /\ ShownBound' /\ SealedSession'
  BY <1>2 DEF SessionInv, JobsBound, RowsBound, RowBound, ShownBound, Exists, SealedSession,
              chainVars, handoffVars
<1>5. TabsBound'
  BY <1>2 DEF SessionInv, TabsBound, TabBound, Exists, AssertUsageReceipt, chainVars, pageVars,
              handoffVars
<1> QED BY <1>3, <1>4, <1>5 DEF SessionInv

\* Steps that leave jobs, rows and tabs alone.
LEMMA ClockStep ==
  ASSUME SessionInv, TypeOK', UNCHANGED <<jobs, handoffs, sessionVars, pageVars>>
  PROVE  SessionInv'
<1>1. JobsBound' /\ RowsBound' /\ ShownBound' /\ SealedSession'
  BY DEF SessionInv, JobsBound, RowsBound, RowBound, ShownBound, Exists, SealedSession,
         sessionVars
<1>2. TabsBound'
  BY DEF SessionInv, TabsBound, TabBound, Exists, AssertUsageReceipt, pageVars
<1> QED BY <1>1, <1>2 DEF SessionInv

LEMMA ServerStep ==
  ASSUME SessionInv, ServerTick, UNCHANGED <<chainVars, sessionVars, pageVars, faults>>
  PROVE  SessionInv'
<1>1. serverTime' \in 0 .. MaxServerTime
  BY HandoffAssumption DEF ServerTick, SessionInv, TypeOK, HandoffTypeOK, Timestamp
<1>2. TypeOK'
  BY <1>1 DEF ServerTick, SessionInv, TypeOK, ChainTypeOK, MachinesTypeOK, PassTypeOK,
     HandoffTypeOK, SessionTypeOK, PageTypeOK, chainVars, passVars, pageVars, sessionVars
<1> QED BY <1>2, ClockStep DEF ServerTick, chainVars

LEMMA OwnerStep ==
  ASSUME ChainTypeOK, OwnerActs
  PROVE  ChainTypeOK' /\ UNCHANGED jobs
<1>1. machines \in [OrZero(Machine) -> MachineRecord]
  BY DEF ChainTypeOK, MachinesTypeOK
<1>2. PICK m \in Machine :
        \/ machines' = [machines EXCEPT ![m] = [machines[m] EXCEPT !.active = ~machines[m].active]]
        \/ \E controller \in Controller :
             machines' = [machines EXCEPT ![m] = [machines[m] EXCEPT !.controller = controller]]
  BY DEF OwnerActs, SetMachineActive, UpdateController
<1>3. machines[m] \in MachineRecord
  BY <1>1 DEF OrZero
<1>4. [machines[m] EXCEPT !.active = ~machines[m].active] \in MachineRecord
  BY <1>3 DEF MachineRecord
<1>5. \A controller \in Controller : [machines[m] EXCEPT !.controller = controller] \in MachineRecord
  BY <1>3 DEF MachineRecord, OrZero
<1>6. machines' \in [OrZero(Machine) -> MachineRecord]
  BY <1>1, <1>2, <1>4, <1>5
<1>7. changes' \in 0 .. MaxChanges
  BY ReadsAssumption DEF OwnerActs, ChainTypeOK
<1> QED BY <1>6, <1>7 DEF OwnerActs, ChainTypeOK, MachinesTypeOK, PassTypeOK, passVars

LEMMA CompleteJobStep ==
  ASSUME ChainTypeOK, JobsBound, NEW o \in Order, CompleteJob(o)
  PROVE  ChainTypeOK' /\ JobsBound' /\ JobsKept
<1>1. PICK m \in Machine, payer \in Payer, end \in Timestamp :
        /\ GrantAccess(ProofKeyAsc, o, m, payer, end)
        /\ jobs' = [jobs EXCEPT ![o] =
                      [machineId |-> m, payer |-> payer, accessExpiresAt |-> end]]
  BY DEF CompleteJob
<1>2. /\ jobs \in [Order ->
            [machineId : OrZero(Machine), payer : OrZero(Account), accessExpiresAt : Timestamp]]
      /\ PassTypeOK(Order) /\ jobs[o] = NoJob /\ payer \in Account
      /\ UNCHANGED <<machines, creditcoinTime, changes>>
  BY DEF ChainTypeOK, CompleteJob, Payer, Account
<1>3. PICK job \in [machineId : Machine, payer : Account, accessExpiresAt : Timestamp] :
        jobs' = [jobs EXCEPT ![o] = job]
  BY <1>1, <1>2
<1>4. jobs' \in [Order ->
        [machineId : OrZero(Machine), payer : OrZero(Account), accessExpiresAt : Timestamp]]
  BY <1>2, <1>3 DEF OrZero
<1>5. PassTypeOK(Order)'
  <2>1. PICK c \in [authorizationId : OrZero(Order), expiresAt : Timestamp] :
          /\ accessCredentials' = [accessCredentials EXCEPT ![m][payer] = c]
          /\ UNCHANGED <<administrator, attestcoinAuthorizer>>
    BY <1>1 DEF GrantAccess, OrZero
  <2> QED BY <1>2, <2>1 DEF PassTypeOK
<1>6. ChainTypeOK'
  BY <1>2, <1>4, <1>5 DEF ChainTypeOK, MachinesTypeOK
<1>7. \A p \in Order : jobs'[p] = IF p = o THEN job ELSE jobs[p]
  BY <1>2, <1>3
<1>8. JobsKept
  BY <1>2, <1>7 DEF JobsKept
<1>9. JobsBound'
  BY <1>7 DEF JobsBound
<1> QED BY <1>6, <1>8, <1>9

LEMMA ChainStep ==
  ASSUME SessionInv, ChainNext, UNCHANGED <<handoffVars, sessionVars, pageVars, faults>>
  PROVE  SessionInv'
<1>1. CASE ChainTick
  <2>1. creditcoinTime' \in Timestamp
    BY <1>1, BoundsAreNat DEF ChainTick, SessionInv, TypeOK, ChainTypeOK, PassTypeOK, Timestamp
  <2>2. TypeOK'
    BY <1>1, <2>1 DEF ChainTick, SessionInv, TypeOK, ChainTypeOK, MachinesTypeOK, PassTypeOK,
       HandoffTypeOK, SessionTypeOK, PageTypeOK, passVars, handoffVars, pageVars, sessionVars
  <2> QED BY <1>1, <2>2, ClockStep DEF ChainTick, handoffVars
<1>2. CASE OwnerActs
  <2>1. ChainTypeOK' /\ UNCHANGED jobs
    BY <1>2, OwnerStep DEF SessionInv, TypeOK
  <2>2. TypeOK'
    BY <2>1 DEF SessionInv, TypeOK, HandoffTypeOK, SessionTypeOK, PageTypeOK, handoffVars,
                pageVars, sessionVars
  <2> QED BY <2>1, <2>2, ClockStep DEF handoffVars
<1>3. ASSUME NEW o \in Order, CompleteJob(o)
      PROVE  SessionInv'
  <2>1. ChainTypeOK' /\ JobsBound' /\ JobsKept
    BY <1>3, CompleteJobStep DEF SessionInv, TypeOK
  <2>2. TypeOK'
    BY <2>1 DEF SessionInv, TypeOK, HandoffTypeOK, SessionTypeOK, PageTypeOK, handoffVars,
                pageVars, sessionVars
  <2>3. RowsKept
    BY DEF RowsKept, RowKept, handoffVars
  <2>4. RowsBound'
    BY <2>1 DEF RowsBound, RowBound, JobsKept, SessionInv, handoffVars
  <2>5. SealedSession'
    <3>1. \A n \in Nonce : handoffs[n].endReceipt # NoReceipt => handoffs[n] # NoHandoff
      BY DEF NoHandoff
    <3>2. \A n \in Nonce : handoffs[n].endReceipt # NoReceipt =>
            jobs'[handoffs[n].orderId] = jobs[handoffs[n].orderId]
      BY <2>1, <3>1 DEF RowsBound, RowBound, JobsKept, SessionInv
    <3> QED BY <3>2 DEF SealedSession, SessionInv, handoffVars
  <2>6. \A m \in shown' : Exists(m)'
    BY DEF SessionInv, ShownBound, Exists, handoffVars, sessionVars
  <2>7. {} \in SUBSET Tab /\ \A t \in Tab \ {} : tabs'[t] = tabs[t]
    BY DEF pageVars
  <2> QED BY <2>1, <2>2, <2>3, <2>4, <2>5, <2>6, <2>7, RowStep
<1> QED BY <1>1, <1>2, <1>3 DEF ChainNext

-----------------------------------------------------------------------------
(* The invariant. *)

LEMMA SessionInit0 == Init => SessionInv
<1> SUFFICES ASSUME Init
             PROVE  SessionInv
  OBVIOUS
<1> USE DEF Init, ChainInit, HandoffInit, SessionInit, PageInit
<1>1. 0 \in Timestamp /\ MaxPrice \in Price
  BY BoundsAreNat DEF Timestamp, Price
<1>2. MachinesTypeOK
  <2>1. PICK owner \in Operator, controller \in Controller, hash \in MetadataHash :
          machines = [m \in OrZero(Machine) |->
                        IF m = Zero THEN NoMachine ELSE Deployed(owner, controller, hash)]
    OBVIOUS
  <2>2. NoMachine \in MachineRecord
    BY BoundsAreNat DEF NoMachine, MachineRecord, OrZero, Price
  <2>3. Deployed(owner, controller, hash) \in MachineRecord
    BY <1>1 DEF Deployed, MachineRecord, OrZero
  <2> QED BY <2>1, <2>2, <2>3 DEF MachinesTypeOK
<1>3. PassTypeOK(Order)
  BY <1>1 DEF PassTypeOK, NoCredential, OrZero
<1>4. ChainTypeOK
  BY <1>1, <1>2, <1>3, ReadsAssumption DEF ChainTypeOK, NoJob, OrZero
<1>5. HandoffTypeOK
  BY NullTypes, HandoffAssumption DEF HandoffTypeOK, Timestamp
<1>6. SessionTypeOK
  BY FaultsAssumption DEF SessionTypeOK, OrZero
<1>7. PageTypeOK
  <2>1. Len(NoTab.reads) <= MaxReads
    BY EmptySeq, PageAssumption DEF NoTab
  <2> QED BY <2>1, NullTypes DEF PageTypeOK
<1>8. JobsBound /\ RowsBound /\ ShownBound
  BY DEF JobsBound, RowsBound, ShownBound
<1>9. TabsBound
  BY NullTypes DEF TabsBound
<1>10. SealedSession
  BY DEF SealedSession, NoHandoff
<1> QED BY <1>4, <1>5, <1>6, <1>7, <1>8, <1>9, <1>10 DEF SessionInv, TypeOK

LEMMA SessionStep ==
  ASSUME SessionInv, [Next]_vars
  PROVE  SessionInv' /\ RowsKept
<1>0. UNCHANGED handoffs => RowsKept
  BY DEF RowsKept, RowKept
<1>1. CASE UNCHANGED vars
  <2>1. TypeOK'
    BY <1>1 DEF SessionInv, TypeOK, ChainTypeOK, MachinesTypeOK, PassTypeOK, HandoffTypeOK,
       SessionTypeOK, PageTypeOK, vars, chainVars, passVars, handoffVars, pageVars, sessionVars
  <2> QED BY <1>0, <1>1, <2>1, ClockStep DEF vars, chainVars, handoffVars
<1>2. CASE ChainNext /\ UNCHANGED <<handoffVars, sessionVars, pageVars, faults>>
  BY <1>0, <1>2, ChainStep DEF handoffVars
<1>3. CASE ServerTick /\ UNCHANGED <<chainVars, sessionVars, pageVars, faults>>
  BY <1>0, <1>3, ServerStep DEF ServerTick
<1>4. CASE SessionNext /\ UNCHANGED <<chainVars, pageVars>>
  <2>1. PICK o \in Order : Generate(o) \/ Restore(o)
    BY <1>4 DEF SessionNext
  <2>2. CASE Generate(o)
    BY <1>4, <2>2, GenerateStep
  <2>3. CASE Restore(o)
    BY <1>0, <1>4, <2>3, RestoreStep DEF Restore, handoffVars
  <2> QED BY <2>1, <2>2, <2>3
<1>5. CASE PageNext /\ UNCHANGED <<chainVars, sessionVars>>
  <2>1. PICK t \in Tab :
          \/ Open(t) \/ Close(t) \/ ClaimFails(t) \/ Receives(t)
          \/ Inspect(t) \/ Reads(t) \/ Clock(t)
          \/ \E i \in 1 .. Len(tabs[t].reads) : ReadFails(t, i)
          \/ Sign(t, "start") \/ Signs(t) \/ ReceiptLost(t)
    BY <1>5 DEF PageNext
  <2>2. CASE Open(t) \/ Close(t) \/ Load(t) \/ CheckClaim(t) \/ ClaimRejected(t) \/ ClaimFails(t)
    <3>1. UNCHANGED handoffs
      BY <2>2 DEF Open, Close, Load, CheckClaim, ClaimRejected, ClaimFails, handoffVars
    <3> QED BY <1>0, <1>5, <2>2, <3>1, ClaimingSteps
  <2>3. CASE Inspect(t) \/ Clock(t) \/ Reads(t) \/ \E i \in 1 .. Len(tabs[t].reads) : ReadFails(t, i)
    <3>1. UNCHANGED handoffs
      BY <2>3 DEF Inspect, Clock, Reads, ReadCompletes, ReadFails, Answer, handoffVars
    <3>2. \/ Inspect(t) \/ Clock(t)
          \/ \E i \in 1 .. Len(tabs[t].reads) :
               ReadCompletes(t, i) \/ ReadFails(t, i) \/ \E calls \in Batches : Answer(t, i, calls)
      BY <2>3 DEF Reads
    <3> QED BY <1>0, <1>5, <3>1, <3>2, ReadingSteps
  <2>4. CASE \/ Sign(t, "start") \/ Sign(t, "end")
             \/ CheckReceipt(t) \/ ReceiptRejected(t) \/ ReceiptLost(t)
    <3>1. UNCHANGED handoffs
      BY <2>4 DEF Sign, CheckReceipt, ReceiptRejected, ReceiptLost, handoffVars
    <3> QED BY <1>0, <1>5, <2>4, <3>1, SigningSteps
  <2>5. CASE Claim(t)
    BY <1>5, <2>5, ClaimStep
  <2>6. CASE Submit(t)
    BY <1>5, <2>6, SubmitStep
  <2> QED BY <2>1, <2>2, <2>3, <2>4, <2>5, <2>6 DEF Receives, Signs
<1> QED BY <1>1, <1>2, <1>3, <1>4, <1>5 DEF Next

LEMMA SessionAlways == Spec => []SessionInv
<1>1. SessionInv /\ [Next]_vars => SessionInv'
  BY SessionStep
<1> QED BY <1>1, SessionInit0, PTL DEF Spec

\* Every variable of the page, the server and the chain keeps its type,
\* whatever terminals, customers and owners do.
THEOREM SessionTypes == Spec => []TypeOK
BY SessionAlways, PTL DEF SessionInv

\* Whatever any number of terminals send, in whatever order requests interleave
\* and whichever answers are lost, an end receipt the server holds continues
\* the start receipt it holds and ends within the access paid for.
THEOREM OneSessionSealed == Spec => []SealedSession
BY SessionAlways, PTL DEF SessionInv

\* No step of any terminal, customer or clock replaces or removes a receipt the
\* server has accepted.
THEOREM EvidenceIsFinal == Spec => ReceiptsFinal
<1> DEFINE Final ==
      \A n \in Nonce :
        /\ handoffs[n].startReceipt # NoReceipt => handoffs'[n].startReceipt = handoffs[n].startReceipt
        /\ handoffs[n].endReceipt # NoReceipt => handoffs'[n].endReceipt = handoffs[n].endReceipt
<1>1. SessionInv /\ [Next]_vars => [Final]_vars
  <2> SUFFICES ASSUME SessionInv, [Next]_vars, NEW n \in Nonce
               PROVE  /\ handoffs[n].startReceipt # NoReceipt =>
                           handoffs'[n].startReceipt = handoffs[n].startReceipt
                      /\ handoffs[n].endReceipt # NoReceipt =>
                           handoffs'[n].endReceipt = handoffs[n].endReceipt
    OBVIOUS
  <2>1. RowsKept
    BY SessionStep
  <2>2. CASE handoffs[n] = NoHandoff
    BY <2>2 DEF NoHandoff
  <2>3. CASE handoffs[n] # NoHandoff
    BY <2>1, <2>3 DEF RowsKept, RowKept
  <2> QED BY <2>2, <2>3
<1>2. ReceiptsFinal <=> [][Final]_vars
  BY DEF ReceiptsFinal
<1> QED BY <1>1, <1>2, SessionAlways, PTL DEF Spec
-----------------------------------------------------------------------------
(* Who holds a nonce: the one browser that stored its token. *)

StoredIsClaimed ==
  \A b \in Browser, n \in Nonce : storage[b][n] # NoToken => handoffs[n].token = storage[b][n]

OneHolder ==
  \A b, c \in Browser, n \in Nonce : storage[b][n] # NoToken /\ storage[c][n] # NoToken => b = c

TabHolds(tab) ==
  tab.stage # "closed" =>
    /\ tab.browser \in Browser /\ tab.nonce \in Nonce
    /\ tab.token # NoToken => storage[tab.browser][tab.nonce] = tab.token
    /\ tab.stage = "open" => tab.token # NoToken

TabsHold == \A t \in Tab : TabHolds(tabs[t])

HolderInv == StoredIsClaimed /\ OneHolder /\ TabsHold

ClaimsKept == \A n \in Nonce : handoffs[n].token # NoToken => handoffs'[n].token = handoffs[n].token

\* A step that writes no token to a browser.
LEMMA NothingStored ==
  ASSUME HolderInv, ClaimsKept, UNCHANGED storage, \A t \in Tab : TabHolds(tabs[t])'
  PROVE  HolderInv'
<1>1. StoredIsClaimed' /\ OneHolder'
  BY DEF HolderInv, StoredIsClaimed, OneHolder, ClaimsKept
<1> QED BY <1>1 DEF HolderInv, TabsHold

\* A step of a tab other than Claim, and what it does to the tab.
LEMMA OtherSteps ==
  ASSUME SessionInv, HolderInv, NEW t \in Tab, NEW tab \in TabRecord, TabHolds(tab),
         tabs' = [tabs EXCEPT ![t] = tab], UNCHANGED storage, ClaimsKept
  PROVE  HolderInv'
<1>1. ASSUME NEW u \in Tab
      PROVE  TabHolds(tabs[u])'
  <2>1. TabHolds(tabs[u]) /\ tabs'[u] = IF u = t THEN tab ELSE tabs[u]
    BY DEF HolderInv, TabsHold, SessionInv, TypeOK, PageTypeOK
  <2> QED BY <2>1 DEF TabHolds
<1> QED BY <1>1, NothingStored

LEMMA ClosedHolds == NoTab \in TabRecord /\ TabHolds(NoTab)
BY NullTypes DEF TabHolds, NoTab

LEMMA OpenHolds ==
  ASSUME SessionInv, HolderInv, NEW t \in Tab, Open(t)
  PROVE  HolderInv'
<1>1. PICK browser \in Browser, n \in shown :
        tabs' = [tabs EXCEPT ![t] = [NoTab EXCEPT !.stage = "loading", !.browser = browser,
                                       !.nonce = n, !.token = storage[browser][n]]]
  BY DEF Open, SetNoFault, Set
<1> DEFINE new == [NoTab EXCEPT !.stage = "loading", !.browser = browser, !.nonce = n,
                                !.token = storage[browser][n]]
<1>2. n \in Nonce /\ storage[browser][n] \in Token \cup {NoToken}
  BY DEF SessionInv, ShownBound, Exists, TypeOK, PageTypeOK
<1>3. new \in TabRecord
  BY <1>2, NullTypes DEF NoTab, TabRecord, Stage, OrZero
<1>4. TabHolds(new)
  BY <1>2 DEF NoTab, TabHolds
<1>5. UNCHANGED storage /\ ClaimsKept
  BY DEF Open, handoffVars, ClaimsKept
<1> HIDE DEF new
<1> QED BY <1>1, <1>3, <1>4, <1>5, OtherSteps DEF new

LEMMA ClaimHolds ==
  ASSUME SessionInv, HolderInv, NEW t \in Tab, Claim(t), SessionInv'
  PROVE  HolderInv'
<1>1. /\ tabs[t] \in TabRecord /\ tabs[t].stage = "checked" /\ TabHolds(tabs[t])
      /\ tabs[t].nonce \in Nonce /\ Public(tabs[t].nonce) \in Handoff
      /\ handoffs \in [Nonce -> Handoff]
  BY TabFacts DEF Claim, HolderInv, TabsHold, SessionInv, TypeOK, HandoffTypeOK
<1>2. tabs[t].browser \in Browser
  BY <1>1 DEF TabHolds
<1> PICK n \in Nonce, b \in Browser : n = tabs[t].nonce /\ b = tabs[t].browser
  BY <1>1, <1>2
<1>3. PICK token \in Token :
        /\ ClaimHandoff(n, token)
        /\ \/ /\ SetNoFault(t, Opened(tabs[t], Public(n), token))
              /\ storage' = [storage EXCEPT ![b][n] = token]
           \/ Set(t, NoTab) /\ Fault /\ UNCHANGED storage
           \/ SetNoFault(t, NoTab) /\ UNCHANGED storage
  BY DEF Claim
<1>4. /\ handoffs[n].token = NoToken
      /\ \A m \in Nonce : handoffs'[m].token = IF m = n THEN token ELSE handoffs[m].token
  BY <1>1, <1>3 DEF ClaimHandoff, Claimable, Handoff
<1>5. ClaimsKept
  BY <1>4 DEF ClaimsKept
<1>6. CASE tabs' = [tabs EXCEPT ![t] = NoTab] /\ UNCHANGED storage
  BY <1>5, <1>6, ClosedHolds, OtherSteps
<1>7. CASE /\ tabs' = [tabs EXCEPT ![t] = Opened(tabs[t], Public(n), token)]
           /\ storage' = [storage EXCEPT ![b][n] = token]
  <2>1. \A c \in Browser : storage[c][n] = NoToken
    BY <1>4 DEF HolderInv, StoredIsClaimed
  <2>2. \A c \in Browser, m \in Nonce :
          storage'[c][m] = IF c = b /\ m = n THEN token ELSE storage[c][m]
    BY <1>7 DEF SessionInv, TypeOK, PageTypeOK
  <2>3. StoredIsClaimed' /\ OneHolder'
    BY <1>4, <2>1, <2>2 DEF HolderInv, StoredIsClaimed, OneHolder
  <2>4. token # NoToken
    BY HandoffAssumption
  <2>5. ASSUME NEW u \in Tab
        PROVE  TabHolds(tabs[u])'
    <3>1. CASE u = t
      <4>1. tabs'[t] = Opened(tabs[t], Public(n), token)
        BY <1>7 DEF SessionInv, TypeOK, PageTypeOK
      <4>2. /\ tabs'[t].browser = b /\ tabs'[t].nonce = n
            /\ tabs'[t].token = token /\ tabs'[t].stage = "open"
        BY <1>1, <4>1 DEF Opened, TabRecord
      <4>3. storage'[b][n] = token
        BY <2>2
      <4> QED BY <2>4, <3>1, <4>2, <4>3 DEF TabHolds
    <3>2. CASE u # t
      <4>1. tabs'[u] = tabs[u] /\ TabHolds(tabs[u])
        BY <1>7, <3>2 DEF SessionInv, TypeOK, PageTypeOK, HolderInv, TabsHold
      <4>2. tabs[u].stage # "closed" /\ tabs[u].token # NoToken
              => storage'[tabs[u].browser][tabs[u].nonce] = storage[tabs[u].browser][tabs[u].nonce]
        BY <2>1, <2>2, <4>1 DEF TabHolds
      <4> QED BY <4>1, <4>2 DEF TabHolds
    <3> QED BY <3>1, <3>2
  <2> QED BY <2>3, <2>5 DEF HolderInv, TabsHold
<1> QED BY <1>3, <1>6, <1>7 DEF SetNoFault, Set

\* The step changes no other tab, and this one keeps its browser, nonce and token.
KeepsTab(t) ==
  /\ \A u \in Tab \ {t} : tabs'[u] = tabs[u]
  /\ tabs'[t].browser = tabs[t].browser
  /\ tabs'[t].nonce = tabs[t].nonce
  /\ tabs'[t].token = tabs[t].token

\* And opens only with a token.
LEMMA KeepsHolding ==
  ASSUME HolderInv, NEW t \in Tab, KeepsTab(t), tabs[t].stage # "closed",
         tabs'[t].stage = "open" => tabs[t].token # NoToken, UNCHANGED storage, ClaimsKept
  PROVE  HolderInv'
<1>1. ASSUME NEW u \in Tab
      PROVE  TabHolds(tabs[u])'
  <2>1. TabHolds(tabs[u])
    BY DEF HolderInv, TabsHold
  <2>2. CASE u = t
    BY <2>1, <2>2 DEF KeepsTab, TabHolds
  <2>3. CASE u # t
    BY <2>1, <2>3 DEF KeepsTab, TabHolds
  <2> QED BY <2>2, <2>3
<1> QED BY <1>1, NothingStored

LEMMA PageHolds ==
  ASSUME SessionInv, HolderInv, SessionInv', PageNext, UNCHANGED <<chainVars, sessionVars>>
  PROVE  HolderInv'
<1>1. PICK t \in Tab :
        \/ Open(t) \/ Close(t) \/ ClaimFails(t) \/ Receives(t)
        \/ Inspect(t) \/ Reads(t) \/ Clock(t)
        \/ \E i \in 1 .. Len(tabs[t].reads) : ReadFails(t, i)
        \/ Sign(t, "start") \/ Signs(t) \/ ReceiptLost(t)
  BY DEF PageNext
<1>2. tabs[t] \in TabRecord /\ TabBound(tabs[t]) /\ TabHolds(tabs[t]) /\ tabs[t].reads \in Seq(Read)
      /\ tabs \in [Tab -> TabRecord]
  BY TabFacts DEF HolderInv, TabsHold, SessionInv, TypeOK, PageTypeOK
<1>3. UNCHANGED handoffs => ClaimsKept
  BY DEF ClaimsKept
<1>4. ASSUME ClaimsKept, UNCHANGED storage, tabs' = [tabs EXCEPT ![t] = NoTab]
      PROVE  HolderInv'
  BY <1>4, ClosedHolds, OtherSteps
<1>5. ASSUME tabs[t].stage = "open", ClaimsKept, UNCHANGED storage, KeepsTab(t)
      PROVE  HolderInv'
  BY <1>2, <1>5, KeepsHolding DEF TabHolds
<1>6. CASE Load(t) \/ CheckClaim(t) \/ ClaimRejected(t) \/ ClaimFails(t) \/ Close(t)
  <2>1. ClaimsKept /\ UNCHANGED storage
    BY <1>3, <1>6 DEF Load, CheckClaim, ClaimRejected, ClaimFails, Close, handoffVars
  <2>2. CASE tabs' = [tabs EXCEPT ![t] = NoTab]
    BY <1>4, <2>1, <2>2
  <2>3. ASSUME NEW stage \in {"claiming", "checked"}, tabs[t].stage # "closed",
               tabs' = [tabs EXCEPT ![t] = [tabs[t] EXCEPT !.stage = stage]]
        PROVE  HolderInv'
    <3>1. KeepsTab(t) /\ tabs'[t].stage # "open"
      BY <1>2, <2>3 DEF TabRecord, KeepsTab
    <3> QED BY <2>1, <2>3, <3>1, KeepsHolding
  <2>4. CASE tabs[t].stage = "loading" /\ tabs[t].token # NoToken
             /\ tabs' = [tabs EXCEPT ![t] = Opened(tabs[t], Public(tabs[t].nonce), tabs[t].token)]
    <3>1. KeepsTab(t)
      BY <1>2, <2>4 DEF TabRecord, Opened, KeepsTab
    <3> QED BY <2>1, <2>4, <3>1, KeepsHolding
  <2> QED BY <1>6, <2>2, <2>3, <2>4
          DEF Load, CheckClaim, ClaimRejected, ClaimFails, Close, SetNoFault, Set
<1>7. CASE \/ Inspect(t) \/ Clock(t) \/ Reads(t)
           \/ \E i \in 1 .. Len(tabs[t].reads) : ReadFails(t, i)
  <2>1. ClaimsKept /\ UNCHANGED storage
    BY <1>3, <1>7 DEF Inspect, Clock, Reads, ReadCompletes, ReadFails, Answer, handoffVars
  <2>2. tabs[t].stage = "open"
    <3>1. tabs[t].stage # "open" => Len(tabs[t].reads) = 0
      BY <1>2, EmptySeq DEF TabBound
    <3>2. 1 .. 0 = {}
      OBVIOUS
    <3> QED BY <1>7, <3>1, <3>2 DEF Inspect, Clock, Reads
  <2>3. KeepsTab(t)
    <3>1. CASE Inspect(t)
      BY <1>2, <3>1 DEF TabRecord, KeepsTab, Inspect, SetNoFault, Set
    <3>2. CASE Clock(t)
      BY <1>2, <3>2 DEF TabRecord, KeepsTab, Clock, SetNoFault, Set
    <3>3. ASSUME NEW i \in 1 .. Len(tabs[t].reads), ReadCompletes(t, i)
          PROVE  KeepsTab(t)
      BY <1>2, <3>3 DEF TabRecord, KeepsTab, ReadCompletes, SetNoFault, Set
    <3>4. ASSUME NEW i \in 1 .. Len(tabs[t].reads), ReadFails(t, i)
          PROVE  KeepsTab(t)
      BY <1>2, <3>4 DEF TabRecord, KeepsTab, ReadFails, Set
    <3>5. ASSUME NEW i \in 1 .. Len(tabs[t].reads), NEW calls \in Batches, Answer(t, i, calls)
          PROVE  KeepsTab(t)
      BY <1>2, <3>5 DEF TabRecord, KeepsTab, Answer, SetNoFault, Set
    <3> QED BY <1>7, <3>1, <3>2, <3>3, <3>4, <3>5 DEF Reads
  <2> QED BY <1>5, <2>1, <2>2, <2>3
<1>8. CASE \/ Sign(t, "start") \/ Sign(t, "end") \/ CheckReceipt(t)
           \/ ReceiptRejected(t) \/ ReceiptLost(t) \/ Submit(t)
  <2>1. ClaimsKept
    <3>1. CASE Submit(t)
      <4>1. \A n \in Nonce : handoffs[n] \in Handoff
        BY DEF SessionInv, TypeOK, HandoffTypeOK
      <4> QED BY <3>1, <4>1 DEF Submit, PutDeviceReceipt, ClaimsKept, Handoff,
                               SessionInv, TypeOK, HandoffTypeOK
    <3> QED BY <1>3, <1>8, <3>1
            DEF Sign, CheckReceipt, ReceiptRejected, ReceiptLost, handoffVars
  <2>2. UNCHANGED storage
    BY <1>8 DEF Sign, CheckReceipt, ReceiptRejected, ReceiptLost, Submit
  <2>3. tabs[t].stage = "open"
    BY <1>2, <1>8 DEF Sign, CanSign, CheckReceipt, ReceiptRejected, ReceiptLost, Submit, TabBound
  <2>4. CASE tabs' = [tabs EXCEPT ![t] = NoTab]
    BY <1>4, <2>1, <2>2, <2>4
  <2>5. KeepsTab(t) \/ tabs' = [tabs EXCEPT ![t] = NoTab]
    <3>1. ASSUME tabs' = [tabs EXCEPT ![t] = Settled(tabs[t])]
          PROVE  KeepsTab(t)
      BY <1>2, <3>1 DEF TabRecord, KeepsTab, Settled
    <3>2. CASE Sign(t, "start") \/ Sign(t, "end")
      BY <1>2, <3>2 DEF TabRecord, KeepsTab, Sign, SetNoFault, Set
    <3>3. ASSUME tabs' = [tabs EXCEPT ![t] = [tabs[t] EXCEPT !.asserted = TRUE]]
          PROVE  KeepsTab(t)
      BY <1>2, <3>3 DEF TabRecord, KeepsTab
    <3>4. CASE CheckReceipt(t) \/ ReceiptRejected(t) \/ ReceiptLost(t)
      BY <3>1, <3>3, <3>4 DEF CheckReceipt, ReceiptRejected, ReceiptLost, SetNoFault, Set
    <3>5. CASE Submit(t)
      <4>1. ASSUME tabs' = [tabs EXCEPT ![t] = [Settled(tabs[t]) EXCEPT !.handoff =
                              [handoffs'[tabs[t].nonce] EXCEPT !.token = NoToken]]]
            PROVE  KeepsTab(t)
        BY <1>2, <4>1 DEF TabRecord, KeepsTab, Settled
      <4> QED BY <3>1, <3>5, <4>1 DEF Submit, SetNoFault, Set
    <3> QED BY <1>8, <3>2, <3>4, <3>5
  <2> QED BY <1>5, <2>1, <2>2, <2>3, <2>4, <2>5
<1>9. CASE Open(t)
  BY <1>9, OpenHolds
<1>10. CASE Claim(t)
  BY <1>10, ClaimHolds
<1> QED BY <1>1, <1>6, <1>7, <1>8, <1>9, <1>10 DEF Receives, Signs

LEMMA HolderStep ==
  ASSUME SessionInv, HolderInv, SessionInv', [Next]_vars
  PROVE  HolderInv'
<1>1. ASSUME UNCHANGED pageVars, ClaimsKept
      PROVE  HolderInv'
  <2>1. \A t \in Tab : TabHolds(tabs[t])'
    BY <1>1 DEF HolderInv, TabsHold, TabHolds, pageVars
  <2> QED BY <1>1, <2>1, NothingStored DEF pageVars
<1>2. UNCHANGED handoffs => ClaimsKept
  BY DEF ClaimsKept
<1>3. CASE PageNext /\ UNCHANGED <<chainVars, sessionVars>>
  BY <1>3, PageHolds
<1>4. CASE UNCHANGED vars
  BY <1>1, <1>2, <1>4 DEF vars, handoffVars
<1>5. CASE \/ ChainNext /\ UNCHANGED <<handoffVars, sessionVars, pageVars, faults>>
           \/ ServerTick /\ UNCHANGED <<chainVars, sessionVars, pageVars, faults>>
  BY <1>1, <1>2, <1>5 DEF ServerTick, handoffVars
<1>6. CASE SessionNext /\ UNCHANGED <<chainVars, pageVars>>
  <2>1. PICK o \in Order : Generate(o) \/ Restore(o)
    BY <1>6 DEF SessionNext
  <2>2. CASE Restore(o)
    BY <1>1, <1>2, <1>6, <2>2 DEF Restore, handoffVars
  <2>3. CASE Generate(o)
    <3>1. PICK n \in Nonce : /\ handoffs[n] = NoHandoff
                             /\ \A m \in Nonce \ {n} : handoffs'[m] = handoffs[m]
      BY <2>3 DEF Generate, CreateHandoff, SessionInv, TypeOK, HandoffTypeOK
    <3>2. ClaimsKept
      BY <3>1 DEF ClaimsKept, NoHandoff
    <3> QED BY <1>1, <1>6, <3>2
  <2> QED BY <2>1, <2>2, <2>3
<1> QED BY <1>3, <1>4, <1>5, <1>6 DEF Next

LEMMA HolderInit == Init => HolderInv
BY NullTypes DEF Init, HandoffInit, PageInit, HolderInv, StoredIsClaimed, OneHolder, TabsHold,
   TabHolds, NoTab

\* Two terminals open for one QR code are tabs of one browser, however many
\* scan it, whatever answers are lost and whichever tabs close or reload.
THEOREM QrCodesOpenOneDevice == Spec => []OneDevicePerNonce
<1>1. SessionInv /\ SessionInv' /\ HolderInv /\ [Next]_vars => HolderInv'
  BY HolderStep
<1>2. HolderInv => OneDevicePerNonce
  <2> SUFFICES ASSUME HolderInv, NEW t \in Tab, NEW u \in Tab, tabs[t].stage = "open",
                      tabs[u].stage = "open", tabs[t].nonce = tabs[u].nonce
               PROVE  tabs[t].browser = tabs[u].browser
    BY DEF OneDevicePerNonce
  <2>1. TabHolds(tabs[t]) /\ TabHolds(tabs[u])
    BY DEF HolderInv, TabsHold
  <2> QED BY <2>1 DEF TabHolds, HolderInv, OneHolder
<1> QED BY <1>1, <1>2, HolderInit, SessionAlways, PTL DEF Spec

-----------------------------------------------------------------------------
(* What a terminal keeps of its handoff: it may be behind the server, but  *)
(* never against it.                                                       *)

TabCopies(tab) ==
  tab.stage = "open" =>
    /\ tab.handoff.orderId = handoffs[tab.nonce].orderId
    /\ tab.handoff.startReceipt # NoReceipt =>
         tab.handoff.startReceipt = handoffs[tab.nonce].startReceipt

TabsCopy == \A t \in Tab : TabCopies(tabs[t])

\* A tab that keeps its nonce and its handoff.
LEMMA CopyKept ==
  ASSUME SessionInv, TabsCopy, RowsKept, NEW t \in Tab, tabs[t].stage = "open",
         tabs'[t].nonce = tabs[t].nonce, tabs'[t].handoff = tabs[t].handoff
  PROVE  TabCopies(tabs[t])'
<1>1. TabCopies(tabs[t]) /\ TabBound(tabs[t])
  BY TabFacts DEF TabsCopy
<1>2. tabs[t].nonce \in Nonce /\ handoffs[tabs[t].nonce] # NoHandoff
  BY <1>1 DEF TabBound, Exists
<1>3. RowKept(handoffs[tabs[t].nonce], handoffs'[tabs[t].nonce])
  BY <1>2 DEF RowsKept
<1> QED BY <1>1, <1>3 DEF TabCopies, RowKept

\* A tab that takes the row as it was or is.
LEMMA CopyTaken ==
  ASSUME SessionInv, RowsKept, NEW t \in Tab, tabs[t].stage # "closed",
         tabs'[t].nonce = tabs[t].nonce,
         tabs'[t].handoff = Public(tabs[t].nonce) \/ tabs'[t].handoff = Public(tabs[t].nonce)'
  PROVE  TabCopies(tabs[t])'
<1> DEFINE n == tabs[t].nonce
<1>1. n \in Nonce /\ handoffs[n] # NoHandoff /\ handoffs[n] \in Handoff
  BY TabFacts DEF TabBound, Exists
<1>2. RowKept(handoffs[n], handoffs'[n])
  BY <1>1 DEF RowsKept
<1>3. CASE tabs'[t].handoff = Public(n)
  <2>1. /\ Public(n).orderId = handoffs[n].orderId
        /\ Public(n).startReceipt = handoffs[n].startReceipt
    BY <1>1 DEF Public, Handoff
  <2> QED BY <1>2, <1>3, <2>1 DEF TabCopies, RowKept
<1>4. CASE tabs'[t].handoff = [handoffs'[n] EXCEPT !.token = NoToken]
  <2>1. /\ tabs'[t].handoff.orderId = handoffs'[n].orderId
        /\ tabs'[t].handoff.startReceipt = handoffs'[n].startReceipt
    BY <1>4
  <2> QED BY <2>1 DEF TabCopies
<1> QED BY <1>3, <1>4 DEF Public

LEMMA PageCopies ==
  ASSUME SessionInv, TabsCopy, RowsKept, PageNext
  PROVE  TabsCopy'
<1>1. PICK t \in Tab :
        \/ Open(t) \/ Close(t) \/ ClaimFails(t) \/ Receives(t)
        \/ Inspect(t) \/ Reads(t) \/ Clock(t)
        \/ \E i \in 1 .. Len(tabs[t].reads) : ReadFails(t, i)
        \/ Sign(t, "start") \/ Signs(t) \/ ReceiptLost(t)
  BY DEF PageNext
<1>2. /\ tabs \in [Tab -> TabRecord] /\ tabs[t] \in TabRecord /\ TabBound(tabs[t])
      /\ tabs[t].reads \in Seq(Read)
  BY TabFacts DEF SessionInv, TypeOK, PageTypeOK
<1>3. \A u \in Tab \ {t} : tabs'[u] = tabs[u]
  BY <1>1, <1>2 DEF Open, Close, ClaimFails, Receives, CheckClaim, ClaimRejected, Claim, Load,
     Inspect, Reads, ReadCompletes, Answer, Clock, ReadFails, Sign, Signs, CheckReceipt,
     ReceiptRejected, Submit, ReceiptLost, SetNoFault, Set
<1>4. SUFFICES TabCopies(tabs[t])'
  <2>1. ASSUME NEW u \in Tab \ {t}
        PROVE  TabCopies(tabs[u])'
    <3>1. CASE tabs[u].stage = "open"
      BY <1>3, <2>1, <3>1, CopyKept
    <3>2. CASE tabs[u].stage # "open"
      BY <1>3, <2>1, <3>2 DEF TabCopies
    <3> QED BY <3>1, <3>2
  <2> QED BY <2>1 DEF TabsCopy
<1>5. CASE tabs' = [tabs EXCEPT ![t] = NoTab]
  BY <1>2, <1>5 DEF TabCopies, NoTab
<1>6. CASE Open(t)
  BY <1>2, <1>6 DEF TabCopies, NoTab, Open, SetNoFault, Set
<1>7. CASE Load(t) \/ CheckClaim(t) \/ ClaimRejected(t) \/ Claim(t) \/ ClaimFails(t) \/ Close(t)
  <2>1. ASSUME NEW stage \in {"claiming", "checked"},
               tabs' = [tabs EXCEPT ![t] = [tabs[t] EXCEPT !.stage = stage]]
        PROVE  TabCopies(tabs[t])'
    BY <1>2, <2>1 DEF TabRecord, TabCopies
  <2>2. ASSUME NEW token, tabs[t].stage # "closed",
               tabs' = [tabs EXCEPT ![t] = Opened(tabs[t], Public(tabs[t].nonce), token)]
        PROVE  TabCopies(tabs[t])'
    <3>1. tabs'[t].nonce = tabs[t].nonce /\ tabs'[t].handoff = Public(tabs[t].nonce)
      BY <1>2, <2>2 DEF Opened, TabRecord
    <3> QED BY <2>2, <3>1, CopyTaken
  <2> QED BY <1>5, <1>7, <2>1, <2>2
          DEF Load, CheckClaim, ClaimRejected, Claim, ClaimFails, Close, SetNoFault, Set
<1>8. ASSUME tabs[t].stage = "open", tabs'[t].nonce = tabs[t].nonce,
             tabs'[t].handoff = tabs[t].handoff
      PROVE  TabCopies(tabs[t])'
  BY <1>8, CopyKept
<1>9. CASE \/ Inspect(t) \/ Clock(t) \/ Reads(t)
           \/ \E i \in 1 .. Len(tabs[t].reads) : ReadFails(t, i)
  <2>1. tabs[t].stage = "open"
    <3>1. tabs[t].stage # "open" => Len(tabs[t].reads) = 0
      BY <1>2, EmptySeq DEF TabBound
    <3>2. 1 .. 0 = {}
      OBVIOUS
    <3> QED BY <1>9, <3>1, <3>2 DEF Inspect, Clock, Reads
  <2>2. CASE Inspect(t) \/ Clock(t)
    BY <1>2, <1>8, <2>1, <2>2 DEF TabRecord, Inspect, Clock, SetNoFault, Set
  <2>3. ASSUME NEW i \in 1 .. Len(tabs[t].reads), ReadCompletes(t, i) \/ ReadFails(t, i)
        PROVE  TabCopies(tabs[t])'
    <3>1. CASE ReadCompletes(t, i)
      <4>1. tabs'[t].nonce = tabs[t].nonce /\ tabs'[t].handoff = tabs[t].handoff
        BY <1>2, <3>1 DEF TabRecord, ReadCompletes, SetNoFault, Set
      <4> QED BY <1>8, <2>1, <4>1
    <3>2. CASE ReadFails(t, i)
      <4>1. tabs'[t].nonce = tabs[t].nonce /\ tabs'[t].handoff = tabs[t].handoff
        BY <1>2, <3>2 DEF TabRecord, ReadFails, Set
      <4> QED BY <1>8, <2>1, <4>1
    <3> QED BY <2>3, <3>1, <3>2
  <2>4. ASSUME NEW i \in 1 .. Len(tabs[t].reads), NEW calls \in Batches, Answer(t, i, calls)
        PROVE  TabCopies(tabs[t])'
    BY <1>2, <1>8, <2>1, <2>4 DEF TabRecord, Answer, SetNoFault, Set
  <2> QED BY <1>9, <2>2, <2>3, <2>4 DEF Reads
<1>10. CASE \/ Sign(t, "start") \/ Sign(t, "end") \/ CheckReceipt(t)
            \/ ReceiptRejected(t) \/ ReceiptLost(t) \/ Submit(t)
  <2>1. tabs[t].stage = "open"
    BY <1>2, <1>10 DEF Sign, CanSign, CheckReceipt, ReceiptRejected, ReceiptLost, Submit, TabBound
  <2>2. ASSUME tabs' = [tabs EXCEPT ![t] = Settled(tabs[t])]
        PROVE  TabCopies(tabs[t])'
    BY <1>2, <1>8, <2>1, <2>2 DEF TabRecord, Settled
  <2>3. CASE Sign(t, "start") \/ Sign(t, "end")
    BY <1>2, <1>8, <2>1, <2>3 DEF TabRecord, Sign, SetNoFault, Set
  <2>4. ASSUME tabs' = [tabs EXCEPT ![t] = [tabs[t] EXCEPT !.asserted = TRUE]]
        PROVE  TabCopies(tabs[t])'
    BY <1>2, <1>8, <2>1, <2>4 DEF TabRecord
  <2>5. CASE CheckReceipt(t) \/ ReceiptRejected(t) \/ ReceiptLost(t)
    BY <2>2, <2>4, <2>5 DEF CheckReceipt, ReceiptRejected, ReceiptLost, SetNoFault, Set
  <2>6. ASSUME tabs' = [tabs EXCEPT ![t] = [Settled(tabs[t]) EXCEPT !.handoff =
                          [handoffs'[tabs[t].nonce] EXCEPT !.token = NoToken]]]
        PROVE  TabCopies(tabs[t])'
    <3>1. /\ tabs'[t].nonce = tabs[t].nonce
          /\ tabs'[t].handoff = [handoffs'[tabs[t].nonce] EXCEPT !.token = NoToken]
      BY <1>2, <2>6 DEF TabRecord, Settled
    <3>2. tabs'[t].handoff.orderId = handoffs'[tabs[t].nonce].orderId
          /\ tabs'[t].handoff.startReceipt = handoffs'[tabs[t].nonce].startReceipt
      BY <3>1
    <3> QED BY <3>1, <3>2 DEF TabCopies
  <2> QED BY <1>5, <1>10, <2>2, <2>3, <2>5, <2>6 DEF Submit, SetNoFault, Set
<1> QED BY <1>1, <1>6, <1>7, <1>9, <1>10 DEF Receives, Signs

LEMMA CopyStep ==
  ASSUME SessionInv, TabsCopy, [Next]_vars
  PROVE  TabsCopy'
<1>1. RowsKept
  BY SessionStep
<1>2. ASSUME UNCHANGED tabs
      PROVE  TabsCopy'
  <2> SUFFICES ASSUME NEW t \in Tab
               PROVE  TabCopies(tabs[t])'
    BY DEF TabsCopy
  <2>1. CASE tabs[t].stage = "open"
    BY <1>1, <1>2, <2>1, CopyKept
  <2>2. CASE tabs[t].stage # "open"
    BY <1>2, <2>2 DEF TabCopies
  <2> QED BY <2>1, <2>2
<1>3. CASE PageNext
  BY <1>1, <1>3, PageCopies
<1> QED BY <1>2, <1>3 DEF Next, vars, pageVars

\* Whatever answers are late or lost, a terminal enables the output only with
\* a start receipt the server holds for the order it reads, by the controller
\* it read, and with the token that order's handoff was claimed with.
THEOREM StoredStartEnables == Spec => []EnabledByStoredStart
<1>1. Init => TabsCopy
  BY DEF Init, PageInit, TabsCopy, TabCopies, NoTab
<1>2. SessionInv /\ TabsCopy /\ [Next]_vars => TabsCopy'
  BY CopyStep
<1>3. SessionInv /\ SessionInv' /\ HolderInv /\ [Next]_vars => HolderInv'
  BY HolderStep
<1>4. SessionInv /\ HolderInv /\ TabsCopy => EnabledByStoredStart
  <2> SUFFICES ASSUME SessionInv, HolderInv, TabsCopy, NEW t \in Tab, Enabled(t)
               PROVE  LET row == handoffs[tabs[t].nonce] IN
                        /\ row.startReceipt # NoReceipt
                        /\ row.startReceipt.controller = tabs[t].authorization.controller
                        /\ row.token = tabs[t].token
                        /\ tabs[t].authorization.authorizationId = row.orderId
    BY DEF EnabledByStoredStart
  <2>1. /\ tabs[t].stage = "open" /\ TabCopies(tabs[t]) /\ TabHolds(tabs[t])
        /\ DeriveDeviceSession(tabs[t]) \in {"active", "expiring"}
    BY DEF Enabled, TabsCopy, HolderInv, TabsHold
  <2>2. /\ ~ Refused(tabs[t]) /\ tabs[t].authorized /\ BoundToOrder(tabs[t])
        /\ tabs[t].handoff.startReceipt # NoReceipt
    BY <2>1 DEF DeriveDeviceSession
  <2>3. tabs[t].handoff.startReceipt.controller = tabs[t].authorization.controller
    BY <2>2 DEF Refused, ReceiptsVerify, VerifyUsageReceipt
  <2>4. handoffs[tabs[t].nonce].token = tabs[t].token
    BY <2>1 DEF TabHolds, HolderInv, StoredIsClaimed
  <2> QED BY <2>1, <2>2, <2>3, <2>4 DEF TabCopies, BoundToOrder
<1> QED BY <1>1, <1>2, <1>3, <1>4, HolderInit, SessionAlways, PTL DEF Spec
=============================================================================
